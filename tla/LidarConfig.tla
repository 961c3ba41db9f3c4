----------------------------- MODULE LidarConfig -----------------------------
(***************************************************************************)
(* How a lidar comes to be published: the SDK announces it, the driver     *)
(* sends one request per configured item, and the answers arrive in any    *)
(* order on an SDK thread (livox_lidar_callback.cpp).  set_bits holds the  *)
(* items not yet acknowledged; config_mutex_ makes each callback's part    *)
(* that touches it one step.                                               *)
(***************************************************************************)
EXTENDS Integers, FiniteSets

CONSTANTS Users,       \* lidars with an entry in lidar_configs
          UserItems,   \* [u]: the items that entry gives; the others parse to -1
          Strangers,   \* lidars on the network without an entry
          MaxLidars,   \* kMaxSourceLidar
          MaxInfo,     \* [h], bound: announcements of h
          Followed,    \* [h], bound: requests besides the items that are followed
          MaxFailures  \* bound: requests refused by a lidar

ConfigItems == {"data_type", "pattern_mode", "blind_spot", "dual_emit"}
(* What is asked for besides, and waited for by nobody                     *)
Sides == {"attitude", "work_mode", "imu_data"}
Requests == ConfigItems \cup Sides
Handles == Users \cup Strangers

ASSUME ConfigAssumption ==
    /\ IsFiniteSet(Handles) /\ Users \cap Strangers = {}
    /\ UserItems \in [Users -> SUBSET ConfigItems]
    /\ Followed \in [Handles -> SUBSET Sides]
    /\ MaxLidars \in Nat /\ MaxInfo \in [Handles -> Nat] /\ MaxFailures \in Nat

VARIABLES
    indexed,        \* the handles CacheIndex has an index for
    set_bits,       \* [h]: items sent and not acknowledged
    connect_state,  \* [h]: "off" or "sampling"
    pending,        \* [h][r]: requests the SDK has not called back yet
    announced,      \* [h]: announcements so far
    applied,        \* the lidars' own state [h]: requests they have carried out
    failed          \* history: <<h, r>> refused or given up

configVars == <<indexed, set_bits, connect_state, pending, announced, applied, failed>>

(* A device added without an entry keeps the zeros of static storage, and  *)
(* zero is not the -1 that says "leave this alone".                        *)
Items(h) == IF h \in Users THEN UserItems[h] ELSE ConfigItems

(* ParseUserConfigs and InitLivoxLidar: entries beyond the last free index *)
(* are left out.                                                           *)
ConfigInit == /\ indexed \in {S \in SUBSET Users :
                                \/ S = Users /\ Cardinality(S) <= MaxLidars
                                \/ Cardinality(S) = MaxLidars}
              /\ set_bits = [h \in Handles |-> {}]
              /\ connect_state = [h \in Handles |-> "off"]
              /\ pending = [h \in Handles |-> [r \in Requests |-> 0]]
              /\ announced = [h \in Handles |-> 0]
              /\ applied = [h \in Handles |-> {}]
              /\ failed = {}

Send(h, requests) ==
    pending' = [pending EXCEPT ![h] =
                   [r \in Requests |-> @[r] + (IF r \in requests THEN 1 ELSE 0)]]

-----------------------------------------------------------------------------
(* LidarInfoChangeCallback.  A device without an index gets one and keeps  *)
(* its items for the next announcement; without a free index nothing       *)
(* happens at all.  The attitude goes to the handle of the entry, which is *)
(* no lidar's if there is none.                                            *)
Announce(h) == announced[h] < MaxInfo[h] /\ announced' = [announced EXCEPT ![h] = @ + 1]

InfoOfKnownLidar(h) ==
    /\ h \in indexed
    /\ Announce(h)
    /\ set_bits' = [set_bits EXCEPT ![h] = @ \cup Items(h)]
    /\ Send(h, Items(h) \cup (Followed[h] \ (IF h \in Users THEN {} ELSE {"attitude"})))
    /\ UNCHANGED <<indexed, connect_state, applied, failed>>

InfoOfNewLidar(h) ==
    /\ h \notin indexed /\ Cardinality(indexed) < MaxLidars
    /\ Announce(h)
    /\ indexed' = indexed \cup {h}
    /\ Send(h, Followed[h] \ {"attitude"})
    /\ UNCHANGED <<set_bits, connect_state, applied, failed>>

InfoOfSurplusLidar(h) ==
    /\ h \notin indexed /\ Cardinality(indexed) = MaxLidars
    /\ Announce(h)
    /\ UNCHANGED <<indexed, set_bits, connect_state, pending, applied, failed>>

-----------------------------------------------------------------------------
(* The SDK's answers: pending[h][r] goes down by one, or the callback      *)
(* sends the request again.                                                *)
Answered(h, r) == pending[h][r] > 0 /\ pending' = [pending EXCEPT ![h][r] = @ - 1]

(* Mutants: the first confirmed item is enough; the items are looked at    *)
(* before the confirmed one is taken off.                                  *)
SetItemSucceededFirst(h, i) ==
    /\ Answered(h, i)
    /\ applied' = [applied EXCEPT ![h] = @ \cup {i}]
    /\ set_bits' = [set_bits EXCEPT ![h] = @ \ {i}]
    /\ connect_state' = [connect_state EXCEPT ![h] = "sampling"]
    /\ UNCHANGED <<indexed, announced, failed>>

SetItemSucceededEarly(h, i) ==
    /\ Answered(h, i)
    /\ applied' = [applied EXCEPT ![h] = @ \cup {i}]
    /\ set_bits' = [set_bits EXCEPT ![h] = @ \ {i}]
    /\ connect_state' = IF set_bits[h] = {}
                        THEN [connect_state EXCEPT ![h] = "sampling"] ELSE connect_state
    /\ UNCHANGED <<indexed, announced, failed>>

(* SetDataTypeCallback, SetPatternModeCallback, SetBlindSpotCallback and   *)
(* SetDualEmitCallback differ in the item only.  They go by the status of  *)
(* the exchange; response->ret_code, by which a lidar that answers may     *)
(* still decline, is never read: a success counts here as carried out.     *)
SetItemSucceeded(h, i) ==
    /\ Answered(h, i)
    /\ applied' = [applied EXCEPT ![h] = @ \cup {i}]
    /\ set_bits' = [set_bits EXCEPT ![h] = @ \ {i}]
    /\ connect_state' = IF set_bits'[h] = {}
                        THEN [connect_state EXCEPT ![h] = "sampling"] ELSE connect_state
    /\ UNCHANGED <<indexed, announced, failed>>

(* Mutants: a timeout is answered by two requests, or by none.             *)
SetItemTimedOutTwice(h, i) ==
    /\ pending[h][i] > 0
    /\ pending' = [pending EXCEPT ![h][i] = @ + 1]
    /\ UNCHANGED <<indexed, set_bits, connect_state, announced, applied, failed>>

SetItemTimedOutDropped(h, i) ==
    /\ Answered(h, i)
    /\ UNCHANGED <<indexed, set_bits, connect_state, announced, applied, failed>>

(* Sent again.  The lidar may have carried out the request whose answer    *)
(* was lost.                                                               *)
SetItemTimedOut(h, i) ==
    /\ pending[h][i] > 0
    /\ \E done \in {{}, {i}} : applied' = [applied EXCEPT ![h] = @ \cup done]
    /\ UNCHANGED <<indexed, set_bits, connect_state, pending, announced, failed>>

(* Any other status is logged, and the bit stays.                          *)
SetItemFailed(h, i) ==
    /\ Cardinality(failed) < MaxFailures
    /\ Answered(h, i)
    /\ failed' = failed \cup {<<h, i>>}
    /\ UNCHANGED <<indexed, set_bits, connect_state, announced, applied>>

(* SetAttitudeCallback, EnableLivoxLidarImuDataCallback and                *)
(* WorkModeChangedCallback                                                 *)
SideSucceeded(h, r) ==
    /\ Answered(h, r)
    /\ applied' = [applied EXCEPT ![h] = @ \cup {r}]
    /\ UNCHANGED <<indexed, set_bits, connect_state, announced, failed>>

(* Sent again on a timeout, the work mode, a second later, whatever the    *)
(* failure.                                                                *)
SideTimedOut(h, r) ==
    /\ pending[h][r] > 0
    /\ \E done \in {{}, {r}} : applied' = [applied EXCEPT ![h] = @ \cup done]
    /\ UNCHANGED <<indexed, set_bits, connect_state, pending, announced, failed>>

(* Any other failure of the others ends it, and so does an answer to the   *)
(* request for IMU data that comes without a response.                     *)
SideFailed(h, r) ==
    /\ r # "work_mode"
    /\ Answered(h, r)
    /\ \E done \in {{}, {r}} : applied' = [applied EXCEPT ![h] = @ \cup done]
    /\ UNCHANGED <<indexed, set_bits, connect_state, announced, failed>>

Quiet == /\ \A h \in Handles : announced[h] = MaxInfo[h] /\ \A r \in Requests : pending[h][r] = 0
         /\ UNCHANGED configVars

ConfigNext == \/ \E h \in Handles :
                   \/ InfoOfKnownLidar(h) \/ InfoOfNewLidar(h) \/ InfoOfSurplusLidar(h)
                   \/ \E i \in ConfigItems :
                        SetItemSucceeded(h, i) \/ SetItemTimedOut(h, i) \/ SetItemFailed(h, i)
                   \/ \E r \in Sides :
                        SideSucceeded(h, r) \/ SideTimedOut(h, r) \/ SideFailed(h, r)
              \/ Quiet

(* A configured lidar whose request is repeated answers it in the end.     *)
ConfigFairness == \A u \in Users : \A i \in UserItems[u] : SF_configVars(SetItemSucceeded(u, i))

ConfigSpec == ConfigInit /\ [][ConfigNext]_configVars
FairConfigSpec == ConfigSpec /\ ConfigFairness

-----------------------------------------------------------------------------
TypeOK ==
    /\ indexed \subseteq Handles
    /\ set_bits \in [Handles -> SUBSET ConfigItems]
    /\ connect_state \in [Handles -> {"off", "sampling"}]
    /\ \A h \in Handles : pending[h] \in [Requests -> 0..MaxInfo[h]]
    /\ \A h \in Handles : announced[h] \in 0..MaxInfo[h]
    /\ applied \in [Handles -> SUBSET Requests]
    /\ failed \subseteq Handles \X ConfigItems

(* A lidar's data are published only once the lidar has confirmed every    *)
(* item of its configuration, in whatever order the answers came, how      *)
(* often requests were repeated and the lidar announced again.             *)
SamplingMeansConfigured ==
    \A h \in Handles : connect_state[h] = "sampling" => Items(h) \subseteq applied[h]

(* No item is forgotten: one that is not confirmed has a request under way *)
(* or was refused by the lidar.                                            *)
NoOrphanBit ==
    \A h \in Handles : \A i \in set_bits[h] : pending[h][i] > 0 \/ <<h, i>> \in failed

(* A lidar with a configured item comes to be published, through timeouts, *)
(* unless it refuses a request.                                            *)
ConfiguredLidarSamples ==
    \A u \in Users :
        (u \in indexed /\ announced[u] > 0 /\ UserItems[u] # {})
            ~> (connect_state[u] = "sampling" \/ \E i \in ConfigItems : <<u, i>> \in failed)

(* The driver's README lists defaults for pcl_data_type and pattern_mode:  *)
(* an entry that leaves them out still gives a lidar that is published.    *)
DefaultsSuffice ==
    \A u \in Users :
        (u \in indexed /\ announced[u] > 0)
            ~> (connect_state[u] = "sampling" \/ \E i \in ConfigItems : <<u, i>> \in failed)
=============================================================================
