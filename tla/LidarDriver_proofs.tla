------------------------ MODULE LidarDriver_proofs ------------------------
(***************************************************************************)
(* Theorems about the threads of the lidar driver.  Why a lidar that is    *)
(* published is configured, for every number of lidars, every set of       *)
(* configured items and every order of the answers.  Why the ring of a     *)
(* lidar's packets needs no lock, for every width of the indices, every    *)
(* size that fits in it and any number of packets: the two threads keep    *)
(* off each other's slots, and together they do what a bounded FIFO does.  *)
(* And why no wakeup is lost between Lds, which fills the queues, and      *)
(* Lddc, which polls them, for every number of lidars and every size of    *)
(* their queues.                                                           *)
(***************************************************************************)
EXTENDS LidarConfig, LidarDataQueue, LidarDistribution, NumberFacts, SequenceTheorems, TLAPS

-----------------------------------------------------------------------------
(* The configuration of the lidars                                         *)

(* Requests are sent by announcements, so there are never more under way   *)
(* for one item.                                                           *)
ConfigTypes ==
    /\ indexed \subseteq Handles
    /\ set_bits \in [Handles -> SUBSET ConfigItems]
    /\ connect_state \in [Handles -> {"off", "sampling"}]
    /\ pending \in [Handles -> [Requests -> Nat]]
    /\ announced \in [Handles -> Nat]
    /\ \A h \in Handles : announced[h] <= MaxInfo[h]
    /\ \A h \in Handles : \A r \in Requests : pending[h][r] <= announced[h]
    /\ applied \in [Handles -> SUBSET Requests]
    /\ failed \subseteq Handles \X ConfigItems

(* While any answer may still come, each item is confirmed or still noted. *)
Noted ==
    \A h \in Handles : \A i \in ConfigItems :
        pending[h][i] > 0 => Items(h) \subseteq set_bits[h] \cup applied[h]

ConfigInv == ConfigTypes /\ Noted /\ SamplingMeansConfigured /\ NoOrphanBit

(* The items of a lidar are among the four.                                *)
LEMMA ItemsType ==
    ASSUME NEW h \in Handles
    PROVE  Items(h) \subseteq ConfigItems
BY ConfigAssumption DEF Items

(* The requests besides are for none of the four.                          *)
LEMMA SidesAreNoItems == \A i \in ConfigItems : i \in Requests /\ i \notin Sides
BY DEF ConfigItems, Sides, Requests

(* The registry starts without requests and with nothing noted.            *)
LEMMA ConfigInitially == ConfigInit => ConfigInv
<1>. SUFFICES ASSUME ConfigInit PROVE ConfigInv
  OBVIOUS
<1>1. indexed \subseteq Users /\ Users \subseteq Handles
  BY DEF ConfigInit, Handles
<1>2. ConfigTypes
  BY <1>1, ConfigAssumption DEF ConfigInit, ConfigTypes
<1>3. \A h \in Handles : \A i \in ConfigItems : pending[h][i] = 0
  BY SidesAreNoItems DEF ConfigInit
<1>4. Noted
  BY <1>3 DEF Noted
<1>. QED
  BY <1>2, <1>4 DEF ConfigInit, ConfigInv, Noted, SamplingMeansConfigured, NoOrphanBit

(* Requests sent: one more of each, and never more than announcements.     *)
LEMMA RequestsSent ==
    ASSUME ConfigTypes, NEW h \in Handles, NEW R \in SUBSET Requests, Send(h, R), Announce(h)
    PROVE  /\ announced' \in [Handles -> Nat]
           /\ \A g \in Handles : announced'[g] <= MaxInfo[g]
           /\ pending' \in [Handles -> [Requests -> Nat]]
           /\ \A g \in Handles : \A r \in Requests :
                 /\ pending'[g][r] <= announced'[g]
                 /\ pending'[g][r] =
                       pending[g][r] + (IF g = h /\ r \in R THEN 1 ELSE 0)
<1>1. /\ announced' \in [Handles -> Nat] /\ announced'[h] = announced[h] + 1
      /\ announced[h] < MaxInfo[h]
      /\ \A g \in Handles \ {h} : announced'[g] = announced[g]
  BY DEF ConfigTypes, Announce
<1>. DEFINE more == [r \in Requests |-> pending[h][r] + (IF r \in R THEN 1 ELSE 0)]
<1>2. more \in [Requests -> Nat]
  BY DEF ConfigTypes
<1>3. pending' = [pending EXCEPT ![h] = more]
  BY DEF Send
<1>4. /\ pending' \in [Handles -> [Requests -> Nat]]
      /\ \A r \in Requests : pending'[h][r] = pending[h][r] + (IF r \in R THEN 1 ELSE 0)
      /\ \A g \in Handles \ {h} : pending'[g] = pending[g]
  BY <1>2, <1>3 DEF ConfigTypes
<1>5. \A g \in Handles : announced'[g] <= MaxInfo[g]
  BY <1>1, ConfigAssumption, SMTT(40) DEF ConfigTypes
<1>6. ASSUME NEW g \in Handles, NEW r \in Requests
      PROVE  /\ pending'[g][r] <= announced'[g]
             /\ pending'[g][r] =
                   pending[g][r] + (IF g = h /\ r \in R THEN 1 ELSE 0)
  <2>1. pending[g][r] \in Nat /\ announced[g] \in Nat /\ pending[g][r] <= announced[g]
    BY DEF ConfigTypes
  <2>2. CASE g = h
    BY <1>1, <1>4, <2>1, <2>2
  <2>3. CASE g # h
    BY <1>1, <1>4, <2>1, <2>3
  <2>. QED
    BY <2>2, <2>3
<1>. QED
  BY <1>1, <1>4, <1>5, <1>6

(* An announcement sends the items and notes them.                         *)
LEMMA KnownLidarAnnounced ==
    ASSUME ConfigInv, NEW h \in Handles, InfoOfKnownLidar(h)
    PROVE  ConfigInv'
<1>. DEFINE R == Items(h) \cup (Followed[h] \ (IF h \in Users THEN {} ELSE {"attitude"}))
<1>1. Items(h) \subseteq ConfigItems
  BY ItemsType
<1>2. R \in SUBSET Requests /\ Items(h) \subseteq R
  BY <1>1, ConfigAssumption DEF Requests
<1>3. Send(h, R) /\ Announce(h)
  BY DEF InfoOfKnownLidar
<1>. HIDE DEF R
<1>4. /\ announced' \in [Handles -> Nat]
      /\ \A g \in Handles : announced'[g] <= MaxInfo[g]
      /\ pending' \in [Handles -> [Requests -> Nat]]
      /\ \A g \in Handles : \A r \in Requests :
            /\ pending'[g][r] <= announced'[g]
            /\ pending'[g][r] = pending[g][r] + (IF g = h /\ r \in R THEN 1 ELSE 0)
  BY <1>2, <1>3, RequestsSent DEF ConfigInv
<1>5. /\ set_bits' \in [Handles -> SUBSET ConfigItems]
      /\ set_bits'[h] = set_bits[h] \cup Items(h)
      /\ \A g \in Handles \ {h} : set_bits'[g] = set_bits[g]
      /\ UNCHANGED <<indexed, connect_state, applied, failed>>
  BY <1>1 DEF ConfigInv, ConfigTypes, InfoOfKnownLidar
<1>6. ConfigTypes'
  BY <1>4, <1>5 DEF ConfigInv, ConfigTypes
<1>7. Noted'
  <2>. SUFFICES ASSUME NEW g \in Handles, NEW i \in ConfigItems, pending'[g][i] > 0
                PROVE  Items(g) \subseteq set_bits'[g] \cup applied'[g]
    BY DEF Noted
  <2>1. CASE g = h
    BY <1>5, <2>1
  <2>2. CASE g # h
    <3>1. pending'[g][i] = pending[g][i] + 0 /\ pending[g][i] \in Nat
      BY <1>4, <2>2 DEF ConfigInv, ConfigTypes, Requests
    <3>2. pending[g][i] > 0
      BY <3>1
    <3>. QED
      BY <1>5, <2>2, <3>2 DEF ConfigInv, Noted
  <2>. QED
    BY <2>1, <2>2
<1>8. NoOrphanBit'
  <2>. SUFFICES ASSUME NEW g \in Handles, NEW i \in set_bits'[g]
                PROVE  pending'[g][i] > 0 \/ <<g, i>> \in failed'
    BY DEF NoOrphanBit
  <2>1. i \in ConfigItems /\ i \in Requests
    BY <1>5 DEF Requests
  <2>2. /\ pending[g][i] \in Nat
        /\ pending'[g][i] = pending[g][i] + (IF g = h /\ i \in R THEN 1 ELSE 0)
    BY <1>4, <2>1 DEF ConfigInv, ConfigTypes
  <2>3. CASE i \in set_bits[g]
    <3>1. pending[g][i] > 0 \/ <<g, i>> \in failed
      BY <2>3 DEF ConfigInv, NoOrphanBit
    <3>2. pending[g][i] > 0 => pending'[g][i] > 0
      BY <2>2
    <3>. QED
      BY <1>5, <3>1, <3>2
  <2>4. CASE i \notin set_bits[g]
    <3>1. g = h /\ i \in R
      BY <1>2, <1>5, <2>4
    <3>. QED
      BY <2>2, <3>1
  <2>. QED
    BY <2>3, <2>4
<1>9. SamplingMeansConfigured'
  BY <1>5 DEF ConfigInv, SamplingMeansConfigured
<1>. QED
  BY <1>6, <1>7, <1>8, <1>9 DEF ConfigInv

(* A device without an entry is only given an index, or nothing at all.    *)
LEMMA OtherLidarAnnounced ==
    ASSUME ConfigInv, NEW h \in Handles, InfoOfNewLidar(h) \/ InfoOfSurplusLidar(h)
    PROVE  ConfigInv'
<1>. DEFINE R == Followed[h] \ {"attitude"}
<1>1. /\ Announce(h) /\ indexed' \subseteq Handles
      /\ UNCHANGED <<set_bits, connect_state, applied, failed>>
      /\ Send(h, R) \/ pending' = pending
  BY DEF ConfigInv, ConfigTypes, InfoOfNewLidar, InfoOfSurplusLidar
<1>2. R \in SUBSET Sides /\ R \in SUBSET Requests
  BY ConfigAssumption DEF Requests
<1>. HIDE DEF R
<1>3. /\ announced' \in [Handles -> Nat]
      /\ \A g \in Handles : announced'[g] <= MaxInfo[g] /\ announced[g] <= announced'[g]
  <2>1. /\ announced' \in [Handles -> Nat] /\ announced'[h] = announced[h] + 1
        /\ announced[h] < MaxInfo[h]
        /\ \A g \in Handles \ {h} : announced'[g] = announced[g]
    BY <1>1 DEF ConfigInv, ConfigTypes, Announce
  <2>2. ASSUME NEW g \in Handles
        PROVE  announced'[g] <= MaxInfo[g] /\ announced[g] <= announced'[g]
    <3>1. announced[g] \in Nat /\ MaxInfo[g] \in Nat /\ announced[g] <= MaxInfo[g]
      BY ConfigAssumption DEF ConfigInv, ConfigTypes
    <3>. QED
      BY <2>1, <3>1
  <2>. QED
    BY <2>1, <2>2
<1>4. /\ pending' \in [Handles -> [Requests -> Nat]]
      /\ \A g \in Handles : \A r \in Requests : pending'[g][r] <= announced'[g]
      /\ \A g \in Handles : \A i \in ConfigItems : pending'[g][i] = pending[g][i]
  <2>1. CASE Send(h, R)
    <3>1. /\ pending' \in [Handles -> [Requests -> Nat]]
          /\ \A g \in Handles : \A r \in Requests :
                /\ pending'[g][r] <= announced'[g]
                /\ pending'[g][r] = pending[g][r] + (IF g = h /\ r \in R THEN 1 ELSE 0)
      BY <1>1, <1>2, <2>1, RequestsSent DEF ConfigInv
    <3>2. ASSUME NEW g \in Handles, NEW i \in ConfigItems
          PROVE  pending'[g][i] = pending[g][i]
      <4>1. i \in Requests /\ i \notin R
        BY <1>2, SidesAreNoItems
      <4>2. pending[g][i] \in Nat /\ pending'[g][i] = pending[g][i] + 0
        BY <3>1, <4>1 DEF ConfigInv, ConfigTypes
      <4>. QED
        BY <4>2
    <3>. QED
      BY <3>1, <3>2
  <2>2. CASE pending' = pending
    <3>1. ASSUME NEW g \in Handles, NEW r \in Requests
          PROVE  pending'[g][r] <= announced'[g]
      <4>1. pending[g][r] \in Nat /\ pending[g][r] <= announced[g] /\ announced[g] \in Nat
        BY DEF ConfigInv, ConfigTypes
      <4>2. announced[g] <= announced'[g] /\ announced'[g] \in Nat /\ pending'[g][r] = pending[g][r]
        BY <1>3, <2>2
      <4>. QED
        BY <4>1, <4>2
    <3>. QED
      BY <2>2, <3>1 DEF ConfigInv, ConfigTypes
  <2>. QED
    BY <1>1, <2>1, <2>2
<1>5. ConfigTypes'
  BY <1>1, <1>3, <1>4 DEF ConfigInv, ConfigTypes
<1>6. Noted'
  BY <1>1, <1>4 DEF ConfigInv, Noted
<1>7. SamplingMeansConfigured'
  BY <1>1 DEF ConfigInv, SamplingMeansConfigured
<1>8. NoOrphanBit'
  <2>1. \A g \in Handles : set_bits'[g] \subseteq ConfigItems
    BY <1>5 DEF ConfigTypes
  <2>. QED
    BY <1>1, <1>4, <2>1 DEF ConfigInv, NoOrphanBit
<1>. QED
  BY <1>5, <1>6, <1>7, <1>8 DEF ConfigInv

(* An answer leaves one request fewer.                                     *)
LEMMA AnswerTaken ==
    ASSUME ConfigTypes, NEW h \in Handles, NEW i \in Requests, Answered(h, i),
           announced' = announced
    PROVE  /\ pending' \in [Handles -> [Requests -> Nat]]
           /\ pending[h][i] > 0
           /\ \A g \in Handles : \A j \in Requests :
                 /\ pending'[g][j] <= announced'[g]
                 /\ <<g, j>> # <<h, i>> => pending'[g][j] = pending[g][j]
                 /\ pending'[g][j] > 0 => pending[g][j] > 0
<1>1. pending[h] \in [Requests -> Nat] /\ pending[h][i] \in Nat /\ pending[h][i] > 0
  BY DEF ConfigTypes, Answered
<1>2. pending[h][i] - 1 \in Nat
  BY <1>1
<1>. DEFINE fewer == [pending[h] EXCEPT ![i] = pending[h][i] - 1]
<1>3. fewer \in [Requests -> Nat] /\ pending' = [pending EXCEPT ![h] = fewer]
  BY <1>1, <1>2 DEF Answered
<1>4. /\ fewer[i] = pending[h][i] - 1
      /\ \A j \in Requests \ {i} : fewer[j] = pending[h][j]
  BY <1>1
<1>. HIDE DEF fewer
<1>5. /\ pending' \in [Handles -> [Requests -> Nat]] /\ pending'[h] = fewer
      /\ \A g \in Handles \ {h} : pending'[g] = pending[g]
  BY <1>3 DEF ConfigTypes
<1>6. ASSUME NEW g \in Handles, NEW j \in Requests
      PROVE  /\ pending'[g][j] <= announced'[g]
             /\ <<g, j>> # <<h, i>> => pending'[g][j] = pending[g][j]
             /\ pending'[g][j] > 0 => pending[g][j] > 0
  <2>1. pending[g][j] \in Nat /\ announced[g] \in Nat /\ pending[g][j] <= announced[g]
    BY DEF ConfigTypes
  <2>2. CASE g = h /\ j = i
    BY <1>1, <1>4, <1>5, <2>1, <2>2
  <2>3. CASE ~(g = h /\ j = i)
    BY <1>4, <1>5, <2>1, <2>3
  <2>. QED
    BY <2>2, <2>3
<1>. QED
  BY <1>1, <1>5, <1>6

(* A confirmed item goes from the noted to the confirmed ones; the state   *)
(* is set when none is left, and then all of them are confirmed.           *)
LEMMA ItemConfirmed ==
    ASSUME ConfigInv, NEW h \in Handles, NEW i \in ConfigItems, SetItemSucceeded(h, i)
    PROVE  ConfigInv'
<1>1. /\ pending' \in [Handles -> [Requests -> Nat]]
      /\ pending[h][i] > 0
      /\ \A g \in Handles : \A j \in Requests :
            /\ pending'[g][j] <= announced'[g]
            /\ <<g, j>> # <<h, i>> => pending'[g][j] = pending[g][j]
            /\ pending'[g][j] > 0 => pending[g][j] > 0
  BY AnswerTaken, SidesAreNoItems DEF ConfigInv, SetItemSucceeded
<1>2. /\ applied' \in [Handles -> SUBSET Requests] /\ applied'[h] = applied[h] \cup {i}
      /\ set_bits' \in [Handles -> SUBSET ConfigItems] /\ set_bits'[h] = set_bits[h] \ {i}
      /\ \A g \in Handles \ {h} : applied'[g] = applied[g] /\ set_bits'[g] = set_bits[g]
      /\ UNCHANGED <<indexed, announced, failed>>
  BY SidesAreNoItems DEF ConfigInv, ConfigTypes, SetItemSucceeded
<1>3. /\ connect_state' \in [Handles -> {"off", "sampling"}]
      /\ \A g \in Handles : connect_state'[g] = "sampling" =>
            connect_state[g] = "sampling" \/ (g = h /\ set_bits'[h] = {})
  BY DEF ConfigInv, ConfigTypes, SetItemSucceeded
<1>4. ConfigTypes'
  BY <1>1, <1>2, <1>3 DEF ConfigInv, ConfigTypes
<1>5. \A g \in Handles : set_bits[g] \cup applied[g] \subseteq set_bits'[g] \cup applied'[g]
  BY <1>2
<1>6. Noted'
  BY <1>1, <1>5, SidesAreNoItems DEF ConfigInv, Noted
<1>7. SamplingMeansConfigured'
  <2>. SUFFICES ASSUME NEW g \in Handles, connect_state'[g] = "sampling"
                PROVE  Items(g) \subseteq applied'[g]
    BY DEF SamplingMeansConfigured
  <2>1. applied[g] \subseteq applied'[g]
    BY <1>2
  <2>2. CASE connect_state[g] = "sampling"
    BY <2>1, <2>2 DEF ConfigInv, SamplingMeansConfigured
  <2>3. CASE g = h /\ set_bits'[h] = {}
    BY <1>1, <1>5, <2>3 DEF ConfigInv, Noted
  <2>. QED
    BY <1>3, <2>2, <2>3
<1>8. NoOrphanBit'
  <2>. SUFFICES ASSUME NEW g \in Handles, NEW j \in set_bits'[g]
                PROVE  pending'[g][j] > 0 \/ <<g, j>> \in failed'
    BY DEF NoOrphanBit
  <2>1. j \in ConfigItems /\ j \in set_bits[g] /\ <<g, j>> # <<h, i>>
    BY <1>2
  <2>. QED
    BY <1>1, <1>2, <2>1, SidesAreNoItems DEF ConfigInv, NoOrphanBit
<1>. QED
  BY <1>4, <1>6, <1>7, <1>8 DEF ConfigInv

(* A request sent again changes nothing here, even if the lidar had        *)
(* carried it out.                                                         *)
LEMMA ItemSentAgain ==
    ASSUME ConfigInv, NEW h \in Handles, NEW i \in ConfigItems, SetItemTimedOut(h, i)
    PROVE  ConfigInv'
<1>1. PICK done \in {{}, {i}} : applied' = [applied EXCEPT ![h] = @ \cup done]
  BY DEF SetItemTimedOut
<1>2. /\ applied' \in [Handles -> SUBSET Requests]
      /\ \A g \in Handles : applied[g] \subseteq applied'[g]
  BY <1>1, SidesAreNoItems DEF ConfigInv, ConfigTypes
<1>3. UNCHANGED <<indexed, set_bits, connect_state, pending, announced, failed>>
  BY DEF SetItemTimedOut
<1>4. ConfigTypes'
  BY <1>2, <1>3 DEF ConfigInv, ConfigTypes
<1>. QED
  BY <1>2, <1>3, <1>4 DEF ConfigInv, Noted, SamplingMeansConfigured, NoOrphanBit

(* A refused item stays noted, and is known to have been refused.          *)
LEMMA ItemRefused ==
    ASSUME ConfigInv, NEW h \in Handles, NEW i \in ConfigItems, SetItemFailed(h, i)
    PROVE  ConfigInv'
<1>1. /\ pending' \in [Handles -> [Requests -> Nat]]
      /\ \A g \in Handles : \A j \in Requests :
            /\ pending'[g][j] <= announced'[g]
            /\ <<g, j>> # <<h, i>> => pending'[g][j] = pending[g][j]
            /\ pending'[g][j] > 0 => pending[g][j] > 0
  BY AnswerTaken, SidesAreNoItems DEF ConfigInv, SetItemFailed
<1>2. /\ failed' = failed \cup {<<h, i>>}
      /\ UNCHANGED <<indexed, set_bits, connect_state, announced, applied>>
  BY DEF SetItemFailed
<1>3. ConfigTypes'
  BY <1>1, <1>2 DEF ConfigInv, ConfigTypes
<1>4. NoOrphanBit'
  <2>. SUFFICES ASSUME NEW g \in Handles, NEW j \in set_bits[g]
                PROVE  pending'[g][j] > 0 \/ <<g, j>> \in failed'
    BY <1>2 DEF NoOrphanBit
  <2>1. j \in ConfigItems
    BY DEF ConfigInv, ConfigTypes
  <2>. QED
    BY <1>1, <1>2, <2>1, SidesAreNoItems DEF ConfigInv, NoOrphanBit
<1>. QED
  BY <1>1, <1>2, <1>3, <1>4, SidesAreNoItems DEF ConfigInv, Noted, SamplingMeansConfigured

(* The answers to the other requests touch neither the noted items nor the *)
(* state of the lidar.                                                     *)
LEMMA SideAnswered ==
    ASSUME ConfigInv, NEW h \in Handles, NEW r \in Sides,
           SideSucceeded(h, r) \/ SideTimedOut(h, r) \/ SideFailed(h, r)
    PROVE  ConfigInv'
<1>. USE DEF SideSucceeded, SideTimedOut, SideFailed
<1>1. r \in Requests
  BY DEF Requests
<1>2. UNCHANGED <<indexed, set_bits, connect_state, announced, failed>>
  OBVIOUS
<1>3. PICK done \in {{}, {r}} : applied' = [applied EXCEPT ![h] = @ \cup done]
  OBVIOUS
<1>4. Answered(h, r) \/ pending' = pending
  OBVIOUS
<1>. HIDE DEF SideSucceeded, SideTimedOut, SideFailed
<1>5. /\ applied' \in [Handles -> SUBSET Requests]
      /\ \A g \in Handles : applied[g] \subseteq applied'[g]
  BY <1>1, <1>3 DEF ConfigInv, ConfigTypes
<1>6. /\ pending' \in [Handles -> [Requests -> Nat]]
      /\ \A g \in Handles : \A j \in Requests : pending'[g][j] <= announced'[g]
      /\ \A g \in Handles : \A i \in ConfigItems : pending'[g][i] = pending[g][i]
  <2>1. CASE pending' = pending
    BY <1>2, <2>1 DEF ConfigInv, ConfigTypes
  <2>2. CASE Answered(h, r)
    <3>1. \A i \in ConfigItems : i \in Requests /\ i # r
      BY SidesAreNoItems
    <3>. QED
      BY <1>1, <1>2, <2>2, <3>1, AnswerTaken DEF ConfigInv
  <2>. QED
    BY <1>4, <2>1, <2>2
<1>7. ConfigTypes'
  BY <1>2, <1>5, <1>6 DEF ConfigInv, ConfigTypes
<1>8. Noted'
  BY <1>2, <1>5, <1>6 DEF ConfigInv, Noted
<1>9. SamplingMeansConfigured'
  BY <1>2, <1>5 DEF ConfigInv, SamplingMeansConfigured
<1>10. NoOrphanBit'
  <2>1. \A g \in Handles : set_bits'[g] \subseteq ConfigItems
    BY <1>7 DEF ConfigTypes
  <2>. QED
    BY <1>2, <1>6, <2>1 DEF ConfigInv, NoOrphanBit
<1>. QED
  BY <1>7, <1>8, <1>9, <1>10 DEF ConfigInv

-----------------------------------------------------------------------------
(* Every step keeps the invariant.                                         *)
LEMMA ConfigInductive == ConfigInv /\ [ConfigNext]_configVars => ConfigInv'
<1>. SUFFICES ASSUME ConfigInv, [ConfigNext]_configVars PROVE ConfigInv'
  OBVIOUS
<1>1. ASSUME NEW h \in Handles, InfoOfKnownLidar(h)
      PROVE  ConfigInv'
  BY <1>1, KnownLidarAnnounced
<1>2. ASSUME NEW h \in Handles, InfoOfNewLidar(h) \/ InfoOfSurplusLidar(h)
      PROVE  ConfigInv'
  BY <1>2, OtherLidarAnnounced
<1>3. ASSUME NEW h \in Handles, NEW i \in ConfigItems, SetItemSucceeded(h, i)
      PROVE  ConfigInv'
  BY <1>3, ItemConfirmed
<1>4. ASSUME NEW h \in Handles, NEW i \in ConfigItems, SetItemTimedOut(h, i)
      PROVE  ConfigInv'
  BY <1>4, ItemSentAgain
<1>5. ASSUME NEW h \in Handles, NEW i \in ConfigItems, SetItemFailed(h, i)
      PROVE  ConfigInv'
  BY <1>5, ItemRefused
<1>6. ASSUME NEW h \in Handles, NEW r \in Sides,
             SideSucceeded(h, r) \/ SideTimedOut(h, r) \/ SideFailed(h, r)
      PROVE  ConfigInv'
  BY <1>6, SideAnswered
<1>7. CASE UNCHANGED configVars
  BY <1>7 DEF configVars, ConfigInv, ConfigTypes, Noted, SamplingMeansConfigured, NoOrphanBit
<1>. QED
  BY <1>1, <1>2, <1>3, <1>4, <1>5, <1>6, <1>7, Zenon DEF ConfigNext, Quiet

(* Every state is well typed; a lidar has at most one request per item and *)
(* announcement under way.                                                 *)
THEOREM TypeCorrect == ConfigSpec => []TypeOK
<1>1. ASSUME ConfigInv PROVE TypeOK
  <2>1. ASSUME NEW h \in Handles
        PROVE  pending[h] \in [Requests -> 0..MaxInfo[h]] /\ announced[h] \in 0..MaxInfo[h]
    <3>1. MaxInfo[h] \in Nat /\ announced[h] \in Nat /\ announced[h] <= MaxInfo[h]
      BY <1>1, ConfigAssumption DEF ConfigInv, ConfigTypes
    <3>2. pending[h] \in [Requests -> Nat]
      BY <1>1 DEF ConfigInv, ConfigTypes
    <3>3. \A i \in Requests : pending[h][i] <= MaxInfo[h]
      <4>. SUFFICES ASSUME NEW i \in Requests PROVE pending[h][i] <= MaxInfo[h]
        OBVIOUS
      <4>1. pending[h][i] <= announced[h] /\ pending[h][i] \in Nat
        BY <1>1, <3>2 DEF ConfigInv, ConfigTypes
      <4>. QED
        BY <3>1, <4>1
    <3>. QED
      BY <3>1, <3>2, <3>3
  <2>. QED
    BY <1>1, <2>1 DEF ConfigInv, ConfigTypes, TypeOK
<1>. QED
  BY <1>1, ConfigInitially, ConfigInductive, PTL DEF ConfigSpec

(* A lidar is published only with every item of its configuration          *)
(* confirmed: the callbacks of livox_lidar_callback.cpp, in any order.     *)
THEOREM OnlyConfiguredLidarsSample == ConfigSpec => []SamplingMeansConfigured
<1>1. ConfigInv => SamplingMeansConfigured
  BY DEF ConfigInv
<1>. QED
  BY <1>1, ConfigInitially, ConfigInductive, PTL DEF ConfigSpec

(* An item not confirmed has a request under way or was refused: no        *)
(* timeout and no repeated announcement loses one.                         *)
THEOREM NoItemForgotten == ConfigSpec => []NoOrphanBit
<1>1. ConfigInv => NoOrphanBit
  BY DEF ConfigInv
<1>. QED
  BY <1>1, ConfigInitially, ConfigInductive, PTL DEF ConfigSpec

-----------------------------------------------------------------------------
(* The ring of a lidar's packets, and the two threads at its ends          *)

RingTypes ==
    /\ storage \in BOOLEAN
    /\ slots \in [0..(RingSize - 1) -> Slot]
    /\ rd_idx \in 0..(W - 1) /\ wr_idx \in 0..(W - 1)
    /\ mask \in {0, RingSize - 1}
    /\ pushPc \in {"idle", "init", "check", "header", "points", "advance"}
    /\ packet \in 1..(MaxPackets + 1)
    /\ popPc \in {"idle", "header", "points", "advance"}
    /\ pkg \in Slot /\ popped \in Slot

Created == storage /\ pushPc # "init"

(* Before InitQueue has run nothing was pushed and nothing is polled.      *)
Creation ==
    IF Created THEN mask = RingSize - 1
    ELSE /\ rd_idx = 0 /\ wr_idx = 0 /\ popPc = "idle"
         /\ pushPc = IF storage THEN "init" ELSE "idle"

Pushing == pushPc \in {"header", "points", "advance"}
Popping == popPc \in {"header", "points", "advance"}

(* What each thread found out about the indices stays true while it acts   *)
(* on it: only the consumer makes room, and only the producer fills it.    *)
Room ==
    /\ Used <= RingSize
    /\ Pushing => Used < RingSize
    /\ Popping => Used > 0
    /\ pushPc # "idle" => packet <= MaxPackets

(* The i-th of the packets waiting, counted from 0                         *)
Place(i) == (rd_idx + i) % RingSize

Torn(s) == s.header # s.points

(* Slots between the indices are whole; the one being filled or emptied is *)
(* as far as its thread has come.                                          *)
Contents ==
    /\ \A i \in 0..(Used - 1) : ~Torn(slots[Place(i)])
    /\ pushPc \in {"points", "advance"} => slots[wr_idx % RingSize].header = packet
    /\ pushPc = "advance" => slots[wr_idx % RingSize].points = packet
    /\ popPc \in {"points", "advance"} => pkg.header = slots[rd_idx % RingSize].header
    /\ popPc = "advance" => pkg.points = slots[rd_idx % RingSize].points
    /\ ~Torn(popped)

RingInv == RingTypes /\ Creation /\ Room /\ Contents

-----------------------------------------------------------------------------
(* The size is a power of two that is at least what was asked for, and W   *)
(* is a multiple of it, at least twice as much.                            *)
LEMMA Sizes ==
    /\ RingSize \in Nat \ {0} /\ W \in Nat \ {0} /\ RingSize < W
    /\ \E k \in Nat \ {0} : W = RingSize * k
<1>. DEFINE S == {p \in {2^i : i \in 0..(Bits - 1)} : Requested <= p}
<1>1. Bits \in Nat \ {0} /\ Bits - 1 \in Nat /\ Requested \in 1..2^(Bits - 1)
  BY QueueAssumption
<1>2. S \subseteq Nat
  BY <1>1, PowerPositive
<1>3. 2^(Bits - 1) \in S
  BY <1>1, PowerPositive
<1>4. PICK q \in S : \A p \in S : q <= p
  BY <1>2, <1>3, LeastExists
<1>5. RingSize \in S
  <2>1. RingSize = CHOOSE l \in S : \A p \in S : l <= p
    BY DEF RingSize, RoundupPowerOf2, Min
  <2>. HIDE DEF S
  <2>. QED
    BY <1>4, <2>1
<1>6. PICK i \in 0..(Bits - 1) : RingSize = 2^i
  BY <1>5
<1>7. i \in Nat /\ Bits - i \in Nat /\ (Bits - i) - 1 \in Nat /\ i + ((Bits - i) - 1) = Bits - 1
  BY <1>1
<1>8. PICK k \in Nat \ {0} : 2^(Bits - 1) = RingSize * k
  <2>1. \E k \in Nat \ {0} : 2^(i + ((Bits - i) - 1)) = 2^i * k
    BY <1>7, PowersDivide
  <2>. QED
    BY <1>6, <1>7, <2>1, Zenon
<1>9. W = 2 * 2^(Bits - 1)
  <2>1. (Bits - 1) + 1 = Bits
    BY <1>1
  <2>. QED
    BY <1>1, <2>1, PowerDoubles DEF W
<1>10. RingSize \in Nat \ {0}
  BY <1>6, <1>7, PowerPositive
<1>11. W = RingSize * (2 * k) /\ 2 * k \in Nat \ {0}
  BY <1>8, <1>9, <1>10
<1>12. RingSize < W
  <2>1. RingSize * k >= RingSize /\ RingSize * k \in Nat /\ W = 2 * (RingSize * k)
    BY <1>8, <1>9, <1>10
  <2>. QED
    BY <1>10, <2>1
<1>. QED
  BY <1>10, <1>11, <1>12

(* One push is one more, one pop is one less, wherever the indices wrap.   *)
LEMMA OneMore ==
    ASSUME NEW r \in 0..(W - 1), NEW w \in 0..(W - 1), ((w - r) % W) < W - 1
    PROVE  (((w + 1) % W) - r) % W = ((w - r) % W) + 1
<1>1. W \in Nat \ {0}
  BY Sizes
<1>2. w + 1 \in Int /\ -r \in Int /\ w - r \in Int
  BY <1>1
<1>3. (((w + 1) % W) + (-r)) % W = ((w + 1) + (-r)) % W
  BY <1>1, <1>2, RemainderInside
<1>4. (w + 1) % W \in Int
  BY <1>1, <1>2, Division
<1>5. /\ ((w + 1) % W) + (-r) = ((w + 1) % W) - r
      /\ (w + 1) + (-r) = (w - r) + 1
  BY <1>1, <1>2, <1>4
<1>6. ((w - r) + 1) % W = ((w - r) % W) + 1
  BY <1>1, <1>2, RemainderSteps
<1>. QED
  BY <1>3, <1>5, <1>6

LEMMA OneLess ==
    ASSUME NEW r \in 0..(W - 1), NEW w \in 0..(W - 1), (w - r) % W > 0
    PROVE  (w - ((r + 1) % W)) % W = ((w - r) % W) - 1
<1>1. W \in Nat \ {0}
  BY Sizes
<1>2. r + 1 \in Int /\ w \in Int /\ w - r \in Int /\ w - (r + 1) = (w - r) - 1
  BY <1>1
<1>3. (w - ((r + 1) % W)) % W = (w - (r + 1)) % W
  BY <1>1, <1>2, RemainderInside
<1>4. ((w - r) - 1) % W = ((w - r) % W) - 1
  BY <1>1, <1>2, RemainderSteps
<1>. QED
  BY <1>2, <1>3, <1>4

(* The distance of two indices is one.                                     *)
LEMMA DistanceType ==
    ASSUME NEW r \in 0..(W - 1), NEW w \in 0..(W - 1)
    PROVE  (w - r) % W \in 0..(W - 1)
<1>1. W \in Nat \ {0} /\ w - r \in Int
  BY Sizes
<1>. QED
  BY <1>1, Division

(* Masking sees nothing of the wrap-around.                                *)
LEMMA Masking ==
    ASSUME NEW a \in Int, NEW i \in Int
    PROVE  ((a % W) + i) % RingSize = (a + i) % RingSize
<1>1. PICK k \in Nat \ {0} : W = RingSize * k
  BY Sizes
<1>2. RingSize \in Nat \ {0}
  BY Sizes
<1>3. ((a % (RingSize * k)) + i) % RingSize = (a + i) % RingSize
  BY <1>2, RemainderOfMultiple
<1>. QED
  BY <1>1, <1>3

(* The producer's slot is the one behind the packets waiting, ...          *)
LEMMA SlotOfProducer ==
    ASSUME NEW r \in 0..(W - 1), NEW w \in 0..(W - 1)
    PROVE  w % RingSize = (r + ((w - r) % W)) % RingSize
<1>1. W \in Nat \ {0} /\ w - r \in Int /\ r \in Int /\ (w - r) + r = w
  BY Sizes
<1>2. (w - r) % W \in Int
  BY DistanceType
<1>3. ((w - r) % W) + r = r + ((w - r) % W)
  BY <1>1, <1>2
<1>4. (((w - r) % W) + r) % RingSize = ((w - r) + r) % RingSize
  BY <1>1, Masking
<1>. QED
  BY <1>1, <1>3, <1>4

(* ... and the consumer's slots follow one another.                        *)
LEMMA SlotsAfterPop ==
    ASSUME NEW r \in 0..(W - 1), NEW i \in Int
    PROVE  (((r + 1) % W) + i) % RingSize = (r + (i + 1)) % RingSize
<1>1. r + 1 \in Int /\ (r + 1) + i = r + (i + 1)
  BY Sizes
<1>. QED
  BY <1>1, Masking

(* Fewer than RingSize apart they are different slots.                    *)
LEMMA SlotsDiffer ==
    ASSUME NEW r \in Int, NEW i \in Int, NEW j \in Int, i < j, j - i < RingSize
    PROVE  (r + i) % RingSize # (r + j) % RingSize
<1>1. RingSize \in Nat \ {0}
  BY Sizes
<1>2. j - i \in 1..(RingSize - 1) /\ r + i \in Int /\ (r + i) + (j - i) = r + j
  BY <1>1
<1>. QED
  BY <1>1, <1>2, RemaindersDiffer

-----------------------------------------------------------------------------
(* Once the queue is created the mask takes an index to its slot.          *)
LEMMA MaskedWhenCreated ==
    ASSUME RingInv, Created, NEW i \in Int
    PROVE  Masked(i) = i % RingSize /\ i % RingSize \in 0..(RingSize - 1)
<1>1. mask = RingSize - 1 /\ RingSize \in Nat \ {0}
  BY Sizes DEF RingInv, Creation
<1>2. mask + 1 = RingSize
  BY <1>1
<1>. QED
  BY <1>1, <1>2, Division DEF Masked

LEMMA UsedType == ASSUME RingTypes PROVE Used \in 0..(W - 1)
  BY DistanceType DEF RingTypes, Used

(* The producer's slot is none of those waiting; the consumer's is the     *)
(* first of them.                                                          *)
LEMMA SlotsApart ==
    ASSUME RingInv, Pushing
    PROVE  /\ \A i \in 0..(Used - 1) : Place(i) # wr_idx % RingSize
           /\ Popping => rd_idx % RingSize # wr_idx % RingSize
<1>1. Used \in Int /\ RingSize \in Int /\ Used < RingSize /\ rd_idx \in Int
  BY UsedType, Sizes DEF RingInv, Room, RingTypes
<1>2. wr_idx % RingSize = Place(Used)
  BY SlotOfProducer DEF Place, Used, RingInv, RingTypes
<1>3. ASSUME NEW i \in 0..(Used - 1) PROVE Place(i) # wr_idx % RingSize
  <2>1. i \in Int /\ i < Used /\ Used - i < RingSize
    BY <1>1
  <2>2. (rd_idx + i) % RingSize # (rd_idx + Used) % RingSize
    BY <1>1, <2>1, SlotsDiffer
  <2>. QED
    BY <1>2, <2>2 DEF Place
<1>4. ASSUME Popping PROVE rd_idx % RingSize # wr_idx % RingSize
  <2>1. 0 \in 0..(Used - 1) /\ rd_idx + 0 = rd_idx
    BY <1>1, <1>4 DEF RingInv, Room
  <2>. QED
    BY <1>3, <2>1 DEF Place
<1>. QED
  BY <1>3, <1>4

LEMMA RingInitially == ASSUME RingInit PROVE RingInv
<1>. USE DEF RingInit
<1>1. RingSize \in Nat \ {0} /\ W \in Nat \ {0} /\ RingSize < W
  BY Sizes
<1>2. MaxPackets \in Nat /\ NoPacket \in Slot /\ ~Torn(NoPacket)
  BY QueueAssumption DEF NoPacket, Slot, Torn
<1>3. RingTypes
  <2>1. slots \in [0..(RingSize - 1) -> Slot] /\ pkg \in Slot /\ popped \in Slot
    BY <1>2
  <2>2. 0 \in 0..(W - 1) /\ 1 \in 1..(MaxPackets + 1)
    BY <1>1, <1>2
  <2>. QED
    BY <2>1, <2>2 DEF RingTypes
<1>4. Creation
  BY DEF Creation, Created
<1>5. Used = 0
  <2>1. wr_idx - rd_idx = 0 /\ 0 \in 0..(W - 1)
    BY <1>1
  <2>. QED
    BY <1>1, <2>1, RemainderUnique DEF Used
<1>6. Room
  BY <1>1, <1>5 DEF Room, Pushing, Popping
<1>7. Contents
  BY <1>2, <1>5 DEF Contents
<1>. QED
  BY <1>3, <1>4, <1>6, <1>7 DEF RingInv

(* A step that leaves the indices and the slots alone keeps what they hold.*)
LEMMA SameRing ==
    ASSUME UNCHANGED <<slots, rd_idx, wr_idx>>
    PROVE  Used' = Used /\ \A i : Place(i)' = Place(i)
  BY DEF Used, Place

LEMMA PushLidarDataInv == ASSUME RingInv, PushLidarData PROVE RingInv'
<1>. USE DEF PushLidarData, consumer
<1>1. Used' = Used /\ \A i : Place(i)' = Place(i)
  BY SameRing
<1>2. RingTypes'
  BY DEF RingInv, RingTypes
<1>3. Creation'
  BY DEF RingInv, RingTypes, Creation, Created
<1>4. Room'
  BY <1>1 DEF RingInv, RingTypes, Room, Pushing, Popping
<1>5. Contents'
  BY <1>1 DEF RingInv, Contents, Torn
<1>. QED
  BY <1>2, <1>3, <1>4, <1>5 DEF RingInv

LEMMA InitQueueInv == ASSUME RingInv, InitQueue PROVE RingInv'
<1>. USE DEF InitQueue, consumer
<1>1. rd_idx = 0 /\ wr_idx = 0 /\ popPc = "idle"
  BY DEF RingInv, Creation, Created
<1>2. Used' = Used /\ \A i : Place(i)' = Place(i)
  BY <1>1, SameRing
<1>3. RingTypes'
  BY Sizes DEF RingInv, RingTypes
<1>4. Creation'
  BY <1>1 DEF RingInv, RingTypes, Creation, Created
<1>5. Room'
  BY <1>2 DEF RingInv, RingTypes, Room, Pushing, Popping
<1>6. Contents'
  BY <1>1, <1>2 DEF RingInv, Contents, Torn
<1>. QED
  BY <1>3, <1>4, <1>5, <1>6 DEF RingInv

LEMMA CheckFullInv == ASSUME RingInv, CheckFull PROVE RingInv'
<1>. USE DEF CheckFull, consumer
<1>1. Used' = Used /\ \A i : Place(i)' = Place(i)
  BY SameRing
<1>2. Created /\ mask = RingSize - 1
  BY DEF RingInv, Creation, Created
<1>3. packet \in 1..MaxPackets /\ MaxPackets \in Nat
  BY QueueAssumption DEF RingInv, RingTypes, Room
<1>4. RingTypes'
  BY <1>3 DEF RingInv, RingTypes
<1>5. Creation'
  BY <1>2 DEF RingInv, Creation, Created
<1>6. Room'
  BY <1>1, <1>2, <1>3, UsedType, Sizes DEF RingInv, Room, Pushing, Popping, QueueIsFull
<1>7. Contents'
  BY <1>1 DEF RingInv, Contents, Torn
<1>. QED
  BY <1>4, <1>5, <1>6, <1>7 DEF RingInv

LEMMA PushHeaderInv == ASSUME RingInv, PushHeader PROVE RingInv'
<1>. USE DEF PushHeader, consumer
<1>. DEFINE w == wr_idx % RingSize
<1>1. Created /\ Pushing
  BY DEF RingInv, Creation, Created, Pushing
<1>2. Masked(wr_idx) = w /\ w \in 0..(RingSize - 1)
  BY <1>1, MaskedWhenCreated DEF RingInv, RingTypes
<1>3. slots' = [slots EXCEPT ![w].header = packet]
  BY <1>2
<1>4. packet \in 0..MaxPackets
  BY QueueAssumption DEF RingInv, RingTypes, Room
<1>5. slots \in [0..(RingSize - 1) -> Slot]
  BY DEF RingInv, RingTypes
<1>. HIDE DEF w
<1>6. slots'[w] = [slots[w] EXCEPT !.header = packet] /\ slots[w] \in Slot
  BY <1>2, <1>3, <1>5
<1>7. \A s : s # w => slots'[s] = slots[s]
  BY <1>2, <1>3, <1>5
<1>8. slots'[w] \in Slot /\ slots'[w].header = packet
  BY <1>4, <1>6 DEF Slot
<1>9. slots' \in [0..(RingSize - 1) -> Slot]
  BY <1>2, <1>3, <1>4, <1>5 DEF Slot
<1>10. Used' = Used /\ \A i : Place(i)' = Place(i)
  BY DEF Used, Place
<1>11. RingTypes'
  BY <1>9 DEF RingInv, RingTypes
<1>12. Creation'
  BY <1>1 DEF RingInv, Creation, Created
<1>13. Room'
  BY <1>10 DEF RingInv, Room, Pushing, Popping
<1>14. /\ \A i \in 0..(Used - 1) : Place(i) # w
       /\ Popping => rd_idx % RingSize # w
  BY <1>1, SlotsApart DEF w
<1>15. Contents'
  <2>1. \A i \in 0..(Used' - 1) : ~Torn(slots'[Place(i)'])
    BY <1>7, <1>10, <1>14 DEF RingInv, Contents
  <2>2. slots'[wr_idx' % RingSize].header = packet'
    BY <1>8 DEF w
  <2>3. Popping => slots'[rd_idx' % RingSize] = slots[rd_idx % RingSize]
    BY <1>7, <1>14
  <2>. QED
    BY <2>1, <2>2, <2>3 DEF RingInv, Contents, Popping, Torn
<1>. QED
  BY <1>11, <1>12, <1>13, <1>15 DEF RingInv

LEMMA PushPointsInv == ASSUME RingInv, PushPoints PROVE RingInv'
<1>. USE DEF PushPoints, consumer
<1>. DEFINE w == wr_idx % RingSize
<1>1. Created /\ Pushing
  BY DEF RingInv, Creation, Created, Pushing
<1>2. Masked(wr_idx) = w /\ w \in 0..(RingSize - 1)
  BY <1>1, MaskedWhenCreated DEF RingInv, RingTypes
<1>3. slots' = [slots EXCEPT ![w].points = packet]
  BY <1>2
<1>4. packet \in 0..MaxPackets
  BY QueueAssumption DEF RingInv, RingTypes, Room
<1>5. slots \in [0..(RingSize - 1) -> Slot]
  BY DEF RingInv, RingTypes
<1>6. slots[w].header = packet
  BY DEF RingInv, Contents
<1>. HIDE DEF w
<1>7. slots'[w] = [slots[w] EXCEPT !.points = packet] /\ slots[w] \in Slot
  BY <1>2, <1>3, <1>5
<1>8. \A s : s # w => slots'[s] = slots[s]
  BY <1>2, <1>3, <1>5
<1>9. slots'[w].points = packet /\ slots'[w].header = packet
  BY <1>4, <1>6, <1>7 DEF Slot
<1>10. slots' \in [0..(RingSize - 1) -> Slot]
  BY <1>2, <1>3, <1>4, <1>5 DEF Slot
<1>11. Used' = Used /\ \A i : Place(i)' = Place(i)
  BY DEF Used, Place
<1>12. RingTypes'
  BY <1>10 DEF RingInv, RingTypes
<1>13. Creation'
  BY <1>1 DEF RingInv, Creation, Created
<1>14. Room'
  BY <1>11 DEF RingInv, Room, Pushing, Popping
<1>15. /\ \A i \in 0..(Used - 1) : Place(i) # w
       /\ Popping => rd_idx % RingSize # w
  BY <1>1, SlotsApart DEF w
<1>16. Contents'
  <2>1. \A i \in 0..(Used' - 1) : ~Torn(slots'[Place(i)'])
    BY <1>8, <1>11, <1>15 DEF RingInv, Contents
  <2>2. slots'[wr_idx' % RingSize].header = packet' /\ slots'[wr_idx' % RingSize].points = packet'
    BY <1>9 DEF w
  <2>3. Popping => slots'[rd_idx' % RingSize] = slots[rd_idx % RingSize]
    BY <1>8, <1>15
  <2>. QED
    BY <2>1, <2>2, <2>3 DEF RingInv, Contents, Popping, Torn
<1>. QED
  BY <1>12, <1>13, <1>14, <1>16 DEF RingInv

LEMMA UsedAfterPush ==
    ASSUME RingInv, PushAdvance
    PROVE  Used' = Used + 1 /\ Used < RingSize
<1>1. Used < RingSize /\ RingSize < W /\ Used \in Int /\ RingSize \in Int /\ W \in Int
  BY UsedType, Sizes DEF RingInv, Room, Pushing, PushAdvance
<1>2. rd_idx \in 0..(W - 1) /\ wr_idx \in 0..(W - 1) /\ (wr_idx - rd_idx) % W < W - 1
  BY <1>1 DEF RingInv, RingTypes, Used
<1>3. (((wr_idx + 1) % W) - rd_idx) % W = ((wr_idx - rd_idx) % W) + 1
  BY <1>2, OneMore
<1>. QED
  BY <1>1, <1>3 DEF Used, PushAdvance

LEMMA PushAdvanceInv == ASSUME RingInv, PushAdvance PROVE RingInv'
<1>. USE DEF PushAdvance, consumer
<1>1. Created
  BY DEF RingInv, Creation, Created
<1>2. Used' = Used + 1 /\ Used < RingSize /\ Used \in Nat /\ RingSize \in Nat
  BY UsedAfterPush, UsedType, Sizes DEF RingInv
<1>3. packet \in 1..MaxPackets /\ MaxPackets \in Nat
  BY QueueAssumption DEF RingInv, RingTypes, Room
<1>4. wr_idx' \in 0..(W - 1)
  <2>1. wr_idx + 1 \in Int /\ W \in Nat \ {0}
    BY Sizes DEF RingInv, RingTypes
  <2>. QED
    BY <2>1, Division
<1>5. RingTypes'
  BY <1>3, <1>4 DEF RingInv, RingTypes
<1>6. Creation'
  BY <1>1 DEF RingInv, Creation, Created
<1>7. Room'
  BY <1>2, <1>3 DEF RingInv, Room, Pushing, Popping
<1>8. ASSUME NEW i \in 0..(Used' - 1) PROVE ~Torn(slots'[Place(i)'])
  <2>1. CASE i = Used
    <3>1. Place(i)' = wr_idx % RingSize
      BY <2>1, SlotOfProducer DEF Place, Used, RingInv, RingTypes
    <3>. QED
      BY <3>1 DEF RingInv, Contents, Torn
  <2>2. CASE i # Used
    <3>1. i \in 0..(Used - 1)
      BY <1>2, <2>2
    <3>. QED
      BY <3>1 DEF RingInv, Contents, Torn, Place
  <2>. QED
    BY <2>1, <2>2
<1>9. Contents'
  BY <1>8 DEF RingInv, Contents, Torn
<1>. QED
  BY <1>5, <1>6, <1>7, <1>9 DEF RingInv

(* The consumer's part                                                     *)
LEMMA PollInv == ASSUME RingInv, Poll PROVE RingInv'
<1>. USE DEF Poll, producer
<1>1. Created
  BY DEF RingInv, Creation, Created, QueueIsEmpty
<1>2. Used' = Used /\ \A i : Place(i)' = Place(i)
  BY SameRing
<1>3. Used > 0
  <2>1. rd_idx \in 0..(W - 1) /\ wr_idx \in 0..(W - 1) /\ rd_idx # wr_idx
    BY DEF RingInv, RingTypes, QueueIsEmpty
  <2>2. W \in Nat \ {0} /\ rd_idx % W = rd_idx /\ wr_idx % W = wr_idx
    BY <2>1, Sizes, RemainderUnique
  <2>3. ASSUME Used = 0 PROVE FALSE
    <3>. wr_idx - rd_idx \in Int /\ rd_idx \in Int
      BY <2>1
    <3>1. (((wr_idx - rd_idx) % W) + rd_idx) % W = ((wr_idx - rd_idx) + rd_idx) % W
      BY <2>2, RemainderInside
    <3>2. ((wr_idx - rd_idx) % W) + rd_idx = rd_idx /\ (wr_idx - rd_idx) + rd_idx = wr_idx
      BY <2>1, <2>3 DEF Used
    <3>. QED
      BY <2>1, <2>2, <3>1, <3>2
  <2>. QED
    BY <2>3, UsedType DEF RingInv
<1>4. RingTypes'
  BY DEF RingInv, RingTypes
<1>5. Creation'
  BY <1>1 DEF RingInv, Creation, Created
<1>6. Room'
  BY <1>2, <1>3 DEF RingInv, Room, Pushing, Popping
<1>7. Contents'
  BY <1>2 DEF RingInv, Contents, Torn
<1>. QED
  BY <1>4, <1>5, <1>6, <1>7 DEF RingInv

LEMMA PopHeaderInv == ASSUME RingInv, PopHeader PROVE RingInv'
<1>. USE DEF PopHeader, producer
<1>1. Created
  BY DEF RingInv, Creation, Created
<1>2. Used' = Used /\ \A i : Place(i)' = Place(i)
  BY SameRing
<1>3. Masked(rd_idx) = rd_idx % RingSize /\ rd_idx % RingSize \in 0..(RingSize - 1)
  BY <1>1, MaskedWhenCreated DEF RingInv, RingTypes
<1>4. slots[rd_idx % RingSize] \in Slot /\ pkg \in Slot
  BY <1>3 DEF RingInv, RingTypes
<1>5. pkg' \in Slot /\ pkg'.header = slots[rd_idx % RingSize].header
  BY <1>3, <1>4 DEF Slot
<1>6. RingTypes'
  BY <1>5 DEF RingInv, RingTypes
<1>7. Creation'
  BY <1>1 DEF RingInv, Creation, Created
<1>8. Room'
  BY <1>2 DEF RingInv, Room, Pushing, Popping
<1>9. Contents'
  BY <1>2, <1>5 DEF RingInv, Contents, Torn
<1>. QED
  BY <1>6, <1>7, <1>8, <1>9 DEF RingInv

LEMMA PopPointsInv == ASSUME RingInv, PopPoints PROVE RingInv'
<1>. USE DEF PopPoints, producer
<1>1. Created
  BY DEF RingInv, Creation, Created
<1>2. Used' = Used /\ \A i : Place(i)' = Place(i)
  BY SameRing
<1>3. Masked(rd_idx) = rd_idx % RingSize /\ rd_idx % RingSize \in 0..(RingSize - 1)
  BY <1>1, MaskedWhenCreated DEF RingInv, RingTypes
<1>4. slots[rd_idx % RingSize] \in Slot /\ pkg \in Slot
  BY <1>3 DEF RingInv, RingTypes
<1>5. pkg.header = slots[rd_idx % RingSize].header
  BY DEF RingInv, Contents
<1>6. /\ pkg' \in Slot /\ pkg'.header = slots[rd_idx % RingSize].header
      /\ pkg'.points = slots[rd_idx % RingSize].points
  BY <1>3, <1>4, <1>5 DEF Slot
<1>7. RingTypes'
  BY <1>6 DEF RingInv, RingTypes
<1>8. Creation'
  BY <1>1 DEF RingInv, Creation, Created
<1>9. Room'
  BY <1>2 DEF RingInv, Room, Pushing, Popping
<1>10. Contents'
  BY <1>2, <1>6 DEF RingInv, Contents, Torn
<1>. QED
  BY <1>7, <1>8, <1>9, <1>10 DEF RingInv

(* What was read piece by piece is the first of the packets waiting.       *)
LEMMA ReadFirst ==
    ASSUME RingInv, PopAdvance
    PROVE  /\ Used > 0 /\ Used' = Used - 1
           /\ pkg.header = slots[Place(0)].header /\ pkg.points = slots[Place(0)].points
           /\ ~Torn(slots[Place(0)])
<1>1. Used > 0 /\ Used \in Nat
  BY UsedType, Sizes DEF RingInv, Room, Popping, PopAdvance
<1>2. rd_idx \in 0..(W - 1) /\ wr_idx \in 0..(W - 1)
  BY DEF RingInv, RingTypes
<1>3. (wr_idx - ((rd_idx + 1) % W)) % W = ((wr_idx - rd_idx) % W) - 1
  BY <1>1, <1>2, OneLess DEF Used
<1>4. rd_idx + 0 = rd_idx /\ 0 \in 0..(Used - 1)
  BY <1>1, <1>2, Sizes
<1>5. Place(0) = rd_idx % RingSize
  BY <1>4 DEF Place
<1>6. Used' = Used - 1
  BY <1>3 DEF Used, PopAdvance
<1>7. /\ pkg.header = slots[Place(0)].header /\ pkg.points = slots[Place(0)].points
      /\ ~Torn(slots[Place(0)])
  BY <1>4, <1>5 DEF RingInv, Contents, PopAdvance
<1>. QED
  BY <1>1, <1>6, <1>7

LEMMA PlaceAfterPop ==
    ASSUME RingInv, PopAdvance, NEW i \in Int
    PROVE  Place(i)' = Place(i + 1)
<1>1. (((rd_idx + 1) % W) + i) % RingSize = (rd_idx + (i + 1)) % RingSize
  BY SlotsAfterPop DEF RingInv, RingTypes
<1>. QED
  BY <1>1 DEF Place, PopAdvance

LEMMA PopAdvanceInv == ASSUME RingInv, PopAdvance PROVE RingInv'
<1>. USE DEF PopAdvance, producer
<1>1. Created
  BY DEF RingInv, Creation, Created
<1>2. Used > 0 /\ Used' = Used - 1 /\ Used \in Nat /\ RingSize \in Nat
  BY ReadFirst, UsedType, Sizes DEF RingInv
<1>3. rd_idx' \in 0..(W - 1)
  <2>1. rd_idx + 1 \in Int /\ W \in Nat \ {0}
    BY Sizes DEF RingInv, RingTypes
  <2>. QED
    BY <2>1, Division
<1>4. RingTypes'
  BY <1>3 DEF RingInv, RingTypes
<1>5. Creation'
  BY <1>1 DEF RingInv, Creation, Created
<1>6. Room'
  BY <1>2 DEF RingInv, Room, Pushing, Popping
<1>7. ASSUME NEW i \in 0..(Used' - 1) PROVE ~Torn(slots'[Place(i)'])
  <2>1. i \in Int /\ i + 1 \in 0..(Used - 1)
    BY <1>2
  <2>2. Place(i)' = Place(i + 1)
    BY <2>1, PlaceAfterPop
  <2>. QED
    BY <2>1, <2>2 DEF RingInv, Contents
<1>8. ~Torn(popped')
  BY ReadFirst DEF Torn
<1>9. Contents'
  BY <1>7, <1>8 DEF RingInv, Contents
<1>. QED
  BY <1>4, <1>5, <1>6, <1>9 DEF RingInv

LEMMA RingInvariance == RingSpec => []RingInv
<1>1. RingInit => RingInv
  BY RingInitially
<1>2. RingInv /\ [RingNext]_ringVars => RingInv'
  <2>. SUFFICES ASSUME RingInv, [RingNext]_ringVars PROVE RingInv'
    OBVIOUS
  <2>1. CASE RingNext
    BY <2>1, PushLidarDataInv, InitQueueInv, CheckFullInv, PushHeaderInv, PushPointsInv,
       PushAdvanceInv, PollInv, PopHeaderInv, PopPointsInv, PopAdvanceInv DEF RingNext, Push, Pop
  <2>2. CASE UNCHANGED ringVars
    <3>1. UNCHANGED <<storage, slots, rd_idx, wr_idx, mask, pushPc, packet, popPc, pkg, popped>>
      BY <2>2 DEF ringVars, producer, consumer
    <3>2. Used' = Used /\ \A i : Place(i)' = Place(i)
      BY <3>1, SameRing
    <3>3. RingTypes' /\ Creation'
      BY <3>1 DEF RingInv, RingTypes, Creation, Created
    <3>4. Room'
      BY <3>1, <3>2 DEF RingInv, Room, Pushing, Popping
    <3>5. Contents'
      BY <3>1, <3>2 DEF RingInv, Contents, Torn
    <3>. QED
      BY <3>3, <3>4, <3>5 DEF RingInv
  <2>. QED
    BY <2>1, <2>2
<1>. QED
  BY <1>1, <1>2, PTL DEF RingSpec

(* The producer never writes the slot the consumer is reading, for every   *)
(* width of the free-running indices, wrapped around or not: the mask sees *)
(* nothing of the wrap, and fewer than RingSize lie between the two slots.*)
THEOREM NeverSameSlot == RingSpec => []NoDataRace
<1>1. ASSUME RingInv PROVE NoDataRace
  <2>. SUFFICES ASSUME pushPc \in {"header", "points"}, popPc \in {"header", "points"}
                PROVE  Masked(wr_idx) # Masked(rd_idx)
    BY DEF NoDataRace
  <2>1. Pushing /\ Popping /\ Created
    BY <1>1 DEF Pushing, Popping, Created, RingInv, Creation
  <2>2. Masked(wr_idx) = wr_idx % RingSize /\ Masked(rd_idx) = rd_idx % RingSize
    BY <1>1, <2>1, MaskedWhenCreated DEF RingInv, RingTypes
  <2>3. rd_idx % RingSize # wr_idx % RingSize
    BY <1>1, <2>1, SlotsApart
  <2>. QED
    BY <2>2, <2>3
<1>. QED
  BY <1>1, RingInvariance, PTL

-----------------------------------------------------------------------------
(* The FIFO, packet by packet                                              *)
Holding ==
    /\ Waiting \in Seq(0..(MaxPackets + 1)) /\ Len(Waiting) = Used
    /\ \A i \in 1..Used : Waiting[i] = Whole(slots[Place(i - 1)])

LEMMA WaitingHolds == RingInv => Holding
<1>. SUFFICES ASSUME RingInv PROVE Holding
  OBVIOUS
<1>1. Used \in Nat
  BY UsedType, Sizes DEF RingInv
<1>2. ASSUME NEW i \in 1..Used
      PROVE  /\ Masked(rd_idx + i - 1) = Place(i - 1)
             /\ Whole(slots[Place(i - 1)]) \in 0..(MaxPackets + 1)
  <2>1. Created
    <3>. SUFFICES ASSUME ~Created PROVE Used = 0
      BY <1>1
    <3>1. wr_idx - rd_idx = 0
      BY DEF RingInv, Creation
    <3>2. W \in Nat \ {0} /\ 0 \in 0..(W - 1)
      BY Sizes
    <3>. QED
      BY <3>1, <3>2, RemainderUnique DEF Used
  <2>2. rd_idx + i - 1 = rd_idx + (i - 1) /\ rd_idx + i - 1 \in Int
    BY DEF RingInv, RingTypes
  <2>3. Masked(rd_idx + i - 1) = Place(i - 1) /\ Place(i - 1) \in 0..(RingSize - 1)
    BY <2>1, <2>2, MaskedWhenCreated DEF Place
  <2>4. slots[Place(i - 1)] \in Slot
    BY <2>3 DEF RingInv, RingTypes
  <2>. QED
    BY <2>3, <2>4, QueueAssumption DEF Whole, Slot
<1>3. Waiting = [i \in 1..Used |-> Whole(slots[Place(i - 1)])]
  BY <1>2 DEF Waiting
<1>. QED
  BY <1>1, <1>2, <1>3 DEF Holding

LEMMA WaitingHoldsNext == RingInv' => Holding'
  BY WaitingHolds, PTL

(* As long as the indices stay and the slots waiting keep what they hold,  *)
(* the FIFO has not changed.                                               *)
LEMMA SameWaiting ==
    ASSUME RingInv, RingInv', UNCHANGED <<rd_idx, wr_idx>>,
           \A i \in 0..(Used - 1) : slots'[Place(i)] = slots[Place(i)]
    PROVE  Waiting' = Waiting
<1>1. Used' = Used /\ \A i : Place(i)' = Place(i)
  BY DEF Used, Place
<1>2. Used \in Nat
  BY UsedType, Sizes DEF RingInv
<1>3. ASSUME NEW i \in 1..Used PROVE Waiting'[i] = Waiting[i]
  <2>1. i - 1 \in 0..(Used - 1)
    BY <1>2
  <2>2. Waiting[i] = Whole(slots[Place(i - 1)])
    BY WaitingHolds DEF Holding
  <2>3. Waiting'[i] = Whole(slots'[Place(i - 1)'])
    BY <1>1, WaitingHoldsNext DEF Holding, Whole
  <2>. QED
    BY <1>1, <2>1, <2>2, <2>3
<1>4. Len(Waiting') = Used /\ Len(Waiting) = Used
  BY <1>1, WaitingHolds, WaitingHoldsNext DEF Holding
<1>5. Waiting \in Seq(0..(MaxPackets + 1)) /\ Waiting' \in Seq(0..(MaxPackets + 1))
  BY WaitingHolds, WaitingHoldsNext DEF Holding
<1>. QED
  BY <1>3, <1>4, <1>5, SeqEqual

LEMMA PutSimulated == ASSUME RingInv, RingInv', PushAdvance PROVE Fifo!Put
<1>1. Used' = Used + 1 /\ Used < RingSize /\ Used \in Nat
  BY UsedAfterPush, UsedType, Sizes DEF RingInv
<1>2. /\ Waiting \in Seq(0..(MaxPackets + 1)) /\ Len(Waiting) = Used
      /\ \A i \in 1..Used : Waiting[i] = Whole(slots[Place(i - 1)])
  BY WaitingHolds DEF Holding
<1>3. /\ Waiting' \in Seq(0..(MaxPackets + 1)) /\ Len(Waiting') = Used + 1
      /\ \A i \in 1..(Used + 1) : Waiting'[i] = Whole(slots'[Place(i - 1)'])
  BY <1>1, WaitingHoldsNext DEF Holding, Whole
<1>4. slots' = slots /\ \A i : Place(i)' = Place(i)
  BY DEF PushAdvance, Place
<1>5. packet \in 1..MaxPackets
  BY QueueAssumption DEF RingInv, RingTypes, Room, PushAdvance
<1>6. Waiting'[Used + 1] = packet
  <2>1. Place(Used) = wr_idx % RingSize
    BY SlotOfProducer DEF Place, Used, RingInv, RingTypes
  <2>2. (Used + 1) - 1 = Used /\ Used + 1 \in 1..(Used + 1)
    BY <1>1
  <2>3. slots[Place(Used)].header = packet /\ slots[Place(Used)].points = packet
    BY <2>1 DEF RingInv, Contents, PushAdvance
  <2>. QED
    BY <1>3, <1>4, <2>2, <2>3 DEF Whole
<1>7. Append(Waiting, packet) = Waiting'
  <2>1. packet \in 0..(MaxPackets + 1)
    BY <1>5, QueueAssumption
  <2>2. /\ Append(Waiting, packet) \in Seq(0..(MaxPackets + 1))
        /\ Len(Append(Waiting, packet)) = Used + 1
    BY <1>2, <2>1, SMTT(40)
  <2>3. ASSUME NEW i \in 1..(Used + 1) PROVE Append(Waiting, packet)[i] = Waiting'[i]
    <3>1. CASE i = Used + 1
      BY <1>2, <1>6, <3>1
    <3>2. CASE i # Used + 1
      <4>1. i \in 1..Used
        BY <1>1, <3>2
      <4>2. Append(Waiting, packet)[i] = Waiting[i]
        BY <1>2, <4>1
      <4>. QED
        BY <1>2, <1>3, <1>4, <4>1, <4>2
    <3>. QED
      BY <3>1, <3>2
  <2>. QED
    BY <1>3, <2>2, <2>3, SeqEqual
<1>8. Whole(popped)' = Whole(popped) /\ packet' = packet + 1
  BY DEF PushAdvance, consumer, Whole
<1>. QED
  BY <1>1, <1>2, <1>5, <1>7, <1>8 DEF Fifo!Put

LEMMA DropSimulated ==
    ASSUME RingInv, RingInv', CheckFull, QueueIsFull
    PROVE  Fifo!Drop
<1>1. mask = RingSize - 1
  BY DEF RingInv, Creation, Created, CheckFull
<1>2. Used = RingSize
  BY <1>1, UsedType, Sizes DEF RingInv, Room, QueueIsFull
<1>3. Len(Waiting) = RingSize
  BY <1>2, WaitingHolds DEF Holding
<1>4. Waiting' = Waiting
  BY SameWaiting DEF CheckFull
<1>5. packet <= MaxPackets /\ packet' = packet + 1
  BY DEF RingInv, Room, CheckFull
<1>6. Whole(popped)' = Whole(popped)
  BY DEF CheckFull, consumer, Whole
<1>. QED
  BY <1>3, <1>4, <1>5, <1>6 DEF Fifo!Drop

LEMMA TakeSimulated == ASSUME RingInv, RingInv', PopAdvance PROVE Fifo!Take
<1>1. Used > 0 /\ Used' = Used - 1 /\ Used \in Nat
  BY ReadFirst, UsedType, Sizes DEF RingInv
<1>2. /\ Waiting \in Seq(0..(MaxPackets + 1)) /\ Len(Waiting) = Used
      /\ \A i \in 1..Used : Waiting[i] = Whole(slots[Place(i - 1)])
  BY WaitingHolds DEF Holding
<1>3. /\ Waiting' \in Seq(0..(MaxPackets + 1)) /\ Len(Waiting') = Used - 1
      /\ \A i \in 1..(Used - 1) : Waiting'[i] = Whole(slots'[Place(i - 1)'])
  BY <1>1, WaitingHoldsNext DEF Holding, Whole
<1>4. Waiting # <<>> /\ Head(Waiting) = Waiting[1]
  BY <1>1, <1>2
<1>5. Whole(popped)' = Head(Waiting)
  <2>1. 1 - 1 = 0 /\ 1 \in 1..Used
    BY <1>1
  <2>2. Waiting[1] = Whole(slots[Place(0)])
    BY <1>2, <2>1
  <2>3. popped' = pkg
    BY DEF PopAdvance
  <2>. QED
    BY <1>4, <2>2, <2>3, ReadFirst DEF Whole
<1>6. Tail(Waiting) = Waiting'
  <2>1. Tail(Waiting) \in Seq(0..(MaxPackets + 1)) /\ Len(Tail(Waiting)) = Used - 1
    BY <1>1, <1>2, <1>4
  <2>2. ASSUME NEW i \in 1..(Used - 1) PROVE Tail(Waiting)[i] = Waiting'[i]
    <3>1. Tail(Waiting)[i] = Waiting[i + 1] /\ i + 1 \in 1..Used /\ (i + 1) - 1 = (i - 1) + 1
      BY <1>1, <1>2
    <3>2. Place(i - 1)' = Place((i - 1) + 1)
      BY PlaceAfterPop
    <3>3. slots' = slots
      BY DEF PopAdvance
    <3>. QED
      BY <1>2, <1>3, <3>1, <3>2, <3>3
  <2>. QED
    BY <1>3, <2>1, <2>2, SeqEqual
<1>7. UNCHANGED packet
  BY DEF PopAdvance, producer
<1>. QED
  BY <1>4, <1>5, <1>6, <1>7 DEF Fifo!Take

(* Every other step is one the FIFO does not see.                          *)
LEMMA OthersStutter ==
    ASSUME RingInv, RingInv',
           \/ PushLidarData \/ InitQueue \/ (CheckFull /\ ~QueueIsFull) \/ PushHeader \/ PushPoints
           \/ Poll \/ PopHeader \/ PopPoints \/ UNCHANGED ringVars
    PROVE  UNCHANGED Fifo!vars
<1>1. packet' = packet /\ popped' = popped
  BY DEF PushLidarData, InitQueue, CheckFull, PushHeader, PushPoints, Poll, PopHeader, PopPoints,
         ringVars, producer, consumer
<1>2. UNCHANGED <<rd_idx, wr_idx>>
  <2>1. CASE InitQueue
    BY <2>1 DEF InitQueue, RingInv, Creation, Created
  <2>. QED
    BY <2>1 DEF PushLidarData, CheckFull, PushHeader, PushPoints, Poll, PopHeader, PopPoints, ringVars
<1>3. ASSUME NEW i \in 0..(Used - 1) PROVE slots'[Place(i)] = slots[Place(i)]
  <2>1. CASE PushHeader \/ PushPoints
    <3>1. Pushing /\ Created
      BY <2>1 DEF PushHeader, PushPoints, Pushing, RingInv, Creation, Created
    <3>2. Masked(wr_idx) = wr_idx % RingSize
      BY <3>1, MaskedWhenCreated DEF RingInv, RingTypes
    <3>3. Place(i) # wr_idx % RingSize
      BY <3>1, SlotsApart
    <3>4. CASE PushHeader
      <4>1. slots' = [slots EXCEPT ![wr_idx % RingSize].header = packet]
        BY <3>2, <3>4 DEF PushHeader
      <4>. QED
        BY <3>3, <4>1 DEF RingInv, RingTypes
    <3>5. CASE PushPoints
      <4>1. slots' = [slots EXCEPT ![wr_idx % RingSize].points = packet]
        BY <3>2, <3>5 DEF PushPoints
      <4>. QED
        BY <3>3, <4>1 DEF RingInv, RingTypes
    <3>. QED
      BY <2>1, <3>4, <3>5
  <2>2. CASE ~(PushHeader \/ PushPoints)
    BY <2>2 DEF PushLidarData, InitQueue, CheckFull, Poll, PopHeader, PopPoints, ringVars
  <2>. QED
    BY <2>1, <2>2
<1>4. Waiting' = Waiting
  BY <1>2, <1>3, SameWaiting
<1>. QED
  BY <1>1, <1>4 DEF Fifo!vars, Whole

(* The ring behaves as the bounded FIFO, whatever the order of the two     *)
(* threads' steps: a packet comes out whole, once and in the order it was  *)
(* pushed, and only one that finds RingSize others waiting is refused.    *)
(* That a packet waiting is taken in the end is a matter of fairness.      *)
THEOREM RingIsAFifo == RingSpec => Fifo!Spec
<1>1. ASSUME RingInit PROVE Fifo!Init
  <2>1. RingInv
    BY <1>1, RingInitially
  <2>2. Used = 0
    <3>1. wr_idx - rd_idx = 0 /\ W \in Nat \ {0} /\ 0 \in 0..(W - 1)
      BY <1>1, Sizes DEF RingInit
    <3>. QED
      BY <3>1, RemainderUnique DEF Used
  <2>3. Waiting = <<>>
    BY <2>1, <2>2, WaitingHolds DEF Holding
  <2>. QED
    BY <1>1, <2>3 DEF RingInit, Fifo!Init, NoPacket, Whole
<1>2. RingInv /\ RingInv' /\ [RingNext]_ringVars => [Fifo!Next]_(Fifo!vars)
  <2>. SUFFICES ASSUME RingInv, RingInv', [RingNext]_ringVars PROVE [Fifo!Next]_(Fifo!vars)
    OBVIOUS
  <2>1. CASE PushAdvance
    BY <2>1, PutSimulated DEF Fifo!Next
  <2>2. CASE CheckFull /\ QueueIsFull
    BY <2>2, DropSimulated DEF Fifo!Next
  <2>3. CASE PopAdvance
    BY <2>3, TakeSimulated DEF Fifo!Next
  <2>4. CASE \/ PushLidarData \/ InitQueue \/ (CheckFull /\ ~QueueIsFull) \/ PushHeader \/ PushPoints
             \/ Poll \/ PopHeader \/ PopPoints \/ UNCHANGED ringVars
    BY <2>4, OthersStutter
  <2>5. CASE Push
    <3>1. CASE CheckFull
      BY <2>2, <2>4, <3>1, Zenon
    <3>. QED
      BY <2>1, <2>4, <2>5, <3>1, Zenon DEF Push
  <2>6. CASE Pop
    BY <2>3, <2>4, <2>6, Zenon DEF Pop
  <2>7. CASE UNCHANGED ringVars
    BY <2>4, <2>7, Zenon
  <2>. QED
    BY <2>5, <2>6, <2>7 DEF RingNext
<1>. QED
  BY <1>1, <1>2, RingInvariance, PTL DEF RingSpec, Fifo!Spec

-----------------------------------------------------------------------------
(* The threads of Lds and Lddc                                              *)

InLoop == {"scan", "outer", "inner"}
Outside == {"top", "wait", "status", "done"}

(* Outside the loop over the lidars the next one is the first.             *)
Types ==
    /\ queue \in [Kinds -> [Lidars -> Nat]]
    /\ count \in [Kinds -> Nat]
    /\ storePc \in [Kinds -> {"idle", "empty", "count", "signal"}]
    /\ storing \in [Kinds -> Lidars]
    /\ pollPc \in [Kinds -> InLoop \cup Outside]
    /\ lidar \in [Kinds -> Lidars]
    /\ \A k \in Kinds : pollPc[k] \in Outside => lidar[k] = 1
    /\ overlooked \in [Kinds -> [Lidars -> BOOLEAN]]

(* Somebody will see to lidar l's data of kind k: the producer still has   *)
(* to look at the semaphore, or has signalled it, or the poll loop has not *)
(* passed l.                                                               *)
SeenTo(k, l) ==
    \/ storePc[k] \in {"count", "signal"}
    \/ storePc[k] = "empty" /\ storing[k] = l
    \/ count[k] > 0
    \/ pollPc[k] \in InLoop /\ lidar[k] <= l

(* All data are seen to, but for those the loop skipped.                   *)
Cared(k, l) == queue[k][l] > 0 /\ ~overlooked[k][l] /\ ~request_exit => SeenTo(k, l)

IInv == Types /\ \A k \in Kinds, l \in Lidars : Cared(k, l)

(* The rows of the other kind of data stay as they are.                    *)
RowKept(k) ==
    /\ queue'[k] = queue[k] /\ count'[k] = count[k] /\ overlooked'[k] = overlooked[k]
    /\ storePc'[k] = storePc[k] /\ storing'[k] = storing[k]
    /\ pollPc'[k] = pollPc[k] /\ lidar'[k] = lidar[k]

(* There is a first lidar, and it is the least.                            *)
LEMMA FirstLidar == 1 \in Lidars /\ Lidars \subseteq Nat /\ \A l \in Lidars : 1 <= l
BY DistributionAssumption DEF Lidars

(* A step of one thread has only its own kind of data to answer for.       *)
LEMMA OneKind ==
    ASSUME IInv, NEW k \in Kinds, Types', request_exit' = request_exit,
           \A j \in Kinds \ {k} : RowKept(j),
           \A l \in Lidars : Cared(k, l)'
    PROVE  IInv'
<1>1. ASSUME NEW j \in Kinds \ {k}, NEW l \in Lidars PROVE Cared(j, l)'
  BY DEF IInv, Cared, SeenTo, RowKept
<1>. QED
  BY <1>1 DEF IInv

(* No data, and the loops before their first round.                        *)
LEMMA Initially == Init => IInv
<1>. SUFFICES ASSUME Init PROVE IInv
  OBVIOUS
<1>1. Types
  BY FirstLidar DEF Init, Types, InLoop, Outside
<1>2. ASSUME NEW k \in Kinds, NEW l \in Lidars PROVE Cared(k, l)
  <2>1. queue[k][l] = 0
    BY DEF Init
  <2>. QED
    BY <2>1 DEF Cared
<1>. QED
  BY <1>1, <1>2 DEF IInv

-----------------------------------------------------------------------------
(* New data are the producer's to see to; a full queue's as well.          *)
LEMMA Stored ==
    ASSUME IInv, NEW k \in Kinds, NEW l \in Lidars, Store(k, l)
    PROVE  IInv'
<1>1. /\ overlooked' = [overlooked EXCEPT ![k][l] = FALSE]
      /\ UNCHANGED <<count, pollPc, lidar, request_exit>>
      /\ storePc[k] = "idle"
  BY DEF Store, exit
<1>2. CASE Full(k, l)
  <2>1. storePc' = [storePc EXCEPT ![k] = "count"] /\ UNCHANGED <<queue, storing>>
    BY <1>2 DEF Store
  <2>2. Types'
    BY <1>1, <2>1 DEF IInv, Types
  <2>3. \A j \in Kinds \ {k} : RowKept(j)
    BY <1>1, <2>1 DEF IInv, Types, RowKept
  <2>4. storePc'[k] = "count"
    BY <2>1 DEF IInv, Types
  <2>. QED
    BY <1>1, <2>2, <2>3, <2>4, OneKind DEF Cared, SeenTo
<1>3. CASE ~Full(k, l)
  <2>1. /\ storePc' = [storePc EXCEPT ![k] = "empty"]
        /\ queue' = [queue EXCEPT ![k][l] = @ + 1]
        /\ storing' = [storing EXCEPT ![k] = l]
    BY <1>3 DEF Store
  <2>2. Types'
    BY <1>1, <2>1 DEF IInv, Types
  <2>3. \A j \in Kinds \ {k} : RowKept(j)
    BY <1>1, <2>1 DEF IInv, Types, RowKept
  <2>4. storePc'[k] = "empty" /\ storing'[k] = l
    BY <2>1 DEF IInv, Types
  <2>5. ASSUME NEW m \in Lidars PROVE Cared(k, m)'
    <3>1. CASE m = l
      BY <2>4, <3>1 DEF Cared, SeenTo
    <3>2. CASE m # l
      <4>1. queue'[k][m] = queue[k][m] /\ overlooked'[k][m] = overlooked[k][m]
        BY <1>1, <2>1, <3>2 DEF IInv, Types
      <4>2. Cared(k, m)
        BY DEF IInv
      <4>. QED
        BY <1>1, <4>1, <4>2 DEF Cared, SeenTo
    <3>. QED
      BY <3>1, <3>2
  <2>. QED
    BY <1>1, <2>2, <2>3, <2>5, OneKind
<1>. QED
  BY <1>2, <1>3

(* An emptied queue needs nobody; otherwise the semaphore is next.         *)
LEMMA EmptyTested ==
    ASSUME IInv, NEW k \in Kinds, StoreTestEmpty(k)
    PROVE  IInv'
<1>. DEFINE s == storing[k]
<1>1. /\ storePc[k] = "empty"
      /\ storePc' = [storePc EXCEPT ![k] = IF queue[k][s] = 0 THEN "idle" ELSE "count"]
      /\ storing' = [storing EXCEPT ![k] = 1]
      /\ UNCHANGED <<queue, count, pollPc, lidar, overlooked, request_exit>>
  BY DEF StoreTestEmpty, poll, exit
<1>2. Types'
  BY <1>1, FirstLidar DEF IInv, Types
<1>3. \A j \in Kinds \ {k} : RowKept(j)
  BY <1>1 DEF IInv, Types, RowKept
<1>4. storePc'[k] = IF queue[k][s] = 0 THEN "idle" ELSE "count"
  BY <1>1 DEF IInv, Types
<1>5. ASSUME NEW m \in Lidars PROVE Cared(k, m)'
  <2>1. CASE queue[k][s] # 0
    BY <1>4, <2>1 DEF Cared, SeenTo
  <2>2. CASE queue[k][s] = 0 /\ m = s
    BY <1>1, <2>2 DEF Cared
  <2>3. CASE m # s
    <3>1. Cared(k, m)
      BY DEF IInv
    <3>. QED
      BY <1>1, <2>3, <3>1 DEF Cared, SeenTo
  <2>. QED
    BY <2>1, <2>2, <2>3
<1>. QED
  BY <1>1, <1>2, <1>3, <1>5, OneKind

(* A positive count is as good as a signal.                                *)
LEMMA CountTested ==
    ASSUME IInv, NEW k \in Kinds, StoreTestCount(k)
    PROVE  IInv'
<1>1. /\ storePc' = [storePc EXCEPT ![k] = IF count[k] <= 0 THEN "signal" ELSE "idle"]
      /\ UNCHANGED <<queue, count, storing, pollPc, lidar, overlooked, request_exit>>
  BY DEF StoreTestCount, poll, exit
<1>2. Types'
  BY <1>1 DEF IInv, Types
<1>3. \A j \in Kinds \ {k} : RowKept(j)
  BY <1>1 DEF IInv, Types, RowKept
<1>4. count[k] \in Nat /\ storePc'[k] = IF count[k] <= 0 THEN "signal" ELSE "idle"
  BY <1>1 DEF IInv, Types
<1>5. storePc'[k] = "signal" \/ count'[k] > 0
  BY <1>1, <1>4
<1>. QED
  BY <1>1, <1>2, <1>3, <1>5, OneKind DEF Cared, SeenTo

(* The signal given is in the count.                                       *)
LEMMA Signalled ==
    ASSUME IInv, NEW k \in Kinds, Signal(k)
    PROVE  IInv'
<1>1. /\ count' = [count EXCEPT ![k] = @ + 1]
      /\ storePc' = [storePc EXCEPT ![k] = "idle"]
      /\ UNCHANGED <<queue, storing, pollPc, lidar, overlooked, request_exit>>
  BY DEF Signal, poll, exit
<1>2. Types'
  BY <1>1 DEF IInv, Types
<1>3. \A j \in Kinds \ {k} : RowKept(j)
  BY <1>1 DEF IInv, Types, RowKept
<1>4. count[k] \in Nat /\ count'[k] = count[k] + 1
  BY <1>1 DEF IInv, Types
<1>5. count'[k] > 0
  BY <1>4
<1>. QED
  BY <1>1, <1>2, <1>3, <1>5, OneKind DEF Cared, SeenTo

-----------------------------------------------------------------------------
(* Taking a signal begins a round that visits every lidar.                 *)
LEMMA Woken ==
    ASSUME IInv, NEW k \in Kinds, Wait(k)
    PROVE  IInv'
<1>1. /\ pollPc[k] = "wait" /\ count[k] > 0
      /\ count' = [count EXCEPT ![k] = @ - 1]
      /\ pollPc' = [pollPc EXCEPT ![k] = "scan"]
      /\ UNCHANGED <<queue, storePc, storing, lidar, overlooked, request_exit>>
  BY DEF Wait, Goto, store, exit
<1>2. Types'
  BY <1>1 DEF IInv, Types, InLoop, Outside
<1>3. \A j \in Kinds \ {k} : RowKept(j)
  BY <1>1 DEF IInv, Types, RowKept
<1>4. pollPc'[k] \in InLoop /\ lidar'[k] = 1
  BY <1>1 DEF IInv, Types, InLoop, Outside
<1>5. \A m \in Lidars : lidar'[k] <= m
  BY <1>4, FirstLidar
<1>. QED
  BY <1>1, <1>2, <1>3, <1>4, <1>5, OneKind DEF Cared, SeenTo

(* Steps of the poll thread outside the loop, or at one lidar.             *)
LEMMA StaysAtLidar ==
    ASSUME IInv, NEW k \in Kinds, NEW pc \in InLoop \cup Outside,
           pollPc' = [pollPc EXCEPT ![k] = pc],
           pollPc[k] \in Outside <=> pc \in Outside,
           \A l \in Lidars : queue'[k][l] <= queue[k][l],
           queue' \in [Kinds -> [Lidars -> Nat]],
           \A j \in Kinds \ {k} : queue'[j] = queue[j],
           UNCHANGED <<count, storePc, storing, lidar, overlooked, request_exit>>
    PROVE  IInv'
<1>1. /\ pollPc' \in [Kinds -> InLoop \cup Outside] /\ pollPc'[k] = pc
      /\ \A j \in Kinds \ {k} : pollPc'[j] = pollPc[j]
  BY DEF IInv, Types
<1>2. \A j \in Kinds : pollPc'[j] \in Outside <=> pollPc[j] \in Outside
  BY <1>1
<1>3. \A j \in Kinds : pollPc[j] \in InLoop => pollPc'[j] \in InLoop
  BY <1>1, <1>2 DEF IInv, Types, InLoop, Outside
<1>4. Types'
  BY <1>1, <1>2 DEF IInv, Types
<1>5. \A j \in Kinds \ {k} : RowKept(j)
  BY <1>1 DEF RowKept
<1>6. ASSUME NEW m \in Lidars PROVE Cared(k, m)'
  <2>1. queue[k][m] \in Nat /\ queue'[k][m] \in Nat /\ queue'[k][m] <= queue[k][m]
    BY DEF IInv, Types
  <2>2. queue'[k][m] > 0 => queue[k][m] > 0
    BY <2>1
  <2>3. Cared(k, m)
    BY DEF IInv
  <2>. QED
    BY <1>3, <2>2, <2>3 DEF Cared, SeenTo
<1>. QED
  BY <1>4, <1>5, <1>6, OneKind

(* The loop goes on to the next lidar: those before it have no data left   *)
(* that are not overlooked, or had none when they were passed.             *)
LEMMA PassesLidar ==
    ASSUME IInv, NEW k \in Kinds, NextLidar(k), pollPc[k] \in InLoop,
           UNCHANGED <<queue, count, storePc, storing, request_exit>>,
           overlooked' \in [Kinds -> [Lidars -> BOOLEAN]],
           \A j \in Kinds \ {k} : overlooked'[j] = overlooked[j],
           \A l \in Lidars \ {lidar[k]} : overlooked'[k][l] = overlooked[k][l],
           request_exit \/ queue[k][lidar[k]] = 0 \/ overlooked'[k][lidar[k]]
    PROVE  IInv'
<1>0. lidar[k] \in Lidars /\ Lidars = 1..LidarCount /\ LidarCount \in Nat
  BY DistributionAssumption DEF IInv, Types, Lidars
<1>1. \/ /\ lidar[k] < LidarCount
         /\ lidar' = [lidar EXCEPT ![k] = @ + 1] /\ pollPc' = [pollPc EXCEPT ![k] = "scan"]
      \/ /\ ~(lidar[k] < LidarCount)
         /\ lidar' = [lidar EXCEPT ![k] = 1] /\ pollPc' = [pollPc EXCEPT ![k] = "status"]
  BY DEF NextLidar, Goto
<1>2. lidar[k] < LidarCount => lidar[k] + 1 \in Lidars
  BY <1>0
<1>3. /\ lidar' \in [Kinds -> Lidars] /\ pollPc' \in [Kinds -> InLoop \cup Outside]
      /\ \A j \in Kinds \ {k} : lidar'[j] = lidar[j] /\ pollPc'[j] = pollPc[j]
      /\ \/ /\ lidar[k] < LidarCount /\ lidar'[k] = lidar[k] + 1 /\ pollPc'[k] = "scan"
         \/ /\ ~(lidar[k] < LidarCount) /\ lidar'[k] = 1 /\ pollPc'[k] = "status"
  <2>1. lidar \in [Kinds -> Lidars] /\ pollPc \in [Kinds -> InLoop \cup Outside]
    BY DEF IInv, Types
  <2>2. CASE lidar[k] < LidarCount
    <3>1. lidar' = [lidar EXCEPT ![k] = @ + 1] /\ pollPc' = [pollPc EXCEPT ![k] = "scan"]
      BY <1>1, <2>2
    <3>. QED
      BY <1>2, <2>1, <2>2, <3>1 DEF InLoop, Outside
  <2>3. CASE ~(lidar[k] < LidarCount)
    <3>1. lidar' = [lidar EXCEPT ![k] = 1] /\ pollPc' = [pollPc EXCEPT ![k] = "status"]
      BY <1>1, <2>3
    <3>. QED
      BY <2>1, <2>3, <3>1, FirstLidar DEF InLoop, Outside
  <2>. QED
    BY <2>2, <2>3
<1>4. \A j \in Kinds : pollPc'[j] \in Outside => lidar'[j] = 1
  BY <1>3 DEF IInv, Types, InLoop, Outside
<1>5. Types'
  BY <1>3, <1>4 DEF IInv, Types
<1>6. \A j \in Kinds \ {k} : RowKept(j)
  BY <1>3 DEF RowKept
<1>7. ASSUME NEW m \in Lidars PROVE Cared(k, m)'
  <2>1. CASE m = lidar[k]
    BY <2>1 DEF Cared
  <2>2. CASE m # lidar[k]
    <3>1. Cared(k, m) /\ overlooked'[k][m] = overlooked[k][m]
      BY <2>2 DEF IInv
    <3>2. lidar[k] <= m => pollPc'[k] \in InLoop /\ lidar'[k] <= m
      BY <1>0, <1>3, <2>2 DEF InLoop
    <3>. QED
      BY <3>1, <3>2 DEF Cared, SeenTo
  <2>. QED
    BY <2>1, <2>2
<1>. QED
  BY <1>5, <1>6, <1>7, OneKind

(* A lidar that does not sample is passed, and what it has is overlooked.  *)
LEMMA Scanned ==
    ASSUME IInv, NEW k \in Kinds, Scan(k)
    PROVE  IInv'
<1>1. pollPc[k] = "scan" /\ UNCHANGED <<queue, count, storePc, storing, request_exit>>
  BY DEF Scan, store, exit
<1>2. CASE sampling[lidar[k]]
  <2>1. pollPc' = [pollPc EXCEPT ![k] = "outer"] /\ UNCHANGED <<lidar, overlooked>>
    BY <1>2 DEF Scan, Goto
  <2>2. /\ queue' \in [Kinds -> [Lidars -> Nat]] /\ \A j \in Kinds \ {k} : queue'[j] = queue[j]
        /\ \A l \in Lidars : queue'[k][l] <= queue[k][l]
    BY <1>1 DEF IInv, Types
  <2>3. "outer" \in InLoop \cup Outside /\ (pollPc[k] \in Outside <=> "outer" \in Outside)
    BY <1>1 DEF InLoop, Outside
  <2>. QED
    BY <1>1, <2>1, <2>2, <2>3, StaysAtLidar
<1>3. CASE ~sampling[lidar[k]]
  <2>. DEFINE left == queue[k][lidar[k]] > 0
  <2>1. NextLidar(k) /\ overlooked' = [overlooked EXCEPT ![k][lidar[k]] = left]
    BY <1>3 DEF Scan
  <2>2. left \in BOOLEAN /\ lidar[k] \in Lidars
    BY DEF IInv, Types
  <2>3. queue[k][lidar[k]] = 0 \/ left
    BY <2>2 DEF IInv, Types
  <2>. HIDE DEF left
  <2>4. /\ overlooked' \in [Kinds -> [Lidars -> BOOLEAN]]
        /\ \A j \in Kinds \ {k} : overlooked'[j] = overlooked[j]
        /\ \A l \in Lidars \ {lidar[k]} : overlooked'[k][l] = overlooked[k][l]
        /\ overlooked'[k][lidar[k]] = left
    BY <2>1, <2>2 DEF IInv, Types
  <2>5. pollPc[k] \in InLoop
    BY <1>1 DEF InLoop
  <2>. QED
    BY <1>1, <2>1, <2>3, <2>4, <2>5, PassesLidar
<1>. QED
  BY <1>2, <1>3

(* A lidar that samples is passed with its queue empty, or at exit.        *)
LEMMA QueuePolled ==
    ASSUME IInv, NEW k \in Kinds, PollQueue(k)
    PROVE  IInv'
<1>1. pollPc[k] = "outer" /\ UNCHANGED <<queue, count, storePc, storing, overlooked, request_exit>>
  BY DEF PollQueue, store, exit
<1>2. lidar[k] \in Lidars /\ queue[k][lidar[k]] \in Nat
  BY DEF IInv, Types
<1>3. CASE ~request_exit /\ queue[k][lidar[k]] > 0
  <2>1. pollPc' = [pollPc EXCEPT ![k] = "inner"] /\ UNCHANGED lidar
    BY <1>3 DEF PollQueue, Goto
  <2>2. /\ queue' \in [Kinds -> [Lidars -> Nat]] /\ \A j \in Kinds \ {k} : queue'[j] = queue[j]
        /\ \A l \in Lidars : queue'[k][l] <= queue[k][l]
    BY <1>1 DEF IInv, Types
  <2>3. "inner" \in InLoop \cup Outside /\ (pollPc[k] \in Outside <=> "inner" \in Outside)
    BY <1>1 DEF InLoop, Outside
  <2>. QED
    BY <1>1, <2>1, <2>2, <2>3, StaysAtLidar
<1>4. CASE ~(~request_exit /\ queue[k][lidar[k]] > 0)
  <2>1. NextLidar(k)
    BY <1>4 DEF PollQueue
  <2>2. request_exit \/ queue[k][lidar[k]] = 0
    BY <1>2, <1>4
  <2>3. pollPc[k] \in InLoop
    BY <1>1 DEF InLoop
  <2>4. overlooked \in [Kinds -> [Lidars -> BOOLEAN]]
    BY DEF IInv, Types
  <2>. QED
    BY <1>1, <2>1, <2>2, <2>3, <2>4, PassesLidar
<1>. QED
  BY <1>3, <1>4

(* Publishing stays at the lidar and only takes from its queue.            *)
LEMMA Published ==
    ASSUME IInv, NEW k \in Kinds, Publish(k)
    PROVE  IInv'
<1>1. pollPc[k] = "inner" /\ UNCHANGED <<count, storePc, storing, lidar, overlooked, request_exit>>
  BY DEF Publish, store, exit
<1>2. PICK pc \in {"inner", "outer"} : pollPc' = [pollPc EXCEPT ![k] = pc]
  BY DEF Publish, Goto
<1>3. lidar[k] \in Lidars
  BY DEF IInv, Types
<1>4. /\ queue' \in [Kinds -> [Lidars -> Nat]] /\ \A j \in Kinds \ {k} : queue'[j] = queue[j]
      /\ \A l \in Lidars : queue'[k][l] <= queue[k][l]
  <2>1. CASE queue' = queue
    BY <2>1 DEF IInv, Types
  <2>2. CASE queue[k][lidar[k]] > 0 /\ queue' = [queue EXCEPT ![k][lidar[k]] = @ - 1]
    BY <1>3, <2>2 DEF IInv, Types
  <2>. QED
    BY <2>1, <2>2 DEF Publish
<1>5. pc \in InLoop \cup Outside /\ (pollPc[k] \in Outside <=> pc \in Outside)
  BY <1>1, <1>2 DEF InLoop, Outside
<1>. QED
  BY <1>1, <1>2, <1>4, <1>5, StaysAtLidar

(* Between the rounds nothing is taken and nothing passed.                 *)
LEMMA BetweenRounds ==
    ASSUME IInv, NEW k \in Kinds, PollTop(k) \/ PollStatus(k)
    PROVE  IInv'
<1>1. /\ pollPc[k] \in Outside
      /\ UNCHANGED <<queue, count, storePc, storing, lidar, overlooked, request_exit>>
  BY DEF PollTop, PollStatus, store, exit, Outside
<1>2. PICK pc \in Outside : pollPc' = [pollPc EXCEPT ![k] = pc]
  BY DEF PollTop, PollStatus, Goto, Outside
<1>3. /\ queue' \in [Kinds -> [Lidars -> Nat]] /\ \A j \in Kinds \ {k} : queue'[j] = queue[j]
      /\ \A l \in Lidars : queue'[k][l] <= queue[k][l]
  BY <1>1 DEF IInv, Types
<1>. QED
  BY <1>1, <1>2, <1>3, StaysAtLidar

(* Configuration and shutdown leave data and threads alone; from the       *)
(* request to exit on nothing has to be seen to.                           *)
LEMMA Elsewhere ==
    ASSUME IInv,
           UNCHANGED <<queue, count, storePc, storing, pollPc, lidar, overlooked>>,
           request_exit' = request_exit \/ request_exit'
    PROVE  IInv'
<1>1. Types'
  BY DEF IInv, Types
<1>2. ASSUME NEW k \in Kinds, NEW l \in Lidars PROVE Cared(k, l)'
  <2>1. Cared(k, l)
    BY DEF IInv
  <2>. QED
    BY <2>1 DEF Cared, SeenTo
<1>. QED
  BY <1>1, <1>2 DEF IInv

-----------------------------------------------------------------------------
(* Every step keeps the invariant.                                         *)
LEMMA Inductive == IInv /\ [Next]_vars => IInv'
<1>. SUFFICES ASSUME IInv, [Next]_vars PROVE IInv'
  OBVIOUS
<1>1. ASSUME NEW k \in Kinds, NEW l \in Lidars, Store(k, l) PROVE IInv'
  BY <1>1, Stored
<1>2. ASSUME NEW k \in Kinds, Storing(k) PROVE IInv'
  BY <1>2, EmptyTested, CountTested, Signalled DEF Storing
<1>3. ASSUME NEW k \in Kinds, Polling(k) PROVE IInv'
  BY <1>3, BetweenRounds, Woken, Scanned, QueuePolled, Published DEF Polling
<1>4. CASE (\E l \in Lidars : StartSampling(l)) \/ RequestExit \/ SetExitSignal \/ Join
  <2>1. /\ UNCHANGED <<queue, count, storePc, storing, pollPc, lidar, overlooked>>
        /\ request_exit' = request_exit \/ request_exit'
    BY <1>4 DEF StartSampling, RequestExit, SetExitSignal, Join, store, poll, exit
  <2>. QED
    BY <2>1, Elsewhere
<1>5. CASE UNCHANGED vars
  BY <1>5, Elsewhere DEF vars, store, poll, exit
<1>. QED
  BY <1>1, <1>2, <1>3, <1>4, <1>5 DEF Next

(* No poll thread sleeps on data of a sampling lidar: the semaphores of    *)
(* Lds and the loops of Lddc, in every interleaving.                       *)
THEOREM NoWakeupIsLost == Spec => []NoLostWakeup
<1>1. ASSUME IInv PROVE NoLostWakeup
  <2>. SUFFICES ASSUME NEW k \in Kinds, NEW l \in Lidars,
                       pollPc[k] = "wait", count[k] = 0, storePc[k] = "idle", ~request_exit
                PROVE  queue[k][l] = 0 \/ overlooked[k][l]
    BY DEF NoLostWakeup
  <2>1. ~SeenTo(k, l)
    BY DEF SeenTo, InLoop
  <2>2. ~(queue[k][l] > 0) \/ overlooked[k][l]
    BY <1>1, <2>1 DEF IInv, Cared
  <2>3. queue[k][l] \in Nat
    BY <1>1 DEF IInv, Types
  <2>. QED
    BY <2>2, <2>3
<1>. QED
  BY <1>1, Initially, Inductive, PTL DEF Spec
=============================================================================
