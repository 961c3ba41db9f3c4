-------------------------- MODULE LidarDistribution --------------------------
(***************************************************************************)
(* How frames and IMU samples travel from the driver's callbacks (Lds) to  *)
(* the two poll threads (Lddc, DriverNode): one queue per lidar and kind,  *)
(* one counting semaphore per kind, signalled only when its count was read *)
(* as zero, and the shutdown in ~DriverNode.  A queue is the number of its *)
(* packets: LidarDataQueue says why that is enough.                        *)
(***************************************************************************)
EXTENDS Integers

CONSTANTS Kinds,       \* {"pcd", "imu"} or one of them
          LidarCount,  \* lidar_count_: the poll loop visits 1..LidarCount
          ImuLidars,   \* the lidars that send IMU samples
          QueueSize,   \* capacity of a point queue
          ImuMax       \* bound: samples waiting (the list itself is unbounded)

Lidars == 1..LidarCount

ASSUME DistributionAssumption ==
    /\ Kinds \subseteq {"pcd", "imu"} /\ ImuLidars \subseteq Lidars
    /\ LidarCount \in Nat \ {0} /\ QueueSize \in Nat \ {0} /\ ImuMax \in Nat \ {0}

VARIABLES
    supported,   \* transfer_format_ is one PollingLidarPointCloudData publishes
    sampling,    \* [l]: connect_state = kConnectStateSampling
    queue,       \* [k][l]: packets waiting
    count,       \* [k]: the semaphore's count_
    storePc,     \* [k]: producer: "idle", "empty", "count", "signal"
    storing,     \* [k]: the lidar whose queue the producer tests next; 1 otherwise
    pollPc,      \* [k]: poll thread: "top", "wait", "scan", "outer", "inner", "status", "done"
    lidar,       \* [k]: the lidar the poll loop is at; 1 outside the loop
    request_exit,\* Lds::request_exit_
    exitPc,      \* ~DriverNode: "running", "requested", "joining", "gone"
    overlooked   \* history [k][l]: data lay in l's queue when the loop skipped l

store == <<storePc, storing>>
poll == <<pollPc, lidar, overlooked>>
exit == <<request_exit, exitPc>>
vars == <<supported, sampling, queue, count, store, poll, exit>>

Init == /\ supported \in BOOLEAN
        /\ sampling = [l \in Lidars |-> FALSE]
        /\ queue = [k \in Kinds |-> [l \in Lidars |-> 0]]
        /\ count = [k \in Kinds |-> 0]
        /\ storePc = [k \in Kinds |-> "idle"]
        /\ storing = [k \in Kinds |-> 1]
        /\ pollPc = [k \in Kinds |-> "top"]
        /\ lidar = [k \in Kinds |-> 1]
        /\ request_exit = FALSE /\ exitPc = "running"
        /\ overlooked = [k \in Kinds |-> [l \in Lidars |-> FALSE]]

(* A configuration callback completes (see LidarConfig).                   *)
StartSampling(l) ==
    /\ ~sampling[l]
    /\ sampling' = [sampling EXCEPT ![l] = TRUE]
    /\ UNCHANGED <<supported, queue, count, store, poll, exit>>

-----------------------------------------------------------------------------
(* PushLidarData and StorageImuData, for one packet of lidar l.            *)
Full(k, l) == k = "pcd" /\ queue[k][l] = QueueSize

Store(k, l) ==
    /\ storePc[k] = "idle"
    /\ k = "imu" => l \in ImuLidars /\ queue[k][l] < ImuMax
    /\ overlooked' = [overlooked EXCEPT ![k][l] = FALSE]
    /\ IF Full(k, l)
       THEN storePc' = [storePc EXCEPT ![k] = "count"] /\ UNCHANGED <<queue, storing>>
       ELSE /\ storePc' = [storePc EXCEPT ![k] = "empty"]
            /\ queue' = [queue EXCEPT ![k][l] = @ + 1]
            /\ storing' = [storing EXCEPT ![k] = l]
    /\ UNCHANGED <<supported, sampling, count, pollPc, lidar, exit>>

StoreTestEmpty(k) ==
    /\ storePc[k] = "empty"
    /\ storePc' = [storePc EXCEPT ![k] = IF queue[k][storing[k]] = 0 THEN "idle" ELSE "count"]
    /\ storing' = [storing EXCEPT ![k] = 1]
    /\ UNCHANGED <<supported, sampling, queue, count, poll, exit>>

(* Mutant: signal only below zero.                                         *)
StoreTestCountNegative(k) ==
    /\ storePc[k] = "count"
    /\ storePc' = [storePc EXCEPT ![k] = IF count[k] < 0 THEN "signal" ELSE "idle"]
    /\ UNCHANGED <<supported, sampling, queue, count, storing, poll, exit>>

StoreTestCount(k) ==
    /\ storePc[k] = "count"
    /\ storePc' = [storePc EXCEPT ![k] = IF count[k] <= 0 THEN "signal" ELSE "idle"]
    /\ UNCHANGED <<supported, sampling, queue, count, storing, poll, exit>>

Signal(k) ==
    /\ storePc[k] = "signal"
    /\ count' = [count EXCEPT ![k] = @ + 1]
    /\ storePc' = [storePc EXCEPT ![k] = "idle"]
    /\ UNCHANGED <<supported, sampling, queue, storing, poll, exit>>

-----------------------------------------------------------------------------
(* DistributePointCloudData and DistributeImuData.                         *)
Goto(k, pc) == pollPc' = [pollPc EXCEPT ![k] = pc]

PollTop(k) ==
    /\ pollPc[k] = "top"
    /\ Goto(k, IF request_exit THEN "status" ELSE "wait")
    /\ UNCHANGED <<supported, sampling, queue, count, store, lidar, overlooked, exit>>

Wait(k) ==
    /\ pollPc[k] = "wait" /\ count[k] > 0
    /\ count' = [count EXCEPT ![k] = @ - 1]
    /\ Goto(k, "scan")
    /\ UNCHANGED <<supported, sampling, queue, store, lidar, overlooked, exit>>

NextLidar(k) ==
    IF lidar[k] < LidarCount
    THEN lidar' = [lidar EXCEPT ![k] = @ + 1] /\ Goto(k, "scan")
    ELSE lidar' = [lidar EXCEPT ![k] = 1] /\ Goto(k, "status")

Scan(k) ==
    LET l == lidar[k] IN
    /\ pollPc[k] = "scan"
    /\ IF sampling[l]
       THEN Goto(k, "outer") /\ UNCHANGED <<lidar, overlooked>>
       ELSE /\ NextLidar(k)
            /\ overlooked' = [overlooked EXCEPT ![k][l] = queue[k][l] > 0]
    /\ UNCHANGED <<supported, sampling, queue, count, store, exit>>

(* Mutant: the inner loop does not look at request_exit_.                  *)
PollQueueNoExit(k) ==
    /\ pollPc[k] = "outer"
    /\ IF queue[k][lidar[k]] > 0
       THEN Goto(k, "inner") /\ UNCHANGED lidar
       ELSE NextLidar(k)
    /\ UNCHANGED <<supported, sampling, queue, count, store, overlooked, exit>>

(* PollingLidarPointCloudData and PollingLidarImuData.                     *)
PollQueue(k) ==
    /\ pollPc[k] = "outer"
    /\ IF ~request_exit /\ queue[k][lidar[k]] > 0
       THEN Goto(k, "inner") /\ UNCHANGED lidar
       ELSE NextLidar(k)
    /\ UNCHANGED <<supported, sampling, queue, count, store, overlooked, exit>>

(* Publish..: the point formats empty the queue without another look at    *)
(* request_exit_; PublishImuData takes one sample; PublishPclMsg returns   *)
(* at once.                                                                *)
Publish(k) ==
    LET l == lidar[k] IN
    /\ pollPc[k] = "inner"
    /\ IF queue[k][l] > 0 /\ (k = "pcd" => supported)
       THEN /\ queue' = [queue EXCEPT ![k][l] = @ - 1]
            /\ Goto(k, IF k = "pcd" THEN "inner" ELSE "outer")
       ELSE Goto(k, "outer") /\ UNCHANGED queue
    /\ UNCHANGED <<supported, sampling, count, store, lidar, overlooked, exit>>

(* The poll thread's own loop.                                             *)
PollStatus(k) ==
    /\ pollPc[k] = "status"
    /\ Goto(k, IF exitPc = "running" \/ exitPc = "requested" THEN "top" ELSE "done")
    /\ UNCHANGED <<supported, sampling, queue, count, store, lidar, overlooked, exit>>

-----------------------------------------------------------------------------
(* ~DriverNode: RequestExit, set_value, join, join.                        *)
RequestExit == /\ exitPc = "running"
               /\ request_exit' = TRUE
               /\ exitPc' = "requested"
               /\ UNCHANGED <<supported, sampling, queue, count, store, poll>>

SetExitSignal == /\ exitPc = "requested"
                 /\ exitPc' = "joining"
                 /\ UNCHANGED <<supported, sampling, queue, count, store, poll, request_exit>>

Join == /\ exitPc = "joining"
        /\ \A k \in Kinds : pollPc[k] = "done"
        /\ exitPc' = "gone"
        /\ UNCHANGED <<supported, sampling, queue, count, store, poll, request_exit>>

-----------------------------------------------------------------------------
Storing(k) == StoreTestEmpty(k) \/ StoreTestCount(k) \/ Signal(k)
Polling(k) == PollTop(k) \/ Wait(k) \/ Scan(k) \/ PollQueue(k) \/ Publish(k) \/ PollStatus(k)

Next == \/ \E l \in Lidars : StartSampling(l)
        \/ \E k \in Kinds : \/ \E l \in Lidars : Store(k, l)
                            \/ Storing(k)
                            \/ Polling(k)
        \/ RequestExit \/ SetExitSignal \/ Join

(* Every thread that can run is scheduled.  Nothing is assumed of the      *)
(* lidars, nor that anybody asks the node to exit.                         *)
Fairness == /\ \A k \in Kinds : WF_vars(Storing(k)) /\ WF_vars(Polling(k))
            /\ WF_vars(SetExitSignal) /\ WF_vars(Join)

Spec == Init /\ [][Next]_vars
FairSpec == Spec /\ Fairness

-----------------------------------------------------------------------------
(* A poll thread does not sleep on data it should publish: when it waits   *)
(* for a signal that no producer is about to give, the queue of every      *)
(* sampling lidar is empty, although the count is tested outside the lock  *)
(* and the queue outside both.  The only exception is data that arrived    *)
(* before its lidar was configured, which the loop had skipped.            *)
NoLostWakeup ==
    \A k \in Kinds, l \in Lidars :
        /\ pollPc[k] = "wait" /\ count[k] = 0 /\ storePc[k] = "idle"
        /\ sampling[l] /\ ~request_exit
        => queue[k][l] = 0 \/ overlooked[k][l]

(* The node's destructor ends, in every transfer format and whatever was   *)
(* queued, provided packets keep coming to each thread that has not ended  *)
(* (nothing else wakes one blocked on its semaphore) and each thread works *)
(* a burst off at last (Publish.. does not look at request_exit_).         *)
PacketsKeepComing(k) == []<>(storePc[k] # "idle" \/ pollPc[k] = "done")
BurstsAreWorkedOff(k) == []<>(pollPc[k] # "inner")

ExitCompletes ==
    (\A k \in Kinds : PacketsKeepComing(k) /\ BurstsAreWorkedOff(k))
        => (request_exit ~> exitPc = "gone")
=============================================================================
