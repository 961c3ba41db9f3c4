-------------------------- MODULE FakeVelTransform --------------------------
(***************************************************************************)
(* fake_vel_transform: Nav2's velocity, meant in a frame of fixed heading, *)
(* turned into the robot's frame.  Twist carries no stamp, so a command    *)
(* that comes while the controller is active waits in latest_cmd_vel_ for  *)
(* the next pair of odometry and local_plan that message_filters matches.  *)
(* All callbacks run on one executor thread.  Headings are quarter turns.  *)
(***************************************************************************)
EXTENDS Integers, Sequences

CONSTANTS Velocities,   \* the linear velocities <<x, y>> and turns of the commands
          SpinSpeeds,   \* values published on cmd_spin
          Yaws,         \* headings the odometry reports, a subset of 0..3
          Timeout,      \* CONTROLLER_TIMEOUT, in ticks
          MaxCmds,      \* bound: commands received
          QueueSize     \* bound: messages the synchronizer keeps (100 in the code)

Twist == [x : Int, y : Int, z : Int]
Zero == [x |-> 0, y |-> 0, z |-> 0]

ASSUME FakeVelAssumption ==
    /\ Velocities \subseteq Twist /\ Zero \in Velocities
    /\ SpinSpeeds \subseteq Int /\ 0 \in SpinSpeeds
    /\ Yaws \subseteq 0..3
    /\ Timeout \in Nat /\ MaxCmds \in Nat /\ QueueSize \in Nat \ {0}

None == [num |-> 0, twist |-> Zero]

VARIABLES
    idle,      \* now - last_controller_activate_time_, counted to Timeout + 1
    angle,     \* current_robot_base_angle_
    spin_speed,
    latest,    \* latest_cmd_vel_ and its number; None while it is nullptr
    odoms,     \* external: odometry the synchronizer holds, oldest first
    plans,     \* external: local plans it holds
    number,    \* commands received so far
    out        \* the command published last: its number and the result

vars == <<idle, angle, spin_speed, latest, odoms, plans, number, out>>

(* cos and sin of a quarter turn                                           *)
Cos(q) == CASE q = 0 -> 1 [] q = 2 -> -1 [] OTHER -> 0
Sin(q) == CASE q = 1 -> 1 [] q = 3 -> -1 [] OTHER -> 0

transformVelocity(t, yaw) == [x |-> t.x * Cos(yaw) + t.y * Sin(yaw),
                              y |-> t.y * Cos(yaw) - t.x * Sin(yaw),
                              z |-> t.z + spin_speed]

Published(c, yaw) == [num |-> c.num, twist |-> transformVelocity(c.twist, yaw)]

(* The constructor leaves the angle uninitialised: it may be anything.     *)
Init == /\ idle = Timeout + 1
        /\ angle \in 0..3
        /\ spin_speed \in SpinSpeeds
        /\ latest = None
        /\ odoms = <<>> /\ plans = 0
        /\ number = 0
        /\ out = [num |-> 0, twist |-> Zero]

ControllerActive == idle <= Timeout

(* cmdVelCallback: a stop, and anything while the controller is inactive,  *)
(* goes out at once.                                                       *)
CmdVel(t) ==
    LET c == [num |-> number + 1, twist |-> t] IN
    /\ number < MaxCmds
    /\ number' = number + 1
    /\ IF t = Zero \/ ~ControllerActive
       THEN out' = Published(c, angle) /\ UNCHANGED latest
       ELSE latest' = c /\ UNCHANGED out
    /\ UNCHANGED <<idle, angle, spin_speed, odoms, plans>>

(* Mutant: syncCallback notes the heading and publishes nothing.           *)
SynchronizeSilent(os, ps, i, a) ==
    /\ i # 0 => i \in DOMAIN os /\ ps > 0
    /\ odoms' = SubSeq(os, i + 1, Len(os))
    /\ IF i = 0 THEN plans' = ps ELSE plans' \in 0..(ps - 1)
    /\ angle' = (IF i = 0 THEN a ELSE os[i])
    /\ UNCHANGED out

(* message_filters (external) holds odometry os and ps plans; i is the     *)
(* odometry it hands over with a plan, 0 when it finds no pair.  Messages  *)
(* older than the pair are dropped.  The pair goes to syncCallback, in the *)
(* same call as the callback that has left the heading at a.               *)
Synchronize(os, ps, i, a) ==
    /\ i # 0 => i \in DOMAIN os /\ ps > 0
    /\ odoms' = SubSeq(os, i + 1, Len(os))
    /\ IF i = 0 THEN plans' = ps ELSE plans' \in 0..(ps - 1)
    /\ IF i = 0 \/ latest = None
       THEN angle' = a /\ UNCHANGED out
       ELSE /\ angle' = os[i]
            /\ out' = Published(latest, os[i])

Kept(os) == IF Len(os) > QueueSize THEN Tail(os) ELSE os

(* odometryCallback, then the synchronizer                                 *)
Odometry(yaw, i) ==
    /\ Synchronize(Kept(Append(odoms, yaw)), plans, i,
                   IF ControllerActive THEN angle ELSE yaw)
    /\ UNCHANGED <<idle, spin_speed, latest, number>>

(* localPlanCallback, then the synchronizer                                *)
LocalPlan(i) ==
    /\ idle' = 0
    /\ Synchronize(odoms, IF plans < QueueSize THEN plans + 1 ELSE plans, i, angle)
    /\ UNCHANGED <<spin_speed, latest, number>>

(* cmdSpinCallback                                                         *)
CmdSpin(s) == /\ spin_speed' = s
              /\ UNCHANGED <<idle, angle, latest, odoms, plans, number, out>>

Tick == /\ idle <= Timeout
        /\ idle' = idle + 1
        /\ UNCHANGED <<angle, spin_speed, latest, odoms, plans, number, out>>

Next == \/ \E t \in Velocities : CmdVel(t)
        \/ \E y \in Yaws, i \in 0..QueueSize : Odometry(y, i)
        \/ \E i \in 0..QueueSize : LocalPlan(i)
        \/ \E s \in SpinSpeeds : CmdSpin(s)
        \/ Tick

(* The synchronizer does match what keeps coming on both topics.           *)
Spec == Init /\ [][Next]_vars
FairSpec == Spec /\ SF_vars(\E y \in Yaws, i \in 1..QueueSize : Odometry(y, i))

-----------------------------------------------------------------------------
TypeOK ==
    /\ idle \in 0..(Timeout + 1)
    /\ angle \in 0..3
    /\ spin_speed \in SpinSpeeds
    /\ latest \in [num : 0..MaxCmds, twist : Velocities]
    /\ odoms \in Seq(Yaws) /\ Len(odoms) <= QueueSize
    /\ plans \in 0..QueueSize
    /\ number \in 0..MaxCmds
    /\ out \in [num : 0..MaxCmds, twist : Twist]

(* A command kept for synchronisation is not forgotten: it, or one that    *)
(* came later, goes out, provided local plans keep coming.                 *)
CommandNotForgotten ==
    []<>(plans > 0) => \A n \in 1..MaxCmds : (latest.num = n ~> out.num >= n)
=============================================================================
