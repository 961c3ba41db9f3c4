---------------------------- MODULE TeleopTwistJoy ----------------------------
(***************************************************************************)
(* pb_teleop_twist_joy: a joystick drives the chassis directly (manual     *)
(* control) or by goals a little ahead of the robot (auto control), as     *)
(* long as an enable button is held.  Joy messages arrive one at a time on *)
(* one executor thread.  The navigate_to_pose action server is external:   *)
(* goals and cancellations are requests to two services, so they may be    *)
(* taken in any order, and a cancellation ends what was accepted by the    *)
(* time it names.                                                          *)
(***************************************************************************)
EXTENDS Integers, Sequences

CONSTANTS Modes,          \* the values of control_mode, "manual" and "auto"
          Joys,           \* joystick messages: [axes, buttons]
          enable_button, enable_turbo_button,   \* their indices in buttons, from 1
          x_axis, yaw_axis, shoot_axis,         \* indices in axes, 0 if unmapped
          NormalScale, TurboScale,
          GoalGap,        \* 0.25 s between goals, in ticks
          MaxTime         \* bound: ticks

ASSUME TeleopAssumption ==
    /\ Modes \subseteq {"manual", "auto"} /\ GoalGap \in Nat /\ MaxTime \in Nat
    /\ NormalScale \in Int /\ TurboScale \in Int
    /\ \A j \in Joys : j.axes \in Seq(Int) /\ j.buttons \in Seq(BOOLEAN)

NoTime == -1

VARIABLES
    control_mode,
    sent_disable_msg,  \* a stop is owed to the robot once the button is released
    last_time,         \* static of joyCallback: time of the previous message
    last_goal_time,    \* static of sendGoalPoseAction; NoTime before its first use
    gimbal,            \* statics pitch and yaw of fillJointStateMsg
    time,
    held,              \* whether the last message asked for motion
    cmd,               \* the velocity published last
    shoot,             \* cmd_shoot, a uint8
    stop_time,         \* when sendZeroCommand ran last
    requests,          \* external: goals and cancellations on their way
    goal               \* external: when the goal pursued was accepted, NoTime if none

teleopVars == <<control_mode, sent_disable_msg, last_time, last_goal_time, gimbal,
                time, held, cmd, shoot, stop_time, requests, goal>>

Still == [x |-> 0, yaw |-> 0]

(* The constructor leaves sent_disable_msg_ uninitialised.                 *)
TeleopInit ==
    /\ control_mode \in Modes
    /\ sent_disable_msg \in BOOLEAN
    /\ last_time = NoTime /\ last_goal_time = NoTime
    /\ gimbal = 0 /\ time = 0
    /\ held = FALSE /\ cmd = Still /\ shoot = 0 /\ stop_time = NoTime
    /\ requests = {} /\ goal = NoTime

(* A field that is not mapped, or that a short message lacks, is zero.     *)
getVal(joy, axis, scale) == IF axis \in DOMAIN joy.axes THEN joy.axes[axis] * scale ELSE 0

Pressed(joy, button) == button \in DOMAIN joy.buttons /\ joy.buttons[button]

fillCmdVelMsg(joy, scale) == [x   |-> getVal(joy, x_axis, scale),
                              yaw |-> getVal(joy, yaw_axis, scale)]

(* The goal is the stick's position seen from the robot.  In the dead zone *)
(* there is none, without the transform (known is FALSE) neither; the      *)
(* first call only starts the clock of last_goal_time.                     *)
sendGoalPoseAction(joy, scale, known) ==
    LET since == IF last_goal_time = NoTime THEN time ELSE last_goal_time
        due   == time - since >= GoalGap
    IN IF getVal(joy, x_axis, scale) = 0 \/ ~known
       THEN UNCHANGED <<last_goal_time, requests>>
       ELSE /\ last_goal_time' = (IF due THEN time ELSE since)
            /\ requests' = IF due THEN requests \cup {[type |-> "goal", at |-> time]}
                                  ELSE requests

sendCmdVelMsg(joy, scale, known) ==
    /\ IF control_mode = "manual"
       THEN cmd' = fillCmdVelMsg(joy, scale) /\ UNCHANGED <<last_goal_time, requests>>
       ELSE sendGoalPoseAction(joy, scale, known) /\ UNCHANGED cmd
    /\ gimbal' = gimbal + getVal(joy, yaw_axis, scale)
                          * (IF last_time = NoTime THEN 0 ELSE time - last_time)
    /\ sent_disable_msg' = TRUE
    /\ UNCHANGED stop_time

(* Mutant: the stop is published and nothing is cancelled.                 *)
sendZeroCommandOnly == cmd' = Still /\ stop_time' = time /\ UNCHANGED requests

sendZeroCommand ==
    /\ requests' = IF control_mode = "auto"
                   THEN requests \cup {[type |-> "cancel", at |-> time]} ELSE requests
    /\ cmd' = Still /\ stop_time' = time

(* The button is up: one stop, if one is owed.                             *)
released ==
    /\ IF sent_disable_msg THEN sendZeroCommand ELSE UNCHANGED <<cmd, requests, stop_time>>
    /\ sent_disable_msg' = FALSE
    /\ UNCHANGED <<last_goal_time, gimbal>>

(* A double stored in a uint8: of a negative one the result is undefined,  *)
(* 255 or 0 in practice.                                                   *)
ToUInt8(v) == IF v >= 0 THEN {v % 256} ELSE {0, 255}

(* The shot is published whatever the buttons say.                         *)
fillShootMsg(joy) == shoot' \in ToUInt8(getVal(joy, shoot_axis, 1))

joyCallback(joy, known) ==
    /\ held' = (Pressed(joy, enable_turbo_button) \/ Pressed(joy, enable_button))
    /\ last_time' = time
    /\ CASE Pressed(joy, enable_turbo_button) -> sendCmdVelMsg(joy, TurboScale, known)
         [] ~Pressed(joy, enable_turbo_button) /\ Pressed(joy, enable_button)
                                              -> sendCmdVelMsg(joy, NormalScale, known)
         [] OTHER                             -> released
    /\ fillShootMsg(joy)
    /\ UNCHANGED <<control_mode, time, goal>>

(* External: a goal replaces the one pursued.                              *)
TakeGoal(r) == /\ r \in requests /\ r.type = "goal"
               /\ goal' = time
               /\ requests' = requests \ {r}
               /\ UNCHANGED <<control_mode, sent_disable_msg, last_time, last_goal_time,
                              gimbal, time, held, cmd, shoot, stop_time>>

(* External: async_cancel_goals_before.                                    *)
TakeCancel(r) == /\ r \in requests /\ r.type = "cancel"
                 /\ goal' = IF goal <= r.at THEN NoTime ELSE goal
                 /\ requests' = requests \ {r}
                 /\ UNCHANGED <<control_mode, sent_disable_msg, last_time,
                                last_goal_time, gimbal, time, held, cmd, shoot, stop_time>>

(* External: the robot arrives.                                            *)
Arrive == /\ goal # NoTime /\ goal' = NoTime
          /\ UNCHANGED <<control_mode, sent_disable_msg, last_time, last_goal_time,
                         gimbal, time, held, cmd, shoot, stop_time, requests>>

JoyTick == /\ time < MaxTime /\ time' = time + 1
           /\ UNCHANGED <<control_mode, sent_disable_msg, last_time, last_goal_time,
                          gimbal, held, cmd, shoot, stop_time, requests, goal>>

TeleopNext == \/ \E j \in Joys, known \in BOOLEAN : joyCallback(j, known)
              \/ \E r \in requests : TakeGoal(r) \/ TakeCancel(r)
              \/ Arrive
              \/ JoyTick

TeleopSpec == TeleopInit /\ [][TeleopNext]_teleopVars

-----------------------------------------------------------------------------
Requests == [type : {"goal", "cancel"}, at : 0..MaxTime]

TeleopTypeOK ==
    /\ control_mode \in Modes /\ sent_disable_msg \in BOOLEAN /\ held \in BOOLEAN
    /\ last_time \in -1..MaxTime /\ last_goal_time \in -1..MaxTime
    /\ time \in 0..MaxTime /\ goal \in -1..MaxTime /\ gimbal \in Int
    /\ cmd \in [x : Int, yaw : Int] /\ shoot \in 0..255 /\ stop_time \in -1..MaxTime
    /\ requests \subseteq Requests

(* "When enable button is released, immediately send a single no-motion    *)
(* command in order to stop the robot": one is enough.  Whatever came      *)
(* before, the last velocity published while no button is held is zero;    *)
(* and in auto control, once the cancellation has been taken, no goal      *)
(* accepted up to the release is pursued.  (One still on its way at the    *)
(* release is not covered.)                                                *)
ReleaseStops ==
    ~held => /\ cmd = Still
             /\ requests = {} => goal = NoTime \/ goal >= stop_time
=============================================================================
