------------------------------- MODULE MCMotion -------------------------------
(***************************************************************************)
(* Instances of the nodes that command a velocity, and of the node that    *)
(* turns the commands into the robot's frame.  FakeVelTransform lets any   *)
(* command arrive at any time, so what the others publish needs no common  *)
(* state: a behaviour runs one of the four, and the rest stays as it is.   *)
(***************************************************************************)
EXTENDS FakeVelTransform, TeleopTwistJoy, BackUpFreeSpace, OmniPidPursuit

VARIABLE part    \* which of them runs

motionVars == <<part, vars, teleopVars, backUpVars, pursuitVars>>

MCVelocities == {Zero, [x |-> 1, y |-> 0, z |-> 0], [x |-> 0, y |-> 1, z |-> 1]}

(* Turbo and normal, a stick held down, a neutral one, short messages      *)
MCJoys == {[axes |-> <<1, 1>>, buttons |-> <<TRUE, FALSE>>],
           [axes |-> <<1, -1>>, buttons |-> <<TRUE, TRUE>>],
           [axes |-> <<0, 0>>, buttons |-> <<FALSE, FALSE>>],
           [axes |-> <<1>>, buttons |-> <<TRUE>>],
           [axes |-> <<>>, buttons |-> <<>>]}

(* A plan that ahead of the robot turns, and one that leads back to it     *)
Pose(x, y, w) == [at |-> <<x, y>>, yaw |-> w]
MCPlans == {<<Pose(0,0,0), Pose(1,0,0), Pose(2,0,0), Pose(3,0,0), Pose(3,1,1)>>,
            <<Pose(2,0,0), Pose(2,1,1), Pose(1,1,-1), Pose(0,1,0), Pose(0,0,0)>>}
MCPlaces == {<<0, 0>>, <<1, 0>>, <<1, 1>>}
MCObstacles == {{<<2, 0>>, <<3, 0>>}, {<<0, 0>>}}

(* The shipped way of looking ahead, and one with the default options      *)
MCShipped == [scaled |-> TRUE, min_dist |-> 1, max_dist |-> 2, dist |-> 1,
              interpolate |-> FALSE, rotate |-> FALSE, threshold |-> 0]
MCSettings == {MCShipped, [MCShipped EXCEPT !.scaled = FALSE, !.dist = 2,
                                            !.interpolate = TRUE, !.rotate = TRUE]}
MCMoveGains == [kp |-> 1, ki |-> 1, kd |-> 3, max |-> 4, min |-> -4]
MCHeadGains == [kp |-> 1, ki |-> 1, kd |-> 1, max |-> 2, min |-> -2]
MCGarbage == {-100, 0, 100}

MCInit ==
    /\ part \in {"fakevel", "teleop", "backup", "pursuit"}
    /\ Init /\ TeleopInit /\ BackUpInit /\ PursuitInit
    /\ part # "fakevel" => angle = 0 /\ spin_speed = 0
    /\ part # "teleop" => control_mode = "manual" /\ ~sent_disable_msg
    /\ part # "pursuit" => robot = <<0, 0>> /\ parameters = MCShipped /\ last_velocity = 0

FakeVelPart(A) == part = "fakevel" /\ A /\ UNCHANGED <<part, teleopVars, backUpVars, pursuitVars>>
TeleopPart(A)  == part = "teleop" /\ A /\ UNCHANGED <<part, vars, backUpVars, pursuitVars>>
BackUpPart(A)  == part = "backup" /\ A /\ UNCHANGED <<part, vars, teleopVars, pursuitVars>>
PursuitPart(A) == part = "pursuit" /\ A /\ UNCHANGED <<part, vars, teleopVars, backUpVars>>

MCNext == \/ FakeVelPart(Next)
          \/ TeleopPart(TeleopNext)
          \/ BackUpPart(BackUpNext)
          \/ PursuitPart(PursuitNext)

(* The fairness of FakeVelTransform and of BackUpFreeSpace                 *)
MCSpec == /\ MCInit /\ [][MCNext]_motionVars
          /\ SF_motionVars(FakeVelPart(\E y \in Yaws, i \in 1..QueueSize : Odometry(y, i)))
          /\ WF_motionVars(BackUpPart(CycleLate))
          /\ WF_motionVars(BackUpPart(BackUpTick))

(* The values of every part's variables, and of the three that are at rest *)
MotionTypeOK == TypeOK /\ TeleopTypeOK /\ BackUpTypeOK /\ PursuitTypeOK
=============================================================================
