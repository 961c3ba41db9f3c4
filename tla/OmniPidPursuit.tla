---------------------------- MODULE OmniPidPursuit ----------------------------
(***************************************************************************)
(* The path follower pb_omni_pid_pursuit_controller.  Nav2's controller    *)
(* server (external) calls setPlan and computeVelocityCommands; parameters *)
(* may be set in between, under the same mutex.  Places are grid points,   *)
(* the poses of a plan at most one step apart and distances counted in     *)
(* steps, so that every length is a whole number; the robot's frame has a  *)
(* fixed heading, as gimbal_yaw_fake has.  A control period is one unit of *)
(* time.                                                                   *)
(***************************************************************************)
EXTENDS Distances, Sequences, FiniteSets, SequencesExt, FiniteSetsExt

CONSTANTS Plans,            \* plans, each a sequence of poses [at, yaw]
          Places,           \* where the robot may be
          LethalSets,        \* sets of lethal cells the local costmap may hold
          ExtentX, ExtentY, \* half the sides of the local costmap
          MaxSearch,        \* max_robot_pose_search_dist
          Speeds,           \* measured speeds, times lookahead_time
          Settings,         \* the parameters that take effect when they are set
          move_gains, head_gains,   \* [kp, ki, kd, max, min]
          SumMax,           \* limit of the integral, 1.0 in the code
          enable_rotation,
          curvature_forward_dist, curvature_backward_dist,
          RadiusMin, RadiusMax,     \* 1 / curvature_max and 1 / curvature_min
          Reduction,        \* reduction_ratio_at_high_curvature, in percent
          Rate,             \* max_velocity_scaling_factor_rate, per period
          min_approach_linear_velocity, approach_velocity_scaling_dist,
          SamplePoints,     \* 10 in the code
          Garbage,          \* what uninitialised memory may hold
          MaxCycles         \* bound: calls of computeVelocityCommands

(* The lower limit of the velocity is not above the least approach         *)
(* velocity (it is negative in all configurations).                        *)
ASSUME PursuitAssumption ==
    /\ Plans \subseteq Seq([at : Int \X Int, yaw : Int]) /\ Places \subseteq Int \X Int
    /\ SamplePoints \in Nat \ {0} /\ SumMax \in Nat /\ Rate \in Nat /\ MaxCycles \in Nat
    /\ move_gains \in [kp : Int, ki : Int, kd : Int, max : Int, min : Int]
    /\ move_gains.min <= move_gains.max /\ move_gains.min <= 2 * min_approach_linear_velocity
    /\ min_approach_linear_velocity \in Int /\ Reduction \in 0..100 /\ Garbage \subseteq Int

Hypot(p) == Dist(p, <<0, 0>>)
Minus(p, q) == <<p[1] - q[1], p[2] - q[2]>>
Clamp(v, lo, hi) == IF v < lo THEN lo ELSE IF hi < v THEN hi ELSE v

VARIABLES
    global_plan_,     \* what is left of the plan
    robot,            \* external: where it is
    lethal,           \* external: cells whose cost forbids the robot's centre
    parameters,         \* use_velocity_scaled_.., lookahead distances, use_rotate_..
    move_pid, head_pid,      \* [err, sum]: pre_error_, integral_
    last_velocity,           \* last_velocity_scaling_factor_
    answer,           \* of the last call: [kind, tf, lin, ang]
    cycles

pursuitVars == <<global_plan_, robot, lethal, parameters, move_pid, head_pid,
                 last_velocity, answer, cycles>>

NoAnswer == [kind |-> "none", tf |-> "ok", lin |-> 0, ang |-> 0]

(* configure() leaves last_velocity_scaling_factor_ uninitialised.         *)
PursuitInit == /\ global_plan_ = <<>>
               /\ robot \in Places /\ lethal = {} /\ parameters \in Settings
               /\ move_pid = [err |-> 0, sum |-> 0] /\ head_pid = [err |-> 0, sum |-> 0]
               /\ last_velocity \in Garbage
               /\ answer = NoAnswer /\ cycles = 0

-----------------------------------------------------------------------------
(* Mutant: the integral is limited before the error is added to it.        *)
PidNextLate(pid, e) == [err |-> e, sum |-> Clamp(pid.sum, -SumMax, SumMax) + e]

(* PID::calculate(e, 0); the integral is limited after it has been used.   *)
PidNext(pid, e) == [err |-> e, sum |-> Clamp(pid.sum + e, -SumMax, SumMax)]

PidOutput(pid, g, e) ==
    Clamp(g.kp * e + g.ki * (pid.sum + e) + g.kd * (e - pid.err), g.min, g.max)

PathLength(path) == LET Step(i) == Dist(path[i].at, path[i + 1].at)
                    IN MapThenSumSet(Step, 1..(Len(path) - 1))

(* Nav2's first_after_integrated_distance (external): the poses looked at  *)
(* are those at most MaxSearch down the path; min_by takes a closest one.  *)
Searched(path) == {i \in DOMAIN path : PathLength(SubSeq(path, 1, i)) <= MaxSearch}

Begins(path) == {i \in Searched(path) :
                   \A j \in Searched(path) : Dist(path[i].at, robot) <= Dist(path[j].at, robot)}

Extent == IF ExtentX < ExtentY THEN ExtentY ELSE ExtentX

(* The part of the pruned plan that lies in the local costmap              *)
Near(path) == LET far == {i \in DOMAIN path : Dist(path[i].at, robot) > Extent}
              IN SubSeq(path, 1, IF far = {} THEN Len(path) ELSE Min(far) - 1)

(* ... seen from the robot.  A pose that cannot be transformed is taken    *)
(* for the robot's own.                                                    *)
Local(path, tf) ==
    [i \in DOMAIN path |-> IF tf = "no_local" THEN [at |-> <<0, 0>>, yaw |-> 0]
                           ELSE [at |-> Minus(path[i].at, robot), yaw |-> path[i].yaw]]

getLookAheadDistance(speed) ==
    IF parameters.scaled THEN Clamp(speed, parameters.min_dist, parameters.max_dist)
                       ELSE parameters.dist

(* The first pose that far away, else the last one.  An interpolated one   *)
(* has no heading.                                                         *)
getLookAheadPoint(dist, path) ==
    LET beyond == {i \in DOMAIN path : Hypot(path[i].at) >= dist}
    IN IF beyond = {} THEN Last(path)
       ELSE IF parameters.interpolate /\ Min(beyond) > 1
            THEN [at |-> path[Min(beyond)].at, yaw |-> 0]
            ELSE path[Min(beyond)]

findPoseAtDistance(path, d) ==
    IF d <= 0 THEN Head(path)
    ELSE IF d >= PathLength(path) THEN Last(path)
    ELSE path[Min({i \in DOMAIN path : PathLength(SubSeq(path, 1, i)) >= d})]

(* The circle through three points has a radius below r.  Points on a line *)
(* have none: the code's division gives inf or NaN, and 1e9.               *)
Tighter(p, q, s, r) ==
    LET Sq(u, v) == (u[1] - v[1]) * (u[1] - v[1]) + (u[2] - v[2]) * (u[2] - v[2])
        cross == (q[1] - p[1]) * (s[2] - p[2]) - (s[1] - p[1]) * (q[2] - p[2])
    IN Sq(p, q) * Sq(q, s) * Sq(p, s) < 4 * cross * cross * r * r

(* The velocities a curvature between the limits may ask for are in        *)
(* between those at the limits.                                            *)
CurvatureTargets(path, carrot, lin) ==
    LET d == Hypot(carrot.at)
        Bent(r) == Tighter(findPoseAtDistance(path, d - curvature_backward_dist).at,
                           carrot.at,
                           findPoseAtDistance(path, d + curvature_forward_dist).at, r)
    IN CASE Bent(RadiusMin)  -> {(lin * Reduction) \div 100}
         [] ~Bent(RadiusMin) /\ Bent(RadiusMax) -> {(lin * c) \div 100 : c \in Reduction..100}
         [] OTHER -> {}

(* What is left of lin, by the rate at which the velocity may change       *)
Limited(targets, lin) ==
    IF targets = {} THEN {lin}
    ELSE {last_velocity + Clamp(t - last_velocity, -Rate, Rate) : t \in targets}

applyCurvatureLimitation(path, carrot, lin) ==
    {LET floored == IF v < 2 * min_approach_linear_velocity
                    THEN 2 * min_approach_linear_velocity ELSE v
     IN IF floored < lin THEN floored ELSE lin :
        v \in Limited(CurvatureTargets(path, carrot, lin), lin)}

applyApproachVelocityScaling(path, lin) ==
    LET left == IF PathLength(path) < approach_velocity_scaling_dist
                THEN Hypot(Last(path).at) ELSE approach_velocity_scaling_dist
        scaled == (lin * left) \div approach_velocity_scaling_dist
        approach == IF lin * left < min_approach_linear_velocity * approach_velocity_scaling_dist
                    THEN min_approach_linear_velocity ELSE scaled
    IN IF approach < lin THEN approach ELSE lin

(* Mutant: the first poses are taken, whatever the length.                 *)
SamplesFirst(path, tf) ==
    LET n == Len(path)
    IN [i \in 1..SamplePoints |-> IF tf = "ok" THEN path[IF i < n THEN i ELSE n].at
                                              ELSE <<0, 0>>]

(* Where the sampled poses are in the costmap's frame; one that cannot be  *)
(* transformed is taken for the origin.                                    *)
Samples(path, tf) ==
    LET n == Len(path)
        Index(i) == IF (i * n) \div SamplePoints < n - 1 THEN (i * n) \div SamplePoints
                                                         ELSE n - 1
    IN [i \in 1..SamplePoints |-> IF tf = "ok" THEN path[Index(i - 1) + 1].at ELSE <<0, 0>>]

InCostmap(p) == Abs(p[1] - robot[1]) <= ExtentX /\ Abs(p[2] - robot[2]) <= ExtentY

(* The first sample outside the costmap ends the check.                    *)
isCollisionDetected(samples) ==
    \E i \in DOMAIN samples : /\ \A j \in 1..i : InCostmap(samples[j])
                              /\ samples[i] \in lethal

-----------------------------------------------------------------------------
setPlan(plan) == /\ global_plan_' = plan
                 /\ UNCHANGED <<robot, lethal, parameters, move_pid, head_pid,
                                last_velocity, answer, cycles>>

Throws(tf) == answer' = [NoAnswer EXCEPT !.kind = "exception", !.tf = tf]

(* transformGlobalPlan throws: there is no plan, the robot's place in the  *)
(* plan's frame is unknown, or none of the plan is near.                   *)
NoPath(tf) ==
    /\ \/ /\ tf = "no_robot" \/ global_plan_ = <<>>
          /\ UNCHANGED global_plan_
       \/ /\ tf # "no_robot" /\ global_plan_ # <<>>
          /\ \E b \in Begins(global_plan_) :
               LET rest == SubSeq(global_plan_, b, Len(global_plan_))
               IN Near(rest) = <<>> /\ global_plan_' = rest
    /\ Throws(tf)
    /\ UNCHANGED <<move_pid, head_pid, last_velocity>>

Heading(path, carrot) == IF parameters.rotate THEN Last(path).yaw ELSE carrot.yaw

Turns(path) == parameters.rotate /\ Abs(Last(path).yaw) > parameters.threshold

(* The rest of computeVelocityCommands: the PIDs run and remember whether  *)
(* or not a command comes of it.                                           *)
Follow(tf, speed) ==
    /\ tf # "no_robot" /\ global_plan_ # <<>>
    /\ \E b \in Begins(global_plan_) :
         LET rest   == SubSeq(global_plan_, b, Len(global_plan_))
             path   == Local(Near(rest), tf)
             carrot == getLookAheadPoint(getLookAheadDistance(speed), path)
             dist   == IF Turns(path) THEN 0 ELSE Hypot(carrot.at)
             yaw    == Heading(path, carrot)
         IN /\ path # <<>>
            /\ global_plan_' = rest
            /\ move_pid' = PidNext(move_pid, dist)
            /\ head_pid' = IF enable_rotation THEN PidNext(head_pid, yaw) ELSE head_pid
            /\ \E v \in applyCurvatureLimitation(path, carrot,
                                                 PidOutput(move_pid, move_gains, dist)) :
                 /\ last_velocity' = v
                 /\ IF isCollisionDetected(Samples(Near(rest), tf))
                    THEN Throws(tf)
                    ELSE answer' = [kind |-> "cmd", tf |-> tf,
                                    lin |-> applyApproachVelocityScaling(path, v),
                                    ang |-> IF enable_rotation
                                            THEN PidOutput(head_pid, head_gains, yaw) ELSE 0]

(* tf: which transform is missing, if any.                                 *)
computeVelocityCommands(tf, speed) ==
    /\ cycles < MaxCycles /\ cycles' = cycles + 1
    /\ NoPath(tf) \/ Follow(tf, speed)
    /\ UNCHANGED <<robot, lethal, parameters>>

(* dynamicParametersCallback.  Gains and limits are stored too, but the    *)
(* PIDs were built with the old ones.                                      *)
dynamicParametersCallback(s) ==
    /\ parameters' = s
    /\ UNCHANGED <<global_plan_, robot, lethal, move_pid, head_pid, last_velocity,
                   answer, cycles>>

(* External: the robot moves, the costmap changes.                         *)
World(place, cells) ==
    /\ Dist(place, robot) <= 1
    /\ robot' = place /\ lethal' = cells
    /\ UNCHANGED <<global_plan_, parameters, move_pid, head_pid, last_velocity, answer,
                   cycles>>

PursuitNext == \/ \E p \in Plans : setPlan(p)
               \/ \E tf \in {"ok", "no_robot", "no_local", "no_map"}, s \in Speeds :
                    computeVelocityCommands(tf, s)
               \/ \E s \in Settings : dynamicParametersCallback(s)
               \/ \E p \in Places, c \in LethalSets : World(p, c)

PursuitSpec == PursuitInit /\ [][PursuitNext]_pursuitVars

-----------------------------------------------------------------------------
PursuitTypeOK ==
    /\ global_plan_ = <<>> \/ \E p \in Plans : IsSuffix(global_plan_, p)
    /\ robot \in Places /\ lethal \in LethalSets \cup {{}} /\ parameters \in Settings
    /\ move_pid.err \in Nat /\ move_pid.sum \in 0..SumMax
    /\ head_pid.err \in Int /\ head_pid.sum \in -SumMax..SumMax
    /\ last_velocity \in Garbage \cup move_gains.min..move_gains.max
    /\ answer.kind \in {"none", "cmd", "exception"} /\ cycles \in 0..MaxCycles

(* The samples are close enough: no command comes of a path on which as    *)
(* many consecutive poses are blocked as lie between two samples, provided *)
(* the path up to there is in the costmap and can be transformed.          *)
BlockedStretchStops ==
    [][cycles' # cycles /\ answer'.kind = "cmd" /\ answer'.tf = "ok" =>
         LET path == Near(global_plan_')
             gap  == (Len(path) + SamplePoints - 1) \div SamplePoints
         IN \A i \in 1..(Len(path) - gap + 1) :
              (\A j \in 1..(i + gap - 1) : InCostmap(path[j].at))
                => \E j \in i..(i + gap - 1) : path[j].at \notin lethal]_pursuitVars
=============================================================================
