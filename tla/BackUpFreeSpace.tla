---------------------------- MODULE BackUpFreeSpace ----------------------------
(***************************************************************************)
(* The recovery behaviour back_up_free_space of pb_nav2_plugins: fetch the *)
(* costmap, look in every direction for free space, drive there.  Nav2's   *)
(* TimedBehavior (external) calls onRun once and then onCycleUpdate until  *)
(* it no longer answers RUNNING, and stops the robot when cancelled.  The  *)
(* loop of findBestDirection is one step per direction.                    *)
(***************************************************************************)
EXTENDS Integers

CONSTANTS LastAngle,   \* directions 0..LastAngle go from -pi to just short of pi
          command_x,   \* distance to drive
          allowance,   \* command_time_allowance_ in ticks, 0 for none
          MaxRuns      \* bound: goals taken

(* LastAngle is 63 in the code: with 32-bit floats the 65th angle of the    *)
(* loop comes out above pi.                                                *)
ASSUME BackUpAssumption == /\ LastAngle \in Nat /\ LastAngle % 2 = 1
                           /\ command_x \in Nat \ {0}
                           /\ allowance \in Nat /\ MaxRuns \in Nat

Angles == 0..LastAngle
Ahead == (LastAngle + 1) \div 2    \* angle 0.0, in the global frame
NoAngle == -1                \* the angle -1.0f, which no direction has

VARIABLES
    phase,               \* "idle", "asking", "scanning", "driving"
    safe,                \* the costmap: whether the ray in a direction is free
    dir,                 \* loop variable of findBestDirection
    first_safe, last_unsafe, final_safe, final_unsafe,
    remaining,           \* end_time_ - now, -1 when idle or past
    distance,            \* how far the robot is from initial_pose_
    moving,              \* whether the last velocity published is not zero
    pose_lost,           \* the last run ended because there was no pose
    runs

sector_search == <<dir, first_safe, last_unsafe, final_safe, final_unsafe>>
backUpVars == <<phase, safe, sector_search, remaining, distance, moving, pose_lost, runs>>

BackUpInit == /\ phase = "idle" /\ safe = [a \in Angles |-> FALSE]
              /\ dir = 0 /\ first_safe = NoAngle /\ last_unsafe = NoAngle
              /\ final_safe = Ahead /\ final_unsafe = Ahead
              /\ remaining = -1 /\ distance = 0
              /\ moving = FALSE /\ pose_lost = FALSE /\ runs = 0

(* External: a goal arrives.                                               *)
Goal == /\ phase = "idle" /\ runs < MaxRuns
        /\ phase' = "asking" /\ runs' = runs + 1
        /\ UNCHANGED <<safe, sector_search, remaining, distance, moving, pose_lost>>

(* onRun: the service answers with a costmap and the pose is known.        *)
Answered(fan) == /\ phase = "asking"
                 /\ phase' = "scanning" /\ safe' = fan
                 /\ dir' = 0 /\ first_safe' = NoAngle /\ last_unsafe' = NoAngle
                 /\ final_safe' = Ahead /\ final_unsafe' = Ahead
                 /\ UNCHANGED <<remaining, distance, moving, pose_lost, runs>>

(* onRun: no answer within a second, or no pose before or after the search *)
OnRunFails == /\ phase = "asking" \/ (phase = "scanning" /\ dir > LastAngle)
              /\ phase' = "idle"
              /\ UNCHANGED <<safe, sector_search, remaining, distance, moving, pose_lost, runs>>

Wider(f, l, tie) == \/ l - f > final_unsafe - final_safe
                    \/ tie /\ l - f = final_unsafe - final_safe

(* Mutant: the sector found is not forgotten before the next one.          *)
SectorEndKept(f, l, tie) ==
    IF f # NoAngle /\ l # NoAngle /\ Wider(f, l, tie)
    THEN /\ final_safe' = f /\ final_unsafe' = l
         /\ first_safe' = f /\ last_unsafe' = NoAngle
    ELSE first_safe' = f /\ last_unsafe' = l /\ UNCHANGED <<final_safe, final_unsafe>>

(* A sector from f to l, if both are known: the wider one is kept; of two  *)
(* of a width the rounding of floats decides (tie).  One that is not kept  *)
(* stays in first_safe and last_unsafe for good.                           *)
SectorEnd(f, l, tie) ==
    IF f # NoAngle /\ l # NoAngle /\ Wider(f, l, tie)
    THEN /\ final_safe' = f /\ final_unsafe' = l
         /\ first_safe' = NoAngle /\ last_unsafe' = NoAngle
    ELSE first_safe' = f /\ last_unsafe' = l /\ UNCHANGED <<final_safe, final_unsafe>>

(* One round of the loop of findBestDirection.  A sector is compared once: *)
(* the same two floats compare the same way in every later round.          *)
LookAt == /\ phase = "scanning" /\ dir <= LastAngle
          /\ LET f == IF safe[dir] /\ first_safe = NoAngle THEN dir ELSE first_safe
                 l == IF ~safe[dir] /\ f # NoAngle /\ last_unsafe = NoAngle
                      THEN dir ELSE last_unsafe
             IN \E tie \in BOOLEAN : /\ tie => last_unsafe = NoAngle
                                     /\ SectorEnd(f, l, tie)
          /\ dir' = dir + 1
          /\ UNCHANGED <<phase, safe, remaining, distance, moving, pose_lost, runs>>

(* The rest of onRun; the direction is halfway between the sector's ends.  *)
Drive == /\ phase = "scanning" /\ dir > LastAngle
         /\ phase' = "driving" /\ remaining' = allowance /\ distance' = 0
         /\ UNCHANGED <<safe, sector_search, moving, pose_lost, runs>>

Ended(lost, moves) == /\ phase' = "idle" /\ remaining' = -1
                      /\ pose_lost' = lost /\ moving' = moves
                      /\ UNCHANGED <<safe, sector_search, distance, runs>>

(* Mutant: the test whether there is an allowance, inverted.               *)
TimeIsUpInverted == remaining < 0 /\ allowance = 0

TimeIsUp == remaining < 0 /\ allowance > 0

(* onCycleUpdate; known says whether the pose is, free whether Nav2's      *)
(* isCollisionFree (external) finds the way free.                          *)
onCycleUpdate(known, free) ==
    /\ phase = "driving"
    /\ CASE TimeIsUp              -> Ended(FALSE, FALSE)
         [] ~TimeIsUp /\ ~known   -> Ended(TRUE, moving)
         [] ~TimeIsUp /\ known /\ (distance >= command_x \/ ~free)
                                  -> Ended(FALSE, FALSE)
         [] OTHER -> /\ moving' = TRUE
                     /\ UNCHANGED <<phase, safe, sector_search, remaining, distance,
                                    pose_lost, runs>>

(* External: TimedBehavior sees a cancellation before a cycle.             *)
Cancel == phase = "driving" /\ Ended(FALSE, FALSE)

(* External: the robot moves, or slips.                                    *)
Move == /\ phase = "driving" /\ moving /\ distance < command_x
        /\ distance' = distance + 1
        /\ UNCHANGED <<phase, safe, sector_search, remaining, moving, pose_lost, runs>>

BackUpTick == /\ phase = "driving" /\ remaining >= 0 /\ allowance > 0
              /\ remaining' = remaining - 1
              /\ UNCHANGED <<phase, safe, sector_search, distance, moving, pose_lost, runs>>

BackUpRest == phase = "idle" /\ runs = MaxRuns /\ UNCHANGED backUpVars

Cycle == \E known, free \in BOOLEAN : onCycleUpdate(known, free)

BackUpNext == \/ Goal \/ OnRunFails
              \/ \E fan \in [Angles -> BOOLEAN] : Answered(fan)
              \/ LookAt \/ Drive \/ Cycle
              \/ Cancel \/ Move \/ BackUpTick \/ BackUpRest

BackUpSpec == BackUpInit /\ [][BackUpNext]_backUpVars

(* Time passes, and the rate-limited loop runs the cycle that finds it up. *)
(* No cycle is assumed that collides, arrives or loses the pose.           *)
CycleLate == TimeIsUp /\ Cycle

BackUpFairSpec == BackUpSpec /\ WF_backUpVars(CycleLate) /\ WF_backUpVars(BackUpTick)

-----------------------------------------------------------------------------
BackUpTypeOK ==
    /\ phase \in {"idle", "asking", "scanning", "driving"}
    /\ safe \in [Angles -> BOOLEAN] /\ dir \in 0..(LastAngle + 1)
    /\ {first_safe, last_unsafe} \subseteq Angles \cup {NoAngle}
    /\ {final_safe, final_unsafe} \subseteq Angles
    /\ remaining \in -1..allowance /\ distance \in 0..command_x
    /\ pose_lost \in BOOLEAN /\ runs \in 0..MaxRuns
    /\ moving \in BOOLEAN

Sector(f, l) == /\ \A a \in f..(l - 1) : safe[a]
                /\ ~safe[l]
                /\ f = 0 \/ ~safe[f - 1]

(* What the search hands to the drive: a whole free sector with a blocked  *)
(* end, no narrower than any before it; or straight ahead, and then no     *)
(* blocked direction follows a free one.                                   *)
ChosenSector ==
    phase = "driving" =>
        IF final_safe = final_unsafe
        THEN \A a, b \in Angles : safe[a] /\ a < b => safe[b]
        ELSE /\ Sector(final_safe, final_unsafe) /\ final_safe < final_unsafe
             /\ \A f, l \in Angles : f < l /\ l < final_safe /\ Sector(f, l)
                                     => l - f <= final_unsafe - final_safe

(* A run ends, however the wheels slip, if its goal allows it a time; and  *)
(* it ends at rest, unless it was the pose that got lost.                  *)
RunEnds == allowance > 0 => (phase = "driving" ~> phase = "idle" /\ (moving => pose_lost))
=============================================================================
