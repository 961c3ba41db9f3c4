---------------------------- MODULE Motion_proofs ----------------------------
(***************************************************************************)
(* Theorems about the joystick, the recovery behaviour and the path        *)
(* follower, each for every value of its component's constants, and about  *)
(* the types of all nodes that command a velocity.                         *)
(***************************************************************************)
EXTENDS MCMotion, NumberFacts, SequenceTheorems, TLAPS

(* The joystick.  A velocity that is not zero means that a stop is owed,   *)
(* and a stop in auto control is followed by its cancellation until that   *)
(* is taken.                                                               *)
StopRequest == [type |-> "cancel", at |-> stop_time]

TeleopInv ==
    /\ control_mode \in {"manual", "auto"}
    /\ time \in Nat /\ stop_time \in Int /\ stop_time <= time /\ goal \in Int
    /\ \A r \in requests : r.at \in Int
    /\ ~held \/ ~sent_disable_msg => cmd = Still
    /\ control_mode = "manual" => requests = {} /\ goal = NoTime
    /\ control_mode = "auto" =>
          StopRequest \in requests \/ goal = NoTime \/ goal >= stop_time

LEMMA TeleopInitially == TeleopInit => TeleopInv
  BY TeleopAssumption DEF TeleopInit, TeleopInv, NoTime

(* While a button is held, velocities or goals, and no stop.               *)
LEMMA MotionKeeps ==
    ASSUME TeleopInv, NEW joy, NEW scale, NEW known, sendCmdVelMsg(joy, scale, known),
           held' = TRUE, UNCHANGED <<control_mode, time, goal>>
    PROVE  TeleopInv'
<1>1. sent_disable_msg' = TRUE /\ stop_time' = stop_time
  BY DEF sendCmdVelMsg
<1>2. StopRequest' = StopRequest
  BY <1>1 DEF StopRequest
<1>3. CASE control_mode = "manual"
  <2>1. requests' = requests
    BY <1>3 DEF sendCmdVelMsg
  <2>. QED
    BY <1>1, <1>2, <1>3, <2>1 DEF TeleopInv
<1>4. CASE control_mode = "auto"
  <2>1. requests' \in {requests, requests \cup {[type |-> "goal", at |-> time]}}
    BY <1>4 DEF sendCmdVelMsg, sendGoalPoseAction
  <2>. QED
    BY <1>1, <1>2, <1>4, <2>1 DEF TeleopInv
<1>. QED
  BY <1>3, <1>4 DEF TeleopInv

(* The release stops the robot, unless it is at rest already.              *)
LEMMA ReleaseKeeps ==
    ASSUME TeleopInv, released, held' = FALSE, UNCHANGED <<control_mode, time, goal>>
    PROVE  TeleopInv'
<1>1. CASE sent_disable_msg
  <2>1. /\ cmd' = Still /\ stop_time' = time /\ sent_disable_msg' = FALSE
        /\ requests' = IF control_mode = "auto"
                       THEN requests \cup {[type |-> "cancel", at |-> time]} ELSE requests
    BY <1>1 DEF released, sendZeroCommand
  <2>2. control_mode = "auto" => StopRequest' \in requests'
    BY <2>1 DEF StopRequest
  <2>3. \A r \in requests' : r.at \in Int
    BY <2>1 DEF TeleopInv
  <2>. QED
    BY <2>1, <2>2, <2>3 DEF TeleopInv
<1>2. CASE ~sent_disable_msg
  <2>1. UNCHANGED <<cmd, requests, stop_time>> /\ sent_disable_msg' = FALSE
    BY <1>2 DEF released
  <2>. QED
    BY <1>2, <2>1 DEF TeleopInv, StopRequest
<1>. QED
  BY <1>1, <1>2

(* What the two services do with goals and cancellations, in any order.    *)
LEMMA ServicesKeep ==
    ASSUME TeleopInv,
           \/ \E r \in requests : TakeGoal(r) \/ TakeCancel(r)
           \/ Arrive \/ JoyTick \/ UNCHANGED teleopVars
    PROVE  TeleopInv'
<1>1. UNCHANGED <<control_mode, sent_disable_msg, held, cmd, stop_time>> /\ StopRequest' = StopRequest
  BY DEF TakeGoal, TakeCancel, Arrive, JoyTick, teleopVars, StopRequest
<1>2. ASSUME NEW r \in requests, TakeGoal(r) PROVE TeleopInv'
  <2>1. r # StopRequest
    BY <1>2 DEF TakeGoal, StopRequest
  <2>2. goal' = time /\ time' = time /\ requests' = requests \ {r}
    BY <1>2 DEF TakeGoal
  <2>. QED
    BY <1>1, <2>1, <2>2 DEF TeleopInv
<1>3. ASSUME NEW r \in requests, TakeCancel(r) PROVE TeleopInv'
  <2>1. /\ goal' = IF goal <= r.at THEN NoTime ELSE goal
        /\ time' = time /\ requests' = requests \ {r}
    BY <1>3 DEF TakeCancel
  <2>2. r = StopRequest => r.at = stop_time
    BY DEF StopRequest
  <2>3. r.at \in Int /\ control_mode = "auto" /\ NoTime \in Int
    BY DEF TeleopInv, NoTime
  <2>4. StopRequest \in requests' \/ goal' = NoTime \/ goal' >= stop_time
    BY <2>1, <2>2, <2>3 DEF TeleopInv
  <2>. QED
    BY <1>1, <2>1, <2>3, <2>4 DEF TeleopInv
<1>4. CASE Arrive
  BY <1>1, <1>4 DEF Arrive, TeleopInv, NoTime
<1>5. CASE JoyTick
  BY <1>1, <1>5 DEF JoyTick, TeleopInv
<1>6. CASE UNCHANGED teleopVars
  BY <1>1, <1>6 DEF teleopVars, TeleopInv
<1>. QED
  BY <1>2, <1>3, <1>4, <1>5, <1>6

(* One stop is enough: whatever the messages, the mode, the value          *)
(* sent_disable_msg_ starts with and the order in which goals and          *)
(* cancellations are taken, the robot is sent no velocity while no button  *)
(* is held, and no goal accepted before the release outlives its           *)
(* cancellation.                                                           *)
THEOREM ReleaseIsEnough == TeleopSpec => []ReleaseStops
<1>1. TeleopInv /\ [TeleopNext]_teleopVars => TeleopInv'
  <2>. SUFFICES ASSUME TeleopInv, [TeleopNext]_teleopVars PROVE TeleopInv'
    OBVIOUS
  <2>1. ASSUME NEW joy \in Joys, NEW known \in BOOLEAN, joyCallback(joy, known)
        PROVE  TeleopInv'
    <3>. DEFINE turbo == Pressed(joy, enable_turbo_button)
                normal == Pressed(joy, enable_button)
    <3>1. UNCHANGED <<control_mode, time, goal>> /\ held' = (turbo \/ normal)
      BY <2>1 DEF joyCallback
    <3>2. CASE turbo
      <4>1. sendCmdVelMsg(joy, TurboScale, known)
        BY <2>1, <3>2 DEF joyCallback
      <4>. QED
        BY <3>1, <3>2, <4>1, MotionKeeps
    <3>3. CASE ~turbo /\ normal
      <4>1. sendCmdVelMsg(joy, NormalScale, known)
        BY <2>1, <3>3 DEF joyCallback
      <4>. QED
        BY <3>1, <3>3, <4>1, MotionKeeps
    <3>4. CASE ~turbo /\ ~normal
      <4>1. released
        BY <2>1, <3>4 DEF joyCallback
      <4>. QED
        BY <3>1, <3>4, <4>1, ReleaseKeeps
    <3>. QED
      BY <3>2, <3>3, <3>4
  <2>. QED
    BY <2>1, ServicesKeep DEF TeleopNext
<1>2. TeleopInv => ReleaseStops
  <2>1. control_mode = "auto" /\ requests = {} => StopRequest \notin requests
    OBVIOUS
  <2>. QED
    BY <2>1 DEF TeleopInv, ReleaseStops
<1>. QED
  BY <1>1, <1>2, TeleopInitially, PTL DEF TeleopSpec

-----------------------------------------------------------------------------
(* The search.  Until a sector is rejected (last_unsafe known) every       *)
(* sector seen is compared; the open one (first_safe known) reaches up to  *)
(* the direction before dir.                                               *)
Starts(f) == f = 0 \/ ~safe[f - 1]
Free(f, l) == \A a \in f..(l - 1) : safe[a]
Searching == phase \in {"scanning", "driving"}
Found == final_safe # final_unsafe

SearchTypes == /\ safe \in [Angles -> BOOLEAN] /\ dir \in 0..(LastAngle + 1)
               /\ {first_safe, last_unsafe} \subseteq Angles \cup {NoAngle}
               /\ {final_safe, final_unsafe} \subseteq Angles

BetweenSectors == first_safe = NoAngle => last_unsafe = NoAngle /\ Starts(dir)
InSector == first_safe # NoAngle /\ last_unsafe = NoAngle
               => Starts(first_safe) /\ first_safe < dir /\ Free(first_safe, dir)
Rejected == last_unsafe # NoAngle
               => last_unsafe - first_safe <= final_unsafe - final_safe
NothingFound == ~Found => /\ last_unsafe = NoAngle
                          /\ \A a \in 0..(dir - 1) :
                                safe[a] => first_safe # NoAngle /\ first_safe <= a
ItsSector == Found => /\ Sector(final_safe, final_unsafe)
                      /\ final_safe < final_unsafe /\ final_unsafe < dir
Widest == \A f, l \in Angles :
             f < l /\ l < dir /\ Sector(f, l) /\ (last_unsafe # NoAngle => l < final_safe)
                => l - f <= final_unsafe - final_safe

SearchInv == Searching => /\ SearchTypes /\ BetweenSectors /\ InSector /\ Rejected
                          /\ NothingFound /\ ItsSector /\ Widest
                          /\ phase = "driving" => dir = LastAngle + 1

LEMMA SearchStarts ==
    ASSUME NEW fan \in [Angles -> BOOLEAN], Answered(fan) PROVE SearchInv'
<1>1. Ahead \in Angles
  BY BackUpAssumption DEF Ahead, Angles
<1>2. NoAngle \notin Angles /\ 0 \in 0..(LastAngle + 1) /\ 0..(0 - 1) = {}
  BY BackUpAssumption DEF NoAngle, Angles
<1>3. /\ safe' = fan /\ dir' = 0 /\ first_safe' = NoAngle /\ last_unsafe' = NoAngle
      /\ final_safe' = Ahead /\ final_unsafe' = Ahead /\ phase' = "scanning"
  BY DEF Answered
<1>4. SearchTypes'
  BY <1>1, <1>2, <1>3 DEF SearchTypes
<1>5. Widest'
  BY <1>3 DEF Widest, Angles
<1>. QED
  BY <1>2, <1>3, <1>4, <1>5 DEF SearchInv, Searching, BetweenSectors, InSector, Rejected,
                               NothingFound, ItsSector, Found, Starts

(* The direction is free: a sector opens or goes on.                       *)
LEMMA FreeDirection ==
    ASSUME SearchInv, LookAt, last_unsafe = NoAngle, safe[dir]
    PROVE  SearchInv'
<1>. DEFINE f == IF first_safe = NoAngle THEN dir ELSE first_safe
<1>1. /\ SearchTypes /\ BetweenSectors /\ InSector /\ Rejected /\ NothingFound
      /\ ItsSector /\ Widest /\ dir \in Angles /\ phase = "scanning" /\ LastAngle \in Nat
  BY BackUpAssumption DEF SearchInv, Searching, LookAt, SearchTypes, Angles
<1>2. /\ first_safe' = f /\ last_unsafe' = NoAngle
      /\ UNCHANGED <<final_safe, final_unsafe, safe, phase>> /\ dir' = dir + 1
  BY DEF LookAt, SectorEnd
<1>3. SearchTypes'
  BY <1>1, <1>2 DEF SearchTypes, Angles
<1>4. Starts(f) /\ f <= dir /\ f \in Angles /\ \A a \in f..dir : safe[a]
  BY <1>1 DEF BetweenSectors, InSector, Free, Starts, SearchTypes, Angles, NoAngle
<1>5. BetweenSectors' /\ InSector' /\ Rejected'
  <2>. HIDE DEF f
  <2>1. f # NoAngle /\ f < dir + 1 /\ (dir + 1) - 1 = dir
    BY <1>1, <1>4 DEF Angles, NoAngle
  <2>2. \A a \in f..((dir + 1) - 1) : safe[a]
    BY <1>4, <2>1
  <2>. QED
    BY <1>2, <1>4, <2>1, <2>2 DEF BetweenSectors, InSector, Rejected, Free, Starts
<1>6. NothingFound'
  BY <1>1, <1>2, <1>4 DEF NothingFound, Found, Angles, NoAngle
<1>7. ItsSector'
  BY <1>1, <1>2 DEF ItsSector, Found, Sector, SearchTypes, Angles
<1>8. Widest'
  BY <1>1, <1>2 DEF Widest, Found, Sector, SearchTypes, Angles
<1>. QED
  BY <1>1, <1>2, <1>3, <1>5, <1>6, <1>7, <1>8 DEF SearchInv

(* No sector is open, and none opens.                                      *)
LEMMA StillNoSector ==
    ASSUME SearchInv, LookAt, first_safe = NoAngle, ~safe[dir]
    PROVE  SearchInv'
<1>1. /\ SearchTypes /\ BetweenSectors /\ InSector /\ Rejected /\ NothingFound
      /\ ItsSector /\ Widest /\ dir \in Angles /\ phase = "scanning" /\ LastAngle \in Nat
  BY BackUpAssumption DEF SearchInv, Searching, LookAt, SearchTypes, Angles
<1>2. /\ first_safe' = NoAngle /\ last_unsafe' = NoAngle /\ last_unsafe = NoAngle
      /\ UNCHANGED <<final_safe, final_unsafe, safe, phase>> /\ dir' = dir + 1
  BY <1>1 DEF LookAt, SectorEnd, BetweenSectors
<1>3. SearchTypes'
  BY <1>1, <1>2 DEF SearchTypes, Angles
<1>4. BetweenSectors' /\ InSector' /\ Rejected'
  BY <1>1, <1>2 DEF BetweenSectors, InSector, Rejected, Starts, Angles, NoAngle
<1>5. NothingFound'
  BY <1>1, <1>2 DEF NothingFound, Found, Angles, NoAngle
<1>6. ItsSector'
  BY <1>1, <1>2 DEF ItsSector, Found, Sector, SearchTypes, Angles
<1>7. Widest'
  <2>1. ASSUME NEW g \in Angles, g < dir PROVE ~Sector(g, dir)
    BY <1>1, <2>1 DEF BetweenSectors, Starts, Sector, Angles
  <2>. QED
    BY <1>1, <1>2, <2>1 DEF Widest, Found, Sector, SearchTypes, Angles
<1>. QED
  BY <1>1, <1>2, <1>3, <1>4, <1>5, <1>6, <1>7 DEF SearchInv

(* The open sector ends: it is kept, or rejected for good.                 *)
LEMMA OpenSectorEnds ==
    ASSUME SearchInv, LookAt, first_safe # NoAngle, last_unsafe = NoAngle, ~safe[dir]
    PROVE  SearchInv'
<1>1. /\ SearchTypes /\ BetweenSectors /\ InSector /\ Rejected /\ NothingFound
      /\ ItsSector /\ Widest /\ dir \in Angles /\ phase = "scanning" /\ LastAngle \in Nat
  BY BackUpAssumption DEF SearchInv, Searching, LookAt, SearchTypes, Angles
<1>2. UNCHANGED <<safe, phase>> /\ dir' = dir + 1 /\ dir # NoAngle
  BY <1>1 DEF LookAt, Angles, NoAngle
<1>3. PICK tie \in BOOLEAN : SectorEnd(first_safe, dir, tie)
  BY DEF LookAt
<1>4. /\ Sector(first_safe, dir) /\ first_safe \in Angles /\ first_safe < dir
      /\ first_safe \in Int /\ dir \in Int
  BY <1>1 DEF InSector, Sector, Starts, Free, SearchTypes, Angles
<1>5. ASSUME NEW g \in Angles, g < dir, Sector(g, dir) PROVE g = first_safe
  BY <1>1, <1>4, <1>5 DEF Sector, Angles
<1>6. CASE Wider(first_safe, dir, tie)
  <2>1. /\ final_safe' = first_safe /\ final_unsafe' = dir
        /\ first_safe' = NoAngle /\ last_unsafe' = NoAngle
    BY <1>2, <1>3, <1>6 DEF SectorEnd
  <2>2. dir - first_safe >= final_unsafe - final_safe
    BY <1>1, <1>4, <1>6 DEF Wider, SearchTypes, Angles
  <2>3. SearchTypes'
    BY <1>1, <1>2, <1>4, <2>1 DEF SearchTypes, Angles
  <2>4. BetweenSectors' /\ InSector' /\ Rejected' /\ NothingFound'
    BY <1>1, <1>2, <1>4, <2>1 DEF BetweenSectors, InSector, Rejected, NothingFound, Found, Starts,
                                  Angles, NoAngle
  <2>5. ItsSector'
    BY <1>1, <1>2, <1>4, <2>1 DEF ItsSector, Found, Sector, Angles
  <2>6. Widest'
    <3>. SUFFICES ASSUME NEW g \in Angles, NEW l \in Angles, g < l, l < dir + 1, Sector(g, l)
                  PROVE  l - g <= dir - first_safe
      BY <1>2, <2>1 DEF Widest, Sector
    <3>1. CASE l = dir
      BY <1>4, <1>5, <3>1
    <3>2. CASE l < dir
      <4>1. l - g <= final_unsafe - final_safe
        BY <1>1, <3>2 DEF Widest
      <4>. QED
        BY <1>1, <1>4, <2>2, <4>1 DEF SearchTypes, Angles
    <3>. QED
      BY <1>4, <3>1, <3>2 DEF Angles
  <2>. QED
    BY <1>1, <1>2, <2>3, <2>4, <2>5, <2>6 DEF SearchInv
<1>7. CASE ~Wider(first_safe, dir, tie)
  <2>1. /\ first_safe' = first_safe /\ last_unsafe' = dir
        /\ UNCHANGED <<final_safe, final_unsafe>>
    BY <1>3, <1>7 DEF SectorEnd
  <2>2. dir - first_safe <= final_unsafe - final_safe
    BY <1>1, <1>4, <1>7 DEF Wider, SearchTypes, Angles
  <2>3. Found
    BY <1>1, <1>4, <2>2 DEF Found, SearchTypes, Angles
  <2>4. SearchTypes'
    BY <1>1, <1>2, <2>1 DEF SearchTypes, Angles
  <2>5. BetweenSectors' /\ InSector' /\ Rejected' /\ NothingFound'
    BY <1>2, <2>1, <2>2, <2>3 DEF BetweenSectors, InSector, Rejected, NothingFound, Found
  <2>6. ItsSector'
    BY <1>1, <1>2, <2>1 DEF ItsSector, Found, Sector, SearchTypes, Angles
  <2>7. Widest'
    <3>. SUFFICES ASSUME NEW g \in Angles, NEW l \in Angles, g < l, l < final_safe, Sector(g, l)
                  PROVE  l - g <= final_unsafe - final_safe
      BY <1>2, <2>1 DEF Widest, Sector
    <3>1. l < dir
      BY <1>1, <2>3 DEF ItsSector, SearchTypes, Angles
    <3>. QED
      BY <1>1, <3>1 DEF Widest
  <2>. QED
    BY <1>1, <1>2, <2>4, <2>5, <2>6, <2>7 DEF SearchInv
<1>. QED
  BY <1>6, <1>7

(* After a rejection nothing changes any more.                             *)
LEMMA NothingAfterRejection ==
    ASSUME SearchInv, LookAt, last_unsafe # NoAngle
    PROVE  SearchInv'
<1>1. /\ SearchTypes /\ BetweenSectors /\ InSector /\ Rejected /\ NothingFound
      /\ ItsSector /\ Widest /\ dir \in Angles /\ phase = "scanning" /\ LastAngle \in Nat
  BY BackUpAssumption DEF SearchInv, Searching, LookAt, SearchTypes, Angles
<1>2. UNCHANGED <<safe, phase>> /\ dir' = dir + 1
  BY DEF LookAt
<1>3. first_safe # NoAngle /\ SectorEnd(first_safe, last_unsafe, FALSE)
  BY <1>1 DEF LookAt, BetweenSectors
<1>4. ~Wider(first_safe, last_unsafe, FALSE)
  BY <1>1, <1>3 DEF Wider, Rejected, SearchTypes, Angles
<1>5. UNCHANGED <<first_safe, last_unsafe, final_safe, final_unsafe>>
  BY <1>3, <1>4 DEF SectorEnd
<1>6. SearchTypes' /\ BetweenSectors' /\ InSector' /\ Rejected' /\ NothingFound'
  BY <1>1, <1>2, <1>3, <1>5 DEF SearchTypes, BetweenSectors, InSector, Rejected, NothingFound,
                                Found, Angles
<1>7. ItsSector'
  BY <1>1, <1>2, <1>5 DEF ItsSector, Found, Sector, SearchTypes, Angles
<1>8. Widest'
  BY <1>1, <1>2, <1>5 DEF Widest, ItsSector, NothingFound, Found, Sector, SearchTypes, Angles
<1>. QED
  BY <1>1, <1>2, <1>6, <1>7, <1>8 DEF SearchInv

LEMMA OtherStepsKeepTheSearch ==
    ASSUME SearchInv,
           \/ Goal \/ OnRunFails \/ Drive \/ Cycle \/ Cancel \/ Move
           \/ BackUpTick \/ BackUpRest \/ UNCHANGED backUpVars
    PROVE  SearchInv'
<1>1. /\ UNCHANGED <<safe, dir, first_safe, last_unsafe, final_safe, final_unsafe>>
      /\ \/ phase' \in {"idle", "asking"} \/ phase' = phase
         \/ phase = "scanning" /\ phase' = "driving" /\ dir > LastAngle
  BY DEF Goal, OnRunFails, Drive, Cycle, onCycleUpdate, Ended, Cancel, Move, BackUpTick,
         BackUpRest, backUpVars, sector_search
<1>2. CASE ~Searching'
  BY <1>2 DEF SearchInv
<1>3. CASE Searching'
  <2>1. SearchInv /\ Searching
    BY <1>1, <1>3 DEF Searching
  <2>2. phase' = "driving" => dir = LastAngle + 1
    BY <1>1, <2>1, BackUpAssumption DEF SearchInv, SearchTypes
  <2>3. SearchTypes' /\ BetweenSectors' /\ InSector' /\ Rejected' /\ NothingFound'
    BY <1>1, <2>1 DEF SearchInv, SearchTypes, BetweenSectors, InSector, Rejected, NothingFound,
                      Found, Starts, Free
  <2>4. ItsSector' /\ Widest'
    BY <1>1, <2>1 DEF SearchInv, ItsSector, Widest, Found, Sector
  <2>. QED
    BY <1>1, <2>2, <2>3, <2>4 DEF SearchInv
<1>. QED
  BY <1>2, <1>3

(* The recovery behaviour drives where it should: after any costmap, for   *)
(* any number of directions and however ties are rounded, the direction    *)
(* lies in a whole free sector with a blocked end that is no narrower than *)
(* any before it, or straight ahead when no blocked direction follows a    *)
(* free one.                                                               *)
THEOREM DrivesIntoTheOpen == BackUpSpec => []ChosenSector
<1>1. BackUpInit => SearchInv
  BY DEF BackUpInit, SearchInv, Searching
<1>2. SearchInv /\ [BackUpNext]_backUpVars => SearchInv'
  <2>. SUFFICES ASSUME SearchInv, [BackUpNext]_backUpVars PROVE SearchInv'
    OBVIOUS
  <2>1. CASE LookAt
    BY <2>1, FreeDirection, StillNoSector, OpenSectorEnds, NothingAfterRejection
       DEF SearchInv, Searching, LookAt, BetweenSectors
  <2>. QED
    BY <2>1, SearchStarts, OtherStepsKeepTheSearch DEF BackUpNext
<1>3. SearchInv => ChosenSector
  <2>. SUFFICES ASSUME SearchInv, phase = "driving"
                PROVE  IF final_safe = final_unsafe
                       THEN \A a, b \in Angles : safe[a] /\ a < b => safe[b]
                       ELSE /\ Sector(final_safe, final_unsafe) /\ final_safe < final_unsafe
                            /\ \A f, l \in Angles : f < l /\ l < final_safe /\ Sector(f, l)
                                                    => l - f <= final_unsafe - final_safe
    BY DEF ChosenSector
  <2>1. /\ SearchTypes /\ InSector /\ NothingFound /\ ItsSector /\ Widest
        /\ dir = LastAngle + 1 /\ LastAngle \in Nat
    BY BackUpAssumption DEF SearchInv, Searching
  <2>2. CASE ~Found
    BY <2>1, <2>2 DEF Found, NothingFound, InSector, Free, SearchTypes, Angles
  <2>3. CASE Found
    BY <2>1, <2>3 DEF Found, ItsSector, Widest, SearchTypes, Angles
  <2>. QED
    BY <2>2, <2>3 DEF Found
<1>. QED
  BY <1>1, <1>2, <1>3, PTL DEF BackUpSpec

-----------------------------------------------------------------------------
(* The path follower.  The samples are at the fractions t / SamplePoints   *)
(* of the path: one of them lies in every stretch of a length of theirs.   *)
LEMMA SampleInStretch ==
    ASSUME NEW n \in Nat \ {0}, NEW S \in Nat \ {0}, NEW gap \in Int,
           gap = (n + S - 1) \div S, NEW i \in 1..(n - gap + 1)
    PROVE  \E t \in 0..(S - 1) :
              /\ (t * n) \div S \in (i - 1)..(i + gap - 2) /\ (t * n) \div S <= n - 1
              /\ \A u \in 0..t : (u * n) \div S \in 0..((t * n) \div S)
<1>. DEFINE a == (i - 1) * S
            b == a + n - 1
            t == b \div n
            x == (t * n) \div S
<1>1. a \in Nat /\ b \in Nat
  <2>1. i - 1 \in Nat
    OBVIOUS
  <2>2. a \in Nat
    BY <2>1
  <2>. HIDE DEF a
  <2>. QED
    BY <2>2
<1>2. n <= S * gap /\ S * gap \in Int
  <2>1. n + S - 1 \in Int
    OBVIOUS
  <2>2. /\ gap \in Int /\ (n + S - 1) % S \in 0..(S - 1)
        /\ n + S - 1 = S * gap + ((n + S - 1) % S)
    BY <2>1, Division
  <2>3. S * gap \in Int
    BY <2>2
  <2>. QED
    BY <2>2, <2>3
<1>3. t \in Int /\ n * t \in Int /\ n * t >= a /\ n * t <= b
  <2>1. t \in Int /\ b % n \in 0..(n - 1) /\ b = n * t + (b % n)
    BY <1>1, Division
  <2>. HIDE DEF t, a
  <2>2. n * t \in Int
    BY <2>1
  <2>. QED
    BY <1>1, <2>1, <2>2
<1>4. t >= 0
  <2>. HIDE DEF t, a
  <2>1. CASE t <= -1
    BY <1>1, <1>3, <2>1
  <2>. QED
    BY <1>3, <2>1
<1>5. t <= S - 1
  <2>1. (i - 1) * S <= (n - gap) * S
    <3>1. n - gap - (i - 1) \in Nat /\ i - 1 \in Int /\ n - gap \in Int
      OBVIOUS
    <3>2. (n - gap) * S = (i - 1) * S + (n - gap - (i - 1)) * S
      BY <3>1
    <3>3. (n - gap - (i - 1)) * S \in Nat
      BY <3>1
    <3>. QED
      BY <1>1, <3>2, <3>3
  <2>2. (n - gap) * S = n * S - S * gap /\ n * S \in Int
    OBVIOUS
  <2>3. n * t < n * S
    <3>. HIDE DEF t, a
    <3>1. a <= n * S - n
      BY <1>1, <1>2, <2>1, <2>2 DEF a
    <3>. QED
      BY <1>1, <1>3, <2>2, <3>1
  <2>. HIDE DEF t
  <2>4. CASE t >= S
    <3>1. n * t = n * S + n * (t - S) /\ n * (t - S) \in Nat
      BY <1>3, <2>4
    <3>. QED
      BY <2>2, <2>3, <3>1
  <2>. QED
    BY <1>3, <2>4
<1>6. \A u \in Int : /\ u * n \in Int /\ (u * n) \div S \in Int /\ (u * n) % S \in 0..(S - 1)
                     /\ u * n = S * ((u * n) \div S) + ((u * n) % S)
  <2>. SUFFICES ASSUME NEW u \in Int
                PROVE  /\ u * n \in Int /\ (u * n) \div S \in Int /\ (u * n) % S \in 0..(S - 1)
                       /\ u * n = S * ((u * n) \div S) + ((u * n) % S)
    OBVIOUS
  <2>1. u * n \in Int
    OBVIOUS
  <2>. QED
    BY <2>1, Division
<1>. HIDE DEF t
<1>7. /\ x \in Int /\ S * x \in Int /\ S * x <= n * t /\ n * t < S * x + S
  <2>1. /\ t * n \in Int /\ x \in Int /\ (t * n) % S \in 0..(S - 1)
        /\ t * n = S * x + ((t * n) % S) /\ t * n = n * t
    BY <1>3, <1>6
  <2>. HIDE DEF x
  <2>2. S * x \in Int
    BY <2>1
  <2>. QED
    BY <1>3, <2>1, <2>2
<1>. HIDE DEF x
<1>8. x >= i - 1
  <2>1. CASE x <= i - 2
    <3>1. S * x + S <= (i - 1) * S
      <4>1. (i - 1) * S = S * x + S + (i - 2 - x) * S
        BY <1>7
      <4>2. (i - 2 - x) * S \in Nat
        BY <1>7, <2>1
      <4>. QED
        BY <1>1, <1>7, <4>1, <4>2
    <3>2. a = (i - 1) * S
      OBVIOUS
    <3>. HIDE DEF a
    <3>. QED
      BY <1>1, <1>3, <1>7, <3>1, <3>2
  <2>. QED
    BY <1>7, <2>1
<1>9. x <= i + gap - 2
  <2>1. CASE x >= i + gap - 1
    <3>1. S * x >= (i - 1) * S + S * gap
      <4>1. S * x = (i - 1) * S + S * gap + S * (x - (i + gap - 1))
        BY <1>7
      <4>2. S * (x - (i + gap - 1)) \in Nat
        BY <1>7, <2>1
      <4>3. (i - 1) * S \in Int
        OBVIOUS
      <4>. QED
        BY <1>2, <1>7, <4>1, <4>2, <4>3
    <3>2. a = (i - 1) * S
      OBVIOUS
    <3>. HIDE DEF a
    <3>. QED
      BY <1>1, <1>2, <1>3, <1>7, <3>1, <3>2
  <2>. QED
    BY <1>7, <2>1
<1>10. ASSUME NEW u \in 0..t PROVE (u * n) \div S \in 0..x
  <2>. DEFINE y == (u * n) \div S
  <2>1. /\ u \in Int /\ u * n \in Int /\ y \in Int /\ (u * n) % S \in 0..(S - 1)
        /\ u * n = S * y + ((u * n) % S)
    BY <1>3, <1>6
  <2>2. u * n >= 0 /\ u * n <= n * t
    <3>1. n * t = u * n + n * (t - u) /\ n * (t - u) \in Nat /\ u * n \in Nat
      BY <1>3, <1>4, <2>1
    <3>. QED
      BY <3>1
  <2>. HIDE DEF y
  <2>3. S * y \in Int
    BY <2>1
  <2>4. S * y <= u * n /\ u * n < S * y + S
    BY <2>1, <2>3
  <2>5. y >= 0
    <3>1. CASE y <= -1
      <4>1. S * y + S <= 0
        <5>1. S * y + S = S * (y + 1) /\ S * (-(y + 1)) \in Nat /\ S * (y + 1) = -(S * (-(y + 1)))
          BY <2>1, <3>1
        <5>. QED
          BY <5>1
      <4>. QED
        BY <2>1, <2>2, <2>3, <2>4, <4>1
    <3>. QED
      BY <2>1, <3>1
  <2>6. y <= x
    <3>1. CASE y >= x + 1
      <4>1. S * y = S * x + S + S * (y - (x + 1)) /\ S * (y - (x + 1)) \in Nat
        BY <1>7, <2>1, <3>1
      <4>. QED
        BY <1>3, <1>7, <2>1, <2>2, <2>3, <2>4, <4>1
    <3>. QED
      BY <1>7, <2>1, <3>1
  <2>. QED
    BY <1>7, <2>1, <2>5, <2>6 DEF y
<1>11. x \in (i - 1)..(i + gap - 2) /\ x <= n - 1 /\ t \in 0..(S - 1)
  BY <1>3, <1>4, <1>5, <1>7, <1>8, <1>9
<1>. QED
  BY <1>10, <1>11 DEF x

(* A collision check that finds nothing has looked at every stretch.       *)
LEMMA StretchIsSampled ==
    ASSUME NEW path, NEW P, path \in Seq(P), path # <<>>, ~isCollisionDetected(Samples(path, "ok")),
           NEW gap \in Int, gap = (Len(path) + SamplePoints - 1) \div SamplePoints,
           NEW i \in 1..(Len(path) - gap + 1),
           \A j \in 1..(i + gap - 1) : InCostmap(path[j].at)
    PROVE  \E j \in i..(i + gap - 1) : path[j].at \notin lethal
<1>. DEFINE n == Len(path)
            S == SamplePoints
            samples == Samples(path, "ok")
            Sampled(k) == IF (k * n) \div S < n - 1 THEN (k * n) \div S ELSE n - 1
<1>1. n \in Nat \ {0} /\ S \in Nat \ {0}
  <2>1. n \in Nat
    BY LenProperties
  <2>2. n # 0
    BY EmptySeq
  <2>. QED
    BY <2>1, <2>2, PursuitAssumption
<1>2. samples = [k \in 1..S |-> path[Sampled(k - 1) + 1].at]
  BY DEF Samples
<1>. HIDE DEF samples
<1>3. PICK t \in 0..(S - 1) :
         /\ (t * n) \div S \in (i - 1)..(i + gap - 2) /\ (t * n) \div S <= n - 1
         /\ \A u \in 0..t : (u * n) \div S \in 0..((t * n) \div S)
  <2>. HIDE DEF n, S
  <2>. QED
    BY <1>1, SampleInStretch DEF n, S
<1>. DEFINE x == (t * n) \div S
<1>4. x \in (i - 1)..(i + gap - 2) /\ x \in Int /\ x <= n - 1
  BY <1>3
<1>5. ASSUME NEW u \in 0..t PROVE Sampled(u) = (u * n) \div S /\ Sampled(u) \in 0..x
  <2>1. (u * n) \div S \in 0..x
    BY <1>3
  <2>. DEFINE y == (u * n) \div S
  <2>. HIDE DEF x, y
  <2>2. y \in 0..x
    BY <2>1 DEF y
  <2>3. (IF y < n - 1 THEN y ELSE n - 1) = y
    BY <1>1, <1>4, <2>2
  <2>. QED
    BY <2>2, <2>3 DEF y
<1>. HIDE DEF x, Sampled
<1>6. ASSUME NEW k \in 1..(t + 1)
      PROVE  /\ k \in 1..S /\ samples[k] = path[Sampled(k - 1) + 1].at
             /\ Sampled(k - 1) + 1 \in 1..(x + 1) /\ k - 1 \in 0..t
  <2>1. k - 1 \in 0..t /\ k \in 1..S
    BY <1>1
  <2>2. Sampled(k - 1) \in 0..x
    BY <1>5, <2>1
  <2>3. \A e \in 0..x : e + 1 \in 1..(x + 1)
    BY <1>4
  <2>4. samples[k] = path[Sampled(k - 1) + 1].at
    BY <1>2, <2>1
  <2>. QED
    BY <2>1, <2>2, <2>3, <2>4
<1>7. ASSUME NEW k \in 1..(t + 1) PROVE InCostmap(samples[k])
  <2>. DEFINE e == Sampled(k - 1) + 1
  <2>1. e \in 1..(x + 1) /\ samples[k] = path[e].at
    BY <1>6
  <2>. DEFINE far == i + gap - 1
  <2>2. x \in Int /\ far \in Int /\ x + 1 <= far
    BY <1>1, <1>4
  <2>. HIDE DEF e, far
  <2>3. e \in 1..far
    BY <2>1, <2>2
  <2>4. e \in 1..(i + gap - 1)
    BY <2>3 DEF far
  <2>. QED
    BY <2>1, <2>4
<1>8. t + 1 \in 1..S /\ t + 1 \in 1..(t + 1) /\ (t + 1) - 1 = t /\ t \in 0..t
  BY <1>1
<1>9. samples[t + 1] = path[x + 1].at /\ x + 1 \in i..(i + gap - 1)
  <2>1. Sampled(t) = x
    BY <1>5, <1>8 DEF x
  <2>2. samples[t + 1] = path[Sampled((t + 1) - 1) + 1].at
    BY <1>2, <1>8
  <2>3. samples[t + 1] = path[x + 1].at
    BY <1>8, <2>1, <2>2
  <2>4. x + 1 \in i..(i + gap - 1)
    BY <1>4
  <2>. QED
    BY <2>3, <2>4
<1>10. DOMAIN samples = 1..S
  BY <1>2
<1>11. samples[t + 1] \notin lethal
  <2>1. samples = Samples(path, "ok")
    BY DEF samples
  <2>. QED
    BY <1>7, <1>8, <1>10, <2>1 DEF isCollisionDetected
<1>. QED
  BY <1>9, <1>11

PathPose == [at : Int \X Int, yaw : Int]
PlanInv == global_plan_ \in Seq(PathPose)

(* What is left of the plan is a sequence, and so is its part nearby.      *)
LEMMA RestOfPlan ==
    ASSUME NEW path \in Seq(PathPose), NEW b \in Begins(path)
    PROVE  SubSeq(path, b, Len(path)) \in Seq(PathPose)
<1>1. b \in 1..Len(path)
  BY DEF Begins, Searched
<1>2. Len(path) \in 1..Len(path) \/ Len(path) = 0
  BY LenProperties
<1>3. \A k \in b..Len(path) : path[k] \in PathPose
  BY <1>1, ElementOfSeq
<1>. QED
  BY <1>1, <1>3, SubSeqProperties

LEMMA NearIsPath ==
    ASSUME NEW path \in Seq(PathPose)
    PROVE  Near(path) \in Seq(PathPose)
<1>. DEFINE far == {i \in DOMAIN path : Dist(path[i].at, robot) > Extent}
            end == IF far = {} THEN Len(path) ELSE Min(far) - 1
<1>1. end \in 0..Len(path)
  <2>1. Len(path) \in Nat /\ DOMAIN path = 1..Len(path)
    BY LenProperties
  <2>2. CASE far = {}
    BY <2>1, <2>2
  <2>3. CASE far # {}
    <3>1. \E m \in far : \A k \in far : m <= k
      <4>1. far \subseteq Nat
        BY <2>1
      <4>. HIDE DEF far
      <4>. QED
        BY <2>3, <4>1, LeastExists
    <3>2. Min(far) \in far
      BY <3>1, Zenon DEF Min
    <3>3. Min(far) \in 1..Len(path)
      BY <2>1, <3>2
    <3>. QED
      BY <2>1, <2>3, <3>3
  <2>. QED
    BY <2>2, <2>3
<1>. HIDE DEF end
<1>2. \A k \in 1..end : path[k] \in PathPose
  BY <1>1, ElementOfSeq
<1>3. SubSeq(path, 1, end) \in Seq(PathPose)
  BY <1>1, <1>2, SubSeqProperties
<1>. QED
  BY <1>3 DEF Near, end

LEMMA PlanInductive == PlanInv /\ [PursuitNext]_pursuitVars => PlanInv'
<1>. SUFFICES ASSUME PlanInv, [PursuitNext]_pursuitVars PROVE PlanInv'
  OBVIOUS
<1>1. ASSUME NEW p \in Plans, setPlan(p) PROVE PlanInv'
  BY <1>1, PursuitAssumption DEF setPlan, PlanInv, PathPose
<1>2. ASSUME NEW tf, NEW speed, computeVelocityCommands(tf, speed) PROVE PlanInv'
  <2>1. \/ global_plan_' = global_plan_
        \/ \E b \in Begins(global_plan_) :
              global_plan_' = SubSeq(global_plan_, b, Len(global_plan_))
    BY <1>2 DEF computeVelocityCommands, NoPath, Follow
  <2>. QED
    BY <2>1, RestOfPlan DEF PlanInv
<1>3. ASSUME \/ \E s \in Settings : dynamicParametersCallback(s)
             \/ \E p \in Places, c \in LethalSets : World(p, c)
             \/ UNCHANGED pursuitVars
      PROVE  PlanInv'
  BY <1>3 DEF dynamicParametersCallback, World, pursuitVars, PlanInv
<1>. QED
  BY <1>1, <1>2, <1>3 DEF PursuitNext

(* The path follower's samples are close enough, for any plan, costmap,    *)
(* parameters and number of samples: no command comes of a path on which   *)
(* as many consecutive poses are blocked as lie between two samples, if    *)
(* the path up to there lies in the costmap.                               *)
THEOREM SamplesAreCloseEnough == PursuitSpec => BlockedStretchStops
<1>. DEFINE Stops ==
        cycles' # cycles /\ answer'.kind = "cmd" /\ answer'.tf = "ok" =>
           LET path == Near(global_plan_')
               gap  == (Len(path) + SamplePoints - 1) \div SamplePoints
           IN \A i \in 1..(Len(path) - gap + 1) :
                (\A j \in 1..(i + gap - 1) : InCostmap(path[j].at))
                  => \E j \in i..(i + gap - 1) : path[j].at \notin lethal
<1>1. PursuitInit => PlanInv
  <2>1. <<>> \in Seq(PathPose)
    BY EmptySeq
  <2>. QED
    BY <2>1 DEF PursuitInit, PlanInv
<1>2. PlanInv /\ [PursuitNext]_pursuitVars => [Stops]_pursuitVars
  <2>. SUFFICES ASSUME PlanInv, PursuitNext, cycles' # cycles, answer'.kind = "cmd",
                       answer'.tf = "ok"
                PROVE  Stops
    OBVIOUS
  <2>. DEFINE path == Near(global_plan_')
              gap == (Len(path) + SamplePoints - 1) \div SamplePoints
  <2>1. PICK tf, speed : NoPath(tf) \/ Follow(tf, speed)
    BY DEF PursuitNext, setPlan, dynamicParametersCallback, World, computeVelocityCommands
  <2>2. ~Throws(tf)
    BY DEF Throws, NoAnswer
  <2>3. Follow(tf, speed)
    BY <2>1, <2>2 DEF NoPath
  <2>4. path # <<>> /\ ~isCollisionDetected(Samples(path, "ok"))
    <3>1. PICK b \in Begins(global_plan_) :
             /\ global_plan_' = SubSeq(global_plan_, b, Len(global_plan_))
             /\ Local(Near(SubSeq(global_plan_, b, Len(global_plan_))), tf) # <<>>
             /\ IF isCollisionDetected(Samples(Near(SubSeq(global_plan_, b, Len(global_plan_))), tf))
                THEN Throws(tf)
                ELSE \E l, a : answer' = [kind |-> "cmd", tf |-> tf, lin |-> l, ang |-> a]
      BY <2>3, Zenon DEF Follow
    <3>2. tf = "ok" /\ ~isCollisionDetected(Samples(path, tf)) /\ Local(path, tf) # <<>>
      BY <2>2, <3>1
    <3>3. path # <<>>
      <4>1. Local(<<>>, tf) = <<>>
        BY DEF Local
      <4>. QED
        BY <3>2, <4>1
    <3>. QED
      BY <3>2, <3>3
  <2>5. path \in Seq(PathPose)
    <3>1. global_plan_' \in Seq(PathPose)
      BY PlanInductive DEF PlanInv
    <3>. QED
      BY <3>1, NearIsPath
  <2>6. gap \in Int
    <3>1. Len(path) \in Nat
      BY <2>5, LenProperties
    <3>. HIDE DEF path
    <3>2. Len(path) + SamplePoints - 1 \in Int
      BY <3>1, PursuitAssumption
    <3>. QED
      BY <3>2, PursuitAssumption, Division
  <2>. HIDE DEF path, gap
  <2>7. ASSUME NEW i \in 1..(Len(path) - gap + 1),
               \A j \in 1..(i + gap - 1) : InCostmap(path[j].at)
        PROVE  \E j \in i..(i + gap - 1) : path[j].at \notin lethal
    <3>1. gap = (Len(path) + SamplePoints - 1) \div SamplePoints
      BY DEF gap
    <3>. QED
      BY <2>4, <2>5, <2>6, <2>7, <3>1, StretchIsSampled
  <2>. QED
    BY <2>7 DEF path, gap
<1>. QED
  BY <1>1, <1>2, PlanInductive, PTL DEF PursuitSpec, BlockedStretchStops

-----------------------------------------------------------------------------
(* The types of the four nodes, and of all of them side by side.           *)
LEMMA VelocityTurned ==
    ASSUME TypeOK, NEW t \in Twist, NEW yaw \in 0..3
    PROVE  transformVelocity(t, yaw) \in Twist
<1>1. Cos(yaw) \in {-1, 0, 1} /\ Sin(yaw) \in {-1, 0, 1}
  BY DEF Cos, Sin
<1>2. \A x \in Int, c \in {-1, 0, 1} : x * c \in Int
  OBVIOUS
<1>3. t.x \in Int /\ t.y \in Int /\ t.z \in Int /\ spin_speed \in Int
  BY FakeVelAssumption DEF TypeOK, Twist
<1>4. /\ t.x * Cos(yaw) \in Int /\ t.y * Sin(yaw) \in Int
      /\ t.y * Cos(yaw) \in Int /\ t.x * Sin(yaw) \in Int
  BY <1>1, <1>2, <1>3
<1>. QED
  BY <1>3, <1>4 DEF transformVelocity, Twist

LEMMA SynchronizeTypes ==
    ASSUME TypeOK, NEW os \in Seq(Yaws), Len(os) <= QueueSize, NEW ps \in 0..QueueSize,
           NEW i \in 0..QueueSize, NEW a \in 0..3, Synchronize(os, ps, i, a)
    PROVE  /\ angle' \in 0..3 /\ odoms' \in Seq(Yaws) /\ Len(odoms') <= QueueSize
           /\ plans' \in 0..QueueSize /\ out' \in [num : 0..MaxCmds, twist : Twist]
<1>1. Len(os) \in Nat /\ DOMAIN os = 1..Len(os) /\ \A j \in 1..Len(os) : os[j] \in Yaws
  OBVIOUS
<1>2. i # 0 => i \in 1..Len(os) /\ os[i] \in 0..3
  BY <1>1, FakeVelAssumption DEF Synchronize
<1>3. odoms' \in Seq(Yaws) /\ Len(odoms') <= QueueSize
  <2>1. odoms' = SubSeq(os, i + 1, Len(os))
    BY DEF Synchronize
  <2>2. \A j \in (i + 1)..Len(os) : os[j] \in Yaws
    BY <1>1
  <2>3. /\ SubSeq(os, i + 1, Len(os)) \in Seq(Yaws)
        /\ Len(SubSeq(os, i + 1, Len(os))) = IF i + 1 <= Len(os) THEN Len(os) - i ELSE 0
    BY <1>1, <2>2, SubSeqProperties
  <2>. QED
    BY <1>1, <2>1, <2>3, FakeVelAssumption
<1>4. plans' \in 0..QueueSize
  BY FakeVelAssumption DEF Synchronize
<1>5. angle' \in 0..3
  BY <1>2 DEF Synchronize
<1>6. out' \in [num : 0..MaxCmds, twist : Twist]
  <2>1. CASE out' = out
    BY <2>1 DEF TypeOK
  <2>2. CASE i # 0 /\ out' = Published(latest, os[i])
    <3>1. latest.num \in 0..MaxCmds /\ latest.twist \in Twist
      BY FakeVelAssumption DEF TypeOK
    <3>2. transformVelocity(latest.twist, os[i]) \in Twist
      BY <1>2, <2>2, <3>1, VelocityTurned
    <3>. QED
      BY <2>2, <3>1, <3>2 DEF Published
  <2>. QED
    BY <2>1, <2>2 DEF Synchronize
<1>. QED
  BY <1>3, <1>4, <1>5, <1>6

LEMMA FakeVelTypes ==
    /\ Init => TypeOK
    /\ TypeOK /\ [Next]_vars => TypeOK'
<1>1. ASSUME Init PROVE TypeOK
  <2>1. <<>> \in Seq(Yaws) /\ Len(<<>>) = 0
    OBVIOUS
  <2>. QED
    BY <1>1, <2>1, FakeVelAssumption DEF Init, TypeOK, None, Zero, Twist
<1>2. ASSUME TypeOK, NEW t \in Velocities, CmdVel(t) PROVE TypeOK'
  <2>. DEFINE c == [num |-> number + 1, twist |-> t]
  <2>1. c \in [num : 0..MaxCmds, twist : Velocities] /\ c.num \in 0..MaxCmds /\ t \in Twist /\ c.twist = t
    BY <1>2, FakeVelAssumption DEF CmdVel, TypeOK
  <2>2. transformVelocity(t, angle) \in Twist
    BY <1>2, <2>1, VelocityTurned DEF TypeOK
  <2>3. Published(c, angle) \in [num : 0..MaxCmds, twist : Twist]
    BY <2>1, <2>2 DEF Published
  <2>4. \/ out' = Published(c, angle) /\ latest' = latest
        \/ latest' = c /\ out' = out
    BY <1>2 DEF CmdVel
  <2>5. number' \in 0..MaxCmds /\ UNCHANGED <<idle, angle, spin_speed, odoms, plans>>
    BY <1>2, FakeVelAssumption DEF CmdVel, TypeOK
  <2>. HIDE DEF c
  <2>. QED
    BY <1>2, <2>1, <2>3, <2>4, <2>5 DEF TypeOK
<1>3. ASSUME TypeOK, NEW y \in Yaws, NEW i \in 0..QueueSize, Odometry(y, i) PROVE TypeOK'
  <2>. DEFINE os == Kept(Append(odoms, y))
              a == IF ControllerActive THEN angle ELSE y
  <2>1. odoms \in Seq(Yaws) /\ Len(odoms) \in Nat /\ Len(odoms) <= QueueSize /\ a \in 0..3
    BY <1>3, FakeVelAssumption DEF TypeOK
  <2>2. Append(odoms, y) \in Seq(Yaws) /\ Len(Append(odoms, y)) = Len(odoms) + 1
    BY <2>1, AppendProperties
  <2>3. os \in Seq(Yaws) /\ Len(os) <= QueueSize
    <3>1. Append(odoms, y) # <<>>
      BY <2>1, <2>2, EmptySeq
    <3>2. Tail(Append(odoms, y)) \in Seq(Yaws) /\ Len(Tail(Append(odoms, y))) = Len(odoms)
      BY <2>1, <2>2, <3>1, HeadTailProperties
    <3>. QED
      BY <2>1, <2>2, <3>2, FakeVelAssumption DEF Kept
  <2>4. /\ Synchronize(os, plans, i, a) /\ plans \in 0..QueueSize
        /\ UNCHANGED <<idle, spin_speed, latest, number>>
    BY <1>3 DEF Odometry, TypeOK
  <2>. HIDE DEF os, a
  <2>5. /\ angle' \in 0..3 /\ odoms' \in Seq(Yaws) /\ Len(odoms') <= QueueSize
        /\ plans' \in 0..QueueSize /\ out' \in [num : 0..MaxCmds, twist : Twist]
    BY <1>3, <2>1, <2>3, <2>4, SynchronizeTypes
  <2>. QED
    BY <1>3, <2>4, <2>5 DEF TypeOK
<1>4. ASSUME TypeOK, NEW i \in 0..QueueSize, LocalPlan(i) PROVE TypeOK'
  <2>. DEFINE ps == IF plans < QueueSize THEN plans + 1 ELSE plans
  <2>1. ps \in 0..QueueSize /\ angle \in 0..3 /\ odoms \in Seq(Yaws) /\ Len(odoms) <= QueueSize
    BY <1>4, FakeVelAssumption DEF TypeOK
  <2>2. /\ Synchronize(odoms, ps, i, angle) /\ idle' = 0
        /\ UNCHANGED <<spin_speed, latest, number>>
    BY <1>4 DEF LocalPlan
  <2>. HIDE DEF ps
  <2>3. /\ angle' \in 0..3 /\ odoms' \in Seq(Yaws) /\ Len(odoms') <= QueueSize
        /\ plans' \in 0..QueueSize /\ out' \in [num : 0..MaxCmds, twist : Twist]
    BY <1>4, <2>1, <2>2, SynchronizeTypes
  <2>. QED
    BY <1>4, <2>2, <2>3, FakeVelAssumption DEF TypeOK
<1>5. ASSUME TypeOK, \/ \E s \in SpinSpeeds : CmdSpin(s)
                     \/ Tick
                     \/ UNCHANGED vars
      PROVE  TypeOK'
  <2>1. idle' \in 0..(Timeout + 1) /\ spin_speed' \in SpinSpeeds
    BY <1>5, FakeVelAssumption DEF TypeOK, CmdSpin, Tick, vars
  <2>2. UNCHANGED <<angle, latest, odoms, plans, number, out>>
    BY <1>5 DEF CmdSpin, Tick, vars
  <2>. QED
    BY <1>5, <2>1, <2>2 DEF TypeOK
<1>. QED
  BY <1>1, <1>2, <1>3, <1>4, <1>5 DEF Next

-----------------------------------------------------------------------------
LEMMA ValueOfField ==
    ASSUME NEW joy \in Joys, NEW axis, NEW scale \in Int PROVE getVal(joy, axis, scale) \in Int
<1>1. CASE axis \in DOMAIN joy.axes
  <2>1. joy.axes[axis] \in Int
    BY <1>1, TeleopAssumption
  <2>2. \A x \in Int : x * scale \in Int
    OBVIOUS
  <2>. QED
    BY <1>1, <2>1, <2>2 DEF getVal
<1>. QED
  BY <1>1 DEF getVal

LEMMA ShotIsAByte == \A v \in Int : ToUInt8(v) \subseteq 0..255
  BY DEF ToUInt8

LEMMA CallbackTypes ==
    ASSUME TeleopTypeOK, NEW joy \in Joys, NEW known, joyCallback(joy, known) PROVE TeleopTypeOK'
<1>1. /\ NormalScale \in Int /\ TurboScale \in Int /\ GoalGap \in Nat /\ MaxTime \in Nat
      /\ time \in 0..MaxTime /\ UNCHANGED <<control_mode, time, goal>> /\ last_time' = time
  BY TeleopAssumption DEF joyCallback, TeleopTypeOK
<1>2. held' \in BOOLEAN
  BY DEF joyCallback
<1>3. shoot' \in 0..255
  <2>1. getVal(joy, shoot_axis, 1) \in Int
    BY ValueOfField
  <2>. QED
    BY <2>1, ShotIsAByte DEF joyCallback, fillShootMsg
<1>4. [type |-> "goal", at |-> time] \in Requests /\ [type |-> "cancel", at |-> time] \in Requests
  BY <1>1 DEF Requests
<1>5. ASSUME NEW scale \in Int, sendCmdVelMsg(joy, scale, known)
      PROVE  /\ cmd' \in [x : Int, yaw : Int] /\ last_goal_time' \in -1..MaxTime
             /\ requests' \subseteq Requests /\ gimbal' \in Int
             /\ sent_disable_msg' \in BOOLEAN /\ stop_time' \in -1..MaxTime
  <2>1. fillCmdVelMsg(joy, scale) \in [x : Int, yaw : Int]
    BY ValueOfField DEF fillCmdVelMsg
  <2>2. cmd' \in [x : Int, yaw : Int] /\ sent_disable_msg' \in BOOLEAN /\ stop_time' \in -1..MaxTime
    BY <1>5, <2>1 DEF sendCmdVelMsg, TeleopTypeOK
  <2>3. gimbal' \in Int
    <3>. DEFINE lapse == IF last_time = NoTime THEN 0 ELSE time - last_time
                val == getVal(joy, yaw_axis, scale)
    <3>1. val \in Int /\ lapse \in Int /\ gimbal \in Int
      BY <1>1, ValueOfField DEF TeleopTypeOK
    <3>2. gimbal' = gimbal + val * lapse
      BY <1>5 DEF sendCmdVelMsg
    <3>. HIDE DEF lapse, val
    <3>. QED
      BY <3>1, <3>2
  <2>4. \/ UNCHANGED <<last_goal_time, requests>>
        \/ sendGoalPoseAction(joy, scale, known)
    BY <1>5 DEF sendCmdVelMsg
  <2>5. last_goal_time' \in -1..MaxTime /\ requests' \subseteq Requests
    BY <1>1, <1>4, <2>4 DEF sendGoalPoseAction, TeleopTypeOK, NoTime
  <2>. QED
    BY <2>2, <2>3, <2>5
<1>6. ASSUME released
      PROVE  /\ cmd' \in [x : Int, yaw : Int] /\ last_goal_time' \in -1..MaxTime
             /\ requests' \subseteq Requests /\ gimbal' \in Int
             /\ sent_disable_msg' \in BOOLEAN /\ stop_time' \in -1..MaxTime
  <2>1. Still \in [x : Int, yaw : Int]
    BY DEF Still
  <2>2. sent_disable_msg' = FALSE /\ UNCHANGED <<last_goal_time, gimbal>>
    BY <1>6 DEF released
  <2>3. \/ UNCHANGED <<cmd, requests, stop_time>>
        \/ cmd' = Still /\ stop_time' = time
           /\ requests' \in {requests, requests \cup {[type |-> "cancel", at |-> time]}}
    BY <1>6 DEF released, sendZeroCommand
  <2>4. requests' \subseteq Requests /\ stop_time' \in -1..MaxTime /\ cmd' \in [x : Int, yaw : Int]
    BY <1>1, <1>4, <2>1, <2>3 DEF TeleopTypeOK
  <2>. QED
    BY <2>2, <2>4 DEF TeleopTypeOK
<1>7. released \/ \E scale \in Int : sendCmdVelMsg(joy, scale, known)
  BY <1>1 DEF joyCallback
<1>. QED
  BY <1>1, <1>2, <1>3, <1>5, <1>6, <1>7 DEF TeleopTypeOK

LEMMA TeleopTypes ==
    /\ TeleopInit => TeleopTypeOK
    /\ TeleopTypeOK /\ [TeleopNext]_teleopVars => TeleopTypeOK'
<1>0. MaxTime \in Nat
  BY TeleopAssumption
<1>1. ASSUME TeleopInit PROVE TeleopTypeOK
  <2>1. Still \in [x : Int, yaw : Int]
    BY DEF Still
  <2>2. /\ -1 \in -1..MaxTime /\ 0 \in 0..MaxTime /\ 0 \in Int /\ 0 \in 0..255
        /\ {} \subseteq Requests
    BY <1>0
  <2>3. control_mode \in Modes /\ sent_disable_msg \in BOOLEAN /\ held \in BOOLEAN
    BY <1>1, Zenon DEF TeleopInit
  <2>. QED
    BY <1>1, <2>1, <2>2, <2>3, Zenon DEF TeleopInit, TeleopTypeOK, NoTime
<1>2. ASSUME TeleopTypeOK, NEW r \in requests, TakeGoal(r) \/ TakeCancel(r) PROVE TeleopTypeOK'
  <2>1. goal' \in -1..MaxTime
    BY <1>0, <1>2 DEF TakeGoal, TakeCancel, TeleopTypeOK, NoTime
  <2>2. requests' \subseteq Requests
    BY <1>2 DEF TakeGoal, TakeCancel, TeleopTypeOK
  <2>3. UNCHANGED <<control_mode, sent_disable_msg, last_time, last_goal_time, gimbal, time,
                    held, cmd, shoot, stop_time>>
    BY <1>2 DEF TakeGoal, TakeCancel
  <2>. QED
    BY <1>2, <2>1, <2>2, <2>3 DEF TeleopTypeOK
<1>3. ASSUME TeleopTypeOK, Arrive \/ JoyTick \/ UNCHANGED teleopVars PROVE TeleopTypeOK'
  <2>1. goal' \in -1..MaxTime /\ time' \in 0..MaxTime
    BY <1>0, <1>3 DEF Arrive, JoyTick, teleopVars, TeleopTypeOK, NoTime
  <2>2. UNCHANGED <<control_mode, sent_disable_msg, last_time, last_goal_time, gimbal,
                    held, cmd, shoot, stop_time, requests>>
    BY <1>3 DEF Arrive, JoyTick, teleopVars
  <2>. QED
    BY <1>3, <2>1, <2>2 DEF TeleopTypeOK
<1>. QED
  BY <1>1, <1>2, <1>3, CallbackTypes DEF TeleopNext

-----------------------------------------------------------------------------
LEMMA BackUpTypes ==
    /\ BackUpInit => BackUpTypeOK
    /\ BackUpTypeOK /\ [BackUpNext]_backUpVars => BackUpTypeOK'
<1>0. /\ LastAngle \in Nat /\ command_x \in Nat /\ allowance \in Nat /\ MaxRuns \in Nat
      /\ Ahead \in Angles /\ Angles \subseteq Int /\ NoAngle = -1
  BY BackUpAssumption DEF Ahead, Angles, NoAngle
<1>1. ASSUME BackUpInit PROVE BackUpTypeOK
  <2>1. safe \in [Angles -> BOOLEAN]
    BY <1>1 DEF BackUpInit
  <2>2. dir \in 0..(LastAngle + 1) /\ remaining \in -1..allowance /\ distance \in 0..command_x
        /\ runs \in 0..MaxRuns
    BY <1>0, <1>1 DEF BackUpInit
  <2>. QED
    BY <1>0, <1>1, <2>1, <2>2, Zenon DEF BackUpInit, BackUpTypeOK
<1>2. ASSUME BackUpTypeOK, NEW fan \in [Angles -> BOOLEAN], Answered(fan) PROVE BackUpTypeOK'
  <2>1. dir' \in 0..(LastAngle + 1)
    BY <1>0, <1>2 DEF Answered
  <2>. QED
    BY <1>0, <1>2, <2>1, Zenon DEF Answered, BackUpTypeOK
<1>3. ASSUME BackUpTypeOK, LookAt PROVE BackUpTypeOK'
  <2>1. dir \in Angles /\ dir' \in 0..(LastAngle + 1)
        /\ UNCHANGED <<phase, safe, remaining, distance, moving, pose_lost, runs>>
    BY <1>0, <1>3 DEF LookAt, BackUpTypeOK, Angles
  <2>2. PICK f, l, tie : f \in Angles \cup {NoAngle} /\ l \in Angles \cup {NoAngle} /\ SectorEnd(f, l, tie)
    <3>. DEFINE f == IF safe[dir] /\ first_safe = NoAngle THEN dir ELSE first_safe
                l == IF ~safe[dir] /\ f # NoAngle /\ last_unsafe = NoAngle
                      THEN dir ELSE last_unsafe
    <3>1. f \in Angles \cup {NoAngle} /\ l \in Angles \cup {NoAngle}
      BY <1>3, <2>1 DEF BackUpTypeOK
    <3>2. \E tie \in BOOLEAN : SectorEnd(f, l, tie)
      BY <1>3 DEF LookAt
    <3>. HIDE DEF f, l
    <3>. QED
      BY <3>1, <3>2
  <2>3. {first_safe', last_unsafe'} \subseteq Angles \cup {NoAngle}
        /\ {final_safe', final_unsafe'} \subseteq Angles
    BY <1>3, <2>2 DEF SectorEnd, BackUpTypeOK
  <2>. QED
    BY <1>3, <2>1, <2>3, Zenon DEF BackUpTypeOK
<1>4. ASSUME BackUpTypeOK, Drive \/ BackUpTick PROVE BackUpTypeOK'
  <2>1. /\ phase' \in {"idle", "asking", "scanning", "driving"}
        /\ remaining' \in -1..allowance /\ distance' \in 0..command_x
    BY <1>0, <1>4 DEF Drive, BackUpTick, BackUpTypeOK
  <2>2. UNCHANGED <<safe, sector_search, moving, pose_lost, runs>>
    BY <1>4 DEF Drive, BackUpTick
  <2>. QED
    BY <1>4, <2>1, <2>2, Zenon DEF BackUpTypeOK, sector_search
<1>5. ASSUME BackUpTypeOK, Goal \/ OnRunFails \/ Move PROVE BackUpTypeOK'
  <2>1. /\ phase' \in {"idle", "asking", "scanning", "driving"}
        /\ runs' \in 0..MaxRuns /\ distance' \in 0..command_x
    BY <1>0, <1>5 DEF Goal, OnRunFails, Move, BackUpTypeOK
  <2>2. UNCHANGED <<safe, sector_search, remaining, moving, pose_lost>>
    BY <1>5 DEF Goal, OnRunFails, Move
  <2>. QED
    BY <1>5, <2>1, <2>2, Zenon DEF BackUpTypeOK, sector_search
<1>6. ASSUME BackUpTypeOK, NEW lost \in BOOLEAN, NEW moves \in BOOLEAN, Ended(lost, moves)
      PROVE  BackUpTypeOK'
  <2>1. -1 \in -1..allowance
    BY <1>0
  <2>. QED
    BY <1>6, <2>1, Zenon DEF Ended, BackUpTypeOK, sector_search
<1>7. ASSUME BackUpTypeOK, \/ Cycle \/ Cancel \/ BackUpRest \/ UNCHANGED backUpVars PROVE BackUpTypeOK'
  <2>1. ASSUME UNCHANGED backUpVars PROVE BackUpTypeOK'
    BY <1>7, <2>1, Zenon DEF backUpVars, sector_search, BackUpTypeOK
  <2>2. ASSUME moving' = TRUE, UNCHANGED <<phase, safe, sector_search, remaining, distance, pose_lost, runs>>
        PROVE  BackUpTypeOK'
    BY <1>7, <2>2, Zenon DEF sector_search, BackUpTypeOK
  <2>3. moving \in BOOLEAN
    BY <1>7 DEF BackUpTypeOK
  <2>4. ASSUME Cycle PROVE BackUpTypeOK'
    <3>1. PICK known, free \in BOOLEAN : onCycleUpdate(known, free)
      BY <2>4 DEF Cycle
    <3>2. \/ Ended(FALSE, FALSE) \/ Ended(TRUE, moving)
          \/ moving' = TRUE /\ UNCHANGED <<phase, safe, sector_search, remaining, distance, pose_lost, runs>>
      BY <3>1 DEF onCycleUpdate
    <3>. QED
      BY <1>6, <1>7, <2>2, <2>3, <3>2, Zenon
  <2>. QED
    BY <1>6, <1>7, <2>1, <2>4 DEF Cancel, BackUpRest
<1>. QED
  BY <1>1, <1>2, <1>3, <1>4, <1>5, <1>7, Zenon DEF BackUpNext

-----------------------------------------------------------------------------
(* What IsSuffix says element by element                                   *)
LEMMA SuffixIs ==
    ASSUME NEW S, NEW q \in Seq(S), NEW p \in Seq(S)
    PROVE  IsSuffix(q, p) <=> /\ Len(q) <= Len(p)
                              /\ \A i \in 1..Len(q) : q[i] = p[(Len(p) - Len(q)) + i]
<1>. DEFINE m == Len(q)
            n == Len(p)
            rq == [i \in 1..m |-> q[(m - i) + 1]]
            rp == [i \in 1..n |-> p[(n - i) + 1]]
<1>1. m \in Nat /\ n \in Nat
  BY LenProperties
<1>2. rq \in Seq(S) /\ rp \in Seq(S) /\ Len(rq) = m /\ Len(rp) = n
  <2>1. \A i \in 1..m : q[(m - i) + 1] \in S
    BY <1>1, ElementOfSeq
  <2>2. \A i \in 1..n : p[(n - i) + 1] \in S
    BY <1>1, ElementOfSeq
  <2>3. rq \in [1..m -> S] /\ rp \in [1..n -> S]
    BY <2>1, <2>2
  <2>. HIDE DEF m, n, rq, rp
  <2>. QED
    BY <1>1, <2>3
<1>3. IsSuffix(q, p) <=> Len(rq) <= Len(rp) /\ SubSeq(rq, 1, Len(rq)) = SubSeq(rp, 1, Len(rq))
  BY DEF IsSuffix, IsPrefix, Reverse
<1>4. (\A i \in 1..m : rq[i] = q[(m - i) + 1]) /\ (\A i \in 1..n : rp[i] = p[(n - i) + 1])
  OBVIOUS
<1>. HIDE DEF m, n, rq, rp
<1>5. ASSUME m <= n
      PROVE  SubSeq(rq, 1, m) = SubSeq(rp, 1, m) <=> \A i \in 1..m : rq[i] = rp[i]
  <2>1. /\ SubSeq(rq, 1, m) = [i \in 1..m |-> rq[i]]
        /\ SubSeq(rp, 1, m) = [i \in 1..m |-> rp[i]]
    BY <1>1, <1>2, <1>5
  <2>. QED
    BY <2>1
<1>6. ASSUME m <= n
      PROVE  (\A i \in 1..m : rq[i] = rp[i]) <=> \A i \in 1..m : q[i] = p[(n - m) + i]
  <2>1. ASSUME \A i \in 1..m : rq[i] = rp[i], NEW i \in 1..m PROVE q[i] = p[(n - m) + i]
    <3>1. /\ (m - i) + 1 \in 1..m /\ (m - i) + 1 \in 1..n
          /\ (m - ((m - i) + 1)) + 1 = i /\ (n - ((m - i) + 1)) + 1 = (n - m) + i
      BY <1>1, <1>6
    <3>2. rq[(m - i) + 1] = q[i] /\ rp[(m - i) + 1] = p[(n - m) + i]
      BY <1>4, <3>1
    <3>. QED
      BY <2>1, <3>1, <3>2
  <2>2. ASSUME \A i \in 1..m : q[i] = p[(n - m) + i], NEW i \in 1..m PROVE rq[i] = rp[i]
    <3>1. /\ (m - i) + 1 \in 1..m /\ i \in 1..n /\ (n - m) + ((m - i) + 1) = (n - i) + 1
      BY <1>1, <1>6
    <3>. QED
      BY <1>4, <2>2, <3>1
  <2>. QED
    BY <2>1, <2>2
<1>7. Len(rq) = m /\ Len(rp) = n /\ Len(q) = m /\ Len(p) = n
  BY <1>2 DEF m, n
<1>. QED
  BY <1>3, <1>5, <1>6, <1>7

LEMMA RestIsSuffix ==
    ASSUME NEW S, NEW p \in Seq(S), NEW q \in Seq(S), IsSuffix(q, p), NEW b \in 1..Len(q)
    PROVE  IsSuffix(SubSeq(q, b, Len(q)), p)
<1>. DEFINE r == SubSeq(q, b, Len(q))
<1>1. /\ Len(q) \in Nat /\ Len(p) \in Nat /\ Len(q) <= Len(p)
      /\ \A i \in 1..Len(q) : q[i] = p[(Len(p) - Len(q)) + i]
  BY SuffixIs, LenProperties
<1>2. /\ r \in Seq(S) /\ Len(r) = (Len(q) - b) + 1
      /\ \A i \in 1..Len(r) : r[i] = q[(b + i) - 1]
  <2>1. \A k \in b..Len(q) : q[k] \in S
    BY <1>1, ElementOfSeq
  <2>2. /\ SubSeq(q, b, Len(q)) \in Seq(S)
        /\ Len(SubSeq(q, b, Len(q))) = (Len(q) - b) + 1
        /\ \A i \in 1..((Len(q) - b) + 1) : SubSeq(q, b, Len(q))[i] = q[(b + i) - 1]
    BY <1>1, <2>1, SubSeqProperties
  <2>. QED
    BY <2>2
<1>. HIDE DEF r
<1>3. Len(r) <= Len(p)
  BY <1>1, <1>2
<1>4. ASSUME NEW i \in 1..Len(r) PROVE r[i] = p[(Len(p) - Len(r)) + i]
  <2>1. (b + i) - 1 \in 1..Len(q) /\ (Len(p) - Len(q)) + ((b + i) - 1) = (Len(p) - Len(r)) + i
    BY <1>1, <1>2
  <2>. QED
    BY <1>1, <1>2, <2>1
<1>5. IsSuffix(r, p)
  BY <1>2, <1>3, <1>4, SuffixIs
<1>. QED
  BY <1>5 DEF r

LEMMA IsOwnSuffix == ASSUME NEW S, NEW p \in Seq(S) PROVE IsSuffix(p, p)
<1>1. Len(p) \in Nat
  BY LenProperties
<1>2. \A i \in 1..Len(p) : (Len(p) - Len(p)) + i = i
  BY <1>1
<1>. QED
  BY <1>1, <1>2, SuffixIs

(* What is left of the plan is the end of one that was given.              *)
LEMMA PlanIsGiven ==
    ASSUME PlanInv, global_plan_ = <<>> \/ \E p \in Plans : IsSuffix(global_plan_, p),
           [PursuitNext]_pursuitVars
    PROVE  global_plan_' = <<>> \/ \E p \in Plans : IsSuffix(global_plan_', p)
<1>0. Plans \subseteq Seq(PathPose) /\ global_plan_ \in Seq(PathPose)
  BY PursuitAssumption DEF PathPose, PlanInv
<1>1. ASSUME NEW p \in Plans, setPlan(p) PROVE IsSuffix(global_plan_', p)
  BY <1>0, <1>1, IsOwnSuffix DEF setPlan
<1>2. ASSUME NEW tf, NEW speed, computeVelocityCommands(tf, speed)
      PROVE  global_plan_' = <<>> \/ \E p \in Plans : IsSuffix(global_plan_', p)
  <2>1. CASE UNCHANGED global_plan_
    BY <2>1
  <2>2. CASE \E b \in Begins(global_plan_) :
               /\ global_plan_ # <<>>
               /\ global_plan_' = SubSeq(global_plan_, b, Len(global_plan_))
    <3>1. PICK b \in Begins(global_plan_) :
               /\ global_plan_ # <<>>
               /\ global_plan_' = SubSeq(global_plan_, b, Len(global_plan_))
      BY <2>2
    <3>2. PICK p \in Plans : IsSuffix(global_plan_, p)
      BY <3>1
    <3>3. b \in 1..Len(global_plan_)
      BY <1>0, LenProperties DEF Begins, Searched
    <3>4. IsSuffix(SubSeq(global_plan_, b, Len(global_plan_)), p)
      BY <1>0, <3>2, <3>3, RestIsSuffix
    <3>. QED
      BY <3>1, <3>4
  <2>. QED
    BY <1>2, <2>1, <2>2 DEF computeVelocityCommands, NoPath, Follow
<1>3. ASSUME \/ \E s \in Settings : dynamicParametersCallback(s)
             \/ \E p \in Places, c \in LethalSets : World(p, c)
             \/ UNCHANGED pursuitVars
      PROVE  UNCHANGED global_plan_
  BY <1>3 DEF dynamicParametersCallback, World, pursuitVars
<1>. QED
  BY <1>1, <1>2, <1>3 DEF PursuitNext

-----------------------------------------------------------------------------
LEMMA ClampIs ==
    ASSUME NEW v \in Int, NEW lo \in Int, NEW hi \in Int, lo <= hi
    PROVE  Clamp(v, lo, hi) \in lo..hi /\ (v >= 0 /\ hi >= 0 => Clamp(v, lo, hi) >= 0)
BY DEF Clamp

LEMMA ErrorsAreWhole ==
    ASSUME NEW v \in Int, NEW pid, pid.err \in Int, pid.sum \in -SumMax..SumMax
    PROVE  /\ PidNext(pid, v).err = v /\ PidNext(pid, v).sum \in -SumMax..SumMax
           /\ v >= 0 /\ pid.sum >= 0 => PidNext(pid, v).sum \in 0..SumMax
<1>. DEFINE sum == pid.sum + v
            least == -SumMax
<1>1. /\ SumMax \in Nat /\ least \in Int /\ least <= SumMax /\ sum \in Int
      /\ v >= 0 /\ pid.sum >= 0 => sum >= 0
  BY PursuitAssumption
<1>2. PidNext(pid, v) = [err |-> v, sum |-> Clamp(sum, least, SumMax)]
  BY DEF PidNext
<1>. HIDE DEF sum
<1>3. Clamp(sum, least, SumMax) \in least..SumMax /\ (sum >= 0 => Clamp(sum, least, SumMax) >= 0)
  <2>1. SumMax \in Int /\ SumMax >= 0 /\ least \in Int /\ sum \in Int /\ least <= SumMax
    BY <1>1
  <2>. HIDE DEF least
  <2>. QED
    BY <2>1, ClampIs
<1>. QED
  BY <1>1, <1>2, <1>3

LEMMA MoveOutputInLimits ==
    ASSUME NEW v \in Int, NEW pid, pid.err \in Int, pid.sum \in Int
    PROVE  PidOutput(pid, move_gains, v) \in move_gains.min..move_gains.max
<1>. DEFINE g == move_gains
<1>1. /\ g.kp \in Int /\ g.ki \in Int /\ g.kd \in Int /\ g.min \in Int /\ g.max \in Int /\ g.min <= g.max
  BY PursuitAssumption
<1>. HIDE DEF g
<1>2. \A x, y \in Int : x * y \in Int
  OBVIOUS
<1>3. g.kp * v \in Int /\ g.ki * (pid.sum + v) \in Int /\ g.kd * (v - pid.err) \in Int
  BY <1>1, <1>2
<1>4. g.kp * v + g.ki * (pid.sum + v) + g.kd * (v - pid.err) \in Int
  BY <1>3
<1>5. PidOutput(pid, g, v) \in g.min..g.max
  BY <1>1, <1>4, ClampIs DEF PidOutput
<1>. QED
  BY <1>5 DEF g

(* Whatever the last velocity was, the limit by curvature and by the rate  *)
(* stays within what the PID may answer.                                   *)
LEMMA LimitedVelocity ==
    ASSUME NEW path, NEW carrot, NEW lin \in move_gains.min..move_gains.max, last_velocity \in Int,
           NEW v \in applyCurvatureLimitation(path, carrot, lin)
    PROVE  v \in move_gains.min..move_gains.max
<1>1. /\ move_gains.min \in Int /\ move_gains.max \in Int /\ Rate \in Nat
      /\ min_approach_linear_velocity \in Int /\ Reduction \in 0..100
      /\ move_gains.min <= 2 * min_approach_linear_velocity
  BY PursuitAssumption
<1>2. \A c \in 0..100 : (lin * c) \div 100 \in Int
  <2>1. \A x \in Int : x \div 100 \in Int
    OBVIOUS
  <2>2. \A c \in 0..100 : lin * c \in Int
    BY <1>1
  <2>. QED
    BY <2>1, <2>2
<1>3. CurvatureTargets(path, carrot, lin) \subseteq Int
  <2>1. \/ CurvatureTargets(path, carrot, lin) = {(lin * Reduction) \div 100}
        \/ CurvatureTargets(path, carrot, lin) = {(lin * c) \div 100 : c \in Reduction..100}
        \/ CurvatureTargets(path, carrot, lin) = {}
    BY Zenon DEF CurvatureTargets
  <2>2. Reduction \in 0..100 /\ \A c \in Reduction..100 : c \in 0..100
    BY <1>1
  <2>. QED
    BY <1>2, <2>1, <2>2
<1>4. Limited(CurvatureTargets(path, carrot, lin), lin) \subseteq Int
  <2>1. ASSUME NEW t \in Int PROVE last_velocity + Clamp(t - last_velocity, -Rate, Rate) \in Int
    <3>1. -Rate \in Int /\ Rate \in Int /\ -Rate <= Rate /\ t - last_velocity \in Int
      BY <1>1
    <3>2. Clamp(t - last_velocity, -Rate, Rate) \in -Rate..Rate
      BY <3>1, ClampIs
    <3>. QED
      BY <3>1, <3>2
  <2>2. lin \in Int
    BY <1>1
  <2>. DEFINE targets == CurvatureTargets(path, carrot, lin)
  <2>3. targets \subseteq Int
    BY <1>3
  <2>. HIDE DEF targets
  <2>4. Limited(targets, lin) \subseteq Int
    BY <2>1, <2>2, <2>3 DEF Limited
  <2>. QED
    BY <2>4 DEF targets
<1>5. PICK w \in Int : v = LET floored == IF w < 2 * min_approach_linear_velocity
                                          THEN 2 * min_approach_linear_velocity ELSE w
                           IN IF floored < lin THEN floored ELSE lin
  BY <1>4 DEF applyCurvatureLimitation
<1>. QED
  BY <1>1, <1>5

(* The pose looked ahead to is one of the path, but for its heading.       *)
LEMMA CarrotIsOnPath ==
    ASSUME NEW path \in Seq(PathPose), path # <<>>, NEW d
    PROVE  /\ getLookAheadPoint(d, path) \in PathPose
           /\ Last(path) \in PathPose
<1>1. Len(path) \in Nat \ {0} /\ DOMAIN path = 1..Len(path) /\ \A i \in 1..Len(path) : path[i] \in PathPose
  BY LenProperties, EmptySeq, ElementOfSeq
<1>2. Last(path) \in PathPose
  BY <1>1 DEF Last
<1>. DEFINE beyond == {i \in DOMAIN path : Hypot(path[i].at) >= d}
<1>3. ASSUME beyond # {} PROVE Min(beyond) \in 1..Len(path)
  <2>1. beyond \subseteq 1..Len(path) /\ beyond \subseteq Nat
    BY <1>1
  <2>. HIDE DEF beyond
  <2>2. \E m \in beyond : \A k \in beyond : m <= k
    BY <1>3, <2>1, LeastExists
  <2>3. Min(beyond) \in beyond
    BY <2>2, Zenon DEF Min
  <2>. QED
    BY <2>1, <2>3
<1>4. getLookAheadPoint(d, path) =
        IF beyond = {} THEN Last(path)
        ELSE IF parameters.interpolate /\ Min(beyond) > 1
             THEN [at |-> path[Min(beyond)].at, yaw |-> 0]
             ELSE path[Min(beyond)]
  BY DEF getLookAheadPoint
<1>. HIDE DEF beyond
<1>5. ASSUME beyond # {}
      PROVE  path[Min(beyond)] \in PathPose /\ [at |-> path[Min(beyond)].at, yaw |-> 0] \in PathPose
  BY <1>1, <1>3, <1>5 DEF PathPose
<1>. QED
  BY <1>2, <1>4, <1>5, Zenon

(* Seen from the robot, the part of the plan that is near                  *)
LEMMA LocalIsPath ==
    ASSUME NEW near \in Seq(PathPose), NEW tf, robot \in Int \X Int
    PROVE  Local(near, tf) \in Seq(PathPose)
<1>1. DOMAIN near = 1..Len(near) /\ Len(near) \in Nat /\ \A i \in 1..Len(near) : near[i] \in PathPose
  BY LenProperties, ElementOfSeq
<1>2. [at |-> <<0, 0>>, yaw |-> 0] \in PathPose
  BY DEF PathPose
<1>3. ASSUME NEW i \in 1..Len(near) PROVE [at |-> Minus(near[i].at, robot), yaw |-> near[i].yaw] \in PathPose
  <2>1. near[i].at \in Int \X Int /\ near[i].yaw \in Int
    BY <1>1 DEF PathPose
  <2>2. Minus(near[i].at, robot) \in Int \X Int
    BY <2>1 DEF Minus
  <2>. QED
    BY <2>1, <2>2 DEF PathPose
<1>4. Local(near, tf) \in [1..Len(near) -> PathPose]
  BY <1>1, <1>2, <1>3 DEF Local
<1>. QED
  BY <1>1, <1>4

LEMMA LengthIsNumber == \A p \in Int \X Int : Hypot(p) \in Nat
  BY DEF Hypot, Dist, Abs

LEMMA FollowTypes ==
    ASSUME PlanInv, PursuitTypeOK, NEW tf, NEW speed, Follow(tf, speed)
    PROVE  /\ move_pid'.err \in Nat /\ move_pid'.sum \in 0..SumMax
           /\ head_pid'.err \in Int /\ head_pid'.sum \in -SumMax..SumMax
           /\ last_velocity' \in move_gains.min..move_gains.max
           /\ answer'.kind \in {"cmd", "exception"}
<1>0. /\ SumMax \in Nat /\ robot \in Int \X Int /\ last_velocity \in Int
      /\ move_pid.err \in Nat /\ move_pid.sum \in 0..SumMax
      /\ head_pid.err \in Int /\ head_pid.sum \in -SumMax..SumMax
  BY PursuitAssumption DEF PursuitTypeOK
<1>1. PICK b \in Begins(global_plan_) :
         LET rest   == SubSeq(global_plan_, b, Len(global_plan_))
             path   == Local(Near(rest), tf)
             carrot == getLookAheadPoint(getLookAheadDistance(speed), path)
             dist   == IF Turns(path) THEN 0 ELSE Hypot(carrot.at)
             yaw    == Heading(path, carrot)
         IN /\ path # <<>>
            /\ move_pid' = PidNext(move_pid, dist)
            /\ head_pid' = IF enable_rotation THEN PidNext(head_pid, yaw) ELSE head_pid
            /\ \E v \in applyCurvatureLimitation(path, carrot,
                                                 PidOutput(move_pid, move_gains, dist)) :
                 /\ last_velocity' = v
                 /\ \/ Throws(tf)
                    \/ \E l, a : answer' = [kind |-> "cmd", tf |-> tf, lin |-> l, ang |-> a]
  BY Zenon DEF Follow
<1>. DEFINE rest   == SubSeq(global_plan_, b, Len(global_plan_))
            path   == Local(Near(rest), tf)
            carrot == getLookAheadPoint(getLookAheadDistance(speed), path)
            dist   == IF Turns(path) THEN 0 ELSE Hypot(carrot.at)
            yaw    == Heading(path, carrot)
            lin    == PidOutput(move_pid, move_gains, dist)
<1>2. path \in Seq(PathPose)
  <2>1. rest \in Seq(PathPose)
    BY RestOfPlan DEF PlanInv
  <2>. HIDE DEF rest
  <2>. QED
    BY <1>0, <2>1, NearIsPath, LocalIsPath
<1>3. path # <<>>
  BY <1>1
<1>4. carrot \in PathPose /\ Last(path) \in PathPose
  <2>. HIDE DEF path
  <2>. QED
    BY <1>2, <1>3, CarrotIsOnPath
<1>5. dist \in Nat /\ dist \in Int /\ yaw \in Int
  <2>1. Hypot(carrot.at) \in Nat /\ carrot.yaw \in Int /\ Last(path).yaw \in Int
    <3>. HIDE DEF carrot, path
    <3>. QED
      BY <1>4, LengthIsNumber DEF PathPose
  <2>. HIDE DEF carrot, path
  <2>. QED
    BY <2>1 DEF Heading
<1>6. /\ move_pid' = PidNext(move_pid, dist)
      /\ head_pid' = IF enable_rotation THEN PidNext(head_pid, yaw) ELSE head_pid
      /\ last_velocity' \in applyCurvatureLimitation(path, carrot, lin)
      /\ Throws(tf) \/ \E l, a : answer' = [kind |-> "cmd", tf |-> tf, lin |-> l, ang |-> a]
  BY <1>1, Zenon
<1>. HIDE DEF rest, path, carrot, dist, yaw
<1>7. move_pid'.err \in Nat /\ move_pid'.sum \in 0..SumMax
  <2>1. move_pid.err \in Int /\ move_pid.sum \in -SumMax..SumMax /\ move_pid.sum >= 0 /\ dist >= 0
    BY <1>0, <1>5
  <2>2. PidNext(move_pid, dist).err = dist /\ PidNext(move_pid, dist).sum \in 0..SumMax
    BY <1>5, <2>1, ErrorsAreWhole
  <2>. QED
    BY <1>5, <1>6, <2>2
<1>8. head_pid'.err \in Int /\ head_pid'.sum \in -SumMax..SumMax
  <2>1. PidNext(head_pid, yaw).err \in Int /\ PidNext(head_pid, yaw).sum \in -SumMax..SumMax
    BY <1>0, <1>5, ErrorsAreWhole
  <2>. QED
    BY <1>0, <1>6, <2>1
<1>9. last_velocity' \in move_gains.min..move_gains.max
  <2>1. lin \in move_gains.min..move_gains.max
    BY <1>0, <1>5, MoveOutputInLimits
  <2>. HIDE DEF lin
  <2>2. PICK v \in applyCurvatureLimitation(path, carrot, lin) : last_velocity' = v
    BY <1>6, Zenon
  <2>3. v \in move_gains.min..move_gains.max
    BY <1>0, <2>1, LimitedVelocity
  <2>. QED
    BY <2>2, <2>3
<1>10. answer'.kind \in {"cmd", "exception"}
  <2>1. Throws(tf) => answer'.kind = "exception"
    BY DEF Throws, NoAnswer
  <2>2. (\E l, a : answer' = [kind |-> "cmd", tf |-> tf, lin |-> l, ang |-> a]) => answer'.kind = "cmd"
    OBVIOUS
  <2>. QED
    BY <1>6, <2>1, <2>2, Zenon
<1>. QED
  BY <1>7, <1>8, <1>9, <1>10

LEMMA PursuitTypes ==
    /\ PursuitInit => PursuitTypeOK
    /\ PlanInv /\ PursuitTypeOK /\ [PursuitNext]_pursuitVars => PursuitTypeOK'
<1>0. SumMax \in Nat /\ MaxCycles \in Nat
  BY PursuitAssumption
<1>1. ASSUME PursuitInit PROVE PursuitTypeOK
  <2>1. 0 \in 0..SumMax /\ 0 \in -SumMax..SumMax /\ 0 \in 0..MaxCycles /\ 0 \in Nat /\ 0 \in Int
    BY <1>0
  <2>. QED
    BY <1>1, <2>1 DEF PursuitInit, PursuitTypeOK, NoAnswer
<1>2. ASSUME PlanInv, PursuitTypeOK, [PursuitNext]_pursuitVars PROVE PursuitTypeOK'
  <2>1. global_plan_' = <<>> \/ \E p \in Plans : IsSuffix(global_plan_', p)
    BY <1>2, PlanIsGiven DEF PursuitTypeOK
  <2>2. ASSUME NEW tf, NEW speed, computeVelocityCommands(tf, speed) PROVE PursuitTypeOK'
    <3>1. /\ cycles' \in 0..MaxCycles /\ UNCHANGED <<robot, lethal, parameters>>
          /\ NoPath(tf) \/ Follow(tf, speed)
      BY <1>0, <1>2, <2>2 DEF computeVelocityCommands, PursuitTypeOK
    <3>2. CASE NoPath(tf)
      <4>1. UNCHANGED <<move_pid, head_pid, last_velocity>> /\ answer'.kind = "exception"
        BY <3>2 DEF NoPath, Throws, NoAnswer
      <4>. QED
        BY <1>2, <2>1, <3>1, <4>1 DEF PursuitTypeOK
    <3>3. CASE Follow(tf, speed)
      BY <1>2, <2>1, <3>1, <3>3, FollowTypes DEF PursuitTypeOK
    <3>. QED
      BY <3>1, <3>2, <3>3
  <2>3. ASSUME NEW p, setPlan(p) PROVE PursuitTypeOK'
    BY <1>2, <2>1, <2>3 DEF setPlan, PursuitTypeOK
  <2>4. ASSUME NEW s \in Settings, dynamicParametersCallback(s) PROVE PursuitTypeOK'
    BY <1>2, <2>1, <2>4 DEF dynamicParametersCallback, PursuitTypeOK
  <2>5. ASSUME NEW p \in Places, NEW c \in LethalSets, World(p, c) PROVE PursuitTypeOK'
    BY <1>2, <2>1, <2>5 DEF World, PursuitTypeOK
  <2>6. ASSUME UNCHANGED pursuitVars PROVE PursuitTypeOK'
    BY <1>2, <2>1, <2>6 DEF pursuitVars, PursuitTypeOK
  <2>. QED
    BY <1>2, <2>2, <2>3, <2>4, <2>5, <2>6 DEF PursuitNext
<1>. QED
  BY <1>1, <1>2

-----------------------------------------------------------------------------
(* The values of all variables stay of their types, whichever of the four  *)
(* nodes runs: the bounds of what is sent to the chassis, kept by the      *)
(* synchronizer, or left of a plan.                                        *)
THEOREM MotionTypesCorrect == MCInit /\ [][MCNext]_motionVars => []MotionTypeOK
<1>. DEFINE Inv == MotionTypeOK /\ PlanInv
<1>1. MCInit => Inv
  <2>1. <<>> \in Seq(PathPose)
    BY EmptySeq
  <2>. QED
    BY <2>1, FakeVelTypes, TeleopTypes, BackUpTypes, PursuitTypes
       DEF MCInit, MotionTypeOK, PlanInv, PursuitInit
<1>2. Inv /\ [MCNext]_motionVars => Inv'
  <2>. SUFFICES ASSUME Inv, [MCNext]_motionVars PROVE Inv'
    OBVIOUS
  <2>1. /\ [Next]_vars /\ [TeleopNext]_teleopVars
        /\ [BackUpNext]_backUpVars /\ [PursuitNext]_pursuitVars
    BY Zenon DEF MCNext, motionVars, FakeVelPart, TeleopPart, BackUpPart, PursuitPart
  <2>. QED
    BY <2>1, FakeVelTypes, TeleopTypes, BackUpTypes, PursuitTypes, PlanInductive, Zenon
       DEF MotionTypeOK
<1>. QED
  BY <1>1, <1>2, PTL
=============================================================================
