---------------------- MODULE ChassisInterface_proofs ----------------------
(***************************************************************************)
(* The mutex of the ros2_control plugin, for every set of commands and     *)
(* every number of them.                                                   *)
(***************************************************************************)
EXTENDS ChassisInterface, TLAPS

Types == /\ hw_cmd \in Twist /\ local \in Twist /\ msg \in Twists
         /\ spinPc \in {"off", "idle"} \cup Fields
         /\ ctlPc \in {"read", "publish", "lock", "send"} \cup Fields

(* A thread inside its critical section holds the mutex.                   *)
Exclusion == /\ spinPc \in Fields <=> mutex = "spin"
             /\ ctlPc \in Fields <=> mutex = "control"

(* The components of a that are stored before the next one, at pc, agree   *)
(* with those of b.                                                        *)
AgreeUpTo(pc, a, b) == /\ pc \in {"vy", "wz"} => a.vx = b.vx
                       /\ pc = "wz" => a.vy = b.vy

(* Outside the callback the three doubles are one message; inside it, and  *)
(* in the copy, what has been stored comes from one twist; and so does     *)
(* what is sent.                                                           *)
Whole == /\ spinPc \notin Fields => hw_cmd \in Twists
         /\ AgreeUpTo(spinPc, hw_cmd, msg)
         /\ AgreeUpTo(ctlPc, local, hw_cmd)
         /\ ctlPc = "send" => local \in Twists

(* The spin thread is started with the plugin.                             *)
NotStarted == state = "inactive" => spinPc = "off"

IInv == Types /\ Exclusion /\ Whole /\ NotStarted /\ TwistNotTorn

(* A twist is its three components.                                        *)
LEMMA TwistExtensional ==
    ASSUME NEW a \in Twist, NEW b \in Twist, a.vx = b.vx, a.vy = b.vy, a.wz = b.wz
    PROVE  a = b
BY DEF Twist

(* c is a with the component f of b stored.                                *)
Stored(c, a, b, f) ==
    /\ c \in Twist
    /\ f = "vx" => c.vx = b.vx
    /\ f = "vy" => c.vx = a.vx /\ c.vy = b.vy
    /\ f = "wz" => c.vx = a.vx /\ c.vy = a.vy /\ c.wz = b.wz

(* The store touches one component.                                        *)
LEMMA StoreField ==
    ASSUME NEW a \in Twist, NEW b \in Twist, NEW f \in Fields
    PROVE  Stored([a EXCEPT ![f] = b[f]], a, b, f)
<1>1. CASE f = "vx"
  BY <1>1 DEF Twist, Stored
<1>2. CASE f = "vy"
  BY <1>2 DEF Twist, Stored
<1>3. CASE f = "wz"
  BY <1>3 DEF Twist, Stored
<1>. QED
  BY <1>1, <1>2, <1>3 DEF Fields

(* The members of the plugin start as zeros.                               *)
LEMMA Initially == Init => IInv
<1>1. ZeroTwist \in Twist /\ ZeroTwist \in Twists
  BY InterfaceAssumption DEF Twist, ZeroTwist
<1>. QED
  BY <1>1 DEF Init, IInv, Types, Exclusion, Whole, AgreeUpTo, NotStarted, TwistNotTorn, Fields

(* The callback takes the mutex.                                           *)
LEMMA CallbackStarts ==
    ASSUME IInv, NEW t \in Twists, CallbackLock(t)
    PROVE  IInv'
BY DEF CallbackLock, ctlVars, io,
       IInv, Types, Exclusion, Whole, AgreeUpTo, NotStarted, TwistNotTorn, Fields

(* While the callback stores, the control thread is not in its copy; the   *)
(* last store makes the doubles the message.                               *)
LEMMA CallbackStores ==
    ASSUME IInv, NEW f \in Fields, CallbackStore(f)
    PROVE  IInv'
<1>. USE DEF CallbackStore
<1>1. msg \in Twist /\ hw_cmd \in Twist
  BY InterfaceAssumption DEF IInv, Types
<1>2. Stored(hw_cmd', hw_cmd, msg, f)
  <2>1. hw_cmd' = [hw_cmd EXCEPT ![f] = msg[f]]
    OBVIOUS
  <2>2. Stored([hw_cmd EXCEPT ![f] = msg[f]], hw_cmd, msg, f)
    BY <1>1, StoreField
  <2>. QED
    BY <2>1, <2>2, Zenon
<1>3. /\ spinPc = f /\ ctlPc \notin Fields
      /\ UNCHANGED <<state, msg, local, board, ctlPc>>
  BY DEF IInv, Exclusion, ctlVars
<1>4. CASE f = "wz"
  <2>1. hw_cmd' = msg
    BY <1>1, <1>2, <1>3, <1>4, TwistExtensional, ZenonT(40) DEF Stored, IInv, Whole, AgreeUpTo
  <2>2. spinPc' = "idle" /\ mutex' = "none"
    BY <1>4
  <2>. QED
    BY <1>2, <1>3, <2>1, <2>2
    DEF Stored, IInv, Types, Exclusion, Whole, AgreeUpTo, NotStarted, TwistNotTorn, Fields
<1>5. CASE f # "wz"
  <2>1. /\ spinPc' = (IF f = "vx" THEN "vy" ELSE "wz") /\ mutex' = mutex
    BY <1>5 DEF Fields, After
  <2>. QED
    BY <1>2, <1>3, <1>5, <2>1
    DEF Stored, IInv, Types, Exclusion, Whole, AgreeUpTo, NotStarted, TwistNotTorn, Fields
<1>. QED
  BY <1>4, <1>5

(* write() takes the mutex.                                                *)
LEMMA WriteStarts ==
    ASSUME IInv, WriteLock
    PROVE  IInv'
BY DEF WriteLock, io, IInv, Types, Exclusion, Whole, AgreeUpTo, NotStarted, TwistNotTorn, Fields

(* The copy reads the doubles of one message, and ends as that message.    *)
LEMMA WriteCopies ==
    ASSUME IInv, NEW f \in Fields, WriteCopy(f)
    PROVE  IInv'
<1>. USE DEF WriteCopy
<1>1. local \in Twist /\ hw_cmd \in Twist
  BY DEF IInv, Types
<1>2. Stored(local', local, hw_cmd, f)
  <2>1. local' = [local EXCEPT ![f] = hw_cmd[f]]
    OBVIOUS
  <2>2. Stored([local EXCEPT ![f] = hw_cmd[f]], local, hw_cmd, f)
    BY <1>1, StoreField
  <2>. QED
    BY <2>1, <2>2, Zenon
<1>3. /\ ctlPc = f /\ spinPc \notin Fields /\ mutex = "control"
      /\ UNCHANGED <<state, msg, hw_cmd, board, spinPc>>
  BY DEF IInv, Exclusion
<1>4. CASE f = "wz"
  <2>1. local' = hw_cmd
    BY <1>1, <1>2, <1>3, <1>4, TwistExtensional, ZenonT(40) DEF Stored, IInv, Whole, AgreeUpTo
  <2>2. ctlPc' = "send" /\ mutex' = "none"
    BY <1>4
  <2>. QED
    BY <1>2, <1>3, <2>1, <2>2
    DEF Stored, IInv, Types, Exclusion, Whole, AgreeUpTo, NotStarted, TwistNotTorn, Fields
<1>5. CASE f # "wz"
  <2>1. /\ ctlPc' = (IF f = "vx" THEN "vy" ELSE "wz") /\ mutex' = mutex
    BY <1>5 DEF Fields, After
  <2>. QED
    BY <1>2, <1>3, <1>5, <2>1
    DEF Stored, IInv, Types, Exclusion, Whole, AgreeUpTo, NotStarted, TwistNotTorn, Fields
<1>. QED
  BY <1>4, <1>5

(* write() sends what it copied.                                           *)
LEMMA WriteSends ==
    ASSUME IInv, NEW delivered \in BOOLEAN, WriteSend(delivered)
    PROVE  IInv'
BY DEF WriteSend, cmdVars,
       IInv, Types, Exclusion, Whole, AgreeUpTo, NotStarted, TwistNotTorn, Fields

(* read() and publishOdom stay outside the critical section.               *)
LEMMA ReadKeeps ==
    ASSUME IInv, Read \/ publishOdom
    PROVE  IInv'
<1>1. /\ ctlPc \in {"read", "publish"} /\ ctlPc' \in {"lock", "publish"}
      /\ UNCHANGED <<state, hw_cmd, mutex, spinPc, msg, local, board>>
  BY DEF Read, read, publishOdom, cmdVars
<1>. QED
  BY <1>1 DEF IInv, Types, Exclusion, Whole, AgreeUpTo, NotStarted, TwistNotTorn, Fields

(* The lifecycle only starts and joins the spin thread between callbacks.  *)
LEMMA LifecycleKeeps ==
    ASSUME IInv, on_activate \/ on_deactivate \/ joinSpin
    PROVE  IInv'
<1>1. CASE on_activate
  BY <1>1 DEF on_activate, ctlVars, io,
     IInv, Types, Exclusion, Whole, AgreeUpTo, NotStarted, TwistNotTorn, Fields
<1>2. CASE on_deactivate
  BY <1>2 DEF on_deactivate, cmdVars, ctlVars, io,
     IInv, Types, Exclusion, Whole, AgreeUpTo, NotStarted, TwistNotTorn, Fields
<1>3. CASE joinSpin
  BY <1>3 DEF joinSpin, ctlVars, io,
     IInv, Types, Exclusion, Whole, AgreeUpTo, NotStarted, TwistNotTorn, Fields
<1>. QED
  BY <1>1, <1>2, <1>3

-----------------------------------------------------------------------------
(* Every step keeps the invariant.                                         *)
LEMMA Inductive == IInv /\ [Next]_vars => IInv'
<1>. SUFFICES ASSUME IInv, [Next]_vars PROVE IInv'
  OBVIOUS
<1>1. CASE on_activate \/ on_deactivate \/ joinSpin
  BY <1>1, LifecycleKeeps
<1>2. ASSUME NEW t \in Twists, CallbackLock(t)
      PROVE  IInv'
  BY <1>2, CallbackStarts
<1>3. ASSUME NEW f \in Fields, CallbackStore(f)
      PROVE  IInv'
  BY <1>3, CallbackStores
<1>4. CASE Read \/ publishOdom
  BY <1>4, ReadKeeps
<1>5. CASE WriteLock
  BY <1>5, WriteStarts
<1>6. ASSUME NEW f \in Fields, WriteCopy(f)
      PROVE  IInv'
  BY <1>6, WriteCopies
<1>7. ASSUME NEW delivered \in BOOLEAN, WriteSend(delivered)
      PROVE  IInv'
  BY <1>7, WriteSends
<1>8. CASE BoardSend
  BY <1>8 DEF BoardSend, cmdVars, ctlVars,
     IInv, Types, Exclusion, Whole, AgreeUpTo, NotStarted, TwistNotTorn, Fields
<1>9. CASE UNCHANGED vars
  BY <1>9 DEF vars, cmdVars, ctlVars,
     IInv, Types, Exclusion, Whole, AgreeUpTo, NotStarted, TwistNotTorn, Fields
<1>. QED
  BY <1>1, <1>2, <1>3, <1>4, <1>5, <1>6, <1>7, <1>8, <1>9, Zenon DEF Next, Control, Done

(* What the board executes is one message as published, for every          *)
(* interleaving of the callback's stores with write()'s copy.              *)
THEOREM NoTornTwist == Spec => []TwistNotTorn
<1>1. IInv => TwistNotTorn
  BY DEF IInv
<1>. QED
  BY <1>1, Initially, Inductive, PTL DEF Spec
=============================================================================
