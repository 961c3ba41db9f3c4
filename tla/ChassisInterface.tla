-------------------------- MODULE ChassisInterface --------------------------
(***************************************************************************)
(* The ros2_control plugin for the same board.  The control thread runs    *)
(* read() and write() in turn; the spin thread runs the /cmd_vel callback; *)
(* they share hw_cmd_vx_, hw_cmd_vy_, hw_cmd_wz_ under cmd_vel_mutex_,     *)
(* except that publishOdom reads hw_cmd_wz_ without it.  Every access to   *)
(* one of the three doubles is a step of its own.                          *)
(***************************************************************************)
EXTENDS SerialFrames

CONSTANTS Twists,      \* the geometry_msgs/Twist values published
          MaxCmds,     \* bound: /cmd_vel messages received
          WireMax      \* bound: bytes waiting in the tty input queue

Twist == [vx : Int, vy : Int, wz : Int]
ZeroTwist == [vx |-> 0, vy |-> 0, wz |-> 0]

ASSUME InterfaceAssumption ==
    /\ Twists \subseteq Twist /\ ZeroTwist \in Twists
    /\ {MaxCmds, WireMax} \subseteq Nat

VARIABLES
    state,     \* "inactive", "active", "closing" (on_deactivate joins), "down"
    port,      \* serial_ is open
    hw_cmd,    \* hw_cmd_vx_, hw_cmd_vy_, hw_cmd_wz_
    mutex,     \* holder of cmd_vel_mutex_: "none", "spin" or "control"
    spinPc,    \* spin thread: "off", "idle", or the field it writes next
    msg,       \* the message in the callback
    ctlPc,     \* control thread: "read", "publish", "lock", the field copied next, "send"
    local,     \* the locals vx, vy, wz of write()
    rx_buf, hw, odom, wire, \* as in ChassisBridge
    board,     \* the velocity the board executes
    accepted,  \* history: the message the callback stored last
    left       \* what is left of the bounded events

cmdVars == <<hw_cmd, mutex, spinPc, msg, accepted>>
ctlVars == <<ctlPc, local, board>>
io == <<rx_buf, hw, odom, wire>>
vars == <<state, port, cmdVars, ctlVars, io, left>>

Init == /\ state = "inactive" /\ port = FALSE
        /\ hw_cmd = ZeroTwist /\ mutex = "none" /\ spinPc = "off"
        /\ msg = ZeroTwist /\ accepted = ZeroTwist
        /\ ctlPc = "read" /\ local = ZeroTwist
        /\ board = ZeroTwist
        /\ rx_buf = <<>> /\ hw = NoFrame /\ wire = <<>>
        /\ odom = [frame |-> NoFrame, wz |-> 0]
        /\ left = [cmds |-> MaxCmds, frames |-> MaxFrames]

(* A missing serial device is tolerated: the plugin runs without hardware. *)
on_activate ==
    /\ state = "inactive"
    /\ state' = "active"
    /\ port' \in BOOLEAN
    /\ spinPc' = "idle"
    /\ UNCHANGED <<hw_cmd, mutex, msg, accepted, ctlVars, io, left>>

(* Closes the port, shuts the ROS context down, then joins the spin thread *)
(* (a callback already running is finished first).                         *)
on_deactivate ==
    /\ state = "active"
    /\ state' = "closing"
    /\ port' = FALSE
    /\ UNCHANGED <<cmdVars, ctlVars, io, left>>

joinSpin ==
    /\ state = "closing"
    /\ spinPc = "idle"
    /\ spinPc' = "off"
    /\ state' = "down"
    /\ UNCHANGED <<port, hw_cmd, mutex, msg, accepted, ctlVars, io, left>>

-----------------------------------------------------------------------------
(* The /cmd_vel callback: lock, three stores, unlock with the last.        *)
CallbackLock(t) ==
    /\ spinPc = "idle" /\ state = "active" /\ mutex = "none"
    /\ left.cmds > 0 /\ left' = [left EXCEPT !.cmds = @ - 1]
    /\ mutex' = "spin"
    /\ msg' = t
    /\ spinPc' = "vx"
    /\ UNCHANGED <<state, port, hw_cmd, accepted, ctlVars, io>>

Fields == {"vx", "vy", "wz"}
After == [vx |-> "vy", vy |-> "wz"]

CallbackStore(field) ==
    /\ spinPc = field
    /\ hw_cmd' = [hw_cmd EXCEPT ![field] = msg[field]]
    /\ IF field = "wz"
       THEN spinPc' = "idle" /\ mutex' = "none" /\ accepted' = msg
       ELSE spinPc' = After[field] /\ UNCHANGED <<mutex, accepted>>
    /\ UNCHANGED <<state, port, msg, ctlVars, io, left>>

-----------------------------------------------------------------------------
(* read(): parse at most one frame, then publishOdom with hw_cmd_wz_ as it *)
(* is at that moment.                                                      *)
read(n) ==
    /\ ctlPc = "read" /\ state \in {"active", "closing"}
    /\ n > 0 => port
    /\ UNCHANGED <<state, port, cmdVars, local, board, odom, left>>
    /\ IF n = 0
       THEN ctlPc' = "lock" /\ UNCHANGED <<rx_buf, hw, wire>>
       ELSE LET r == parseUplink(rx_buf \o SubSeq(wire, 1, n))
            IN  /\ wire' = SubSeq(wire, n + 1, Len(wire))
                /\ rx_buf' = r.rest
                /\ hw' = IF r.frame = NoFrame THEN hw ELSE r.frame
                /\ ctlPc' = IF r.frame = NoFrame THEN "lock" ELSE "publish"

Read == \E n \in 0..(IF Len(wire) < ReadMax THEN Len(wire) ELSE ReadMax) : read(n)

publishOdom ==
    /\ ctlPc = "publish"
    /\ odom' = [frame |-> hw, wz |-> hw_cmd.wz]
    /\ ctlPc' = "lock"
    /\ UNCHANGED <<state, port, cmdVars, local, board, rx_buf, hw, wire, left>>

(* Mutant: write() copies without waiting for the mutex.                   *)
WriteLockFree ==
    /\ ctlPc = "lock"
    /\ mutex' = "control"
    /\ ctlPc' = "vx"
    /\ UNCHANGED <<state, port, hw_cmd, spinPc, msg, accepted, local, board, io, left>>

(* write(): copy the command under the mutex, then send the frame.         *)
WriteLock ==
    /\ ctlPc = "lock" /\ mutex = "none"
    /\ mutex' = "control"
    /\ ctlPc' = "vx"
    /\ UNCHANGED <<state, port, hw_cmd, spinPc, msg, accepted, local, board, io, left>>

(* Mutant: the mutex is not released after the copy.                       *)
WriteCopyKeepsLock(field) ==
    /\ ctlPc = field
    /\ local' = [local EXCEPT ![field] = hw_cmd[field]]
    /\ ctlPc' = IF field = "wz" THEN "send" ELSE After[field]
    /\ UNCHANGED <<state, port, hw_cmd, mutex, spinPc, msg, accepted, board, io, left>>

WriteCopy(field) ==
    /\ ctlPc = field
    /\ local' = [local EXCEPT ![field] = hw_cmd[field]]
    /\ IF field = "wz"
       THEN ctlPc' = "send" /\ mutex' = "none"
       ELSE ctlPc' = After[field] /\ UNCHANGED mutex
    /\ UNCHANGED <<state, port, hw_cmd, spinPc, msg, accepted, board, io, left>>

WriteSend(delivered) ==
    /\ ctlPc = "send"
    /\ delivered => port
    /\ board' = IF delivered THEN local ELSE board
    /\ ctlPc' = "read"
    /\ UNCHANGED <<state, port, cmdVars, local, io, left>>

(* The board sends its next uplink frame.                                  *)
BoardSend ==
    /\ port /\ left.frames > 0 /\ Len(wire) + FrameLen <= WireMax
    /\ left' = [left EXCEPT !.frames = @ - 1]
    /\ wire' = wire \o UplinkFrame(MaxFrames - left.frames + 1, FALSE)
    /\ UNCHANGED <<state, port, cmdVars, ctlVars, rx_buf, hw, odom>>

Done == state = "down" /\ UNCHANGED vars

Control == \/ Read \/ publishOdom \/ WriteLock
           \/ \E f \in Fields : WriteCopy(f)
           \/ \E delivered \in BOOLEAN : WriteSend(delivered)

Next == \/ on_activate \/ on_deactivate \/ joinSpin
        \/ \E t \in Twists : CallbackLock(t)
        \/ \E f \in Fields : CallbackStore(f)
        \/ Control
        \/ BoardSend
        \/ Done

(* Both threads are scheduled, and an open port takes a frame now and then. *)
Fairness == /\ WF_vars(Control)
            /\ \A f \in Fields : WF_vars(CallbackStore(f))
            /\ SF_vars(WriteLock)
            /\ SF_vars(WriteSend(TRUE))
            /\ WF_vars(joinSpin)

Spec == Init /\ [][Next]_vars
FairSpec == Spec /\ Fairness

-----------------------------------------------------------------------------
(* The chassis never executes a mixture of two commands: what it is sent   *)
(* is one message as published, for all the stores and loads of the single *)
(* components in between.                                                  *)
TwistNotTorn == board \in Twists

(* Once the commands end, the board comes to follow the last of them, as  *)
(* long as the plugin stays active on an open port: neither thread starves *)
(* the other on the mutex, and no older copy is left in force.             *)
LastCommandReachesBoard ==
    (left.cmds = 0 /\ state = "active" /\ port)
        ~> ((spinPc = "idle" /\ board = accepted) \/ state # "active")

(* The comment on the size check after the parsing loop: "prevents the     *)
(* buffer from growing without limit (normally it does not exceed the size *)
(* of a few frames)".                                                      *)
RxBufBounded == Len(rx_buf) <= FrameLen * 4
=============================================================================
