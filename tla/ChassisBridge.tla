---------------------------- MODULE ChassisBridge ----------------------------
(***************************************************************************)
(* chassis_bridge_node: /cmd_vel to the A-board over the serial port, and  *)
(* uplink frames to /chassis/odom_raw.  rclcpp::spin runs the subscription *)
(* and the io_timer callback on one thread, so the two never overlap; the  *)
(* timer callback itself is two steps (readSerial, writeCommand) between   *)
(* which the clock and the board go on.                                    *)
(***************************************************************************)
EXTENDS SerialFrames

CONSTANTS Twists,        \* the geometry_msgs/Twist values published
          VxFromX, VxFromY, VyFromX, VyFromY, WzScale,  \* cmd_*_from_ros_*
          CmdTimeout,    \* cmd_timeout_sec in clock ticks; 0 disables
          MaxCmds,       \* bound: /\cmd_vel messages received
          MaxStepsBack,  \* bound: backward steps of the node's clock
          MaxRestarts,   \* bound: restarts of the node
          MaxDamage,     \* bound: uplink frames damaged on the link
          WireMax        \* bound: bytes waiting in the tty input queue

Twist == [vx : Int, vy : Int, wz : Int]
ZeroTwist == [vx |-> 0, vy |-> 0, wz |-> 0]

ASSUME BridgeAssumption ==
    /\ Twists \subseteq Twist /\ ZeroTwist \in Twists
    /\ {VxFromX, VxFromY, VyFromX, VyFromY, WzScale} \subseteq Int
    /\ {CmdTimeout, MaxCmds, MaxStepsBack, MaxRestarts, MaxDamage, WireMax} \subseteq Nat

VARIABLES
    port,      \* "open"; "failed": open() returned false; "dead": unplugged
    cmd,       \* cmd_vx_, cmd_vy_, cmd_wz_
    age,       \* now() - last_cmd_time_, in ticks, counted from 0 to CmdTimeout + 1
    pc,        \* where io_timer_'s callback is: "idle" or "write"
    rx_buf,    \* rx_buf_
    hw,        \* the frame hw_vx_ .. hw_pos_y_ were taken from
    odom,      \* the last odometry published: its frame and angular.z, and
               \* (history) how many were published since the node started
    wire,      \* bytes the kernel holds for the node
    sent,      \* the last downlink frame handed to write()
    board,     \* the velocity the A-board executes
    stopped,   \* history: the watchdog fired and no /cmd_vel came since
    budget     \* what is left of the bounded events

io == <<rx_buf, hw, odom, wire>>
vars == <<port, cmd, age, pc, io, sent, board, stopped, budget>>

(* chassis_vx = a*ros_x + b*ros_y and so on.                               *)
ToChassis(t) == [vx |-> VxFromX * t.vx + VxFromY * t.vy,
                 vy |-> VyFromX * t.vx + VyFromY * t.vy,
                 wz |-> WzScale * t.wz]

ChassisTwists == {ToChassis(t) : t \in Twists}

Spend(what) == budget[what] > 0 /\ budget' = [budget EXCEPT ![what] = @ - 1]

-----------------------------------------------------------------------------
(* The constructor.  The A-board may still execute what an earlier run of  *)
(* the node sent it.                                                       *)
Start == /\ port' \in {"open", "failed"}
         /\ cmd' = ZeroTwist
         /\ age' = 0
         /\ pc' = "idle"
         /\ rx_buf' = <<>> /\ hw' = NoFrame /\ wire' = <<>>

Init == /\ port \in {"open", "failed"}
        /\ cmd = ZeroTwist
        /\ age = 0
        /\ pc = "idle"
        /\ rx_buf = <<>> /\ hw = NoFrame /\ wire = <<>>
        /\ odom = [frame |-> NoFrame, wz |-> 0, count |-> 0]
        /\ sent = ToChassis(ZeroTwist)
        /\ board \in ChassisTwists
        /\ stopped = FALSE
        /\ budget = [frames |-> MaxFrames, cmds |-> MaxCmds, back |-> MaxStepsBack,
                     restarts |-> MaxRestarts, damage |-> MaxDamage]

(* The /cmd_vel callback.                                                  *)
OnCmdVel(t) ==
    /\ pc = "idle"
    /\ Spend("cmds")
    /\ cmd' = t
    /\ age' = 0
    /\ stopped' = FALSE
    /\ UNCHANGED <<port, pc, io, sent, board>>

(* readSerial: one read of at most ReadMax bytes, at most one frame parsed *)
(* and published.  n = 0 stands for the timeout and every error of read(). *)
readSerial(n) ==
    /\ pc = "idle"
    /\ pc' = "write"
    /\ n > 0 => port = "open"
    /\ IF n = 0
       THEN UNCHANGED io
       ELSE LET r == parseUplink(rx_buf \o SubSeq(wire, 1, n))
            IN  /\ wire' = SubSeq(wire, n + 1, Len(wire))
                /\ rx_buf' = r.rest
                /\ hw' = IF r.frame = NoFrame THEN hw ELSE r.frame
                /\ odom' = IF r.frame = NoFrame THEN odom
                           ELSE [frame |-> r.frame, wz |-> cmd.wz, count |-> odom.count + 1]
    /\ UNCHANGED <<port, cmd, age, sent, board, stopped, budget>>

ReadSerial ==
    \E n \in 0..(IF Len(wire) < ReadMax THEN Len(wire) ELSE ReadMax) : readSerial(n)

(* Mutant: the test whether the watchdog is disabled, inverted.            *)
ExpiredInverted == CmdTimeout = 0 /\ age > CmdTimeout

Expired == CmdTimeout > 0 /\ age > CmdTimeout

(* Mutant: the expired command is not reset.                               *)
WatchedCmdNotReset == cmd

(* Mutant: the mapping is applied in place, to the command that is kept.   *)
WatchedCmdMapped == IF Expired THEN ZeroTwist ELSE ToChassis(cmd)

(* The locked part of writeCommand: what goes out, and what stays in cmd_. *)
WatchedCmd == IF Expired THEN ZeroTwist ELSE cmd

(* writeCommand.  "delivered": the kernel took the whole frame.  Otherwise *)
(* write() returned -1 or a short count, and nothing is sent again.        *)
writeCommand(delivered) ==
    /\ pc = "write"
    /\ pc' = "idle"
    /\ delivered => port = "open"
    /\ cmd' = WatchedCmd
    /\ sent' = ToChassis(WatchedCmd)
    /\ board' = IF delivered THEN ToChassis(WatchedCmd) ELSE board
    /\ stopped' = (stopped \/ Expired)
    /\ UNCHANGED <<port, age, io, budget>>

(* The environment: time passes, or the system clock is stepped back.  A   *)
(* step that makes now() - last_cmd_time_ negative is age 0: the command   *)
(* counts as fresh either way, only for longer.                            *)
ClockTick == /\ age <= CmdTimeout
             /\ age' = age + 1
             /\ UNCHANGED <<port, cmd, pc, io, sent, board, stopped, budget>>

ClockStepBack == /\ Spend("back")
                 /\ age' \in 0..age
                 /\ UNCHANGED <<port, cmd, pc, io, sent, board, stopped>>

(* The A-board sends the next uplink frame; the link may damage it.        *)
BoardSend ==
    /\ Len(wire) + FrameLen <= WireMax
    /\ Spend("frames")
    /\ \E lookalike \in BOOLEAN :
         wire' = wire \o UplinkFrame(MaxFrames - budget.frames + 1, lookalike)
    /\ UNCHANGED <<port, cmd, age, pc, rx_buf, hw, odom, sent, board, stopped>>

BoardSendDamaged ==
    /\ Len(wire) + FrameLen <= WireMax
    /\ budget.damage > 0 /\ budget.frames > 0
    /\ budget' = [budget EXCEPT !.damage = @ - 1, !.frames = @ - 1]
    /\ \E lookalike \in BOOLEAN :
       \E bytes \in Damage(UplinkFrame(MaxFrames - budget.frames + 1, lookalike)) :
         wire' = wire \o bytes
    /\ UNCHANGED <<port, cmd, age, pc, rx_buf, hw, odom, sent, board, stopped>>

(* The USB device goes away.  fd_ stays as it is and nothing reopens it.   *)
Unplug == /\ port = "open"
          /\ port' = "dead"
          /\ UNCHANGED <<cmd, age, pc, io, sent, board, stopped, budget>>

(* The process dies and is started again; open() flushes the tty queue.    *)
Restart == /\ Spend("restarts")
           /\ Start
           /\ odom' = [frame |-> NoFrame, wz |-> 0, count |-> 0]
           /\ stopped' = FALSE
           /\ UNCHANGED <<sent, board>>

-----------------------------------------------------------------------------
Next == \/ \E t \in Twists : OnCmdVel(t)
        \/ ReadSerial
        \/ \E delivered \in BOOLEAN : writeCommand(delivered)
        \/ ClockTick
        \/ ClockStepBack
        \/ BoardSend
        \/ BoardSendDamaged
        \/ Unplug
        \/ Restart

(* The wall timer keeps firing, the clock keeps running, and a tty that is *)
(* offered frames forever takes one whole frame again and again.           *)
Fairness == /\ WF_vars(ReadSerial)
            /\ WF_vars(\E delivered \in BOOLEAN : writeCommand(delivered))
            /\ WF_vars(ClockTick)
            /\ SF_vars(writeCommand(TRUE))

Spec == Init /\ [][Next]_vars
FairSpec == Spec /\ Fairness

-----------------------------------------------------------------------------
TypeOK ==
    /\ port \in {"open", "failed", "dead"}
    /\ cmd \in Twists
    /\ age \in 0..(CmdTimeout + 1)
    /\ pc \in {"idle", "write"}
    /\ rx_buf \in Seq(Byte) /\ wire \in Seq(Byte)
    /\ hw \in 0..MaxFrames
    /\ odom \in [frame : 0..MaxFrames, wz : Int, count : Nat]
    /\ sent \in ChassisTwists /\ board \in ChassisTwists
    /\ stopped \in BOOLEAN
    /\ budget \in [frames : 0..MaxFrames, cmds : 0..MaxCmds, back : 0..MaxStepsBack,
                   restarts : 0..MaxRestarts, damage : 0..MaxDamage]

(* Once the command timeout has fired, every frame written is a stop until *)
(* the next /cmd_vel: writeCommand clears cmd_vx_.. so that not even a     *)
(* clock stepped back can bring the abandoned velocity to life again.      *)
WatchdogLatched == stopped => sent = ToChassis(ZeroTwist)

(* readSerial never throws away an intact frame: one that leaves the bytes *)
(* waiting in the kernel and in rx_buf_ is the one it publishes.  The      *)
(* resynchronisation after a damaged frame drops one byte at a time, so a  *)
(* header-like payload cannot swallow the frame that follows it.           *)
ReadLosesNoFrame ==
    [][ReadSerial =>
         IntactFrames(rx_buf \o wire) \ IntactFrames(rx_buf' \o wire')
             \subseteq {odom'.frame}]_vars

(* Every odometry message tells of a frame newer than the one before: in   *)
(* the order the board sent them and none of them twice, however reads     *)
(* split and merge frames.  A restart begins a new history.                *)
OdomInOrder ==
    [][odom'.count # odom.count /\ odom'.count # 0
         => odom'.frame > odom.frame]_vars

(* When /cmd_vel falls silent the chassis comes to rest, whatever writes   *)
(* fail, whenever the node restarts: as long as the port stays usable.     *)
SafeStop == (budget.cmds = 0) ~> (board = ToChassis(ZeroTwist) \/ port # "open")
=============================================================================
