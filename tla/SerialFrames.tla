---------------------------- MODULE SerialFrames ----------------------------
(***************************************************************************)
(* Framing of the chassis serial link (sentry_hardware/protocol.hpp and    *)
(* the parseUplink loop that ChassisBridgeNode and ChassisInterface        *)
(* share).  A byte keeps what the parser can tell apart: whether it equals *)
(* FRAME_SOF, CMD_UPLINK or neither.  Its other two fields say which frame *)
(* and position it was sent as; only the CRC comparison depends on them (a *)
(* damaged byte has frame 0, and CRC collisions are not modelled).         *)
(***************************************************************************)
EXTENDS Integers, Sequences, FiniteSetsExt

CONSTANTS FrameLen,   \* sizeof(UplinkFrame): 24 in the code
          ReadMax,    \* sizeof(tmp): 128 in the code
          MaxFrames   \* bound: uplink frames the board ever sends

ASSUME FramingAssumption ==
    /\ FrameLen \in Nat /\ FrameLen >= 3
    /\ ReadMax \in Nat \ {0}
    /\ MaxFrames \in Nat

NoFrame == 0

ByteValue == {"sof", "cmd", "other"}

Byte == [val : ByteValue, frame : 0..MaxFrames, pos : 0..FrameLen]

(* The bytes of one UplinkFrame.  The last payload byte and the CRC byte   *)
(* may happen to read as a frame header: payloads are arbitrary floats.    *)
UplinkFrame(f, lookalike) ==
    [i \in 1..FrameLen |->
        [val   |-> CASE i = 1 -> "sof"
                     [] i = 2 -> "cmd"
                     [] i = FrameLen - 1 /\ i > 2 /\ lookalike -> "sof"
                     [] i = FrameLen /\ lookalike -> "cmd"
                     [] OTHER -> "other",
         frame |-> f,
         pos   |-> i]]

(* rx_buf_[0] == FRAME_SOF && rx_buf_[1] == CMD_UPLINK, at offset p.       *)
HeaderAt(buf, p) == buf[p].val = "sof" /\ buf[p + 1].val = "cmd"

(* The FrameLen bytes from p on are one frame, complete and undamaged.     *)
crc16_verify(buf, p) ==
    /\ buf[p].frame # NoFrame
    /\ \A i \in 1..FrameLen : buf[p + i - 1].frame = buf[p].frame
                           /\ buf[p + i - 1].pos = i

(* Offsets at which the scanning loop would stop and accept a frame.       *)
FrameStarts(buf) ==
    {p \in 1..(Len(buf) - FrameLen + 1) :
        HeaderAt(buf, p) /\ crc16_verify(buf, p)}

(* The size check that follows the loop.                                   *)
Trimmed(buf) ==
    IF Len(buf) > FrameLen * 4
    THEN SubSeq(buf, Len(buf) - FrameLen + 1, Len(buf))
    ELSE buf

(* Mutant: a header with a wrong CRC costs a whole frame, not one byte.    *)
parseUplinkSkipping(buf) ==
    LET headers == {p \in 1..(Len(buf) - FrameLen + 1) : HeaderAt(buf, p)}
        p == Min(headers)
    IN  IF headers = {} THEN [frame |-> NoFrame, rest |-> Trimmed(buf)]
        ELSE [frame |-> IF crc16_verify(buf, p) THEN buf[p].frame ELSE NoFrame,
              rest  |-> SubSeq(buf, p + FrameLen, Len(buf))]

(* Mutant: the frame is returned, its bytes are not erased.                *)
parseUplinkKept(buf) ==
    IF FrameStarts(buf) = {} THEN [frame |-> NoFrame, rest |-> Trimmed(buf)]
    ELSE LET p == Min(FrameStarts(buf))
         IN  [frame |-> buf[p].frame, rest |-> SubSeq(buf, p, Len(buf))]

(* The loop drops one byte at a time until a frame starts at the front or  *)
(* fewer than FrameLen bytes are left; it returns the first frame only.    *)
parseUplink(buf) ==
    IF FrameStarts(buf) # {}
    THEN LET p == Min(FrameStarts(buf))
         IN  [frame |-> buf[p].frame,
              rest  |-> SubSeq(buf, p + FrameLen, Len(buf))]
    ELSE LET keep == IF Len(buf) < FrameLen THEN Len(buf) ELSE FrameLen - 1
         IN  [frame |-> NoFrame,
              rest  |-> Trimmed(SubSeq(buf, Len(buf) - keep + 1, Len(buf)))]

(* The frames that lie complete and undamaged in a byte stream.            *)
IntactFrames(stream) == {stream[p].frame : p \in FrameStarts(stream)}

(* What the link does to a frame in transit: nothing, or it damages or     *)
(* loses one byte of it.                                                   *)
Changed(bytes, i) ==
    {[bytes EXCEPT ![i] = [val |-> v, frame |-> NoFrame, pos |-> 0]] : v \in ByteValue}
Lost(bytes, i) == SubSeq(bytes, 1, i - 1) \o SubSeq(bytes, i + 1, Len(bytes))
Damage(bytes) ==
    {bytes} \cup UNION {Changed(bytes, i) \cup {Lost(bytes, i)} : i \in DOMAIN bytes}
=============================================================================
