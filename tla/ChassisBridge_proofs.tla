------------------------ MODULE ChassisBridge_proofs ------------------------
(***************************************************************************)
(* Theorems about ChassisBridge, for every mapping, timeout, frame length, *)
(* read size and number of events; first what the parsing loop it shares   *)
(* with the ros2_control plugin does to any byte stream.                   *)
(***************************************************************************)
EXTENDS ChassisBridge, SequenceTheorems, NumberFacts

(* A non-empty set of natural numbers has a least element, and it is Min.  *)
LEMMA MinIsLeast ==
    ASSUME NEW S, S \subseteq Nat, S # {}
    PROVE  Min(S) \in S /\ \A y \in S : Min(S) <= y
BY LeastExists DEF Min

-----------------------------------------------------------------------------
(* Offsets are natural numbers, and a frame starts inside the buffer.      *)
LEMMA FrameStartsInside ==
    ASSUME NEW buf \in Seq(Byte)
    PROVE  /\ FrameStarts(buf) \subseteq Nat
           /\ \A p \in FrameStarts(buf) : 1 <= p /\ p + FrameLen - 1 <= Len(buf)
BY FramingAssumption, LenProperties DEF FrameStarts

(* A suffix of a stream of bytes is one.                                   *)
LEMMA SuffixType ==
    ASSUME NEW buf \in Seq(Byte), NEW d \in 0..Len(buf)
    PROVE  /\ SubSeq(buf, d + 1, Len(buf)) \in Seq(Byte)
           /\ Len(SubSeq(buf, d + 1, Len(buf))) = Len(buf) - d
           /\ \A j \in 1..(Len(buf) - d) : SubSeq(buf, d + 1, Len(buf))[j] = buf[j + d]
<1>1. Len(buf) \in Nat
  BY LenProperties
<1>2. \A i \in (d + 1)..Len(buf) : buf[i] \in Byte
  BY ElementOfSeq, <1>1
<1>. QED
  BY <1>1, <1>2, SubSeqProperties

(* The number of bytes the loop drops, or drops and returns, and what it   *)
(* makes of the first of them.                                             *)
Dropped(buf) ==
    IF FrameStarts(buf) # {} THEN Min(FrameStarts(buf)) + FrameLen - 1
    ELSE IF Len(buf) < FrameLen THEN 0 ELSE Len(buf) - FrameLen + 1

LEMMA DroppedRange ==
    ASSUME NEW buf \in Seq(Byte)
    PROVE  Dropped(buf) \in 0..Len(buf)
<1>1. Len(buf) \in Nat
  BY LenProperties
<1>2. CASE FrameStarts(buf) # {}
  BY <1>1, <1>2, FrameStartsInside, MinIsLeast, FramingAssumption DEF Dropped
<1>3. CASE FrameStarts(buf) = {}
  BY <1>1, <1>3, FramingAssumption DEF Dropped
<1>. QED
  BY <1>2, <1>3

(* What the loop leaves is the suffix behind the dropped bytes: the size   *)
(* check that follows it never has anything to cut off.                    *)
LEMMA RestIsSuffix ==
    ASSUME NEW buf \in Seq(Byte)
    PROVE  parseUplink(buf).rest = SubSeq(buf, Dropped(buf) + 1, Len(buf))
<1>1. Len(buf) \in Nat
  BY LenProperties
<1>2. CASE FrameStarts(buf) # {}
  <2>1. Min(FrameStarts(buf)) \in Nat
    BY <1>2, FrameStartsInside, MinIsLeast
  <2>2. Min(FrameStarts(buf)) + FrameLen = Dropped(buf) + 1
    BY <1>2, <2>1, FramingAssumption DEF Dropped
  <2>. QED
    BY <1>2, <2>2 DEF parseUplink
<1>3. CASE FrameStarts(buf) = {}
  <2>. DEFINE keep == IF Len(buf) < FrameLen THEN Len(buf) ELSE FrameLen - 1
              left == SubSeq(buf, Len(buf) - keep + 1, Len(buf))
  <2>1. Len(buf) - keep = Dropped(buf)
    BY <1>1, <1>3, FramingAssumption DEF Dropped
  <2>2. Len(left) = keep /\ keep \in Nat /\ keep <= FrameLen
    BY <1>1, <2>1, DroppedRange, SuffixType, FramingAssumption
  <2>3. ~(Len(left) > FrameLen * 4)
    BY <2>2, FramingAssumption
  <2>4. Trimmed(left) = left
    BY <2>3, Zenon DEF Trimmed
  <2>. QED
    BY <1>3, <2>1, <2>4 DEF parseUplink
<1>. QED
  BY <1>2, <1>3

(* The loop returns a frame number and a stream of bytes.                  *)
LEMMA parseUplinkType ==
    ASSUME NEW buf \in Seq(Byte)
    PROVE  /\ parseUplink(buf).frame \in 0..MaxFrames
           /\ parseUplink(buf).rest \in Seq(Byte)
<1>1. parseUplink(buf).rest \in Seq(Byte)
  BY RestIsSuffix, DroppedRange, SuffixType
<1>2. CASE FrameStarts(buf) # {}
  <2>1. Min(FrameStarts(buf)) \in 1..Len(buf)
    BY <1>2, FrameStartsInside, MinIsLeast, FramingAssumption, LenProperties
  <2>2. buf[Min(FrameStarts(buf))] \in Byte
    BY <2>1, ElementOfSeq
  <2>. QED
    BY <1>1, <1>2, <2>2 DEF parseUplink, Byte
<1>3. CASE FrameStarts(buf) = {}
  <2>1. parseUplink(buf).frame = NoFrame
    BY <1>3 DEF parseUplink
  <2>. QED
    BY <1>1, <2>1, FramingAssumption DEF NoFrame
<1>. QED
  BY <1>2, <1>3

-----------------------------------------------------------------------------
(* What the loop leaves and what is still to be read: the stream without   *)
(* its first Dropped(buf) bytes.                                           *)
LEMMA StreamLeft ==
    ASSUME NEW buf \in Seq(Byte), NEW tail \in Seq(Byte)
    PROVE  /\ Len(buf \o tail) \in Nat
           /\ Len(parseUplink(buf).rest \o tail) = Len(buf \o tail) - Dropped(buf)
           /\ \A j \in 1..Len(parseUplink(buf).rest \o tail) :
                 (parseUplink(buf).rest \o tail)[j] = (buf \o tail)[j + Dropped(buf)]
<1>. DEFINE d == Dropped(buf)
            s == buf \o tail
            rest == SubSeq(buf, d + 1, Len(buf))
            t == rest \o tail
<1>1. d \in 0..Len(buf) /\ Len(buf) \in Nat /\ Len(tail) \in Nat
  BY DroppedRange, LenProperties
<1>2. /\ rest \in Seq(Byte) /\ Len(rest) = Len(buf) - d
      /\ \A j \in 1..(Len(buf) - d) : rest[j] = buf[j + d]
  BY <1>1, SuffixType
<1>3. /\ Len(s) = Len(buf) + Len(tail)
      /\ \A j \in 1..Len(buf) : s[j] = buf[j]
      /\ \A j \in (Len(buf) + 1)..(Len(buf) + Len(tail)) : s[j] = tail[j - Len(buf)]
  BY <1>1, ConcatProperties
<1>4. /\ Len(t) = Len(rest) + Len(tail)
      /\ \A j \in 1..Len(rest) : t[j] = rest[j]
      /\ \A j \in (Len(rest) + 1)..(Len(rest) + Len(tail)) : t[j] = tail[j - Len(rest)]
  BY <1>1, <1>2, ConcatProperties, SMTT(40)
<1>. HIDE DEF d, s, rest, t
<1>5. \A j \in 1..Len(t) : t[j] = s[j + d]
  <2>. SUFFICES ASSUME NEW j \in 1..Len(t) PROVE t[j] = s[j + d]
    OBVIOUS
  <2>1. CASE j <= Len(rest)
    BY <1>1, <1>2, <1>3, <1>4, <2>1
  <2>2. CASE j > Len(rest)
    <3>1. /\ j \in (Len(rest) + 1)..(Len(rest) + Len(tail))
          /\ j + d \in (Len(buf) + 1)..(Len(buf) + Len(tail))
          /\ j - Len(rest) = (j + d) - Len(buf)
      BY <1>1, <1>2, <1>4, <2>2
    <3>. QED
      BY <1>3, <1>4, <3>1
  <2>. QED
    BY <1>1, <1>2, <1>4, <2>1, <2>2
<1>6. Len(s) \in Nat /\ Len(t) = Len(s) - d /\ d \in Nat
  BY <1>1, <1>2, <1>3, <1>4
<1>7. parseUplink(buf).rest = rest
  BY RestIsSuffix DEF rest, d
<1>. QED
  BY <1>5, <1>6, <1>7 DEF s, t, d

(* A frame behind the first d bytes of a stream still starts there when    *)
(* those bytes are gone.                                                   *)
LEMMA StartsInSuffix ==
    ASSUME NEW s, NEW t, NEW d \in Nat,
           Len(s) \in Nat, Len(t) = Len(s) - d,
           \A j \in 1..Len(t) : t[j] = s[j + d],
           NEW p \in FrameStarts(s), p > d
    PROVE  p - d \in FrameStarts(t) /\ t[p - d].frame = s[p].frame
<1>1. p \in 1..(Len(s) - FrameLen + 1) /\ HeaderAt(s, p) /\ crc16_verify(s, p)
  BY DEF FrameStarts
<1>2. p - d \in 1..(Len(t) - FrameLen + 1)
  BY <1>1, FramingAssumption
<1>3. \A i \in 1..FrameLen : t[p - d + i - 1] = s[p + i - 1]
  <2>. SUFFICES ASSUME NEW i \in 1..FrameLen PROVE t[p - d + i - 1] = s[p + i - 1]
    OBVIOUS
  <2>1. p - d + i - 1 \in 1..Len(t) /\ p - d + i - 1 + d = p + i - 1
    BY <1>1, <1>2, FramingAssumption
  <2>. QED
    BY <2>1
<1>4. t[p - d] = s[p] /\ t[p - d + 1] = s[p + 1]
  <2>1. p - d \in 1..Len(t) /\ p - d + d = p
    BY <1>1, <1>2, FramingAssumption
  <2>2. p - d + 1 \in 1..Len(t) /\ p - d + 1 + d = p + 1
    BY <1>1, <1>2, FramingAssumption
  <2>3. t[p - d] = s[p - d + d] /\ t[p - d + 1] = s[p - d + 1 + d]
    BY <2>1, <2>2
  <2>. QED
    BY <2>1, <2>2, <2>3
<1>5. HeaderAt(t, p - d)
  BY <1>1, <1>4 DEF HeaderAt
<1>6. crc16_verify(t, p - d)
  BY <1>1, <1>3, <1>4 DEF crc16_verify
<1>. QED
  BY <1>2, <1>4, <1>5, <1>6 DEF FrameStarts

(* Two complete frames never overlap: a byte has one position in its       *)
(* frame, so a header inside a frame cannot begin another.                 *)
LEMMA FramesDoNotOverlap ==
    ASSUME NEW s, NEW p \in Int, NEW q \in Int,
           crc16_verify(s, p), crc16_verify(s, q), p < q
    PROVE  p + FrameLen <= q
<1>. SUFFICES ASSUME q < p + FrameLen PROVE FALSE
  BY FramingAssumption
<1>1. q - p + 1 \in 1..FrameLen /\ p + (q - p + 1) - 1 = q /\ q - p + 1 # 1
  BY FramingAssumption
<1>2. s[q].pos = q - p + 1
  BY <1>1 DEF crc16_verify
<1>3. 1 \in 1..FrameLen /\ q + 1 - 1 = q
  BY FramingAssumption
<1>4. s[q].pos = 1
  BY <1>3 DEF crc16_verify
<1>. QED
  BY <1>1, <1>2, <1>4

(* The loop never costs a frame: one that lies complete and undamaged in   *)
(* the bytes at hand and those still to be read is the one it returns, or  *)
(* lies complete and undamaged in what is left.  This is what parseUplink  *)
(* of both chassis drivers gets by dropping a single byte whenever header  *)
(* or CRC do not fit.                                                      *)
THEOREM ParsingLosesNoFrame ==
    ASSUME NEW buf \in Seq(Byte), NEW tail \in Seq(Byte)
    PROVE  IntactFrames(buf \o tail) \ IntactFrames(parseUplink(buf).rest \o tail)
               \subseteq {parseUplink(buf).frame} \ {NoFrame}
<1>. DEFINE d == Dropped(buf)
            s == buf \o tail
            t == parseUplink(buf).rest \o tail
<1>1. d \in 0..Len(buf) /\ Len(buf) \in Nat /\ Len(tail) \in Nat
  BY DroppedRange, LenProperties
<1>2. \A j \in 1..Len(buf) : s[j] = buf[j]
  BY <1>1, ConcatProperties
<1>3. \A j \in 1..Len(t) : t[j] = s[j + d]
  BY StreamLeft
<1>4. Len(s) \in Nat /\ Len(t) = Len(s) - d /\ d \in Nat
  BY <1>1, StreamLeft
<1>. HIDE DEF d, s, t
<1>5. ASSUME NEW p \in FrameStarts(s), p > d
      PROVE  s[p].frame \in IntactFrames(t)
  <2>1. p - d \in FrameStarts(t) /\ t[p - d].frame = s[p].frame
    BY <1>3, <1>4, <1>5, StartsInSuffix
  <2>. QED
    BY <2>1 DEF IntactFrames
<1>6. ASSUME NEW p \in FrameStarts(s), p <= d
      PROVE  s[p].frame \in {parseUplink(buf).frame} \ {NoFrame}
  <2>1. p \in Nat /\ 1 <= p /\ HeaderAt(s, p) /\ crc16_verify(s, p)
    BY <1>4, FramingAssumption DEF FrameStarts
  <2>2. s[p].frame # NoFrame
    BY <2>1 DEF crc16_verify
  <2>3. ASSUME p + FrameLen - 1 <= Len(buf)
        PROVE  p \in FrameStarts(buf)
    <3>1. \A i \in 1..FrameLen : p + i - 1 \in 1..Len(buf)
      BY <1>1, <2>1, <2>3, FramingAssumption
    <3>2. \A i \in 1..FrameLen : s[p + i - 1] = buf[p + i - 1]
      BY <1>2, <3>1
    <3>3. p \in 1..Len(buf) /\ p + 1 \in 1..Len(buf)
      BY <1>1, <2>1, <2>3, FramingAssumption
    <3>4. s[p] = buf[p] /\ s[p + 1] = buf[p + 1]
      BY <1>2, <3>3
    <3>5. HeaderAt(buf, p) /\ crc16_verify(buf, p)
      BY <2>1, <3>2, <3>4 DEF HeaderAt, crc16_verify
    <3>6. p \in 1..(Len(buf) - FrameLen + 1)
      BY <1>1, <2>1, <2>3, FramingAssumption
    <3>. QED
      BY <3>5, <3>6 DEF FrameStarts
  <2>4. CASE FrameStarts(buf) = {}
    <3>1. p + FrameLen - 1 > Len(buf)
      BY <1>1, <2>1, <2>3, <2>4, FramingAssumption
    <3>2. d = IF Len(buf) < FrameLen THEN 0 ELSE Len(buf) - FrameLen + 1
      BY <2>4 DEF d, Dropped
    <3>. QED
      BY <1>1, <1>6, <2>1, <3>1, <3>2, FramingAssumption
  <2>5. CASE FrameStarts(buf) # {}
    <3>. DEFINE m == Min(FrameStarts(buf))
    <3>1. m \in FrameStarts(buf) /\ (\A y \in FrameStarts(buf) : m <= y)
      BY <2>5, FrameStartsInside, MinIsLeast
    <3>2. m \in Nat /\ 1 <= m /\ m + FrameLen - 1 <= Len(buf) /\ crc16_verify(buf, m)
      BY <3>1, FrameStartsInside DEF FrameStarts
    <3>3. d = m + FrameLen - 1
      BY <2>5 DEF d, Dropped
    <3>4. parseUplink(buf).frame = buf[m].frame
      BY <2>5 DEF parseUplink
    <3>. HIDE DEF m
    <3>5. crc16_verify(s, m) /\ s[m] = buf[m]
      <4>1. \A i \in 1..FrameLen : m + i - 1 \in 1..Len(buf)
        BY <1>1, <3>2, FramingAssumption
      <4>2. \A i \in 1..FrameLen : s[m + i - 1] = buf[m + i - 1]
        BY <1>2, <4>1
      <4>3. m \in 1..Len(buf)
        BY <1>1, <3>2, FramingAssumption
      <4>4. s[m] = buf[m]
        BY <1>2, <4>3
      <4>. QED
        BY <3>2, <4>2, <4>4 DEF crc16_verify
    <3>6. ~(m < p)
      <4>. SUFFICES ASSUME m < p PROVE FALSE
        OBVIOUS
      <4>1. m + FrameLen <= p
        BY <2>1, <3>2, <3>5, FramesDoNotOverlap
      <4>. QED
        BY <1>6, <2>1, <3>2, <3>3, <4>1, FramingAssumption
    <3>7. p = m
      BY <1>1, <2>1, <2>3, <3>1, <3>2, <3>6, FramingAssumption
    <3>. QED
      BY <2>2, <3>4, <3>5, <3>7
  <2>. QED
    BY <2>4, <2>5
<1>7. \A p \in FrameStarts(s) : p > d \/ p <= d
  BY <1>4, FramingAssumption DEF FrameStarts
<1>8. IntactFrames(s) \ IntactFrames(t) \subseteq {parseUplink(buf).frame} \ {NoFrame}
  BY <1>5, <1>6, <1>7 DEF IntactFrames
<1>. QED
  BY <1>8 DEF s, t

-----------------------------------------------------------------------------
(* A frame as the board sends it is a stream of bytes.                     *)
LEMMA UplinkFrameType ==
    ASSUME NEW f \in 1..MaxFrames, NEW lookalike \in BOOLEAN
    PROVE  UplinkFrame(f, lookalike) \in Seq(Byte)
<1>. DEFINE byte(i) == [val   |-> CASE i = 1 -> "sof"
                                    [] i = 2 -> "cmd"
                                    [] i = FrameLen - 1 /\ i > 2 /\ lookalike -> "sof"
                                    [] i = FrameLen /\ lookalike -> "cmd"
                                    [] OTHER -> "other",
                        frame |-> f, pos |-> i]
<1>1. UplinkFrame(f, lookalike) = [i \in 1..FrameLen |-> byte(i)]
  BY DEF UplinkFrame
<1>2. ASSUME NEW i \in 1..FrameLen
      PROVE  byte(i).val \in ByteValue
  <2>1. CASE i = 1
    BY <2>1 DEF ByteValue
  <2>2. CASE i = 2
    BY <2>2 DEF ByteValue
  <2>3. CASE i # 1 /\ i # 2 /\ i = FrameLen - 1 /\ i > 2 /\ lookalike
    BY <2>3 DEF ByteValue
  <2>4. CASE i # 1 /\ i # 2 /\ ~(i = FrameLen - 1 /\ i > 2 /\ lookalike)
    BY <2>4, FramingAssumption DEF ByteValue
  <2>. QED
    BY <2>1, <2>2, <2>3, <2>4
<1>3. ASSUME NEW i \in 1..FrameLen
      PROVE  byte(i) \in Byte
  BY <1>2, FramingAssumption DEF Byte
<1>. HIDE DEF byte
<1>. QED
  BY <1>1, <1>3, IsASeq, FramingAssumption

(* So is a frame that lost or changed one byte.                            *)
LEMMA DamageType ==
    ASSUME NEW bytes \in Seq(Byte), NEW damaged \in Damage(bytes)
    PROVE  damaged \in Seq(Byte)
<1>1. Len(bytes) \in Nat /\ DOMAIN bytes = 1..Len(bytes)
  BY LenProperties
<1>2. ASSUME NEW i \in DOMAIN bytes
      PROVE  Changed(bytes, i) \subseteq Seq(Byte)
  <2>1. ASSUME NEW v \in ByteValue
        PROVE  [bytes EXCEPT ![i] = [val |-> v, frame |-> NoFrame, pos |-> 0]] \in Seq(Byte)
    <3>1. [val |-> v, frame |-> NoFrame, pos |-> 0] \in Byte
      BY FramingAssumption DEF Byte, NoFrame
    <3>. QED
      BY <1>1, <3>1, ExceptSeq
  <2>. QED
    BY <2>1 DEF Changed
<1>3. ASSUME NEW i \in DOMAIN bytes
      PROVE  Lost(bytes, i) \in Seq(Byte)
  <2>1. \A j \in 1..Len(bytes) : bytes[j] \in Byte
    BY <1>1, ElementOfSeq
  <2>2. SubSeq(bytes, 1, i - 1) \in Seq(Byte)
    BY <1>1, <2>1, SubSeqProperties
  <2>3. SubSeq(bytes, i + 1, Len(bytes)) \in Seq(Byte)
    BY <1>1, <2>1, SubSeqProperties
  <2>. QED
    BY <2>2, <2>3, ConcatProperties DEF Lost
<1>. QED
  BY <1>2, <1>3 DEF Damage

(* Reading n waiting bytes splits the input into what goes to the parser   *)
(* and what stays in the kernel.                                           *)
LEMMA ReadSplits ==
    ASSUME NEW w \in Seq(Byte), NEW n \in 0..Len(w)
    PROVE  /\ SubSeq(w, 1, n) \in Seq(Byte)
           /\ SubSeq(w, n + 1, Len(w)) \in Seq(Byte)
           /\ SubSeq(w, 1, n) \o SubSeq(w, n + 1, Len(w)) = w
<1>1. Len(w) \in Nat
  BY LenProperties
<1>2. \A i \in 1..Len(w) : w[i] \in Byte
  BY <1>1, ElementOfSeq
<1>3. SubSeq(w, 1, n) \in Seq(Byte)
  BY <1>1, <1>2, SubSeqProperties
<1>4. SubSeq(w, n + 1, Len(w)) \in Seq(Byte)
  BY SuffixType
<1>5. SubSeq(w, 1, n) \o SubSeq(w, n + 1, Len(w)) = SubSeq(w, 1, Len(w))
  <2>1. /\ 1 \in 1..(Len(w) + 1) /\ n \in (1 - 1)..Len(w)
        /\ Len(w) \in n..Len(w)
    BY <1>1
  <2>. QED
    BY <2>1, ConcatAdjacentSubSeq
<1>6. SubSeq(w, 1, Len(w)) = w
  BY SubSeqFull
<1>. QED
  BY <1>3, <1>4, <1>5, <1>6

-----------------------------------------------------------------------------
(* The mapping takes the velocities that are published to those that are   *)
(* sent, and the stop is one of them.                                      *)
LEMMA Mapped ==
    /\ ZeroTwist \in Twists
    /\ \A t \in Twists : ToChassis(t) \in ChassisTwists /\ t.wz \in Int
BY BridgeAssumption DEF ChassisTwists, Twist

(* The numbers the model is bounded by.                                    *)
LEMMA Bounds ==
    /\ CmdTimeout \in Nat /\ MaxFrames \in Nat /\ MaxDamage \in Nat
    /\ MaxCmds \in Nat /\ MaxStepsBack \in Nat /\ MaxRestarts \in Nat
BY FramingAssumption, BridgeAssumption

(* A bounded event leaves the budget a budget.                             *)
Budget == [frames : 0..MaxFrames, cmds : 0..MaxCmds, back : 0..MaxStepsBack,
           restarts : 0..MaxRestarts, damage : 0..MaxDamage]

LEMMA Spending ==
    ASSUME budget \in Budget,
           NEW what \in {"frames", "cmds", "back", "restarts", "damage"}, Spend(what)
    PROVE  budget' \in Budget
BY FramingAssumption, BridgeAssumption DEF Spend, Budget

(* The next frame of the board has a number of its own.                    *)
LEMMA NextFrameNumber ==
    ASSUME budget \in Budget, budget.frames > 0
    PROVE  MaxFrames - budget.frames + 1 \in 1..MaxFrames
BY FramingAssumption DEF Budget

(* What goes out and stays in cmd_ is a published velocity.                *)
LEMMA WatchedCmdType ==
    ASSUME cmd \in Twists
    PROVE  WatchedCmd \in Twists
BY Mapped DEF WatchedCmd

(* One read keeps the types of what it touches.                            *)
LEMMA ReadSerialType ==
    ASSUME TypeOK, ReadSerial
    PROVE  TypeOK'
<1>1. PICK n \in 0..(IF Len(wire) < ReadMax THEN Len(wire) ELSE ReadMax) : readSerial(n)
  BY DEF ReadSerial
<1>2. Len(wire) \in Nat /\ n \in 0..Len(wire)
  BY LenProperties, FramingAssumption DEF TypeOK
<1>. DEFINE buf == rx_buf \o SubSeq(wire, 1, n)
            r == parseUplink(buf)
<1>3. SubSeq(wire, 1, n) \in Seq(Byte) /\ SubSeq(wire, n + 1, Len(wire)) \in Seq(Byte)
  BY <1>2, ReadSplits DEF TypeOK
<1>4. buf \in Seq(Byte)
  BY <1>3, ConcatProperties DEF TypeOK
<1>5. r.frame \in 0..MaxFrames /\ r.rest \in Seq(Byte)
  BY <1>4, parseUplinkType
<1>. HIDE DEF r, buf
<1>6. cmd.wz \in Int
  BY Mapped DEF TypeOK
<1>7. CASE n = 0
  BY <1>1, <1>7 DEF readSerial, TypeOK, io
<1>8. CASE n # 0
  <2>1. /\ wire' = SubSeq(wire, n + 1, Len(wire))
        /\ rx_buf' = r.rest
        /\ hw' = IF r.frame = NoFrame THEN hw ELSE r.frame
        /\ odom' = IF r.frame = NoFrame THEN odom
                     ELSE [frame |-> r.frame, wz |-> cmd.wz, count |-> odom.count + 1]
    BY <1>1, <1>8 DEF readSerial, r, buf
  <2>2. /\ pc' = "write"
        /\ UNCHANGED <<port, cmd, age, sent, board, stopped, budget>>
    BY <1>1 DEF readSerial
  <2>3. odom' \in [frame : 0..MaxFrames, wz : Int, count : Nat]
    BY <1>5, <1>6, <2>1 DEF TypeOK
  <2>. QED
    BY <1>3, <1>5, <2>1, <2>2, <2>3 DEF TypeOK
<1>. QED
  BY <1>7, <1>8

(* What the board sends is received as bytes, damaged or not.              *)
LEMMA BoardSendType ==
    ASSUME TypeOK, BoardSend \/ BoardSendDamaged
    PROVE  TypeOK'
<1>1. budget \in Budget /\ wire \in Seq(Byte)
  BY DEF TypeOK, Budget
<1>2. CASE BoardSend
  <2>1. budget.frames > 0 /\ budget' \in Budget
    BY <1>1, <1>2, Spending DEF BoardSend, Spend
  <2>2. wire' \in Seq(Byte)
    BY <1>1, <1>2, <2>1, NextFrameNumber, UplinkFrameType, ConcatProperties DEF BoardSend
  <2>. QED
    BY <1>2, <2>1, <2>2 DEF BoardSend, TypeOK, Budget
<1>3. CASE BoardSendDamaged
  <2>1. budget.frames > 0 /\ budget' \in Budget
    <3>1. /\ budget.frames > 0
          /\ budget.frames - 1 \in 0..MaxFrames /\ budget.damage - 1 \in 0..MaxDamage
      BY <1>1, <1>3, Bounds, SMTT(40) DEF BoardSendDamaged, Budget
    <3>2. budget' = [budget EXCEPT !.damage = budget.damage - 1,
                                   !.frames = budget.frames - 1]
      BY <1>3 DEF BoardSendDamaged
    <3>. QED
      BY <1>1, <3>1, <3>2 DEF Budget
  <2>2. PICK lookalike \in BOOLEAN :
        \E bytes \in Damage(UplinkFrame(MaxFrames - budget.frames + 1, lookalike)) :
           wire' = wire \o bytes
    BY <1>3 DEF BoardSendDamaged
  <2>3. UplinkFrame(MaxFrames - budget.frames + 1, lookalike) \in Seq(Byte)
    BY <1>1, <2>1, NextFrameNumber, UplinkFrameType
  <2>4. wire' \in Seq(Byte)
    BY <1>1, <2>2, <2>3, DamageType, ConcatProperties
  <2>. QED
    BY <1>3, <2>1, <2>4 DEF BoardSendDamaged, TypeOK, Budget
<1>. QED
  BY <1>2, <1>3

-----------------------------------------------------------------------------
(* Every variable of the bridge keeps its type.                            *)
THEOREM TypeCorrect == Spec => []TypeOK
<1>1. Init => TypeOK
  <2>. SUFFICES ASSUME Init PROVE TypeOK
    OBVIOUS
  <2>1. budget \in Budget
    BY FramingAssumption, BridgeAssumption DEF Init, Budget
  <2>2. age \in 0..(CmdTimeout + 1) /\ hw \in 0..MaxFrames
    BY FramingAssumption, BridgeAssumption DEF Init, NoFrame
  <2>3. odom \in [frame : 0..MaxFrames, wz : Int, count : Nat]
    BY FramingAssumption DEF Init, NoFrame
  <2>4. rx_buf \in Seq(Byte) /\ wire \in Seq(Byte)
    BY EmptySeq DEF Init
  <2>. QED
    BY <2>1, <2>2, <2>3, <2>4, Mapped DEF Init, TypeOK, Budget
<1>2. TypeOK /\ [Next]_vars => TypeOK'
  <2>. SUFFICES ASSUME TypeOK, [Next]_vars PROVE TypeOK'
    OBVIOUS
  <2>0. budget \in Budget
    BY DEF TypeOK, Budget
  <2>1. ASSUME NEW t \in Twists, OnCmdVel(t)
        PROVE  TypeOK'
    <3>1. budget' \in Budget
      BY <2>0, <2>1, Spending DEF OnCmdVel
    <3>2. /\ age' = 0 /\ cmd' \in Twists /\ stopped' = FALSE
          /\ UNCHANGED <<port, pc, rx_buf, hw, odom, wire, sent, board>>
      BY <2>1, Zenon DEF OnCmdVel, io
    <3>3. 0 \in 0..(CmdTimeout + 1)
      BY Bounds
    <3>. QED
      BY <3>1, <3>2, <3>3 DEF TypeOK, Budget
  <2>2. CASE ReadSerial
    BY <2>2, ReadSerialType
  <2>3. ASSUME NEW delivered \in BOOLEAN, writeCommand(delivered)
        PROVE  TypeOK'
    <3>1. WatchedCmd \in Twists /\ ToChassis(WatchedCmd) \in ChassisTwists
      BY WatchedCmdType, Mapped DEF TypeOK
    <3>2. (stopped \/ Expired) \in BOOLEAN
      BY DEF TypeOK, Expired
    <3>. QED
      BY <2>3, <3>1, <3>2, Zenon DEF writeCommand, TypeOK, io
  <2>4. CASE ClockTick
    <3>1. age' \in 0..(CmdTimeout + 1)
      BY <2>4, Bounds DEF ClockTick, TypeOK
    <3>. QED
      BY <2>4, <3>1 DEF ClockTick, TypeOK, io
  <2>5. CASE ClockStepBack
    <3>1. budget' \in Budget
      BY <2>0, <2>5, Spending DEF ClockStepBack
    <3>2. age' \in 0..(CmdTimeout + 1)
      BY <2>5, Bounds DEF ClockStepBack, TypeOK
    <3>. QED
      BY <2>5, <3>1, <3>2 DEF ClockStepBack, TypeOK, io, Budget
  <2>6. CASE BoardSend \/ BoardSendDamaged
    BY <2>6, BoardSendType
  <2>7. CASE Unplug
    BY <2>7 DEF Unplug, TypeOK, io
  <2>8. CASE Restart
    <3>1. budget' \in Budget
      BY <2>0, <2>8, Spending DEF Restart
    <3>2. /\ odom' \in [frame : 0..MaxFrames, wz : Int, count : Nat] /\ hw' \in 0..MaxFrames
          /\ age' \in 0..(CmdTimeout + 1)
      BY <2>8, FramingAssumption, BridgeAssumption DEF Restart, Start, NoFrame
    <3>3. rx_buf' \in Seq(Byte) /\ wire' \in Seq(Byte)
      BY <2>8, EmptySeq DEF Restart, Start
    <3>. QED
      BY <2>8, <3>1, <3>2, <3>3, Mapped DEF Restart, Start, TypeOK, Budget
  <2>9. CASE UNCHANGED vars
    BY <2>9 DEF vars, io, TypeOK
  <2>. QED
    BY <2>1, <2>2, <2>3, <2>4, <2>5, <2>6, <2>7, <2>8, <2>9 DEF Next
<1>. QED
  BY <1>1, <1>2, PTL DEF Spec

-----------------------------------------------------------------------------
(* What the watchdog leaves behind: not only the frame sent last is a      *)
(* stop, so is the command the next frame will be made from.               *)
Latched == stopped => cmd = ZeroTwist /\ sent = ToChassis(ZeroTwist)

(* Once the command timeout has fired, only stops are sent until the next  *)
(* /cmd_vel, whatever the clock does.  sent alone is not inductive: had    *)
(* the abandoned command survived in cmd_vx_.., a clock stepped back would *)
(* make it count as fresh again.                                           *)
THEOREM WatchdogIsLatched == Spec => []WatchdogLatched
<1>1. Init => Latched
  BY DEF Init, Latched
<1>2. Latched /\ [Next]_vars => Latched'
  <2>. SUFFICES ASSUME Latched, [Next]_vars PROVE Latched'
    OBVIOUS
  <2>1. ASSUME NEW t \in Twists, OnCmdVel(t)
        PROVE  Latched'
    BY <2>1 DEF OnCmdVel, Latched
  <2>2. CASE ReadSerial
    BY <2>2 DEF ReadSerial, readSerial, Latched
  <2>3. ASSUME NEW delivered \in BOOLEAN, writeCommand(delivered)
        PROVE  Latched'
    <3>1. CASE Expired
      BY <2>3, <3>1 DEF writeCommand, WatchedCmd, Latched
    <3>2. CASE ~Expired
      <4>1. WatchedCmd = cmd
        BY <3>2 DEF WatchedCmd
      <4>2. stopped' <=> stopped
        BY <2>3, <3>2 DEF writeCommand
      <4>. QED
        BY <2>3, <4>1, <4>2 DEF writeCommand, Latched
    <3>. QED
      BY <3>1, <3>2
  <2>4. CASE ClockTick \/ ClockStepBack
    BY <2>4 DEF ClockTick, ClockStepBack, Latched
  <2>5. CASE BoardSend \/ BoardSendDamaged
    BY <2>5 DEF BoardSend, BoardSendDamaged, Latched
  <2>6. CASE Unplug
    BY <2>6 DEF Unplug, Latched
  <2>7. CASE Restart
    BY <2>7 DEF Restart, Latched
  <2>8. CASE UNCHANGED vars
    BY <2>8 DEF vars, Latched
  <2>. QED
    BY <2>1, <2>2, <2>3, <2>4, <2>5, <2>6, <2>7, <2>8 DEF Next
<1>3. Latched => WatchdogLatched
  BY DEF Latched, WatchdogLatched
<1>. QED
  BY <1>1, <1>2, <1>3, PTL DEF Spec

-----------------------------------------------------------------------------
(* No read costs an intact frame, for every frame length, read size and    *)
(* sequence of damages: what ParsingLosesNoFrame says of one call, said of *)
(* the node with the bytes the kernel still holds.                         *)
THEOREM NoFrameLost == Spec => ReadLosesNoFrame
<1>. DEFINE Kept == IntactFrames(rx_buf \o wire) \ IntactFrames(rx_buf' \o wire')
                      \subseteq {odom'.frame}
<1>1. TypeOK /\ [Next]_vars => [ReadSerial => Kept]_vars
  <2>. SUFFICES ASSUME TypeOK, ReadSerial PROVE Kept
    BY DEF Kept
  <2>1. PICK n \in 0..(IF Len(wire) < ReadMax THEN Len(wire) ELSE ReadMax) : readSerial(n)
    BY DEF ReadSerial
  <2>2. Len(wire) \in Nat /\ n \in 0..Len(wire) /\ rx_buf \in Seq(Byte) /\ wire \in Seq(Byte)
    BY LenProperties, FramingAssumption DEF TypeOK
  <2>3. CASE n = 0
    BY <2>1, <2>3 DEF readSerial, io, Kept
  <2>4. CASE n # 0
    <3>. DEFINE first == SubSeq(wire, 1, n)
                tail == SubSeq(wire, n + 1, Len(wire))
                r == parseUplink(rx_buf \o first)
    <3>1. first \in Seq(Byte) /\ tail \in Seq(Byte) /\ first \o tail = wire
      BY <2>2, ReadSplits
    <3>2. /\ wire' = tail /\ rx_buf' = r.rest
          /\ r.frame # NoFrame => odom'.frame = r.frame
      BY <2>1, <2>4 DEF readSerial
    <3>. HIDE DEF first, tail
    <3>3. rx_buf \o first \in Seq(Byte)
      BY <2>2, <3>1, ConcatProperties
    <3>4. (rx_buf \o first) \o tail = rx_buf \o wire
      <4>1. (rx_buf \o first) \o tail = rx_buf \o (first \o tail)
        <5>1. \A a, b, c \in Seq(Byte) : (a \o b) \o c = a \o (b \o c)
          BY ConcatAssociative, SMTT(40)
        <5>2. rx_buf \in Seq(Byte) /\ first \in Seq(Byte) /\ tail \in Seq(Byte)
          BY <2>2, <3>1
        <5>. QED
          BY <5>1, <5>2
      <4>. QED
        BY <3>1, <4>1, Zenon
    <3>5. IntactFrames((rx_buf \o first) \o tail) \ IntactFrames(r.rest \o tail)
             \subseteq {r.frame} \ {NoFrame}
      BY <3>1, <3>3, ParsingLosesNoFrame
    <3>. QED
      BY <3>2, <3>4, <3>5 DEF Kept
  <2>. QED
    BY <2>3, <2>4
<1>2. Spec => []TypeOK
  BY TypeCorrect
<1>. QED
  BY <1>1, <1>2, PTL DEF Spec, ReadLosesNoFrame

-----------------------------------------------------------------------------
(* Frames in a stream: each byte that was not damaged says which frame and *)
(* which position it is.                                                   *)
Precedes(a, b) == a.frame < b.frame \/ (a.frame = b.frame /\ a.pos < b.pos)

InOrder(s) ==
    \A i, j \in 1..Len(s) :
        i < j /\ s[i].frame # NoFrame /\ s[j].frame # NoFrame => Precedes(s[i], s[j])

After(s, f) == \A i \in 1..Len(s) : s[i].frame # NoFrame => s[i].frame > f

UpTo(s, f) == \A i \in 1..Len(s) : s[i].frame <= f

(* Frames the board has sent so far, and bytes on their way to the parser  *)
Sent == MaxFrames - budget.frames
Stream == rx_buf \o wire

(* What is still to be parsed is in the order it was sent and newer than   *)
(* what was published last.                                                *)
StreamOrdered ==
    /\ InOrder(Stream) /\ After(Stream, odom.frame) /\ UpTo(Stream, Sent)
    /\ odom.frame <= Sent

LEMMA StreamType ==
    ASSUME TypeOK
    PROVE  Stream \in Seq(Byte) /\ Len(Stream) \in Nat
           /\ \A i \in 1..Len(Stream) : Stream[i] \in Byte
BY ConcatProperties, LenProperties, ElementOfSeq DEF TypeOK, Stream

(* Dropping the first bytes of a stream changes nothing of this.           *)
LEMMA SuffixOrdered ==
    ASSUME NEW s, NEW t, NEW d \in Nat, NEW f, NEW g,
           Len(s) \in Nat, Len(t) = Len(s) - d,
           \A j \in 1..Len(t) : t[j] = s[j + d],
           InOrder(s), After(s, f), UpTo(s, g)
    PROVE  InOrder(t) /\ After(t, f) /\ UpTo(t, g)
<1>1. \A j \in 1..Len(t) : j + d \in 1..Len(s)
  OBVIOUS
<1>2. ASSUME NEW i \in 1..Len(t), NEW j \in 1..Len(t), i < j,
             t[i].frame # NoFrame, t[j].frame # NoFrame
      PROVE  Precedes(t[i], t[j])
  <2>1. i + d \in 1..Len(s) /\ j + d \in 1..Len(s) /\ i + d < j + d
    BY <1>1, <1>2
  <2>2. t[i] = s[i + d] /\ t[j] = s[j + d]
    OBVIOUS
  <2>. QED
    BY <1>2, <2>1, <2>2 DEF InOrder
<1>. QED
  BY <1>1, <1>2 DEF InOrder, After, UpTo

(* A frame the board adds is newer than everything before it.              *)
LEMMA AppendOrdered ==
    ASSUME NEW s \in Seq(Byte), NEW b \in Seq(Byte), NEW F \in Nat, NEW f,
           InOrder(s), After(s, f), UpTo(s, F - 1),
           InOrder(b), \A i \in 1..Len(b) : b[i].frame \in {NoFrame, F},
           f <= F - 1, f \in Nat
    PROVE  InOrder(s \o b) /\ After(s \o b, f) /\ UpTo(s \o b, F)
<1>. DEFINE t == s \o b
<1>1. Len(s) \in Nat /\ Len(b) \in Nat
  BY LenProperties
<1>2. /\ Len(t) = Len(s) + Len(b)
      /\ \A i \in 1..Len(s) : t[i] = s[i]
      /\ \A i \in (Len(s) + 1)..(Len(s) + Len(b)) : t[i] = b[i - Len(s)]
  BY <1>1, ConcatProperties
<1>3. \A i \in 1..Len(s) : s[i] \in Byte
  BY <1>1, ElementOfSeq
<1>. HIDE DEF t
<1>4. ASSUME NEW i \in 1..Len(t), i > Len(s)
      PROVE  i - Len(s) \in 1..Len(b) /\ t[i] = b[i - Len(s)]
  BY <1>1, <1>2, <1>4
<1>5. ASSUME NEW i \in 1..Len(t), NEW j \in 1..Len(t), i < j,
             t[i].frame # NoFrame, t[j].frame # NoFrame
      PROVE  Precedes(t[i], t[j])
  <2>1. CASE j <= Len(s)
    <3>1. i \in 1..Len(s) /\ j \in 1..Len(s)
      BY <1>1, <1>5, <2>1
    <3>. QED
      BY <1>2, <1>5, <3>1 DEF InOrder
  <2>2. CASE i <= Len(s) /\ j > Len(s)
    <3>1. i \in 1..Len(s)
      BY <1>1, <2>2
    <3>2. t[i].frame <= F - 1 /\ t[i].frame \in Int
      <4>1. t[i] = s[i] /\ s[i] \in Byte /\ s[i].frame <= F - 1
        BY <1>2, <1>3, <3>1 DEF UpTo
      <4>. QED
        BY <4>1, FramingAssumption DEF Byte
    <3>3. t[j].frame = F
      BY <1>4, <1>5, <2>2
    <3>. QED
      BY <3>2, <3>3 DEF Precedes
  <2>3. CASE i > Len(s)
    <3>1. j > Len(s)
      BY <1>1, <1>5, <2>3
    <3>2. /\ i - Len(s) \in 1..Len(b) /\ t[i] = b[i - Len(s)]
          /\ j - Len(s) \in 1..Len(b) /\ t[j] = b[j - Len(s)]
      BY <1>4, <2>3, <3>1
    <3>3. i - Len(s) < j - Len(s)
      BY <1>1, <1>5
    <3>. QED
      BY <1>5, <3>2, <3>3 DEF InOrder
  <2>. QED
    BY <1>1, <2>1, <2>2, <2>3
<1>6. ASSUME NEW i \in 1..Len(t)
      PROVE  (t[i].frame # NoFrame => t[i].frame > f) /\ t[i].frame <= F
  <2>1. CASE i <= Len(s)
    <3>1. i \in 1..Len(s) /\ s[i].frame \in Int /\ t[i] = s[i]
      BY <1>1, <1>2, <1>3, <2>1, FramingAssumption, SMTT(40) DEF Byte
    <3>. QED
      BY <3>1 DEF After, UpTo
  <2>2. CASE i > Len(s)
    BY <1>4, <2>2, SMTT(40) DEF NoFrame
  <2>. QED
    BY <1>1, <2>1, <2>2
<1>. QED
  BY <1>5, <1>6 DEF InOrder, After, UpTo, t

(* A frame is in order as it is sent, and what the link may do to it does  *)
(* not change that.                                                        *)
LEMMA FrameOrdered ==
    ASSUME NEW F \in 1..MaxFrames, NEW lookalike \in BOOLEAN
    PROVE  /\ InOrder(UplinkFrame(F, lookalike))
           /\ \A i \in 1..Len(UplinkFrame(F, lookalike)) :
                 UplinkFrame(F, lookalike)[i].frame \in {NoFrame, F}
<1>. DEFINE b == UplinkFrame(F, lookalike)
<1>1. \A i \in 1..FrameLen : b[i].frame = F /\ b[i].pos = i
  BY DEF UplinkFrame
<1>2. Len(b) = FrameLen
  <2>1. DOMAIN b = 1..FrameLen
    BY DEF UplinkFrame
  <2>. QED
    BY <2>1, UplinkFrameType, LenProperties, FramingAssumption
<1>. HIDE DEF b
<1>3. InOrder(b)
  BY <1>1, <1>2, FramingAssumption DEF InOrder, Precedes
<1>. QED
  BY <1>1, <1>2, <1>3 DEF b

LEMMA DamageOrdered ==
    ASSUME NEW b \in Seq(Byte), NEW F, NEW c \in Damage(b),
           InOrder(b), \A i \in 1..Len(b) : b[i].frame \in {NoFrame, F}
    PROVE  InOrder(c) /\ \A i \in 1..Len(c) : c[i].frame \in {NoFrame, F}
<1>1. Len(b) \in Nat /\ DOMAIN b = 1..Len(b) /\ \A i \in 1..Len(b) : b[i] \in Byte
  BY LenProperties, ElementOfSeq
<1>2. CASE c = b
  BY <1>2
<1>3. ASSUME NEW k \in 1..Len(b), c \in Changed(b, k)
      PROVE  InOrder(c) /\ \A i \in 1..Len(c) : c[i].frame \in {NoFrame, F}
  <2>1. PICK v \in ByteValue : c = [b EXCEPT ![k] = [val |-> v, frame |-> NoFrame, pos |-> 0]]
    BY <1>3 DEF Changed
  <2>2. Len(c) = Len(b)
    <3>1. [val |-> v, frame |-> NoFrame, pos |-> 0] \in Byte
      BY FramingAssumption DEF Byte, NoFrame
    <3>. QED
      BY <1>1, <2>1, <3>1, ExceptSeq
  <2>3. \A i \in 1..Len(b) : c[i] = IF i = k THEN [val |-> v, frame |-> NoFrame, pos |-> 0] ELSE b[i]
    BY <1>1, <2>1
  <2>4. c[k].frame = NoFrame /\ \A i \in 1..Len(b) : i # k => c[i] = b[i]
    BY <2>3
  <2>. QED
    BY <2>2, <2>4 DEF InOrder
<1>4. ASSUME NEW k \in 1..Len(b), c = Lost(b, k)
      PROVE  InOrder(c) /\ \A i \in 1..Len(c) : c[i].frame \in {NoFrame, F}
  <2>1. /\ SubSeq(b, 1, k - 1) \in Seq(Byte) /\ Len(SubSeq(b, 1, k - 1)) = k - 1
        /\ \A i \in 1..(k - 1) : SubSeq(b, 1, k - 1)[i] = b[i]
    BY <1>1, SubSeqProperties
  <2>2. /\ SubSeq(b, k + 1, Len(b)) \in Seq(Byte) /\ Len(SubSeq(b, k + 1, Len(b))) = Len(b) - k
        /\ \A i \in 1..(Len(b) - k) : SubSeq(b, k + 1, Len(b))[i] = b[i + k]
    <3>1. k \in 0..Len(b)
      BY <1>1
    <3>. QED
      BY <3>1, SuffixType
  <2>3. /\ Len(c) = Len(b) - 1
        /\ \A i \in 1..(k - 1) : c[i] = b[i]
        /\ \A i \in k..(Len(b) - 1) : c[i] = b[i + 1]
    <3>1. /\ Len(c) = (k - 1) + (Len(b) - k)
          /\ \A i \in 1..(k - 1) : c[i] = SubSeq(b, 1, k - 1)[i]
          /\ \A i \in ((k - 1) + 1)..((k - 1) + (Len(b) - k)) :
                c[i] = SubSeq(b, k + 1, Len(b))[i - (k - 1)]
      <4>. DEFINE first == SubSeq(b, 1, k - 1)
                  last == SubSeq(b, k + 1, Len(b))
      <4>1. /\ c = first \o last /\ Len(first) = k - 1 /\ Len(last) = Len(b) - k
            /\ first \in Seq(Byte) /\ last \in Seq(Byte)
        BY <1>4, <2>1, <2>2 DEF Lost
      <4>. HIDE DEF first, last
      <4>2. /\ Len(first \o last) = Len(first) + Len(last)
            /\ \A i \in 1..Len(first) : (first \o last)[i] = first[i]
            /\ \A i \in (Len(first) + 1)..(Len(first) + Len(last)) :
                  (first \o last)[i] = last[i - Len(first)]
        <5>1. Len(first) \in Nat /\ Len(last) \in Nat
          BY <4>1, LenProperties
        <5>2. /\ Len(first \o last) = Len(first) + Len(last)
              /\ \A i \in 1..(Len(first) + Len(last)) : (first \o last)[i] =
                    IF i <= Len(first) THEN first[i] ELSE last[i - Len(first)]
          BY <4>1, ConcatProperties
        <5>. QED
          BY <5>1, <5>2
      <4>3. /\ Len(c) = (k - 1) + (Len(b) - k)
            /\ \A i \in 1..(k - 1) : c[i] = first[i]
            /\ \A i \in ((k - 1) + 1)..((k - 1) + (Len(b) - k)) : c[i] = last[i - (k - 1)]
        BY <4>1, <4>2
      <4>. QED
        BY <4>3 DEF first, last
    <3>2. ASSUME NEW i \in k..(Len(b) - 1) PROVE c[i] = b[i + 1]
      <4>1. /\ i \in ((k - 1) + 1)..((k - 1) + (Len(b) - k))
            /\ i - (k - 1) \in 1..(Len(b) - k) /\ (i - (k - 1)) + k = i + 1
        BY <1>1
      <4>. QED
        BY <2>2, <3>1, <4>1
    <3>. QED
      BY <1>1, <2>1, <3>1, <3>2
  <2>. DEFINE from(i) == IF i < k THEN i ELSE i + 1
  <2>4. /\ \A i \in 1..Len(c) : from(i) \in 1..Len(b) /\ c[i] = b[from(i)]
        /\ \A i, j \in 1..Len(c) : i < j => from(i) < from(j)
    BY <1>1, <2>3
  <2>. HIDE DEF from
  <2>. QED
    BY <2>4 DEF InOrder
<1>. QED
  BY <1>1, <1>2, <1>3, <1>4 DEF Damage

-----------------------------------------------------------------------------
(* A read publishes a frame newer than the last one, and leaves only newer *)
(* bytes.                                                                  *)
LEMMA ReadInOrder ==
    ASSUME TypeOK, StreamOrdered, ReadSerial
    PROVE  /\ StreamOrdered'
           /\ odom'.count # odom.count => odom'.frame > odom.frame
<1>1. PICK n \in 0..(IF Len(wire) < ReadMax THEN Len(wire) ELSE ReadMax) : readSerial(n)
  BY DEF ReadSerial
<1>2. Len(wire) \in Nat /\ n \in 0..Len(wire) /\ rx_buf \in Seq(Byte) /\ wire \in Seq(Byte)
  BY LenProperties, FramingAssumption DEF TypeOK
<1>3. odom.frame \in Nat /\ Sent' = Sent
  BY <1>1 DEF TypeOK, Sent, readSerial
<1>4. CASE n = 0
  <2>1. Stream' = Stream /\ odom' = odom
    BY <1>1, <1>4 DEF readSerial, io, Stream
  <2>. QED
    BY <1>3, <2>1 DEF StreamOrdered, InOrder, After, UpTo
<1>5. CASE n # 0
  <2>. DEFINE first == SubSeq(wire, 1, n)
              tail == SubSeq(wire, n + 1, Len(wire))
              buf == rx_buf \o first
              s == buf \o tail
              d == Dropped(buf)
  <2>1. first \in Seq(Byte) /\ tail \in Seq(Byte) /\ first \o tail = wire
    BY <1>2, ReadSplits
  <2>2. /\ wire' = tail /\ rx_buf' = parseUplink(buf).rest
        /\ parseUplink(buf).frame = NoFrame => odom' = odom
        /\ parseUplink(buf).frame # NoFrame => odom'.frame = parseUplink(buf).frame
    BY <1>1, <1>5 DEF readSerial
  <2>3. Stream' = parseUplink(buf).rest \o tail
    BY <2>2 DEF Stream
  <2>. HIDE DEF first, tail
  <2>4. buf \in Seq(Byte)
    BY <1>2, <2>1, ConcatProperties
  <2>5. s = Stream
    <3>1. \A x, y, z \in Seq(Byte) : (x \o y) \o z = x \o (y \o z)
      BY ConcatAssociative
    <3>2. (rx_buf \o first) \o tail = rx_buf \o (first \o tail)
      BY <1>2, <2>1, <3>1, ZenonT(40)
    <3>. QED
      BY <2>1, <3>2, Zenon DEF Stream
  <2>. HIDE DEF buf
  <2>6. /\ Len(s) \in Nat /\ Len(Stream') = Len(s) - d
        /\ \A j \in 1..Len(Stream') : Stream'[j] = s[j + d]
    BY <2>1, <2>3, <2>4, StreamLeft
  <2>7. d \in 0..Len(buf) /\ Len(buf) \in Nat /\ d \in Nat
    <3>1. d \in 0..Len(buf) /\ Len(buf) \in Nat
      BY <2>4, DroppedRange, LenProperties
    <3>. QED
      BY <3>1
  <2>. HIDE DEF d
  <2>8. InOrder(s) /\ After(s, odom.frame) /\ UpTo(s, Sent)
    BY <2>5 DEF StreamOrdered
  <2>9. InOrder(Stream') /\ After(Stream', odom.frame) /\ UpTo(Stream', Sent)
    BY <2>6, <2>7, <2>8, SuffixOrdered
  <2>10. CASE FrameStarts(buf) = {}
    <3>1. odom' = odom
      BY <2>2, <2>10 DEF parseUplink
    <3>. QED
      BY <1>3, <2>9, <3>1 DEF StreamOrdered, InOrder, After, UpTo
  <2>11. CASE FrameStarts(buf) # {}
    <3>. DEFINE m == Min(FrameStarts(buf))
                f == buf[m].frame
                e == m + FrameLen - 1
    <3>1. m \in FrameStarts(buf) /\ m \in Nat /\ 1 <= m /\ e <= Len(buf)
      <4>1. FrameStarts(buf) \subseteq Nat
        BY <2>4, FrameStartsInside
      <4>2. m \in FrameStarts(buf)
        BY <2>11, <4>1, MinIsLeast
      <4>. HIDE DEF m
      <4>. QED
        BY <2>4, <4>1, <4>2, FrameStartsInside
    <3>2. crc16_verify(buf, m) /\ f # NoFrame
      BY <3>1 DEF FrameStarts, crc16_verify
    <3>3. d = e
      BY <2>11 DEF d, Dropped
    <3>4. odom'.frame = f
      BY <2>2, <2>11, <3>2 DEF parseUplink
    <3>. HIDE DEF m
    <3>5. FrameLen \in 1..FrameLen /\ m \in 1..Len(buf) /\ e \in 1..Len(buf)
      BY <2>7, <3>1, FramingAssumption
    <3>6. buf[e].frame = f /\ buf[e].pos = FrameLen
      BY <3>2, <3>5 DEF crc16_verify
    <3>. HIDE DEF e
    <3>7. /\ s[m] = buf[m] /\ s[e] = buf[e] /\ Len(buf) <= Len(s)
      <4>1. \A i \in 1..Len(buf) : s[i] = buf[i]
        BY <2>1, <2>4, ConcatProperties
      <4>2. Len(s) = Len(buf) + Len(tail) /\ Len(tail) \in Nat
        BY <2>1, <2>4, ConcatProperties, LenProperties
      <4>. QED
        BY <2>7, <3>5, <4>1, <4>2
    <3>8. m \in 1..Len(s) /\ e \in 1..Len(s)
      BY <2>6, <2>7, <3>5, <3>7
    <3>9. f > odom.frame /\ f <= Sent
      BY <2>8, <3>2, <3>7, <3>8 DEF After, UpTo
    <3>10. After(Stream', f)
      <4>. SUFFICES ASSUME NEW j \in 1..Len(Stream'), Stream'[j].frame # NoFrame
                    PROVE  Stream'[j].frame > f
        BY DEF After
      <4>1. j + d \in 1..Len(s) /\ e < j + d /\ Stream'[j] = s[j + d]
        BY <2>6, <2>7, <3>3, <3>5
      <4>2. Precedes(s[e], s[j + d])
        BY <2>8, <3>2, <3>6, <3>7, <3>8, <4>1 DEF InOrder
      <4>. DEFINE y == Stream'[j]
      <4>3. y.frame \in Int /\ y.pos \in 0..FrameLen /\ Precedes(s[e], y)
        <5>1. y \in Byte
          BY <2>5, <4>1, StreamType
        <5>. QED
          BY <4>1, <4>2, <5>1, FramingAssumption DEF Byte
      <4>4. s[e].frame = f /\ s[e].pos = FrameLen
        BY <3>6, <3>7
      <4>. HIDE DEF y
      <4>5. y.frame > f
        BY <4>3, <4>4, FramingAssumption DEF Precedes
      <4>. QED
        BY <4>5 DEF y
    <3>. QED
      BY <1>3, <2>9, <3>4, <3>9, <3>10 DEF StreamOrdered, InOrder, After, UpTo
  <2>. QED
    BY <2>10, <2>11
<1>. QED
  BY <1>4, <1>5

(* What the board sends joins the end of the stream.                       *)
LEMMA SendInOrder ==
    ASSUME TypeOK, StreamOrdered, BoardSend \/ BoardSendDamaged
    PROVE  StreamOrdered'
<1>. DEFINE F == MaxFrames - budget.frames + 1
<1>1. /\ budget \in Budget /\ budget.frames > 0 /\ budget.frames \in Nat
      /\ rx_buf \in Seq(Byte) /\ wire \in Seq(Byte)
  BY FramingAssumption DEF BoardSend, BoardSendDamaged, Spend, TypeOK, Budget
<1>2. F \in 1..MaxFrames /\ F \in Nat
  BY <1>1, NextFrameNumber
<1>3. budget'.frames = budget.frames - 1
  BY <1>1 DEF BoardSend, BoardSendDamaged, Spend, Budget
<1>4. Sent = F - 1 /\ Sent' = F
  BY <1>1, <1>3, FramingAssumption DEF Sent
<1>5. PICK b \in Seq(Byte) :
         /\ wire' = wire \o b
         /\ InOrder(b) /\ \A i \in 1..Len(b) : b[i].frame \in {NoFrame, F}
  <2>1. CASE BoardSend
    <3>1. PICK lookalike \in BOOLEAN : wire' = wire \o UplinkFrame(F, lookalike)
      BY <2>1 DEF BoardSend
    <3>. HIDE DEF F
    <3>. QED
      BY <1>2, <3>1, UplinkFrameType, FrameOrdered
  <2>2. CASE BoardSendDamaged
    <3>1. PICK lookalike \in BOOLEAN :
              \E c \in Damage(UplinkFrame(F, lookalike)) : wire' = wire \o c
      BY <2>2 DEF BoardSendDamaged
    <3>2. PICK c \in Damage(UplinkFrame(F, lookalike)) : wire' = wire \o c
      BY <3>1
    <3>. HIDE DEF F
    <3>. DEFINE u == UplinkFrame(F, lookalike)
    <3>3. u \in Seq(Byte) /\ InOrder(u) /\ \A i \in 1..Len(u) : u[i].frame \in {NoFrame, F}
      BY <1>2, UplinkFrameType, FrameOrdered
    <3>4. c \in Damage(u)
      OBVIOUS
    <3>. HIDE DEF u
    <3>5. c \in Seq(Byte) /\ InOrder(c) /\ \A i \in 1..Len(c) : c[i].frame \in {NoFrame, F}
      BY <3>3, <3>4, DamageType, DamageOrdered
    <3>. QED
      BY <3>2, <3>5
  <2>. QED
    BY <2>1, <2>2
<1>6. rx_buf' = rx_buf /\ odom' = odom
  BY DEF BoardSend, BoardSendDamaged
<1>. HIDE DEF F
<1>7. Stream' = Stream \o b /\ Stream \in Seq(Byte)
  <2>1. \A x, y, z \in Seq(Byte) : (x \o y) \o z = x \o (y \o z)
    BY ConcatAssociative, SMTT(40)
  <2>2. (rx_buf \o wire) \o b = rx_buf \o (wire \o b)
    BY <1>1, <2>1
  <2>. QED
    BY <1>5, <1>6, <2>2, StreamType DEF Stream
<1>8. odom.frame \in Nat
  BY FramingAssumption DEF TypeOK
<1>9. InOrder(Stream \o b) /\ After(Stream \o b, odom.frame) /\ UpTo(Stream \o b, F)
  BY <1>2, <1>4, <1>5, <1>7, <1>8, AppendOrdered DEF StreamOrdered
<1>10. odom'.frame = odom.frame /\ odom.frame <= Sent'
  BY <1>2, <1>4, <1>6, <1>8 DEF StreamOrdered
<1>. QED
  BY <1>4, <1>7, <1>9, <1>10 DEF StreamOrdered, InOrder, After, UpTo

(* Every odometry message published tells of a frame sent later than the   *)
(* one before, so none is published twice, not even twice in a row: for    *)
(* every frame length, read size, number of frames and damage of the link. *)
(* What is still to be parsed is newer than what was published.            *)
THEOREM PublishedInOrder == Spec => OdomInOrder
<1>1. Init => StreamOrdered
  <2>. SUFFICES ASSUME Init PROVE StreamOrdered
    OBVIOUS
  <2>1. Stream = <<>> /\ Len(Stream) = 0
    BY DEF Init, Stream
  <2>2. odom.frame = 0 /\ Sent = 0
    BY FramingAssumption DEF Init, Sent, NoFrame
  <2>. QED
    BY <2>1, <2>2 DEF StreamOrdered, InOrder, After, UpTo
<1>2. /\ TypeOK /\ StreamOrdered /\ [Next]_vars => StreamOrdered'
      /\ TypeOK /\ StreamOrdered /\ [Next]_vars
           => [odom'.count # odom.count /\ odom'.count # 0 => odom'.frame > odom.frame]_vars
  <2>. SUFFICES ASSUME TypeOK, StreamOrdered, [Next]_vars
                PROVE  /\ StreamOrdered'
                       /\ odom'.count # odom.count /\ odom'.count # 0
                             => odom'.frame > odom.frame
    OBVIOUS
  <2>1. CASE ReadSerial
    BY <2>1, ReadInOrder
  <2>2. CASE BoardSend \/ BoardSendDamaged
    <3>1. odom' = odom
      BY <2>2 DEF BoardSend, BoardSendDamaged
    <3>. QED
      BY <2>2, <3>1, SendInOrder
  <2>3. CASE Restart
    <3>1. odom'.frame = NoFrame /\ odom'.count = 0 /\ Stream' = <<>> /\ Len(Stream') = 0
      BY <2>3 DEF Restart, Start, Stream
    <3>2. Sent' = Sent /\ 0 <= Sent
      BY <2>3, FramingAssumption DEF Restart, Spend, Sent, TypeOK
    <3>. QED
      BY <3>1, <3>2 DEF StreamOrdered, InOrder, After, UpTo, NoFrame
  <2>4. CASE \/ \E t \in Twists : OnCmdVel(t)
             \/ \E delivered \in BOOLEAN : writeCommand(delivered)
             \/ ClockTick \/ ClockStepBack \/ Unplug \/ UNCHANGED vars
    <3>1. rx_buf' = rx_buf /\ wire' = wire /\ odom' = odom /\ budget'.frames = budget.frames
      BY <2>4 DEF OnCmdVel, writeCommand, ClockTick, ClockStepBack, Unplug, Spend, vars, io, TypeOK
    <3>2. Stream' = Stream /\ Sent' = Sent
      BY <3>1 DEF Stream, Sent
    <3>. QED
      BY <3>1, <3>2 DEF StreamOrdered, InOrder, After, UpTo
  <2>. QED
    BY <2>1, <2>2, <2>3, <2>4 DEF Next
<1>. QED
  BY <1>1, <1>2, TypeCorrect, PTL DEF Spec, OdomInOrder
=============================================================================
