------------------------- MODULE LidarPoints_proofs -------------------------
(***************************************************************************)
(* Why every point that a lidar measures is in its place: for any number   *)
(* of lidars and packets, however the clocks and the two ways of cutting   *)
(* frames alternate, no packet is lost, doubled or reordered on its way to *)
(* a frame; and for any lidars, configuration, mounting and packets of     *)
(* points, the messages made of the frames tell where and when each point  *)
(* was measured.                                                           *)
(***************************************************************************)
EXTENDS LidarPoints, NumberFacts, SequenceTheorems, TLAPS

(* From packets to frames                                                  *)

(* The packets of l in a sequence carry the numbers a to b, in order.      *)
Numbered(q, l, a, b) ==
    /\ \A i \in 1..Len(q) : q[i].lidar = l => q[i].num \in a..b
    /\ \A n \in a..b : \E i \in 1..Len(q) : q[i].lidar = l /\ q[i].num = n
    /\ \A i, j \in 1..Len(q) : q[i].lidar = l /\ q[j].lidar = l /\ i < j => q[i].num < q[j].num

Packet == [lidar : Handles, num : Nat, time : Nat]

Pipe == raw_data \o raw

PubTypes == /\ now \in Nat
            /\ raw \in Seq(Packet) /\ raw_data \in Seq(Packet) /\ Len(raw_data) <= 1
            /\ cloud \in [Handles -> Seq(Packet)]
            /\ received \in [Handles -> Nat] /\ out \in [Handles -> Nat]

(* What was published, what has gathered and what is queued follow on each *)
(* other, and end with what arrived last.                                  *)
FollowOn(l, published, gathered, queued, arrived) ==
    /\ published + Len(gathered) <= arrived
    /\ \A i \in 1..Len(gathered) : gathered[i].lidar = l /\ gathered[i].num = published + i
    /\ Numbered(queued, l, published + Len(gathered) + 1, arrived)

InTurn == \A l \in Handles : FollowOn(l, out[l], cloud[l], Pipe, received[l])

PubInv == PubTypes /\ InTurn /\ FrameConsistent

LEMMA NumberedAppend ==
    ASSUME NEW q \in Seq(Packet), NEW l, NEW a \in Nat, NEW b \in Nat, a <= b + 1,
           Numbered(q, l, a, b), NEW p \in Packet
    PROVE  /\ p.lidar = l /\ p.num = b + 1 => Numbered(Append(q, p), l, a, b + 1)
           /\ p.lidar # l => Numbered(Append(q, p), l, a, b)
<1>. DEFINE n == Len(q)
            r == Append(q, p)
<1>1. /\ n \in Nat /\ Len(r) = n + 1 /\ r[n + 1] = p
      /\ \A i \in 1..n : r[i] = q[i]
      /\ \A i \in 1..(n + 1) : i \in 1..n \/ i = n + 1
  BY AppendProperties, LenProperties
<1>2. \A i \in 1..n : q[i].num \in Nat
  <2>1. \A i \in 1..n : q[i] \in Packet
    BY ElementOfSeq
  <2>. QED
    BY <2>1 DEF Packet
<1>. HIDE DEF n, r
<1>3. Numbered(q, l, a, b) <=>
        /\ \A i \in 1..n : q[i].lidar = l => q[i].num \in a..b
        /\ \A m \in a..b : \E i \in 1..n : q[i].lidar = l /\ q[i].num = m
        /\ \A i, j \in 1..n : q[i].lidar = l /\ q[j].lidar = l /\ i < j => q[i].num < q[j].num
  BY DEF Numbered, n
<1>4. \A c : Numbered(r, l, a, c) <=>
        /\ \A i \in 1..(n + 1) : r[i].lidar = l => r[i].num \in a..c
        /\ \A m \in a..c : \E i \in 1..(n + 1) : r[i].lidar = l /\ r[i].num = m
        /\ \A i, j \in 1..(n + 1) :
              r[i].lidar = l /\ r[j].lidar = l /\ i < j => r[i].num < r[j].num
  BY <1>1 DEF Numbered
<1>5. ASSUME p.lidar = l, p.num = b + 1 PROVE Numbered(r, l, a, b + 1)
  <2>1. \A i \in 1..(n + 1) : r[i].lidar = l => r[i].num \in a..(b + 1)
    BY <1>1, <1>3, <1>5
  <2>2. ASSUME NEW m \in a..(b + 1)
        PROVE  \E i \in 1..(n + 1) : r[i].lidar = l /\ r[i].num = m
    <3>1. CASE m = b + 1
      BY <1>1, <1>5, <3>1
    <3>2. CASE m \in a..b
      <4>1. PICK i \in 1..n : q[i].lidar = l /\ q[i].num = m
        BY <1>3, <3>2
      <4>. QED
        BY <1>1, <4>1
    <3>. QED
      BY <3>1, <3>2
  <2>3. ASSUME NEW i \in 1..(n + 1), NEW j \in 1..(n + 1), r[i].lidar = l, r[j].lidar = l, i < j
        PROVE  r[i].num < r[j].num
    <3>1. i \in 1..n
      BY <1>1, <2>3
    <3>2. CASE j \in 1..n
      BY <1>1, <1>3, <2>3, <3>1, <3>2
    <3>3. CASE j = n + 1
      <4>1. q[i].num \in a..b
        BY <1>1, <1>3, <2>3, <3>1
      <4>2. r[i] = q[i] /\ r[j] = p
        BY <1>1, <3>1, <3>3
      <4>. QED
        BY <1>5, <4>1, <4>2
    <3>. QED
      BY <1>1, <3>2, <3>3
  <2>. QED
    BY <1>4, <2>1, <2>2, <2>3
<1>6. ASSUME p.lidar # l PROVE Numbered(r, l, a, b)
  <2>1. \A i \in 1..(n + 1) : r[i].lidar = l => i \in 1..n /\ r[i] = q[i]
    BY <1>1, <1>6
  <2>2. \A m \in a..b : \E i \in 1..(n + 1) : r[i].lidar = l /\ r[i].num = m
    BY <1>1, <1>3
  <2>. QED
    BY <1>3, <1>4, <2>1, <2>2
<1>. QED
  BY <1>5, <1>6 DEF r

LEMMA NumberedTail ==
    ASSUME NEW q \in Seq(Packet), q # <<>>, NEW l, NEW a \in Nat, NEW b \in Nat,
           Numbered(q, l, a, b)
    PROVE  /\ q[1].lidar = l => /\ q[1].num = a /\ a <= b
                                /\ Numbered(Tail(q), l, a + 1, b)
           /\ q[1].lidar # l => Numbered(Tail(q), l, a, b)
<1>. DEFINE n == Len(q)
            r == Tail(q)
<1>1. /\ n \in Nat \ {0} /\ Len(r) = n - 1
      /\ \A i \in 1..(n - 1) : r[i] = q[i + 1] /\ i + 1 \in 1..n
      /\ \A i \in 1..n : i = 1 \/ (i - 1 \in 1..(n - 1) /\ r[i - 1] = q[i])
  <2>1. n \in Nat /\ n # 0
    BY LenProperties, EmptySeq
  <2>2. Len(r) = n - 1 /\ \A i \in 1..(n - 1) : r[i] = q[i + 1]
    BY HeadTailProperties
  <2>. HIDE DEF n, r
  <2>3. \A i \in 1..n : i # 1 => i - 1 \in 1..(n - 1) /\ (i - 1) + 1 = i
    BY <2>1
  <2>. QED
    BY <2>1, <2>2, <2>3
<1>2. \A i \in 1..n : q[i].num \in Nat
  <2>1. \A i \in 1..n : q[i] \in Packet
    BY ElementOfSeq
  <2>. QED
    BY <2>1 DEF Packet
<1>. HIDE DEF n, r
<1>3. /\ \A i \in 1..n : q[i].lidar = l => q[i].num \in a..b
      /\ \A m \in a..b : \E i \in 1..n : q[i].lidar = l /\ q[i].num = m
      /\ \A i, j \in 1..n : q[i].lidar = l /\ q[j].lidar = l /\ i < j => q[i].num < q[j].num
  BY DEF Numbered, n
<1>4. \A c : Numbered(r, l, c, b) <=>
        /\ \A i \in 1..(n - 1) : r[i].lidar = l => r[i].num \in c..b
        /\ \A m \in c..b : \E i \in 1..(n - 1) : r[i].lidar = l /\ r[i].num = m
        /\ \A i, j \in 1..(n - 1) :
              r[i].lidar = l /\ r[j].lidar = l /\ i < j => r[i].num < r[j].num
  BY <1>1 DEF Numbered
<1>5. \A i, j \in 1..(n - 1) : r[i].lidar = l /\ r[j].lidar = l /\ i < j => r[i].num < r[j].num
  <2>. SUFFICES ASSUME NEW i \in 1..(n - 1), NEW j \in 1..(n - 1),
                       r[i].lidar = l, r[j].lidar = l, i < j
                PROVE  r[i].num < r[j].num
    OBVIOUS
  <2>1. i + 1 \in 1..n /\ j + 1 \in 1..n /\ i + 1 < j + 1
    BY <1>1
  <2>2. r[i] = q[i + 1] /\ r[j] = q[j + 1]
    BY <1>1
  <2>. QED
    BY <1>3, <2>1, <2>2
<1>6. ASSUME q[1].lidar = l
      PROVE  q[1].num = a /\ a <= b /\ Numbered(r, l, a + 1, b)
  <2>1. 1 \in 1..n /\ q[1].num \in a..b
    BY <1>1, <1>3, <1>6
  <2>2. \A i \in 1..n : q[i].lidar = l /\ i # 1 => q[i].num > q[1].num
    <3>1. \A i \in 1..n : i # 1 => 1 < i
      BY <1>1
    <3>. QED
      BY <1>2, <1>3, <1>6, <2>1, <3>1
  <2>3. a <= b /\ a \in a..b
    BY <2>1
  <2>4. q[1].num = a
    <3>1. PICK i \in 1..n : q[i].lidar = l /\ q[i].num = a
      BY <1>3, <2>3
    <3>. QED
      BY <1>2, <2>1, <2>2, <3>1
  <2>5. ASSUME NEW i \in 1..(n - 1), r[i].lidar = l PROVE r[i].num \in (a + 1)..b
    <3>1. i + 1 \in 1..n /\ i + 1 # 1 /\ r[i] = q[i + 1]
      BY <1>1
    <3>2. q[i + 1].num \in a..b /\ q[i + 1].num > a
      BY <1>3, <2>2, <2>4, <2>5, <3>1
    <3>. QED
      BY <3>1, <3>2
  <2>6. ASSUME NEW m \in (a + 1)..b
        PROVE  \E i \in 1..(n - 1) : r[i].lidar = l /\ r[i].num = m
    <3>1. m \in a..b /\ m # a
      OBVIOUS
    <3>2. PICK i \in 1..n : q[i].lidar = l /\ q[i].num = m
      BY <1>3, <3>1
    <3>3. i # 1
      BY <2>4, <3>1, <3>2
    <3>. QED
      BY <1>1, <3>2, <3>3
  <2>. QED
    BY <1>4, <1>5, <2>3, <2>4, <2>5, <2>6
<1>7. ASSUME q[1].lidar # l PROVE Numbered(r, l, a, b)
  <2>1. \A i \in 1..(n - 1) : r[i].lidar = l => r[i].num \in a..b
    BY <1>1, <1>3
  <2>2. ASSUME NEW m \in a..b
        PROVE  \E i \in 1..(n - 1) : r[i].lidar = l /\ r[i].num = m
    <3>1. PICK i \in 1..n : q[i].lidar = l /\ q[i].num = m
      BY <1>3
    <3>2. i # 1
      BY <1>7, <3>1
    <3>. QED
      BY <1>1, <3>1, <3>2
  <2>. QED
    BY <1>4, <1>5, <2>1, <2>2
<1>. QED
  BY <1>6, <1>7 DEF r
(* Frames are made of the lidars that have points.                         *)
LEMMA FrameTells ==
    ASSUME NEW c \in [Handles -> Seq(Packet)], NEW ls \in SUBSET Handles,
           \A l \in Handles : \A j \in 1..Len(c[l]) : c[l][j].lidar = l,
           frame' = Framed(c, ls)
    PROVE  FrameConsistent'
<1>. DEFINE giving == Giving(c, ls)
            n == Cardinality(giving)
            giver == [i \in 1..n |-> CHOOSE l \in giving :
                                        Cardinality({k \in giving : k <= l}) = i]
<1>1. giving \subseteq Handles /\ giving \subseteq Nat /\ IsFiniteSet(giving)
  <2>1. IsFiniteSet(Handles)
    BY FS_Interval, PubHandlerAssumption DEF Handles
  <2>2. giving \subseteq Handles
    BY DEF Giving
  <2>3. Handles \subseteq Nat
    BY DEF Handles
  <2>. HIDE DEF giving
  <2>. QED
    BY <2>1, <2>2, <2>3, FS_Subset
<1>2. n \in Nat /\ n <= LidarCount
  <2>1. IsFiniteSet(Handles) /\ Cardinality(Handles) = LidarCount
    BY FS_Interval, PubHandlerAssumption DEF Handles
  <2>2. Cardinality(giving) <= Cardinality(Handles)
    BY <1>1, <2>1, FS_Subset
  <2>. QED
    BY <1>1, <2>1, <2>2, FS_CardinalityType
<1>3. \A i \in 1..n : giver[i] \in giving
  <2>. TAKE i \in 1..n
  <2>1. \E l \in giving : Cardinality({k \in giving : k <= l}) = i
    BY <1>1, EveryPlaceIsTaken
  <2>. QED
    BY <2>1
<1>4. /\ frame'.lidar_num = n
      /\ \A i \in 1..n : /\ frame'.base_time[i] = GetLidarBaseTime(c[giver[i]])
                         /\ frame'.lidar_point[i] = c[giver[i]]
  <2>1. \A i \in 1..n : i \in Handles
    BY <1>2, PubHandlerAssumption DEF Handles
  <2>. QED
    BY <2>1 DEF Framed
<1>. HIDE DEF giver, giving, n
<1>5. SUFFICES ASSUME NEW i \in 1..n
               PROVE  LET points == frame'.lidar_point[i]
                      IN  /\ points # <<>>
                          /\ frame'.base_time[i] = Head(points).time
                          /\ \A j \in DOMAIN points : points[j].lidar = Head(points).lidar
  BY <1>4 DEF FrameConsistent
<1>6. PICK l \in Handles : giver[i] = l /\ c[l] # <<>>
  BY <1>1, <1>3 DEF giving, Giving
<1>7. frame'.lidar_point[i] = c[l] /\ frame'.base_time[i] = Head(c[l]).time
  BY <1>4, <1>6 DEF GetLidarBaseTime
<1>8. /\ DOMAIN c[l] = 1..Len(c[l]) /\ Head(c[l]) = c[l][1] /\ 1 \in 1..Len(c[l])
  BY <1>6, LenProperties, HeadTailProperties, EmptySeq
<1>. QED
  BY <1>6, <1>7, <1>8

LEMMA PubInitially == PubInit => PubInv
<1>. SUFFICES ASSUME PubInit PROVE PubInv
  OBVIOUS
<1>1. PubTypes
  BY PubHandlerAssumption, EmptySeq DEF PubInit, PubTypes
<1>2. InTurn
  <2>1. Pipe = <<>> /\ Len(<<>>) = 0
    BY EmptySeq DEF PubInit, Pipe
  <2>2. \A l \in Handles : cloud[l] = <<>> /\ out[l] = 0 /\ received[l] = 0
    BY DEF PubInit
  <2>. QED
    BY <2>1, <2>2 DEF InTurn, FollowOn, Numbered
<1>3. FrameConsistent
  BY DEF PubInit, FrameConsistent
<1>. QED
  BY <1>1, <1>2, <1>3 DEF PubInv
(* Process leaves the clouds c, of which some may be published.            *)
LEMMA PublishedOrNot ==
    ASSUME PubTypes, NEW c \in [Handles -> Seq(Packet)], NEW q,
           \A l \in Handles : FollowOn(l, out[l], c[l], q, received[l]),
           \/ NotYet(c)
           \/ \E ls \in SUBSET Handles : PublishPointCloud(c, ls)
    PROVE  /\ cloud' \in [Handles -> Seq(Packet)] /\ out' \in [Handles -> Nat]
           /\ \A l \in Handles : FollowOn(l, out'[l], cloud'[l], q, received[l])
<1>1. CASE NotYet(c)
  BY <1>1 DEF NotYet, PubTypes
<1>2. CASE \E ls \in SUBSET Handles : PublishPointCloud(c, ls)
  <2>1. PICK ls \in SUBSET Handles : PublishPointCloud(c, ls)
    BY <1>2
  <2>2. \A l \in Handles : /\ cloud'[l] = IF l \in ls THEN <<>> ELSE c[l]
                           /\ out'[l] = IF l \in ls /\ c[l] # <<>> THEN Last(c[l]).num ELSE out[l]
    BY <2>1 DEF PublishPointCloud, Giving
  <2>3. \A l \in Handles : /\ cloud'[l] \in Seq(Packet) /\ out'[l] \in Nat
                           /\ FollowOn(l, out'[l], cloud'[l], q, received[l])
    <3>. TAKE l \in Handles
    <3>1. /\ c[l] \in Seq(Packet) /\ Len(c[l]) \in Nat /\ (c[l] # <<>> => Len(c[l]) \in 1..Len(c[l]))
          /\ <<>> \in Seq(Packet) /\ Len(<<>>) = 0 /\ out[l] \in Nat
      BY LenProperties, EmptySeq DEF PubTypes
    <3>2. CASE l \notin ls
      BY <2>2, <3>1, <3>2
    <3>3. CASE l \in ls /\ c[l] = <<>>
      BY <2>2, <3>1, <3>3
    <3>4. CASE l \in ls /\ c[l] # <<>>
      <4>1. Last(c[l]).num = out[l] + Len(c[l]) /\ out[l] + Len(c[l]) <= received[l]
        BY <3>1, <3>4 DEF Last, FollowOn
      <4>2. cloud'[l] = <<>> /\ out'[l] = out[l] + Len(c[l])
        BY <2>2, <3>4, <4>1
      <4>3. Numbered(q, l, out'[l] + 0 + 1, received[l])
        <5>1. out'[l] + 0 + 1 = out[l] + Len(c[l]) + 1
          BY <3>1, <4>2
        <5>. QED
          BY <5>1 DEF FollowOn
      <4>4. out'[l] + 0 <= received[l] /\ out'[l] \in Nat
        BY <3>1, <4>1, <4>2
      <4>. QED
        BY <3>1, <4>2, <4>3, <4>4 DEF FollowOn
    <3>. QED
      BY <3>2, <3>3, <3>4
  <2>4. DOMAIN cloud' = Handles /\ DOMAIN out' = Handles
        /\ cloud' = [l \in Handles |-> cloud'[l]] /\ out' = [l \in Handles |-> out'[l]]
    BY <2>1 DEF PublishPointCloud
  <2>. QED
    BY <2>3, <2>4
<1>. QED
  BY <1>1, <1>2

(* What is queued keeps its order on its way through raw_data.             *)
LEMMA PipeSteps ==
    ASSUME PubTypes
    PROVE  /\ Pipe \in Seq(Packet)
           /\ \A p \in Packet : raw' = Append(raw, p) /\ raw_data' = raw_data => Pipe' = Append(Pipe, p)
           /\ Take => Pipe' = Pipe
           /\ Process => /\ Pipe # <<>> /\ Pipe[1] = raw_data[1] /\ raw_data[1] \in Packet
                          /\ Pipe' = Tail(Pipe)
<1>1. raw \in Seq(Packet) /\ raw_data \in Seq(Packet) /\ Len(raw_data) <= 1
  BY DEF PubTypes
<1>2. Pipe \in Seq(Packet) /\ Pipe' = raw_data' \o raw'
  BY <1>1 DEF Pipe
<1>3. ASSUME NEW p \in Packet, raw' = Append(raw, p), raw_data' = raw_data
      PROVE  Pipe' = Append(Pipe, p)
  BY <1>1, <1>2, <1>3 DEF Pipe
<1>4. ASSUME Take PROVE Pipe' = Pipe
  <2>1. raw_data = <<>> /\ raw # <<>> /\ raw_data' = <<Head(raw)>> /\ raw' = Tail(raw)
    BY <1>4 DEF Take
  <2>2. Pipe = raw
    BY <1>1, <2>1 DEF Pipe
  <2>3. <<Head(raw)>> \o Tail(raw) = raw
    BY <1>1, <2>1
  <2>. QED
    BY <1>2, <2>1, <2>2, <2>3
<1>5. ASSUME Process
      PROVE  /\ Pipe # <<>> /\ Pipe[1] = raw_data[1] /\ raw_data[1] \in Packet
             /\ Pipe' = Tail(Pipe)
  <2>1. raw_data # <<>> /\ raw_data' = <<>> /\ raw' = raw
    BY <1>5 DEF Process
  <2>2. Len(raw_data) = 1 /\ raw_data[1] \in Packet /\ raw_data = <<raw_data[1]>>
    <3>1. Len(raw_data) = 1
      <4>1. Len(raw_data) \in Nat /\ Len(raw_data) # 0
        BY <1>1, <2>1, LenProperties, EmptySeq
      <4>2. \A k \in Nat : k # 0 /\ k <= 1 => k = 1
        OBVIOUS
      <4>. QED
        BY <1>1, <4>1, <4>2, Zenon
    <3>2. raw_data[1] \in Packet
      BY <1>1, <3>1, ElementOfSeq, SMTT(40)
    <3>3. <<raw_data[1]>> \in Seq(Packet) /\ Len(<<raw_data[1]>>) = 1
          /\ <<raw_data[1]>>[1] = raw_data[1]
      BY <3>2
    <3>4. \A i \in 1..Len(raw_data) : raw_data[i] = <<raw_data[1]>>[i]
      BY <3>1, <3>3
    <3>. QED
      BY <1>1, <3>1, <3>2, <3>3, <3>4, SeqEqual
  <2>3. /\ <<raw_data[1]>> \o raw # <<>> /\ (<<raw_data[1]>> \o raw)[1] = raw_data[1]
        /\ Tail(<<raw_data[1]>> \o raw) = raw /\ <<>> \o raw = raw
    BY <1>1, <2>2
  <2>. QED
    BY <1>2, <2>1, <2>2, <2>3 DEF Pipe
<1>. QED
  BY <1>2, <1>3, <1>4, <1>5

LEMMA PubInductive ==
    ASSUME PubInv, [PubNext]_pubVars
    PROVE  PubInv'
<1>. USE DEF PubInv
<1>1. ASSUME UNCHANGED <<raw, raw_data, cloud, frame, received, out>>, now' \in Nat
      PROVE  PubInv'
  <2>1. PubTypes'
    BY <1>1 DEF PubTypes
  <2>2. InTurn'
    BY <1>1, Zenon DEF InTurn, Pipe
  <2>3. FrameConsistent'
    BY <1>1, Zenon DEF FrameConsistent
  <2>. QED
    BY <2>1, <2>2, <2>3
<1>2. CASE Tick \/ RequestExit \/ (\E synced \in BOOLEAN : ReceiveImu(synced)) \/ UNCHANGED pubVars
  <2>1. now' \in Nat
    BY <1>2 DEF PubTypes, Tick, RequestExit, ReceiveImu, pubVars
  <2>2. UNCHANGED <<raw, raw_data, cloud, frame, received, out>>
    BY <1>2, Zenon DEF Tick, RequestExit, ReceiveImu, pubVars
  <2>. QED
    BY <1>1, <2>1, <2>2
<1>3. ASSUME NEW l \in Handles, NEW synced \in BOOLEAN, NEW skew \in Skews,
             Receive(l, synced, skew)
      PROVE  PubInv'
  <2>. DEFINE p == [lidar |-> l, num |-> received'[l], time |-> IF synced THEN now + skew ELSE now]
  <2>1. /\ received' = [received EXCEPT ![l] = @ + 1] /\ raw' = Append(raw, p)
        /\ UNCHANGED <<now, raw_data, cloud, frame, out>>
    BY <1>3 DEF Receive
  <2>2. \A k \in Handles : received'[k] = IF k = l THEN received[l] + 1 ELSE received[k]
    BY <2>1 DEF PubTypes
  <2>3. p \in Packet
    <3>1. skew \in Nat /\ received'[l] \in Nat /\ now \in Nat
      BY <2>2, PubHandlerAssumption DEF PubTypes
    <3>. QED
      BY <3>1 DEF Packet
  <2>4. p.lidar = l /\ p.num = received[l] + 1
    BY <2>2
  <2>. HIDE DEF p
  <2>5. PubTypes'
    BY <2>1, <2>3, AppendProperties DEF PubTypes
  <2>6. Pipe' = Append(Pipe, p) /\ Pipe \in Seq(Packet)
    BY <2>1, <2>3, PipeSteps
  <2>7. ASSUME NEW k \in Handles
        PROVE  FollowOn(k, out'[k], cloud'[k], Pipe', received'[k])
    <3>. DEFINE a == out[k] + Len(cloud[k]) + 1
                b == received[k]
    <3>1. a \in Nat /\ b \in Nat /\ a <= b + 1 /\ Numbered(Pipe, k, a, b)
      <4>1. out[k] \in Nat /\ Len(cloud[k]) \in Nat
        BY LenProperties DEF PubTypes
      <4>. QED
        BY <4>1 DEF PubTypes, InTurn, FollowOn
    <3>2. Numbered(Pipe', k, a, received'[k])
      <4>. HIDE DEF a, b
      <4>1. Numbered(Append(Pipe, p), k, a, IF p.lidar = k THEN b + 1 ELSE b)
        BY <2>3, <2>4, <2>6, <3>1, NumberedAppend DEF b
      <4>2. received'[k] = IF p.lidar = k THEN b + 1 ELSE b
        BY <2>2, <2>4 DEF b
      <4>. QED
        BY <2>6, <4>1, <4>2
    <3>3. received[k] <= received'[k] /\ received[k] \in Nat /\ received'[k] \in Nat
      <4>1. received[k] \in Nat /\ received[l] \in Nat
        BY DEF PubTypes
      <4>. QED
        BY <2>2, <4>1
    <3>4. out[k] + Len(cloud[k]) <= received'[k]
      <4>1. out[k] \in Nat /\ Len(cloud[k]) \in Nat /\ out[k] + Len(cloud[k]) <= received[k]
        BY LenProperties DEF PubTypes, InTurn, FollowOn
      <4>. QED
        BY <3>3, <4>1
    <3>. QED
      BY <2>1, <3>2, <3>4 DEF InTurn, FollowOn
  <2>8. InTurn'
    BY <2>7 DEF InTurn
  <2>9. FrameConsistent'
    BY <2>1, Zenon DEF FrameConsistent
  <2>. QED
    BY <2>5, <2>8, <2>9
<1>4. CASE Take
  <2>1. UNCHANGED <<now, cloud, frame, received, out>> /\ raw' = Tail(raw) /\ raw # <<>>
        /\ raw_data' = <<Head(raw)>>
    BY <1>4 DEF Take
  <2>2. raw \in Seq(Packet) /\ raw' \in Seq(Packet) /\ Head(raw) \in Packet
    BY <2>1 DEF PubTypes
  <2>3. raw_data' \in Seq(Packet) /\ Len(raw_data') <= 1
    BY <2>1, <2>2
  <2>4. PubTypes'
    BY <2>1, <2>2, <2>3 DEF PubTypes
  <2>5. Pipe' = Pipe
    BY <1>4, PipeSteps
  <2>6. InTurn'
    BY <2>1, <2>5, Zenon DEF InTurn
  <2>7. FrameConsistent'
    BY <2>1, Zenon DEF FrameConsistent
  <2>. QED
    BY <2>4, <2>6, <2>7
<1>5. CASE Process
  <2>. DEFINE p == raw_data[1]
              c == [cloud EXCEPT ![p.lidar] = Append(@, p)]
  <2>1. /\ CheckTimer(p.lidar, c) /\ raw_data' = <<>>
        /\ UNCHANGED <<now, raw, received>>
    BY <1>5 DEF Process
  <2>2. /\ Pipe \in Seq(Packet) /\ Pipe # <<>> /\ Pipe[1] = p /\ p \in Packet
        /\ Pipe' = Tail(Pipe)
    BY <1>5, PipeSteps
  <2>3. p.lidar \in Handles
    BY <2>2 DEF Packet
  <2>. HIDE DEF p
  <2>4. c \in [Handles -> Seq(Packet)]
        /\ \A k \in Handles : c[k] = IF k = p.lidar THEN Append(cloud[k], p) ELSE cloud[k]
    BY <2>2, <2>3, AppendProperties DEF PubTypes
  <2>. HIDE DEF c
  <2>5. ASSUME NEW k \in Handles
        PROVE  FollowOn(k, out[k], c[k], Pipe', received[k])
    <3>. DEFINE n == Len(cloud[k])
    <3>1. n \in Nat /\ out[k] \in Nat /\ received[k] \in Nat /\ cloud[k] \in Seq(Packet)
      BY LenProperties DEF PubTypes
    <3>2. /\ out[k] + n <= received[k]
          /\ \A i \in 1..n : cloud[k][i].lidar = k /\ cloud[k][i].num = out[k] + i
          /\ Numbered(Pipe, k, out[k] + n + 1, received[k])
      BY DEF InTurn, FollowOn
    <3>3. CASE k # p.lidar
      <4>1. Numbered(Tail(Pipe), k, out[k] + n + 1, received[k])
        <5>. HIDE DEF n
        <5>1. out[k] + n + 1 \in Nat
          BY <3>1
        <5>. QED
          BY <2>2, <3>1, <3>2, <3>3, <5>1, NumberedTail
      <4>. QED
        BY <2>2, <2>4, <3>2, <3>3, <4>1 DEF FollowOn
    <3>4. CASE k = p.lidar
      <4>1. /\ p.num = out[k] + n + 1 /\ out[k] + n + 1 <= received[k]
            /\ Numbered(Tail(Pipe), k, (out[k] + n + 1) + 1, received[k])
        <5>. HIDE DEF n
        <5>1. out[k] + n + 1 \in Nat
          BY <3>1
        <5>. QED
          BY <2>2, <3>1, <3>2, <3>4, <5>1, NumberedTail, SMTT(40)
      <4>2. c[k] = Append(cloud[k], p) /\ Len(c[k]) = n + 1 /\ c[k][n + 1] = p
            /\ \A i \in 1..n : c[k][i] = cloud[k][i]
        <5>1. c[k] = Append(cloud[k], p)
          BY <2>4, <3>4
        <5>. QED
          BY <2>2, <3>1, <5>1, AppendProperties
      <4>. HIDE DEF n
      <4>3. \A i \in 1..(n + 1) : c[k][i].lidar = k /\ c[k][i].num = out[k] + i
        <5>1. \A i \in 1..(n + 1) : i \in 1..n \/ i = n + 1
          BY <3>1
        <5>2. \A i \in 1..n : c[k][i].lidar = k /\ c[k][i].num = out[k] + i
          BY <3>2, <4>2, Zenon
        <5>3. c[k][n + 1].lidar = k /\ c[k][n + 1].num = out[k] + (n + 1)
          <6>1. out[k] + n + 1 = out[k] + (n + 1)
            BY <3>1
          <6>. QED
            BY <3>4, <4>1, <4>2, <6>1, Zenon
        <5>. QED
          BY <5>1, <5>2, <5>3
      <4>4. out[k] + Len(c[k]) = out[k] + n + 1 /\ out[k] + Len(c[k]) + 1 = (out[k] + n + 1) + 1
        BY <3>1, <4>2, SMTT(40)
      <4>. QED
        BY <2>2, <4>1, <4>2, <4>3, <4>4 DEF FollowOn
    <3>. QED
      BY <3>3, <3>4
  <2>6. \/ NotYet(c)
        \/ \E ls \in SUBSET Handles : PublishPointCloud(c, ls)
    <3>1. {p.lidar} \in SUBSET Handles /\ Known(c) \in SUBSET Handles
      BY <2>3 DEF Known
    <3>. QED
      BY <2>1, <3>1, Zenon DEF CheckTimer
  <2>7. /\ cloud' \in [Handles -> Seq(Packet)] /\ out' \in [Handles -> Nat]
        /\ \A k \in Handles : FollowOn(k, out'[k], cloud'[k], Pipe', received[k])
    BY <2>4, <2>5, <2>6, PublishedOrNot
  <2>8. PubTypes'
    BY <2>1, <2>7, EmptySeq DEF PubTypes
  <2>9. InTurn'
    BY <2>1, <2>7 DEF InTurn
  <2>10. FrameConsistent'
    <3>1. CASE NotYet(c)
      BY <3>1, Zenon DEF NotYet, FrameConsistent
    <3>2. CASE \E ls \in SUBSET Handles : PublishPointCloud(c, ls)
      <4>1. PICK ls \in SUBSET Handles : frame' = Framed(c, ls)
        BY <3>2 DEF PublishPointCloud
      <4>2. \A k \in Handles : \A j \in 1..Len(c[k]) : c[k][j].lidar = k
        BY <2>5 DEF FollowOn
      <4>. QED
        BY <2>4, <4>1, <4>2, FrameTells
    <3>. QED
      BY <2>6, <3>1, <3>2
  <2>. QED
    BY <2>8, <2>9, <2>10
<1>. QED
  BY <1>2, <1>3, <1>4, <1>5 DEF PubNext

(* What the sequences of the invariant say of what is on its way.          *)
LEMMA InTurnAccounts == PubTypes /\ InTurn => PointsAccountedFor
<1>. SUFFICES ASSUME PubTypes, InTurn, NEW l \in Handles
              PROVE  LET way  == cloud[l] \o (raw_data \o raw)
                         mine == {i \in DOMAIN way : way[i].lidar = l}
                     IN  /\ {way[i].num : i \in mine} = (out[l] + 1)..received[l]
                         /\ \A i, j \in mine : i < j => way[i].num < way[j].num
  BY DEF PointsAccountedFor
<1>. DEFINE way == cloud[l] \o Pipe
            m == Len(cloud[l])
            n == Len(Pipe)
            o == out[l]
            r == received[l]
<1>1. /\ cloud[l] \in Seq(Packet) /\ Pipe \in Seq(Packet)
      /\ m \in Nat /\ n \in Nat /\ o \in Nat /\ r \in Nat
  BY PipeSteps, LenProperties DEF PubTypes
<1>2. /\ o + m <= r
      /\ \A i \in 1..m : cloud[l][i].lidar = l /\ cloud[l][i].num = o + i
      /\ \A i \in 1..n : Pipe[i].lidar = l => Pipe[i].num \in (o + m + 1)..r
      /\ \A k \in (o + m + 1)..r : \E i \in 1..n : Pipe[i].lidar = l /\ Pipe[i].num = k
      /\ \A i, j \in 1..n : Pipe[i].lidar = l /\ Pipe[j].lidar = l /\ i < j
                               => Pipe[i].num < Pipe[j].num
  BY DEF InTurn, FollowOn, Numbered
<1>3. /\ DOMAIN way = 1..(m + n)
      /\ \A i \in 1..m : way[i] = cloud[l][i]
      /\ \A i \in 1..n : way[m + i] = Pipe[i]
  <2>1. way \in Seq(Packet) /\ Len(way) = m + n
        /\ \A i \in 1..(m + n) : way[i] = IF i <= m THEN cloud[l][i] ELSE Pipe[i - m]
    BY <1>1, ConcatProperties
  <2>2. DOMAIN way = 1..(m + n)
    BY <2>1, LenProperties
  <2>. HIDE DEF m, n, way
  <2>3. \A i \in 1..m : i \in 1..(m + n) /\ i <= m
    BY <1>1
  <2>4. \A i \in 1..n : m + i \in 1..(m + n) /\ ~(m + i <= m) /\ (m + i) - m = i
    BY <1>1
  <2>. QED
    BY <2>1, <2>2, <2>3, <2>4
<1>. HIDE DEF m, n, o, r, way
<1>4. \A i \in 1..(m + n) : \/ i \in 1..m
                            \/ i - m \in 1..n /\ m + (i - m) = i
  BY <1>1
<1>5. \A i \in 1..m : way[i].lidar = l /\ way[i].num = o + i
  BY <1>2, <1>3
<1>6. \A i \in 1..n : way[m + i].lidar = l => way[m + i].num \in (o + m + 1)..r
  BY <1>2, <1>3
<1>. DEFINE mine == {i \in DOMAIN way : way[i].lidar = l}
<1>7. \A i \in mine : way[i].num \in (o + 1)..r
  <2>. TAKE i \in mine
  <2>1. i \in 1..(m + n) /\ way[i].lidar = l
    BY <1>3
  <2>2. CASE i \in 1..m
    BY <1>1, <1>2, <1>5, <2>2
  <2>3. CASE i - m \in 1..n /\ m + (i - m) = i
    <3>1. way[i].num \in (o + m + 1)..r
      BY <1>6, <2>1, <2>3
    <3>. QED
      BY <1>1, <3>1
  <2>. QED
    BY <1>4, <2>1, <2>2, <2>3
<1>8. \A k \in (o + 1)..r : \E i \in mine : way[i].num = k
  <2>. TAKE k \in (o + 1)..r
  <2>1. CASE k <= o + m
    <3>1. k - o \in 1..m /\ o + (k - o) = k /\ k - o \in 1..(m + n)
      BY <1>1, <2>1
    <3>. QED
      BY <1>3, <1>5, <3>1
  <2>2. CASE ~(k <= o + m)
    <3>1. k \in (o + m + 1)..r
      BY <1>1, <2>2
    <3>2. PICK i \in 1..n : Pipe[i].lidar = l /\ Pipe[i].num = k
      BY <1>2, <3>1
    <3>3. m + i \in 1..(m + n)
      BY <1>1
    <3>. QED
      BY <1>3, <3>2, <3>3
  <2>. QED
    BY <2>1, <2>2
<1>9. \A i, j \in mine : i < j => way[i].num < way[j].num
  <2>. SUFFICES ASSUME NEW i \in mine, NEW j \in mine, i < j PROVE way[i].num < way[j].num
    OBVIOUS
  <2>1. i \in 1..(m + n) /\ j \in 1..(m + n) /\ way[i].lidar = l /\ way[j].lidar = l
    BY <1>3
  <2>2. CASE j \in 1..m
    <3>1. i \in 1..m
      BY <1>1, <2>1, <2>2
    <3>. QED
      BY <1>1, <1>5, <2>2, <3>1
  <2>3. CASE j - m \in 1..n /\ m + (j - m) = j /\ i \in 1..m
    <3>1. way[j].num \in (o + m + 1)..r /\ way[i].num = o + i
      BY <1>5, <1>6, <2>1, <2>3
    <3>. QED
      BY <1>1, <2>3, <3>1
  <2>4. CASE j - m \in 1..n /\ m + (j - m) = j /\ i - m \in 1..n /\ m + (i - m) = i
    <3>1. way[i] = Pipe[i - m] /\ way[j] = Pipe[j - m]
      BY <1>3, <2>4
    <3>2. i - m < j - m
      BY <1>1, <2>1
    <3>. QED
      BY <1>2, <2>1, <2>4, <3>1, <3>2
  <2>. QED
    BY <1>4, <2>1, <2>2, <2>3, <2>4
<1>10. {way[i].num : i \in mine} = (o + 1)..r
  <2>1. \A x : x \in {way[i].num : i \in mine} <=> x \in (o + 1)..r
    BY <1>7, <1>8
  <2>. QED
    BY <2>1
<1>. QED
  BY <1>9, <1>10 DEF way, o, r, Pipe

-----------------------------------------------------------------------------
(* From points to messages                                                 *)

Measurement == [pos : Places, time : Nat]
Point == [pos : Int \X Int, offset_time : Nat, num : Nat]
Frame == [base_time : Nat, points : Seq(Point)]
ImuSample == [turn : Int, heard : SUBSET DOMAIN Configured]

Body == [type : {"imu"}, data : ImuSample]
        \cup [type : {"cloud"}, stamp : Nat,
              points : Seq([pos : Int \X Int, num : Nat, timestamp : Int])]
        \cup [type : {"custom"}, stamp : Nat, lidar_id : Nat,
              points : Seq([pos : Int \X Int, num : Nat, offset_time : Nat])]

Topics == {"livox/lidar", "livox/lidar/pointcloud", "livox/imu"}
          \cup ({"livox/lidar_", "livox/imu_"} \X Nat)
Message == [topic : Topics, body : Body]

MsgSettings ==
    /\ transfer_format_ \in {{"cloud"}, {"custom"}, {"cloud", "custom"}}
    /\ use_multi_topic_ \in BOOLEAN /\ (use_multi_topic_ => Cardinality(transfer_format_) = 1)
    /\ data_type \in [Sources -> DataTypes]
    /\ \A l \in Unconfigured : data_type[l] = "high"

MsgTypes ==
    /\ measured \in [Sources -> Seq(Measurement)]
    /\ points_clouds_ \in [Sources -> Seq(Point)]
    /\ stored \in [Sources -> Seq(Frame)]
    /\ imu_data_queue_ \in [Sources -> Seq(ImuSample)]
    /\ messages \in [Sources -> Seq(Message)]
    /\ is_set_extrinsic_params_ \in [Sources -> BOOLEAN] /\ extrinsic_global \in Int

FirstOf(points) == points[1].num
LastOf(points) == points[1].num + Len(points) - 1
Consecutive(points) == /\ FirstOf(points) \in Nat \ {0} /\ Len(points) \in Nat \ {0}
                       /\ \A i \in 1..Len(points) : points[i].num = FirstOf(points) + i - 1

(* The frames of a lidar follow the messages and precede what was measured *)
(* after the point numbered base.                                          *)
FramesInOrder(base, frames) ==
    /\ \A f \in 1..Len(frames) : Consecutive(frames[f].points) /\ LastOf(frames[f].points) <= base
    /\ \A f, g \in 1..Len(frames) : f < g => LastOf(frames[f].points) < FirstOf(frames[g].points)

SentInOrder(base, frames, sent) ==
    /\ \A k \in 1..Len(sent) : sent[k].body.type # "imu" =>
          /\ Consecutive(sent[k].body.points) /\ LastOf(sent[k].body.points) <= base
          /\ \A f \in 1..Len(frames) : LastOf(sent[k].body.points) < FirstOf(frames[f].points)
    /\ \A j, k \in 1..Len(sent) :
          j < k /\ sent[j].body.type = sent[k].body.type /\ sent[k].body.type # "imu" =>
             LastOf(sent[j].body.points) < FirstOf(sent[k].body.points)

(* n is the number of the last point of a message, or of one of the first  *)
(* m frames, or no point.                                                  *)
EndsAt(type, frames, sent, n, m) ==
    \/ n = 0
    \/ \E f \in 1..m : LastOf(frames[f].points) = n
    \/ \E k \in 1..Len(sent) : sent[k].body.type = type /\ LastOf(sent[k].body.points) = n

Unbroken(type, base, frames, sent) ==
    /\ EndsAt(type, frames, sent, base, Len(frames))
    /\ \A f \in 1..Len(frames) :
          EndsAt(type, frames, sent, FirstOf(frames[f].points) - 1, f - 1)
    /\ \A k \in 1..Len(sent) : sent[k].body.type = type =>
          \/ FirstOf(sent[k].body.points) = 1
          \/ \E j \in 1..(k - 1) : /\ sent[j].body.type = type
                                   /\ LastOf(sent[j].body.points) + 1 = FirstOf(sent[k].body.points)

InPairs(sent) ==
    \A k \in 1..Len(sent) : sent[k].body.type # "imu" =>
        LET other == IF sent[k].body.type = "cloud" THEN k + 1 ELSE k - 1
        IN  /\ other \in 1..Len(sent)
            /\ sent[other].body.type \notin {"imu", sent[k].body.type}
            /\ FirstOf(sent[other].body.points) = FirstOf(sent[k].body.points)
            /\ Len(sent[other].body.points) = Len(sent[k].body.points)

Cut(l) == Len(measured[l]) - Len(points_clouds_[l])

Gathered(l) == /\ Len(points_clouds_[l]) <= Len(measured[l])
               /\ \A i \in 1..Len(points_clouds_[l]) : points_clouds_[l][i].num = Cut(l) + i

PassedOn(l) ==
    /\ Gathered(l)
    /\ FramesInOrder(Cut(l), stored[l])
    /\ SentInOrder(Cut(l), stored[l], messages[l])
    /\ l \notin dropped => \A type \in transfer_format_ : Unbroken(type, Cut(l), stored[l], messages[l])
    /\ transfer_format_ = {"cloud", "custom"} => InPairs(messages[l])
    /\ \A k \in 1..Len(messages[l]) : messages[l][k].body.type \in transfer_format_ \cup {"imu"}

MsgOrder == \A l \in Sources : PassedOn(l)

(* What is known of a point                                                *)
Placed(l, place) == Sum2(Turn4(Mounting(l).yaw, place), <<Mounting(l).x, Mounting(l).y>>)
Near(l, pos, place, coordinates) ==
    \A c \in coordinates : Off(pos[c], Placed(l, place)[c]) < 10
(* The coordinates that are right to the centimetre.                       *)
Exact(l) == IF l \in DOMAIN Configured => (pcl_data_type[l] = "low" <=> data_type[l] = "low")
            THEN 1..2 ELSE {}

(* What a point, a frame and a message of l tell of what is known of l.    *)
PointTells(l, p, known, exact) ==
    /\ p.num \in 1..Len(known)
    /\ p.offset_time = known[p.num].time
    /\ Near(l, p.pos, known[p.num].pos, exact)

FrameOfPoints(l, pkg, known, exact) ==
    /\ Len(pkg.points) \in Nat \ {0} /\ pkg.base_time = pkg.points[1].offset_time
    /\ \A i \in 1..Len(pkg.points) : PointTells(l, pkg.points[i], known, exact)

SampleTells(l, data) == /\ data.heard = {} => data.turn = 0
                        /\ data.heard = {l} => data.turn = Mounting(l).yaw

BodyTells(l, m, known, exact) ==
    IF m.type = "imu" THEN SampleTells(l, m.data)
    ELSE /\ Len(m.points) \in Nat \ {0} /\ m.stamp = known[m.points[1].num].time
         /\ m.type = "custom" /\ l \in DOMAIN Configured => m.lidar_id = l
         /\ \A i \in 1..Len(m.points) :
               LET p == m.points[i]
                   time == known[p.num].time
               IN  /\ p.num \in 1..Len(known)
                   /\ Near(l, p.pos, known[p.num].pos, exact)
                   /\ m.type = "cloud" => 2 * Off(p.timestamp, time) <= Granule
                   /\ m.type = "custom" /\ time - m.stamp \in 0..(OffsetRange - 1) =>
                         m.stamp + p.offset_time = time

Heard == {k \in DOMAIN Configured : is_set_extrinsic_params_[k]}

MsgContents ==
    /\ \A l \in Sources :
          /\ \A i \in 1..Len(points_clouds_[l]) :
                PointTells(l, points_clouds_[l][i], measured[l], Exact(l))
          /\ \A f \in 1..Len(stored[l]) : FrameOfPoints(l, stored[l][f], measured[l], Exact(l))
          /\ \A k \in 1..Len(messages[l]) : BodyTells(l, messages[l][k].body, measured[l], Exact(l))
          /\ \A i \in 1..Len(imu_data_queue_[l]) :
                \A j \in Sources : SampleTells(j, imu_data_queue_[l][i])
    /\ \A l \in Sources : SampleTells(l, [turn |-> extrinsic_global, heard |-> Heard])

(* A publisher is the one its messages ask for.                            *)
PublishersKept ==
    \A l \in Sources :
        /\ \A slot \in DOMAIN pub \cap DOMAIN GetCurrentPublisher(l) :
              pub[slot] = GetCurrentPublisher(l)[slot]
        /\ \A slot \in DOMAIN pub \cap DOMAIN GetCurrentImuPublisher(l) :
              pub[slot] = GetCurrentImuPublisher(l)[slot]

OnItsTopic(l) == use_multi_topic_ => \A k \in 1..Len(messages[l]) :
    messages[l][k].topic = <<IF messages[l][k].body.type = "imu" THEN "livox/imu_" ELSE "livox/lidar_",
                             handle(l)>>

MsgTopics == PublishersKept /\ \A l \in Sources : OnItsTopic(l)

MsgInv == MsgSettings /\ MsgTypes /\ MsgOrder /\ MsgContents /\ MsgTopics

LEMMA EndsAreNumbers ==
    ASSUME NEW points, Consecutive(points)
    PROVE  /\ FirstOf(points) \in Nat \ {0} /\ LastOf(points) \in Nat
           /\ FirstOf(points) <= LastOf(points)
<1>1. FirstOf(points) \in Nat \ {0} /\ Len(points) \in Nat \ {0}
  BY DEF Consecutive
<1>2. LastOf(points) = FirstOf(points) + Len(points) - 1
  BY DEF LastOf, FirstOf
<1>. QED
  BY <1>1, <1>2

LEMMA AppendedAt ==
    ASSUME NEW S, NEW seq \in Seq(S), NEW e \in S
    PROVE  /\ Append(seq, e) \in Seq(S) /\ Len(seq) \in Nat /\ Len(Append(seq, e)) = Len(seq) + 1
           /\ Append(seq, e)[Len(seq) + 1] = e
           /\ \A i \in 1..Len(seq) : i \in 1..(Len(seq) + 1) /\ Append(seq, e)[i] = seq[i]
           /\ \A i \in 1..(Len(seq) + 1) : i \in 1..Len(seq) \/ i = Len(seq) + 1
<1>1. Len(seq) \in Nat
  BY LenProperties
<1>. QED
  BY <1>1, AppendProperties

LEMMA TailAt ==
    ASSUME NEW S, NEW seq \in Seq(S), seq # <<>>
    PROVE  /\ Tail(seq) \in Seq(S) /\ Len(seq) \in Nat \ {0} /\ Len(Tail(seq)) = Len(seq) - 1
           /\ Head(seq) = seq[1] /\ Head(seq) \in S
           /\ \A i \in 1..(Len(seq) - 1) : i + 1 \in 1..Len(seq) /\ Tail(seq)[i] = seq[i + 1]
           /\ \A i \in 1..Len(seq) :
                 i = 1 \/ (i - 1 \in 1..(Len(seq) - 1) /\ Tail(seq)[i - 1] = seq[i])
<1>. DEFINE n == Len(seq)
            r == Tail(seq)
<1>1. n \in Nat /\ n # 0
  BY LenProperties, EmptySeq
<1>2. r \in Seq(S) /\ Len(r) = n - 1 /\ \A i \in 1..(n - 1) : r[i] = seq[i + 1]
  BY HeadTailProperties
<1>3. Head(seq) = seq[1] /\ Head(seq) \in S
  BY HeadTailProperties
<1>. HIDE DEF n, r
<1>4. \A i \in 1..n : i # 1 => i - 1 \in 1..(n - 1) /\ (i - 1) + 1 = i
  BY <1>1
<1>5. \A i \in 1..(n - 1) : i + 1 \in 1..n
  BY <1>1
<1>6. \A i \in 1..n : i # 1 => r[i - 1] = seq[i]
  BY <1>2, <1>4
<1>7. /\ r \in Seq(S) /\ n \in Nat \ {0} /\ Len(r) = n - 1
      /\ \A i \in 1..(n - 1) : i + 1 \in 1..n /\ r[i] = seq[i + 1]
      /\ \A i \in 1..n : i = 1 \/ (i - 1 \in 1..(n - 1) /\ r[i - 1] = seq[i])
  BY <1>1, <1>2, <1>4, <1>5, <1>6
<1>. QED
  BY <1>3, <1>7 DEF n, r

(* A frame of the points after base joins the queue.                       *)
LEMMA FrameJoins ==
    ASSUME NEW base \in Nat, NEW frames \in Seq(Frame), NEW sent \in Seq(Message), NEW new \in Frame,
           FramesInOrder(base, frames), SentInOrder(base, frames, sent),
           Consecutive(new.points), FirstOf(new.points) = base + 1
    PROVE  /\ FramesInOrder(LastOf(new.points), Append(frames, new))
           /\ SentInOrder(LastOf(new.points), Append(frames, new), sent)
           /\ \A type : Unbroken(type, base, frames, sent)
                        => Unbroken(type, LastOf(new.points), Append(frames, new), sent)
<1>. DEFINE n == Len(frames)
            more == Append(frames, new)
            b == LastOf(new.points)
<1>1. /\ n \in Nat /\ Len(more) = n + 1 /\ more[n + 1] = new
      /\ \A f \in 1..n : f \in 1..(n + 1) /\ more[f] = frames[f]
      /\ \A f \in 1..(n + 1) : f \in 1..n \/ f = n + 1
  BY AppendedAt
<1>2. b \in Nat /\ base < b /\ FirstOf(new.points) = base + 1 /\ FirstOf(new.points) <= b
  BY EndsAreNumbers
<1>3. \A f \in 1..n : /\ Consecutive(frames[f].points) /\ LastOf(frames[f].points) <= base
                      /\ LastOf(frames[f].points) \in Nat
  BY EndsAreNumbers DEF FramesInOrder
<1>4. \A f, g \in 1..n : f < g => LastOf(frames[f].points) < FirstOf(frames[g].points)
  BY DEF FramesInOrder
<1>. HIDE DEF n, more, b
<1>5. FramesInOrder(b, more)
  <2>1. ASSUME NEW f \in 1..(n + 1)
        PROVE  Consecutive(more[f].points) /\ LastOf(more[f].points) <= b
    <3>1. CASE f \in 1..n
      BY <1>1, <1>2, <1>3, <3>1, SMTT(40)
    <3>2. CASE f = n + 1
      BY <1>1, <1>2, <3>2 DEF b
    <3>. QED
      BY <1>1, <3>1, <3>2
  <2>2. ASSUME NEW f \in 1..(n + 1), NEW g \in 1..(n + 1), f < g
        PROVE  LastOf(more[f].points) < FirstOf(more[g].points)
    <3>1. f \in 1..n
      BY <1>1, <2>2
    <3>2. CASE g \in 1..n
      BY <1>1, <1>4, <2>2, <3>1, <3>2
    <3>3. CASE g = n + 1
      <4>1. LastOf(frames[f].points) < base + 1
        BY <1>3, <3>1
      <4>. QED
        BY <1>1, <1>2, <3>1, <3>3, <4>1
    <3>. QED
      BY <1>1, <3>2, <3>3
  <2>. QED
    BY <1>1, <2>1, <2>2 DEF FramesInOrder
<1>6. SentInOrder(b, more, sent)
  <2>1. ASSUME NEW k \in 1..Len(sent), sent[k].body.type # "imu"
        PROVE  /\ Consecutive(sent[k].body.points) /\ LastOf(sent[k].body.points) <= b
               /\ \A f \in 1..Len(more) : LastOf(sent[k].body.points) < FirstOf(more[f].points)
    <3>1. /\ Consecutive(sent[k].body.points) /\ LastOf(sent[k].body.points) <= base
          /\ \A f \in 1..n : LastOf(sent[k].body.points) < FirstOf(frames[f].points)
      BY <2>1 DEF SentInOrder, n
    <3>2. LastOf(sent[k].body.points) \in Nat
      BY <3>1, EndsAreNumbers
    <3>3. LastOf(sent[k].body.points) <= b /\ LastOf(sent[k].body.points) < base + 1
      BY <1>2, <3>1, <3>2
    <3>4. ASSUME NEW f \in 1..(n + 1) PROVE LastOf(sent[k].body.points) < FirstOf(more[f].points)
      <4>1. CASE f \in 1..n
        BY <1>1, <3>1, <4>1
      <4>2. CASE f = n + 1
        BY <1>1, <1>2, <3>3, <4>2
      <4>. QED
        BY <1>1, <4>1, <4>2
    <3>. QED
      BY <1>1, <3>1, <3>3, <3>4
  <2>. QED
    BY <2>1 DEF SentInOrder
<1>7. ASSUME NEW type, Unbroken(type, base, frames, sent) PROVE Unbroken(type, b, more, sent)
  <2>1. \A f \in 1..n : EndsAt(type, frames, sent, FirstOf(frames[f].points) - 1, f - 1)
    BY <1>7 DEF Unbroken, n
  <2>2. ASSUME NEW x, NEW f \in 1..(n + 1), EndsAt(type, frames, sent, x, f - 1)
        PROVE  EndsAt(type, more, sent, x, f - 1)
    <3>1. \A g \in 1..(f - 1) : more[g] = frames[g]
      <4>1. \A g \in 1..(f - 1) : g \in 1..n
        BY <1>1
      <4>. QED
        BY <1>1, <4>1
    <3>. QED
      BY <2>2, <3>1 DEF EndsAt
  <2>3. EndsAt(type, frames, sent, base, n) /\ (n + 1) - 1 = n /\ n + 1 \in 1..(n + 1)
    BY <1>1, <1>7 DEF Unbroken, n
  <2>4. EndsAt(type, more, sent, base, n)
    <3>1. EndsAt(type, frames, sent, base, (n + 1) - 1)
      BY <2>3
    <3>2. EndsAt(type, more, sent, base, (n + 1) - 1)
      BY <2>2, <2>3, <3>1, Zenon
    <3>. QED
      BY <2>3, <3>2
  <2>5. ASSUME NEW f \in 1..(n + 1)
        PROVE  EndsAt(type, more, sent, FirstOf(more[f].points) - 1, f - 1)
    <3>1. CASE f \in 1..n
      BY <1>1, <2>1, <2>2, <3>1
    <3>2. CASE f = n + 1
      <4>1. FirstOf(more[f].points) - 1 = base /\ f - 1 = n
        BY <1>1, <1>2, <3>2
      <4>. QED
        BY <2>4, <4>1
    <3>. QED
      BY <1>1, <3>1, <3>2
  <2>6. EndsAt(type, more, sent, b, Len(more))
    <3>1. n + 1 \in 1..(n + 1) /\ LastOf(more[n + 1].points) = b
      BY <1>1 DEF b
    <3>. QED
      BY <1>1, <3>1, Zenon DEF EndsAt
  <2>. QED
    BY <1>1, <1>7, <2>5, <2>6 DEF Unbroken
<1>. QED
  BY <1>5, <1>6, <1>7 DEF more, b

(* A frame that is dropped leaves its numbers out.                         *)
LEMMA FrameDropped ==
    ASSUME NEW base \in Nat, NEW b \in Nat, base <= b, NEW frames, NEW sent,
           FramesInOrder(base, frames), SentInOrder(base, frames, sent)
    PROVE  FramesInOrder(b, frames) /\ SentInOrder(b, frames, sent)
<1>1. \A f \in 1..Len(frames) : LastOf(frames[f].points) <= b
  BY EndsAreNumbers DEF FramesInOrder
<1>2. \A k \in 1..Len(sent) : sent[k].body.type # "imu" => LastOf(sent[k].body.points) <= b
  BY EndsAreNumbers DEF SentInOrder
<1>. QED
  BY <1>1, <1>2 DEF FramesInOrder, SentInOrder

LEMMA MessageJoins ==
    ASSUME NEW base \in Nat, NEW frames \in Seq(Frame), NEW sent \in Seq(Message), NEW m \in Message,
           SentInOrder(base, frames, sent),
           m.body.type # "imu" =>
              /\ Consecutive(m.body.points) /\ LastOf(m.body.points) <= base
              /\ \A f \in 1..Len(frames) : LastOf(m.body.points) < FirstOf(frames[f].points)
              /\ \A k \in 1..Len(sent) : sent[k].body.type = m.body.type =>
                    LastOf(sent[k].body.points) < FirstOf(m.body.points)
    PROVE  SentInOrder(base, frames, Append(sent, m))
<1>. DEFINE n == Len(sent)
            more == Append(sent, m)
<1>1. /\ n \in Nat /\ Len(more) = n + 1 /\ more[n + 1] = m
      /\ \A k \in 1..n : k \in 1..(n + 1) /\ more[k] = sent[k]
      /\ \A k \in 1..(n + 1) : k \in 1..n \/ k = n + 1
  BY AppendedAt
<1>. HIDE DEF n, more
<1>2. SentInOrder(base, frames, more)
  <2>1. ASSUME NEW k \in 1..(n + 1), more[k].body.type # "imu"
        PROVE  /\ Consecutive(more[k].body.points) /\ LastOf(more[k].body.points) <= base
               /\ \A f \in 1..Len(frames) : LastOf(more[k].body.points) < FirstOf(frames[f].points)
    <3>1. CASE k \in 1..n
      BY <1>1, <2>1, <3>1, Zenon DEF SentInOrder, n
    <3>2. CASE k = n + 1
      BY <1>1, <2>1, <3>2, Zenon
    <3>. QED
      BY <1>1, <3>1, <3>2
  <2>2. ASSUME NEW j \in 1..(n + 1), NEW k \in 1..(n + 1), j < k,
               more[j].body.type = more[k].body.type, more[k].body.type # "imu"
        PROVE  LastOf(more[j].body.points) < FirstOf(more[k].body.points)
    <3>1. j \in 1..n
      BY <1>1, <2>2
    <3>2. CASE k \in 1..n
      BY <1>1, <2>2, <3>1, <3>2, Zenon DEF SentInOrder, n
    <3>3. CASE k = n + 1
      BY <1>1, <2>2, <3>1, <3>3, Zenon DEF n
    <3>. QED
      BY <1>1, <3>2, <3>3
  <2>. QED
    BY <1>1, <2>1, <2>2 DEF SentInOrder
<1>. QED
  BY <1>2 DEF more

LEMMA UnbrokenByOther ==
    ASSUME NEW base, NEW frames, NEW sent \in Seq(Message), NEW m \in Message, NEW type,
           type # m.body.type, Unbroken(type, base, frames, sent)
    PROVE  Unbroken(type, base, frames, Append(sent, m))
<1>. DEFINE n == Len(sent)
            more == Append(sent, m)
<1>1. /\ n \in Nat /\ Len(more) = n + 1 /\ more[n + 1] = m
      /\ \A k \in 1..n : k \in 1..(n + 1) /\ more[k] = sent[k]
      /\ \A k \in 1..(n + 1) : k \in 1..n \/ k = n + 1
  BY AppendedAt
<1>. HIDE DEF n, more
<1>2. \A x, i : EndsAt(type, frames, sent, x, i) => EndsAt(type, frames, more, x, i)
  BY <1>1, Zenon DEF EndsAt, n
<1>3. ASSUME NEW k \in 1..(n + 1), more[k].body.type = type
      PROVE  \/ FirstOf(more[k].body.points) = 1
             \/ \E j \in 1..(k - 1) : /\ more[j].body.type = type
                                      /\ LastOf(more[j].body.points) + 1 = FirstOf(more[k].body.points)
  <2>1. k \in 1..n
    BY <1>1, <1>3
  <2>2. \A j \in 1..(k - 1) : more[j] = sent[j]
    <3>1. \A j \in 1..(k - 1) : j \in 1..n
      BY <1>1, <2>1
    <3>. QED
      BY <1>1, <3>1
  <2>. QED
    BY <1>1, <1>3, <2>1, <2>2, Zenon DEF Unbroken, n
<1>. QED
  BY <1>1, <1>2, <1>3 DEF Unbroken, more

(* What is known of a frame when it leaves the queue.                      *)
LEMMA FrameLeaves ==
    ASSUME NEW base \in Nat, NEW frames \in Seq(Frame), NEW sent, frames # <<>>,
           FramesInOrder(base, frames), SentInOrder(base, frames, sent)
    PROVE  /\ FramesInOrder(base, Tail(frames)) /\ SentInOrder(base, Tail(frames), sent)
           /\ Consecutive(frames[1].points) /\ LastOf(frames[1].points) <= base
           /\ \A f \in 1..Len(Tail(frames)) :
                 LastOf(frames[1].points) < FirstOf(Tail(frames)[f].points)
           /\ \A k \in 1..Len(sent) : sent[k].body.type # "imu" =>
                 LastOf(sent[k].body.points) < FirstOf(frames[1].points)
<1>. DEFINE n == Len(frames)
            rest == Tail(frames)
<1>1. /\ n \in Nat \ {0} /\ Len(rest) = n - 1
      /\ \A f \in 1..(n - 1) : f + 1 \in 1..n /\ rest[f] = frames[f + 1]
  BY TailAt
<1>. HIDE DEF n, rest
<1>2. 1 \in 1..n /\ \A f \in 1..(n - 1) : 1 < f + 1
  BY <1>1
<1>3. \A f, g \in 1..(n - 1) : f < g => f + 1 < g + 1
  BY <1>1
<1>4. FramesInOrder(base, rest)
  <2>1. \A f \in 1..(n - 1) : Consecutive(rest[f].points) /\ LastOf(rest[f].points) <= base
    BY <1>1, Zenon DEF FramesInOrder, n
  <2>2. \A f, g \in 1..(n - 1) : f < g => LastOf(rest[f].points) < FirstOf(rest[g].points)
    BY <1>1, <1>3, Zenon DEF FramesInOrder, n
  <2>. QED
    BY <1>1, <2>1, <2>2, Zenon DEF FramesInOrder
<1>5. SentInOrder(base, rest, sent)
  BY <1>1, Zenon DEF SentInOrder, n
<1>6. \A f \in 1..(n - 1) : LastOf(frames[1].points) < FirstOf(rest[f].points)
  BY <1>1, <1>2, Zenon DEF FramesInOrder, n
<1>. QED
  BY <1>1, <1>2, <1>4, <1>5, <1>6, Zenon DEF FramesInOrder, SentInOrder, n, rest

(* The message made of the first frame takes its place.                    *)
LEMMA FrameGoesOut ==
    ASSUME NEW base \in Nat, NEW frames \in Seq(Frame), NEW sent \in Seq(Message), NEW m \in Message,
           NEW type, frames # <<>>, FramesInOrder(base, frames), Unbroken(type, base, frames, sent),
           m.body.type = type, FirstOf(m.body.points) = FirstOf(frames[1].points),
           LastOf(m.body.points) = LastOf(frames[1].points)
    PROVE  Unbroken(type, base, Tail(frames), Append(sent, m))
<1>. DEFINE n == Len(frames)
            rest == Tail(frames)
            h == Len(sent)
            more == Append(sent, m)
<1>1. /\ n \in Nat \ {0} /\ Len(rest) = n - 1
      /\ \A f \in 1..(n - 1) : f + 1 \in 1..n /\ rest[f] = frames[f + 1]
      /\ \A f \in 1..n : f = 1 \/ (f - 1 \in 1..(n - 1) /\ rest[f - 1] = frames[f])
  BY TailAt
<1>2. /\ h \in Nat /\ Len(more) = h + 1 /\ more[h + 1] = m
      /\ \A k \in 1..h : k \in 1..(h + 1) /\ more[k] = sent[k]
      /\ \A k \in 1..(h + 1) : k \in 1..h \/ k = h + 1
  BY AppendedAt
<1>. HIDE DEF n, rest, h, more
<1>3. 1 \in 1..n /\ h + 1 \in 1..(h + 1)
  BY <1>1, <1>2
<1>4. ASSUME NEW x, NEW i \in 1..n, EndsAt(type, frames, sent, x, i)
      PROVE  EndsAt(type, rest, more, x, i - 1)
  <2>1. CASE \E f \in 1..i : LastOf(frames[f].points) = x
    <3>1. PICK f \in 1..i : LastOf(frames[f].points) = x
      BY <2>1
    <3>2. CASE f = 1
      BY <1>2, <1>3, <3>1, <3>2, Zenon DEF EndsAt
    <3>3. CASE f # 1
      <4>1. f - 1 \in 1..(i - 1) /\ f \in 1..n
        BY <1>1, <3>3
      <4>2. LastOf(rest[f - 1].points) = x
        BY <1>1, <3>1, <3>3, <4>1
      <4>. QED
        BY <4>1, <4>2, Zenon DEF EndsAt
    <3>. QED
      BY <3>2, <3>3
  <2>2. CASE \E k \in 1..h : sent[k].body.type = type /\ LastOf(sent[k].body.points) = x
    BY <1>2, <2>2, Zenon DEF EndsAt
  <2>. QED
    BY <1>4, <2>1, <2>2, Zenon DEF EndsAt, h
<1>5. EndsAt(type, rest, more, base, Len(rest))
  <2>1. EndsAt(type, frames, sent, base, n)
    BY DEF Unbroken, n
  <2>2. n \in 1..n
    BY <1>1
  <2>. QED
    BY <1>1, <1>4, <2>1, <2>2
<1>6. ASSUME NEW f \in 1..(n - 1)
      PROVE  EndsAt(type, rest, more, FirstOf(rest[f].points) - 1, f - 1)
  <2>1. f + 1 \in 1..n /\ (f + 1) - 1 = f /\ f \in 1..n /\ rest[f] = frames[f + 1]
    BY <1>1
  <2>2. EndsAt(type, frames, sent, FirstOf(frames[f + 1].points) - 1, f)
    BY <2>1 DEF Unbroken, n
  <2>. QED
    BY <1>4, <2>1, <2>2
<1>7. ASSUME NEW k \in 1..(h + 1), more[k].body.type = type
      PROVE  \/ FirstOf(more[k].body.points) = 1
             \/ \E j \in 1..(k - 1) : /\ more[j].body.type = type
                                      /\ LastOf(more[j].body.points) + 1 = FirstOf(more[k].body.points)
  <2>1. CASE k \in 1..h
    <3>1. \A j \in 1..(k - 1) : more[j] = sent[j]
      <4>1. \A j \in 1..(k - 1) : j \in 1..h
        BY <1>2, <2>1
      <4>. QED
        BY <1>2, <4>1
    <3>. QED
      BY <1>2, <1>7, <2>1, <3>1, Zenon DEF Unbroken, h
  <2>2. CASE k = h + 1
    <3>1. EndsAt(type, frames, sent, FirstOf(frames[1].points) - 1, 1 - 1)
      BY <1>3 DEF Unbroken, n
    <3>2. 1..(1 - 1) = {} /\ FirstOf(frames[1].points) \in Nat
      BY <1>3, EndsAreNumbers DEF FramesInOrder, n
    <3>3. k - 1 = h /\ more[k] = m
      BY <1>2, <2>2
    <3>4. CASE FirstOf(frames[1].points) - 1 = 0
      BY <3>2, <3>3, <3>4
    <3>5. CASE \E j \in 1..h : /\ sent[j].body.type = type
                               /\ LastOf(sent[j].body.points) = FirstOf(frames[1].points) - 1
      <4>1. PICK j \in 1..h : /\ sent[j].body.type = type
                              /\ LastOf(sent[j].body.points) = FirstOf(frames[1].points) - 1
        BY <3>5
      <4>2. LastOf(sent[j].body.points) + 1 = FirstOf(frames[1].points)
        BY <3>2, <4>1
      <4>. QED
        BY <1>2, <3>3, <4>1, <4>2
    <3>. QED
      BY <3>1, <3>2, <3>4, <3>5, Zenon DEF EndsAt, h
  <2>. QED
    BY <1>2, <2>1, <2>2
<1>. QED
  BY <1>1, <1>2, <1>5, <1>6, <1>7 DEF Unbroken, rest, more

(* With both formats.                                                      *)
LEMMA PairsJoin ==
    ASSUME NEW sent \in Seq(Message), InPairs(sent)
    PROVE  /\ \A m \in Message : m.body.type = "imu" => InPairs(Append(sent, m))
           /\ \A a, b \in Message :
                 a.body.type = "cloud" /\ b.body.type = "custom"
                 /\ FirstOf(a.body.points) = FirstOf(b.body.points)
                 /\ Len(a.body.points) = Len(b.body.points)
                 => InPairs(Append(Append(sent, a), b))
<1>. DEFINE n == Len(sent)
            Paired(seq, k) ==
                LET other == IF seq[k].body.type = "cloud" THEN k + 1 ELSE k - 1
                IN  /\ other \in 1..Len(seq)
                    /\ seq[other].body.type \notin {"imu", seq[k].body.type}
                    /\ FirstOf(seq[other].body.points) = FirstOf(seq[k].body.points)
                    /\ Len(seq[other].body.points) = Len(seq[k].body.points)
<1>1. n \in Nat /\ \A k \in 1..n : sent[k].body.type # "imu" => Paired(sent, k)
  BY LenProperties DEF InPairs
<1>2. \A seq : (\A k \in 1..Len(seq) : seq[k].body.type # "imu" => Paired(seq, k)) => InPairs(seq)
  BY DEF InPairs
<1>3. ASSUME NEW seq \in Seq(Message), NEW k \in 1..n, Paired(sent, k), n <= Len(seq),
             \A i \in 1..n : seq[i] = sent[i]
      PROVE  Paired(seq, k)
  <2>. DEFINE other == IF sent[k].body.type = "cloud" THEN k + 1 ELSE k - 1
  <2>1. other \in 1..n /\ seq[k] = sent[k]
    BY <1>3
  <2>2. seq[other] = sent[other] /\ other \in 1..Len(seq)
    <3>1. Len(seq) \in Nat
      BY LenProperties
    <3>. HIDE DEF n, other, Paired
    <3>2. \A i \in 1..n : i \in 1..Len(seq)
      BY <1>1, <1>3, <3>1
    <3>. QED
      BY <1>3, <2>1, <3>2
  <2>. HIDE DEF n
  <2>. QED
    BY <1>3, <2>1, <2>2
<1>4. ASSUME NEW m \in Message, m.body.type = "imu" PROVE InPairs(Append(sent, m))
  <2>. DEFINE more == Append(sent, m)
  <2>1. /\ more \in Seq(Message) /\ Len(more) = n + 1 /\ more[n + 1] = m
        /\ \A k \in 1..n : more[k] = sent[k]
        /\ \A k \in 1..(n + 1) : k \in 1..n \/ k = n + 1
    BY AppendedAt
  <2>. HIDE DEF more, n, Paired
  <2>2. ASSUME NEW k \in 1..(n + 1), more[k].body.type # "imu" PROVE Paired(more, k)
    <3>1. k \in 1..n
      BY <1>4, <2>1, <2>2
    <3>2. Paired(sent, k) /\ n <= Len(more)
      BY <1>1, <2>1, <2>2, <3>1
    <3>. QED
      BY <1>3, <2>1, <3>1, <3>2
  <2>. QED
    BY <1>2, <2>1, <2>2 DEF more
<1>5. ASSUME NEW a \in Message, NEW b \in Message, a.body.type = "cloud", b.body.type = "custom",
             FirstOf(a.body.points) = FirstOf(b.body.points), Len(a.body.points) = Len(b.body.points)
      PROVE  InPairs(Append(Append(sent, a), b))
  <2>. DEFINE one == Append(sent, a)
              more == Append(one, b)
  <2>1. /\ one \in Seq(Message) /\ Len(one) = n + 1 /\ one[n + 1] = a
        /\ \A k \in 1..n : one[k] = sent[k]
    BY AppendedAt
  <2>2. /\ more \in Seq(Message) /\ Len(more) = Len(one) + 1 /\ more[Len(one) + 1] = b
        /\ \A k \in 1..Len(one) : more[k] = one[k]
    BY <2>1, AppendedAt
  <2>. HIDE DEF more, one, n
  <2>3. /\ Len(more) = n + 2 /\ more[n + 1] = a /\ more[n + 2] = b
        /\ \A k \in 1..n : more[k] = sent[k]
        /\ \A k \in 1..(n + 2) : k \in 1..n \/ k = n + 1 \/ k = n + 2
    <3>1. Len(more) = n + 2 /\ n + 1 \in 1..Len(one) /\ (n + 1) + 1 = n + 2
          /\ \A k \in 1..n : k \in 1..Len(one)
      BY <1>1, <2>1, <2>2
    <3>2. \A k \in 1..(n + 2) : k \in 1..n \/ k = n + 1 \/ k = n + 2
      BY <1>1
    <3>. QED
      BY <2>1, <2>2, <3>1, <3>2
  <2>4. ASSUME NEW k \in 1..(n + 2), more[k].body.type # "imu" PROVE Paired(more, k)
    <3>1. CASE k \in 1..n
      <4>1. Paired(sent, k) /\ n <= Len(more)
        <5>. HIDE DEF Paired
        <5>1. n <= n + 2 /\ more[k] = sent[k]
          BY <1>1, <2>3, <3>1
        <5>. QED
          BY <1>1, <2>3, <2>4, <3>1, <5>1
      <4>. HIDE DEF Paired
      <4>. QED
        BY <1>3, <2>2, <2>3, <3>1, <4>1
    <3>2. CASE k = n + 1
      <4>1. more[k] = a /\ k + 1 = n + 2 /\ n + 2 \in 1..Len(more)
        BY <1>1, <2>3, <3>2
      <4>. QED
        BY <1>5, <2>3, <4>1
    <3>3. CASE k = n + 2
      <4>1. more[k] = b /\ k - 1 = n + 1 /\ n + 1 \in 1..Len(more)
        BY <1>1, <2>3, <3>3
      <4>. QED
        BY <1>5, <2>3, <4>1
    <3>. QED
      BY <2>3, <3>1, <3>2, <3>3
  <2>. HIDE DEF Paired
  <2>. QED
    BY <1>2, <2>3, <2>4 DEF more, one
<1>. QED
  BY <1>4, <1>5

LEMMA SlotsAgree ==
    ASSUME MsgSettings, NEW j \in Sources, NEW k \in Sources
    PROVE  /\ \A slot \in DOMAIN GetCurrentPublisher(j) \cap DOMAIN GetCurrentPublisher(k) :
                 GetCurrentPublisher(j)[slot] = GetCurrentPublisher(k)[slot]
           /\ \A slot \in DOMAIN GetCurrentImuPublisher(j) \cap DOMAIN GetCurrentImuPublisher(k) :
                 GetCurrentImuPublisher(j)[slot] = GetCurrentImuPublisher(k)[slot]
           /\ DOMAIN GetCurrentPublisher(j) \cap DOMAIN GetCurrentImuPublisher(k) = {}
<1>1. CASE use_multi_topic_
  <2>1. /\ DOMAIN GetCurrentPublisher(j) = {<<"private_pub_", j>>}
        /\ DOMAIN GetCurrentPublisher(k) = {<<"private_pub_", k>>}
        /\ DOMAIN GetCurrentImuPublisher(j) = {<<"private_imu_pub_", j>>}
        /\ DOMAIN GetCurrentImuPublisher(k) = {<<"private_imu_pub_", k>>}
    BY <1>1 DEF GetCurrentPublisher, GetCurrentImuPublisher
  <2>2. /\ <<"private_pub_", j>> = <<"private_pub_", k>> => j = k
        /\ <<"private_imu_pub_", j>> = <<"private_imu_pub_", k>> => j = k
        /\ <<"private_pub_", j>> # <<"private_imu_pub_", k>>
    OBVIOUS
  <2>. QED
    BY <2>1, <2>2
<1>2. CASE ~use_multi_topic_
  <2>1. /\ GetCurrentPublisher(j) = GetCurrentPublisher(k)
        /\ GetCurrentImuPublisher(j) = GetCurrentImuPublisher(k)
        /\ DOMAIN GetCurrentPublisher(j) \subseteq {"global_pub_", "global_pub_2_"}
        /\ DOMAIN GetCurrentImuPublisher(k) = {"global_imu_pub_"}
    BY <1>2 DEF GetCurrentPublisher, GetCurrentImuPublisher
  <2>. QED
    BY <2>1
<1>. QED
  BY <1>1, <1>2

LEMMA Cardinalities ==
    Cardinality({"cloud"}) = 1 /\ Cardinality({"custom"}) = 1 /\ Cardinality({"cloud", "custom"}) = 2
<1>1. Cardinality({"cloud"}) = 1 /\ Cardinality({"custom"}) = 1 /\ IsFiniteSet({"cloud"})
  BY FS_Singleton
<1>2. {"cloud", "custom"} = {"cloud"} \cup {"custom"} /\ "custom" \notin {"cloud"}
  OBVIOUS
<1>3. Cardinality({"cloud"} \cup {"custom"}) = Cardinality({"cloud"}) + 1
  BY <1>1, <1>2, FS_AddElement
<1>. QED
  BY <1>1, <1>2, <1>3

LEMMA HandleKept ==
    ASSUME NEW l \in Sources
    PROVE  /\ handle(l) \in Nat
           /\ l \in DOMAIN Configured => \A k \in Sources \ {l} : handle(k) # handle(l)
<1>1. \A k \in DOMAIN Configured : k \in Nat \ {0}
  BY LidarMessagesAssumption
<1>. QED
  BY <1>1 DEF handle

LEMMA PointTopic ==
    ASSUME MsgSettings, PublishersKept, NEW l \in Sources,
           pub' = Created(GetCurrentPublisher(l)), UNCHANGED <<transfer_format_, use_multi_topic_>>
    PROVE  /\ PublishersKept'
           /\ \A type \in transfer_format_ :
                 LET topic == TopicFor(GetCurrentPublisher(l), pub', type)
                 IN  /\ topic \in Topics
                     /\ use_multi_topic_ => topic = <<"livox/lidar_", handle(l)>>
<1>. DEFINE asked == GetCurrentPublisher(l)
<1>1. /\ DOMAIN pub' = DOMAIN pub \cup DOMAIN asked
      /\ \A slot \in DOMAIN pub' : pub'[slot] = IF slot \in DOMAIN pub THEN pub[slot] ELSE asked[slot]
  BY DEF Created
<1>2. \A k \in Sources : /\ GetCurrentPublisher(k)' = GetCurrentPublisher(k)
                         /\ GetCurrentImuPublisher(k)' = GetCurrentImuPublisher(k)
  BY DEF GetCurrentPublisher, GetCurrentImuPublisher
<1>3. PublishersKept'
  <2>. SUFFICES ASSUME NEW k \in Sources
                PROVE  /\ \A slot \in DOMAIN pub' \cap DOMAIN GetCurrentPublisher(k) :
                             pub'[slot] = GetCurrentPublisher(k)[slot]
                       /\ \A slot \in DOMAIN pub' \cap DOMAIN GetCurrentImuPublisher(k) :
                             pub'[slot] = GetCurrentImuPublisher(k)[slot]
    BY <1>2 DEF PublishersKept
  <2>. QED
    BY <1>1, SlotsAgree DEF PublishersKept
<1>4. \A slot \in DOMAIN asked : pub'[slot] = asked[slot]
  BY <1>1 DEF PublishersKept
<1>5. ASSUME NEW type \in transfer_format_
      PROVE  LET topic == TopicFor(asked, pub', type)
             IN  /\ topic \in Topics
                 /\ use_multi_topic_ => topic = <<"livox/lidar_", handle(l)>>
  <2>. DEFINE slot == CHOOSE s \in DOMAIN asked : type \in pub'[s].types
  <2>1. \E s \in DOMAIN asked : type \in pub'[s].types
    <3>1. \E s \in DOMAIN asked : type \in asked[s].types
      <4>1. CASE use_multi_topic_
        BY <4>1 DEF GetCurrentPublisher
      <4>2. CASE ~use_multi_topic_ /\ Cardinality(transfer_format_) = 2
        <5>1. type \in {"cloud", "custom"}
          BY DEF MsgSettings
        <5>2. /\ asked["global_pub_"].types = {"custom"} /\ asked["global_pub_2_"].types = {"cloud"}
              /\ DOMAIN asked = {"global_pub_", "global_pub_2_"}
          BY <4>2 DEF GetCurrentPublisher
        <5>. QED
          BY <5>1, <5>2
      <4>3. CASE ~use_multi_topic_ /\ Cardinality(transfer_format_) # 2
        BY <4>3 DEF GetCurrentPublisher
      <4>. QED
        BY <4>1, <4>2, <4>3
    <3>. QED
      BY <1>4, <3>1
  <2>2. slot \in DOMAIN asked
    BY <2>1
  <2>3. TopicFor(asked, pub', type) = asked[slot].topic
    BY <1>4, <2>2 DEF TopicFor
  <2>. HIDE DEF slot
  <2>4. CASE use_multi_topic_
    <3>1. asked[slot].topic = <<"livox/lidar_", handle(l)>>
      BY <2>2, <2>4 DEF GetCurrentPublisher
    <3>. QED
      BY <2>3, <3>1, HandleKept DEF Topics
  <2>5. CASE ~use_multi_topic_
    <3>1. asked[slot].topic \in {"livox/lidar", "livox/lidar/pointcloud"}
      BY <2>2, <2>5 DEF GetCurrentPublisher
    <3>. QED
      BY <2>3, <2>5, <3>1 DEF Topics
  <2>. QED
    BY <2>4, <2>5
<1>. QED
  BY <1>3, <1>5

LEMMA ImuTopic ==
    ASSUME MsgSettings, PublishersKept, NEW l \in Sources,
           pub' = Created(GetCurrentImuPublisher(l)), UNCHANGED <<transfer_format_, use_multi_topic_>>
    PROVE  /\ PublishersKept'
           /\ LET topic == TopicFor(GetCurrentImuPublisher(l), pub', "imu")
              IN  /\ topic \in Topics
                  /\ use_multi_topic_ => topic = <<"livox/imu_", handle(l)>>
<1>. DEFINE asked == GetCurrentImuPublisher(l)
<1>1. /\ DOMAIN pub' = DOMAIN pub \cup DOMAIN asked
      /\ \A slot \in DOMAIN pub' : pub'[slot] = IF slot \in DOMAIN pub THEN pub[slot] ELSE asked[slot]
  BY DEF Created
<1>2. \A k \in Sources : /\ GetCurrentPublisher(k)' = GetCurrentPublisher(k)
                         /\ GetCurrentImuPublisher(k)' = GetCurrentImuPublisher(k)
  BY DEF GetCurrentPublisher, GetCurrentImuPublisher
<1>3. PublishersKept'
  <2>. SUFFICES ASSUME NEW k \in Sources
                PROVE  /\ \A slot \in DOMAIN pub' \cap DOMAIN GetCurrentPublisher(k) :
                             pub'[slot] = GetCurrentPublisher(k)[slot]
                       /\ \A slot \in DOMAIN pub' \cap DOMAIN GetCurrentImuPublisher(k) :
                             pub'[slot] = GetCurrentImuPublisher(k)[slot]
    BY <1>2 DEF PublishersKept
  <2>. QED
    BY <1>1, SlotsAgree DEF PublishersKept
<1>4. \A slot \in DOMAIN asked : pub'[slot] = asked[slot]
  BY <1>1 DEF PublishersKept
<1>. DEFINE slot == CHOOSE s \in DOMAIN asked : "imu" \in pub'[s].types
<1>5. \E s \in DOMAIN asked : "imu" \in asked[s].types
  BY DEF GetCurrentImuPublisher
<1>6. slot \in DOMAIN asked
  BY <1>4, <1>5
<1>7. TopicFor(asked, pub', "imu") = asked[slot].topic
  BY <1>4, <1>6 DEF TopicFor
<1>. HIDE DEF slot
<1>8. CASE use_multi_topic_
  <2>1. asked[slot].topic = <<"livox/imu_", handle(l)>>
    BY <1>6, <1>8 DEF GetCurrentImuPublisher
  <2>. QED
    BY <1>3, <1>7, <2>1, HandleKept DEF Topics
<1>9. CASE ~use_multi_topic_
  <2>1. asked[slot].topic = "livox/imu"
    BY <1>6, <1>9 DEF GetCurrentImuPublisher
  <2>. QED
    BY <1>3, <1>7, <1>9, <2>1 DEF Topics
<1>. QED
  BY <1>8, <1>9

LEMMA TenthIsClose ==
    ASSUME NEW a \in Int
    PROVE  /\ Tenth(a) \in Int
           /\ 10 * Tenth(a) - a < 10 /\ a - 10 * Tenth(a) < 10
           /\ a % 10 = 0 => 10 * Tenth(a) = a
<1>1. \A b \in Int : /\ b \div 10 \in Int /\ b % 10 \in 0..9
                     /\ b = 10 * (b \div 10) + (b % 10)
  OBVIOUS
<1>2. CASE a >= 0
  BY <1>1, <1>2 DEF Tenth
<1>3. CASE ~(a >= 0)
  <2>1. Tenth(a) = -((-a) \div 10) /\ -a \in Int
    BY <1>3 DEF Tenth
  <2>2. a % 10 = 0 => (-a) % 10 = 0
    <3>1. a % 10 = 0 => -a = 10 * (-(a \div 10))
      BY <1>1
    <3>. QED
      BY <1>1, <3>1
  <2>. QED
    BY <1>1, <2>1, <2>2
<1>. QED
  BY <1>2, <1>3

(* Where a lidar is mounted, and what is kept of it.                       *)
LEMMA MountingKept ==
    ASSUME NEW l \in Sources
    PROVE  /\ Mounting(l).yaw \in 0..3 /\ Mounting(l).x \in Int /\ Mounting(l).y \in Int
           /\ Extrinsic(l).yaw = Mounting(l).yaw
           /\ IF l \in DOMAIN Configured /\ pcl_data_type[l] = "low"
              THEN Extrinsic(l).x = Tenth(Mounting(l).x) /\ Extrinsic(l).y = Tenth(Mounting(l).y)
              ELSE Extrinsic(l).x = Mounting(l).x /\ Extrinsic(l).y = Mounting(l).y
<1>1. CASE l \notin DOMAIN Configured
  <2>1. DOMAIN <<>> = {}
    OBVIOUS
  <2>2. ParseExtrinsics(<<>>) = [m \in {"yaw", "x", "y"} |-> 0]
    BY <2>1 DEF ParseExtrinsics
  <2>. QED
    BY <1>1, <2>2 DEF Mounting, Extrinsic
<1>2. CASE l \in DOMAIN Configured
  <2>. DEFINE param == ParseExtrinsics(Configured[l])
  <2>1. /\ \A m \in DOMAIN Configured[l] : Configured[l][m] \in Int
        /\ "yaw" \in DOMAIN Configured[l] => Configured[l].yaw \in 0..3
    BY <1>2, LidarMessagesAssumption
  <2>2. /\ DOMAIN param = {"yaw", "x", "y"} /\ param.x \in Int /\ param.y \in Int
        /\ param.yaw \in 0..3
    BY <2>1 DEF ParseExtrinsics
  <2>3. Mounting(l) = param
    BY <1>2 DEF Mounting
  <2>. HIDE DEF param
  <2>4. LET p2 == [param EXCEPT !.x = Tenth(param.x), !.y = Tenth(param.y)]
        IN  p2.yaw = param.yaw /\ p2.x = Tenth(param.x) /\ p2.y = Tenth(param.y)
    BY <2>2
  <2>5. Extrinsic(l) = IF pcl_data_type[l] = "low"
                       THEN [param EXCEPT !.x = Tenth(param.x), !.y = Tenth(param.y)] ELSE param
    BY <1>2 DEF Extrinsic, LidarParam, param
  <2>. QED
    BY <1>2, <2>2, <2>3, <2>4, <2>5
<1>. QED
  BY <1>1, <1>2

LEMMA TurnsStay ==
    ASSUME NEW yaw \in 0..3, NEW a \in Int, NEW b \in Int
    PROVE  /\ Turn4(yaw, <<a, b>>) \in Int \X Int
           /\ yaw = 0 => Turn4(yaw, <<a, b>>) = <<a, b>>
           /\ yaw = 1 => Turn4(yaw, <<a, b>>) = <<-b, a>>
           /\ yaw = 2 => Turn4(yaw, <<a, b>>) = <<-a, -b>>
           /\ yaw = 3 => Turn4(yaw, <<a, b>>) = <<b, -a>>
BY DEF Turn4

LEMMA AxisTurns ==
    ASSUME NEW a \in Int
    PROVE  /\ Turn4(0, <<a, 0>>) = <<a, 0>> /\ Turn4(1, <<a, 0>>) = <<0, a>>
           /\ Turn4(2, <<-a, 0>>) = <<a, 0>> /\ Turn4(3, <<-a, 0>>) = <<0, a>>
<1>1. -a \in Int /\ -(-a) = a
  OBVIOUS
<1>. QED
  BY <1>1 DEF Turn4

LEMMA DirectionFound ==
    ASSUME NEW p \in Places
    PROVE  LET r == Raw("spherical", p)
           IN  r[1] \in Int /\ r[2] \in 0..3 /\ Turn4(r[2], <<r[1], 0>>) = p
<1>. DEFINE R == {p[1] + p[2], -(p[1] + p[2])} \X (0..3)
            Fits(r) == r[1] >= 0 /\ Turn4(r[2], <<r[1], 0>>) = p
<1>1. /\ p[1] \in Int /\ p[2] \in Int /\ p = <<p[1], p[2]>> /\ (p[1] = 0 \/ p[2] = 0)
  BY DEF Places
<1>2. \E r \in R : Fits(r)
  <2>1. /\ Turn4(0, <<p[1], 0>>) = <<p[1], 0>> /\ Turn4(1, <<p[2], 0>>) = <<0, p[2]>>
        /\ Turn4(2, <<-p[1], 0>>) = <<p[1], 0>> /\ Turn4(3, <<-p[2], 0>>) = <<0, p[2]>>
    BY <1>1, AxisTurns, Zenon
  <2>. DEFINE s == p[1] + p[2]
  <2>2. /\ p[2] = 0 => s = p[1] /\ -s = -p[1]
        /\ p[1] = 0 => s = p[2] /\ -s = -p[2]
    BY <1>1
  <2>3. 0 \in 0..3 /\ 1 \in 0..3 /\ 2 \in 0..3 /\ 3 \in 0..3
    OBVIOUS
  <2>4. s \in Int /\ (s >= 0 \/ -s >= 0)
    BY <1>1
  <2>. HIDE DEF s
  <2>5. R = {s, -s} \X (0..3)
    BY DEF s
  <2>6. \A d \in 0..3 : <<s, d>> \in R /\ <<-s, d>> \in R
    BY <2>5
  <2>7. \A x, d : x >= 0 /\ Turn4(d, <<x, 0>>) = p => Fits(<<x, d>>)
    OBVIOUS
  <2>. HIDE DEF R, Fits
  <2>8. CASE p[2] = 0
    <3>1. Turn4(0, <<s, 0>>) = p /\ Turn4(2, <<-s, 0>>) = p
      BY <1>1, <2>1, <2>2, <2>8
    <3>. QED
      BY <2>3, <2>4, <2>6, <2>7, <3>1, Zenon
  <2>9. CASE p[1] = 0
    <3>1. Turn4(1, <<s, 0>>) = p /\ Turn4(3, <<-s, 0>>) = p
      BY <1>1, <2>1, <2>2, <2>9
    <3>. QED
      BY <2>3, <2>4, <2>6, <2>7, <3>1, Zenon
  <2>. QED
    BY <1>1, <2>8, <2>9
<1>3. Raw("spherical", p) = CHOOSE r \in R : Fits(r)
  BY DEF Raw
<1>4. Raw("spherical", p) \in R /\ Fits(Raw("spherical", p))
  <2>. HIDE DEF R, Fits
  <2>. QED
    BY <1>2, <1>3, Zenon
<1>5. \A r \in R : r[1] \in Int /\ r[2] \in 0..3
  BY <1>1
<1>. QED
  BY <1>4, <1>5

(* What is made of a place the lidar measured is where the place lies.     *)
LEMMA PlaceFound ==
    ASSUME MsgSettings, NEW l \in Sources, NEW p \in Places
    PROVE  LET pos == LivoxLidarPointCloudProcess(data_type[l], Raw(data_type[l], p), Extrinsic(l))
           IN  pos \in Int \X Int /\ Near(l, pos, p, Exact(l))
<1>. DEFINE e == Extrinsic(l)
            m == Mounting(l)
            t == Turn4(m.yaw, p)
            pos == LivoxLidarPointCloudProcess(data_type[l], Raw(data_type[l], p), e)
            right == l \in DOMAIN Configured => (pcl_data_type[l] = "low" <=> data_type[l] = "low")
<1>1. /\ p[1] \in Int /\ p[2] \in Int /\ p = <<p[1], p[2]>>
      /\ p[1] % 10 = 0 /\ p[2] % 10 = 0
  BY DEF Places
<1>2. /\ m.yaw \in 0..3 /\ m.x \in Int /\ m.y \in Int /\ e.yaw = m.yaw /\ e.x \in Int /\ e.y \in Int
  <2>1. m.yaw \in 0..3 /\ m.x \in Int /\ m.y \in Int /\ e.yaw = m.yaw
    BY MountingKept
  <2>2. Tenth(m.x) \in Int /\ Tenth(m.y) \in Int
    BY <2>1, TenthIsClose
  <2>. QED
    BY <2>1, <2>2, MountingKept
<1>3. /\ t \in Int \X Int /\ t[1] \in Int /\ t[2] \in Int
      /\ m.yaw = 0 => t = <<p[1], p[2]>>
      /\ m.yaw = 1 => t = <<-p[2], p[1]>>
      /\ m.yaw = 2 => t = <<-p[1], -p[2]>>
      /\ m.yaw = 3 => t = <<p[2], -p[1]>>
  <2>1. t = Turn4(m.yaw, <<p[1], p[2]>>)
    BY <1>1
  <2>. HIDE DEF t, m
  <2>2. /\ t \in Int \X Int
        /\ m.yaw = 0 => t = <<p[1], p[2]>>
        /\ m.yaw = 1 => t = <<-p[2], p[1]>>
        /\ m.yaw = 2 => t = <<-p[1], -p[2]>>
        /\ m.yaw = 3 => t = <<p[2], -p[1]>>
    <3>1. p[1] \in Int /\ p[2] \in Int /\ m.yaw \in 0..3
      BY <1>1, <1>2
    <3>. QED
      BY <2>1, <3>1, TurnsStay
  <2>. QED
    BY <2>2
<1>4. /\ Placed(l, p)[1] = t[1] + m.x /\ Placed(l, p)[2] = t[2] + m.y
  BY DEF Placed, Sum2
<1>5. \A a, b \in Int : Off(a, a) = 0 /\ (a - b < 10 /\ b - a < 10 => Off(a, b) < 10)
  BY DEF Off
<1>6. CASE data_type[l] \in {"high", "spherical"}
  <2>1. pos = Sum2(t, <<e.x, e.y>>)
    <3>1. CASE data_type[l] = "high"
      BY <1>2, <3>1 DEF LivoxLidarPointCloudProcess, Raw, ProcessCartesianHighPoint
    <3>2. CASE data_type[l] = "spherical"
      <4>1. pos = Sum2(Turn4(e.yaw, Turn4(Raw("spherical", p)[2], <<Raw("spherical", p)[1], 0>>)), <<e.x, e.y>>)
        BY <3>2 DEF LivoxLidarPointCloudProcess, ProcessSphericalPoint
      <4>. QED
        BY <1>2, <4>1, DirectionFound, Zenon
    <3>. QED
      BY <1>6, <3>1, <3>2
  <2>2. pos = <<t[1] + e.x, t[2] + e.y>>
    BY <2>1 DEF Sum2
  <2>3. right => e.x = m.x /\ e.y = m.y
    BY <1>6, MountingKept
  <2>. HIDE DEF pos, t, e, m
  <2>4. pos \in Int \X Int /\ pos[1] = t[1] + e.x /\ pos[2] = t[2] + e.y
    BY <1>2, <1>3, <2>2
  <2>5. ASSUME right, NEW c \in 1..2 PROVE Off(pos[c], Placed(l, p)[c]) < 10
    <3>1. /\ Off(pos[1], Placed(l, p)[1]) = 0 /\ Off(pos[2], Placed(l, p)[2]) = 0
      BY <1>2, <1>3, <1>4, <1>5, <2>3, <2>4, <2>5
    <3>. QED
      BY <3>1
  <2>6. Near(l, pos, p, Exact(l))
    BY <2>5 DEF Near, Exact, right
  <2>. QED
    BY <2>4, <2>6 DEF pos, e
<1>7. CASE data_type[l] = "low"
  <2>. DEFINE q == <<Tenth(p[1]), Tenth(p[2])>>
              u == Turn4(m.yaw, q)
  <2>1. /\ Tenth(p[1]) \in Int /\ Tenth(p[2]) \in Int
        /\ 10 * Tenth(p[1]) = p[1] /\ 10 * Tenth(p[2]) = p[2]
    BY <1>1, TenthIsClose
  <2>2. /\ u[1] \in Int /\ u[2] \in Int /\ 10 * u[1] = t[1] /\ 10 * u[2] = t[2]
    <3>1. m.yaw = 0 \/ m.yaw = 1 \/ m.yaw = 2 \/ m.yaw = 3
      BY <1>2
    <3>2. /\ m.yaw = 0 => u = <<Tenth(p[1]), Tenth(p[2])>> /\ t = <<p[1], p[2]>>
          /\ m.yaw = 1 => u = <<-Tenth(p[2]), Tenth(p[1])>> /\ t = <<-p[2], p[1]>>
          /\ m.yaw = 2 => u = <<-Tenth(p[1]), -Tenth(p[2])>> /\ t = <<-p[1], -p[2]>>
          /\ m.yaw = 3 => u = <<Tenth(p[2]), -Tenth(p[1])>> /\ t = <<p[2], -p[1]>>
      <4>1. /\ m.yaw = 0 => u = <<Tenth(p[1]), Tenth(p[2])>>
            /\ m.yaw = 1 => u = <<-Tenth(p[2]), Tenth(p[1])>>
            /\ m.yaw = 2 => u = <<-Tenth(p[1]), -Tenth(p[2])>>
            /\ m.yaw = 3 => u = <<Tenth(p[2]), -Tenth(p[1])>>
        <5>. HIDE DEF m
        <5>. QED
          BY <1>2, <2>1, TurnsStay
      <4>. QED
        BY <1>3, <4>1
    <3>. HIDE DEF u, t, m
    <3>. QED
      BY <1>1, <2>1, <3>1, <3>2
  <2>3. pos = <<10 * (u[1] + e.x), 10 * (u[2] + e.y)>>
    BY <1>2, <1>7 DEF LivoxLidarPointCloudProcess, Raw, ProcessCartesianLowPoint, Scaled, Sum2
  <2>4. l \in DOMAIN Configured
    BY <1>7 DEF MsgSettings, Sources
  <2>5. right => e.x = Tenth(m.x) /\ e.y = Tenth(m.y)
    BY <1>7, <2>4, MountingKept
  <2>6. /\ 10 * Tenth(m.x) - m.x < 10 /\ m.x - 10 * Tenth(m.x) < 10
        /\ 10 * Tenth(m.y) - m.y < 10 /\ m.y - 10 * Tenth(m.y) < 10
    BY <1>2, TenthIsClose
  <2>. HIDE DEF pos, t, e, m, u
  <2>7. pos \in Int \X Int /\ pos[1] = t[1] + 10 * e.x /\ pos[2] = t[2] + 10 * e.y
    BY <1>2, <1>3, <2>2, <2>3
  <2>8. ASSUME right, NEW c \in 1..2 PROVE Off(pos[c], Placed(l, p)[c]) < 10
    <3>1. /\ pos[1] - Placed(l, p)[1] < 10 /\ Placed(l, p)[1] - pos[1] < 10
          /\ pos[2] - Placed(l, p)[2] < 10 /\ Placed(l, p)[2] - pos[2] < 10
          /\ pos[1] \in Int /\ pos[2] \in Int /\ Placed(l, p)[1] \in Int /\ Placed(l, p)[2] \in Int
      BY <1>2, <1>3, <1>4, <2>5, <2>6, <2>7, <2>8
    <3>. QED
      BY <1>5, <3>1
  <2>9. Near(l, pos, p, Exact(l))
    BY <2>8 DEF Near, Exact, right
  <2>. QED
    BY <2>7, <2>9 DEF pos, e
<1>8. data_type[l] \in {"high", "low", "spherical"}
  BY DEF MsgSettings, DataTypes
<1>. QED
  BY <1>6, <1>7, <1>8

LEMMA DoubleIsClose ==
    ASSUME NEW t \in Nat
    PROVE  AsDouble(t) \in Int /\ 2 * Off(AsDouble(t), t) <= Granule
<1>. DEFINE q == t \div Granule
            r == t % Granule
<1>1. Granule \in Nat \ {0}
  BY LidarMessagesAssumption
<1>2. q \in Int /\ r \in 0..(Granule - 1) /\ t = Granule * q + r
  BY <1>1
<1>3. AsDouble(t) = IF 2 * r < Granule \/ (2 * r = Granule /\ q % 2 = 0)
                    THEN q * Granule ELSE (q + 1) * Granule
  BY DEF AsDouble
<1>4. q * Granule \in Int /\ q * Granule = Granule * q /\ (q + 1) * Granule = q * Granule + Granule
  <2>. HIDE DEF q
  <2>. QED
    BY <1>1, <1>2
<1>. DEFINE g == q * Granule
<1>. HIDE DEF q, r
<1>5. AsDouble(t) \in {g, g + Granule} /\ g \in Int /\ t = g + r
      /\ (AsDouble(t) = g => 2 * r <= Granule)
      /\ (AsDouble(t) = g + Granule => 2 * r >= Granule)
  BY <1>1, <1>2, <1>3, <1>4
<1>. HIDE DEF g
<1>. QED
  BY <1>1, <1>2, <1>5 DEF Off

LEMMA JoinedAt ==
    ASSUME NEW S, NEW s \in Seq(S), NEW t \in Seq(S)
    PROVE  /\ s \o t \in Seq(S) /\ Len(s) \in Nat /\ Len(t) \in Nat /\ Len(s \o t) = Len(s) + Len(t)
           /\ \A i \in 1..Len(s) : i \in 1..(Len(s) + Len(t)) /\ (s \o t)[i] = s[i]
           /\ \A i \in 1..Len(t) : Len(s) + i \in 1..(Len(s) + Len(t)) /\ (s \o t)[Len(s) + i] = t[i]
           /\ \A i \in 1..(Len(s) + Len(t)) :
                 i \in 1..Len(s) \/ (i - Len(s) \in 1..Len(t) /\ Len(s) + (i - Len(s)) = i)
<1>. DEFINE m == Len(s)
            n == Len(t)
            u == s \o t
<1>1. m \in Nat /\ n \in Nat
  BY LenProperties
<1>2. u \in Seq(S) /\ Len(u) = m + n
      /\ \A i \in 1..(m + n) : u[i] = IF i <= m THEN s[i] ELSE t[i - m]
  BY ConcatProperties
<1>. HIDE DEF m, n, u
<1>3. /\ \A i \in 1..m : i \in 1..(m + n) /\ i <= m
      /\ \A i \in 1..n : m + i \in 1..(m + n) /\ ~(m + i <= m) /\ (m + i) - m = i
      /\ \A i \in 1..(m + n) : i \in 1..m \/ (i - m \in 1..n /\ m + (i - m) = i)
  BY <1>1
<1>4. /\ \A i \in 1..m : u[i] = s[i]
      /\ \A i \in 1..n : u[m + i] = t[i]
  BY <1>2, <1>3
<1>. QED
  BY <1>1, <1>2, <1>3, <1>4 DEF m, n, u

(* What is known of a point stays known while more is measured.            *)
LEMMA StillTold ==
    ASSUME NEW S, NEW known \in Seq(S), NEW more \in Seq(S), NEW l, NEW exact
    PROVE  /\ \A p : PointTells(l, p, known, exact) => PointTells(l, p, known \o more, exact)
           /\ \A f : FrameOfPoints(l, f, known, exact) => FrameOfPoints(l, f, known \o more, exact)
           /\ \A m : BodyTells(l, m, known, exact) => BodyTells(l, m, known \o more, exact)
<1>. DEFINE all == known \o more
<1>1. \A i \in 1..Len(known) : i \in 1..Len(all) /\ all[i] = known[i]
  BY JoinedAt
<1>. HIDE DEF all
<1>2. ASSUME NEW p, PointTells(l, p, known, exact) PROVE PointTells(l, p, all, exact)
  BY <1>1, <1>2, Zenon DEF PointTells
<1>3. ASSUME NEW f, FrameOfPoints(l, f, known, exact) PROVE FrameOfPoints(l, f, all, exact)
  BY <1>2, <1>3, Zenon DEF FrameOfPoints
<1>4. ASSUME NEW m, BodyTells(l, m, known, exact) PROVE BodyTells(l, m, all, exact)
  <2>1. CASE m.type = "imu"
    BY <1>4, <2>1, Zenon DEF BodyTells
  <2>2. CASE m.type # "imu"
    <3>1. Len(m.points) \in Nat \ {0}
      BY <1>4, <2>2, Zenon DEF BodyTells
    <3>2. \A i \in 1..Len(m.points) : m.points[i].num \in 1..Len(known)
      BY <1>4, <2>2, Zenon DEF BodyTells
    <3>3. 1 \in 1..Len(m.points)
      BY <3>1
    <3>4. \A i \in 1..Len(m.points) : /\ m.points[i].num \in 1..Len(all)
                                      /\ all[m.points[i].num] = known[m.points[i].num]
      BY <1>1, <3>2
    <3>. QED
      BY <1>4, <2>2, <3>1, <3>3, <3>4, Zenon DEF BodyTells
  <2>. QED
    BY <2>1, <2>2
<1>. QED
  BY <1>2, <1>3, <1>4 DEF all

LEMMA MsgInitially == MsgInit => MsgInv
<1>. SUFFICES ASSUME MsgInit PROVE MsgInv
  OBVIOUS
<1>1. Len(<<>>) = 0 /\ 1..0 = {} /\ (\A S : <<>> \in Seq(S))
  BY EmptySeq
<1>2. \A l \in Sources : /\ points_clouds_[l] = <<>> /\ stored[l] = <<>> /\ imu_data_queue_[l] = <<>>
                         /\ messages[l] = <<>> /\ measured[l] = <<>> /\ ~is_set_extrinsic_params_[l]
  BY DEF MsgInit
<1>3. MsgSettings
  BY DEF MsgInit, MsgSettings
<1>4. MsgTypes
  BY <1>1 DEF MsgInit, MsgTypes
<1>5. MsgOrder
  <2>. SUFFICES ASSUME NEW l \in Sources PROVE PassedOn(l)
    BY DEF MsgOrder
  <2>1. Cut(l) = 0
    BY <1>1, <1>2 DEF Cut
  <2>2. Gathered(l)
    BY <1>1, <1>2 DEF Gathered
  <2>3. FramesInOrder(0, <<>>) /\ SentInOrder(0, <<>>, <<>>) /\ InPairs(<<>>)
    BY <1>1 DEF FramesInOrder, SentInOrder, InPairs
  <2>4. \A type : Unbroken(type, 0, <<>>, <<>>)
    BY <1>1 DEF Unbroken, EndsAt
  <2>. QED
    BY <1>1, <1>2, <2>1, <2>2, <2>3, <2>4 DEF PassedOn
<1>6. MsgContents
  <2>1. Heard = {} /\ extrinsic_global = 0
    BY <1>2 DEF Heard, MsgInit, Sources
  <2>2. \A l \in Sources : SampleTells(l, [turn |-> extrinsic_global, heard |-> Heard])
    BY <2>1 DEF SampleTells
  <2>. QED
    BY <1>1, <1>2, <2>2 DEF MsgContents
<1>7. MsgTopics
  <2>1. DOMAIN pub = {}
    BY DEF MsgInit
  <2>2. PublishersKept
    BY <2>1 DEF PublishersKept
  <2>. QED
    BY <1>1, <1>2, <2>2 DEF MsgTopics, OnItsTopic
<1>. QED
  BY <1>3, <1>4, <1>5, <1>6, <1>7 DEF MsgInv

(* A packet adds to what is measured and to the points of the next frame.  *)
LEMMA PacketKeeps ==
    ASSUME MsgInv, NEW l \in Sources, NEW time \in PacketTimes, NextPacket(l, time)
    PROVE  MsgInv'
<1>. USE DEF MsgInv
<1>1. PICK places \in Seq(Places) : PointCloudProcess(l, places, time)
  <2>1. PICK k \in DOMAIN PacketsOf[l] : PointCloudProcess(l, PacketsOf[l][k], time)
    BY DEF NextPacket
  <2>2. PacketsOf[l] \in Seq(Seq(Places))
    BY LidarMessagesAssumption
  <2>3. PacketsOf[l][k] \in Seq(Places)
    BY <2>2, ElementOfSeq, LenProperties
  <2>. QED
    BY <2>1, <2>3
<1>. DEFINE n == Len(places)
            P == points_clouds_[l]
            M == measured[l]
            stamp(i) == time + (i - 1) * PointInterval
            pos(i) == LivoxLidarPointCloudProcess(data_type[l], Raw(data_type[l], places[i]), Extrinsic(l))
            more == [i \in 1..n |-> [pos |-> places[i], time |-> stamp(i)]]
            new == [i \in 1..n |-> [pos |-> pos(i), offset_time |-> stamp(i), num |-> Len(M) + i]]
<1>2. n \in Nat /\ DOMAIN places = 1..n /\ \A i \in 1..n : places[i] \in Places
  BY LenProperties, ElementOfSeq
<1>3. P \in Seq(Point) /\ M \in Seq(Measurement) /\ Len(M) \in Nat /\ Len(P) \in Nat
  BY LenProperties DEF MsgTypes
<1>4. /\ measured' = [measured EXCEPT ![l] = M \o more]
      /\ points_clouds_' = [points_clouds_ EXCEPT ![l] = P \o new]
      /\ UNCHANGED <<transfer_format_, use_multi_topic_, pcl_data_type, data_type, stored,
                     imu_data_queue_, pub, messages, dropped, samples>>
  BY <1>1, <1>2 DEF PointCloudProcess
<1>5. \A i \in 1..n : stamp(i) \in Nat
  <2>1. \A i \in 1..n : i - 1 \in Nat
    BY <1>2
  <2>2. time \in Nat /\ PointInterval \in Nat
    BY LidarMessagesAssumption
  <2>3. \A x, y \in Nat : x * y \in Nat
    OBVIOUS
  <2>. QED
    BY <2>1, <2>2, <2>3
<1>6. \A i \in 1..n : pos(i) \in Int \X Int /\ Near(l, pos(i), places[i], Exact(l))
  BY <1>2, PlaceFound
<1>. HIDE DEF stamp, pos
<1>7. more \in Seq(Measurement) /\ Len(more) = n
  BY <1>2, <1>5 DEF Measurement
<1>8. new \in Seq(Point) /\ Len(new) = n
  BY <1>2, <1>3, <1>5, <1>6 DEF Point
<1>9. \A i \in 1..n : /\ more[i].pos = places[i] /\ more[i].time = stamp(i)
                      /\ new[i].pos = pos(i) /\ new[i].offset_time = stamp(i) /\ new[i].num = Len(M) + i
  OBVIOUS
<1>. HIDE DEF more, new, n, P, M
<1>10. /\ measured'[l] = M \o more /\ points_clouds_'[l] = P \o new
       /\ \A k \in Sources : k # l => measured'[k] = measured[k] /\ points_clouds_'[k] = points_clouds_[k]
  BY <1>4 DEF MsgTypes, P, M
<1>11. /\ M \o more \in Seq(Measurement) /\ Len(M \o more) = Len(M) + n
       /\ \A i \in 1..Len(M) : i \in 1..(Len(M) + n) /\ (M \o more)[i] = M[i]
       /\ \A i \in 1..n : Len(M) + i \in 1..(Len(M) + n) /\ (M \o more)[Len(M) + i] = more[i]
  <2>1. /\ M \o more \in Seq(Measurement) /\ Len(M \o more) = Len(M) + Len(more)
        /\ \A i \in 1..Len(M) : i \in 1..(Len(M) + Len(more)) /\ (M \o more)[i] = M[i]
        /\ \A i \in 1..Len(more) :
              Len(M) + i \in 1..(Len(M) + Len(more)) /\ (M \o more)[Len(M) + i] = more[i]
    <3>1. M \in Seq(Measurement) /\ more \in Seq(Measurement)
      BY <1>3, <1>7
    <3>. QED
      BY <3>1, JoinedAt
  <2>. QED
    BY <1>7, <2>1
<1>12. /\ P \o new \in Seq(Point) /\ Len(P \o new) = Len(P) + n
       /\ \A i \in 1..Len(P) : (P \o new)[i] = P[i]
       /\ \A i \in 1..n : (P \o new)[Len(P) + i] = new[i]
       /\ \A i \in 1..(Len(P) + n) :
             i \in 1..Len(P) \/ (i - Len(P) \in 1..n /\ Len(P) + (i - Len(P)) = i)
  <2>1. /\ P \o new \in Seq(Point) /\ Len(P \o new) = Len(P) + Len(new)
        /\ \A i \in 1..Len(P) : (P \o new)[i] = P[i]
        /\ \A i \in 1..Len(new) : (P \o new)[Len(P) + i] = new[i]
        /\ \A i \in 1..(Len(P) + Len(new)) :
              i \in 1..Len(P) \/ (i - Len(P) \in 1..Len(new) /\ Len(P) + (i - Len(P)) = i)
    <3>1. P \in Seq(Point) /\ new \in Seq(Point)
      BY <1>3, <1>8
    <3>. QED
      BY <3>1, JoinedAt
  <2>. QED
    BY <1>8, <2>1
<1>13. MsgSettings'
  BY <1>4 DEF MsgSettings
<1>14. MsgTypes'
  <2>1. measured' \in [Sources -> Seq(Measurement)]
    BY <1>4, <1>11 DEF MsgTypes
  <2>2. points_clouds_' \in [Sources -> Seq(Point)]
    BY <1>4, <1>12 DEF MsgTypes
  <2>3. is_set_extrinsic_params_' \in [Sources -> BOOLEAN] /\ extrinsic_global' \in Int
    <3>1. Extrinsic(l).yaw \in Int
      BY MountingKept
    <3>. QED
      BY <1>1, <3>1 DEF PointCloudProcess, MsgTypes
  <2>. QED
    BY <1>4, <2>1, <2>2, <2>3 DEF MsgTypes
<1>15. \A k \in Sources : Cut(k)' = Cut(k) /\ Gathered(k)'
  <2>. TAKE k \in Sources
  <2>1. CASE k # l
    BY <1>10, <2>1 DEF MsgOrder, PassedOn, Gathered, Cut
  <2>2. CASE k = l
    <3>1. /\ Len(P) <= Len(M) /\ Cut(l) = Len(M) - Len(P)
          /\ \A i \in 1..Len(P) : P[i].num = Cut(l) + i
      BY DEF MsgOrder, PassedOn, Gathered, Cut, P, M
    <3>2. Len(measured'[l]) = Len(M) + n /\ Len(points_clouds_'[l]) = Len(P) + n
      BY <1>10, <1>11, <1>12
    <3>3. Cut(l)' = Cut(l)
      <4>1. Cut(l)' = (Len(M) + n) - (Len(P) + n)
        BY <3>2 DEF Cut
      <4>. QED
        BY <1>2, <1>3, <3>1, <4>1
    <3>4. ASSUME NEW i \in 1..(Len(P) + n) PROVE (P \o new)[i].num = Cut(l) + i
      <4>1. CASE i \in 1..Len(P)
        BY <1>12, <3>1, <4>1
      <4>2. CASE i - Len(P) \in 1..n /\ Len(P) + (i - Len(P)) = i
        <5>1. (P \o new)[i].num = Len(M) + (i - Len(P))
          BY <1>9, <1>12, <4>2
        <5>. QED
          BY <1>2, <1>3, <3>1, <5>1
      <4>. QED
        BY <1>12, <4>1, <4>2
    <3>5. Len(P) + n <= Len(M) + n
      BY <1>2, <1>3, <3>1
    <3>. QED
      BY <1>10, <2>2, <3>2, <3>3, <3>4, <3>5 DEF Gathered
  <2>. QED
    BY <2>1, <2>2
<1>16. MsgOrder'
  BY <1>4, <1>15, Zenon DEF MsgOrder, PassedOn
<1>17. /\ \A p : PointTells(l, p, M, Exact(l)) => PointTells(l, p, M \o more, Exact(l))
       /\ \A f : FrameOfPoints(l, f, M, Exact(l)) => FrameOfPoints(l, f, M \o more, Exact(l))
       /\ \A m : BodyTells(l, m, M, Exact(l)) => BodyTells(l, m, M \o more, Exact(l))
  BY <1>3, <1>7, StillTold
<1>18. \A k \in Sources : Exact(k)' = Exact(k)
  BY <1>4 DEF Exact
<1>19. \A k \in Sources : \A i \in 1..Len(points_clouds_'[k]) :
          PointTells(k, points_clouds_'[k][i], measured'[k], Exact(k))
  <2>. TAKE k \in Sources
  <2>1. CASE k # l
    BY <1>10, <2>1, Zenon DEF MsgContents
  <2>2. CASE k = l
    <3>1. ASSUME NEW i \in 1..n PROVE PointTells(l, new[i], M \o more, Exact(l))
      <4>1. new[i].num \in 1..Len(M \o more) /\ (M \o more)[new[i].num] = more[i]
        BY <1>9, <1>11
      <4>2. Near(l, new[i].pos, more[i].pos, Exact(l)) /\ new[i].offset_time = more[i].time
        BY <1>6, <1>9, Zenon
      <4>. QED
        BY <4>1, <4>2, Zenon DEF PointTells
    <3>2. \A i \in 1..Len(P) : PointTells(l, P[i], M \o more, Exact(l))
      BY <1>17, Zenon DEF MsgContents, P, M
    <3>3. ASSUME NEW i \in 1..(Len(P) + n) PROVE PointTells(l, (P \o new)[i], M \o more, Exact(l))
      <4>1. CASE i \in 1..Len(P)
        BY <1>12, <3>2, <4>1, Zenon
      <4>2. CASE i - Len(P) \in 1..n /\ Len(P) + (i - Len(P)) = i
        <5>1. (P \o new)[Len(P) + (i - Len(P))] = new[i - Len(P)]
          BY <1>12, <4>2, Zenon
        <5>. QED
          BY <3>1, <4>2, <5>1, Zenon
      <4>. QED
        BY <1>12, <4>1, <4>2, Zenon
    <3>. QED
      BY <1>10, <1>12, <2>2, <3>3, Zenon
  <2>. QED
    BY <2>1, <2>2
<1>20. \A k \in Sources : SampleTells(k, [turn |-> extrinsic_global', heard |-> Heard'])
  <2>1. CASE l \in DOMAIN Configured /\ ~is_set_extrinsic_params_[l]
    <3>1. is_set_extrinsic_params_' = [is_set_extrinsic_params_ EXCEPT ![l] = TRUE]
          /\ extrinsic_global' = Mounting(l).yaw
      BY <1>1, <2>1, MountingKept DEF PointCloudProcess
    <3>2. l \in Heard'
      BY <2>1, <3>1 DEF Heard, MsgTypes
    <3>. QED
      BY <3>1, <3>2 DEF SampleTells
  <2>2. CASE ~(l \in DOMAIN Configured /\ ~is_set_extrinsic_params_[l])
    <3>1. UNCHANGED <<is_set_extrinsic_params_, extrinsic_global>>
      BY <1>1, <2>2 DEF PointCloudProcess
    <3>. QED
      BY <3>1 DEF Heard, MsgContents
  <2>. QED
    BY <2>1, <2>2
<1>21. MsgContents'
  <2>1. ASSUME NEW k \in Sources
        PROVE  /\ \A f \in 1..Len(stored[k]) : FrameOfPoints(k, stored[k][f], measured'[k], Exact(k))
               /\ \A i \in 1..Len(messages[k]) : BodyTells(k, messages[k][i].body, measured'[k], Exact(k))
    <3>1. CASE k # l
      BY <1>10, <3>1, Zenon DEF MsgContents
    <3>2. CASE k = l
      BY <1>10, <1>17, <3>2, Zenon DEF MsgContents, M
    <3>. QED
      BY <3>1, <3>2
  <2>2. UNCHANGED <<stored, messages, imu_data_queue_>>
    BY <1>4
  <2>. QED
    BY <1>18, <1>19, <1>20, <2>1, <2>2, Zenon DEF MsgContents
<1>22. MsgTopics'
  BY <1>4, ZenonT(40) DEF MsgTopics, PublishersKept, OnItsTopic, GetCurrentPublisher, GetCurrentImuPublisher
<1>. QED
  BY <1>13, <1>14, <1>16, <1>21, <1>22

(* Frames of ready points join the queues, or are dropped.                 *)
LEMMA StorageKeeps ==
    ASSUME MsgInv, NEW ls \in SUBSET Sources, StoragePointData(ls)
    PROVE  MsgInv'
<1>. USE DEF MsgInv
<1>. DEFINE ready == {l \in ls : points_clouds_[l] # <<>>}
            full == {l \in ready : Len(stored[l]) = QueueDepth}
            new(l) == [base_time |-> points_clouds_[l][1].offset_time, points |-> points_clouds_[l]]
<1>1. /\ stored' = [l \in Sources |-> IF l \in ready \ full THEN Append(stored[l], new(l)) ELSE stored[l]]
      /\ points_clouds_' = [l \in Sources |-> IF l \in ls THEN <<>> ELSE points_clouds_[l]]
      /\ dropped' = dropped \cup full
      /\ UNCHANGED <<transfer_format_, use_multi_topic_, pcl_data_type, data_type,
                     is_set_extrinsic_params_, extrinsic_global, imu_data_queue_, pub, messages,
                     measured, samples>>
  BY DEF StoragePointData
<1>. HIDE DEF ready, full, new
<1>2. ASSUME NEW l \in Sources
      PROVE  /\ points_clouds_[l] \in Seq(Point) /\ stored[l] \in Seq(Frame)
             /\ messages[l] \in Seq(Message)
             /\ <<>> \in Seq(Point) /\ Len(<<>>) = 0
             /\ \A i \in 1..Len(points_clouds_[l]) : points_clouds_[l][i].num = Cut(l) + i
  <2>1. \A i \in 1..Len(points_clouds_[l]) : points_clouds_[l][i].num = Cut(l) + i
    BY DEF MsgOrder, PassedOn, Gathered
  <2>2. <<>> \in Seq(Point) /\ Len(<<>>) = 0
    BY EmptySeq
  <2>. QED
    BY <2>1, <2>2 DEF MsgTypes
<1>11. ASSUME NEW l \in Sources
       PROVE  /\ Len(points_clouds_[l]) \in Nat /\ Len(measured[l]) \in Nat /\ Cut(l) \in Nat
              /\ Cut(l) = Len(measured[l]) - Len(points_clouds_[l]) /\ Cut(l) <= Len(measured[l])
  <2>1. points_clouds_[l] \in Seq(Point) /\ measured[l] \in Seq(Measurement)
    BY DEF MsgTypes
  <2>2. Len(points_clouds_[l]) \in Nat /\ Len(measured[l]) \in Nat
    BY <2>1, LenProperties
  <2>3. Len(points_clouds_[l]) <= Len(measured[l])
    BY DEF MsgOrder, PassedOn, Gathered
  <2>4. \A a, b \in Nat : a <= b => b - a \in Nat /\ b - a <= b
    OBVIOUS
  <2>. QED
    BY <2>2, <2>3, <2>4, Zenon DEF Cut
<1>3. ASSUME NEW l \in Sources, l \in ready
      PROVE  /\ new(l) \in Frame /\ Consecutive(new(l).points)
             /\ FirstOf(new(l).points) = Cut(l) + 1 /\ LastOf(new(l).points) = Len(measured[l])
             /\ Len(new(l).points) \in Nat \ {0} /\ 1 \in 1..Len(new(l).points)
             /\ new(l).points = points_clouds_[l]
             /\ new(l).base_time = points_clouds_[l][1].offset_time
  <2>1. points_clouds_[l] # <<>> /\ l \in ls
    BY <1>3 DEF ready
  <2>2. Len(points_clouds_[l]) \in Nat \ {0} /\ 1 \in 1..Len(points_clouds_[l])
    <3>1. Len(points_clouds_[l]) # 0
      BY <1>2, <2>1, EmptySeq
    <3>. QED
      BY <1>11, <3>1
  <2>3. points_clouds_[l][1] \in Point /\ points_clouds_[l][1].offset_time \in Nat
    <3>1. points_clouds_[l][1] \in Point
      BY <1>2, <2>2, ElementOfSeq
    <3>. QED
      BY <3>1 DEF Point
  <2>4. new(l).points = points_clouds_[l] /\ new(l).base_time = points_clouds_[l][1].offset_time
    BY DEF new
  <2>5. new(l) \in Frame
    BY <1>2, <2>3 DEF new, Frame
  <2>6. FirstOf(points_clouds_[l]) = Cut(l) + 1
    BY <1>2, <2>2 DEF FirstOf
  <2>9. /\ Cut(l) \in Nat /\ Len(measured[l]) \in Nat
        /\ Cut(l) = Len(measured[l]) - Len(points_clouds_[l])
    BY <1>11
  <2>7. Consecutive(points_clouds_[l])
    <3>1. FirstOf(points_clouds_[l]) \in Nat \ {0}
      BY <2>6, <2>9
    <3>2. \A i \in 1..Len(points_clouds_[l]) :
             points_clouds_[l][i].num = FirstOf(points_clouds_[l]) + i - 1
      <4>. TAKE i \in 1..Len(points_clouds_[l])
      <4>1. Cut(l) + i = (Cut(l) + 1) + i - 1
        BY <2>2, <2>9
      <4>. QED
        BY <1>2, <2>6, <4>1
    <3>. QED
      BY <2>2, <3>1, <3>2 DEF Consecutive
  <2>8. LastOf(points_clouds_[l]) = Len(measured[l])
    <3>1. LastOf(points_clouds_[l]) = FirstOf(points_clouds_[l]) + Len(points_clouds_[l]) - 1
      BY DEF LastOf, FirstOf
    <3>. QED
      <4>1. \A a, b \in Nat : ((a - b) + 1) + b - 1 = a
        OBVIOUS
      <4>2. LastOf(points_clouds_[l])
              = ((Len(measured[l]) - Len(points_clouds_[l])) + 1) + Len(points_clouds_[l]) - 1
        BY <2>6, <2>9, <3>1, Zenon
      <4>. QED
        BY <2>2, <2>9, <4>1, <4>2
  <2>. QED
    BY <2>2, <2>4, <2>5, <2>6, <2>7, <2>8
<1>4. ASSUME NEW l \in Sources, l \notin ready
      PROVE  points_clouds_'[l] = points_clouds_[l] /\ stored'[l] = stored[l]
  BY <1>1, <1>4 DEF ready
<1>5. ASSUME NEW l \in Sources, l \in ready
      PROVE  /\ points_clouds_'[l] = <<>> /\ Cut(l)' = Len(measured[l])
             /\ stored'[l] = IF l \in full THEN stored[l] ELSE Append(stored[l], new(l))
             /\ l \in full => l \in dropped'
  <2>1. points_clouds_'[l] = <<>>
    BY <1>1, <1>5 DEF ready
  <2>2. Cut(l)' = Len(measured[l])
    <3>1. Len(measured[l]) \in Nat /\ Len(points_clouds_'[l]) = 0 /\ measured' = measured
      BY <1>1, <1>2, <1>11, <2>1
    <3>. QED
      BY <3>1 DEF Cut
  <2>. QED
    BY <1>1, <1>5, <2>1, <2>2
<1>6. MsgSettings'
  BY <1>1 DEF MsgSettings
<1>7. MsgTypes'
  <2>1. points_clouds_' \in [Sources -> Seq(Point)]
    BY <1>1, <1>2
  <2>2. \A l \in Sources : stored'[l] \in Seq(Frame)
    <3>. TAKE l \in Sources
    <3>1. CASE l \in ready /\ l \notin full
      <4>1. stored'[l] = Append(stored[l], new(l)) /\ new(l) \in Frame /\ stored[l] \in Seq(Frame)
        BY <1>2, <1>3, <1>5, <3>1
      <4>. QED
        BY <4>1, AppendProperties
    <3>2. CASE ~(l \in ready /\ l \notin full)
      <4>1. stored'[l] = stored[l]
        BY <1>4, <1>5, <3>2
      <4>. QED
        BY <1>2, <4>1
    <3>. QED
      BY <3>1, <3>2
  <2>3. stored' \in [Sources -> Seq(Frame)]
    BY <1>1, <2>2
  <2>. QED
    BY <1>1, <2>1, <2>3 DEF MsgTypes
<1>8. MsgOrder'
  <2>. SUFFICES ASSUME NEW l \in Sources PROVE PassedOn(l)'
    BY DEF MsgOrder
  <2>1. /\ FramesInOrder(Cut(l), stored[l]) /\ SentInOrder(Cut(l), stored[l], messages[l])
        /\ l \notin dropped => \A type \in transfer_format_ : Unbroken(type, Cut(l), stored[l], messages[l])
    BY DEF MsgOrder, PassedOn
  <2>2. CASE l \notin ready
    <3>1. Cut(l)' = Cut(l) /\ stored'[l] = stored[l] /\ points_clouds_'[l] = points_clouds_[l]
      BY <1>1, <1>4, <2>2 DEF Cut
    <3>2. l \notin dropped' => l \notin dropped
      BY <1>1
    <3>3. Gathered(l)'
      BY <1>1, <3>1, Zenon DEF Gathered, MsgOrder, PassedOn
    <3>. QED
      BY <1>1, <3>1, <3>2, <3>3, Zenon DEF PassedOn, MsgOrder
  <2>3. CASE l \in ready
    <3>. DEFINE c == Cut(l)
                b == Len(measured[l])
    <3>1. Cut(l)' = b /\ points_clouds_'[l] = <<>> /\ Len(points_clouds_'[l]) = 0 /\ b \in Nat
          /\ Len(measured'[l]) = b
      BY <1>1, <1>2, <1>5, <1>11, <2>3
    <3>2. Gathered(l)'
      BY <3>1 DEF Gathered
    <3>3. /\ FramesInOrder(b, stored'[l]) /\ SentInOrder(b, stored'[l], messages[l])
          /\ l \notin dropped' => \A type \in transfer_format_ : Unbroken(type, b, stored'[l], messages[l])
      <4>1. CASE l \in full
        <5>1. stored'[l] = stored[l] /\ l \in dropped' /\ Cut(l) <= b
          BY <1>5, <1>11, <2>3, <4>1
        <5>2. b \in Nat /\ Cut(l) \in Nat
          BY <1>11
        <5>. HIDE DEF b
        <5>3. FramesInOrder(b, stored[l]) /\ SentInOrder(b, stored[l], messages[l])
          BY <2>1, <5>1, <5>2, FrameDropped
        <5>. QED
          BY <5>1, <5>3
      <4>2. CASE l \notin full
        <5>1. stored'[l] = Append(stored[l], new(l)) /\ (l \notin dropped' => l \notin dropped)
          BY <1>1, <1>5, <2>3, <4>2
        <5>2. /\ FramesInOrder(LastOf(new(l).points), Append(stored[l], new(l)))
              /\ SentInOrder(LastOf(new(l).points), Append(stored[l], new(l)), messages[l])
              /\ \A type : Unbroken(type, Cut(l), stored[l], messages[l])
                    => Unbroken(type, LastOf(new(l).points), Append(stored[l], new(l)), messages[l])
          <6>1. /\ Cut(l) \in Nat /\ stored[l] \in Seq(Frame) /\ messages[l] \in Seq(Message)
                /\ new(l) \in Frame /\ Consecutive(new(l).points)
                /\ FirstOf(new(l).points) = Cut(l) + 1
            BY <1>2, <1>3, <1>11, <2>3
          <6>. QED
            BY <2>1, <6>1, FrameJoins
        <5>3. LastOf(new(l).points) = b
          BY <1>3, <2>3
        <5>. QED
          BY <2>1, <5>1, <5>2, <5>3, Zenon
      <4>. QED
        BY <4>1, <4>2
    <3>. HIDE DEF b
    <3>. QED
      BY <1>1, <3>1, <3>2, <3>3, Zenon DEF PassedOn, MsgOrder
  <2>. QED
    BY <2>2, <2>3
<1>9. MsgContents'
  <2>1. \A l \in Sources : Exact(l)' = Exact(l)
    BY <1>1 DEF Exact
  <2>2. \A l \in Sources : \A i \in 1..Len(points_clouds_'[l]) :
           PointTells(l, points_clouds_'[l][i], measured[l], Exact(l))
    <3>. TAKE l \in Sources
    <3>1. CASE l \notin ready
      BY <1>4, <3>1, Zenon DEF MsgContents
    <3>2. CASE l \in ready
      <4>1. 1..Len(points_clouds_'[l]) = {}
        BY <1>2, <1>5, <3>2
      <4>. QED
        BY <4>1
    <3>. QED
      BY <3>1, <3>2
  <2>3. \A l \in Sources : \A f \in 1..Len(stored'[l]) :
           FrameOfPoints(l, stored'[l][f], measured[l], Exact(l))
    <3>. TAKE l \in Sources
    <3>1. CASE l \notin ready \/ l \in full
      <4>1. stored'[l] = stored[l]
        BY <1>4, <1>5, <3>1
      <4>. QED
        BY <4>1, Zenon DEF MsgContents
    <3>2. CASE l \in ready /\ l \notin full
      <4>1. stored'[l] = Append(stored[l], new(l)) /\ new(l) \in Frame
        BY <1>3, <1>5, <3>2
      <4>2. FrameOfPoints(l, new(l), measured[l], Exact(l))
        BY <1>3, <3>2, Zenon DEF FrameOfPoints, MsgContents
      <4>3. /\ Len(stored'[l]) = Len(stored[l]) + 1 /\ stored'[l][Len(stored[l]) + 1] = new(l)
            /\ \A f \in 1..Len(stored[l]) : stored'[l][f] = stored[l][f]
            /\ \A f \in 1..(Len(stored[l]) + 1) : f \in 1..Len(stored[l]) \/ f = Len(stored[l]) + 1
        BY <1>2, <4>1, AppendedAt
      <4>. QED
        BY <4>2, <4>3, Zenon DEF MsgContents
    <3>. QED
      BY <3>1, <3>2
  <2>. QED
    BY <1>1, <2>1, <2>2, <2>3, Zenon DEF MsgContents, Heard
<1>10. MsgTopics'
  BY <1>1, ZenonT(40) DEF MsgTopics, PublishersKept, OnItsTopic, GetCurrentPublisher, GetCurrentImuPublisher
<1>. QED
  BY <1>6, <1>7, <1>8, <1>9, <1>10

(* A sample is turned by what the lidar heard last was mounted at.         *)
LEMMA SampleKeeps ==
    ASSUME MsgInv, NEW l \in Sources, LidarImuDataCallback(l)
    PROVE  MsgInv'
<1>. USE DEF MsgInv
<1>. DEFINE new == [turn |-> extrinsic_global, heard |-> Heard]
            Q == imu_data_queue_[l]
<1>1. /\ imu_data_queue_' = [imu_data_queue_ EXCEPT ![l] = Append(Q, new)]
      /\ UNCHANGED <<transfer_format_, use_multi_topic_, pcl_data_type, data_type,
                     is_set_extrinsic_params_, extrinsic_global, points_clouds_, stored, pub,
                     messages, measured, dropped>>
  BY DEF LidarImuDataCallback, Heard
<1>2. new \in ImuSample /\ Q \in Seq(ImuSample)
  BY DEF ImuSample, Heard, MsgTypes
<1>3. \A j \in Sources : SampleTells(j, new)
  BY DEF MsgContents
<1>. HIDE DEF new
<1>4. /\ Append(Q, new) \in Seq(ImuSample) /\ Len(Append(Q, new)) = Len(Q) + 1
      /\ Append(Q, new)[Len(Q) + 1] = new /\ \A i \in 1..Len(Q) : Append(Q, new)[i] = Q[i]
      /\ \A i \in 1..(Len(Q) + 1) : i \in 1..Len(Q) \/ i = Len(Q) + 1
  BY <1>2, AppendedAt
<1>5. \A k \in Sources : imu_data_queue_'[k] = IF k = l THEN Append(Q, new) ELSE imu_data_queue_[k]
  BY <1>1 DEF MsgTypes
<1>. HIDE DEF Q
<1>6. MsgSettings'
  BY <1>1 DEF MsgSettings
<1>7. MsgTypes'
  BY <1>1, <1>4 DEF MsgTypes
<1>8. MsgOrder'
  BY <1>1, Zenon DEF MsgOrder, PassedOn, Gathered, Cut
<1>9. MsgContents'
  <2>1. \A k \in Sources : Exact(k)' = Exact(k)
    BY <1>1 DEF Exact
  <2>2. \A k \in Sources : \A i \in 1..Len(imu_data_queue_'[k]) :
           \A j \in Sources : SampleTells(j, imu_data_queue_'[k][i])
    <3>. TAKE k \in Sources
    <3>1. CASE k # l
      BY <1>5, <3>1, Zenon DEF MsgContents
    <3>2. CASE k = l
      BY <1>3, <1>4, <1>5, <3>2, Zenon DEF MsgContents, Q
    <3>. QED
      BY <3>1, <3>2
  <2>. QED
    BY <1>1, <2>1, <2>2, Zenon DEF MsgContents, Heard
<1>10. MsgTopics'
  BY <1>1, ZenonT(40) DEF MsgTopics, PublishersKept, OnItsTopic, GetCurrentPublisher, GetCurrentImuPublisher
<1>. QED
  BY <1>6, <1>7, <1>8, <1>9, <1>10

(* What a message made of a frame is.                                      *)
LEMMA MessageOfFrame ==
    ASSUME MsgSettings, NEW l \in Sources, NEW pkg \in Frame, NEW known, NEW exact,
           FrameOfPoints(l, pkg, known, exact), NEW topic \in Topics, NEW type \in {"cloud", "custom"},
           NEW body,
           body = IF type = "cloud" THEN InitPointcloud2Msg(pkg) ELSE FillPointsToCustomMsg(pkg, l)
    PROVE  /\ [topic |-> topic, body |-> body] \in Message /\ body.type = type
           /\ Len(body.points) = Len(pkg.points) /\ FirstOf(body.points) = FirstOf(pkg.points)
           /\ LastOf(body.points) = LastOf(pkg.points)
           /\ Consecutive(pkg.points) => Consecutive(body.points)
           /\ BodyTells(l, body, known, exact)
<1>. DEFINE n == Len(pkg.points)
<1>1. /\ pkg.points \in Seq(Point) /\ pkg.base_time \in Nat /\ n \in Nat \ {0}
      /\ DOMAIN pkg.points = 1..n /\ 1 \in 1..n
  <2>1. pkg.points \in Seq(Point) /\ pkg.base_time \in Nat
    BY DEF Frame
  <2>2. n \in Nat \ {0}
    BY DEF FrameOfPoints
  <2>. QED
    BY <2>1, <2>2, LenProperties
<1>2. \A i \in 1..n : /\ pkg.points[i] \in Point /\ pkg.points[i].pos \in Int \X Int
                      /\ pkg.points[i].num \in Nat /\ pkg.points[i].offset_time \in Nat
                      /\ PointTells(l, pkg.points[i], known, exact)
  <2>1. \A i \in 1..n : pkg.points[i] \in Point
    BY <1>1, ElementOfSeq
  <2>. QED
    BY <2>1 DEF FrameOfPoints, Point
<1>. HIDE DEF n
<1>3. CASE type = "cloud"
  <2>. DEFINE points == [i \in 1..n |-> [pos |-> pkg.points[i].pos, num |-> pkg.points[i].num,
                                       timestamp |-> AsDouble(pkg.points[i].offset_time)]]
  <2>1. body = [type |-> "cloud", stamp |-> pkg.base_time, points |-> points]
    BY <1>1, <1>3 DEF InitPointcloud2Msg
  <2>2. \A i \in 1..n : /\ AsDouble(pkg.points[i].offset_time) \in Int
                        /\ 2 * Off(AsDouble(pkg.points[i].offset_time), pkg.points[i].offset_time) <= Granule
    BY <1>2, DoubleIsClose
  <2>3. points \in Seq([pos : Int \X Int, num : Nat, timestamp : Int]) /\ Len(points) = n
    BY <1>1, <1>2, <2>2
  <2>4. \A i \in 1..n : /\ points[i].pos = pkg.points[i].pos /\ points[i].num = pkg.points[i].num
                        /\ points[i].timestamp = AsDouble(pkg.points[i].offset_time)
    OBVIOUS
  <2>. HIDE DEF points
  <2>5. /\ body.type = "cloud" /\ body.stamp = pkg.base_time /\ body.points = points
    BY <2>1
  <2>6. body \in Body
    BY <1>1, <2>1, <2>3 DEF Body
  <2>7. FirstOf(points) = FirstOf(pkg.points) /\ LastOf(points) = LastOf(pkg.points)
    BY <1>1, <2>3, <2>4 DEF FirstOf, LastOf, n
  <2>8. Consecutive(pkg.points) => Consecutive(points)
    BY <2>3, <2>4, <2>7, Zenon DEF Consecutive, n
  <2>9. BodyTells(l, body, known, exact)
    <3>1. body.type # "imu" /\ body.type # "custom"
      BY <2>5
    <3>2. body.stamp = known[points[1].num].time
      BY <1>1, <1>2, <2>4, <2>5 DEF FrameOfPoints, PointTells
    <3>3. \A i \in 1..n : /\ points[i].num \in 1..Len(known)
                          /\ Near(l, points[i].pos, known[points[i].num].pos, exact)
                          /\ 2 * Off(points[i].timestamp, known[points[i].num].time) <= Granule
      BY <1>2, <2>2, <2>4, Zenon DEF PointTells
    <3>. QED
      BY <1>1, <2>3, <2>5, <3>1, <3>2, <3>3, Zenon DEF BodyTells
  <2>. QED
    BY <1>3, <2>3, <2>5, <2>6, <2>7, <2>8, <2>9 DEF Message, n
<1>4. CASE type = "custom"
  <2>. DEFINE offset(i) == (pkg.points[i].offset_time - pkg.base_time) % OffsetRange
              points == [i \in 1..n |-> [pos |-> pkg.points[i].pos, num |-> pkg.points[i].num,
                                       offset_time |-> offset(i)]]
  <2>1. body = [type |-> "custom", stamp |-> pkg.base_time, lidar_id |-> handle(l), points |-> points]
    BY <1>1, <1>4 DEF FillPointsToCustomMsg
  <2>2. \A i \in 1..n : /\ offset(i) \in Nat
                        /\ pkg.points[i].offset_time - pkg.base_time \in 0..(OffsetRange - 1) =>
                              pkg.base_time + offset(i) = pkg.points[i].offset_time
    <3>1. OffsetRange \in Nat \ {0}
      BY LidarMessagesAssumption
    <3>2. \A a \in Int : /\ (a % OffsetRange) \in Nat
                         /\ a \in 0..(OffsetRange - 1) => (a % OffsetRange) = a
      BY <3>1
    <3>. TAKE i \in 1..n
    <3>. DEFINE t == pkg.points[i].offset_time
                b == pkg.base_time
    <3>3. t \in Nat /\ b \in Nat
      BY <1>1, <1>2
    <3>4. t - b \in Int
      BY <3>3
    <3>5. offset(i) = (t - b) % OffsetRange
      OBVIOUS
    <3>. HIDE DEF offset, t, b
    <3>6. offset(i) \in Nat /\ (t - b \in 0..(OffsetRange - 1) => b + offset(i) = t)
      <4>1. t - b \in 0..(OffsetRange - 1) => offset(i) = t - b
        BY <3>2, <3>4, <3>5
      <4>2. b + (t - b) = t
        BY <3>3
      <4>. QED
        BY <3>2, <3>4, <3>5, <4>1, <4>2
    <3>. QED
      BY <3>6 DEF t, b
  <2>. HIDE DEF offset
  <2>3. points \in Seq([pos : Int \X Int, num : Nat, offset_time : Nat]) /\ Len(points) = n
    BY <1>1, <1>2, <2>2
  <2>4. \A i \in 1..n : /\ points[i].pos = pkg.points[i].pos /\ points[i].num = pkg.points[i].num
                        /\ points[i].offset_time = offset(i)
    OBVIOUS
  <2>. HIDE DEF points
  <2>5. /\ body.type = "custom" /\ body.stamp = pkg.base_time /\ body.points = points
        /\ body.lidar_id = handle(l)
    BY <2>1
  <2>6. body \in Body
    BY <1>1, <2>1, <2>3, HandleKept DEF Body
  <2>7. FirstOf(points) = FirstOf(pkg.points) /\ LastOf(points) = LastOf(pkg.points)
    BY <1>1, <2>3, <2>4 DEF FirstOf, LastOf, n
  <2>8. Consecutive(pkg.points) => Consecutive(points)
    BY <2>3, <2>4, <2>7, Zenon DEF Consecutive, n
  <2>9. BodyTells(l, body, known, exact)
    <3>1. body.type # "imu" /\ body.type # "cloud" /\ (l \in DOMAIN Configured => body.lidar_id = l)
      BY <2>5 DEF handle
    <3>2. body.stamp = known[points[1].num].time
      BY <1>1, <1>2, <2>4, <2>5 DEF FrameOfPoints, PointTells
    <3>3. \A i \in 1..n : /\ points[i].num \in 1..Len(known)
                          /\ Near(l, points[i].pos, known[points[i].num].pos, exact)
                          /\ known[points[i].num].time = pkg.points[i].offset_time
      BY <1>2, <2>4, Zenon DEF PointTells
    <3>4. \A i \in 1..n : known[points[i].num].time - body.stamp \in 0..(OffsetRange - 1) =>
                             body.stamp + points[i].offset_time = known[points[i].num].time
      BY <2>2, <2>4, <2>5, <3>3, Zenon
    <3>. QED
      BY <1>1, <2>3, <2>5, <3>1, <3>2, <3>3, <3>4, Zenon DEF BodyTells
  <2>. QED
    BY <1>4, <2>3, <2>5, <2>6, <2>7, <2>8, <2>9 DEF Message, n
<1>. QED
  BY <1>3, <1>4

LEMMA OneMore ==
    ASSUME NEW sent \in Seq(Message), NEW m \in Message
    PROVE  /\ Append(sent, m) \in Seq(Message)
           /\ \A k \in 1..Len(Append(sent, m)) :
                 (k \in 1..Len(sent) /\ Append(sent, m)[k] = sent[k]) \/ Append(sent, m)[k] = m
<1>. DEFINE more == Append(sent, m)
            n == Len(sent)
<1>1. /\ more \in Seq(Message) /\ Len(more) = n + 1 /\ more[n + 1] = m
      /\ \A k \in 1..n : more[k] = sent[k]
      /\ \A k \in 1..(n + 1) : k \in 1..n \/ k = n + 1
  BY AppendedAt
<1>. HIDE DEF more, n
<1>2. \A k \in 1..Len(more) : (k \in 1..n /\ more[k] = sent[k]) \/ more[k] = m
  BY <1>1
<1>. QED
  BY <1>1, <1>2 DEF more, n

LEMMA ImuKeeps ==
    ASSUME MsgInv, NEW l \in Sources, PublishImuData(l)
    PROVE  MsgInv'
<1>. USE DEF MsgInv
<1>. DEFINE topic == TopicFor(GetCurrentImuPublisher(l), pub', "imu")
            data == Head(imu_data_queue_[l])
            m == [topic |-> topic, body |-> [type |-> "imu", data |-> data]]
            G == messages[l]
            Q == imu_data_queue_[l]
<1>1. /\ Q # <<>> /\ imu_data_queue_' = [imu_data_queue_ EXCEPT ![l] = Tail(Q)]
      /\ pub' = Created(GetCurrentImuPublisher(l))
      /\ messages' = [messages EXCEPT ![l] = Append(G, m)]
      /\ UNCHANGED <<transfer_format_, use_multi_topic_, pcl_data_type, data_type,
                     is_set_extrinsic_params_, extrinsic_global, points_clouds_, stored, measured,
                     dropped, samples>>
  BY DEF PublishImuData
<1>2. /\ PublishersKept' /\ topic \in Topics
      /\ use_multi_topic_ => topic = <<"livox/imu_", handle(l)>>
  <2>1. PublishersKept
    BY DEF MsgTopics
  <2>. QED
    BY <1>1, <2>1, ImuTopic
<1>3. G \in Seq(Message) /\ Q \in Seq(ImuSample)
  BY DEF MsgTypes
<1>4. /\ Tail(Q) \in Seq(ImuSample) /\ data \in ImuSample /\ data = Q[1] /\ 1 \in 1..Len(Q)
      /\ \A i \in 1..Len(Tail(Q)) : i + 1 \in 1..Len(Q) /\ Tail(Q)[i] = Q[i + 1]
  <2>. HIDE DEF Q
  <2>1. /\ Tail(Q) \in Seq(ImuSample) /\ Len(Q) \in Nat \ {0} /\ Len(Tail(Q)) = Len(Q) - 1
        /\ Head(Q) = Q[1] /\ Head(Q) \in ImuSample
        /\ \A i \in 1..(Len(Q) - 1) : i + 1 \in 1..Len(Q) /\ Tail(Q)[i] = Q[i + 1]
    BY <1>1, <1>3, TailAt
  <2>2. 1 \in 1..Len(Q)
    BY <2>1
  <2>. QED
    BY <2>1, <2>2 DEF Q
<1>. HIDE DEF data, topic
<1>5. m.topic = topic /\ m.body.type = "imu" /\ m.body.data = data /\ m \in Message
  BY <1>2, <1>4 DEF Message, Body
<1>. HIDE DEF m, G, Q
<1>6. BodyTells(l, m.body, measured[l], Exact(l))
  <2>1. SampleTells(l, Q[1])
    BY <1>4 DEF MsgContents, Q
  <2>. QED
    BY <1>4, <1>5, <2>1, Zenon DEF BodyTells
<1>7. /\ Append(G, m) \in Seq(Message)
      /\ \A k \in 1..Len(Append(G, m)) : BodyTells(l, Append(G, m)[k].body, measured[l], Exact(l))
      /\ \A k \in 1..Len(Append(G, m)) : Append(G, m)[k].body.type \in transfer_format_ \cup {"imu"}
      /\ use_multi_topic_ => \A k \in 1..Len(Append(G, m)) : Append(G, m)[k].topic =
            IF Append(G, m)[k].body.type = "imu" THEN <<"livox/imu_", handle(l)>>
                                                ELSE <<"livox/lidar_", handle(l)>>
  <2>1. /\ \A k \in 1..Len(G) : BodyTells(l, G[k].body, measured[l], Exact(l))
        /\ \A k \in 1..Len(G) : G[k].body.type \in transfer_format_ \cup {"imu"}
        /\ use_multi_topic_ => \A k \in 1..Len(G) : G[k].topic =
              IF G[k].body.type = "imu" THEN <<"livox/imu_", handle(l)>> ELSE <<"livox/lidar_", handle(l)>>
    BY DEF MsgContents, MsgOrder, PassedOn, MsgTopics, OnItsTopic, G
  <2>2. /\ m.body.type \in transfer_format_ \cup {"imu"}
        /\ use_multi_topic_ => m.topic = IF m.body.type = "imu" THEN <<"livox/imu_", handle(l)>>
                                                               ELSE <<"livox/lidar_", handle(l)>>
    BY <1>2, <1>5
  <2>3. /\ Append(G, m) \in Seq(Message)
        /\ \A k \in 1..Len(Append(G, m)) :
              (k \in 1..Len(G) /\ Append(G, m)[k] = G[k]) \/ Append(G, m)[k] = m
    BY <1>3, <1>5, OneMore
  <2>4. \A k \in 1..Len(Append(G, m)) : BodyTells(l, Append(G, m)[k].body, measured[l], Exact(l))
    BY <1>6, <2>1, <2>3, Zenon
  <2>5. \A k \in 1..Len(Append(G, m)) : Append(G, m)[k].body.type \in transfer_format_ \cup {"imu"}
    BY <2>1, <2>2, <2>3, Zenon
  <2>6. use_multi_topic_ => \A k \in 1..Len(Append(G, m)) : Append(G, m)[k].topic =
            IF Append(G, m)[k].body.type = "imu" THEN <<"livox/imu_", handle(l)>>
                                                ELSE <<"livox/lidar_", handle(l)>>
    BY <2>1, <2>2, <2>3
  <2>. QED
    BY <2>3, <2>4, <2>5, <2>6
<1>8. \A k \in Sources : /\ messages'[k] = IF k = l THEN Append(G, m) ELSE messages[k]
                         /\ imu_data_queue_'[k] = IF k = l THEN Tail(Q) ELSE imu_data_queue_[k]
  BY <1>1 DEF MsgTypes
<1>9. MsgSettings'
  BY <1>1 DEF MsgSettings
<1>10. MsgTypes'
  BY <1>1, <1>4, <1>7 DEF MsgTypes
<1>11. MsgOrder'
  <2>. SUFFICES ASSUME NEW k \in Sources PROVE PassedOn(k)'
    BY DEF MsgOrder
  <2>1. PassedOn(k)
    BY DEF MsgOrder
  <2>2. CASE k # l
    BY <1>1, <1>8, <2>1, <2>2, Zenon DEF PassedOn, Gathered, Cut
  <2>3. CASE k = l
    <3>. DEFINE c == Cut(l)
    <3>1. /\ FramesInOrder(c, stored[l]) /\ SentInOrder(c, stored[l], G) /\ stored[l] \in Seq(Frame)
          /\ l \notin dropped => \A type \in transfer_format_ : Unbroken(type, c, stored[l], G)
          /\ transfer_format_ = {"cloud", "custom"} => InPairs(G)
      BY <2>1, <2>3 DEF PassedOn, G, MsgTypes
    <3>2. c \in Nat
      <4>1. measured[l] \in Seq(Measurement) /\ points_clouds_[l] \in Seq(Point)
        BY DEF MsgTypes
      <4>2. Len(measured[l]) \in Nat /\ Len(points_clouds_[l]) \in Nat
        BY <4>1, LenProperties
      <4>3. Len(points_clouds_[l]) <= Len(measured[l])
        BY <2>1, <2>3 DEF PassedOn, Gathered
      <4>4. \A a, b \in Nat : a <= b => b - a \in Nat
        OBVIOUS
      <4>. QED
        BY <4>2, <4>3, <4>4, Zenon DEF Cut
    <3>3. Cut(l)' = c /\ stored'[l] = stored[l] /\ dropped' = dropped /\ messages'[l] = Append(G, m)
      BY <1>1, <1>8 DEF Cut
    <3>. HIDE DEF c
    <3>4. "imu" \notin transfer_format_
      BY DEF MsgSettings
    <3>5. /\ SentInOrder(c, stored[l], Append(G, m))
          /\ \A type : type # m.body.type /\ Unbroken(type, c, stored[l], G)
                      => Unbroken(type, c, stored[l], Append(G, m))
      <4>1. SentInOrder(c, stored[l], Append(G, m))
        BY <1>3, <1>5, <3>1, <3>2, MessageJoins
      <4>2. ASSUME NEW type, type # m.body.type, Unbroken(type, c, stored[l], G)
            PROVE  Unbroken(type, c, stored[l], Append(G, m))
        BY <1>3, <1>5, <4>2, UnbrokenByOther
      <4>. QED
        BY <4>1, <4>2
    <3>6. l \notin dropped => \A type \in transfer_format_ : Unbroken(type, c, stored[l], Append(G, m))
      BY <1>5, <3>1, <3>4, <3>5
    <3>7. transfer_format_ = {"cloud", "custom"} => InPairs(Append(G, m))
      BY <1>3, <1>5, <3>1, PairsJoin
    <3>8. Gathered(l)'
      BY <1>1, <2>1, <2>3, Zenon DEF PassedOn, Gathered, Cut
    <3>. QED
      BY <1>1, <1>7, <2>3, <3>1, <3>3, <3>5, <3>6, <3>7, <3>8, Zenon DEF PassedOn
  <2>. QED
    BY <2>2, <2>3
<1>12. MsgContents'
  <2>1. \A k \in Sources : Exact(k)' = Exact(k)
    BY <1>1 DEF Exact
  <2>2. ASSUME NEW k \in Sources
        PROVE  /\ \A i \in 1..Len(messages'[k]) : BodyTells(k, messages'[k][i].body, measured[k], Exact(k))
               /\ \A i \in 1..Len(imu_data_queue_'[k]) :
                     \A j \in Sources : SampleTells(j, imu_data_queue_'[k][i])
    <3>1. CASE k # l
      BY <1>8, <3>1, Zenon DEF MsgContents
    <3>2. CASE k = l
      <4>1. messages'[k] = Append(G, m) /\ imu_data_queue_'[k] = Tail(Q)
        BY <1>8, <3>2
      <4>2. \A i \in 1..Len(Tail(Q)) : \A j \in Sources : SampleTells(j, Tail(Q)[i])
        <5>1. \A i \in 1..Len(Q) : \A j \in Sources : SampleTells(j, Q[i])
          BY DEF MsgContents, Q
        <5>. QED
          BY <1>4, <5>1, Zenon
      <4>. QED
        BY <1>7, <3>2, <4>1, <4>2, Zenon
    <3>. QED
      BY <3>1, <3>2
  <2>. QED
    BY <1>1, <2>1, <2>2, Zenon DEF MsgContents, Heard
<1>13. MsgTopics'
  <2>. SUFFICES ASSUME NEW k \in Sources, use_multi_topic_
                PROVE  \A i \in 1..Len(messages'[k]) :
                          messages'[k][i].topic = <<IF messages'[k][i].body.type = "imu" THEN "livox/imu_"
                                                    ELSE "livox/lidar_", handle(k)>>
    BY <1>1, <1>2 DEF MsgTopics, OnItsTopic
  <2>1. CASE k # l
    BY <1>8, <2>1, Zenon DEF MsgTopics, OnItsTopic
  <2>2. CASE k = l
    BY <1>7, <1>8, <2>2
  <2>. QED
    BY <2>1, <2>2
<1>. QED
  BY <1>9, <1>10, <1>11, <1>12, <1>13

LEMMA PairIsConcat == ASSUME NEW a, NEW b PROVE <<a>> \o <<b>> = <<a, b>>
<1>. DEFINE S == {a, b}
            t == <<a>> \o <<b>>
<1>1. <<a>> \in Seq(S) /\ <<b>> \in Seq(S) /\ <<a, b>> \in Seq(S)
      /\ Len(<<a>>) = 1 /\ Len(<<b>>) = 1 /\ Len(<<a, b>>) = 2
  OBVIOUS
<1>2. t \in Seq(S) /\ Len(t) = 2 /\ t[1] = a /\ t[2] = b
  <2>1. t \in Seq(S) /\ Len(t) = 1 + 1
        /\ \A i \in 1..(1 + 1) : t[i] = IF i <= 1 THEN <<a>>[i] ELSE <<b>>[i - 1]
    BY <1>1, ConcatProperties
  <2>2. 1 + 1 = 2 /\ 1 \in 1..2 /\ 2 \in 1..2 /\ 2 - 1 = 1 /\ 1 <= 1 /\ ~(2 <= 1)
    OBVIOUS
  <2>3. <<a>>[1] = a /\ <<b>>[1] = b
    OBVIOUS
  <2>. HIDE DEF t, S
  <2>. QED
    BY <2>1, <2>2, <2>3
<1>. HIDE DEF t, S
<1>3. \A i \in 1..Len(t) : t[i] = <<a, b>>[i]
  <2>1. \A i \in 1..2 : i = 1 \/ i = 2
    OBVIOUS
  <2>. QED
    BY <1>2, <2>1
<1>. QED
  BY <1>1, <1>2, <1>3, SeqEqual DEF t

(* One message or two, as they are made of a list of bodies.               *)
LEMMA MadeOfBodies ==
    ASSUME NEW sent \in Seq(Message), NEW asked, NEW publishers, NEW x, NEW y,
           [topic |-> TopicFor(asked, publishers, x.type), body |-> x] \in Message, [topic |-> TopicFor(asked, publishers, y.type), body |-> y] \in Message
    PROVE  /\ sent \o [i \in DOMAIN <<x>> |-> [topic |-> TopicFor(asked, publishers, <<x>>[i].type), body |-> <<x>>[i]]]
                  = Append(sent, [topic |-> TopicFor(asked, publishers, x.type), body |-> x])
           /\ sent \o [i \in DOMAIN <<x, y>> |-> [topic |-> TopicFor(asked, publishers, <<x, y>>[i].type), body |-> <<x, y>>[i]]]
                  = Append(Append(sent, [topic |-> TopicFor(asked, publishers, x.type), body |-> x]),
                           [topic |-> TopicFor(asked, publishers, y.type), body |-> y])
<1>. DEFINE a == [topic |-> TopicFor(asked, publishers, x.type), body |-> x]
            b == [topic |-> TopicFor(asked, publishers, y.type), body |-> y]
<1>1. [i \in DOMAIN <<x>> |-> [topic |-> TopicFor(asked, publishers, <<x>>[i].type), body |-> <<x>>[i]]] = <<a>>
  OBVIOUS
<1>2. [i \in DOMAIN <<x, y>> |-> [topic |-> TopicFor(asked, publishers, <<x, y>>[i].type), body |-> <<x, y>>[i]]] = <<a, b>>
  OBVIOUS
<1>3. a \in Message /\ b \in Message
  OBVIOUS
<1>. HIDE DEF a, b
<1>4. sent \o <<a>> = Append(sent, a)
  BY <1>3, AppendIsConcat
<1>5. sent \o <<a, b>> = Append(Append(sent, a), b)
  <2>1. Append(sent, a) \in Seq(Message)
    BY <1>3, AppendProperties
  <2>2. Append(Append(sent, a), b) = (sent \o <<a>>) \o <<b>>
    BY <1>3, <1>4, <2>1, AppendIsConcat
  <2>3. <<a>> \in Seq(Message) /\ <<b>> \in Seq(Message)
    BY <1>3
  <2>4. (sent \o <<a>>) \o <<b>> = sent \o (<<a>> \o <<b>>)
    BY <2>3, ConcatAssociative
  <2>5. <<a>> \o <<b>> = <<a, b>>
    BY PairIsConcat
  <2>. QED
    BY <2>2, <2>4, <2>5
<1>. QED
  BY <1>1, <1>2, <1>4, <1>5 DEF a, b

(* The messages a lidar has when its first frame is published.             *)
LEMMA FramePublished ==
    ASSUME MsgInv, NEW l \in Sources, PublishFrame(l)
    PROVE  LET S == Tail(stored[l])
               H == messages'[l]
           IN  /\ H \in Seq(Message) /\ S \in Seq(Frame) /\ stored[l] # <<>>
               /\ FramesInOrder(Cut(l), S) /\ SentInOrder(Cut(l), S, H)
               /\ l \notin dropped => \A type \in transfer_format_ : Unbroken(type, Cut(l), S, H)
               /\ transfer_format_ = {"cloud", "custom"} => InPairs(H)
               /\ \A k \in 1..Len(H) : /\ H[k].body.type \in transfer_format_ \cup {"imu"}
                                       /\ BodyTells(l, H[k].body, measured[l], Exact(l))
               /\ use_multi_topic_ => \A k \in 1..Len(H) :
                     H[k].topic = <<IF H[k].body.type = "imu" THEN "livox/imu_" ELSE "livox/lidar_", handle(l)>>
               /\ PublishersKept'
<1>. USE DEF MsgInv
<1>. DEFINE asked == GetCurrentPublisher(l)
            pkg == Head(stored[l])
            x == InitPointcloud2Msg(pkg)
            y == FillPointsToCustomMsg(pkg, l)
            a == [topic |-> TopicFor(asked, pub', "cloud"), body |-> x]
            b == [topic |-> TopicFor(asked, pub', "custom"), body |-> y]
            F == stored[l]
            G == messages[l]
            S == Tail(F)
            H == messages'[l]
            c == Cut(l)
            made == (IF "cloud" \in transfer_format_ THEN <<x>> ELSE <<>>)
                    \o (IF "custom" \in transfer_format_ THEN <<y>> ELSE <<>>)
<1>1. /\ F # <<>> /\ stored' = [stored EXCEPT ![l] = S] /\ pub' = Created(asked)
      /\ messages' = [messages EXCEPT ![l] = G \o [i \in DOMAIN made |->
              [topic |-> TopicFor(asked, pub', made[i].type), body |-> made[i]]]]
      /\ UNCHANGED <<transfer_format_, use_multi_topic_, pcl_data_type, data_type,
                     is_set_extrinsic_params_, extrinsic_global, points_clouds_, imu_data_queue_,
                     measured, dropped, samples>>
  BY DEF PublishFrame
<1>2. /\ F \in Seq(Frame) /\ G \in Seq(Message) /\ pkg = F[1] /\ pkg \in Frame /\ S \in Seq(Frame)
      /\ 1 \in 1..Len(F)
  <2>1. F \in Seq(Frame) /\ G \in Seq(Message)
    BY DEF MsgTypes
  <2>. HIDE DEF F
  <2>2. /\ Len(F) \in Nat \ {0} /\ Head(F) = F[1] /\ Head(F) \in Frame /\ S \in Seq(Frame)
    BY <1>1, <2>1, TailAt
  <2>3. 1 \in 1..Len(F)
    BY <2>2
  <2>. QED
    BY <2>1, <2>2, <2>3 DEF F
<1>3. FrameOfPoints(l, pkg, measured[l], Exact(l))
  BY <1>2, Zenon DEF MsgContents
<1>4. /\ FramesInOrder(c, F) /\ SentInOrder(c, F, G) /\ c \in Nat
      /\ l \notin dropped => \A type \in transfer_format_ : Unbroken(type, c, F, G)
      /\ transfer_format_ = {"cloud", "custom"} => InPairs(G)
      /\ \A k \in 1..Len(G) : G[k].body.type \in transfer_format_ \cup {"imu"}
  <2>1. PassedOn(l)
    BY DEF MsgOrder
  <2>2. c \in Nat
    <3>1. measured[l] \in Seq(Measurement) /\ points_clouds_[l] \in Seq(Point)
      BY DEF MsgTypes
    <3>2. Len(measured[l]) \in Nat /\ Len(points_clouds_[l]) \in Nat
      BY <3>1, LenProperties
    <3>3. Len(points_clouds_[l]) <= Len(measured[l])
      BY <2>1 DEF PassedOn, Gathered
    <3>4. \A i, j \in Nat : i <= j => j - i \in Nat
      OBVIOUS
    <3>. QED
      BY <3>2, <3>3, <3>4, Zenon DEF Cut
  <2>. QED
    BY <2>1, <2>2 DEF PassedOn
<1>5. /\ PublishersKept'
      /\ \A type \in transfer_format_ :
            /\ TopicFor(asked, pub', type) \in Topics
            /\ use_multi_topic_ => TopicFor(asked, pub', type) = <<"livox/lidar_", handle(l)>>
  <2>1. PublishersKept
    BY DEF MsgTopics
  <2>. QED
    BY <1>1, <2>1, PointTopic
<1>. HIDE DEF asked, pkg, x, y, F, G, c
<1>6. x.type = "cloud" /\ y.type = "custom"
  BY DEF x, y, InitPointcloud2Msg, FillPointsToCustomMsg
<1>7. "cloud" \in transfer_format_ =>
         /\ a \in Message /\ a.body.type = "cloud" /\ a.topic = TopicFor(asked, pub', "cloud")
         /\ BodyTells(l, a.body, measured[l], Exact(l))
         /\ Len(a.body.points) = Len(pkg.points) /\ FirstOf(a.body.points) = FirstOf(pkg.points)
         /\ LastOf(a.body.points) = LastOf(pkg.points)
         /\ Consecutive(pkg.points) => Consecutive(a.body.points)
  <2>. SUFFICES ASSUME "cloud" \in transfer_format_
                PROVE  /\ a \in Message /\ a.body.type = "cloud" /\ a.topic = TopicFor(asked, pub', "cloud")
                       /\ BodyTells(l, a.body, measured[l], Exact(l))
                       /\ Len(a.body.points) = Len(pkg.points) /\ FirstOf(a.body.points) = FirstOf(pkg.points)
                       /\ LastOf(a.body.points) = LastOf(pkg.points)
                       /\ Consecutive(pkg.points) => Consecutive(a.body.points)
    OBVIOUS
  <2>. DEFINE topic == TopicFor(asked, pub', "cloud")
  <2>1. topic \in Topics
    BY <1>5
  <2>2. x = IF "cloud" = "cloud" THEN InitPointcloud2Msg(pkg) ELSE FillPointsToCustomMsg(pkg, l)
    BY DEF x
  <2>3. a.topic = topic /\ a.body = x
    OBVIOUS
  <2>. HIDE DEF topic
  <2>4. /\ [topic |-> topic, body |-> x] \in Message /\ x.type = "cloud"
        /\ Len(x.points) = Len(pkg.points) /\ FirstOf(x.points) = FirstOf(pkg.points)
        /\ LastOf(x.points) = LastOf(pkg.points)
        /\ Consecutive(pkg.points) => Consecutive(x.points)
        /\ BodyTells(l, x, measured[l], Exact(l))
    BY <1>2, <1>3, <2>1, <2>2, MessageOfFrame
  <2>. QED
    BY <2>3, <2>4 DEF topic
<1>8. "custom" \in transfer_format_ =>
         /\ b \in Message /\ b.body.type = "custom" /\ b.topic = TopicFor(asked, pub', "custom")
         /\ BodyTells(l, b.body, measured[l], Exact(l))
         /\ Len(b.body.points) = Len(pkg.points) /\ FirstOf(b.body.points) = FirstOf(pkg.points)
         /\ LastOf(b.body.points) = LastOf(pkg.points)
         /\ Consecutive(pkg.points) => Consecutive(b.body.points)
  <2>. SUFFICES ASSUME "custom" \in transfer_format_
                PROVE  /\ b \in Message /\ b.body.type = "custom" /\ b.topic = TopicFor(asked, pub', "custom")
                       /\ BodyTells(l, b.body, measured[l], Exact(l))
                       /\ Len(b.body.points) = Len(pkg.points) /\ FirstOf(b.body.points) = FirstOf(pkg.points)
                       /\ LastOf(b.body.points) = LastOf(pkg.points)
                       /\ Consecutive(pkg.points) => Consecutive(b.body.points)
    OBVIOUS
  <2>. DEFINE topic == TopicFor(asked, pub', "custom")
  <2>1. topic \in Topics
    BY <1>5
  <2>2. y = IF "custom" = "cloud" THEN InitPointcloud2Msg(pkg) ELSE FillPointsToCustomMsg(pkg, l)
    BY DEF y
  <2>3. b.topic = topic /\ b.body = y
    OBVIOUS
  <2>. HIDE DEF topic
  <2>4. /\ [topic |-> topic, body |-> y] \in Message /\ y.type = "custom"
        /\ Len(y.points) = Len(pkg.points) /\ FirstOf(y.points) = FirstOf(pkg.points)
        /\ LastOf(y.points) = LastOf(pkg.points)
        /\ Consecutive(pkg.points) => Consecutive(y.points)
        /\ BodyTells(l, y, measured[l], Exact(l))
    BY <1>2, <1>3, <2>1, <2>2, MessageOfFrame
  <2>. QED
    BY <2>3, <2>4 DEF topic
<1>9. H = G \o [i \in DOMAIN made |->
                  [topic |-> TopicFor(asked, pub', made[i].type), body |-> made[i]]]
  BY <1>1 DEF MsgTypes, G
<1>10. /\ transfer_format_ = {"cloud"} => H = Append(G, a)
       /\ transfer_format_ = {"custom"} => H = Append(G, b)
       /\ transfer_format_ = {"cloud", "custom"} => H = Append(Append(G, a), b)
  <2>. HIDE DEF H
  <2>1. ASSUME transfer_format_ = {"cloud"} PROVE H = Append(G, a)
    <3>1. made = <<x>>
      BY <2>1
    <3>2. [topic |-> TopicFor(asked, pub', x.type), body |-> x] = a /\ a \in Message
      BY <1>6, <1>7, <2>1
    <3>. HIDE DEF made, a
    <3>3. H = G \o [i \in DOMAIN <<x>> |->
                      [topic |-> TopicFor(asked, pub', <<x>>[i].type), body |-> <<x>>[i]]]
      BY <1>9, <3>1
    <3>4. G \o [i \in DOMAIN <<x>> |-> [topic |-> TopicFor(asked, pub', <<x>>[i].type), body |-> <<x>>[i]]]
          = Append(G, [topic |-> TopicFor(asked, pub', x.type), body |-> x])
      BY <1>2, <3>2, MadeOfBodies
    <3>. QED
      BY <3>2, <3>3, <3>4, Zenon
  <2>2. ASSUME transfer_format_ = {"custom"} PROVE H = Append(G, b)
    <3>1. made = <<y>>
      BY <2>2
    <3>2. [topic |-> TopicFor(asked, pub', y.type), body |-> y] = b /\ b \in Message
      BY <1>6, <1>8, <2>2
    <3>. HIDE DEF made, b
    <3>3. H = G \o [i \in DOMAIN <<y>> |->
                      [topic |-> TopicFor(asked, pub', <<y>>[i].type), body |-> <<y>>[i]]]
      BY <1>9, <3>1
    <3>4. G \o [i \in DOMAIN <<y>> |-> [topic |-> TopicFor(asked, pub', <<y>>[i].type), body |-> <<y>>[i]]]
          = Append(G, [topic |-> TopicFor(asked, pub', y.type), body |-> y])
      BY <1>2, <3>2, MadeOfBodies
    <3>. QED
      BY <3>2, <3>3, <3>4, Zenon
  <2>3. ASSUME transfer_format_ = {"cloud", "custom"} PROVE H = Append(Append(G, a), b)
    <3>1. made = <<x, y>>
      <4>1. made = <<x>> \o <<y>>
        BY <2>3
      <4>. QED
        BY <4>1, PairIsConcat
    <3>2. /\ [topic |-> TopicFor(asked, pub', x.type), body |-> x] = a /\ a \in Message
          /\ [topic |-> TopicFor(asked, pub', y.type), body |-> y] = b /\ b \in Message
      BY <1>6, <1>7, <1>8, <2>3
    <3>. HIDE DEF made, a, b
    <3>3. H = G \o [i \in DOMAIN <<x, y>> |->
                      [topic |-> TopicFor(asked, pub', <<x, y>>[i].type), body |-> <<x, y>>[i]]]
      BY <1>9, <3>1
    <3>4. G \o [i \in DOMAIN <<x, y>> |->
                   [topic |-> TopicFor(asked, pub', <<x, y>>[i].type), body |-> <<x, y>>[i]]]
          = Append(Append(G, [topic |-> TopicFor(asked, pub', x.type), body |-> x]),
                   [topic |-> TopicFor(asked, pub', y.type), body |-> y])
      BY <1>2, <3>2, MadeOfBodies
    <3>. QED
      BY <3>2, <3>3, <3>4, Zenon
  <2>. QED
    BY <2>1, <2>2, <2>3
<1>. HIDE DEF a, b, made, H
<1>11. /\ FramesInOrder(c, S) /\ SentInOrder(c, S, G)
       /\ Consecutive(pkg.points) /\ LastOf(pkg.points) <= c
       /\ \A f \in 1..Len(S) : LastOf(pkg.points) < FirstOf(S[f].points)
       /\ \A k \in 1..Len(G) : G[k].body.type # "imu" =>
             LastOf(G[k].body.points) < FirstOf(pkg.points)
  BY <1>1, <1>2, <1>4, FrameLeaves
<1>. HIDE DEF S
<1>12. ASSUME NEW m \in {a, b}, m.body.type \in transfer_format_, m.body.type # "imu", m \in Message,
              Consecutive(m.body.points), FirstOf(m.body.points) = FirstOf(pkg.points),
              LastOf(m.body.points) = LastOf(pkg.points)
       PROVE  /\ SentInOrder(c, S, Append(G, m))
              /\ \A type : type # m.body.type /\ Unbroken(type, c, F, G) => Unbroken(type, c, F, Append(G, m))
              /\ l \notin dropped => Unbroken(m.body.type, c, S, Append(G, m))
  <2>1. SentInOrder(c, S, Append(G, m))
    <3>1. /\ Consecutive(m.body.points) /\ LastOf(m.body.points) <= c
          /\ \A f \in 1..Len(S) : LastOf(m.body.points) < FirstOf(S[f].points)
          /\ \A k \in 1..Len(G) : G[k].body.type = m.body.type =>
                LastOf(G[k].body.points) < FirstOf(m.body.points)
      BY <1>11, <1>12
    <3>2. S \in Seq(Frame) /\ SentInOrder(c, S, G)
      BY <1>2, <1>11
    <3>. QED
      BY <1>2, <1>4, <1>12, <3>1, <3>2, MessageJoins
  <2>2. ASSUME NEW type, type # m.body.type, Unbroken(type, c, F, G) PROVE Unbroken(type, c, F, Append(G, m))
    BY <1>2, <1>12, <2>2, UnbrokenByOther
  <2>3. l \notin dropped => Unbroken(m.body.type, c, S, Append(G, m))
    <3>1. FirstOf(m.body.points) = FirstOf(F[1].points) /\ LastOf(m.body.points) = LastOf(F[1].points)
      BY <1>2, <1>12
    <3>2. l \notin dropped => Unbroken(m.body.type, c, F, G)
      BY <1>4, <1>12
    <3>. QED
      BY <1>1, <1>2, <1>4, <1>12, <3>1, <3>2, FrameGoesOut DEF S
  <2>. QED
    BY <2>1, <2>2, <2>3
<1>13. ASSUME NEW type \in transfer_format_, Unbroken(type, c, F, G), NEW m \in Message, m.body.type = type,
              FirstOf(m.body.points) = FirstOf(pkg.points), LastOf(m.body.points) = LastOf(pkg.points),
              NEW before \in Message, before.body.type # type
       PROVE  Unbroken(type, c, S, Append(Append(G, before), m))
  <2>1. Unbroken(type, c, F, Append(G, before)) /\ Append(G, before) \in Seq(Message)
    BY <1>2, <1>13, UnbrokenByOther, AppendProperties
  <2>2. FirstOf(m.body.points) = FirstOf(F[1].points) /\ LastOf(m.body.points) = LastOf(F[1].points)
    BY <1>2, <1>13
  <2>. QED
    BY <1>1, <1>2, <1>4, <1>13, <2>1, <2>2, FrameGoesOut DEF S
<1>. DEFINE onTopic(m) == m.topic = <<IF m.body.type = "imu" THEN "livox/imu_" ELSE "livox/lidar_", handle(l)>>
            fits(m) == /\ m.body.type \in transfer_format_ \cup {"imu"}
                       /\ BodyTells(l, m.body, measured[l], Exact(l))
                       /\ use_multi_topic_ => onTopic(m)
<1>14. \A k \in 1..Len(G) : fits(G[k])
  <2>1. \A k \in 1..Len(G) : BodyTells(l, G[k].body, measured[l], Exact(l))
    BY DEF MsgContents, G
  <2>2. use_multi_topic_ => \A k \in 1..Len(G) : onTopic(G[k])
    BY DEF MsgTopics, OnItsTopic, G
  <2>. QED
    BY <1>4, <2>1, <2>2
<1>15. /\ "cloud" \in transfer_format_ => fits(a)
       /\ "custom" \in transfer_format_ => fits(b)
  BY <1>5, <1>7, <1>8
<1>. HIDE DEF fits
<1>16. ASSUME transfer_format_ = {"cloud"}
       PROVE  /\ H \in Seq(Message) /\ SentInOrder(c, S, H) /\ \A k \in 1..Len(H) : fits(H[k])
              /\ l \notin dropped => \A type \in transfer_format_ : Unbroken(type, c, S, H)
  <2>1. /\ SentInOrder(c, S, Append(G, a)) /\ (l \notin dropped => Unbroken("cloud", c, S, Append(G, a)))
        /\ a \in Message
    BY <1>7, <1>11, <1>12, <1>16
  <2>2. /\ Append(G, a) \in Seq(Message)
        /\ \A k \in 1..Len(Append(G, a)) :
              (k \in 1..Len(G) /\ Append(G, a)[k] = G[k]) \/ Append(G, a)[k] = a
    BY <1>2, <2>1, OneMore
  <2>3. fits(a)
    BY <1>15, <1>16
  <2>4. \A k \in 1..Len(Append(G, a)) : fits(Append(G, a)[k])
    BY <1>14, <2>2, <2>3, Zenon
  <2>5. H = Append(G, a)
    BY <1>10, <1>16
  <2>. QED
    BY <1>16, <2>1, <2>2, <2>4, <2>5
<1>17. ASSUME transfer_format_ = {"custom"}
       PROVE  /\ H \in Seq(Message) /\ SentInOrder(c, S, H) /\ \A k \in 1..Len(H) : fits(H[k])
              /\ l \notin dropped => \A type \in transfer_format_ : Unbroken(type, c, S, H)
  <2>1. /\ SentInOrder(c, S, Append(G, b)) /\ (l \notin dropped => Unbroken("custom", c, S, Append(G, b)))
        /\ b \in Message
    BY <1>8, <1>11, <1>12, <1>17
  <2>2. /\ Append(G, b) \in Seq(Message)
        /\ \A k \in 1..Len(Append(G, b)) :
              (k \in 1..Len(G) /\ Append(G, b)[k] = G[k]) \/ Append(G, b)[k] = b
    BY <1>2, <2>1, OneMore
  <2>3. fits(b)
    BY <1>15, <1>17
  <2>4. \A k \in 1..Len(Append(G, b)) : fits(Append(G, b)[k])
    BY <1>14, <2>2, <2>3, Zenon
  <2>5. H = Append(G, b)
    BY <1>10, <1>17
  <2>. QED
    BY <1>17, <2>1, <2>2, <2>4, <2>5
<1>18. ASSUME transfer_format_ = {"cloud", "custom"}
       PROVE  /\ H \in Seq(Message) /\ SentInOrder(c, S, H) /\ \A k \in 1..Len(H) : fits(H[k])
              /\ l \notin dropped => \A type \in transfer_format_ : Unbroken(type, c, S, H)
              /\ InPairs(H)
  <2>. DEFINE one == Append(G, a)
  <2>1. /\ a \in Message /\ a.body.type = "cloud" /\ b \in Message /\ b.body.type = "custom"
        /\ FirstOf(b.body.points) = FirstOf(pkg.points) /\ LastOf(b.body.points) = LastOf(pkg.points)
        /\ FirstOf(a.body.points) = FirstOf(pkg.points) /\ LastOf(a.body.points) = LastOf(pkg.points)
        /\ Len(a.body.points) = Len(b.body.points)
        /\ Consecutive(a.body.points) /\ Consecutive(b.body.points)
    BY <1>7, <1>8, <1>11, <1>18
  <2>2. SentInOrder(c, S, one) /\ (l \notin dropped => Unbroken("cloud", c, S, one))
    BY <1>12, <1>18, <2>1
  <2>3. /\ one \in Seq(Message)
        /\ \A k \in 1..Len(one) : (k \in 1..Len(G) /\ one[k] = G[k]) \/ one[k] = a
    BY <1>2, <2>1, OneMore
  <2>. HIDE DEF one
  <2>4. /\ Append(one, b) \in Seq(Message)
        /\ \A k \in 1..Len(Append(one, b)) :
              (k \in 1..Len(one) /\ Append(one, b)[k] = one[k]) \/ Append(one, b)[k] = b
    BY <2>1, <2>3, OneMore
  <2>5. H = Append(one, b)
    BY <1>10, <1>18 DEF one
  <2>6. SentInOrder(c, S, Append(one, b))
    <3>1. /\ LastOf(b.body.points) <= c
          /\ \A f \in 1..Len(S) : LastOf(b.body.points) < FirstOf(S[f].points)
      BY <1>11, <2>1
    <3>2. \A k \in 1..Len(one) : one[k].body.type = b.body.type =>
             LastOf(one[k].body.points) < FirstOf(b.body.points)
      BY <1>11, <2>1, <2>3
    <3>. QED
      BY <1>2, <1>4, <2>1, <2>2, <2>3, <3>1, <3>2, MessageJoins
  <2>7. l \notin dropped => \A type \in transfer_format_ : Unbroken(type, c, S, Append(one, b))
    <3>. SUFFICES ASSUME l \notin dropped
                  PROVE  Unbroken("cloud", c, S, Append(one, b)) /\ Unbroken("custom", c, S, Append(one, b))
      BY <1>18
    <3>1. Unbroken("cloud", c, S, Append(one, b))
      BY <2>1, <2>2, <2>3, UnbrokenByOther
    <3>2. Unbroken("custom", c, S, Append(one, b))
      <4>1. Unbroken("custom", c, F, G) /\ "custom" \in transfer_format_
        BY <1>4, <1>18
      <4>. QED
        BY <1>13, <2>1, <4>1 DEF one
    <3>. QED
      BY <3>1, <3>2
  <2>8. InPairs(Append(one, b))
    <3>1. InPairs(G)
      BY <1>4, <1>18
    <3>. QED
      BY <1>2, <2>1, <3>1, PairsJoin DEF one
  <2>9. \A k \in 1..Len(Append(one, b)) : fits(Append(one, b)[k])
    <3>1. fits(a) /\ fits(b)
      BY <1>15, <1>18
    <3>. QED
      BY <1>14, <2>3, <2>4, <3>1, Zenon
  <2>. QED
    BY <2>4, <2>5, <2>6, <2>7, <2>8, <2>9
<1>19. /\ H \in Seq(Message) /\ SentInOrder(c, S, H) /\ \A k \in 1..Len(H) : fits(H[k])
       /\ l \notin dropped => \A type \in transfer_format_ : Unbroken(type, c, S, H)
       /\ transfer_format_ = {"cloud", "custom"} => InPairs(H)
  <2>1. \/ transfer_format_ = {"cloud"} \/ transfer_format_ = {"custom"}
        \/ transfer_format_ = {"cloud", "custom"}
    BY DEF MsgSettings
  <2>2. {"cloud"} # {"cloud", "custom"} /\ {"custom"} # {"cloud", "custom"}
    OBVIOUS
  <2>3. CASE transfer_format_ = {"cloud"}
    <3>1. transfer_format_ # {"cloud", "custom"}
      BY <2>2, <2>3
    <3>. QED
      BY <1>16, <2>3, <3>1, Zenon
  <2>4. CASE transfer_format_ = {"custom"}
    <3>1. transfer_format_ # {"cloud", "custom"}
      BY <2>2, <2>4
    <3>. QED
      BY <1>17, <2>4, <3>1, Zenon
  <2>5. CASE transfer_format_ = {"cloud", "custom"}
    BY <1>18, <2>5, Zenon
  <2>. QED
    BY <2>1, <2>3, <2>4, <2>5, Zenon
<1>20. \A k \in 1..Len(H) : /\ H[k].body.type \in transfer_format_ \cup {"imu"}
                            /\ BodyTells(l, H[k].body, measured[l], Exact(l))
                            /\ use_multi_topic_ => onTopic(H[k])
  BY <1>19, Zenon DEF fits
<1>. QED
  BY <1>1, <1>2, <1>5, <1>11, <1>19, <1>20, Zenon DEF c, S, H, F

LEMMA FrameKeeps ==
    ASSUME MsgInv, NEW l \in Sources, PublishFrame(l)
    PROVE  MsgInv'
<1>. DEFINE S == Tail(stored[l])
            H == messages'[l]
<1>1. /\ stored' = [stored EXCEPT ![l] = S]
      /\ \E q : messages' = [messages EXCEPT ![l] = q]
      /\ UNCHANGED <<transfer_format_, use_multi_topic_, pcl_data_type, data_type,
                     is_set_extrinsic_params_, extrinsic_global, points_clouds_, imu_data_queue_,
                     measured, dropped, samples>>
  BY DEF PublishFrame
<1>2. /\ H \in Seq(Message) /\ S \in Seq(Frame) /\ stored[l] # <<>>
      /\ FramesInOrder(Cut(l), S) /\ SentInOrder(Cut(l), S, H)
      /\ l \notin dropped => \A type \in transfer_format_ : Unbroken(type, Cut(l), S, H)
      /\ transfer_format_ = {"cloud", "custom"} => InPairs(H)
      /\ \A k \in 1..Len(H) : /\ H[k].body.type \in transfer_format_ \cup {"imu"}
                              /\ BodyTells(l, H[k].body, measured[l], Exact(l))
      /\ use_multi_topic_ => \A k \in 1..Len(H) :
            H[k].topic = <<IF H[k].body.type = "imu" THEN "livox/imu_" ELSE "livox/lidar_", handle(l)>>
      /\ PublishersKept'
  BY FramePublished
<1>. HIDE DEF S, H
<1>. USE DEF MsgInv
<1>3. /\ stored'[l] = S /\ messages'[l] = H
      /\ \A k \in Sources : k # l => stored'[k] = stored[k] /\ messages'[k] = messages[k]
  <2>1. messages'[l] = H
    BY DEF H
  <2>. QED
    BY <1>1, <2>1 DEF MsgTypes
<1>4. MsgSettings'
  BY <1>1 DEF MsgSettings
<1>5. MsgTypes'
  <2>1. stored' \in [Sources -> Seq(Frame)]
    BY <1>1, <1>2 DEF MsgTypes
  <2>2. messages' \in [Sources -> Seq(Message)]
    <3>1. DOMAIN messages' = Sources /\ messages' = [k \in Sources |-> messages'[k]]
      BY <1>1 DEF MsgTypes
    <3>2. \A k \in Sources : messages'[k] \in Seq(Message)
      BY <1>2, <1>3 DEF MsgTypes
    <3>. QED
      BY <3>1, <3>2
  <2>. QED
    BY <1>1, <2>1, <2>2 DEF MsgTypes
<1>6. MsgOrder'
  <2>. SUFFICES ASSUME NEW k \in Sources PROVE PassedOn(k)'
    BY DEF MsgOrder
  <2>1. PassedOn(k)
    BY DEF MsgOrder
  <2>2. CASE k # l
    BY <1>1, <1>3, <2>1, <2>2, Zenon DEF PassedOn, Gathered, Cut
  <2>3. CASE k = l
    BY <1>1, <1>2, <1>3, <2>1, <2>3, ZenonT(40) DEF PassedOn, Gathered, Cut
  <2>. QED
    BY <2>2, <2>3
<1>7. MsgContents'
  <2>1. \A k \in Sources : Exact(k)' = Exact(k)
    BY <1>1 DEF Exact
  <2>2. ASSUME NEW k \in Sources
        PROVE  /\ \A i \in 1..Len(messages'[k]) : BodyTells(k, messages'[k][i].body, measured[k], Exact(k))
               /\ \A f \in 1..Len(stored'[k]) : FrameOfPoints(k, stored'[k][f], measured[k], Exact(k))
    <3>1. CASE k # l
      BY <1>3, <3>1, Zenon DEF MsgContents
    <3>2. CASE k = l
      <4>1. \A f \in 1..Len(S) : f + 1 \in 1..Len(stored[l]) /\ S[f] = stored[l][f + 1]
        <5>1. stored[l] \in Seq(Frame)
          BY DEF MsgTypes
        <5>. QED
          BY <1>2, <5>1, TailAt DEF S
      <4>2. \A f \in 1..Len(S) : FrameOfPoints(l, S[f], measured[l], Exact(l))
        BY <4>1, Zenon DEF MsgContents
      <4>. QED
        BY <1>2, <1>3, <3>2, <4>2, Zenon
    <3>. QED
      BY <3>1, <3>2
  <2>. QED
    BY <1>1, <2>1, <2>2, Zenon DEF MsgContents, Heard
<1>8. MsgTopics'
  <2>. SUFFICES ASSUME NEW k \in Sources, use_multi_topic_
                PROVE  \A i \in 1..Len(messages'[k]) :
                          messages'[k][i].topic = <<IF messages'[k][i].body.type = "imu" THEN "livox/imu_"
                                                    ELSE "livox/lidar_", handle(k)>>
    BY <1>1, <1>2 DEF MsgTopics, OnItsTopic
  <2>1. CASE k # l
    BY <1>3, <2>1, Zenon DEF MsgTopics, OnItsTopic
  <2>2. CASE k = l
    BY <1>2, <1>3, <2>2, Zenon
  <2>. QED
    BY <2>1, <2>2
<1>. QED
  BY <1>4, <1>5, <1>6, <1>7, <1>8

LEMMA MsgInductive ==
    ASSUME MsgInv, [MsgNext]_msgVars
    PROVE  MsgInv'
<1>1. CASE UNCHANGED msgVars
  <2>1. MsgSettings' /\ MsgTypes'
    BY <1>1 DEF msgVars, MsgInv, MsgSettings, MsgTypes
  <2>2. ASSUME NEW l \in Sources PROVE PassedOn(l)'
    <3>1. PassedOn(l)
      BY DEF MsgInv, MsgOrder
    <3>. QED
      BY <1>1, <3>1, Zenon DEF msgVars, PassedOn, Gathered, Cut
  <2>3. MsgContents'
    <3>1. MsgContents /\ \A k \in Sources : Exact(k)' = Exact(k)
      BY <1>1 DEF msgVars, MsgInv, Exact
    <3>. QED
      BY <1>1, <3>1, Zenon DEF msgVars, MsgContents, Heard
  <2>4. MsgTopics'
    <3>1. PublishersKept /\ \A l \in Sources : OnItsTopic(l)
      BY DEF MsgInv, MsgTopics
    <3>2. PublishersKept'
      BY <1>1, <3>1, ZenonT(40) DEF msgVars, PublishersKept, GetCurrentPublisher, GetCurrentImuPublisher
    <3>3. \A l \in Sources : OnItsTopic(l)'
      BY <1>1, <3>1, Zenon DEF msgVars, OnItsTopic
    <3>. QED
      BY <3>2, <3>3 DEF MsgTopics
  <2>. QED
    BY <2>1, <2>2, <2>3, <2>4 DEF MsgInv, MsgOrder
<1>2. CASE \E l \in Sources, time \in PacketTimes : NextPacket(l, time)
  BY <1>2, PacketKeeps
<1>3. CASE \E ls \in {{l} : l \in Sources} \cup {Sources} : StoragePointData(ls)
  <2>1. PICK ls \in SUBSET Sources : StoragePointData(ls)
    BY <1>3
  <2>. QED
    BY <2>1, StorageKeeps
<1>4. CASE \E l \in Sources : LidarImuDataCallback(l) \/ PublishFrame(l) \/ PublishImuData(l)
  BY <1>4, SampleKeeps, FrameKeeps, ImuKeeps
<1>. QED
  BY <1>1, <1>2, <1>3, <1>4 DEF MsgNext

LEMMA MessagesFollow == MsgInv => MessagesInOrder /\ MessagesTellThePoints
<1>. SUFFICES ASSUME MsgInv PROVE MessagesInOrder /\ MessagesTellThePoints
  OBVIOUS
<1>. USE DEF MsgInv
<1>1. MessagesInOrder
  <2>. SUFFICES ASSUME NEW l \in Sources, NEW type \in transfer_format_
       PROVE  LET body(k)  == messages[l][k].body
                  ofType   == {k \in DOMAIN messages[l] : body(k).type = type}
                  first(k) == body(k).points[1].num
                  last(k)  == first(k) + Len(body(k).points) - 1
              IN  /\ \A k \in ofType : \A i \in DOMAIN body(k).points :
                        body(k).points[i].num = first(k) + i - 1
                  /\ \A j, k \in ofType : j < k => last(j) < first(k)
                  /\ l \notin dropped => \A k \in ofType :
                        first(k) = 1 \/ \E j \in ofType : j < k /\ last(j) + 1 = first(k)
                  /\ transfer_format_ = {"cloud", "custom"} => \A k \in ofType :
                        LET other == IF type = "cloud" THEN k + 1 ELSE k - 1
                        IN  /\ other \in DOMAIN messages[l] /\ body(other).type # type
                            /\ body(other).type # "imu" /\ first(other) = first(k)
                            /\ Len(body(other).points) = Len(body(k).points)
    BY DEF MessagesInOrder
  <2>. DEFINE G == messages[l]
              ofType == {k \in DOMAIN G : G[k].body.type = type}
  <2>1. /\ G \in Seq(Message) /\ DOMAIN G = 1..Len(G) /\ Len(G) \in Nat
        /\ type # "imu" /\ PassedOn(l)
    BY LenProperties DEF MsgTypes, MsgOrder, MsgSettings
  <2>2. \A k : /\ G[k].body.points[1].num = FirstOf(G[k].body.points)
              /\ G[k].body.points[1].num + Len(G[k].body.points) - 1 = LastOf(G[k].body.points)
    BY DEF FirstOf, LastOf
  <2>. HIDE DEF G
  <2>3. \A k \in ofType : k \in 1..Len(G) /\ G[k].body.type = type /\ Consecutive(G[k].body.points)
    BY <2>1 DEF PassedOn, SentInOrder, G
  <2>4. ASSUME NEW k \in ofType, NEW i \in DOMAIN G[k].body.points
        PROVE  G[k].body.points[i].num = FirstOf(G[k].body.points) + i - 1
    <3>1. G[k] \in Message /\ k \in 1..Len(G)
      BY <2>1, <2>3, ElementOfSeq
    <3>2. \E S : G[k].body.points \in Seq(S)
      <4>1. G[k].body \in Body /\ G[k].body.type # "imu"
        BY <2>1, <2>3, <3>1 DEF Message
      <4>2. \/ G[k].body.points \in Seq([pos : Int \X Int, num : Nat, timestamp : Int])
            \/ G[k].body.points \in Seq([pos : Int \X Int, num : Nat, offset_time : Nat])
        BY <4>1 DEF Body
      <4>. QED
        BY <4>2
    <3>3. DOMAIN G[k].body.points = 1..Len(G[k].body.points)
      BY <3>2, LenProperties
    <3>. QED
      BY <2>3, <3>3 DEF Consecutive
  <2>5. \A j, k \in ofType : j < k => LastOf(G[j].body.points) < FirstOf(G[k].body.points)
    BY <2>1, <2>3 DEF PassedOn, SentInOrder, G
  <2>6. ASSUME l \notin dropped, NEW k \in ofType
        PROVE  \/ FirstOf(G[k].body.points) = 1
               \/ \E j \in ofType : j < k /\ LastOf(G[j].body.points) + 1 = FirstOf(G[k].body.points)
    <3>1. \/ FirstOf(G[k].body.points) = 1
          \/ \E j \in 1..(k - 1) : /\ G[j].body.type = type
                                   /\ LastOf(G[j].body.points) + 1 = FirstOf(G[k].body.points)
      BY <2>1, <2>3, <2>6 DEF PassedOn, Unbroken, G
    <3>2. \A j \in 1..(k - 1) : j \in DOMAIN G /\ j < k
      BY <2>1, <2>3
    <3>. QED
      BY <3>1, <3>2
  <2>7. ASSUME transfer_format_ = {"cloud", "custom"}, NEW k \in ofType
        PROVE  LET other == IF type = "cloud" THEN k + 1 ELSE k - 1
               IN  /\ other \in DOMAIN G /\ G[other].body.type # type
                   /\ G[other].body.type # "imu"
                   /\ FirstOf(G[other].body.points) = FirstOf(G[k].body.points)
                   /\ Len(G[other].body.points) = Len(G[k].body.points)
    BY <2>1, <2>3, <2>7 DEF PassedOn, InPairs, G
  <2>. HIDE DEF ofType
  <2>8. /\ \A k \in ofType : \A i \in DOMAIN G[k].body.points :
              G[k].body.points[i].num = G[k].body.points[1].num + i - 1
        /\ \A j, k \in ofType : j < k =>
              G[j].body.points[1].num + Len(G[j].body.points) - 1 < G[k].body.points[1].num
        /\ l \notin dropped => \A k \in ofType :
              \/ G[k].body.points[1].num = 1
              \/ \E j \in ofType : j < k /\ G[j].body.points[1].num + Len(G[j].body.points) - 1 + 1
                                             = G[k].body.points[1].num
        /\ transfer_format_ = {"cloud", "custom"} => \A k \in ofType :
              LET other == IF type = "cloud" THEN k + 1 ELSE k - 1
              IN  /\ other \in DOMAIN G /\ G[other].body.type # type
                  /\ G[other].body.type # "imu"
                  /\ G[other].body.points[1].num = G[k].body.points[1].num
                  /\ Len(G[other].body.points) = Len(G[k].body.points)
    <3>1. \A k \in ofType : \A i \in DOMAIN G[k].body.points :
             G[k].body.points[i].num = G[k].body.points[1].num + i - 1
      BY <2>2, <2>4, Zenon
    <3>2. \A j, k \in ofType : j < k =>
             G[j].body.points[1].num + Len(G[j].body.points) - 1 < G[k].body.points[1].num
      BY <2>2, <2>5, Zenon
    <3>3. l \notin dropped => \A k \in ofType :
             \/ G[k].body.points[1].num = 1
             \/ \E j \in ofType : j < k /\ G[j].body.points[1].num + Len(G[j].body.points) - 1 + 1
                                            = G[k].body.points[1].num
      BY <2>2, <2>6, Zenon
    <3>4. transfer_format_ = {"cloud", "custom"} => \A k \in ofType :
             LET other == IF type = "cloud" THEN k + 1 ELSE k - 1
             IN  /\ other \in DOMAIN G /\ G[other].body.type # type
                 /\ G[other].body.type # "imu"
                 /\ G[other].body.points[1].num = G[k].body.points[1].num
                 /\ Len(G[other].body.points) = Len(G[k].body.points)
      BY <2>7, Zenon DEF FirstOf
    <3>. QED
      BY <3>1, <3>2, <3>3, <3>4, Zenon
  <2>. QED
    BY <2>8, Zenon DEF ofType, G
<1>2. MessagesTellThePoints
  <2>. SUFFICES ASSUME NEW l \in Sources, NEW k \in DOMAIN messages[l]
       PROVE  LET m == messages[l][k].body
              IN  IF m.type = "imu"
                  THEN /\ m.data.heard = {} => m.data.turn = 0
                       /\ m.data.heard = {l} => m.data.turn = Mounting(l).yaw
                  ELSE /\ m.stamp = measured[l][m.points[1].num].time
                       /\ use_multi_topic_ /\ l \in DOMAIN Configured =>
                            \A other \in Sources \ {l} : \A j \in DOMAIN messages[other] :
                               messages[other][j].topic # messages[l][k].topic
                       /\ m.type = "custom" /\ l \in DOMAIN Configured => m.lidar_id = l
                       /\ \A i \in DOMAIN m.points :
                            LET p == m.points[i]
                                time == measured[l][p.num].time
                            IN  /\ (l \in DOMAIN Configured =>
                                        (pcl_data_type[l] = "low" <=> data_type[l] = "low")) =>
                                      \A c \in 1..2 : Off(p.pos[c], Truth(l, p.num)[c]) < 10
                                /\ m.type = "cloud" => 2 * Off(p.timestamp, time) <= Granule
                                /\ m.type = "custom" /\ time - m.stamp \in 0..(OffsetRange - 1) =>
                                      m.stamp + p.offset_time = time
    BY DEF MessagesTellThePoints
  <2>. DEFINE m == messages[l][k].body
  <2>1. \A j \in Sources : messages[j] \in Seq(Message) /\ DOMAIN messages[j] = 1..Len(messages[j])
    BY LenProperties DEF MsgTypes
  <2>2. BodyTells(l, m, measured[l], Exact(l)) /\ k \in 1..Len(messages[l])
    BY <2>1 DEF MsgContents
  <2>3. CASE m.type = "imu"
    BY <2>2, <2>3, Zenon DEF BodyTells, SampleTells
  <2>4. CASE m.type # "imu"
    <3>1. use_multi_topic_ /\ l \in DOMAIN Configured =>
             \A other \in Sources \ {l} : \A j \in DOMAIN messages[other] :
                messages[other][j].topic # messages[l][k].topic
      <4>. SUFFICES ASSUME use_multi_topic_, l \in DOMAIN Configured, NEW other \in Sources \ {l},
                           NEW j \in DOMAIN messages[other]
                    PROVE  messages[other][j].topic # messages[l][k].topic
        OBVIOUS
      <4>1. messages[l][k].topic = <<"livox/lidar_", handle(l)>>
        BY <2>2, <2>4 DEF MsgTopics, OnItsTopic
      <4>2. \E s : messages[other][j].topic = <<s, handle(other)>>
        BY <2>1 DEF MsgTopics, OnItsTopic
      <4>3. handle(other) # handle(l)
        BY HandleKept
      <4>. QED
        BY <4>1, <4>2, <4>3
    <3>2. \E S : m.points \in Seq(S)
      <4>1. messages[l][k] \in Message
        BY <2>1, <2>2, ElementOfSeq
      <4>2. m \in Body
        BY <4>1 DEF Message
      <4>. HIDE DEF m
      <4>3. \/ m.points \in Seq([pos : Int \X Int, num : Nat, timestamp : Int])
            \/ m.points \in Seq([pos : Int \X Int, num : Nat, offset_time : Nat])
        BY <2>4, <4>2 DEF Body
      <4>. QED
        BY <4>3
    <3>3. DOMAIN m.points = 1..Len(m.points)
      BY <3>2, LenProperties
    <3>4. \A i \in DOMAIN m.points : /\ Near(l, m.points[i].pos, measured[l][m.points[i].num].pos, Exact(l))
                                     /\ m.type = "cloud" => 2 * Off(m.points[i].timestamp,
                                                                    measured[l][m.points[i].num].time) <= Granule
                                     /\ m.type = "custom" /\ measured[l][m.points[i].num].time - m.stamp
                                                              \in 0..(OffsetRange - 1) =>
                                           m.stamp + m.points[i].offset_time = measured[l][m.points[i].num].time
      BY <2>2, <2>4, <3>3, Zenon DEF BodyTells
    <3>5. /\ m.stamp = measured[l][m.points[1].num].time
          /\ m.type = "custom" /\ l \in DOMAIN Configured => m.lidar_id = l
      BY <2>2, <2>4, Zenon DEF BodyTells
    <3>. HIDE DEF m
    <3>6. ASSUME NEW i \in DOMAIN m.points,
                 l \in DOMAIN Configured => (pcl_data_type[l] = "low" <=> data_type[l] = "low")
          PROVE  \A c \in 1..2 : Off(m.points[i].pos[c], Truth(l, m.points[i].num)[c]) < 10
      <4>1. Exact(l) = 1..2
        BY <3>6 DEF Exact
      <4>2. Placed(l, measured[l][m.points[i].num].pos) = Truth(l, m.points[i].num)
        BY Zenon DEF Placed, Truth
      <4>. QED
        BY <3>4, <4>1, <4>2, Zenon DEF Near
    <3>. QED
      BY <2>4, <3>1, <3>4, <3>5, <3>6, Zenon DEF m
  <2>. QED
    BY <2>3, <2>4
<1>. QED
  BY <1>1, <1>2

-----------------------------------------------------------------------------
(* The points of a lidar arrive in its frames and messages once each and   *)
(* in the order they were measured: RawDataProcess and CheckTimer hand     *)
(* over whole runs of packets, and the publishing of frames keeps them,    *)
(* unless the frame queue was full.                                        *)
THEOREM NothingIsLost == PubSpec /\ MsgSpec => []NothingLost
<1>1. PubInv => PointsAccountedFor
  BY InTurnAccounts DEF PubInv
<1>2. PubSpec => []PointsAccountedFor
  <2>1. PubInv /\ [PubNext]_pubVars => PubInv'
    BY PubInductive
  <2>. QED
    BY <1>1, <2>1, PubInitially, PTL DEF PubSpec
<1>3. MsgInv => MessagesInOrder
  BY MessagesFollow
<1>4. MsgSpec => []MessagesInOrder
  <2>1. MsgInv /\ [MsgNext]_msgVars => MsgInv'
    BY MsgInductive
  <2>. QED
    BY <1>3, <2>1, MsgInitially, PTL DEF MsgSpec
<1>5. PointsAccountedFor /\ MessagesInOrder => NothingLost
  BY DEF NothingLost
<1>. QED
  BY <1>2, <1>4, <1>5, PTL

(* An entry of a frame is one lidar's, with the time of its first point;   *)
(* and a message in either format tells the place, to the centimetre, and  *)
(* the time of every point it carries: ProcessCartesianHighPoint and       *)
(* ProcessCartesianLowPoint, FillPointsToPclMsg and FillPointsToCustomMsg  *)
(* undo what the lidar's mounting and data type did.  That is so of places *)
(* for every lidar without an entry, and for one that sends centimetres if *)
(* and only if its entry asks for them: any other is moved by ten times    *)
(* its translation or by a tenth of it (lds_lidar.cpp:173).  It is so of   *)
(* times in custom messages for points less than OffsetRange after the     *)
(* message's first; the offsets of others wrap.                            *)
THEOREM PointsAreTold == PubSpec /\ MsgSpec => []FramesTellThePoints
<1>1. PubInv => FrameConsistent
  BY DEF PubInv
<1>2. PubSpec => []FrameConsistent
  <2>1. PubInv /\ [PubNext]_pubVars => PubInv'
    BY PubInductive
  <2>. QED
    BY <1>1, <2>1, PubInitially, PTL DEF PubSpec
<1>3. MsgInv => MessagesTellThePoints
  BY MessagesFollow
<1>4. MsgSpec => []MessagesTellThePoints
  <2>1. MsgInv /\ [MsgNext]_msgVars => MsgInv'
    BY MsgInductive
  <2>. QED
    BY <1>3, <2>1, MsgInitially, PTL DEF MsgSpec
<1>5. FrameConsistent /\ MessagesTellThePoints => FramesTellThePoints
  BY DEF FramesTellThePoints
<1>. QED
  BY <1>2, <1>4, <1>5, PTL
=============================================================================
