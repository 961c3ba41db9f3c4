-------------------------- MODULE PointLio_proofs --------------------------
(***************************************************************************)
(* Theorems about Point-LIO: how it pairs scans with IMU samples, for      *)
(* every number of scans and samples, every span of a scan and every       *)
(* stamp; how scans become frames, for every message and number of cuts;   *)
(* and what its local map answers, for every capacity, cloud and query.    *)
(***************************************************************************)
EXTENDS PointLio, Preprocess, LocalMap, SequenceTheorems, NumberFacts

(* A deque that has received n samples, the last one stamped last: it      *)
(* holds the newest ones, in the order of arrival and of their stamps.     *)
InOrder(q, n, last) ==
    /\ q \in Seq(Sample)
    /\ \A i \in 1..Len(q) : q[i].num = n - Len(q) + i
    /\ \A i, j \in 1..Len(q) : i <= j => q[i].stamp <= q[j].stamp
    /\ q # <<>> => q[Len(q)].stamp = last

Types ==
    /\ lidar_buffer \in Seq(Scan) /\ scan_count \in 0..MaxScans
    /\ imu_count \in 0..MaxImu /\ last_timestamp_imu \in -1..MaxTime
    /\ imu_next \in Sample \union {NoSample}
    /\ flg_first_scan \in BOOLEAN /\ is_first_frame \in BOOLEAN
    /\ pc \in {"spin", "begin", "fuse"}
    /\ points \subseteq Time
    /\ time_predict_last_const \in Time /\ fused \in Nat /\ uses \in Nat

(* The order in which the flags fall.                                      *)
Stages ==
    /\ flg_first_scan => imu_need_init
    /\ imu_need_init => is_first_frame /\ pc = "spin"
    /\ is_first_frame => uses = 0 /\ pc # "fuse"
    /\ use_imu_as_input /\ ~is_first_frame => uses > 0

(* The IMU has passed every point of the scan being processed.             *)
Covered == pc # "spin" => points # {} /\ \A p \in points : p <= last_timestamp_imu

(* The filter is not ahead of the next sample, which follows the last one. *)
Filter ==
    /\ ~use_imu_as_input /\ ~is_first_frame => time_predict_last_const <= imu_next.stamp
    /\ ~use_imu_as_input /\ uses > 0 => imu_next.num = fused + 1

(* With the IMU as input: imu_last is the sample popped last.  After the   *)
(* first use it is the one the filter moves with, later the one after it.  *)
NoOrSample == Sample \union {NoSample}
LastBefore ==
    /\ imu_last \in NoOrSample
    /\ use_imu_as_input => imu_last.num = imu_count - Len(imu_deque)
    /\ use_imu_as_input /\ uses = 1 => fused = imu_last.num
    /\ use_imu_as_input /\ uses > 1 => fused = imu_last.num - 1

IInv == /\ Types /\ InOrder(imu_deque, imu_count, last_timestamp_imu)
        /\ Stages /\ Covered /\ NextIsOldest /\ Filter /\ LastBefore

-----------------------------------------------------------------------------
(* What is left of such a deque when samples are popped is such a deque.   *)
LEMMA CutInOrder ==
    ASSUME NEW q, NEW n \in Int, NEW last \in Int, InOrder(q, n, last),
           NEW d \in Nat, d < Len(q)
    PROVE  /\ InOrder(SubSeq(q, d + 1, Len(q)), n, last)
           /\ SubSeq(q, d + 1, Len(q)) # <<>>
           /\ Head(SubSeq(q, d + 1, Len(q))) = q[d + 1]
           /\ Len(SubSeq(q, d + 1, Len(q))) = Len(q) - d
<1>. DEFINE r == SubSeq(q, d + 1, Len(q))
<1>1. q \in Seq(Sample) /\ Len(q) \in Nat
  BY DEF InOrder
<1>2. r \in Seq(Sample) /\ Len(r) = Len(q) - d /\ \A i \in 1..(Len(q) - d) : r[i] = q[i + d]
  BY <1>1, SubSeqProperties
<1>. HIDE DEF r
<1>3. r # <<>> /\ Head(r) = q[d + 1]
  BY <1>1, <1>2
<1>4. \A i \in 1..Len(r) : r[i].num = n - Len(r) + i
  <2>. SUFFICES ASSUME NEW i \in 1..Len(r) PROVE r[i].num = n - Len(r) + i
    OBVIOUS
  <2>1. i + d \in 1..Len(q) /\ r[i] = q[i + d]
    BY <1>1, <1>2
  <2>2. q[i + d].num = n - Len(q) + (i + d)
    BY <2>1 DEF InOrder
  <2>. QED
    BY <1>1, <1>2, <2>1, <2>2
<1>5. \A i, j \in 1..Len(r) : i <= j => r[i].stamp <= r[j].stamp
  <2>. SUFFICES ASSUME NEW i \in 1..Len(r), NEW j \in 1..Len(r), i <= j
                PROVE  r[i].stamp <= r[j].stamp
    OBVIOUS
  <2>1. i + d \in 1..Len(q) /\ j + d \in 1..Len(q) /\ i + d <= j + d
    BY <1>1, <1>2
  <2>2. q[i + d].stamp <= q[j + d].stamp
    BY <2>1 DEF InOrder
  <2>. QED
    BY <1>2, <2>2
<1>6. r[Len(r)].stamp = last
  <2>1. Len(r) \in 1..(Len(q) - d) /\ Len(r) + d = Len(q) /\ q # <<>>
    BY <1>1, <1>2
  <2>2. q[Len(q)].stamp = last
    BY <2>1 DEF InOrder
  <2>. QED
    BY <1>2, <2>1, <2>2
<1>. QED
  BY <1>2, <1>3, <1>4, <1>5, <1>6 DEF InOrder, r

(* Popping one sample of at least two.                                     *)
LEMMA TailInOrder ==
    ASSUME NEW q, NEW n \in Int, NEW last \in Int, InOrder(q, n, last), Len(q) > 1
    PROVE  /\ InOrder(Tail(q), n, last)
           /\ Tail(q) # <<>> /\ Head(Tail(q)) = q[2] /\ Len(Tail(q)) = Len(q) - 1
<1>1. q \in Seq(Sample) /\ Len(q) \in Nat
  BY DEF InOrder
<1>2. Tail(q) = SubSeq(q, 2, Len(q))
  BY <1>1
<1>3. 1 \in Nat /\ 1 < Len(q) /\ 1 + 1 = 2
  OBVIOUS
<1>4. /\ InOrder(SubSeq(q, 1 + 1, Len(q)), n, last)
      /\ SubSeq(q, 1 + 1, Len(q)) # <<>>
      /\ Head(SubSeq(q, 1 + 1, Len(q))) = q[1 + 1]
      /\ Len(SubSeq(q, 1 + 1, Len(q))) = Len(q) - 1
  BY <1>3, CutInOrder
<1>. QED
  BY <1>2, <1>3, <1>4

(* Skipping to time t from the front of a deque that reaches t ends at a   *)
(* sample of the deque, not before t, and the rest starts with it.         *)
LEMMA SkipStaysInDeque ==
    ASSUME NEW q, NEW n \in Int, NEW last \in Int, InOrder(q, n, last), q # <<>>,
           NEW t \in Int, t <= last
    PROVE  LET r == Skip(q, Head(q), t)
           IN  /\ InOrder(r.q, n, last) /\ r.q # <<>> /\ Len(r.q) \in 1..Len(q)
               /\ r.next = Head(r.q) /\ r.next.stamp >= t
<1>. DEFINE rest == Tail(q)
            late == {i \in DOMAIN rest : rest[i].stamp >= t}
            least == CHOOSE j \in late : \A k \in late : j <= k
<1>0. q \in Seq(Sample) /\ Len(q) \in Nat /\ Len(q) > 0 /\ Head(q) = q[1] /\ q[1] \in Sample
  BY DEF InOrder
<1>1. CASE Head(q).stamp >= t
  BY <1>0, <1>1 DEF Skip
<1>2. CASE ~(Head(q).stamp >= t)
  <2>1. q[Len(q)].stamp = last /\ q[1].stamp \in Int
    BY <1>0 DEF InOrder, Sample, Time
  <2>2. Len(q) > 1
    BY <1>0, <1>2, <2>1
  <2>3. InOrder(rest, n, last) /\ rest # <<>> /\ Len(rest) = Len(q) - 1
    BY <2>2, TailInOrder
  <2>4. rest \in Seq(Sample) /\ DOMAIN rest = 1..Len(rest) /\ Len(rest) \in Nat /\ Len(rest) > 0
    BY <1>0, <2>2, <2>3 DEF InOrder
  <2>5. Len(rest) \in late
    BY <2>3, <2>4 DEF InOrder
  <2>. HIDE DEF rest
  <2>6. late \subseteq Nat /\ late # {}
    BY <2>4, <2>5
  <2>7. \E x \in late : \A y \in late : x <= y
    BY <2>6, LeastExists
  <2>. HIDE DEF late
  <2>8. least \in late
    BY <2>7
  <2>. USE DEF late
  <2>9. Skip(q, Head(q), t) = [q |-> SubSeq(rest, least, Len(rest)), next |-> rest[least]]
    BY <1>2, <2>6 DEF Skip, rest
  <2>. HIDE DEF least
  <2>10. least \in 1..Len(rest) /\ rest[least].stamp >= t
    BY <2>4, <2>8
  <2>11. least - 1 \in Nat /\ least - 1 < Len(rest) /\ (least - 1) + 1 = least
    BY <2>4, <2>10
  <2>12. /\ InOrder(SubSeq(rest, least, Len(rest)), n, last)
         /\ SubSeq(rest, least, Len(rest)) # <<>>
         /\ Head(SubSeq(rest, least, Len(rest))) = rest[least]
         /\ Len(SubSeq(rest, least, Len(rest))) = Len(rest) - (least - 1)
    <3>. DEFINE d == least - 1
    <3>1. d \in Nat /\ d < Len(rest) /\ d + 1 = least
      BY <2>11
    <3>. HIDE DEF d
    <3>2. /\ InOrder(SubSeq(rest, d + 1, Len(rest)), n, last)
          /\ SubSeq(rest, d + 1, Len(rest)) # <<>>
          /\ Head(SubSeq(rest, d + 1, Len(rest))) = rest[d + 1]
          /\ Len(SubSeq(rest, d + 1, Len(rest))) = Len(rest) - d
      BY <2>3, <3>1, CutInOrder
    <3>. QED
      BY <3>1, <3>2 DEF d
  <2>. DEFINE r == Skip(q, Head(q), t)
  <2>13. r.q = SubSeq(rest, least, Len(rest)) /\ r.next = rest[least]
    BY <2>9
  <2>. HIDE DEF r
  <2>14. Len(r.q) \in 1..Len(q)
    BY <1>0, <2>3, <2>4, <2>10, <2>12, <2>13
  <2>. QED
    BY <2>10, <2>12, <2>13, <2>14 DEF r
<1>. QED
  BY <1>1, <1>2

(* When the sample before a deque is followed past what is popped, it is   *)
(* the sample before what is left.                                         *)
LEMMA LastIsBefore ==
    ASSUME NEW q, NEW rest, NEW n \in Int, NEW last \in Int,
           InOrder(q, n, last), Len(rest) \in 1..Len(q),
           NEW x \in NoOrSample, x.num = n - Len(q)
    PROVE  /\ LastOf(q, rest, x) \in NoOrSample
           /\ LastOf(q, rest, x).num = n - Len(rest)
<1>1. CASE Len(rest) = Len(q)
  BY <1>1 DEF LastOf
<1>2. CASE Len(rest) # Len(q)
  <2>. DEFINE d == Len(q) - Len(rest)
  <2>1. q \in Seq(Sample) /\ Len(q) \in Nat
    BY DEF InOrder
  <2>2. d \in 1..Len(q) /\ LastOf(q, rest, x) = q[d] /\ n - Len(q) + d = n - Len(rest)
    BY <1>2, <2>1 DEF LastOf
  <2>. HIDE DEF d
  <2>3. q[d] \in Sample
    BY <2>1, <2>2, ElementOfSeq
  <2>4. q[d].num = n - Len(q) + d
    BY <2>2 DEF InOrder
  <2>. QED
    BY <2>2, <2>3, <2>4 DEF NoOrSample
<1>. QED
  BY <1>1, <1>2

-----------------------------------------------------------------------------
(* The next point of a scan is one of its points, and the earliest.        *)
LEMMA TimeCurrent ==
    ASSUME Types, points # {}
    PROVE  time_current \in points /\ \A u \in points : time_current <= u
<1>1. points \subseteq Nat
  BY PointLioAssumption DEF Types, Time
<1>. QED
  BY <1>1, LeastExists DEF time_current

(* The constructor and the globals of laserMapping.cpp.                    *)
LEMMA Initially == Init => IInv
<1>. SUFFICES ASSUME Init PROVE IInv
  OBVIOUS
<1>1. Types
  BY PointLioAssumption DEF Init, Types, Time
<1>2. InOrder(imu_deque, imu_count, last_timestamp_imu)
  BY DEF Init, InOrder
<1>3. LastBefore
  <2>1. imu_last = NoSample /\ imu_last.num = 0 /\ imu_count = 0 /\ Len(imu_deque) = 0 /\ uses = 0
    BY DEF Init, NoSample
  <2>. QED
    BY <2>1 DEF LastBefore, NoOrSample
<1>. QED
  BY <1>1, <1>2, <1>3 DEF Init, IInv, Stages, Covered, NextIsOldest, Filter

(* A scan in livox_pcl_cbk.                                                *)
LEMMA ScanArrives ==
    ASSUME IInv, NEW beg \in Time, NEW end \in Time, NEW ps \in {{}, {beg}, {beg, end}},
           end \in beg..(beg + MaxSpan), livox_pcl_cbk(beg, end, ps)
    PROVE  IInv'
<1>. USE DEF livox_pcl_cbk
<1>1. lidar_buffer' \in Seq(Scan)
  <2>. DEFINE scan == [num |-> scan_count + 1, beg |-> beg, end |-> end, points |-> ps]
  <2>1. CASE ps = {}
    BY <2>1 DEF IInv, Types
  <2>2. CASE ps # {}
    <3>1. scan_count + 1 \in 1..MaxScans
      BY PointLioAssumption DEF IInv, Types
    <3>2. beg \in Int /\ end \in Int /\ beg <= end
      BY DEF Time
    <3>3. ps \subseteq beg..end /\ ps \subseteq Time
      BY <3>2
    <3>4. scan \in Scan
      BY <2>2, <3>1, <3>3 DEF Scan
    <3>. QED
      BY <2>2, <3>4 DEF IInv, Types
  <2>. QED
    BY <2>1, <2>2
<1>2. Types'
  BY <1>1, PointLioAssumption DEF IInv, Types, init, taken
<1>. QED
  BY <1>2 DEF IInv, init, InOrder, Stages, Covered, NextIsOldest, Filter, LastBefore, taken

(* A sample in imu_cbk, which only takes stamps that do not go back.       *)
LEMMA SampleArrives ==
    ASSUME IInv, NEW stamp \in Time, imu_cbk(stamp)
    PROVE  IInv'
<1>. USE DEF imu_cbk
<1>. DEFINE sample == [num |-> imu_count + 1, stamp |-> stamp]
            q == imu_deque'
<1>1. Types'
  BY PointLioAssumption DEF IInv, Types, init, Time, taken
<1>2. /\ imu_deque \in Seq(Sample) /\ Len(imu_deque) \in Nat
      /\ imu_count \in Nat /\ stamp \in Int /\ last_timestamp_imu \in Int
  BY DEF IInv, InOrder, Types, Time
<1>3. sample \in Sample /\ sample.num = imu_count + 1 /\ sample.stamp = stamp
  BY PointLioAssumption DEF IInv, Types, Sample
<1>4. /\ q \in Seq(Sample) /\ Len(q) = Len(imu_deque) + 1 /\ q # <<>>
      /\ \A i \in 1..Len(imu_deque) : q[i] = imu_deque[i]
      /\ q[Len(imu_deque) + 1] = sample
  <2>1. q = Append(imu_deque, sample)
    OBVIOUS
  <2>. QED
    BY <1>2, <1>3, <2>1, AppendProperties
<1>5. imu_count' = imu_count + 1 /\ last_timestamp_imu' = stamp /\ last_timestamp_imu <= stamp
  BY <1>2
<1>. HIDE DEF q, sample
<1>6. \A i \in 1..Len(imu_deque) : imu_deque[i].stamp <= stamp
  <2>. SUFFICES ASSUME NEW i \in 1..Len(imu_deque) PROVE imu_deque[i].stamp <= stamp
    OBVIOUS
  <2>1. imu_deque[i].stamp <= imu_deque[Len(imu_deque)].stamp /\ imu_deque # <<>>
    BY <1>2 DEF IInv, InOrder
  <2>2. imu_deque[Len(imu_deque)].stamp = last_timestamp_imu
    BY <2>1 DEF IInv, InOrder
  <2>3. imu_deque[i] \in Sample
    BY <1>2, ElementOfSeq
  <2>4. imu_deque[i].stamp \in Int
    BY <2>3 DEF Sample, Time
  <2>. QED
    BY <1>2, <1>5, <2>1, <2>2, <2>4
<1>. DEFINE n == Len(imu_deque)
<1>7. \A i \in 1..Len(q) : q[i].num = imu_count' - Len(q) + i
  <2>. SUFFICES ASSUME NEW i \in 1..Len(q) PROVE q[i].num = imu_count' - Len(q) + i
    OBVIOUS
  <2>1. CASE i = n + 1
    BY <1>2, <1>3, <1>4, <1>5, <2>1
  <2>2. CASE i # n + 1
    <3>1. i \in 1..n /\ q[i] = imu_deque[i]
      BY <1>2, <1>4, <2>2
    <3>2. imu_deque[i].num = imu_count - n + i
      BY <3>1 DEF IInv, InOrder
    <3>. QED
      BY <1>2, <1>4, <1>5, <3>1, <3>2
  <2>. QED
    BY <2>1, <2>2
<1>8. \A i, j \in 1..Len(q) : i <= j => q[i].stamp <= q[j].stamp
  <2>. SUFFICES ASSUME NEW i \in 1..Len(q), NEW j \in 1..Len(q), i <= j
                PROVE  q[i].stamp <= q[j].stamp
    OBVIOUS
  <2>1. CASE i = n + 1
    BY <1>2, <1>3, <1>4, <2>1
  <2>2. CASE i # n + 1 /\ j = n + 1
    BY <1>2, <1>3, <1>4, <1>6, <2>2
  <2>3. CASE i # n + 1 /\ j # n + 1
    <3>1. i \in 1..n /\ j \in 1..n /\ q[i] = imu_deque[i] /\ q[j] = imu_deque[j]
      BY <1>2, <1>4, <2>3
    <3>. QED
      BY <3>1 DEF IInv, InOrder
  <2>. QED
    BY <2>1, <2>2, <2>3
<1>9. InOrder(q, imu_count', last_timestamp_imu')
  BY <1>2, <1>3, <1>4, <1>5, <1>7, <1>8 DEF InOrder
<1>10. NextIsOldest'
  <2>. SUFFICES ASSUME ~flg_first_scan PROVE q # <<>> /\ imu_next = Head(q)
    BY DEF NextIsOldest, q, init
  <2>1. imu_deque # <<>> /\ imu_next = Head(imu_deque)
    BY DEF IInv, NextIsOldest
  <2>. QED
    BY <1>2, <1>4, <2>1
<1>11. Covered'
  <2>1. pc' = pc /\ points' = points /\ points \subseteq Int
    BY DEF IInv, Types, Time
  <2>. QED
    BY <1>2, <1>5, <2>1 DEF IInv, Covered
<1>12. LastBefore'
  <2>1. imu_count' - Len(q) = imu_count - Len(imu_deque)
    BY <1>2, <1>4, <1>5
  <2>. QED
    BY <2>1 DEF IInv, LastBefore, q, init, taken
<1>. QED
  BY <1>1, <1>9, <1>10, <1>11, <1>12 DEF IInv, q, init, Stages, Filter, taken

(* The oldest scan, when the IMU has passed its last point.                *)
LEMMA ScanSynchronized ==
    ASSUME IInv, Synchronized
    PROVE  /\ Head(lidar_buffer) \in Scan /\ Tail(lidar_buffer) \in Seq(Scan)
           /\ Head(lidar_buffer).beg \in Int /\ Head(lidar_buffer).end \in Int
           /\ Head(lidar_buffer).beg <= Head(lidar_buffer).end
           /\ Head(lidar_buffer).end <= last_timestamp_imu
           /\ Head(lidar_buffer).points # {} /\ Head(lidar_buffer).points \subseteq Time
           /\ \A p \in Head(lidar_buffer).points : p <= last_timestamp_imu
           /\ imu_deque # <<>> /\ pc = "spin"
           /\ imu_count \in Int /\ last_timestamp_imu \in Int
<1>. DEFINE scan == Head(lidar_buffer)
<1>1. scan \in Scan /\ Tail(lidar_buffer) \in Seq(Scan)
  BY HeadTailProperties DEF IInv, Types, Synchronized
<1>2. imu_count \in Int /\ last_timestamp_imu \in Int
  BY PointLioAssumption DEF IInv, Types
<1>3. scan.end <= last_timestamp_imu /\ imu_deque # <<>> /\ pc = "spin"
  BY <1>1, <1>2 DEF Synchronized, Scan, Time
<1>. HIDE DEF scan
<1>4. /\ scan.beg \in Int /\ scan.end \in Int /\ scan.points \subseteq Time
      /\ scan.points # {} /\ scan.points \subseteq scan.beg..scan.end
  BY <1>1 DEF Scan, Time
<1>5. \A p \in scan.points : p \in Int /\ scan.beg <= p /\ p <= scan.end
  BY <1>4
<1>6. scan.beg <= scan.end /\ \A p \in scan.points : p <= last_timestamp_imu
  BY <1>2, <1>3, <1>4, <1>5
<1>. QED
  BY <1>1, <1>2, <1>3, <1>4, <1>6 DEF scan

(* The IMU's initialisation, which pops samples twice for the first scan.  *)
LEMMA ImuInitialized ==
    ASSUME IInv, InitializeImu
    PROVE  IInv'
<1>. DEFINE scan == Head(lidar_buffer)
            synced == Skip(imu_deque, Head(imu_deque), scan.end)
            begun == Skip(synced.q, synced.next, scan.beg)
            InOrd(q) == InOrder(q, imu_count, last_timestamp_imu)
<1>1. /\ Tail(lidar_buffer) \in Seq(Scan)
      /\ scan.beg \in Int /\ scan.end \in Int /\ imu_count \in Int /\ last_timestamp_imu \in Int
      /\ scan.end <= last_timestamp_imu /\ scan.beg <= last_timestamp_imu
      /\ imu_deque # <<>> /\ pc = "spin"
  BY ScanSynchronized DEF InitializeImu
<1>2. InOrd(imu_deque)
  BY DEF IInv
<1>. HIDE DEF scan
<1>3. /\ InOrd(synced.q) /\ synced.q # <<>> /\ synced.next = Head(synced.q)
      /\ Len(synced.q) \in 1..Len(imu_deque)
  <2>. DEFINE q == imu_deque
              n == imu_count
              last == last_timestamp_imu
              t == scan.end
  <2>1. /\ n \in Int /\ last \in Int /\ InOrder(q, n, last) /\ q # <<>>
        /\ t \in Int /\ t <= last
    BY <1>1, <1>2
  <2>2. synced = Skip(q, Head(q), t)
    OBVIOUS
  <2>. HIDE DEF q, n, last, t, synced
  <2>3. /\ InOrder(synced.q, n, last) /\ synced.q # <<>> /\ Len(synced.q) \in 1..Len(q)
        /\ synced.next = Head(synced.q)
    <3>. DEFINE S == Skip(q, Head(q), t)
    <3>1. /\ InOrder(S.q, n, last) /\ S.q # <<>> /\ Len(S.q) \in 1..Len(q)
          /\ S.next = Head(S.q)
      BY <2>1, SkipStaysInDeque
    <3>2. S = synced
      BY <2>2
    <3>. HIDE DEF S
    <3>. QED
      BY <3>1, <3>2
  <2>. QED
    BY <2>3 DEF q, n, last
<1>. HIDE DEF synced
<1>4. /\ InOrd(begun.q) /\ begun.q # <<>> /\ begun.next = Head(begun.q)
      /\ Len(begun.q) \in 1..Len(synced.q)
  BY <1>1, <1>3, SkipStaysInDeque
<1>. HIDE DEF begun
<1>5. /\ imu_deque' = (IF flg_first_scan THEN begun.q ELSE synced.q)
      /\ imu_next' = (IF flg_first_scan THEN begun.next ELSE synced.next)
  BY DEF InitializeImu, synced, begun, scan
<1>6. InOrd(imu_deque') /\ imu_deque' # <<>> /\ imu_next' = Head(imu_deque')
  BY <1>3, <1>4, <1>5
<1>7. InOrder(imu_deque, imu_count, last_timestamp_imu)'
  BY <1>6 DEF InitializeImu
<1>8. imu_next' \in Sample
  <2>1. imu_deque' \in Seq(Sample)
    BY <1>6 DEF InOrder
  <2>. QED
    BY <1>6, <2>1, HeadTailProperties
<1>9. Types'
  <2>1. /\ lidar_buffer' = Tail(lidar_buffer) /\ flg_first_scan' = FALSE
        /\ UNCHANGED <<scan_count, last_timestamp_imu, imu_count, pc, points,
                       is_first_frame, time_predict_last_const, taken>>
    BY DEF InitializeImu
  <2>. QED
    BY <1>1, <1>8, <2>1 DEF IInv, Types, taken
<1>10. Stages' /\ Covered' /\ NextIsOldest' /\ Filter'
  BY <1>1, <1>6 DEF IInv, Stages, Covered, NextIsOldest, Filter, InitializeImu, taken
<1>11. LastBefore'
  <2>1. Len(imu_deque') \in 1..Len(imu_deque)
    <3>1. Len(imu_deque) \in Nat
      BY <1>2 DEF InOrder
    <3>. QED
      BY <1>3, <1>4, <1>5, <3>1
  <2>2. /\ uses' = 0 /\ imu_count' = imu_count /\ use_imu_as_input' = use_imu_as_input
        /\ imu_last' = IF use_imu_as_input THEN LastOf(imu_deque, imu_deque', imu_last) ELSE imu_last
    BY DEF InitializeImu, IInv, Stages, taken
  <2>3. imu_last \in NoOrSample /\ (use_imu_as_input => imu_last.num = imu_count - Len(imu_deque))
    BY DEF IInv, LastBefore
  <2>4. use_imu_as_input =>
          /\ LastOf(imu_deque, imu_deque', imu_last) \in NoOrSample
          /\ LastOf(imu_deque, imu_deque', imu_last).num = imu_count - Len(imu_deque')
    BY <1>1, <1>2, <2>1, <2>3, LastIsBefore
  <2>. QED
    BY <2>2, <2>3, <2>4 DEF LastBefore
<1>. QED
  BY <1>7, <1>9, <1>10, <1>11 DEF IInv

(* The scans of the first map leave the samples alone.                     *)
LEMMA MapInitialized ==
    ASSUME IInv, InitializeMap
    PROVE  IInv'
<1>1. Tail(lidar_buffer) \in Seq(Scan)
  BY ScanSynchronized DEF InitializeMap
<1>. QED
  BY <1>1 DEF InitializeMap, IInv, Types, InOrder, Stages, Covered, NextIsOldest, Filter, LastBefore, taken

(* The loop over the points of a scan starts.                              *)
LEMMA ScanStarts ==
    ASSUME IInv, StartScan
    PROVE  IInv'
<1>1. /\ Tail(lidar_buffer) \in Seq(Scan)
      /\ Head(lidar_buffer).points # {} /\ Head(lidar_buffer).points \subseteq Time
      /\ \A p \in Head(lidar_buffer).points : p <= last_timestamp_imu
  BY ScanSynchronized DEF StartScan
<1>. QED
  BY <1>1 DEF StartScan, init, IInv, Types, InOrder, Stages, Covered, NextIsOldest, Filter,
              LastBefore, taken

(* At a point, the filter has a next sample that is the oldest kept.       *)
LEMMA AtPoint ==
    ASSUME IInv, pc # "spin"
    PROVE  /\ time_current \in points /\ time_current \in Time /\ time_current \in Int
           /\ time_current <= last_timestamp_imu
           /\ imu_deque # <<>> /\ imu_next = Head(imu_deque) /\ imu_next \in Sample
           /\ imu_next.stamp \in Int /\ imu_count \in Int /\ last_timestamp_imu \in Int
<1>1. points # {} /\ (\A p \in points : p <= last_timestamp_imu) /\ ~imu_need_init
  BY DEF IInv, Covered, Stages
<1>2. time_current \in points
  BY <1>1, TimeCurrent DEF IInv
<1>3. imu_deque # <<>> /\ imu_next = Head(imu_deque) /\ imu_deque \in Seq(Sample)
  BY <1>1 DEF IInv, Stages, NextIsOldest, InOrder
<1>4. imu_next \in Sample
  BY <1>3, HeadTailProperties
<1>. QED
  BY <1>1, <1>2, <1>3, <1>4, PointLioAssumption DEF IInv, Types, Time, Sample

(* Only the first point of all passes over samples.                        *)
LEMMA PointBegins ==
    ASSUME IInv, BeginPoint
    PROVE  IInv'
<1>. DEFINE t == time_predict_last_const'
            s == IF is_first_frame THEN Skip(imu_deque, imu_next, time_current)
                                   ELSE [q |-> imu_deque, next |-> imu_next]
            r == PassOld(s.q, s.next, t)
            InOrd(q) == InOrder(q, imu_count, last_timestamp_imu)
<1>0. pc = "begin" /\ ~imu_need_init /\ ~use_imu_as_input
  BY DEF BeginPoint, IInv, Stages
<1>1. /\ time_current \in points /\ time_current \in Time /\ time_current \in Int
      /\ time_current <= last_timestamp_imu
      /\ imu_deque # <<>> /\ imu_next = Head(imu_deque) /\ imu_next \in Sample
      /\ imu_next.stamp \in Int /\ imu_count \in Int /\ last_timestamp_imu \in Int
  BY <1>0, AtPoint
<1>2. InOrd(imu_deque)
  BY DEF IInv
<1>3. InOrd(s.q) /\ s.q # <<>> /\ s.next = Head(s.q) /\ s.next.stamp >= t
  <2>1. CASE is_first_frame
    <3>1. t = time_current /\ s = Skip(imu_deque, Head(imu_deque), time_current)
      BY <1>1, <2>1 DEF BeginPoint
    <3>. QED
      BY <1>1, <1>2, <3>1, SkipStaysInDeque
  <2>2. CASE ~is_first_frame
    <3>1. t = time_predict_last_const /\ time_predict_last_const <= imu_next.stamp
      BY <1>0, <2>2 DEF BeginPoint, IInv, Filter
    <3>2. s.q = imu_deque /\ s.next = imu_next
      BY <2>2
    <3>3. t \in Int
      BY <3>1 DEF IInv, Types, Time
    <3>. QED
      BY <1>1, <1>2, <3>1, <3>2, <3>3
  <2>. QED
    BY <2>1, <2>2
<1>4. is_first_frame \/ (s.q = imu_deque /\ s.next = imu_next)
  OBVIOUS
<1>5. imu_deque' = r.q /\ imu_next' = r.next
  BY DEF BeginPoint
<1>. HIDE DEF s
<1>6. r.q = s.q /\ r.next = s.next
  BY <1>3 DEF PassOld
<1>. HIDE DEF r
<1>7. InOrd(imu_deque') /\ imu_deque' # <<>> /\ imu_next' = Head(imu_deque') /\ t <= imu_next'.stamp
  <2>1. imu_next'.stamp \in Int /\ t \in Int
    <3>1. s.q \in Seq(Sample)
      BY <1>3 DEF InOrder
    <3>2. s.next \in Sample
      BY <1>3, <3>1, HeadTailProperties
    <3>. QED
      BY <1>1, <1>5, <1>6, <3>2 DEF Sample, Time, BeginPoint, IInv, Types
  <2>. QED
    BY <1>3, <1>5, <1>6, <2>1
<1>8. pc' = "fuse" /\ ~is_first_frame' /\ t \in Time
  BY <1>1 DEF BeginPoint, IInv, Types
<1>9. imu_next' \in Sample
  <2>1. imu_deque' \in Seq(Sample)
    BY <1>7 DEF InOrder
  <2>. QED
    BY <1>7, <2>1, HeadTailProperties
<1>10. InOrder(imu_deque, imu_count, last_timestamp_imu)'
  BY <1>7 DEF BeginPoint, input, taken
<1>11. Types'
  BY <1>8, <1>9 DEF IInv, Types, BeginPoint, input, taken, init
<1>12. Stages' /\ Covered' /\ NextIsOldest'
  BY <1>0, <1>7, <1>8 DEF IInv, Stages, Covered, NextIsOldest, BeginPoint, input, taken, init
<1>13. Filter'
  <2>1. taken' = taken /\ (uses > 0 => imu_next' = imu_next)
    BY <1>4, <1>5, <1>6 DEF BeginPoint, IInv, Stages
  <2>. QED
    BY <1>0, <1>7, <2>1 DEF IInv, Filter, taken
<1>14. LastBefore'
  BY <1>0 DEF BeginPoint, input, taken, init, IInv, LastBefore
<1>. QED
  BY <1>10, <1>11, <1>12, <1>13, <1>14 DEF IInv

(* The sample taken is the oldest; there is another, as a later one than   *)
(* the point has arrived, and it follows.                                  *)
LEMMA SampleFused ==
    ASSUME IInv, FuseSample
    PROVE  /\ IInv'
           /\ fused' = imu_next.num /\ time_predict_last_const' = imu_next.stamp
<1>0. pc = "fuse" /\ ~imu_need_init /\ ~flg_first_scan /\ ~is_first_frame
  BY DEF FuseSample, imu_comes, IInv, Stages
<1>1. /\ time_current \in points /\ time_current \in Int
      /\ time_current <= last_timestamp_imu
      /\ imu_deque # <<>> /\ imu_next = Head(imu_deque) /\ imu_next \in Sample
      /\ imu_next.stamp \in Int /\ imu_count \in Int /\ last_timestamp_imu \in Int
  BY <1>0, AtPoint
<1>2. imu_deque \in Seq(Sample) /\ Len(imu_deque) \in Nat /\ Len(imu_deque) > 0
  BY <1>1 DEF IInv, InOrder
<1>3. imu_next = imu_deque[1] /\ imu_next.stamp < time_current
  BY <1>1, <1>2 DEF FuseSample, imu_comes
<1>4. Len(imu_deque) > 1
  <2>1. imu_deque[Len(imu_deque)].stamp = last_timestamp_imu
    BY <1>1 DEF IInv, InOrder
  <2>. QED
    BY <1>1, <1>2, <1>3, <2>1
<1>5. /\ InOrder(Tail(imu_deque), imu_count, last_timestamp_imu)
      /\ Tail(imu_deque) # <<>> /\ Head(Tail(imu_deque)) = imu_deque[2]
  BY <1>1, <1>4, TailInOrder DEF IInv
<1>6. /\ imu_deque' = Tail(imu_deque) /\ imu_next' = imu_deque[2] /\ pc' = "fuse"
      /\ imu_next' = Head(imu_deque')
  BY <1>5 DEF FuseSample, Pop
<1>7. /\ fused' = imu_next.num /\ uses' = uses + 1
      /\ time_predict_last_const' = imu_next.stamp
  BY DEF FuseSample
<1>8. imu_deque[2] \in Sample
  BY <1>2, <1>4, ElementOfSeq
<1>9. imu_deque[1].stamp <= imu_deque[2].stamp
  BY <1>2, <1>4 DEF IInv, InOrder
<1>10. imu_deque[2].num = imu_deque[1].num + 1
  <2>1. /\ imu_deque[1].num = imu_count - Len(imu_deque) + 1
        /\ imu_deque[2].num = imu_count - Len(imu_deque) + 2
    BY <1>2, <1>4 DEF IInv, InOrder
  <2>. QED
    BY <1>1, <1>2, <2>1
<1>11. Filter'
  BY <1>3, <1>6, <1>7, <1>9, <1>10 DEF Filter
<1>12. InOrder(imu_deque, imu_count, last_timestamp_imu)'
  BY <1>5, <1>6 DEF FuseSample, input, taken
<1>13. imu_next.num \in Nat /\ imu_next.stamp \in Time
  BY <1>1, PointLioAssumption DEF Sample
<1>14. Types'
  BY <1>6, <1>7, <1>8, <1>13 DEF IInv, Types, FuseSample, input, taken, init
<1>15. Stages' /\ Covered' /\ NextIsOldest'
  BY <1>0, <1>5, <1>6 DEF IInv, Stages, Covered, NextIsOldest, FuseSample, input, taken, init
<1>16. LastBefore'
  BY DEF FuseSample, input, taken, init, IInv, LastBefore
<1>. QED
  BY <1>7, <1>11, <1>12, <1>14, <1>15, <1>16 DEF IInv

(* The first point of all, with the IMU as input: the samples before it    *)
(* are passed over, and the last of them is taken.                         *)
LEMMA InputBegins ==
    ASSUME IInv, InputBegin
    PROVE  IInv' /\ (uses' # uses => uses = 0)
<1>. DEFINE s == Skip(imu_deque, imu_next, time_current)
            InOrd(q) == InOrder(q, imu_count, last_timestamp_imu)
<1>0. pc = "begin" /\ ~imu_need_init /\ use_imu_as_input
  BY DEF InputBegin, IInv, Stages
<1>1. /\ time_current \in Time /\ time_current \in Int /\ time_current <= last_timestamp_imu
      /\ imu_deque # <<>> /\ imu_next = Head(imu_deque) /\ imu_next \in Sample
      /\ imu_count \in Int /\ last_timestamp_imu \in Int
  BY <1>0, AtPoint
<1>2. /\ InOrd(imu_deque) /\ imu_last \in NoOrSample
      /\ imu_last.num = imu_count - Len(imu_deque)
  BY <1>0 DEF IInv, LastBefore
<1>3. CASE is_first_frame
  <2>1. /\ imu_deque' = s.q /\ imu_next' = s.next
        /\ imu_last' = LastOf(imu_deque, imu_deque', imu_last)
        /\ fused' = imu_last'.num /\ uses' = uses + 1
        /\ time_predict_last_const' = time_current
    BY <1>3 DEF InputBegin
  <2>2. /\ InOrd(s.q) /\ s.q # <<>> /\ Len(s.q) \in 1..Len(imu_deque) /\ s.next = Head(s.q)
    BY <1>1, <1>2, SkipStaysInDeque
  <2>. HIDE DEF s
  <2>3. imu_last' \in NoOrSample /\ imu_last'.num = imu_count - Len(imu_deque')
    <3>1. Len(imu_deque') \in 1..Len(imu_deque)
      BY <2>1, <2>2
    <3>2. /\ LastOf(imu_deque, imu_deque', imu_last) \in NoOrSample
          /\ LastOf(imu_deque, imu_deque', imu_last).num = imu_count - Len(imu_deque')
      BY <1>1, <1>2, <3>1, LastIsBefore
    <3>. QED
      BY <2>1, <3>2
  <2>4. imu_next' \in Sample
    <3>1. imu_deque' \in Seq(Sample)
      BY <2>1, <2>2 DEF InOrder
    <3>. QED
      BY <2>1, <2>2, <3>1, HeadTailProperties
  <2>5. imu_last'.num \in Nat
    BY <2>3, PointLioAssumption DEF NoOrSample, Sample, NoSample
  <2>6. InOrder(imu_deque, imu_count, last_timestamp_imu)'
    BY <2>1, <2>2 DEF InputBegin, input, taken
  <2>7. uses = 0 /\ uses' = 1
    BY <1>3, <2>1 DEF IInv, Stages
  <2>8. /\ is_first_frame' = FALSE /\ pc' = "fuse" /\ points' = points /\ imu_count' = imu_count
        /\ UNCHANGED <<input, init>>
    BY DEF InputBegin, input
  <2>9. Types'
    <3>1. /\ lidar_buffer' = lidar_buffer /\ scan_count' = scan_count /\ points' = points
          /\ last_timestamp_imu' = last_timestamp_imu /\ imu_count' = imu_count
          /\ flg_first_scan' = flg_first_scan /\ uses' = 1 /\ fused' = imu_last'.num
      BY <2>1, <2>7, <2>8 DEF input, init
    <3>2. /\ lidar_buffer \in Seq(Scan) /\ scan_count \in 0..MaxScans
          /\ imu_count \in 0..MaxImu /\ last_timestamp_imu \in -1..MaxTime
          /\ flg_first_scan \in BOOLEAN /\ points \subseteq Time
      BY DEF IInv, Types
    <3>3. imu_next' \in Sample \union {NoSample} /\ fused' \in Nat /\ uses' \in Nat
      BY <2>4, <2>5, <3>1
    <3>4. time_predict_last_const' \in Time
      BY <1>1, <2>1
    <3>. QED
      BY <2>8, <3>1, <3>2, <3>3, <3>4, Zenon DEF Types
  <2>10. Stages' /\ Covered' /\ NextIsOldest' /\ Filter'
    BY <1>0, <2>1, <2>2, <2>7, <2>8 DEF IInv, Stages, Covered, NextIsOldest, Filter, input, init
  <2>11. LastBefore'
    BY <2>1, <2>3, <2>7, <2>8 DEF LastBefore
  <2>. QED
    BY <2>6, <2>7, <2>9, <2>10, <2>11 DEF IInv
<1>4. CASE ~is_first_frame
  <2>1. UNCHANGED <<imu_deque, imu_next, imu_last, taken, time_predict_last_const, input, init, points>>
    BY <1>4 DEF InputBegin
  <2>2. pc' = "fuse" /\ is_first_frame' = FALSE
    BY DEF InputBegin
  <2>3. Types'
    BY <2>1, <2>2 DEF IInv, Types, input, taken, init
  <2>4. Stages' /\ Covered' /\ NextIsOldest' /\ Filter' /\ LastBefore'
    <3>1. /\ pc' = "fuse" /\ is_first_frame' = FALSE /\ uses' = uses /\ fused' = fused
          /\ imu_deque' = imu_deque /\ imu_next' = imu_next /\ imu_last' = imu_last
          /\ time_predict_last_const' = time_predict_last_const /\ points' = points
          /\ last_timestamp_imu' = last_timestamp_imu /\ imu_count' = imu_count
          /\ UNCHANGED init
      BY <2>1, <2>2 DEF input, taken
    <3>2. Stages'
      BY <1>0, <1>4, <3>1 DEF IInv, Stages, init
    <3>3. Covered' /\ NextIsOldest'
      BY <1>0, <3>1 DEF IInv, Covered, NextIsOldest, init
    <3>4. Filter' /\ LastBefore'
      BY <1>0, <1>4, <3>1 DEF IInv, Filter, LastBefore, init
    <3>. QED
      BY <3>2, <3>3, <3>4
  <2>5. InOrder(imu_deque, imu_count, last_timestamp_imu)'
    BY <1>2, <2>1 DEF input, taken
  <2>. QED
    BY <2>1, <2>3, <2>4, <2>5 DEF IInv, taken
<1>. QED
  BY <1>3, <1>4

(* A sample is passed with the readings of the one before it, and becomes  *)
(* the one before.                                                         *)
LEMMA InputSampled ==
    ASSUME IInv, InputSample
    PROVE  IInv' /\ fused' = fused + (IF uses = 1 THEN 0 ELSE 1)
<1>0. /\ pc = "fuse" /\ ~imu_need_init /\ ~flg_first_scan /\ ~is_first_frame
      /\ use_imu_as_input
  BY DEF InputSample, imu_comes, IInv, Stages
<1>1. /\ time_current \in Int /\ time_current <= last_timestamp_imu
      /\ imu_deque # <<>> /\ imu_next = Head(imu_deque) /\ imu_next \in Sample
      /\ imu_next.stamp \in Int /\ imu_count \in Int /\ last_timestamp_imu \in Int
  BY <1>0, AtPoint
<1>2. imu_deque \in Seq(Sample) /\ Len(imu_deque) \in Nat /\ Len(imu_deque) > 0
  BY <1>1 DEF IInv, InOrder
<1>3. imu_next = imu_deque[1] /\ imu_next.stamp < time_current
  BY <1>1, <1>2 DEF InputSample, imu_comes
<1>4. Len(imu_deque) > 1
  <2>1. imu_deque[Len(imu_deque)].stamp = last_timestamp_imu
    BY <1>1 DEF IInv, InOrder
  <2>. QED
    BY <1>1, <1>2, <1>3, <2>1
<1>5. /\ InOrder(Tail(imu_deque), imu_count, last_timestamp_imu)
      /\ Tail(imu_deque) # <<>> /\ Head(Tail(imu_deque)) = imu_deque[2]
      /\ Len(Tail(imu_deque)) = Len(imu_deque) - 1
  BY <1>1, <1>4, TailInOrder DEF IInv
<1>6. /\ imu_deque' = Tail(imu_deque) /\ imu_next' = imu_deque[2] /\ pc' = "fuse"
      /\ imu_next' = Head(imu_deque') /\ imu_last' = imu_next
  BY <1>5 DEF InputSample, Pop
<1>7. /\ fused' = imu_last.num /\ uses' = uses + 1
      /\ time_predict_last_const' = imu_last.stamp
  BY DEF InputSample
<1>8. imu_deque[2] \in Sample
  BY <1>2, <1>4, ElementOfSeq
<1>9. imu_last \in NoOrSample /\ imu_last.num = imu_count - Len(imu_deque)
  BY <1>0 DEF IInv, LastBefore
<1>10. imu_last.num \in Nat /\ imu_last.stamp \in Time
  BY <1>9, PointLioAssumption DEF NoOrSample, Sample, NoSample, Time
<1>11. imu_next.num = imu_last.num + 1
  <2>1. imu_deque[1].num = imu_count - Len(imu_deque) + 1
    BY <1>2, <1>4 DEF IInv, InOrder
  <2>. QED
    BY <1>3, <1>9, <2>1
<1>12. InOrder(imu_deque, imu_count, last_timestamp_imu)'
  BY <1>5, <1>6 DEF InputSample, input, taken
<1>13. Types'
  BY <1>6, <1>7, <1>8, <1>10 DEF IInv, Types, InputSample, input, taken, init
<1>14. Stages' /\ Covered' /\ NextIsOldest' /\ Filter'
  <2>1. /\ uses' = uses + 1 /\ uses \in Nat /\ is_first_frame' = is_first_frame
        /\ points' = points /\ last_timestamp_imu' = last_timestamp_imu
        /\ UNCHANGED init
    BY <1>7 DEF IInv, Types, InputSample, input
  <2>2. Stages'
    BY <1>0, <1>6, <2>1 DEF IInv, Stages, init
  <2>3. Covered' /\ NextIsOldest'
    BY <1>0, <1>5, <1>6, <2>1 DEF IInv, Covered, NextIsOldest, init
  <2>4. Filter'
    BY <1>0, <2>1 DEF Filter, init
  <2>. QED
    BY <2>2, <2>3, <2>4
<1>15. LastBefore'
  <2>1. imu_count' = imu_count /\ Len(imu_deque') = Len(imu_deque) - 1
    BY <1>5, <1>6 DEF InputSample, input, taken
  <2>2. imu_last'.num = imu_count' - Len(imu_deque')
    BY <1>1, <1>2, <1>6, <1>9, <1>11, <2>1
  <2>3. fused' = imu_last'.num - 1 /\ uses' > 1
    BY <1>0, <1>6, <1>7, <1>10, <1>11 DEF IInv, Stages, Types
  <2>4. imu_last' \in NoOrSample
    BY <1>1, <1>6 DEF NoOrSample
  <2>. QED
    BY <2>2, <2>3, <2>4 DEF LastBefore
<1>16. fused' = fused + (IF uses = 1 THEN 0 ELSE 1)
  <2>1. fused = IF uses = 1 THEN imu_last.num ELSE imu_last.num - 1
    BY <1>0 DEF IInv, LastBefore, Stages, Types
  <2>. QED
    BY <1>7, <1>10, <2>1
<1>. QED
  BY <1>12, <1>13, <1>14, <1>15, <1>16 DEF IInv

(* A point with no earlier sample left is what the filter moves to.        *)
LEMMA PointUpdated ==
    ASSUME IInv, MoveToPoint
    PROVE  IInv'
<1>0. pc = "fuse" /\ ~imu_need_init /\ ~flg_first_scan /\ ~is_first_frame
  BY DEF MoveToPoint, IInv, Types, Stages
<1>1. /\ time_current \in points /\ time_current \in Time /\ time_current \in Int
      /\ imu_next.stamp \in Int
  BY <1>0, AtPoint
<1>2. time_current <= imu_next.stamp
  BY <1>0, <1>1 DEF MoveToPoint, imu_comes
<1>3. /\ points' \subseteq points /\ pc' \in {"spin", "begin"} /\ (pc' # "spin" => points' # {})
      /\ time_predict_last_const' = time_current
  BY DEF MoveToPoint
<1>4. Types'
  BY <1>1, <1>3 DEF IInv, Types, MoveToPoint, input, taken, init
<1>5. Stages' /\ Covered' /\ NextIsOldest'
  BY <1>0, <1>3 DEF IInv, Stages, Covered, NextIsOldest, MoveToPoint, input, taken, init
<1>6. Filter'
  BY <1>2, <1>3 DEF IInv, Filter, MoveToPoint, init, taken
<1>7. InOrder(imu_deque, imu_count, last_timestamp_imu)'
  BY DEF IInv, MoveToPoint, input, taken
<1>8. LastBefore'
  BY DEF IInv, MoveToPoint, input, taken, init, LastBefore
<1>. QED
  BY <1>4, <1>5, <1>6, <1>7, <1>8 DEF IInv

-----------------------------------------------------------------------------
(* Every step keeps the invariant.                                         *)
LEMMA Inductive == IInv /\ [Next]_vars => IInv'
<1>. SUFFICES ASSUME IInv, [Next]_vars PROVE IInv'
  OBVIOUS
<1>1. ASSUME NEW beg \in Time, NEW end \in Time, NEW ps \in {{}, {beg}, {beg, end}},
             end \in beg..(beg + MaxSpan), livox_pcl_cbk(beg, end, ps)
      PROVE  IInv'
  BY <1>1, ScanArrives
<1>2. ASSUME NEW stamp \in Time, imu_cbk(stamp)
      PROVE  IInv'
  BY <1>2, SampleArrives
<1>3. CASE InitializeImu
  BY <1>3, ImuInitialized
<1>4. CASE InitializeMap
  BY <1>4, MapInitialized
<1>5. CASE StartScan
  BY <1>5, ScanStarts
<1>6. CASE BeginPoint
  BY <1>6, PointBegins
<1>7. CASE FuseSample
  BY <1>7, SampleFused
<1>8. CASE UpdatePoint \/ InputPoint
  BY <1>8, PointUpdated DEF UpdatePoint, InputPoint
<1>9. CASE InputBegin
  BY <1>9, InputBegins
<1>10. CASE InputSample
  BY <1>10, InputSampled
<1>11. CASE UNCHANGED vars
  BY <1>11 DEF vars, input, taken, init, IInv, Types, InOrder, Stages, Covered, NextIsOldest, Filter,
              LastBefore
<1>. QED
  BY <1>1, <1>2, <1>3, <1>4, <1>5, <1>6, <1>7, <1>8, <1>9, <1>10, <1>11 DEF Next, MainLoop

(* So it holds in every state.                                             *)
LEMMA Invariance == Spec => []IInv
BY Initially, Inductive, PTL DEF Spec

(* Once a scan has been paired, the deque is never empty where the loop    *)
(* looks at it, and the copy of its front is never stale: sync_packages    *)
(* and the loop over the points in laserMapping.cpp.                       *)
THEOREM NextIsAlwaysOldest == Spec => []NextIsOldest
<1>1. IInv => NextIsOldest
  BY DEF IInv
<1>. QED
  BY <1>1, Invariance, PTL

(* What gives the filter a sample.                                         *)
LEMMA OnlyFusing ==
    ASSUME IInv, [Next]_vars, uses' # uses
    PROVE  \/ FuseSample /\ ~use_imu_as_input
           \/ (InputBegin \/ InputSample) /\ use_imu_as_input
BY ZenonT(40) DEF Next, MainLoop, vars, input, taken, init, livox_pcl_cbk, imu_cbk, InitializeImu, InitializeMap,
       StartScan, BeginPoint, FuseSample, InputBegin, InputSample, UpdatePoint,
       InputPoint, MoveToPoint, taken

(* From the first one on, the filter takes every sample, in the order of   *)
(* arrival and once, however scans overlap; with the IMU as its input the  *)
(* first one, and no other, twice.                                         *)
THEOREM EverySampleFusedInOrder == Spec => SamplesFusedInOrder
<1>1. IInv /\ [Next]_vars =>
        [uses' # uses /\ uses > 0 =>
           fused' = fused + (IF use_imu_as_input /\ uses = 1 THEN 0 ELSE 1)]_vars
  <2>. SUFFICES ASSUME IInv, [Next]_vars, uses' # uses, uses > 0
                PROVE  fused' = fused + (IF use_imu_as_input /\ uses = 1 THEN 0 ELSE 1)
    OBVIOUS
  <2>1. CASE FuseSample /\ ~use_imu_as_input
    BY <2>1, SampleFused DEF IInv, Filter
  <2>2. CASE InputBegin
    BY <2>2, InputBegins
  <2>3. CASE InputSample /\ use_imu_as_input
    BY <2>3, InputSampled
  <2>. QED
    BY <2>1, <2>2, <2>3, OnlyFusing
<1>. QED
  BY <1>1, Invariance, PTL DEF Spec, SamplesFusedInOrder

(* The filter never predicts over a negative interval to a sample, at the  *)
(* assignment laserMapping.cpp marks "big problem".                        *)
THEOREM AlwaysPredictsForward == Spec => PredictsForward
<1>1. IInv /\ [Next]_vars
      => [~use_imu_as_input /\ uses' # uses =>
            time_predict_last_const' >= time_predict_last_const]_vars
  <2>. SUFFICES ASSUME IInv, [Next]_vars, ~use_imu_as_input, uses' # uses
                PROVE  time_predict_last_const' >= time_predict_last_const
    OBVIOUS
  <2>1. FuseSample
    BY OnlyFusing
  <2>2. time_predict_last_const' = imu_next.stamp /\ pc # "spin" /\ ~is_first_frame
    BY <2>1, SampleFused DEF FuseSample, imu_comes, IInv, Stages
  <2>3. imu_next.stamp \in Int
    BY <2>2, AtPoint
  <2>4. time_predict_last_const <= imu_next.stamp /\ time_predict_last_const \in Int
    BY <2>2 DEF IInv, Filter, Types, Time
  <2>. QED
    BY <2>2, <2>3, <2>4
<1>. QED
  BY <1>1, Invariance, PTL DEF Spec, PredictsForward

-----------------------------------------------------------------------------
(* Less than one revolution back from an angle                             *)
LEMMA TurnsBack ==
    ASSUME NEW a \in Int, NEW d \in 0..(Turn - 1)
    PROVE  (a - d) % Turn = IF d <= a % Turn THEN (a % Turn) - d ELSE (a % Turn) - d + Turn
<1>. DEFINE x == a % Turn
            k == a \div Turn
<1>1. Turn \in Nat \ {0}
  BY PreprocessAssumption
<1>2. k \in Int /\ x \in 0..(Turn - 1) /\ a = Turn * k + x
  BY <1>1, Division
<1>. HIDE DEF x, k
<1>3. Turn * (k - 1) = Turn * k - Turn /\ Turn * k \in Int /\ k - 1 \in Int
  BY <1>1, <1>2
<1>4. CASE d <= x
  <2>1. a - d = Turn * k + (x - d) /\ x - d \in 0..(Turn - 1) /\ a - d \in Int
    BY <1>1, <1>2, <1>3, <1>4
  <2>2. (a - d) % Turn = x - d
    BY <1>1, <1>2, <2>1, RemainderUnique
  <2>. QED
    BY <1>4, <2>2 DEF x
<1>5. CASE ~(d <= x)
  <2>1. /\ a - d = Turn * (k - 1) + (x - d + Turn)
        /\ x - d + Turn \in 0..(Turn - 1) /\ a - d \in Int
    BY <1>1, <1>2, <1>3, <1>5
  <2>2. (a - d) % Turn = x - d + Turn
    BY <1>1, <1>3, <2>1, RemainderUnique
  <2>. QED
    BY <1>5, <2>2 DEF x
<1>. QED
  BY <1>4, <1>5

(* What is turned between two points is the time between them, or what is  *)
(* left of it without one revolution.                                      *)
LEMMA TurnedIs ==
    ASSUME NEW p, NEW q, p.at \in Nat, q.at \in Nat, p.at < q.at, NEW strict
    PROVE  /\ q.at - p.at < Turn => Turned(Yaw(p), Yaw(q), strict) = q.at - p.at
           /\ Turn <= q.at - p.at /\ q.at - p.at < 2 * Turn /\ strict = FALSE
                => Turned(Yaw(p), Yaw(q), strict) = q.at - p.at - Turn
<1>. DEFINE a == StartAngle - p.at
            x == a % Turn
            y == Yaw(q)
            d == q.at - p.at
<1>1. Turn \in Nat \ {0} /\ a \in Int /\ d \in Nat \ {0} /\ StartAngle - q.at = a - d
  BY PreprocessAssumption
<1>2. x \in 0..(Turn - 1) /\ Yaw(p) = x
  BY <1>1, Division DEF Yaw
<1>3. y = (a - d) % Turn
  BY <1>1 DEF Yaw
<1>. HIDE DEF x, y, a, d
<1>4. ASSUME d < Turn PROVE Turned(Yaw(p), y, strict) = d
  <2>1. d \in 0..(Turn - 1)
    BY <1>1, <1>4
  <2>2. y = IF d <= x THEN x - d ELSE x - d + Turn
    BY <1>1, <1>3, <2>1, TurnsBack DEF x
  <2>3. CASE d <= x
    <3>1. y = x - d /\ y < x
      BY <1>1, <1>2, <2>2, <2>3
    <3>2. Turned(Yaw(p), y, strict) = x - y
      BY <1>2, <3>1 DEF Turned
    <3>. QED
      BY <1>1, <1>2, <3>1, <3>2
  <2>4. CASE ~(d <= x)
    <3>1. y = x - d + Turn /\ ~(y < x) /\ y # x
      BY <1>1, <1>2, <1>4, <2>2, <2>4
    <3>2. Turned(Yaw(p), y, strict) = x - y + Turn
      BY <1>2, <3>1 DEF Turned
    <3>. QED
      BY <1>1, <1>2, <3>1, <3>2
  <2>. QED
    BY <2>3, <2>4
<1>5. ASSUME Turn <= d, d < 2 * Turn, strict = FALSE PROVE Turned(Yaw(p), y, strict) = d - Turn
  <2>. DEFINE e == d - Turn
            b == a - d
  <2>1. e \in 0..(Turn - 1) /\ b \in Int /\ b + Turn * 1 = a - e /\ 1 \in Int
    BY <1>1, <1>5
  <2>2. (b + Turn * 1) % Turn = b % Turn
    <3>. HIDE DEF b, e
    <3>. QED
      BY <1>1, <2>1, RemainderPeriodic
  <2>. HIDE DEF e
  <2>3. y = IF e <= x THEN x - e ELSE x - e + Turn
    BY <1>1, <1>3, <2>1, <2>2, TurnsBack DEF x
  <2>4. CASE e <= x
    <3>1. y = x - e /\ (y < x \/ y = x)
      BY <1>1, <1>2, <2>1, <2>3, <2>4
    <3>2. Turned(Yaw(p), y, strict) = x - y
      BY <1>2, <1>5, <3>1 DEF Turned
    <3>3. x - y = e
      BY <1>1, <1>2, <2>1, <3>1
    <3>. QED
      BY <3>2, <3>3 DEF e
  <2>5. CASE ~(e <= x)
    <3>1. y = x - e + Turn /\ ~(y < x) /\ y # x
      BY <1>1, <1>2, <2>1, <2>3, <2>5
    <3>2. Turned(Yaw(p), y, strict) = x - y + Turn
      BY <1>2, <1>5, <3>1 DEF Turned
    <3>3. x - y + Turn = e
      BY <1>1, <1>2, <2>1, <3>1
    <3>. QED
      BY <3>2, <3>3 DEF e
  <2>. QED
    BY <2>4, <2>5
<1>. QED
  BY <1>4, <1>5 DEF y, d

(* The first and the last of some numbers                                  *)
LEMMA EarliestLatest ==
    ASSUME NEW n \in Nat, NEW S, S \subseteq 1..n, S # {}
    PROVE  /\ Earliest(S) \in S /\ \A j \in S : Earliest(S) <= j
           /\ Latest(S) \in S /\ \A j \in S : Latest(S) >= j
<1>. DEFINE M == {d \in 0..n : n - d \in S}
<1>1. \E i \in S : \A j \in S : i <= j
  <2>1. S \subseteq Nat
    OBVIOUS
  <2>. QED
    BY <2>1, LeastExists
<1>2. M \subseteq Nat /\ M # {}
  <2>1. PICK i \in S : TRUE
    OBVIOUS
  <2>. DEFINE d == n - i
  <2>2. d \in 0..n /\ n - d = i
    BY <2>1
  <2>. HIDE DEF d
  <2>3. d \in M
    BY <2>1, <2>2
  <2>. QED
    BY <2>3
<1>3. PICK d \in M : \A e \in M : d <= e
  BY <1>2, LeastExists
<1>4. n - d \in S /\ \A j \in S : n - d >= j
  <2>1. ASSUME NEW j \in S PROVE n - d >= j
    <3>. DEFINE e == n - j
    <3>1. j \in 1..n /\ e \in 0..n /\ n - e = j
      OBVIOUS
    <3>. HIDE DEF e
    <3>2. e \in M
      BY <3>1
    <3>3. d <= e /\ d \in 0..n
      BY <1>3, <3>2
    <3>. QED
      BY <3>1, <3>3
  <2>. QED
    BY <2>1
<1>. HIDE DEF M
<1>5. Earliest(S) \in S /\ \A j \in S : Earliest(S) <= j
  BY <1>1 DEF Earliest
<1>6. Latest(S) \in S /\ \A j \in S : Latest(S) >= j
  BY <1>4 DEF Latest
<1>. QED
  BY <1>5, <1>6

(* The first point of its ring                                             *)
FirstOf(I, i, ringOf) == Earliest({k \in I : ringOf[k] = ringOf[i]})

LEMMA FirstIs ==
    ASSUME NEW n \in Nat, NEW I, I \subseteq 1..n, NEW ringOf, NEW i \in I
    PROVE  /\ Before(I, i, ringOf) \subseteq 1..n
           /\ Before(I, i, ringOf) = {} => FirstOf(I, i, ringOf) = i
           /\ Before(I, i, ringOf) # {} =>
                /\ FirstOf(I, i, ringOf) = Earliest(Before(I, i, ringOf))
                /\ Earliest(Before(I, i, ringOf)) \in Before(I, i, ringOf)
                /\ Latest(Before(I, i, ringOf)) \in Before(I, i, ringOf)
                /\ \A j \in Before(I, i, ringOf) :
                      /\ Earliest(Before(I, i, ringOf)) <= j
                      /\ Latest(Before(I, i, ringOf)) >= j
<1>. DEFINE B == Before(I, i, ringOf)
            S == {k \in I : ringOf[k] = ringOf[i]}
<1>1. B \subseteq 1..n /\ S \subseteq 1..n /\ i \in S /\ B \subseteq S
      /\ \A k \in S : k \in B \/ i <= k
  <2>1. B \subseteq S /\ S \subseteq I /\ i \in S
    BY DEF Before
  <2>2. ASSUME NEW k \in S PROVE k \in B \/ i <= k
    <3>1. k \in I /\ ringOf[k] = ringOf[i] /\ k \in Int /\ i \in Int
      OBVIOUS
    <3>2. k < i => k \in B
      BY <3>1 DEF Before
    <3>. QED
      BY <3>1, <3>2
  <2>. QED
    BY <2>1, <2>2
<1>2. /\ Earliest(S) \in S /\ \A j \in S : Earliest(S) <= j
      /\ FirstOf(I, i, ringOf) = Earliest(S)
  BY <1>1, EarliestLatest DEF FirstOf
<1>. HIDE DEF B
<1>3. ASSUME B = {} PROVE Earliest(S) = i
  <2>1. Earliest(S) <= i /\ i <= Earliest(S) /\ Earliest(S) \in Int
    BY <1>1, <1>2, <1>3
  <2>. QED
    BY <2>1
<1>4. ASSUME B # {}
      PROVE  /\ Earliest(S) = Earliest(B) /\ Earliest(B) \in B /\ Latest(B) \in B
             /\ \A j \in B : Earliest(B) <= j /\ Latest(B) >= j
  <2>1. Earliest(B) \in B /\ Latest(B) \in B /\ \A j \in B : Earliest(B) <= j /\ Latest(B) >= j
    BY <1>1, <1>4, EarliestLatest
  <2>2. Earliest(S) <= Earliest(B)
    BY <1>1, <1>2, <2>1
  <2>3. Earliest(B) <= i /\ Earliest(B) \in Int /\ i \in Int
    BY <1>1, <2>1 DEF B, Before
  <2>4. Earliest(B) <= Earliest(S) /\ Earliest(S) \in Int
    BY <1>1, <1>2, <2>1, <2>3
  <2>. QED
    BY <2>1, <2>2, <2>3, <2>4
<1>. QED
  BY <1>1, <1>2, <1>3, <1>4 DEF B

(* Points whose times the rotation gives: within a revolution, or          *)
(* unwrapped, and no ring without a point for a revolution                 *)
Timely(ps, I, ringOf, strict, unwrap) ==
    \/ unwrap = FALSE /\ \A i \in I : ps[i].at < Turn
    \/ /\ strict = FALSE /\ unwrap = TRUE
       /\ \A i, j \in I : i < j /\ ringOf[i] = ringOf[j] =>
             /\ ps[j].at - ps[i].at < 2 * Turn
             /\ \/ \E k \in I : i < k /\ k < j /\ ringOf[k] = ringOf[i]
                \/ ps[j].at - ps[i].at < Turn

(* A rotation's times are those since the first point of the ring, if the  *)
(* points are in order and within a revolution, or no ring goes without    *)
(* one for as long and its time is unwrapped.                              *)
LEMMA RotationIs ==
    ASSUME NEW ps, NEW n \in Nat, NEW I, I \subseteq 1..n, NEW ringOf,
           \A i \in I : ps[i].at \in Nat,
           \A i, j \in I : i < j => ps[i].at < ps[j].at,
           NEW strict, NEW unwrap, Timely(ps, I, ringOf, strict, unwrap)
    PROVE  \A i \in I : /\ FirstOf(I, i, ringOf) \in I
                        /\ RotationTimes(ps, I, ringOf, strict, unwrap)[i]
                              = ps[i].at - ps[FirstOf(I, i, ringOf)].at
<1>. DEFINE B(i) == Before(I, i, ringOf)
            first(i) == FirstOf(I, i, ringOf)
            right(i) == ps[i].at - ps[first(i)].at
            turned(i) == Turned(Yaw(ps[Earliest(B(i))]), Yaw(ps[i]), strict)
            body(time, i) ==
                IF B(i) = {} THEN 0
                ELSE IF unwrap /\ turned(i) < time[Latest(B(i))] THEN turned(i) + Turn ELSE turned(i)
            f == [i \in I |-> right(i)]
<1>1. Turn \in Nat \ {0}
  BY PreprocessAssumption
<1>2. \A i \in I : /\ B(i) = {} => first(i) = i
                   /\ B(i) # {} => /\ first(i) = Earliest(B(i))
                                   /\ first(i) \in B(i) /\ Latest(B(i)) \in B(i)
                                   /\ \A j \in B(i) : Latest(B(i)) >= j
                                   /\ first(Latest(B(i))) = first(i)
  <2>1. ASSUME NEW i \in I
        PROVE  /\ B(i) = {} => first(i) = i
               /\ B(i) # {} => /\ first(i) = Earliest(B(i))
                               /\ first(i) \in B(i) /\ Latest(B(i)) \in B(i)
                               /\ \A j \in B(i) : Latest(B(i)) >= j
                               /\ first(Latest(B(i))) = first(i)
    <3>1. /\ B(i) = {} => first(i) = i
          /\ B(i) # {} =>
                /\ first(i) = Earliest(B(i))
                /\ Earliest(B(i)) \in B(i)
                /\ Latest(B(i)) \in B(i)
                /\ \A j \in B(i) : Earliest(B(i)) <= j /\ Latest(B(i)) >= j
      BY FirstIs
    <3>2. B(i) # {} => first(Latest(B(i))) = first(i)
      <4>1. B(i) # {} => ringOf[Latest(B(i))] = ringOf[i]
        BY <3>1 DEF Before
      <4>. QED
        BY <4>1 DEF FirstOf
    <3>. HIDE DEF B, first
    <3>. QED
      BY <3>1, <3>2
  <2>. QED
    BY <2>1
<1>3. \A i \in I : \A j \in B(i) : j \in I /\ j < i /\ ringOf[j] = ringOf[i]
  BY DEF Before
<1>4. \A i \in I : first(i) \in I
  BY <1>2, <1>3
<1>5. \A i \in I, j \in I : j < i /\ ringOf[j] = ringOf[i] => j \in B(i)
  BY DEF Before
<1>. HIDE DEF B, first
<1>6. ASSUME NEW i \in I, NEW v, B(i) # {} => v = right(Latest(B(i)))
      PROVE  right(i) = IF B(i) = {} THEN 0
                        ELSE IF unwrap /\ turned(i) < v THEN turned(i) + Turn ELSE turned(i)
  <2>1. CASE B(i) = {}
    <3>1. right(i) = 0
      BY <1>2, <2>1
    <3>. QED
      BY <2>1, <3>1
  <2>2. CASE B(i) # {}
    <3>. DEFINE b == first(i)
                l == Latest(B(i))
                d == ps[i].at - ps[b].at
    <3>1. /\ b = Earliest(B(i)) /\ b \in I /\ b < i /\ l \in I /\ l < i /\ first(l) = b
          /\ ringOf[l] = ringOf[i] /\ ringOf[b] = ringOf[i]
      BY <1>2, <1>3, <2>2
    <3>2. /\ ps[b].at \in Nat /\ ps[i].at \in Nat /\ ps[l].at \in Nat
          /\ ps[b].at < ps[i].at /\ ps[l].at < ps[i].at
      BY <3>1
    <3>3. v = ps[l].at - ps[b].at
      BY <1>6, <2>2, <3>1
    <3>4. turned(i) = Turned(Yaw(ps[b]), Yaw(ps[i]), strict)
      BY <3>1
    <3>5. right(i) = d /\ d \in Nat \ {0} /\ v \in Int
      BY <3>2, <3>3
    <3>. HIDE DEF l, b, turned
    <3>6. d < Turn => turned(i) = d
      BY <3>2, <3>4, TurnedIs
    <3>7. CASE unwrap = FALSE /\ \A j \in I : ps[j].at < Turn
      <4>1. turned(i) = d
        <5>1. d < Turn
          <6>1. ps[i].at < Turn
            BY <3>7
          <6>. QED
            BY <1>1, <3>2, <6>1
        <5>. QED
          BY <3>6, <5>1
      <4>2. ~unwrap
        BY <3>7
      <4>. HIDE DEF d, right
      <4>. QED
        BY <2>2, <3>5, <4>1, <4>2, Zenon
    <3>8. CASE /\ strict = FALSE /\ unwrap = TRUE
               /\ \A j, k \in I : j < k /\ ringOf[j] = ringOf[k] =>
                     /\ ps[k].at - ps[j].at < 2 * Turn
                     /\ \/ \E m \in I : j < m /\ m < k /\ ringOf[m] = ringOf[j]
                        \/ ps[k].at - ps[j].at < Turn
      <4>0. unwrap
        BY <3>8, Zenon
      <4>1. d < 2 * Turn
        BY <3>1, <3>8
      <4>2. ~(\E m \in I : l < m /\ m < i /\ ringOf[m] = ringOf[l])
        <5>1. ASSUME NEW m \in I, l < m, m < i, ringOf[m] = ringOf[l] PROVE FALSE
          <6>1. m \in B(i)
            BY <1>5, <3>1, <5>1
          <6>2. l >= m
            BY <1>2, <2>2, <6>1 DEF l
          <6>3. l \in Int /\ m \in Int
            BY <3>1
          <6>. QED
            BY <5>1, <6>2, <6>3
        <5>. QED
          BY <5>1
      <4>3. ps[i].at - ps[l].at < Turn
        BY <3>1, <3>8, <4>2
      <4>4. CASE d < Turn
        <5>1. turned(i) = d /\ ~(d < v)
          BY <3>2, <3>3, <3>6, <4>4
        <5>. HIDE DEF d, right
        <5>. QED
          BY <2>2, <3>5, <5>1, Zenon
      <4>5. CASE ~(d < Turn)
        <5>1. turned(i) = d - Turn
          <6>1. Turn <= d
            BY <1>1, <3>5, <4>5
          <6>2. strict = FALSE
            BY <3>8
          <6>. QED
            BY <3>2, <3>4, <4>1, <6>1, <6>2, TurnedIs DEF d
        <5>2. turned(i) < v /\ turned(i) + Turn = d
          BY <1>1, <3>2, <3>3, <4>3, <5>1
        <5>. HIDE DEF d, right
        <5>. QED
          BY <2>2, <3>5, <4>0, <5>2, Zenon
      <4>. QED
        BY <4>4, <4>5
    <3>. QED
      BY <3>7, <3>8, Zenon DEF Timely
  <2>. QED
    BY <2>1, <2>2
<1>. HIDE DEF turned
<1>7. f = [i \in I |-> body(f, i)]
  <2>1. ASSUME NEW i \in I PROVE right(i) = body(f, i)
    <3>1. B(i) # {} => f[Latest(B(i))] = right(Latest(B(i)))
      BY <1>2, <1>3
    <3>. HIDE DEF f, right
    <3>. QED
      BY <1>6, <3>1
  <2>. HIDE DEF right, body
  <2>2. \A i \in I : right(i) = body(f, i)
    BY <2>1
  <2>3. [i \in I |-> right(i)] = [i \in I |-> body(f, i)]
    BY <2>2
  <2>. QED
    BY <2>3
<1>. DEFINE T == CHOOSE time : time = [i \in I |-> body(time, i)]
<1>8. T = RotationTimes(ps, I, ringOf, strict, unwrap)
  BY DEF RotationTimes, B, turned
<1>9. T = [i \in I |-> body(T, i)]
  <2>. HIDE DEF f, body
  <2>. QED
    BY <1>7
<1>. HIDE DEF T, f
<1>. DEFINE Good == {m \in Nat : \A i \in I : i <= m => T[i] = right(i)}
<1>10. 0 \in Good
  <2>1. \A i \in I : ~(i <= 0)
    OBVIOUS
  <2>. HIDE DEF right
  <2>. QED
    BY <2>1
<1>11. ASSUME NEW m \in 1..n, m - 1 \in Good PROVE m \in Good
  <2>1. ASSUME NEW i \in I, i <= m PROVE T[i] = right(i)
    <3>1. ASSUME B(i) # {} PROVE T[Latest(B(i))] = right(Latest(B(i)))
      <4>. DEFINE l == Latest(B(i))
      <4>1. l \in I /\ l < i
        BY <1>2, <1>3, <3>1
      <4>. HIDE DEF l, right
      <4>2. l <= m - 1
        BY <2>1, <4>1
      <4>3. T[l] = right(l)
        BY <1>11, <4>1, <4>2
      <4>. QED
        BY <4>3 DEF l
    <3>2. T[i] = body(T, i)
      BY <1>9
    <3>. HIDE DEF right
    <3>. QED
      BY <1>6, <3>1, <3>2
  <2>. HIDE DEF right
  <2>2. \A i \in I : i <= m => T[i] = right(i)
    BY <2>1, Zenon
  <2>3. m \in Nat
    OBVIOUS
  <2>. QED
    BY <2>2, <2>3
<1>12. 0..n \subseteq Good
  <2>. HIDE DEF Good
  <2>. QED
    BY <1>10, <1>11, StepByStep
<1>13. \A i \in I : T[i] = right(i)
  <2>. HIDE DEF right
  <2>1. n \in Good
    <3>. HIDE DEF Good
    <3>1. n \in 0..n
      OBVIOUS
    <3>. QED
      BY <1>12, <3>1
  <2>2. \A i \in I : i <= n => T[i] = right(i)
    BY <2>1
  <2>3. \A i \in I : i <= n
    OBVIOUS
  <2>. QED
    BY <2>2, <2>3
<1>. QED
  BY <1>4, <1>8, <1>13 DEF first

-----------------------------------------------------------------------------
(* What is known of the times: nothing, if they are taken for others.      *)
Kind == IF UnitsFit THEN lidar.type ELSE "unknown"

(* The points of one scan: those of a ring as far apart as they were       *)
(* measured, each once                                                     *)
FromScan(pl, stamp, c) ==
    /\ pl \in Seq([curvature : Int, at : Nat, ring : Nat, scan : {c}, num : Nat])
    /\ Kind \in {"AVIA", "OUST64"} =>
          \A k \in DOMAIN pl : stamp + pl[k].curvature = pl[k].at
    /\ \A k, l \in DOMAIN pl :
          /\ Kind # "unknown" /\ pl[k].ring = pl[l].ring =>
                pl[k].curvature - pl[l].curvature = pl[k].at - pl[l].at
          /\ k # l => pl[k].num # pl[l].num

Message(ps) == ps \in Seq([at : Nat, ring : Nat, kind : {"seen", "blind", "nan", "again", "noise"}])

LEMMA PointsOfMessage ==
    ASSUME NEW ps, Message(ps)
    PROVE  /\ Len(ps) \in Nat /\ DOMAIN ps = 1..Len(ps)
           /\ \A i \in DOMAIN ps : ps[i].at \in Nat /\ ps[i].ring \in Nat
<1>1. Len(ps) \in Nat /\ DOMAIN ps = 1..Len(ps)
  BY DEF Message
<1>2. ASSUME NEW i \in 1..Len(ps)
      PROVE  ps[i] \in [at : Nat, ring : Nat, kind : {"seen", "blind", "nan", "again", "noise"}]
  BY ElementOfSeq DEF Message
<1>3. ASSUME NEW i \in 1..Len(ps) PROVE ps[i].at \in Nat /\ ps[i].ring \in Nat
  BY <1>2
<1>. QED
  BY <1>1, <1>3

LEMMA MeasuredIs ==
    ASSUME NEW ps, Message(ps), NEW I, I \subseteq DOMAIN ps, NEW time, NEW stamp \in Nat,
           pre_count \in Nat, NEW unit \in Nat, lidar.tick \in Nat, UnitsFit => unit = lidar.tick,
           \A i \in I : time[i] \in Int,
           lidar.type \in {"AVIA", "OUST64"} => \A i \in I : time[i] = ps[i].at,
           \A i, j \in I : ps[i].ring = ps[j].ring => time[i] - time[j] = ps[i].at - ps[j].at
    PROVE  FromScan(Measured(ps, I, time, unit, stamp), stamp, pre_count + 1)
<1>. DEFINE o == Ascending(I)
            m == Measured(ps, I, time, unit, stamp)
            Late(i) == unit * time[i]
            Past(i) == lidar.tick * ps[i].at
            n == Cardinality(I)
<1>1. Len(ps) \in Nat /\ DOMAIN ps = 1..Len(ps)
  BY PointsOfMessage
<1>2. IsFiniteSet(I) /\ I \subseteq Int /\ I \subseteq Nat
  <2>1. IsFiniteSet(1..Len(ps))
    BY <1>1, FS_Interval
  <2>. QED
    BY <1>1, <2>1, FS_Subset
<1>3. o \in Seq(I) /\ Len(o) = n /\ \A k, l \in 1..n : k < l => o[k] < o[l]
  <2>. DEFINE key == [i \in I |-> i]
  <2>1. \A i \in I : key[i] \in Int /\ key[i] = i
    BY <1>2
  <2>2. o = Sorted(I, key)
    BY DEF Ascending
  <2>. HIDE DEF key, o
  <2>3. /\ o \in Seq(I) /\ Len(o) = n
        /\ \A k, l \in 1..n : k < l =>
             \/ key[o[k]] < key[o[l]]
             \/ key[o[k]] = key[o[l]] /\ o[k] < o[l]
    BY <1>2, <2>1, <2>2, SortedIs, SMTT(40)
  <2>. QED
    BY <2>1, <2>3
<1>4. n \in Nat /\ DOMAIN o = 1..n /\ \A k \in 1..n : o[k] \in I /\ o[k] \in Nat
  BY <1>2, <1>3
<1>. HIDE DEF o, n
<1>5. m = [k \in 1..n |->
            [curvature |-> Late(o[k]), at |-> stamp + Past(o[k]),
             ring |-> ps[o[k]].ring, scan |-> pre_count + 1, num |-> o[k]]]
  BY <1>4 DEF Measured, o
<1>. HIDE DEF m
<1>6. \A i \in I : ps[i].at \in Nat /\ ps[i].ring \in Nat /\ Late(i) \in Int /\ Past(i) \in Nat
  <2>1. \A i \in I : ps[i].at \in Nat /\ ps[i].ring \in Nat /\ time[i] \in Int
    BY PointsOfMessage
  <2>2. \A x \in Nat : (\A y \in Int : x * y \in Int) /\ \A y \in Nat : x * y \in Nat
    OBVIOUS
  <2>. QED
    BY <2>1, <2>2
(* Scaled alike, what was equal is.                                        *)
<1>15. ASSUME UnitsFit, NEW i \in I, NEW j \in I
       PROVE  /\ time[i] = ps[i].at => Late(i) = Past(i)
              /\ time[i] - time[j] = ps[i].at - ps[j].at => Late(i) - Late(j) = Past(i) - Past(j)
  <2>1. unit = lidar.tick /\ time[i] \in Int /\ time[j] \in Int /\ ps[i].at \in Int /\ ps[j].at \in Int
    BY <1>6, <1>15
  <2>2. \A a \in Nat : \A x, y \in Int : a * x - a * y = a * (x - y)
    OBVIOUS
  <2>3. /\ Late(i) - Late(j) = unit * (time[i] - time[j])
        /\ Past(i) - Past(j) = unit * (ps[i].at - ps[j].at)
    BY <2>1, <2>2
  <2>. QED
    BY <2>1, <2>3
<1>. HIDE DEF Late, Past
<1>7. /\ DOMAIN m = 1..n
      /\ \A k \in 1..n : /\ m[k].curvature = Late(o[k]) /\ m[k].at = stamp + Past(o[k])
                         /\ m[k].ring = ps[o[k]].ring /\ m[k].num = o[k]
                         /\ m[k] \in [curvature : Int, at : Nat, ring : Nat,
                                      scan : {pre_count + 1}, num : Nat]
  <2>1. ASSUME NEW k \in 1..n
        PROVE  /\ m[k].curvature = Late(o[k]) /\ m[k].at = stamp + Past(o[k])
               /\ m[k].ring = ps[o[k]].ring /\ m[k].num = o[k]
               /\ m[k] \in [curvature : Int, at : Nat, ring : Nat,
                            scan : {pre_count + 1}, num : Nat]
    <3>1. m[k] = [curvature |-> Late(o[k]), at |-> stamp + Past(o[k]),
                  ring |-> ps[o[k]].ring, scan |-> pre_count + 1, num |-> o[k]]
      BY <1>5
    <3>2. Late(o[k]) \in Int /\ stamp + Past(o[k]) \in Nat /\ ps[o[k]].ring \in Nat /\ o[k] \in Nat
      BY <1>4, <1>6
    <3>. QED
      BY <3>1, <3>2
  <2>. QED
    BY <1>5, <2>1
<1>8. m \in Seq([curvature : Int, at : Nat, ring : Nat, scan : {pre_count + 1}, num : Nat])
  <2>. DEFINE E == [curvature : Int, at : Nat, ring : Nat, scan : {pre_count + 1}, num : Nat]
  <2>1. m = [k \in 1..n |-> m[k]]
    BY <1>5
  <2>2. \A k \in 1..n : m[k] \in E
    BY <1>7
  <2>. HIDE DEF E
  <2>3. m \in [1..n -> E]
    BY <2>1, <2>2
  <2>4. m \in Seq(E)
    BY <1>4, <2>3
  <2>. QED
    BY <2>4 DEF E
<1>9. ASSUME NEW k \in 1..n, Kind \in {"AVIA", "OUST64"} PROVE stamp + m[k].curvature = m[k].at
  <2>1. o[k] \in I /\ m[k].curvature = Late(o[k]) /\ m[k].at = stamp + Past(o[k])
    BY <1>4, <1>7
  <2>2. UnitsFit /\ time[o[k]] = ps[o[k]].at
    BY <1>9, <2>1 DEF Kind
  <2>3. Late(o[k]) = Past(o[k])
    BY <1>15, <2>1, <2>2
  <2>. QED
    BY <2>1, <2>3
<1>10. ASSUME NEW k \in 1..n, NEW l \in 1..n
       PROVE  /\ Kind # "unknown" /\ m[k].ring = m[l].ring =>
                    m[k].curvature - m[l].curvature = m[k].at - m[l].at
              /\ k # l => m[k].num # m[l].num
  <2>1. /\ o[k] \in I /\ o[l] \in I
        /\ m[k].curvature = Late(o[k]) /\ m[k].at = stamp + Past(o[k])
        /\ m[k].ring = ps[o[k]].ring /\ m[k].num = o[k]
        /\ m[l].curvature = Late(o[l]) /\ m[l].at = stamp + Past(o[l])
        /\ m[l].ring = ps[o[l]].ring /\ m[l].num = o[l]
    BY <1>4, <1>7
  <2>2. ASSUME Kind # "unknown", m[k].ring = m[l].ring PROVE m[k].curvature - m[l].curvature = m[k].at - m[l].at
    <3>1. time[o[k]] - time[o[l]] = ps[o[k]].at - ps[o[l]].at
      BY <2>1, <2>2
    <3>2. Late(o[k]) - Late(o[l]) = Past(o[k]) - Past(o[l])
      BY <1>15, <2>1, <2>2, <3>1 DEF Kind
    <3>3. Past(o[k]) \in Nat /\ Past(o[l]) \in Nat
      BY <1>6, <2>1
    <3>. QED
      BY <2>1, <3>2, <3>3
  <2>3. ASSUME k # l PROVE m[k].num # m[l].num
    <3>1. k < l \/ l < k
      BY <2>3
    <3>2. o[k] < o[l] \/ o[l] < o[k]
      BY <1>3, <3>1
    <3>3. o[k] \in Nat /\ o[l] \in Nat
      BY <1>4
    <3>. QED
      BY <2>1, <3>2, <3>3
  <2>. QED
    BY <2>2, <2>3
<1>11. DOMAIN m = 1..n
  BY <1>5
<1>. HIDE DEF m
<1>12. Kind \in {"AVIA", "OUST64"} => \A k \in DOMAIN m : stamp + m[k].curvature = m[k].at
  BY <1>9, <1>11
<1>13. \A k, l \in DOMAIN m :
         /\ Kind # "unknown" /\ m[k].ring = m[l].ring =>
               m[k].curvature - m[l].curvature = m[k].at - m[l].at
         /\ k # l => m[k].num # m[l].num
  BY <1>10, <1>11
<1>14. FromScan(m, stamp, pre_count + 1)
  BY <1>8, <1>12, <1>13, Zenon DEF FromScan
<1>. QED
  BY <1>14 DEF m

(* The offsets of the message give every point its time.                   *)
LEMMA OffsetsMeasure ==
    ASSUME NEW ps, Message(ps), NEW I, I \subseteq DOMAIN ps, NEW stamp \in Nat, pre_count \in Nat,
           NEW unit \in Nat, lidar.tick \in Nat, UnitsFit => unit = lidar.tick
    PROVE  FromScan(Measured(ps, I, Offsets(ps), unit, stamp), stamp, pre_count + 1)
<1>1. \A i \in I : ps[i].at \in Nat /\ Offsets(ps)[i] = ps[i].at
  BY PointsOfMessage DEF Offsets
<1>. QED
  BY <1>1, MeasuredIs

(* So does the rotation, where it turns as far as the point was.           *)
LEMMA RotationMeasures ==
    ASSUME NEW ps, Message(ps), NEW I, I \subseteq DOMAIN ps, NEW J, J \subseteq I,
           NEW ringOf, NEW strict, NEW unwrap, NEW stamp \in Nat, pre_count \in Nat,
           NEW unit \in Nat, lidar.tick \in Nat, UnitsFit => unit = lidar.tick,
           lidar.type \notin {"AVIA", "OUST64"},
           \A i, j \in DOMAIN ps : i < j => ps[i].at < ps[j].at,
           \A i, j \in I : ps[i].ring = ps[j].ring => ringOf[i] = ringOf[j],
           \/ unwrap = FALSE /\ \A i \in I : ps[i].at < Turn
           \/ strict = FALSE /\ unwrap = TRUE /\ ringOf = Rings(ps) /\ Unwraps(ps, I)
    PROVE  FromScan(Measured(ps, J, RotationTimes(ps, I, ringOf, strict, unwrap), unit, stamp),
                    stamp, pre_count + 1)
<1>. DEFINE T == RotationTimes(ps, I, ringOf, strict, unwrap)
            n == Len(ps)
<1>1. n \in Nat /\ DOMAIN ps = 1..n /\ I \subseteq 1..n /\ \A i \in I : ps[i].at \in Nat
  BY PointsOfMessage
<1>2. ASSUME ringOf = Rings(ps), Unwraps(ps, I)
      PROVE  \A i, j \in I : i < j /\ ringOf[i] = ringOf[j] =>
                /\ ps[j].at - ps[i].at < 2 * Turn
                /\ \/ \E k \in I : i < k /\ k < j /\ ringOf[k] = ringOf[i]
                   \/ ps[j].at - ps[i].at < Turn
  <2>1. \A i \in I : ringOf[i] = ps[i].ring
    BY <1>2 DEF Rings
  <2>. QED
    BY <1>2, <2>1 DEF Unwraps
<1>3. Timely(ps, I, ringOf, strict, unwrap)
  BY <1>2, Zenon DEF Timely
<1>4. \A i, j \in I : i < j => ps[i].at < ps[j].at
  OBVIOUS
<1>. HIDE DEF T, n
<1>5. \A i \in I : FirstOf(I, i, ringOf) \in I /\ T[i] = ps[i].at - ps[FirstOf(I, i, ringOf)].at
  <2>1. \A i \in I : ps[i].at \in Nat
    BY <1>1
  <2>2. \A i \in I : /\ FirstOf(I, i, ringOf) \in I
                    /\ RotationTimes(ps, I, ringOf, strict, unwrap)[i]
                          = ps[i].at - ps[FirstOf(I, i, ringOf)].at
    <3>1. n \in Nat /\ I \subseteq 1..n
      BY <1>1
    <3>. QED
      BY <1>3, <1>4, <2>1, <3>1, RotationIs
  <2>. QED
    BY <2>2 DEF T
<1>6. \A i \in J : T[i] \in Int
  BY <1>1, <1>5
<1>7. ASSUME NEW i \in J, NEW j \in J, ps[i].ring = ps[j].ring
      PROVE  T[i] - T[j] = ps[i].at - ps[j].at
  <2>1. ringOf[i] = ringOf[j]
    BY <1>7
  <2>2. FirstOf(I, i, ringOf) = FirstOf(I, j, ringOf)
    BY <2>1 DEF FirstOf
  <2>. DEFINE b == FirstOf(I, i, ringOf)
  <2>3. b \in I /\ T[i] = ps[i].at - ps[b].at /\ T[j] = ps[j].at - ps[b].at
    BY <1>5, <2>2
  <2>. HIDE DEF b
  <2>. QED
    BY <1>1, <2>3
<1>8. J \subseteq DOMAIN ps /\ ~(lidar.type \in {"AVIA", "OUST64"})
  BY <1>1
<1>. QED
  BY <1>6, <1>7, <1>8, MeasuredIs DEF T

(* What is kept of a message that can be read, with its times              *)
LEMMA ProcessIs ==
    ASSUME NEW ps \in Messages, Readable(ps), lidar.type \in LidarTypes, lidar.making # "cut",
           lidar.tick \in Ticks,
           NEW stamp \in Nat, pre_count \in Nat
    PROVE  FromScan(process(ps, stamp), stamp, pre_count + 1)
<1>1. Message(ps) /\ lidar.tick \in Nat
  BY PreprocessAssumption DEF Message
<1>2. CASE ps = <<>>
  BY <1>2 DEF process, FromScan
<1>3. CASE ps # <<>> /\ lidar.type = "AVIA"
  <2>1. LivoxPoints(ps) \subseteq DOMAIN ps
    BY <1>1 DEF LivoxPoints, Message
  <2>2. process(ps, stamp) = Measured(ps, LivoxPoints(ps), Offsets(ps), lidar.tick, stamp)
    BY <1>3 DEF process
  <2>. QED
    BY <1>1, <2>1, <2>2, OffsetsMeasure
<1>4. CASE ps # <<>> /\ lidar.type = "OUST64"
  <2>1. EachNth(Of(ps, {"seen", "again", "noise"})) \subseteq DOMAIN ps
    BY DEF EachNth, Of
  <2>2. process(ps, stamp) = Measured(ps, EachNth(Of(ps, {"seen", "again", "noise"})), Offsets(ps), lidar.tick, stamp)
    BY <1>4 DEF process, oust64_handler
  <2>. QED
    BY <1>1, <2>1, <2>2, OffsetsMeasure
<1>5. CASE ps # <<>> /\ lidar.type = "VELO16"
  <2>. DEFINE I == EachNth(DOMAIN ps \ Of(ps, {"nan"}))
              visible == I \ Of(ps, {"blind"})
              J == visible \ FirstOnes(I, AnyRing(ps))
              T == RotationTimes(ps, I, AnyRing(ps), TRUE, FALSE)
  <2>1. I \subseteq DOMAIN ps /\ visible \subseteq DOMAIN ps /\ J \subseteq I
    BY DEF EachNth
  <2>2. process(ps, stamp) = IF Given(ps) THEN Measured(ps, visible, Offsets(ps), lidar.tick, stamp)
                             ELSE Measured(ps, J, T, lidar.tick, stamp)
    BY <1>5 DEF process, velodyne_handler
  <2>. HIDE DEF visible, J, I
  <2>3. CASE Given(ps)
    BY <1>1, <2>1, <2>2, <2>3, OffsetsMeasure
  <2>4. CASE ~Given(ps)
    <3>1. /\ \A i, j \in DOMAIN ps : i < j => ps[i].at < ps[j].at
          /\ \A i \in DOMAIN ps : ps[i].at < Turn
      BY <1>5, <2>4 DEF Readable, UsesOffsets
    <3>2. \A i, j \in I : AnyRing(ps)[i] = AnyRing(ps)[j]
      BY <2>1 DEF AnyRing
    <3>3. FromScan(Measured(ps, J, T, lidar.tick, stamp), stamp, pre_count + 1)
      <4>1. lidar.type \notin {"AVIA", "OUST64"} /\ \A i \in I : ps[i].at < Turn
        BY <1>5, <2>1, <3>1
      <4>. QED
        BY <1>1, <2>1, <3>1, <3>2, <4>1, RotationMeasures
    <3>. QED
      BY <2>2, <2>4, <3>3
  <2>. QED
    BY <2>3, <2>4
<1>6. CASE ps # <<>> /\ lidar.type = "HESAIxt32"
  <2>. DEFINE visible == EachNth(Of(ps, {"seen", "again", "noise"}))
              J == visible \ FirstOnes(DOMAIN ps, Rings(ps))
              T == RotationTimes(ps, DOMAIN ps, Rings(ps), FALSE, TRUE)
              since == [i \in DOMAIN ps |-> ps[i].at - ps[1].at]
  <2>1. visible \subseteq DOMAIN ps /\ J \subseteq DOMAIN ps
    BY DEF EachNth, Of
  <2>2. process(ps, stamp) = IF Given(ps) THEN Measured(ps, visible, since, lidar.tick, stamp)
                             ELSE Measured(ps, J, T, lidar.tick, stamp)
    BY <1>6 DEF process, hesai_handler
  <2>3. lidar.type \notin {"AVIA", "OUST64"}
    BY <1>6
  <2>. HIDE DEF visible, J
  <2>4. CASE Given(ps)
    <3>1. /\ \A i \in DOMAIN ps : ps[i].at \in Nat /\ since[i] = ps[i].at - ps[1].at
          /\ ps[1].at \in Nat
      <4>1. Len(ps) # 0
        BY <1>1, <1>6, EmptySeq DEF Message
      <4>2. 1 \in DOMAIN ps
        BY <1>1, <4>1, PointsOfMessage
      <4>. QED
        BY <1>1, <4>2, PointsOfMessage
    <3>. HIDE DEF since
    <3>2. \A i \in visible : since[i] \in Int
      BY <2>1, <3>1
    <3>3. \A i, j \in visible : since[i] - since[j] = ps[i].at - ps[j].at
      BY <2>1, <3>1
    <3>4. FromScan(Measured(ps, visible, since, lidar.tick, stamp), stamp, pre_count + 1)
      BY <1>1, <2>1, <2>3, <3>2, <3>3, MeasuredIs
    <3>. QED
      BY <2>2, <2>4, <3>4
  <2>5. CASE ~Given(ps)
    <3>1. /\ \A i, j \in DOMAIN ps : i < j => ps[i].at < ps[j].at
          /\ Unwraps(ps, DOMAIN ps)
      BY <1>6, <2>5 DEF Readable, UsesOffsets
    <3>2. \A i, j \in DOMAIN ps : ps[i].ring = ps[j].ring => Rings(ps)[i] = Rings(ps)[j]
      BY DEF Rings
    <3>3. FromScan(Measured(ps, J, T, lidar.tick, stamp), stamp, pre_count + 1)
      BY <1>1, <2>1, <2>3, <3>1, <3>2, RotationMeasures
    <3>. QED
      BY <2>2, <2>5, <3>3
  <2>. QED
    BY <2>4, <2>5
<1>. QED
  BY <1>2, <1>3, <1>4, <1>5, <1>6 DEF LidarTypes

(* Other orders of a scan keep its times.                                  *)
LEMMA ReorderedIs ==
    ASSUME NEW kept, NEW stamp \in Nat, NEW c, FromScan(kept, stamp, c), NEW order,
           NEW n \in Nat, DOMAIN order = 1..n, \A k \in 1..n : order[k] \in DOMAIN kept,
           \A k, l \in 1..n : k # l => order[k] # order[l]
    PROVE  FromScan([k \in DOMAIN order |-> kept[order[k]]], stamp, c)
<1>. DEFINE E == [curvature : Int, at : Nat, ring : Nat, scan : {c}, num : Nat]
            pl == [k \in DOMAIN order |-> kept[order[k]]]
<1>1. kept \in Seq(E) /\ \A i \in DOMAIN kept : kept[i] \in E
  <2>1. kept \in Seq(E)
    BY DEF FromScan
  <2>. HIDE DEF E
  <2>. QED
    BY <2>1, ElementOfSeq, LenProperties
<1>. HIDE DEF E
<1>2. pl \in [1..n -> E] /\ DOMAIN pl = 1..n /\ \A k \in 1..n : pl[k] = kept[order[k]]
  BY <1>1
<1>3. pl \in Seq(E)
  BY <1>2
<1>. HIDE DEF pl
<1>4. ASSUME Kind \in {"AVIA", "OUST64"}
      PROVE  \A k \in DOMAIN pl : stamp + pl[k].curvature = pl[k].at
  <2>1. \A i \in DOMAIN kept : stamp + kept[i].curvature = kept[i].at
    BY <1>4 DEF FromScan
  <2>2. \A k \in 1..n : order[k] \in DOMAIN kept
    OBVIOUS
  <2>. QED
    BY <1>2, <2>1, <2>2
<1>5. \A k, l \in DOMAIN pl :
          /\ Kind # "unknown" /\ pl[k].ring = pl[l].ring =>
                pl[k].curvature - pl[l].curvature = pl[k].at - pl[l].at
          /\ k # l => pl[k].num # pl[l].num
  <2>1. ASSUME NEW k \in 1..n, NEW l \in 1..n
        PROVE  /\ Kind # "unknown" /\ pl[k].ring = pl[l].ring =>
                     pl[k].curvature - pl[l].curvature = pl[k].at - pl[l].at
               /\ k # l => pl[k].num # pl[l].num
    <3>. DEFINE i == order[k]
                j == order[l]
    <3>1. i \in DOMAIN kept /\ j \in DOMAIN kept /\ pl[k] = kept[i] /\ pl[l] = kept[j]
          /\ (k # l => i # j)
      BY <1>2
    <3>. HIDE DEF i, j
    <3>2. /\ Kind # "unknown" /\ kept[i].ring = kept[j].ring =>
                kept[i].curvature - kept[j].curvature = kept[i].at - kept[j].at
          /\ i # j => kept[i].num # kept[j].num
      BY <3>1 DEF FromScan
    <3>. QED
      BY <3>1, <3>2
  <2>. QED
    BY <1>2, <2>1
<1>. QED
  BY <1>3, <1>4, <1>5 DEF FromScan, E, pl

LEMMA CutPointsAre ==
    ASSUME NEW ps \in Messages, Readable(ps), lidar.type \in LidarTypes, lidar.making = "cut",
           ps # <<>>, lidar.tick \in Ticks, NEW stamp \in Nat, pre_count \in Nat
    PROVE  FromScan(CutPoints(ps, stamp), stamp, pre_count + 1)
<1>1. /\ Message(ps) /\ lidar.tick \in Nat /\ CutTick \in Nat
      /\ lidar.type # "AVIA" => (UnitsFit => CutTick = lidar.tick)
  BY PreprocessAssumption DEF Message, UnitsFit
<1>. DEFINE visible == Of(ps, {"seen", "again", "noise"})
            used == EachNth(Of(ps, {"seen", "again"}))
            J == used \ FirstOnes(visible, Rings(ps))
            T == RotationTimes(ps, visible, Rings(ps), FALSE, TRUE)
            kept == CASE lidar.type = "AVIA" -> Measured(ps, LivoxPoints(ps), Offsets(ps), lidar.tick, stamp)
                      [] lidar.type = "VELO16" /\ ~Given(ps) -> Measured(ps, J, T, CutTick, stamp)
                      [] OTHER -> Measured(ps, used, Offsets(ps), CutTick, stamp)
            key == [k \in DOMAIN kept |-> kept[k].curvature]
            order == Sorted(DOMAIN kept, key)
            n == Cardinality(DOMAIN kept)
<1>2. visible \subseteq DOMAIN ps /\ used \subseteq DOMAIN ps /\ J \subseteq visible
  BY DEF Of, EachNth
<1>. HIDE DEF visible, used, J
<1>3. FromScan(kept, stamp, pre_count + 1)
  <2>1. CASE lidar.type = "AVIA"
    <3>1. LivoxPoints(ps) \subseteq DOMAIN ps
      BY <1>1, PointsOfMessage DEF LivoxPoints
    <3>2. kept = Measured(ps, LivoxPoints(ps), Offsets(ps), lidar.tick, stamp)
      BY <2>1
    <3>. HIDE DEF kept
    <3>. QED
      BY <1>1, <3>1, <3>2, OffsetsMeasure
  <2>2. CASE lidar.type = "VELO16" /\ ~Given(ps)
    <3>1. kept = Measured(ps, J, T, CutTick, stamp)
      BY <2>2
    <3>2. /\ \A i, j \in DOMAIN ps : i < j => ps[i].at < ps[j].at
          /\ Unwraps(ps, visible)
      BY <2>2 DEF Readable, UsesOffsets, visible
    <3>3. \A i, j \in visible : ps[i].ring = ps[j].ring => Rings(ps)[i] = Rings(ps)[j]
      BY <1>2 DEF Rings
    <3>4. lidar.type \notin {"AVIA", "OUST64"}
      BY <2>2
    <3>. HIDE DEF kept
    <3>. QED
      BY <1>1, <1>2, <2>2, <3>1, <3>2, <3>3, <3>4, RotationMeasures
  <2>3. CASE lidar.type # "AVIA" /\ ~(lidar.type = "VELO16" /\ ~Given(ps))
    <3>1. kept = Measured(ps, used, Offsets(ps), CutTick, stamp)
      BY <2>3
    <3>. HIDE DEF kept
    <3>. QED
      BY <1>1, <1>2, <2>3, <3>1, OffsetsMeasure
  <2>. QED
    BY <2>1, <2>2, <2>3
<1>4. CutPoints(ps, stamp) = [k \in DOMAIN order |-> kept[order[k]]]
  BY DEF CutPoints, visible, used, J
<1>. HIDE DEF kept
<1>5. /\ Len(kept) \in Nat /\ DOMAIN kept = 1..Len(kept)
      /\ \A k \in DOMAIN kept : kept[k].curvature \in Int
  <2>. DEFINE E == [curvature : Int, at : Nat, ring : Nat, scan : {pre_count + 1}, num : Nat]
  <2>1. kept \in Seq(E)
    BY <1>3 DEF FromScan
  <2>2. \A e \in E : e.curvature \in Int
    OBVIOUS
  <2>. HIDE DEF E
  <2>. QED
    BY <2>1, <2>2, ElementOfSeq
<1>6. DOMAIN kept \subseteq Int /\ IsFiniteSet(DOMAIN kept) /\ \A k \in DOMAIN kept : key[k] \in Int
  BY <1>5, FS_Interval
<1>. HIDE DEF key
<1>7. /\ order \in Seq(DOMAIN kept) /\ Len(order) = n
      /\ \A k, l \in 1..n : k < l =>
           \/ key[order[k]] < key[order[l]]
           \/ key[order[k]] = key[order[l]] /\ order[k] < order[l]
  BY <1>6, SortedIs
<1>. HIDE DEF order
<1>8. n \in Nat /\ DOMAIN order = 1..n /\ \A k \in 1..n : order[k] \in DOMAIN kept
  <2>1. n \in Nat
    BY <1>6, FS_CardinalityType
  <2>. HIDE DEF n
  <2>. QED
    BY <1>7, <2>1
<1>. HIDE DEF n
<1>9. ASSUME NEW k \in 1..n, NEW l \in 1..n, k # l PROVE order[k] # order[l]
  <2>1. k < l \/ l < k
    BY <1>8, <1>9
  <2>2. order[k] \in DOMAIN kept /\ order[l] \in DOMAIN kept
    BY <1>8
  <2>3. key[order[k]] \in Int /\ key[order[l]] \in Int /\ order[k] \in Int /\ order[l] \in Int
    BY <1>6, <2>2
  <2>. QED
    BY <1>7, <2>1, <2>3
<1>10. FromScan([k \in DOMAIN order |-> kept[order[k]]], stamp, pre_count + 1)
  BY <1>3, <1>8, <1>9, ReorderedIs
<1>. QED
  BY <1>4, <1>10

-----------------------------------------------------------------------------
(* Quotients                                                               *)
LEMMA Quotients ==
    ASSUME NEW a \in Int, NEW b \in Int, NEW q \in Nat \ {0}
    PROVE  /\ a <= b => a \div q <= b \div q
           /\ a + 2 * q <= b => (a \div q) + 2 <= b \div q
<1>. DEFINE x == a \div q
            y == b \div q
            r == a % q
            t == b % q
<1>1. /\ x \in Int /\ y \in Int /\ r \in 0..(q - 1) /\ t \in 0..(q - 1)
      /\ a = q * x + r /\ b = q * y + t
  BY Division
<1>. HIDE DEF x, y, r, t
<1>2. ASSUME a <= b, y < x PROVE FALSE
  <2>1. PICK d \in Nat : x = y + 1 + d
    <3>1. x - y - 1 \in Nat /\ x = y + 1 + (x - y - 1)
      BY <1>1, <1>2
    <3>. QED
      BY <3>1
  <2>2. q * x = q * y + q + q * d /\ q * d >= 0 /\ q * d \in Int /\ q * y \in Int
    BY <1>1, <2>1
  <2>. QED
    BY <1>1, <1>2, <2>2
<1>3. ASSUME a + 2 * q <= b, y < x + 2 PROVE FALSE
  <2>1. PICK d \in Nat : x + 1 = y + d
    <3>1. x + 1 - y \in Nat /\ x + 1 = y + (x + 1 - y)
      BY <1>1, <1>3
    <3>. QED
      BY <3>1
  <2>2. q * (x + 1) = q * x + q /\ q * (y + d) = q * y + q * d
        /\ q * d >= 0 /\ q * d \in Int /\ q * y \in Int /\ q * x \in Int
    BY <1>1, <2>1
  <2>3. q * x + q = q * y + q * d
    BY <2>1, <2>2
  <2>. QED
    BY <1>1, <1>3, <2>2, <2>3
<1>. QED
  BY <1>1, <1>2, <1>3 DEF x, y

(* Where the f-th frame of a scan ends                                     *)
Ends(f, size, required) == IF f = 0 THEN 0 ELSE ((f * size) \div required) - 1

LEMMA EndsAre ==
    ASSUME NEW size \in Nat, NEW required \in Nat \ {0}, 2 * required <= size
    PROVE  /\ Ends(0, size, required) = 0 /\ Ends(required, size, required) = size - 1
           /\ \A f \in 0..required : Ends(f, size, required) \in 0..(size - 1)
           /\ \A f, g \in 0..required : f < g => Ends(f, size, required) < Ends(g, size, required)
<1>. DEFINE q(f) == (f * size) \div required
<1>1. \A f \in Nat : f * size \in Nat /\ q(f) \in Int
  <2>1. ASSUME NEW f \in Nat PROVE f * size \in Nat /\ q(f) \in Int
    <3>1. f * size \in Nat
      OBVIOUS
    <3>. DEFINE a == f * size
    <3>. HIDE DEF a
    <3>2. a \in Int => (a \div required) \in Int
      BY Division
    <3>. QED
      BY <3>1, <3>2 DEF a
  <2>. QED
    BY <2>1
<1>2. q(0) = 0
  <2>1. 0 * size = 0
    OBVIOUS
  <2>2. 0 = required * (0 \div required) + (0 % required) /\ (0 \div required) \in Int
        /\ 0 % required \in 0..(required - 1)
    BY Division
  <2>3. 0 % required = 0
    BY RemainderUnique, 0 = required * 0 + 0
  <2>4. required * (0 \div required) = required * 0
    BY <2>2, <2>3
  <2>5. 0 \div required = 0
    BY <2>2, <2>4, FactorCancels
  <2>. QED
    BY <2>1, <2>5
<1>3. q(required) = size
  <2>. DEFINE a == required * size
  <2>1. a \in Int /\ a = required * size + 0
    OBVIOUS
  <2>. HIDE DEF a
  <2>2. a % required = 0 /\ a = required * (a \div required) + (a % required) /\ a \div required \in Int
    <3>1. required - 1 \in Nat /\ 0 \in 0..(required - 1) /\ size \in Int
      OBVIOUS
    <3>2. a % required = 0
      BY <2>1, <3>1, RemainderUnique
    <3>. QED
      BY <2>1, <3>2, Division
  <2>3. required * (a \div required) = required * size
    BY <2>1, <2>2
  <2>4. a \div required = size
    BY <2>2, <2>3, FactorCancels
  <2>. QED
    BY <2>4 DEF a
<1>4. ASSUME NEW f \in Nat, NEW g \in Nat, f < g PROVE q(f) + 2 <= q(g)
  <2>1. f * size + size <= g * size
    <3>1. PICK d \in Nat : g = f + 1 + d
      <4>1. g - f - 1 \in Nat /\ g = f + 1 + (g - f - 1)
        BY <1>4
      <4>. QED
        BY <4>1
    <3>2. g * size = f * size + size + d * size /\ d * size >= 0 /\ d * size \in Int
      BY <3>1
    <3>. QED
      BY <3>2
  <2>2. f * size \in Int /\ g * size \in Int /\ f * size + 2 * required <= g * size
    BY <1>1, <2>1
  <2>. QED
    BY <2>2, Quotients
<1>. DEFINE e(f) == Ends(f, size, required)
<1>5. e(0) = 0 /\ \A f \in Nat \ {0} : e(f) = q(f) - 1
  BY DEF Ends
<1>. HIDE DEF q, e
<1>6. \A f, g \in 0..required : f < g => e(f) < e(g)
  <2>1. ASSUME NEW f \in 0..required, NEW g \in 0..required, f < g PROVE e(f) < e(g)
    <3>1. f \in Nat /\ g \in Nat \ {0}
      BY <2>1
    <3>2. q(f) + 2 <= q(g) /\ q(f) \in Int /\ q(g) \in Int
      BY <1>1, <1>4, <2>1, <3>1
    <3>3. e(g) = q(g) - 1
      BY <1>5, <3>1
    <3>4. CASE f = 0
      BY <1>2, <1>5, <3>2, <3>3, <3>4
    <3>5. CASE f # 0
      <4>1. e(f) = q(f) - 1
        BY <1>5, <3>1, <3>5
      <4>. QED
        BY <3>2, <3>3, <4>1
    <3>. QED
      BY <3>4, <3>5
  <2>. QED
    BY <2>1
<1>7. e(required) = size - 1
  BY <1>3, <1>5
<1>8. \A f \in 0..required : e(f) \in 0..(size - 1)
  <2>1. ASSUME NEW f \in 0..required PROVE e(f) \in 0..(size - 1)
    <3>1. e(f) \in Int
      BY <1>1, <1>5
    <3>2. f = 0 \/ e(0) < e(f)
      BY <1>6
    <3>3. f = required \/ e(f) < e(required)
      BY <1>6
    <3>. QED
      BY <1>5, <1>7, <3>1, <3>2, <3>3
  <2>. QED
    BY <2>1
<1>. QED
  BY <1>5, <1>6, <1>7, <1>8 DEF e

-----------------------------------------------------------------------------
(* A point of a frame is a point of the scan, at the time it has there.    *)
PointsOf(C) == [curvature : Int, at : Nat, ring : Nat, scan : C, num : Nat]
FramesOf(C) == [beg : Int, points : Seq(PointsOf(C))]

Same(p, q) == p.at = q.at /\ p.ring = q.ring /\ p.scan = q.scan /\ p.num = q.num

Holds(beg, pts, from, scan, stamp) ==
    \A k \in 1..Len(pts) :
        /\ Same(pts[k], scan[from + k + 1])
        /\ beg + pts[k].curvature = stamp + scan[from + k + 1].curvature

(* The frames cut from the first n points, and what is left of these       *)
CutSoFar(c, n, scan, stamp, required, C) ==
    /\ c.out \in Seq(FramesOf(C)) /\ c.cut \in Seq(PointsOf(C)) /\ c.last \in Int
    /\ Len(c.out) \in 0..required
    /\ Ends(Len(c.out), Len(scan), required) + Len(c.cut) = n
    /\ Len(c.out) < required => n < Ends(Len(c.out) + 1, Len(scan), required)
    /\ Holds(c.last, c.cut, Ends(Len(c.out), Len(scan), required), scan, stamp)
    /\ \A f \in 1..Len(c.out) :
          /\ Len(c.out[f].points)
                = Ends(f, Len(scan), required) - Ends(f - 1, Len(scan), required)
          /\ Holds(c.out[f].beg, c.out[f].points, Ends(f - 1, Len(scan), required), scan, stamp)

LEMMA InFrameIs ==
    ASSUME NEW C, NEW p \in PointsOf(C), NEW stamp \in Int, NEW beg \in Int
    PROVE  /\ InFrame(p, stamp, beg) \in PointsOf(C) /\ Same(InFrame(p, stamp, beg), p)
           /\ beg + InFrame(p, stamp, beg).curvature = stamp + p.curvature
<1>1. p.curvature + stamp - beg \in Int /\ p.curvature \in Int
  BY DEF PointsOf
<1>2. InFrame(p, stamp, beg) = [p EXCEPT !.curvature = p.curvature + stamp - beg]
  BY DEF InFrame
<1>3. /\ InFrame(p, stamp, beg).curvature = p.curvature + stamp - beg
      /\ InFrame(p, stamp, beg) \in PointsOf(C) /\ Same(InFrame(p, stamp, beg), p)
  BY <1>1, <1>2 DEF PointsOf, Same
<1>. QED
  BY <1>1, <1>3

LEMMA CutGoesOn ==
    ASSUME NEW C, NEW scan \in Seq(PointsOf(C)), NEW stamp \in Int,
           NEW required \in Nat \ {0}, 2 * required <= Len(scan),
           NEW n \in 1..(Len(scan) - 1), NEW c, NEW p, p = scan[n + 1],
           CutSoFar(c, n - 1, scan, stamp, required, C)
    PROVE  CutSoFar(AddToCut(c, p, n, scan, stamp, required), n, scan, stamp, required, C)
<1>. DEFINE L == Len(scan)
            e(f) == Ends(f, L, required)
            q == InFrame(p, stamp, c.last)
            cut == Append(c.cut, q)
            o == Len(c.out)
            d == AddToCut(c, p, n, scan, stamp, required)
            P == PointsOf(C)
            F == FramesOf(C)
<1>1. /\ c.out \in Seq(F) /\ c.cut \in Seq(P) /\ c.last \in Int
      /\ o \in 0..required /\ e(o) + Len(c.cut) = n - 1
      /\ o < required => n - 1 < e(o + 1)
      /\ Holds(c.last, c.cut, e(o), scan, stamp)
      /\ \A f \in 1..o : /\ Len(c.out[f].points) = e(f) - e(f - 1)
                         /\ Holds(c.out[f].beg, c.out[f].points, e(f - 1), scan, stamp)
  BY DEF CutSoFar
<1>2. L \in Nat /\ 1 <= n /\ n <= L - 1 /\ n \in Nat /\ required \in Nat
  OBVIOUS
<1>3. /\ e(0) = 0 /\ e(required) = L - 1
      /\ \A f \in 0..required : e(f) \in 0..(L - 1)
      /\ \A f, g \in 0..required : f < g => e(f) < e(g)
  BY <1>2, EndsAre
<1>0. Len(c.cut) \in Nat /\ o \in Nat /\ o \in 0..required /\ e(o) + Len(c.cut) = n - 1
  BY <1>1, LenProperties
<1>4. o < required
  <2>1. o # required
    <3>. HIDE DEF o, e
    <3>. QED
      BY <1>0, <1>2, <1>3
  <2>. QED
    BY <1>1, <2>1
<1>5. p \in P
  BY ElementOfSeq
<1>6. q \in P /\ Same(q, p) /\ c.last + q.curvature = stamp + p.curvature /\ q.curvature \in Int
  <2>1. q \in P /\ Same(q, p) /\ c.last + q.curvature = stamp + p.curvature
    BY <1>1, <1>5, InFrameIs
  <2>. HIDE DEF q
  <2>. QED
    BY <2>1 DEF PointsOf
<1>. HIDE DEF q
<1>7. /\ cut \in Seq(P) /\ Len(cut) = Len(c.cut) + 1
      /\ Len(c.cut) \in Nat
      /\ \A k \in 1..Len(c.cut) : cut[k] = c.cut[k]
      /\ cut[Len(c.cut) + 1] = q
  BY <1>1, <1>6, AppendProperties, LenProperties
<1>8. d = IF n = (((o + 1) * L) \div required) - 1
          THEN [cut |-> <<>>, last |-> c.last + q.curvature,
                out |-> Append(c.out, [beg |-> c.last, points |-> cut])]
          ELSE [cut |-> cut, last |-> c.last, out |-> c.out]
  BY DEF AddToCut, EndsFrame, q
<1>9. (((o + 1) * L) \div required) - 1 = e(o + 1)
  <2>1. o + 1 # 0
    BY <1>1
  <2>. QED
    BY <2>1 DEF Ends
<1>. HIDE DEF cut, o, d, e
<1>10. Holds(c.last, cut, e(o), scan, stamp)
  <2>1. ASSUME NEW k \in 1..Len(cut)
        PROVE  /\ Same(cut[k], scan[e(o) + k + 1])
               /\ c.last + cut[k].curvature = stamp + scan[e(o) + k + 1].curvature
    <3>1. CASE k \in 1..Len(c.cut)
      BY <1>1, <1>7, <3>1 DEF Holds
    <3>2. CASE k \notin 1..Len(c.cut)
      <4>1. k = Len(c.cut) + 1 /\ e(o) + k = n
        <5>1. e(o) \in Int
          BY <1>0, <1>3
        <5>2. k = Len(c.cut) + 1
          BY <1>0, <1>7, <3>2, SMTT(40)
        <5>. DEFINE x == e(o)
                    y == Len(c.cut)
        <5>3. x \in Int /\ y \in Nat /\ x + y = n - 1 /\ k = y + 1
          BY <1>0, <5>1, <5>2
        <5>. HIDE DEF x, y
        <5>4. x + k = n
          BY <1>2, <5>3
        <5>. QED
          BY <5>2, <5>4 DEF x
      <4>. QED
        BY <1>6, <1>7, <4>1
    <3>. QED
      BY <3>1, <3>2
  <2>. QED
    BY <2>1 DEF Holds
<1>11. e(o) + Len(cut) = n /\ e(o) \in Int /\ e(o + 1) \in Int
  <2>1. e(o) \in Int /\ o + 1 \in 0..required
    BY <1>0, <1>2, <1>3, <1>4
  <2>2. e(o + 1) \in Int
    BY <1>3, <2>1
  <2>. DEFINE x == e(o)
              y == Len(c.cut)
  <2>3. x \in Int /\ y \in Nat /\ x + y = n - 1 /\ Len(cut) = y + 1
    BY <1>0, <1>7, <2>1
  <2>. HIDE DEF x, y
  <2>4. x + Len(cut) = n
    BY <1>2, <2>3
  <2>. QED
    BY <2>1, <2>2, <2>4 DEF x
<1>12. CASE n = e(o + 1)
  <2>. DEFINE fr == [beg |-> c.last, points |-> cut]
              out == Append(c.out, fr)
  <2>1. d = [cut |-> <<>>, last |-> c.last + q.curvature, out |-> out]
    BY <1>8, <1>9, <1>12
  <2>2. fr \in F /\ fr.beg = c.last /\ fr.points = cut
    BY <1>1, <1>7 DEF FramesOf
  <2>. HIDE DEF fr, F, P
  <2>3. /\ out \in Seq(F) /\ Len(out) = o + 1 /\ \A f \in 1..o : out[f] = c.out[f]
        /\ out[o + 1] = fr /\ o \in Nat
    BY <1>1, <2>2, AppendProperties, LenProperties DEF o
  <2>. HIDE DEF out
  <2>4. /\ d.out = out /\ d.cut = <<>> /\ d.last = c.last + q.curvature
        /\ Len(d.out) = o + 1 /\ d.cut \in Seq(P) /\ Len(d.cut) = 0 /\ d.last \in Int
    BY <1>1, <1>6, <2>1, <2>3
  <2>5. o + 1 \in 0..required /\ e(o + 1) + 0 = n
    BY <1>1, <1>4, <1>11, <1>12, SMTT(40)
  <2>6. o + 1 < required => n < e((o + 1) + 1)
    <3>1. ASSUME o + 1 < required PROVE n < e((o + 1) + 1)
      <4>1. o + 1 \in 0..required /\ (o + 1) + 1 \in 0..required /\ o + 1 < (o + 1) + 1
        BY <1>1, <1>2, <3>1
      <4>. QED
        BY <1>3, <1>12, <4>1
    <3>. QED
      BY <3>1
  <2>7. Holds(d.last, d.cut, e(o + 1), scan, stamp)
    BY <2>4 DEF Holds
  <2>8. ASSUME NEW f \in 1..(o + 1)
        PROVE  /\ Len(out[f].points) = e(f) - e(f - 1)
               /\ Holds(out[f].beg, out[f].points, e(f - 1), scan, stamp)
    <3>1. CASE f \in 1..o
      BY <1>1, <2>3, <3>1
    <3>2. CASE f \notin 1..o
      <4>1. f = o + 1 /\ f - 1 = o
        BY <2>3, <3>2
      <4>2. out[f].points = cut /\ out[f].beg = c.last
        BY <2>2, <2>3, <4>1
      <4>3. Len(cut) = e(o + 1) - e(o)
        <5>1. Len(cut) \in Int
          BY <1>7
        <5>. QED
          BY <1>11, <1>12, <5>1, SMTT(40)
      <4>. QED
        BY <1>10, <4>1, <4>2, <4>3
    <3>. QED
      BY <3>1, <3>2
  <2>9. /\ d.out \in Seq(F) /\ d.cut \in Seq(P) /\ d.last \in Int
        /\ Len(d.out) \in 0..required
        /\ e(Len(d.out)) + Len(d.cut) = n
        /\ Len(d.out) < required => n < e(Len(d.out) + 1)
        /\ Holds(d.last, d.cut, e(Len(d.out)), scan, stamp)
        /\ \A f \in 1..Len(d.out) :
              /\ Len(d.out[f].points) = e(f) - e(f - 1)
              /\ Holds(d.out[f].beg, d.out[f].points, e(f - 1), scan, stamp)
    BY <2>3, <2>4, <2>5, <2>6, <2>7, <2>8
  <2>10. CutSoFar(d, n, scan, stamp, required, C)
    BY <2>9 DEF CutSoFar, e, F, P
  <2>. QED
    BY <2>10 DEF d
<1>13. CASE n # e(o + 1)
  <2>1. d = [cut |-> cut, last |-> c.last, out |-> c.out]
    BY <1>8, <1>9, <1>13
  <2>2. d.out = c.out /\ d.cut = cut /\ d.last = c.last /\ Len(d.out) = o
    BY <2>1 DEF o
  <2>3. n < e(o + 1)
    BY <1>1, <1>2, <1>4, <1>11, <1>13
  <2>. HIDE DEF F, P
  <2>4. /\ d.out \in Seq(F) /\ d.cut \in Seq(P) /\ d.last \in Int
        /\ Len(d.out) \in 0..required
        /\ e(Len(d.out)) + Len(d.cut) = n
        /\ Len(d.out) < required => n < e(Len(d.out) + 1)
        /\ Holds(d.last, d.cut, e(Len(d.out)), scan, stamp)
        /\ \A f \in 1..Len(d.out) :
              /\ Len(d.out[f].points) = e(f) - e(f - 1)
              /\ Holds(d.out[f].beg, d.out[f].points, e(f - 1), scan, stamp)
    <3>1. \A f \in 1..o :
              /\ Len(c.out[f].points) = e(f) - e(f - 1)
              /\ Holds(c.out[f].beg, c.out[f].points, e(f - 1), scan, stamp)
      BY <1>1
    <3>2. c.out \in Seq(F) /\ c.last \in Int /\ cut \in Seq(P)
      BY <1>1, <1>7
    <3>. QED
      BY <1>0, <1>10, <1>11, <2>2, <2>3, <3>1, <3>2
  <2>5. CutSoFar(d, n, scan, stamp, required, C)
    BY <2>4 DEF CutSoFar, e, F, P
  <2>. QED
    BY <2>5 DEF d
<1>. QED
  BY <1>12, <1>13

Cutting(c, N, rest, start, scan, stamp, required) ==
    c = [n \in 0..N |-> IF n = 0 THEN start
                        ELSE AddToCut(c[n - 1], rest[n], n, scan, stamp, required)]

LEMMA CuttingExists ==
    ASSUME NEW scan, NEW rest, NEW N \in Nat, NEW stamp, NEW required, NEW start
    PROVE  \E c : Cutting(c, N, rest, start, scan, stamp, required)
<1>. DEFINE next(f, n) == IF n = 0 THEN start
                          ELSE AddToCut(f[n - 1], rest[n], n, scan, stamp, required)
            Good == {k \in 0..N : \E f : f = [n \in 0..k |-> next(f, n)]}
<1>2. 0 \in Good
  <2>. DEFINE f == [n \in 0..0 |-> start]
  <2>1. \A n \in 0..0 : next(f, n) = start
    OBVIOUS
  <2>. HIDE DEF next
  <2>2. f = [n \in 0..0 |-> next(f, n)]
    BY <2>1
  <2>. QED
    BY <2>2
<1>3. ASSUME NEW k \in 1..N, k - 1 \in Good PROVE k \in Good
  <2>1. PICK f : f = [n \in 0..(k - 1) |-> next(f, n)]
    BY <1>3
  <2>. DEFINE g == [n \in 0..k |-> next(f, n)]
  <2>2. \A n \in 0..(k - 1) : n \in 0..k
    OBVIOUS
  <2>3. \A n \in 0..(k - 1) : f[n] = next(f, n)
    <3>. HIDE DEF next
    <3>. QED
      BY <2>1
  <2>4. \A n \in 0..(k - 1) : g[n] = f[n]
    <3>. HIDE DEF next
    <3>. QED
      BY <2>2, <2>3
  <2>5. \A n \in 0..k : next(g, n) = next(f, n)
    <3>1. ASSUME NEW n \in 0..k, n # 0 PROVE g[n - 1] = f[n - 1]
      <4>1. n - 1 \in 0..(k - 1)
        BY <3>1
      <4>. HIDE DEF g
      <4>. QED
        BY <2>4, <4>1
    <3>. HIDE DEF g
    <3>. QED
      BY <3>1
  <2>6. g = [n \in 0..k |-> next(g, n)]
    <3>. HIDE DEF next
    <3>. QED
      BY <2>5
  <2>7. k \in 0..N
    OBVIOUS
  <2>. HIDE DEF g, next
  <2>. QED
    BY <2>6, <2>7
<1>4. N \in Good
  <2>. HIDE DEF Good
  <2>1. 0..N \subseteq Good
    BY <1>2, <1>3, StepByStep
  <2>. QED
    BY <2>1
<1>. QED
  BY <1>4 DEF Cutting

(* The frames of a scan: required ones with every point but the first, or  *)
(* none of a scan that is too small                                        *)
CutInto(out, scan, stamp, required, C) ==
    /\ Len(scan) < 2 * required => out = <<>>
    /\ Len(scan) >= 2 * required =>
         /\ out \in Seq(FramesOf(C)) /\ Len(out) = required
         /\ \A f \in 1..required :
               /\ Len(out[f].points)
                     = Ends(f, Len(scan), required) - Ends(f - 1, Len(scan), required)
               /\ Holds(out[f].beg, out[f].points, Ends(f - 1, Len(scan), required), scan, stamp)

LEMMA CutIs ==
    ASSUME NEW C, NEW scan \in Seq(PointsOf(C)), NEW stamp \in Int, NEW required \in Nat \ {0},
           NEW out, out = Cut(scan, stamp, required)
    PROVE  CutInto(out, scan, stamp, required, C)
<1>. DEFINE rest == IF scan = <<>> THEN <<>> ELSE Tail(scan)
            L == Len(scan)
            N == Len(rest)
            start == [cut |-> <<>>, last |-> stamp, out |-> <<>>]
            c == CHOOSE c : Cutting(c, N, rest, start, scan, stamp, required)
            P == PointsOf(C)
<1>1. out = c[N].out
  BY DEF Cut, Cutting
<1>2. /\ N = (IF L = 0 THEN 0 ELSE L - 1) /\ N \in Nat /\ L \in Nat
      /\ \A n \in 1..N : rest[n] = scan[n + 1]
  <2>1. CASE scan = <<>>
    <3>1. L = 0 /\ N = 0
      BY <2>1
    <3>. QED
      BY <3>1
  <2>2. CASE scan # <<>>
    <3>1. rest = Tail(scan) /\ L \in Nat \ {0}
      BY <2>2, EmptySeq
    <3>. HIDE DEF rest
    <3>. QED
      BY <2>2, <3>1, HeadTailProperties
  <2>. QED
    BY <2>1, <2>2
<1>. HIDE DEF rest
<1>3. Cutting(c, N, rest, start, scan, stamp, required)
  <2>1. \E f : Cutting(f, N, rest, start, scan, stamp, required)
    <3>1. N \in Nat
      BY <1>2
    <3>. HIDE DEF N, start
    <3>. QED
      BY <3>1, CuttingExists
  <2>. QED
    BY <2>1
<1>. HIDE DEF c
<1>4. /\ c[0] = start
      /\ \A n \in 1..N : c[n] = AddToCut(c[n - 1], scan[n + 1], n, scan, stamp, required)
  <2>. HIDE DEF N, start
  <2>1. \A n \in 0..N : c[n] = IF n = 0 THEN start
                               ELSE AddToCut(c[n - 1], rest[n], n, scan, stamp, required)
    BY <1>3 DEF Cutting
  <2>2. 0 \in 0..N /\ \A n \in 1..N : n \in 0..N /\ n # 0
    BY <1>2
  <2>. QED
    BY <1>2, <2>1, <2>2
<1>. HIDE DEF N
<1>5. ASSUME L < 2 * required PROVE c[N].out = <<>>
  <2>. DEFINE Good == {n \in Nat : c[n].out = <<>>}
  <2>1. 0 \in Good
    BY <1>4
  <2>2. L \div required <= 1
    <3>1. L \in Int /\ L = required * (L \div required) + (L % required)
          /\ L \div required \in Int /\ L % required \in 0..(required - 1)
      <4>1. L \in Int
        BY <1>2
      <4>. HIDE DEF L
      <4>. QED
        BY <4>1, Division
    <3>. DEFINE x == L \div required
    <3>. HIDE DEF x
    <3>2. ASSUME x > 1 PROVE FALSE
      <4>1. PICK d \in Nat : x = 2 + d
        <5>1. x - 2 \in Nat /\ x = 2 + (x - 2)
          BY <3>1, <3>2 DEF x
        <5>. QED
          BY <5>1
      <4>2. required * x = 2 * required + required * d /\ required * d >= 0 /\ required * d \in Int
        BY <4>1
      <4>. QED
        BY <1>5, <3>1, <4>2 DEF x
    <3>. QED
      BY <3>1, <3>2 DEF x
  <2>3. ASSUME NEW n \in 1..N, n - 1 \in Good PROVE n \in Good
    <3>1. c[n - 1].out = <<>> /\ Len(c[n - 1].out) + 1 = 1
      BY <2>3
    <3>2. ~EndsFrame(n, 1, L, required)
      <4>1. 1 * L = L /\ L \div required \in Int
        <5>1. L \in Int
          BY <1>2
        <5>. QED
          BY <5>1, Division
      <4>2. (1 * L) \div required - 1 <= 0 /\ (1 * L) \div required - 1 \in Int /\ n >= 1
        BY <2>2, <4>1
      <4>. QED
        BY <4>2 DEF EndsFrame
    <3>3. AddToCut(c[n - 1], scan[n + 1], n, scan, stamp, required).out = c[n - 1].out
      BY <3>1, <3>2 DEF AddToCut
    <3>. QED
      BY <1>4, <3>1, <3>3
  <2>4. 0..N \subseteq Good
    <3>. HIDE DEF Good
    <3>. QED
      BY <1>2, <2>1, <2>3, StepByStep
  <2>5. N \in Good
    BY <1>2, <2>4
  <2>. QED
    BY <2>5
<1>6. ASSUME L >= 2 * required PROVE CutSoFar(c[N], N, scan, stamp, required, C)
  <2>. DEFINE Good == {n \in Nat : CutSoFar(c[n], n, scan, stamp, required, C)}
  <2>0. 2 * required <= L /\ N = L - 1
    BY <1>2, <1>6
  <2>1. 0 \in Good
    <3>1. /\ Ends(0, L, required) = 0 /\ \A f, g \in 0..required : f < g => Ends(f, L, required) < Ends(g, L, required)
      BY <1>2, <2>0, EndsAre
    <3>2. /\ c[0].out = <<>> /\ c[0].cut = <<>> /\ c[0].last = stamp
          /\ Len(c[0].out) = 0 /\ Len(c[0].cut) = 0
      BY <1>4
    <3>3. 0 < Ends(0 + 1, L, required)
      <4>1. 0 \in 0..required /\ 0 + 1 \in 0..required
        OBVIOUS
      <4>. QED
        BY <3>1, <4>1
    <3>4. Holds(stamp, <<>>, Ends(0, L, required), scan, stamp)
      BY DEF Holds
    <3>5. CutSoFar(c[0], 0, scan, stamp, required, C)
      BY <3>1, <3>2, <3>3, <3>4 DEF CutSoFar
    <3>. QED
      BY <3>5
  <2>2. ASSUME NEW n \in 1..N, n - 1 \in Good PROVE n \in Good
    <3>1. CutSoFar(c[n - 1], n - 1, scan, stamp, required, C) /\ n \in 1..(L - 1) /\ n \in Nat
      BY <2>0, <2>2
    <3>. DEFINE b == c[n - 1]
                d == c[n]
    <3>2. d = AddToCut(b, scan[n + 1], n, scan, stamp, required)
      BY <1>4
    <3>. HIDE DEF b, d
    <3>3. CutSoFar(AddToCut(b, scan[n + 1], n, scan, stamp, required), n, scan, stamp, required, C)
      BY <2>0, <3>1, CutGoesOn DEF b
    <3>. QED
      BY <3>1, <3>2, <3>3 DEF d
  <2>3. 0..N \subseteq Good
    <3>. HIDE DEF Good
    <3>1. N \in Nat
      BY <1>2
    <3>. QED
      BY <2>1, <2>2, <3>1, StepByStep
  <2>4. N \in Good
    <3>1. N \in 0..N
      BY <1>2
    <3>. HIDE DEF Good
    <3>. QED
      BY <2>3, <3>1
  <2>. QED
    BY <2>4
<1>7. ASSUME L >= 2 * required PROVE Len(c[N].out) = required
  <2>1. N = L - 1 /\ 2 * required <= L
    BY <1>2, <1>7
  <2>2. /\ Len(c[N].out) \in 0..required
        /\ Len(c[N].out) < required => N < Ends(Len(c[N].out) + 1, L, required)
    BY <1>6, <1>7 DEF CutSoFar
  <2>3. \A f \in 0..required : Ends(f, L, required) \in 0..(L - 1)
    BY <1>2, <2>1, EndsAre
  <2>. DEFINE o == Len(c[N].out)
  <2>. HIDE DEF o
  <2>4. ASSUME o < required PROVE FALSE
    <3>1. o + 1 \in 0..required
      BY <2>2, <2>4 DEF o
    <3>2. Ends(o + 1, L, required) \in 0..(L - 1)
      BY <2>3, <3>1
    <3>3. N < Ends(o + 1, L, required)
      BY <2>2, <2>4 DEF o
    <3>. QED
      BY <1>2, <2>1, <3>2, <3>3
  <2>. QED
    BY <2>2, <2>4 DEF o
<1>8. ASSUME L >= 2 * required
      PROVE  /\ out \in Seq(FramesOf(C)) /\ Len(out) = required
             /\ \A f \in 1..required :
                   /\ Len(out[f].points) = Ends(f, L, required) - Ends(f - 1, L, required)
                   /\ Holds(out[f].beg, out[f].points, Ends(f - 1, L, required), scan, stamp)
  BY <1>1, <1>6, <1>7, <1>8 DEF CutSoFar
<1>. QED
  BY <1>1, <1>5, <1>8 DEF CutInto

-----------------------------------------------------------------------------
(* The points of some frames, each at its time: those of one scan and ring *)
(* as far apart as measured, those of an exact lidar at the very time, no  *)
(* point twice, and none of a scan after the n-th                          *)
PlacesIn(F) == UNION {{<<f, k>> : k \in DOMAIN F[f].points} : f \in DOMAIN F}
SeenAt(fr, k) == [time |-> fr.beg + fr.points[k].curvature, at |-> fr.points[k].at,
                  ring |-> fr.points[k].ring, scan |-> fr.points[k].scan, num |-> fr.points[k].num]
Seen(F, q) == SeenAt(F[q[1]], q[2])

Agree(s, t, type) == type # "unknown" /\ s.scan = t.scan /\ s.ring = t.ring =>
                        s.time - t.time = s.at - t.at
Exact(s, type) == type \in {"AVIA", "OUST64"} => s.time = s.at

Sound(F, n, type) ==
    /\ \A q \in PlacesIn(F) : Exact(Seen(F, q), type) /\ Seen(F, q).scan \in 1..n
    /\ \A q, r \in PlacesIn(F) :
          /\ Agree(Seen(F, q), Seen(F, r), type)
          /\ q # r => <<Seen(F, q).scan, Seen(F, q).num>> # <<Seen(F, r).scan, Seen(F, r).num>>

LEMMA PlacesAre ==
    ASSUME NEW F
    PROVE  /\ \A f, k : <<f, k>> \in PlacesIn(F) <=> f \in DOMAIN F /\ k \in DOMAIN F[f].points
           /\ \A q \in PlacesIn(F) : q = <<q[1], q[2]>> /\ q[1] \in DOMAIN F /\ q[2] \in DOMAIN F[q[1]].points
<1>1. \A f \in DOMAIN F : \A k \in DOMAIN F[f].points : <<f, k>> \in PlacesIn(F)
  BY DEF PlacesIn
<1>2. ASSUME NEW q \in PlacesIn(F)
      PROVE  \E f \in DOMAIN F : \E k \in DOMAIN F[f].points : q = <<f, k>>
  BY DEF PlacesIn
<1>3. ASSUME NEW q \in PlacesIn(F)
      PROVE  q = <<q[1], q[2]>> /\ q[1] \in DOMAIN F /\ q[2] \in DOMAIN F[q[1]].points
  <2>1. PICK f \in DOMAIN F : \E k \in DOMAIN F[f].points : q = <<f, k>>
    BY <1>2
  <2>3. PICK k \in DOMAIN F[f].points : q = <<f, k>>
    BY <2>1
  <2>2. q[1] = f /\ q[2] = k
    BY <2>3
  <2>. QED
    BY <2>2, <2>3
<1>4. ASSUME NEW f, NEW k, <<f, k>> \in PlacesIn(F)
      PROVE  f \in DOMAIN F /\ k \in DOMAIN F[f].points
  <2>1. <<f, k>>[1] = f /\ <<f, k>>[2] = k
    OBVIOUS
  <2>2. <<f, k>>[1] \in DOMAIN F /\ <<f, k>>[2] \in DOMAIN F[<<f, k>>[1]].points
    BY <1>3, <1>4
  <2>. QED
    BY <2>1, <2>2
<1>. QED
  BY <1>1, <1>3, <1>4

LEMMA FewerSound ==
    ASSUME NEW F, NEW G, NEW n \in Nat, NEW type, Sound(F, n, type), NEW m \in Nat, n <= m,
           \A q \in PlacesIn(G) : q \in PlacesIn(F) /\ Seen(G, q) = Seen(F, q)
    PROVE  Sound(G, m, type)
<1>1. \A i \in 1..n : i \in 1..m
  OBVIOUS
<1>. QED
  BY <1>1 DEF Sound

(* A point of the scan that has just come                                  *)
Fresh(pl, stamp, k) == SeenAt([beg |-> stamp, points |-> pl], k)

LEMMA FreshAre ==
    ASSUME NEW pl, NEW stamp \in Int, NEW c, FromScan(pl, stamp, c)
    PROVE  /\ DOMAIN pl = 1..Len(pl) /\ Len(pl) \in Nat
           /\ \A k \in DOMAIN pl : /\ Exact(Fresh(pl, stamp, k), Kind)
                                   /\ Fresh(pl, stamp, k).scan = c
           /\ \A k, l \in DOMAIN pl :
                 /\ Agree(Fresh(pl, stamp, k), Fresh(pl, stamp, l), Kind)
                 /\ k # l => Fresh(pl, stamp, k).num # Fresh(pl, stamp, l).num
<1>1. pl \in Seq(PointsOf({c}))
  BY DEF FromScan, PointsOf
<1>2. ASSUME NEW k \in DOMAIN pl
      PROVE  /\ pl[k].scan = c /\ pl[k].curvature \in Int
             /\ Fresh(pl, stamp, k).time = stamp + pl[k].curvature
             /\ Fresh(pl, stamp, k).at = pl[k].at /\ Fresh(pl, stamp, k).ring = pl[k].ring
             /\ Fresh(pl, stamp, k).scan = pl[k].scan /\ Fresh(pl, stamp, k).num = pl[k].num
  <2>1. pl[k] \in PointsOf({c})
    BY <1>1, ElementOfSeq, LenProperties
  <2>2. pl[k].scan = c /\ pl[k].curvature \in Int
    BY <2>1 DEF PointsOf
  <2>. QED
    BY <2>2 DEF Fresh, SeenAt
<1>3. ASSUME NEW k \in DOMAIN pl PROVE Exact(Fresh(pl, stamp, k), Kind)
  BY <1>2 DEF FromScan, Exact
<1>4. ASSUME NEW k \in DOMAIN pl, NEW l \in DOMAIN pl
      PROVE  /\ Agree(Fresh(pl, stamp, k), Fresh(pl, stamp, l), Kind)
             /\ k # l => Fresh(pl, stamp, k).num # Fresh(pl, stamp, l).num
  <2>1. /\ Kind # "unknown" /\ pl[k].ring = pl[l].ring =>
              pl[k].curvature - pl[l].curvature = pl[k].at - pl[l].at
        /\ k # l => pl[k].num # pl[l].num
    BY DEF FromScan
  <2>2. Kind # "unknown" /\ pl[k].ring = pl[l].ring =>
           (stamp + pl[k].curvature) - (stamp + pl[l].curvature) = pl[k].at - pl[l].at
    BY <1>2, <2>1
  <2>. QED
    BY <1>2, <2>1, <2>2 DEF Agree
<1>. QED
  BY <1>1, <1>2, <1>3, <1>4, LenProperties

(* Frames are sound if each of their points is another one of sound frames *)
(* or of the scan that has just come.                                      *)
ComeFrom(G, F, pl, stamp, from) ==
    /\ \A q \in PlacesIn(G) :
          \/ from[q] \in PlacesIn(F) /\ Seen(G, q) = Seen(F, from[q])
          \/ \E k \in DOMAIN pl : from[q] = <<0, k>> /\ Seen(G, q) = Fresh(pl, stamp, k)
    /\ \A q, r \in PlacesIn(G) : q # r => from[q] # from[r]

LEMMA MovesKeep ==
    ASSUME NEW F, NEW G, NEW c \in Nat \ {0}, Sound(F, c - 1, Kind),
           NEW pl, NEW stamp \in Int, FromScan(pl, stamp, c),
           NEW from, ComeFrom(G, F, pl, stamp, from)
    PROVE  Sound(G, c, Kind)
<1>. DEFINE Old(q) == from[q] \in PlacesIn(F) /\ Seen(G, q) = Seen(F, from[q])
            New(q, k) == k \in DOMAIN pl /\ from[q] = <<0, k>> /\ Seen(G, q) = Fresh(pl, stamp, k)
<1>1. \A q \in PlacesIn(G) : Old(q) \/ \E k : New(q, k)
  BY DEF ComeFrom
<1>2. ASSUME NEW q \in PlacesIn(G), Old(q)
      PROVE  Exact(Seen(G, q), Kind) /\ Seen(G, q).scan \in 1..(c - 1)
  BY <1>2 DEF Sound
<1>3. ASSUME NEW q \in PlacesIn(G), NEW k, New(q, k)
      PROVE  Exact(Seen(G, q), Kind) /\ Seen(G, q).scan = c
  BY <1>3, FreshAre
<1>4. ASSUME NEW q \in PlacesIn(G) PROVE Exact(Seen(G, q), Kind) /\ Seen(G, q).scan \in 1..c
  <2>1. 1..(c - 1) \subseteq 1..c /\ c \in 1..c
    OBVIOUS
  <2>. QED
    BY <1>1, <1>2, <1>3, <2>1
<1>5. ASSUME NEW q \in PlacesIn(G), NEW r \in PlacesIn(G)
      PROVE  /\ Agree(Seen(G, q), Seen(G, r), Kind)
             /\ q # r => \/ Seen(G, q).scan # Seen(G, r).scan
                         \/ Seen(G, q).num # Seen(G, r).num
  <2>1. CASE Old(q) /\ Old(r)
    <3>1. /\ Agree(Seen(F, from[q]), Seen(F, from[r]), Kind)
          /\ from[q] # from[r] =>
                <<Seen(F, from[q]).scan, Seen(F, from[q]).num>>
                   # <<Seen(F, from[r]).scan, Seen(F, from[r]).num>>
      BY <2>1 DEF Sound
    <3>2. q # r => from[q] # from[r]
      BY DEF ComeFrom
    <3>. QED
      BY <2>1, <3>1, <3>2
  <2>2. CASE \E k, l : New(q, k) /\ New(r, l)
    <3>1. PICK k, l : New(q, k) /\ New(r, l)
      BY <2>2
    <3>2. /\ Agree(Fresh(pl, stamp, k), Fresh(pl, stamp, l), Kind)
          /\ k # l => Fresh(pl, stamp, k).num # Fresh(pl, stamp, l).num
      BY <3>1, FreshAre
    <3>3. q # r => k # l
      <4>1. q # r => from[q] # from[r]
        BY DEF ComeFrom
      <4>. QED
        BY <3>1, <4>1
    <3>. QED
      BY <3>1, <3>2, <3>3
  <2>3. CASE (Old(q) /\ \E l : New(r, l)) \/ (Old(r) /\ \E l : New(q, l))
    <3>1. Seen(G, q).scan # Seen(G, r).scan
      <4>1. c \notin 1..(c - 1)
        OBVIOUS
      <4>. HIDE DEF Old, New
      <4>. QED
        BY <1>2, <1>3, <2>3, <4>1
    <3>. QED
      BY <3>1 DEF Agree
  <2>. HIDE DEF Old, New
  <2>. QED
    BY <1>1, <2>1, <2>2, <2>3
<1>6. ASSUME NEW q \in PlacesIn(G), NEW r \in PlacesIn(G), q # r
      PROVE  <<Seen(G, q).scan, Seen(G, q).num>> # <<Seen(G, r).scan, Seen(G, r).num>>
  BY <1>5, <1>6
<1>. QED
  BY <1>4, <1>5, <1>6 DEF Sound

LEMMA Listed ==
    ASSUME NEW n \in Nat, NEW S, NEW f, f \in [1..n -> S]
    PROVE  f \in Seq(S) /\ Len(f) = n
OBVIOUS

LEMMA Concatenated ==
    ASSUME NEW S, NEW T, NEW s \in Seq(S), NEW t \in Seq(T)
    PROVE  /\ s \o t \in Seq(S \cup T) /\ Len(s \o t) = Len(s) + Len(t)
           /\ Len(s) \in Nat /\ Len(t) \in Nat
           /\ DOMAIN (s \o t) = 1..(Len(s) + Len(t))
           /\ \A i \in 1..Len(s) : (s \o t)[i] = s[i]
           /\ \A i \in 1..Len(t) : (s \o t)[Len(s) + i] = t[i]
<1>. DEFINE U == S \cup T
            n == Len(s)
            m == Len(t)
            j == s \o t
<1>1. s \in Seq(U) /\ t \in Seq(U)
  BY SeqMonotonic
<1>2. n \in Nat /\ m \in Nat
  BY LenProperties
<1>3. /\ j \in Seq(U) /\ Len(j) = n + m
      /\ \A i \in 1..(n + m) : j[i] = IF i <= n THEN s[i] ELSE t[i - n]
  BY <1>1, ConcatProperties
<1>4. DOMAIN j = 1..(n + m)
  BY <1>3, LenProperties
<1>. HIDE DEF n, m, j, U
<1>5. ASSUME NEW i \in 1..n PROVE j[i] = s[i]
  <2>1. i \in 1..(n + m) /\ i <= n
    BY <1>2
  <2>. QED
    BY <1>3, <2>1
<1>6. ASSUME NEW i \in 1..m PROVE j[n + i] = t[i]
  <2>1. n + i \in 1..(n + m) /\ ~(n + i <= n) /\ (n + i) - n = i
    BY <1>2
  <2>. QED
    BY <1>3, <2>1
<1>. QED
  BY <1>2, <1>3, <1>4, <1>5, <1>6 DEF n, m, j, U

(* Frames added behind, of points of the scan that has just come           *)
LEMMA AddedSound ==
    ASSUME NEW C, NEW D, NEW F \in Seq(FramesOf(C)), NEW out \in Seq(FramesOf(D)),
           NEW c \in Nat \ {0}, Sound(F, c - 1, Kind),
           NEW pl, NEW stamp \in Int, FromScan(pl, stamp, c), NEW which,
           \A q \in PlacesIn(out) : /\ which[q] \in DOMAIN pl
                                  /\ Seen(out, q) = Fresh(pl, stamp, which[q]),
           \A q, r \in PlacesIn(out) : q # r => which[q] # which[r]
    PROVE  Sound(F \o out, c, Kind)
<1>. DEFINE G == F \o out
            n == Len(F)
            back(q) == <<q[1] - n, q[2]>>
            from == [q \in PlacesIn(G) |-> IF q[1] <= n THEN q ELSE <<0, which[back(q)]>>]
<1>1. n \in Nat /\ Len(out) \in Nat /\ DOMAIN F = 1..n /\ DOMAIN out = 1..Len(out)
  BY LenProperties
<1>2. /\ DOMAIN G = 1..(n + Len(out))
      /\ \A f \in 1..n : G[f] = F[f]
      /\ \A f \in 1..Len(out) : G[n + f] = out[f]
  BY Concatenated
<1>. HIDE DEF G, n, back
<1>3. ASSUME NEW q \in PlacesIn(G), q[1] <= n
      PROVE  q \in PlacesIn(F) /\ Seen(G, q) = Seen(F, q) /\ from[q] = q
  <2>1. q = <<q[1], q[2]>> /\ q[1] \in DOMAIN G /\ q[2] \in DOMAIN G[q[1]].points
    BY PlacesAre
  <2>2. q[1] \in 1..n
    BY <1>1, <1>2, <1>3, <2>1
  <2>3. G[q[1]] = F[q[1]]
    BY <1>2, <2>2
  <2>4. <<q[1], q[2]>> \in PlacesIn(F)
    BY <1>1, <2>1, <2>2, <2>3, PlacesAre
  <2>5. from[q] = q
    BY <1>3
  <2>. QED
    BY <2>1, <2>3, <2>4, <2>5 DEF Seen
<1>4. ASSUME NEW q \in PlacesIn(G), ~(q[1] <= n)
      PROVE  /\ back(q) \in PlacesIn(out) /\ Seen(G, q) = Seen(out, back(q))
             /\ from[q] = <<0, which[back(q)]>> /\ q = <<n + back(q)[1], back(q)[2]>>
  <2>1. q = <<q[1], q[2]>> /\ q[1] \in DOMAIN G /\ q[2] \in DOMAIN G[q[1]].points
    BY PlacesAre
  <2>. DEFINE f == q[1] - n
  <2>2. f \in 1..Len(out) /\ q[1] = n + f
    BY <1>1, <1>2, <1>4, <2>1
  <2>3. back(q) = <<f, q[2]>> /\ back(q)[1] = f /\ back(q)[2] = q[2]
    BY DEF back
  <2>. HIDE DEF f
  <2>4. G[q[1]] = out[f]
    BY <1>2, <2>2
  <2>5. <<f, q[2]>> \in PlacesIn(out)
    BY <1>1, <2>1, <2>2, <2>4, PlacesAre
  <2>6. from[q] = <<0, which[back(q)]>>
    BY <1>4
  <2>. HIDE DEF from
  <2>. QED
    BY <2>1, <2>2, <2>3, <2>4, <2>5, <2>6 DEF Seen
<1>. HIDE DEF from
<1>5. \A q \in PlacesIn(G) :
         \/ from[q] \in PlacesIn(F) /\ Seen(G, q) = Seen(F, from[q])
         \/ \E k \in DOMAIN pl : from[q] = <<0, k>> /\ Seen(G, q) = Fresh(pl, stamp, k)
  <2>1. ASSUME NEW q \in PlacesIn(G)
        PROVE  \/ from[q] \in PlacesIn(F) /\ Seen(G, q) = Seen(F, from[q])
               \/ \E k \in DOMAIN pl : from[q] = <<0, k>> /\ Seen(G, q) = Fresh(pl, stamp, k)
    <3>1. CASE q[1] <= n
      BY <1>3, <3>1
    <3>2. CASE ~(q[1] <= n)
      <4>1. /\ which[back(q)] \in DOMAIN pl
            /\ Seen(G, q) = Fresh(pl, stamp, which[back(q)])
            /\ from[q] = <<0, which[back(q)]>>
        BY <1>4, <3>2
      <4>. QED
        BY <4>1
    <3>. QED
      BY <3>1, <3>2
  <2>. QED
    BY <2>1
<1>6. \A q, r \in PlacesIn(G) : q # r => from[q] # from[r]
  <2>1. ASSUME NEW q \in PlacesIn(G), NEW r \in PlacesIn(G), q # r PROVE from[q] # from[r]
    <3>1. CASE q[1] <= n /\ r[1] <= n
      BY <1>3, <2>1, <3>1
    <3>2. CASE ~(q[1] <= n) /\ ~(r[1] <= n)
      <4>1. back(q) # back(r)
        BY <1>4, <2>1, <3>2
      <4>2. which[back(q)] # which[back(r)]
        BY <1>4, <3>2, <4>1
      <4>. QED
        BY <1>4, <3>2, <4>2
    <3>3. ASSUME NEW x \in PlacesIn(G), NEW y \in PlacesIn(G), x[1] <= n, ~(y[1] <= n)
          PROVE  from[x] # from[y]
      <4>1. from[x][1] \in 1..n
        BY <1>1, <1>3, <3>3, PlacesAre
      <4>2. from[y][1] = 0
        BY <1>4, <3>3
      <4>. QED
        BY <1>1, <4>1, <4>2
    <3>. QED
      BY <3>1, <3>2, <3>3
  <2>. QED
    BY <2>1
<1>7. ComeFrom(G, F, pl, stamp, from)
  BY <1>5, <1>6 DEF ComeFrom
<1>8. Sound(G, c, Kind)
  BY <1>7, MovesKeep
<1>. QED
  BY <1>8 DEF G

(* The points of the scan, counted from another time                       *)
Counted(moved, pl, stamp, time, c) ==
    /\ moved \in Seq(PointsOf({c})) /\ Len(moved) = Len(pl)
    /\ \A k \in 1..Len(pl) : /\ Same(moved[k], pl[k])
                            /\ time + moved[k].curvature = stamp + pl[k].curvature

LEMMA CountedIs ==
    ASSUME NEW c, NEW pl, NEW stamp \in Int, FromScan(pl, stamp, c), NEW time \in Int, NEW moved,
           moved = [k \in DOMAIN pl |-> [pl[k] EXCEPT !.curvature = @ + stamp - time]]
    PROVE  Counted(moved, pl, stamp, time, c)
<1>1. pl \in Seq(PointsOf({c})) /\ DOMAIN pl = 1..Len(pl) /\ Len(pl) \in Nat
  BY FreshAre DEF FromScan, PointsOf
<1>2. ASSUME NEW k \in 1..Len(pl)
      PROVE  /\ moved[k] \in PointsOf({c}) /\ Same(moved[k], pl[k])
             /\ time + moved[k].curvature = stamp + pl[k].curvature
  <2>1. pl[k] \in PointsOf({c})
    BY <1>1, ElementOfSeq
  <2>2. moved[k] = InFrame(pl[k], stamp, time)
    BY <1>1 DEF InFrame
  <2>3. /\ InFrame(pl[k], stamp, time) \in PointsOf({c})
        /\ Same(InFrame(pl[k], stamp, time), pl[k])
        /\ time + InFrame(pl[k], stamp, time).curvature = stamp + pl[k].curvature
    BY <2>1, InFrameIs
  <2>. QED
    BY <2>2, <2>3
<1>3. DOMAIN moved = 1..Len(pl) /\ moved = [k \in 1..Len(pl) |-> moved[k]]
  BY <1>1
<1>4. moved \in [1..Len(pl) -> PointsOf({c})]
  BY <1>2, <1>3
<1>. DEFINE N == Len(pl)
<1>5. moved \in Seq(PointsOf({c})) /\ Len(moved) = N
  <2>1. N \in Nat /\ moved \in [1..N -> PointsOf({c})]
    BY <1>1, <1>4
  <2>. HIDE DEF N
  <2>. QED
    BY <2>1, Listed
<1>. QED
  BY <1>2, <1>5 DEF Counted

(* The points of the scan added to those of the last frame                 *)
LEMMA CombinedSound ==
    ASSUME NEW C, NEW F \in Seq(FramesOf(C)), NEW con \in Seq(PointsOf(C)),
           NEW beg \in Int, NEW time \in Int, con # <<>> => time = beg,
           NEW c \in Nat \ {0}, NEW pl, NEW stamp \in Int, FromScan(pl, stamp, c),
           Sound(Append(F, [beg |-> beg, points |-> con]), c - 1, Kind),
           NEW moved, Counted(moved, pl, stamp, time, c)
    PROVE  Sound(Append(F, [beg |-> time, points |-> con \o moved]), c, Kind)
<1>. DEFINE n == Len(F)
            m == Len(con)
            old == [beg |-> beg, points |-> con]
            new == [beg |-> time, points |-> con \o moved]
            E == Append(F, old)
            G == Append(F, new)
            from == [q \in PlacesIn(G) |-> IF q[1] <= n \/ q[2] <= m THEN q ELSE <<0, q[2] - m>>]
<1>1. n \in Nat /\ m \in Nat /\ DOMAIN F = 1..n /\ DOMAIN con = 1..m
  BY LenProperties
<1>2. pl \in Seq(PointsOf({c})) /\ DOMAIN pl = 1..Len(pl) /\ Len(pl) \in Nat
  BY FreshAre DEF FromScan, PointsOf
<1>3. /\ moved \in Seq(PointsOf({c})) /\ Len(moved) = Len(pl)
      /\ \A k \in 1..Len(pl) : /\ Same(moved[k], pl[k])
                               /\ time + moved[k].curvature = stamp + pl[k].curvature
  BY DEF Counted
<1>4. /\ DOMAIN (con \o moved) = 1..(m + Len(pl))
      /\ \A k \in 1..m : (con \o moved)[k] = con[k]
      /\ \A k \in 1..Len(pl) : (con \o moved)[m + k] = moved[k]
  <2>1. moved \in Seq(PointsOf({c}))
    BY <1>3
  <2>2. /\ DOMAIN (con \o moved) = 1..(Len(con) + Len(moved))
        /\ \A k \in 1..Len(con) : (con \o moved)[k] = con[k]
        /\ \A k \in 1..Len(moved) : (con \o moved)[Len(con) + k] = moved[k]
    BY <2>1, Concatenated
  <2>. QED
    BY <1>3, <2>2
<1>5. /\ DOMAIN E = 1..(n + 1) /\ DOMAIN G = 1..(n + 1)
      /\ \A f \in 1..n : E[f] = F[f] /\ G[f] = F[f]
      /\ E[n + 1] = old /\ G[n + 1] = new
  <2>. DEFINE S == FramesOf(C) \cup {old, new}
  <2>1. F \in Seq(S) /\ old \in S /\ new \in S
    BY SeqMonotonic
  <2>. HIDE DEF S, old, new
  <2>2. /\ E \in Seq(S) /\ Len(E) = n + 1 /\ \A f \in 1..n : E[f] = F[f]
        /\ E[n + 1] = old
        /\ G \in Seq(S) /\ Len(G) = n + 1 /\ \A f \in 1..n : G[f] = F[f]
        /\ G[n + 1] = new
    BY <2>1, AppendProperties
  <2>. HIDE DEF E, G
  <2>. QED
    BY <2>2, LenProperties
<1>6. /\ old.beg = beg /\ old.points = con /\ new.beg = time /\ new.points = con \o moved
  OBVIOUS
<1>. HIDE DEF E, G, old, new, n, m, from
<1>7. ASSUME NEW q \in PlacesIn(G)
      PROVE  /\ q = <<q[1], q[2]>> /\ q[1] \in 1..(n + 1) /\ q[2] \in DOMAIN G[q[1]].points
             /\ q[1] \in 1..n \/ q[1] = n + 1
  <2>1. q = <<q[1], q[2]>> /\ q[1] \in 1..(n + 1) /\ q[2] \in DOMAIN G[q[1]].points
    BY <1>5, PlacesAre
  <2>. QED
    BY <1>1, <2>1
<1>8. ASSUME NEW q \in PlacesIn(G), q[1] <= n \/ q[2] <= m
      PROVE  q \in PlacesIn(E) /\ Seen(G, q) = Seen(E, q) /\ from[q] = q
  <2>1. from[q] = q
    BY <1>8 DEF from
  <2>2. CASE q[1] \in 1..n
    <3>1. G[q[1]] = E[q[1]] /\ q[1] \in DOMAIN E
      BY <1>1, <1>5, <2>2
    <3>2. <<q[1], q[2]>> \in PlacesIn(E)
      BY <1>7, <3>1, PlacesAre
    <3>. QED
      BY <1>7, <2>1, <3>1, <3>2 DEF Seen
  <2>3. CASE q[1] \notin 1..n
    <3>1. q[1] = n + 1 /\ q[2] <= m
      <4>1. q[1] = n + 1
        BY <1>7, <2>3
      <4>. QED
        BY <1>1, <1>8, <4>1
    <3>2. q[2] \in DOMAIN (con \o moved)
      BY <1>5, <1>6, <1>7, <3>1
    <3>3. q[2] \in 1..m
      BY <1>1, <1>2, <1>4, <3>1, <3>2
    <3>4. con # <<>>
      BY <1>1, <3>3, EmptySeq DEF m
    <3>5. (con \o moved)[q[2]] = con[q[2]] /\ time = beg
      BY <1>4, <3>3, <3>4
    <3>6. SeenAt(new, q[2]) = SeenAt(old, q[2])
      BY <1>6, <3>5 DEF SeenAt
    <3>7. n + 1 \in DOMAIN E /\ q[2] \in DOMAIN E[n + 1].points
      BY <1>1, <1>5, <1>6, <3>3
    <3>8. <<n + 1, q[2]>> \in PlacesIn(E)
      BY <3>7, PlacesAre
    <3>. QED
      BY <1>5, <1>7, <2>1, <3>1, <3>6, <3>8 DEF Seen
  <2>. QED
    BY <2>2, <2>3
<1>9. ASSUME NEW q \in PlacesIn(G), ~(q[1] <= n \/ q[2] <= m)
      PROVE  /\ q[2] - m \in DOMAIN pl /\ from[q] = <<0, q[2] - m>>
             /\ Seen(G, q) = Fresh(pl, stamp, q[2] - m)
             /\ q = <<n + 1, m + (q[2] - m)>>
  <2>1. q[1] = n + 1
    BY <1>1, <1>7, <1>9
  <2>2. q[2] \in 1..(m + Len(pl))
    BY <1>4, <1>5, <1>6, <1>7, <2>1
  <2>. DEFINE k == q[2] - m
  <2>3. k \in 1..Len(pl) /\ q[2] = m + k
    <3>. DEFINE N == Len(pl)
                x == q[2]
    <3>1. N \in Nat /\ m \in Nat /\ x \in 1..(m + N) /\ ~(x <= m)
      BY <1>1, <1>2, <1>9, <2>2
    <3>. HIDE DEF N, x
    <3>2. x - m \in 1..N /\ x = m + (x - m)
      BY <3>1
    <3>. QED
      BY <3>2 DEF N, x
  <2>4. from[q] = <<0, k>>
    BY <1>9 DEF from
  <2>. HIDE DEF k
  <2>5. /\ new.points[q[2]] = moved[k] /\ Same(moved[k], pl[k])
        /\ new.beg + moved[k].curvature = stamp + pl[k].curvature
    BY <1>3, <1>4, <1>6, <2>3
  <2>6. Seen(G, q) = Fresh(pl, stamp, k)
    BY <1>5, <2>1, <2>5 DEF Seen, SeenAt, Fresh, Same
  <2>. QED
    BY <1>2, <1>7, <2>1, <2>3, <2>4, <2>6 DEF k
<1>10. \A q \in PlacesIn(G) :
         \/ from[q] \in PlacesIn(E) /\ Seen(G, q) = Seen(E, from[q])
         \/ \E k \in DOMAIN pl : from[q] = <<0, k>> /\ Seen(G, q) = Fresh(pl, stamp, k)
  <2>1. ASSUME NEW q \in PlacesIn(G)
        PROVE  \/ from[q] \in PlacesIn(E) /\ Seen(G, q) = Seen(E, from[q])
               \/ \E k \in DOMAIN pl : from[q] = <<0, k>> /\ Seen(G, q) = Fresh(pl, stamp, k)
    <3>1. CASE q[1] <= n \/ q[2] <= m
      BY <1>8, <3>1
    <3>2. CASE ~(q[1] <= n \/ q[2] <= m)
      BY <1>9, <3>2
    <3>. QED
      BY <3>1, <3>2
  <2>. QED
    BY <2>1
<1>11. \A q, r \in PlacesIn(G) : q # r => from[q] # from[r]
  <2>. DEFINE Stays(q) == q[1] <= n \/ q[2] <= m
  <2>1. ASSUME NEW q \in PlacesIn(G), NEW r \in PlacesIn(G), q # r PROVE from[q] # from[r]
    <3>1. CASE Stays(q) /\ Stays(r)
      BY <1>8, <2>1, <3>1
    <3>2. CASE ~Stays(q) /\ ~Stays(r)
      <4>1. from[q][2] = q[2] - m /\ from[r][2] = r[2] - m
        BY <1>9, <3>2
      <4>2. q = <<n + 1, m + (q[2] - m)>> /\ r = <<n + 1, m + (r[2] - m)>>
        BY <1>9, <3>2
      <4>. HIDE DEF Stays
      <4>. QED
        BY <2>1, <4>1, <4>2
    <3>3. ASSUME NEW x \in PlacesIn(G), NEW y \in PlacesIn(G), Stays(x), ~Stays(y)
          PROVE  from[x] # from[y]
      <4>1. from[x][1] \in 1..(n + 1)
        BY <1>7, <1>8, <3>3
      <4>2. from[y][1] = 0
        BY <1>9, <3>3
      <4>. QED
        BY <1>1, <4>1, <4>2
    <3>. HIDE DEF Stays
    <3>. QED
      BY <2>1, <3>1, <3>2, <3>3
  <2>. QED
    BY <2>1
<1>12. Sound(E, c - 1, Kind)
  BY DEF E, old
<1>14. ComeFrom(G, E, pl, stamp, from)
  BY <1>10, <1>11 DEF ComeFrom
<1>13. Sound(G, c, Kind)
  BY <1>12, <1>14, MovesKeep
<1>. QED
  BY <1>13 DEF G, new

(* What is left when the first frame is taken                              *)
LEMMA TailSound ==
    ASSUME NEW C, NEW F \in Seq(FramesOf(C)), F # <<>>, NEW n \in Nat, NEW type, Sound(F, n, type)
    PROVE  Sound(Tail(F), n, type)
<1>. DEFINE G == Tail(F)
            on(q) == <<q[1] + 1, q[2]>>
<1>1. /\ Len(F) \in Nat \ {0} /\ DOMAIN F = 1..Len(F) /\ DOMAIN G = 1..(Len(F) - 1)
      /\ \A f \in 1..(Len(F) - 1) : G[f] = F[f + 1]
  BY HeadTailProperties, EmptySeq, LenProperties
<1>. HIDE DEF G
<1>2. ASSUME NEW q \in PlacesIn(G)
      PROVE  /\ on(q) \in PlacesIn(F) /\ Seen(G, q) = Seen(F, on(q))
             /\ q = <<on(q)[1] - 1, on(q)[2]>>
  <2>1. q = <<q[1], q[2]>> /\ q[1] \in 1..(Len(F) - 1) /\ q[2] \in DOMAIN G[q[1]].points
    BY <1>1, PlacesAre
  <2>2. q[1] + 1 \in DOMAIN F /\ G[q[1]] = F[q[1] + 1] /\ q[1] + 1 - 1 = q[1]
    BY <1>1, <2>1
  <2>3. on(q)[1] = q[1] + 1 /\ on(q)[2] = q[2]
    OBVIOUS
  <2>4. <<q[1] + 1, q[2]>> \in PlacesIn(F)
    BY <2>1, <2>2, PlacesAre
  <2>. QED
    BY <2>1, <2>2, <2>3, <2>4 DEF Seen
<1>. HIDE DEF on
<1>3. ASSUME NEW q \in PlacesIn(G), NEW r \in PlacesIn(G)
      PROVE  /\ Exact(Seen(G, q), type) /\ Seen(G, q).scan \in 1..n
             /\ Agree(Seen(G, q), Seen(G, r), type)
             /\ q # r => <<Seen(G, q).scan, Seen(G, q).num>> # <<Seen(G, r).scan, Seen(G, r).num>>
  <2>1. q # r => on(q) # on(r)
    BY <1>2
  <2>. QED
    BY <1>2, <2>1 DEF Sound
<1>4. Sound(G, n, type)
  BY <1>3 DEF Sound
<1>. QED
  BY <1>4 DEF G

LEMMA EmptyScan ==
    ASSUME NEW pl, NEW stamp, NEW c, FromScan(pl, stamp, c)
    PROVE  pl \in Seq(PointsOf({c})) /\ Len(pl) \in Nat /\ DOMAIN pl = 1..Len(pl)
BY LenProperties DEF FromScan, PointsOf

(* A frame of the scan as it is                                            *)
LEMMA OneSound ==
    ASSUME NEW C, NEW F \in Seq(FramesOf(C)), NEW c \in Nat \ {0}, Sound(F, c - 1, Kind),
           NEW pl, NEW stamp \in Int, FromScan(pl, stamp, c), NEW fr,
           fr = [beg |-> stamp, points |-> pl]
    PROVE  fr \in FramesOf({c}) /\ Sound(Append(F, fr), c, Kind)
<1>1. fr \in FramesOf({c})
  BY EmptyScan DEF FramesOf
<1>. DEFINE out == <<fr>>
            which == [q \in PlacesIn(out) |-> q[2]]
<1>2. out \in Seq(FramesOf({c})) /\ DOMAIN out = {1} /\ out[1] = fr
  BY <1>1
<1>3. Append(F, fr) = F \o out
  <2>. DEFINE S == FramesOf(C) \cup FramesOf({c})
  <2>1. F \in Seq(S) /\ fr \in S
    BY <1>1, SeqMonotonic
  <2>. HIDE DEF S
  <2>. QED
    BY <2>1, AppendIsConcat
<1>. HIDE DEF out
<1>4. ASSUME NEW q \in PlacesIn(out)
      PROVE  q = <<1, q[2]>> /\ q[2] \in DOMAIN pl /\ Seen(out, q) = Fresh(pl, stamp, q[2])
  <2>1. q = <<q[1], q[2]>> /\ q[1] = 1 /\ q[2] \in DOMAIN out[1].points
    BY <1>2, PlacesAre
  <2>2. out[1].points = pl
    BY <1>2
  <2>. QED
    BY <1>2, <2>1, <2>2 DEF Seen, Fresh
<1>5. /\ \A q \in PlacesIn(out) : which[q] \in DOMAIN pl /\ Seen(out, q) = Fresh(pl, stamp, which[q])
      /\ \A q, r \in PlacesIn(out) : q # r => which[q] # which[r]
  BY <1>4
<1>. HIDE DEF which
<1>6. Sound(F \o out, c, Kind)
  BY <1>2, <1>5, AddedSound
<1>. QED
  BY <1>1, <1>3, <1>6

(* Frames cut from the scan                                                *)
LEMMA CutSound ==
    ASSUME NEW C, NEW F \in Seq(FramesOf(C)), NEW c \in Nat \ {0}, Sound(F, c - 1, Kind),
           NEW pl, NEW stamp \in Int, FromScan(pl, stamp, c), NEW required \in Nat \ {0},
           NEW out, out = Cut(pl, stamp, required)
    PROVE  out \in Seq(FramesOf({c})) /\ Sound(F \o out, c, Kind)
<1>. DEFINE L == Len(pl)
            e(f) == Ends(f, L, required)
            which == [q \in PlacesIn(out) |-> e(q[1] - 1) + q[2] + 1]
<1>1. pl \in Seq(PointsOf({c})) /\ L \in Nat /\ DOMAIN pl = 1..L
  BY EmptyScan
<1>2. /\ L < 2 * required => out = <<>>
      /\ L >= 2 * required =>
           /\ out \in Seq(FramesOf({c})) /\ Len(out) = required
           /\ \A f \in 1..required : /\ Len(out[f].points) = e(f) - e(f - 1)
                                     /\ Holds(out[f].beg, out[f].points, e(f - 1), pl, stamp)
  <2>1. CutInto(out, pl, stamp, required, {c})
    BY <1>1, CutIs
  <2>. QED
    BY <2>1 DEF CutInto
<1>3. CASE L < 2 * required
  <2>1. out = <<>> /\ out \in Seq(FramesOf({c})) /\ PlacesIn(out) = {}
    BY <1>2, <1>3 DEF PlacesIn
  <2>. DEFINE none == [q \in PlacesIn(out) |-> 1]
  <2>. HIDE DEF none
  <2>2. /\ \A q \in PlacesIn(out) : none[q] \in DOMAIN pl /\ Seen(out, q) = Fresh(pl, stamp, none[q])
        /\ \A q, r \in PlacesIn(out) : q # r => none[q] # none[r]
    BY <2>1
  <2>3. out \in Seq(FramesOf({c}))
    BY <2>1
  <2>4. Sound(F \o out, c, Kind)
    BY <2>2, <2>3, AddedSound
  <2>. QED
    BY <2>3, <2>4
<1>4. CASE ~(L < 2 * required)
  <2>1. 2 * required <= L /\ L >= 2 * required
    BY <1>1, <1>4
  <2>2. out \in Seq(FramesOf({c})) /\ Len(out) = required /\ DOMAIN out = 1..required
    BY <1>2, <2>1, LenProperties
  <2>3. /\ e(required) = L - 1
        /\ \A f \in 0..required : e(f) \in 0..(L - 1)
        /\ \A f, g \in 0..required : f < g => e(f) < e(g)
    BY <1>1, <2>1, EndsAre
  <2>. HIDE DEF e
  <2>4. ASSUME NEW f \in 1..required
        PROVE  /\ DOMAIN out[f].points = 1..(e(f) - e(f - 1))
               /\ e(f) \in 0..(L - 1) /\ e(f - 1) \in 0..(L - 1) /\ e(f - 1) < e(f)
               /\ \A k \in DOMAIN out[f].points :
                     SeenAt(out[f], k) = Fresh(pl, stamp, e(f - 1) + k + 1)
    <3>1. out[f] \in FramesOf({c})
      BY <2>2, ElementOfSeq
    <3>2. out[f].points \in Seq(PointsOf({c}))
      BY <3>1 DEF FramesOf
    <3>3. DOMAIN out[f].points = 1..Len(out[f].points)
      BY <3>2, LenProperties
    <3>4. f - 1 \in 0..required /\ f \in 0..required /\ f - 1 < f
      OBVIOUS
    <3>5. Len(out[f].points) = e(f) - e(f - 1) /\ Holds(out[f].beg, out[f].points, e(f - 1), pl, stamp)
      BY <1>2, <2>1
    <3>6. ASSUME NEW k \in 1..Len(out[f].points)
          PROVE  SeenAt(out[f], k) = Fresh(pl, stamp, e(f - 1) + k + 1)
      BY <3>5 DEF Holds, Same, SeenAt, Fresh
    <3>. QED
      BY <2>3, <3>3, <3>4, <3>5, <3>6
  <2>5. ASSUME NEW q \in PlacesIn(out)
        PROVE  /\ q = <<q[1], q[2]>> /\ q[1] \in 1..required
               /\ q[2] \in Nat \ {0} /\ e(q[1] - 1) + q[2] <= e(q[1])
               /\ e(q[1]) \in Int /\ e(q[1] - 1) \in Int
               /\ which[q] = e(q[1] - 1) + q[2] + 1 /\ which[q] \in DOMAIN pl
               /\ Seen(out, q) = Fresh(pl, stamp, which[q])
    <3>1. q = <<q[1], q[2]>> /\ q[1] \in 1..required /\ q[2] \in DOMAIN out[q[1]].points
      BY <2>2, PlacesAre
    <3>. DEFINE f == q[1]
                k == q[2]
    <3>2. /\ k \in 1..(e(f) - e(f - 1)) /\ e(f) \in 0..(L - 1) /\ e(f - 1) \in 0..(L - 1)
          /\ SeenAt(out[f], k) = Fresh(pl, stamp, e(f - 1) + k + 1)
      BY <2>4, <3>1
    <3>3. which[q] = e(f - 1) + k + 1
      OBVIOUS
    <3>4. Seen(out, q) = SeenAt(out[f], k)
      BY DEF Seen
    <3>. HIDE DEF f, k, which
    <3>5. k \in Nat \ {0} /\ e(f - 1) + k <= e(f) /\ e(f) \in Int /\ e(f - 1) \in Int
          /\ e(f - 1) + k + 1 \in 1..L
      BY <1>1, <3>2
    <3>. QED
      BY <1>1, <3>1, <3>2, <3>3, <3>4, <3>5 DEF f, k
  <2>. HIDE DEF which
  <2>6. ASSUME NEW q \in PlacesIn(out), NEW r \in PlacesIn(out), q[1] < r[1]
        PROVE  which[q] < which[r]
    <3>. DEFINE f == q[1]
                g == r[1]
    <3>1. f \in 1..required /\ g \in 1..required /\ f < g /\ e(f) \in Int
      BY <2>5, <2>6
    <3>. HIDE DEF f, g
    <3>4. f \in 0..required /\ g - 1 \in 0..required /\ (f = g - 1 \/ f < g - 1)
      BY <3>1
    <3>2. e(f) <= e(g - 1)
      <4>1. CASE f = g - 1
        BY <3>1, <4>1
      <4>2. CASE f < g - 1
        <5>1. e(f) < e(g - 1) /\ e(g - 1) \in 0..(L - 1)
          BY <2>3, <3>4, <4>2
        <5>. QED
          BY <3>1, <5>1
      <4>. QED
        BY <3>4, <4>1, <4>2
    <3>. DEFINE a == e(q[1] - 1)
                b == e(q[1])
                d == e(r[1] - 1)
                i == q[2]
                k == r[2]
    <3>3. /\ a \in Int /\ b \in Int /\ d \in Int /\ i \in Nat /\ k \in Nat \ {0}
          /\ a + i <= b /\ b <= d /\ which[q] = a + i + 1 /\ which[r] = d + k + 1
      BY <2>5, <3>2 DEF f, g
    <3>. HIDE DEF a, b, d, i, k
    <3>. QED
      BY <3>3
  <2>7. ASSUME NEW q \in PlacesIn(out), NEW r \in PlacesIn(out), q # r PROVE which[q] # which[r]
    <3>1. q[1] \in Int /\ r[1] \in Int /\ which[q] \in Int /\ which[r] \in Int
      <4>1. /\ q[1] \in 1..required /\ r[1] \in 1..required
            /\ which[q] \in 1..L /\ which[r] \in 1..L
        BY <1>1, <2>5
      <4>. HIDE DEF L
      <4>. QED
        BY <4>1
    <3>2. CASE q[1] # r[1]
      <4>1. q[1] < r[1] \/ r[1] < q[1]
        BY <3>1, <3>2
      <4>2. which[q] < which[r] \/ which[r] < which[q]
        BY <2>6, <4>1
      <4>. QED
        BY <3>1, <4>2
    <3>3. CASE q[1] = r[1]
      <4>1. q[2] # r[2]
        BY <2>5, <2>7, <3>3
      <4>. DEFINE a == e(q[1] - 1)
                  i == q[2]
                  k == r[2]
      <4>2. /\ a \in Int /\ i \in Nat /\ k \in Nat /\ i # k
            /\ which[q] = a + i + 1 /\ which[r] = a + k + 1
        BY <2>5, <3>3, <4>1
      <4>. HIDE DEF a, i, k
      <4>. QED
        BY <4>2
    <3>. QED
      BY <3>2, <3>3
  <2>8. Sound(F \o out, c, Kind)
    <3>1. /\ \A q \in PlacesIn(out) : which[q] \in DOMAIN pl /\ Seen(out, q) = Fresh(pl, stamp, which[q])
          /\ \A q, r \in PlacesIn(out) : q # r => which[q] # which[r]
      BY <2>5, <2>7
    <3>2. out \in Seq(FramesOf({c}))
      BY <2>2
    <3>. QED
      BY <3>1, <3>2, AddedSound
  <2>. QED
    BY <2>2, <2>8
<1>. QED
  BY <1>3, <1>4

-----------------------------------------------------------------------------
(* The frames, the one that is being combined with them                    *)
Held == IF lidar.making = "combined"
        THEN Append(frames, [beg |-> time_con, points |-> ptr_con]) ELSE frames

PreInv ==
    /\ PreTypeOK /\ lidar.type \in LidarTypes /\ lidar.tick \in Ticks
    /\ Sound(Held, pre_count, Kind)
    /\ frame_ct = 0 => ptr_con = <<>>

LEMMA KindKept == ASSUME lidar' = lidar PROVE Kind' = Kind
BY DEF Kind, UnitsFit

LEMMA FramesAre ==
    /\ PointsOf(1..MaxPreScans) = PrePoint
    /\ FramesOf(1..MaxPreScans) = [beg : Int, points : Seq(PrePoint)]
<1>1. PointsOf(1..MaxPreScans) = PrePoint
  BY DEF PointsOf, PrePoint
<1>. QED
  BY <1>1 DEF FramesOf

LEMMA ScansAreKnown ==
    ASSUME NEW c \in 1..MaxPreScans
    PROVE  /\ PointsOf({c}) \subseteq PrePoint /\ FramesOf({c}) \subseteq FramesOf(1..MaxPreScans)
           /\ PointsOf(1..MaxPreScans) = PrePoint
           /\ FramesOf(1..MaxPreScans) = [beg : Int, points : Seq(PrePoint)]
<1>1. PointsOf({c}) \subseteq PrePoint /\ PointsOf(1..MaxPreScans) = PrePoint
  BY DEF PointsOf, PrePoint
<1>2. FramesOf(1..MaxPreScans) = [beg : Int, points : Seq(PrePoint)]
  BY <1>1 DEF FramesOf
<1>3. Seq(PointsOf({c})) \subseteq Seq(PrePoint)
  BY <1>1, SeqMonotonic
<1>. HIDE DEF PrePoint
<1>4. FramesOf({c}) \subseteq FramesOf(1..MaxPreScans)
  BY <1>1, <1>3 DEF FramesOf
<1>. QED
  BY <1>1, <1>2, <1>4

LEMMA PreBegins == ASSUME PreInit PROVE PreInv
<1>1. PreTypeOK /\ lidar.type \in LidarTypes /\ lidar.tick \in Ticks
  BY PreprocessAssumption DEF PreInit, PreTypeOK
<1>2. \A q \in PlacesIn(Held) : FALSE
  <2>1. ASSUME NEW q \in PlacesIn(Held) PROVE FALSE
    <3>1. q[1] \in DOMAIN Held /\ q[2] \in DOMAIN Held[q[1]].points
      BY PlacesAre
    <3>2. frames = <<>> /\ ptr_con = <<>>
      BY DEF PreInit
    <3>3. CASE lidar.making = "combined"
      <4>. DEFINE fr == [beg |-> time_con, points |-> ptr_con]
      <4>1. Held = <<fr>>
        BY <3>2, <3>3 DEF Held
      <4>2. DOMAIN Held = {1} /\ Held[1].points = <<>>
        BY <3>2, <4>1
      <4>. QED
        BY <3>1, <4>2
    <3>4. CASE lidar.making # "combined"
      BY <3>1, <3>2, <3>4 DEF Held
    <3>. QED
      BY <3>3, <3>4
  <2>. QED
    BY <2>1
<1>3. Sound(Held, pre_count, Kind)
  BY <1>2 DEF Sound
<1>. QED
  BY <1>1, <1>3 DEF PreInv, PreInit

(* The greatest of some numbers is one of them.                            *)
LEMMA LatestIsOne ==
    ASSUME NEW n \in Nat, NEW g, \A k \in 1..n : g[k] \in Int, NEW T, T = {g[k] : k \in 1..n}, T # {}
    PROVE  Latest(T) \in Int
<1>. DEFINE Good == {m \in Nat : m = 0 \/ \E i \in 1..m : \A k \in 1..m : g[i] >= g[k]}
<1>1. 0 \in Good
  OBVIOUS
<1>2. ASSUME NEW m \in 1..n, m - 1 \in Good PROVE m \in Good
  <2>1. CASE m = 1
    <3>1. \E i \in 1..m : \A k \in 1..m : g[i] >= g[k]
      <4>1. \A k \in 1..m : k = 1
        BY <2>1
      <4>2. g[1] \in Int /\ 1 \in 1..m
        BY <2>1
      <4>. QED
        BY <4>1, <4>2
    <3>. QED
      BY <3>1
  <2>2. CASE m # 1
    <3>1. PICK i \in 1..(m - 1) : \A k \in 1..(m - 1) : g[i] >= g[k]
      BY <1>2, <2>2
    <3>2. \A k \in 1..m : k \in 1..(m - 1) \/ k = m
      OBVIOUS
    <3>3. g[i] \in Int /\ g[m] \in Int /\ i \in 1..m /\ m \in 1..m /\ \A k \in 1..(m - 1) : g[k] \in Int
      OBVIOUS
    <3>4. CASE g[i] >= g[m]
      <4>1. \A k \in 1..m : g[i] >= g[k]
        BY <3>1, <3>2, <3>4
      <4>. QED
        BY <3>3, <4>1
    <3>5. CASE ~(g[i] >= g[m])
      <4>1. \A k \in 1..m : g[m] >= g[k]
        <5>1. ASSUME NEW k \in 1..m PROVE g[m] >= g[k]
          <6>1. CASE k = m
            BY <3>3, <6>1
          <6>2. CASE k \in 1..(m - 1)
            BY <3>1, <3>3, <3>5, <6>2
          <6>. QED
            BY <3>2, <6>1, <6>2
        <5>. QED
          BY <5>1
      <4>. QED
        BY <3>3, <4>1
    <3>. QED
      BY <3>4, <3>5
  <2>. QED
    BY <2>1, <2>2
<1>3. 0..n \subseteq Good
  <2>. HIDE DEF Good
  <2>. QED
    BY <1>1, <1>2, StepByStep
<1>4. n # 0 /\ n \in Good
  <2>1. n # 0
    <3>1. n = 0 => T = {}
      OBVIOUS
    <3>. QED
      BY <3>1
  <2>. HIDE DEF Good
  <2>2. n \in 0..n
    OBVIOUS
  <2>. QED
    BY <1>3, <2>1, <2>2
<1>5. PICK i \in 1..n : \A k \in 1..n : g[i] >= g[k]
  BY <1>4
<1>6. g[i] \in T /\ \A j \in T : g[i] >= j
  BY <1>5
<1>7. Latest(T) \in T
  BY <1>6 DEF Latest
<1>. QED
  BY <1>7

LEMMA BufferKeeps ==
    ASSUME PreInv, NEW ps \in Messages, Readable(ps), NEW stamp \in Nat, BufferScan(ps, stamp)
    PROVE  PreInv'
<1>. DEFINE c == pre_count + 1
            fr == [beg |-> stamp, points |-> pl_surf']
            F == FramesOf(1..MaxPreScans)
<1>1. /\ pre_count \in Nat /\ c \in 1..MaxPreScans /\ c \in Nat \ {0} /\ c - 1 = pre_count
      /\ pre_count' = c /\ last_stamp' = stamp /\ lidar' = lidar /\ lidar_end' = lidar_end
      /\ ptr_con' = ptr_con /\ frame_ct' = frame_ct /\ time_con' = time_con
      /\ lidar.making = "one"
  BY PreprocessAssumption DEF PreInv, PreTypeOK, BufferScan, Received
<1>2. FromScan(pl_surf', stamp, c)
  <2>1. FromScan(process(ps, stamp), stamp, pre_count + 1)
    BY <1>1, ProcessIs DEF PreInv
  <2>. QED
    BY <2>1 DEF BufferScan
<1>3. frames \in Seq(F) /\ Sound(frames, c - 1, Kind)
  BY <1>1, ScansAreKnown DEF PreInv, PreTypeOK, Held
<1>. DEFINE pl == pl_surf'
<1>. HIDE DEF c, pl
<1>4. pl \in Seq(PointsOf({c})) /\ Len(pl) \in Nat
  BY <1>2, EmptyScan DEF pl
<1>5. pl \in Seq(PrePoint)
  BY <1>1, <1>4, ScansAreKnown, SeqMonotonic
<1>6. frames' \in Seq(F) /\ Sound(frames', c, Kind)
  <2>1. CASE pl = <<>>
    <3>1. frames' = frames
      BY <2>1 DEF BufferScan, pl
    <3>2. Sound(frames, c, Kind)
      <4>1. c - 1 \in Nat /\ c \in Nat /\ c - 1 <= c
        BY <1>1
      <4>. QED
        BY <1>3, <4>1, FewerSound
    <3>. QED
      BY <1>3, <3>1, <3>2
  <2>2. CASE pl # <<>>
    <3>. DEFINE one == [beg |-> stamp, points |-> pl]
    <3>1. frames' = Append(frames, one)
      BY <2>2 DEF BufferScan, pl
    <3>. HIDE DEF one
    <3>2. one \in FramesOf({c}) /\ Sound(Append(frames, one), c, Kind)
      <4>1. stamp \in Int /\ c \in Nat \ {0} /\ one = [beg |-> stamp, points |-> pl]
        BY <1>1 DEF one
      <4>2. FromScan(pl, stamp, c)
        BY <1>2 DEF pl
      <4>. QED
        BY <1>3, <4>1, <4>2, OneSound, Zenon
    <3>3. one \in F
      BY <1>1, <3>2, ScansAreKnown
    <3>. HIDE DEF F
    <3>. QED
      BY <1>3, <3>1, <3>2, <3>3, AppendProperties
  <2>. QED
    BY <2>1, <2>2
<1>7. PreTypeOK'
  <2>1. frames' \in Seq([beg : Int, points : Seq(PrePoint)])
    BY <1>1, <1>6, ScansAreKnown
  <2>2. PreTypeOK /\ pre_count' \in 0..MaxPreScans
    BY <1>1 DEF PreInv
  <2>. QED
    BY <1>1, <1>5, <2>1, <2>2 DEF PreTypeOK, pl
<1>. QED
  BY <1>1, <1>6, <1>7, KindKept DEF PreInv, Held

LEMMA CutKeeps ==
    ASSUME PreInv, NEW ps \in Messages, Readable(ps), NEW stamp \in Nat, CutScan(ps, stamp)
    PROVE  /\ PreInv' /\ FromScan(pl_surf', stamp, pre_count + 1)
           /\ RequiredCuts \in Nat \ {0}
           /\ Cut(pl_surf', stamp, RequiredCuts) \in Seq(FramesOf({pre_count + 1}))
<1>. DEFINE c == pre_count + 1
            F == FramesOf(1..MaxPreScans)
            out == Cut(pl_surf', stamp, RequiredCuts)
<1>1. /\ pre_count \in Nat /\ c \in 1..MaxPreScans /\ c \in Nat \ {0} /\ c - 1 = pre_count
      /\ pre_count' = c /\ last_stamp' = stamp /\ lidar' = lidar /\ lidar_end' = lidar_end
      /\ ptr_con' = ptr_con /\ frame_ct' = frame_ct /\ time_con' = time_con
      /\ lidar.making = "cut"
  BY PreprocessAssumption DEF PreInv, PreTypeOK, CutScan, Received
<1>2. FromScan(pl_surf', stamp, c)
  <2>1. CASE ps = <<>>
    BY <2>1 DEF CutScan, FromScan
  <2>2. CASE ps # <<>>
    <3>1. FromScan(CutPoints(ps, stamp), stamp, pre_count + 1)
      BY <1>1, <2>2, CutPointsAre DEF PreInv
    <3>. QED
      BY <2>2, <3>1 DEF CutScan
  <2>. QED
    BY <2>1, <2>2
<1>3. frames \in Seq(F) /\ Sound(frames, c - 1, Kind)
  BY <1>1, ScansAreKnown DEF PreInv, PreTypeOK, Held
<1>4. RequiredCuts \in Nat \ {0}
  BY PreprocessAssumption DEF RequiredCuts
<1>5. frames' = frames \o out
  BY DEF CutScan
<1>. DEFINE pl == pl_surf'
            R == RequiredCuts
<1>. HIDE DEF c, pl, R, out
<1>6. out = Cut(pl, stamp, R) /\ R \in Nat \ {0} /\ FromScan(pl, stamp, c)
  BY <1>2, <1>4 DEF out, pl, R
<1>7. pl \in Seq(PointsOf({c})) /\ pl \in Seq(PrePoint)
  <2>1. pl \in Seq(PointsOf({c}))
    BY <1>6, EmptyScan
  <2>. QED
    BY <1>1, <2>1, ScansAreKnown, SeqMonotonic
<1>8. out \in Seq(FramesOf({c})) /\ Sound(frames \o out, c, Kind)
  <2>1. stamp \in Int /\ c \in Nat \ {0}
    BY <1>1
  <2>. QED
    BY <1>3, <1>6, <2>1, CutSound, Zenon
<1>9. frames' \in Seq(F)
  <2>1. out \in Seq(F)
    BY <1>1, <1>8, ScansAreKnown, SeqMonotonic
  <2>. HIDE DEF F
  <2>. QED
    BY <1>3, <1>5, <2>1, ConcatProperties
<1>10. PreTypeOK'
  <2>1. frames' \in Seq([beg : Int, points : Seq(PrePoint)])
    BY <1>1, <1>9, ScansAreKnown
  <2>2. PreTypeOK /\ pre_count' \in 0..MaxPreScans
    BY <1>1 DEF PreInv
  <2>. QED
    BY <1>1, <1>7, <2>1, <2>2 DEF PreTypeOK, pl
<1>11. PreInv'
  BY <1>1, <1>5, <1>8, <1>10, KindKept DEF PreInv, Held
<1>. QED
  BY <1>2, <1>4, <1>8, <1>11 DEF out, c

LEMMA EmptyBehind ==
    ASSUME NEW C, NEW F \in Seq(FramesOf(C)), NEW fr, fr.points = <<>>,
           NEW n \in Nat, NEW type, Sound(F, n, type)
    PROVE  Sound(Append(F, fr), n, type)
<1>. DEFINE G == Append(F, fr)
            S == FramesOf(C) \cup {fr}
<1>1. F \in Seq(S) /\ fr \in S
  BY SeqMonotonic
<1>. HIDE DEF S
<1>2. /\ G \in Seq(S) /\ Len(G) = Len(F) + 1 /\ Len(F) \in Nat
      /\ \A f \in 1..Len(F) : G[f] = F[f]
      /\ G[Len(F) + 1] = fr
      /\ DOMAIN G = 1..(Len(F) + 1) /\ DOMAIN F = 1..Len(F)
  BY <1>1, AppendProperties, LenProperties
<1>. HIDE DEF G
<1>3. ASSUME NEW q \in PlacesIn(G) PROVE q \in PlacesIn(F) /\ Seen(G, q) = Seen(F, q)
  <2>1. q = <<q[1], q[2]>> /\ q[1] \in 1..(Len(F) + 1) /\ q[2] \in DOMAIN G[q[1]].points
    BY <1>2, PlacesAre
  <2>2. q[1] # Len(F) + 1
    <3>1. q[1] = Len(F) + 1 => G[q[1]].points = <<>>
      BY <1>2
    <3>. QED
      BY <2>1, <3>1
  <2>3. q[1] \in 1..Len(F)
    BY <1>2, <2>1, <2>2
  <2>4. G[q[1]] = F[q[1]] /\ q[1] \in DOMAIN F
    BY <1>2, <2>3
  <2>5. <<q[1], q[2]>> \in PlacesIn(F)
    BY <2>1, <2>4, PlacesAre
  <2>. QED
    BY <2>1, <2>4, <2>5 DEF Seen
<1>4. n <= n
  OBVIOUS
<1>5. Sound(G, n, type)
  BY <1>3, <1>4, FewerSound, Zenon
<1>. QED
  BY <1>5 DEF G

LEMMA CombineKeeps ==
    ASSUME PreInv, NEW ps \in Messages, Readable(ps), NEW stamp \in Nat, CombineScan(ps, stamp)
    PROVE  PreInv'
<1>. DEFINE c == pre_count + 1
            F == FramesOf(1..MaxPreScans)
            P == PointsOf(1..MaxPreScans)
            old == [beg |-> time_con, points |-> ptr_con]
            pl == pl_surf'
            time == time_con'
            moved == [k \in DOMAIN pl |-> [pl[k] EXCEPT !.curvature = @ + stamp - time]]
<1>1. /\ pre_count \in Nat /\ c \in 1..MaxPreScans /\ c \in Nat \ {0} /\ c - 1 = pre_count
      /\ pre_count' = c /\ last_stamp' = stamp /\ lidar' = lidar /\ lidar_end' = lidar_end
      /\ lidar.making = "combined"
  BY PreprocessAssumption DEF PreInv, PreTypeOK, CombineScan, Received
<1>2. FromScan(pl, stamp, c)
  <2>1. FromScan(process(ps, stamp), stamp, pre_count + 1)
    BY <1>1, ProcessIs DEF PreInv
  <2>. QED
    BY <2>1 DEF CombineScan
<1>3. /\ frames \in Seq(F) /\ Sound(Append(frames, old), c - 1, Kind)
      /\ ptr_con \in Seq(P) /\ time_con \in Nat /\ frame_ct \in 0..ConFrames
      /\ frame_ct = 0 => ptr_con = <<>>
  BY <1>1, ScansAreKnown DEF PreInv, PreTypeOK, Held
<1>4. /\ time = IF frame_ct = 0 THEN stamp ELSE time_con
      /\ time \in Nat /\ (ptr_con # <<>> => time = time_con)
  BY <1>3 DEF CombineScan
<1>5. /\ frame_ct < ConFrames =>
            ptr_con' = ptr_con \o moved /\ frame_ct' = frame_ct + 1 /\ frames' = frames
      /\ ~(frame_ct < ConFrames) =>
            frames' = Append(frames, old) /\ ptr_con' = <<>> /\ frame_ct' = 0
  BY DEF CombineScan
<1>. HIDE DEF c, pl, time, moved
<1>6. Counted(moved, pl, stamp, time, c)
  <2>1. stamp \in Int /\ time \in Int
    BY <1>4
  <2>2. moved = [k \in DOMAIN pl |-> [pl[k] EXCEPT !.curvature = @ + stamp - time]]
    BY DEF moved
  <2>. QED
    BY <1>2, <2>1, <2>2, CountedIs
<1>7. pl \in Seq(PrePoint) /\ moved \in Seq(P)
  <2>1. pl \in Seq(PointsOf({c})) /\ moved \in Seq(PointsOf({c}))
    BY <1>2, <1>6, EmptyScan DEF Counted
  <2>2. PointsOf({c}) \subseteq PrePoint /\ P = PrePoint
    BY <1>1, ScansAreKnown
  <2>. HIDE DEF P
  <2>. QED
    BY <2>1, <2>2, SeqMonotonic
<1>8. CASE frame_ct < ConFrames
  <2>1. ptr_con' = ptr_con \o moved /\ frame_ct' = frame_ct + 1 /\ frames' = frames
    BY <1>5, <1>8
  <2>2. Sound(Append(frames, [beg |-> time, points |-> ptr_con \o moved]), c, Kind)
    <3>1. /\ stamp \in Int /\ time \in Int /\ time_con \in Int /\ c \in Nat \ {0}
          /\ (ptr_con # <<>> => time = time_con)
          /\ Sound(Append(frames, [beg |-> time_con, points |-> ptr_con]), c - 1, Kind)
      BY <1>1, <1>3, <1>4
    <3>. QED
      BY <1>2, <1>3, <1>6, <3>1, CombinedSound, Zenon
  <2>3. Held' = Append(frames, [beg |-> time, points |-> ptr_con \o moved])
    BY <1>1, <2>1 DEF Held, time
  <2>4. ptr_con' \in Seq(P)
    <3>. HIDE DEF P
    <3>. QED
      BY <1>3, <1>7, <2>1, ConcatProperties
  <2>5. frame_ct' \in 0..ConFrames /\ frame_ct' # 0
    BY PreprocessAssumption, <1>3, <1>8, <2>1
  <2>6. PreTypeOK'
    <3>1. ptr_con' \in Seq(PrePoint)
      BY <1>1, <2>4, ScansAreKnown
    <3>2. PreTypeOK /\ pre_count' \in 0..MaxPreScans /\ time_con' \in Nat
      BY <1>1, <1>4 DEF PreInv, time
    <3>. QED
      BY <1>1, <1>7, <2>1, <2>5, <3>1, <3>2 DEF PreTypeOK, pl
  <2>. QED
    BY <1>1, <2>2, <2>3, <2>5, <2>6, KindKept DEF PreInv
<1>9. CASE ~(frame_ct < ConFrames)
  <2>1. frames' = Append(frames, old) /\ ptr_con' = <<>> /\ frame_ct' = 0
    BY <1>5, <1>9
  <2>. DEFINE G == Append(frames, old)
              fr == [beg |-> time, points |-> <<>>]
  <2>2. old \in F
    BY <1>3 DEF FramesOf
  <2>3. G \in Seq(F) /\ Sound(G, c - 1, Kind)
    <3>. HIDE DEF F, old
    <3>. QED
      BY <1>3, <2>2, AppendProperties
  <2>4. Held' = Append(G, fr) /\ frames' = G
    BY <1>1, <2>1 DEF Held, time
  <2>. HIDE DEF G
  <2>5. Sound(G, c, Kind)
    <3>1. /\ c - 1 \in Nat /\ c \in Nat /\ c - 1 <= c
          /\ \A q \in PlacesIn(G) : q \in PlacesIn(G) /\ Seen(G, q) = Seen(G, q)
      BY <1>1
    <3>. QED
      BY <2>3, <3>1, FewerSound, Zenon
  <2>6. Sound(Append(G, fr), c, Kind)
    <3>1. fr.points = <<>> /\ c \in Nat
      BY <1>1
    <3>. HIDE DEF fr
    <3>. QED
      BY <2>3, <2>5, <3>1, EmptyBehind, Zenon
  <2>7. PreTypeOK'
    <3>1. frames' \in Seq([beg : Int, points : Seq(PrePoint)])
      BY <1>1, <2>3, <2>4, ScansAreKnown
    <3>2. PreTypeOK /\ pre_count' \in 0..MaxPreScans /\ time_con' \in Nat
      BY <1>1, <1>4 DEF PreInv, time
    <3>3. frame_ct' \in 0..ConFrames /\ ptr_con' \in Seq(PrePoint)
      BY <2>1, PreprocessAssumption
    <3>. QED
      BY <1>1, <1>7, <3>1, <3>2, <3>3 DEF PreTypeOK, pl
  <2>. QED
    BY <1>1, <2>1, <2>4, <2>6, <2>7, KindKept DEF PreInv
<1>. QED
  BY <1>8, <1>9

LEMMA DropKeeps == ASSUME PreInv, DropScan PROVE PreInv'
<1>1. /\ pre_count \in Nat /\ pre_count' = pre_count + 1 /\ pre_count' \in 0..MaxPreScans
      /\ UNCHANGED <<lidar, last_stamp, pl_surf, ptr_con, frame_ct, time_con, frames, lidar_end>>
  BY PreprocessAssumption DEF PreInv, PreTypeOK, DropScan
<1>2. PreTypeOK'
  BY <1>1 DEF PreInv, PreTypeOK
<1>3. Held' = Held
  BY <1>1 DEF Held
<1>4. Sound(Held, pre_count + 1, Kind)
  <2>1. /\ pre_count + 1 \in Nat /\ pre_count <= pre_count + 1 /\ Sound(Held, pre_count, Kind)
        /\ \A q \in PlacesIn(Held) : q \in PlacesIn(Held) /\ Seen(Held, q) = Seen(Held, q)
    BY <1>1 DEF PreInv
  <2>. QED
    BY <1>1, <2>1, FewerSound, Zenon
<1>. QED
  BY <1>1, <1>2, <1>3, <1>4, KindKept DEF PreInv

LEMMA HandOverKeeps == ASSUME PreInv, HandOver PROVE PreInv'
<1>. DEFINE F == FramesOf(1..MaxPreScans)
            last == [beg |-> time_con, points |-> ptr_con]
            f == Head(frames)
            T == {f.beg + f.points[k].curvature : k \in DOMAIN f.points}
<1>1. /\ frames # <<>> /\ frames' = Tail(frames)
      /\ lidar_end' = (IF T = {} THEN lidar_end ELSE Latest(T))
      /\ UNCHANGED <<lidar, pre_count, last_stamp, pl_surf, ptr_con, frame_ct, time_con>>
  BY DEF HandOver
<1>2. frames \in Seq(F) /\ F = [beg : Int, points : Seq(PrePoint)]
  BY FramesAre DEF PreInv, PreTypeOK
<1>3. frames' \in Seq(F) /\ f \in F
  <2>. HIDE DEF F
  <2>. QED
    BY <1>1, <1>2, HeadTailProperties
<1>. HIDE DEF F
<1>4. lidar_end' \in Int
  <2>1. CASE T = {}
    BY <1>1, <2>1 DEF PreInv, PreTypeOK
  <2>2. CASE T # {}
    <3>. DEFINE s == f.points
                g == [k \in DOMAIN s |-> f.beg + s[k].curvature]
    <3>. HIDE DEF f
    <3>1. f.beg \in Int /\ s \in Seq(PrePoint)
      BY <1>2, <1>3
    <3>2. Len(s) \in Nat /\ DOMAIN s = 1..Len(s) /\ \A k \in 1..Len(s) : s[k] \in PrePoint
      BY <3>1, ElementOfSeq, LenProperties
    <3>3. \A k \in 1..Len(s) : g[k] \in Int
      <4>1. \A x \in PrePoint : x.curvature \in Int
        BY DEF PrePoint
      <4>. QED
        BY <3>1, <3>2, <4>1
    <3>4. T = {g[k] : k \in 1..Len(s)}
      BY <3>2
    <3>. HIDE DEF g, s, T
    <3>5. Latest(T) \in Int
      BY <2>2, <3>2, <3>3, <3>4, LatestIsOne, Zenon
    <3>. QED
      BY <1>1, <2>2, <3>5
  <2>. QED
    BY <2>1, <2>2
<1>5. PreTypeOK'
  BY <1>1, <1>2, <1>3, <1>4 DEF PreInv, PreTypeOK
<1>6. Sound(Held', pre_count, Kind)
  <2>1. CASE lidar.making = "combined"
    <3>. DEFINE G == Append(frames, last)
    <3>1. Held = G /\ Held' = Append(frames', last)
      BY <1>1, <2>1 DEF Held
    <3>2. Tail(G) = Append(Tail(frames), last)
      BY <1>1, <1>2, HeadTailAppend
    <3>3. last \in F
      BY <1>2 DEF PreInv, PreTypeOK
    <3>. HIDE DEF last
    <3>4. G \in Seq(F) /\ G # <<>>
      BY <1>2, <3>3, AppendProperties, SMTT(40)
    <3>5. Sound(G, pre_count, Kind) /\ pre_count \in Nat
      BY <3>1 DEF PreInv, PreTypeOK
    <3>. HIDE DEF G
    <3>6. F = FramesOf(1..MaxPreScans)
      BY DEF F
    <3>7. Sound(Tail(G), pre_count, Kind)
      BY <3>4, <3>5, <3>6, TailSound
    <3>. QED
      BY <1>1, <3>1, <3>2, <3>7 DEF G
  <2>2. CASE lidar.making # "combined"
    <3>1. Held = frames /\ Held' = Tail(frames)
      BY <1>1, <2>2 DEF Held
    <3>2. Sound(frames, pre_count, Kind) /\ pre_count \in Nat
      BY <3>1 DEF PreInv, PreTypeOK
    <3>3. F = FramesOf(1..MaxPreScans)
      BY DEF F
    <3>4. Sound(Tail(frames), pre_count, Kind)
      BY <1>1, <1>2, <3>2, <3>3, TailSound
    <3>. QED
      BY <3>1, <3>4
  <2>. QED
    BY <2>1, <2>2
<1>. QED
  BY <1>1, <1>5, <1>6, KindKept DEF PreInv

LEMMA StampIs == ASSUME PreInv PROVE last_stamp + Turn * lidar.tick \in Nat
<1>1. last_stamp \in Nat /\ Turn \in Nat /\ lidar.tick \in Nat
  BY PreprocessAssumption DEF PreInv, PreTypeOK
<1>. DEFINE tick == lidar.tick
<1>. HIDE DEF tick
<1>2. Turn * tick \in Nat
  BY <1>1 DEF tick
<1>. QED
  BY <1>1, <1>2 DEF tick

LEMMA PreStep == ASSUME PreInv, [PreNext]_preVars PROVE PreInv'
<1>1. CASE \E ps \in {m \in Messages : Readable(m)} :
              LET stamp == last_stamp + Turn * lidar.tick
              IN  BufferScan(ps, stamp) \/ CutScan(ps, stamp) \/ CombineScan(ps, stamp)
  <2>. DEFINE stamp == last_stamp + Turn * lidar.tick
  <2>1. PICK ps \in Messages :
              /\ Readable(ps)
              /\ BufferScan(ps, stamp) \/ CutScan(ps, stamp) \/ CombineScan(ps, stamp)
    BY <1>1
  <2>2. stamp \in Nat
    BY StampIs
  <2>. HIDE DEF stamp
  <2>. QED
    BY <2>1, <2>2, BufferKeeps, CutKeeps, CombineKeeps
<1>2. CASE DropScan
  BY <1>2, DropKeeps
<1>3. CASE HandOver
  BY <1>3, HandOverKeeps
<1>4. CASE UNCHANGED preVars
  BY <1>4, KindKept DEF PreInv, PreTypeOK, Held, preVars
<1>. QED
  BY <1>1, <1>2, <1>3, <1>4 DEF PreNext

LEMMA SoundFrames == ASSUME PreInv PROVE FramesKeepTimes
<1>1. /\ frames \in Seq(FramesOf(1..MaxPreScans)) /\ Sound(Held, pre_count, Kind)
      /\ pre_count \in Nat
  <2>1. PreTypeOK /\ Sound(Held, pre_count, Kind)
    BY DEF PreInv
  <2>2. /\ frames \in Seq([beg : Int, points : Seq(PrePoint)])
        /\ pre_count \in 0..MaxPreScans
    BY <2>1 DEF PreTypeOK
  <2>3. pre_count \in Nat
    BY <2>2, PreprocessAssumption
  <2>. QED
    BY <2>1, <2>2, <2>3, FramesAre, Zenon
<1>2. Sound(frames, pre_count, Kind)
  <2>1. CASE lidar.making = "combined"
    <3>. DEFINE last == [beg |-> time_con, points |-> ptr_con]
                G == Append(frames, last)
                S == FramesOf(1..MaxPreScans) \cup {last}
    <3>1. Held = G
      BY <2>1 DEF Held
    <3>2. frames \in Seq(S) /\ last \in S
      BY <1>1, SeqMonotonic
    <3>. HIDE DEF S, last
    <3>3. /\ DOMAIN frames = 1..Len(frames) /\ DOMAIN G = 1..(Len(frames) + 1)
          /\ Len(frames) \in Nat
          /\ \A f \in 1..Len(frames) : G[f] = frames[f]
      BY <3>2, AppendProperties, LenProperties
    <3>. HIDE DEF G
    <3>4. ASSUME NEW q \in PlacesIn(frames) PROVE q \in PlacesIn(G) /\ Seen(frames, q) = Seen(G, q)
      <4>1. q = <<q[1], q[2]>> /\ q[1] \in 1..Len(frames) /\ q[2] \in DOMAIN frames[q[1]].points
        BY <3>3, PlacesAre
      <4>2. q[1] \in DOMAIN G /\ G[q[1]] = frames[q[1]]
        BY <3>3, <4>1
      <4>3. <<q[1], q[2]>> \in PlacesIn(G)
        BY <4>1, <4>2, PlacesAre
      <4>. QED
        BY <4>1, <4>2, <4>3 DEF Seen
    <3>5. pre_count <= pre_count /\ Sound(G, pre_count, Kind)
      BY <1>1, <3>1
    <3>. QED
      BY <1>1, <3>4, <3>5, FewerSound, Zenon
  <2>2. CASE lidar.making # "combined"
    BY <1>1, <2>2 DEF Held
  <2>. QED
    BY <2>1, <2>2
<1>3. Points = PlacesIn(frames)
  BY DEF Points, PlacesIn
<1>4. ASSUME NEW q
      PROVE  /\ Seen(frames, q).time = TimeOf(q) /\ Seen(frames, q).at = PointOf(q).at
             /\ Seen(frames, q).ring = PointOf(q).ring /\ Seen(frames, q).scan = PointOf(q).scan
             /\ Seen(frames, q).num = PointOf(q).num
  BY DEF Seen, SeenAt, TimeOf, PointOf
<1>0. UnitsFit => Kind = lidar.type /\ Kind # "unknown"
  BY DEF Kind, PreInv, LidarTypes
<1>5. ASSUME NEW q \in Points, UnitsFit, lidar.type \in {"AVIA", "OUST64"}
      PROVE  TimeOf(q) = PointOf(q).at
  <2>1. Exact(Seen(frames, q), Kind)
    BY <1>2, <1>3 DEF Sound
  <2>. QED
    BY <1>0, <1>4, <1>5, <2>1 DEF Exact
<1>6. ASSUME NEW q \in Points, NEW r \in Points
      PROVE  /\ UnitsFit /\ PointOf(q).scan = PointOf(r).scan /\ PointOf(q).ring = PointOf(r).ring =>
                   TimeOf(q) - TimeOf(r) = PointOf(q).at - PointOf(r).at
             /\ q # r => <<PointOf(q).scan, PointOf(q).num>> # <<PointOf(r).scan, PointOf(r).num>>
  <2>1. /\ Agree(Seen(frames, q), Seen(frames, r), Kind)
        /\ q # r => <<Seen(frames, q).scan, Seen(frames, q).num>>
                       # <<Seen(frames, r).scan, Seen(frames, r).num>>
    BY <1>2, <1>3 DEF Sound
  <2>. HIDE DEF Points
  <2>. QED
    BY <1>0, <1>4, <2>1 DEF Agree
<1>. QED
  BY <1>5, <1>6 DEF FramesKeepTimes

(* However scans become frames, and in whatever units a message gives its *)
(* times, points of one scan and ring lie as far apart in time as they     *)
(* were measured; of scans that process_cut_frame_pcl2 cuts, those whose   *)
(* unit and rate are what it takes them for.  None is there twice.         *)
THEOREM TimesAreKept == PreInit /\ [][PreNext]_preVars => []FramesKeepTimes
<1>1. PreInit => PreInv
  BY PreBegins
<1>2. PreInv /\ [PreNext]_preVars => PreInv'
  BY PreStep
<1>3. PreInv => FramesKeepTimes
  BY SoundFrames
<1>. QED
  BY <1>1, <1>2, <1>3, PTL

Joining(j, fs) ==
    j = [f \in 0..Len(fs) |-> IF f = 0 THEN <<>> ELSE j[f - 1] \o Numbers(fs[f].points)]

Beginnings(scan, required) ==
    [f \in 0..required |-> [i \in 1..Ends(f, Len(scan), required) |-> scan[i + 1].num]]

Prolong(scan, required, fs) ==
    \A f \in 1..required : Beginnings(scan, required)[f]
                              = Beginnings(scan, required)[f - 1] \o Numbers(fs[f].points)

LEMMA NumbersAre ==
    ASSUME NEW C, NEW pts \in Seq(PointsOf(C)), NEW n \in Nat, Len(pts) = n
    PROVE  /\ Numbers(pts) \in Seq(Nat) /\ Len(Numbers(pts)) = n
           /\ \A k \in 1..n : Numbers(pts)[k] = pts[k].num
<1>. DEFINE f == Numbers(pts)
<1>1. DOMAIN pts = 1..n /\ \A k \in 1..n : pts[k] \in PointsOf(C)
  BY LenProperties, ElementOfSeq
<1>2. \A k \in 1..n : pts[k].num \in Nat
  BY <1>1 DEF PointsOf
<1>3. f = [k \in 1..n |-> pts[k].num]
  BY <1>1 DEF Numbers
<1>4. f \in [1..n -> Nat]
  BY <1>2, <1>3
<1>. HIDE DEF f
<1>5. f \in Seq(Nat) /\ Len(f) = n
  BY <1>4, Listed
<1>6. \A k \in 1..n : f[k] = pts[k].num
  BY <1>3
<1>. QED
  BY <1>5, <1>6 DEF f

(* What is joined from the frames, one after the other                     *)
LEMMA NumbersJoin ==
    ASSUME NEW C, NEW scan \in Seq(PointsOf(C)), NEW stamp \in Int, NEW required \in Nat \ {0},
           2 * required <= Len(scan), NEW out, CutInto(out, scan, stamp, required, C)
    PROVE  Prolong(scan, required, out)
<1>. SUFFICES ASSUME NEW f \in 1..required
              PROVE  Beginnings(scan, required)[f]
                       = Beginnings(scan, required)[f - 1] \o Numbers(out[f].points)
  BY DEF Prolong
<1>. DEFINE L == Len(scan)
            p == out[f].points
            a == Ends(f - 1, L, required)
            b == Ends(f, L, required)
            t == Numbers(p)
            w == Beginnings(scan, required)
            W(g) == [i \in 1..Ends(g, L, required) |-> scan[i + 1].num]
<1>1. /\ L \in Nat /\ DOMAIN scan = 1..L /\ \A i \in 1..L : scan[i].num \in Nat
  <2>1. L \in Nat /\ DOMAIN scan = 1..L /\ \A i \in 1..L : scan[i] \in PointsOf(C)
    BY LenProperties, ElementOfSeq
  <2>2. \A q \in PointsOf(C) : q.num \in Nat
    BY DEF PointsOf
  <2>. QED
    BY <2>1, <2>2
<1>2. /\ f \in 0..required /\ f - 1 \in 0..required /\ f - 1 < f
  OBVIOUS
<1>3. a \in 0..(L - 1) /\ b \in 0..(L - 1) /\ a < b
  <2>. HIDE DEF L
  <2>1. /\ \A g \in 0..required : Ends(g, L, required) \in 0..(L - 1)
        /\ \A g, h \in 0..required : g < h => Ends(g, L, required) < Ends(h, L, required)
    BY <1>1, EndsAre DEF L
  <2>. QED
    BY <1>2, <2>1
<1>4. /\ out \in Seq(FramesOf(C)) /\ Len(out) = required /\ Len(p) = b - a
      /\ Holds(out[f].beg, p, a, scan, stamp)
  BY <1>1 DEF CutInto
<1>5. p \in Seq(PointsOf(C))
  <2>1. out[f] \in FramesOf(C)
    BY <1>4, ElementOfSeq
  <2>. QED
    BY <2>1 DEF FramesOf
<1>. HIDE DEF p, L
<1>6. w[f - 1] = W(f - 1) /\ w[f] = W(f)
  BY <1>2 DEF L, Beginnings
<1>. HIDE DEF a, b, w
<1>7. w[f - 1] = [i \in 1..a |-> scan[i + 1].num] /\ w[f] = [i \in 1..b |-> scan[i + 1].num]
  BY <1>6 DEF a, b
<1>. DEFINE u == w[f - 1]
            v == w[f]
<1>. HIDE DEF W, t, u, v
<1>8. a \in Nat /\ b \in Nat /\ b - a \in Nat
  BY <1>1, <1>3
<1>9. \A i \in 1..b : i + 1 \in 1..L
  BY <1>1, <1>3
<1>10. u \in [1..a -> Nat] /\ v \in [1..b -> Nat]
  <2>1. \A i \in 1..b : scan[i + 1].num \in Nat
    BY <1>1, <1>9
  <2>2. 1..a \subseteq 1..b
    BY <1>3
  <2>. QED
    BY <1>7, <2>1, <2>2 DEF u, v
<1>11. u \in Seq(Nat) /\ Len(u) = a /\ v \in Seq(Nat) /\ Len(v) = b
  BY <1>8, <1>10, Listed
<1>12. /\ t \in Seq(Nat) /\ Len(t) = b - a
       /\ \A k \in 1..(b - a) : t[k] = p[k].num
  BY <1>4, <1>5, <1>8, NumbersAre DEF t
<1>13. /\ u \o t \in Seq(Nat) /\ Len(u \o t) = a + (b - a)
       /\ \A i \in 1..a : (u \o t)[i] = u[i]
       /\ \A i \in 1..(b - a) : (u \o t)[a + i] = t[i]
  <2>1. Nat \cup Nat = Nat
    OBVIOUS
  <2>. DEFINE j == u \o t
  <2>2. /\ j \in Seq(Nat \cup Nat) /\ Len(j) = Len(u) + Len(t)
        /\ \A i \in 1..Len(u) : j[i] = u[i]
        /\ \A i \in 1..Len(t) : j[Len(u) + i] = t[i]
    <3>. DEFINE S == Nat
    <3>1. u \in Seq(S) /\ t \in Seq(S)
      BY <1>11, <1>12
    <3>. HIDE DEF S
    <3>2. /\ j \in Seq(S \cup S) /\ Len(j) = Len(u) + Len(t)
          /\ \A i \in 1..Len(u) : j[i] = u[i]
          /\ \A i \in 1..Len(t) : j[Len(u) + i] = t[i]
      BY <3>1, Concatenated
    <3>. QED
      BY <3>2 DEF S
  <2>. HIDE DEF j
  <2>3. /\ j \in Seq(Nat) /\ Len(j) = a + (b - a)
        /\ \A i \in 1..a : j[i] = u[i]
        /\ \A i \in 1..(b - a) : j[a + i] = t[i]
    BY <1>11, <1>12, <2>1, <2>2
  <2>. QED
    BY <2>3 DEF j
<1>. DEFINE j == u \o t
<1>. HIDE DEF j
<1>14. ASSUME NEW i \in 1..b PROVE v[i] = j[i]
  <2>1. v[i] = scan[i + 1].num
    BY <1>7 DEF v
  <2>2. CASE i <= a
    <3>1. i \in 1..a
      BY <1>8, <2>2
    <3>2. j[i] = u[i]
      BY <1>13, <3>1 DEF j
    <3>3. u[i] = scan[i + 1].num
      BY <1>7, <3>1 DEF u
    <3>. QED
      BY <2>1, <3>2, <3>3
  <2>3. CASE ~(i <= a)
    <3>. DEFINE k == i - a
    <3>1. k \in 1..(b - a) /\ a + k = i
      BY <1>8, <2>3
    <3>. HIDE DEF k
    <3>2. j[i] = t[k] /\ t[k] = p[k].num
      BY <1>12, <1>13, <3>1 DEF j
    <3>3. Same(p[k], scan[a + k + 1])
      BY <1>4, <3>1 DEF Holds
    <3>. QED
      BY <2>1, <3>1, <3>2, <3>3 DEF Same
  <2>. QED
    BY <2>2, <2>3
<1>15. j \in Seq(Nat) /\ Len(j) = b
  BY <1>8, <1>13 DEF j
<1>16. v = j
  BY <1>11, <1>14, <1>15, SeqEqual
<1>. QED
  BY <1>16 DEF j, u, v, t, p, w

LEMMA JoiningExists ==
    ASSUME NEW fs, Len(fs) \in Nat, NEW w, Joining(w, fs)
    PROVE  NumbersIn(fs) = w[Len(fs)]
<1>. DEFINE n == Len(fs)
<1>. DEFINE j == CHOOSE j : Joining(j, fs)
<1>1. Joining(j, fs) /\ NumbersIn(fs) = j[n]
  <2>1. Joining(j, fs)
    BY Zenon
  <2>2. NumbersIn(fs) = j[n]
    BY DEF NumbersIn, Joining
  <2>. QED
    BY <2>1, <2>2
<1>. HIDE DEF j, n
<1>2. n \in Nat
  BY DEF n
<1>. DEFINE Good == {f \in 0..n : j[f] = w[f]}
<1>3. \A f \in 0..n : j[f] = IF f = 0 THEN <<>> ELSE j[f - 1] \o Numbers(fs[f].points)
  BY <1>1, Zenon DEF Joining, n
<1>4. \A f \in 0..n : w[f] = IF f = 0 THEN <<>> ELSE w[f - 1] \o Numbers(fs[f].points)
  BY Zenon DEF Joining, n
<1>5. 0 \in Good
  <2>1. 0 \in 0..n
    BY <1>2
  <2>. QED
    BY <1>3, <1>4, <2>1
<1>6. ASSUME NEW f \in 1..n, f - 1 \in Good PROVE f \in Good
  <2>1. f \in 0..n /\ f # 0
    BY <1>2
  <2>2. j[f] = j[f - 1] \o Numbers(fs[f].points)
    BY <1>3, <2>1, Zenon
  <2>3. w[f] = w[f - 1] \o Numbers(fs[f].points)
    BY <1>4, <2>1, Zenon
  <2>4. j[f - 1] = w[f - 1]
    BY <1>6
  <2>. QED
    BY <2>1, <2>2, <2>3, <2>4
<1>7. 0..n \subseteq Good
  <2>. HIDE DEF Good
  <2>. QED
    BY <1>2, <1>5, <1>6, StepByStep
<1>8. n \in 0..n
  BY <1>2
<1>9. n \in Good
  BY <1>7, <1>8
<1>. QED
  BY <1>1, <1>9 DEF n

(* The frames of a scan hold all of it but its first point, in order.      *)
LEMMA CutNumbers ==
    ASSUME NEW C, NEW scan \in Seq(PointsOf(C)), NEW stamp \in Int, NEW required \in Nat \ {0},
           2 * required <= Len(scan), NEW out, CutInto(out, scan, stamp, required, C)
    PROVE  NumbersIn(out) = Numbers(Tail(scan))
<1>. DEFINE L == Len(scan)
            w == Beginnings(scan, required)
            t == Numbers(Tail(scan))
<1>1. L \in Nat /\ L >= 2 /\ scan # <<>>
  <2>1. L \in Nat /\ 2 * required <= L
    BY LenProperties
  <2>. HIDE DEF L
  <2>2. L >= 2
    BY <2>1
  <2>3. scan # <<>>
    <3>1. Len(<<>>) = 0
      OBVIOUS
    <3>. QED
      BY <2>2, <3>1 DEF L
  <2>. QED
    BY <2>1, <2>2, <2>3
<1>2. /\ Tail(scan) \in Seq(PointsOf(C)) /\ Len(Tail(scan)) = L - 1
      /\ \A i \in 1..(L - 1) : Tail(scan)[i] = scan[i + 1]
  BY <1>1, HeadTailProperties
<1>3. L - 1 \in Nat
  BY <1>1
<1>4. /\ t \in Seq(Nat) /\ Len(t) = L - 1
      /\ \A i \in 1..(L - 1) : t[i] = Tail(scan)[i].num
  BY <1>2, <1>3, NumbersAre
<1>5. Ends(0, L, required) = 0 /\ Ends(required, L, required) = L - 1
  <2>1. 2 * required <= L
    OBVIOUS
  <2>. HIDE DEF L
  <2>. QED
    BY <1>1, <2>1, EndsAre
<1>6. ASSUME NEW f \in 1..required PROVE w[f] = w[f - 1] \o Numbers(out[f].points)
  <2>1. Prolong(scan, required, out)
    BY NumbersJoin
  <2>. QED
    BY <2>1 DEF Prolong
<1>7. Len(out) = required
  BY <1>1 DEF CutInto
<1>. HIDE DEF t
<1>8. w[0] = <<>>
  <2>1. 0 \in 0..required
    OBVIOUS
  <2>2. w[0] = [i \in 1..Ends(0, L, required) |-> scan[i + 1].num]
    BY <2>1 DEF Beginnings
  <2>. HIDE DEF w
  <2>3. w[0] = [i \in 1..0 |-> scan[i + 1].num]
    BY <1>5, <2>2
  <2>. QED
    BY <2>3
<1>9. w[required] = t
  <2>1. required \in 0..required
    OBVIOUS
  <2>2. w[required] = [i \in 1..Ends(required, L, required) |-> scan[i + 1].num]
    BY <2>1 DEF Beginnings
  <2>. HIDE DEF w
  <2>. DEFINE v == w[required]
  <2>. HIDE DEF v
  <2>3. v = [i \in 1..(L - 1) |-> scan[i + 1].num]
    BY <1>5, <2>2 DEF v
  <2>4. \A i \in 1..(L - 1) : v[i] = t[i]
    BY <1>2, <1>4, <2>3
  <2>5. t \in [1..(L - 1) -> Nat]
    BY <1>4
  <2>6. v \in [1..(L - 1) -> Nat]
    BY <2>3, <2>4, <2>5
  <2>. HIDE DEF L
  <2>7. v \in Seq(Nat) /\ Len(v) = L - 1
    BY <1>3, <2>6, Listed
  <2>. QED
    BY <1>4, <2>4, <2>7, SeqEqual DEF v
<1>10. Joining(w, out)
  <2>1. \A f \in 0..required : w[f] = IF f = 0 THEN <<>> ELSE w[f - 1] \o Numbers(out[f].points)
    <3>. HIDE DEF w
    <3>1. ASSUME NEW f \in 0..required, f # 0 PROVE w[f] = w[f - 1] \o Numbers(out[f].points)
      <4>1. f \in 1..required
        BY <3>1
      <4>. QED
        BY <1>6, <4>1
    <3>. QED
      BY <1>8, <3>1
  <2>2. w = [f \in 0..required |-> w[f]]
    BY DEF Beginnings
  <2>. HIDE DEF w
  <2>. QED
    BY <1>7, <2>1, <2>2 DEF Joining
<1>. HIDE DEF w
<1>11. Len(out) \in Nat
  BY <1>7
<1>12. NumbersIn(out) = w[required]
  BY <1>7, <1>10, <1>11, JoiningExists
<1>. QED
  BY <1>9, <1>12 DEF t

(* What was appended                                                       *)
LEMMA NewOnes ==
    ASSUME NEW S, NEW s \in Seq(S), NEW t \in Seq(S)
    PROVE  SubSeq(s \o t, Len(s) + 1, Len(s \o t)) = t
<1>. DEFINE n == Len(s)
            m == Len(t)
            j == s \o t
            u == SubSeq(j, n + 1, n + m)
<1>1. /\ n \in Nat /\ m \in Nat /\ j \in Seq(S) /\ Len(j) = n + m
      /\ \A i \in 1..m : j[n + i] = t[i]
      /\ \A i \in 1..(n + m) : j[i] \in S
  <2>1. S \cup S = S
    OBVIOUS
  <2>2. /\ j \in Seq(S) /\ Len(j) = n + m /\ n \in Nat /\ m \in Nat
        /\ \A i \in 1..m : j[n + i] = t[i]
    BY <2>1, Concatenated
  <2>. HIDE DEF j, n, m
  <2>. QED
    BY <2>2, ElementOfSeq
<1>. HIDE DEF n, m, j
<1>2. \A i \in (n + 1)..(n + m) : j[i] \in S
  BY <1>1
<1>3. n + 1 \in Int /\ n + m \in Int
  BY <1>1
<1>. DEFINE a == n + 1
            b == n + m
<1>4. /\ u \in Seq(S) /\ Len(u) = (IF a <= b THEN b - a + 1 ELSE 0)
      /\ \A i \in 1..(b - a + 1) : u[i] = j[a + i - 1]
  <2>. HIDE DEF a, b
  <2>1. a \in Int /\ b \in Int /\ \A i \in a..b : j[i] \in S
    BY <1>2, <1>3 DEF a, b
  <2>2. u = SubSeq(j, a, b)
    BY DEF a, b
  <2>. HIDE DEF u
  <2>. QED
    BY <2>1, <2>2, SubSeqProperties
<1>. HIDE DEF u
<1>5. Len(u) = m /\ b - a + 1 = m
  BY <1>1, <1>4
<1>6. ASSUME NEW i \in 1..m PROVE u[i] = t[i]
  <2>1. a + i - 1 = n + i
    BY <1>1
  <2>2. u[i] = j[a + i - 1]
    BY <1>4, <1>5
  <2>. QED
    BY <1>1, <2>1, <2>2
<1>7. u = t
  BY <1>4, <1>5, <1>6, SeqEqual DEF m
<1>. QED
  BY <1>1, <1>7 DEF u, n, m, j

LEMMA CutStep ==
    ASSUME PreInv, NEW ps \in Messages, Readable(ps), NEW stamp \in Nat, CutScan(ps, stamp)
    PROVE  CutWhole
<1>. DEFINE c == pre_count + 1
            R == RequiredCuts
            pl == pl_surf'
            out == Cut(pl, stamp, R)
            new == SubSeq(frames', Len(frames) + 1, Len(frames'))
<1>1. /\ FromScan(pl, stamp, c) /\ R \in Nat \ {0} /\ out \in Seq(FramesOf({c}))
  BY CutKeeps
<1>2. c \in Nat \ {0} /\ c \in 1..MaxPreScans
  BY PreprocessAssumption DEF PreInv, PreTypeOK, CutScan, Received
<1>3. frames' = frames \o out
  BY DEF CutScan
<1>4. frames \in Seq(FramesOf(1..MaxPreScans))
  BY FramesAre DEF PreInv, PreTypeOK
<1>. HIDE DEF c, R, pl, out
<1>5. out \in Seq(FramesOf(1..MaxPreScans))
  BY <1>1, <1>2, ScansAreKnown, SeqMonotonic
<1>6. new = out
  BY <1>3, <1>4, <1>5, NewOnes
<1>. HIDE DEF new
<1>7. pl \in Seq(PointsOf({c})) /\ Len(pl) \in Nat
  <2>1. pl \in Seq(PointsOf({c}))
    BY <1>1, <1>2, EmptyScan
  <2>. QED
    BY <2>1, LenProperties
<1>8. CutInto(out, pl, stamp, R, {c})
  <2>1. stamp \in Int /\ out = Cut(pl, stamp, R)
    BY DEF out
  <2>. QED
    BY <1>1, <1>7, <2>1, CutIs
<1>9. CASE Len(pl) < 2 * R
  <2>1. new = <<>>
    BY <1>6, <1>8, <1>9 DEF CutInto
  <2>. QED
    BY <1>9, <2>1 DEF CutWhole, new, pl, R
<1>10. CASE ~(Len(pl) < 2 * R)
  <2>1. 2 * R <= Len(pl) /\ Len(pl) >= 2 * R
    BY <1>1, <1>7, <1>10
  <2>2. Len(out) = R
    BY <1>8, <2>1 DEF CutInto
  <2>3. NumbersIn(out) = Numbers(Tail(pl))
    <3>1. stamp \in Int
      OBVIOUS
    <3>. QED
      BY <1>1, <1>7, <1>8, <2>1, <3>1, CutNumbers
  <2>. QED
    BY <1>6, <1>10, <2>2, <2>3 DEF CutWhole, new, pl, R
<1>. QED
  BY <1>9, <1>10

(* Whatever the number of points and of frames, a scan that is cut is in   *)
(* its frames whole, but for its earliest point, and in order.             *)
THEOREM ScansAreCutWhole == PreInit /\ [][PreNext]_preVars => CutHoldsTheScan
<1>1. PreInit => PreInv
  BY PreBegins
<1>2. PreInv /\ [PreNext]_preVars => PreInv'
  BY PreStep
<1>3. PreInv /\ [PreNext]_preVars
        => [lidar.making = "cut" /\ last_stamp' # last_stamp => CutWhole]_preVars
  <2>. SUFFICES ASSUME PreInv, [PreNext]_preVars, lidar.making = "cut", last_stamp' # last_stamp
                PROVE  CutWhole
    OBVIOUS
  <2>1. PreNext
    BY DEF preVars
  <2>2. PICK ps \in {m \in Messages : Readable(m)} : CutScan(ps, last_stamp + Turn * lidar.tick)
    BY <2>1 DEF PreNext, BufferScan, CombineScan, DropScan, HandOver
  <2>3. last_stamp + Turn * lidar.tick \in Nat /\ ps \in Messages /\ Readable(ps)
    BY <2>2, StampIs
  <2>. QED
    BY <2>2, <2>3, CutStep
<1>. QED
  BY <1>1, <1>2, <1>3, PTL DEF CutHoldsTheScan

-----------------------------------------------------------------------------
(* Where a key was added to last.                                          *)
LEMMA LastInIs ==
    ASSUME NEW s \in Seq(Int), NEW key \in Range(s)
    PROVE  /\ LastIn(s, key) \in 1..Len(s) /\ s[LastIn(s, key)] = key
           /\ \A j \in 1..Len(s) : j > LastIn(s, key) => s[j] # key
<1>. DEFINE n == Len(s)
            S == {d \in 0..n : n - d \in 1..n /\ s[n - d] = key}
<1>1. n \in Nat /\ DOMAIN s = 1..n
  OBVIOUS
<1>2. S \subseteq Nat /\ S # {}
  <2>1. PICK i \in 1..n : s[i] = key
    BY <1>1 DEF Range
  <2>. DEFINE d == n - i
  <2>2. d \in 0..n /\ n - d = i
    BY <1>1
  <2>. HIDE DEF d
  <2>3. d \in S
    BY <2>1, <2>2
  <2>4. S \subseteq Nat
    BY <1>1
  <2>. QED
    BY <2>3, <2>4
<1>3. PICK d \in S : \A e \in S : d <= e
  BY <1>2, LeastExists
<1>4. n - d \in 1..n /\ s[n - d] = key /\ \A j \in 1..n : j > n - d => s[j] # key
  <2>1. ASSUME NEW j \in 1..n, j > n - d, s[j] = key PROVE FALSE
    <3>1. n - j \in S /\ n - j < d
      BY <1>1, <2>1
    <3>. QED
      BY <1>1, <1>3, <3>1, SMTT(40)
  <2>. QED
    BY <2>1
<1>5. \E i \in DOMAIN s : s[i] = key /\ \A j \in DOMAIN s : j > i => s[j] # key
  BY <1>1, <1>4
<1>. QED
  BY <1>1, <1>5 DEF LastIn

(* It is the only key added to last there.                                 *)
LEMMA LastInUnique ==
    ASSUME NEW s \in Seq(Int), NEW i \in 1..Len(s),
           \A j \in 1..Len(s) : j > i => s[j] # s[i]
    PROVE  LastIn(s, s[i]) = i
<1>1. s[i] \in Range(s)
  BY DEF Range
<1>2. /\ LastIn(s, s[i]) \in 1..Len(s) /\ s[LastIn(s, s[i])] = s[i]
      /\ \A j \in 1..Len(s) : j > LastIn(s, s[i]) => s[j] # s[i]
  BY <1>1, LastInIs
<1>. QED
  BY <1>2

(* The keys of s added to after this one was                               *)
Later(s, key) == {other \in Range(s) : LastIn(s, other) > LastIn(s, key)}

LEMMA LaterRanks ==
    ASSUME NEW s \in Seq(Int)
    PROVE  /\ IsFiniteSet(Range(s)) /\ Cardinality(Range(s)) \in Nat
           /\ \A key \in Range(s) : /\ IsFiniteSet(Later(s, key))
                                    /\ Cardinality(Later(s, key)) \in 0..(Cardinality(Range(s)) - 1)
           /\ \A a, b \in Range(s) : LastIn(s, a) > LastIn(s, b)
                                        <=> Cardinality(Later(s, a)) < Cardinality(Later(s, b))
           /\ \A a, b \in Range(s) : a = b \/ LastIn(s, a) > LastIn(s, b) \/ LastIn(s, b) > LastIn(s, a)
           /\ \A k \in 0..(Cardinality(Range(s)) - 1) :
                 \E key \in Range(s) : Cardinality(Later(s, key)) = k
<1>. DEFINE K == Range(s)
            last(key) == LastIn(s, key)
            R == {p \in K \X K : last(p[1]) > last(p[2])}
<1>1. ASSUME NEW key \in K PROVE last(key) \in Int /\ s[last(key)] = key
  BY LastInIs
<1>2. IsFiniteSet(K)
  <2>1. IsFiniteSet(1..Len(s)) /\ Len(s) \in Nat
    BY FS_Interval
  <2>2. s \in [1..Len(s) -> Range(s)]
    BY DEF Range
  <2>3. \A y \in K : \E x \in 1..Len(s) : s[x] = y
    BY DEF Range
  <2>4. s \in Surjection(1..Len(s), K)
    BY <2>2, <2>3 DEF Surjection
  <2>. QED
    BY <2>1, <2>4, FS_Surjection
<1>. HIDE DEF K, last
<1>3. \A a, b \in K : <<a, b>> \in R <=> last(a) > last(b)
  OBVIOUS
<1>4. \A key \in K : {y \in K : <<y, key>> \in R} = Later(s, key)
  BY <1>3 DEF Later, K, last
<1>. HIDE DEF R
<1>5. \A a, b \in K : a = b \/ last(a) > last(b) \/ last(b) > last(a)
  BY <1>1
<1>6. /\ \A x \in K : <<x, x>> \notin R
      /\ \A x, y, z \in K : <<x, y>> \in R /\ <<y, z>> \in R => <<x, z>> \in R
      /\ \A x, y \in K : x = y \/ <<x, y>> \in R \/ <<y, x>> \in R
  BY <1>1, <1>3, <1>5
<1>7. /\ Cardinality(K) \in Nat
      /\ \A x \in K : /\ IsFiniteSet(Later(s, x))
                      /\ Cardinality(Later(s, x)) \in 0..(Cardinality(K) - 1)
      /\ \A x, y \in K : <<x, y>> \in R <=> Cardinality(Later(s, x)) < Cardinality(Later(s, y))
      /\ \A k \in 0..(Cardinality(K) - 1) : \E x \in K : Cardinality(Later(s, x)) = k
  <2>. DEFINE before(x) == {y \in K : <<y, x>> \in R}
  <2>1. /\ Cardinality(K) \in Nat
        /\ \A x \in K : IsFiniteSet(before(x)) /\ Cardinality(before(x)) \in 0..(Cardinality(K) - 1)
        /\ \A x, y \in K : <<x, y>> \in R <=> Cardinality(before(x)) < Cardinality(before(y))
        /\ \A k \in 0..(Cardinality(K) - 1) : \E x \in K : Cardinality(before(x)) = k
    <3>1. Ranked(K, R)
      BY <1>2, <1>6, RanksAreTaken DEF Ordered
    <3>. QED
      BY <3>1, Zenon DEF Ranked, Preceding
  <2>2. \A x \in K : before(x) = Later(s, x)
    BY <1>4
  <2>. HIDE DEF before
  <2>. QED
    BY <2>1, <2>2
<1>. QED
  BY <1>2, <1>3, <1>5, <1>7 DEF K, last

(* Adding to a key makes it the latest, and every key that was later one   *)
(* place further back than before.                                         *)
LEMMA LaterAppend ==
    ASSUME NEW s \in Seq(Int), NEW x \in Int
    PROVE  LET t == Append(s, x)
           IN  /\ t \in Seq(Int) /\ Range(t) = Range(s) \cup {x}
               /\ Cardinality(Later(t, x)) = 0
               /\ \A y \in Range(s) \ {x} :
                     Cardinality(Later(t, y)) =
                         IF x \in Later(s, y) THEN Cardinality(Later(s, y))
                         ELSE Cardinality(Later(s, y)) + 1
<1>. DEFINE t == Append(s, x)
<1>1. /\ t \in Seq(Int) /\ Len(s) \in Nat /\ Len(t) = Len(s) + 1 /\ DOMAIN t = 1..Len(t)
      /\ DOMAIN s = 1..Len(s) /\ t[Len(t)] = x /\ \A i \in 1..Len(s) : t[i] = s[i]
  BY AppendProperties
<1>. HIDE DEF t
<1>2. Range(t) = Range(s) \cup {x}
  <2>1. 1..Len(t) = 1..Len(s) \cup {Len(t)}
    BY <1>1
  <2>. QED
    BY <1>1, <2>1 DEF Range
<1>3. LastIn(t, x) = Len(s) + 1
  <2>1. Len(t) \in 1..Len(t) /\ \A j \in 1..Len(t) : j > Len(t) => t[j] # t[Len(t)]
    BY <1>1
  <2>. QED
    BY <1>1, <2>1, LastInUnique
<1>4. ASSUME NEW y \in Range(s), y # x PROVE LastIn(t, y) = LastIn(s, y)
  <2>. DEFINE i == LastIn(s, y)
  <2>1. i \in 1..Len(s) /\ s[i] = y /\ \A j \in 1..Len(s) : j > i => s[j] # y
    BY LastInIs
  <2>. HIDE DEF i
  <2>2. i \in 1..Len(t) /\ t[i] = y /\ \A j \in 1..Len(t) : j > i => t[j] # t[i]
    <3>1. i \in 1..Len(t) /\ t[i] = y
      BY <1>1, <2>1
    <3>2. ASSUME NEW j \in 1..Len(t), j > i PROVE t[j] # y
      <4>1. CASE j = Len(t)
        BY <1>1, <1>4, <4>1
      <4>2. CASE j \in 1..Len(s)
        BY <1>1, <2>1, <3>2, <4>2
      <4>. QED
        BY <1>1, <4>1, <4>2
    <3>. QED
      BY <3>1, <3>2
  <2>3. LastIn(t, t[i]) = i
    BY <1>1, <2>2, LastInUnique
  <2>. QED
    BY <2>2, <2>3 DEF i
<1>5. \A y \in Range(s) : LastIn(s, y) \in 1..Len(s)
  BY LastInIs
<1>6. Later(t, x) = {}
  <2>1. \A y \in Range(t) : ~(LastIn(t, y) > LastIn(t, x))
    BY <1>1, <1>2, <1>3, <1>4, <1>5
  <2>. QED
    BY <2>1 DEF Later
<1>7. ASSUME NEW y \in Range(s) \ {x} PROVE Later(t, y) = Later(s, y) \cup {x}
  BY <1>1, <1>2, <1>3, <1>4, <1>5, <1>7 DEF Later
<1>8. ASSUME NEW y \in Range(s) \ {x}
      PROVE  Cardinality(Later(t, y)) = IF x \in Later(s, y) THEN Cardinality(Later(s, y))
                                        ELSE Cardinality(Later(s, y)) + 1
  <2>1. IsFiniteSet(Later(s, y))
    BY LaterRanks
  <2>2. CASE x \in Later(s, y)
    <3>1. Later(t, y) = Later(s, y)
      BY <1>7, <2>2
    <3>. QED
      BY <2>2, <3>1
  <2>3. CASE x \notin Later(s, y)
    BY <1>7, <2>1, <2>3, FS_AddElement
  <2>. QED
    BY <2>2, <2>3
<1>. QED
  BY <1>1, <1>2, <1>6, <1>8, FS_EmptySet DEF t

(* The list holds the keys of s in the order in which they were added to   *)
(* last, one less than capacity_ of them if there are as many.             *)
OrderOfUse(cache, s) ==
    /\ cache \in Seq(Int) /\ s \in Seq(Int)
    /\ Len(cache) = IF Cardinality(Range(s)) < capacity_ - 1 THEN Cardinality(Range(s)) ELSE capacity_ - 1
    /\ \A i \in 1..Len(cache) : cache[i] \in Range(s) /\ Cardinality(Later(s, cache[i])) = i - 1

(* The hash map's voxels are those of the list.                            *)
HeldInOrder(m, s) ==
    /\ OrderOfUse(m.cache, s)
    /\ DOMAIN m.grids = Range(m.cache)
    /\ \A key \in Range(m.cache) : m.grids[key] \in Seq(Int)

(* No key is in the list twice; those within it are those with fewer keys  *)
(* after them than it is long.                                             *)
LEMMA ListIsRanked ==
    ASSUME NEW cache, NEW s, OrderOfUse(cache, s)
    PROVE  /\ \A i, j \in 1..Len(cache) : cache[i] = cache[j] => i = j
           /\ IsFiniteSet(Range(cache)) /\ Cardinality(Range(cache)) = Len(cache)
           /\ \A key \in Range(s) : key \in Range(cache) <=> Cardinality(Later(s, key)) < Len(cache)
<1>1. /\ cache \in Seq(Int) /\ s \in Seq(Int) /\ Len(cache) \in Nat /\ DOMAIN cache = 1..Len(cache)
      /\ \A i \in 1..Len(cache) : cache[i] \in Range(s) /\ Cardinality(Later(s, cache[i])) = i - 1
  BY DEF OrderOfUse
<1>2. \A i, j \in 1..Len(cache) : cache[i] = cache[j] => i = j
  <2>1. ASSUME NEW i \in 1..Len(cache), NEW j \in 1..Len(cache), cache[i] = cache[j] PROVE i = j
    <3>1. i - 1 = j - 1
      BY <1>1, <2>1
    <3>. QED
      BY <1>1, <3>1
  <2>. QED
    BY <2>1
<1>3. IsFiniteSet(Range(cache)) /\ Cardinality(Range(cache)) = Len(cache)
  <2>1. cache \in [1..Len(cache) -> Range(cache)]
    BY <1>1 DEF Range
  <2>2. cache \in Injection(1..Len(cache), Range(cache))
    BY <1>2, <2>1 DEF Injection, IsInjective
  <2>3. \A y \in Range(cache) : \E x \in 1..Len(cache) : cache[x] = y
    BY <1>1 DEF Range
  <2>4. cache \in Bijection(1..Len(cache), Range(cache))
    BY <2>1, <2>2, <2>3 DEF Bijection, Surjection
  <2>5. ExistsBijection(1..Len(cache), Range(cache))
    BY <2>4 DEF ExistsBijection
  <2>6. IsFiniteSet(1..Len(cache)) /\ Cardinality(1..Len(cache)) = Len(cache)
    <3>. DEFINE n == Len(cache)
    <3>1. n \in Nat
      BY <1>1
    <3>. HIDE DEF n
    <3>2. IsFiniteSet(1..n) /\ Cardinality(1..n) = n
      BY <3>1, FS_Interval
    <3>. QED
      BY <3>2 DEF n
  <2>. QED
    BY <2>5, <2>6, FS_Bijection
<1>4. ASSUME NEW key \in Range(s)
      PROVE  key \in Range(cache) <=> Cardinality(Later(s, key)) < Len(cache)
  <2>1. /\ Cardinality(Later(s, key)) \in Nat
        /\ \A a, b \in Range(s) : Cardinality(Later(s, a)) \in Int
                                  /\ (a = b \/ LastIn(s, a) > LastIn(s, b) \/ LastIn(s, b) > LastIn(s, a))
        /\ \A a, b \in Range(s) : LastIn(s, a) > LastIn(s, b)
                                    <=> Cardinality(Later(s, a)) < Cardinality(Later(s, b))
    BY <1>1, LaterRanks
  <2>2. ASSUME key \in Range(cache) PROVE Cardinality(Later(s, key)) < Len(cache)
    <3>1. PICK i \in 1..Len(cache) : cache[i] = key
      BY <1>1, <2>2 DEF Range
    <3>. QED
      BY <1>1, <3>1
  <2>3. ASSUME Cardinality(Later(s, key)) < Len(cache) PROVE key \in Range(cache)
    <3>. DEFINE i == Cardinality(Later(s, key)) + 1
    <3>1. i \in 1..Len(cache) /\ i - 1 = Cardinality(Later(s, key))
      BY <1>1, <2>1, <2>3
    <3>. HIDE DEF i
    <3>2. cache[i] \in Range(s) /\ Cardinality(Later(s, cache[i])) = Cardinality(Later(s, key))
      BY <1>1, <3>1
    <3>3. cache[i] = key
      BY <2>1, <3>2
    <3>. QED
      BY <1>1, <3>1, <3>3 DEF Range
  <2>. QED
    BY <2>2, <2>3
<1>. QED
  BY <1>2, <1>3, <1>4

LEMMA Prepended ==
    ASSUME NEW S, NEW x \in S, NEW c \in Seq(S)
    PROVE  /\ <<x>> \o c \in Seq(S) /\ Len(<<x>> \o c) = Len(c) + 1 /\ (<<x>> \o c)[1] = x
           /\ \A i \in 2..(Len(c) + 1) : (<<x>> \o c)[i] = c[i - 1]
<1>1. <<x>> \in Seq(S) /\ Len(<<x>>) = 1 /\ <<x>>[1] = x /\ Len(c) \in Nat
  OBVIOUS
<1>. QED
  BY <1>1, ConcatProperties

LEMMA Removed ==
    ASSUME NEW S, NEW c \in Seq(S), NEW p \in 1..Len(c)
    PROVE  /\ RemoveAt(c, p) \in Seq(S) /\ Len(RemoveAt(c, p)) = Len(c) - 1
           /\ \A i \in 1..(Len(c) - 1) : RemoveAt(c, p)[i] = IF i < p THEN c[i] ELSE c[i + 1]
<1>. DEFINE a == SubSeq(c, 1, p - 1)
            b == SubSeq(c, p + 1, Len(c))
            n == Len(c)
<1>1. /\ a \in Seq(S) /\ Len(a) = p - 1 /\ \A i \in 1..(p - 1) : a[i] = c[i]
      /\ b \in Seq(S) /\ Len(b) = n - p /\ \A i \in 1..(n - p) : b[i] = c[i + p]
      /\ n \in Nat /\ p \in 1..n
  BY SMTT(40)
<1>. HIDE DEF a, b, n
<1>2. /\ a \o b \in Seq(S) /\ Len(a \o b) = Len(a) + Len(b)
      /\ \A i \in 1..(Len(a) + Len(b)) : (a \o b)[i] = IF i <= Len(a) THEN a[i] ELSE b[i - Len(a)]
  BY <1>1, ConcatProperties
<1>3. ASSUME NEW i \in 1..(n - 1) PROVE (a \o b)[i] = IF i < p THEN c[i] ELSE c[i + 1]
  <2>1. CASE i < p
    BY <1>1, <1>2, <2>1
  <2>2. CASE ~(i < p)
    <3>. DEFINE j == i - (p - 1)
    <3>1. j \in 1..(n - p) /\ j + p = i + 1 /\ (a \o b)[i] = b[j]
      BY <1>1, <1>2, <2>2
    <3>. HIDE DEF j
    <3>. QED
      BY <1>1, <2>2, <3>1
  <2>. QED
    BY <2>1, <2>2
<1>4. Len(a \o b) = n - 1
  BY <1>1, <1>2
<1>. QED
  BY <1>2, <1>3, <1>4 DEF RemoveAt, a, b, n

(* A key of the list is added to: it moves to the front.                   *)
LEMMA ListMoves ==
    ASSUME NEW cache, NEW s, OrderOfUse(cache, s), NEW p \in 1..Len(cache)
    PROVE  LET moved == <<cache[p]>> \o RemoveAt(cache, p)
           IN  OrderOfUse(moved, Append(s, cache[p])) /\ Range(moved) = Range(cache)
<1>. DEFINE x == cache[p]
            moved == <<x>> \o RemoveAt(cache, p)
            n == Len(cache)
            t == Append(s, x)
<1>1. /\ cache \in Seq(Int) /\ s \in Seq(Int) /\ n \in Nat /\ DOMAIN cache = 1..n /\ p \in 1..n
      /\ \A i \in 1..n : cache[i] \in Range(s) /\ Cardinality(Later(s, cache[i])) = i - 1
      /\ \A i \in 1..n : cache[i] \in Int
      /\ n = IF Cardinality(Range(s)) < capacity_ - 1 THEN Cardinality(Range(s)) ELSE capacity_ - 1
  BY DEF OrderOfUse
<1>2. /\ moved \in Seq(Int) /\ Len(moved) = n /\ DOMAIN moved = 1..n
      /\ \A i \in 1..n : moved[i] = IF i = 1 THEN x ELSE IF i - 1 < p THEN cache[i - 1] ELSE cache[i]
  <2>. DEFINE c == RemoveAt(cache, p)
  <2>1. /\ c \in Seq(Int) /\ Len(c) = n - 1
        /\ \A i \in 1..(n - 1) : c[i] = IF i < p THEN cache[i] ELSE cache[i + 1]
    BY <1>1, Removed
  <2>. HIDE DEF c
  <2>2. x \in Int
    BY <1>1
  <2>. HIDE DEF x
  <2>3. /\ <<x>> \o c \in Seq(Int) /\ Len(<<x>> \o c) = Len(c) + 1 /\ (<<x>> \o c)[1] = x
        /\ \A i \in 2..(Len(c) + 1) : (<<x>> \o c)[i] = c[i - 1]
    BY <2>1, <2>2, Prepended
  <2>. DEFINE d == <<x>> \o c
  <2>. HIDE DEF d, n
  <2>4. d \in Seq(Int) /\ Len(d) = n /\ d[1] = x /\ \A i \in 2..n : d[i] = c[i - 1]
    <3>1. Len(c) + 1 = n
      BY <1>1, <2>1
    <3>2. /\ d \in Seq(Int) /\ Len(d) = Len(c) + 1 /\ d[1] = x
          /\ \A i \in 2..(Len(c) + 1) : d[i] = c[i - 1]
      BY <2>3, Zenon DEF d
    <3>. HIDE DEF d
    <3>. QED
      BY <3>1, <3>2
  <2>5. ASSUME NEW i \in 1..n
        PROVE  d[i] = IF i = 1 THEN x ELSE IF i - 1 < p THEN cache[i - 1] ELSE cache[i]
    <3>1. i # 1 => i - 1 \in 1..(n - 1) /\ i \in 2..n /\ (i - 1) + 1 = i
      BY <1>1
    <3>. QED
      BY <2>1, <2>4, <3>1
  <2>6. DOMAIN d = 1..n
    BY <2>4
  <2>. QED
    BY <2>4, <2>5, <2>6 DEF c, d
<1>3. /\ t \in Seq(Int) /\ Range(t) = Range(s) \cup {x} /\ x \in Range(s)
      /\ Cardinality(Later(t, x)) = 0
      /\ \A y \in Range(s) \ {x} :
            Cardinality(Later(t, y)) = IF x \in Later(s, y) THEN Cardinality(Later(s, y))
                                       ELSE Cardinality(Later(s, y)) + 1
  BY <1>1, LaterAppend
<1>4. \A i, j \in 1..n : cache[i] = cache[j] => i = j
  BY ListIsRanked
<1>5. \A i \in 1..n : x \in Later(s, cache[i]) <=> p < i
  <2>1. \A a, b \in Range(s) : LastIn(s, a) > LastIn(s, b)
                                 <=> Cardinality(Later(s, a)) < Cardinality(Later(s, b))
    BY <1>1, LaterRanks
  <2>2. ASSUME NEW i \in 1..n PROVE x \in Later(s, cache[i]) <=> p < i
    <3>1. x \in Later(s, cache[i]) <=> Cardinality(Later(s, x)) < Cardinality(Later(s, cache[i]))
      BY <1>1, <1>3, <2>1 DEF Later
    <3>. QED
      BY <1>1, <3>1
  <2>. QED
    BY <2>2
<1>. HIDE DEF moved, t, n, x
<1>6. ASSUME NEW i \in 1..n PROVE moved[i] \in Range(t) /\ Cardinality(Later(t, moved[i])) = i - 1
  <2>1. CASE i = 1
    BY <1>1, <1>2, <1>3, <2>1
  <2>2. CASE i # 1 /\ i - 1 < p
    <3>1. i - 1 \in 1..n /\ i - 1 # p /\ ~(p < i - 1)
      BY <1>1, <2>2
    <3>2. cache[i - 1] # x /\ x \notin Later(s, cache[i - 1])
      BY <1>1, <1>4, <1>5, <3>1 DEF x
    <3>3. cache[i - 1] \in Range(s) /\ Cardinality(Later(s, cache[i - 1])) = (i - 1) - 1
      BY <1>1, <3>1
    <3>4. Cardinality(Later(t, cache[i - 1])) = ((i - 1) - 1) + 1
      BY <1>3, <3>2, <3>3
    <3>5. moved[i] = cache[i - 1]
      BY <1>2, <2>2
    <3>6. Cardinality(Later(t, moved[i])) = i - 1
      BY <3>4, <3>5
    <3>. QED
      BY <1>3, <3>3, <3>5, <3>6
  <2>3. CASE i # 1 /\ ~(i - 1 < p)
    <3>1. i # p /\ p < i
      BY <1>1, <2>3
    <3>2. cache[i] # x /\ x \in Later(s, cache[i])
      BY <1>1, <1>4, <1>5, <3>1 DEF x
    <3>. QED
      BY <1>1, <1>2, <1>3, <2>3, <3>2
  <2>. QED
    BY <2>1, <2>2, <2>3
<1>7. Range(moved) = Range(cache)
  <2>1. ASSUME NEW i \in 1..n PROVE moved[i] \in Range(cache)
    <3>1. \A j \in 1..n : cache[j] \in Range(cache)
      BY <1>1 DEF Range
    <3>2. i # 1 => i - 1 \in 1..n
      BY <1>1
    <3>. QED
      BY <1>1, <1>2, <3>1, <3>2 DEF x
  <2>2. ASSUME NEW j \in 1..n PROVE cache[j] \in Range(moved)
    <3>1. \A i \in 1..n : moved[i] \in Range(moved)
      BY <1>2 DEF Range
    <3>2. CASE j = p
      <4>1. cache[j] = moved[1] /\ 1 \in 1..n
        BY <1>1, <1>2, <3>2 DEF x
      <4>. QED
        BY <3>1, <4>1
    <3>3. CASE j < p
      <4>1. j + 1 \in 1..n /\ j + 1 # 1 /\ (j + 1) - 1 < p /\ (j + 1) - 1 = j
        BY <1>1, <3>3
      <4>. QED
        BY <1>2, <3>1, <4>1
    <3>4. CASE j > p
      <4>1. j # 1 /\ ~(j - 1 < p)
        BY <1>1, <3>4
      <4>. QED
        BY <1>2, <3>1, <4>1
    <3>. QED
      BY <1>1, <3>2, <3>3, <3>4
  <2>. QED
    BY <1>1, <1>2, <2>1, <2>2 DEF Range
<1>8. Range(t) = Range(s)
  BY <1>3
<1>. QED
  BY <1>1, <1>2, <1>3, <1>6, <1>7, <1>8 DEF OrderOfUse, moved, t, x

(* A key that is not in the list is added to: it comes to the front, and   *)
(* every key of the list is one place further back.                        *)
LEMMA OthersMoveBack ==
    ASSUME NEW cache, NEW s, OrderOfUse(cache, s), NEW x \in Int, x \notin Range(cache)
    PROVE  LET longer == <<x>> \o cache
               t == Append(s, x)
           IN  /\ longer \in Seq(Int) /\ Len(longer) = Len(cache) + 1 /\ t \in Seq(Int)
               /\ Range(longer) = Range(cache) \cup {x} /\ Range(t) = Range(s) \cup {x}
               /\ longer[1] = x /\ \A i \in 2..Len(longer) : longer[i] = cache[i - 1]
               /\ \A i \in 1..Len(longer) : /\ longer[i] \in Range(t)
                                            /\ Cardinality(Later(t, longer[i])) = i - 1
<1>. DEFINE longer == <<x>> \o cache
            n == Len(cache)
            t == Append(s, x)
<1>1. /\ cache \in Seq(Int) /\ s \in Seq(Int) /\ n \in Nat /\ DOMAIN cache = 1..n
      /\ \A i \in 1..n : cache[i] \in Range(s) /\ Cardinality(Later(s, cache[i])) = i - 1
      /\ \A i \in 1..n : cache[i] \in Range(cache)
  <2>1. cache \in Seq(Int) /\ s \in Seq(Int) /\ n \in Nat /\ DOMAIN cache = 1..n
    BY DEF OrderOfUse
  <2>2. \A i \in 1..n : cache[i] \in Range(s) /\ Cardinality(Later(s, cache[i])) = i - 1
    BY DEF OrderOfUse
  <2>. QED
    BY <2>1, <2>2 DEF Range
<1>2. /\ longer \in Seq(Int) /\ Len(longer) = n + 1 /\ longer[1] = x
      /\ \A i \in 2..(n + 1) : longer[i] = cache[i - 1]
  BY <1>1, Prepended
<1>3. /\ t \in Seq(Int) /\ Range(t) = Range(s) \cup {x}
      /\ Cardinality(Later(t, x)) = 0
      /\ \A y \in Range(s) \ {x} :
            Cardinality(Later(t, y)) = IF x \in Later(s, y) THEN Cardinality(Later(s, y))
                                       ELSE Cardinality(Later(s, y)) + 1
  BY <1>1, LaterAppend
<1>. HIDE DEF longer, t, n
<1>4. \A y \in Range(cache) : y \in Range(s) /\ y # x /\ x \notin Later(s, y)
  <2>1. ASSUME NEW y \in Range(cache), x \in Later(s, y) PROVE FALSE
    <3>1. x \in Range(s) /\ y \in Range(s) /\ LastIn(s, x) > LastIn(s, y)
      BY <1>1, <2>1 DEF Later, Range
    <3>2. /\ Cardinality(Later(s, x)) < Cardinality(Later(s, y))
          /\ Cardinality(Later(s, x)) \in Int /\ Cardinality(Later(s, y)) \in Int
      BY <1>1, <3>1, LaterRanks
    <3>3. Cardinality(Later(s, y)) < n /\ ~(Cardinality(Later(s, x)) < n)
      BY <2>1, <3>1, ListIsRanked DEF n
    <3>. QED
      BY <1>1, <3>2, <3>3
  <2>. QED
    BY <1>1, <2>1 DEF Range
<1>5. ASSUME NEW i \in 1..(n + 1)
      PROVE  longer[i] \in Range(t) /\ Cardinality(Later(t, longer[i])) = i - 1
  <2>1. CASE i = 1
    BY <1>1, <1>2, <1>3, <2>1
  <2>2. CASE i # 1
    <3>1. i - 1 \in 1..n /\ i \in 2..(n + 1)
      BY <1>1, <2>2
    <3>2. longer[i] = cache[i - 1] /\ cache[i - 1] \in Range(cache)
      BY <1>1, <1>2, <3>1
    <3>3. Cardinality(Later(t, cache[i - 1])) = Cardinality(Later(s, cache[i - 1])) + 1
      BY <1>3, <1>4, <3>2
    <3>4. Cardinality(Later(s, cache[i - 1])) = (i - 1) - 1
      BY <1>1, <3>1
    <3>5. Cardinality(Later(t, cache[i - 1])) = i - 1
      BY <1>1, <3>1, <3>3, <3>4
    <3>. QED
      BY <1>3, <1>4, <3>2, <3>5
  <2>. QED
    BY <2>1, <2>2
<1>6. Range(longer) = Range(cache) \cup {x}
  <2>1. DOMAIN longer = 1..(n + 1)
    BY <1>2
  <2>2. \A i \in 1..(n + 1) : i = 1 \/ (i - 1 \in 1..n /\ i \in 2..(n + 1))
    BY <1>1
  <2>3. \A j \in 1..n : j + 1 \in 2..(n + 1) /\ (j + 1) - 1 = j
    BY <1>1
  <2>4. 1 \in 1..(n + 1) /\ \A i \in 2..(n + 1) : i \in 1..(n + 1)
    BY <1>1
  <2>5. ASSUME NEW i \in 1..(n + 1) PROVE longer[i] \in Range(cache) \cup {x}
    BY <1>1, <1>2, <2>2
  <2>6. ASSUME NEW j \in 1..n PROVE cache[j] \in Range(longer)
    <3>1. longer[j + 1] = cache[j] /\ j + 1 \in DOMAIN longer
      BY <1>2, <2>1, <2>3, <2>4
    <3>. QED
      BY <3>1 DEF Range
  <2>7. x \in Range(longer)
    BY <1>2, <2>1, <2>4 DEF Range
  <2>. QED
    BY <1>1, <2>1, <2>5, <2>6, <2>7 DEF Range
<1>. QED
  BY <1>2, <1>3, <1>5, <1>6 DEF longer, t, n

(* It is one of the last Len(cache) + 1 then, or the last leaves the list. *)
LEMMA ListGrows ==
    ASSUME NEW cache, NEW s, OrderOfUse(cache, s), NEW x \in Int, x \notin Range(cache),
           Len(cache) + 1 < capacity_
    PROVE  OrderOfUse(<<x>> \o cache, Append(s, x))
<1>. DEFINE longer == <<x>> \o cache
            t == Append(s, x)
            n == Len(cache)
            N == Cardinality(Range(s))
<1>1. /\ longer \in Seq(Int) /\ Len(longer) = n + 1 /\ t \in Seq(Int)
      /\ Range(t) = Range(s) \cup {x}
      /\ \A i \in 1..Len(longer) : longer[i] \in Range(t) /\ Cardinality(Later(t, longer[i])) = i - 1
  BY OthersMoveBack
<1>2. /\ n \in Nat /\ N \in Nat /\ IsFiniteSet(Range(s)) /\ s \in Seq(Int) /\ capacity_ \in Nat
      /\ n = IF N < capacity_ - 1 THEN N ELSE capacity_ - 1
  BY LocalMapAssumption, LaterRanks DEF OrderOfUse
<1>3. n = N /\ n < capacity_ - 1
  <2>. HIDE DEF n, N
  <2>. QED
    BY <1>2 DEF n
<1>4. x \notin Range(s)
  <2>1. ASSUME x \in Range(s) PROVE FALSE
    <3>1. Cardinality(Later(s, x)) \in 0..(N - 1) /\ ~(Cardinality(Later(s, x)) < n)
      BY <1>2, <2>1, LaterRanks, ListIsRanked
    <3>. QED
      BY <1>2, <1>3, <3>1
  <2>. QED
    BY <2>1
<1>5. Cardinality(Range(t)) = N + 1
  BY <1>1, <1>2, <1>4, FS_AddElement, ZenonT(40)
<1>6. Len(longer) = IF Cardinality(Range(t)) < capacity_ - 1 THEN Cardinality(Range(t)) ELSE capacity_ - 1
  <2>. HIDE DEF n, N
  <2>. QED
    BY <1>1, <1>2, <1>3, <1>5
<1>. HIDE DEF longer, t
<1>. QED
  BY <1>1, <1>6 DEF OrderOfUse, longer, t

LEMMA ListShifts ==
    ASSUME NEW cache, NEW s, OrderOfUse(cache, s), NEW x \in Int, x \notin Range(cache),
           ~(Len(cache) + 1 < capacity_)
    PROVE  LET longer == <<x>> \o cache
           IN  OrderOfUse(Front(longer), Append(s, x)) /\ Range(Front(longer)) = Range(longer) \ {Last(longer)}
<1>. DEFINE longer == <<x>> \o cache
            t == Append(s, x)
            n == Len(cache)
            N == Cardinality(Range(s))
<1>1. /\ longer \in Seq(Int) /\ Len(longer) = n + 1 /\ t \in Seq(Int) /\ DOMAIN longer = 1..(n + 1)
      /\ Range(t) = Range(s) \cup {x}
      /\ \A i \in 1..(n + 1) : longer[i] \in Range(t) /\ Cardinality(Later(t, longer[i])) = i - 1
  BY OthersMoveBack
<1>2. /\ n \in Nat /\ N \in Nat /\ IsFiniteSet(Range(s)) /\ s \in Seq(Int) /\ capacity_ \in Nat \ {0}
      /\ n = IF N < capacity_ - 1 THEN N ELSE capacity_ - 1
  BY LocalMapAssumption, LaterRanks DEF OrderOfUse
<1>3. n = capacity_ - 1 /\ ~(N < capacity_ - 1)
  <2>. HIDE DEF n, N
  <2>. QED
    BY <1>2 DEF n
<1>4. Cardinality(Range(t)) \in Nat /\ Cardinality(Range(t)) >= N
  <2>1. Cardinality(Range(t)) = N \/ Cardinality(Range(t)) = N + 1
    BY <1>1, <1>2, FS_AddElement, ZenonT(40)
  <2>. QED
    BY <1>2, <2>1
<1>5. n = IF Cardinality(Range(t)) < capacity_ - 1 THEN Cardinality(Range(t)) ELSE capacity_ - 1
  <2>. HIDE DEF n, N
  <2>. QED
    BY <1>2, <1>3, <1>4
<1>. HIDE DEF longer, t, n
<1>6. /\ Front(longer) \in Seq(Int) /\ Len(Front(longer)) = n /\ DOMAIN Front(longer) = 1..n
      /\ \A i \in 1..n : Front(longer)[i] = longer[i]
  <2>1. Front(longer) = SubSeq(longer, 1, n)
    BY <1>1, <1>2 DEF Front
  <2>. QED
    BY <1>1, <1>2, <2>1
<1>7. OrderOfUse(Front(longer), t)
  BY <1>1, <1>2, <1>5, <1>6 DEF OrderOfUse
<1>8. Range(Front(longer)) = Range(longer) \ {Last(longer)}
  <2>1. Last(longer) = longer[n + 1] /\ n + 1 \in 1..(n + 1)
    BY <1>1, <1>2 DEF Last
  <2>2. ASSUME NEW i \in 1..n PROVE longer[i] # longer[n + 1]
    <3>1. i - 1 # (n + 1) - 1 /\ i \in 1..(n + 1)
      BY <1>2
    <3>. QED
      BY <1>1, <2>1, <3>1
  <2>3. \A i \in 1..(n + 1) : i \in 1..n \/ i = n + 1
    BY <1>2
  <2>4. \A i \in 1..n : i \in 1..(n + 1)
    BY <1>2
  <2>5. Range(Front(longer)) = {longer[i] : i \in 1..n}
    BY <1>6 DEF Range
  <2>6. Range(longer) = {longer[i] : i \in 1..(n + 1)}
    BY <1>1 DEF Range
  <2>7. {longer[i] : i \in 1..(n + 1)} = {longer[i] : i \in 1..n} \cup {longer[n + 1]}
    BY <2>1, <2>3, <2>4
  <2>. QED
    BY <2>1, <2>2, <2>5, <2>6, <2>7
<1>. QED
  BY <1>7, <1>8 DEF longer, t

LEMMA KeyIsNumber == \A p \in Int : Pos2Grid(p) \in Int
  BY LocalMapAssumption DEF Pos2Grid

LEMMA AddPointKeeps ==
    ASSUME NEW m, NEW s, HeldInOrder(m, s), NEW p \in Int
    PROVE  HeldInOrder(AddPoint(m, p), Append(s, Pos2Grid(p)))
<1>. DEFINE x == Pos2Grid(p)
            r == AddPoint(m, p)
            cache == m.cache
            n == Len(cache)
            grids == [k \in DOMAIN m.grids \cup {x} |-> IF k = x THEN <<p>> ELSE m.grids[k]]
            longer == <<x>> \o cache
<1>1. /\ OrderOfUse(cache, s) /\ DOMAIN m.grids = Range(cache)
      /\ \A key \in Range(cache) : m.grids[key] \in Seq(Int)
  BY DEF HeldInOrder
<1>2. x \in Int /\ cache \in Seq(Int) /\ n \in Nat /\ DOMAIN cache = 1..n /\ capacity_ \in Nat
      /\ <<p>> \in Seq(Int)
  <2>1. x \in Int /\ <<p>> \in Seq(Int) /\ capacity_ \in Nat
    BY KeyIsNumber, LocalMapAssumption
  <2>. HIDE DEF x
  <2>. QED
    BY <1>1, <2>1 DEF OrderOfUse
<1>3. CASE x \in Range(cache)
  <2>. DEFINE q == CHOOSE i \in DOMAIN cache : cache[i] = x
              moved == <<x>> \o RemoveAt(cache, q)
  <2>1. q \in 1..n /\ cache[q] = x
    <3>1. \E i \in DOMAIN cache : cache[i] = x
      BY <1>3 DEF Range
    <3>. QED
      BY <1>2, <3>1
  <2>2. r = [cache |-> moved, grids |-> [m.grids EXCEPT ![x] = Append(@, p)]]
    BY <1>1, <1>3 DEF AddPoint
  <2>. HIDE DEF q, moved, x
  <2>3. OrderOfUse(moved, Append(s, x)) /\ Range(moved) = Range(cache)
    BY <1>1, <2>1, ListMoves DEF moved
  <2>4. \A key \in Range(cache) : [m.grids EXCEPT ![x] = Append(@, p)][key] \in Seq(Int)
    <3>1. \A g \in Seq(Int) : Append(g, p) \in Seq(Int)
      BY AppendProperties
    <3>. QED
      BY <1>1, <1>3, <3>1
  <2>5. r.cache = moved /\ r.grids = [m.grids EXCEPT ![x] = Append(@, p)]
    BY <2>2
  <2>. QED
    BY <1>1, <2>3, <2>4, <2>5 DEF HeldInOrder, x
<1>4. CASE x \notin Range(cache)
  <2>1. r = IF Cardinality(DOMAIN grids) < capacity_ THEN [cache |-> longer, grids |-> grids]
            ELSE [cache |-> Front(longer), grids |-> [k \in DOMAIN grids \ {Last(longer)} |-> grids[k]]]
    BY <1>1, <1>4 DEF AddPoint
  <2>2. /\ DOMAIN grids = Range(cache) \cup {x} /\ \A key \in DOMAIN grids : grids[key] \in Seq(Int)
        /\ Cardinality(DOMAIN grids) = n + 1
    <3>1. DOMAIN grids = Range(cache) \cup {x}
      BY <1>1
    <3>2. \A key \in DOMAIN grids : grids[key] \in Seq(Int)
      BY <1>1, <1>2
    <3>3. IsFiniteSet(Range(cache)) /\ Cardinality(Range(cache)) = n
      BY <1>1, ListIsRanked
    <3>4. Cardinality(Range(cache) \cup {x}) = n + 1
      BY <1>4, <3>3, FS_AddElement
    <3>. QED
      BY <3>1, <3>2, <3>4
  <2>3. Range(longer) = Range(cache) \cup {x}
    BY <1>1, <1>2, <1>4, OthersMoveBack
  <2>. HIDE DEF grids, longer, x, n
  <2>4. CASE n + 1 < capacity_
    <3>1. r.cache = longer /\ r.grids = grids
      BY <2>1, <2>2, <2>4
    <3>2. OrderOfUse(longer, Append(s, x))
      BY <1>1, <1>2, <1>4, <2>4, ListGrows DEF longer, n
    <3>. QED
      BY <2>2, <2>3, <3>1, <3>2 DEF HeldInOrder, x
  <2>5. CASE ~(n + 1 < capacity_)
    <3>1. r.cache = Front(longer) /\ r.grids = [k \in DOMAIN grids \ {Last(longer)} |-> grids[k]]
      BY <2>1, <2>2, <2>5
    <3>2. OrderOfUse(Front(longer), Append(s, x)) /\ Range(Front(longer)) = Range(longer) \ {Last(longer)}
      BY <1>1, <1>2, <1>4, <2>5, ListShifts DEF longer, n
    <3>. QED
      BY <2>2, <2>3, <3>1, <3>2 DEF HeldInOrder, x
  <2>. QED
    BY <2>4, <2>5
<1>. QED
  BY <1>3, <1>4

(* Point by point.                                                         *)
LEMMA AllPointsKeep ==
    ASSUME NEW start, NEW s, HeldInOrder(start, s), NEW points_to_add \in Seq(Int), NEW m,
           m[0] = start,
           \A n \in 1..Len(points_to_add) : m[n] = AddPoint(m[n - 1], points_to_add[n])
    PROVE  HeldInOrder(m[Len(points_to_add)], s \o [i \in DOMAIN points_to_add |-> Pos2Grid(points_to_add[i])])
<1>. DEFINE N == Len(points_to_add)
            keys == [i \in DOMAIN points_to_add |-> Pos2Grid(points_to_add[i])]
            upto(n) == s \o SubSeq(keys, 1, n)
            Good == {n \in 0..N : HeldInOrder(m[n], upto(n))}
<1>1. /\ N \in Nat /\ DOMAIN points_to_add = 1..N /\ keys \in Seq(Int) /\ Len(keys) = N
      /\ s \in Seq(Int) /\ \A n \in 1..N : points_to_add[n] \in Int
      /\ \A n \in 1..N : keys[n] = Pos2Grid(points_to_add[n])
  <2>1. N \in Nat /\ DOMAIN points_to_add = 1..N /\ \A n \in 1..N : points_to_add[n] \in Int
    OBVIOUS
  <2>2. keys \in Seq(Int) /\ Len(keys) = N
    BY <2>1, KeyIsNumber
  <2>. QED
    BY <2>1, <2>2 DEF HeldInOrder, OrderOfUse
<1>. HIDE DEF N, keys
<1>2. 0 \in Good
  <2>1. SubSeq(keys, 1, 0) = <<>>
    BY <1>1
  <2>2. s \o <<>> = s
    BY <1>1, ConcatEmptySeq
  <2>3. upto(0) = s
    BY <2>1, <2>2
  <2>. HIDE DEF upto
  <2>. QED
    BY <1>1, <2>3
<1>3. ASSUME NEW n \in 1..N, n - 1 \in Good PROVE n \in Good
  <2>1. m[n] = AddPoint(m[n - 1], points_to_add[n]) /\ n \in 0..N
    BY <1>1 DEF N
  <2>2. upto(n) = Append(upto(n - 1), Pos2Grid(points_to_add[n]))
    <3>1. SubSeq(keys, 1, n) = Append(SubSeq(keys, 1, n - 1), keys[n])
      BY <1>1
    <3>2. /\ SubSeq(keys, 1, n - 1) \in Seq(Int) /\ keys[n] \in Int
          /\ SubSeq(keys, 1, n) \in Seq(Int)
      BY <1>1
    <3>3. \A a \in Seq(Int), x \in Int : s \o Append(a, x) = Append(s \o a, x)
      <4>1. ASSUME NEW a \in Seq(Int), NEW x \in Int PROVE s \o Append(a, x) = Append(s \o a, x)
        <5>1. /\ s \o a \in Seq(Int) /\ <<x>> \in Seq(Int)
              /\ Append(a, x) = a \o <<x>> /\ Append(s \o a, x) = (s \o a) \o <<x>>
          <6>1. s \o a \in Seq(Int)
            BY <1>1, ConcatProperties
          <6>2. Append(a, x) = a \o <<x>>
            BY AppendIsConcat
          <6>3. Append(s \o a, x) = (s \o a) \o <<x>>
            BY <6>1, AppendIsConcat
          <6>. QED
            BY <6>1, <6>2, <6>3
        <5>2. (s \o a) \o <<x>> = s \o (a \o <<x>>)
          <6>. DEFINE S == Int
                      b == <<x>>
          <6>1. s \in Seq(S) /\ a \in Seq(S) /\ b \in Seq(S)
            BY <1>1, <5>1
          <6>. HIDE DEF S, b
          <6>2. (s \o a) \o b = s \o (a \o b)
            BY <6>1, ConcatAssociative, SMTT(20)
          <6>. QED
            BY <6>2 DEF b
        <5>. QED
          BY <5>1, <5>2, Zenon
      <4>. QED
        BY <4>1
    <3>. QED
      BY <1>1, <3>1, <3>2, <3>3
  <2>3. HeldInOrder(m[n - 1], upto(n - 1))
    BY <1>3
  <2>. HIDE DEF upto
  <2>4. HeldInOrder(AddPoint(m[n - 1], points_to_add[n]), Append(upto(n - 1), Pos2Grid(points_to_add[n])))
    BY <1>1, <2>3, AddPointKeeps
  <2>. QED
    BY <2>1, <2>2, <2>4
<1>. HIDE DEF Good
<1>4. 0..N \subseteq Good
  BY <1>1, <1>2, <1>3, StepByStep
<1>5. HeldInOrder(m[N], upto(N))
  BY <1>1, <1>4 DEF Good
<1>6. SubSeq(keys, 1, N) = keys
  BY <1>1
<1>. QED
  BY <1>5, <1>6 DEF N, keys

(* The function AddPoints takes its last value from exists.                *)
AddingFrom(m, start, points_to_add) ==
    m = [n \in 0..Len(points_to_add) |->
            IF n = 0 THEN start ELSE AddPoint(m[n - 1], points_to_add[n])]

LEMMA AddingExists ==
    ASSUME NEW start, NEW points_to_add \in Seq(Int)
    PROVE  \E m : AddingFrom(m, start, points_to_add)
<1>. DEFINE N == Len(points_to_add)
            next(f, n) == IF n = 0 THEN start ELSE AddPoint(f[n - 1], points_to_add[n])
            Good == {k \in 0..N : \E f : f = [n \in 0..k |-> next(f, n)]}
<1>1. N \in Nat
  OBVIOUS
<1>. HIDE DEF N
<1>2. 0 \in Good
  <2>. DEFINE f == [n \in 0..0 |-> start]
  <2>1. \A n \in 0..0 : next(f, n) = start
    OBVIOUS
  <2>. HIDE DEF next
  <2>2. f = [n \in 0..0 |-> next(f, n)]
    BY <2>1
  <2>. QED
    BY <1>1, <2>2
<1>3. ASSUME NEW k \in 1..N, k - 1 \in Good PROVE k \in Good
  <2>1. PICK f : f = [n \in 0..(k - 1) |-> next(f, n)]
    BY <1>3
  <2>. DEFINE g == [n \in 0..k |-> next(f, n)]
  <2>2. \A n \in 0..(k - 1) : n \in 0..k
    BY <1>1
  <2>3. \A n \in 0..(k - 1) : f[n] = next(f, n)
    <3>. HIDE DEF next
    <3>. QED
      BY <2>1
  <2>4. \A n \in 0..(k - 1) : g[n] = f[n]
    <3>. HIDE DEF next
    <3>. QED
      BY <2>2, <2>3
  <2>5. \A n \in 0..k : next(g, n) = next(f, n)
    <3>1. ASSUME NEW n \in 0..k, n # 0 PROVE g[n - 1] = f[n - 1]
      <4>1. n - 1 \in 0..(k - 1)
        BY <1>1, <3>1
      <4>. HIDE DEF g
      <4>. QED
        BY <2>4, <4>1
    <3>. HIDE DEF g
    <3>. QED
      BY <3>1
  <2>6. g = [n \in 0..k |-> next(g, n)]
    <3>. HIDE DEF next
    <3>. QED
      BY <2>5
  <2>7. k \in 0..N
    BY <1>1
  <2>. HIDE DEF g, next
  <2>. QED
    BY <2>6, <2>7
<1>4. N \in Good
  <2>. HIDE DEF Good
  <2>1. 0..N \subseteq Good
    BY <1>1, <1>2, <1>3, StepByStep
  <2>. QED
    BY <1>1, <2>1
<1>. QED
  BY <1>4 DEF N, AddingFrom

LEMMA AddPointsKeeps ==
    ASSUME HeldInOrder([cache |-> grids_cache_, grids |-> grids_map_], added),
           NEW points_to_add \in Seq(Int), AddPoints(points_to_add)
    PROVE  HeldInOrder([cache |-> grids_cache_, grids |-> grids_map_], added)'
<1>. DEFINE start == [cache |-> grids_cache_, grids |-> grids_map_]
            N == Len(points_to_add)
            m == CHOOSE m : AddingFrom(m, start, points_to_add)
            keys == [i \in DOMAIN points_to_add |-> Pos2Grid(points_to_add[i])]
<1>1. /\ grids_cache_' = m[N].cache /\ grids_map_' = m[N].grids
      /\ added' = added \o keys
  BY DEF AddPoints, AddingFrom
<1>2. AddingFrom(m, start, points_to_add)
  <2>. HIDE DEF start
  <2>1. \E f : AddingFrom(f, start, points_to_add)
    BY AddingExists
  <2>. QED
    BY <2>1, Zenon
<1>. HIDE DEF m, start
<1>3. N \in Nat /\ 0 \in 0..N /\ \A n \in 1..N : n \in 0..N /\ n # 0
  OBVIOUS
<1>4. m[0] = start /\ \A n \in 1..N : m[n] = AddPoint(m[n - 1], points_to_add[n])
  <2>1. \A n \in 0..N : m[n] = IF n = 0 THEN start ELSE AddPoint(m[n - 1], points_to_add[n])
    BY <1>2, Zenon DEF AddingFrom
  <2>. HIDE DEF N
  <2>. QED
    BY <1>3, <2>1
<1>5. HeldInOrder(m[N], added \o keys)
  BY <1>4, AllPointsKeep DEF start
<1>. HIDE DEF N, keys
<1>. QED
  BY <1>1, <1>5 DEF HeldInOrder

-----------------------------------------------------------------------------
MapRecent == HeldInOrder([cache |-> grids_cache_, grids |-> grids_map_], added)
MapInv == MapTypeOK /\ MapRecent

LEMMA MapBegins == MapInit => MapInv
<1>. SUFFICES ASSUME MapInit PROVE MapInv
  OBVIOUS
<1>1. added = <<>> /\ grids_cache_ = <<>> /\ DOMAIN grids_map_ = {}
  BY DEF MapInit
<1>2. Range(<<>>) = {} /\ <<>> \in Seq(Int) /\ Len(<<>>) = 0 /\ DOMAIN <<>> = {}
  BY DEF Range
<1>3. OrderOfUse(<<>>, <<>>)
  <2>1. Cardinality(Range(<<>>)) = 0 /\ capacity_ \in Nat \ {0}
    BY <1>2, FS_EmptySet, LocalMapAssumption
  <2>2. Len(<<>>) = IF 0 < capacity_ - 1 THEN 0 ELSE capacity_ - 1
    BY <1>2, <2>1
  <2>. QED
    BY <1>2, <2>1, <2>2 DEF OrderOfUse
<1>4. MapRecent
  BY <1>1, <1>2, <1>3 DEF MapRecent, HeldInOrder
<1>5. MapTypeOK
  <2>1. /\ DOMAIN feats = {} /\ DOMAIN Nearest_Points = {} /\ DOMAIN grids_map_ = {}
        /\ 0 <= init_map_size /\ 0 \in 0..MaxMapScans
    BY <1>2, LocalMapAssumption DEF MapInit
  <2>2. outcome.pose \in Int /\ outcome.cloud \in Seq(Int)
    BY <1>2 DEF MapInit
  <2>3. /\ init_feats_world \in Seq(Int) /\ Len(init_feats_world) <= init_map_size
        /\ feats \in Seq(Int) /\ world \in Seq(Int) /\ Len(world) <= Len(feats)
        /\ grids_cache_ \in Seq(Int) /\ added \in Seq(Int)
    BY <1>2, <2>1 DEF MapInit
  <2>4. enable_prior_pcd \in BOOLEAN /\ init_map_ \in BOOLEAN /\ is_first_kf \in BOOLEAN
    BY Zenon DEF MapInit
  <2>5. pos \in Int /\ sleep_time \in Nat /\ processed \in 0..MaxMapScans
    BY <2>1 DEF MapInit
  <2>. QED
    BY <2>1, <2>2, <2>3, <2>4, <2>5 DEF MapTypeOK
<1>. QED
  BY <1>4, <1>5 DEF MapInv

(* A voxel's places are finitely many, and hold numbers.                   *)
LEMMA PlacesHold ==
    ASSUME NEW key \in DOMAIN grids_map_, grids_map_[key] \in Seq(Int)
    PROVE  IsFiniteSet(Places(key)) /\ \A q \in Places(key) : PointAt(q) \in Int
<1>1. DOMAIN grids_map_[key] = 1..Len(grids_map_[key]) /\ Len(grids_map_[key]) \in Nat
  OBVIOUS
<1>2. IsFiniteSet(DOMAIN grids_map_[key])
  <2>. DEFINE n == Len(grids_map_[key])
  <2>1. n \in Nat
    BY <1>1
  <2>. HIDE DEF n
  <2>2. IsFiniteSet(1..n)
    BY <2>1, FS_Interval
  <2>. QED
    BY <1>1, <2>2 DEF n
<1>3. IsFiniteSet({key})
  BY FS_Singleton
<1>4. IsFiniteSet(Places(key))
  BY <1>2, <1>3, FS_Product DEF Places
<1>5. \A q \in Places(key) : PointAt(q) \in Int
  BY <1>1 DEF Places, PointAt
<1>. QED
  BY <1>4, <1>5

LEMMA FoundAround ==
    ASSUME NEW pt PROVE GetClosestPoint(pt) \subseteq UNION {Within(key, pt) : key \in Neighbours(pt)}
  BY DEF GetClosestPoint, KNNPointByCondition, Nearest

(* Points put into the world are numbers.                                  *)
LEMMA Placed ==
    ASSUME NEW s \in Seq(Int), NEW at \in Int
    PROVE  [i \in DOMAIN s |-> pointBodyToWorld(s[i], at)] \in Seq(Int)
<1>1. Len(s) \in Nat /\ DOMAIN s = 1..Len(s) /\ \A i \in DOMAIN s : s[i] + at \in Int /\ at + s[i] \in Int
  OBVIOUS
<1>. QED
  BY <1>1 DEF pointBodyToWorld

LEMMA NewPointsAreNumbers ==
    ASSUME world \in Seq(Int) PROVE NewPoints \in Seq(Int)
<1>. DEFINE new == {i \in DOMAIN world :
                   FilterCell(world[i]) \notin {FilterCell(p) : p \in Range(Nearest_Points[i])}}
            order == Ascending(new)
<1>1. DOMAIN world = 1..Len(world) /\ Len(world) \in Nat /\ \A i \in DOMAIN world : world[i] \in Int
  OBVIOUS
<1>2. new \subseteq Int /\ new \subseteq DOMAIN world /\ IsFiniteSet(new)
  <2>. DEFINE n == Len(world)
  <2>1. new \subseteq DOMAIN world /\ IsFiniteSet(1..n)
    <3>1. n \in Nat
      BY <1>1
    <3>. HIDE DEF n
    <3>2. IsFiniteSet(1..n)
      BY <3>1, FS_Interval
    <3>. QED
      BY <3>2
  <2>. HIDE DEF new
  <2>. QED
    BY <1>1, <2>1, FS_Subset
<1>3. NewPoints = [k \in DOMAIN order |-> world[order[k]]]
  BY DEF NewPoints
<1>. HIDE DEF new
<1>4. order \in Seq(new)
  <2>1. \A i \in new : [j \in new |-> j][i] \in Int
    BY <1>2
  <2>. QED
    BY <1>2, <2>1, SortedIs DEF Ascending
<1>. HIDE DEF order
<1>5. /\ DOMAIN order = 1..Len(order) /\ Len(order) \in Nat
      /\ \A k \in DOMAIN order : world[order[k]] \in Int
  <2>1. DOMAIN order = 1..Len(order) /\ Len(order) \in Nat /\ \A k \in DOMAIN order : order[k] \in new
    BY <1>4
  <2>. QED
    BY <1>1, <1>2, <2>1
<1>. QED
  BY <1>3, <1>5

LEMMA MapStep == MapInv /\ [MapNext]_mapVars => MapInv'
<1>. SUFFICES ASSUME MapInv, [MapNext]_mapVars PROVE MapInv'
  OBVIOUS
<1>. USE DEF MapInv
<1>1. ASSUME UNCHANGED <<grids_cache_, grids_map_, added>> PROVE MapRecent'
  BY <1>1 DEF MapRecent, HeldInOrder
<1>2. ASSUME NEW ps \in Seq(Int), AddPoints(ps)
      PROVE  /\ MapRecent' /\ grids_cache_' \in Seq(Int) /\ added' \in Seq(Int)
             /\ \A key \in DOMAIN grids_map_' : grids_map_'[key] \in Seq(Int)
  <2>1. MapRecent'
    BY <1>2, AddPointsKeeps DEF MapRecent
  <2>. QED
    BY <2>1 DEF MapRecent, HeldInOrder, OrderOfUse
<1>3. ASSUME NEW scan \in MapScans, InitMap(scan) PROVE MapInv'
  <2>. DEFINE gather == init_feats_world \o [i \in DOMAIN scan |-> pointBodyToWorld(scan[i], pos)]
  <2>1. gather \in Seq(Int) /\ prior_map \in Seq(Int)
    <3>1. scan \in Seq(Int) /\ pos \in Int /\ prior_map \in Seq(Int) /\ init_feats_world \in Seq(Int)
      BY LocalMapAssumption DEF MapTypeOK
    <3>2. [i \in DOMAIN scan |-> pointBodyToWorld(scan[i], pos)] \in Seq(Int)
      BY <3>1, Placed
    <3>. QED
      BY <3>1, <3>2, ConcatProperties
  <2>. HIDE DEF gather
  <2>2. CASE Len(gather) < init_map_size
    <3>1. init_feats_world' = gather /\ UNCHANGED <<init_map_, grids_cache_, grids_map_, added>>
      BY <1>3, <2>2 DEF InitMap, gather
    <3>2. Len(gather) <= init_map_size
      BY <2>1, <2>2, LocalMapAssumption
    <3>3. processed' \in 0..MaxMapScans
      BY <1>3, LocalMapAssumption DEF InitMap, MapTypeOK
    <3>4. MapTypeOK'
      BY <1>3, <2>1, <3>1, <3>2, <3>3 DEF InitMap, MapTypeOK
    <3>. QED
      BY <1>1, <3>1, <3>4
  <2>3. CASE ~(Len(gather) < init_map_size)
    <3>. DEFINE pts == IF enable_prior_pcd THEN prior_map ELSE gather
    <3>1. AddPoints(pts) /\ init_feats_world' = <<>> /\ init_map_' = TRUE
      BY <1>3, <2>3 DEF InitMap, gather
    <3>2. pts \in Seq(Int)
      BY <2>1
    <3>. HIDE DEF pts
    <3>3. /\ MapRecent' /\ grids_cache_' \in Seq(Int) /\ added' \in Seq(Int)
          /\ \A key \in DOMAIN grids_map_' : grids_map_'[key] \in Seq(Int)
      BY <1>2, <3>1, <3>2
    <3>4. processed' \in 0..MaxMapScans /\ Len(<<>>) <= init_map_size /\ <<>> \in Seq(Int)
      BY <1>3, LocalMapAssumption DEF InitMap, MapTypeOK
    <3>5. MapTypeOK'
      BY <1>3, <3>1, <3>3, <3>4 DEF InitMap, MapTypeOK
    <3>. QED
      BY <3>3, <3>5
  <2>. QED
    BY <2>2, <2>3
<1>4. ASSUME NEW scan \in MapScans, StartMatching(scan) PROVE MapInv'
  <2>1. scan \in Seq(Int) /\ Len(scan) \in Nat /\ DOMAIN scan = 1..Len(scan)
    BY LocalMapAssumption
  <2>2. /\ DOMAIN Nearest_Points' = DOMAIN scan
        /\ \A i \in DOMAIN Nearest_Points' : Range(Nearest_Points'[i]) \subseteq Int
    <3>1. Nearest_Points' = [i \in DOMAIN scan |->
                                IF i \in DOMAIN Nearest_Points THEN Nearest_Points[i] ELSE <<>>]
      BY <1>4 DEF StartMatching
    <3>2. Range(<<>>) \subseteq Int
      BY DEF Range
    <3>. QED
      BY <1>4, <2>1, <3>1, <3>2 DEF StartMatching, MapTypeOK
  <2>3. MapTypeOK'
    BY <1>4, <2>1, <2>2, LocalMapAssumption DEF StartMatching, MapTypeOK
  <2>. QED
    BY <1>1, <1>4, <2>3 DEF StartMatching
<1>5. ASSUME MatchPoint PROVE MapInv'
  <2>. DEFINE i == Len(world) + 1
  <2>1. /\ i \in DOMAIN feats /\ feats[i] \in Int /\ Len(world) \in Nat /\ pos \in Int /\ pos' \in Int
    BY <1>5, LocalMapAssumption DEF MatchPoint, MapTypeOK
  <2>2. world' \in Seq(Int) /\ Len(world') = Len(world) + 1
    <3>1. world' = Append(world, pointBodyToWorld(feats[i], pos')) /\ world \in Seq(Int)
      BY <1>5 DEF MatchPoint, MapTypeOK
    <3>2. pointBodyToWorld(feats[i], pos') \in Int
      BY <2>1 DEF pointBodyToWorld
    <3>. QED
      BY <3>1, <3>2, AppendProperties
  <2>3. \A j \in DOMAIN Nearest_Points' : Range(Nearest_Points'[j]) \subseteq Int
    <3>. DEFINE found == GetClosestPoint(pointBodyToWorld(feats[i], pos))
                pts == [q \in found |-> PointAt(q)]
    <3>1. Nearest_Points' = IF found = {} THEN Nearest_Points ELSE [Nearest_Points EXCEPT ![i] = pts]
      BY <1>5 DEF MatchPoint
    <3>2. \A q \in found : PointAt(q) \in Int
      BY FoundAround, PlacesHold DEF MapTypeOK, Within, Neighbours
    <3>3. Range(pts) \subseteq Int
      BY <3>2 DEF Range
    <3>. HIDE DEF found, pts
    <3>. QED
      BY <3>1, <3>3 DEF MapTypeOK
  <2>4. DOMAIN Nearest_Points' = DOMAIN Nearest_Points
    BY <1>5 DEF MatchPoint
  <2>5. Len(world') <= Len(feats')
    BY <1>5, <2>1, <2>2 DEF MatchPoint, MapTypeOK
  <2>6. MapTypeOK'
    BY <1>5, <2>1, <2>2, <2>3, <2>4, <2>5 DEF MatchPoint, MapTypeOK
  <2>. QED
    BY <1>1, <1>5, <2>6 DEF MatchPoint
<1>6. ASSUME PublishAndAdd PROVE MapInv'
  <2>1. /\ MapRecent' /\ grids_cache_' \in Seq(Int) /\ added' \in Seq(Int)
        /\ \A key \in DOMAIN grids_map_' : grids_map_'[key] \in Seq(Int)
    <3>1. CASE AddPoints(NewPoints)
      <4>1. NewPoints \in Seq(Int)
        BY NewPointsAreNumbers DEF MapTypeOK
      <4>. QED
        BY <1>2, <3>1, <4>1
    <3>2. CASE UNCHANGED <<grids_cache_, grids_map_, added>>
      BY <1>1, <3>2 DEF MapTypeOK
    <3>. QED
      BY <1>6, <3>1, <3>2 DEF PublishAndAdd
  <2>2. /\ pos' \in Int /\ is_first_kf' \in BOOLEAN /\ sleep_time' \in Nat
        /\ outcome'.pose \in Int /\ outcome'.cloud \in Seq(Int)
    BY <1>6, LocalMapAssumption DEF PublishAndAdd, MapTypeOK
  <2>3. feats' = <<>> /\ world' = <<>> /\ <<>> \in Seq(Int) /\ Len(<<>>) <= Len(<<>>) /\ DOMAIN <<>> = {}
    BY <1>6 DEF PublishAndAdd
  <2>4. MapTypeOK'
    BY <1>6, <2>1, <2>2, <2>3 DEF PublishAndAdd, MapTypeOK
  <2>. QED
    BY <2>1, <2>4
<1>7. CASE UNCHANGED mapVars
  BY <1>1, <1>7 DEF mapVars, MapTypeOK
<1>. QED
  BY <1>3, <1>4, <1>5, <1>6, <1>7 DEF MapNext

(* The list by ranks is the list by last use.                              *)
LEMMA RecentVoxels == MapInv => VoxelsAreRecent
<1>. SUFFICES ASSUME MapInv PROVE VoxelsAreRecent
  OBVIOUS
<1>. DEFINE n == Len(grids_cache_)
            N == Cardinality(Range(added))
<1>1. /\ OrderOfUse(grids_cache_, added) /\ DOMAIN grids_map_ = Range(grids_cache_)
      /\ added \in Seq(Int) /\ capacity_ \in Nat \ {0}
  BY LocalMapAssumption DEF MapInv, MapRecent, HeldInOrder, OrderOfUse
<1>2. /\ n = IF N < capacity_ - 1 THEN N ELSE capacity_ - 1
      /\ n \in Nat /\ DOMAIN grids_cache_ = 1..n
      /\ \A i \in 1..n : grids_cache_[i] \in Range(added)
                         /\ Cardinality(Later(added, grids_cache_[i])) = i - 1
  <2>1. OrderOfUse(grids_cache_, added)
    BY <1>1
  <2>2. n = (IF N < capacity_ - 1 THEN N ELSE capacity_ - 1) /\ grids_cache_ \in Seq(Int)
    BY <2>1, Zenon DEF OrderOfUse
  <2>3. \A i \in 1..n : grids_cache_[i] \in Range(added)
                         /\ Cardinality(Later(added, grids_cache_[i])) = i - 1
    BY <2>1, Zenon DEF OrderOfUse
  <2>4. n \in Nat /\ DOMAIN grids_cache_ = 1..n
    BY <2>2, LenProperties
  <2>. QED
    BY <2>2, <2>3, <2>4, Zenon
<1>3. /\ N \in Nat
      /\ \A key \in Range(added) : Cardinality(Later(added, key)) \in 0..(N - 1)
      /\ \A a, b \in Range(added) : LastIn(added, a) > LastIn(added, b)
                                    <=> Cardinality(Later(added, a)) < Cardinality(Later(added, b))
  BY <1>1, LaterRanks
<1>4. \A key \in Range(added) : key \in Range(grids_cache_) <=> Cardinality(Later(added, key)) < n
  BY <1>1, ListIsRanked
<1>. HIDE DEF n, N
<1>5. ASSUME NEW i \in 1..n, NEW j \in 1..n, i < j
      PROVE  LastIn(added, grids_cache_[i]) > LastIn(added, grids_cache_[j])
  <2>1. i - 1 < j - 1
    BY <1>2, <1>5
  <2>. QED
    BY <1>2, <1>3, <2>1
<1>6. ASSUME NEW key \in Range(added)
      PROVE  key \in Range(grids_cache_) <=> Cardinality(Later(added, key)) < capacity_ - 1
  <2>1. Cardinality(Later(added, key)) \in 0..(N - 1)
    BY <1>3
  <2>2. key \in Range(grids_cache_) <=> Cardinality(Later(added, key)) < n
    BY <1>4
  <2>. QED
    BY <1>1, <1>2, <1>3, <2>1, <2>2
<1>. QED
  BY <1>1, <1>2, <1>5, <1>6 DEF VoxelsAreRecent, Later

(* Which of some places of the map are nearest.                            *)
LEMMA NearestIs ==
    ASSUME NEW C, IsFiniteSet(C), \A q \in C : q[1] \in Int /\ q[2] \in Int /\ q = <<q[1], q[2]>>,
           NEW pt \in Int, \A q \in C : PointAt(q) \in Int
    PROVE  /\ IsFiniteSet(Nearest(C, pt)) /\ Nearest(C, pt) \subseteq C /\ Cardinality(C) \in Nat
           /\ Cardinality(Nearest(C, pt)) =
                 IF Cardinality(C) < NUM_MATCH_POINTS THEN Cardinality(C) ELSE NUM_MATCH_POINTS
           /\ Cardinality(C) < NUM_MATCH_POINTS => Nearest(C, pt) = C
           /\ \A q \in Nearest(C, pt), r \in C \ Nearest(C, pt) : Closer(q, r, pt)
<1>. DEFINE R == {p \in C \X C : Closer(p[1], p[2], pt)}
            d(q) == Distance(PointAt(q), pt)
            first == {x \in C : Cardinality({y \in C : <<y, x>> \in R}) < NUM_MATCH_POINTS}
<1>1. \A x, y \in C : <<x, y>> \in R <=> Closer(x, y, pt)
  OBVIOUS
<1>2. \A q \in C : d(q) \in Int
  BY DEF Distance
<1>. HIDE DEF R
<1>3. /\ \A x \in C : ~Closer(x, x, pt)
      /\ \A x, y, z \in C : Closer(x, y, pt) /\ Closer(y, z, pt) => Closer(x, z, pt)
      /\ \A x, y \in C : x = y \/ Closer(x, y, pt) \/ Closer(y, x, pt)
  <2>. HIDE DEF d
  <2>1. \A x, y \in C : Closer(x, y, pt) <=>
          d(x) < d(y) \/ (d(x) = d(y) /\ (x[1] < y[1] \/ (x[1] = y[1] /\ x[2] < y[2])))
    BY DEF Closer, d
  <2>2. \A x \in C : ~Closer(x, x, pt)
    BY <1>2, <2>1
  <2>3. \A x, y, z \in C : Closer(x, y, pt) /\ Closer(y, z, pt) => Closer(x, z, pt)
    BY <1>2, <2>1
  <2>4. \A x, y \in C : x = y \/ Closer(x, y, pt) \/ Closer(y, x, pt)
    BY <1>2, <2>1
  <2>. QED
    BY <2>2, <2>3, <2>4
<1>4. NUM_MATCH_POINTS \in Nat \ {0}
  BY LocalMapAssumption
<1>5. /\ IsFiniteSet(first)
      /\ Cardinality(first) = IF Cardinality(C) < NUM_MATCH_POINTS THEN Cardinality(C) ELSE NUM_MATCH_POINTS
      /\ \A x \in first, y \in C \ first : <<x, y>> \in R
  <2>1. /\ \A x \in C : <<x, x>> \notin R
        /\ \A x, y, z \in C : <<x, y>> \in R /\ <<y, z>> \in R => <<x, z>> \in R
        /\ \A x, y \in C : x = y \/ <<x, y>> \in R \/ <<y, x>> \in R
    BY <1>1, <1>3
  <2>2. NUM_MATCH_POINTS \in Nat
    BY <1>4
  <2>3. /\ first \in SUBSET C
        /\ \A x \in C : x \in first <=> Cardinality({y \in C : <<y, x>> \in R}) < NUM_MATCH_POINTS
    OBVIOUS
  <2>. HIDE DEF first
  <2>. QED
    BY <2>1, <2>2, <2>3, FirstRanks
<1>6. first = Nearest(C, pt)
  <2>1. \A x \in C : {y \in C : <<y, x>> \in R} = {y \in C : Closer(y, x, pt)}
    BY <1>1
  <2>. QED
    BY <2>1 DEF Nearest
<1>7. Cardinality(C) \in Nat
  BY FS_CardinalityType
<1>8. Cardinality(C) < NUM_MATCH_POINTS => first = C
  <2>1. first \subseteq C
    OBVIOUS
  <2>. HIDE DEF first
  <2>. QED
    BY <1>5, <2>1, FS_Subset
<1>9. first \subseteq C
  OBVIOUS
<1>. HIDE DEF first
<1>. QED
  BY <1>1, <1>5, <1>6, <1>7, <1>8, <1>9

LEMMA NoneNearer ==
    ASSUME MapInv, NEW pt \in Int
    PROVE  LET all == UNION {Within(key, pt) : key \in Neighbours(pt)}
               found == GetClosestPoint(pt)
           IN  /\ found \subseteq all
               /\ Cardinality(found) = IF Cardinality(all) < NUM_MATCH_POINTS THEN Cardinality(all)
                                       ELSE NUM_MATCH_POINTS
               /\ \A q \in found, r \in all \ found :
                     Distance(PointAt(q), pt) <= Distance(PointAt(r), pt)
<1>. DEFINE W(key) == Within(key, pt)
            T(key) == Nearest(Within(key, pt), pt)
            all == UNION {W(key) : key \in Neighbours(pt)}
            cand == UNION {T(key) : key \in Neighbours(pt)}
            found == Nearest(cand, pt)
            K == NUM_MATCH_POINTS
<1>1. K \in Nat \ {0}
  BY LocalMapAssumption
<1>2. found = GetClosestPoint(pt)
  BY DEF GetClosestPoint, KNNPointByCondition
<1>3. IsFiniteSet(Neighbours(pt)) /\ Neighbours(pt) \subseteq DOMAIN grids_map_ /\ DOMAIN grids_map_ \subseteq Int
  <2>1. OrderOfUse(grids_cache_, added) /\ DOMAIN grids_map_ = Range(grids_cache_)
    BY DEF MapInv, MapRecent, HeldInOrder
  <2>2. IsFiniteSet(DOMAIN grids_map_)
    BY <2>1, ListIsRanked
  <2>3. Neighbours(pt) \subseteq DOMAIN grids_map_
    BY DEF Neighbours
  <2>4. Range(grids_cache_) \subseteq Int
    BY DEF MapInv, MapTypeOK, Range
  <2>. QED
    BY <2>1, <2>2, <2>3, <2>4, FS_Subset
<1>4. ASSUME NEW key \in Neighbours(pt)
      PROVE  /\ IsFiniteSet(W(key)) /\ W(key) \subseteq all
             /\ \A q \in W(key) : /\ q[1] \in Int /\ q[2] \in Int /\ q = <<q[1], q[2]>>
                                   /\ PointAt(q) \in Int
  <2>1. key \in DOMAIN grids_map_ /\ key \in Int /\ grids_map_[key] \in Seq(Int)
    BY <1>3 DEF MapInv, MapTypeOK
  <2>2. IsFiniteSet(Places(key)) /\ \A q \in Places(key) : PointAt(q) \in Int
    BY <2>1, PlacesHold
  <2>3. \A q \in Places(key) : q[1] \in Int /\ q[2] \in Int /\ q = <<q[1], q[2]>>
    BY <2>1 DEF Places
  <2>4. W(key) \subseteq Places(key)
    BY DEF Within
  <2>5. IsFiniteSet(W(key))
    BY <2>2, <2>4, FS_Subset
  <2>. HIDE DEF W
  <2>. QED
    BY <2>2, <2>3, <2>4, <2>5
<1>5. ASSUME NEW key \in Neighbours(pt)
      PROVE  /\ IsFiniteSet(T(key)) /\ T(key) \subseteq W(key) /\ T(key) \subseteq cand
             /\ Cardinality(T(key)) = IF Cardinality(W(key)) < K THEN Cardinality(W(key)) ELSE K
             /\ Cardinality(W(key)) < K => T(key) = W(key)
             /\ \A q \in T(key), r \in W(key) \ T(key) : Closer(q, r, pt)
             /\ Cardinality(W(key)) \in Nat
  <2>. HIDE DEF K
  <2>. QED
    BY <1>4, NearestIs DEF K
<1>. HIDE DEF W, T
<1>6. /\ IsFiniteSet(all) /\ cand \subseteq all /\ IsFiniteSet(cand)
      /\ \A q \in all : q[1] \in Int /\ q[2] \in Int /\ q = <<q[1], q[2]>> /\ PointAt(q) \in Int
  <2>. DEFINE S == {W(key) : key \in Neighbours(pt)}
  <2>1. IsFiniteSet(S)
    <3>. DEFINE f == [key \in Neighbours(pt) |-> W(key)]
    <3>1. S = {f[key] : key \in Neighbours(pt)} /\ DOMAIN f = Neighbours(pt)
      OBVIOUS
    <3>. HIDE DEF S, f
    <3>. QED
      BY <1>3, <3>1, FiniteImage
  <2>2. \A x \in S : IsFiniteSet(x)
    BY <1>4
  <2>3. IsFiniteSet(all)
    BY <2>1, <2>2, FS_UNION
  <2>4. cand \subseteq all
    BY <1>5
  <2>5. IsFiniteSet(cand)
    BY <2>3, <2>4, FS_Subset
  <2>6. \A q \in all : q[1] \in Int /\ q[2] \in Int /\ q = <<q[1], q[2]>> /\ PointAt(q) \in Int
    BY <1>4
  <2>. QED
    BY <2>3, <2>4, <2>5, <2>6
<1>. HIDE DEF all, cand, K, found
<1>7. /\ IsFiniteSet(found) /\ found \subseteq cand /\ Cardinality(cand) \in Nat
      /\ Cardinality(found) = IF Cardinality(cand) < K THEN Cardinality(cand) ELSE K
      /\ \A q \in found, r \in cand \ found : Closer(q, r, pt)
  BY <1>6, NearestIs DEF found, K
<1>8. Cardinality(all) \in Nat /\ Cardinality(cand) <= Cardinality(all) /\ Cardinality(found) <= K
      /\ Cardinality(found) \in Nat
  <2>1. Cardinality(all) \in Nat /\ Cardinality(cand) <= Cardinality(all) /\ Cardinality(found) \in Nat
    BY <1>6, <1>7, FS_Subset, FS_CardinalityType
  <2>. QED
    BY <1>1, <1>7, <2>1
<1>9. Cardinality(found) = IF Cardinality(all) < K THEN Cardinality(all) ELSE K
  <2>1. ASSUME Cardinality(cand) < K PROVE cand = all
    <3>1. ASSUME NEW key \in Neighbours(pt) PROVE T(key) = W(key)
      <4>1. Cardinality(T(key)) <= Cardinality(cand) /\ Cardinality(T(key)) \in Nat
        BY <1>5, <1>6, FS_Subset, FS_CardinalityType
      <4>. QED
        BY <1>1, <1>5, <1>7, <2>1, <4>1
    <3>. QED
      BY <3>1 DEF all, cand
  <2>. QED
    BY <1>1, <1>7, <1>8, <2>1
<1>10. ASSUME NEW q \in found, NEW r \in all \ found PROVE Closer(q, r, pt)
  <2>1. CASE r \in cand
    BY <1>7, <2>1
  <2>2. CASE r \notin cand
    <3>1. PICK key \in Neighbours(pt) : r \in W(key)
      BY DEF all
    <3>2. r \notin T(key)
      BY <1>5, <2>2
    <3>3. Cardinality(T(key)) = K
      BY <1>1, <1>5, <3>1, <3>2
    <3>4. PICK c \in T(key) : c = q \/ c \notin found
      <4>1. CASE T(key) \subseteq found
        <5>1. Cardinality(T(key)) = Cardinality(found)
          <6>1. Cardinality(T(key)) <= Cardinality(found)
            BY <1>7, <4>1, FS_Subset
          <6>. QED
            BY <1>1, <1>8, <3>3, <6>1
        <5>2. T(key) = found
          BY <1>7, <4>1, <5>1, FS_Subset
        <5>. QED
          BY <5>2
      <4>2. CASE ~(T(key) \subseteq found)
        BY <4>2
      <4>. QED
        BY <4>1, <4>2
    <3>5. Closer(c, r, pt) /\ c \in all /\ c \in cand
      BY <1>5, <1>6, <3>1, <3>2, <3>4
    <3>6. CASE c = q
      BY <3>5, <3>6
    <3>7. CASE c \notin found
      <4>1. Closer(q, c, pt) /\ q \in all
        BY <1>6, <1>7, <3>5, <3>7
      <4>. DEFINE d(x) == Distance(PointAt(x), pt)
      <4>2. d(q) \in Int /\ d(c) \in Int /\ d(r) \in Int
        BY <1>6, <3>5, <4>1 DEF Distance
      <4>3. q[1] \in Int /\ q[2] \in Int /\ c[1] \in Int /\ c[2] \in Int /\ r[1] \in Int /\ r[2] \in Int
        BY <1>6, <3>5, <4>1
      <4>. HIDE DEF d
      <4>4. \A x, y : Closer(x, y, pt) <=>
              d(x) < d(y) \/ (d(x) = d(y) /\ (x[1] < y[1] \/ (x[1] = y[1] /\ x[2] < y[2])))
        BY DEF Closer, d
      <4>. QED
        BY <3>5, <4>1, <4>2, <4>3, <4>4
    <3>. QED
      BY <3>4, <3>6, <3>7
  <2>. QED
    BY <2>1, <2>2
<1>11. ASSUME NEW q \in found, NEW r \in all \ found
       PROVE  Distance(PointAt(q), pt) <= Distance(PointAt(r), pt)
  <2>1. Closer(q, r, pt) /\ q \in all
    BY <1>6, <1>7, <1>10
  <2>2. Distance(PointAt(q), pt) \in Int /\ Distance(PointAt(r), pt) \in Int
    BY <1>6, <2>1 DEF Distance
  <2>. QED
    BY <2>1, <2>2 DEF Closer
<1>12. all = UNION {Within(key, pt) : key \in Neighbours(pt)}
  BY DEF all, W
<1>. QED
  BY <1>2, <1>6, <1>7, <1>9, <1>11, <1>12 DEF K

(* The map answers from the voxels added to last, and with the nearest of  *)
(* their points, for every sequence of scans, every resolution, capacity   *)
(* and reach, and whatever the filter makes of the matches.                *)
THEOREM AlwaysAnswersFromRecent == MapInit /\ [][MapNext]_mapVars => []MapAnswersFromRecent
<1>1. MapInv => MapAnswersFromRecent
  <2>. SUFFICES ASSUME MapInv PROVE NearestFound
    BY RecentVoxels DEF MapAnswersFromRecent
  <2>1. \A pt \in {pos + p : p \in UNION {Range(scan) : scan \in MapScans}} : pt \in Int
    BY LocalMapAssumption, SMTT(40) DEF MapInv, MapTypeOK, Range
  <2>. QED
    BY <2>1, NoneNearer DEF NearestFound
<1>. QED
  BY <1>1, MapBegins, MapStep, PTL
=============================================================================
