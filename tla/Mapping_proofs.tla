---------------------------- MODULE Mapping_proofs ----------------------------
(***************************************************************************)
(* Theorems about map -> odom, the terrain maps and the intensity voxel    *)
(* layer, each for every value of its component's constants; and, with the *)
(* invariants of PointLio_proofs for the scans' frames and the local map,  *)
(* about the types of all the nodes of MCMapping.                          *)
(***************************************************************************)
EXTENDS MCMapping, PointLio_proofs

(* Of any two clouds the later one's stamp is behind by no more than a     *)
(* scan lasts: among those waiting, and from the last one gathered on.     *)
CloudsClose ==
    /\ last_scan <= newest /\ newest <= begun + MaxSweep
    /\ \A i \in 1..Len(registered) :
          last_scan <= registered[i].stamp + MaxSweep /\ registered[i].stamp <= newest
    /\ \A i, j \in 1..Len(registered) :
          i < j => registered[i].stamp <= registered[j].stamp + MaxSweep

(* So it is with the stamps sent and those that may be sent next.          *)
SentClose ==
    /\ StampsStayClose /\ highest <= newest + Lead /\ highest <= last_scan + MaxSweep + Lead
    /\ \A i \in 1..Len(registered) : highest <= registered[i].stamp + MaxSweep + Lead

LocInv == LocTypeOK /\ PlanarStaysPlanar /\ CloudsClose /\ SentClose

(* A projected pose is one, and in the plane.                              *)
LEMMA ProjectedPose ==
    ASSUME NEW p \in Pose
    PROVE  projectToPlanar(p) \in Pose /\ ~projectToPlanar(p).tilted
BY DEF Pose, projectToPlanar

(* What is accepted keeps to the plane in planar mode.                     *)
LEMMA AcceptedPlanar ==
    ASSUME NEW p \in Pose
    PROVE  Accepted(p) \in Pose /\ (planar_mode => ~Accepted(p).tilted)
BY ProjectedPose DEF Accepted

(* Nothing has been published and the initial pose is projected.           *)
LEMMA LocInitially == LocInit => LocInv
<1>. SUFFICES ASSUME LocInit PROVE LocInv
  OBVIOUS
<1>1. PICK p \in Pose : result = IF planar_mode THEN projectToPlanar(p) ELSE p
  BY DEF LocInit
<1>2. result \in Pose /\ (planar_mode => ~result.tilted)
  BY <1>1, ProjectedPose
<1>3. previous = result /\ broadcast = [pose |-> result, stamp |-> 0]
  BY DEF LocInit
<1>4. LocTypeOK
  <2>1. 0 \in 0..MaxPublished /\ <<>> \in Seq(PublishedScan) /\ Len(<<>>) <= ScanDepth
    BY LocalizationAssumption
  <2>2. broadcast \in [pose : Pose, stamp : Nat]
    BY <1>2, <1>3
  <2>3. /\ tf_ready \in BOOLEAN /\ initialized \in BOOLEAN /\ planar_mode \in BOOLEAN
        /\ scans = 0 /\ begun = 1 /\ newest = 0 /\ highest = 0
        /\ last_scan = 0 /\ registered = <<>> /\ accumulated = <<>>
    BY DEF LocInit
  <2>. QED
    BY <1>2, <1>3, <2>1, <2>2, <2>3 DEF LocTypeOK
<1>5. PlanarStaysPlanar
  BY <1>2, <1>3 DEF PlanarStaysPlanar
<1>6. CloudsClose /\ SentClose
  BY <1>3, LocalizationAssumption DEF LocInit, CloudsClose, SentClose, StampsStayClose
<1>. QED
  BY <1>4, <1>5, <1>6 DEF LocInv

(* A published cloud's scan began last; if the topic is full its oldest    *)
(* cloud goes.                                                             *)
LEMMA CloudPublished ==
    ASSUME LocInv, NEW gap \in 0..MaxGap, NEW span \in 0..MaxSweep, pointCloudCallback(gap, span)
    PROVE  LocInv'
<1>. DEFINE sweep == InOdom(span)
            full == Append(registered, sweep)
<1>1. /\ scans \in Nat /\ scans' \in 0..MaxPublished /\ MaxSweep \in Nat /\ Lead \in Nat
      /\ begun \in Nat /\ gap \in Nat /\ span \in Nat /\ span <= MaxSweep /\ begun' = begun + gap
      /\ newest \in Nat /\ last_scan \in Nat /\ highest \in Nat
      /\ UNCHANGED <<tf_ready, initialized, gicp>>
      /\ registered' = IF Len(full) > ScanDepth THEN Tail(full) ELSE full
  BY LocalizationAssumption DEF LocInv, LocTypeOK, pointCloudCallback, Publish
<1>2. newest' = IF newest < begun' + span THEN begun' + span ELSE newest
  BY DEF pointCloudCallback, Publish, Newer
<1>3. /\ sweep \in PublishedScan /\ sweep.stamp = begun' + span
      /\ registered \in Seq(PublishedScan) /\ Len(registered) <= ScanDepth
  BY <1>1 DEF LocInv, LocTypeOK, PublishedScan, InOdom
<1>4. /\ full \in Seq(PublishedScan) /\ Len(full) = Len(registered) + 1
      /\ \A i \in 1..Len(registered) : full[i] = registered[i]
      /\ full[Len(registered) + 1] = sweep
  BY <1>3, AppendProperties
<1>. HIDE DEF sweep, full
<1>5. \A i \in 1..Len(full) : full[i].stamp \in Nat
  <2>1. \A i \in 1..Len(full) : full[i] \in PublishedScan
    BY <1>4, ElementOfSeq
  <2>. QED
    BY <2>1 DEF PublishedScan
<1>6. newest' \in Nat /\ newest <= newest' /\ newest' <= begun' + MaxSweep /\ newest <= sweep.stamp + MaxSweep
  BY <1>1, <1>2, <1>3 DEF LocInv, CloudsClose
<1>7. UNCHANGED <<last_scan, planar_mode, accumulated, result, previous, broadcast, highest>>
  BY <1>1 DEF gicp
(* What holds of the clouds waiting holds of the new one as well.          *)
<1>8. ASSUME NEW i \in 1..Len(full)
      PROVE  /\ last_scan <= full[i].stamp + MaxSweep /\ full[i].stamp <= newest'
             /\ highest <= full[i].stamp + MaxSweep + Lead
  <2>1. CASE i \in 1..Len(registered)
    <3>1. /\ last_scan <= registered[i].stamp + MaxSweep /\ registered[i].stamp <= newest
          /\ highest <= registered[i].stamp + MaxSweep + Lead
      BY <2>1 DEF LocInv, CloudsClose, SentClose
    <3>2. full[i] = registered[i] /\ full[i].stamp \in Nat
      BY <1>4, <1>5, <2>1
    <3>. QED
      BY <1>1, <1>6, <3>1, <3>2
  <2>2. CASE i = Len(registered) + 1
    <3>1. full[i].stamp = begun' + span /\ full[i].stamp \in Nat /\ newest <= full[i].stamp + MaxSweep
      BY <1>3, <1>4, <1>5, <1>6, <2>2
    <3>2. last_scan <= newest /\ highest <= newest + Lead
      BY DEF LocInv, CloudsClose, SentClose
    <3>. QED
      BY <1>1, <1>2, <3>1, <3>2
  <2>. QED
    BY <1>3, <1>4, <2>1, <2>2
<1>9. ASSUME NEW i \in 1..Len(full), NEW j \in 1..Len(full), i < j
      PROVE  full[i].stamp <= full[j].stamp + MaxSweep
  <2>1. i \in 1..Len(registered)
    BY <1>3, <1>4, <1>9
  <2>2. CASE j \in 1..Len(registered)
    BY <1>4, <1>9, <2>1, <2>2 DEF LocInv, CloudsClose
  <2>3. CASE j = Len(registered) + 1
    <3>1. registered[i].stamp <= newest
      BY <2>1 DEF LocInv, CloudsClose
    <3>2. full[i].stamp <= newest /\ full[j] = sweep
      BY <1>4, <2>1, <2>3, <3>1
    <3>. QED
      BY <1>1, <1>3, <1>5, <1>6, <3>2
  <2>. QED
    BY <1>3, <1>4, <2>2, <2>3
<1>10. PICK d \in {0, 1} : /\ Len(registered') = Len(full) - d /\ Len(registered') <= ScanDepth
                           /\ registered' \in Seq(PublishedScan)
                           /\ \A i \in 1..Len(registered') :
                                 i + d \in 1..Len(full) /\ registered'[i] = full[i + d]
  <2>1. CASE ~(Len(full) > ScanDepth)
    <3>1. registered' = full /\ Len(full) \in Nat /\ ScanDepth \in Nat
      BY <1>1, <1>4, <2>1, LocalizationAssumption
    <3>2. /\ Len(registered') = Len(full) - 0 /\ Len(registered') <= ScanDepth
          /\ registered' \in Seq(PublishedScan)
          /\ \A i \in 1..Len(registered') : i + 0 \in 1..Len(full) /\ registered'[i] = full[i + 0]
      BY <1>4, <2>1, <3>1
    <3>. QED
      BY <3>2
  <2>2. CASE Len(full) > ScanDepth
    <3>1. full # <<>> /\ Len(registered) \in Nat /\ registered' = Tail(full)
      BY <1>1, <1>3, <1>4, <2>2
    <3>2. /\ Tail(full) \in Seq(PublishedScan) /\ Len(Tail(full)) = Len(full) - 1
          /\ \A i \in 1..Len(Tail(full)) : Tail(full)[i] = full[i + 1]
      BY <1>4, <3>1, HeadTailProperties
    <3>3. Len(registered') <= ScanDepth
      BY <1>3, <1>4, <3>1, <3>2, LocalizationAssumption
    <3>4. ASSUME NEW i \in 1..Len(registered')
          PROVE  i + 1 \in 1..Len(full) /\ registered'[i] = full[i + 1]
      BY <1>4, <3>1, <3>2
    <3>. QED
      BY <3>1, <3>2, <3>3, <3>4
  <2>. QED
    BY <2>1, <2>2
<1>11. LocTypeOK'
  BY <1>1, <1>6, <1>7, <1>10 DEF LocInv, LocTypeOK
<1>12. CloudsClose'
  <2>1. last_scan' <= newest'
    BY <1>1, <1>6, <1>7 DEF LocInv, CloudsClose
  <2>2. ASSUME NEW i \in 1..Len(registered')
        PROVE  last_scan' <= registered'[i].stamp + MaxSweep /\ registered'[i].stamp <= newest'
    BY <1>7, <1>8, <1>10
  <2>3. ASSUME NEW i \in 1..Len(registered'), NEW j \in 1..Len(registered'), i < j
        PROVE  registered'[i].stamp <= registered'[j].stamp + MaxSweep
    <3>1. /\ i + d \in 1..Len(full) /\ j + d \in 1..Len(full) /\ i + d < j + d
          /\ registered'[i] = full[i + d] /\ registered'[j] = full[j + d]
      BY <1>10, <2>3
    <3>. QED
      BY <1>9, <3>1
  <2>. QED
    BY <1>6, <2>1, <2>2, <2>3 DEF CloudsClose
<1>13. SentClose'
  <2>1. broadcast.stamp \in Nat
    BY DEF LocInv, LocTypeOK
  <2>2. /\ highest <= newest + Lead /\ highest <= last_scan + MaxSweep + Lead
        /\ broadcast.stamp >= highest - MaxSweep /\ broadcast.stamp <= newest + Lead
    BY DEF LocInv, SentClose, StampsStayClose
  <2>3. highest <= newest' + Lead /\ broadcast.stamp <= newest' + Lead
    <3>1. /\ newest \in Nat /\ newest' \in Nat /\ newest <= newest' /\ Lead \in Nat
          /\ highest \in Nat
      BY <1>1, <1>6, Zenon
    <3>2. highest <= newest + Lead /\ broadcast.stamp <= newest + Lead
      BY <2>2
    <3>3. \A a, b, m, n \in Nat : a <= m + b /\ m <= n => a <= n + b
      OBVIOUS
    <3>. QED
      BY <2>1, <3>1, <3>2, <3>3
  <2>4. \A i \in 1..Len(registered') : highest' <= registered'[i].stamp + MaxSweep + Lead
    BY <1>7, <1>8, <1>10
  <2>. QED
    BY <1>7, <2>2, <2>3, <2>4 DEF SentClose, StampsStayClose
<1>14. PlanarStaysPlanar'
  BY <1>7 DEF LocInv, PlanarStaysPlanar
<1>. QED
  BY <1>11, <1>12, <1>13, <1>14 DEF LocInv

(* The oldest cloud waiting is gathered.                                   *)
LEMMA CloudGathered ==
    ASSUME LocInv, registeredPcdCallback
    PROVE  LocInv'
<1>1. /\ registered # <<>> /\ registered \in Seq(PublishedScan)
      /\ registered' = Tail(registered)
      /\ last_scan' = Head(registered).stamp
      /\ accumulated' = Append(accumulated, Head(registered))
      /\ UNCHANGED <<loam, planar_mode, result, previous, broadcast, highest>>
  BY DEF LocInv, LocTypeOK, registeredPcdCallback
<1>2. Len(registered) \in Nat \ {0} /\ 1 \in 1..Len(registered)
  BY <1>1
<1>3. /\ Head(registered) = registered[1] /\ Head(registered) \in PublishedScan
      /\ Tail(registered) \in Seq(PublishedScan) /\ Len(Tail(registered)) = Len(registered) - 1
      /\ \A i \in 1..Len(Tail(registered)) : Tail(registered)[i] = registered[i + 1]
  BY <1>1, HeadTailProperties
<1>4. \A i \in 1..Len(registered') :
         i + 1 \in 1..Len(registered) /\ 1 < i + 1 /\ registered'[i] = registered[i + 1]
  BY <1>1, <1>2, <1>3
<1>5. UNCHANGED <<tf_ready, initialized, scans, begun, newest>>
  BY <1>1 DEF loam
<1>6. last_scan' = registered[1].stamp /\ last_scan' \in Nat
  BY <1>1, <1>3 DEF PublishedScan
<1>7. LocTypeOK'
  <2>1. accumulated' \in Seq(PublishedScan)
    BY <1>1, <1>3, AppendProperties DEF LocInv, LocTypeOK
  <2>2. registered' \in Seq(PublishedScan) /\ Len(registered') <= ScanDepth
    BY <1>1, <1>2, <1>3, LocalizationAssumption DEF LocInv, LocTypeOK
  <2>. QED
    BY <1>1, <1>5, <1>6, <2>1, <2>2 DEF LocInv, LocTypeOK
<1>8. CloudsClose'
  <2>1. last_scan' <= newest' /\ newest' <= begun' + MaxSweep
    BY <1>2, <1>5, <1>6 DEF LocInv, CloudsClose
  <2>2. ASSUME NEW i \in 1..Len(registered')
        PROVE  last_scan' <= registered'[i].stamp + MaxSweep /\ registered'[i].stamp <= newest'
    BY <1>2, <1>4, <1>5, <1>6 DEF LocInv, CloudsClose
  <2>3. ASSUME NEW i \in 1..Len(registered'), NEW j \in 1..Len(registered'), i < j
        PROVE  registered'[i].stamp <= registered'[j].stamp + MaxSweep
    <3>1. i + 1 < j + 1
      BY <2>3
    <3>. QED
      BY <1>4, <3>1 DEF LocInv, CloudsClose
  <2>. QED
    BY <2>1, <2>2, <2>3 DEF CloudsClose
<1>9. SentClose'
  <2>1. highest' <= last_scan' + MaxSweep + Lead
    BY <1>1, <1>2, <1>6 DEF LocInv, SentClose
  <2>2. \A i \in 1..Len(registered') : highest' <= registered'[i].stamp + MaxSweep + Lead
    BY <1>1, <1>4 DEF LocInv, SentClose
  <2>. QED
    BY <1>1, <1>5, <2>1, <2>2 DEF LocInv, SentClose, StampsStayClose
<1>10. PlanarStaysPlanar'
  BY <1>1 DEF LocInv, PlanarStaysPlanar
<1>. QED
  BY <1>7, <1>8, <1>9, <1>10 DEF LocInv

(* A registration and /initialpose give poses that have been projected.    *)
LEMMA PoseReplaced ==
    ASSUME LocInv, NEW T \in Pose,
           (\E converged \in BOOLEAN : performRegistration(converged, T)) \/ initialPoseCallback(T)
    PROVE  LocInv'
<1>1. Accepted(T) \in Pose /\ (planar_mode => ~Accepted(T).tilted)
  BY AcceptedPlanar
<1>2. /\ result' \in {result, Accepted(T)} /\ previous' \in {previous, Accepted(T)}
      /\ accumulated' \in {accumulated, <<>>}
      /\ UNCHANGED <<loam, registered, planar_mode, last_scan, broadcast, highest>>
  <2>1. CASE initialPoseCallback(T)
    BY <2>1 DEF initialPoseCallback
  <2>2. ASSUME NEW converged \in BOOLEAN, performRegistration(converged, T)
        PROVE  /\ result' \in {result, Accepted(T)} /\ previous' \in {previous, Accepted(T)}
               /\ accumulated' \in {accumulated, <<>>}
               /\ UNCHANGED <<loam, registered, planar_mode, last_scan, broadcast, highest>>
    BY <2>2 DEF performRegistration
  <2>. QED
    BY <2>1, <2>2
<1>. HIDE DEF Accepted
<1>3. LocTypeOK'
  <2>1. result' \in Pose /\ previous' \in Pose
    BY <1>1, <1>2 DEF LocInv, LocTypeOK
  <2>2. accumulated' \in Seq(PublishedScan)
    <3>1. <<>> \in Seq(PublishedScan) /\ accumulated \in Seq(PublishedScan)
      BY EmptySeq DEF LocInv, LocTypeOK
    <3>2. accumulated' = accumulated \/ accumulated' = <<>>
      BY <1>2
    <3>. QED
      BY <3>1, <3>2
  <2>3. UNCHANGED <<tf_ready, initialized, scans, begun, newest, registered, planar_mode, last_scan,
                    broadcast, highest>>
    BY <1>2 DEF loam
  <2>. QED
    BY <2>1, <2>2, <2>3 DEF LocInv, LocTypeOK
<1>4. PlanarStaysPlanar'
  BY <1>1, <1>2 DEF LocInv, PlanarStaysPlanar
<1>5. CloudsClose' /\ SentClose'
  BY <1>2 DEF LocInv, CloudsClose, SentClose, StampsStayClose, loam
<1>. QED
  BY <1>3, <1>4, <1>5 DEF LocInv

(* What is broadcast is the result, stamped ahead of the last cloud.       *)
LEMMA TransformPublished ==
    ASSUME LocInv, publishTransform
    PROVE  LocInv'
<1>1. /\ broadcast' = [pose |-> result, stamp |-> last_scan + Lead]
      /\ highest' = IF highest < last_scan + Lead THEN last_scan + Lead ELSE highest
      /\ UNCHANGED <<loam, registered, planar_mode, accumulated, last_scan, result, previous>>
  BY DEF publishTransform, Newer
<1>2. /\ Lead \in Nat /\ MaxSweep \in Nat /\ last_scan \in Nat /\ highest \in Nat /\ newest \in Nat
      /\ newest' = newest /\ begun' = begun
  BY <1>1, LocalizationAssumption DEF LocInv, LocTypeOK, loam
<1>3. LocTypeOK'
  BY <1>1, <1>2 DEF LocInv, LocTypeOK, loam
<1>4. PlanarStaysPlanar'
  BY <1>1 DEF LocInv, PlanarStaysPlanar
<1>5. CloudsClose'
  BY <1>1, <1>2 DEF LocInv, CloudsClose
<1>6. SentClose'
  <2>1. last_scan <= newest /\ highest <= newest + Lead /\ highest <= last_scan + MaxSweep + Lead
    BY DEF LocInv, CloudsClose, SentClose
  <2>2. /\ highest' <= newest + Lead /\ highest' <= last_scan + MaxSweep + Lead
        /\ last_scan + Lead >= highest' - MaxSweep /\ last_scan + Lead <= newest + Lead
    BY <1>1, <1>2, <2>1
  <2>3. ASSUME NEW i \in 1..Len(registered)
        PROVE  highest' <= registered[i].stamp + MaxSweep + Lead
    <3>1. registered[i].stamp \in Nat
      <4>1. registered \in Seq(PublishedScan)
        BY DEF LocInv, LocTypeOK
      <4>2. registered[i] \in PublishedScan
        BY <4>1, ElementOfSeq
      <4>. QED
        BY <4>2 DEF PublishedScan
    <3>2. /\ last_scan <= registered[i].stamp + MaxSweep
          /\ highest <= registered[i].stamp + MaxSweep + Lead
      BY DEF LocInv, CloudsClose, SentClose
    <3>. QED
      BY <1>1, <1>2, <3>1, <3>2
  <2>. QED
    BY <1>1, <1>2, <2>2, <2>3 DEF SentClose, StampsStayClose
<1>. QED
  BY <1>3, <1>4, <1>5, <1>6 DEF LocInv

-----------------------------------------------------------------------------
(* Every step keeps the invariant.                                         *)
LEMMA LocInductive == LocInv /\ [LocNext]_locVars => LocInv'
<1>. SUFFICES ASSUME LocInv, [LocNext]_locVars PROVE LocInv'
  OBVIOUS
<1>1. CASE TfAppears \/ odometryCallback
  <2>1. /\ tf_ready' \in BOOLEAN /\ initialized' \in BOOLEAN
        /\ UNCHANGED <<scans, begun, newest, registered, gicp>>
    BY <1>1 DEF TfAppears, odometryCallback, LocInv, LocTypeOK
  <2>. QED
    BY <2>1 DEF LocInv, LocTypeOK, PlanarStaysPlanar, CloudsClose, SentClose, StampsStayClose, gicp
<1>2. ASSUME NEW gap \in 0..MaxGap, NEW span \in 0..MaxSweep, pointCloudCallback(gap, span)
      PROVE  LocInv'
  BY <1>2, CloudPublished
<1>3. CASE registeredPcdCallback
  BY <1>3, CloudGathered
<1>4. ASSUME NEW T \in Pose,
             (\E converged \in BOOLEAN : performRegistration(converged, T)) \/ initialPoseCallback(T)
      PROVE  LocInv'
  BY <1>4, PoseReplaced
<1>5. CASE publishTransform
  BY <1>5, TransformPublished
<1>6. CASE UNCHANGED locVars
  BY <1>6 DEF locVars, loam, gicp, LocInv, LocTypeOK, PlanarStaysPlanar, CloudsClose, SentClose,
              StampsStayClose
<1>. QED
  BY <1>1, <1>2, <1>3, <1>4, <1>5, <1>6 DEF LocNext

(* map -> odom never leaves the plane in planar mode: every assignment to  *)
(* result_t_ in small_gicp_relocalization.cpp projects.                    *)
THEOREM AlwaysPlanar == LocSpec => []PlanarStaysPlanar
<1>1. LocInv => PlanarStaysPlanar
  BY DEF LocInv
<1>. QED
  BY <1>1, LocInitially, LocInductive, PTL DEF LocSpec

(* last_scan_time_ in small_gicp_relocalization.cpp: though overlapping    *)
(* scans take the clouds' stamps back and clouds are lost on the way, a    *)
(* stamp of map -> odom lies before an earlier one by no more than a scan  *)
(* lasts, and ahead of the clouds published by no more than Lead.          *)
THEOREM StampsAreClose == LocSpec => []StampsStayClose
<1>1. LocInv => StampsStayClose
  BY DEF LocInv, SentClose
<1>. QED
  BY <1>1, LocInitially, LocInductive, PTL DEF LocSpec

-----------------------------------------------------------------------------
(* The grids of the terrain maps.                                          *)
StoredPoint(p) == /\ p = [at |-> p.at, z |-> p.z, time |-> p.time]
                  /\ p.at \in Int \X Int

IsGrid(g) == /\ g = [shift |-> g.shift, cloud |-> g.cloud, num |-> g.num, time |-> g.time]
             /\ g.shift \in Int \X Int
             /\ \A c \in Cells : \A p \in g.cloud[c] : StoredPoint(p)

(* A grid with several fields changed.                                     *)
LEMMA GridChanged ==
    ASSUME NEW g, IsGrid(g), NEW to, NEW cloud, NEW num, NEW time_
    PROVE  /\ [g EXCEPT !.shift = to, !.cloud = cloud]
                = [shift |-> to, cloud |-> cloud, num |-> g.num, time |-> g.time]
           /\ [g EXCEPT !.cloud = cloud, !.num = num]
                = [shift |-> g.shift, cloud |-> cloud, num |-> num, time |-> g.time]
           /\ [g EXCEPT !.cloud = cloud, !.num = num, !.time = time_]
                = [shift |-> g.shift, cloud |-> cloud, num |-> num, time |-> time_]
<1>. DEFINE shifted == [g EXCEPT !.shift = to]
            filled  == [g EXCEPT !.cloud = cloud]
            counted == [filled EXCEPT !.num = num]
<1>1. g = [shift |-> g.shift, cloud |-> g.cloud, num |-> g.num, time |-> g.time]
  BY DEF IsGrid
<1>2. /\ [g EXCEPT !.shift = to, !.cloud = cloud] = [shifted EXCEPT !.cloud = cloud]
      /\ [g EXCEPT !.cloud = cloud, !.num = num] = counted
      /\ [g EXCEPT !.cloud = cloud, !.num = num, !.time = time_] = [counted EXCEPT !.time = time_]
  OBVIOUS
<1>3. shifted = [shift |-> to, cloud |-> g.cloud, num |-> g.num, time |-> g.time]
  BY <1>1
<1>4. filled = [shift |-> g.shift, cloud |-> cloud, num |-> g.num, time |-> g.time]
  BY <1>1
<1>. HIDE DEF shifted, filled
<1>5. [shifted EXCEPT !.cloud = cloud]
        = [shift |-> to, cloud |-> cloud, num |-> g.num, time |-> g.time]
  BY <1>3
<1>6. counted = [shift |-> g.shift, cloud |-> cloud, num |-> num, time |-> g.time]
  BY <1>4
<1>. HIDE DEF counted
<1>7. [counted EXCEPT !.time = time_]
        = [shift |-> g.shift, cloud |-> cloud, num |-> num, time |-> time_]
  BY <1>6
<1>. QED
  BY <1>2, <1>5, <1>6, <1>7

(* The loops that roll the grid end with the vehicle within a voxel of its *)
(* middle.                                                                 *)
LEMMA ShiftFollows ==
    ASSUME NEW shift \in Int, NEW x \in Int
    PROVE  ShiftTo(shift, x) \in Int /\ Abs(x - VoxelSize * ShiftTo(shift, x)) <= VoxelSize
<1>. DEFINE s == VoxelSize
<1>1. s \in Nat \ {0}
  BY VoxelGridAssumption
<1>5. \A a \in Int : a \div s \in Int /\ a % s \in 0..(s - 1) /\ a = s * (a \div s) + (a % s)
  BY <1>1, Division
<1>6. s - x \in Int /\ x + s \in Int
  BY <1>1
<1>2. CASE x - s * shift < -s
  <2>1. /\ (x + s) \div s \in Int /\ (x + s) % s \in 0..(s - 1)
        /\ x + s = s * ((x + s) \div s) + ((x + s) % s)
    BY <1>5, <1>6
  <2>2. ShiftTo(shift, x) = (x + s) \div s
    BY <1>2 DEF ShiftTo
  <2>3. Abs(x - s * ((x + s) \div s)) <= s
    BY <1>1, <2>1 DEF Abs
  <2>. QED
    BY <2>1, <2>2, <2>3
<1>3. CASE x - s * shift > s
  <2>. DEFINE m == (s - x) \div s
  <2>1. m \in Int /\ (s - x) % s \in 0..(s - 1) /\ s - x = s * m + ((s - x) % s)
    BY <1>5, <1>6
  <2>2. ~(x - s * shift < -s) /\ s * shift \in Int
    BY <1>1, <1>3
  <2>3. ShiftTo(shift, x) = -m
    BY <1>3, <2>2 DEF ShiftTo
  <2>4. s * (-m) = -(s * m) /\ s * m \in Int
    BY <1>1, <2>1
  <2>5. Abs(x - s * (-m)) <= s
    BY <1>1, <2>1, <2>4 DEF Abs
  <2>. QED
    BY <2>1, <2>3, <2>5
<1>4. CASE ~(x - s * shift < -s) /\ ~(x - s * shift > s)
  <2>1. ShiftTo(shift, x) = shift
    BY <1>4 DEF ShiftTo
  <2>2. s * shift \in Int
    BY <1>1
  <2>3. Abs(x - s * shift) <= s
    BY <1>1, <1>4, <2>2 DEF Abs
  <2>. QED
    BY <2>1, <2>3
<1>. QED
  BY <1>2, <1>3, <1>4

(* The voxel an offset falls into has its middle within half a voxel, also *)
(* of an offset below zero, which the cast to int rounds the other way.    *)
LEMMA IndexIsNear ==
    ASSUME NEW offset \in Int
    PROVE  /\ Index(offset, VoxelSize, HalfWidth) \in Int
           /\ 2 * Abs(offset - VoxelSize * (Index(offset, VoxelSize, HalfWidth) - HalfWidth))
                <= VoxelSize
<1>. DEFINE s == VoxelSize
            h == s \div 2
            n == offset + h
            place == Index(offset, s, HalfWidth)
<1>1. s \in Nat \ {0} /\ h \in Int /\ s = 2 * h /\ HalfWidth \in Int
  BY VoxelGridAssumption
<1>4. \A a \in Int : a \div s \in Int /\ a % s \in 0..(s - 1) /\ a = s * (a \div s) + (a % s)
  BY <1>1, Division
<1>5. n \in Int /\ -n \in Int
  BY <1>1
<1>2. CASE n >= 0
  <2>1. n \div s \in Int /\ n % s \in 0..(s - 1) /\ n = s * (n \div s) + (n % s)
    BY <1>4, <1>5
  <2>2. place = HalfWidth + (n \div s)
    BY <1>2 DEF Index
  <2>3. place \in Int /\ place - HalfWidth = n \div s
    BY <1>1, <2>1, <2>2
  <2>4. 2 * Abs(offset - s * (n \div s)) <= s
    BY <1>1, <2>1 DEF Abs
  <2>. QED
    BY <2>3, <2>4
<1>3. CASE ~(n >= 0)
  <2>. DEFINE m == (-n) \div s
  <2>1. m \in Int /\ (-n) % s \in 0..(s - 1) /\ -n = s * m + ((-n) % s)
    BY <1>4, <1>5
  <2>2. place = HalfWidth + (-m - 1)
    BY <1>3 DEF Index
  <2>3. place \in Int /\ place - HalfWidth = -m - 1
    BY <1>1, <2>1, <2>2
  <2>4. s * (-m - 1) = -(s * m) - s /\ s * m \in Int
    BY <1>1, <2>1
  <2>5. 2 * Abs(offset - s * (-m - 1)) <= s
    BY <1>1, <2>1, <2>4 DEF Abs
  <2>. QED
    BY <2>3, <2>5
<1>. QED
  BY <1>2, <1>3

(* What rolling makes of a grid, field by field.                           *)
LEMMA RolledIs ==
    ASSUME NEW g, IsGrid(g), NEW v, NEW r, r = Rolled(g, v)
    PROVE  LET to == Shifted(g, v)
               From(c) == Plus(c, <<to[1] - g.shift[1], to[2] - g.shift[2]>>)
           IN /\ r = [shift |-> r.shift, cloud |-> r.cloud, num |-> r.num, time |-> r.time]
              /\ r.shift = to /\ r.time = g.time /\ r.num = g.num /\ DOMAIN r.cloud = Cells
              /\ \A c \in Cells : r.cloud[c] = IF From(c) \in Cells THEN g.cloud[From(c)] ELSE {}
<1>. DEFINE to == Shifted(g, v)
            From(c) == Plus(c, <<to[1] - g.shift[1], to[2] - g.shift[2]>>)
            C == [c \in Cells |-> IF From(c) \in Cells THEN g.cloud[From(c)] ELSE {}]
<1>1. r = [g EXCEPT !.shift = to, !.cloud = C]
  BY DEF Rolled
<1>2. /\ \A c \in Cells : C[c] = IF From(c) \in Cells THEN g.cloud[From(c)] ELSE {}
      /\ DOMAIN C = Cells
  OBVIOUS
<1>. HIDE DEF to, C, From
<1>3. r = [shift |-> to, cloud |-> C, num |-> g.num, time |-> g.time]
  BY <1>1, GridChanged
<1>4. /\ r = [shift |-> r.shift, cloud |-> r.cloud, num |-> r.num, time |-> r.time]
      /\ r.shift = to /\ r.time = g.time /\ r.num = g.num /\ DOMAIN r.cloud = Cells
      /\ \A c \in Cells : r.cloud[c] = IF From(c) \in Cells THEN g.cloud[From(c)] ELSE {}
  BY <1>2, <1>3
<1>. QED
  BY <1>4 DEF to, From

(* What stacking makes of a grid.                                          *)
LEMMA StackedIs ==
    ASSUME NEW g, IsGrid(g), NEW given, NEW v, NEW r, r = Stacked(g, given, v)
    PROVE  /\ r = [shift |-> r.shift, cloud |-> r.cloud, num |-> r.num, time |-> r.time]
           /\ r.shift = g.shift /\ r.time = g.time /\ DOMAIN r.cloud = Cells
           /\ \A c \in Cells :
                r.cloud[c] = g.cloud[c] \cup {p \in given : CellOf(p, v, VoxelSize, HalfWidth) = c}
           /\ \A c \in Cells :
                r.num[c] = g.num[c] + Cardinality({p \in given : CellOf(p, v, VoxelSize, HalfWidth) = c})
<1>. DEFINE Into(c) == {p \in given : CellOf(p, v, VoxelSize, HalfWidth) = c}
            C == [c \in Cells |-> g.cloud[c] \cup Into(c)]
            N == [c \in Cells |-> g.num[c] + Cardinality(Into(c))]
<1>1. r = [g EXCEPT !.cloud = C, !.num = N]
  BY Zenon DEF Stacked
<1>2. /\ \A c \in Cells : C[c] = g.cloud[c] \cup Into(c) /\ N[c] = g.num[c] + Cardinality(Into(c))
      /\ DOMAIN C = Cells
  OBVIOUS
<1>. HIDE DEF C, N, Into
<1>3. r = [shift |-> g.shift, cloud |-> C, num |-> N, time |-> g.time]
  BY <1>1, GridChanged
<1>4. /\ r = [shift |-> r.shift, cloud |-> r.cloud, num |-> r.num, time |-> r.time]
      /\ r.shift = g.shift /\ r.time = g.time /\ DOMAIN r.cloud = Cells
      /\ \A c \in Cells : r.cloud[c] = g.cloud[c] \cup Into(c)
      /\ \A c \in Cells : r.num[c] = g.num[c] + Cardinality(Into(c))
  BY <1>2, <1>3
<1>. QED
  BY <1>4 DEF Into

(* What going through the voxels that are due makes of it.                 *)
LEMMA RefreshedIs ==
    ASSUME NEW g, IsGrid(g), NEW now_, NEW v, NEW clearing, NEW dis, NEW s,
           NEW r, r = Refreshed(g, now_, v, clearing, dis, s)
    PROVE  /\ r = [shift |-> r.shift, cloud |-> r.cloud, num |-> r.num, time |-> r.time]
           /\ r.shift = g.shift /\ DOMAIN r.cloud = Cells
           /\ \A c \in Cells :
                IF Due(g, c, now_, clearing, s)
                THEN /\ r.cloud[c] = {p \in Downsampled(g.cloud[c]) :
                                        Kept(p, now_, v, clearing, dis, s)}
                     /\ r.time[c] = now_ /\ r.num[c] = 0
                ELSE /\ r.cloud[c] = g.cloud[c]
                     /\ r.time[c] = g.time[c] /\ r.num[c] = g.num[c]
<1>. DEFINE Left(c) == {p \in Downsampled(g.cloud[c]) : Kept(p, now_, v, clearing, dis, s)}
            due == {c \in Cells : Due(g, c, now_, clearing, s)}
            C == [c \in Cells |-> IF c \in due THEN Left(c) ELSE g.cloud[c]]
            N == [c \in Cells |-> IF c \in due THEN 0 ELSE g.num[c]]
            T == [c \in Cells |-> IF c \in due THEN now_ ELSE g.time[c]]
<1>1. r = [g EXCEPT !.cloud = C, !.num = N, !.time = T]
  BY Zenon DEF Refreshed
<1>2. /\ DOMAIN C = Cells
      /\ \A c \in Cells : /\ C[c] = IF c \in due THEN Left(c) ELSE g.cloud[c]
                          /\ T[c] = IF c \in due THEN now_ ELSE g.time[c]
                          /\ N[c] = IF c \in due THEN 0 ELSE g.num[c]
  <2>. HIDE DEF Left, due
  <2>. QED
    OBVIOUS
<1>. HIDE DEF Left, C, N, T
<1>3. \A c \in Cells :
        IF Due(g, c, now_, clearing, s) THEN C[c] = Left(c) /\ T[c] = now_ /\ N[c] = 0
        ELSE C[c] = g.cloud[c] /\ T[c] = g.time[c] /\ N[c] = g.num[c]
  BY <1>2
<1>. HIDE DEF due
<1>4. r = [shift |-> g.shift, cloud |-> C, num |-> N, time |-> T]
  BY <1>1, GridChanged
<1>5. /\ r = [shift |-> r.shift, cloud |-> r.cloud, num |-> r.num, time |-> r.time]
      /\ r.shift = g.shift /\ r.cloud = C /\ r.time = T /\ r.num = N
  BY <1>4
<1>. QED
  BY <1>2, <1>3, <1>5 DEF Left

(* The clouds move by as many voxels as the grid does.                     *)
LEMMA RollingKeeps ==
    ASSUME NEW g, IsGrid(g), NearTheirVoxels(g), NEW v, v.at \in Int \X Int
    PROVE  /\ IsGrid(Rolled(g, v)) /\ NearTheirVoxels(Rolled(g, v))
           /\ \A i \in {1, 2} : Abs(v.at[i] - VoxelSize * Rolled(g, v).shift[i]) <= VoxelSize
<1>. DEFINE to == Shifted(g, v)
            From(c) == Plus(c, <<to[1] - g.shift[1], to[2] - g.shift[2]>>)
            r == Rolled(g, v)
<1>1. /\ to[1] = ShiftTo(g.shift[1], v.at[1]) /\ to[2] = ShiftTo(g.shift[2], v.at[2])
      /\ to = <<to[1], to[2]>>
  BY DEF Shifted
<1>2. /\ g.shift[1] \in Int /\ g.shift[2] \in Int /\ v.at[1] \in Int /\ v.at[2] \in Int
  BY DEF IsGrid
<1>3. /\ to[1] \in Int /\ to[2] \in Int
      /\ Abs(v.at[1] - VoxelSize * to[1]) <= VoxelSize
      /\ Abs(v.at[2] - VoxelSize * to[2]) <= VoxelSize
  BY <1>1, <1>2, ShiftFollows
<1>4. /\ r = [shift |-> r.shift, cloud |-> r.cloud, num |-> r.num, time |-> r.time]
      /\ r.shift = to
      /\ \A c \in Cells : r.cloud[c] = IF From(c) \in Cells THEN g.cloud[From(c)] ELSE {}
  <2>1. r = Rolled(g, v)
    OBVIOUS
  <2>. HIDE DEF r
  <2>. QED
    BY <2>1, RolledIs
<1>5. IsGrid(r)
  <2>1. to \in Int \X Int
    BY <1>1, <1>3
  <2>. HIDE DEF r, to, From
  <2>. QED
    BY <1>4, <2>1 DEF IsGrid
<1>6. NearTheirVoxels(r)
  <2>. SUFFICES ASSUME NEW c \in Cells, NEW p \in r.cloud[c], NEW i \in {1, 2}
                PROVE  2 * Abs(p.at[i] - VoxelSize * (c[i] - HalfWidth + r.shift[i]))
                         <= 3 * VoxelSize
    BY DEF NearTheirVoxels
  <2>1. From(c) \in Cells /\ p \in g.cloud[From(c)]
    <3>. HIDE DEF r, From
    <3>. QED
      BY <1>4
  <2>2. 2 * Abs(p.at[i] - VoxelSize * (From(c)[i] - HalfWidth + g.shift[i])) <= 3 * VoxelSize
    BY <2>1 DEF NearTheirVoxels
  <2>3. From(c)[i] = c[i] + (to[i] - g.shift[i])
    BY DEF Plus
  <2>4. c[i] \in Int /\ HalfWidth \in Int /\ g.shift[i] \in Int /\ to[i] \in Int
    BY <1>2, <1>3, VoxelGridAssumption DEF Cells, Square
  <2>5. From(c)[i] - HalfWidth + g.shift[i] = c[i] - HalfWidth + to[i]
    <3>. HIDE DEF From, to
    <3>. QED
      BY <2>3, <2>4
  <2>. HIDE DEF From, to, r
  <2>. QED
    BY <1>4, <2>2, <2>5
<1>7. \A i \in {1, 2} : Abs(v.at[i] - VoxelSize * r.shift[i]) <= VoxelSize
  <2>. HIDE DEF to, r, From
  <2>. QED
    BY <1>3, <1>4
<1>. QED
  BY <1>5, <1>6, <1>7

(* A point is stacked within half a voxel of its voxel as the vehicle sees *)
(* it, and the vehicle is within a voxel of the middle.                    *)
LEMMA StackingKeeps ==
    ASSUME NEW g, IsGrid(g), NearTheirVoxels(g), NEW v, v.at \in Int \X Int,
           \A i \in {1, 2} : Abs(v.at[i] - VoxelSize * g.shift[i]) <= VoxelSize,
           NEW given, \A p \in given : StoredPoint(p)
    PROVE  IsGrid(Stacked(g, given, v)) /\ NearTheirVoxels(Stacked(g, given, v))
<1>. DEFINE Into(c) == {p \in given : CellOf(p, v, VoxelSize, HalfWidth) = c}
            r == Stacked(g, given, v)
<1>1. /\ r = [shift |-> r.shift, cloud |-> r.cloud, num |-> r.num, time |-> r.time]
      /\ r.shift = g.shift
      /\ \A c \in Cells : r.cloud[c] = g.cloud[c] \cup Into(c)
  <2>1. r = Stacked(g, given, v)
    OBVIOUS
  <2>. HIDE DEF r
  <2>. QED
    BY <2>1, StackedIs
<1>2. IsGrid(r)
  <2>1. \A c \in Cells : \A p \in r.cloud[c] : StoredPoint(p)
    <3>. HIDE DEF r
    <3>. QED
      BY <1>1 DEF IsGrid
  <2>. HIDE DEF r, Into
  <2>. QED
    BY <1>1, <2>1 DEF IsGrid
<1>3. NearTheirVoxels(r)
  <2>. SUFFICES ASSUME NEW c \in Cells, NEW p \in r.cloud[c], NEW i \in {1, 2}
                PROVE  2 * Abs(p.at[i] - VoxelSize * (c[i] - HalfWidth + g.shift[i]))
                         <= 3 * VoxelSize
    <3>. HIDE DEF r
    <3>. QED
      BY <1>1 DEF NearTheirVoxels
  <2>1. CASE p \in g.cloud[c]
    BY <2>1 DEF NearTheirVoxels
  <2>2. CASE p \in Into(c)
    <3>. DEFINE a == p.at[i]
                b == v.at[i]
                k == c[i] - HalfWidth
                f == g.shift[i]
    <3>1. a \in Int /\ b \in Int /\ f \in Int /\ k \in Int /\ VoxelSize \in Nat \ {0}
      <4>1. StoredPoint(p)
        BY <2>2
      <4>. QED
        BY <4>1, VoxelGridAssumption DEF StoredPoint, IsGrid, Cells, Square
    <3>2. c[i] = Index(a - b, VoxelSize, HalfWidth)
      BY <2>2 DEF CellOf
    <3>3. 2 * Abs((a - b) - VoxelSize * k) <= VoxelSize
      BY <3>1, <3>2, IndexIsNear
    <3>4. Abs(b - VoxelSize * f) <= VoxelSize
      OBVIOUS
    <3>5. VoxelSize * (k + f) = VoxelSize * k + VoxelSize * f
      <4>. HIDE DEF k, f
      <4>. QED
        BY <3>1
    <3>6. VoxelSize * k \in Int /\ VoxelSize * f \in Int
      <4>. HIDE DEF k, f
      <4>. QED
        BY <3>1
    <3>. HIDE DEF a, b, k, f
    <3>7. 2 * Abs(a - VoxelSize * (k + f)) <= 3 * VoxelSize
      BY <3>1, <3>3, <3>4, <3>5, <3>6 DEF Abs
    <3>. QED
      BY <3>7 DEF a, k, f
  <2>3. p \in g.cloud[c] \/ p \in Into(c)
    <3>. HIDE DEF r
    <3>. QED
      BY <1>1
  <2>. QED
    BY <2>1, <2>2, <2>3
<1>. QED
  BY <1>2, <1>3

(* Going through a voxel moves no point.                                   *)
LEMMA RefreshingKeeps ==
    ASSUME NEW g, IsGrid(g), NearTheirVoxels(g), NEW now_, NEW v, NEW clearing, NEW dis, NEW s
    PROVE  /\ IsGrid(Refreshed(g, now_, v, clearing, dis, s))
           /\ NearTheirVoxels(Refreshed(g, now_, v, clearing, dis, s))
<1>. DEFINE r == Refreshed(g, now_, v, clearing, dis, s)
<1>1. /\ r = [shift |-> r.shift, cloud |-> r.cloud, num |-> r.num, time |-> r.time]
      /\ r.shift = g.shift
      /\ \A c \in Cells : r.cloud[c] \subseteq g.cloud[c] \cup Downsampled(g.cloud[c])
  <2>1. r = Refreshed(g, now_, v, clearing, dis, s)
    OBVIOUS
  <2>. HIDE DEF r
  <2>. QED
    BY <2>1, RefreshedIs
<1>2. ASSUME NEW c \in Cells, NEW p \in Downsampled(g.cloud[c])
      PROVE  StoredPoint(p) /\ \E q \in g.cloud[c] : q.at = p.at
  <2>1. PICK q \in g.cloud[c] : \E t : p = [q EXCEPT !.time = t]
    BY DEF Downsampled
  <2>2. StoredPoint(q)
    BY DEF IsGrid
  <2>. QED
    BY <2>1, <2>2 DEF StoredPoint
<1>. HIDE DEF r
<1>3. IsGrid(r)
  BY <1>1, <1>2 DEF IsGrid
<1>4. NearTheirVoxels(r)
  BY <1>1, <1>2 DEF NearTheirVoxels
<1>. QED
  BY <1>3, <1>4 DEF r

(* A round of the pipeline.                                                *)
LEMMA RoundKeeps ==
    ASSUME NEW g, IsGrid(g), NearTheirVoxels(g), NEW v, v.at \in Int \X Int,
           NEW given, \A p \in given : StoredPoint(p),
           NEW now_, NEW clearing, NEW dis, NEW s, NEW next,
           next = Refreshed(Stacked(Rolled(g, v), given, v), now_, v, clearing, dis, s)
    PROVE  IsGrid(next) /\ NearTheirVoxels(next)
<1>1. /\ IsGrid(Rolled(g, v)) /\ NearTheirVoxels(Rolled(g, v))
      /\ \A i \in {1, 2} : Abs(v.at[i] - VoxelSize * Rolled(g, v).shift[i]) <= VoxelSize
  BY RollingKeeps
<1>2. /\ IsGrid(Stacked(Rolled(g, v), given, v))
      /\ NearTheirVoxels(Stacked(Rolled(g, v), given, v))
  BY <1>1, StackingKeeps
<1>. QED
  BY <1>2, RefreshingKeeps

(* The points of a scan are of one stamp.                                  *)
LEMMA ScanIsStorable ==
    ASSUME NEW sweep, \A p \in sweep : p.at \in Int \X Int, NEW stamp, NEW given,
           \A p \in given : \E q \in sweep : p = [at |-> q.at, z |-> q.z, time |-> stamp]
    PROVE  \A p \in given : StoredPoint(p)
BY DEF StoredPoint

LEMMA EmptyGridIsOne == IsGrid(EmptyGrid) /\ NearTheirVoxels(EmptyGrid)
<1>1. \A c \in Cells : EmptyGrid.cloud[c] = {}
  BY DEF EmptyGrid
<1>. QED
  BY <1>1 DEF EmptyGrid, IsGrid, NearTheirVoxels

(* What the points are stored and placed by; and what noDataInited says:   *)
(* the place of rec was seen since the map was cleared, and one far enough *)
(* from another if it is 2.                                                *)
TerrainInv ==
    /\ IsGrid(grid) /\ NearTheirVoxels(grid)
    /\ vehicle.at \in Int \X Int /\ \A p \in crop : StoredPoint(p)
    /\ noDataInited \in 0..2 /\ (noDataInited # 0 => rec \in seen)
    /\ noDataInited = 2 => \E p, q \in seen : Dist(p, q) >= settings.no_decay_dis

ExtInv ==
    /\ IsGrid(ext_grid) /\ NearTheirVoxels(ext_grid)
    /\ ext_vehicle.at \in Int \X Int /\ \A p \in ext_crop : StoredPoint(p)

LEMMA TerrainInitially == TerrainInit => TerrainInv
  BY EmptyGridIsOne DEF TerrainInit, TerrainInv

LEMMA TerrainInductive == TerrainInv /\ [TerrainNext]_terrainVars => TerrainInv'
<1>. SUFFICES ASSUME TerrainInv, [TerrainNext]_terrainVars PROVE TerrainInv'
  OBVIOUS
<1>1. ASSUME NEW v \in Vehicles, odometryHandler(v) PROVE TerrainInv'
  <2>1. UNCHANGED <<grid, crop, settings>> /\ vehicle' = v /\ v.at \in Int \X Int
    BY <1>1, TerrainAssumption DEF odometryHandler
  <2>2. /\ rec' = IF noDataInited = 0 THEN v.at ELSE rec
        /\ noDataInited' = IF noDataInited = 2 \/ Dist(v.at, rec') >= settings.no_decay_dis
                           THEN 2 ELSE 1
        /\ seen' = seen \cup {v.at}
    BY <1>1 DEF odometryHandler
  <2>3. rec' \in seen' /\ v.at \in seen' /\ seen \subseteq seen' /\ noDataInited' \in {1, 2}
    BY <2>2 DEF TerrainInv
  <2>4. noDataInited' = 2 => \E p, q \in seen' : Dist(p, q) >= settings.no_decay_dis
    <3>1. CASE noDataInited = 2
      BY <2>3, <3>1 DEF TerrainInv
    <3>2. CASE Dist(v.at, rec') >= settings.no_decay_dis
      BY <2>3, <3>2
    <3>. QED
      BY <2>2, <3>1, <3>2
  <2>. QED
    BY <2>1, <2>3, <2>4 DEF TerrainInv
<1>2. ASSUME NEW sweep \in Scans, laserCloudHandler(sweep) PROVE TerrainInv'
  <2>1. \A p \in crop' : StoredPoint(p)
    <3>1. \A p \in sweep : p.at \in Int \X Int
      BY TerrainAssumption
    <3>2. \A p \in crop' : \E q \in sweep : p = [at |-> q.at, z |-> q.z, time |-> now']
      BY <1>2 DEF laserCloudHandler, Cropped
    <3>. QED
      BY <3>1, <3>2, ScanIsStorable
  <2>2. UNCHANGED <<settings, vehicle, rec, noDataInited, grid, seen>>
    BY <1>2 DEF laserCloudHandler
  <2>. QED
    BY <2>1, <2>2 DEF TerrainInv
<1>3. ASSUME NEW dis, Clear(dis) PROVE TerrainInv'
  BY <1>3 DEF Clear, TerrainInv
<1>4. CASE Pipeline
  <2>1. IsGrid(grid') /\ NearTheirVoxels(grid')
    <3>1. grid' = Refreshed(Stacked(Rolled(grid, vehicle), crop, vehicle), now, vehicle,
                            clearingCloud, clearing_dis, settings)
      BY <1>4 DEF Pipeline
    <3>. QED
      BY <3>1, RoundKeeps DEF TerrainInv
  <2>2. UNCHANGED <<settings, vehicle, rec, noDataInited, crop, seen>>
    BY <1>4 DEF Pipeline
  <2>. QED
    BY <2>1, <2>2 DEF TerrainInv
<1>5. CASE UNCHANGED terrainVars
  BY <1>5 DEF terrainVars, TerrainInv
<1>. QED
  BY <1>1, <1>2, <1>3, <1>4, <1>5 DEF TerrainNext, clearingHandler, joystickHandler

LEMMA ExtInitially == ExtInit => ExtInv
  BY EmptyGridIsOne DEF ExtInit, ExtInv

LEMMA ExtInductive == ExtInv /\ [ExtNext]_extVars => ExtInv'
<1>. SUFFICES ASSUME ExtInv, [ExtNext]_extVars PROVE ExtInv'
  OBVIOUS
<1>1. ASSUME NEW v \in ExtVehicles, extOdometryHandler(v) PROVE ExtInv'
  BY <1>1, ExtAssumption DEF extOdometryHandler, ExtInv
<1>2. ASSUME NEW sweep \in ExtScans, extLaserCloudHandler(sweep) PROVE ExtInv'
  <2>1. \A p \in ext_crop' : StoredPoint(p)
    <3>1. \A p \in sweep : p.at \in Int \X Int
      BY ExtAssumption
    <3>2. \A p \in ext_crop' : \E q \in sweep : p = [at |-> q.at, z |-> q.z, time |-> ext_now']
      BY <1>2 DEF extLaserCloudHandler, Cropped
    <3>. QED
      BY <3>1, <3>2, ScanIsStorable
  <2>. QED
    BY <1>2, <2>1 DEF extLaserCloudHandler, ExtInv
<1>3. CASE ExtPipeline
  <2>1. IsGrid(ext_grid') /\ NearTheirVoxels(ext_grid')
    <3>1. ext_grid' = Refreshed(Stacked(Rolled(ext_grid, ext_vehicle), ext_crop, ext_vehicle),
                                ext_now, ext_vehicle, ext_clearing, ext_clearing_dis,
                                ext_settings)
      BY <1>3 DEF ExtPipeline, ExtRefreshed, ExtStacked, ExtRolled
    <3>. QED
      BY <3>1, RoundKeeps DEF ExtInv
  <2>. QED
    BY <1>3, <2>1 DEF ExtPipeline, ExtInv
<1>4. ASSUME \/ \E map \in LocalMaps : terrainCloudLocalHandler(map)
             \/ \E dis \in ExtClearingDis \cup {ext_clearing_dis} : extClearingHandler(dis)
             \/ Search \/ SearchEnds \/ ExtPublish \/ UNCHANGED extVars
      PROVE  ExtInv'
  <2>1. UNCHANGED <<ext_grid, ext_vehicle, ext_crop>>
    BY <1>4 DEF terrainCloudLocalHandler, extClearingHandler, Search, SearchEnds, ExtPublish,
                extVars
  <2>. QED
    BY <2>1 DEF ExtInv
<1>. QED
  BY <1>1, <1>2, <1>3, <1>4 DEF ExtNext

(* In both terrain maps every point stays within a voxel and a half of     *)
(* where its voxel lies, on any grid, on any way of the vehicle, however   *)
(* often the grid rolls and whatever is stacked, cleared and downsampled   *)
(* between.                                                                *)
THEOREM PointsStayInPlace == TerrainSpec /\ ExtSpec => []VoxelsHoldTheirPoints
<1>1. TerrainInv /\ ExtInv => VoxelsHoldTheirPoints
  BY DEF TerrainInv, ExtInv, VoxelsHoldTheirPoints
<1>. QED
  BY <1>1, TerrainInitially, TerrainInductive, ExtInitially, ExtInductive, PTL
     DEF TerrainSpec, ExtSpec

(* Missing data becomes an obstacle only after the vehicle has moved: on   *)
(* every run, with any clearing between, two of the places it was at since *)
(* then lie no_decay_dis apart.                                            *)
THEOREM MissingDataWaits == TerrainSpec => UnseenOnlyAfterMoving
<1>. DEFINE Moved == newlaserCloud /\ ~newlaserCloud' /\ published'.edges # {} =>
                        \E p, q \in seen : Dist(p, q) >= settings.no_decay_dis
<1>1. TerrainInv /\ [TerrainNext]_terrainVars => [Moved]_terrainVars
  <2>. SUFFICES ASSUME TerrainInv, TerrainNext, newlaserCloud, ~newlaserCloud',
                       published'.edges # {}
                PROVE  \E p, q \in seen : Dist(p, q) >= settings.no_decay_dis
    OBVIOUS
  <2>1. Pipeline
    BY DEF TerrainNext, odometryHandler, laserCloudHandler, clearingHandler, joystickHandler,
           Clear
  <2>2. noDataInited = 2
    BY <2>1 DEF Pipeline
  <2>. QED
    BY <2>2 DEF TerrainInv
<1>. QED
  BY <1>1, TerrainInitially, TerrainInductive, PTL DEF TerrainSpec, UnseenOnlyAfterMoving

-----------------------------------------------------------------------------
(* What a point's time adds up from, for any function on sets of points.   *)
One(U) == CHOOSE x \in U : TRUE
SumBy(f, U) == IF U = {} THEN 0 ELSE One(U).time + f[U \ {One(U)}]

(* The point taken from a set leaves one fewer.                            *)
LEMMA OneTaken ==
    ASSUME NEW U, U # {}, IsFiniteSet(U)
    PROVE  /\ One(U) \in U /\ U \ {One(U)} \subseteq U /\ IsFiniteSet(U \ {One(U)})
           /\ Cardinality(U) \in Nat /\ Cardinality(U \ {One(U)}) \in Nat
           /\ Cardinality(U \ {One(U)}) = Cardinality(U) - 1
<1>1. One(U) \in U
  BY DEF One
<1>2. IsFiniteSet(U \ {One(U)}) /\ Cardinality(U \ {One(U)}) = Cardinality(U) - 1
  BY <1>1, FS_RemoveElement
<1>. QED
  BY <1>1, <1>2, FS_CardinalityType

(* There is a function that adds the times up, set by set.                 *)
LEMMA SumExists ==
    ASSUME NEW S, IsFiniteSet(S)
    PROVE  \E f : f = [U \in SUBSET S |-> SumBy(f, U)]
<1>. DEFINE Small(k) == {U \in SUBSET S : Cardinality(U) <= k}
            Sums(f, k) == f = [U \in Small(k) |-> SumBy(f, U)]
            bad == {k \in Nat : ~\E f : Sums(f, k)}
<1>1. \A U \in SUBSET S : IsFiniteSet(U) /\ Cardinality(U) \in Nat
  BY FS_Subset, FS_CardinalityType
<1>2. ASSUME bad # {} PROVE FALSE
  <2>1. PICK k \in bad : \A j \in bad : k <= j
    BY <1>2, LeastExists
  <2>2. k # 0
    <3>. DEFINE f == [U \in Small(0) |-> 0]
    <3>1. \A U \in Small(0) : U = {}
      <4>. SUFFICES ASSUME NEW U \in SUBSET S, Cardinality(U) <= 0 PROVE U = {}
        OBVIOUS
      <4>1. IsFiniteSet(U) /\ Cardinality(U) = 0
        BY <1>1
      <4>. QED
        BY <4>1, FS_EmptySet
    <3>2. \A U \in Small(0) : SumBy(f, U) = 0
      BY <3>1 DEF SumBy
    <3>3. Sums(f, 0)
      BY <3>2
    <3>. QED
      BY <3>3
  <2>3. k \in Nat /\ k - 1 \in Nat /\ k - 1 \notin bad
    <3>1. k \in Nat
      BY <2>1
    <3>2. k - 1 \in Nat /\ ~(k <= k - 1)
      BY <2>2, <3>1
    <3>. HIDE DEF bad
    <3>. QED
      BY <2>1, <3>1, <3>2
  <2>4. PICK f : Sums(f, k - 1)
    BY <2>3
  <2>. DEFINE g == [U \in Small(k) |-> SumBy(f, U)]
  <2>5. Small(k - 1) \subseteq Small(k)
    BY <1>1, <2>3
  <2>6. \A U \in Small(k - 1) : g[U] = f[U]
    <3>1. \A U \in Small(k - 1) : f[U] = SumBy(f, U)
      <4>. HIDE DEF Small
      <4>. QED
        BY <2>4
    <3>2. \A U \in Small(k) : g[U] = SumBy(f, U)
      <4>. HIDE DEF Small
      <4>. QED
        OBVIOUS
    <3>. HIDE DEF Small, g
    <3>. QED
      BY <2>5, <3>1, <3>2
  <2>7. \A U \in Small(k) : SumBy(g, U) = SumBy(f, U)
    <3>. SUFFICES ASSUME NEW U \in Small(k), U # {} PROVE SumBy(g, U) = SumBy(f, U)
      BY DEF SumBy
    <3>1. U \ {One(U)} \in Small(k - 1)
      <4>1. /\ U \ {One(U)} \subseteq U /\ Cardinality(U) \in Nat
            /\ Cardinality(U \ {One(U)}) = Cardinality(U) - 1
        BY <1>1, OneTaken
      <4>. QED
        BY <2>3, <4>1
    <3>. HIDE DEF Small, g
    <3>. QED
      BY <2>6, <3>1 DEF SumBy
  <2>8. Sums(g, k)
    <3>. HIDE DEF Small
    <3>1. g = [U \in Small(k) |-> SumBy(g, U)]
      BY <2>7
    <3>. QED
      BY <3>1
  <2>. QED
    BY <2>1, <2>8
<1>3. Cardinality(S) \in Nat /\ Small(Cardinality(S)) = SUBSET S
  BY <1>1, FS_Subset, FS_CardinalityType
<1>4. PICK f : Sums(f, Cardinality(S))
  BY <1>2, <1>3
<1>5. f = [U \in SUBSET S |-> SumBy(f, U)]
  <2>. HIDE DEF Small
  <2>. QED
    BY <1>3, <1>4
<1>. QED
  BY <1>5

(* The sum of the times of a finite set lies where adding them one by one  *)
(* leads, G[k] being where k of them may lead.                             *)
LEMMA SumsLieIn ==
    ASSUME NEW S, IsFiniteSet(S), NEW G, 0 \in G[0],
           \A k \in Nat : \A x \in G[k] : \A q \in S : q.time + x \in G[k + 1]
    PROVE  LET Stamp(q) == q.time IN MapThenSumSet(Stamp, S) \in G[Cardinality(S)]
<1>. DEFINE iter == CHOOSE f : f = [U \in SUBSET S |-> SumBy(f, U)]
            bad == {U \in SUBSET S : iter[U] \notin G[Cardinality(U)]}
            sizes == {Cardinality(U) : U \in bad}
<1>. SUFFICES iter[S] \in G[Cardinality(S)]
  BY DEF MapThenSumSet, MapThenFoldSet, SumBy, One
<1>1. iter = [U \in SUBSET S |-> SumBy(iter, U)]
  BY SumExists
<1>. HIDE DEF iter
<1>2. \A U \in SUBSET S : iter[U] = SumBy(iter, U)
  BY <1>1
<1>3. \A U \in SUBSET S : IsFiniteSet(U) /\ Cardinality(U) \in Nat
  BY FS_Subset, FS_CardinalityType
<1>4. ASSUME bad # {} PROVE FALSE
  <2>1. sizes \subseteq Nat /\ sizes # {}
    BY <1>3, <1>4
  <2>2. PICK n \in sizes : \A m \in sizes : n <= m
    <3>. HIDE DEF sizes
    <3>. QED
      BY <2>1, LeastExists
  <2>3. PICK U \in bad : Cardinality(U) = n
    BY <2>2
  <2>4. iter[U] = SumBy(iter, U) /\ U # {}
    <3>1. iter[{}] = 0 /\ Cardinality({}) = 0
      BY <1>2, FS_EmptySet DEF SumBy
    <3>2. iter[U] \notin G[Cardinality(U)] /\ U \in SUBSET S
      BY <2>3
    <3>3. U # {}
      BY <3>1, <3>2
    <3>. QED
      BY <1>2, <3>2, <3>3
  <2>5. /\ One(U) \in U /\ U \ {One(U)} \subseteq U /\ Cardinality(U) \in Nat
        /\ Cardinality(U \ {One(U)}) \in Nat /\ Cardinality(U \ {One(U)}) = Cardinality(U) - 1
    BY <1>3, <2>4, OneTaken
  <2>6. U \ {One(U)} \in SUBSET S /\ One(U) \in S
    BY <2>5
  <2>7. U \ {One(U)} \notin bad
    <3>1. ASSUME U \ {One(U)} \in bad PROVE n <= Cardinality(U \ {One(U)})
      BY <2>2, <3>1
    <3>. QED
      BY <2>3, <2>5, <3>1
  <2>8. iter[U \ {One(U)}] \in G[Cardinality(U \ {One(U)})]
    BY <2>6, <2>7
  <2>9. iter[U] \in G[Cardinality(U)]
    <3>1. One(U).time + iter[U \ {One(U)}] \in G[Cardinality(U \ {One(U)}) + 1]
      BY <2>5, <2>6, <2>8
    <3>2. Cardinality(U \ {One(U)}) + 1 = Cardinality(U)
      BY <2>5
    <3>. QED
      BY <2>4, <3>1, <3>2 DEF SumBy
  <2>. QED
    BY <2>3, <2>9
<1>. QED
  BY <1>4

(* The sum of whole numbers is one, however many they are.                 *)
LEMMA SumIsNumber ==
    ASSUME NEW S, IsFiniteSet(S), \A q \in S : q.time \in Int
    PROVE  LET Stamp(q) == q.time IN MapThenSumSet(Stamp, S) \in Int
<1>. DEFINE G == [k \in Nat |-> Int]
            Stamp(q) == q.time
<1>1. 0 \in G[0] /\ \A k \in Nat : \A x \in G[k] : \A q \in S : q.time + x \in G[k + 1]
  OBVIOUS
<1>2. Cardinality(S) \in Nat /\ \A k \in Nat : G[k] = Int
  BY FS_CardinalityType
<1>. HIDE DEF G
<1>3. MapThenSumSet(Stamp, S) \in G[Cardinality(S)]
  BY <1>1, SumsLieIn
<1>. QED
  BY <1>2, <1>3

(* The mean of numbers up to m is not above m.                             *)
LEMMA MeanIsBetween ==
    ASSUME NEW S, IsFiniteSet(S), S # {}, NEW m \in Nat, \A q \in S : q.time \in 0..m
    PROVE  LET Stamp(q) == q.time IN MapThenSumSet(Stamp, S) \div Cardinality(S) \in 0..m
<1>. DEFINE G == [k \in Nat |-> 0..m * k]
            Stamp(q) == q.time
            n == Cardinality(S)
            sum == MapThenSumSet(Stamp, S)
<1>1. \A k \in Nat : G[k] = 0..m * k
  OBVIOUS
<1>2. \A k \in Nat : m * k \in Nat /\ m * (k + 1) = m * k + m
  OBVIOUS
<1>. HIDE DEF G
<1>3. 0 \in G[0]
  BY <1>1
<1>4. ASSUME NEW k \in Nat, NEW x \in G[k], NEW q \in S PROVE q.time + x \in G[k + 1]
  <2>1. x \in 0..m * k
    BY <1>1
  <2>2. q.time \in 0..m
    OBVIOUS
  <2>3. k + 1 \in Nat /\ G[k + 1] = 0..m * (k + 1)
    BY <1>1
  <2>. HIDE DEF Stamp
  <2>. QED
    BY <1>2, <2>1, <2>2, <2>3
<1>5. sum \in G[n]
  BY <1>3, <1>4, SumsLieIn
<1>6. n \in Nat \ {0}
  BY FS_CardinalityType, FS_EmptySet
<1>7. sum \in 0..m * n
  BY <1>1, <1>5, <1>6
<1>. HIDE DEF sum, n
<1>8. sum \div n \in 0..m
  <2>1. sum \div n \in Int /\ sum % n \in 0..(n - 1) /\ sum = n * (sum \div n) + (sum % n)
    BY <1>2, <1>6, <1>7, Division
  <2>. DEFINE d == sum \div n
  <2>. HIDE DEF d
  <2>2. ~(d < 0)
    <3>1. ASSUME d < 0 PROVE n * d <= -n
      BY <1>6, <2>1, <3>1 DEF d
    <3>. QED
      BY <1>2, <1>6, <1>7, <2>1, <3>1 DEF d
  <2>3. ~(d > m)
    <3>1. ASSUME d > m PROVE n * d >= n * (m + 1)
      <4>0. d \in Int
        BY <2>1 DEF d
      <4>1. PICK e \in Nat : d = (m + 1) + e
        <5>1. d - (m + 1) \in Nat /\ d = (m + 1) + (d - (m + 1))
          BY <3>1, <4>0
        <5>. QED
          BY <5>1
      <4>2. \A a \in Nat : \A i, j \in Nat : a * (i + j) = a * i + a * j /\ a * i \in Nat
        OBVIOUS
      <4>3. n * d = n * (m + 1) + n * e /\ n * e \in Nat /\ n * (m + 1) \in Nat
        BY <1>6, <4>1, <4>2
      <4>. QED
        BY <4>3
    <3>2. n * (m + 1) = m * n + n
      BY <1>6
    <3>. QED
      BY <1>2, <1>6, <1>7, <2>1, <3>1, <3>2 DEF d
  <2>. QED
    BY <2>1, <2>2, <2>3 DEF d
<1>. QED
  BY <1>8 DEF sum, n

(* How old the points of a grid are that moved at old for the last time: a *)
(* voxel gone through since has none left that had decayed by then, but    *)
(* for what came after.                                                    *)
Aging(g, old, s) ==
    \A c \in Cells :
        /\ IsFiniteSet(g.cloud[c]) /\ g.time[c] \in Int
        /\ \A p \in g.cloud[c] : p.time \in Int
        /\ s.no_decay_dis = 0 /\ old < g.time[c]
             => \A p \in g.cloud[c] : g.time[c] - p.time < s.decay \/ g.time[c] <= p.time

(* When the grid moves, no voxel has been gone through since.              *)
LEMMA RolledAges ==
    ASSUME NEW g, IsGrid(g), NEW old \in Int, NEW s, Aging(g, old, s), NEW v, NEW now_ \in Int,
           \A c \in Cells : g.time[c] <= now_,
           NEW r, r = Rolled(g, v), NEW new, new = IF r.shift = g.shift THEN old ELSE now_
    PROVE  /\ Aging(r, new, s) /\ new \in Int
           /\ \A c \in Cells : r.time[c] <= now_
<1>. DEFINE to == Shifted(g, v)
            From(c) == Plus(c, <<to[1] - g.shift[1], to[2] - g.shift[2]>>)
<1>1. /\ r.shift = to /\ r.time = g.time
      /\ \A c \in Cells : r.cloud[c] = IF From(c) \in Cells THEN g.cloud[From(c)] ELSE {}
  BY RolledIs
<1>2. ASSUME r.shift = g.shift, NEW c \in Cells PROVE r.cloud[c] = g.cloud[c]
  <2>1. to[1] - g.shift[1] = 0 /\ to[2] - g.shift[2] = 0
    <3>1. g.shift[1] \in Int /\ g.shift[2] \in Int
      BY DEF IsGrid
    <3>. HIDE DEF to
    <3>. QED
      BY <1>1, <1>2, <3>1
  <2>2. Plus(c, <<0, 0>>) = c
    BY VoxelGridAssumption DEF Plus, Cells, Square
  <2>3. From(c) = c
    BY <2>1, <2>2
  <2>. HIDE DEF From, to
  <2>. QED
    BY <1>1, <2>3
<1>. HIDE DEF to, From
<1>3. ASSUME NEW c \in Cells
      PROVE  /\ IsFiniteSet(r.cloud[c]) /\ r.time[c] \in Int
             /\ \A p \in r.cloud[c] : p.time \in Int
  <2>1. IsFiniteSet({})
    BY FS_EmptySet
  <2>2. r.cloud[c] = {} \/ \E d \in Cells : r.cloud[c] = g.cloud[d]
    BY <1>1
  <2>. QED
    BY <1>1, <2>1, <2>2 DEF Aging
<1>4. ASSUME NEW c \in Cells, s.no_decay_dis = 0, new < r.time[c], NEW p \in r.cloud[c]
      PROVE  r.time[c] - p.time < s.decay \/ r.time[c] <= p.time
  <2>1. CASE r.shift = g.shift
    BY <1>1, <1>2, <1>4, <2>1 DEF Aging
  <2>2. CASE r.shift # g.shift
    <3>1. new = now_ /\ r.time[c] <= now_ /\ r.time[c] \in Int
      BY <1>1, <2>2 DEF Aging
    <3>. QED
      BY <1>4, <3>1
  <2>. QED
    BY <2>1, <2>2
<1>. QED
  BY <1>1, <1>3, <1>4 DEF Aging

(* What is stacked is of now.                                              *)
LEMMA StackedAges ==
    ASSUME NEW g, IsGrid(g), NEW old, NEW s, Aging(g, old, s), NEW v, NEW now_ \in Int,
           \A c \in Cells : g.time[c] <= now_,
           NEW given, IsFiniteSet(given), \A p \in given : p.time = now_,
           NEW r, r = Stacked(g, given, v)
    PROVE  Aging(r, old, s) /\ \A c \in Cells : r.time[c] <= now_
<1>. DEFINE Into(c) == {p \in given : CellOf(p, v, VoxelSize, HalfWidth) = c}
<1>1. r.time = g.time /\ \A c \in Cells : r.cloud[c] = g.cloud[c] \cup Into(c)
  BY StackedIs
<1>2. ASSUME NEW c \in Cells
      PROVE  /\ IsFiniteSet(r.cloud[c]) /\ r.time[c] \in Int
             /\ \A p \in r.cloud[c] : p.time \in Int
  <2>1. IsFiniteSet(g.cloud[c]) /\ IsFiniteSet(Into(c))
    BY FS_Subset DEF Aging
  <2>2. IsFiniteSet(r.cloud[c])
    <3>. HIDE DEF Into
    <3>. QED
      <4>1. IsFiniteSet(g.cloud[c] \cup Into(c))
        BY <2>1, FS_Union
      <4>. QED
        BY <1>1, <4>1
  <2>. QED
    BY <1>1, <2>2 DEF Aging
<1>3. ASSUME NEW c \in Cells, s.no_decay_dis = 0, old < r.time[c], NEW p \in r.cloud[c]
      PROVE  r.time[c] - p.time < s.decay \/ r.time[c] <= p.time
  <2>1. p \in g.cloud[c] \/ p.time = now_
    BY <1>1
  <2>. QED
    BY <1>1, <1>3, <2>1 DEF Aging
<1>. QED
  BY <1>1, <1>2, <1>3 DEF Aging

(* A point made of several has a time, whatever their times were, and none *)
(* later than all of them.                                                 *)
LEMMA DownsampledTimes ==
    ASSUME NEW cloud, IsFiniteSet(cloud), \A p \in cloud : StoredPoint(p) /\ p.time \in Int
    PROVE  /\ IsFiniteSet(Downsampled(cloud))
           /\ \A p \in Downsampled(cloud) : p.time \in Int /\ p.at \in Int \X Int
           /\ \A m \in Nat : (\A p \in cloud : p.time \in 0..m)
                              => \A p \in Downsampled(cloud) : p.time \in 0..m
<1>. DEFINE Leaf(p) == {q \in cloud : q.at = p.at /\ q.z = p.z}
            Stamp(q) == q.time
            Mean(p) == MapThenSumSet(Stamp, Leaf(p)) \div Cardinality(Leaf(p))
<1>1. Downsampled(cloud) = {[p EXCEPT !.time = Mean(p)] : p \in cloud}
  BY DEF Downsampled
<1>2. ASSUME NEW p \in cloud PROVE Mean(p) \in Int
  <2>1. /\ IsFiniteSet(Leaf(p)) /\ Leaf(p) # {}
        /\ \A q \in Leaf(p) : q.time \in Int
    BY FS_Subset
  <2>2. Cardinality(Leaf(p)) \in Nat \ {0}
    <3>. HIDE DEF Leaf
    <3>. QED
      BY <2>1, FS_CardinalityType, FS_EmptySet
  <2>3. MapThenSumSet(Stamp, Leaf(p)) \in Int
    <3>. HIDE DEF Leaf
    <3>. QED
      BY <2>1, SumIsNumber
  <2>4. \A a \in Int : \A n \in Nat \ {0} : a \div n \in Int
    BY Division
  <2>. QED
    BY <2>2, <2>3, <2>4
<1>3. ASSUME NEW m \in Nat, \A q \in cloud : q.time \in 0..m, NEW p \in cloud
      PROVE  Mean(p) \in 0..m
  <2>1. IsFiniteSet(Leaf(p)) /\ Leaf(p) # {} /\ \A q \in Leaf(p) : q.time \in 0..m
    BY <1>3, FS_Subset
  <2>. HIDE DEF Leaf
  <2>. QED
    BY <2>1, MeanIsBetween
<1>. HIDE DEF Mean
<1>4. IsFiniteSet(Downsampled(cloud))
  <2>. DEFINE f == [p \in cloud |-> [p EXCEPT !.time = Mean(p)]]
  <2>1. DOMAIN f = cloud /\ Downsampled(cloud) = {f[p] : p \in cloud}
    BY <1>1
  <2>. HIDE DEF f
  <2>. QED
    BY <2>1, FiniteImage
<1>5. \A p \in Downsampled(cloud) : p.time \in Int /\ p.at \in Int \X Int
  <2>. SUFFICES ASSUME NEW p \in cloud
                PROVE  /\ [p EXCEPT !.time = Mean(p)].time \in Int
                       /\ [p EXCEPT !.time = Mean(p)].at \in Int \X Int
    BY <1>1
  <2>. QED
    BY <1>2 DEF StoredPoint
<1>6. ASSUME NEW m \in Nat, \A q \in cloud : q.time \in 0..m, NEW p \in Downsampled(cloud)
      PROVE  p.time \in 0..m
  <2>1. PICK q \in cloud : p = [q EXCEPT !.time = Mean(q)]
    BY <1>1
  <2>2. p.time = Mean(q)
    BY <2>1 DEF StoredPoint
  <2>. QED
    BY <1>3, <1>6, <2>2
<1>. QED
  BY <1>4, <1>5, <1>6

(* A voxel is gone through when it is due, and then nothing is left in it  *)
(* that has decayed.                                                       *)
LEMMA RefreshedAges ==
    ASSUME NEW g, IsGrid(g), NEW old, NEW s, Aging(g, old, s), s.time_thre \in Nat \ {0},
           NEW v, v.at \in Int \X Int, NEW now_ \in Int, \A c \in Cells : g.time[c] <= now_,
           NEW clearing, NEW dis, NEW r, r = Refreshed(g, now_, v, clearing, dis, s)
    PROVE  /\ Aging(r, old, s)
           /\ \A c \in Cells : r.time[c] <= now_ /\ now_ - r.time[c] < s.time_thre
<1>1. \A c \in Cells : IF Due(g, c, now_, clearing, s)
                       THEN /\ r.cloud[c] = {p \in Downsampled(g.cloud[c]) :
                                               Kept(p, now_, v, clearing, dis, s)}
                            /\ r.time[c] = now_
                       ELSE r.cloud[c] = g.cloud[c] /\ r.time[c] = g.time[c]
  BY RefreshedIs
<1>2. ASSUME NEW c \in Cells
      PROVE  /\ IsFiniteSet(Downsampled(g.cloud[c]))
             /\ \A p \in Downsampled(g.cloud[c]) : p.time \in Int /\ p.at \in Int \X Int
  <2>1. IsFiniteSet(g.cloud[c]) /\ \A p \in g.cloud[c] : StoredPoint(p) /\ p.time \in Int
    BY DEF IsGrid, Aging
  <2>. QED
    BY <2>1, DownsampledTimes
<1>3. ASSUME NEW c \in Cells, Due(g, c, now_, clearing, s)
      PROVE  /\ IsFiniteSet(r.cloud[c]) /\ r.time[c] = now_
             /\ \A p \in r.cloud[c] :
                   /\ p.time \in Int
                   /\ s.no_decay_dis = 0 => now_ - p.time < s.decay
  <2>1. r.cloud[c] \subseteq Downsampled(g.cloud[c]) /\ r.time[c] = now_
    BY <1>1, <1>3
  <2>2. IsFiniteSet(r.cloud[c])
    BY <1>2, <2>1, FS_Subset
  <2>3. ASSUME NEW p \in r.cloud[c], s.no_decay_dis = 0 PROVE now_ - p.time < s.decay
    <3>1. p.at \in Int \X Int /\ Kept(p, now_, v, clearing, dis, s)
      BY <1>1, <1>2, <1>3
    <3>2. ~(Dist(p.at, v.at) < 0)
      BY <3>1 DEF Dist, Abs
    <3>. QED
      BY <2>3, <3>1, <3>2 DEF Kept
  <2>. QED
    BY <1>2, <2>1, <2>2, <2>3
<1>4. Aging(r, old, s)
  <2>. SUFFICES ASSUME NEW c \in Cells
                PROVE  /\ IsFiniteSet(r.cloud[c]) /\ r.time[c] \in Int
                       /\ \A p \in r.cloud[c] : p.time \in Int
                       /\ s.no_decay_dis = 0 /\ old < r.time[c]
                            => \A p \in r.cloud[c] : \/ r.time[c] - p.time < s.decay
                                                     \/ r.time[c] <= p.time
    BY DEF Aging
  <2>1. CASE Due(g, c, now_, clearing, s)
    BY <1>3, <2>1
  <2>2. CASE ~Due(g, c, now_, clearing, s)
    BY <1>1, <2>2 DEF Aging
  <2>. QED
    BY <2>1, <2>2
<1>5. ASSUME NEW c \in Cells PROVE r.time[c] <= now_ /\ now_ - r.time[c] < s.time_thre
  <2>1. CASE Due(g, c, now_, clearing, s)
    BY <1>3, <2>1
  <2>2. CASE ~Due(g, c, now_, clearing, s)
    <3>1. r.time[c] = g.time[c] /\ r.time[c] \in Int
      BY <1>1, <2>2 DEF Aging
    <3>2. ~(now_ - g.time[c] >= s.time_thre)
      BY <2>2 DEF Due
    <3>. QED
      BY <3>1, <3>2
  <2>. QED
    BY <2>1, <2>2
<1>. QED
  BY <1>4, <1>5

(* At stamp n, with the grid moved at old for the last time: every voxel   *)
(* has been gone through within the interval, unless there is a scan       *)
(* waiting, which then is of n.                                            *)
Ages(g, n, waiting, given, old, s) ==
    /\ n \in Int /\ n >= -1 /\ old \in Int
    /\ Aging(g, old, s) /\ \A c \in Cells : g.time[c] <= n \/ g.time[c] = 0
    /\ IsFiniteSet(given)
    /\ IF waiting THEN n >= 0 /\ \A p \in given : p.time = n
       ELSE \A c \in Cells : n - g.time[c] < s.time_thre

(* An empty grid at the start.                                             *)
LEMMA AgesInitially ==
    ASSUME NEW s, s.time_thre \in Nat \ {0}
    PROVE  Ages(EmptyGrid, -1, FALSE, {}, 0, s)
<1>1. \A c \in Cells : EmptyGrid.cloud[c] = {} /\ EmptyGrid.time[c] = 0
  BY DEF EmptyGrid
<1>2. IsFiniteSet({})
  BY FS_EmptySet
<1>3. Aging(EmptyGrid, 0, s)
  <2>1. \A c \in Cells : /\ IsFiniteSet(EmptyGrid.cloud[c]) /\ EmptyGrid.time[c] \in Int
                         /\ \A p \in EmptyGrid.cloud[c] : FALSE
    BY <1>1, <1>2
  <2>2. \A c \in Cells : ~(0 < EmptyGrid.time[c])
    BY <1>1
  <2>. QED
    BY <2>1, <2>2, Zenon DEF Aging
<1>4. \A c \in Cells : -1 - EmptyGrid.time[c] < s.time_thre
  BY <1>1
<1>. QED
  BY <1>1, <1>2, <1>3, <1>4 DEF Ages

(* The points of a new scan are of its stamp, and are the ones to stack.   *)
LEMMA AgesScan ==
    ASSUME NEW g, NEW n, NEW waiting, NEW given, NEW old, NEW s,
           Ages(g, n, waiting, given, old, s), NEW v, NEW next,
           NEW sweep, IsFiniteSet(sweep), NEW crop_,
           crop_ = Cropped({[at |-> p.at, z |-> p.z, time |-> next] : p \in sweep}, v, s),
           next = n + 1
    PROVE  Ages(g, next, TRUE, crop_, old, s)
<1>. DEFINE f == [p \in sweep |-> [at |-> p.at, z |-> p.z, time |-> next]]
            all == {f[p] : p \in sweep}
<1>1. crop_ = Cropped(all, v, s) /\ crop_ \subseteq all
  BY DEF Cropped
<1>2. IsFiniteSet(all)
  <2>1. DOMAIN f = sweep
    OBVIOUS
  <2>. HIDE DEF f
  <2>. QED
    BY <2>1, FiniteImage
<1>3. IsFiniteSet(crop_)
  <2>. HIDE DEF all
  <2>. QED
    BY <1>1, <1>2, FS_Subset
<1>4. \A p \in crop_ : p.time = next
  BY <1>1
<1>5. next \in Int /\ next >= 0 /\ n \in Int
  BY DEF Ages
<1>6. \A c \in Cells : g.time[c] <= next
  BY <1>5 DEF Ages, Aging
<1>. QED
  BY <1>3, <1>4, <1>5, <1>6 DEF Ages

(* A round of the pipeline.                                                *)
LEMMA AgesRound ==
    ASSUME NEW g, IsGrid(g), NearTheirVoxels(g), NEW v, v.at \in Int \X Int,
           NEW given, \A p \in given : StoredPoint(p),
           NEW n, NEW old, NEW s, s.time_thre \in Nat \ {0}, Ages(g, n, TRUE, given, old, s),
           NEW clearing, NEW dis, NEW next, NEW new,
           next = Refreshed(Stacked(Rolled(g, v), given, v), n, v, clearing, dis, s),
           new = IF Rolled(g, v).shift = g.shift THEN old ELSE n
    PROVE  Ages(next, n, FALSE, given, new, s)
<1>. DEFINE moved == Rolled(g, v)
            full == Stacked(moved, given, v)
<1>1. /\ n \in Int /\ n >= 0 /\ old \in Int /\ Aging(g, old, s)
      /\ IsFiniteSet(given) /\ \A p \in given : p.time = n
      /\ \A c \in Cells : g.time[c] <= n
  BY DEF Ages, Aging
<1>2. /\ IsGrid(moved) /\ NearTheirVoxels(moved)
      /\ \A i \in {1, 2} : Abs(v.at[i] - VoxelSize * moved.shift[i]) <= VoxelSize
  BY RollingKeeps
<1>3. IsGrid(full)
  BY <1>2, StackingKeeps
<1>4. Aging(moved, new, s) /\ new \in Int /\ \A c \in Cells : moved.time[c] <= n
  BY <1>1, RolledAges
<1>. HIDE DEF moved
<1>5. Aging(full, new, s) /\ \A c \in Cells : full.time[c] <= n
  BY <1>1, <1>2, <1>4, StackedAges
<1>. HIDE DEF full
<1>6. next = Refreshed(full, n, v, clearing, dis, s)
  BY DEF full, moved
<1>7. Aging(next, new, s) /\ \A c \in Cells : next.time[c] <= n /\ n - next.time[c] < s.time_thre
  BY <1>1, <1>3, <1>5, <1>6, RefreshedAges
<1>. QED
  BY <1>1, <1>4, <1>7 DEF Ages

(* Once the grid has rested for an interval, every voxel has been gone     *)
(* through since it moved, and within the interval: no point is too old.   *)
LEMMA AgesEnough ==
    ASSUME NEW g, NEW n, NEW given, NEW old, NEW s, Ages(g, n, FALSE, given, old, s),
           s.decay \in Nat, s.time_thre \in Nat \ {0},
           s.no_decay_dis = 0, n - old >= s.time_thre
    PROVE  NoneOlder(g, n, s)
<1>. SUFFICES ASSUME NEW c \in Cells, NEW p \in g.cloud[c]
              PROVE  n - p.time < s.decay + s.time_thre
  BY DEF NoneOlder
<1>1. /\ n \in Int /\ old \in Int /\ g.time[c] \in Int /\ p.time \in Int
      /\ n - g.time[c] < s.time_thre
  BY DEF Ages, Aging
<1>2. old < g.time[c]
  BY <1>1
<1>3. g.time[c] - p.time < s.decay \/ g.time[c] <= p.time
  BY <1>2 DEF Ages, Aging
<1>. QED
  BY <1>1, <1>3

TerrainAges == /\ settings \in TerrainSettings
               /\ Ages(grid, now, newlaserCloud, crop, rolled, settings)

ExtAges == /\ ext_settings \in ExtSettings
           /\ Ages(ext_grid, ext_now, ext_new, ext_crop, ext_rolled, ext_settings)

(* Every step of terrain_analysis keeps it ...                             *)
LEMMA TerrainAgesInductive ==
    TerrainInv /\ TerrainAges /\ [TerrainNext]_terrainVars => TerrainAges'
<1>. SUFFICES ASSUME TerrainInv, TerrainAges, [TerrainNext]_terrainVars PROVE TerrainAges'
  OBVIOUS
<1>1. settings \in TerrainSettings /\ settings.time_thre \in Nat \ {0}
  BY TerrainAssumption DEF TerrainAges
<1>2. ASSUME NEW sweep \in Scans, laserCloudHandler(sweep) PROVE TerrainAges'
  <2>1. /\ now' = now + 1 /\ newlaserCloud' = TRUE
        /\ crop' = Cropped({[at |-> p.at, z |-> p.z, time |-> now'] : p \in sweep},
                           vehicle, settings)
        /\ UNCHANGED <<settings, grid, rolled>>
    BY <1>2 DEF laserCloudHandler
  <2>2. IsFiniteSet(sweep) /\ Ages(grid, now, newlaserCloud, crop, rolled, settings)
    BY TerrainAssumption DEF TerrainAges
  <2>3. Ages(grid, now', TRUE, crop', rolled, settings)
    BY <2>1, <2>2, AgesScan
  <2>. QED
    BY <1>1, <2>1, <2>3 DEF TerrainAges
<1>3. CASE Pipeline
  <2>1. /\ newlaserCloud /\ newlaserCloud' = FALSE
        /\ grid' = Refreshed(Stacked(Rolled(grid, vehicle), crop, vehicle), now, vehicle,
                             clearingCloud, clearing_dis, settings)
        /\ rolled' = IF Rolled(grid, vehicle).shift = grid.shift THEN rolled ELSE now
        /\ UNCHANGED <<settings, now, crop>>
    BY <1>3 DEF Pipeline
  <2>2. /\ IsGrid(grid) /\ NearTheirVoxels(grid) /\ vehicle.at \in Int \X Int
        /\ \A p \in crop : StoredPoint(p)
    BY DEF TerrainInv
  <2>3. Ages(grid, now, TRUE, crop, rolled, settings)
    BY <2>1 DEF TerrainAges, Ages
  <2>4. Ages(grid', now, FALSE, crop, rolled', settings)
    BY <1>1, <2>1, <2>2, <2>3, AgesRound
  <2>. QED
    BY <1>1, <2>1, <2>4 DEF TerrainAges
<1>4. CASE UNCHANGED <<settings, grid, now, newlaserCloud, crop, rolled>>
  BY <1>4 DEF TerrainAges
<1>. QED
  BY <1>2, <1>3, <1>4 DEF TerrainNext, odometryHandler, clearingHandler, joystickHandler,
                           Clear, terrainVars

(* ... and every one of terrain_analysis_ext.                              *)
LEMMA ExtAgesInductive == ExtInv /\ ExtAges /\ [ExtNext]_extVars => ExtAges'
<1>. SUFFICES ASSUME ExtInv, ExtAges, [ExtNext]_extVars PROVE ExtAges'
  OBVIOUS
<1>1. ext_settings \in ExtSettings /\ ext_settings.time_thre \in Nat \ {0}
  BY ExtAssumption DEF ExtAges
<1>2. ASSUME NEW sweep \in ExtScans, extLaserCloudHandler(sweep) PROVE ExtAges'
  <2>1. /\ ext_now' = ext_now + 1 /\ ext_new' = TRUE
        /\ ext_crop' = Cropped({[at |-> p.at, z |-> p.z, time |-> ext_now'] : p \in sweep},
                               ext_vehicle, ext_settings)
        /\ UNCHANGED <<ext_settings, ext_grid, ext_rolled>>
    BY <1>2 DEF extLaserCloudHandler
  <2>2. /\ IsFiniteSet(sweep)
        /\ Ages(ext_grid, ext_now, ext_new, ext_crop, ext_rolled, ext_settings)
    BY ExtAssumption DEF ExtAges
  <2>3. Ages(ext_grid, ext_now', TRUE, ext_crop', ext_rolled, ext_settings)
    BY <2>1, <2>2, AgesScan
  <2>. QED
    BY <1>1, <2>1, <2>3 DEF ExtAges
<1>3. CASE ExtPipeline
  <2>1. /\ ext_new /\ ext_new' = FALSE
        /\ ext_grid' = Refreshed(Stacked(Rolled(ext_grid, ext_vehicle), ext_crop, ext_vehicle),
                                 ext_now, ext_vehicle, ext_clearing, ext_clearing_dis,
                                 ext_settings)
        /\ ext_rolled' = IF Rolled(ext_grid, ext_vehicle).shift = ext_grid.shift
                         THEN ext_rolled ELSE ext_now
        /\ UNCHANGED <<ext_settings, ext_now, ext_crop>>
    BY <1>3 DEF ExtPipeline, ExtRefreshed, ExtStacked, ExtRolled
  <2>2. /\ IsGrid(ext_grid) /\ NearTheirVoxels(ext_grid) /\ ext_vehicle.at \in Int \X Int
        /\ \A p \in ext_crop : StoredPoint(p)
    BY DEF ExtInv
  <2>3. Ages(ext_grid, ext_now, TRUE, ext_crop, ext_rolled, ext_settings)
    BY <2>1 DEF ExtAges, Ages
  <2>4. Ages(ext_grid', ext_now, FALSE, ext_crop, ext_rolled', ext_settings)
    BY <1>1, <2>1, <2>2, <2>3, AgesRound
  <2>. QED
    BY <1>1, <2>1, <2>4 DEF ExtAges
<1>4. CASE UNCHANGED <<ext_settings, ext_grid, ext_now, ext_new, ext_crop, ext_rolled>>
  BY <1>4 DEF ExtAges
<1>. QED
  BY <1>2, <1>3, <1>4 DEF ExtNext, extOdometryHandler, terrainCloudLocalHandler,
                           extClearingHandler, Search, SearchEnds, ExtPublish, extVars

(* The grid is empty before the first scan.                                *)
LEMMA TerrainAgesBegin == TerrainInit => TerrainInv /\ TerrainAges
<1>. SUFFICES ASSUME TerrainInit PROVE TerrainInv /\ TerrainAges
  OBVIOUS
<1>1. /\ settings \in TerrainSettings /\ settings.time_thre \in Nat \ {0}
      /\ grid = EmptyGrid /\ now = -1 /\ newlaserCloud = FALSE /\ crop = {} /\ rolled = 0
  BY TerrainAssumption DEF TerrainInit, NoStamp
<1>2. Ages(EmptyGrid, -1, FALSE, {}, 0, settings)
  BY <1>1, AgesInitially
<1>. QED
  BY <1>1, <1>2, TerrainInitially DEF TerrainAges

LEMMA ExtAgesBegin == ExtInit => ExtInv /\ ExtAges
<1>. SUFFICES ASSUME ExtInit PROVE ExtInv /\ ExtAges
  OBVIOUS
<1>1. /\ ext_settings \in ExtSettings /\ ext_settings.time_thre \in Nat \ {0}
      /\ ext_grid = EmptyGrid /\ ext_now = -1 /\ ext_new = FALSE /\ ext_crop = {}
      /\ ext_rolled = 0
  BY ExtAssumption DEF ExtInit
<1>2. Ages(EmptyGrid, -1, FALSE, {}, 0, ext_settings)
  BY <1>1, AgesInitially
<1>. QED
  BY <1>1, <1>2, ExtInitially DEF ExtAges

(* A point older than the decay time and the update interval together is   *)
(* gone from both maps, unless the grid has rolled within the last         *)
(* interval: the times of update do not roll along with the clouds.        *)
THEOREM OldPointsGo == TerrainSpec /\ ExtSpec => []StaleOnlyWhileRolling
<1>1. TerrainAges => TerrainStaleWhileRolling
  <2>. SUFFICES ASSUME TerrainAges, ~newlaserCloud, settings.no_decay_dis = 0,
                       now - rolled >= settings.time_thre
                PROVE  NoneOlder(grid, now, settings)
    BY DEF TerrainStaleWhileRolling
  <2>1. Ages(grid, now, FALSE, crop, rolled, settings)
    BY DEF TerrainAges, Ages
  <2>2. settings.decay \in Nat /\ settings.time_thre \in Nat \ {0}
    BY TerrainAssumption DEF TerrainAges
  <2>. QED
    BY <2>1, <2>2, AgesEnough
<1>2. ExtAges => ExtStaleWhileRolling
  <2>. SUFFICES ASSUME ExtAges, ~ext_new, ext_settings.no_decay_dis = 0,
                       ext_now - ext_rolled >= ext_settings.time_thre
                PROVE  NoneOlder(ext_grid, ext_now, ext_settings)
    BY DEF ExtStaleWhileRolling
  <2>1. Ages(ext_grid, ext_now, FALSE, ext_crop, ext_rolled, ext_settings)
    BY DEF ExtAges, Ages
  <2>2. ext_settings.decay \in Nat /\ ext_settings.time_thre \in Nat \ {0}
    BY ExtAssumption DEF ExtAges
  <2>. QED
    BY <2>1, <2>2, AgesEnough
<1>. QED
  BY <1>1, <1>2, TerrainAgesBegin, ExtAgesBegin, TerrainInductive, ExtInductive,
     TerrainAgesInductive, ExtAgesInductive, PTL DEF TerrainSpec, ExtSpec, StaleOnlyWhileRolling

-----------------------------------------------------------------------------
(* What the grid remembers is finite, and so are the counts.               *)
LEMMA TerrainFinite ==
    ASSUME NEW g, \A c \in Cells : IsFiniteSet(g.cloud[c])
    PROVE  IsFiniteSet(Terrain(g))
<1>. DEFINE inner == {d \in Cells : \A i \in {1, 2} : Abs(d[i] - HalfWidth) <= Inner}
            Lodged(c) == {<<c, p>> : p \in g.cloud[c]}
            f == [c \in inner |-> Lodged(c)]
<1>1. IsFiniteSet(inner)
  <2>1. IsFiniteSet(0..2 * HalfWidth)
    BY VoxelGridAssumption, FS_Interval
  <2>2. IsFiniteSet(Cells)
    BY <2>1, FS_Product DEF Cells, Square
  <2>. QED
    BY <2>2, FS_Subset
<1>2. ASSUME NEW c \in Cells PROVE IsFiniteSet(Lodged(c))
  <2>. DEFINE h == [p \in g.cloud[c] |-> <<c, p>>]
  <2>1. DOMAIN h = g.cloud[c] /\ Lodged(c) = {h[p] : p \in g.cloud[c]}
    OBVIOUS
  <2>2. IsFiniteSet(g.cloud[c])
    OBVIOUS
  <2>. HIDE DEF h, Lodged
  <2>. QED
    BY <2>1, <2>2, FiniteImage
<1>3. DOMAIN f = inner /\ Terrain(g) = UNION {f[c] : c \in inner}
  <2>1. Terrain(g) = UNION {Lodged(c) : c \in inner}
    BY DEF Terrain
  <2>. HIDE DEF Lodged, inner
  <2>2. DOMAIN f = inner /\ \A c \in inner : f[c] = Lodged(c)
    OBVIOUS
  <2>. HIDE DEF f
  <2>3. {Lodged(c) : c \in inner} = {f[c] : c \in inner}
    BY <2>2
  <2>. QED
    BY <2>1, <2>2, <2>3
<1>4. \A T \in {f[c] : c \in inner} : IsFiniteSet(T)
  <2>. HIDE DEF Lodged
  <2>. QED
    BY <1>2
<1>. HIDE DEF f, inner
<1>5. IsFiniteSet({f[c] : c \in inner})
  BY <1>1, <1>3, FiniteImage
<1>. QED
  BY <1>3, <1>4, <1>5, FS_UNION

(* After both loops the count of a planar voxel is enough exactly if what  *)
(* the map has there has gone.                                             *)
LEMMA DyObsIs ==
    ASSUME NEW cloud, IsFiniteSet(cloud), NEW sweep, NEW v, NEW s \in TerrainSettings,
           NEW c \in Planar
    PROVE  (planarVoxelDyObs(cloud, sweep, v, s)[c] < s.dyobs_points)
              <=> ~Gone(c, cloud, sweep, v, s)
<1>. DEFINE standing == Cardinality(StandingIn(c, cloud, v, s))
            near == Cardinality(NearIn(c, cloud, v, s))
            enough == s.dyobs_points
<1>1. planarVoxelDyObs(cloud, sweep, v, s)[c]
        = IF SteepIn(c, sweep, v, s) THEN 0 ELSE 0 + standing + enough * near
  BY Zenon DEF planarVoxelDyObs, DyObsReset, DyObsCounted
<1>2. standing \in Nat /\ enough \in Nat \ {0}
  <2>1. IsFiniteSet(StandingIn(c, cloud, v, s))
    BY FS_Subset DEF StandingIn
  <2>. QED
    BY <2>1, FS_CardinalityType, TerrainAssumption
<1>3. near \in Nat /\ (near = 0 <=> NearIn(c, cloud, v, s) = {})
  <2>1. IsFiniteSet(NearIn(c, cloud, v, s))
    BY FS_Subset DEF NearIn
  <2>. QED
    BY <2>1, FS_CardinalityType, FS_EmptySet
<1>4. Gone(c, cloud, sweep, v, s) <=>
        (near # 0 \/ standing >= enough) /\ ~SteepIn(c, sweep, v, s)
  BY <1>3 DEF Gone
<1>. HIDE DEF standing, near, enough
<1>5. near = 0 => enough * near = 0
  BY <1>2
<1>6. near # 0 => enough * near \in Nat /\ enough * near >= enough
  <2>. SUFFICES ASSUME near # 0 PROVE enough * near \in Nat /\ enough * near >= enough
    OBVIOUS
  <2>1. PICK k \in Nat : near = k + 1
    <3>1. near - 1 \in Nat /\ near = (near - 1) + 1
      BY <1>3
    <3>. QED
      BY <3>1
  <2>2. enough * near = enough * k + enough /\ enough * k \in Nat
    BY <1>2, <2>1
  <2>. QED
    BY <1>2, <2>2
<1>7. (planarVoxelDyObs(cloud, sweep, v, s)[c] < enough)
        <=> ~((near # 0 \/ standing >= enough) /\ ~SteepIn(c, sweep, v, s))
  <2>1. CASE SteepIn(c, sweep, v, s)
    BY <1>1, <1>2, <2>1
  <2>2. CASE ~SteepIn(c, sweep, v, s) /\ near = 0
    BY <1>1, <1>2, <1>3, <1>5, <2>2
  <2>3. CASE ~SteepIn(c, sweep, v, s) /\ near # 0
    BY <1>1, <1>2, <1>3, <1>6, <2>3
  <2>. QED
    BY <2>1, <2>2, <2>3
<1>. QED
  BY <1>4, <1>7 DEF enough

(* What Obstacles leaves out.                                              *)
LEMMA ObstaclesAre ==
    ASSUME NEW s \in TerrainSettings, NEW t, t = [s EXCEPT !.clear_dyobs = FALSE],
           NEW cloud, IsFiniteSet(cloud), NEW sweep, NEW v
    PROVE  Obstacles(cloud, sweep, v, s) =
              {o \in Obstacles(cloud, sweep, v, t) :
                   s.clear_dyobs => ~Gone(PlanarOf(o, v), cloud, sweep, v, s)}
<1>1. /\ t.min_z = s.min_z /\ t.max_z = s.max_z /\ t.sorting = s.sorting
      /\ t.quantile_percent = s.quantile_percent /\ t.consider_drop = s.consider_drop
      /\ t.limit_lift = s.limit_lift /\ t.max_lift = s.max_lift
      /\ t.vehicle_height = s.vehicle_height /\ t.min_block_points = s.min_block_points
      /\ t.clear_dyobs = FALSE
  BY TerrainAssumption
<1>2. \A p : InPlane(p, v, t) = InPlane(p, v, s)
  BY <1>1, Zenon DEF InPlane
<1>3. \A given : Ground(given, t) = Ground(given, s)
  BY <1>1, SMT DEF Ground
<1>4. \A given : Elevation(given, t) = Elevation(given, s)
  <2>. SUFFICES ASSUME NEW given PROVE Elevation(given, t) = Elevation(given, s)
    OBVIOUS
  <2>1. /\ Ground(given, t) = Ground(given, s)
        /\ t.max_lift = s.max_lift /\ t.limit_lift = s.limit_lift
    BY <1>1, <1>3
  <2>. QED
    BY <2>1 DEF Elevation
<1>. DEFINE Flat_(w) == {q \in cloud : InPlane(q[2], v, w)}
            Above(q, w) == q[2].z - Elevation(Around(PlanarOf(q[2], v), Flat_(w), v), w)
            Height(q, w) == IF w.consider_drop THEN Abs(Above(q, w)) ELSE Above(q, w)
            Free(q, w) == ~w.clear_dyobs
                          \/ planarVoxelDyObs(cloud, sweep, v, w)[PlanarOf(q[2], v)] < w.dyobs_points
            Stands(q, w) == /\ Height(q, w) >= 0 /\ Height(q, w) < w.vehicle_height
                            /\ Cardinality(Around(PlanarOf(q[2], v), Flat_(w), v))
                                 >= w.min_block_points
            Shown(q, w) == PlanarOf(q[2], v) \in Planar /\ Free(q, w) /\ Stands(q, w)
            Of_(q, w) == [at |-> q[2].at, z |-> q[2].z, height |-> Height(q, w)]
<1>5. \A w : Obstacles(cloud, sweep, v, w) = {Of_(q, w) : q \in {r \in Flat_(w) : Shown(r, w)}}
  BY Zenon DEF Obstacles
<1>6. Flat_(t) = Flat_(s)
  BY <1>2
<1>7. \A q : Height(q, t) = Height(q, s)
  BY <1>1, <1>4, <1>6, Zenon
<1>8. \A q : Of_(q, t) = Of_(q, s) /\ PlanarOf(Of_(q, s), v) = PlanarOf(q[2], v)
  <2>1. \A q : Of_(q, t) = Of_(q, s)
    BY <1>7, Zenon
  <2>. HIDE DEF Height
  <2>2. \A q : Of_(q, s).at = q[2].at
    OBVIOUS
  <2>. QED
    BY <2>1, <2>2 DEF PlanarOf, CellOf
<1>9. \A q : Stands(q, t) <=> Stands(q, s)
  <2>. HIDE DEF Height, Flat_
  <2>. QED
    BY <1>1, <1>6, <1>7, Zenon
<1>10. \A q : Free(q, t)
  BY <1>1
<1>11. ASSUME NEW q, PlanarOf(q[2], v) \in Planar
       PROVE  Free(q, s) <=> (s.clear_dyobs => ~Gone(PlanarOf(q[2], v), cloud, sweep, v, s))
  BY <1>11, DyObsIs, Zenon
<1>. HIDE DEF Flat_, Height, Stands, Free, Of_
<1>12. ASSUME NEW o \in Obstacles(cloud, sweep, v, s)
       PROVE  /\ o \in Obstacles(cloud, sweep, v, t)
              /\ s.clear_dyobs => ~Gone(PlanarOf(o, v), cloud, sweep, v, s)
  <2>1. PICK q \in Flat_(s) : Shown(q, s) /\ o = Of_(q, s)
    BY <1>5
  <2>2. Shown(q, t) /\ o = Of_(q, t) /\ q \in Flat_(t)
    BY <1>6, <1>8, <1>9, <1>10, <2>1
  <2>3. PlanarOf(o, v) = PlanarOf(q[2], v)
    BY <1>8, <2>1
  <2>. QED
    BY <1>5, <1>11, <2>1, <2>2, <2>3
<1>13. ASSUME NEW o \in Obstacles(cloud, sweep, v, t),
              s.clear_dyobs => ~Gone(PlanarOf(o, v), cloud, sweep, v, s)
       PROVE  o \in Obstacles(cloud, sweep, v, s)
  <2>1. PICK q \in Flat_(t) : Shown(q, t) /\ o = Of_(q, t)
    BY <1>5
  <2>2. PlanarOf(o, v) = PlanarOf(q[2], v) /\ o = Of_(q, s)
    BY <1>8, <2>1
  <2>3. Shown(q, s) /\ q \in Flat_(s)
    BY <1>6, <1>9, <1>11, <1>13, <2>1, <2>2
  <2>. QED
    BY <1>5, <2>2, <2>3
<1>. QED
  BY <1>12, <1>13

(* Of the obstacles the points in memory amount to, exactly those are left *)
(* out that the last scan shows to be gone: planarVoxelDyObs in            *)
(* terrainAnalysis.cpp, counted for the map and then reset for the scan,   *)
(* says so of each planar voxel, on every grid and after every drive.      *)
THEOREM OnlyGoneIsHidden == TerrainSpec => HiddenExactlyIfGone
<1>. DEFINE Hidden ==
                newlaserCloud /\ ~newlaserCloud' =>
                  LET terrain == Terrain(grid')
                      all == Obstacles(terrain, crop, vehicle,
                                       [settings EXCEPT !.clear_dyobs = FALSE])
                  IN published'.obstacles =
                       {o \in all : settings.clear_dyobs =>
                                       ~Gone(PlanarOf(o, vehicle), terrain, crop, vehicle, settings)}
<1>1. TerrainInv /\ TerrainAges /\ TerrainAges' /\ [TerrainNext]_terrainVars
        => [Hidden]_terrainVars
  <2>. SUFFICES ASSUME TerrainAges, TerrainAges', [TerrainNext]_terrainVars,
                       newlaserCloud, ~newlaserCloud'
                PROVE  Hidden
    OBVIOUS
  <2>1. Pipeline
    BY DEF TerrainNext, odometryHandler, laserCloudHandler, clearingHandler, joystickHandler,
           Clear, terrainVars
  <2>2. published'.obstacles = Obstacles(Terrain(grid'), crop, vehicle, settings)
    BY <2>1 DEF Pipeline
  <2>3. settings \in TerrainSettings /\ IsFiniteSet(Terrain(grid'))
    BY TerrainFinite DEF TerrainAges, Ages, Aging
  <2>. QED
    BY <2>2, <2>3, ObstaclesAre
<1>. QED
  BY <1>1, TerrainAgesBegin, TerrainInductive, TerrainAgesInductive, PTL
     DEF TerrainSpec, HiddenExactlyIfGone

-----------------------------------------------------------------------------
(* The counters and times of a grid that is gone through every round, and  *)
(* the times of the points in it.                                          *)
Gridded(g, s, top) ==
    /\ DOMAIN g.cloud = Cells
    /\ \A c \in Cells : /\ g.num[c] \in 0..(s.point_thre - 1)
                        /\ g.time[c] \in 0..top
                        /\ \A p \in g.cloud[c] : p.time \in 0..top

(* A voxel that has got enough points is due, and begins to count anew.    *)
LEMMA GriddedRound ==
    ASSUME NEW g, IsGrid(g), NearTheirVoxels(g), NEW v, v.at \in Int \X Int,
           NEW given, \A p \in given : StoredPoint(p),
           NEW top \in Nat, NEW n \in 0..top, NEW old, NEW s,
           s.point_thre \in Nat \ {0},
           Ages(g, n, TRUE, given, old, s), Gridded(g, s, top),
           NEW clearing, NEW dis, NEW next,
           next = Refreshed(Stacked(Rolled(g, v), given, v), n, v, clearing, dis, s)
    PROVE  Gridded(next, s, top)
<1>. DEFINE moved == Rolled(g, v)
            full == Stacked(moved, given, v)
            new == IF moved.shift = g.shift THEN old ELSE n
            Into(c) == {p \in given : CellOf(p, v, VoxelSize, HalfWidth) = c}
            From(c) == Plus(c, <<Shifted(g, v)[1] - g.shift[1], Shifted(g, v)[2] - g.shift[2]>>)
<1>1. /\ n \in Int /\ n >= 0 /\ old \in Int /\ Aging(g, old, s)
      /\ IsFiniteSet(given) /\ \A p \in given : p.time = n
      /\ \A c \in Cells : g.time[c] <= n
  BY DEF Ages, Aging
<1>2. /\ IsGrid(moved) /\ NearTheirVoxels(moved)
      /\ \A i \in {1, 2} : Abs(v.at[i] - VoxelSize * moved.shift[i]) <= VoxelSize
  BY RollingKeeps
<1>3. IsGrid(full)
  BY <1>2, StackingKeeps
<1>4. /\ moved.time = g.time /\ moved.num = g.num
      /\ \A c \in Cells : moved.cloud[c] = IF From(c) \in Cells THEN g.cloud[From(c)] ELSE {}
  BY RolledIs
<1>. HIDE DEF From
<1>5. Aging(moved, new, s) /\ \A c \in Cells : moved.time[c] <= n
  BY <1>1, RolledAges
<1>6. /\ full.time = moved.time
      /\ \A c \in Cells : /\ full.cloud[c] = moved.cloud[c] \cup Into(c)
                          /\ full.num[c] = moved.num[c] + Cardinality(Into(c))
  <2>. HIDE DEF moved
  <2>. QED
    BY <1>2, StackedIs
<1>7. Aging(full, new, s)
  <2>. HIDE DEF moved, new
  <2>. QED
    BY <1>1, <1>2, <1>5, StackedAges
<1>8. \A c \in Cells : Cardinality(Into(c)) \in Nat
  <2>1. \A c \in Cells : IsFiniteSet(Into(c))
    BY <1>1, FS_Subset
  <2>. HIDE DEF Into
  <2>. QED
    BY <2>1, FS_CardinalityType
<1>9. next = Refreshed(full, n, v, clearing, dis, s)
  OBVIOUS
<1>. HIDE DEF full, moved, new
<1>10. /\ DOMAIN next.cloud = Cells
       /\ \A c \in Cells :
            IF Due(full, c, n, clearing, s)
            THEN /\ next.cloud[c] = {p \in Downsampled(full.cloud[c]) :
                                       Kept(p, n, v, clearing, dis, s)}
                 /\ next.time[c] = n /\ next.num[c] = 0
            ELSE /\ next.cloud[c] = full.cloud[c]
                 /\ next.time[c] = full.time[c] /\ next.num[c] = full.num[c]
  BY <1>3, <1>9, RefreshedIs
<1>11. ASSUME NEW c \in Cells, NEW p \in full.cloud[c] PROVE p.time \in 0..top
  <2>1. p \in moved.cloud[c] \/ p \in given
    BY <1>6, <1>11
  <2>2. CASE p \in given
    BY <1>1, <2>2
  <2>3. CASE p \in moved.cloud[c]
    <3>1. From(c) \in Cells /\ p \in g.cloud[From(c)]
      BY <1>4, <2>3
    <3>. QED
      BY <3>1 DEF Gridded
  <2>. QED
    BY <2>1, <2>2, <2>3
<1>. HIDE DEF Into
<1>12. ASSUME NEW c \in Cells PROVE /\ full.num[c] \in Nat /\ full.time[c] \in 0..top
  BY <1>4, <1>6, <1>8 DEF Gridded
<1>13. ASSUME NEW c \in Cells
       PROVE  /\ next.num[c] \in 0..(s.point_thre - 1) /\ next.time[c] \in 0..top
              /\ \A p \in next.cloud[c] : p.time \in 0..top
  <2>1. CASE Due(full, c, n, clearing, s)
    <3>1. IsFiniteSet(full.cloud[c]) /\ \A p \in full.cloud[c] : StoredPoint(p) /\ p.time \in Int
      BY <1>3, <1>7 DEF IsGrid, Aging
    <3>2. \A p \in Downsampled(full.cloud[c]) : p.time \in 0..top
      BY <1>11, <3>1, DownsampledTimes
    <3>3. /\ next.num[c] = 0 /\ next.time[c] = n
          /\ next.cloud[c] \subseteq Downsampled(full.cloud[c])
      BY <1>10, <2>1
    <3>. QED
      BY <3>2, <3>3
  <2>2. CASE ~Due(full, c, n, clearing, s)
    <3>1. /\ next.num[c] = full.num[c] /\ next.time[c] = full.time[c]
          /\ next.cloud[c] = full.cloud[c]
      BY <1>10, <2>2
    <3>2. ~(full.num[c] >= s.point_thre)
      BY <2>2 DEF Due
    <3>. QED
      BY <1>11, <1>12, <3>1, <3>2
  <2>. QED
    BY <2>1, <2>2
<1>. QED
  BY <1>10, <1>13, Zenon DEF Gridded

(* The types of terrain_analysis.                                          *)
LEMMA TerrainTypesBegin == TerrainInit => TerrainTypeOK
<1>. SUFFICES ASSUME TerrainInit PROVE TerrainTypeOK
  OBVIOUS
<1>1. \A c \in Cells : grid.cloud[c] = {} /\ grid.num[c] = 0 /\ grid.time[c] = 0
  BY DEF TerrainInit, EmptyGrid
<1>2. DOMAIN grid.cloud = Cells
  BY DEF TerrainInit, EmptyGrid
<1>3. settings \in TerrainSettings /\ settings.point_thre \in Nat \ {0} /\ MaxStamp \in Nat
  BY TerrainAssumption DEF TerrainInit
<1>4. now \in NoStamp..MaxStamp
  BY <1>3 DEF TerrainInit, NoStamp
<1>5. \A c \in Cells : /\ grid.num[c] \in 0..(settings.point_thre - 1)
                       /\ grid.time[c] \in 0..MaxStamp
                       /\ \A p \in grid.cloud[c] : p.time \in 0..MaxStamp
  BY <1>1, <1>3
<1>6. /\ vehicle \in Vehicles \cup {[at |-> <<0, 0>>, z |-> 0]} /\ noDataInited \in 0..2
      /\ newlaserCloud \in BOOLEAN /\ clearingCloud \in BOOLEAN /\ clearing_dis \in ClearingDis
  <2>1. /\ vehicle = [at |-> <<0, 0>>, z |-> 0] /\ newlaserCloud = FALSE
        /\ clearingCloud = FALSE /\ clearing_dis \in ClearingDis
    BY Zenon DEF TerrainInit
  <2>2. noDataInited \in 0..2
    BY DEF TerrainInit
  <2>. QED
    BY <2>1, <2>2, Zenon
<1>7. published.edges \subseteq Planar
  BY DEF TerrainInit
<1>. QED
  BY <1>2, <1>3, <1>4, <1>5, <1>6, <1>7, Zenon DEF TerrainTypeOK

LEMMA TerrainTypesInductive ==
    TerrainInv /\ TerrainAges /\ TerrainTypeOK /\ [TerrainNext]_terrainVars => TerrainTypeOK'
<1>. SUFFICES ASSUME TerrainInv, TerrainAges, TerrainTypeOK, [TerrainNext]_terrainVars
              PROVE  TerrainTypeOK'
  OBVIOUS
<1>1. /\ settings \in TerrainSettings /\ settings.point_thre \in Nat \ {0} /\ MaxStamp \in Nat
      /\ now \in NoStamp..MaxStamp /\ NoStamp = -1
  BY TerrainAssumption DEF TerrainTypeOK, NoStamp
<1>2. ASSUME NEW v \in Vehicles, odometryHandler(v) PROVE TerrainTypeOK'
  <2>1. vehicle' = v /\ noDataInited' \in 0..2
    BY <1>2 DEF odometryHandler
  <2>. QED
    BY <1>2, <2>1 DEF odometryHandler, TerrainTypeOK
<1>3. ASSUME NEW sweep \in Scans, laserCloudHandler(sweep) PROVE TerrainTypeOK'
  <2>1. now' \in NoStamp..MaxStamp
    BY <1>1, <1>3 DEF laserCloudHandler
  <2>. QED
    BY <1>3, <2>1 DEF laserCloudHandler, TerrainTypeOK
<1>4. ASSUME NEW dis \in ClearingDis, Clear(dis) PROVE TerrainTypeOK'
  BY <1>4 DEF Clear, TerrainTypeOK
<1>5. CASE Pipeline
  <2>1. /\ newlaserCloud /\ newlaserCloud' = FALSE /\ clearingCloud' = FALSE
        /\ grid' = Refreshed(Stacked(Rolled(grid, vehicle), crop, vehicle), now, vehicle,
                             clearingCloud, clearing_dis, settings)
        /\ UNCHANGED <<settings, vehicle, noDataInited, now, clearing_dis>>
    BY <1>5 DEF Pipeline
  <2>2. published'.edges \subseteq Planar
    <3>1. published'.edges = IF settings.no_data_obstacle /\ noDataInited = 2
                             THEN Edges(Terrain(grid'), vehicle, settings) ELSE {}
      BY <1>5 DEF Pipeline
    <3>2. Edges(Terrain(grid'), vehicle, settings) \subseteq Planar
      BY Zenon DEF Edges
    <3>. QED
      BY <3>1, <3>2
  <2>3. /\ IsGrid(grid) /\ NearTheirVoxels(grid) /\ vehicle.at \in Int \X Int
        /\ \A p \in crop : StoredPoint(p)
    BY DEF TerrainInv
  <2>4. Ages(grid, now, TRUE, crop, rolled, settings) /\ now >= 0
    BY <2>1 DEF TerrainAges, Ages
  <2>5. now \in 0..MaxStamp
    BY <1>1, <2>4
  <2>6. Gridded(grid, settings, MaxStamp)
    BY DEF TerrainTypeOK, Gridded
  <2>7. Gridded(grid', settings, MaxStamp)
    BY <1>1, <2>1, <2>3, <2>4, <2>5, <2>6, GriddedRound
  <2>. QED
    BY <2>1, <2>2, <2>7 DEF TerrainTypeOK, Gridded
<1>6. CASE UNCHANGED terrainVars
  BY <1>6 DEF terrainVars, TerrainTypeOK
<1>7. clearing_dis \in ClearingDis
  BY DEF TerrainTypeOK
<1>. QED
  BY <1>2, <1>3, <1>4, <1>5, <1>6, <1>7 DEF TerrainNext, clearingHandler, joystickHandler

-----------------------------------------------------------------------------
(* The planar grid is finite, and its voxels have numbers of their own.    *)
LEMMA PlanarFinite == IsFiniteSet(Planar) /\ Cardinality(Planar) \in Nat /\ Middle \in Planar
<1>1. PlanarHalf \in Nat
  BY VoxelGridAssumption
<1>2. IsFiniteSet(0..2 * PlanarHalf)
  BY <1>1, FS_Interval
<1>3. IsFiniteSet(Planar)
  BY <1>2, FS_Product DEF Planar, Square
<1>. QED
  BY <1>1, <1>3, FS_CardinalityType DEF Planar, Square, Middle

(* Two voxels do not have the same number.                                 *)
LEMMA NumbersDiffer ==
    ASSUME NEW c \in Planar, NEW d \in Planar
    PROVE  Number(c) \in Int /\ (Number(c) = Number(d) => c = d)
<1>1. Row \in Nat \ {0}
  BY VoxelGridAssumption DEF Row
<1>2. /\ c = <<c[1], c[2]>> /\ c[1] \in Int /\ c[2] \in 0..(Row - 1)
      /\ d = <<d[1], d[2]>> /\ d[1] \in Int /\ d[2] \in 0..(Row - 1)
  BY VoxelGridAssumption DEF Planar, Square, Row
<1>3. Number(c) \in Int /\ Number(d) \in Int
  BY <1>1, <1>2 DEF Number
<1>4. ASSUME Number(c) = Number(d) PROVE c = d
  <2>1. Number(c) % Row = c[2] /\ Number(d) % Row = d[2]
    BY <1>1, <1>2, <1>3, RemainderUnique DEF Number
  <2>2. Row * c[1] = Row * d[1]
    <3>1. Row * c[1] \in Int /\ Row * d[1] \in Int /\ c[2] \in Int
      BY <1>1, <1>2
    <3>2. Row * c[1] + c[2] = Row * d[1] + c[2]
      BY <1>4, <2>1 DEF Number
    <3>. QED
      BY <3>1, <3>2
  <2>3. c[1] = d[1]
    BY <1>1, <1>2, <2>2, FactorCancels
  <2>. QED
    BY <1>2, <1>4, <2>1, <2>3
<1>. QED
  BY <1>3, <1>4

(* The list of some voxels has every one of them, once, and no other.      *)
LEMMA ListedByIndex ==
    ASSUME NEW cells \in SUBSET Planar
    PROVE  /\ ByIndex(cells) \in Seq(cells)
           /\ \A i, j \in 1..Len(ByIndex(cells)) :
                ByIndex(cells)[i] = ByIndex(cells)[j] => i = j
           /\ \A c \in cells : \E i \in 1..Len(ByIndex(cells)) : ByIndex(cells)[i] = c
<1>. DEFINE upto(c) == {d \in cells : Number(d) <= Number(c)}
            n == Cardinality(cells)
            rank == [c \in cells |-> Cardinality(upto(c))]
<1>1. IsFiniteSet(cells) /\ n \in Nat
  BY PlanarFinite, FS_Subset, FS_CardinalityType
<1>2. ASSUME NEW c \in cells
      PROVE  /\ IsFiniteSet(upto(c)) /\ rank[c] = Cardinality(upto(c)) /\ rank[c] \in 1..n
             /\ c \in upto(c)
  <2>1. c \in upto(c)
    BY NumbersDiffer
  <2>2. IsFiniteSet(upto(c)) /\ Cardinality(upto(c)) <= n /\ Cardinality(upto(c)) \in Nat
    BY <1>1, FS_Subset, FS_CardinalityType
  <2>3. Cardinality(upto(c)) # 0
    BY <2>1, <2>2, FS_EmptySet
  <2>4. rank[c] = Cardinality(upto(c))
    OBVIOUS
  <2>. HIDE DEF upto, rank
  <2>. QED
    BY <1>1, <2>1, <2>2, <2>3, <2>4
<1>3. ASSUME NEW c \in cells, NEW d \in cells, Number(c) <= Number(d), rank[c] = rank[d]
      PROVE  c = d
  <2>1. Number(c) \in Int /\ Number(d) \in Int /\ \A e \in cells : Number(e) \in Int
    BY NumbersDiffer
  <2>2. upto(c) \subseteq upto(d)
    BY <1>3, <2>1
  <2>3. upto(c) = upto(d)
    <3>. HIDE DEF upto, rank
    <3>. QED
      BY <1>2, <1>3, <2>2, FS_Subset
  <2>4. Number(d) <= Number(c)
    BY <1>2, <2>3
  <2>. QED
    BY <1>3, <2>1, <2>4, NumbersDiffer
<1>4. \A c, d \in cells : rank[c] = rank[d] => c = d
  <2>1. ASSUME NEW c \in cells, NEW d \in cells
        PROVE  Number(c) <= Number(d) \/ Number(d) <= Number(c)
    BY NumbersDiffer
  <2>. HIDE DEF rank
  <2>. QED
    BY <1>3, <2>1
<1>5. ASSUME NEW i \in 1..n PROVE \E c \in cells : rank[c] = i
  <2>1. rank \in Injection(cells, 1..n)
    <3>1. rank \in [cells -> 1..n]
      BY <1>2
    <3>. HIDE DEF rank
    <3>. QED
      BY <1>4, <3>1, Fun_IsInj
  <2>2. IsFiniteSet(1..n) /\ Cardinality(1..n) = n
    BY <1>1, FS_Interval
  <2>3. rank \in Surjection(cells, 1..n)
    BY <2>1, <2>2, FS_Injection
  <2>. HIDE DEF rank, n
  <2>4. \A t \in 1..n : \E c \in cells : rank[c] = t
    BY <2>3, Fun_SurjectionProperties
  <2>. QED
    BY <2>4
<1>. DEFINE list == ByIndex(cells)
<1>6. /\ list = [i \in 1..n |-> CHOOSE c \in cells : Cardinality(upto(c)) = i]
  BY DEF ByIndex
<1>7. ASSUME NEW i \in 1..n PROVE list[i] \in cells /\ rank[list[i]] = i
  <2>1. list[i] = CHOOSE c \in cells : Cardinality(upto(c)) = i
    BY <1>6
  <2>2. \E c \in cells : Cardinality(upto(c)) = i
    BY <1>5
  <2>. HIDE DEF list, upto
  <2>. QED
    BY <2>1, <2>2
<1>. HIDE DEF list
<1>8. list \in Seq(cells) /\ Len(list) = n
  <2>1. list \in [1..n -> cells]
    BY <1>6, <1>7
  <2>. QED
    BY <1>1, <2>1
<1>9. ASSUME NEW c \in cells PROVE \E i \in 1..Len(list) : list[i] = c
  <2>1. rank[c] \in 1..n
    BY <1>2
  <2>2. list[rank[c]] \in cells /\ rank[list[rank[c]]] = rank[c]
    <3>. HIDE DEF rank
    <3>. QED
      BY <1>7, <2>1
  <2>3. list[rank[c]] = c
    <3>. HIDE DEF rank
    <3>. QED
      BY <1>4, <2>2
  <2>. HIDE DEF rank
  <2>. QED
    BY <1>8, <2>1, <2>3
<1>10. \A i, j \in 1..Len(list) : list[i] = list[j] => i = j
  <2>. HIDE DEF rank, n
  <2>. QED
    BY <1>7, <1>8
<1>. QED
  BY <1>8, <1>9, <1>10 DEF list

(* One round of what Joined adds up.                                       *)
StepOn(S, steps) == S \cup {b \in Planar : \E a \in S : <<a, b>> \in steps}

Reaching(f, k, steps) ==
    f = [n \in 0..k |-> IF n = 0 THEN {Middle} ELSE StepOn(f[n - 1], steps)]

(* As many rounds as one likes can be told one after the other.            *)
LEMMA ReachExists ==
    ASSUME NEW k \in Nat, NEW steps
    PROVE  \E f : Reaching(f, k, steps)
<1>. DEFINE bad == {j \in Nat : ~\E f : Reaching(f, j, steps)}
<1>1. ASSUME bad # {} PROVE FALSE
  <2>1. PICK j \in bad : \A i \in bad : j <= i
    BY <1>1, LeastExists
  <2>2. j # 0
    <3>. DEFINE f == [n \in 0..0 |-> {Middle}]
    <3>1. Reaching(f, 0, steps)
      BY DEF Reaching
    <3>. QED
      BY <3>1
  <2>3. j \in Nat /\ j - 1 \in Nat /\ j - 1 \notin bad
    <3>1. j \in Nat
      BY <2>1
    <3>2. j - 1 \in Nat /\ ~(j <= j - 1)
      BY <2>2, <3>1
    <3>. HIDE DEF bad
    <3>. QED
      BY <2>1, <3>1, <3>2
  <2>4. PICK f : Reaching(f, j - 1, steps)
    BY <2>3
  <2>. DEFINE g == [n \in 0..j |-> IF n = 0 THEN {Middle} ELSE StepOn(f[n - 1], steps)]
  <2>5. \A n \in 0..(j - 1) : g[n] = f[n]
    <3>1. \A n \in 0..(j - 1) :
             f[n] = IF n = 0 THEN {Middle} ELSE StepOn(f[n - 1], steps)
      BY <2>4, Zenon DEF Reaching
    <3>2. \A n \in 0..(j - 1) : n \in 0..j
      BY <2>3
    <3>. QED
      BY <3>1, <3>2
  <2>6. \A n \in 0..j : n # 0 => StepOn(g[n - 1], steps) = StepOn(f[n - 1], steps)
    <3>1. \A n \in 0..j : n # 0 => n - 1 \in 0..(j - 1)
      BY <2>3
    <3>. HIDE DEF g
    <3>. QED
      BY <2>5, <3>1
  <2>7. g = [n \in 0..j |-> IF n = 0 THEN {Middle} ELSE StepOn(g[n - 1], steps)]
    BY <2>6
  <2>8. Reaching(g, j, steps)
    <3>. HIDE DEF g
    <3>. QED
      BY <2>7, Zenon DEF Reaching
  <2>. QED
    BY <2>1, <2>8
<1>. QED
  BY <1>1

(* Nothing in the grid is left to step on after as many rounds as it has   *)
(* voxels: each round but the last adds one.                               *)
LEMMA JoinedClosed ==
    ASSUME NEW steps
    PROVE  /\ Middle \in Joined(steps) /\ Joined(steps) \subseteq Planar
           /\ \A a \in Joined(steps) : \A b \in Planar :
                <<a, b>> \in steps => b \in Joined(steps)
<1>. DEFINE size == Cardinality(Planar)
            reach == CHOOSE f : Reaching(f, size, steps)
<1>1. size \in Nat /\ IsFiniteSet(Planar) /\ Middle \in Planar
  BY PlanarFinite
<1>2. Joined(steps) = reach[size]
  BY DEF Joined, Reaching, StepOn
<1>3. Reaching(reach, size, steps)
  BY <1>1, ReachExists
<1>. HIDE DEF reach, size
<1>4. /\ reach[0] = {Middle}
      /\ \A n \in 0..size : n # 0 => reach[n] = StepOn(reach[n - 1], steps)
  <2>1. reach = [n \in 0..size |-> IF n = 0 THEN {Middle} ELSE StepOn(reach[n - 1], steps)]
    BY <1>3, Zenon DEF Reaching
  <2>2. \A n \in 0..size : reach[n] = IF n = 0 THEN {Middle} ELSE StepOn(reach[n - 1], steps)
    BY <2>1, Zenon
  <2>3. 0 \in 0..size
    BY <1>1
  <2>. QED
    BY <2>2, <2>3
<1>5. \A n \in 0..size : n # 0 => n - 1 \in 0..size /\ n - 1 < n
  BY <1>1
<1>6. \A n \in 0..size : reach[n] \subseteq Planar /\ Middle \in reach[n]
  <2>. DEFINE bad == {n \in 0..size : ~(reach[n] \subseteq Planar /\ Middle \in reach[n])}
  <2>1. ASSUME bad # {} PROVE FALSE
    <3>1. PICK n \in bad : \A m \in bad : n <= m
      <4>1. bad \subseteq Nat
        BY <1>1
      <4>. HIDE DEF bad
      <4>. QED
        BY <2>1, <4>1, LeastExists
    <3>2. n # 0
      BY <1>1, <1>4
    <3>3. n \in 0..size /\ n - 1 \in 0..size /\ n - 1 \notin bad
      <4>1. n \in 0..size /\ n - 1 \in 0..size /\ ~(n <= n - 1)
        BY <1>1, <3>1, <3>2
      <4>. HIDE DEF bad
      <4>. QED
        BY <3>1, <4>1
    <3>4. reach[n] = StepOn(reach[n - 1], steps)
      BY <1>4, <3>2, <3>3
    <3>5. reach[n - 1] \subseteq Planar /\ Middle \in reach[n - 1]
      BY <3>3
    <3>6. reach[n] \subseteq Planar /\ Middle \in reach[n]
      BY <3>4, <3>5 DEF StepOn
    <3>. QED
      BY <3>1, <3>6
  <2>. QED
    BY <2>1
<1>7. ASSUME NEW a \in reach[size], NEW b \in Planar, <<a, b>> \in steps, b \notin reach[size]
      PROVE  FALSE
  (* Then every round before added one, or nothing would have been added since. *)
  <2>1. \A k \in 0..size : StepOn(reach[k], steps) # reach[k]
    <3>. SUFFICES ASSUME NEW k \in 0..size, StepOn(reach[k], steps) = reach[k] PROVE FALSE
      OBVIOUS
    <3>. DEFINE bad == {n \in k..size : reach[n] # reach[k]}
    <3>1. ASSUME bad # {} PROVE FALSE
      <4>1. bad \subseteq Nat
        BY <1>1
      <4>2. PICK n \in bad : \A m \in bad : n <= m
        <5>. HIDE DEF bad
        <5>. QED
          BY <3>1, <4>1, LeastExists
      <4>3. n # k /\ n \in k..size
        BY <4>2
      <4>4. n \in 0..size /\ n # 0 /\ n - 1 \in k..size /\ ~(n <= n - 1)
        BY <1>1, <4>3
      <4>5. n - 1 \notin bad
        <5>. HIDE DEF bad
        <5>. QED
          BY <4>2, <4>4
      <4>6. reach[n - 1] = reach[k] /\ reach[n] = StepOn(reach[n - 1], steps)
        BY <1>4, <4>4, <4>5
      <4>. QED
        BY <4>2, <4>6
    <3>2. reach[size] = reach[k]
      BY <1>1, <3>1
    <3>. QED
      BY <1>7, <3>2 DEF StepOn
  <2>2. ASSUME NEW n \in 0..size
        PROVE  IsFiniteSet(reach[n]) /\ Cardinality(reach[n]) \in Nat
    BY <1>1, <1>6, FS_Subset, FS_CardinalityType
  <2>3. ASSUME NEW n \in 0..size, n # 0
        PROVE  Cardinality(reach[n - 1]) < Cardinality(reach[n])
    <3>1. n - 1 \in 0..size /\ reach[n] = StepOn(reach[n - 1], steps)
      BY <1>4, <1>5, <2>3
    <3>2. reach[n - 1] \subseteq reach[n] /\ reach[n - 1] # reach[n]
      BY <2>1, <3>1 DEF StepOn
    <3>3. IsFiniteSet(reach[n]) /\ Cardinality(reach[n]) \in Nat /\ Cardinality(reach[n - 1]) \in Nat
      BY <2>2, <3>1
    <3>4. /\ Cardinality(reach[n - 1]) <= Cardinality(reach[n])
          /\ Cardinality(reach[n - 1]) # Cardinality(reach[n])
      BY <3>2, <3>3, FS_Subset
    <3>. QED
      BY <3>3, <3>4
  <2>4. \A n \in 0..size : n < Cardinality(reach[n])
    <3>. DEFINE bad == {n \in 0..size : ~(n < Cardinality(reach[n]))}
    <3>1. ASSUME bad # {} PROVE FALSE
      <4>1. PICK n \in bad : \A m \in bad : n <= m
        <5>1. bad \subseteq Nat
          BY <1>1
        <5>. HIDE DEF bad
        <5>. QED
          BY <3>1, <5>1, LeastExists
      <4>2. n \in 0..size /\ n # 0
        <5>1. Cardinality(reach[0]) = 1
          BY <1>4, FS_Singleton
        <5>. QED
          BY <4>1, <5>1
      <4>3. n - 1 \in 0..size /\ ~(n <= n - 1)
        BY <1>1, <4>2
      <4>4. n - 1 \notin bad
        <5>. HIDE DEF bad
        <5>. QED
          BY <4>1, <4>3
      <4>5. n - 1 < Cardinality(reach[n - 1]) /\ Cardinality(reach[n - 1]) < Cardinality(reach[n])
        BY <2>3, <4>2, <4>3, <4>4
      <4>6. Cardinality(reach[n - 1]) \in Nat /\ Cardinality(reach[n]) \in Nat /\ n \in Nat
        BY <2>2, <4>2, <4>3
      <4>7. n < Cardinality(reach[n])
        BY <4>5, <4>6
      <4>. QED
        BY <4>1, <4>7
    <3>. QED
      BY <3>1
  <2>5. Cardinality(reach[size]) <= size
    BY <1>1, <1>6, FS_Subset DEF size
  <2>6. size \in 0..size /\ Cardinality(reach[size]) \in Nat
    BY <1>1, <2>2
  <2>. QED
    BY <1>1, <2>4, <2>5, <2>6
<1>8. size \in 0..size
  BY <1>1
<1>. QED
  BY <1>2, <1>6, <1>7, <1>8

(* What the search knows of the voxels, over terrain: those in the queue   *)
(* and those that were are joined to the middle; what can be stepped on    *)
(* from one that was taken from the queue has been looked at; a ceiling is *)
(* high above one.                                                         *)
Found(steps) ==
    /\ conn \in [Planar -> {-1, 0, 1, 2}] /\ queue \in Seq(Planar)
    /\ \A i \in 1..Len(queue) : conn[queue[i]] \in {1, 2}
    /\ \A c \in Planar : conn[c] = 1 => \E i \in 1..Len(queue) : queue[i] = c
    /\ \A c \in Planar : conn[c] \in {1, 2} => c \in Joined(steps)
    /\ \A s \in steps : conn[s[1]] = 2 => conn[s[2]] # 0
    /\ \A b \in Planar : conn[b] = -1 =>
         \E a \in Planar : /\ conn[a] = 2 /\ InReach(a, b)
                           /\ Abs(elev[a] - elev[b]) > ext_settings.ceiling_thre

ConnInv ==
    /\ stage = "searching" => ext_settings.check_conn
    /\ stage \in {"searching", "searched"} /\ ext_settings.check_conn
         => Found(SmallSteps(Terrain(ext_grid)))
    /\ stage = "searched" /\ ext_settings.check_conn => queue = <<>>

(* The search begins in the middle.                                        *)
LEMMA SearchBegins ==
    ASSUME ConnInv, ExtPipeline
    PROVE  ConnInv'
<1>1. CASE ~ext_settings.check_conn
  BY <1>1 DEF ExtPipeline, ConnInv
<1>2. CASE ext_settings.check_conn
  <2>1. /\ stage' = "searching" /\ queue' = <<Middle>>
        /\ conn' = [Flat EXCEPT ![Middle] = 1] /\ ext_settings' = ext_settings
    BY <1>2 DEF ExtPipeline
  <2>2. Middle \in Planar
    BY PlanarFinite
  <2>3. /\ conn' \in [Planar -> {-1, 0, 1, 2}]
        /\ \A c \in Planar : conn'[c] = IF c = Middle THEN 1 ELSE 0
    BY <2>1, <2>2 DEF Flat
  <2>4. queue' \in Seq(Planar) /\ Len(queue') = 1 /\ queue'[1] = Middle
    BY <2>1, <2>2
  <2>. DEFINE steps == SmallSteps(Terrain(ext_grid))
  <2>5. Middle \in Joined(steps')
    BY JoinedClosed
  <2>6. steps' \subseteq Planar \X Planar
    BY DEF SmallSteps
  <2>. HIDE DEF steps
  <2>7. Found(steps)'
    BY <2>2, <2>3, <2>4, <2>5, <2>6 DEF Found
  <2>. QED
    BY <1>2, <2>1, <2>7 DEF ConnInv, steps
<1>. QED
  BY <1>1, <1>2

(* What is left of the queue, and what joins it.                           *)
LEMMA SearchGoesOn ==
    ASSUME ConnInv, Search
    PROVE  ConnInv'
<1>. DEFINE steps == SmallSteps(Terrain(ext_grid))
            front == Head(queue)
            open  == {c \in Planar \ {front} : /\ InReach(front, c) /\ conn[c] = 0
                                               /\ ~Bare(c, Terrain(ext_grid))}
            joins == {c \in open : Connects(front, c)}
            list  == ByIndex(joins)
<1>1. /\ stage = "searching" /\ queue # <<>> /\ ext_settings.check_conn
      /\ queue' = Tail(queue) \o list
      /\ conn' = [c \in Planar |-> CASE c = front -> 2
                                      [] c \in joins -> 1
                                      [] c \in open /\ IsCeiling(front, c) -> -1
                                      [] OTHER -> conn[c]]
      /\ UNCHANGED <<stage, ext_settings, ext_vehicle, ext_grid, elev>>
  BY DEF Search, ConnInv
<1>2. Found(steps)
  BY <1>1 DEF ConnInv
<1>3. steps' = steps
  BY <1>1 DEF SmallSteps, Bare, ExtLevel, Terrain
<1>4. /\ queue \in Seq(Planar) /\ Len(queue) \in Nat \ {0} /\ front = queue[1] /\ front \in Planar
      /\ Tail(queue) \in Seq(Planar) /\ Len(Tail(queue)) = Len(queue) - 1
      /\ \A i \in 1..Len(Tail(queue)) : Tail(queue)[i] = queue[i + 1]
  <2>1. queue \in Seq(Planar) /\ queue # <<>>
    BY <1>1, <1>2 DEF Found
  <2>. QED
    BY <2>1, HeadTailProperties
<1>5. joins \subseteq open /\ open \subseteq Planar /\ front \notin open
  OBVIOUS
<1>6. /\ list \in Seq(joins) /\ list \in Seq(Planar)
      /\ \A c \in joins : \E i \in 1..Len(list) : list[i] = c
  <2>1. /\ list \in Seq(joins)
        /\ \A c \in joins : \E i \in 1..Len(list) : list[i] = c
    BY <1>5, ListedByIndex
  <2>. HIDE DEF list, joins
  <2>. QED
    BY <1>5, <2>1
<1>. DEFINE IsTall(c) == c \in open /\ IsCeiling(front, c)
<1>7. /\ conn' \in [Planar -> {-1, 0, 1, 2}]
      /\ \A c \in Planar : conn'[c] = IF c = front THEN 2 ELSE IF c \in joins THEN 1
                                      ELSE IF IsTall(c) THEN -1 ELSE conn[c]
  <2>1. conn \in [Planar -> {-1, 0, 1, 2}]
    BY <1>2 DEF Found
  <2>2. \A c \in joins : ~IsCeiling(front, c)
    BY DEF IsCeiling
  <2>. DEFINE new(c) == CASE c = front -> 2 [] c \in joins -> 1
                         [] c \in open /\ IsCeiling(front, c) -> -1 [] OTHER -> conn[c]
  <2>3. ASSUME NEW c \in Planar
        PROVE  /\ new(c) = IF c = front THEN 2 ELSE IF c \in joins THEN 1
                            ELSE IF IsTall(c) THEN -1 ELSE conn[c]
               /\ new(c) \in {-1, 0, 1, 2}
    <3>. HIDE DEF front, joins, open
    <3>. QED
      BY <1>5, <2>1, <2>2
  <2>4. conn' = [c \in Planar |-> new(c)]
    BY <1>1
  <2>. HIDE DEF new, IsTall, front, joins, open
  <2>. QED
    BY <2>3, <2>4
<1>8. /\ \A c \in joins : conn[c] = 0 /\ <<front, c>> \in steps
      /\ \A s \in steps : s[1] = front /\ s[2] # front /\ conn[s[2]] = 0 => s[2] \in joins
      /\ \A c \in Planar : IsTall(c) =>
            /\ InReach(front, c) /\ Abs(elev[front] - elev[c]) > ext_settings.ceiling_thre
            /\ conn[c] = 0
      /\ steps \subseteq Planar \X Planar
  BY <1>4 DEF SmallSteps, Connects, IsCeiling
<1>9. /\ queue' \in Seq(Planar) /\ Len(queue') = Len(Tail(queue)) + Len(list)
      /\ \A i \in 1..Len(queue') :
            queue'[i] = IF i <= Len(Tail(queue)) THEN Tail(queue)[i]
                        ELSE list[i - Len(Tail(queue))]
  <2>. HIDE DEF list
  <2>. QED
    BY <1>1, <1>4, <1>6, ConcatProperties
<1>. HIDE DEF list, joins, open, front, IsTall, steps
<1>10. \A i \in 1..Len(queue') : conn'[queue'[i]] \in {1, 2}
  <2>. SUFFICES ASSUME NEW i \in 1..Len(queue') PROVE conn'[queue'[i]] \in {1, 2}
    OBVIOUS
  <2>1. CASE i <= Len(Tail(queue))
    <3>1. i \in 1..Len(Tail(queue)) /\ i + 1 \in 1..Len(queue)
      BY <1>4, <1>6, <1>9, <2>1
    <3>2. queue'[i] = queue[i + 1] /\ conn[queue[i + 1]] \in {1, 2} /\ queue[i + 1] \in Planar
      BY <1>2, <1>4, <1>9, <2>1, <3>1 DEF Found
    <3>3. queue'[i] \in Planar /\ conn[queue'[i]] # 0
      BY <3>2
    <3>4. queue'[i] \notin joins /\ ~IsTall(queue'[i])
      BY <1>8, <3>3
    <3>. QED
      BY <1>7, <3>2, <3>4
  <2>2. CASE ~(i <= Len(Tail(queue)))
    <3>1. i - Len(Tail(queue)) \in 1..Len(list)
      BY <1>4, <1>6, <1>9, <2>2
    <3>2. queue'[i] = list[i - Len(Tail(queue))]
      BY <1>9, <2>2
    <3>3. queue'[i] \in joins /\ queue'[i] \in Planar
      BY <1>5, <1>6, <3>1, <3>2
    <3>. QED
      BY <1>7, <3>3
  <2>. QED
    BY <2>1, <2>2
<1>11. ASSUME NEW c \in Planar, conn'[c] = 1 PROVE \E i \in 1..Len(queue') : queue'[i] = c
  <2>1. c # front
    BY <1>7, <1>11
  <2>2. CASE c \in joins
    <3>1. PICK i \in 1..Len(list) : list[i] = c
      BY <1>6, <2>2
    <3>2. i + Len(Tail(queue)) \in 1..Len(queue') /\ ~(i + Len(Tail(queue)) <= Len(Tail(queue)))
          /\ (i + Len(Tail(queue))) - Len(Tail(queue)) = i
      BY <1>4, <1>6, <1>9
    <3>3. queue'[i + Len(Tail(queue))] = c
      BY <1>9, <3>1, <3>2
    <3>. QED
      BY <3>2, <3>3
  <2>3. CASE c \notin joins
    <3>1. conn[c] = 1
      BY <1>7, <1>11, <2>1, <2>3
    <3>2. PICK i \in 1..Len(queue) : queue[i] = c
      BY <1>2, <3>1 DEF Found
    <3>3. i # 1
      BY <1>4, <2>1, <3>2
    <3>4. i - 1 \in 1..Len(Tail(queue)) /\ i - 1 \in 1..Len(queue') /\ i - 1 <= Len(Tail(queue))
          /\ (i - 1) + 1 = i
      BY <1>4, <1>6, <1>9, <3>3
    <3>5. queue'[i - 1] = c
      BY <1>4, <1>9, <3>2, <3>4
    <3>. QED
      BY <3>4, <3>5
  <2>. QED
    BY <2>2, <2>3
<1>12. ASSUME NEW c \in Planar, conn'[c] \in {1, 2} PROVE c \in Joined(steps)
  <2>1. front \in Joined(steps)
    BY <1>2, <1>4 DEF Found
  <2>2. CASE c \in joins
    BY <1>8, <2>1, <2>2, JoinedClosed
  <2>3. CASE c # front /\ c \notin joins
    <3>1. conn[c] \in {1, 2}
      BY <1>7, <1>12, <2>3
    <3>. QED
      BY <1>2, <3>1 DEF Found
  <2>. QED
    BY <2>1, <2>2, <2>3
<1>13. ASSUME NEW s \in steps, conn'[s[1]] = 2 PROVE conn'[s[2]] # 0
  <2>1. s[1] \in Planar /\ s[2] \in Planar
    BY <1>8
  <2>2. CASE s[1] = front
    BY <1>7, <1>8, <2>1, <2>2
  <2>3. CASE s[1] # front
    <3>1. conn[s[1]] = 2
      BY <1>7, <1>13, <2>1, <2>3
    <3>2. conn[s[2]] # 0
      BY <1>2, <3>1 DEF Found
    <3>. QED
      BY <1>7, <2>1, <3>2
  <2>. QED
    BY <2>2, <2>3
<1>14. ASSUME NEW b \in Planar, conn'[b] = -1
       PROVE  \E a \in Planar : /\ conn'[a] = 2 /\ InReach(a, b)
                                /\ Abs(elev[a] - elev[b]) > ext_settings.ceiling_thre
  <2>1. conn'[front] = 2
    BY <1>4, <1>7
  <2>2. CASE IsTall(b)
    BY <1>4, <1>8, <2>1, <2>2
  <2>3. CASE ~IsTall(b)
    <3>1. conn[b] = -1
      BY <1>7, <1>14, <2>3
    <3>2. PICK a \in Planar : /\ conn[a] = 2 /\ InReach(a, b)
                              /\ Abs(elev[a] - elev[b]) > ext_settings.ceiling_thre
      BY <1>2, <3>1 DEF Found
    <3>3. conn'[a] = 2
      <4>1. conn[a] # 0
        BY <3>2
      <4>2. a \notin joins /\ ~IsTall(a)
        BY <1>8, <4>1
      <4>. QED
        BY <1>7, <3>2, <4>2
    <3>. QED
      BY <3>2, <3>3
  <2>. QED
    BY <2>2, <2>3
<1>15. Found(steps)'
  BY <1>1, <1>3, <1>7, <1>9, <1>10, <1>11, <1>12, <1>13, <1>14 DEF Found
<1>. QED
  BY <1>1, <1>15 DEF ConnInv, steps

(* Every step of the search, and every other, keeps what it has found.     *)
LEMMA ConnInductive == ConnInv /\ [ExtNext]_extVars => ConnInv'
<1>. SUFFICES ASSUME ConnInv, [ExtNext]_extVars PROVE ConnInv'
  OBVIOUS
<1>1. CASE ExtPipeline
  BY <1>1, SearchBegins
<1>2. CASE Search
  BY <1>2, SearchGoesOn
<1>3. CASE /\ UNCHANGED <<ext_settings, ext_vehicle, ext_grid, elev, conn, queue>>
           /\ stage' = stage \/ (stage = "searching" /\ queue = <<>> /\ stage' = "searched")
  <2>1. SmallSteps(Terrain(ext_grid))' = SmallSteps(Terrain(ext_grid))
    BY <1>3 DEF SmallSteps, Bare, ExtLevel, Terrain
  <2>2. Found(SmallSteps(Terrain(ext_grid)))' <=> Found(SmallSteps(Terrain(ext_grid)))
    <3>. DEFINE steps == SmallSteps(Terrain(ext_grid))
    <3>. HIDE DEF steps
    <3>1. steps' = steps
      BY <2>1 DEF steps
    <3>2. Found(steps)' <=> Found(steps)
      BY <1>3, <3>1 DEF Found
    <3>. QED
      BY <3>2 DEF steps
  <2>. QED
    BY <1>3, <2>2 DEF ConnInv
<1>4. CASE stage' = "callbacks"
  BY <1>4 DEF ConnInv
<1>. QED
  BY <1>1, <1>2, <1>3, <1>4 DEF ExtNext, extOdometryHandler, extLaserCloudHandler,
     terrainCloudLocalHandler, extClearingHandler, SearchEnds, ExtPublish, search, extVars

(* The search of terrainAnalysisExt.cpp ends with the voxels that are      *)
(* joined to the vehicle's by small steps, and leaves out of those one     *)
(* could step on only ceilings, each high above a voxel that is kept.      *)
THEOREM SearchConnects == ExtSpec => []TerrainIsConnected
<1>1. ExtInit => ConnInv
  BY DEF ExtInit, ConnInv
<1>2. ConnInv => TerrainIsConnected
  <2>. SUFFICES ASSUME ConnInv, stage = "searched", ext_settings.check_conn
                PROVE  TerrainIsConnected
    BY DEF TerrainIsConnected
  <2>. DEFINE steps == SmallSteps(Terrain(ext_grid))
  <2>1. Found(steps) /\ queue = <<>>
    BY DEF ConnInv
  <2>2. steps \subseteq Planar \X Planar
    BY DEF SmallSteps
  <2>. HIDE DEF steps
  <2>3. \A c \in Planar : conn[c] # 1 /\ conn[c] \in {-1, 0, 1, 2}
    BY <2>1 DEF Found
  <2>4. \A c \in Planar : conn[c] = 2 => c \in Joined(steps)
    BY <2>1 DEF Found
  <2>5. \A s \in steps : s[1] \in Planar /\ s[2] \in Planar /\ (conn[s[1]] = 2 => conn[s[2]] \in {-1, 2})
    BY <2>1, <2>2, <2>3 DEF Found
  <2>6. \A b \in Planar : conn[b] = -1 =>
          \E a \in Planar : /\ conn[a] = 2 /\ InReach(a, b)
                            /\ Abs(elev[a] - elev[b]) > ext_settings.ceiling_thre
    BY <2>1 DEF Found
  <2>. QED
    BY <2>4, <2>5, <2>6 DEF TerrainIsConnected, steps
<1>. QED
  BY <1>1, <1>2, ConnInductive, PTL DEF ExtSpec

(* What waits in the queue waits there once, and has joined.               *)
QueueInv ==
    /\ conn \in [Planar -> {-1, 0, 1, 2}] /\ queue \in Seq(Planar)
    /\ \A i \in 1..Len(queue) : conn[queue[i]] = 1
    /\ \A i, j \in 1..Len(queue) : queue[i] = queue[j] => i = j

LEMMA QueueBegins == ExtInit => QueueInv
  BY DEF ExtInit, QueueInv, Flat

(* A voxel joins when it has not been looked at, so it is not in the queue. *)
LEMMA QueueGoesOn ==
    ASSUME QueueInv, Search
    PROVE  QueueInv'
<1>. DEFINE front == Head(queue)
            open  == {c \in Planar \ {front} : /\ InReach(front, c) /\ conn[c] = 0
                                               /\ ~Bare(c, Terrain(ext_grid))}
            joins == {c \in open : Connects(front, c)}
            list  == ByIndex(joins)
            rest  == Tail(queue)
            new(c) == CASE c = front -> 2 [] c \in joins -> 1
                        [] c \in open /\ IsCeiling(front, c) -> -1 [] OTHER -> conn[c]
<1>1. /\ queue # <<>> /\ queue' = rest \o list
      /\ conn' = [c \in Planar |-> new(c)]
  BY DEF Search
<1>2. /\ queue \in Seq(Planar) /\ Len(queue) \in Nat \ {0} /\ front = queue[1] /\ front \in Planar
      /\ rest \in Seq(Planar) /\ Len(rest) = Len(queue) - 1
      /\ \A i \in 1..Len(rest) : rest[i] = queue[i + 1]
  <2>1. queue \in Seq(Planar) /\ queue # <<>>
    BY <1>1 DEF QueueInv
  <2>. QED
    BY <2>1, HeadTailProperties
<1>3. joins \subseteq open /\ open \subseteq Planar /\ front \notin open
      /\ \A c \in open : conn[c] = 0
  OBVIOUS
<1>4. /\ list \in Seq(joins) /\ list \in Seq(Planar) /\ Len(list) \in Nat
      /\ \A i \in 1..Len(list) : list[i] \in joins
      /\ \A i, j \in 1..Len(list) : list[i] = list[j] => i = j
  <2>1. /\ list \in Seq(joins)
        /\ \A i, j \in 1..Len(list) : list[i] = list[j] => i = j
    BY <1>3, ListedByIndex
  <2>. HIDE DEF list, joins
  <2>. QED
    BY <1>3, <2>1
<1>5. \A c \in joins : ~IsCeiling(front, c)
  BY DEF IsCeiling
<1>. HIDE DEF list, rest, joins
<1>6. ASSUME NEW c \in Planar
      PROVE  /\ new(c) \in {-1, 0, 1, 2}
             /\ c \in joins => new(c) = 1
             /\ c # front /\ c \notin open => new(c) = conn[c]
  <2>1. conn[c] \in {-1, 0, 1, 2}
    BY DEF QueueInv
  <2>. HIDE DEF open, front
  <2>. QED
    BY <1>3, <1>5, <2>1
<1>7. /\ queue' \in Seq(Planar) /\ Len(queue') = Len(rest) + Len(list)
      /\ \A i \in 1..Len(queue') :
            queue'[i] = IF i <= Len(rest) THEN rest[i] ELSE list[i - Len(rest)]
  <2>1. rest \in Seq(Planar) /\ list \in Seq(Planar) /\ queue' = rest \o list
    BY <1>1, <1>2, <1>4
  <2>. QED
    BY <2>1, ConcatProperties
<1>8. /\ conn' \in [Planar -> {-1, 0, 1, 2}]
      /\ \A c \in Planar : conn'[c] = new(c)
  <2>. HIDE DEF new
  <2>. QED
    BY <1>1, <1>6
<1>. HIDE DEF new, open, front
<1>9. ASSUME NEW i \in 1..Len(rest)
      PROVE  /\ rest[i] \in Planar /\ rest[i] # front /\ conn[rest[i]] = 1
             /\ rest[i] \notin open /\ conn'[rest[i]] = 1
  <2>1. i + 1 \in 1..Len(queue) /\ 1 \in 1..Len(queue) /\ i + 1 # 1
    BY <1>2
  <2>2. rest[i] = queue[i + 1] /\ queue[i + 1] \in Planar
    BY <1>2, <2>1
  <2>3. conn[queue[i + 1]] = 1 /\ queue[i + 1] # queue[1]
    BY <2>1 DEF QueueInv
  <2>4. rest[i] \notin open
    BY <1>3, <2>2, <2>3
  <2>. QED
    BY <1>2, <1>6, <1>8, <2>2, <2>3, <2>4
<1>10. \A i \in 1..Len(queue') : \/ i \in 1..Len(rest) /\ queue'[i] = rest[i]
                                 \/ i - Len(rest) \in 1..Len(list) /\ queue'[i] = list[i - Len(rest)]
  BY <1>2, <1>4, <1>7
<1>11. \A i \in 1..Len(queue') : conn'[queue'[i]] = 1
  BY <1>3, <1>4, <1>6, <1>8, <1>9, <1>10
<1>12. ASSUME NEW i \in 1..Len(queue'), NEW j \in 1..Len(queue'), queue'[i] = queue'[j]
       PROVE  i = j
  <2>1. CASE i \in 1..Len(rest) /\ j \in 1..Len(rest)
    <3>1. queue[i + 1] = queue[j + 1] /\ i + 1 \in 1..Len(queue) /\ j + 1 \in 1..Len(queue)
      BY <1>2, <1>7, <1>12, <2>1
    <3>2. i + 1 = j + 1
      BY <3>1 DEF QueueInv
    <3>. QED
      BY <2>1, <3>2
  <2>2. CASE i \notin 1..Len(rest) /\ j \notin 1..Len(rest)
    <3>1. /\ i - Len(rest) \in 1..Len(list) /\ j - Len(rest) \in 1..Len(list)
          /\ list[i - Len(rest)] = list[j - Len(rest)]
      BY <1>10, <1>12, <2>2
    <3>2. i - Len(rest) = j - Len(rest)
      BY <1>4, <3>1
    <3>. QED
      BY <1>2, <3>2
  <2>3. CASE i \in 1..Len(rest) /\ j \notin 1..Len(rest)
    <3>1. queue'[i] = rest[i] /\ queue'[i] \notin open
      BY <1>7, <1>9, <2>3
    <3>2. queue'[j] \in open
      BY <1>3, <1>4, <1>10, <2>3
    <3>. QED
      BY <1>12, <3>1, <3>2
  <2>4. CASE i \notin 1..Len(rest) /\ j \in 1..Len(rest)
    <3>1. queue'[j] = rest[j] /\ queue'[j] \notin open
      BY <1>7, <1>9, <2>4
    <3>2. queue'[i] \in open
      BY <1>3, <1>4, <1>10, <2>4
    <3>. QED
      BY <1>12, <3>1, <3>2
  <2>. QED
    BY <2>1, <2>2, <2>3, <2>4
<1>. QED
  BY <1>7, <1>8, <1>11, <1>12 DEF QueueInv

LEMMA QueueInductive == QueueInv /\ [ExtNext]_extVars => QueueInv'
<1>. SUFFICES ASSUME QueueInv, [ExtNext]_extVars PROVE QueueInv'
  OBVIOUS
<1>1. CASE ExtPipeline
  <2>1. CASE ext_settings.check_conn
    <3>1. queue' = <<Middle>> /\ conn' = [Flat EXCEPT ![Middle] = 1] /\ Middle \in Planar
      BY <1>1, <2>1, PlanarFinite DEF ExtPipeline
    <3>2. conn' \in [Planar -> {-1, 0, 1, 2}] /\ conn'[Middle] = 1
      BY <3>1 DEF Flat
    <3>3. queue' \in Seq(Planar) /\ Len(queue') = 1 /\ queue'[1] = Middle
      BY <3>1
    <3>. QED
      BY <3>2, <3>3 DEF QueueInv
  <2>2. CASE ~ext_settings.check_conn
    <3>1. queue' = <<>> /\ conn' = Flat
      BY <1>1, <2>2 DEF ExtPipeline
    <3>. QED
      BY <3>1 DEF QueueInv, Flat
  <2>. QED
    BY <2>1, <2>2
<1>2. CASE Search
  BY <1>2, QueueGoesOn
<1>3. CASE UNCHANGED <<conn, queue>>
  BY <1>3 DEF QueueInv
<1>. QED
  BY <1>1, <1>2, <1>3 DEF ExtNext, extOdometryHandler, extLaserCloudHandler,
     terrainCloudLocalHandler, extClearingHandler, SearchEnds, ExtPublish, search, extVars

(* So the queue is never longer than there are voxels.                     *)
LEMMA QueueIsBounded == QueueInv => Len(queue) \in Nat /\ Len(queue) <= Cardinality(Planar)
<1>. SUFFICES ASSUME QueueInv PROVE Len(queue) \in Nat /\ Len(queue) <= Cardinality(Planar)
  OBVIOUS
<1>1. queue \in [1..Len(queue) -> Planar] /\ Len(queue) \in Nat
  BY DEF QueueInv
<1>2. queue \in Injection(1..Len(queue), Planar)
  <2>1. \A i, j \in 1..Len(queue) : queue[i] = queue[j] => i = j
    BY DEF QueueInv
  <2>. QED
    BY <1>1, <2>1, Fun_IsInj
<1>3. IsFiniteSet(1..Len(queue)) /\ Cardinality(1..Len(queue)) = Len(queue)
  <2>1. ASSUME NEW k \in Nat PROVE IsFiniteSet(1..k) /\ Cardinality(1..k) = k
    BY FS_Interval
  <2>. QED
    BY <1>1, <2>1
<1>4. Cardinality(1..Len(queue)) <= Cardinality(Planar)
  BY <1>2, PlanarFinite, FS_Injection
<1>. QED
  BY <1>1, <1>3, <1>4

(* The types of terrain_analysis_ext.                                      *)
LEMMA ExtTypesBegin == ExtInit => ExtTypeOK
<1>. SUFFICES ASSUME ExtInit PROVE ExtTypeOK
  OBVIOUS
<1>1. Len(queue) <= Cardinality(Planar) /\ queue \in Seq(Planar) /\ conn \in [Planar -> {-1, 0, 1, 2}]
  BY QueueBegins, QueueIsBounded DEF QueueInv
<1>2. ext_now \in -1..ExtMaxStamp /\ ext_rolled \in 0..ExtMaxStamp
  BY ExtAssumption DEF ExtInit
<1>. QED
  BY <1>1, <1>2 DEF ExtInit, ExtTypeOK, Flat

LEMMA ExtTypesInductive ==
    ExtAges /\ QueueInv /\ ExtTypeOK /\ [ExtNext]_extVars => ExtTypeOK'
<1>. SUFFICES ASSUME ExtAges, QueueInv, ExtTypeOK, [ExtNext]_extVars PROVE ExtTypeOK'
  OBVIOUS
<1>1. /\ conn' \in [Planar -> {-1, 0, 1, 2}] /\ queue' \in Seq(Planar)
      /\ Len(queue') <= Cardinality(Planar)
  <2>1. QueueInv'
    BY QueueInductive
  <2>2. (Len(queue) \in Nat /\ Len(queue) <= Cardinality(Planar))'
    BY <2>1, QueueIsBounded, PTL
  <2>. QED
    BY <2>1, <2>2 DEF QueueInv
<1>2. ASSUME NEW v \in ExtVehicles, extOdometryHandler(v) PROVE ExtTypeOK'
  BY <1>1, <1>2 DEF extOdometryHandler, search, ExtTypeOK
<1>3. ASSUME NEW sweep \in ExtScans, extLaserCloudHandler(sweep) PROVE ExtTypeOK'
  <2>1. ext_now' \in -1..ExtMaxStamp
    BY <1>3, ExtAssumption DEF extLaserCloudHandler, ExtTypeOK
  <2>. QED
    BY <1>1, <1>3, <2>1 DEF extLaserCloudHandler, search, ExtTypeOK
<1>4. ASSUME NEW map \in LocalMaps, terrainCloudLocalHandler(map) PROVE ExtTypeOK'
  BY <1>1, <1>4 DEF terrainCloudLocalHandler, search, ExtTypeOK
<1>5. ASSUME NEW dis, extClearingHandler(dis) PROVE ExtTypeOK'
  BY <1>1, <1>5 DEF extClearingHandler, search, ExtTypeOK
<1>6. CASE ExtPipeline
  <2>1. ext_now >= 0
    BY <1>6 DEF ExtPipeline, ExtAges, Ages
  <2>2. ext_rolled' \in 0..ExtMaxStamp
    <3>1. ext_rolled' = ext_rolled \/ ext_rolled' = ext_now
      BY <1>6 DEF ExtPipeline
    <3>. QED
      BY <2>1, <3>1, ExtAssumption DEF ExtTypeOK
  <2>3. DOMAIN elev' = Planar
    BY <1>6 DEF ExtPipeline, ExtElevation
  <2>4. stage' \in {"searching", "searched"}
    BY <1>6 DEF ExtPipeline
  <2>5. /\ ext_new' = FALSE
        /\ UNCHANGED <<ext_settings, ext_now, ext_clearing, local>>
    BY <1>6 DEF ExtPipeline
  <2>. QED
    BY <1>1, <2>2, <2>3, <2>4, <2>5 DEF ExtTypeOK
<1>7. CASE Search \/ SearchEnds
  BY <1>1, <1>7 DEF Search, SearchEnds, ExtTypeOK
<1>8. CASE ExtPublish
  BY <1>1, <1>8 DEF ExtPublish, ExtTypeOK
<1>9. CASE UNCHANGED extVars
  BY <1>1, <1>9 DEF extVars, ExtTypeOK
<1>. QED
  BY <1>2, <1>3, <1>4, <1>5, <1>6, <1>7, <1>8, <1>9 DEF ExtNext

-----------------------------------------------------------------------------
(* The costmap layer.  An origin on the lattice of cells, and the square   *)
(* of the world a cell lies on.                                            *)
OnLattice(o) == \A k \in 1..2 : /\ o[k] \in Int /\ o[k] \div Resolution \in Int
                                /\ o[k] = Resolution * (o[k] \div Resolution)

LEMMA LayerDivision ==
    ASSUME NEW a \in Int
    PROVE  /\ a \div Resolution \in Int /\ a % Resolution \in 0..(Resolution - 1)
           /\ a = Resolution * (a \div Resolution) + (a % Resolution)
BY IntensityVoxelLayerAssumption, Division

LEMMA QuotientOfDifference ==
    ASSUME NEW a \in Int, NEW m \in Int
    PROVE  (a - Resolution * m) \div Resolution = (a \div Resolution) - m
<1>. DEFINE R == Resolution
            b == a - R * m
<1>1. R \in Nat \ {0} /\ R * m \in Int
  BY IntensityVoxelLayerAssumption
<1>2. /\ a \div R \in Int /\ a % R \in 0..(R - 1) /\ a = R * (a \div R) + (a % R)
  BY LayerDivision
<1>3. b \in Int
  BY <1>1
<1>4. b \div R \in Int /\ b % R \in 0..(R - 1) /\ b = R * (b \div R) + (b % R)
  <2>. HIDE DEF b
  <2>. QED
    BY <1>3, LayerDivision
<1>5. /\ R * ((a \div R) - m) = R * (a \div R) - R * m
      /\ R * (a \div R) \in Int /\ (a \div R) - m \in Int
  BY <1>1, <1>2
<1>6. b = R * ((a \div R) - m) + (a % R)
  BY <1>1, <1>2, <1>5
<1>7. b % R = a % R
  <2>. HIDE DEF b
  <2>. QED
    BY <1>1, <1>2, <1>3, <1>5, <1>6, RemainderUnique
<1>. DEFINE x == b \div R
            y == (a \div R) - m
<1>8. x \in Int /\ y \in Int /\ R * x = R * y
  <2>1. b = R * x + (a % R) /\ b = R * y + (a % R) /\ x \in Int /\ y \in Int
    BY <1>4, <1>5, <1>6, <1>7
  <2>. HIDE DEF b, x, y
  <2>2. R * x \in Int /\ R * y \in Int
    BY <1>1, <2>1
  <2>. QED
    BY <1>2, <2>1, <2>2
<1>9. R * (x - y) = 0 /\ x - y \in Int
  <2>. HIDE DEF x, y
  <2>1. R * (x - y) = R * x - R * y
    BY <1>1, <1>8
  <2>2. R * x \in Int
    BY <1>1, <1>8
  <2>. QED
    BY <1>8, <2>1, <2>2
<1>10. x = y
  <2>. HIDE DEF x, y
  <2>1. CASE x - y >= 1
    BY <1>1, <1>9, <2>1
  <2>2. CASE x - y <= -1
    BY <1>1, <1>9, <2>2
  <2>. QED
    BY <1>8, <1>9, <2>1, <2>2
<1>. QED
  BY <1>10

(* Where a place is in a costmap is the difference of two squares.         *)
LEMMA CellOfPlace ==
    ASSUME NEW o, OnLattice(o), NEW at \in Int \X Int, NEW k \in 1..2
    PROVE  /\ CellIn(o, at)[k] = (at[k] \div Resolution) - (o[k] \div Resolution)
           /\ CellIn(o, at)[k] \in Int /\ CellIn(o, at) \in Int \X Int
           /\ at[k] \in Int /\ at[k] \div Resolution \in Int
           /\ CellIn(<<0, 0>>, at)[k] = at[k] \div Resolution
           /\ CellIn(<<0, 0>>, at) \in Int \X Int
<1>1. ASSUME NEW j \in 1..2
      PROVE  /\ (at[j] - o[j]) \div Resolution = (at[j] \div Resolution) - (o[j] \div Resolution)
             /\ at[j] \in Int /\ at[j] \div Resolution \in Int
             /\ o[j] \div Resolution \in Int /\ at[j] - 0 = at[j]
  <2>1. at[j] \in Int
    OBVIOUS
  <2>2. /\ o[j] = Resolution * (o[j] \div Resolution)
        /\ o[j] \div Resolution \in Int
    BY DEF OnLattice
  <2>3. at[j] \div Resolution \in Int
    BY <2>1, LayerDivision
  <2>. QED
    BY <2>1, <2>2, <2>3, QuotientOfDifference
<1>2. /\ CellIn(o, at) = <<(at[1] - o[1]) \div Resolution, (at[2] - o[2]) \div Resolution>>
      /\ CellIn(<<0, 0>>, at) = <<(at[1] - 0) \div Resolution, (at[2] - 0) \div Resolution>>
  BY DEF CellIn
<1>3. 1 \in 1..2 /\ 2 \in 1..2 /\ k \in {1, 2}
  OBVIOUS
<1>. QED
  BY <1>1, <1>2, <1>3

(* A roll keeps to the lattice and ends around the robot.                  *)
LEMMA RolledAround ==
    ASSUME NEW o, OnLattice(o), NEW robot \in Int \X Int
    PROVE  /\ OnLattice(RolledOrigin(o, robot))
           /\ \A k \in 1..2 : robot[k] - (RolledOrigin(o, robot)[k]
                                          + (2 * LayerSize - 1) * (Resolution \div 4))
                                 \in 1 - Resolution..Resolution - 1
<1>. SUFFICES ASSUME NEW k \in 1..2
              PROVE  LET r == RolledOrigin(o, robot)[k]
                     IN  /\ r \in Int /\ r \div Resolution \in Int
                         /\ r = Resolution * (r \div Resolution)
                         /\ robot[k] - (r + (2 * LayerSize - 1) * (Resolution \div 4))
                              \in 1 - Resolution..Resolution - 1
  BY DEF OnLattice
<1>. DEFINE R == Resolution
            M == (2 * LayerSize - 1) * (Resolution \div 4)
            d == robot[k] - M - o[k]
            t == Trunc(d, R)
            r == RolledOrigin(o, robot)[k]
            m == o[k] \div R
<1>1. R \in Nat \ {0} /\ LayerSize \in Int
  BY IntensityVoxelLayerAssumption
<1>2. R \div 4 \in Int
  BY <1>1
<1>3. M \in Int
  BY <1>1, <1>2
<1>4. robot[k] \in Int /\ o[k] \in Int /\ m \in Int /\ o[k] = R * m
  BY DEF OnLattice
<1>5. r = o[k] + R * t
  BY DEF RolledOrigin
<1>. HIDE DEF M
<1>6. d \in Int /\ -d \in Int
  BY <1>3, <1>4
<1>7. t \in Int /\ d - R * t \in 1 - R..R - 1
  <2>. HIDE DEF d
  <2>1. CASE d >= 0
    <3>1. d \div R \in Int /\ d % R \in 0..(R - 1) /\ d = R * (d \div R) + (d % R)
      BY <1>6, LayerDivision
    <3>2. t = d \div R
      BY <2>1 DEF Trunc
    <3>3. d - R * (d \div R) \in 1 - R..R - 1
      BY <1>1, <3>1
    <3>. QED
      BY <3>1, <3>2, <3>3
  <2>2. CASE ~(d >= 0)
    <3>1. (-d) \div R \in Int /\ (-d) % R \in 0..(R - 1)
          /\ -d = R * ((-d) \div R) + ((-d) % R)
      BY <1>6, LayerDivision
    <3>2. t = -((-d) \div R)
      BY <2>2 DEF Trunc
    <3>3. R * (-((-d) \div R)) = -(R * ((-d) \div R)) /\ R * ((-d) \div R) \in Int
      BY <1>1, <3>1
    <3>4. d - R * (-((-d) \div R)) \in 1 - R..R - 1
      BY <1>1, <1>6, <3>1, <3>3
    <3>. QED
      BY <3>1, <3>2, <3>4
  <2>. QED
    BY <2>1, <2>2
<1>. HIDE DEF t, r, m
<1>8. R * t \in Int /\ r \in Int
  BY <1>1, <1>4, <1>5, <1>7
<1>9. robot[k] - (r + M) \in 1 - R..R - 1
  BY <1>3, <1>4, <1>5, <1>7, <1>8
<1>10. r \div R = m + t
  <2>1. R * (m + t) = R * m + R * t
    BY <1>1, <1>4, <1>7
  <2>2. r = R * (m + t) + 0 /\ m + t \in Int /\ R * (m + t) \in Int
    BY <1>1, <1>4, <1>5, <1>7, <1>8, <2>1
  <2>3. R * (-(m + t)) = -(R * (m + t)) /\ -(m + t) \in Int /\ 0 \in Int
    BY <1>1, <2>2
  <2>4. (0 - R * (-(m + t))) \div R = (0 \div R) - (-(m + t))
    BY <2>3, QuotientOfDifference
  <2>5. 0 - R * (-(m + t)) = r
    BY <1>8, <2>2, <2>3
  <2>6. 0 \div R = 0
    BY <1>1
  <2>. QED
    BY <2>2, <2>4, <2>5, <2>6
<1>11. r = R * (r \div R) /\ r \div R \in Int
  <2>1. R * (m + t) = R * m + R * t
    BY <1>1, <1>4, <1>7
  <2>. QED
    BY <1>4, <1>5, <1>7, <1>10, <2>1
<1>. QED
  BY <1>8, <1>9, <1>11 DEF r, M

(* What a cycle marks.                                                     *)
ShownAsSeen(o, given, robot) == Marks(o, given, robot) \ UnderFootprint(o, robot)

(* The layer and the master agree on their origin; what the master shows   *)
(* is what the last cycle saw, in the window inflation remembers.          *)
LayerInv ==
    /\ origin = master_origin /\ OnLattice(origin)
    /\ looked.robot \in Int \X Int
    /\ \A p \in looked.points : p.at \in Int \X Int
    /\ last \subseteq Int \X Int
    /\ master = IF looked.on THEN ShownAsSeen(origin, looked.points, looked.robot) ELSE {}
    /\ master \subseteq Window(origin, last)
    /\ rolling /\ looked # Nowhere =>
          \A k \in 1..2 : looked.robot[k] - (origin[k] + (2 * LayerSize - 1) * (Resolution \div 4))
                            \in 1 - Resolution..Resolution - 1

LEMMA LayerInitially == LayerInit => LayerInv
<1>. SUFFICES ASSUME LayerInit PROVE LayerInv
  OBVIOUS
<1>1. OnLattice(<<0, 0>>)
  BY IntensityVoxelLayerAssumption DEF OnLattice
<1>2. Nowhere.on = FALSE /\ Nowhere.points = {} /\ Nowhere.robot = <<0, 0>>
  BY DEF Nowhere
<1>. QED
  BY <1>1, <1>2 DEF LayerInit, LayerInv

(* A cell that is marked holds a point that is taken, and touched.         *)
LEMMA MarkedHoldsPoint ==
    ASSUME NEW o, NEW given, NEW robot, NEW c \in Marks(o, given, robot)
    PROVE  \E p \in Taken(given, robot) :
              CellIn(o, p.at) = c /\ p.at \in Touched(o, given, robot)
<1>. DEFINE here == {p \in Taken(given, robot) : CellIn(o, p.at) = c}
<1>1. HighEnough(here)
  BY DEF Marks
<1>2. here # {}
  <2>1. HighEnough({}) = FALSE
    <3>1. {Floor(p) : p \in {}} = {}
      OBVIOUS
    <3>2. Cardinality({}) = 0
      BY FS_EmptySet
    <3>3. ~(0 > Layer.mark_threshold)
      BY IntensityVoxelLayerAssumption
    <3>. QED
      BY <3>1, <3>2, <3>3 DEF HighEnough
  <2>. HIDE DEF here
  <2>. QED
    BY <1>1, <2>1
<1>3. PICK p \in Taken(given, robot) : CellIn(o, p.at) = c
  BY <1>2
<1>4. p.at \in Touched(o, given, robot)
  BY <1>3 DEF Touched
<1>. QED
  BY <1>3, <1>4

LEMMA TouchedPlaces ==
    ASSUME NEW given, \A p \in given : p.at \in Int \X Int, NEW robot \in Int \X Int, NEW o
    PROVE  Touched(o, given, robot) \subseteq Int \X Int
<1>1. Corners(robot) \subseteq Int \X Int
  BY IntensityVoxelLayerAssumption DEF Corners
<1>. QED
  BY <1>1 DEF Touched, Taken

(* The window around places holds what lies in it, on any lattice.         *)
LEMMA RolledWindow ==
    ASSUME NEW from, OnLattice(from), NEW to, OnLattice(to), NEW places, places \subseteq Int \X Int,
           NEW cells, cells \subseteq Window(from, places)
    PROVE  Kept2D(cells, from, to) \subseteq Window(to, places)
<1>. SUFFICES ASSUME NEW c \in Kept2D(cells, from, to) PROVE c \in Window(to, places)
  OBVIOUS
<1>. DEFINE e == <<c[1] + (to[1] - from[1]) \div Resolution, c[2] + (to[2] - from[2]) \div Resolution>>
<1>1. c \in LayerCells /\ e \in cells /\ e \in Window(from, places)
  BY DEF Kept2D
<1>2. ASSUME NEW k \in 1..2
      PROVE  e[k] = c[k] + ((to[k] \div Resolution) - (from[k] \div Resolution))
  <2>1. (to[k] - from[k]) \div Resolution = (to[k] \div Resolution) - (from[k] \div Resolution)
    <3>1. to[k] \in Int /\ from[k] = Resolution * (from[k] \div Resolution)
          /\ from[k] \div Resolution \in Int
      BY DEF OnLattice
    <3>. QED
      BY <3>1, QuotientOfDifference
  <2>2. k = 1 \/ k = 2
    OBVIOUS
  <2>. QED
    BY <2>1, <2>2
<1>3. \A k \in 1..2 : c[k] \in Int /\ to[k] \div Resolution \in Int /\ from[k] \div Resolution \in Int
  BY <1>1, IntensityVoxelLayerAssumption DEF LayerCells, OnLattice
<1>. HIDE DEF e
<1>4. ASSUME NEW k \in 1..2, NEW p \in places
      PROVE  /\ CellIn(to, p)[k] \in Int /\ CellIn(from, p)[k] \in Int
             /\ CellIn(to, p)[k] - c[k] = CellIn(from, p)[k] - e[k]
             /\ e[k] \in Int /\ c[k] \in Int
  <2>1. /\ CellIn(to, p)[k] = (p[k] \div Resolution) - (to[k] \div Resolution)
        /\ CellIn(from, p)[k] = (p[k] \div Resolution) - (from[k] \div Resolution)
        /\ p[k] \div Resolution \in Int
    BY CellOfPlace
  <2>. QED
    BY <1>2, <1>3, <2>1
<1>5. ASSUME NEW k \in 1..2
      PROVE  /\ \E p \in places : CellIn(from, p)[k] <= e[k]
             /\ \E p \in places : CellIn(from, p)[k] >= e[k]
  BY <1>1 DEF Window
<1>6. ASSUME NEW k \in 1..2
      PROVE  /\ \E p \in places : CellIn(to, p)[k] <= c[k]
             /\ \E p \in places : CellIn(to, p)[k] >= c[k]
  <2>1. PICK p \in places : CellIn(from, p)[k] <= e[k]
    BY <1>5
  <2>2. PICK q \in places : CellIn(from, q)[k] >= e[k]
    BY <1>5
  <2>3. CellIn(to, p)[k] <= c[k]
    BY <1>4, <2>1
  <2>4. CellIn(to, q)[k] >= c[k]
    BY <1>4, <2>2
  <2>. QED
    BY <2>3, <2>4
<1>. QED
  BY <1>1, <1>6 DEF Window

(* A cycle leaves in the master what it has marked, and nothing else:      *)
(* what was there before lies in the window that is copied anew.           *)
LEMMA CycleShowsWhatItSees ==
    ASSUME LayerInv, NEW given \in Observed, NEW robot \in Robots, NEW in_time,
           updateBounds(given, robot, in_time)
    PROVE  LayerInv'
<1>. DEFINE to == IF rolling THEN RolledOrigin(origin, robot) ELSE origin
            touched == IF enabled THEN Touched(to, given, robot) ELSE {}
            marks == IF enabled THEN ShownAsSeen(to, given, robot) ELSE {}
            window == Window(to, touched \cup last)
<1>1. /\ robot \in Int \X Int /\ \A p \in given : p.at \in Int \X Int
  BY IntensityVoxelLayerAssumption
<1>2. /\ origin' = to /\ master_origin' = to /\ last' = touched
      /\ master' = (Kept2D(master, origin, to) \ window)
                    \cup (IF enabled THEN marks \cap window ELSE {})
      /\ looked' = [robot |-> robot, points |-> given, on |-> enabled]
      /\ rolling' = rolling
  BY DEF updateBounds, LayerCycle, LayerInv, ShownAsSeen
<1>3. /\ OnLattice(origin) /\ OnLattice(to)
      /\ rolling => \A k \in 1..2 :
            robot[k] - (to[k] + (2 * LayerSize - 1) * (Resolution \div 4))
               \in 1 - Resolution..Resolution - 1
  BY <1>1, RolledAround DEF LayerInv
<1>. HIDE DEF to
<1>4. touched \subseteq Int \X Int
  BY <1>1, TouchedPlaces
<1>5. marks \subseteq Window(to, touched)
  <2>. SUFFICES ASSUME NEW c \in marks PROVE c \in Window(to, touched)
    OBVIOUS
  <2>1. enabled /\ c \in Marks(to, given, robot) /\ c \in LayerCells
    BY DEF ShownAsSeen, Marks
  <2>2. PICK at \in touched : CellIn(to, at) = c
    BY <2>1, MarkedHoldsPoint DEF touched
  <2>3. \A k \in 1..2 : CellIn(to, at)[k] <= c[k] /\ CellIn(to, at)[k] >= c[k]
    BY <2>1, <2>2, IntensityVoxelLayerAssumption DEF LayerCells
  <2>. HIDE DEF touched
  <2>. QED
    BY <2>1, <2>2, <2>3 DEF Window
<1>. HIDE DEF touched, marks
<1>6. Window(to, touched) \subseteq window /\ Window(to, last) \subseteq window
  BY DEF Window
<1>7. Kept2D(master, origin, to) \subseteq Window(to, last)
  BY <1>3, RolledWindow DEF LayerInv
<1>. HIDE DEF window
<1>8. marks = {} \/ enabled
  BY DEF marks
<1>9. master' = marks
  BY <1>2, <1>5, <1>6, <1>7, <1>8
<1>10. /\ looked'.robot = robot /\ looked'.points = given /\ looked'.on = enabled
  BY <1>2
<1>11. master' = IF looked'.on THEN ShownAsSeen(origin', looked'.points, looked'.robot) ELSE {}
  BY <1>2, <1>9, <1>10 DEF marks
<1>12. OnLattice(origin)'
  BY <1>2, <1>3 DEF OnLattice
<1>13. (master \subseteq Window(origin, last))'
  BY <1>2, <1>5, <1>9 DEF Window
<1>14. (rolling /\ looked # Nowhere =>
          \A k \in 1..2 : looked.robot[k] - (origin[k] + (2 * LayerSize - 1) * (Resolution \div 4))
                            \in 1 - Resolution..Resolution - 1)'
  BY <1>2, <1>3, <1>10
<1>15. (master = IF looked.on THEN ShownAsSeen(origin, looked.points, looked.robot) ELSE {})'
  BY <1>11 DEF ShownAsSeen, Marks
<1>. QED
  BY <1>1, <1>2, <1>4, <1>10, <1>12, <1>13, <1>14, <1>15 DEF LayerInv

LEMMA LayerInductive == LayerInv /\ [LayerNext]_layerVars => LayerInv'
<1>. SUFFICES ASSUME LayerInv, [LayerNext]_layerVars PROVE LayerInv'
  OBVIOUS
<1>0. Nowhere.on = FALSE /\ Nowhere.points = {} /\ Nowhere.robot = <<0, 0>>
  BY DEF Nowhere
<1>1. ASSUME NEW given \in Observed, NEW robot \in Robots, NEW in_time,
             updateBounds(given, robot, in_time)
      PROVE  LayerInv'
  BY <1>1, CycleShowsWhatItSees
<1>2. CASE resetLayers
  <2>1. /\ UNCHANGED <<rolling, origin, master_origin, last>>
        /\ master' = {} /\ looked' = Nowhere
    BY <1>2 DEF resetLayers
  <2>. QED
    BY <1>0, <2>1 DEF LayerInv, OnLattice
<1>3. ASSUME NEW at \in {<<0, 0>>, <<-Resolution, Resolution>>}, matchSize(at)
      PROVE  LayerInv'
  <2>1. OnLattice(at)
    <3>1. ASSUME NEW k \in 1..2 PROVE \E m \in {-1, 0, 1} : at[k] = Resolution * m
      BY IntensityVoxelLayerAssumption
    <3>2. ASSUME NEW m \in {-1, 0, 1}
          PROVE  /\ Resolution * m \in Int /\ (Resolution * m) \div Resolution = m
    <4>1. /\ -m \in Int /\ 0 - Resolution * (-m) = Resolution * m
          /\ 0 \div Resolution = 0 /\ 0 - (-m) = m /\ Resolution * m \in Int
      BY IntensityVoxelLayerAssumption
    <4>2. (0 - Resolution * (-m)) \div Resolution = (0 \div Resolution) - (-m)
      BY <4>1, QuotientOfDifference
    <4>. QED
      BY <4>1, <4>2
    <3>. QED
      BY <3>1, <3>2 DEF OnLattice
  <2>2. /\ origin' = at /\ master_origin' = at /\ master' = {} /\ looked' = Nowhere
        /\ UNCHANGED <<rolling, last>>
    BY <1>3 DEF matchSize
  <2>3. OnLattice(origin)'
    BY <2>1, <2>2 DEF OnLattice
  <2>. QED
    BY <1>0, <2>2, <2>3 DEF LayerInv
<1>4. ASSUME (\E b \in BOOLEAN : SetEnabled(b)) \/ UNCHANGED layerVars PROVE LayerInv'
  <2>1. UNCHANGED <<rolling, origin, master_origin, master, last, looked>>
    BY <1>4 DEF SetEnabled, layerVars, layer_external
  <2>2. OnLattice(origin)' /\ (master \subseteq Window(origin, last))'
    BY <2>1 DEF LayerInv, OnLattice, Window
  <2>3. (master = IF looked.on THEN ShownAsSeen(origin, looked.points, looked.robot) ELSE {})'
    BY <2>1 DEF LayerInv
  <2>. QED
    BY <2>1, <2>2, <2>3 DEF LayerInv
<1>. QED
  BY <1>1, <1>2, <1>3, <1>4 DEF LayerNext

(* Two places are in one cell if they are in one square.                   *)
LEMMA SameSquare ==
    ASSUME NEW o, OnLattice(o), NEW p \in Int \X Int, NEW q \in Int \X Int
    PROVE  CellIn(o, p) = CellIn(o, q) <=> CellIn(<<0, 0>>, p) = CellIn(<<0, 0>>, q)
<1>1. ASSUME NEW k \in 1..2
      PROVE  CellIn(o, p)[k] = CellIn(o, q)[k]
                <=> CellIn(<<0, 0>>, p)[k] = CellIn(<<0, 0>>, q)[k]
  <2>1. o[k] \div Resolution \in Int
    BY DEF OnLattice
  <2>. QED
    BY <2>1, CellOfPlace
<1>2. \A a, b \in Int \X Int : a = b <=> a[1] = b[1] /\ a[2] = b[2]
  OBVIOUS
<1>3. /\ CellIn(o, p) \in Int \X Int /\ CellIn(<<0, 0>>, p) \in Int \X Int
      /\ CellIn(o, q) \in Int \X Int /\ CellIn(<<0, 0>>, q) \in Int \X Int
      /\ 1 \in 1..2 /\ 2 \in 1..2
  BY CellOfPlace
<1>. QED
  BY <1>1, <1>2, <1>3

(* The cells under the footprint are the squares under it.                 *)
LEMMA UnderTheSame ==
    ASSUME NEW o, OnLattice(o), NEW robot \in Int \X Int, NEW c \in LayerCells, NEW sq,
           \A k \in 1..2 : sq[k] = c[k] + (o[k] \div Resolution)
    PROVE  c \in UnderFootprint(o, robot) <=>
              /\ Layer.clear_footprint
              /\ \A at \in Corners(robot) : \A k \in 1..2 :
                    CellIn(<<0, 0>>, at)[k] - (o[k] \div Resolution) \in 0..LayerSize - 1
              /\ \A k \in 1..2 : /\ \E at \in Corners(robot) : CellIn(<<0, 0>>, at)[k] <= sq[k]
                                 /\ \E at \in Corners(robot) : CellIn(<<0, 0>>, at)[k] >= sq[k]
<1>1. Corners(robot) \subseteq Int \X Int
  BY IntensityVoxelLayerAssumption DEF Corners
<1>2. ASSUME NEW at \in Corners(robot), NEW k \in 1..2
      PROVE  /\ CellIn(o, at)[k] = CellIn(<<0, 0>>, at)[k] - (o[k] \div Resolution)
             /\ CellIn(o, at)[k] \in Int /\ CellIn(<<0, 0>>, at)[k] \in Int
             /\ CellIn(o, at) \in Int \X Int
             /\ CellIn(o, at)[k] <= c[k] <=> CellIn(<<0, 0>>, at)[k] <= sq[k]
             /\ CellIn(o, at)[k] >= c[k] <=> CellIn(<<0, 0>>, at)[k] >= sq[k]
  <2>1. /\ CellIn(o, at)[k] = CellIn(<<0, 0>>, at)[k] - (o[k] \div Resolution)
        /\ CellIn(o, at)[k] \in Int /\ CellIn(<<0, 0>>, at)[k] \in Int
        /\ CellIn(o, at) \in Int \X Int
    BY <1>1, CellOfPlace
  <2>2. o[k] \div Resolution \in Int /\ c[k] \in Int
    BY IntensityVoxelLayerAssumption DEF OnLattice, LayerCells
  <2>. QED
    BY <2>1, <2>2
<1>3. ASSUME NEW at \in Corners(robot)
      PROVE  CellIn(o, at) \in LayerCells <=>
                \A k \in 1..2 : CellIn(<<0, 0>>, at)[k] - (o[k] \div Resolution) \in 0..LayerSize - 1
  <2>1. \A d \in Int \X Int : d \in LayerCells <=> \A k \in 1..2 : d[k] \in 0..LayerSize - 1
    BY DEF LayerCells
  <2>. QED
    BY <1>2, <2>1
<1>4. {CellIn(o, at) : at \in Corners(robot)} \subseteq LayerCells <=>
         \A at \in Corners(robot) : CellIn(o, at) \in LayerCells
  OBVIOUS
<1>5. c \in UnderFootprint(o, robot) <=>
         /\ Layer.clear_footprint /\ \A at \in Corners(robot) : CellIn(o, at) \in LayerCells
         /\ \A k \in 1..2 : /\ \E at \in Corners(robot) : CellIn(o, at)[k] <= c[k]
                            /\ \E at \in Corners(robot) : CellIn(o, at)[k] >= c[k]
  BY <1>4 DEF UnderFootprint
<1>6. \A at \in Corners(robot) : CellIn(o, at) \in LayerCells <=>
         \A k \in 1..2 : CellIn(<<0, 0>>, at)[k] - (o[k] \div Resolution) \in 0..LayerSize - 1
  BY <1>3
<1>7. \A k \in 1..2 :
         /\ (\E at \in Corners(robot) : CellIn(o, at)[k] <= c[k])
               <=> \E at \in Corners(robot) : CellIn(<<0, 0>>, at)[k] <= sq[k]
         /\ (\E at \in Corners(robot) : CellIn(o, at)[k] >= c[k])
               <=> \E at \in Corners(robot) : CellIn(<<0, 0>>, at)[k] >= sq[k]
  BY <1>2
<1>. QED
  BY <1>5, <1>6, <1>7, Zenon

LEMMA LayerShows == LayerInv => MasterShowsWhatIsSeen
<1>. SUFFICES ASSUME LayerInv PROVE MasterShowsWhatIsSeen
  OBVIOUS
<1>. DEFINE square(at) == CellIn(<<0, 0>>, at)
            inWindow(sq) == \A k \in 1..2 :
                sq[k] - (master_origin[k] \div Resolution) \in 0..LayerSize - 1
            corners == {square(at) : at \in Corners(looked.robot)}
            under(sq) == /\ Layer.clear_footprint /\ \A d \in corners : inWindow(d)
                         /\ \A k \in 1..2 : /\ \E d \in corners : d[k] <= sq[k]
                                            /\ \E d \in corners : d[k] >= sq[k]
            SameAs(p) == {q \in Taken(looked.points, looked.robot) : square(q.at) = square(p.at)}
            high == {p \in looked.points : HighEnough(SameAs(p))}
            squareOf(c) == [k \in 1..2 |-> c[k] + (master_origin[k] \div Resolution)]
            shown == {squareOf(c) : c \in master}
            wanted == {sq \in {square(p.at) : p \in high} :
                          looked.on /\ inWindow(sq) /\ ~under(sq)}
            o == origin
            robot == looked.robot
            given == looked.points
<1>1. /\ OnLattice(o) /\ o = master_origin /\ robot \in Int \X Int
      /\ \A p \in given : p.at \in Int \X Int
      /\ master = IF looked.on THEN ShownAsSeen(o, given, robot) ELSE {}
  BY DEF LayerInv
<1>2. Taken(given, robot) \subseteq given
  BY DEF Taken
<1>3. ASSUME NEW p \in given
      PROVE  {q \in Taken(given, robot) : CellIn(o, q.at) = CellIn(o, p.at)} = SameAs(p)
  BY <1>1, <1>2, SameSquare
<1>4. ASSUME NEW p \in given, CellIn(o, p.at) \in LayerCells
      PROVE  /\ squareOf(CellIn(o, p.at)) = square(p.at)
             /\ inWindow(square(p.at))
             /\ CellIn(o, p.at) \in UnderFootprint(o, robot) <=> under(square(p.at))
             /\ CellIn(o, p.at) \in Marks(o, given, robot) <=> p \in high
  <2>. DEFINE c == CellIn(o, p.at)
              sq == square(p.at)
  <2>1. ASSUME NEW k \in 1..2
        PROVE  /\ sq[k] = c[k] + (o[k] \div Resolution)
               /\ sq[k] - (o[k] \div Resolution) = c[k]
    <3>1. o[k] \div Resolution \in Int /\ p.at \in Int \X Int
      BY <1>1 DEF OnLattice
    <3>. QED
      BY <1>1, <3>1, CellOfPlace
  <2>2. squareOf(c) = sq
    <3>1. sq = <<sq[1], sq[2]>>
      BY DEF CellIn
    <3>. HIDE DEF sq, c
    <3>2. squareOf(c) = [k \in 1..2 |-> sq[k]]
      BY <1>1, <2>1
    <3>3. [k \in 1..2 |-> sq[k]] = <<sq[1], sq[2]>>
      OBVIOUS
    <3>. QED
      BY <3>1, <3>2, <3>3
  <2>3. inWindow(sq)
    BY <1>1, <1>4, <2>1 DEF LayerCells
  <2>4. c \in UnderFootprint(o, robot) <=> under(sq)
    <3>1. c \in UnderFootprint(o, robot) <=>
              /\ Layer.clear_footprint
              /\ \A at \in Corners(robot) : \A k \in 1..2 :
                    square(at)[k] - (o[k] \div Resolution) \in 0..LayerSize - 1
              /\ \A k \in 1..2 : /\ \E at \in Corners(robot) : square(at)[k] <= sq[k]
                                 /\ \E at \in Corners(robot) : square(at)[k] >= sq[k]
      <4>. HIDE DEF c, sq
      <4>. QED
        BY <1>1, <1>4, <2>1, UnderTheSame DEF c
    <3>2. (\A d \in corners : inWindow(d)) <=>
             \A at \in Corners(robot) : \A k \in 1..2 :
                square(at)[k] - (o[k] \div Resolution) \in 0..LayerSize - 1
      <4>. HIDE DEF square
      <4>. QED
        BY <1>1
    <3>3. \A k \in 1..2 :
             /\ (\E d \in corners : d[k] <= sq[k]) <=> \E at \in Corners(robot) : square(at)[k] <= sq[k]
             /\ (\E d \in corners : d[k] >= sq[k]) <=> \E at \in Corners(robot) : square(at)[k] >= sq[k]
      <4>. HIDE DEF square, sq
      <4>. QED
        OBVIOUS
    <3>. HIDE DEF c, sq, corners, square, inWindow
    <3>. QED
      BY <3>1, <3>2, <3>3
  <2>5. c \in Marks(o, given, robot) <=> p \in high
    BY <1>3, <1>4 DEF Marks
  <2>. QED
    BY <2>2, <2>3, <2>4, <2>5
<1>5. shown = wanted
  <2>1. ASSUME NEW x \in shown PROVE x \in wanted
    <3>1. PICK c \in master : x = squareOf(c)
      OBVIOUS
    <3>2. looked.on /\ c \in Marks(o, given, robot) /\ c \notin UnderFootprint(o, robot)
      BY <1>1 DEF ShownAsSeen
    <3>3. PICK p \in Taken(given, robot) : CellIn(o, p.at) = c
      BY <3>2, MarkedHoldsPoint
    <3>4. p \in given /\ CellIn(o, p.at) \in LayerCells
      BY <1>2, <3>2, <3>3 DEF Marks
    <3>5. x = square(p.at) /\ p \in high /\ inWindow(square(p.at)) /\ ~under(square(p.at))
      <4>. HIDE DEF square, inWindow, under, high, squareOf
      <4>. QED
        BY <1>4, <3>1, <3>2, <3>3, <3>4
    <3>. HIDE DEF square, inWindow, under, high
    <3>. QED
      BY <3>2, <3>5
  <2>2. ASSUME NEW x \in wanted PROVE x \in shown
    <3>1. PICK p \in high : x = square(p.at)
      OBVIOUS
    <3>2. looked.on /\ inWindow(square(p.at)) /\ ~under(square(p.at)) /\ p \in given
      BY <3>1
    <3>3. CellIn(o, p.at) \in LayerCells
      <4>1. ASSUME NEW k \in 1..2 PROVE CellIn(o, p.at)[k] \in 0..LayerSize - 1
        <5>1. /\ CellIn(o, p.at)[k] = (p.at[k] \div Resolution) - (o[k] \div Resolution)
              /\ square(p.at)[k] = p.at[k] \div Resolution
          BY <1>1, <3>2, CellOfPlace
        <5>. QED
          BY <1>1, <3>2, <5>1
      <4>2. CellIn(o, p.at) = <<CellIn(o, p.at)[1], CellIn(o, p.at)[2]>>
        BY DEF CellIn
      <4>3. CellIn(o, p.at)[1] \in 0..LayerSize - 1 /\ CellIn(o, p.at)[2] \in 0..LayerSize - 1
        BY <4>1
      <4>. QED
        BY <4>2, <4>3, Zenon DEF LayerCells
    <3>4. CellIn(o, p.at) \in master /\ x = squareOf(CellIn(o, p.at))
      <4>. HIDE DEF square, inWindow, under, high, squareOf
      <4>. QED
        BY <1>1, <1>4, <3>1, <3>2, <3>3 DEF ShownAsSeen
    <3>. HIDE DEF squareOf
    <3>. QED
      BY <3>4
  <2>. HIDE DEF shown, wanted
  <2>. QED
    BY <2>1, <2>2
<1>6. rolling /\ looked # Nowhere =>
         \A k \in 1..2 : looked.robot[k] - (master_origin[k] + (2 * LayerSize - 1) * (Resolution \div 4))
                            \in 1 - Resolution..Resolution - 1
  BY DEF LayerInv
<1>. QED
  BY <1>5, <1>6, Zenon DEF MasterShowsWhatIsSeen

(* What the planner sees is what the terrain map said last: after any      *)
(* cycles, resets, new maps and switches, for every layer, size and        *)
(* resolution, the lethal cells of the master are those of the last        *)
(* observation, each in its own square of the world, and the rolling       *)
(* window lies around the robot.                                           *)
THEOREM MasterIsUpToDate == LayerSpec => []MasterShowsWhatIsSeen
BY LayerInitially, LayerInductive, LayerShows, PTL DEF LayerSpec

(* The types of the layer.                                                 *)
LEMMA LayerTypesBegin == LayerInit => LayerTypeOK
<1>. SUFFICES ASSUME LayerInit PROVE LayerTypeOK
  OBVIOUS
<1>1. Nowhere.points = {} /\ Nowhere.robot = <<0, 0>> /\ <<0, 0>> \in Int \X Int
  BY DEF Nowhere
<1>2. /\ rolling \in BOOLEAN /\ enabled = TRUE /\ current = FALSE
      /\ origin = <<0, 0>> /\ master_origin = <<0, 0>>
      /\ marked = {} /\ master = {} /\ last = {} /\ looked = Nowhere
  BY DEF LayerInit
<1>. QED
  BY <1>1, <1>2 DEF LayerTypeOK

LEMMA LayerTypesInductive ==
    LayerInv /\ LayerTypeOK /\ [LayerNext]_layerVars => LayerTypeOK'
<1>. SUFFICES ASSUME LayerInv, LayerTypeOK, [LayerNext]_layerVars PROVE LayerTypeOK'
  OBVIOUS
<1>0. Nowhere.points = {} /\ Nowhere.robot = <<0, 0>>
  BY DEF Nowhere
<1>1. ASSUME NEW given \in Observed, NEW robot \in Robots, NEW in_time \in BOOLEAN,
             updateBounds(given, robot, in_time)
      PROVE  LayerTypeOK'
  <2>. DEFINE to == IF rolling THEN RolledOrigin(origin, robot) ELSE origin
              touched == IF enabled THEN Touched(to, given, robot) ELSE {}
              marks == IF enabled THEN ShownAsSeen(to, given, robot) ELSE {}
              window == Window(to, touched \cup last)
  <2>1. /\ origin' = to /\ master_origin' = to /\ last' = touched /\ marked' = marks
        /\ master' = (Kept2D(master, origin, to) \ window)
                      \cup (IF enabled THEN marks \cap window ELSE {})
        /\ looked' = [robot |-> robot, points |-> given, on |-> enabled]
        /\ current' = IF enabled THEN in_time ELSE current
        /\ UNCHANGED <<rolling, enabled>>
    BY <1>1 DEF updateBounds, LayerCycle, LayerInv, ShownAsSeen
  <2>2. robot \in Int \X Int /\ \A p \in given : p.at \in Int \X Int
    BY IntensityVoxelLayerAssumption
  <2>3. to \in Int \X Int
    <3>1. RolledOrigin(origin, robot)[1] \in Int /\ RolledOrigin(origin, robot)[2] \in Int
      BY <2>2, RolledAround DEF LayerInv, OnLattice
    <3>2. RolledOrigin(origin, robot)
             = <<RolledOrigin(origin, robot)[1], RolledOrigin(origin, robot)[2]>>
      BY DEF RolledOrigin
    <3>. HIDE DEF RolledOrigin
    <3>. QED
      BY <3>1, <3>2 DEF LayerTypeOK
  <2>. HIDE DEF to
  <2>4. touched \subseteq Int \X Int
    BY <2>2, TouchedPlaces
  <2>5. marks \subseteq LayerCells /\ Kept2D(master, origin, to) \subseteq LayerCells
    BY DEF ShownAsSeen, Marks, Kept2D
  <2>. HIDE DEF touched, marks, window
  <2>. QED
    BY <2>1, <2>3, <2>4, <2>5 DEF LayerTypeOK
<1>2. CASE resetLayers
  BY <1>0, <1>2 DEF resetLayers, LayerTypeOK
<1>3. ASSUME NEW at \in {<<0, 0>>, <<-Resolution, Resolution>>}, matchSize(at)
      PROVE  LayerTypeOK'
  <2>1. at \in Int \X Int
    BY IntensityVoxelLayerAssumption
  <2>. QED
    BY <1>0, <1>3, <2>1 DEF matchSize, LayerTypeOK
<1>4. ASSUME NEW b \in BOOLEAN, SetEnabled(b) PROVE LayerTypeOK'
  BY <1>4 DEF SetEnabled, layer_external, LayerTypeOK
<1>5. CASE UNCHANGED layerVars
  BY <1>5 DEF layerVars, layer_external, LayerTypeOK
<1>. QED
  BY <1>1, <1>2, <1>3, <1>4, <1>5 DEF LayerNext

-----------------------------------------------------------------------------
(* The laser scan.  A ray's range is that of a point that was accepted.    *)
LEMMA RangesAreInReach ==
    ASSUME NEW cloud \in Clouds
    PROVE  Projected(Ranges(cloud)) \subseteq Rays \X (0..Laser.range_max)
<1>. DEFINE hits(r) == {p.range : p \in {q \in cloud : Accepted2D(q) /\ RayOf(q) = r}}
<1>1. ASSUME NEW r \in Rays PROVE hits(r) \subseteq 0..Laser.range_max
  BY LaserScanAssumption DEF Accepted2D
<1>2. ASSUME NEW r \in Rays, Ranges(cloud)[r] # NoHit
      PROVE  Ranges(cloud)[r] \in 0..Laser.range_max
  <2>1. hits(r) # {} /\ Ranges(cloud)[r] = Min(hits(r))
    BY <1>2 DEF Ranges
  <2>2. hits(r) \subseteq Nat /\ hits(r) \subseteq 0..Laser.range_max
    BY <1>1, LaserScanAssumption
  <2>. HIDE DEF hits
  <2>3. \E x \in hits(r) : \A y \in hits(r) : x <= y
    BY <2>1, <2>2, LeastExists
  <2>4. Min(hits(r)) \in hits(r)
    BY <2>3 DEF Min
  <2>. QED
    BY <2>1, <2>2, <2>4
<1>. QED
  BY <1>2 DEF Projected

ScanInv == ScanTypeOK /\ DOMAIN out = Nodes

LEMMA ScanTypesBegin == ScanInit => ScanInv
  BY DEF ScanInit, ScanInv, ScanTypeOK, Nodes

LEMMA ScanTypesInductive ==
    ASSUME ScanInv, NEW n \in Nodes, [ScanNext(n)]_scanVars
    PROVE  ScanInv'
<1>1. CASE ListenerThread(n) \/ Destroy(n) \/ Construct(n) \/ GraphChange(n)
           \/ UNCHANGED scanVars
  BY <1>1 DEF ListenerThread, Look, Follow, GetGraphEvent, Wake, Leave, Destroy, Construct,
              GraphChange, scanVars, ScanInv, ScanTypeOK
<1>2. ASSUME NEW cloud \in Clouds, cloudCallback(cloud) PROVE ScanInv'
  <2>1. /\ out' = [out EXCEPT !["cloud_to_scan"] = Ranges(cloud)]
        /\ UNCHANGED <<sub, alive, thread, count, notified, listening>>
    BY <1>2 DEF cloudCallback
  <2>2. /\ DOMAIN out' = Nodes /\ out'["cloud_to_scan"] = Ranges(cloud)
        /\ out'["scan_to_cloud"] = out["scan_to_cloud"]
    BY <2>1 DEF ScanInv, Nodes
  <2>. QED
    BY <2>1, <2>2 DEF ScanInv, ScanTypeOK
<1>3. ASSUME NEW cloud \in Clouds, scanCallback(Ranges(cloud)) PROVE ScanInv'
  <2>1. /\ out' = [out EXCEPT !["scan_to_cloud"] = Projected(Ranges(cloud))]
        /\ UNCHANGED <<sub, alive, thread, count, notified, listening>>
    BY <1>3 DEF scanCallback
  <2>2. /\ DOMAIN out' = Nodes /\ out'["scan_to_cloud"] = Projected(Ranges(cloud))
        /\ out'["cloud_to_scan"] = out["cloud_to_scan"]
    BY <2>1 DEF ScanInv, Nodes
  <2>. QED
    BY <2>1, <2>2, RangesAreInReach DEF ScanInv, ScanTypeOK
<1>. QED
  BY <1>1, <1>2, <1>3 DEF ScanNext

(* Odometry and scan that are matched                                      *)
LEMMA SensorTypes ==
    /\ SensorInit => SensorTypeOK
    /\ SensorTypeOK /\ [SensorNext]_sensorVars => SensorTypeOK'
<1>1. SensorInit => SensorTypeOK
  BY SensorScanAssumption DEF SensorInit, SensorTypeOK
<1>2. ASSUME SensorTypeOK, NEW o \in odometry + 1..MaxPair, NEW c \in scan + 1..MaxPair,
             NEW x \in Positions, NEW tilted \in BOOLEAN, NEW found \in [Frames -> BOOLEAN],
             laserCloudAndOdometryHandler(o, c, [x |-> x, tilted |-> tilted], found)
      PROVE  SensorTypeOK'
  <2>. DEFINE at(f) == toPlanarBaseTransform(Times([x |-> x, tilted |-> tilted],
                                                   Mounted(found[f])))
  <2>1. o \in 0..MaxPair /\ c \in 0..MaxPair
    <3>1. odometry \in 0..MaxPair /\ scan \in 0..MaxPair /\ MaxPair \in Nat
      BY <1>2, SensorScanAssumption DEF SensorTypeOK
    <3>. QED
      BY <3>1
  <2>2. \A f \in Frames : at(f).x \in Int /\ at(f).tilted = FALSE
    BY SensorScanAssumption DEF toPlanarBaseTransform, Times, Mounted
  <2>3. /\ odometry' = o /\ scan' = c
        /\ chassis' = [x |-> at("chassis").x, tilted |-> at("chassis").tilted, stamp |-> c]
        /\ base' = [x |-> at("robot_base").x, tilted |-> at("robot_base").tilted,
                    stamp |-> c, moved |-> at("robot_base").x - previous_transform]
        /\ previous_transform' = at("robot_base").x
        /\ sensor_scan' = [scan |-> c, pose |-> o]
    BY <1>2 DEF laserCloudAndOdometryHandler
  <2>4. "chassis" \in Frames /\ "robot_base" \in Frames
    BY DEF Frames
  <2>5. previous_transform \in Int
    BY <1>2 DEF SensorTypeOK
  <2>. DEFINE a == at("chassis")
              b == at("robot_base")
  <2>6. a.x \in Int /\ a.tilted \in BOOLEAN /\ b.x \in Int /\ b.tilted \in BOOLEAN
    <3>. HIDE DEF at
    <3>. QED
      BY <2>2, <2>4
  <2>. HIDE DEF a, b
  <2>7. /\ chassis' = [x |-> a.x, tilted |-> a.tilted, stamp |-> c]
        /\ base' = [x |-> b.x, tilted |-> b.tilted, stamp |-> c,
                    moved |-> b.x - previous_transform]
        /\ previous_transform' = b.x
    BY <2>3 DEF a, b
  <2>. HIDE DEF at
  <2>8. chassis'.x \in Int /\ chassis'.tilted \in BOOLEAN /\ chassis'.stamp = c
    BY <2>6, <2>7
  <2>9. /\ base'.x \in Int /\ base'.tilted \in BOOLEAN /\ base'.stamp = c
        /\ base'.moved \in Int /\ previous_transform' = base'.x
    BY <2>5, <2>6, <2>7
  <2>. QED
    BY <2>1, <2>3, <2>8, <2>9 DEF SensorTypeOK
<1>3. ASSUME SensorTypeOK, UNCHANGED sensorVars PROVE SensorTypeOK'
  BY <1>3 DEF sensorVars, SensorTypeOK
<1>. QED
  BY <1>1, <1>2, <1>3 DEF SensorNext

-----------------------------------------------------------------------------
(* The types of every part, and what keeps them                            *)
MappingInv ==
    /\ LocInv /\ TerrainInv /\ TerrainAges /\ TerrainTypeOK
    /\ ExtInv /\ ExtAges /\ QueueInv /\ ExtTypeOK
    /\ LayerInv /\ LayerTypeOK /\ ScanInv /\ SensorTypeOK /\ PreInv /\ MapInv

(* A step is one of one part, and leaves the others as they are.           *)
LEMMA PartsStep ==
    ASSUME [MCNext]_mappingVars
    PROVE  /\ [LocNext]_locVars /\ [TerrainNext]_terrainVars /\ [ExtNext]_extVars
           /\ [LayerNext]_layerVars /\ \E n \in Nodes : [ScanNext(n)]_scanVars
           /\ [SensorNext]_sensorVars /\ [PreNext]_preVars /\ [MapNext]_mapVars
<1>. USE DEF LocalizationPart, TerrainPart, TerrainExtPart, LayerPart, ScanPart, SensorPart,
             PrePart, MapPart
<1>0. \E n \in Nodes : TRUE
  BY DEF Nodes
<1>1. CASE LocalizationPart(LocNext)
  BY <1>0, <1>1, Zenon
<1>2. CASE TerrainPart(TerrainNext)
  BY <1>0, <1>2, Zenon
<1>3. CASE TerrainExtPart(ExtNext)
  BY <1>0, <1>3, Zenon
<1>4. CASE LayerPart(LayerNext)
  BY <1>0, <1>4, Zenon
<1>5. CASE ScanPart(ScanNext(part))
  BY <1>5, Zenon
<1>6. CASE SensorPart(SensorNext) \/ SensorPart(SensorsSilent)
  BY <1>0, <1>6, Zenon DEF SensorsSilent
<1>7. CASE PrePart(PreNext) \/ PrePart(LidarSilent)
  BY <1>0, <1>7, Zenon DEF LidarSilent
<1>8. CASE MapPart(MapNext) \/ MapPart(OdometryDone)
  BY <1>0, <1>8, Zenon DEF OdometryDone
<1>9. CASE UNCHANGED mappingVars
  <2>1. UNCHANGED <<locVars, terrainVars, extVars, layerVars, scanVars, sensorVars, preVars, mapVars>>
    BY <1>9, Zenon DEF mappingVars
  <2>. QED
    BY <1>0, <2>1, Zenon
<1>. QED
  BY <1>1, <1>2, <1>3, <1>4, <1>5, <1>6, <1>7, <1>8, <1>9, Zenon DEF MCNext

(* The values of every part's variables stay what MCMapping says they are, *)
(* on grids, scans, maps and settings of any kind, whichever of the parts  *)
(* runs.                                                                   *)
THEOREM MappingTypesCorrect == MCInit /\ [][MCNext]_mappingVars => []MappingTypeOK
<1>1. MCInit => MappingInv
  <2>. SUFFICES ASSUME MCInit PROVE MappingInv
    OBVIOUS
  <2>1. LocInv
    BY LocInitially, Zenon DEF MCInit
  <2>2. TerrainInv /\ TerrainAges /\ TerrainTypeOK
    BY TerrainInitially, TerrainAgesBegin, TerrainTypesBegin, Zenon DEF MCInit
  <2>3. ExtInv /\ ExtAges /\ QueueInv /\ ExtTypeOK
    BY ExtInitially, ExtAgesBegin, QueueBegins, ExtTypesBegin, Zenon DEF MCInit
  <2>4. LayerInv /\ LayerTypeOK
    BY LayerInitially, LayerTypesBegin, Zenon DEF MCInit
  <2>5. ScanInv /\ SensorTypeOK
    BY ScanTypesBegin, SensorTypes, Zenon DEF MCInit
  <2>6. PreInv /\ MapInv
    BY PreBegins, MapBegins, Zenon DEF MCInit
  <2>. QED
    BY <2>1, <2>2, <2>3, <2>4, <2>5, <2>6, Zenon DEF MappingInv
<1>2. MappingInv /\ [MCNext]_mappingVars => MappingInv'
  <2>. SUFFICES ASSUME MappingInv, [MCNext]_mappingVars PROVE MappingInv'
    OBVIOUS
  <2>1. /\ [LocNext]_locVars /\ [TerrainNext]_terrainVars /\ [ExtNext]_extVars
        /\ [LayerNext]_layerVars /\ \E n \in Nodes : [ScanNext(n)]_scanVars
        /\ [SensorNext]_sensorVars /\ [PreNext]_preVars /\ [MapNext]_mapVars
    BY PartsStep, Zenon
  <2>2. LocInv'
    BY <2>1, LocInductive, Zenon DEF MappingInv
  <2>3. TerrainInv' /\ TerrainAges' /\ TerrainTypeOK'
    BY <2>1, TerrainInductive, TerrainAgesInductive, TerrainTypesInductive, Zenon DEF MappingInv
  <2>4. ExtInv' /\ ExtAges' /\ QueueInv' /\ ExtTypeOK'
    BY <2>1, ExtInductive, ExtAgesInductive, QueueInductive, ExtTypesInductive, Zenon
       DEF MappingInv
  <2>5. LayerInv' /\ LayerTypeOK'
    BY <2>1, LayerInductive, LayerTypesInductive, Zenon DEF MappingInv
  <2>6. ScanInv' /\ SensorTypeOK'
    BY <2>1, ScanTypesInductive, SensorTypes, Zenon DEF MappingInv
  <2>7. PreInv' /\ MapInv'
    BY <2>1, PreStep, MapStep, Zenon DEF MappingInv
  <2>. QED
    BY <2>2, <2>3, <2>4, <2>5, <2>6, <2>7, Zenon DEF MappingInv
<1>3. MappingInv => MappingTypeOK
  BY Zenon DEF MappingInv, MappingTypeOK, LocInv, ScanInv, PreInv, MapInv
<1>. QED
  BY <1>1, <1>2, <1>3, PTL
=============================================================================
