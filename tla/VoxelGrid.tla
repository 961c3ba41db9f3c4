------------------------------ MODULE VoxelGrid ------------------------------
(***************************************************************************)
(* What terrain_analysis and terrain_analysis_ext have in common: a square *)
(* of terrain voxels that rolls along with the vehicle and collects the    *)
(* registered scans, and a finer planar grid, laid anew around the vehicle *)
(* for every scan, in which the ground is estimated.                       *)
(* Lengths, heights and stamps are whole numbers, distances are counted in *)
(* steps.  A point is [at, z, time], a vehicle [at, z].  A cloud is a set: *)
(* two points of it that are equal are one.                                *)
(***************************************************************************)
EXTENDS Distances, FiniteSets, FiniteSetsExt, Sequences, SequencesExt

CONSTANTS VoxelSize, HalfWidth,    \* terrain voxels: size, voxels to each side
          Inner,                   \* voxels to each side the map is made of
          PlanarSize, PlanarHalf   \* the planar grid

ASSUME VoxelGridAssumption ==
    /\ VoxelSize \in Nat \ {0} /\ PlanarSize \in Nat \ {0}
    /\ VoxelSize % 2 = 0 /\ PlanarSize % 2 = 0    \* both are halved
    /\ HalfWidth \in Nat /\ Inner \in 0..HalfWidth /\ PlanarHalf \in Nat

Square(half) == (0..2 * half) \X (0..2 * half)
Cells  == Square(HalfWidth)
Planar == Square(PlanarHalf)

Plus(c, d) == <<c[1] + d[1], c[2] + d[2]>>
Beside(c, d) == Abs(c[1] - d[1]) <= 1 /\ Abs(c[2] - d[2]) <= 1

EmptyGrid == [shift |-> <<0, 0>>, cloud |-> [c \in Cells |-> {}],
              num |-> [c \in Cells |-> 0], time |-> [c \in Cells |-> 0]]

(* The cast to int truncates; a negative offset gets one less, even when   *)
(* it was whole.                                                           *)
Index(offset, size, half) ==
    LET n == offset + size \div 2
    IN half + (IF n >= 0 THEN n \div size ELSE -((-n) \div size) - 1)

CellOf(p, v, size, half) == <<Index(p.at[1] - v.at[1], size, half),
                              Index(p.at[2] - v.at[2], size, half)>>

PlanarOf(p, v) == CellOf(p, v, PlanarSize, PlanarHalf)

(* Between the height limits, which widen with the distance                *)
Level(p, v, s) ==
    /\ p.z - v.z > s.min_z - s.ratio * Dist(p.at, v.at)
    /\ p.z - v.z < s.max_z + s.ratio * Dist(p.at, v.at)

Cropped(points, v, s) ==
    {p \in points : Level(p, v, s) /\ Dist(p.at, v.at) < VoxelSize * (HalfWidth + 1)}

-----------------------------------------------------------------------------
(* Where the while loops leave the shift along one axis                    *)
ShiftTo(shift, x) ==
    IF x - VoxelSize * shift < -VoxelSize THEN (x + VoxelSize) \div VoxelSize
    ELSE IF x - VoxelSize * shift > VoxelSize THEN -((VoxelSize - x) \div VoxelSize)
    ELSE shift

Shifted(grid, v) == <<ShiftTo(grid.shift[1], v.at[1]), ShiftTo(grid.shift[2], v.at[2])>>

(* Mutant: the voxels that come round are not emptied.                     *)
RolledKeeping(grid, v) ==
    LET to == Shifted(grid, v)
        From(c) == Plus(c, <<to[1] - grid.shift[1], to[2] - grid.shift[2]>>)
    IN [grid EXCEPT !.shift = to,
                    !.cloud = [c \in Cells |-> grid.cloud[IF From(c) \in Cells THEN From(c) ELSE c]]]

(* The clouds move, and those that come round are emptied; the counters    *)
(* and times of the voxels stay where they are.                            *)
Rolled(grid, v) ==
    LET to == Shifted(grid, v)
        From(c) == Plus(c, <<to[1] - grid.shift[1], to[2] - grid.shift[2]>>)
    IN [grid EXCEPT !.shift = to,
                    !.cloud = [c \in Cells |-> IF From(c) \in Cells THEN grid.cloud[From(c)]
                                                                    ELSE {}]]

(* A point goes to the voxel that lies there as seen from the vehicle, who *)
(* may be up to a voxel away from the middle of the grid.                  *)
Stacked(grid, points, v) ==
    LET Into(c) == {p \in points : CellOf(p, v, VoxelSize, HalfWidth) = c}
    IN [grid EXCEPT !.cloud = [c \in Cells |-> @[c] \cup Into(c)],
                    !.num = [c \in Cells |-> @[c] + Cardinality(Into(c))]]

(* External: pcl::VoxelGrid makes one point of those at a place, with the  *)
(* average of their times.                                                 *)
Downsampled(cloud) ==
    LET Leaf(p) == {q \in cloud : q.at = p.at /\ q.z = p.z}
        Time(q) == q.time
    IN {[p EXCEPT !.time = MapThenSumSet(Time, Leaf(p)) \div Cardinality(Leaf(p))] : p \in cloud}

Kept(p, now, v, clearing, dis, s) ==
    /\ Level(p, v, s)
    /\ now - p.time < s.decay \/ Dist(p.at, v.at) < s.no_decay_dis
    /\ ~(clearing /\ Dist(p.at, v.at) < dis)

(* Mutant: a voxel is only gone through when it has enough new points.     *)
DueByCount(grid, c, now, clearing, s) == grid.num[c] >= s.point_thre \/ clearing

Due(grid, c, now, clearing, s) ==
    \/ grid.num[c] >= s.point_thre
    \/ now - grid.time[c] >= s.time_thre
    \/ clearing

Refreshed(grid, now, v, clearing, dis, s) ==
    LET due == {c \in Cells : Due(grid, c, now, clearing, s)}
    IN [grid EXCEPT
          !.cloud = [c \in Cells |-> IF c \in due
                       THEN {p \in Downsampled(@[c]) : Kept(p, now, v, clearing, dis, s)}
                       ELSE @[c]],
          !.num  = [c \in Cells |-> IF c \in due THEN 0 ELSE @[c]],
          !.time = [c \in Cells |-> IF c \in due THEN now ELSE @[c]]]

(* terrainCloud: the points of the inner voxels, each with its voxel       *)
Terrain(grid) ==
    UNION {{<<c, p>> : p \in grid.cloud[c]} :
             c \in {d \in Cells : \A i \in {1, 2} : Abs(d[i] - HalfWidth) <= Inner}}

-----------------------------------------------------------------------------
(* planarPointElev: the points whose heights count for a planar voxel are  *)
(* those in it and beside it.                                              *)
Around(c, points, v) == {q \in points : Beside(PlanarOf(q[2], v), c)}

(* The height at place k, from 0, of the sorted heights                    *)
HeightAt(points, k) ==
    CHOOSE z \in {q[2].z : q \in points} :
        /\ Cardinality({q \in points : q[2].z < z}) <= k
        /\ k < Cardinality({q \in points : q[2].z <= z})

Least(points) == HeightAt(points, 0)

(* The quantile, or the least height; a voxel without points lies at 0.    *)
Ground(points, s) ==
    LET n == Cardinality(points)
        k == (n * s.quantile_percent) \div 100
    IN IF points = {} THEN 0
       ELSE IF s.sorting THEN HeightAt(points, IF k < n THEN k ELSE n - 1)
       ELSE Least(points)

(* A point that is stored lies within a voxel and a half of the place its  *)
(* voxel stands for, along each axis.                                      *)
NearTheirVoxels(grid) ==
    \A c \in Cells : \A p \in grid.cloud[c] : \A i \in {1, 2} :
        2 * Abs(p.at[i] - VoxelSize * (c[i] - HalfWidth + grid.shift[i])) <= 3 * VoxelSize

(* No point is older than the decay time and the update interval together. *)
NoneOlder(grid, now, s) ==
    \A c \in Cells : \A p \in grid.cloud[c] : now - p.time < s.decay + s.time_thre
=============================================================================
