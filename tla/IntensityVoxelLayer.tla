------------------------- MODULE IntensityVoxelLayer -------------------------
(***************************************************************************)
(* pb_nav2_plugins' costmap layer: every cycle it forgets what it marked,  *)
(* rolls its own origin along with the robot, and marks the cells of the   *)
(* terrain map's obstacles.  Around it Nav2 (external): the layered        *)
(* costmap rolls the master by the same rule, resets the window the layers *)
(* ask for and copies it cell by cell from them; the inflation layer asks  *)
(* for the window of the cycle before as well.  Two costmaps of equal size *)
(* and resolution agree on a cell only while their origins agree.          *)
(* A point is [at, z, i], an observation a set of points.                  *)
(***************************************************************************)
EXTENDS Integers, FiniteSets

CONSTANTS LayerSize,      \* size_x_ and size_y_, in cells
          Resolution,     \* resolution_, length of a cell
          Layer,          \* the parameters: origin_z, z_resolution, z_voxels, mark_threshold,
                          \* min_height, max_height, min_i, max_i, min_range, max_range,
                          \* footprint (half its width), clear_footprint
          Robots,         \* bound: where the robot may be
          Observed        \* bound: what the terrain map may hold

ASSUME IntensityVoxelLayerAssumption ==
    /\ LayerSize \in Nat \ {0}
    /\ Resolution \in Nat \ {0} /\ Resolution % 4 = 0
    /\ Layer.mark_threshold \in Nat /\ Layer.footprint \in Nat
    /\ Robots \subseteq Int \X Int
    /\ \A points \in Observed : \A p \in points : p.at \in Int \X Int

VARIABLES rolling,            \* rolling_window_
          enabled, current,            \* enabled_, current_
          origin, marked,              \* origin_x_, origin_y_; cells that are LETHAL_OBSTACLE
          master_origin, master,       \* external: the same of the master costmap
          last,                        \* external: the window inflation remembers
          looked                         \* history: robot and observation of the last cycle

layer_external == <<master_origin, master, last, looked>>
layerVars == <<rolling, enabled, current, origin, marked, layer_external>>

LayerCells == (0..LayerSize - 1) \X (0..LayerSize - 1)
Nowhere == [robot |-> <<0, 0>>, points |-> {}, on |-> FALSE]

(* onInitialize; the first master lies somewhere on the common lattice.    *)
LayerInit ==
    /\ rolling \in BOOLEAN
    /\ enabled = TRUE /\ current = FALSE
    /\ origin = <<0, 0>> /\ master_origin = origin
    /\ marked = {} /\ master = {}
    /\ last = {} /\ looked = Nowhere

-----------------------------------------------------------------------------
Trunc(n, d) == IF n >= 0 THEN n \div d ELSE -((-n) \div d)

(* updateOrigin, with the robot less half of getSizeInMeters, which is     *)
(* half a cell short of the size                                           *)
RolledOrigin(o, robot) ==
    [k \in 1..2 |-> o[k] + Resolution *
        Trunc(robot[k] - (2 * LayerSize - 1) * (Resolution \div 4) - o[k], Resolution)]

(* worldToMap *)
CellIn(o, at) == <<(at[1] - o[1]) \div Resolution, (at[2] - o[2]) \div Resolution>>

SquaredDist(p, robot) == (p.at[1] - robot[1]) * (p.at[1] - robot[1])
                       + (p.at[2] - robot[2]) * (p.at[2] - robot[2]) + p.z * p.z

Qualifies(p, robot) ==
    /\ p.z >= Layer.min_height /\ p.z <= Layer.max_height
    /\ p.i >= Layer.min_i /\ p.i <= Layer.max_i
    /\ SquaredDist(p, robot) > Layer.min_range * Layer.min_range
    /\ SquaredDist(p, robot) < Layer.max_range * Layer.max_range

(* worldToMap3D's third coordinate; what is too low counts as lowest.      *)
Floor(p) == IF p.z < Layer.origin_z THEN 0 ELSE (p.z - Layer.origin_z) \div Layer.z_resolution

Taken(points, robot) == {p \in points : Qualifies(p, robot) /\ Floor(p) < Layer.z_voxels}

(* VoxelGrid::markVoxelInMap: more than mark_threshold voxels are marked.  *)
HighEnough(points) == Cardinality({Floor(p) : p \in points}) > Layer.mark_threshold

Corners(robot) == {<<robot[1] + s, robot[2] + t>> : s, t \in {-Layer.footprint, Layer.footprint}}

(* setConvexPolygonCost does nothing when a corner is off the map.         *)
UnderFootprint(o, robot) ==
    LET corners == {CellIn(o, at) : at \in Corners(robot)}
    IN  IF Layer.clear_footprint /\ corners \subseteq LayerCells
        THEN {c \in LayerCells : \A k \in 1..2 : /\ \E d \in corners : d[k] <= c[k]
                                                 /\ \E d \in corners : d[k] >= c[k]}
        ELSE {}

Marks(o, points, robot) ==
    {c \in LayerCells : HighEnough({p \in Taken(points, robot) : CellIn(o, p.at) = c})}

(* touch: what the layer asks the master to look at                        *)
Touched(o, points, robot) ==
    {p.at : p \in {q \in Taken(points, robot) : CellIn(o, q.at) \in Marks(o, points, robot)}}
    \cup (IF Layer.clear_footprint THEN Corners(robot) ELSE {})

(* Mutant: a layer that is not enabled does nothing at all.                *)
LayerCycleIfEnabled(points, robot) ==
    LET o == IF rolling /\ enabled THEN RolledOrigin(origin, robot) ELSE origin
    IN  IF enabled
        THEN [origin |-> o, touched |-> Touched(o, points, robot),
              marked |-> Marks(o, points, robot) \ UnderFootprint(o, robot)]
        ELSE [origin |-> o, touched |-> {}, marked |-> {}]

(* updateBounds: result of one cycle                                       *)
LayerCycle(points, robot) ==
    LET o == IF rolling THEN RolledOrigin(origin, robot) ELSE origin
    IN  IF enabled
        THEN [origin |-> o, touched |-> Touched(o, points, robot),
              marked |-> Marks(o, points, robot) \ UnderFootprint(o, robot)]
        ELSE [origin |-> o, touched |-> {}, marked |-> {}]

(* External: the cells of the window around points of the world, clamped   *)
(* to the map                                                              *)
Window(o, points) ==
    LET at == {CellIn(o, p) : p \in points}
    IN  {c \in LayerCells : \A k \in 1..2 : /\ \E d \in at : d[k] <= c[k]
                                            /\ \E d \in at : d[k] >= c[k]}

(* External: Costmap2D::updateOrigin keeps what both windows cover.        *)
Kept2D(cells, from, to) ==
    {c \in LayerCells : <<c[1] + (to[1] - from[1]) \div Resolution,
                          c[2] + (to[2] - from[2]) \div Resolution>> \in cells}

(* LayeredCostmap::updateMap, with the layer's updateBounds in its middle; *)
(* the buffer of observations is up to date or not.                        *)
updateBounds(points, robot, in_time) ==
    LET cycle == LayerCycle(points, robot)
        to == IF rolling THEN RolledOrigin(master_origin, robot) ELSE master_origin
        window == Window(to, cycle.touched \cup last)
    IN  /\ origin' = cycle.origin
        /\ marked' = cycle.marked
        /\ current' = IF enabled THEN in_time ELSE current
        /\ master_origin' = to
        /\ master' = (Kept2D(master, master_origin, to) \ window)
                     \cup (IF enabled THEN cycle.marked \cap window ELSE {})
        /\ last' = cycle.touched
        /\ looked' = [robot |-> robot, points |-> points, on |-> enabled]
        /\ UNCHANGED <<rolling, enabled>>

(* Costmap2DROS::resetLayers: the master, then reset() of every layer      *)
resetLayers ==
    /\ marked' = {} /\ master' = {} /\ current' = FALSE
    /\ looked' = Nowhere
    /\ UNCHANGED <<rolling, enabled, origin, master_origin, last>>

(* A new static map: matchSize of every layer takes the master's place.    *)
matchSize(at) ==
    /\ ~rolling
    /\ master_origin' = at /\ origin' = at
    /\ marked' = {} /\ master' = {}
    /\ looked' = Nowhere
    /\ UNCHANGED <<rolling, enabled, current, last>>

(* External: ObstacleLayer::dynamicParametersCallback                      *)
SetEnabled(b) ==
    /\ b # enabled /\ enabled' = b /\ current' = FALSE
    /\ UNCHANGED <<rolling, origin, marked, layer_external>>

LayerNext ==
    \/ \E points \in Observed, robot \in Robots, in_time \in BOOLEAN :
          updateBounds(points, robot, in_time)
    \/ resetLayers
    \/ \E at \in {<<0, 0>>, <<-Resolution, Resolution>>} : matchSize(at)
    \/ \E b \in BOOLEAN : SetEnabled(b)

LayerSpec == LayerInit /\ [][LayerNext]_layerVars
-----------------------------------------------------------------------------
LayerTypeOK ==
    /\ rolling \in BOOLEAN /\ enabled \in BOOLEAN /\ current \in BOOLEAN
    /\ origin \in Int \X Int /\ master_origin \in Int \X Int
    /\ marked \subseteq LayerCells /\ master \subseteq LayerCells
    /\ last \subseteq Int \X Int
    /\ looked.robot \in Robots \cup {<<0, 0>>} /\ looked.points \in Observed \cup {{}}

(* What the master shows as lethal are the obstacles of the terrain map of *)
(* its last cycle, each in its own square of the world and no other (an    *)
(* obstacle that has gone, or one displaced by a roll that the layer and   *)
(* the master did not both make), and the window it shows them in is       *)
(* around the robot, whatever cycles, resets, new maps and switches of the *)
(* layer came before.                                                      *)
MasterShowsWhatIsSeen ==
    LET square(at) == CellIn(<<0, 0>>, at)
        inWindow(sq) == \A k \in 1..2 :
            sq[k] - master_origin[k] \div Resolution \in 0..LayerSize - 1
        corners == {square(at) : at \in Corners(looked.robot)}
        under(sq) == /\ Layer.clear_footprint /\ \A d \in corners : inWindow(d)
                     /\ \A k \in 1..2 : /\ \E d \in corners : d[k] <= sq[k]
                                        /\ \E d \in corners : d[k] >= sq[k]
        high == {p \in looked.points : HighEnough({q \in Taken(looked.points, looked.robot) :
                                                    square(q.at) = square(p.at)})}
    IN  /\ {[k \in 1..2 |-> c[k] + master_origin[k] \div Resolution] : c \in master}
           = {sq \in {square(p.at) : p \in high} : looked.on /\ inWindow(sq) /\ ~under(sq)}
        /\ rolling /\ looked # Nowhere =>
              \A k \in 1..2 : LET middle == master_origin[k] + (2 * LayerSize - 1) * (Resolution \div 4)
                              IN  looked.robot[k] - middle \in 1 - Resolution..Resolution - 1
=============================================================================
