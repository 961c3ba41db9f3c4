# Verification of the navigation stack

TLA+ models of the concurrent and stateful parts of this repository, the TLC
runs that check them on small instances, and theorems proved with TLAPS.  The
repository is a ROS 2 navigation stack for a sentry robot with a Livox MID360
lidar: a serial bridge to the chassis board, the lidar driver, LiDAR-inertial
odometry, relocalization in a prior map, and Nav2 plugins.  Paths below are
relative to the repository; `src/...` is its ROS workspace.

Contents: 1 inventory, 2 plan, 3 modules, 4 runs, 5 bounds, 6 fairness,
7 proofs, 8 what only TLC says, 9 what the code does that no property states,
10 what is not modelled.

## 1. Inventory

The data path, from sensor to wheels:

    lidar --UDP--> Livox SDK --callbacks--> PubHandler --frames--> Lds queues
      --semaphore--> Lddc poll threads --/livox/lidar, /livox/imu--> point_lio
      --cloud_registered, aft_mapped_to_init--> loam_interface
      --registered_scan, lidar_odometry--> small_gicp_relocalization (map->odom)
                                       --> sensor_scan_generation (odom->base)
      --> terrain_analysis(_ext), costmap layers --> Nav2 planner, controller
      --/cmd_vel--> fake_vel_transform --/cmd_vel_chassis--> chassis_bridge_node
      --serial--> A-board;   A-board --uplink frames--> chassis_bridge_node

For each component: its state, its operations, whom it talks to, what is hard,
and what makes it correct.

**Serial framing** (`sentry_hardware`: `protocol.hpp`, `protocol.cpp`,
`parseUplink`).  State: the receive buffer.  Operations: append what `read()`
returned, drop bytes up to a header with a correct CRC, hand over one frame,
trim.  Hard: reads split and merge frames; a damaged frame leaves the parser
inside payload bytes that may look like a header.  Correct: no intact frame is
lost, doubled or reordered.

**`chassis_bridge_node`**.  State: the last command and its time, the receive
buffer, the port.  Operations: the `/cmd_vel` callback and a timer callback
(`readSerial`, `writeCommand`) on one thread.  It meets the board over the
serial port and Nav2 over topics.  Hard: a watchdog over a clock that can be
stepped back, failed writes that are not retried, a port that goes away, a
restart while the board still moves.  Correct: the chassis comes to rest when
commands end; odometry is that of the frames, in their order.

**`chassis_interface`** (a ros2_control plugin for the same board).  State: the
command as three doubles under a mutex, the receive buffer.  Two threads: the
control loop (`read`, `write`) and a spin thread with the `/cmd_vel` callback.
Hard: torn commands, starvation, deactivation with a callback running.
Correct: the board executes commands as published, in the end the last one.

**Lidar driver: point queue** (`comm/ldq.cpp`).  A ring with free-running
`uint32_t` indices between one producer and one consumer, without a lock,
created lazily by the first push.  Correct: a bounded FIFO.

**Lidar driver: distribution and shutdown** (`lds.cpp`, `lddc.cpp`,
`driver_node.cpp`, `comm/semaphore.cpp`).  State: one queue per lidar and kind
of data, one counting semaphore per kind, an exit flag.  Producers signal only
when they read a count that is not positive; two poll threads wait, scan all
lidars, publish.  Hard: the count is tested outside the lock and the queue
outside both; exit has nothing to wake a waiting thread.  Correct: no lost
wakeup; the destructor ends.

**Lidar driver: configuration handshake** (`call_back/livox_lidar_callback.cpp`,
`comm/cache_index.cpp`, `lds_lidar.cpp`, `parse_cfg_file/`).  State: an index
per handle, the set of unconfirmed items, the connection state.  Operations:
the SDK's announcement, one callback per request.  Hard: answers
in any order, timeouts answered by a new request, repeated announcements,
devices nobody configured.  Correct: data are published exactly from lidars
that confirmed their configuration.

**Lidar driver: packets to messages** (`comm/pub_handler.cpp`, `lds.cpp`,
`lddc.cpp`).  State: the raw packet queue, a point cloud per lidar, the frame,
one synchronisation flag and one rotation for all lidars, publishers by topic.
An SDK thread appends, a process thread takes packets and cuts frames in one of
two modes.  Hard: the mode flips while packets are queued;
device clocks jump; lengths come in two units.  Correct: every point is
published once, in order, under its own lidar, place and time.

**`point_lio`**.  State: deques of scans and IMU samples, the IMU sample the
loop looks at, initialisation flags, the filter's time.  One thread alternates
callbacks and the main loop.  Hard: loops that pop a deque and keep a copy of
its front across scans, `if (empty) break` in each, stamps that repeat or go
back, scans that overlap.  Correct: the filter gets every sample once, in
order and, with the IMU as output, never behind its own time; scans are processed.

**`loam_interface`, `small_gicp_relocalization`**.  State: a transform looked up
once; the gathered cloud, the current and previous `map -> odom`.  Timers align
and broadcast; `/initialpose` overrides.  Correct: the transform stays planar
in planar mode; its stamps stay close to those of the clouds, which overlapping
scans take back.

**`fake_vel_transform`**.  State: heading, spin speed, the command that waits,
the time of the last local plan.  Callbacks on one thread, a message_filters
synchronizer.  Hard: commands carry no stamp, so they wait for a matching pair
of odometry and plan.  Correct: a waiting command goes out.

**`point_lio`, preprocessing** (`preprocess.cpp`, `li_initialization.cpp`).
State: the points kept of the message at hand, the frame being combined.
Operations: one handler per sensor, then the scan becomes one frame, several cut
from it, or part of a combined one.  Hard: times come from the sensor or from
the rotation, per ring; cuts are found by comparing a count with a truncated
quotient.  Correct: points keep their distances in time, none is there twice.

**`point_lio`, local map** (`ivox3d.h`, `Estimator.cpp`, `laserMapping.cpp`).
State: voxels in a list and an index, the least recently used dropped.  Hard:
list, index and lookups through every insertion; a scan adds to the map it is
matched with.  Correct: a point is matched with the nearest of what was added.

**`sensor_scan_generation`**.  State: the previous transform, for the twist.
One callback on synchronised pairs looks transforms up and publishes
`odom -> base`.  Hard: a lookup that fails gives the identity.

**`terrain_analysis`, `terrain_analysis_ext`**.  State: a square grid of voxel
clouds that rolls with the vehicle, update times and counts, a planar grid of
heights.  One thread runs the callbacks that are ready, then the pipeline.
Hard: the roll moves pointers; counters do not roll with the clouds; obstacles
are cleared from memory and set again; a breadth-first search marks terrain as
it is met.  Correct: points are where the grid says, old ones go, the
obstacles taken off the map are exactly those the last scan shows to be gone, the
connected terrain is connected.

**`pb_nav2_plugins`: `intensity_voxel_layer`**.  State: an own map and origin
beside Nav2's master grid.  Hard: it hands over only the window of what it marks
now.  Correct: the master shows what the last cycle saw, where it saw it.

**`pb_nav2_plugins`: `back_up_free_space`**.  State: the chosen direction, the
start, the end time.  Hard: a one-pass search with four angles; three ways to
end a run.  Correct: a whole free sector is chosen; a run ends, at rest.

**`pb_omni_pid_pursuit_controller`**.  State: the plan, two PIDs, the last
velocity.  Hard: pruning, interpolation, scaling, a collision check by ten
samples.  Correct: a blocked stretch of the path stops the robot.

**`pb_teleop_twist_joy`**.  State: what was published and asked for.  One
callback, two modes; goals are sent to and cancelled at an action server.
Correct: letting go of the button stops the robot.

**`pointcloud_to_laserscan`**.  Two nodes, each with a thread that subscribes to
the input while somebody listens to the output, woken by graph events.
Correct: the input follows the demand.

**`ign_sim_pointcloud_tool`**: gives a simulated cloud the rings and times of a
Velodyne's.  **`key_teleop.py`**: publishes a twist per key, without state.
Launch files, configuration, maps, robot description, vendored code (rapidjson,
SDK headers, IKFoM): data or third party.  The A-board's firmware is not in the
repository; it is modelled from what `test_serial/sim_cboard.py` and the bridge
assume.

The hazards found while reading, each at its line, are the `hazards` of
`PROJECT.json`; the properties below were chosen from that list.

## 2. Plan

Order: what moves the robot first, then what feeds it.

| step | modules | state |
|---|---|---|
| 1 | `SerialFrames`, `ChassisBridge`: framing, watchdog | done, proved |
| 2 | `ChassisInterface`: threads of the plugin | done, `TwistNotTorn` proved |
| 3 | `BoundedFifo` (abstract), `LidarDataQueue` (refines it), `LidarDistribution` | done, proved but for liveness |
| 4 | `LidarConfig`, `PubHandler` | done, proved but for liveness |
| 5 | `FakeVelTransform`, `PointLio`, `Localization` | done, the safety of `PointLio` and `Localization` proved |
| 6 | `TeleopTwistJoy`, `BackUpFreeSpace`, `OmniPidPursuit`: who else commands a velocity | done, safety proved |
| 7 | `VoxelGrid`, `TerrainAnalysis`, `TerrainAnalysisExt`, `TerrainMaps`, `IntensityVoxelLayer`, `LaserScanConversion` | done, proved but for liveness |
| 8 | `SensorScanGeneration`, `Preprocess`, `PointCloudConverter`, `LocalMap` | done, safety proved |
| 9 | `LidarMessages`: from packets to ROS messages; `LidarPoints` | done, proved |
| 10 | the command path from joystick and Nav2 to the board as one register that holds the newest command or a stop | open |

Abstract specifications: `BoundedFifo` for the ring.

Every safety property of a run that passes is the statement of a theorem; what is
left to TLC is liveness (section 8).

## 3. Modules

**`SerialFrames`** - `parseUplink` as a function from a buffer to the frame
handed over and what stays.  A byte is what the parser can tell apart (start
byte, command byte, other) plus a tag of where it was sent, on which only the
CRC comparison depends: a CRC is taken to detect every damage.  Payload bytes
may look like a header (`lookalike`).  `Damage` changes or loses one byte.

**`ChassisBridge`** - variables are the node's members (`cmd`, `rx_buf`, `hw`, the
age of `last_cmd_time_`), the kernel's queue (`wire`), the board.  Actions:
`OnCmdVel`, `readSerial`, `writeCommand` (the two halves of the timer callback,
between which clock and board go on), and the environment: `ClockTick`,
`ClockStepBack`, `BoardSend`, `BoardSendDamaged`, `Unplug`, `Restart`.  A failed
write leaves the board at the velocity it had.  `odom.count` numbers the
publications, so that a frame handed over twice in a row shows.  `publish_tf`, off
in every configuration, is left out.

**`ChassisInterface`** - both threads at the grain of single stores and loads;
the mutex is a variable with its holder.  `publishOdom` reads one component
without the mutex, as the code does.

**`LidarDataQueue`** - the ring slot by slot: header and points of a packet are
stored and loaded in separate steps, indices are modulo `2^Bits`, the queue
appears in two steps (`storage` first, then indices and mask).  Stores become
visible in program order, which holds on the x86_64 host of the repository's
guides.  **`BoundedFifo`** is what the driver expects of it; the refinement
mapping reads the waiting packets off the ring.

**`LidarDistribution`** - per kind of data a producer and a poll thread; a queue
is a number, which `LidarDataQueue` justifies.  `Store`, `StoreTestEmpty`,
`StoreTestCount`, `Signal` are the producer's separate accesses; `PollTop` to
`PollStatus` the poll loop; `RequestExit`, `SetExitSignal`, `Join` are
`~DriverNode`.  `supported = FALSE` stands for the PCL format, whose publisher
takes nothing from the queue.

**`LidarConfig`** - an announcement sends one request per configured item;
`pending` counts the requests the SDK has not answered, and an answer is a
success, a timeout (sent again) or a refusal.  These are the statuses the
callbacks read; what a success says in its `ret_code` they do not (section 9).
A device without an entry in the
configuration file is added at its first announcement with all items zero,
hence configured with them at its next.  The requests for the work mode, the
attitude and IMU data (`Sides`) go out with the items and are repeated each by
its own rule; `Followed` says whose are followed, as a bound.

**`PubHandler`** - `Receive`/`ReceiveImu` on the SDK's thread, `Take` and
`Process` on the process thread, with both modes of `CheckTimer`.  Points of a
packet share its number and time.

**`LidarMessages`** - the other half of the same files: a packet's points in
three formats, turned and moved by the lidar's extrinsics and given their times,
stored as frames, and published in three formats on common or separate topics;
and the IMU samples, turned by the rotation set last.  When a frame is cut is
arbitrary here, so that it holds for whatever cadence `PubHandler` has, and
`PubHandler` needs no places.  **`LidarPoints`** states what both together do to
a lidar's points; `MCPubHandler` runs one or the other.

**`PointLio`** - `livox_pcl_cbk`, `imu_cbk`; `InitializeImu`, `InitializeMap` and
`StartScan` are the three ways a synchronised scan goes; `BeginPoint`,
`FuseSample` and `UpdatePoint` are the loop over a scan's points.  No message
arrives inside the loop since callbacks run on the same thread.  With
`use_imu_as_input` the loop is `InputBegin`, `InputSample`, `InputPoint`.  It
models the configuration of `point_lio/config/mid360.yaml` and that option.  A
scan is its first stamp, its last, and the times of the points left after
downsampling; the filter is out.  `uses` counts the times a sample is given to
it and `fused` says which was last, so that one given twice in a row shows.

**`Preprocess`** - `Handler` per sensor type from a message to the points kept
with their times (a point is when it was measured, its ring and its fate), and the
three ways `standard_pcl_cbk` and `livox_pcl_cbk` make frames of them.  It does
not share state with `PointLio`, to which any frame may come.  A message is taken
if the code can read it (`Readable`): a Velodyne's that is cut has a last point;
one without times comes in the order of rotation, within a revolution unless the
handler unwraps it (then a ring may go on into a second one, without a gap of one,
`Unwraps`), and without nan from a Hesai.  What happens to others is in section 9.
A message counts time in `tick`s, by its unit or, when the rotation gives the
times, by its rate: the handlers convert with `time_unit_scale` and `SCAN_RATE`,
but `process_cut_frame_pcl2` with constants of its own (`CutTick`).  `UnitsFit`
says that these fit; where they do not, its times are wrong in the model as in the
code.
**`PointCloudConverter`** is a function in front of it, from a simulated cloud to
the message `Preprocess` takes as a Velodyne's.  `Preprocess` reads times from the
rotation unless the last point has one, so the instance's last simulated point is
not in the first column.
**`Ordering`** puts the members of a
finite set in sequence by rank, where the code sorts or filters, also for
`LocalMap`.

**`LocalMap`** - `ivox` as a sequence of voxels, front most recent, with its
`capacity_`; `AddPoints`, `GetClosestPoint`; initialisation, the prior map, and
what each scan adds.  A candidate is the place of a point, voxel and number, so
that equal points stay two; `Nearest` is what `nth_element` leaves in front, by
the number of candidates that are closer.  Space is a line; a registration moves
the position by at most `MaxCorrection`, for the Kalman filter's equations are
left out.

**`Localization`** - `odometryCallback` and `pointCloudCallback` of
`loam_interface`, the callbacks and timers of `small_gicp_relocalization`, the
topic between them with its depth.  Registration may return any pose; a pose is
a position on one axis and whether it leaves the plane.  A cloud's stamp is the
end of its scan (`lidar_end_time`): scans begin in order, `MaxGap` apart at most,
and last up to `MaxSweep`, so that stamps may repeat or go back.  The broadcast
adds `Lead`, the code's 0.1 s.

**`SensorScanGeneration`** - the callback on a pair, its lookups (each may fail)
and the twist; poses are places on a line and whether they leave the plane.

**`FakeVelTransform`** - headings are quarter turns, so `cos` and `sin` are exact.
The synchronizer is external: it may match any odometry it holds with a plan.

**`TeleopTwistJoy`** - the callback as one step, with the requests to the action
server as a set that is served in any order.
**`BackUpFreeSpace`** - `findBestDirection` one direction per step, then the
cycles of the drive with their time-outs, lost poses and collisions.
**`OmniPidPursuit`** - one action for `computeVelocityCommands` over paths of
whole steps; what the code reads before it is initialised is a constant
(`Garbage`) any value of which may be found.  **`Distances`** holds what is
measured on a line, here and in the terrain maps.

**`VoxelGrid`** - what both terrain nodes share: rolling, stacking, downsampling
with decay, the planar grid's estimate of the ground.  **`TerrainAnalysis`** adds
dynamic obstacles, counted for all the points gathered and then reset for the last
scan's as in the code's two loops, missing data and the published map,
**`TerrainAnalysisExt`** the search for connected terrain, one step per voxel, and
the merge.  **`TerrainMaps`** has the two side by side, for what holds of both.

**`IntensityVoxelLayer`** - `updateBounds` of the layer within Nav2's cycle, whose
master grid and inflation window are external.  **`LaserScanConversion`** - both
nodes at the grain of their listener threads' calls on the ROS graph (external).

Composition.  Modules that share state are composed: `SerialFrames` in both
users of the board, `BoundedFifo` under `LidarDataQueue`, `loam_interface` and
`small_gicp_relocalization` in `Localization`, `VoxelGrid` in the terrain nodes,
the converter in front of `Preprocess`.  Nodes that exchange only messages are
open at that end instead: `FakeVelTransform` takes any command at any time, so
it over-approximates joystick, controller and recovery behaviour, and the
mapping nodes take any cloud and pose, so they over-approximate what
`Localization` and `PointLio` send.  `MCMotion`, `MCMapping` and `MCPubHandler`
run such modules side by side (`part` says which), the others pinned to one
initial state.

Operators named "Mutant" before a definition are variants with a plausible bug;
each property is known to fail when one of them replaces the definition.

## 4. Runs

| run | properties | what it shows |
|---|---|---|
| `bridge_watchdog` | `TypeOK`, `WatchdogLatched`, `SafeStop` | after the watchdog fired only stops go out until a new command, though the clock is stepped back; when commands end the board comes to rest, through failed writes and a restart, unless the port is lost |
| `bridge_uplink` | `ReadLosesNoFrame`, `OdomInOrder` | for every way to split and merge three frames, one of them damaged, with payloads that look like headers: no intact frame is lost, and every publication is of a newer frame than the one before |
| `interface_threads` | `TwistNotTorn`, `LastCommandReachesBoard` | the board never executes a mixture of two commands; the last command arrives |
| `interface_rx_bound` | `RxBufBounded` (violated) | the receive buffer outgrows the bound its comment states |
| `queue_ring` | `NoDataRace`, `ImplementsFifo` | the ring refines the FIFO, with its liveness, across lazy creation and index wrap-around |
| `distribution` | `NoLostWakeup`, `ExitCompletes` | no thread sleeps on data of a sampling lidar; the destructor ends if packets keep coming and bursts end |
| `lidar_config` | `TypeOK`, `SamplingMeansConfigured`, `NoOrphanBit`, `ConfiguredLidarSamples` | a lidar is published only after confirming all its items, no item is forgotten, and a configured lidar gets there, with two unknown devices and room for one |
| `config_defaults` | `DefaultsSuffice` (violated) | an entry that relies on the documented defaults gives a lidar that is never published |
| `frames` | `NothingLost`, `FramesTellThePoints` | points are published once, in order, while modes alternate and clocks jump; frames and messages of every format carry their lidar's points at their times and, by the extrinsics, at their places |
| `fakevel_commands` | `MotionTypeOK`, `CommandNotForgotten`, `ReleaseStops`, `ChosenSector`, `RunEnds`, `BlockedStretchStops` | a waiting command, or a newer one, goes out while plans keep coming; a released stick stops, in both modes; the recovery behaviour drives into a whole free sector and its run ends at rest; no velocity comes of a path with a blocked stretch as long as the distance of two samples |
| `point_lio` | `NextIsOldest`, `SamplesFusedInOrder`, `PredictsForward`, `ScansProcessed` | the IMU deque never runs empty once a scan was paired, so none of the loops' breaks is taken and `imu_next` is always its front; with the IMU as output or as input each sample is fused once, in order, but for the very first, which as input is used twice; as output never behind the filter's time; scans are processed |
| `localization` | `MappingTypeOK`, `PlanarStaysPlanar`, `StampsStayClose`, `VoxelsHoldTheirPoints`, `StaleOnlyWhileRolling`, `HiddenExactlyIfGone`, `UnseenOnlyAfterMoving`, `TerrainIsConnected`, `MasterShowsWhatIsSeen`, `InputFollowsDemand`, `FramesKeepTimes`, `CutHoldsTheScan`, `MapAnswersFromRecent` | every source of `map -> odom` is projected, its stamps go back by no more than a scan lasts and are ahead of the clouds by no more than `Lead`; the terrain grids' points stay where they were seen and go in time, the obstacles left out are those the last scan shows to be gone, missing data counts only after a move, the ext map's search finds exactly connected terrain; the costmap shows the last cycle's obstacles and no others; the laser scan nodes follow their listeners; frames keep points and, where the units fit, their times; the local map answers with the nearest of what it holds |

Two runs disagree with the repository's own words:

- `interface_rx_bound`: the size check in `chassis_interface.cpp:270-274` stands
  after the loop that leaves fewer than `FRAME_LEN` bytes, or is skipped by
  `return true`; its comment promises a bound that a backlog exceeds, since each
  read adds up to 128 bytes and takes one frame of 24 out.  The bridge node has
  the same check (`chassis_bridge_node.cpp:196`).
- `config_defaults`: items missing in the configuration file parse to -1, no
  request is sent for them, and only an acknowledgement sets the sampling state;
  the driver's README gives defaults for `pcl_data_type` and `pattern_mode`.

`CHECK_DEADLOCK FALSE` is set where a model really may stop: `queue_ring`,
`frames` and `point_lio` end when the bounded input has been consumed (and, in
`frames`, after `RequestExit`).

## 5. Bounds

Every bound is a constant named `Max...` or stated in a comment.

- Framing: `FrameLen = 4` keeps header, payload and CRC apart (24 in the code);
  `ReadMax = 9` is more than two frames, so reads merge and split; three frames
  let a damaged one stand before, between and after good ones.  Trimming acts
  beyond four frames; it is exercised by the functions' proof, for every length.
- Watchdog: a timeout of two ticks, two commands, one step back, one restart:
  the clock can be stepped back after the watchdog fired and before a restart.
- Plugin: three different commands whose components differ pairwise, two
  messages: enough for each pair of stores and loads to interleave.
- Ring: indices of three bits and eleven packets, so that both indices wrap; a
  requested size of three is rounded up to four.
- Distribution: two lidars, queues of one: full, empty, and one skipped while
  the other is published.
- Configuration: one configured lidar with the items of
  `config/MID360_config.json`, two strangers, two places, two announcements;
  the attitude is followed at the configured lidar, work mode and IMU data at
  the stranger that is announced once.
- Frames: two lidars, two packets each, an interval of two ticks, clocks level
  with the host's and ahead of it.  Messages: a lidar a quarter turned and moved
  by a length that is no whole centimetre, one without an entry; stamps around
  a wrap of the offsets (`OffsetRange`) and of what a double resolves
  (`Granule`), both scaled down.
- `PointLio`: times 0..3, scans of one tick, four scans, four samples: two scans
  go to initialisation and two through the loop, with equal stamps and overlap.
- `Preprocess`: seven messages of up to eight points with every fate, more than
  a turn of the sensor, out of order, one of them simulated and one empty;
  `Ticks` has the unit and rate the cutting assumes (`CutTick`) and another;
  `EarlyLivox`/`EarlyOthers`, `ConFrames` scale down the first scans left whole
  and the frames combined (10 in the code).
- `LocalMap`: a capacity of four voxels on a line, so that voxels are dropped
  and met again; three scans in any order, five in all.
- Terrain: grids of 3 x 3 voxels of 4 x 4 units, planar grids of 5 x 5; a vehicle
  that stays, drives on and comes back by three voxels, so that rolls wrap; one
  point that stands out is enough for a dynamic obstacle (`dyobs_points`).
- `IntensityVoxelLayer`: 3 x 3 cells, moves by one cell and beyond the map.
- `OmniPidPursuit`: paths of five poses, three cycles, two samples for the
  collision check (ten in the code) so that poses lie between samples.
- `BackUpFreeSpace`: eight directions, so that two separate sectors with a free
  first and last sample fit and a third is turned down between them; two runs.
- `TeleopTwistJoy`: times up to 2 with a goal each, both modes, short messages.
- `LaserScanConversion`: one listener that joins and leaves at any moment.
- `Localization`: a queue depth of two and three scans: the topic overflows; a scan
  lasts a tick at most and the next begins up to a tick later, or at the same
  time, so that stamps rise, repeat and go back; `Lead` is a tick.
- `FakeVelTransform`: two commands, a timeout of one tick, queues of two.

## 6. Fairness

- `ChassisBridge`: the wall timer keeps firing, the clock keeps running, and a
  tty that is offered frames for ever takes a whole one again and again (strong
  fairness of a delivered write; a port that never accepts anything is the case
  `port # "open"`).
- `ChassisInterface`: both threads are scheduled; a mutex tried for ever is got
  in the end (strong fairness on `WriteLock`).
- `LidarDataQueue`: the poll thread runs; nothing is assumed of the lidar.
- `LidarDistribution`: threads that can run do; `ExitCompletes` names what else
  it needs as hypotheses, since neither follows from the code: packets keep
  coming until a thread has ended, and bursts end.
- `LidarConfig`: a configured lidar whose request is repeated answers in the end.
- `PointLio`: the main loop runs (500 Hz).
- `FakeVelTransform`: odometry keeps coming and the synchronizer matches what
  keeps coming on both topics.

- `BackUpFreeSpace`: Nav2 calls the cycle again until it ends (`BackUpTick`), and
  the clock runs, so that a cycle after the allowed time comes (`CycleLate`).
- `LaserScanConversion`: the listener thread runs; its wait ends after 100 ms.

The other modules claim safety only.

## 7. Proofs

Eight modules hold the theorems.  `PROJECT.json` lists those worth knowing of;
the lemmas they rest on stand in front of them.

**`ChassisBridge_proofs`**.  First the parser: lemmas about `HeaderAt`,
`crc16_verify` and `FrameStarts` under concatenation and cutting.  A frame
complete in a suffix is complete in the whole at the shifted offset, and two
intact frames do not overlap unless they are the same bytes.  From these,
`ParsingLosesNoFrame`: for every buffer and every bytes behind it, an intact
frame that is in the stream before one call of `parseUplink` and not after is
the one it returned.  Then the node: `TypeCorrect` (`TypeOK`, inductive as it
stands, given that the parser returns a sequence of bytes and a frame number);
`WatchdogIsLatched` (`WatchdogLatched`), strengthened with
`stopped => cmd = ZeroTwist`, since `sent` is computed from `cmd` at the next
write and nothing in `WatchedCmd` would otherwise keep it a stop once the clock
is stepped back; `NoFrameLost` (`ReadLosesNoFrame`) from `TypeOK` and
`ParsingLosesNoFrame`; `PublishedInOrder` (`OdomInOrder`), whose invariant is
that frame numbers do not decrease along `rx_buf \o wire` and are beyond the one
published last.  It says so of every publication (`odom.count`), also of two in a
row of one frame, which a buffer that is not erased would give.

**`ChassisInterface_proofs`**.  `NoTornTwist` (`TwistNotTorn`).  The invariant
says that a thread between its first and last access holds the mutex
(`Exclusion`) and, component by component, how far the stores and the copy have
come (`AgreeUpTo`): outside the callback the three doubles are one message, and
a copy that ends has read all three from it.  `NotStarted` is needed for
`on_activate`, which would otherwise reset a spin thread in the middle of its
stores.

**`LidarDriver_proofs`**, the threads of the driver.

- Configuration: `TypeCorrect`, `OnlyConfiguredLidarsSample`
  (`SamplingMeansConfigured`) and `NoItemForgotten` (`NoOrphanBit`).  That an
  empty `set_bits` means "all confirmed" is not inductive, as it is also empty
  before the first announcement; `Noted` says that while any answer is still due
  every item is confirmed or noted, and only an answer sets the state.  The
  requests besides cannot disturb it, as they are for none of the items
  (`SidesAreNoItems`).
- The ring: `NeverSameSlot` (`NoDataRace`) and `RingIsAFifo`, for every width of
  the indices and every size that is a power of two below it.  The invariant
  `RingInv` has four parts: `RingTypes`; `Creation`, that nothing is used before
  the mask is there; `Room`, that what a thread found out about the indices stays
  true while it acts on it, since only the consumer makes room and only the
  producer fills it; and `Contents`, that the slots between the indices are
  whole and the one being filled or emptied is as far as its thread has come.
  The arithmetic is that of indices modulo `2^Bits` and slots modulo the size,
  which divides it (`Sizes`, `SlotsApart`).  `RingIsAFifo` shows the safety part
  of the refinement step by step: `PushAdvance` is the FIFO's `Put`, a full
  `CheckFull` its `Drop`, `PopAdvance` its `Take`, everything else a stutter.
- Distribution: `NoWakeupIsLost` (`NoLostWakeup`).  The property speaks of a
  thread that waits; the invariant (`Cared`) says of every moment that data not
  overlooked are seen to (`SeenTo`) by somebody: the producer still has to test
  its queue or the count, or to signal; the count is positive; or the poll loop
  has not yet passed that lidar.  So a producer may skip its signal over a
  positive count, and the loop may pass a lidar whose queue it found empty.
  Outside the loop the next lidar is the first (`Types`), so a wakeup reaches
  all.

**`LidarPoints_proofs`**, from packets to messages, for any number of lidars and
packets, every configuration and mounting.

- `NothingIsLost` (`NothingLost`).  Before the frames, `InTurn`: what was
  published of a lidar, what has gathered in its cloud and what of it is queued
  follow on each other by number and end with what arrived last (`FollowOn`;
  `Numbered` is the queue of all lidars seen from one).  Neither way of cutting
  frames matters to it, as both hand over the whole cloud.  Behind them,
  `PassedOn`: messages of one format, stored frames and gathered points are
  ordered runs of numbers (`Consecutive`), and without a gap unless a frame was
  dropped (`Unbroken`); with both formats, messages come in pairs (`InPairs`).
- `PointsAreTold` (`FramesTellThePoints`).  `MsgContents` follows a point: what
  `PointTells` of place and time when it is gathered, `FrameOfPoints` says of
  frames and `BodyTells` of messages, after the arithmetic of each data type's
  units, of the rotation, of the offsets modulo their range and of the rounding to
  a double.  Places are exact only while the extrinsics' unit is that of the data
  type (`Exact`): the theorem exempts a lidar with an entry that sends centimetres
  without being asked to, or the reverse (section 9), and the times of points in a
  custom message beyond the range of its offsets.  That no two lidars share a
  topic when each has its own needs the publishers: each is the one its messages
  ask for (`PublishersKept`), although it was created with the first message only.

**`PointLio_proofs`**.  `NextIsAlwaysOldest` (`NextIsOldest`),
`EverySampleFusedInOrder` (`SamplesFusedInOrder`) and `AlwaysPredictsForward`
(`PredictsForward`) from one inductive invariant, `IInv`.  `NextIsOldest` alone
is not inductive: that a pop leaves a sample needs the deque to be sorted and to
end at `last_timestamp_imu` (`InOrder`), and every point of the scan to lie
before that (`Covered`, which `sync_packages` establishes); the order of the
initialisation flags (`Stages`) says that a scan is only processed once a deque
has been paired.  The other two need `Filter`: the filter's time is never ahead
of `imu_next`, and `imu_next` is the successor of the sample fused last.
The IMU as input adds `LastBefore`: `imu_last` is the sample before
`imu_next`, so that a step with its readings fuses the next one.  Each use counts
(`uses`), and so the exception is visible: as input the first sample is used at
the first point, when there is no older one, and again when it is passed.
`SkipStaysInDeque` is the lemma about the popping loops: on a deque that reaches
t they stop inside it, at a sample not before t.

The same module holds the theorems about preprocessing and the local map, which
share its nodes' process but none of its variables.

- `TimesAreKept` (`FramesKeepTimes`), for every message that can be read, unit of
  time, rate of rotation, number of rings, cut and combined scan; of scans that
  `process_cut_frame_pcl2` cuts, for the unit and rate it assumes (`UnitsFit`).
  The invariant (`PreInv`) is the property over the frames held and the one being
  combined with them (`Held`, `Sound`), which says nothing of distances in time
  where the units do not fit (`Kind`), together with the types; a point also is of
  a scan that has been received, so that the next scan's points are new.  That a
  handler's points are as far apart in time as they were measured (`FromScan`) is
  direct when the message has times; from the rotation it is by induction over a
  ring's points (`RotationIs`, under `Timely`): the angle tells the time modulo a
  revolution, and the comparison with the ring's previous point says which one.
  Sorting moves points without changing them (`ReorderedIs`).  In a cut, the sum
  of a frame's beginning and a point's time in it does not depend on where the
  frame began (`CutInto`, `Holds`).
- `ScansAreCutWhole` (`CutHoldsTheScan`).  The quotients a frame's end is compared
  with increase from frame to frame and the last is the number of the last point
  (`Ends`), so that as many frames come out as asked for, if each has two points
  at least; joined, they have the numbers of the scan without its first
  (`NumbersJoin`).
- `AlwaysAnswersFromRecent` (`MapAnswersFromRecent`), for every capacity, cloud,
  prior map and point asked for.  `MapInv` says that list and index hold the same
  voxels, and that the list is in the order of use (`OrderOfUse`): after the voxel
  at place i was added to last, i - 1 others were.  Adding a point keeps that,
  whether its voxel is new, moves to the front or drives one out, so the voxels
  are those added to last (`RecentVoxels`).  That taking the
  nearest few of each voxel and then the nearest few of those leaves the
  nearest few of all is an argument about ranks: one that is not among the first
  of its own voxel has too many closer ones there already.

**`Motion_proofs`**.  `ReleaseIsEnough` (`ReleaseStops`), with the invariant that
a velocity other than zero was sent last only while the stop for it is still
owed; `DrivesIntoTheOpen` (`ChosenSector`), where `SearchInv` says of every
point of the search what the sector being measured and the best one so far are;
`SamplesAreCloseEnough` (`BlockedStretchStops`): on a path of any length, a
stretch as long as the distance of two samples holds a sample
(`SampleInStretch`, a fact about integer quotients).  The proof of
`DrivesIntoTheOpen` failed at first, rightly: the model let the outcome of
comparing two equal floats differ from one round of the search to the next,
which only shows with eight directions.  The outcome is now chosen once.
`MotionTypesCorrect` (`MotionTypeOK`) holds of the four nodes side by side.  That
every commanded velocity is within the limits (`PursuitTypes`) is the part with
an argument: before the first cycle the last velocity is whatever its memory held,
and the limit on how far a command may be from the last one (`LimitedVelocity`)
starts from there; but the outcome is still kept below what the PID asks for and
above the floor of twice the least approach velocity.  The plan stays a path, as
cutting off what has been passed leaves a rest of it (`RestIsSuffix`).

**`Mapping_proofs`**.

- Relocalization: `AlwaysPlanar` (`PlanarStaysPlanar`) and `StampsAreClose`
  (`StampsStayClose`).  Scans begin in order, so of two clouds the later one's
  stamp is behind by a scan's duration at most: so it is among those waiting in
  the node's queue, also when it is full and drops its oldest, and from the last
  one gathered to them (`CloudsClose`); and therefore between the highest stamp
  sent and those that may be sent next (`SentClose`).
- Terrain maps: `PointsStayInPlace` (`VoxelsHoldTheirPoints`) and
  `MissingDataWaits` (`UnseenOnlyAfterMoving`), through rolling, stacking and
  downsampling.  The invariants (`TerrainInv`, `ExtInv`) say that the arrays are
  grids (`IsGrid`), and that every point near its voxel under the present
  origin is one that was seen.
- `OnlyGoneIsHidden` (`HiddenExactlyIfGone`).  Without clearing the same points
  are measured (`ObstaclesAre`, over every parameter `Obstacles` reads).  What
  counting and resetting leave in `planarVoxelDyObs` reaches `dyobs_points` if
  and only if the scan shows nothing steep in that voxel and the points gathered
  have one near the vehicle, which counts as enough, or enough that stand out
  (`DyObsIs`); that needs them to be finitely many (`TerrainFinite`).
- `OldPointsGo` (`StaleOnlyWhileRolling`), for both maps.  The invariant ties the
  points to the time their voxel was refreshed, which does not roll with them: in
  a voxel refreshed since the grid moved last, no point had decayed at that
  refresh (`Aging`); no refresh is later than the last scan, and unless a scan
  waits every voxel was refreshed within the interval (`Ages`).  Downsampling
  gives a point the average time of those it stands for.  That this is a number,
  and none later than the last of them (`DownsampledTimes`, `MeanIsBetween`),
  needs the sum over a finite set to lie between bounds that grow with the set,
  shown by the least size of a set that would contradict it (`SumExists`,
  `SumsLieIn`).
- `SearchConnects` (`TerrainIsConnected`).  The invariant (`ConnInv`, over
  `Found`) says that all marked 1 or 2 is joined to the middle by small steps,
  that what is marked 1 waits in the queue, that what is a small step from a
  voxel marked 2 is marked, and that a ceiling is high above one marked 2.  The
  neighbours a step lists are those that connect, and all of them
  (`ListedByIndex`).
  Being joined is defined by as many rounds as there are voxels; that another
  round adds nothing (`JoinedClosed`) is the pigeonhole argument: a round that
  adds something adds a voxel.
- Costmap: `MasterIsUpToDate` (`MasterShowsWhatIsSeen`).  `LayerInv` relates the
  layer's own map and origin to the master's, between the steps of a cycle.
- `MappingTypesCorrect` (`MappingTypeOK`), of all the nodes of `MCMapping` side by
  side, from the invariants above, those of `PointLio_proofs` for the scans' frames
  and the local map, and four more.  The counter of a voxel is below the
  threshold after every round, as a voxel with that many points is gone through,
  and no point is later than the last scan (`GriddedRound`); a voxel waits in
  the search's queue only once, since it joins when it has not been looked at
  (`QueueInv`), so the queue is never longer than there are voxels
  (`QueueIsBounded`); the two origins of the costmap stay pairs of whole numbers;
  and what is projected from a scan are rays within range (`RangesAreInReach`).

**`NumberFacts`**.  What the others share: least numbers of sets, remainders and
quotients, powers of two, and that in a finite set of numbers there is one at
every place from the first to the last (`EveryPlaceIsTaken`, for the lidars that
fill the entries of a frame).  A finite set in which any two elements are ordered
has one of every rank (`RanksAreTaken`, `FirstRanks`), so that `Ordering`'s
sequences hold each element once, in order (`SortedIs`).  `StepByStep` is
induction over the numbers up to a bound, for a set instead of a predicate: a
set that holds 0 and with each number below the bound its successor holds them
all, or there would be a least one it does not hold.  What functions defined by
recursion over a message, a cloud or a scan compute is proved with it.

The theorems hold for every value of the constants under the named assumptions,
which TLC evaluates on the runs: `FramingAssumption`, `BridgeAssumption`,
`InterfaceAssumption`, `ConfigAssumption`, `QueueAssumption`,
`DistributionAssumption`, `PubHandlerAssumption`, `LidarMessagesAssumption`,
`PointLioAssumption`, `PreprocessAssumption`, `LocalMapAssumption`,
`LocalizationAssumption`, `TeleopAssumption`, `BackUpAssumption`,
`PursuitAssumption`, `VoxelGridAssumption`, `TerrainAssumption`, `ExtAssumption`,
`IntensityVoxelLayerAssumption`, `LaserScanAssumption` and `SensorScanAssumption`.
They ask for natural numbers, sets of the
right kind and, where the code needs it, sizes that are not zero.  The stronger
ones: frames of at least three bytes; a requested ring of at most half the range
of the indices (`CalculatePacketQueueSize` asks for 10, or the publishing
frequency, of 2^32); an even number of directions to recover in; voxel, cell and
grid sizes that are whole when halved; measured places on an axis, a multiple of
10 mm away, which all three data types express exactly; velocity limits the lower
of which is not above twice the least approach velocity (it is negative in every
configuration of the repository); and for the terrain maps
finite scans, settings with every field the code reads, a decay time that is not
negative, an update interval that is not zero and a threshold of at least one
point; and for the laser scan ranges that are not negative, as distances are not.

## 8. What only TLC says

- Liveness (`SafeStop`, `LastCommandReachesBoard`, `ExitCompletes`,
  `ConfiguredLidarSamples`, `CommandNotForgotten`, `RunEnds`, `ScansProcessed`,
  `InputFollowsDemand`, the fairness part of `ImplementsFifo`) is out of the
  prover's reach.

Recursion is not in this list: where the models need it they define functions
element by element over a bounded domain, and `StepByStep` is enough for those.

## 9. What the code does that no property states

Behaviour met while modelling that no document rules out, for whoever maintains
the code.  Hazards without a property in `PROJECT.json` give their reason there.

Serial bridge and plugin

- A complete frame left in `rx_buf_` is looked at only when a later read returns
  bytes: the last frames before a silence wait (`chassis_bridge_node.cpp:174`).
- After a step back of the clock a command's age may be negative
  (`chassis_bridge_node.cpp:132`): it counts as fresh until the clock has passed
  its time again by the timeout.  The model takes such an age for 0.
- The port is opened once; after the device goes away every write fails until
  the node is restarted.
- `chassis_interface`: deactivation closes the port without a stop (139), and
  the plugin has no command watchdog.

Lidar driver

- At exit only a further packet wakes a poll thread that waits, and a publisher
  does not look at `request_exit_` while it empties a queue.
- A translation is brought to centimetres only if the entry asks for the low
  format (with up to 9 mm lost): a lidar left at that type of its own is placed
  ten times too far.
- The callbacks look at the status of an exchange, not at `response->ret_code`
  (`livox_lidar_callback.cpp:138`): a lidar that answers in time and declines
  counts as configured, and is published.
- IMU samples of all lidars are turned by the extrinsics of the lidar whose
  packet was processed last (`extrinsic_global`), written by one thread and read
  by another without a lock.
- A packet with `dot_num` 0 divides by zero.
- Lidars without an entry keep handle 0: they share a topic, and their attitude
  goes to handle 0.
- The callback for the work mode sleeps a second in the SDK's thread; a request
  for IMU data answered without a response is not repeated.
- Separate topics together with both formats leave a null publisher
  (`lddc.cpp:463`).  Offsets in custom messages are modulo 2^32 ns, and doubles
  in point clouds resolve 256 ns.  `PublishPclMsg` takes nothing from the queue,
  so its poll loop spins.

`point_lio`

- "lidar loop back, clear buffer" and "imu loop back, clear deque" are logged,
  but nothing is cleared: messages are dropped until their stamps catch up, and
  scans pile up while the IMU's do (`li_initialization.cpp:167`).  Only a scan's
  first stamp is compared (95), so an overlapping scan steps the filter back at
  its first point; the prediction to an IMU sample never does, with the IMU as
  output.  As input each sample is applied with the readings of the one before,
  and may step back from a point to it; the first sample's are used at the first
  point and again when it is passed (`laserMapping.cpp:802-806`, 813-826).
- `meas.imu` is never cleared, so the samples of earlier scans are averaged
  again at every scan of the initialisation.  Nothing sets `flg_reset`.
- `process_cut_frame_pcl2` ignores `timestamp_unit`: it takes a Velodyne's times
  for seconds (`preprocess.cpp:195`), an Ouster's for nanoseconds (245), a Hesai's
  for seconds (272), where the other handlers use `time_unit_scale` (399, 453,
  551); `config/velody16.yaml:31` and the simulation's `nav2_params.yaml:40` give
  microseconds.  Its rate of rotation is 3.61 degrees a millisecond (174), that
  of 10 Hz, whatever `SCAN_RATE` (418, 516).  Nothing sets `cut_frame_init`
  (`parameters.cpp:46`, read at `li_initialization.cpp:45` and 107), so that as
  shipped no scan is cut; the cutting is modelled for when it is switched on.
- Combining frames takes ten whatever `con_frame_num` says and drops every
  eleventh; cutting drops the earliest point, and every scan with fewer than two
  points a frame; an empty Velodyne cloud to be cut reads `points[-1]`.
- Times from the rotation: one layer's for all rings, counted from the first
  usable return; an equal yaw gives a whole revolution; a Hesai scan whose first
  return is nan spoils its ring's times.  The test for duplicates hardly works.
- A point without neighbours keeps those of the scan before
  (`Nearest_Points`).  With a prior map the filter is put to `init_pose` after
  its first scan was matched.
- `s_plot11` (720000 elements) is indexed by the number of scans.

Frames, map

- `loam_interface`: clouds that come before the first odometry are transformed
  with a transform nobody has assigned (`loam_interface.cpp:59`), and they do
  reach the registration.
- `small_gicp_relocalization`: every converged alignment is accepted, however far
  it moves the map.  The stamp of `map -> odom` is 0.1 s past the end of the last
  scan gathered (`small_gicp_relocalization.cpp:213`), on purpose; scans that
  overlap take it back by up to a scan, and registrations or `/initialpose` in
  between repeat it, which tf2 warns of.  The constructor waits in `loadGlobalMap`
  (138) for a transform, before the node spins.
- `sensor_scan_generation`: a failed lookup, after 0.5 s, gives the identity, so
  that pose and twist jump; the first twist divides by nanoseconds.

Terrain and costmap

- Update counters and times stay where they are when clouds roll, so a cloud may
  miss its turn while the vehicle drives.  Of several scans that are ready only
  the last is stacked.  A clearing takes effect with the next scan.
- `joystickHandler` reads `buttons[5]` unchecked.  A ceiling found by the search
  is final.  The local terrain map merged may be old.
- The layer marks up to `z_voxels * z_resolution` (0.8 m as shipped) although
  `max_obstacle_height` is 2.0.  It asks for the window of its current obstacles
  only: those that went vanish because the inflation layer remembers its window.
- `pointcloud_to_laserscan`: `~LaserScanToPointCloudNode` stores `alive_ = true`,
  so that its join waits until ROS shuts down.  A listener that joins between
  the count and the request for the event is seen after the 100 ms only.  A
  width of whole increments would write one past the ranges.
- `ign_sim_pointcloud_tool`: elevations just below the lowest row get row 0; a
  nan is cast to an integer.

Commands

- `fake_vel_transform`: a stop is published at once, but `latest_cmd_vel_` keeps
  the command before it, and the next matched pair of odometry and plan
  publishes that velocity again (99-131).  What stops the robot then is the
  bridge's watchdog.  `current_robot_base_angle_` is not initialised (102).
- `pb_teleop_twist_joy`: a goal on its way when the button is let go is accepted
  later and not cancelled; a shot needs no enable button, and a negative double
  becomes a `uint8`; `sent_disable_msg_` is not initialised; the gimbal jumps
  after a gap; silence of the joystick stops nothing.
- `back_up_free_space`: a free sector that ends with the last sample is not
  seen, and without one the robot drives at angle 0, blocked or not, relying on
  the collision check; the angle is in the global frame, the twist in the
  robot's (the same, given `gimbal_yaw_fake`); a lost pose ends the run without
  a stop.
- `pb_omni_pid_pursuit_controller`: the PIDs are not reset between goals nor
  rebuilt with new gains; `last_velocity_scaling_factor_` is not initialised;
  a failed transform of a path pose gives the zero pose; the first sample
  outside the costmap ends the collision check; an interpolated carrot has no
  heading.

## 10. What is not modelled

Components with status `not_modelled` or `partly` in `PROJECT.json` give their
reason.

- Numeric code: the Kalman filter's equations, GICP, plane fitting; a result is
  arbitrary within its type.  `give_feature`, `plane_judge`, `edge_jump_judge`
  (`preprocess.cpp:595-935`) have no caller.
- `point_lio` without IMU, the reset after `flg_reset` and the branches for an
  empty `time_seq`, which never run; the saving of the map at shutdown.
- `loadGlobalMap`, which runs before anything else does.
- `key_teleop.py` and `dummy_pointcloud_publisher`: no state to speak of.
- Launch files, configuration, robot description, maps: data; the values of the
  instances come from them.
- Vendored code (rapidjson, Livox-SDK2's headers, IKFoM, matplotlibcpp,
  hilbert curves): third party; what is relied on is external in the modules.
- Time is discrete in all modules, floating point is left out, and so is the
  loss of messages inside DDS beyond the queue depth of `registered_scan`.
- Nodes that exchange messages only are not run against each other (section 3,
  composition): each is checked for whatever the other may send.
