------------------------------ MODULE TerrainMaps ------------------------------
(***************************************************************************)
(* The two terrain maps side by side.  terrain_analysis_ext takes over the *)
(* other's published map as one more input (LocalMaps), so what holds of   *)
(* each holds of both.                                                     *)
(***************************************************************************)
EXTENDS TerrainAnalysis, TerrainAnalysisExt

(* In both terrain maps every stored point is where the grid says it is,   *)
(* as the vehicle moves, the voxels roll with it and scans are stacked     *)
(* from off the middle of the grid.                                        *)
VoxelsHoldTheirPoints == NearTheirVoxels(grid) /\ NearTheirVoxels(ext_grid)

(* In both, a point older than the decay time and the update interval      *)
(* together is gone, unless the grid has been rolling within the last      *)
(* interval: the update times do not roll with the clouds, so the cloud of *)
(* a vehicle on the move may miss its turn.  (Near the vehicle nothing is  *)
(* kept for longer, as shipped.)                                           *)
StaleOnlyWhileRolling == TerrainStaleWhileRolling /\ ExtStaleWhileRolling
=============================================================================
