------------------------------ MODULE LidarPoints ------------------------------
(***************************************************************************)
(* The points of the lidars on their way through the driver: PubHandler    *)
(* makes frames of packets, LidarMessages makes messages of frames.  The   *)
(* latter takes frames whenever they are cut, so what holds of each holds  *)
(* of both.                                                                *)
(***************************************************************************)
EXTENDS PubHandler, LidarMessages

(* What a lidar measures is neither lost, doubled nor reordered: on its    *)
(* way to the frames, and from them to the messages.                       *)
NothingLost == PointsAccountedFor /\ MessagesInOrder

(* A frame carries its lidar's points and their times, and so do the       *)
(* messages made of it, in whatever format.                                *)
FramesTellThePoints == FrameConsistent /\ MessagesTellThePoints
=============================================================================
