------------------------- MODULE MCChassisInterface -------------------------
(* Instances of ChassisInterface.                                          *)
EXTENDS ChassisInterface

MCTwists == {ZeroTwist, [vx |-> 1, vy |-> 1, wz |-> 1], [vx |-> 0, vy |-> 2, wz |-> 0]}
MCOneTwist == {ZeroTwist}
=============================================================================
