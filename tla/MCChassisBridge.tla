--------------------------- MODULE MCChassisBridge ---------------------------
(* Instances of ChassisBridge with the command mapping of                  *)
(* sentry_bringup/config/chassis_bridge_nav.yaml.                          *)
EXTENDS ChassisBridge

MCTwists == {ZeroTwist, [vx |-> 1, vy |-> 0, wz |-> 0], [vx |-> 0, vy |-> 1, wz |-> 1]}
MCMinusOne == -1
=============================================================================
