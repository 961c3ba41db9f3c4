------------------------------- MODULE Distances -------------------------------
(***************************************************************************)
(* Places are pairs of whole numbers, and distances are counted in steps.  *)
(***************************************************************************)
EXTENDS Integers

Abs(n) == IF n < 0 THEN -n ELSE n
Dist(p, q) == Abs(p[1] - q[1]) + Abs(p[2] - q[2])
=============================================================================
