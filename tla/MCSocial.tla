------------------------------ MODULE MCSocial ------------------------------
(* Two accounts.  Their edge may change seven times where it is all there  *)
(* is: befriend, part, befriend again and block, with audience rotations   *)
(* in between.  Every property speaks of one pair, and what a third account*)
(* does changes at most an epoch of that pair, as rotate_audience does.    *)
EXTENDS Social

CONSTANTS a1, a2, m1, m2, c1, c2, web, extension

Symmetry == Permutations({m1, m2}) \cup Permutations({c1, c2})
=============================================================================
