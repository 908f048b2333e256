---------------------------- MODULE MCContracts ----------------------------
(* A small instance of Contracts for TLC.  A day of three units and a token*)
(* of two credits make divisions leave a remainder, a day ends within the  *)
(* bound, and the supply and both daily caps can be reached.               *)
EXTENDS Contracts, TLC

CONSTANTS n1, k1, k2, g1, g2, c1, m1, m2, m3, s1, u1,
          x1, x2, p1, p2

AuthorOf == [p \in {p1, p2} |-> IF p = p1 THEN x1 ELSE x2]
Generous == [amount |-> 2, daily |-> 3, recipient |-> 2]
Strict == [amount |-> 2, daily |-> 1, recipient |-> 1]
TwoPolicies == {Generous, Strict}

Interchangeable == Permutations({m1, m2, m3}) \cup Permutations({k1, k2}) \cup Permutations({g1, g2})
=============================================================================
