----------------------------- MODULE MCIdentity -----------------------------
(* A small instance of Identity: one account, three guardians, one device  *)
(* key; the device key and one guardian are the candidate owners of a      *)
(* recovery. Two policies that a call accepts and two that validatePolicy  *)
(* rejects.                                                                *)
EXTENDS SponsoredIdentity

CONSTANTS a1, g1, g2, g3, d1

MCAddress == {a1, g1, g2, g3, d1}

MCPolicies ==
  {[guardians |-> {g1, g2, g3}, threshold |-> 2, delay_ms |-> 1],
   [guardians |-> {g3}, threshold |-> 1, delay_ms |-> 2],
   [guardians |-> {g1}, threshold |-> 2, delay_ms |-> 1],
   [guardians |-> {a1, g1}, threshold |-> 1, delay_ms |-> 0]}

MCExpiries == {2, 4}
=============================================================================
