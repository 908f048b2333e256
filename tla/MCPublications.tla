--------------------------- MODULE MCPublications ---------------------------
(* Three publications of two authors: a thread of three posts, two posts   *)
(* and an edit, or a post edited twice; an owner key, and a device that    *)
(* may publish but not comment.  The other lifecycle states behave as      *)
(* active does.                                                            *)
EXTENDS PublicationsIndex

CONSTANTS a1, a2, h1, h2, k1

Keyring == ("owner" :> {"publish", "comment"}) @@ ("poster" :> {"publish"})

Symmetry == Permutations(Authors) \cup Permutations(Hashes)
=============================================================================
