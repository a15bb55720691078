----------------------------- MODULE MCTabLink -----------------------------
(* TLC instance of TabLink. *)
EXTENDS TabLink, TLC

CONSTANTS a, b, i1, i2, r1, r2, none

Perms == Permutations(Runtimes) \cup Permutations(Ids)
=============================================================================
