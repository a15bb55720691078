----------------------------- MODULE MCNavGuard -----------------------------
(* TLC instance of NavGuard: two listed videos, one outside the list. *)
EXTENDS NavGuard

CONSTANTS v1, v2, v3, home, none
=============================================================================
