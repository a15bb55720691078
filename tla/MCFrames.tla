------------------------------ MODULE MCFrames ------------------------------
(* TLC instance of Frames: a page, its player and a phantom beside it. *)
EXTENDS Frames

CONSTANTS page, m1, m2, none, failed
=============================================================================
