----------------------------- MODULE MCRoomSync -----------------------------
(* Instances of RoomSync for TLC.                                          *)
EXTENDS RoomSync, TLC

Symmetry == Permutations(Clients) \cup Permutations(Videos)
=============================================================================
