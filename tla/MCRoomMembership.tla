-------------------------- MODULE MCRoomMembership --------------------------
(* RoomMembership for TLC: sockets and ids are interchangeable.            *)
EXTENDS RoomMembership, TLC

Symmetry == Permutations(Conns) \cup Permutations(Ids)
=============================================================================
