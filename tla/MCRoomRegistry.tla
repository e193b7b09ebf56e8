-------------------------- MODULE MCRoomRegistry --------------------------
(* Model checking of RoomRegistry.                                         *)
EXTENDS RoomRegistry, TLC

CONSTANTS c1, c2, c3, r1, r2

(* The connections are alike, and so are the rooms.                        *)
Symmetry == Permutations(Conns) \cup Permutations(Rooms)
=============================================================================
