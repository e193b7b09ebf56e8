---------------------------- MODULE MCChatRoom ----------------------------
(* Model checking of ChatRoom.                                             *)
EXTENDS ChatRoom, TLC

CONSTANTS c1, c2, r1, r2, w1, w2

(* The connections are alike, and so are the rooms.                        *)
Symmetry == Permutations(Conns) \cup Permutations(Rooms)

(* Bound of the model: a connection that was refused is in one room with    *)
(* one that was not.                                                        *)
MCInit == Init /\ (admitted # Conns => Cardinality(Range(room)) = 1 /\ admitted # {})
MCSpec == MCInit /\ [][Next]_vars
============================================================================
