--------------------------- MODULE MCVoiceRooms ---------------------------
(* Model checking of VoiceRooms.                                           *)
EXTENDS VoiceRooms, TLC

CONSTANTS c1, c2, c3, r1, r2, w1, w2, w3

(* The connections are alike, and so are rooms and wallets.                *)
Symmetry == Permutations(Conns) \cup Permutations(Rooms) \cup Permutations(Wallets)
============================================================================
