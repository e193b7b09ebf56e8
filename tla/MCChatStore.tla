---------------------------- MODULE MCChatStore ----------------------------
(* Model checking of ChatStore: its statements in any order, with as many  *)
(* rows as the bounds allow.                                               *)
EXTENDS ChatStore, TLC

CONSTANTS r1, r2, w1, w2,
          LastMsg,   (* bound of the model: ids of messages in a behaviour   *)
          LastRoom   (* bound of the model: ids of rooms in a behaviour      *)

Symmetry == Permutations(Rooms) \cup Permutations(Wallets)

BoundedNext == /\ StoreNext
               /\ nextMsg' <= LastMsg + 1
               /\ nextRoom' <= LastRoom + 1
MCSpec == StoreInit /\ [][BoundedNext]_storeVars
=============================================================================
