------------------------------ MODULE SlotPool ------------------------------
(***************************************************************************)
(* What the chat server promises about its connection slots, whatever the  *)
(* registry does to keep count: a connection is given at most one slot in  *)
(* its life, never more than MaxConnections slots are given out, and a     *)
(* slot is taken back only from a connection that is over.                 *)
(***************************************************************************)
EXTENDS Naturals, FiniteSets

CONSTANTS Conns,          (* connections, each used once                    *)
          MaxConnections  (* how many slots there are                       *)

VARIABLES holders,  (* the connections that hold a slot                     *)
          over      (* the connections that can no longer receive anything  *)

vars == <<holders, over>>

Init == /\ holders = {}
        /\ over = {}

(* A connection takes a free slot.                                         *)
Acquire(c) == /\ c \notin holders \cup over
              /\ Cardinality(holders) < MaxConnections
              /\ \E kept \in SUBSET holders :
                     /\ holders \ kept \subseteq over
                     /\ holders' = kept \cup {c}
              /\ UNCHANGED over

(* A connection ends; its slot is not necessarily taken back at once.      *)
End(c) == /\ c \notin over
          /\ over' = over \cup {c}
          /\ UNCHANGED holders

(* Slots of ended connections are taken back.                              *)
Reclaim == /\ \E kept \in SUBSET holders :
                  /\ holders \ kept \subseteq over
                  /\ holders' = kept
           /\ UNCHANGED over

Next == \/ \E c \in Conns : Acquire(c) \/ End(c)
        \/ Reclaim

Spec == Init /\ [][Next]_vars
=============================================================================
