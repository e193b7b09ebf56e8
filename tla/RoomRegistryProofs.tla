------------------------- MODULE RoomRegistryProofs -------------------------
(***************************************************************************)
(* Proofs about RoomRegistry, for any number of connections and rooms and  *)
(* any limit: the type invariant, the three safety invariants, and that    *)
(* the registry implements SlotPool.                                       *)
(***************************************************************************)
EXTENDS RoomRegistry, FiniteSetTheorems, FunctionTheorems, TLAPS

(* What the map and the actors know of each other.  The invariants of       *)
(* RoomRegistry follow from it, none of them is inductive by itself.        *)
Listing == /\ \A p \in listed : p[2] \in registered /\ room[p[2]] = p[1] /\ p[1] \in keys
           /\ \A c \in registered : phase[c] # "idle"
           /\ \A c \in registered : Connected(c) => <<room[c], c>> \in listed

(* The map never holds more addresses than the limit, dead ones included.   *)
Counting == IsFiniteSet(listed) /\ Cardinality(listed) <= MaxConnections

IInv == TypeOK /\ Listing /\ Counting
-----------------------------------------------------------------------------
(* retain only removes addresses, and only of connections that are over.    *)
LEMMA RetainedFacts ==
  ASSUME IInv, NEW r \in Rooms
  PROVE  /\ Retained(r) \subseteq listed
         /\ \A p \in listed \ Retained(r) : ~Connected(p[2])
         /\ IsFiniteSet(Retained(r))
         /\ Cardinality(Retained(r)) \in Nat
         /\ Cardinality(Retained(r)) <= MaxConnections
<1>1. Retained(r) \subseteq listed
  BY DEF Retained
<1>2. \A p \in listed \ Retained(r) : ~Connected(p[2])
  BY DEF Retained
<1>3. IsFiniteSet(listed) /\ Cardinality(listed) <= MaxConnections
  BY DEF IInv, Counting
<1>4. IsFiniteSet(Retained(r)) /\ Cardinality(Retained(r)) <= Cardinality(listed)
  BY <1>1, <1>3, FS_Subset
<1>5. Cardinality(listed) \in Nat /\ Cardinality(Retained(r)) \in Nat
  BY <1>3, <1>4, FS_CardinalityType
<1>6. QED
  BY <1>1, <1>2, <1>3, <1>4, <1>5, RegistryAssumption

(* Any set of connections whose addresses are listed under their rooms is   *)
(* no larger than the map.                                                  *)
LEMMA ListedBound ==
  ASSUME IInv, NEW S, S \subseteq Conns, \A c \in S : <<room[c], c>> \in listed
  PROVE  /\ IsFiniteSet(S)
         /\ Cardinality(S) \in Nat
         /\ Cardinality(S) <= Cardinality(listed)
<1> DEFINE f == [c \in S |-> <<room[c], c>>]
<1>1. f \in [S -> listed]
  OBVIOUS
<1>2. \A a, b \in S : f[a] = f[b] => a = b
  OBVIOUS
<1>3. f \in Injection(S, listed)
  BY <1>1, <1>2, Fun_IsInj
<1>4. IsFiniteSet(listed)
  BY DEF IInv, Counting
<1>5. IsFiniteSet(S) /\ Cardinality(S) <= Cardinality(listed)
  BY <1>3, <1>4, FS_Injection
<1>6. QED
  BY <1>5, FS_CardinalityType
-----------------------------------------------------------------------------
(* The initial states satisfy the inductive invariant.                      *)
LEMMA InitIInv == Init => IInv
<1> SUFFICES ASSUME Init PROVE IInv
  OBVIOUS
<1>1. TypeOK
  BY DEF Init, TypeOK, Phase
<1>2. Listing
  BY DEF Init, Listing
<1>3. IsFiniteSet(listed) /\ Cardinality(listed) = 0
  BY FS_EmptySet DEF Init
<1>4. QED
  BY <1>1, <1>2, <1>3, RegistryAssumption DEF IInv, Counting

(* Registration keeps it: the pruned entry and the new address stay within  *)
(* the limit because the map was below it before the prune.                 *)
LEMMA AdmitIInv ==
  ASSUME IInv, NEW c \in Conns, Admit(c)
  PROVE  IInv'
<1>1. TypeOK'
  BY DEF IInv, TypeOK, Admit, Register, Retained, Phase, clientVars
<1>2. room[c] \in Rooms
  BY DEF IInv, TypeOK
<1>3. Listing'
  BY <1>2 DEF IInv, TypeOK, Listing, Admit, Register, Retained, Connected, Phase
<1>4. Cardinality(listed) \in Nat /\ Cardinality(listed) < MaxConnections
  <2>1. Cardinality(listed) \in Nat
    BY FS_CardinalityType DEF IInv, Counting
  <2>2. QED
    BY <2>1, RegistryAssumption DEF Admit, Register, AtLimit
<1>5. IsFiniteSet(Retained(room[c])) /\ Cardinality(Retained(room[c])) <= Cardinality(listed)
  BY <1>2, FS_Subset, RetainedFacts DEF IInv, Counting
<1>6. Cardinality(Retained(room[c])) \in Nat
  BY <1>2, RetainedFacts
<1>7. /\ IsFiniteSet(Retained(room[c]) \cup {<<room[c], c>>})
      /\ Cardinality(Retained(room[c]) \cup {<<room[c], c>>}) <= Cardinality(Retained(room[c])) + 1
  <2>1. /\ IsFiniteSet(Retained(room[c]) \cup {<<room[c], c>>})
        /\ Cardinality(Retained(room[c]) \cup {<<room[c], c>>}) =
             IF <<room[c], c>> \in Retained(room[c])
               THEN Cardinality(Retained(room[c])) ELSE Cardinality(Retained(room[c])) + 1
    BY <1>5, FS_AddElement
  <2>2. QED
    BY <1>6, <2>1
<1>8. Counting'
  <2>1. listed' = Retained(room[c]) \cup {<<room[c], c>>}
    BY DEF Admit, Register
  <2>2. Cardinality(listed') \in Nat
    BY <1>7, <2>1, FS_CardinalityType
  <2>3. QED
    BY <1>4, <1>5, <1>6, <1>7, <2>1, <2>2, RegistryAssumption DEF Counting
<1>9. QED
  BY <1>1, <1>3, <1>8 DEF IInv

(* stopped() keeps it: its own address survives its own prune.              *)
LEMMA StopIInv ==
  ASSUME IInv, NEW c \in Conns, phase[c] = "live", Stop(c)
  PROVE  IInv'
<1>1. TypeOK'
  BY DEF IInv, TypeOK, Stop, CleanupRoom, Retained, Phase, clientVars, mapVars
<1>2. room[c] \in Rooms
  BY DEF IInv, TypeOK
<1>3. Listing'
  <2>1. CASE c \in registered
    BY <1>2, <2>1 DEF IInv, TypeOK, Listing, Stop, CleanupRoom, Retained, Connected
  <2>2. CASE c \notin registered
    BY <2>2 DEF IInv, TypeOK, Listing, Stop, Connected, mapVars
  <2>3. QED
    BY <2>1, <2>2
<1>4. Counting'
  BY <1>2, RetainedFacts DEF IInv, Counting, Stop, CleanupRoom, mapVars
<1>5. QED
  BY <1>1, <1>3, <1>4 DEF IInv

(* Every step keeps the inductive invariant.                                *)
LEMMA NextIInv == IInv /\ [Next]_vars => IInv'
<1> SUFFICES ASSUME IInv, [Next]_vars PROVE IInv'
  OBVIOUS
<1>1. ASSUME NEW c \in Conns, Admit(c) PROVE IInv'
  BY <1>1, AdmitIInv
<1>2. ASSUME NEW c \in Conns, Refuse(c) PROVE IInv'
  BY <1>2 DEF IInv, TypeOK, Listing, Counting, Refuse, Connected, Phase, mapVars, clientVars
<1>3. ASSUME NEW c \in Conns, Frame(c) PROVE IInv'
  BY <1>3 DEF IInv, TypeOK, Listing, Counting, Frame, Connected, mapVars
<1>4. ASSUME NEW c \in Conns, Vanish(c) PROVE IInv'
  BY <1>4 DEF IInv, TypeOK, Listing, Counting, Vanish, Connected, mapVars
<1>5. ASSUME NEW c \in Conns, Disconnect(c) PROVE IInv'
  BY <1>5, StopIInv DEF Disconnect
<1>6. ASSUME NEW c \in Conns, HeartbeatPing(c) PROVE IInv'
  BY <1>6 DEF IInv, TypeOK, Listing, Counting, HeartbeatPing, Connected, mapVars
<1>7. ASSUME NEW c \in Conns, HeartbeatStop(c) PROVE IInv'
  BY <1>7, StopIInv DEF HeartbeatStop
<1>8. ASSUME NEW c \in Conns, DropMailbox(c) PROVE IInv'
  BY <1>8 DEF IInv, TypeOK, Listing, Counting, DropMailbox, Connected, Phase, mapVars, clientVars
<1>9. ASSUME NEW c \in Conns, PruneForBroadcast(c) PROVE IInv'
  <2>1. room[c] \in Rooms
    BY DEF IInv, TypeOK
  <2>2. Counting'
    BY <1>9, <2>1, RetainedFacts DEF Counting, PruneForBroadcast
  <2>3. TypeOK' /\ Listing'
    BY <1>9, <2>1 DEF IInv, TypeOK, Listing, PruneForBroadcast, Retained, Connected, clientVars
  <2>4. QED
    BY <2>2, <2>3 DEF IInv
<1>10. CASE UNCHANGED vars
  BY <1>10 DEF IInv, TypeOK, Listing, Counting, Connected, vars, mapVars, clientVars
<1>11. QED
  BY <1>1, <1>2, <1>3, <1>4, <1>5, <1>6, <1>7, <1>8, <1>9, <1>10 DEF Next

(* The inductive invariant holds in every reachable state.                  *)
THEOREM Invariance == Spec => []IInv
BY InitIInv, NextIInv, PTL DEF Spec
-----------------------------------------------------------------------------
(* The variables of the registry keep their types.                          *)
THEOREM TypeCorrect == Spec => []TypeOK
<1>1. IInv => TypeOK
  BY DEF IInv
<1>2. QED
  BY <1>1, Invariance, PTL

(* A broadcast to a room reaches the admitted and connected members of that *)
(* room and nobody else, whatever the other actors pruned before.           *)
THEOREM BroadcastReach == Spec => []RecipientsExact
<1>1. IInv => RecipientsExact
  BY DEF IInv, TypeOK, Listing, RecipientsExact, Recipients, Retained, Members
<1>2. QED
  BY <1>1, Invariance, PTL

(* No more connections are admitted and open than the limit allows.         *)
THEOREM ConnectionLimit == Spec => []LimitRespected
<1>1. IInv => LimitRespected
  <2> SUFFICES ASSUME IInv PROVE LimitRespected
    OBVIOUS
  <2> DEFINE S == {c \in registered : Connected(c)}
  <2>1. S \subseteq Conns /\ \A c \in S : <<room[c], c>> \in listed
    BY DEF IInv, TypeOK, Listing
  <2>2. Cardinality(S) \in Nat /\ Cardinality(S) <= Cardinality(listed)
    BY <2>1, ListedBound
  <2>3. Cardinality(listed) \in Nat /\ Cardinality(listed) <= MaxConnections
    BY FS_CardinalityType DEF IInv, Counting
  <2>4. QED
    BY <2>2, <2>3, RegistryAssumption DEF LimitRespected
<1>2. QED
  BY <1>1, Invariance, PTL

(* cleanup_room never removes the entry of a room that has a member.        *)
THEOREM RoomsKept == Spec => []NoEntryLost
<1>1. IInv => NoEntryLost
  BY DEF IInv, TypeOK, Listing, NoEntryLost, Members
<1>2. QED
  BY <1>1, Invariance, PTL
-----------------------------------------------------------------------------
(* Who left no ping unanswered sent a frame after the last heartbeat.       *)
Answering == ticks \in [Conns -> Nat] /\ \A c \in Conns : c \notin unanswered => ticks[c] = 0

LEMMA AnsweringHolds == Spec => []Answering
<1>1. Init => Answering
  BY DEF Init, Answering
<1>2. Answering /\ [Next]_vars => Answering'
  <2> SUFFICES ASSUME Answering, [Next]_vars PROVE Answering'
    OBVIOUS
  <2>1. ASSUME NEW c \in Conns, Frame(c) PROVE Answering'
    BY <2>1 DEF Frame, Answering
  <2>2. ASSUME NEW c \in Conns, HeartbeatPing(c) PROVE Answering'
    <3>1. ticks' = [ticks EXCEPT ![c] = ticks[c] + 1] /\ unanswered' = unanswered \cup {c}
      BY <2>2 DEF HeartbeatPing
    <3> QED
      BY <3>1 DEF Answering
  <2>3. ASSUME NEW c \in Conns, Admit(c) \/ Refuse(c) \/ Vanish(c) \/ Disconnect(c)
                                \/ HeartbeatStop(c) \/ DropMailbox(c) \/ PruneForBroadcast(c)
        PROVE  Answering'
    <3>1. UNCHANGED <<ticks, unanswered>>
      BY <2>3 DEF Admit, Refuse, Vanish, Disconnect, HeartbeatStop, Stop, DropMailbox,
                  PruneForBroadcast, clientVars
    <3> QED
      BY <3>1 DEF Answering
  <2>4. CASE UNCHANGED vars
    BY <2>4 DEF vars, clientVars, Answering
  <2> QED
    BY <2>1, <2>2, <2>3, <2>4 DEF Next
<1> QED
  BY <1>1, <1>2, PTL DEF Spec

(* The heartbeat stops nobody who answered every ping: one interval is less *)
(* than the timeout, so the first heartbeat after a frame does not stop.    *)
THEOREM OnlySilentStop == Spec => OnlySilentTimedOut
<1>1. Answering /\ [Next]_vars => [\A c \in Conns : HeartbeatStop(c) => c \in unanswered]_vars
  <2> SUFFICES ASSUME Answering, NEW c \in Conns, HeartbeatStop(c), c \notin unanswered PROVE FALSE
    OBVIOUS
  <2>1. ticks[c] = 0 /\ (ticks[c] + 1) * HeartbeatInterval >= ClientTimeout
    BY DEF Answering, HeartbeatStop, MayExpire
  <2>2. HeartbeatInterval \in Nat /\ ClientTimeout \in Nat /\ HeartbeatInterval < ClientTimeout
    BY RegistryAssumption
  <2>3. 1 * HeartbeatInterval >= ClientTimeout
    BY <2>1
  <2> QED
    BY <2>2, <2>3
<1> QED
  BY <1>1, AnsweringHolds, PTL DEF Spec, OnlySilentTimedOut
-----------------------------------------------------------------------------
(* The two variables of SlotPool, seen from the registry.                   *)
Holders == {p[2] : p \in listed}
Over == {c \in Conns : phase[c] = "dead"}

(* The holders of the slots are no more than the addresses in the map.      *)
LEMMA HoldersBound ==
  ASSUME IInv
  PROVE  Cardinality(Holders) \in Nat /\ Cardinality(Holders) <= Cardinality(listed)
<1>1. Holders \subseteq Conns /\ \A c \in Holders : <<room[c], c>> \in listed
  BY DEF IInv, TypeOK, Listing, Holders
<1>2. QED
  BY <1>1, ListedBound

(* A prune of one room takes slots back, and only from connections that     *)
(* are over.                                                                *)
LEMMA PruneIsReclaim ==
  ASSUME IInv, NEW r \in Rooms
  PROVE  LET kept == {p[2] : p \in Retained(r)}
         IN  kept \subseteq Holders /\ Holders \ kept \subseteq Over
<1>1. \A p \in listed \ Retained(r) : phase[p[2]] = "dead" /\ p[2] \in Conns
  BY DEF IInv, TypeOK, Listing, Retained, Connected, Phase
<1>2. Retained(r) \subseteq listed
  BY DEF Retained
<1>3. QED
  BY <1>1, <1>2 DEF Holders, Over

(* Both modules count with the same operator.                               *)
LEMMA SameCount == \A S : Slots!Cardinality(S) = Cardinality(S)
BY DEF Slots!Cardinality, Cardinality

(* Every step of the registry is a step of SlotPool, or leaves it alone.    *)
LEMMA StepIsSlotStep == IInv /\ [Next]_vars => [Slots!Next]_(Slots!vars)
<1> SUFFICES ASSUME IInv, [Next]_vars
             PROVE  Slots!Next \/ (Holders' = Holders /\ Over' = Over)
  BY DEF Slots!vars, Holders, Over
<1> USE DEF Holders, Over
<1>1. ASSUME NEW c \in Conns, Admit(c) PROVE Slots!Acquire(c)
  <2> DEFINE kept == {p[2] : p \in Retained(room[c])}
  <2>1. room[c] \in Rooms
    BY DEF IInv, TypeOK
  <2>2. kept \in SUBSET Holders /\ Holders \ kept \subseteq Over
    BY <2>1, PruneIsReclaim
  <2>3. Holders' = kept \cup {c}
    <3>1. listed' = Retained(room[c]) \cup {<<room[c], c>>}
      BY <1>1 DEF Admit, Register
    <3>2. Holders' = {p[2] : p \in Retained(room[c]) \cup {<<room[c], c>>}}
      BY <3>1
    <3>3. <<room[c], c>>[2] = c
      OBVIOUS
    <3>4. QED
      BY <3>2, <3>3
  <2>4. c \notin Holders \cup Over
    BY <1>1 DEF Admit, IInv, Listing
  <2>5. Cardinality(Holders) < MaxConnections
    <3>1. Cardinality(listed) \in Nat
      BY FS_CardinalityType DEF IInv, Counting
    <3>2. Cardinality(listed) < MaxConnections
      BY <1>1, <3>1, RegistryAssumption DEF Admit, Register, AtLimit
    <3>3. QED
      BY <3>1, <3>2, HoldersBound, RegistryAssumption
  <2>6. Over' = Over
    BY <1>1 DEF Admit, IInv, TypeOK
  <2>7. QED
    BY <2>2, <2>3, <2>4, <2>5, <2>6, SameCount DEF Slots!Acquire
<1>2. ASSUME NEW c \in Conns, phase[c] = "live", Stop(c)
      PROVE  Slots!Reclaim \/ (Holders' = Holders /\ Over' = Over)
  <2>1. Over' = Over
    BY <1>2 DEF Stop, IInv, TypeOK
  <2>2. room[c] \in Rooms
    BY DEF IInv, TypeOK
  <2>3. CASE c \in registered
    BY <1>2, <2>1, <2>2, <2>3, PruneIsReclaim DEF Stop, CleanupRoom, Slots!Reclaim
  <2>4. CASE c \notin registered
    BY <1>2, <2>1, <2>4 DEF Stop, mapVars
  <2>5. QED
    BY <2>3, <2>4
<1>3. ASSUME NEW c \in Conns, DropMailbox(c) PROVE Slots!End(c)
  <2>1. Over' = Over \cup {c} /\ c \notin Over
    BY <1>3 DEF DropMailbox, IInv, TypeOK
  <2>2. QED
    BY <1>3, <2>1 DEF DropMailbox, Slots!End, mapVars
<1>4. ASSUME NEW c \in Conns, PruneForBroadcast(c) PROVE Slots!Reclaim
  <2>1. room[c] \in Rooms
    BY DEF IInv, TypeOK
  <2>2. QED
    BY <1>4, <2>1, PruneIsReclaim DEF PruneForBroadcast, Slots!Reclaim
<1>5. ASSUME NEW c \in Conns, Refuse(c) \/ Frame(c) \/ Vanish(c) \/ HeartbeatPing(c)
      PROVE  Holders' = Holders /\ Over' = Over
  BY <1>5 DEF Refuse, Frame, Vanish, HeartbeatPing, mapVars, IInv, TypeOK
<1>6. CASE UNCHANGED vars
  BY <1>6 DEF vars, mapVars
<1>7. QED
  BY <1>1, <1>2, <1>3, <1>4, <1>5, <1>6 DEF Next, Disconnect, HeartbeatStop, Slots!Next

(* The registry implements SlotPool.                                        *)
THEOREM Refinement == Spec => ImplementsSlotPool
<1>1. Init => Slots!Init
  BY DEF Init, Slots!Init
<1>2. QED
  BY <1>1, StepIsSlotStep, Invariance, PTL DEF Spec, ImplementsSlotPool, Slots!Spec
=============================================================================
