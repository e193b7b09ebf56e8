--------------------------- MODULE VoiceCallProofs ---------------------------
(***************************************************************************)
(* Proofs about voice calls.  First of VoiceRooms, for any number of       *)
(* connections, rooms, wallets and offers: who is listed is in the call, a *)
(* participant of a pipeline has one owner that will remove it, and links  *)
(* go with their ends.  Then of VoiceCall, for any number of calls, any    *)
(* interleaving of promises, frames, tasks and jobs, and frames decoded in *)
(* any order: the browser and the server agree on who is in the call.      *)
(***************************************************************************)
EXTENDS VoiceCall, FiniteSetTheorems, SequenceTheorems, TLAPS

-----------------------------------------------------------------------------
(* The server: VoiceRooms.                                                  *)
(* What OwnedOnce counts, by connection: one that has its peer or that a    *)
(* VoiceOfferReady waits for holds the participant of its key, alone and    *)
(* with no job that would take it away.                                     *)
Holding(c) == c \in attached \/ ready[c] > 0
OneOwner ==
    /\ \A c \in Conns : ready[c] <= (IF c \in attached THEN 0 ELSE 1)
    /\ \A c \in Conns : Holding(c) => KeyOf(c) \in pipes /\ leaving[KeyOf(c)] = 0
    /\ \A c, d \in Conns : Holding(c) /\ Holding(d) /\ KeyOf(c) = KeyOf(d) => c = d
    /\ \A k \in Keys : leaving[k] <= (IF k \in pipes THEN 1 ELSE 0)

IInv == TypeOK /\ ListedAreInCall /\ OneOwner /\ LinksMatch
-----------------------------------------------------------------------------
(* A connection keeps its room and its wallet.                              *)
LEMMA SameKeys ==
  ASSUME TypeOK, UNCHANGED connVars
  PROVE  \A c \in Conns : KeyOf(c) \in Keys /\ KeyOf(c)' = KeyOf(c)
BY DEF TypeOK, connVars, KeyOf, Keys

(* Steps that change none of the three records of the calls.                *)
LEMMA QuietSteps ==
  ASSUME NEW c \in Conns,
         Open(c) \/ VoiceOffer(c) \/ OfferFails(c) \/ Broadcast(c)
  PROVE  UNCHANGED <<connVars, sessionVars, registry, gstVars, ready, leaving>>
<1>1. CASE Broadcast(c)
  BY <1>1 DEF Broadcast, ReadParticipants, CopyRecipients, PushOne, offerVars
<1> QED
  BY <1>1 DEF Open, VoiceOffer, OfferFails, offerVars

(* The others, with what they change.                                       *)
LEMMA Leaving ==
  ASSUME NEW c \in Conns, VoiceLeave(c) \/ Stop(c)
  PROVE  /\ UNCHANGED <<connVars, gstVars>>
         /\ ready' = ready \/ ready' = [ready EXCEPT ![c] = 0]
         /\ \/ c \in inVoice /\ DoVoiceLeave(c)
            \/ c \notin inVoice /\ UNCHANGED <<sessionVars, registry, leaving>>
BY DEF VoiceLeave, Stop, offerVars

LEMMA Negotiating ==
  ASSUME NEW c \in Conns, Negotiated(c)
  PROVE  /\ UNCHANGED <<connVars, sessionVars, registry, leaving>>
         /\ \/ UNCHANGED <<pipes, links, ready>>
            \/ /\ KeyOf(c) \notin pipes
               /\ AddParticipant(KeyOf(c))
               /\ ready' = ready \/ ready' = [ready EXCEPT ![c] = @ + 1]
BY DEF Negotiated, JoinPanics
-----------------------------------------------------------------------------
LEMMA InitIInv == Init => IInv
<1> SUFFICES ASSUME Init PROVE IInv
  OBVIOUS
<1>1. TypeOK
  BY DEF Init, TypeOK
<1>2. ListedAreInCall /\ LinksMatch
  BY DEF Init, ListedAreInCall, EveryoneListed, LinksMatch
<1>3. OneOwner
  BY DEF Init, OneOwner, Holding
<1> QED
  BY <1>1, <1>2, <1>3 DEF IInv

LEMMA TypeStep ==
  ASSUME TypeOK, [Next]_vars
  PROVE  TypeOK'
<1> USE DEF TypeOK, connVars, sessionVars, gstVars, offerVars, castVars, Goto
<1>1. ASSUME NEW c \in Conns, Open(c) PROVE TypeOK'
  BY <1>1 DEF Open
<1>2. ASSUME NEW c \in Conns, VoiceJoin(c) PROVE TypeOK'
  <2>1. KeyOf(c) \in Keys
    BY DEF KeyOf, Keys
  <2> QED
    BY <1>2, <2>1 DEF VoiceJoin, Idle
<1>3. ASSUME NEW c \in Conns, VoiceLeave(c) PROVE TypeOK'
  <2>1. KeyOf(c) \in Keys
    BY DEF KeyOf, Keys
  <2> QED
    BY <1>3, <2>1 DEF VoiceLeave, DoVoiceLeave, Idle
<1>4. ASSUME NEW c \in Conns, Stop(c) PROVE TypeOK'
  <2>1. KeyOf(c) \in Keys
    BY DEF KeyOf, Keys
  <2> QED
    BY <1>4, <2>1 DEF Stop, DoVoiceLeave, Idle
<1>5. ASSUME NEW c \in Conns, ReadParticipants(c) \/ CopyRecipients(c) PROVE TypeOK'
  <2>1. CASE ReadParticipants(c)
    BY <2>1 DEF ReadParticipants, Listed
  <2>2. CASE CopyRecipients(c)
    <3>1. /\ todo' = [todo EXCEPT ![c] = {d \in alive : room[d] = room[c]}]
          /\ step' \in [Conns -> {"closed", "idle", "read", "recipients", "push"}]
      BY <2>2 DEF CopyRecipients
    <3> QED
      BY <2>2, <3>1 DEF CopyRecipients
  <2> QED
    BY <1>5, <2>1, <2>2
<1>6. ASSUME NEW c \in Conns, NEW d \in Conns, PushOne(c, d) PROVE TypeOK'
  BY <1>6 DEF PushOne
<1>7. ASSUME NEW c \in Conns, VoiceOffer(c) \/ OfferFails(c) PROVE TypeOK'
  BY <1>7 DEF VoiceOffer, OfferFails, Idle
<1>8. ASSUME NEW c \in Conns, Negotiated(c) PROVE TypeOK'
  <2>1. KeyOf(c) \in Keys
    BY DEF KeyOf, Keys
  <2>2. negotiating' \in [Conns -> Nat] /\ ready' \in [Conns -> Nat]
    BY <1>8 DEF Negotiated
  <2>3. AddParticipant(KeyOf(c)) =>
            pipes' \subseteq Keys /\ links' \subseteq pipes' \X pipes' /\ poisoned' \in BOOLEAN
    BY <2>1 DEF AddParticipant, Others
  <2>4. pipes' \subseteq Keys /\ links' \subseteq pipes' \X pipes' /\ poisoned' \in BOOLEAN
    BY <1>8, <2>3 DEF Negotiated
  <2> QED
    BY <1>8, <2>2, <2>4 DEF Negotiated
<1>9. ASSUME NEW c \in Conns, OfferReady(c) PROVE TypeOK'
  <2>1. KeyOf(c) \in Keys
    BY DEF KeyOf, Keys
  <2> QED
    BY <1>9, <2>1 DEF OfferReady, Attach, TooLate, Idle
<1>10. ASSUME NEW k \in Keys, LeaveRoom(k) PROVE TypeOK'
  BY <1>10 DEF LeaveRoom, RemoveParticipant
<1>11. CASE UNCHANGED vars
  BY <1>11 DEF vars
<1> QED
  BY <1>1, <1>2, <1>3, <1>4, <1>5, <1>6, <1>7, <1>8, <1>9, <1>10, <1>11 DEF Next, Broadcast

(* The list changes with the session that joins or leaves, by key.          *)
LEMMA ListedStep ==
  ASSUME TypeOK, ListedAreInCall, [Next]_vars
  PROVE  ListedAreInCall'
<1> USE DEF connVars, sessionVars
<1>0. IsInjective(wallet) => \A c, d \in Conns : KeyOf(c) = KeyOf(d) => c = d
  BY DEF TypeOK, IsInjective, KeyOf
<1> DEFINE L == registry \subseteq {KeyOf(c) : c \in inVoice}
           E == IsInjective(wallet) => \A c \in inVoice : KeyOf(c) \in registry
<1>1. L /\ E
  BY DEF ListedAreInCall, EveryoneListed
<1>2. SUFFICES L' /\ E'
  BY DEF ListedAreInCall, EveryoneListed
<1>3. ASSUME UNCHANGED <<connVars, inVoice, registry>> PROVE L' /\ E'
  BY <1>1, <1>3 DEF KeyOf
<1>4. ASSUME NEW c \in Conns, VoiceJoin(c) PROVE L' /\ E'
  BY <1>1, <1>4 DEF VoiceJoin, KeyOf
<1>5. ASSUME NEW c \in Conns, VoiceLeave(c) \/ Stop(c) PROVE L' /\ E'
  <2>1. CASE c \in inVoice /\ DoVoiceLeave(c) /\ UNCHANGED connVars
    <3>1. \A d \in Conns : KeyOf(d)' = KeyOf(d)
      BY <2>1, SameKeys
    <3>2. inVoice' = inVoice \ {c} /\ registry' = registry \ {KeyOf(c)}
          /\ UNCHANGED wallet
      BY <2>1 DEF DoVoiceLeave
    <3> QED
      BY <1>0, <1>1, <3>1, <3>2 DEF TypeOK
  <2> QED
    BY <1>3, <1>5, <2>1, Leaving
<1>6. ASSUME NEW c \in Conns, OfferReady(c) PROVE L' /\ E'
  <2>1. CASE Attach(c)
    BY <1>3, <1>6, <2>1 DEF OfferReady, Attach
  <2>2. CASE TooLate(c)
    <3>1. \A d \in Conns : KeyOf(d)' = KeyOf(d)
      BY <1>6, SameKeys DEF OfferReady
    <3>2. c \notin inVoice /\ inVoice' = inVoice /\ registry' = registry \ {KeyOf(c)}
          /\ UNCHANGED wallet
      BY <1>6, <2>2 DEF OfferReady, TooLate
    <3> QED
      BY <1>0, <1>1, <3>1, <3>2 DEF TypeOK
  <2> QED
    BY <1>6, <2>1, <2>2 DEF OfferReady
<1>7. ASSUME NEW c \in Conns, Negotiated(c) PROVE L' /\ E'
  BY <1>3, <1>7, Negotiating
<1>8. ASSUME NEW k \in Keys, LeaveRoom(k) PROVE L' /\ E'
  BY <1>3, <1>8 DEF LeaveRoom
<1>9. CASE UNCHANGED vars
  BY <1>3, <1>9 DEF vars
<1> QED
  BY <1>3, <1>4, <1>5, <1>6, <1>7, <1>8, <1>9, QuietSteps DEF Next

(* Ownership is passed on, and never made for a key that has a participant. *)
LEMMA OwnerStep ==
  ASSUME TypeOK, OneOwner, [Next]_vars
  PROVE  OneOwner'
<1> USE DEF connVars, sessionVars, gstVars
<1>1. ASSUME UNCHANGED <<connVars, attached, pipes, ready, leaving>> PROVE OneOwner'
  BY <1>1, SameKeys DEF OneOwner, Holding
<1>2. ASSUME NEW c \in Conns, VoiceJoin(c) PROVE OneOwner'
  BY <1>1, <1>2 DEF VoiceJoin, offerVars
<1>3. ASSUME NEW c \in Conns, VoiceLeave(c) \/ Stop(c) PROVE OneOwner'
  <2>1. /\ \A d \in Conns : KeyOf(d) \in Keys /\ KeyOf(d)' = KeyOf(d)
        /\ pipes' = pipes
        /\ \A d \in Conns \ {c} : ready'[d] = ready[d]
        /\ ready'[c] = 0 \/ ready'[c] = ready[c]
    BY <1>3, Leaving, SameKeys DEF TypeOK
  <2>2. CASE attached' = attached /\ leaving' = leaving
    BY <2>1, <2>2 DEF OneOwner, Holding
  <2>3. CASE /\ attached' = attached \ {c}
             /\ c \in attached
             /\ leaving' = [leaving EXCEPT ![KeyOf(c)] = @ + 1]
    <3>1. leaving[KeyOf(c)] = 0 /\ KeyOf(c) \in pipes /\ ready[c] = 0
      BY <2>3 DEF OneOwner, Holding, TypeOK
    <3>2. leaving'[KeyOf(c)] = 1 /\ \A k \in Keys \ {KeyOf(c)} : leaving'[k] = leaving[k]
      BY <2>1, <2>3, <3>1 DEF TypeOK
    <3>3. \A d \in Conns : Holding(d)' => Holding(d) /\ d # c
      BY <2>1, <2>3, <3>1 DEF Holding
    <3>4. \A d \in Conns : Holding(d)' => KeyOf(d) # KeyOf(c)
      BY <2>3, <3>3 DEF OneOwner, Holding
    <3>5. \A d \in Conns : ready'[d] <= (IF d \in attached' THEN 0 ELSE 1)
      BY <2>1, <2>3, <3>1 DEF OneOwner
    <3>6. \A d \in Conns : Holding(d)' => KeyOf(d)' \in pipes' /\ leaving'[KeyOf(d)'] = 0
      BY <2>1, <3>2, <3>3, <3>4 DEF OneOwner
    <3>7. \A d, e \in Conns : Holding(d)' /\ Holding(e)' /\ KeyOf(d)' = KeyOf(e)' => d = e
      BY <2>1, <3>3 DEF OneOwner
    <3>8. \A k \in Keys : leaving'[k] <= (IF k \in pipes' THEN 1 ELSE 0)
      BY <2>1, <3>1, <3>2 DEF OneOwner
    <3> QED
      BY <3>5, <3>6, <3>7, <3>8 DEF OneOwner
  <2> QED
    BY <1>3, <2>2, <2>3, Leaving DEF DoVoiceLeave
<1>4. ASSUME NEW c \in Conns, Negotiated(c) PROVE OneOwner'
  <2>1. CASE UNCHANGED <<pipes, ready>>
    BY <1>1, <1>4, <2>1, Negotiating
  <2>2. CASE /\ KeyOf(c) \notin pipes
             /\ AddParticipant(KeyOf(c))
             /\ ready' = ready \/ ready' = [ready EXCEPT ![c] = @ + 1]
    <3>1. /\ \A d \in Conns : KeyOf(d) \in Keys /\ KeyOf(d)' = KeyOf(d)
          /\ UNCHANGED <<attached, leaving>>
      BY <1>4, Negotiating, SameKeys
    <3>2. pipes' = pipes \cup {KeyOf(c)}
      BY <2>2 DEF AddParticipant
    <3>3. \A d \in Conns : KeyOf(d) = KeyOf(c) => d \notin attached /\ ready[d] = 0
      BY <2>2 DEF OneOwner, Holding, TypeOK
    <3>4. leaving[KeyOf(c)] = 0
      BY <2>2, <3>1 DEF OneOwner, TypeOK
    <3>5. \A d \in Conns \ {c} : ready'[d] = ready[d]
      BY <2>2 DEF TypeOK
    <3>6. ready'[c] \in {0, 1}
      BY <2>2, <3>3 DEF TypeOK
    <3>7. \A d \in Conns : ready'[d] <= (IF d \in attached' THEN 0 ELSE 1)
      BY <3>1, <3>3, <3>5, <3>6 DEF OneOwner
    <3>8. \A d \in Conns : Holding(d)' => Holding(d) \/ d = c
      BY <3>1, <3>5 DEF Holding
    <3> QED
      BY <3>1, <3>2, <3>3, <3>4, <3>7, <3>8 DEF OneOwner, Holding
  <2> QED
    BY <1>4, <2>1, <2>2, Negotiating
<1>5. ASSUME NEW c \in Conns, OfferReady(c) PROVE OneOwner'
  <2>1. /\ \A d \in Conns : KeyOf(d) \in Keys /\ KeyOf(d)' = KeyOf(d)
        /\ pipes' = pipes /\ ready[c] > 0
        /\ ready' = [ready EXCEPT ![c] = @ - 1]
    BY <1>5, SameKeys DEF OfferReady
  <2>2. /\ ready[c] = 1 /\ c \notin attached
        /\ KeyOf(c) \in pipes /\ leaving[KeyOf(c)] = 0
        /\ \A d \in Conns : Holding(d) /\ KeyOf(d) = KeyOf(c) => d = c
    BY <2>1 DEF OneOwner, Holding, TypeOK
  <2>3. ready'[c] = 0 /\ \A d \in Conns \ {c} : ready'[d] = ready[d]
    BY <2>1, <2>2 DEF TypeOK
  <2>4. CASE Attach(c)
    <3>1. attached' = attached \cup {c} /\ leaving' = leaving
      BY <2>4 DEF Attach
    <3>2. \A d \in Conns : Holding(d)' => Holding(d)
      BY <2>1, <2>3, <3>1 DEF Holding
    <3> QED
      BY <2>1, <2>3, <3>1, <3>2 DEF OneOwner
  <2>5. CASE TooLate(c)
    <3>1. attached' = attached /\ leaving' = [leaving EXCEPT ![KeyOf(c)] = @ + 1]
      BY <2>5 DEF TooLate
    <3>2. leaving'[KeyOf(c)] = 1 /\ \A k \in Keys \ {KeyOf(c)} : leaving'[k] = leaving[k]
      BY <2>1, <2>2, <3>1 DEF TypeOK
    <3>3. \A d \in Conns : Holding(d)' => Holding(d) /\ d # c
      BY <2>2, <2>3, <3>1 DEF Holding
    <3>4. \A d \in Conns : ready'[d] <= (IF d \in attached' THEN 0 ELSE 1)
      BY <2>2, <2>3, <3>1 DEF OneOwner
    <3>5. \A d \in Conns : Holding(d)' => KeyOf(d)' \in pipes' /\ leaving'[KeyOf(d)'] = 0
      BY <2>1, <2>2, <3>2, <3>3 DEF OneOwner
    <3>6. \A d, e \in Conns : Holding(d)' /\ Holding(e)' /\ KeyOf(d)' = KeyOf(e)' => d = e
      BY <2>1, <3>3 DEF OneOwner
    <3>7. \A k \in Keys : leaving'[k] <= (IF k \in pipes' THEN 1 ELSE 0)
      BY <2>1, <2>2, <3>2 DEF OneOwner
    <3> QED
      BY <3>4, <3>5, <3>6, <3>7 DEF OneOwner
  <2> QED
    BY <1>5, <2>4, <2>5 DEF OfferReady
<1>6. ASSUME NEW k \in Keys, LeaveRoom(k) PROVE OneOwner'
  <2>1. /\ \A d \in Conns : KeyOf(d) \in Keys /\ KeyOf(d)' = KeyOf(d)
        /\ UNCHANGED <<attached, ready>>
        /\ leaving[k] > 0 /\ leaving' = [leaving EXCEPT ![k] = @ - 1]
        /\ pipes' = pipes \/ pipes' = pipes \ {k}
    BY <1>6, SameKeys DEF LeaveRoom, RemoveParticipant, offerVars
  <2>2. leaving[k] = 1 /\ k \in pipes
    BY <2>1 DEF OneOwner, TypeOK
  <2>3. leaving'[k] = 0 /\ \A l \in Keys \ {k} : leaving'[l] = leaving[l]
    BY <2>1, <2>2 DEF TypeOK
  <2>4. \A d \in Conns : Holding(d) => KeyOf(d) # k
    BY <2>2 DEF OneOwner
  <2>5. \A d \in Conns : Holding(d)' <=> Holding(d)
    BY <2>1 DEF Holding
  <2> QED
    BY <2>1, <2>2, <2>3, <2>4, <2>5 DEF OneOwner
<1>7. CASE UNCHANGED vars
  BY <1>1, <1>7 DEF vars, offerVars
<1> QED
  BY <1>1, <1>2, <1>3, <1>4, <1>5, <1>6, <1>7, QuietSteps DEF Next

(* remove_participant takes the links of both directions.                   *)
LEMMA LinksStep ==
  ASSUME TypeOK, LinksMatch, [Next]_vars
  PROVE  LinksMatch'
<1> USE DEF gstVars
<1>1. ASSUME UNCHANGED <<pipes, links>> PROVE LinksMatch'
  BY <1>1 DEF LinksMatch
<1>2. ASSUME NEW k \in Keys, k \notin pipes, AddParticipant(k) PROVE LinksMatch'
  <2>1. PICK made \in SUBSET (Others(k) \X {k} \cup {k} \X Others(k)) : links' = links \cup made
    BY <1>2 DEF AddParticipant
  <2>2. \A l \in made : /\ l[1] # l[2] /\ l[1][1] = l[2][1]
                        /\ l[1] \in pipes \cup {k} /\ l[2] \in pipes \cup {k}
    BY <1>2 DEF Others
  <2> QED
    BY <1>2, <2>1, <2>2 DEF AddParticipant, LinksMatch
<1>3. ASSUME NEW k \in Keys, LeaveRoom(k) PROVE LinksMatch'
  BY <1>3 DEF LeaveRoom, RemoveParticipant, LinksMatch
<1>4. ASSUME NEW c \in Conns, Negotiated(c) PROVE LinksMatch'
  <2>1. KeyOf(c) \in Keys
    BY <1>4, SameKeys, Negotiating
  <2> QED
    BY <1>1, <1>2, <1>4, <2>1, Negotiating
<1>5. ASSUME NEW c \in Conns, VoiceJoin(c) \/ VoiceLeave(c) \/ Stop(c) \/ OfferReady(c)
      PROVE  LinksMatch'
  BY <1>1, <1>5, Leaving DEF VoiceJoin, OfferReady
<1>6. CASE UNCHANGED vars
  BY <1>1, <1>6 DEF vars
<1> QED
  BY <1>1, <1>3, <1>4, <1>5, <1>6, QuietSteps DEF Next

LEMMA NextIInv == IInv /\ [Next]_vars => IInv'
BY TypeStep, ListedStep, OwnerStep, LinksStep DEF IInv

(* The inductive invariant holds in every reachable state.                  *)
THEOREM Invariance == Spec => []IInv
BY InitIInv, NextIInv, PTL DEF Spec
-----------------------------------------------------------------------------
(* The records of the calls and of the jobs under way keep their types; a   *)
(* session that has a peer is in voice, and one in voice has an actor.      *)
THEOREM TypeCorrect == Spec => []TypeOK
<1>1. IInv => TypeOK
  BY DEF IInv
<1> QED
  BY <1>1, Invariance, PTL

(* VOICE_REGISTRY never names a wallet that no session has in the call, and *)
(* names everybody who is as long as no two connections share a wallet.     *)
THEOREM ListRight == Spec => []ListedAreInCall
<1>1. IInv => ListedAreInCall
  BY DEF IInv
<1> QED
  BY <1>1, Invariance, PTL

(* Owners counts the one connection that holds a key, or the one job.       *)
LEMMA OwnersCounted == TypeOK /\ OneOwner => OwnedOnce
<1> SUFFICES ASSUME TypeOK, OneOwner, NEW k \in Keys
             PROVE  /\ Owners(k) <= IF k \in pipes THEN 1 ELSE 0
                    /\ \A c \in Answering(k) : ready[c] = 1
  BY DEF OwnedOnce
<1>1. \A c \in Answering(k) : ready[c] = 1
  BY DEF Answering, Holders, OneOwner, TypeOK
<1>2. leaving[k] \in Nat /\ leaving[k] <= (IF k \in pipes THEN 1 ELSE 0)
  BY DEF OneOwner, TypeOK
<1>3. CASE \E c \in Holders(k) : Holding(c)
  <2>1. PICK c \in Holders(k) : Holding(c)
    BY <1>3
  <2>2. c \in Conns /\ k \in pipes /\ leaving[k] = 0
    BY <2>1 DEF Holders, OneOwner
  <2>3. \A d \in Holders(k) : Holding(d) => d = c
    BY <2>1 DEF Holders, OneOwner
  <2>4. ~(c \in attached /\ ready[c] > 0)
    BY <2>2 DEF OneOwner, TypeOK
  <2>5. \/ Connected(k) = {c} /\ Answering(k) = {}
        \/ Connected(k) = {} /\ Answering(k) = {c}
    BY <2>1, <2>3, <2>4 DEF Connected, Answering, Holding
  <2>6. Cardinality({c}) = 1 /\ Cardinality({}) = 0
    BY FS_Singleton, FS_EmptySet
  <2> QED
    BY <1>1, <2>2, <2>5, <2>6 DEF Owners
<1>4. CASE ~ \E c \in Holders(k) : Holding(c)
  <2>1. Connected(k) = {} /\ Answering(k) = {}
    BY <1>4 DEF Connected, Answering, Holding
  <2> QED
    BY <1>1, <1>2, <2>1, FS_EmptySet DEF Owners
<1> QED
  BY <1>3, <1>4

(* A participant of a pipeline has at most one session, message or job that *)
(* will call leave_room for it, and none of them outlives it: no session    *)
(* that was answered loses its mixer to a late job.                         *)
THEOREM OwnedByOne == Spec => []OwnedOnce
<1>1. IInv => OwnedOnce
  BY OwnersCounted DEF IInv
<1> QED
  BY <1>1, Invariance, PTL

(* Links join two participants of one room, and go with either of them.     *)
THEOREM LinksRight == Spec => []LinksMatch
<1>1. IInv => LinksMatch
  BY DEF IInv
<1> QED
  BY <1>1, Invariance, PTL

-----------------------------------------------------------------------------
(* What the variables range over; no frame names a call not yet begun.      *)
UpFrame(n) == {"join", "offer", "leave"} \X (1 .. n)
DownFrame(n) == {<<"error", 0>>} \cup ({"answer"} \X (1 .. n))

CallTypes == /\ online \in BOOLEAN /\ isMuted \in BOOLEAN
             /\ hasty \in BOOLEAN /\ erred \in BOOLEAN
             /\ asking \in Nat /\ begun \in Nat /\ begun + asking <= MaxCalls
             /\ call \in 0 .. begun /\ live \subseteq 1 .. begun
             /\ call # 0 => call \in live
             /\ pending \subseteq live \X (0 .. begun)
             /\ applied \in [Calls -> 0 .. begun]
             /\ \A c \in Calls : applied[c] # 0 => c <= begun
             /\ silent \subseteq live
             /\ up \in Seq(UpFrame(begun)) /\ down \in Seq(DownFrame(begun))
             /\ asked \subseteq 1 .. begun /\ answered \in Seq(1 .. begun)

(* Before the socket is open, nothing has happened.                         *)
NothingYet == step[Me] = "closed" => /\ ~online /\ asking = 0 /\ begun = 0
                                     /\ up = <<>> /\ Me \notin alive

(* A call makes one offer.                                                  *)
OfferAt(k, c) == up[k] = <<"offer", c>>
OffersOnce == \A c \in 1 .. begun :
    /\ \A k, l \in DOMAIN up : OfferAt(k, c) /\ OfferAt(l, c) => k = l
    /\ \A k \in DOMAIN up : OfferAt(k, c) => c \notin asked /\ <<c, 0>> \notin pending
    /\ c \in asked => <<c, 0>> \notin pending
OffersCounted == /\ IsFiniteSet(asked) /\ negotiating[Me] = Cardinality(asked)
                 /\ ready[Me] = Len(answered)

(* Who is not in a call, and was told of no error, has sent a leave after   *)
(* every join; who is, is in the call of the server or will be, or will be  *)
(* told that it is not.                                                     *)
Leave(k) == up[k][1] = "leave"
Join(k) == up[k][1] = "join"
LeftAtLast == online /\ ~erred /\ call = 0 =>
    /\ Me \in inVoice => \E l \in DOMAIN up : Leave(l)
    /\ \A k \in DOMAIN up : Join(k) => \E l \in DOMAIN up : k < l /\ Leave(l)
JoinedAtLast == online /\ Me \in alive /\ call # 0 =>
    \/ Me \in inVoice /\ \A l \in DOMAIN up : ~Leave(l)
    \/ \E k \in DOMAIN up : Join(k) /\ \A l \in DOMAIN up : k < l => ~Leave(l)
    \/ \E i \in DOMAIN down : down[i][1] = "error"

(* The server has taken the offer of a call only after every leave of an    *)
(* earlier one, so that it holds the peer it has answered.                  *)
Told(c) == \/ <<c, c>> \in pending \/ applied[c] = c
           \/ \E i \in DOMAIN down : down[i] = <<"answer", c>>
Offered(c) == c \in asked \/ (\E i \in DOMAIN answered : answered[i] = c) \/ Told(c)
LeavesFirst(c) == \A l \in DOMAIN up : Leave(l) =>
    ~Offered(c) /\ \A k \in DOMAIN up : OfferAt(k, c) => l < k
AnswersHeld == \A c \in 1 .. begun : online /\ call = c =>
    /\ LeavesFirst(c)
    /\ Me \in alive /\ Told(c) => Me \in attached

(* One microphone at a time, unless the user is hasty.                      *)
OneMic == ~hasty => /\ live \subseteq {call}
                    /\ call # 0 => (isMuted <=> call \in silent) /\ asking = 0
                    /\ call = 0 => ~isMuted
                    /\ asking <= 1

(* Where the offer of the present call is, and that there is no other.      *)
OfferInUp(k) == k \in DOMAIN up /\ up[k][1] = "offer"
AnswerInDown(i) == i \in DOMAIN down /\ down[i][1] = "answer"
NoOffer == /\ \A k \in DOMAIN up : ~OfferInUp(k)
           /\ asked = {} /\ answered = <<>>
           /\ \A i \in DOMAIN down : ~AnswerInDown(i)
OneOffer ==
    \/ /\ \A k \in DOMAIN up : OfferInUp(k) => up[k][2] = call
       /\ \A k, l \in DOMAIN up : OfferInUp(k) /\ OfferInUp(l) => k = l
       /\ asked = {} /\ answered = <<>> /\ \A i \in DOMAIN down : ~AnswerInDown(i)
    \/ /\ \A k \in DOMAIN up : ~OfferInUp(k)
       /\ asked = {call} /\ answered = <<>> /\ \A i \in DOMAIN down : ~AnswerInDown(i)
    \/ /\ \A k \in DOMAIN up : ~OfferInUp(k)
       /\ asked = {} /\ answered = <<call>> /\ \A i \in DOMAIN down : ~AnswerInDown(i)
    \/ /\ \A k \in DOMAIN up : ~OfferInUp(k)
       /\ asked = {} /\ answered = <<>>
       /\ \A i \in DOMAIN down : AnswerInDown(i) => down[i][2] = call
       /\ \A i, j \in DOMAIN down : AnswerInDown(i) /\ AnswerInDown(j) => i = j
OwnOffer == ~hasty /\ ~erred =>
    /\ \A c \in Calls : applied[c] \in {0, c}
    /\ \A p \in pending : p[2] \in {0, p[1]}
    /\ \/ ~online /\ call = 0 /\ asking = 0
       \/ NoOffer /\ \A p \in pending : applied[p[1]] = 0 /\ \A q \in pending : p = q
       \/ call # 0 /\ applied[call] = 0 /\ pending = {} /\ OneOffer

BothSides == /\ CallTypes /\ NothingYet /\ OffersOnce /\ OffersCounted
             /\ LeftAtLast /\ JoinedAtLast /\ AnswersHeld /\ OneMic /\ OwnOffer
CallInv == IInv /\ BothSides
-----------------------------------------------------------------------------
(* What the queues are made of.                                             *)
LEMMA RemovedAt ==
  ASSUME NEW S, NEW s \in Seq(S), NEW i \in 1 .. Len(s)
  PROVE  /\ RemoveAt(s, i) \in Seq(S) /\ Len(RemoveAt(s, i)) = Len(s) - 1
         /\ DOMAIN RemoveAt(s, i) = 1 .. Len(s) - 1
         /\ \A j \in 1 .. Len(s) - 1 : RemoveAt(s, i)[j] = s[IF j < i THEN j ELSE j + 1]
<1>1. Len(s) \in Nat /\ i \in Nat /\ 1 <= i /\ i <= Len(s)
  BY LenProperties
<1> DEFINE a == SubSeq(s, 1, i - 1)
           b == SubSeq(s, i + 1, Len(s))
<1>2. a \in Seq(S) /\ Len(a) = i - 1 /\ \A j \in 1 .. i - 1 : a[j] = s[j]
  BY <1>1, SubSeqProperties
<1>3. b \in Seq(S) /\ Len(b) = Len(s) - i /\ \A j \in 1 .. Len(s) - i : b[j] = s[j + i]
  BY <1>1, SubSeqProperties
<1>4. RemoveAt(s, i) = a \o b
  BY DEF RemoveAt
<1> HIDE DEF a, b
<1>5. /\ a \o b \in Seq(S) /\ Len(a \o b) = Len(s) - 1
      /\ \A j \in 1 .. Len(s) - 1 : (a \o b)[j] = IF j <= i - 1 THEN a[j] ELSE b[j - (i - 1)]
  <2>1. /\ a \o b \in Seq(S) /\ Len(a \o b) = Len(a) + Len(b)
        /\ \A j \in 1 .. Len(a) + Len(b) : (a \o b)[j] = IF j <= Len(a) THEN a[j] ELSE b[j - Len(a)]
    BY <1>2, <1>3, ConcatProperties
  <2>2. Len(a) + Len(b) = Len(s) - 1
    BY <1>1, <1>2, <1>3
  <2> QED
    BY <1>2, <2>1, <2>2
<1>6. ASSUME NEW j \in 1 .. Len(s) - 1 PROVE (a \o b)[j] = s[IF j < i THEN j ELSE j + 1]
  <2>1. CASE j < i
    BY <1>1, <1>2, <1>5, <2>1
  <2>2. CASE ~(j < i)
    <3>1. PICK l \in 1 .. Len(s) - i : l = j - (i - 1) /\ l + i = j + 1
      BY <1>1, <2>2
    <3>2. (a \o b)[j] = b[l]
      BY <1>1, <1>5, <2>2, <3>1
    <3>3. b[l] = s[l + i]
      BY <1>3, <3>1
    <3> QED
      BY <2>2, <3>1, <3>2, <3>3
  <2> QED
    BY <2>1, <2>2
<1> QED
  BY <1>1, <1>4, <1>5, <1>6, LenProperties

LEMMA TailOf ==
  ASSUME NEW S, NEW s \in Seq(S), s # <<>>
  PROVE  /\ Tail(s) \in Seq(S) /\ Len(s) \in Nat /\ Len(s) > 0 /\ Head(s) = s[1]
         /\ DOMAIN s = 1 .. Len(s) /\ DOMAIN Tail(s) = 1 .. Len(s) - 1
         /\ \A k \in 1 .. Len(s) - 1 : Tail(s)[k] = s[k + 1]
BY HeadTailProperties, LenProperties, EmptySeq

LEMMA AppendOf ==
  ASSUME NEW S, NEW s \in Seq(S), NEW e \in S
  PROVE  /\ Append(s, e) \in Seq(S) /\ Len(s) \in Nat
         /\ DOMAIN s = 1 .. Len(s) /\ DOMAIN Append(s, e) = 1 .. Len(s) + 1
         /\ \A k \in 1 .. Len(s) : Append(s, e)[k] = s[k]
         /\ Append(s, e)[Len(s) + 1] = e
BY AppendProperties, LenProperties

LEMMA SeqOfMore ==
  ASSUME NEW S, NEW T, S \subseteq T, NEW s \in Seq(S)
  PROVE  s \in Seq(T)
<1>1. Len(s) \in Nat /\ \A k \in 1 .. Len(s) : s[k] \in T
  BY ElementOfSeq, LenProperties
<1>2. s = [k \in 1 .. Len(s) |-> s[k]]
  BY LenProperties
<1>3. s \in [1 .. Len(s) -> T]
  BY <1>1, <1>2
<1> QED
  BY <1>1, <1>3, SeqDef

LEMMA SentOne ==
  ASSUME NEW S, up \in Seq(S), NEW f \in S, Send(<<f>>), NEW n, n = Len(up) + 1
  PROVE  /\ up' \in Seq(S) /\ n \in Nat
         /\ \A k \in DOMAIN up : k \in Nat /\ k < n /\ k \in DOMAIN up' /\ up'[k] = up[k]
         /\ \A k \in DOMAIN up' : k \in DOMAIN up \/ (online /\ k = n /\ up'[k] = f)
         /\ online => n \in DOMAIN up' /\ up'[n] = f
<1>1. Len(up) \in Nat /\ DOMAIN up = 1 .. Len(up)
  BY LenProperties
<1>2. CASE online
  <2>1. up' = Append(up, f)
    <3>1. up' = up \o <<f>>
      BY <1>2 DEF Send
    <3> QED
      BY <3>1, AppendIsConcat
  <2>2. /\ up' \in Seq(S) /\ DOMAIN up' = 1 .. n /\ up'[n] = f
        /\ \A k \in 1 .. Len(up) : up'[k] = up[k]
    BY <2>1, AppendOf
  <2> QED
    BY <1>1, <1>2, <2>2
<1>3. CASE ~online
  <2>1. up' = up
    BY <1>3 DEF Send
  <2> QED
    BY <1>1, <1>3, <2>1
<1> QED
  BY <1>2, <1>3

LEMMA TakenOne ==
  ASSUME NEW S, up \in Seq(S), up # <<>>, up' = Tail(up)
  PROVE  /\ up' \in Seq(S) /\ 1 \in DOMAIN up /\ Head(up) = up[1] /\ up[1] \in S
         /\ \A k \in DOMAIN up' : k \in Nat /\ k > 0 /\ k + 1 \in DOMAIN up /\ up'[k] = up[k + 1]
         /\ \A k \in DOMAIN up : k = 1 \/ (k \in Nat /\ k > 1 /\ k - 1 \in DOMAIN up' /\ up'[k - 1] = up[k])
<1>1. /\ Tail(up) \in Seq(S) /\ Len(up) \in Nat /\ Len(up) > 0 /\ Head(up) = up[1]
      /\ DOMAIN up = 1 .. Len(up) /\ DOMAIN Tail(up) = 1 .. Len(up) - 1
      /\ \A k \in 1 .. Len(up) - 1 : Tail(up)[k] = up[k + 1]
  BY TailOf
<1>2. up[1] \in S
  BY <1>1, ElementOfSeq
<1>3. ASSUME NEW k \in DOMAIN up, k # 1
      PROVE  k \in Nat /\ k > 1 /\ k - 1 \in DOMAIN up' /\ up'[k - 1] = up[k]
  <2>1. k - 1 \in 1 .. Len(up) - 1 /\ (k - 1) + 1 = k
    BY <1>1, <1>3
  <2> QED
    BY <1>1, <1>3, <2>1
<1> QED
  BY <1>1, <1>2, <1>3

LEMMA RepliedOne ==
  ASSUME NEW S, down \in Seq(S), NEW kind, NEW c, <<kind, c>> \in S, Reply(kind, c), NEW n, n = Len(down) + 1
  PROVE  /\ down' \in Seq(S) /\ n \in Nat
         /\ \A i \in DOMAIN down : i \in Nat /\ i < n /\ i \in DOMAIN down' /\ down'[i] = down[i]
         /\ \A i \in DOMAIN down' : i \in DOMAIN down \/ (online /\ i = n /\ down'[i] = <<kind, c>>)
         /\ online => n \in DOMAIN down' /\ down'[n] = <<kind, c>>
<1>1. Len(down) \in Nat /\ DOMAIN down = 1 .. Len(down)
  BY LenProperties
<1>2. CASE online
  <2>1. down' = Append(down, <<kind, c>>)
    BY <1>2 DEF Reply
  <2>2. /\ down' \in Seq(S) /\ DOMAIN down' = 1 .. n /\ down'[n] = <<kind, c>>
        /\ \A k \in 1 .. Len(down) : down'[k] = down[k]
    BY <2>1, AppendOf
  <2> QED
    BY <1>1, <1>2, <2>2
<1>3. CASE ~online
  <2>1. down' = down
    BY <1>3 DEF Reply
  <2> QED
    BY <1>1, <1>3, <2>1
<1> QED
  BY <1>2, <1>3

LEMMA DecodedOne ==
  ASSUME NEW S, down \in Seq(S), NEW kind, NEW i, Decoded(i, kind)
  PROVE  /\ down' \in Seq(S) /\ i \in DOMAIN down /\ down[i][1] = kind
         /\ \E at : /\ \A j \in DOMAIN down' : /\ at[j] \in DOMAIN down /\ at[j] # i /\ down'[j] = down[at[j]]
                                               /\ \A l \in DOMAIN down' : at[j] = at[l] => j = l
                    /\ \A l \in DOMAIN down : l # i => \E j \in DOMAIN down' : down'[j] = down[l]
<1>1. Len(down) \in Nat /\ DOMAIN down = 1 .. Len(down) /\ i \in 1 .. Len(down)
  BY LenProperties, CallAssumption DEF Decoded
<1>2. /\ down' \in Seq(S) /\ DOMAIN down' = 1 .. Len(down) - 1
      /\ \A j \in 1 .. Len(down) - 1 : down'[j] = down[IF j < i THEN j ELSE j + 1]
  BY <1>1, RemovedAt DEF Decoded
<1>3. PICK at : at = [j \in 1 .. Len(down) - 1 |-> IF j < i THEN j ELSE j + 1]
  OBVIOUS
<1>4. \A j \in DOMAIN down' : /\ at[j] \in DOMAIN down /\ at[j] # i /\ down'[j] = down[at[j]]
                              /\ \A l \in DOMAIN down' : at[j] = at[l] => j = l
  BY <1>1, <1>2, <1>3
<1>5. ASSUME NEW l \in DOMAIN down, l # i PROVE \E j \in DOMAIN down' : down'[j] = down[l]
  <2>1. CASE l < i
    <3>1. l \in 1 .. Len(down) - 1
      BY <1>1, <2>1
    <3> QED
      BY <1>2, <2>1, <3>1
  <2>2. CASE l > i
    <3>1. l - 1 \in 1 .. Len(down) - 1 /\ ~(l - 1 < i) /\ (l - 1) + 1 = l
      BY <1>1, <2>2
    <3>2. down'[l - 1] = down[l]
      BY <1>2, <3>1
    <3> QED
      BY <1>2, <3>1, <3>2
  <2> QED
    BY <1>1, <1>5, <2>1, <2>2
<1>6. down[i][1] = kind
  BY DEF Decoded
<1>7. \E a : /\ \A j \in DOMAIN down' : /\ a[j] \in DOMAIN down /\ a[j] # i /\ down'[j] = down[a[j]]
                                        /\ \A l \in DOMAIN down' : a[j] = a[l] => j = l
             /\ \A l \in DOMAIN down : l # i => \E j \in DOMAIN down' : down'[j] = down[l]
  <2> WITNESS at
  <2> QED
    BY <1>4, <1>5
<1> QED
  BY <1>1, <1>2, <1>6, <1>7
-----------------------------------------------------------------------------
(* What the server's step of the browser's own connection is made of.       *)
LEMMA OwnConnection ==
  ASSUME CallInv
  PROVE  /\ Me \in Conns /\ inVoice \subseteq alive /\ attached \subseteq inVoice
         /\ step[Me] \in {"closed", "idle", "read", "recipients", "push"}
         /\ step \in [Conns -> {"closed", "idle", "read", "recipients", "push"}]
         /\ negotiating \in [Conns -> Nat] /\ ready \in [Conns -> Nat]
         /\ MaxCalls \in Nat
BY CallAssumption DEF CallInv, IInv, TypeOK

(* Nothing is pending without a call, unless the user is hasty.             *)
LEMMA NoneInFlight ==
  ASSUME CallInv, ~hasty, call = 0
  PROVE  live = {} /\ pending = {}
<1>1. live \subseteq {0} /\ live \subseteq 1 .. begun /\ begun \in Nat /\ pending \subseteq live \X (0 .. begun)
  BY DEF CallInv, BothSides, OneMic, CallTypes
<1>2. live = {}
  BY <1>1
<1> QED
  BY <1>1, <1>2

-----------------------------------------------------------------------------
(* The present call is left, for whatever reason.                           *)
LEMMA LessFits ==
  ASSUME NEW a \in Nat, NEW b \in Nat, NEW c \in Nat, NEW m \in Nat, a + b <= m, c <= b
  PROVE  a + c <= m
OBVIOUS

LeavesCall(told) ==
    /\ live' = live \ {call} /\ silent' = silent \ {call} /\ call' = 0 /\ isMuted' = FALSE
    /\ \A p \in pending' : p \in pending /\ p[1] # call
    /\ applied' = applied
    /\ IF told THEN Send(<< <<"leave", call>> >>) ELSE up' = up

LEMMA Left ==
  ASSUME CallInv, NEW told \in BOOLEAN, LeavesCall(told), told => call # 0,
         UNCHANGED serverVars, begun' = begun,
         asking' \in Nat, asking' <= asking, online' \in BOOLEAN, online' => online,
         hasty' \in BOOLEAN, hasty => hasty', erred' \in BOOLEAN, erred => erred',
         down' \in Seq(DownFrame(begun)), ~erred' => down' = down,
         told \/ call = 0 \/ erred' \/ ~online',
         ~hasty' /\ ~erred' /\ online' => NoOffer
  PROVE  BothSides'
<1> DEFINE n == Len(up) + 1
<1>0. /\ live' = live \ {call} /\ silent' = silent \ {call} /\ call' = 0 /\ isMuted' = FALSE
      /\ \A p \in pending' : p \in pending /\ p[1] # call
      /\ applied' = applied
  BY DEF LeavesCall
<1>s. UNCHANGED <<alive, inVoice, attached, step, negotiating, ready, asked, answered>>
  BY DEF serverVars, vars, sessionVars, offerVars
<1>t. CallTypes
  BY DEF CallInv, BothSides
<1>1. /\ up' \in Seq(UpFrame(begun)) /\ n \in Nat
      /\ \A k \in DOMAIN up : k \in Nat /\ k < n /\ k \in DOMAIN up' /\ up'[k] = up[k]
      /\ \A k \in DOMAIN up' : k \in DOMAIN up \/ (k = n /\ up'[k] = <<"leave", call>> /\ call # 0)
      /\ told /\ online => n \in DOMAIN up' /\ up'[n] = <<"leave", call>>
      /\ ~told => up' = up
  <2>1. CASE told
    <3>1. Send(<< <<"leave", call>> >>)
      BY <2>1 DEF LeavesCall
    <3>2. <<"leave", call>> \in UpFrame(begun)
      BY <1>t, <2>1 DEF CallTypes, UpFrame
    <3> HIDE DEF n
    <3>3. n = Len(up) + 1 /\ up \in Seq(UpFrame(begun))
      BY <1>t DEF n, CallTypes
    <3> QED
      BY <2>1, <3>1, <3>2, <3>3, SentOne
  <2>2. CASE ~told
    <3>1. up' = up
      BY <2>2 DEF LeavesCall
    <3>2. up \in Seq(UpFrame(begun)) /\ Len(up) \in Nat /\ DOMAIN up = 1 .. Len(up)
      BY <1>t, LenProperties DEF CallTypes
    <3> QED
      BY <2>2, <3>1, <3>2
  <2> QED
    BY <2>1, <2>2
<1> HIDE DEF n
<1>2. CallTypes'
  <2>1. /\ call' \in 0 .. begun /\ live' \subseteq 1 .. begun /\ silent' \subseteq live'
        /\ asking' \in Nat /\ begun + asking' <= MaxCalls /\ begun \in Nat
    <3>1. begun \in Nat /\ asking \in Nat /\ begun + asking <= MaxCalls
      BY <1>t DEF CallTypes
    <3>2. begun + asking' <= MaxCalls
      BY <3>1, CallAssumption, LessFits
    <3>4. call' \in 0 .. begun
      BY <1>0, <3>1
    <3>3. live' \subseteq 1 .. begun /\ silent' \subseteq live'
      BY <1>0, <1>t DEF CallTypes
    <3> QED
      BY <3>1, <3>2, <3>3, <3>4
  <2>2. pending' \subseteq live' \X (0 .. begun)
    <3> SUFFICES ASSUME NEW p \in pending' PROVE p \in live' \X (0 .. begun)
      OBVIOUS
    <3>1. p \in live \X (0 .. begun) /\ p[1] # call
      BY <1>0, <1>t DEF CallTypes
    <3> QED
      BY <1>0, <3>1
  <2> QED
    BY <1>0, <1>1, <1>s, <1>t, <2>1, <2>2 DEF CallTypes
<1>3. NothingYet'
  BY <1>0, <1>1, <1>s, <1>t DEF CallInv, BothSides, CallTypes, NothingYet
<1>4. OffersOnce'
  <2>1. ASSUME NEW k \in DOMAIN up', NEW c, OfferAt(k, c)'
        PROVE  k \in DOMAIN up /\ OfferAt(k, c)
    BY <1>1, <2>1 DEF OfferAt
  <2>2. pending' \subseteq pending
    BY <1>0
  <2>3. OffersOnce
    BY DEF CallInv, BothSides
  <2> QED
    BY <1>s, <2>1, <2>2, <2>3 DEF OffersOnce
<1>5. OffersCounted'
  BY <1>s DEF CallInv, BothSides, OffersCounted
<1>6. LeftAtLast'
  <2> SUFFICES ASSUME online', ~erred'
               PROVE  /\ Me \in inVoice' => \E l \in DOMAIN up' : Leave(l)'
                      /\ \A k \in DOMAIN up' : Join(k)' => \E l \in DOMAIN up' : k < l /\ Leave(l)'
    BY DEF LeftAtLast
  <2>1. online /\ ~erred /\ (told \/ call = 0)
    OBVIOUS
  <2>2. CASE call # 0
    BY <1>1, <2>1, <2>2 DEF Leave, Join
  <2>3. CASE call = 0
    BY <1>1, <1>s, <2>1, <2>3 DEF CallInv, BothSides, LeftAtLast, Leave, Join
  <2> QED
    BY <2>2, <2>3
<1>7. JoinedAtLast' /\ AnswersHeld'
  BY <1>0 DEF JoinedAtLast, AnswersHeld
<1>8. OneMic'
  BY <1>0, <1>t DEF CallInv, BothSides, OneMic, CallTypes
<1>9. OwnOffer'
  <2> SUFFICES ASSUME ~hasty', ~erred' PROVE OwnOffer'
    BY DEF OwnOffer
  <2>1. ~hasty /\ ~erred /\ OneMic /\ OwnOffer /\ down' = down
    BY DEF CallInv, BothSides
  <2>2. pending' = {}
    BY <1>0, <1>t, <2>1 DEF OneMic, CallTypes
  <2>3. NoOffer => NoOffer'
    BY <1>1, <1>s, <2>1 DEF NoOffer, OfferInUp, AnswerInDown
  <2>4. (~online' /\ asking' = 0) \/ NoOffer
    BY <1>t, <2>1 DEF OneMic, OwnOffer, CallTypes
  <2> QED
    BY <1>0, <2>1, <2>2, <2>3, <2>4 DEF OwnOffer
<1> QED
  BY <1>2, <1>3, <1>4, <1>5, <1>6, <1>7, <1>8, <1>9 DEF BothSides
LEMMA LeaveToldOf ==
  ASSUME CallInv, NEW done, LeaveVoice(TRUE, done), call # 0
  PROVE  LeavesCall(TRUE)
BY DEF LeaveVoice, LeaveVoiceWith, LeavesCall

LEMMA LeaveUntoldOf ==
  ASSUME CallInv, NEW done, LeaveVoice(FALSE, done) \/ (LeaveVoice(TRUE, done) /\ call = 0)
  PROVE  LeavesCall(FALSE)
BY DEF LeaveVoice, LeaveVoiceWith, LeavesCall

LEMMA LeaveSteps ==
  ASSUME CallInv,
         \/ Close \/ ClickLeave
         \/ Denied /\ call # 0
         \/ \E p \in pending : Rejected(p)
         \/ \E c \in Calls : IceFails(c)
         \/ \E i \in 1 .. Decoding : ReceiveError(i)
  PROVE  BothSides'
<1>t. CallTypes /\ OneMic /\ OwnOffer
  BY DEF CallInv, BothSides
<1>b. /\ asking \in Nat /\ online \in BOOLEAN /\ hasty \in BOOLEAN /\ erred \in BOOLEAN
      /\ down \in Seq(DownFrame(begun))
  BY <1>t DEF CallTypes
<1>c. asking <= asking
  BY <1>b
<1>1. CASE Close
  <2>1. LeavesCall(FALSE)
    BY <1>1, LeaveUntoldOf DEF Close
  <2> QED
    BY <1>b, <1>c, <1>1, <2>1, Left DEF Close
<1>2. CASE ClickLeave
  <2>1. ~hasty' /\ ~erred' => NoOffer
    BY <1>2, <1>t DEF ClickLeave, OwnOffer
  <2>2. LeavesCall(TRUE)
    BY <1>2, LeaveToldOf DEF ClickLeave
  <2> QED
    BY <1>b, <1>c, <1>2, <2>1, <2>2, Left DEF ClickLeave
<1>3. CASE Denied /\ call # 0
  <2>1. hasty
    BY <1>3, <1>t DEF Denied, OneMic
  <2>2. asking - 1 \in Nat /\ asking - 1 <= asking
    BY <1>3, <1>b DEF Denied
  <2>3. LeavesCall(TRUE)
    BY <1>3, LeaveToldOf DEF Denied
  <2> QED
    BY <1>b, <1>3, <2>1, <2>2, <2>3, Left DEF Denied
<1>4. ASSUME NEW p \in pending, Rejected(p) PROVE BothSides'
  <2>1. ~hasty /\ ~erred => NoOffer
    BY <1>4, <1>t, NoneInFlight DEF OwnOffer
  <2>2. LeaveVoice(TRUE, {p})
    BY <1>4 DEF Rejected
  <2>3. (call # 0 /\ LeavesCall(TRUE)) \/ (call = 0 /\ LeavesCall(FALSE))
    BY <2>2, LeaveToldOf, LeaveUntoldOf
  <2> QED
    BY <1>b, <1>c, <1>4, <2>1, <2>3, Left DEF Rejected
<1>5. ASSUME NEW c \in Calls, IceFails(c) PROVE BothSides'
  <2>1. ~hasty /\ ~erred => NoOffer
    BY <1>5, <1>t, NoneInFlight DEF OwnOffer, OneMic, IceFails
  <2>3. (call # 0 /\ LeavesCall(TRUE)) \/ (call = 0 /\ LeavesCall(FALSE))
    BY <1>5, LeaveToldOf, LeaveUntoldOf DEF IceFails
  <2> QED
    BY <1>b, <1>c, <1>5, <2>1, <2>3, Left DEF IceFails
<1>6. ASSUME NEW i \in 1 .. Decoding, ReceiveError(i) PROVE BothSides'
  <2>1. down' \in Seq(DownFrame(begun))
    BY <1>b, <1>6, DecodedOne DEF ReceiveError
  <2>2. LeavesCall(FALSE)
    BY <1>6, LeaveUntoldOf DEF ReceiveError
  <2> QED
    BY <1>b, <1>c, <1>6, <2>1, <2>2, Left DEF ReceiveError
<1> QED
  BY <1>1, <1>2, <1>3, <1>4, <1>5, <1>6

(* The socket opens: nothing is under way in either direction.              *)
LEMMA ConnectStep ==
  ASSUME CallInv, Connect
  PROVE  BothSides'
<1>t. CallTypes /\ NothingYet /\ OffersOnce /\ OffersCounted /\ OneMic /\ OwnOffer
  BY DEF CallInv, BothSides
<1>1. /\ step[Me] = "closed" /\ step'[Me] = "idle" /\ Me \notin inVoice
      /\ UNCHANGED <<inVoice, attached, negotiating, ready>>
  BY <1>t, OwnConnection DEF Connect, Open, Goto, NothingYet, sessionVars, offerVars
<1>2. /\ UNCHANGED <<asked, answered, call, begun, live, pending, applied, asking, isMuted, silent,
                     hasty, erred, up, down>>
      /\ online' = TRUE
  BY DEF Connect, peerVars, micVars
<1>3. begun = 0 /\ asking = 0 /\ up = <<>>
  BY <1>1, <1>t DEF NothingYet
<1>4. call = 0 /\ live = {} /\ asked = {} /\ answered = <<>> /\ pending = {}
  <2>1. call \in 0 .. 0 /\ live \subseteq 1 .. 0 /\ asked \subseteq 1 .. 0 /\ answered \in Seq(1 .. 0)
        /\ pending \subseteq live \X (0 .. 0)
    BY <1>3, <1>t DEF CallTypes
  <2>2. live = {}
    BY <2>1
  <2>3. answered = <<>>
    <3>1. Len(answered) \in Nat /\ \A k \in 1 .. Len(answered) : answered[k] \in 1 .. 0
      BY <2>1, ElementOfSeq, LenProperties
    <3>2. Len(answered) = 0
      BY <3>1
    <3> QED
      BY <2>1, <3>2, EmptySeq
  <2> QED
    BY <2>1, <2>2, <2>3
<1>5. CallTypes'
  BY <1>2, <1>t DEF CallTypes
<1>6. NothingYet' /\ OffersCounted' /\ OneMic'
  BY <1>1, <1>2, <1>t DEF NothingYet, OffersCounted, OneMic
<1>7. OffersOnce'
  BY <1>2, <1>t DEF OffersOnce, OfferAt
<1>8. LeftAtLast' /\ JoinedAtLast' /\ AnswersHeld'
  BY <1>1, <1>2, <1>3, <1>4 DEF LeftAtLast, JoinedAtLast, AnswersHeld
<1>9. OwnOffer'
  <2>1. NoOffer'
    <3>1. ASSUME NEW i \in DOMAIN down PROVE down[i][1] = "error"
      <4>1. down \in Seq(DownFrame(0)) /\ Len(down) \in Nat /\ DOMAIN down = 1 .. Len(down)
        BY <1>3, <1>t, LenProperties DEF CallTypes
      <4>2. down[i] \in DownFrame(0)
        BY <3>1, <4>1, ElementOfSeq
      <4> QED
        BY <4>2 DEF DownFrame
    <3> QED
      BY <1>2, <1>3, <1>4, <3>1 DEF NoOffer, OfferInUp, AnswerInDown
  <2> QED
    BY <1>2, <1>4, <1>t, <2>1 DEF OwnOffer
<1> QED
  BY <1>5, <1>6, <1>7, <1>8, <1>9 DEF BothSides
-----------------------------------------------------------------------------
(* A call is asked for, granted and offered.                                *)
LEMMA ServerStands ==
  ASSUME UNCHANGED serverVars
  PROVE  UNCHANGED <<alive, inVoice, attached, step, negotiating, ready, asked, answered>>
BY DEF serverVars, vars, sessionVars, offerVars

LEMMA AskingStep ==
  ASSUME CallInv, ClickJoin \/ (Denied /\ call = 0)
  PROVE  BothSides'
<1>t. /\ CallTypes /\ NothingYet /\ OffersOnce /\ OffersCounted /\ LeftAtLast /\ JoinedAtLast
      /\ AnswersHeld /\ OneMic /\ OwnOffer
  BY DEF CallInv, BothSides
<1>s. UNCHANGED <<alive, inVoice, attached, step, negotiating, ready, asked, answered>>
  BY ServerStands DEF ClickJoin, Denied
<1>1. /\ UNCHANGED <<online, call, begun, live, pending, applied, isMuted, silent, erred, up, down>>
      /\ hasty' \in BOOLEAN /\ (hasty => hasty')
  BY <1>t DEF ClickJoin, Denied, peerVars, CallTypes
<1>2. /\ asking' \in Nat /\ begun + asking' <= MaxCalls
      /\ ~hasty' => asking' <= 1 /\ call = 0
      /\ asking' # 0 => online \/ asking # 0
      /\ ~online => asking' = 0 \/ asking # 0
  <2>0. asking \in Nat /\ begun \in Nat /\ begun + asking <= MaxCalls /\ MaxCalls \in Nat
    BY <1>t, CallAssumption DEF CallTypes
  <2>1. CASE ClickJoin
    <3>1. asking' = asking + 1 /\ begun + asking < MaxCalls /\ online /\ call = 0 /\ (~hasty' => ~(asking > 0))
      BY <2>1 DEF ClickJoin, MayAsk
    <3> QED
      BY <2>0, <3>1
  <2>2. CASE Denied /\ call = 0
    <3>1. asking' = asking - 1 /\ asking > 0 /\ hasty' = hasty
      BY <2>2 DEF Denied
    <3>2. ~hasty => asking <= 1
      BY <1>t DEF OneMic
    <3> QED
      BY <2>0, <2>2, <3>1, <3>2
  <2> QED
    BY <2>1, <2>2
<1>3. CallTypes'
  BY <1>1, <1>2, <1>s, <1>t DEF CallTypes
<1>4. NothingYet'
  BY <1>1, <1>2, <1>s, <1>t DEF NothingYet
<1>5. OffersOnce' /\ OffersCounted'
  BY <1>1, <1>s, <1>t DEF OffersOnce, OfferAt, OffersCounted
<1>6. LeftAtLast' /\ JoinedAtLast'
  BY <1>1, <1>s, <1>t DEF LeftAtLast, JoinedAtLast, Leave, Join
<1>7. AnswersHeld'
  BY <1>1, <1>s, <1>t DEF AnswersHeld, LeavesFirst, Offered, Told, Leave, OfferAt
<1>8. OneMic'
  BY <1>1, <1>2, <1>t DEF OneMic
<1>9. OwnOffer'
  <2> SUFFICES ASSUME ~hasty', ~erred' PROVE OwnOffer'
    BY DEF OwnOffer
  <2>1. NoOffer => NoOffer'
    BY <1>1, <1>s DEF NoOffer, OfferInUp, AnswerInDown
  <2>2. ~hasty /\ ~erred /\ call = 0
    BY <1>1, <1>2
  <2> QED
    BY <1>1, <1>2, <1>t, <2>1, <2>2 DEF OwnOffer
<1> QED
  BY <1>3, <1>4, <1>5, <1>6, <1>7, <1>8, <1>9 DEF BothSides

LEMMA GrantedStep ==
  ASSUME CallInv, Granted
  PROVE  BothSides'
<1>p. PICK new : new = begun + 1
  OBVIOUS
<1> DEFINE n == Len(up) + 1
<1>t. /\ CallTypes /\ NothingYet /\ OffersOnce /\ OffersCounted /\ LeftAtLast /\ JoinedAtLast
      /\ AnswersHeld /\ OneMic /\ OwnOffer
  BY DEF CallInv, BothSides
<1>s. UNCHANGED <<alive, inVoice, attached, step, negotiating, ready, asked, answered>>
  BY ServerStands DEF Granted
<1>1. /\ asking > 0 /\ asking' = asking - 1 /\ begun' = new /\ call' = new
      /\ live' = live \cup {new} /\ pending' = pending \cup {<<new, 0>>}
      /\ UNCHANGED <<online, applied, isMuted, silent, hasty, erred, down>>
  BY <1>p DEF Granted
<1>2. /\ asking \in Nat /\ begun \in Nat /\ begun + asking <= MaxCalls /\ MaxCalls \in Nat
      /\ live \subseteq 1 .. begun /\ pending \subseteq live \X (0 .. begun) /\ asked \subseteq 1 .. begun
      /\ up \in Seq(UpFrame(begun)) /\ down \in Seq(DownFrame(begun)) /\ answered \in Seq(1 .. begun)
      /\ applied \in [Calls -> 0 .. begun] /\ \A c \in Calls : applied[c] # 0 => c <= begun
  BY <1>t, CallAssumption DEF CallTypes
<1>3. /\ new \in Nat /\ new # 0 /\ new \in Calls /\ new \notin 1 .. begun /\ 1 .. begun \subseteq 1 .. new
      /\ 0 .. begun \subseteq 0 .. new /\ asking - 1 \in Nat /\ new + (asking - 1) <= MaxCalls
      /\ begun <= new
  BY <1>p, <1>1, <1>2 DEF Calls
<1>4. UpFrame(begun) \subseteq UpFrame(new) /\ DownFrame(begun) \subseteq DownFrame(new)
  BY <1>3 DEF UpFrame, DownFrame
<1>5. up \in Seq(UpFrame(new)) /\ down \in Seq(DownFrame(new)) /\ answered \in Seq(1 .. new)
  BY <1>2, <1>3, <1>4, SeqOfMore
<1>6. /\ up' \in Seq(UpFrame(new)) /\ n \in Nat
      /\ \A k \in DOMAIN up : k \in Nat /\ k < n /\ k \in DOMAIN up' /\ up'[k] = up[k]
      /\ \A k \in DOMAIN up' : k \in DOMAIN up \/ (online /\ k = n /\ up'[k] = <<"join", new>>)
      /\ online => n \in DOMAIN up' /\ up'[n] = <<"join", new>>
  <2>1. Send(<< <<"join", new>> >>)
    BY <1>p DEF Granted
  <2>2. <<"join", new>> \in UpFrame(new)
    BY <1>3 DEF UpFrame
  <2>3. n = Len(up) + 1
    OBVIOUS
  <2> HIDE DEF n
  <2> QED
    BY <1>5, <2>1, <2>2, <2>3, SentOne
<1>7. /\ \A k \in DOMAIN up : up[k] \in UpFrame(begun)
      /\ \A i \in DOMAIN down : down[i] \in DownFrame(begun)
      /\ \A i \in DOMAIN answered : answered[i] \in 1 .. begun
  <2>1. /\ DOMAIN up = 1 .. Len(up) /\ DOMAIN down = 1 .. Len(down)
        /\ DOMAIN answered = 1 .. Len(answered)
    BY <1>2, LenProperties
  <2> QED
    BY <1>2, <2>1, ElementOfSeq
<1> HIDE DEF n
<1>8. \A k \in DOMAIN up : ~OfferAt(k, new)
  BY <1>3, <1>7 DEF OfferAt, UpFrame
<1>9. ASSUME NEW k \in DOMAIN up', NEW c, OfferAt(k, c)'
      PROVE  k \in DOMAIN up /\ OfferAt(k, c) /\ c # new
  BY <1>6, <1>8, <1>9 DEF OfferAt
<1>10. CallTypes'
  <2>1. /\ call' \in 0 .. new /\ live' \subseteq 1 .. new /\ silent' \subseteq live'
        /\ call' \in live'
    BY <1>1, <1>2, <1>3, <1>t DEF CallTypes
  <2>2. pending' \subseteq live' \X (0 .. new)
    <3>1. <<new, 0>> \in live' \X (0 .. new)
      BY <1>1, <1>3
    <3>2. live \X (0 .. begun) \subseteq live' \X (0 .. new)
      BY <1>1, <1>3
    <3> QED
      BY <1>1, <1>2, <3>1, <3>2
  <2>3. applied' \in [Calls -> 0 .. new] /\ \A c \in Calls : applied'[c] # 0 => c <= new
    <3>1. \A c \in Calls : c \in Nat
      BY <1>2 DEF Calls
    <3>2. \A c \in Calls : applied[c] # 0 => c <= new
      BY <1>2, <1>3, <3>1
    <3>3. applied \in [Calls -> 0 .. new]
      BY <1>2, <1>3
    <3> QED
      BY <1>1, <3>2, <3>3
  <2>4. /\ online' \in BOOLEAN /\ isMuted' \in BOOLEAN /\ hasty' \in BOOLEAN /\ erred' \in BOOLEAN
        /\ asking' \in Nat /\ begun' \in Nat /\ begun' + asking' <= MaxCalls
    <3>1. online \in BOOLEAN /\ isMuted \in BOOLEAN /\ hasty \in BOOLEAN /\ erred \in BOOLEAN
      BY <1>t DEF CallTypes
    <3> QED
      BY <1>1, <1>3, <3>1
  <2>5. /\ up' \in Seq(UpFrame(new)) /\ down' \in Seq(DownFrame(new)) /\ answered' \in Seq(1 .. new)
        /\ asked' \subseteq 1 .. new
    BY <1>1, <1>2, <1>3, <1>5, <1>6, <1>s
  <2> QED
    BY <1>1, <2>1, <2>2, <2>3, <2>4, <2>5 DEF CallTypes
<1>11. NothingYet'
  BY <1>1, <1>s, <1>t DEF NothingYet
<1>12. OffersCounted' /\ LeftAtLast'
  BY <1>1, <1>3, <1>s, <1>t DEF OffersCounted, LeftAtLast
<1>13. OffersOnce'
  <2> SUFFICES ASSUME NEW c \in 1 .. new
               PROVE  /\ \A k, l \in DOMAIN up' : OfferAt(k, c)' /\ OfferAt(l, c)' => k = l
                      /\ \A k \in DOMAIN up' : OfferAt(k, c)' => c \notin asked' /\ <<c, 0>> \notin pending'
                      /\ c \in asked' => <<c, 0>> \notin pending'
    BY <1>1 DEF OffersOnce
  <2>1. CASE c = new
    BY <1>2, <1>3, <1>9, <1>s, <2>1
  <2>2. CASE c # new
    <3>1. c \in 1 .. begun
      BY <1>p, <1>2, <2>2
    <3>2. <<c, 0>> \in pending' => <<c, 0>> \in pending
      BY <1>1, <2>2
    <3> QED
      BY <1>9, <1>s, <1>t, <3>1, <3>2 DEF OffersOnce
  <2> QED
    BY <2>1, <2>2
<1>14. JoinedAtLast'
  <2>1. ASSUME online, NEW l \in DOMAIN up', n < l PROVE FALSE
    BY <1>6, <2>1
  <2> QED
    BY <1>1, <1>6, <2>1 DEF JoinedAtLast, Join, Leave
<1>15. AnswersHeld'
  <2>1. ~Told(new)'
    <3>1. <<new, new>> \notin pending'
      BY <1>1, <1>2, <1>3
    <3>2. applied[new] # new
      BY <1>2, <1>3
    <3>3. ASSUME NEW i \in DOMAIN down PROVE down[i] # <<"answer", new>>
      BY <1>3, <1>7 DEF DownFrame
    <3> QED
      BY <1>1, <3>1, <3>2, <3>3 DEF Told
  <2>2. ~Offered(new)'
    BY <1>2, <1>3, <1>7, <1>s, <2>1 DEF Offered
  <2>3. LeavesFirst(new)'
    BY <1>9, <2>2 DEF LeavesFirst
  <2> QED
    BY <1>1, <2>1, <2>3 DEF AnswersHeld
<1>16. OneMic'
  <2> SUFFICES ASSUME ~hasty' PROVE OneMic'
    BY DEF OneMic
  <2>1. /\ live \subseteq {call} /\ (call # 0 => asking = 0) /\ (call = 0 => ~isMuted) /\ asking <= 1
        /\ silent \subseteq live
    BY <1>1, <1>t DEF OneMic, CallTypes
  <2>2. call = 0 /\ ~isMuted /\ asking - 1 = 0
    BY <1>1, <1>2, <2>1
  <2>3. live = {} /\ silent = {}
    BY <1>1, <2>1, <2>2, NoneInFlight
  <2> QED
    BY <1>1, <1>3, <2>2, <2>3 DEF OneMic
<1>17. OwnOffer'
  <2> SUFFICES ASSUME ~hasty', ~erred' PROVE OwnOffer'
    BY DEF OwnOffer
  <2>1. call = 0 /\ pending = {} /\ asking # 0
    BY <1>1, <1>2, <1>t, NoneInFlight DEF OneMic
  <2>2. NoOffer /\ \A c \in Calls : applied[c] \in {0, c}
    BY <1>1, <1>t, <2>1 DEF OwnOffer
  <2>3. NoOffer'
    BY <1>1, <1>6, <1>s, <2>2 DEF NoOffer, OfferInUp, AnswerInDown
  <2>4. applied[new] = 0
    BY <1>2, <1>3
  <2> QED
    BY <1>1, <2>1, <2>2, <2>3, <2>4 DEF OwnOffer
<1> QED
  BY <1>10, <1>11, <1>12, <1>13, <1>14, <1>15, <1>16, <1>17 DEF BothSides
LEMMA OfferStep ==
  ASSUME CallInv, NEW c \in Calls, OfferCreated(c)
  PROVE  BothSides'
<1> DEFINE n == Len(up) + 1
<1>t. /\ CallTypes /\ NothingYet /\ OffersOnce /\ OffersCounted /\ LeftAtLast /\ JoinedAtLast
      /\ AnswersHeld /\ OneMic /\ OwnOffer
  BY DEF CallInv, BothSides
<1>s. UNCHANGED <<alive, inVoice, attached, step, negotiating, ready, asked, answered>>
  BY ServerStands DEF OfferCreated
<1>1. /\ <<c, 0>> \in pending /\ pending' = pending \ {<<c, 0>>}
      /\ UNCHANGED <<online, call, begun, live, applied, asking, isMuted, silent, hasty, erred, down>>
  BY DEF OfferCreated, micVars
<1>2. c \in live /\ c \in 1 .. begun /\ c # 0
  BY <1>1, <1>t DEF CallTypes, Calls
<1>3. /\ up' \in Seq(UpFrame(begun)) /\ n \in Nat
      /\ \A k \in DOMAIN up : k \in Nat /\ k < n /\ k \in DOMAIN up' /\ up'[k] = up[k]
      /\ \A k \in DOMAIN up' : k \in DOMAIN up \/ (online /\ k = n /\ up'[k] = <<"offer", c>>)
      /\ online => n \in DOMAIN up' /\ up'[n] = <<"offer", c>>
  <2>1. Send(<< <<"offer", c>> >>)
    BY DEF OfferCreated
  <2>2. <<"offer", c>> \in UpFrame(begun)
    BY <1>2 DEF UpFrame
  <2>3. n = Len(up) + 1 /\ up \in Seq(UpFrame(begun))
    BY <1>t DEF CallTypes
  <2> HIDE DEF n
  <2> QED
    BY <2>1, <2>2, <2>3, SentOne
<1> HIDE DEF n
<1>4. CallTypes'
  BY <1>1, <1>3, <1>s, <1>t DEF CallTypes
<1>5. NothingYet'
  BY <1>1, <1>2, <1>s, <1>t DEF NothingYet
<1>6. OffersCounted' /\ OneMic'
  BY <1>1, <1>s, <1>t DEF OffersCounted, OneMic
<1>7. OffersOnce'
  <2> SUFFICES ASSUME NEW d \in 1 .. begun
               PROVE  /\ \A k, l \in DOMAIN up' : OfferAt(k, d)' /\ OfferAt(l, d)' => k = l
                      /\ \A k \in DOMAIN up' : OfferAt(k, d)' => d \notin asked' /\ <<d, 0>> \notin pending'
                      /\ d \in asked' => <<d, 0>> \notin pending'
    BY <1>1 DEF OffersOnce
  <2>0. /\ \A k, l \in DOMAIN up : OfferAt(k, d) /\ OfferAt(l, d) => k = l
        /\ \A k \in DOMAIN up : OfferAt(k, d) => d \notin asked /\ <<d, 0>> \notin pending
        /\ d \in asked => <<d, 0>> \notin pending
    BY <1>t DEF OffersOnce
  <2>1. CASE d = c
    <3>1. \A k \in DOMAIN up : ~OfferAt(k, d)
      BY <1>1, <2>0, <2>1
    <3>2. \A k \in DOMAIN up' : OfferAt(k, d)' => k = n
      BY <1>3, <3>1 DEF OfferAt
    <3> QED
      BY <1>1, <1>s, <2>0, <2>1, <3>2
  <2>2. CASE d # c
    <3>1. \A k \in DOMAIN up' : OfferAt(k, d)' => k \in DOMAIN up /\ OfferAt(k, d)
      BY <1>3, <2>2 DEF OfferAt
    <3> QED
      BY <1>1, <1>s, <2>0, <2>2, <3>1
  <2> QED
    BY <2>1, <2>2
<1>8. \A k \in DOMAIN up' : Leave(k)' \/ Join(k)' =>
         k \in DOMAIN up /\ (Leave(k)' <=> Leave(k)) /\ (Join(k)' <=> Join(k))
  BY <1>3 DEF Leave, Join
<1>9. LeftAtLast' /\ JoinedAtLast'
  <2>1. \A k \in DOMAIN up : k \in DOMAIN up' /\ (Leave(k)' <=> Leave(k)) /\ (Join(k)' <=> Join(k))
    BY <1>3 DEF Leave, Join
  <2>2. LeftAtLast'
    BY <1>1, <1>8, <1>s, <1>t, <2>1 DEF LeftAtLast
  <2>3. JoinedAtLast'
    BY <1>1, <1>8, <1>s, <1>t, <2>1 DEF JoinedAtLast
  <2> QED
    BY <2>2, <2>3
<1>10. AnswersHeld'
  <2> SUFFICES ASSUME NEW d \in 1 .. begun, online, call = d
               PROVE  LeavesFirst(d)' /\ (Me \in alive /\ Told(d)' => Me \in attached)
    BY <1>1, <1>s DEF AnswersHeld
  <2>1. Told(d)' => Told(d)
    BY <1>1 DEF Told
  <2>2. Offered(d)' => Offered(d)
    BY <1>s, <2>1 DEF Offered
  <2>3. LeavesFirst(d) /\ (Me \in alive /\ Told(d) => Me \in attached)
    BY <1>t DEF AnswersHeld
  <2>4. ASSUME NEW l \in DOMAIN up', Leave(l)', NEW k \in DOMAIN up', OfferAt(k, d)' PROVE l < k
    <3>1. l \in DOMAIN up /\ Leave(l)
      BY <1>8, <2>4
    <3>2. k \in DOMAIN up => OfferAt(k, d)
      BY <1>3, <2>4 DEF OfferAt
    <3>3. k \in DOMAIN up \/ k = n
      BY <1>3
    <3>4. CASE k \in DOMAIN up
      BY <2>3, <3>1, <3>2, <3>4 DEF LeavesFirst
    <3> QED
      BY <1>3, <3>1, <3>3, <3>4
  <2> QED
    BY <1>8, <2>1, <2>2, <2>3, <2>4 DEF LeavesFirst
<1>11. OwnOffer'
  <2> SUFFICES ASSUME ~hasty', ~erred' PROVE OwnOffer'
    BY DEF OwnOffer
  <2>1. call = c
    BY <1>1, <1>2, <1>t DEF OneMic
  <2>2. /\ \A d \in Calls : applied[d] \in {0, d}
        /\ \A p \in pending : p[2] \in {0, p[1]}
        /\ NoOffer /\ \A p \in pending : applied[p[1]] = 0 /\ \A q \in pending : p = q
    BY <1>1, <1>2, <1>t, <2>1 DEF OwnOffer
  <2>3. pending' = {} /\ applied[c] = 0
    BY <1>1, <2>2
  <2>4. OneOffer'
    BY <1>1, <1>3, <1>s, <2>1, <2>2 DEF OneOffer, NoOffer, OfferInUp, AnswerInDown
  <2> QED
    BY <1>1, <1>2, <2>1, <2>2, <2>3, <2>4 DEF OwnOffer
<1> QED
  BY <1>4, <1>5, <1>6, <1>7, <1>9, <1>10, <1>11 DEF BothSides

LEMMA MuteStep ==
  ASSUME CallInv, ToggleMute
  PROVE  BothSides'
<1>t. /\ CallTypes /\ NothingYet /\ OffersOnce /\ OffersCounted /\ LeftAtLast /\ JoinedAtLast
      /\ AnswersHeld /\ OneMic /\ OwnOffer
  BY DEF CallInv, BothSides
<1>s. UNCHANGED <<alive, inVoice, attached, step, negotiating, ready, asked, answered>>
  BY ServerStands DEF ToggleMute
<1>1. /\ call # 0 /\ isMuted' = ~isMuted
      /\ silent' = IF isMuted THEN silent \ {call} ELSE silent \cup {call}
      /\ UNCHANGED <<online, call, begun, live, pending, applied, asking, hasty, erred, up, down>>
  BY DEF ToggleMute, peerVars
<1>2. CallTypes'
  BY <1>1, <1>s, <1>t DEF CallTypes
<1>3. NothingYet' /\ OffersCounted'
  BY <1>1, <1>s, <1>t DEF NothingYet, OffersCounted
<1>4. OffersOnce' /\ LeftAtLast' /\ JoinedAtLast'
  BY <1>1, <1>s, <1>t DEF OffersOnce, OfferAt, LeftAtLast, JoinedAtLast, Leave, Join
<1>5. AnswersHeld'
  BY <1>1, <1>s, <1>t DEF AnswersHeld, LeavesFirst, Offered, Told, Leave, OfferAt
<1>6. OneMic'
  BY <1>1, <1>t DEF OneMic, CallTypes
<1>7. OwnOffer'
  BY <1>1, <1>s, <1>t DEF OwnOffer, NoOffer, OneOffer, OfferInUp, AnswerInDown
<1> QED
  BY <1>2, <1>3, <1>4, <1>5, <1>6, <1>7 DEF BothSides

(* An answer is received and applied.                                       *)
LEMMA AnswerStep ==
  ASSUME CallInv, NEW i, ReceiveAnswer(i)
  PROVE  BothSides'
<1>t. /\ CallTypes /\ NothingYet /\ OffersOnce /\ OffersCounted /\ LeftAtLast /\ JoinedAtLast
      /\ AnswersHeld /\ OneMic /\ OwnOffer
  BY DEF CallInv, BothSides
<1>s. UNCHANGED <<alive, inVoice, attached, step, negotiating, ready, asked, answered>>
  BY ServerStands DEF ReceiveAnswer
<1>1. UNCHANGED <<online, call, begun, live, applied, asking, isMuted, silent, hasty, erred, up>>
  BY DEF ReceiveAnswer, micVars
<1>2. down \in Seq(DownFrame(begun)) /\ call \in 0 .. begun /\ pending \subseteq live \X (0 .. begun)
  BY <1>t DEF CallTypes
<1>3. PICK at :
         /\ down' \in Seq(DownFrame(begun)) /\ i \in DOMAIN down /\ down[i][1] = "answer"
         /\ \A j \in DOMAIN down' : /\ at[j] \in DOMAIN down /\ at[j] # i /\ down'[j] = down[at[j]]
                                    /\ \A l \in DOMAIN down' : at[j] = at[l] => j = l
         /\ \A l \in DOMAIN down : l # i => \E j \in DOMAIN down' : down'[j] = down[l]
  BY <1>2, DecodedOne DEF ReceiveAnswer
<1>4. PICK a \in 1 .. begun : down[i] = <<"answer", a>>
  <2>1. down[i] \in DownFrame(begun)
    <3>1. DOMAIN down = 1 .. Len(down)
      BY <1>2, LenProperties
    <3> QED
      BY <1>2, <1>3, <3>1, ElementOfSeq
  <2> QED
    BY <1>3, <2>1 DEF DownFrame
<1>5. pending' = IF call = 0 THEN pending ELSE pending \cup {<<call, a>>}
  BY <1>4 DEF ReceiveAnswer
<1>6. a # 0
  BY <1>4
<1>7. CallTypes'
  <2>1. pending' \subseteq live \X (0 .. begun)
    <3>1. call # 0 => <<call, a>> \in live \X (0 .. begun)
      BY <1>4, <1>t DEF CallTypes
    <3> QED
      BY <1>2, <1>5, <3>1
  <2> QED
    BY <1>1, <1>3, <1>s, <1>t, <2>1 DEF CallTypes
<1>8. NothingYet' /\ OffersCounted' /\ OneMic'
  BY <1>1, <1>s, <1>t DEF NothingYet, OffersCounted, OneMic
<1>9. OffersOnce'
  <2>1. \A c : <<c, 0>> \in pending' => <<c, 0>> \in pending
    BY <1>5, <1>6
  <2> QED
    BY <1>1, <1>s, <1>t, <2>1 DEF OffersOnce, OfferAt
<1>10. LeftAtLast'
  BY <1>1, <1>s, <1>t DEF LeftAtLast, Leave, Join
<1>11. JoinedAtLast'
  <2>1. ASSUME NEW l \in DOMAIN down, down[l][1] = "error"
        PROVE  \E j \in DOMAIN down' : down'[j][1] = "error"
    <3>1. PICK j \in DOMAIN down' : down'[j] = down[l]
      BY <1>3, <2>1
    <3> QED
      BY <2>1, <3>1
  <2> QED
    BY <1>1, <1>s, <1>t, <2>1 DEF JoinedAtLast, Leave, Join
<1>12. AnswersHeld'
  <2> SUFFICES ASSUME NEW d \in 1 .. begun, online, call = d
               PROVE  LeavesFirst(d)' /\ (Me \in alive /\ Told(d)' => Me \in attached)
    BY <1>1, <1>s DEF AnswersHeld
  <2>1. Told(d)' => Told(d)
    <3>1. <<d, d>> \in pending' => <<d, d>> \in pending \/ down[i] = <<"answer", d>>
      BY <1>4, <1>5
    <3>2. ASSUME NEW j \in DOMAIN down', down'[j] = <<"answer", d>>
          PROVE  \E l \in DOMAIN down : down[l] = <<"answer", d>>
      BY <1>3, <3>2
    <3> QED
      BY <1>1, <1>3, <3>1, <3>2 DEF Told
  <2>2. Offered(d)' => Offered(d)
    BY <1>s, <2>1 DEF Offered
  <2>3. LeavesFirst(d) /\ (Me \in alive /\ Told(d) => Me \in attached)
    BY <1>t DEF AnswersHeld
  <2> QED
    BY <1>1, <2>1, <2>2, <2>3 DEF LeavesFirst, Leave, OfferAt
<1>13. OwnOffer'
  <2> SUFFICES ASSUME ~hasty', ~erred' PROVE OwnOffer'
    BY DEF OwnOffer
  <2>1. ~NoOffer
    BY <1>3 DEF NoOffer, AnswerInDown
  <2>2. CASE call = 0
    BY <1>1, <1>5, <1>t, <2>1, <2>2 DEF OwnOffer
  <2>3. CASE call # 0
    <3>1. applied[call] = 0 /\ pending = {} /\ OneOffer /\ \A c \in Calls : applied[c] \in {0, c}
      BY <1>1, <1>t, <2>1, <2>3 DEF OwnOffer
    <3>2. /\ \A k \in DOMAIN up : ~OfferInUp(k)
          /\ asked = {} /\ answered = <<>> /\ a = call
          /\ \A j, l \in DOMAIN down : AnswerInDown(j) /\ AnswerInDown(l) => j = l
      BY <1>3, <1>4, <3>1 DEF OneOffer, AnswerInDown
    <3>3. \A j \in DOMAIN down' : ~AnswerInDown(j)'
      BY <1>3, <3>2 DEF AnswerInDown
    <3>4. NoOffer'
      BY <1>1, <1>s, <3>2, <3>3 DEF NoOffer, OfferInUp
    <3>5. pending' = {<<call, call>>}
      BY <1>5, <2>3, <3>1, <3>2
    <3> QED
      BY <1>1, <3>1, <3>4, <3>5 DEF OwnOffer
  <2> QED
    BY <2>2, <2>3
<1> QED
  BY <1>7, <1>8, <1>9, <1>10, <1>11, <1>12, <1>13 DEF BothSides

LEMMA AppliedStep ==
  ASSUME CallInv, NEW c, NEW a, AnswerApplied(c, a)
  PROVE  BothSides'
<1>t. /\ CallTypes /\ NothingYet /\ OffersOnce /\ OffersCounted /\ LeftAtLast /\ JoinedAtLast
      /\ AnswersHeld /\ OneMic /\ OwnOffer
  BY DEF CallInv, BothSides
<1>s. UNCHANGED <<alive, inVoice, attached, step, negotiating, ready, asked, answered>>
  BY ServerStands DEF AnswerApplied
<1>1. /\ a # 0 /\ <<c, a>> \in pending /\ pending' = pending \ {<<c, a>>}
      /\ applied' = [applied EXCEPT ![c] = a] /\ applied[c] = 0
      /\ UNCHANGED <<online, call, begun, live, asking, isMuted, silent, hasty, erred, up, down>>
  BY DEF AnswerApplied, micVars
<1>2. c \in live /\ c \in 1 .. begun /\ c \in Calls /\ c <= begun /\ a \in 0 .. begun
  <2>1. c \in live /\ c \in 1 .. begun /\ a \in 0 .. begun /\ begun \in Nat /\ asking \in Nat
        /\ begun + asking <= MaxCalls
    BY <1>1, <1>t DEF CallTypes
  <2> QED
    BY <2>1, CallAssumption DEF Calls
<1>3. /\ applied' \in [Calls -> 0 .. begun] /\ applied'[c] = a
      /\ \A d \in Calls : d # c => applied'[d] = applied[d]
  BY <1>1, <1>2, <1>t DEF CallTypes
<1>4. CallTypes'
  <2>1. \A d \in Calls : applied'[d] # 0 => d <= begun
    BY <1>2, <1>3, <1>t DEF CallTypes
  <2> QED
    BY <1>1, <1>3, <1>s, <1>t, <2>1 DEF CallTypes
<1>5. NothingYet' /\ OffersCounted' /\ OneMic'
  BY <1>1, <1>s, <1>t DEF NothingYet, OffersCounted, OneMic
<1>6. OffersOnce' /\ LeftAtLast' /\ JoinedAtLast'
  BY <1>1, <1>s, <1>t DEF OffersOnce, OfferAt, LeftAtLast, JoinedAtLast, Leave, Join
<1>7. AnswersHeld'
  <2> SUFFICES ASSUME NEW d \in 1 .. begun, online, call = d
               PROVE  LeavesFirst(d)' /\ (Me \in alive /\ Told(d)' => Me \in attached)
    BY <1>1, <1>s DEF AnswersHeld
  <2>1. Told(d)' => Told(d)
    <3>1. d \in Calls
      BY <1>t, CallAssumption DEF CallTypes, Calls
    <3>2. applied'[d] = d => applied[d] = d \/ <<d, d>> \in pending
      BY <1>1, <1>3, <3>1
    <3> QED
      BY <1>1, <3>2 DEF Told
  <2>2. Offered(d)' => Offered(d)
    BY <1>s, <2>1 DEF Offered
  <2>3. LeavesFirst(d) /\ (Me \in alive /\ Told(d) => Me \in attached)
    BY <1>t DEF AnswersHeld
  <2> QED
    BY <1>1, <2>1, <2>2, <2>3 DEF LeavesFirst, Leave, OfferAt
<1>8. OwnOffer'
  <2> SUFFICES ASSUME ~hasty', ~erred' PROVE OwnOffer'
    BY DEF OwnOffer
  <2>1. call = c /\ c # 0
    BY <1>1, <1>2, <1>t DEF OneMic
  <2>2. /\ \A d \in Calls : applied[d] \in {0, d}
        /\ \A p \in pending : p[2] \in {0, p[1]}
        /\ NoOffer /\ \A p \in pending : applied[p[1]] = 0 /\ \A q \in pending : p = q
    BY <1>1, <1>t, <2>1 DEF OwnOffer
  <2>3. pending' = {} /\ a = c
    BY <1>1, <2>2
  <2>4. NoOffer'
    BY <1>1, <1>s, <2>2 DEF NoOffer, OfferInUp, AnswerInDown
  <2> QED
    BY <1>1, <1>3, <2>2, <2>3, <2>4 DEF OwnOffer
<1> QED
  BY <1>4, <1>5, <1>6, <1>7, <1>8 DEF BothSides
-----------------------------------------------------------------------------
(* The server takes a frame.                                                *)
LEMMA Taken ==
  ASSUME CallInv, NEW kind, Read(kind)
  PROVE  /\ Me \in alive /\ step[Me] = "idle" /\ 1 \in DOMAIN up /\ Head(up) = up[1]
         /\ up[1][1] = kind /\ up[1] \in UpFrame(begun) /\ up' \in Seq(UpFrame(begun))
         /\ \A k \in DOMAIN up' : k \in Nat /\ k > 0 /\ k + 1 \in DOMAIN up /\ up'[k] = up[k + 1]
         /\ \A k \in DOMAIN up : k = 1 \/ (k \in Nat /\ k > 1 /\ k - 1 \in DOMAIN up' /\ up'[k - 1] = up[k])
         /\ \A k \in DOMAIN up : k \in Nat /\ k >= 1
         /\ UNCHANGED <<online, call, begun, live, pending, applied, asking, isMuted, silent, hasty,
                        erred, answered>>
<1>1. up \in Seq(UpFrame(begun)) /\ up # <<>> /\ up' = Tail(up) /\ Head(up)[1] = kind
  BY DEF CallInv, BothSides, CallTypes, Read
<1>2. \A k \in DOMAIN up : k \in Nat /\ k >= 1
  <2>1. DOMAIN up = 1 .. Len(up)
    BY <1>1, LenProperties
  <2> QED
    BY <2>1
<1>3. Me \in alive /\ step[Me] = "idle"
  BY DEF Read, Idle
<1>4. UNCHANGED <<online, call, begun, live, pending, applied, asking, isMuted, silent, hasty,
                  erred, answered>>
  BY DEF Read, clientVars, peerVars, micVars
<1> QED
  BY <1>1, <1>2, <1>3, <1>4, TakenOne

(* What only reading a frame changes: everything about the frames still     *)
(* under way moves up by one.                                               *)
LEMMA AfterTaken ==
  ASSUME CallInv, NEW kind, Read(kind)
  PROVE  /\ \A c : \A k \in DOMAIN up' : OfferAt(k, c)' => OfferAt(k + 1, c)
         /\ \A k \in DOMAIN up' : Leave(k)' => Leave(k + 1)
         /\ \A k \in DOMAIN up' : Join(k)' => Join(k + 1)
         /\ \A k \in DOMAIN up : k # 1 /\ Leave(k) => Leave(k - 1)'
         /\ \A k \in DOMAIN up : k # 1 /\ Join(k) => Join(k - 1)'
         /\ \A k \in DOMAIN up' : OfferInUp(k)' => OfferInUp(k + 1) /\ up'[k] = up[k + 1]
BY Taken DEF OfferAt, Leave, Join, OfferInUp

(* What a frame taken leaves true, whatever the server makes of it, as long *)
(* as it replies with an error at most.                                     *)
LEMMA AfterAll ==
  ASSUME CallInv, NEW kind, Read(kind),
         (Reply("error", 0) \/ UNCHANGED down), step'[Me] # "closed",
         UNCHANGED <<alive, ready>>,
         \A c \in asked' : c \in asked \/ (kind = "offer" /\ OfferAt(1, c)),
         IsFiniteSet(asked'), negotiating'[Me] = Cardinality(asked'),
         kind = "leave" => Me \notin inVoice',
         kind = "leave" \/ UNCHANGED attached,
         kind = "offer" => UNCHANGED inVoice,
         kind = "join" => Me \in inVoice' \/ (Reply("error", 0) /\ UNCHANGED inVoice),
         asked' = asked \/ (kind = "offer" /\ asked' = asked \cup {up[1][2]}),
         kind \in {"join", "leave", "offer"}
  PROVE  BothSides'
<1> DEFINE n == Len(down) + 1
<1>t. /\ CallTypes /\ NothingYet /\ OffersOnce /\ OffersCounted /\ LeftAtLast /\ JoinedAtLast
      /\ AnswersHeld /\ OneMic /\ OwnOffer
  BY DEF CallInv, BothSides
<1>1. /\ Me \in alive /\ step[Me] = "idle" /\ 1 \in DOMAIN up /\ Head(up) = up[1]
      /\ up[1][1] = kind /\ up[1] \in UpFrame(begun) /\ up' \in Seq(UpFrame(begun))
      /\ \A k \in DOMAIN up' : k \in Nat /\ k > 0 /\ k + 1 \in DOMAIN up /\ up'[k] = up[k + 1]
      /\ \A k \in DOMAIN up : k = 1 \/ (k \in Nat /\ k > 1 /\ k - 1 \in DOMAIN up' /\ up'[k - 1] = up[k])
      /\ \A k \in DOMAIN up : k \in Nat /\ k >= 1
      /\ UNCHANGED <<online, call, begun, live, pending, applied, asking, isMuted, silent, hasty,
                     erred, answered>>
  BY Taken
<1>2. /\ down' \in Seq(DownFrame(begun))
      /\ \A i \in DOMAIN down : i \in DOMAIN down' /\ down'[i] = down[i]
      /\ \A i \in DOMAIN down' : (i \in DOMAIN down /\ down'[i] = down[i]) \/ down'[i] = <<"error", 0>>
      /\ Reply("error", 0) /\ online => \E i \in DOMAIN down' : down'[i] = <<"error", 0>>
  <2>1. down \in Seq(DownFrame(begun)) /\ <<"error", 0>> \in DownFrame(begun) /\ n = Len(down) + 1
    BY <1>t DEF CallTypes, DownFrame
  <2> HIDE DEF n
  <2>2. CASE Reply("error", 0)
    <3>1. /\ down' \in Seq(DownFrame(begun)) /\ n \in Nat
          /\ \A i \in DOMAIN down : i \in Nat /\ i < n /\ i \in DOMAIN down' /\ down'[i] = down[i]
          /\ \A i \in DOMAIN down' : i \in DOMAIN down \/ (online /\ i = n /\ down'[i] = <<"error", 0>>)
          /\ online => n \in DOMAIN down' /\ down'[n] = <<"error", 0>>
      BY <2>1, <2>2, RepliedOne
    <3> QED
      BY <3>1
  <2>3. CASE UNCHANGED down /\ ~Reply("error", 0)
    BY <2>1, <2>3
  <2> QED
    BY <2>2, <2>3
<1> HIDE DEF n
<1>3. /\ \A c : \A k \in DOMAIN up' : OfferAt(k, c)' => OfferAt(k + 1, c)
      /\ \A k \in DOMAIN up' : Leave(k)' => Leave(k + 1)
      /\ \A k \in DOMAIN up' : Join(k)' => Join(k + 1)
      /\ \A k \in DOMAIN up : k # 1 /\ Leave(k) => Leave(k - 1)'
      /\ \A k \in DOMAIN up : k # 1 /\ Join(k) => Join(k - 1)'
      /\ \A k \in DOMAIN up' : OfferInUp(k)' => OfferInUp(k + 1) /\ up'[k] = up[k + 1]
  BY AfterTaken
<1>4. CallTypes'
  <2>1. asked' \subseteq 1 .. begun
    <3>1. \A c : OfferAt(1, c) => c \in 1 .. begun
      BY <1>1 DEF OfferAt, UpFrame
    <3> QED
      BY <1>t, <3>1 DEF CallTypes
  <2> QED
    BY <1>1, <1>2, <1>t, <2>1 DEF CallTypes
<1>5. NothingYet' /\ OffersCounted' /\ OneMic'
  BY <1>1, <1>t DEF NothingYet, OffersCounted, OneMic
<1>6. OffersOnce'
  <2> SUFFICES ASSUME NEW c \in 1 .. begun
               PROVE  /\ \A k, l \in DOMAIN up' : OfferAt(k, c)' /\ OfferAt(l, c)' => k = l
                      /\ \A k \in DOMAIN up' : OfferAt(k, c)' => c \notin asked' /\ <<c, 0>> \notin pending'
                      /\ c \in asked' => <<c, 0>> \notin pending'
    BY <1>1 DEF OffersOnce
  <2>0. /\ \A k, l \in DOMAIN up : OfferAt(k, c) /\ OfferAt(l, c) => k = l
        /\ \A k \in DOMAIN up : OfferAt(k, c) => c \notin asked /\ <<c, 0>> \notin pending
        /\ c \in asked => <<c, 0>> \notin pending
    BY <1>t DEF OffersOnce
  <2>1. ASSUME NEW k \in DOMAIN up', NEW l \in DOMAIN up', OfferAt(k, c)', OfferAt(l, c)' PROVE k = l
    <3>1. k + 1 = l + 1
      BY <1>1, <1>3, <2>0, <2>1
    <3> QED
      BY <1>1, <3>1
  <2>2. ASSUME NEW k \in DOMAIN up', OfferAt(k, c)' PROVE c \notin asked'
    <3>1. k + 1 \in DOMAIN up /\ OfferAt(k + 1, c) /\ k + 1 # 1
      BY <1>1, <1>3, <2>2
    <3> QED
      BY <1>1, <2>0, <3>1
  <2>3. ASSUME NEW k \in DOMAIN up', OfferAt(k, c)' PROVE <<c, 0>> \notin pending'
    BY <1>1, <1>3, <2>0, <2>3
  <2>4. ASSUME c \in asked' PROVE <<c, 0>> \notin pending'
    BY <1>1, <2>0, <2>4
  <2> QED
    BY <2>1, <2>2, <2>3, <2>4
<1>7. LeftAtLast'
  <2> SUFFICES ASSUME online, ~erred, call = 0
               PROVE  /\ Me \in inVoice' => \E l \in DOMAIN up' : Leave(l)'
                      /\ \A k \in DOMAIN up' : Join(k)' => \E l \in DOMAIN up' : k < l /\ Leave(l)'
    BY <1>1 DEF LeftAtLast
  <2>0. /\ Me \in inVoice => \E l \in DOMAIN up : Leave(l)
        /\ \A k \in DOMAIN up : Join(k) => \E l \in DOMAIN up : k < l /\ Leave(l)
    BY <1>t DEF LeftAtLast
  <2>1. ASSUME NEW k \in DOMAIN up', Join(k)' PROVE \E l \in DOMAIN up' : k < l /\ Leave(l)'
    <3>1. PICK l \in DOMAIN up : k + 1 < l /\ Leave(l)
      BY <1>1, <1>3, <2>0, <2>1
    <3>2. l # 1 /\ k < l - 1
      BY <1>1, <3>1
    <3>3. l - 1 \in DOMAIN up' /\ Leave(l - 1)'
      BY <1>1, <1>3, <3>1, <3>2
    <3> QED
      BY <3>2, <3>3
  <2>2. ASSUME Me \in inVoice' PROVE \E l \in DOMAIN up' : Leave(l)'
    <3>0. kind # "leave"
      BY <2>2
    <3>1. \E l \in DOMAIN up : Leave(l)
      <4>1. CASE kind = "join"
        BY <1>1, <2>0, <4>1 DEF Join
      <4>2. CASE kind = "offer"
        BY <2>0, <2>2, <4>2
      <4> QED
        BY <3>0, <4>1, <4>2
    <3>2. PICK l \in DOMAIN up : Leave(l)
      BY <3>1
    <3>3. l # 1
      BY <1>1, <3>0, <3>2 DEF Leave
    <3>4. l - 1 \in DOMAIN up' /\ Leave(l - 1)'
      BY <1>1, <1>3, <3>2, <3>3
    <3> QED
      BY <3>4
  <2> QED
    BY <2>1, <2>2
<1>8. JoinedAtLast'
  <2> SUFFICES ASSUME online, call # 0
               PROVE  \/ Me \in inVoice' /\ \A l \in DOMAIN up' : ~Leave(l)'
                      \/ \E k \in DOMAIN up' : Join(k)' /\ \A l \in DOMAIN up' : k < l => ~Leave(l)'
                      \/ \E i \in DOMAIN down' : down'[i][1] = "error"
    BY <1>1 DEF JoinedAtLast
  <2>1. CASE Me \in inVoice /\ \A l \in DOMAIN up : ~Leave(l)
    <3>1. kind # "leave"
      BY <1>1, <2>1 DEF Leave
    <3>2. \A l \in DOMAIN up' : ~Leave(l)'
      BY <1>1, <1>3, <2>1
    <3> QED
      BY <2>1, <3>1, <3>2
  <2>2. CASE \E k \in DOMAIN up : Join(k) /\ \A l \in DOMAIN up : k < l => ~Leave(l)
    <3>1. PICK k \in DOMAIN up : Join(k) /\ \A l \in DOMAIN up : k < l => ~Leave(l)
      BY <2>2
    <3>2. CASE k = 1
      <4>1. kind = "join"
        BY <1>1, <3>1, <3>2 DEF Join
      <4>2. \A l \in DOMAIN up' : ~Leave(l)'
        <5>1. ASSUME NEW l \in DOMAIN up' PROVE l + 1 \in DOMAIN up /\ 1 < l + 1
          BY <1>1
        <5> QED
          BY <1>3, <3>1, <3>2, <5>1
      <4>3. Reply("error", 0) => \E i \in DOMAIN down' : down'[i][1] = "error"
        BY <1>2
      <4> QED
        BY <4>1, <4>2, <4>3
    <3>3. CASE k # 1
      <4>1. k - 1 \in DOMAIN up' /\ Join(k - 1)'
        BY <1>1, <1>3, <3>1, <3>3
      <4>2. ASSUME NEW l \in DOMAIN up', k - 1 < l PROVE ~Leave(l)'
        <5>1. l + 1 \in DOMAIN up /\ k < l + 1
          BY <1>1, <4>2
        <5> QED
          BY <1>3, <3>1, <5>1
      <4> QED
        BY <4>1, <4>2
    <3> QED
      BY <3>2, <3>3
  <2>3. CASE \E i \in DOMAIN down : down[i][1] = "error"
    BY <1>2, <2>3
  <2> QED
    BY <1>1, <1>t, <2>1, <2>2, <2>3 DEF JoinedAtLast
<1>9. AnswersHeld'
  <2> SUFFICES ASSUME NEW d \in 1 .. begun, online, call = d
               PROVE  LeavesFirst(d)' /\ (Me \in alive /\ Told(d)' => Me \in attached')
    BY <1>1 DEF AnswersHeld
  <2>1. Told(d)' => Told(d)
    BY <1>1, <1>2 DEF Told
  <2>2. Offered(d)' => Offered(d) \/ (kind = "offer" /\ OfferAt(1, d))
    BY <1>1, <2>1 DEF Offered
  <2>3. LeavesFirst(d) /\ (Me \in alive /\ Told(d) => Me \in attached)
    BY <1>t DEF AnswersHeld
  <2>4. kind = "leave" => ~Told(d)
    BY <1>1, <2>3 DEF LeavesFirst, Leave, Offered
  <2>5. ASSUME NEW l \in DOMAIN up', Leave(l)'
        PROVE  ~Offered(d)' /\ \A k \in DOMAIN up' : OfferAt(k, d)' => l < k
    <3>1. l + 1 \in DOMAIN up /\ Leave(l + 1) /\ l \in Nat /\ l > 0
      BY <1>1, <1>3, <2>5
    <3>2. ~Offered(d) /\ \A k \in DOMAIN up : OfferAt(k, d) => l + 1 < k
      BY <2>3, <3>1 DEF LeavesFirst
    <3>3. ~OfferAt(1, d)
      BY <1>1, <3>1, <3>2
    <3>4. ASSUME NEW k \in DOMAIN up', OfferAt(k, d)' PROVE l < k
      <4>1. k \in Nat /\ l + 1 < k + 1
        BY <1>1, <1>3, <3>2, <3>4
      <4> QED
        BY <3>1, <4>1
    <3> QED
      BY <2>2, <3>2, <3>3, <3>4
  <2>6. Me \in alive /\ Told(d)' => Me \in attached'
    BY <2>1, <2>3, <2>4
  <2> QED
    BY <2>5, <2>6 DEF LeavesFirst
<1>10. OwnOffer'
  <2> SUFFICES ASSUME ~hasty', ~erred' PROVE OwnOffer'
    BY DEF OwnOffer
  <2>0. /\ ~hasty /\ ~erred
        /\ \A i \in DOMAIN down' : AnswerInDown(i)' => AnswerInDown(i) /\ down'[i] = down[i]
        /\ kind = "offer" => OfferInUp(1)
    BY <1>1, <1>2 DEF AnswerInDown, OfferInUp
  <2>1. CASE ~online /\ call = 0 /\ asking = 0
    BY <1>1, <1>t, <2>0, <2>1 DEF OwnOffer
  <2>2. CASE NoOffer /\ \A p \in pending : applied[p[1]] = 0 /\ \A q \in pending : p = q
    <3>1. \A k \in DOMAIN up' : ~OfferInUp(k)'
      BY <1>1, <1>3, <2>2 DEF NoOffer
    <3>2. kind # "offer"
      BY <1>1, <2>0, <2>2 DEF NoOffer
    <3>3. asked' = {} /\ answered' = <<>>
      BY <1>1, <2>2, <3>2 DEF NoOffer
    <3>4. \A i \in DOMAIN down' : ~AnswerInDown(i)'
      BY <2>0, <2>2 DEF NoOffer, AnswerInDown
    <3>5. NoOffer'
      BY <3>1, <3>3, <3>4 DEF NoOffer
    <3> QED
      BY <1>1, <1>t, <2>0, <2>2, <3>5 DEF OwnOffer
  <2>3. CASE call # 0 /\ applied[call] = 0 /\ pending = {} /\ OneOffer
    <3>1. CASE asked' = asked
      <4>1. OneOffer'
        <5>1. ASSUME NEW k \in DOMAIN up', NEW l \in DOMAIN up', k + 1 = l + 1 PROVE k = l
          BY <1>1, <5>1
        <5>2. /\ answered' = answered /\ call' = call /\ asked' = asked
              /\ \A i \in DOMAIN down' : AnswerInDown(i)' => i \in DOMAIN down /\ AnswerInDown(i) /\ down'[i] = down[i]
          BY <1>1, <2>0, <3>1 DEF AnswerInDown
        <5>3. \A k \in DOMAIN up' : OfferInUp(k)' =>
                 k + 1 \in DOMAIN up /\ OfferInUp(k + 1) /\ up'[k] = up[k + 1]
          BY <1>1, <1>3
        <5>4. CASE /\ \A k \in DOMAIN up : OfferInUp(k) => up[k][2] = call
                   /\ \A k, l \in DOMAIN up : OfferInUp(k) /\ OfferInUp(l) => k = l
                   /\ asked = {} /\ answered = <<>> /\ \A i \in DOMAIN down : ~AnswerInDown(i)
          <6>1. \A k \in DOMAIN up' : OfferInUp(k)' => up'[k][2] = call
            BY <5>3, <5>4
          <6>2. ASSUME NEW k \in DOMAIN up', NEW l \in DOMAIN up', OfferInUp(k)', OfferInUp(l)'
                PROVE  k = l
            BY <5>1, <5>3, <5>4, <6>2
          <6>3. \A i \in DOMAIN down' : ~AnswerInDown(i)'
            BY <5>2, <5>4
          <6> QED
            BY <5>2, <5>4, <6>1, <6>2, <6>3 DEF OneOffer
        <5>5. CASE \A k \in DOMAIN up : ~OfferInUp(k)
          <6>1. \A k \in DOMAIN up' : ~OfferInUp(k)'
            BY <5>3, <5>5
          <6>2. \/ asked = {call} /\ answered = <<>> /\ \A i \in DOMAIN down : ~AnswerInDown(i)
                \/ asked = {} /\ answered = <<call>> /\ \A i \in DOMAIN down : ~AnswerInDown(i)
                \/ /\ asked = {} /\ answered = <<>>
                   /\ \A i \in DOMAIN down : AnswerInDown(i) => down[i][2] = call
                   /\ \A i, j \in DOMAIN down : AnswerInDown(i) /\ AnswerInDown(j) => i = j
            BY <2>3, <5>5 DEF OneOffer
          <6>3. \/ asked' = {call} /\ answered' = <<>> /\ \A i \in DOMAIN down' : ~AnswerInDown(i)'
                \/ asked' = {} /\ answered' = <<call>> /\ \A i \in DOMAIN down' : ~AnswerInDown(i)'
                \/ /\ asked' = {} /\ answered' = <<>>
                   /\ \A i \in DOMAIN down' : AnswerInDown(i)' => down'[i][2] = call
                   /\ \A i, j \in DOMAIN down' : AnswerInDown(i)' /\ AnswerInDown(j)' => i = j
            BY <5>2, <6>2
          <6> QED
            BY <5>2, <6>1, <6>3 DEF OneOffer
        <5> QED
          BY <2>3, <5>4, <5>5 DEF OneOffer
      <4> QED
        BY <1>1, <1>t, <2>0, <2>3, <4>1 DEF OwnOffer
    <3>2. CASE asked' # asked
      <4>1. kind = "offer" /\ asked' = asked \cup {up[1][2]}
        BY <3>2
      <4>2. /\ \A k \in DOMAIN up : OfferInUp(k) => up[k][2] = call
            /\ \A k, l \in DOMAIN up : OfferInUp(k) /\ OfferInUp(l) => k = l
            /\ asked = {} /\ answered = <<>> /\ \A i \in DOMAIN down : ~AnswerInDown(i)
        BY <1>1, <2>0, <2>3, <4>1 DEF OneOffer
      <4>3. asked' = {call}
        BY <1>1, <2>0, <4>1, <4>2
      <4>4. \A k \in DOMAIN up' : ~OfferInUp(k)'
        <5>1. \A k \in DOMAIN up' : k + 1 \in DOMAIN up /\ k + 1 # 1
          BY <1>1
        <5> QED
          BY <1>1, <1>3, <2>0, <4>1, <4>2, <5>1
      <4>5. OneOffer'
        <5>1. \A i \in DOMAIN down' : ~AnswerInDown(i)'
          BY <2>0, <4>2 DEF AnswerInDown
        <5>2. asked' = {call'} /\ answered' = <<>>
          BY <1>1, <4>2, <4>3
        <5> QED
          BY <4>4, <5>1, <5>2 DEF OneOffer
      <4> QED
        BY <1>1, <1>t, <2>0, <2>3, <4>5 DEF OwnOffer
    <3> QED
      BY <3>1, <3>2
  <2> QED
    BY <1>t, <2>0, <2>1, <2>2, <2>3 DEF OwnOffer
<1> QED
  BY <1>4, <1>5, <1>6, <1>7, <1>8, <1>9, <1>10 DEF BothSides
LEMMA FrameSteps ==
  ASSUME CallInv, ServerJoin \/ ServerOffer \/ ServerLeave
  PROVE  BothSides'
<1>t. CallTypes /\ OffersOnce /\ OffersCounted
  BY DEF CallInv, BothSides
<1>o. /\ Me \in Conns /\ step \in [Conns -> {"closed", "idle", "read", "recipients", "push"}]
      /\ negotiating \in [Conns -> Nat]
  BY OwnConnection
<1>c. IsFiniteSet(asked) /\ negotiating[Me] = Cardinality(asked)
  BY <1>t DEF OffersCounted
<1>1. CASE ServerJoin
  <2>1. Read("join") /\ asked' = asked
    BY <1>1 DEF ServerJoin
  <2>2. step[Me] = "idle"
    BY <2>1, Taken
  <2>3. CASE VoiceJoin(Me) /\ UNCHANGED down
    <3>1. /\ inVoice' = inVoice \cup {Me} /\ step' = [step EXCEPT ![Me] = "read"]
          /\ UNCHANGED <<alive, attached, negotiating, ready>>
      BY <2>3 DEF VoiceJoin, Goto, offerVars
    <3>2. step'[Me] = "read"
      BY <1>o, <3>1
    <3> QED
      BY <1>c, <2>1, <2>3, <3>1, <3>2, AfterAll
  <2>4. CASE Reply("error", 0) /\ UNCHANGED vars
    <3>1. UNCHANGED <<step, alive, inVoice, attached, negotiating, ready>>
      BY <2>4 DEF vars, sessionVars, offerVars
    <3> QED
      BY <1>c, <2>1, <2>2, <2>4, <3>1, AfterAll
  <2> QED
    BY <1>1, <2>3, <2>4 DEF ServerJoin
<1>2. CASE ServerOffer
  <2>1. Read("offer")
    BY <1>2 DEF ServerOffer
  <2>2. step[Me] = "idle" /\ Head(up) = up[1] /\ 1 \in DOMAIN up /\ up[1][1] = "offer" /\ up[1] \in UpFrame(begun)
    BY <2>1, Taken
  <2>3. CASE Me \in inVoice
    <3>1. /\ VoiceOffer(Me) /\ asked' = asked \cup {up[1][2]} /\ UNCHANGED down
      BY <1>2, <2>2, <2>3 DEF ServerOffer
    <3>2. /\ negotiating' = [negotiating EXCEPT ![Me] = @ + 1]
          /\ UNCHANGED <<alive, inVoice, attached, ready, step>>
      BY <3>1 DEF VoiceOffer, sessionVars
    <3>3. negotiating'[Me] = negotiating[Me] + 1
      BY <1>o, <3>2
    <3>4. PICK c \in 1 .. begun : up[1] = <<"offer", c>>
      BY <2>2 DEF UpFrame
    <3>5. c \notin asked /\ OfferAt(1, c) /\ asked' = asked \cup {c}
      <4>1. OfferAt(1, c) /\ up[1][2] = c
        BY <3>4 DEF OfferAt
      <4>2. c \notin asked
        BY <1>t, <2>2, <4>1 DEF OffersOnce
      <4> QED
        BY <3>1, <4>1, <4>2
    <3>6. IsFiniteSet(asked') /\ Cardinality(asked') = Cardinality(asked) + 1
      BY <1>c, <3>5, FS_AddElement
    <3>7. \A d \in asked' : d \in asked \/ OfferAt(1, d)
      BY <3>5
    <3> QED
      BY <1>c, <2>1, <2>2, <3>1, <3>2, <3>3, <3>6, <3>7, AfterAll
  <2>4. CASE Me \notin inVoice
    <3>1. Reply("error", 0) /\ UNCHANGED vars /\ asked' = asked
      BY <1>2, <2>4 DEF ServerOffer
    <3>2. UNCHANGED <<step, alive, inVoice, attached, negotiating, ready>>
      BY <3>1 DEF vars, sessionVars, offerVars
    <3> QED
      BY <1>c, <2>1, <2>2, <3>1, <3>2, AfterAll
  <2> QED
    BY <2>3, <2>4
<1>3. CASE ServerLeave
  <2>1. Read("leave") /\ asked' = asked /\ down' = down
    BY <1>3 DEF ServerLeave
  <2>2. step[Me] = "idle"
    BY <2>1, Taken
  <2>3. CASE VoiceLeave(Me)
    <3>1. /\ inVoice' = inVoice \ {Me} /\ step' = [step EXCEPT ![Me] = "read"]
          /\ UNCHANGED <<alive, negotiating, ready>>
      BY <2>3 DEF VoiceLeave, DoVoiceLeave, Goto, offerVars
    <3>2. step'[Me] = "read"
      BY <1>o, <3>1
    <3> QED
      BY <1>c, <2>1, <3>1, <3>2, AfterAll
  <2>4. CASE Me \notin inVoice /\ UNCHANGED vars
    <3>1. UNCHANGED <<step, alive, inVoice, attached, negotiating, ready>>
      BY <2>4 DEF vars, sessionVars, offerVars
    <3> QED
      BY <1>c, <2>1, <2>2, <2>4, <3>1, AfterAll
  <2> QED
    BY <1>3, <2>3, <2>4 DEF ServerLeave
<1> QED
  BY <1>1, <1>2, <1>3

-----------------------------------------------------------------------------
(* Negotiations end, answers are sent, and the actor goes on or stops.      *)
LEMMA Quieter ==
  ASSUME CallInv, UNCHANGED <<clientVars, up>>,
         inVoice' = inVoice \/ (Me \notin inVoice' /\ inVoice' \subseteq inVoice),
         step'[Me] = "closed" => step[Me] = "closed" /\ Me \notin alive',
         alive' \subseteq alive,
         Me \in alive' => inVoice' = inVoice,
         asked' \subseteq asked, IsFiniteSet(asked'), negotiating'[Me] = Cardinality(asked'),
         answered' \in Seq(1 .. begun), ready'[Me] = Len(answered'),
         \A i \in DOMAIN answered' : answered'[i] \in asked \/ \E j \in DOMAIN answered : answered[j] = answered'[i],
         down' \in Seq(DownFrame(begun)),
         \A i \in DOMAIN down : i \in DOMAIN down' /\ down'[i] = down[i],
         \A i \in DOMAIN down' : \/ i \in DOMAIN down /\ down'[i] = down[i]
                                 \/ down'[i] = <<"error", 0>>
                                 \/ /\ down'[i][1] = "answer" /\ Me \in attached'
                                    /\ \E j \in DOMAIN answered : answered[j] = down'[i][2],
         Me \in alive' /\ Me \in attached => Me \in attached',
         NoOffer => NoOffer', OneOffer => OneOffer' \/ NoOffer'
  PROVE  BothSides'
<1>t. /\ CallTypes /\ NothingYet /\ OffersOnce /\ OffersCounted /\ LeftAtLast /\ JoinedAtLast
      /\ AnswersHeld /\ OneMic /\ OwnOffer
  BY DEF CallInv, BothSides
<1>1. UNCHANGED <<online, call, begun, live, pending, applied, asking, isMuted, silent, hasty, erred, up>>
  BY DEF clientVars, peerVars, micVars
<1>2. CallTypes'
  BY <1>1, <1>t DEF CallTypes
<1>3. NothingYet' /\ OffersCounted' /\ OneMic'
  BY <1>1, <1>t DEF NothingYet, OffersCounted, OneMic
<1>4. OffersOnce'
  BY <1>1, <1>t DEF OffersOnce, OfferAt
<1>5. LeftAtLast'
  BY <1>1, <1>t DEF LeftAtLast, Leave, Join
<1>6. JoinedAtLast'
  BY <1>1, <1>t DEF JoinedAtLast, Leave, Join
<1>7. AnswersHeld'
  <2> SUFFICES ASSUME NEW d \in 1 .. begun, online, call = d
               PROVE  LeavesFirst(d)' /\ (Me \in alive' /\ Told(d)' => Me \in attached')
    BY <1>1 DEF AnswersHeld
  <2>1. Told(d)' => Told(d) \/ (Me \in attached' /\ \E j \in DOMAIN answered : answered[j] = d)
    <3>1. ASSUME NEW i \in DOMAIN down', down'[i] = <<"answer", d>>
          PROVE  \/ i \in DOMAIN down /\ down[i] = <<"answer", d>>
                 \/ Me \in attached' /\ \E j \in DOMAIN answered : answered[j] = d
      BY <3>1
    <3> QED
      BY <1>1, <3>1 DEF Told
  <2>2. Offered(d)' => Offered(d)
    BY <2>1 DEF Offered
  <2>3. LeavesFirst(d) /\ (Me \in alive /\ Told(d) => Me \in attached)
    BY <1>t DEF AnswersHeld
  <2>4. LeavesFirst(d)'
    BY <1>1, <2>2, <2>3 DEF LeavesFirst, Leave, OfferAt
  <2> QED
    BY <2>1, <2>3, <2>4
<1>8. OwnOffer'
  <2> SUFFICES ASSUME ~hasty', ~erred' PROVE OwnOffer'
    BY DEF OwnOffer
  <2>1. ~hasty /\ ~erred
    BY <1>1
  <2>2. CASE ~online /\ call = 0 /\ asking = 0
    BY <1>1, <1>t, <2>1, <2>2 DEF OwnOffer
  <2>3. CASE ~(~online /\ call = 0 /\ asking = 0)
    <3>1. \/ /\ call # 0 /\ applied[call] = 0 /\ pending = {} /\ OneOffer
          \/ NoOffer /\ \A p \in pending : applied[p[1]] = 0 /\ \A q \in pending : p = q
      BY <1>t, <2>1, <2>3 DEF OwnOffer
    <3>0. (\A c \in Calls : applied[c] \in {0, c}) /\ \A p \in pending : p[2] \in {0, p[1]}
      BY <1>t, <2>1 DEF OwnOffer
    <3>2. CASE call # 0 /\ applied[call] = 0 /\ pending = {} /\ OneOffer
      BY <1>1, <3>0, <3>2 DEF OwnOffer
    <3>3. CASE NoOffer /\ \A p \in pending : applied[p[1]] = 0 /\ \A q \in pending : p = q
      BY <1>1, <3>0, <3>3 DEF OwnOffer
    <3> QED
      BY <3>1, <3>2, <3>3
  <2> QED
    BY <2>2, <2>3
<1> QED
  BY <1>2, <1>3, <1>4, <1>5, <1>6, <1>7, <1>8 DEF BothSides
LEMMA NegotiationSteps ==
  ASSUME CallInv, NEW c \in Calls, NegotiationFails(c) \/ NegotiationEnds(c)
  PROVE  BothSides'
<1>t. CallTypes /\ OffersCounted
  BY DEF CallInv, BothSides
<1>o. /\ Me \in Conns /\ negotiating \in [Conns -> Nat] /\ ready \in [Conns -> Nat]
  BY OwnConnection
<1>0. c \in asked /\ asked' = asked \ {c} /\ UNCHANGED <<clientVars, up>>
  BY DEF NegotiationFails, NegotiationEnds
<1>1. IsFiniteSet(asked') /\ Cardinality(asked') = Cardinality(asked) - 1
  BY <1>0, <1>t, FS_RemoveElement DEF OffersCounted
<1>d. down \in Seq(DownFrame(begun)) /\ <<"error", 0>> \in DownFrame(begun) /\ answered \in Seq(1 .. begun)
      /\ c \in 1 .. begun
  BY <1>0, <1>t DEF CallTypes, DownFrame
<1>2. CASE NegotiationFails(c)
  <2> DEFINE n == Len(down) + 1
  <2>1. /\ negotiating' = [negotiating EXCEPT ![Me] = @ - 1]
        /\ UNCHANGED <<alive, inVoice, attached, ready, step, answered>>
    BY <1>2 DEF NegotiationFails, OfferFails, sessionVars
  <2>2. negotiating'[Me] = Cardinality(asked')
    BY <1>1, <1>o, <1>t, <2>1 DEF OffersCounted
  <2>3. /\ down' \in Seq(DownFrame(begun))
        /\ \A i \in DOMAIN down : i \in DOMAIN down' /\ down'[i] = down[i]
        /\ \A i \in DOMAIN down' : (i \in DOMAIN down /\ down'[i] = down[i]) \/ down'[i] = <<"error", 0>>
    <3>1. CASE Me \in alive
      <4>1. Reply("error", 0) /\ n = Len(down) + 1
        BY <1>2, <3>1 DEF NegotiationFails
      <4> HIDE DEF n
      <4>2. /\ down' \in Seq(DownFrame(begun))
            /\ \A i \in DOMAIN down : i \in Nat /\ i < n /\ i \in DOMAIN down' /\ down'[i] = down[i]
            /\ \A i \in DOMAIN down' : i \in DOMAIN down \/ (online /\ i = n /\ down'[i] = <<"error", 0>>)
        BY <1>d, <4>1, RepliedOne
      <4> QED
        BY <4>2
    <3>2. CASE Me \notin alive
      <4>1. down' = down
        BY <1>2, <3>2 DEF NegotiationFails
      <4> QED
        BY <1>d, <4>1
    <3> QED
      BY <3>1, <3>2
  <2>4. ~NoOffer
    BY <1>0 DEF NoOffer
  <2>5. OneOffer => NoOffer'
    <3>1. ASSUME OneOffer
          PROVE  /\ \A k \in DOMAIN up : ~OfferInUp(k)
                 /\ asked' = {} /\ answered = <<>> /\ \A i \in DOMAIN down : ~AnswerInDown(i)
      BY <1>0, <3>1 DEF OneOffer
    <3>2. ASSUME OneOffer PROVE \A i \in DOMAIN down' : ~AnswerInDown(i)'
      BY <2>3, <3>1, <3>2 DEF AnswerInDown
    <3>3. up' = up
      BY <1>0
    <3> QED
      BY <2>1, <3>1, <3>2, <3>3 DEF NoOffer, OfferInUp
  <2>6. answered' \in Seq(1 .. begun) /\ ready'[Me] = Len(answered')
        /\ \A i \in DOMAIN answered' : answered'[i] \in asked \/ \E j \in DOMAIN answered : answered[j] = answered'[i]
    BY <1>d, <1>t, <2>1 DEF OffersCounted
  <2>7. step'[Me] = "closed" => step[Me] = "closed" /\ Me \notin alive'
    BY <1>t, <2>1 DEF CallInv, BothSides, NothingYet
  <2> QED
    BY <1>0, <1>1, <2>1, <2>2, <2>3, <2>4, <2>5, <2>6, <2>7, Quieter
<1>3. CASE NegotiationEnds(c)
  <2>1. /\ negotiating' = [negotiating EXCEPT ![Me] = @ - 1]
        /\ UNCHANGED <<alive, inVoice, attached, step, down>>
        /\ ready' = ready \/ ready' = [ready EXCEPT ![Me] = @ + 1]
    BY <1>3 DEF NegotiationEnds, Negotiated, sessionVars
  <2>2. negotiating'[Me] = Cardinality(asked')
    BY <1>1, <1>o, <1>t, <2>1 DEF OffersCounted
  <2>3. \/ ready'[Me] = ready[Me] /\ answered' = answered
        \/ ready'[Me] = ready[Me] + 1 /\ answered' = Append(answered, c)
    <3>1. answered' = IF ready'[Me] > ready[Me] THEN Append(answered, c) ELSE answered
      BY <1>3 DEF NegotiationEnds
    <3>2. ready[Me] \in Nat
      BY <1>o
    <3>3. CASE ready' = ready
      BY <3>1, <3>2, <3>3
    <3>4. CASE ready' = [ready EXCEPT ![Me] = @ + 1]
      <4>1. ready'[Me] = ready[Me] + 1
        BY <1>o, <3>4
      <4> QED
        BY <3>1, <3>2, <4>1
    <3> QED
      BY <2>1, <3>3, <3>4
  <2>4. ~NoOffer
    BY <1>0 DEF NoOffer
  <2>5. OneOffer => OneOffer' \/ NoOffer'
    <3> SUFFICES ASSUME OneOffer PROVE OneOffer' \/ NoOffer'
      OBVIOUS
    <3>1. /\ \A k \in DOMAIN up : ~OfferInUp(k)
          /\ asked = {call} /\ answered = <<>> /\ \A i \in DOMAIN down : ~AnswerInDown(i)
      BY <1>0 DEF OneOffer
    <3>2. up' = up /\ call' = call /\ down' = down
      BY <1>0, <2>1 DEF clientVars
    <3>3. asked' = {} /\ c = call /\ (answered' = <<>> \/ answered' = <<call>>)
      BY <1>0, <2>3, <3>1
    <3>4. /\ \A k \in DOMAIN up' : ~OfferInUp(k)'
          /\ \A i \in DOMAIN down' : ~AnswerInDown(i)'
      BY <3>1, <3>2 DEF OfferInUp, AnswerInDown
    <3>5. CASE answered' = <<>>
      BY <3>3, <3>4, <3>5 DEF NoOffer
    <3>6. CASE answered' = <<call>>
      BY <3>2, <3>3, <3>4, <3>6 DEF OneOffer
    <3> QED
      BY <3>3, <3>5, <3>6
  <2>6. answered' \in Seq(1 .. begun) /\ ready'[Me] = Len(answered')
        /\ \A i \in DOMAIN answered' : answered'[i] \in asked \/ \E j \in DOMAIN answered : answered[j] = answered'[i]
    <3>1. ready[Me] = Len(answered)
      BY <1>t DEF OffersCounted
    <3>2. CASE answered' = answered /\ ready'[Me] = ready[Me]
      BY <1>d, <3>1, <3>2
    <3>3. CASE ready'[Me] = ready[Me] + 1 /\ answered' = Append(answered, c)
      <4>1. /\ Append(answered, c) \in Seq(1 .. begun) /\ Len(answered) \in Nat
            /\ DOMAIN answered = 1 .. Len(answered) /\ DOMAIN Append(answered, c) = 1 .. Len(answered) + 1
            /\ \A k \in 1 .. Len(answered) : Append(answered, c)[k] = answered[k]
            /\ Append(answered, c)[Len(answered) + 1] = c
        BY <1>d, AppendOf
      <4>2. Len(Append(answered, c)) = Len(answered) + 1
        BY <1>d, AppendProperties
      <4>3. ASSUME NEW i \in DOMAIN answered'
            PROVE  answered'[i] \in asked \/ \E j \in DOMAIN answered : answered[j] = answered'[i]
        <5>1. i \in 1 .. Len(answered) \/ i = Len(answered) + 1
          BY <3>3, <4>1
        <5> QED
          BY <1>0, <3>3, <4>1, <5>1
      <4> QED
        BY <3>1, <3>3, <4>1, <4>2, <4>3
    <3> QED
      BY <2>3, <3>2, <3>3
  <2>7. step'[Me] = "closed" => step[Me] = "closed" /\ Me \notin alive'
    BY <1>t, <2>1 DEF CallInv, BothSides, NothingYet
  <2> QED
    BY <1>0, <1>1, <1>d, <2>1, <2>2, <2>4, <2>5, <2>6, <2>7, Quieter
<1> QED
  BY <1>2, <1>3

LEMMA ServerAnswerStep ==
  ASSUME CallInv, ServerAnswer
  PROVE  BothSides'
<1> DEFINE n == Len(down) + 1
<1>t. CallTypes /\ OffersCounted
  BY DEF CallInv, BothSides
<1>o. /\ Me \in Conns /\ ready \in [Conns -> Nat]
  BY OwnConnection
<1>1. /\ answered # <<>> /\ answered' = Tail(answered) /\ asked' = asked
      /\ UNCHANGED <<clientVars, up>>
      /\ IF Me \in inVoice THEN Reply("answer", Head(answered)) ELSE UNCHANGED down
      /\ step[Me] = "idle" /\ ready[Me] > 0 /\ ready' = [ready EXCEPT ![Me] = @ - 1]
      /\ UNCHANGED <<alive, inVoice, negotiating, step>>
      /\ Me \in inVoice => Me \in attached'
      /\ Me \in attached => Me \in attached'
  BY <1>o DEF ServerAnswer, OfferReady, Attach, TooLate, Idle
<1>2. PICK c \in 1 .. begun :
         /\ Head(answered) = c /\ 1 \in DOMAIN answered /\ answered[1] = c
         /\ answered' \in Seq(1 .. begun) /\ Len(answered') = Len(answered) - 1
         /\ \A i \in DOMAIN answered' : \E j \in DOMAIN answered : answered[j] = answered'[i]
         /\ Len(answered) = 1 => answered' = <<>>
  <2>0. answered \in Seq(1 .. begun)
    BY <1>t DEF CallTypes
  <2>1. /\ Tail(answered) \in Seq(1 .. begun) /\ Len(answered) \in Nat /\ Len(answered) > 0
        /\ Head(answered) = answered[1]
        /\ DOMAIN answered = 1 .. Len(answered) /\ DOMAIN Tail(answered) = 1 .. Len(answered) - 1
        /\ \A k \in 1 .. Len(answered) - 1 : Tail(answered)[k] = answered[k + 1]
    BY <1>1, <2>0, TailOf
  <2>2. answered[1] \in 1 .. begun
    <3>1. 1 \in 1 .. Len(answered)
      BY <2>1
    <3> HIDE DEF n
    <3> QED
      BY <2>0, <3>1, ElementOfSeq
  <2>3. Len(Tail(answered)) = Len(answered) - 1
    BY <1>1, <2>0, HeadTailProperties
  <2>4. ASSUME NEW i \in DOMAIN answered' PROVE \E j \in DOMAIN answered : answered[j] = answered'[i]
    <3>1. i + 1 \in DOMAIN answered /\ answered'[i] = answered[i + 1]
      BY <1>1, <2>1
    <3> QED
      BY <3>1
  <2>5. Len(answered) = 1 => answered' = <<>>
    BY <1>1, <2>1, <2>3, EmptySeq
  <2> QED
    BY <1>1, <2>1, <2>2, <2>3, <2>4, <2>5
<1>3. /\ down' \in Seq(DownFrame(begun))
      /\ \A i \in DOMAIN down : i \in DOMAIN down' /\ down'[i] = down[i]
      /\ \A i \in DOMAIN down' : \/ i \in DOMAIN down /\ down'[i] = down[i]
                                 \/ i = n /\ n \notin DOMAIN down /\ down'[i] = <<"answer", c>> /\ Me \in inVoice
  <2>1. down \in Seq(DownFrame(begun)) /\ <<"answer", c>> \in DownFrame(begun) /\ n = Len(down) + 1
    BY <1>2, <1>t DEF CallTypes, DownFrame
  <2> HIDE DEF n
  <2>2. CASE Me \in inVoice
    <3>1. Reply("answer", c)
      BY <1>1, <1>2, <2>2
    <3>2. /\ down' \in Seq(DownFrame(begun))
          /\ \A i \in DOMAIN down : i \in Nat /\ i < n /\ i \in DOMAIN down' /\ down'[i] = down[i]
          /\ \A i \in DOMAIN down' : i \in DOMAIN down \/ (online /\ i = n /\ down'[i] = <<"answer", c>>)
      BY <2>1, <3>1, RepliedOne
    <3>3. n \notin DOMAIN down
      BY <3>2
    <3> QED
      BY <2>2, <3>2, <3>3
  <2>3. CASE Me \notin inVoice
    <3>1. down' = down
      BY <1>1, <2>3
    <3> QED
      BY <2>1, <3>1
  <2> QED
    BY <2>2, <2>3
<1> HIDE DEF n
<1>4. ~NoOffer
  BY <1>1 DEF NoOffer
<1>5. OneOffer => OneOffer' \/ NoOffer'
  <2> SUFFICES ASSUME OneOffer PROVE OneOffer' \/ NoOffer'
    OBVIOUS
  <2>1. /\ \A k \in DOMAIN up : ~OfferInUp(k)
        /\ asked = {} /\ answered = <<call>> /\ \A i \in DOMAIN down : ~AnswerInDown(i)
    BY <1>1 DEF OneOffer
  <2>2. c = call /\ answered' = <<>> /\ asked' = {} /\ up' = up /\ call' = call
    <3>1. c = call
      BY <1>2, <2>1
    <3> QED
      BY <1>1, <2>1, <3>1 DEF clientVars
  <2>3. \A k \in DOMAIN up' : ~OfferInUp(k)'
    BY <2>1, <2>2 DEF OfferInUp
  <2>4. \A i \in DOMAIN down' : AnswerInDown(i)' => i = n /\ down'[i][2] = call
    BY <1>3, <2>1, <2>2 DEF AnswerInDown
  <2>5. \A i, j \in DOMAIN down' : AnswerInDown(i)' /\ AnswerInDown(j)' => i = j
    BY <2>4
  <2>6. \A i \in DOMAIN down' : AnswerInDown(i)' => down'[i][2] = call'
    BY <2>2, <2>4
  <2>7. OneOffer'
    BY <2>2, <2>3, <2>5, <2>6 DEF OneOffer
  <2> QED
    BY <2>7
<1>6. /\ IsFiniteSet(asked') /\ negotiating'[Me] = Cardinality(asked')
      /\ ready'[Me] = Len(answered')
  <2>1. ready'[Me] = ready[Me] - 1
    BY <1>1, <1>o
  <2> QED
    BY <1>1, <1>2, <1>t, <2>1 DEF OffersCounted
<1>7. \A i \in DOMAIN down' : \/ i \in DOMAIN down /\ down'[i] = down[i]
                              \/ /\ down'[i][1] = "answer" /\ Me \in attached'
                                 /\ \E j \in DOMAIN answered : answered[j] = down'[i][2]
  BY <1>1, <1>2, <1>3
<1>8. inVoice' = inVoice /\ alive' = alive /\ step'[Me] # "closed"
  BY <1>1
<1> QED
  BY <1>1, <1>2, <1>3, <1>4, <1>5, <1>6, <1>7, <1>8, Quieter

LEMMA EndSteps ==
  ASSUME CallInv, ActorStops \/ Background
  PROVE  BothSides'
<1>t. CallTypes /\ OffersCounted /\ NothingYet
  BY DEF CallInv, BothSides
<1>o. /\ Me \in Conns /\ ready \in [Conns -> Nat] /\ inVoice \subseteq alive
      /\ step \in [Conns -> {"closed", "idle", "read", "recipients", "push"}]
  BY OwnConnection
<1>1. /\ UNCHANGED <<clientVars, up, down, asked>>
      /\ answered' = answered \/ answered' = <<>>
  BY DEF ActorStops, Background
<1>2. IsFiniteSet(asked) /\ negotiating[Me] = Cardinality(asked) /\ ready[Me] = Len(answered)
  BY <1>t DEF OffersCounted
<1>3. /\ down \in Seq(DownFrame(begun)) /\ answered \in Seq(1 .. begun)
      /\ answered' \in Seq(1 .. begun)
      /\ \A i \in DOMAIN answered' : \E j \in DOMAIN answered : answered[j] = answered'[i]
  <2>1. down \in Seq(DownFrame(begun)) /\ answered \in Seq(1 .. begun)
    BY <1>t DEF CallTypes
  <2>2. CASE answered' = answered
    BY <2>1, <2>2
  <2>3. CASE answered' = <<>>
    <3>1. <<>> \in Seq(1 .. begun) /\ DOMAIN answered' = 1 .. 0
      BY <2>3, EmptySeq, LenProperties
    <3> QED
      BY <2>1, <2>3, <3>1
  <2> QED
    BY <1>1, <2>2, <2>3
<1>4. (NoOffer => NoOffer') /\ (OneOffer => OneOffer' \/ NoOffer')
  <2>1. /\ up' = up /\ down' = down /\ asked' = asked /\ call' = call
    BY <1>1 DEF clientVars
  <2>2. CASE answered' = answered
    <3>1. NoOffer => NoOffer'
      BY <2>1, <2>2 DEF NoOffer, OfferInUp, AnswerInDown
    <3>2. OneOffer => OneOffer'
      BY <2>1, <2>2 DEF OneOffer, OfferInUp, AnswerInDown
    <3> QED
      BY <3>1, <3>2
  <2>3. CASE answered' = <<>> /\ answered # <<>>
    <3>1. ~NoOffer
      BY <2>3 DEF NoOffer
    <3>2. OneOffer => NoOffer'
      BY <2>1, <2>3 DEF OneOffer, NoOffer, OfferInUp, AnswerInDown
    <3> QED
      BY <3>1, <3>2
  <2> QED
    BY <1>1, <2>2, <2>3
<1>5. CASE ActorStops
  <2>1. /\ step[Me] = "idle" /\ Me \in alive /\ alive' = alive \ {Me} /\ answered' = <<>>
        /\ ready' = [ready EXCEPT ![Me] = 0] /\ negotiating' = negotiating
        /\ IF Me \in inVoice THEN DoVoiceLeave(Me) ELSE UNCHANGED <<sessionVars, registry, leaving, step>>
    BY <1>5 DEF ActorStops, Stop, Idle
  <2>2. /\ Me \notin inVoice' /\ inVoice' \subseteq inVoice /\ step'[Me] # "closed"
    <3>1. CASE Me \in inVoice
      <4>1. inVoice' = inVoice \ {Me} /\ step' = [step EXCEPT ![Me] = "read"]
        BY <2>1, <3>1 DEF DoVoiceLeave, Goto
      <4>2. step'[Me] = "read"
        BY <1>o, <4>1
      <4> QED
        BY <4>1, <4>2
    <3>2. CASE Me \notin inVoice
      BY <2>1, <3>2 DEF sessionVars
    <3> QED
      BY <3>1, <3>2
  <2>3. ready'[Me] = Len(answered')
    BY <1>o, <2>1, EmptySeq
  <2> QED
    BY <1>1, <1>2, <1>3, <1>4, <2>1, <2>2, <2>3, Quieter
<1>6. CASE Background
  <2>1. /\ UNCHANGED <<alive, inVoice, attached, negotiating, ready, answered>>
        /\ step'[Me] = "closed" => step[Me] = "closed"
    <3>1. CASE Broadcast(Me)
      <4>1. PICK s \in {"idle", "push", "recipients"} : step' = [step EXCEPT ![Me] = s]
        BY <3>1 DEF Broadcast, ReadParticipants, CopyRecipients, PushOne, Goto
      <4>2. step'[Me] = s
        BY <1>o, <4>1
      <4> QED
        BY <1>6, <3>1, <4>2 DEF Background, Broadcast, ReadParticipants, CopyRecipients, PushOne,
                                sessionVars, offerVars
    <3>2. CASE \E k \in Keys : LeaveRoom(k)
      BY <1>6, <3>2 DEF Background, LeaveRoom, sessionVars, offerVars
    <3> QED
      BY <1>6, <3>1, <3>2 DEF Background
  <2>2. step'[Me] = "closed" => step[Me] = "closed" /\ Me \notin alive'
    BY <1>t, <2>1 DEF NothingYet
  <2> QED
    BY <1>1, <1>2, <1>3, <1>4, <2>1, <2>2, Quieter
<1> QED
  BY <1>5, <1>6
-----------------------------------------------------------------------------
(* The browser's module uses the server's as its specification allows.      *)
LEMMA ServerNext == CallInv /\ [CallNext]_callVars => [Next]_vars
<1> SUFFICES ASSUME CallInv, [CallNext]_callVars PROVE [Next]_vars
  OBVIOUS
<1>0. Me \in Conns
  BY OwnConnection
<1>1. CASE UNCHANGED callVars
  BY <1>1 DEF callVars, serverVars
<1>2. CASE Browser
  <2>1. Connect => Open(Me)
    BY DEF Connect
  <2>2. ~Connect => UNCHANGED serverVars
    BY <1>2 DEF Browser, Close, ClickJoin, Granted, Denied, ClickLeave, ToggleMute, OfferCreated,
                IceFails, Rejected, AnswerApplied, ReceiveAnswer, ReceiveError
  <2> QED
    BY <1>0, <2>1, <2>2 DEF Next, serverVars
<1>3. CASE Server
  <2>1. CASE ServerJoin
    BY <1>0, <2>1 DEF ServerJoin, Next
  <2>2. CASE ServerOffer
    BY <1>0, <2>2 DEF ServerOffer, Next
  <2>3. CASE ServerLeave
    BY <1>0, <2>3 DEF ServerLeave, Next
  <2>4. CASE ServerAnswer \/ ActorStops
    BY <1>0, <2>4 DEF ServerAnswer, ActorStops, Next
  <2>5. CASE Background
    BY <1>0, <2>5 DEF Background, Next
  <2>6. CASE \E c \in Calls : NegotiationFails(c) \/ NegotiationEnds(c)
    BY <1>0, <2>6 DEF NegotiationFails, NegotiationEnds, Next
  <2> QED
    BY <1>3, <2>1, <2>2, <2>3, <2>4, <2>5, <2>6 DEF Server
<1> QED
  BY <1>1, <1>2, <1>3 DEF CallNext

LEMMA InitCallInv == CallInit => CallInv
<1> SUFFICES ASSUME CallInit PROVE CallInv
  OBVIOUS
<1>1. IInv
  BY InitIInv DEF CallInit
<1>2. /\ step[Me] = "closed" /\ alive = {} /\ inVoice = {} /\ negotiating[Me] = 0 /\ ready[Me] = 0
  BY CallAssumption DEF CallInit, Init
<1>3. /\ online = FALSE /\ asking = 0 /\ call = 0 /\ begun = 0 /\ live = {} /\ pending = {}
      /\ isMuted = FALSE /\ silent = {} /\ asked = {} /\ hasty = FALSE /\ erred = FALSE
      /\ applied = [c \in Calls |-> 0]
  BY DEF CallInit
<1>4. up = <<>> /\ down = <<>> /\ answered = <<>>
  BY DEF CallInit
<1>5. /\ \A S : <<>> \in Seq(S)
      /\ DOMAIN up = {} /\ DOMAIN down = {}
  <2>1. /\ \A S : <<>> \in Seq(S) /\ Len(<<>>) = 0
    BY EmptySeq
  <2>2. up \in Seq({}) /\ down \in Seq({}) /\ Len(up) = 0 /\ Len(down) = 0
    BY <1>4, <2>1
  <2>3. DOMAIN up = 1 .. 0 /\ DOMAIN down = 1 .. 0
    BY <2>2, LenProperties
  <2> QED
    BY <2>1, <2>3
<1>6. CallTypes
  <2>1. up \in Seq(UpFrame(begun)) /\ down \in Seq(DownFrame(begun)) /\ answered \in Seq(1 .. begun)
    BY <1>4, <1>5
  <2>2. applied \in [Calls -> 0 .. begun]
    BY <1>3
  <2>3. \A c \in Calls : applied[c] # 0 => c <= begun
    BY <1>3
  <2>4. begun + asking <= MaxCalls
    BY <1>3, CallAssumption
  <2>5. call \in 0 .. begun /\ live \subseteq 1 .. begun /\ pending \subseteq live \X (0 .. begun)
    BY <1>3
  <2> QED
    BY <1>3, <2>1, <2>2, <2>3, <2>4, <2>5 DEF CallTypes
<1>7. NothingYet
  BY <1>2, <1>3, <1>4 DEF NothingYet
<1>8. OffersOnce /\ LeftAtLast /\ JoinedAtLast /\ AnswersHeld /\ OneMic
  BY <1>2, <1>3 DEF OffersOnce, LeftAtLast, JoinedAtLast, AnswersHeld, OneMic
<1>9. OffersCounted
  <2>1. IsFiniteSet({}) /\ Cardinality({}) = 0
    BY FS_EmptySet
  <2> QED
    BY <1>2, <1>3, <1>4, <2>1, EmptySeq DEF OffersCounted
<1>10. OwnOffer
  BY <1>3 DEF OwnOffer
<1> QED
  BY <1>1, <1>6, <1>7, <1>8, <1>9, <1>10 DEF CallInv, BothSides

LEMMA StandStill ==
  ASSUME CallInv, UNCHANGED callVars
  PROVE  BothSides'
<1>1. UNCHANGED <<alive, inVoice, attached, step, negotiating, ready, asked, answered>>
  BY ServerStands DEF callVars
<1>2. UNCHANGED <<online, call, begun, live, pending, applied, asking, isMuted, silent, hasty,
                  erred, up, down>>
  BY DEF callVars, clientVars, peerVars, micVars
<1>t. /\ CallTypes /\ NothingYet /\ OffersOnce /\ OffersCounted /\ LeftAtLast /\ JoinedAtLast
      /\ AnswersHeld /\ OneMic /\ OwnOffer
  BY DEF CallInv, BothSides
<1>3. CallTypes' /\ NothingYet' /\ OffersCounted' /\ OneMic'
  BY <1>1, <1>2, <1>t DEF CallTypes, NothingYet, OffersCounted, OneMic
<1>4. OffersOnce' /\ LeftAtLast' /\ JoinedAtLast'
  BY <1>1, <1>2, <1>t DEF OffersOnce, OfferAt, LeftAtLast, JoinedAtLast, Leave, Join
<1>5. AnswersHeld'
  BY <1>1, <1>2, <1>t DEF AnswersHeld, LeavesFirst, Offered, Told, Leave, OfferAt
<1>6. OwnOffer'
  BY <1>1, <1>2, <1>t DEF OwnOffer, NoOffer, OneOffer, OfferInUp, AnswerInDown
<1> QED
  BY <1>3, <1>4, <1>5, <1>6 DEF BothSides

LEMMA NextCallInv == CallInv /\ [CallNext]_callVars => CallInv'
<1> SUFFICES ASSUME CallInv, [CallNext]_callVars PROVE CallInv'
  OBVIOUS
<1>1. IInv'
  BY ServerNext, NextIInv DEF CallInv
<1> SUFFICES BothSides'
  BY <1>1 DEF CallInv
<1>2. CASE UNCHANGED callVars
  BY <1>2, StandStill
<1>3. CASE Browser
  <2>1. CASE Connect \/ ClickJoin \/ Granted \/ ToggleMute
    BY <2>1, ConnectStep, AskingStep, GrantedStep, MuteStep
  <2>2. CASE Close \/ Denied \/ ClickLeave
    BY <2>2, LeaveSteps, AskingStep
  <2>3. CASE \E c \in Calls : OfferCreated(c) \/ IceFails(c)
    BY <2>3, LeaveSteps, OfferStep
  <2>4. CASE \E p \in pending : Rejected(p) \/ AnswerApplied(p[1], p[2])
    <3>1. CASE \E p \in pending : Rejected(p)
      BY <3>1, LeaveSteps
    <3>2. CASE \E p \in pending : AnswerApplied(p[1], p[2])
      BY <3>2, AppliedStep
    <3> QED
      BY <2>4, <3>1, <3>2
  <2>5. CASE \E i \in 1 .. Decoding : ReceiveAnswer(i) \/ ReceiveError(i)
    BY <2>5, LeaveSteps, AnswerStep
  <2> QED
    BY <1>3, <2>1, <2>2, <2>3, <2>4, <2>5 DEF Browser
<1>4. CASE Server
  BY <1>4, FrameSteps, NegotiationSteps, ServerAnswerStep, EndSteps DEF Server
<1> QED
  BY <1>2, <1>3, <1>4 DEF CallNext

(* What the browser and the server know of each other stays consistent.     *)
THEOREM CallInvariance == CallSafety => []CallInv
<1>1. CallInit => CallInv
  BY InitCallInv
<1>2. CallInv /\ [CallNext]_callVars => CallInv'
  BY NextCallInv
<1> QED
  BY <1>1, <1>2, PTL DEF CallSafety

(* Every behaviour of a browser with the server is one of the server's own  *)
(* specification: what is proved of VoiceRooms holds under this client.     *)
THEOREM UsesServer == CallSafety => Spec
<1>1. CallInit => Init
  BY DEF CallInit
<1>2. CallInv /\ [CallNext]_callVars => [Next]_vars
  BY ServerNext
<1> QED
  BY <1>1, <1>2, CallInvariance, PTL DEF CallSafety, Spec

(* Under this client too, the participants listed are those in the call,    *)
(* and every participant of a pipeline has one owner (on_voice_join,        *)
(* do_voice_leave, join_room and leave_room).                               *)
THEOREM ServerPromises == CallSafety => [](ListedAreInCall /\ OwnedOnce /\ LinksMatch)
BY UsesServer, ListRight, OwnedByOne, LinksRight, PTL
-----------------------------------------------------------------------------
(* When all has settled, a browser in a call is in the call of the server,  *)
(* which holds the peer it has answered (leaveVoice in client-actions.ts,   *)
(* on_voice_join and on_voice_offer).                                       *)
THEOREM CallIsOnServer == CallSafety => []InCallOnServer
<1>1. CallInv => InCallOnServer
  <2> SUFFICES ASSUME CallInv, AllSettled, call # 0
               PROVE  Me \in inVoice /\ (applied[call] = call => Me \in attached)
    BY DEF InCallOnServer
  <2>1. /\ online /\ Me \in alive /\ up = <<>> /\ down = <<>>
    BY DEF AllSettled
  <2>2. DOMAIN up = {} /\ DOMAIN down = {}
    <3>1. up \in Seq(UpFrame(begun)) /\ down \in Seq(DownFrame(begun))
      BY DEF CallInv, BothSides, CallTypes
    <3>2. DOMAIN up = 1 .. 0 /\ DOMAIN down = 1 .. 0
      BY <2>1, <3>1, EmptySeq, LenProperties
    <3> QED
      BY <3>2
  <2>3. Me \in inVoice
    BY <2>1, <2>2 DEF CallInv, BothSides, JoinedAtLast
  <2>4. applied[call] = call => Told(call)
    BY DEF Told
  <2>5. call \in 1 .. begun
    BY DEF CallInv, BothSides, CallTypes
  <2>6. applied[call] = call => Me \in attached
    BY <2>1, <2>4, <2>5 DEF CallInv, BothSides, AnswersHeld
  <2> QED
    BY <2>3, <2>6
<1> QED
  BY <1>1, CallInvariance, PTL

(* The server keeps a session in voice that the browser has left only after *)
(* it has sent an error (VOICE_LEAVE in leaveVoice).                        *)
THEOREM NoSilentGhost == CallSafety => []GhostOnlyAfterError
<1>1. CallInv => GhostOnlyAfterError
  <2> SUFFICES ASSUME CallInv, AllSettled, call = 0, Me \in inVoice, ~erred PROVE FALSE
    BY DEF GhostOnlyAfterError, CallInv, BothSides, CallTypes
  <2>1. online /\ up = <<>>
    BY DEF AllSettled
  <2>2. DOMAIN up = {}
    <3>1. up \in Seq(UpFrame(begun))
      BY DEF CallInv, BothSides, CallTypes
    <3>2. DOMAIN up = 1 .. 0
      BY <2>1, <3>1, EmptySeq, LenProperties
    <3> QED
      BY <3>2
  <2> QED
    BY <2>1, <2>2 DEF CallInv, BothSides, LeftAtLast
<1> QED
  BY <1>1, CallInvariance, PTL

(* No microphone is open but that of the call, muted as the button shows,   *)
(* unless the user was hasty (joinVoice and setMuted).                      *)
THEOREM MicShown == CallSafety => []MicAsShown
<1>1. CallInv => MicAsShown
  BY DEF CallInv, BothSides, OneMic, MicAsShown
<1> QED
  BY <1>1, CallInvariance, PTL

(* The answer applied to a peer is that to its own offer, without errors    *)
(* and haste, though VOICE_ANSWER is matched by nothing.                    *)
THEOREM AnswerIsOwn == CallSafety => []OwnAnswer
<1>1. CallInv => OwnAnswer
  BY DEF CallInv, BothSides, OwnOffer, OwnAnswer
<1> QED
  BY <1>1, CallInvariance, PTL
=============================================================================
