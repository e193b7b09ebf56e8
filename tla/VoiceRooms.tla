------------------------------ MODULE VoiceRooms ------------------------------
(***************************************************************************)
(* Voice calls on the server (voice/voice_actor.rs, voice/mod.rs and the   *)
(* participants and links of voice/gst/mod.rs).                            *)
(*                                                                         *)
(* Three records of a call are kept: session.voice of every connection's   *)
(* actor, VOICE_REGISTRY and VOICE_GST, two process-wide maps under a lock *)
(* each.  Both maps are keyed by room and wallet, not by connection.  The  *)
(* actors, the tasks that negotiate offers and the blocking jobs that tear *)
(* a participant down interleave between any two critical sections.        *)
(*                                                                         *)
(* All connections are admitted to the chat's registry and have joined     *)
(* their room, so that they have a nickname.  The audio loops and the ICE  *)
(* candidates, which change none of these records, are left out.           *)
(***************************************************************************)
EXTENDS Naturals, FiniteSetsExt

CONSTANTS Conns,      (* WebSocket connections                                *)
          Rooms,      (* room slugs                                           *)
          Wallets,    (* sender ids, which are the peer ids too               *)
          MaxRoom,    (* MAX_VOICE_PARTICIPANTS_PER_ROOM                      *)
          MaxTotal,   (* MAX_TOTAL_VOICE_PARTICIPANTS                         *)
          MaxOffers   (* bound of the model: offers of a connection at a time *)

ASSUME VoiceAssumption == /\ MaxRoom \in Nat
                          /\ MaxTotal \in Nat
                          /\ MaxOffers \in Nat
                          /\ IsFiniteSet(Conns)

VARIABLES room, wallet,  (* of a connection, from its URL and its session     *)
          alive,         (* connections whose actor runs                      *)
          inVoice,       (* ... whose session.voice is Some                   *)
          attached,      (* ... and whose voice.peer is Some                  *)
          registry,      (* VOICE_REGISTRY: keys, a room and a wallet each    *)
          pipes,         (* VOICE_GST: the keys that have a participant       *)
          links,         (* mix-minus links: key of the source, of the dest   *)
          poisoned,      (* a thread panicked with the lock of VOICE_GST      *)
          negotiating,   (* offers of a connection under negotiation          *)
          ready,         (* VoiceOfferReady messages in its mailbox           *)
          leaving,       (* leave_room jobs of a key not yet run              *)
          step,          (* what the handler an actor is in does next         *)
          participants,  (* ... the list it read                              *)
          todo,          (* ... and the recipients it has yet to push it to   *)
          view           (* the last ServerVoiceState of a client, if any     *)

connVars == <<room, wallet>>
sessionVars == <<inVoice, attached>>
gstVars == <<pipes, links, poisoned>>
offerVars == <<negotiating, ready>>
castVars == <<participants, todo, view>>
vars == <<connVars, alive, sessionVars, registry, gstVars, offerVars, leaving, step, castVars>>

Keys == Rooms \X Wallets
KeyOf(c) == <<room[c], wallet[c]>>
Listed(r) == {w \in Wallets : <<r, w>> \in registry}

TypeOK == /\ room \in [Conns -> Rooms]
          /\ wallet \in [Conns -> Wallets]
          /\ alive \subseteq Conns
          /\ attached \subseteq inVoice /\ inVoice \subseteq alive
          /\ registry \subseteq Keys
          /\ pipes \subseteq Keys
          /\ links \subseteq pipes \X pipes
          /\ poisoned \in BOOLEAN
          /\ negotiating \in [Conns -> Nat]
          /\ ready \in [Conns -> Nat]
          /\ leaving \in [Keys -> Nat]
          /\ step \in [Conns -> {"closed", "idle", "read", "recipients", "push"}]
          /\ participants \in [Conns -> SUBSET Wallets]
          /\ todo \in [Conns -> SUBSET Conns]
          /\ view \in [Conns -> SUBSET SUBSET Wallets]

Init == /\ room \in [Conns -> Rooms]
        /\ wallet \in [Conns -> Wallets]
        /\ alive = {}
        /\ inVoice = {} /\ attached = {}
        /\ registry = {}
        /\ pipes = {} /\ links = {} /\ poisoned = FALSE
        /\ negotiating = [c \in Conns |-> 0]
        /\ ready = [c \in Conns |-> 0]
        /\ leaving = [k \in Keys |-> 0]
        /\ step = [c \in Conns |-> "closed"]
        /\ participants = [c \in Conns |-> {}]
        /\ todo = [c \in Conns |-> {}]
        /\ view = [c \in Conns |-> {}]
-----------------------------------------------------------------------------
(* A running actor that is not inside a handler takes the next message.     *)
Idle(c) == c \in alive /\ step[c] = "idle"
Goto(c, s) == step' = [step EXCEPT ![c] = s]

Open(c) == /\ step[c] = "closed"
           /\ alive' = alive \cup {c}
           /\ Goto(c, "idle")
           /\ UNCHANGED <<connVars, sessionVars, registry, gstVars, offerVars, leaving, castVars>>

(* register_voice_participant; a wallet that is there already counts too.   *)
Registrable(k) == /\ Cardinality(registry) < MaxTotal
                  /\ Cardinality(Listed(k[1])) < MaxRoom

(* on_voice_join of a session that is not in voice.                         *)
VoiceJoin(c) == /\ Idle(c)
                /\ c \notin inVoice
                /\ Registrable(KeyOf(c))
                /\ registry' = registry \cup {KeyOf(c)}
                /\ inVoice' = inVoice \cup {c}
                /\ Goto(c, "read")
                /\ UNCHANGED <<connVars, alive, attached, gstVars, offerVars, leaving, castVars>>

(* Mutants: the peer handle is not taken, the entry is not removed, a job   *)
(* is queued without a peer.                                                *)
LeaveWith(c, stillAttached, entries, jobs) ==
    /\ inVoice' = inVoice \ {c}
    /\ attached' = stillAttached
    /\ registry' = entries
    /\ leaving' = [leaving EXCEPT ![KeyOf(c)] = @ + jobs]
    /\ Goto(c, "read")
LeaveKeepsPeer(c) == LeaveWith(c, attached, registry \ {KeyOf(c)}, 0)
LeaveKeepsEntry(c) == LeaveWith(c, attached \ {c}, registry, IF c \in attached THEN 1 ELSE 0)
LeaveAlwaysQueues(c) == LeaveWith(c, attached \ {c}, registry \ {KeyOf(c)}, 1)

(* do_voice_leave up to its broadcast; the removal from VOICE_GST is left   *)
(* to a job of another thread.                                              *)
DoVoiceLeave(c) ==
    /\ inVoice' = inVoice \ {c}
    /\ attached' = attached \ {c}
    /\ registry' = registry \ {KeyOf(c)}
    /\ leaving' = IF c \in attached THEN [leaving EXCEPT ![KeyOf(c)] = @ + 1] ELSE leaving
    /\ Goto(c, "read")

VoiceLeave(c) == /\ Idle(c)
                 /\ c \in inVoice
                 /\ DoVoiceLeave(c)
                 /\ UNCHANGED <<connVars, alive, gstVars, offerVars, castVars>>

(* stopped(): an implicit leave.  Messages in the mailbox are dropped.      *)
Stop(c) == /\ Idle(c)
           /\ alive' = alive \ {c}
           /\ ready' = [ready EXCEPT ![c] = 0]
           /\ IF c \in inVoice THEN DoVoiceLeave(c)
                               ELSE UNCHANGED <<sessionVars, registry, leaving, step>>
           /\ UNCHANGED <<connVars, gstVars, negotiating, castVars>>

(* get_voice_participants_in_room, then broadcast_to_room.                  *)
ReadParticipants(c) ==
    /\ step[c] = "read"
    /\ participants' = [participants EXCEPT ![c] = Listed(room[c])]
    /\ Goto(c, "recipients")
    /\ UNCHANGED <<connVars, alive, sessionVars, registry, gstVars, offerVars, leaving, todo, view>>

CopyRecipients(c) ==
    LET others == {d \in alive : room[d] = room[c]}
    IN  /\ step[c] = "recipients"
        /\ todo' = [todo EXCEPT ![c] = others]
        /\ Goto(c, IF others = {} THEN "idle" ELSE "push")
        /\ UNCHANGED <<connVars, alive, sessionVars, registry, gstVars, offerVars, leaving,
                       participants, view>>

PushOne(c, d) ==
    /\ d \in todo[c]
    /\ todo' = [todo EXCEPT ![c] = @ \ {d}]
    /\ view' = IF d \in alive THEN [view EXCEPT ![d] = {participants[c]}] ELSE view
    /\ Goto(c, IF todo[c] = {d} THEN "idle" ELSE "push")
    /\ UNCHANGED <<connVars, alive, sessionVars, registry, gstVars, offerVars, leaving,
                   participants>>
-----------------------------------------------------------------------------
(* on_voice_offer spawns negotiate_offer.                                   *)
VoiceOffer(c) == /\ Idle(c)
                 /\ c \in inVoice
                 /\ negotiating[c] + ready[c] < MaxOffers
                 /\ negotiating' = [negotiating EXCEPT ![c] = @ + 1]
                 /\ UNCHANGED <<connVars, alive, sessionVars, registry, gstVars, ready, leaving,
                                step, castVars>>

(* A step before join_room fails: the client is sent an error, no more.     *)
OfferFails(c) == /\ negotiating[c] > 0
                 /\ negotiating' = [negotiating EXCEPT ![c] = @ - 1]
                 /\ UNCHANGED <<connVars, alive, sessionVars, registry, gstVars, ready, leaving,
                                step, castVars>>

(* add_participant: links in both directions with everybody in the room; a  *)
(* link that fails is logged.                                               *)
Others(k) == {o \in pipes : o[1] = k[1]}
AddParticipant(k) == /\ pipes' = pipes \cup {k}
                     /\ \E made \in SUBSET (Others(k) \X {k} \cup {k} \X Others(k)) :
                            links' = links \cup made
                     /\ UNCHANGED poisoned

(* Mutant: links to the participant stay.                                   *)
RemoveOneWay(k) == /\ pipes' = pipes \ {k}
                   /\ links' = {l \in links : k # l[1]}
                   /\ UNCHANGED poisoned

RemoveParticipant(k) == /\ pipes' = pipes \ {k}
                        /\ links' = {l \in links : k # l[1] /\ k # l[2]}
                        /\ UNCHANGED poisoned

(* GStreamer rejects a second element of a name, so a second participant of *)
(* a key is a panic under the lock, and every later lock() panics too.      *)
JoinPanics(k) == poisoned \/ k \in pipes

(* The end of negotiate_offer: join_room and the message to the actor.      *)
Negotiated(c) ==
    /\ negotiating[c] > 0
    /\ negotiating' = [negotiating EXCEPT ![c] = @ - 1]
    /\ IF JoinPanics(KeyOf(c))
         THEN /\ poisoned' = TRUE
              /\ UNCHANGED <<pipes, links, ready>>
         ELSE /\ AddParticipant(KeyOf(c))
              /\ ready' = IF c \in alive THEN [ready EXCEPT ![c] = @ + 1] ELSE ready
    /\ UNCHANGED <<connVars, alive, sessionVars, registry, leaving, step, castVars>>

(* VoiceOfferReady of a session that is in voice: the answer is sent.       *)
Attach(c) == /\ c \in inVoice
             /\ attached' = attached \cup {c}
             /\ UNCHANGED <<registry, leaving>>

(* ... and of one that has left.                                            *)
TooLate(c) == /\ c \notin inVoice
              /\ registry' = registry \ {KeyOf(c)}
              /\ leaving' = [leaving EXCEPT ![KeyOf(c)] = @ + 1]
              /\ UNCHANGED attached

OfferReady(c) == /\ Idle(c)
                 /\ ready[c] > 0
                 /\ ready' = [ready EXCEPT ![c] = @ - 1]
                 /\ Attach(c) \/ TooLate(c)
                 /\ UNCHANGED <<connVars, alive, inVoice, gstVars, negotiating, step, castVars>>

(* leave_room on a blocking thread; the job ends by a panic if poisoned.    *)
LeaveRoom(k) == /\ leaving[k] > 0
                /\ leaving' = [leaving EXCEPT ![k] = @ - 1]
                /\ IF poisoned THEN UNCHANGED gstVars ELSE RemoveParticipant(k)
                /\ UNCHANGED <<connVars, alive, sessionVars, registry, offerVars, step, castVars>>

Broadcast(c) == \/ ReadParticipants(c)
                \/ CopyRecipients(c)
                \/ \E d \in Conns : PushOne(c, d)

Next == \/ \E c \in Conns : \/ Open(c) \/ Stop(c)
                            \/ VoiceJoin(c) \/ VoiceLeave(c) \/ VoiceOffer(c)
                            \/ OfferFails(c) \/ Negotiated(c) \/ OfferReady(c)
                            \/ Broadcast(c)
        \/ \E k \in Keys : LeaveRoom(k)

Spec == Init /\ [][Next]_vars
-----------------------------------------------------------------------------
(* What will call leave_room for a key: a session with a peer, a message on *)
(* its way to a session, a job that is not done.                            *)
Holders(k) == {c \in Conns : KeyOf(c) = k}
Connected(k) == Holders(k) \cap attached
Answering(k) == {c \in Holders(k) : ready[c] > 0}
Owners(k) == Cardinality(Connected(k)) + Cardinality(Answering(k)) + leaving[k]

(* VOICE-20: ServerVoiceState lists the current voice participants.         *)
EveryoneListed == \A c \in inVoice : KeyOf(c) \in registry

(* Nobody is listed who is not in the call, also after a disconnect in the  *)
(* middle of a negotiation (do_voice_leave from stopped()), and everybody   *)
(* who is, as long as no wallet has two connections.                        *)
ListedAreInCall == /\ registry \subseteq {KeyOf(c) : c \in inVoice}
                   /\ IsInjective(wallet) => EveryoneListed

(* Every participant of a pipeline has at most one owner, and owners only   *)
(* what exists: a session that has been answered has its mixer until it     *)
(* leaves, and no late leave_room removes the participant of a later join.  *)
OwnedOnce == \A k \in Keys : /\ Owners(k) <= IF k \in pipes THEN 1 ELSE 0
                             /\ \A c \in Answering(k) : ready[c] = 1

(* Links are between two different participants of one room, and none       *)
(* survives either of them (remove_participant).                            *)
LinksMatch == \A l \in links : /\ l[1] # l[2]
                               /\ l[1][1] = l[2][1]
                               /\ l[1] \in pipes /\ l[2] \in pipes
-----------------------------------------------------------------------------
(* VOICE-90: join, leave and reconnect cycles need no restart.  The first   *)
(* offer of a session that joined is never the one that panics.             *)
FirstOffer(c) == c \in inVoice \ attached /\ negotiating[c] + ready[c] = 1
NoRestartNeeded ==
    [][\A c \in Conns : Negotiated(c) /\ FirstOffer(c) => poisoned' = poisoned]_vars

(* voice/mod.rs: a pipeline is dropped when the last participant leaves.    *)
PipelinesDropped == ~poisoned => \A k \in pipes : Owners(k) > 0

Quiet == \A c \in Conns : step[c] \in {"closed", "idle"}

(* VOICE-70: everyone in the chat room sees who is in the call.             *)
EveryoneSees == Quiet => \A c \in alive :
                    Listed(room[c]) # {} => view[c] = {Listed(room[c])}

(* VOICE-70: all changes are visible to all participants: at least those    *)
(* who were sent a list have the current one when nothing is under way.     *)
ChangesSeen == Quiet => \A c \in alive : view[c] # {} => view[c] = {Listed(room[c])}
=============================================================================
