---------------------------- MODULE RoomRegistry ----------------------------
(***************************************************************************)
(* The life of the chat WebSocket actors (pages/chat/chat_actor.rs) and    *)
(* the registry that knows them (RoomRegistry in chat/service.rs).         *)
(*                                                                         *)
(* Every actor runs on one of the server's worker threads; the registry is *)
(* a process-wide map under a lock, so each of its methods is one step and *)
(* steps of different actors interleave.  A Vec<Addr> of the map is a set  *)
(* here: an actor registers once, in started().                            *)
(***************************************************************************)
EXTENDS Naturals, FiniteSets

CONSTANTS Conns,              (* WebSocket connections, each opened once      *)
          Rooms,              (* room slugs                                   *)
          MaxConnections,     (* MAX_OPEN_CONNECTIONS                         *)
          HeartbeatInterval,  (* HEARTBEAT_INTERVAL, in seconds               *)
          ClientTimeout       (* CLIENT_TIMEOUT, in seconds                   *)

ASSUME RegistryAssumption == /\ MaxConnections \in Nat
                             /\ HeartbeatInterval \in Nat \ {0}
                             /\ ClientTimeout \in Nat
                             /\ HeartbeatInterval < ClientTimeout

VARIABLES phase,       (* where the actor of a connection is in its life      *)
          room,        (* the room a connection was opened for                *)
          registered,  (* the connections whose is_registered is true         *)
          listed,      (* the addresses in the map, each under its room       *)
          keys,        (* the rooms that have an entry in the map             *)
          ticks,       (* heartbeats since the last frame of the client       *)
          unanswered,  (* clients that were sent a ping after their last frame *)
          lost         (* clients that went silent without closing            *)

mapVars == <<listed, keys>>
clientVars == <<ticks, unanswered, lost>>
vars == <<phase, room, registered, mapVars, clientVars>>

(* "live": the actor runs.  "draining": stopped() has run its cleanup, the  *)
(* mailbox still exists.  "dead": actor and mailbox are dropped.            *)
Phase == {"idle", "live", "draining", "dead"}

TypeOK == /\ phase \in [Conns -> Phase]
          /\ room \in [Conns -> Rooms]
          /\ registered \subseteq Conns
          /\ listed \subseteq Rooms \X Conns
          /\ keys \subseteq Rooms
          /\ ticks \in [Conns -> Nat]
          /\ unanswered \subseteq Conns
          /\ lost \subseteq Conns

Init == /\ phase = [c \in Conns |-> "idle"]
        /\ room \in [Conns -> Rooms]
        /\ registered = {}
        /\ listed = {}
        /\ keys = {}
        /\ ticks = [c \in Conns |-> 0]
        /\ unanswered = {}
        /\ lost = {}
-----------------------------------------------------------------------------
(* Addr::connected: true as long as the mailbox exists, which includes the  *)
(* time the actor's own stopped() runs.                                     *)
Connected(c) == phase[c] \in {"live", "draining"}

(* Vec::retain(Addr::connected) on the entry of one room.                   *)
Retained(r) == {p \in listed : p[1] = r => Connected(p[2])}

(* The addresses connected_recipients returns for a room.                   *)
Recipients(r) == {c \in Conns : <<r, c>> \in Retained(r)}

(* Mutant: the limit is off by one.                                         *)
AtLimitLate == Cardinality(listed) > MaxConnections

(* The limit is compared with every address in the map, before any of them  *)
(* is pruned.                                                               *)
AtLimit == Cardinality(listed) >= MaxConnections

(* Mutant: the address is put where the slug belongs.                       *)
RegisterSwapped(c) == /\ ~AtLimit
                      /\ listed' = Retained(room[c]) \cup {<<c, room[c]>>}
                      /\ keys' = keys \cup {room[c]}
                      /\ registered' = registered \cup {c}

(* try_register_connection when it registers.                               *)
Register(c) == /\ ~AtLimit
               /\ listed' = Retained(room[c]) \cup {<<room[c], c>>}
               /\ keys' = keys \cup {room[c]}
               /\ registered' = registered \cup {c}

(* Mutant: the cleanup drops everybody in the room.                         *)
CleanupDropsRoom(r) == /\ listed' = {p \in listed : p[1] # r}
                       /\ keys' = keys \ {r}

CleanupRoom(r) == /\ listed' = Retained(r)
                  /\ keys' = IF \E p \in Retained(r) : p[1] = r
                               THEN keys ELSE keys \ {r}

(* started() of an admitted connection.                                     *)
Admit(c) == /\ phase[c] = "idle"
            /\ Register(c)
            /\ phase' = [phase EXCEPT ![c] = "live"]
            /\ UNCHANGED <<room, clientVars>>

(* started() of a refused one: an error and a Close frame are sent, but the *)
(* actor goes on until the client answers, leaves or times out.             *)
Refuse(c) == /\ phase[c] = "idle"
             /\ AtLimit
             /\ phase' = [phase EXCEPT ![c] = "live"]
             /\ UNCHANGED <<room, registered, mapVars, clientVars>>

(* Mutant: frames do not refresh hb.                                        *)
FrameKeepsTicks(c) == /\ phase[c] = "live"
                      /\ c \notin lost
                      /\ unanswered' = unanswered \ {c}
                      /\ UNCHANGED <<phase, room, registered, mapVars, ticks, lost>>

(* Any frame that refreshes hb: Ping, Pong or Binary.                       *)
Frame(c) == /\ phase[c] = "live"
            /\ c \notin lost
            /\ ticks' = [ticks EXCEPT ![c] = 0]
            /\ unanswered' = unanswered \ {c}
            /\ UNCHANGED <<phase, room, registered, mapVars, lost>>

(* The network goes away under the client, nobody tells the server.         *)
Vanish(c) == /\ phase[c] = "live"
             /\ c \notin lost
             /\ lost' = lost \cup {c}
             /\ UNCHANGED <<phase, room, registered, mapVars, ticks, unanswered>>

(* stopped(): the cleanup part.                                             *)
Stop(c) == /\ phase' = [phase EXCEPT ![c] = "draining"]
           /\ IF c \in registered THEN CleanupRoom(room[c])
                                  ELSE UNCHANGED mapVars
           /\ UNCHANGED <<room, registered, clientVars>>

(* A Close frame, or the end of the client's stream.                        *)
Disconnect(c) == /\ phase[c] = "live"
                 /\ c \notin lost
                 /\ Stop(c)

(* At the k-th heartbeat after the client's last frame, the frame is more   *)
(* than (k-1) and at most k intervals old, give or take the timer's delay.  *)
MayOutlive(k) == (k - 1) * HeartbeatInterval < ClientTimeout
MayExpire(k) == k * HeartbeatInterval >= ClientTimeout

(* Mutant: sending a ping refreshes hb.                                     *)
PingRefreshes(c) == /\ phase[c] = "live"
                    /\ MayOutlive(ticks[c] + 1)
                    /\ ticks' = [ticks EXCEPT ![c] = 0]
                    /\ unanswered' = unanswered \cup {c}
                    /\ UNCHANGED <<phase, room, registered, mapVars, lost>>

(* run_interval's closure when the client is not overdue: it pings.         *)
HeartbeatPing(c) == /\ phase[c] = "live"
                    /\ MayOutlive(ticks[c] + 1)
                    /\ ticks' = [ticks EXCEPT ![c] = @ + 1]
                    /\ unanswered' = unanswered \cup {c}
                    /\ UNCHANGED <<phase, room, registered, mapVars, lost>>

(* ... and when it is.                                                      *)
HeartbeatStop(c) == /\ phase[c] = "live"
                    /\ MayExpire(ticks[c] + 1)
                    /\ Stop(c)

(* The actor's future is dropped, and its mailbox with it.                  *)
DropMailbox(c) == /\ phase[c] = "draining"
                  /\ phase' = [phase EXCEPT ![c] = "dead"]
                  /\ UNCHANGED <<room, registered, mapVars, clientVars>>

(* connected_recipients on behalf of a connection that was opened once: the *)
(* spawned tasks that broadcast outlive their actor.                        *)
PruneForBroadcast(c) == /\ phase[c] # "idle"
                        /\ listed' = Retained(room[c])
                        /\ UNCHANGED <<phase, room, registered, keys, clientVars>>

Next == \E c \in Conns :
            \/ Admit(c) \/ Refuse(c)
            \/ Frame(c) \/ Vanish(c) \/ Disconnect(c)
            \/ HeartbeatPing(c) \/ HeartbeatStop(c)
            \/ DropMailbox(c)
            \/ PruneForBroadcast(c)

(* The timer of a running actor keeps firing and a stopped actor is freed.  *)
Fairness == \A c \in Conns : /\ WF_vars(HeartbeatPing(c) \/ HeartbeatStop(c))
                             /\ WF_vars(DropMailbox(c))

Spec == Init /\ [][Next]_vars
FairSpec == Spec /\ Fairness
-----------------------------------------------------------------------------
(* The connections a broadcast to a room has to reach.                      *)
Members(r) == {c \in registered : room[c] = r /\ Connected(c)}

(* A broadcast reaches exactly the admitted connections of its room whose   *)
(* mailbox exists: none is lost by a prune of another actor's, none of      *)
(* another room is there (connected_recipients and the retain calls).       *)
RecipientsExact == \A r \in Rooms : Recipients(r) = Members(r)

(* At most MaxConnections admitted connections are open at any time         *)
(* (try_register_connection).                                               *)
LimitRespected == Cardinality({c \in registered : Connected(c)}) <= MaxConnections

(* A room with a connected member has an entry in the map: cleanup_room     *)
(* never removes the entry of a room somebody is in.                        *)
NoEntryLost == \A r \in Rooms : Members(r) # {} => r \in keys

(* The heartbeat stops an actor only if its client has left at least one    *)
(* ping unanswered, however its frames and the timer interleave.            *)
OnlySilentTimedOut == [][\A c \in Conns : HeartbeatStop(c) => c \in unanswered]_vars

(* A client that vanished is found out by the heartbeat and its actor is    *)
(* dropped, whether it was admitted or refused.                             *)
LostClientReaped == \A c \in Conns : (phase[c] = "live" /\ c \in lost) ~> phase[c] = "dead"

(* The registry keeps the promise of a pool of connection slots: an address *)
(* in the map is a slot that is taken.                                      *)
Slots == INSTANCE SlotPool WITH holders <- {p[2] : p \in listed},
                                over <- {c \in Conns : phase[c] = "dead"}
ImplementsSlotPool == Slots!Spec
-----------------------------------------------------------------------------
(* What CHAT_CONTRACT.md and CHAT-30 say of the limit: a connection is      *)
(* turned away only when MaxConnections connections are open.               *)
RefusedOnlyWhenFull ==
    [][\A c \in Conns : Refuse(c) => Cardinality({d \in Conns : Connected(d)}) >= MaxConnections]_vars
=============================================================================
