------------------------------ MODULE ChatRoom ------------------------------
(***************************************************************************)
(* Chat rooms from the handlers of the WebSocket actors                    *)
(* (chat/messaging_actor.rs) over the database to the message lists in the *)
(* browsers (assets/js/chat/messages).                                     *)
(*                                                                         *)
(* on_join, on_message and on_delete check what they can at once and spawn *)
(* a task for the rest.  The tasks of all connections run on the server's  *)
(* worker threads: they interleave with each other between any two SQL     *)
(* statements and between any two pushes.  A push to an actor goes to its  *)
(* mailbox, a queue.  The client decodes a frame when the promise of its   *)
(* Blob.arrayBuffer() resolves, which may be after a later frame's.        *)
(*                                                                         *)
(* Who receives a broadcast is what RoomRegistry shows of it               *)
(* (RecipientsExact): the admitted connections of the room that are open.  *)
(***************************************************************************)
EXTENDS ChatStore, Sequences, SequencesExt

CONSTANTS Conns,         (* WebSocket connections                             *)
          Payers,        (* the wallets that paid for access                  *)
          HistoryLimit,  (* HISTORY_LIMIT                                     *)
          Decoding,      (* how many frames of a client are decoded at a time *)
          MaxRequests    (* bound of the model: requests in a behaviour       *)

ASSUME RoomAssumption == {HistoryLimit, Decoding, MaxRequests} \subseteq Nat

VARIABLES room,      (* the room a connection was opened for                  *)
          wallet,    (* the wallet its sender_id names                        *)
          admitted,  (* those the registry takes when they open               *)
          fresh,     (* the connections that have not been opened yet         *)
          open,      (* the connections whose actor is alive                  *)
          paid,      (* wallets with has_active_access                        *)
          named,     (* connections whose session has a nickname              *)
          tasks,     (* the spawned tasks, in the order of the requests       *)
          mailbox,   (* the frames pushed to a connection and not yet shown   *)
          list,      (* the ids in the message list of a client, top to bottom *)
          raced      (* history: connections that were sent a broadcast        *)
                     (* between the read of a history and its push             *)

connVars == <<room, wallet, admitted, fresh>>
clientVars == <<mailbox, list, raced>>
vars == <<storeVars, connVars, open, paid, named, tasks, clientVars>>

(* A frame of the server and the request it answers, 0 for none.            *)
Frame(type, ids, req) == [type |-> type, ids |-> ids, req |-> req]

(* Program counters of the tasks, named after what they do next.            *)
JoinPc == {"create", "checkRooms", "evictRoom", "readHistory", "pushJoined", "pushHistory"}
MessagePc == {"lookup", "insert", "select", "checkBytes", "evictMessage"}
Pc == JoinPc \cup MessagePc \cup {"delete", "snapshot", "send", "refuse", "done"}

TypeOK == /\ StoreTypeOK
          /\ room \in [Conns -> Rooms]
          /\ wallet \in [Conns -> Wallets]
          /\ admitted \subseteq Conns
          /\ open \subseteq Conns /\ fresh \subseteq Conns \ open
          /\ paid \subseteq Payers
          /\ named \subseteq Conns
          /\ Len(tasks) <= MaxRequests
          /\ \A t \in DOMAIN tasks : tasks[t].pc \in Pc /\ tasks[t].todo \subseteq admitted
          /\ \A c \in Conns : Range(list[c]) \subseteq 1 .. nextMsg - 1

Init == /\ StoreInit
        /\ room \in [Conns -> Rooms]
        /\ wallet \in [Conns -> Wallets]
        /\ admitted \in SUBSET Conns
        /\ fresh = Conns
        /\ open = {}
        /\ paid = Payers
        /\ named = {}
        /\ tasks = <<>>
        /\ mailbox = [c \in Conns |-> <<>>]
        /\ list = [c \in Conns |-> <<>>]
        /\ raced = {}
-----------------------------------------------------------------------------
(* Mutants: connections that were refused, connections of every room.       *)
RecipientsRefused(r) == {c \in open : room[c] = r}
RecipientsAnywhere(r) == admitted \cap open

(* connected_recipients.                                                    *)
Recipients(r) == {c \in admitted \cap open : room[c] = r}

(* do_send: what is sent to an actor that is gone is dropped.               *)
Push(c, frame) == mailbox' = IF c \in open THEN [mailbox EXCEPT ![c] = Append(@, frame)]
                                           ELSE mailbox

(* The last HistoryLimit messages of a room, oldest first.                  *)
Recent(r) ==
    LET ids == {m.id : m \in MessagesOf(r)}
        cut == {i \in ids : Cardinality({j \in ids : j >= i}) <= HistoryLimit}
        n == Cardinality(cut)
    IN  CHOOSE s \in [1 .. n -> cut] : \A i, j \in 1 .. n : i < j => s[i] < s[j]

(* "reply" is what the requester was sent: nothing yet, an error, or what   *)
(* it asked for.                                                            *)
Task(c, pc, arg, size) ==
    [conn |-> c, pc |-> pc, row |-> 0, id |-> arg, size |-> size, items |-> <<>>,
     todo |-> {}, reply |-> "none"]

Spawn(task) == /\ Len(tasks) < MaxRequests
               /\ tasks' = Append(tasks, task)

(* A task ends, and what only it knew ends with it.                         *)
End(t, reply) == tasks' = [tasks EXCEPT ![t] =
                     [Task(@.conn, "done", @.id, @.size) EXCEPT !.reply = reply]]

At(t, pc) == tasks[t].pc = pc
Goto(t, pc) == tasks' = [tasks EXCEPT ![t].pc = pc]
RoomOf(t) == room[tasks[t].conn]
Posts(t) == tasks[t].size > 0
-----------------------------------------------------------------------------
(* What a handler rejects at once (no paid access, no or a taken nickname,  *)
(* the rate limit) changes nothing here but is answered with an error.      *)

(* Mutant: the check of paid access is missing.                             *)
JoinUnpaid(c) == /\ c \in open
                 /\ named' = named \cup {c}
                 /\ Spawn(Task(c, "create", 0, 0))
                 /\ UNCHANGED <<storeVars, connVars, open, paid, clientVars>>

(* started: the registry takes the connection (is_registered) or refuses it, *)
(* and the actor of one that was refused lives until its socket has closed. *)
Open(c) == /\ c \in fresh
           /\ fresh' = fresh \ {c}
           /\ open' = open \cup {c}
           /\ UNCHANGED <<storeVars, room, wallet, admitted, paid, named, tasks, clientVars>>

(* on_join: access is checked and the nickname stored before the task runs. *)
JoinAccepted(c) == /\ c \in open
                   /\ wallet[c] \in paid
                   /\ named' = named \cup {c}
                   /\ Spawn(Task(c, "create", 0, 0))
                   /\ UNCHANGED <<storeVars, connVars, open, paid, clientVars>>

(* on_message of a session with a nickname.                                 *)
MessageAccepted(c) == /\ c \in open
                      /\ c \in named
                      /\ \E size \in Sizes : Spawn(Task(c, "lookup", 0, size))
                      /\ UNCHANGED <<storeVars, connVars, open, paid, named, clientVars>>

(* on_delete, of a message the client has been shown or of any other id.    *)
DeleteRequested(c) == /\ c \in open
                      /\ \E id \in 1 .. nextMsg - 1 : Spawn(Task(c, "delete", id, 0))
                      /\ UNCHANGED <<storeVars, connVars, open, paid, named, clientVars>>
-----------------------------------------------------------------------------
(* join_room_and_get_history: INSERT OR IGNORE, the storage limit, SELECT.  *)
CreateRoom(t) == /\ At(t, "create")
                 /\ InsertRoom(RoomOf(t))
                 /\ Goto(t, "checkRooms")

CheckRooms(t) == /\ At(t, "checkRooms")
                 /\ Goto(t, IF RoomsOverLimit THEN "evictRoom" ELSE "readHistory")
                 /\ UNCHANGED storeVars

EvictRoom(t) == /\ At(t, "evictRoom")
                /\ IF Rows # {} THEN DeletePoorestRoom /\ Goto(t, "checkRooms")
                                ELSE UNCHANGED storeVars /\ Goto(t, "readHistory")

ReadHistory(t) == /\ At(t, "readHistory")
                  /\ tasks' = [tasks EXCEPT ![t].pc = "pushJoined",
                                            ![t].items = Recent(RoomOf(t))]
                  /\ UNCHANGED storeVars

(* persist_message: the row of the slug, INSERT, SELECT back, the limit.    *)
Lookup(t) == /\ At(t, "lookup")
             /\ tasks' = [tasks EXCEPT ![t].row = roomRow[RoomOf(t)],
                                       ![t].pc = IF HasRow(RoomOf(t)) THEN "insert" ELSE "refuse"]
             /\ UNCHANGED storeVars

Insert(t) == /\ At(t, "insert")
             /\ IF ForeignKeyAccepts(tasks[t].row)
                  THEN /\ InsertMessage(tasks[t].row, wallet[tasks[t].conn], tasks[t].size)
                       /\ tasks' = [tasks EXCEPT ![t].pc = "select", ![t].id = nextMsg]
                  ELSE /\ Goto(t, "refuse")
                       /\ UNCHANGED storeVars

SelectBack(t) == /\ At(t, "select")
                 /\ Goto(t, IF \E m \in msgs : m.id = tasks[t].id THEN "checkBytes" ELSE "refuse")
                 /\ UNCHANGED storeVars

CheckBytes(t) == /\ At(t, "checkBytes")
                 /\ IF MessagesOverLimit THEN Goto(t, "evictMessage") ELSE Goto(t, "snapshot")
                 /\ UNCHANGED storeVars

EvictMessage(t) == /\ At(t, "evictMessage")
                   /\ DeleteOldest
                   /\ IF msgs = {} THEN Goto(t, "snapshot") ELSE Goto(t, "checkBytes")

(* delete_message: the author's own row or no row.                          *)
Delete(t) == /\ At(t, "delete")
             /\ LET id == tasks[t].id
                    author == wallet[tasks[t].conn]
                IN  /\ DeleteMessage(id, RoomOf(t), author)
                    /\ IF Deletable(id, RoomOf(t), author) # {}
                         THEN Goto(t, "snapshot")
                         ELSE Goto(t, "refuse")

(* Mutant: an error is logged and not sent.                                 *)
StatementFailsSilently(t) == /\ tasks[t].pc \in {"create", "readHistory", "delete"} \cup MessagePc
                             /\ End(t, "none")
                             /\ UNCHANGED storeVars

(* The pool has no connection, or a statement fails.                        *)
StatementFails(t) == /\ tasks[t].pc \in {"create", "checkRooms", "evictRoom", "readHistory", "delete"}
                                          \cup MessagePc
                     /\ Goto(t, "refuse")
                     /\ UNCHANGED storeVars

Database(t) == /\ \/ CreateRoom(t) \/ CheckRooms(t) \/ EvictRoom(t) \/ ReadHistory(t)
                  \/ Lookup(t) \/ Insert(t) \/ SelectBack(t) \/ CheckBytes(t) \/ EvictMessage(t)
                  \/ Delete(t)
                  \/ StatementFails(t)
               /\ UNCHANGED <<connVars, open, paid, named, clientVars>>
-----------------------------------------------------------------------------
(* Mutant: the return after the error is missing.                           *)
PushErrorGoesOn(t) == /\ At(t, "refuse")
                      /\ Push(tasks[t].conn, Frame("error", <<>>, t))
                      /\ tasks' = [tasks EXCEPT ![t].pc = "snapshot", ![t].reply = "error"]
                      /\ UNCHANGED <<storeVars, connVars, open, paid, named, list, raced>>

(* The error goes to the requester only.                                    *)
PushError(t) == /\ At(t, "refuse")
                /\ Push(tasks[t].conn, Frame("error", <<>>, t))
                /\ End(t, "error")
                /\ UNCHANGED <<storeVars, connVars, open, paid, named, list, raced>>

PushJoined(t) == /\ At(t, "pushJoined")
                 /\ Push(tasks[t].conn, Frame("joined", <<>>, t))
                 /\ Goto(t, "pushHistory")
                 /\ UNCHANGED <<storeVars, connVars, open, paid, named, list, raced>>

PushHistory(t) == /\ At(t, "pushHistory")
                  /\ Push(tasks[t].conn, Frame("history", tasks[t].items, t))
                  /\ End(t, "ok")
                  /\ UNCHANGED <<storeVars, connVars, open, paid, named, list, raced>>

HistoryUnderway(c) == \E u \in DOMAIN tasks : /\ tasks[u].conn = c
                                              /\ tasks[u].pc \in {"pushJoined", "pushHistory"}

(* Mutant: the sender is left out of its own broadcast.                     *)
SnapshotOthers(t) ==
    /\ At(t, "snapshot")
    /\ LET todo == Recipients(RoomOf(t)) \ {tasks[t].conn}
       IN  IF todo = {} THEN End(t, "none")
                        ELSE tasks' = [tasks EXCEPT ![t].pc = "send", ![t].todo = todo]
    /\ UNCHANGED <<storeVars, connVars, open, paid, named, clientVars>>

(* broadcast_to_room: the recipients are copied under the registry's lock,  *)
(* the pushes follow one by one.                                            *)
SnapshotRecipients(t) ==
    /\ At(t, "snapshot")
    /\ LET todo == Recipients(RoomOf(t))
       IN  IF todo = {} THEN End(t, "none")
                        ELSE tasks' = [tasks EXCEPT ![t].pc = "send", ![t].todo = todo]
    /\ UNCHANGED <<storeVars, connVars, open, paid, named, clientVars>>

Payload(t) == IF Posts(t) THEN Frame("message", <<tasks[t].id>>, t)
                          ELSE Frame("deleted", <<tasks[t].id>>, 0)

SendOne(t, c) ==
    LET reply == IF c = tasks[t].conn THEN "ok" ELSE tasks[t].reply
    IN  /\ At(t, "send")
        /\ c \in tasks[t].todo
        /\ Push(c, Payload(t))
        /\ raced' = IF HistoryUnderway(c) THEN raced \cup {c} ELSE raced
        /\ IF tasks[t].todo = {c}
             THEN End(t, reply)
             ELSE tasks' = [tasks EXCEPT ![t].todo = @ \ {c}, ![t].reply = reply]
        /\ UNCHANGED <<storeVars, connVars, open, paid, named, list>>
-----------------------------------------------------------------------------
(* assets/js/chat/messages/init.ts: history replaces the list, a message is *)
(* appended to it, a deletion removes the first entry with the id.          *)
RemoveFirstId(l, id) == IF id \in Range(l) THEN RemoveFirst(l, id) ELSE l

Shown(l, frame) == CASE frame.type = "history" -> frame.ids
                     [] frame.type = "message" -> l \o frame.ids
                     [] frame.type = "deleted" -> RemoveFirstId(l, frame.ids[1])
                     [] OTHER -> l

Show(c) == /\ c \in open
           /\ \E i \in DOMAIN mailbox[c] :
                  /\ i <= Decoding
                  /\ list' = [list EXCEPT ![c] = Shown(@, mailbox[c][i])]
                  /\ mailbox' = [mailbox EXCEPT ![c] = RemoveAt(@, i)]
           /\ UNCHANGED <<storeVars, connVars, open, paid, named, tasks, raced>>

(* The actor stops: its mailbox is gone, its tasks go on.                   *)
Close(c) == /\ c \in open
            /\ open' = open \ {c}
            /\ mailbox' = [mailbox EXCEPT ![c] = <<>>]
            /\ UNCHANGED <<storeVars, connVars, paid, named, tasks, list, raced>>

(* access_until of a wallet passes; its open connections are not told.      *)
AccessExpires(w) == /\ w \in paid
                    /\ paid' = paid \ {w}
                    /\ UNCHANGED <<storeVars, connVars, open, named, tasks, clientVars>>

Request(c) == JoinAccepted(c) \/ MessageAccepted(c) \/ DeleteRequested(c)

Reply(t) == \/ PushError(t) \/ PushJoined(t) \/ PushHistory(t)
            \/ SnapshotRecipients(t) \/ (\E c \in Conns : SendOne(t, c))

Next == \/ \E c \in Conns : Open(c) \/ Request(c) \/ Show(c) \/ Close(c)
        \/ \E w \in Wallets : AccessExpires(w)
        \/ \E t \in DOMAIN tasks : Database(t) \/ Reply(t)

(* Spawned tasks and message pumps keep running.                            *)
Fairness == \A t \in 1 .. MaxRequests : WF_vars(t \in DOMAIN tasks /\ (Database(t) \/ Reply(t)))

Spec == Init /\ [][Next]_vars
FairSpec == Spec /\ Fairness
-----------------------------------------------------------------------------
IdsOf(c) == Range(list[c]) \cup UNION {Range(f.ids) : f \in Range(mailbox[c])}

(* Only wallets with paid access get messages into the database: on_join    *)
(* gives the nickname on_message asks for.                                  *)
OnlyPayersPost == \A m \in msgs : m.author \in Payers

(* A client is shown, and is sent, only messages of its own room, from the  *)
(* history as well as from broadcasts, also when rooms are deleted and      *)
(* opened again in between.                                                 *)
RoomIsolation ==
    \A c \in Conns : \A id \in IdsOf(c) :
        \E t \in DOMAIN tasks : Posts(t) /\ tasks[t].id = id /\ RoomOf(t) = room[c]

(* A message its sender was refused is never broadcast, though it may stay  *)
(* in the database when a statement after the INSERT fails.                 *)
ErrorMeansNoBroadcast ==
    \A t \in DOMAIN tasks : Posts(t) /\ tasks[t].reply = "error" =>
        \A c \in Conns : \A f \in Range(mailbox[c]) : f.type = "message" => f.req # t

(* A row disappears because its author deletes it in the room it is in,     *)
(* because it is the oldest when a limit is enforced, or with its room.     *)
RemovalJustified ==
    [][\A m \in msgs \ msgs' : \E t \in DOMAIN tasks :
           \/ At(t, "delete") /\ m.author = wallet[tasks[t].conn] /\ m.room = roomRow[RoomOf(t)]
           \/ At(t, "evictMessage") /\ m \in Oldest
           \/ At(t, "evictRoom") /\ ~\E r \in Rooms : roomRow'[r] = m.room]_vars

(* The stored bodies exceed the limit by no more than the messages whose    *)
(* own insert_message has not found the store within the limit since.       *)
BoundedOvershoot ==
    LET unchecked == {t \in DOMAIN tasks : /\ Posts(t) /\ tasks[t].id # 0
                                           /\ \/ tasks[t].pc \in MessagePc \cup {"refuse"}
                                              \/ tasks[t].reply = "error"}
    IN  TotalBytes <= MaxBytes + MapThenSumSet(LAMBDA t : tasks[t].size, unchecked)

(* Once nothing is under way any more, the list of a client that joined has *)
(* every message of its room that is there, that its sender was not refused  *)
(* and that is among the last HistoryLimit ever posted there: those posted   *)
(* before the client opened its connection from the history, the others from *)
(* broadcasts; unless a broadcast overtook its history or frames were        *)
(* decoded out of order.                                                    *)
Joined(t, c) == /\ tasks[t].conn = c /\ ~Posts(t) /\ tasks[t].id = 0
                /\ tasks[t].pc = "done" /\ tasks[t].reply = "ok"
Settled(c) == /\ c \in admitted \cap open
              /\ mailbox[c] = <<>>
              /\ \A t \in DOMAIN tasks : tasks[t].pc = "done"
              /\ \E t \in DOMAIN tasks : Joined(t, c)
PostedAfter(t) == {u \in DOMAIN tasks : /\ Posts(u) /\ RoomOf(u) = RoomOf(t)
                                       /\ tasks[u].id > tasks[t].id}
Expected(t, r) == /\ Posts(t) /\ RoomOf(t) = r /\ tasks[t].reply # "error"
                  /\ \E m \in MessagesOf(r) : m.id = tasks[t].id
                  /\ Cardinality(PostedAfter(t)) < HistoryLimit
SettledListComplete ==
    \A c \in Conns \ raced : Settled(c) =>
        \A t \in DOMAIN tasks : Expected(t, room[c]) => tasks[t].id \in Range(list[c])

(* Every request of an admitted client that stays is answered.              *)
Pending(t) == t \in DOMAIN tasks /\ tasks[t].conn \in admitted \cap open
                                 /\ tasks[t].reply = "none"
RequestAnswered == \A t \in 1 .. MaxRequests : Pending(t) ~> ~Pending(t)
-----------------------------------------------------------------------------
(* CHAT_CONTRACT.md: message order is server-defined by id.                 *)
ListInIdOrder == \A c \in Conns : \A i, j \in DOMAIN list[c] :
                     i < j => list[c][i] <= list[c][j]

(* CHAT_CONTRACT.md: delivery is at most once.                              *)
ShownAtMostOnce == \A c \in Conns : IsInjective(list[c])

(* CHAT_CONTRACT.md: messages are removed when the limit is exceeded.       *)
EvictsOnlyOverLimit == [][\A t \in DOMAIN tasks : EvictMessage(t) => MessagesOverLimit]_vars

(* CHAT_CONTRACT.md: any participant of a room can delete its messages.     *)
ParticipantsDelete ==
    [][\A t \in DOMAIN tasks : Delete(t) /\ tasks[t].conn \in named
           => ~\E m \in msgs' : m.id = tasks[t].id /\ m.room = roomRow[RoomOf(t)]]_vars

(* AUTH-60: clients that did not join receive no broadcasts.                *)
OnlyJoinedReceive ==
    [][\A t \in DOMAIN tasks, c \in Conns : SendOne(t, c) /\ c \in open => c \in named]_vars
=============================================================================
