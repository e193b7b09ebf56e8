------------------------------- MODULE Uploads -------------------------------
(***************************************************************************)
(* Uploads of attachments over one chat connection: startUpload in the     *)
(* browser (assets/js/chat/attachments/handler.ts), UploadSessionState of  *)
(* the connection's actor (attachments/service.rs), the tasks that write   *)
(* finished uploads to the database (on_upload_end, attachments/db.rs).    *)
(*                                                                         *)
(* Several uploads share the connection.  The actor takes frames in order; *)
(* the tasks it spawns interleave between any two SQL statements, and so   *)
(* do the deletions of messages.  The client decodes a frame when the      *)
(* promise of its Blob.arrayBuffer() resolves, which may be after a later  *)
(* frame's.  The connection is admitted to its room, request ids are       *)
(* distinct, and a chunk is the unit of sizes.                             *)
(***************************************************************************)
EXTENDS Naturals, FiniteSetsExt, Sequences, SequencesExt

CONSTANTS Uploads,     (* calls of startUpload, which name the requests too   *)
          Messages,    (* message ids                                         *)
          MaxSize,     (* MAX_ATTACHMENT_SIZE_BYTES, in chunks                *)
          MaxPending,  (* MAX_PENDING_UPLOADS_PER_SESSION                     *)
          MaxStored,   (* MAX_ATTACHMENTS_STORAGE_BYTES, in chunks            *)
          IdSpace,     (* how many values an upload id has: 2^32              *)
          Decoding     (* how many frames are decoded at a time               *)

ASSUME UploadsAssumption == /\ {MaxSize, MaxPending} \subseteq Nat \ {0}
                            /\ MaxStored \in Nat /\ IdSpace \in Nat \ {0, 1}

(* A connection does not live to hand out every upload id.                  *)
ASSUME IdsSuffice == IsFiniteSet(Uploads) /\ Cardinality(Uploads) < IdSpace

VARIABLES size, message,  (* of the file an upload sends, and for which message *)
          existing,   (* the messages that have a row                         *)
          connected,  (* the actor runs and the socket is open                *)
          outcome,    (* what the user was told of an upload                  *)
          handlers,   (* uploads with a handler on incoming, as subscribed    *)
          reading,    (* files being read, for which upload id                *)
          up, down,   (* frames to the server and to the client               *)
          pending,    (* UploadSessionState.pending                           *)
          nextId,     (* UploadSessionState.next_id                           *)
          jobs,       (* the tasks of on_upload_end                           *)
          rows,       (* the attachments table                                *)
          nextRow,    (* its next AUTOINCREMENT id                            *)
          stored      (* history: the uploads that got a row                  *)

files == <<size, message>>
client == <<outcome, handlers, reading>>
session == <<pending, nextId>>
table == <<rows, nextRow, stored>>
vars == <<files, existing, connected, client, up, down, session, jobs, table>>

Nobody == "none"
Requests == Uploads \cup {Nobody}
Chunk == Uploads \X (1 .. MaxSize)
Codes == {"LIMIT_EXCEEDED", "NOT_FOUND", "EXPIRED", "OUT_OF_ORDER", "TOO_LARGE", "INCOMPLETE", "INTERNAL"}

TypeOK ==
    /\ size \in [Uploads -> 1 .. MaxSize] /\ message \in [Uploads -> Messages]
    /\ existing \subseteq Messages /\ connected \in BOOLEAN
    /\ outcome \in [Uploads -> {"new", "open", "done", "error"}]
    /\ handlers \in Seq(Uploads) /\ IsInjective(handlers)
    /\ reading \subseteq Uploads \X Nat
    /\ \A f \in Range(down) : f.req \in Requests /\ (f.type = "error" => f.code \in Codes)
    /\ \A p \in pending : /\ p.id \in 1 .. IdSpace - 1 /\ p.message \in Messages
                          /\ Range(p.chunks) \subseteq Chunk
    /\ \A p, q \in pending : p.id = q.id => p = q
    /\ nextId \in 1 .. IdSpace - 1
    /\ \A j \in jobs : j.pc \in {"insert", "select", "check", "evict", "announce", "fail"}
    /\ nextRow \in Nat \ {0} /\ stored \subseteq Uploads

Init == /\ size \in [Uploads -> 1 .. MaxSize] /\ message \in [Uploads -> Messages]
        /\ existing = Messages /\ connected = TRUE
        /\ outcome = [u \in Uploads |-> "new"]
        /\ handlers = <<>> /\ reading = {}
        /\ up = <<>> /\ down = <<>>
        /\ pending = {} /\ nextId = 1
        /\ jobs = {} /\ rows = {} /\ nextRow = 1 /\ stored = {}
-----------------------------------------------------------------------------
Frame(type, req, id) == [type |-> type, req |-> req, id |-> id]
Error(req, code) == [type |-> "error", req |-> req, code |-> code]

Push(frame) == down' = IF connected THEN Append(down, frame) ELSE down

(* startUpload, when the message's own broadcast has told its id.           *)
StartUpload(u) ==
    /\ connected
    /\ outcome[u] = "new"
    /\ outcome' = [outcome EXCEPT ![u] = "open"]
    /\ handlers' = Append(handlers, u)
    /\ up' = Append(up, Frame("start", u, 0))
    /\ UNCHANGED <<files, existing, connected, reading, down, session, jobs, table>>

(* Mutant: chunks are counted from one.                                     *)
FramesFromOne(u, id) == [i \in 1 .. size[u] |-> [type |-> "chunk", id |-> id, index |-> i,
                                                data |-> <<u, i>>]]
                       \o <<Frame("end", u, id)>>

(* The file is read: all its chunks and the end are sent at once, whether   *)
(* or not the upload was given up in the meantime.                          *)
FramesOf(u, id) == [i \in 1 .. size[u] |-> [type |-> "chunk", id |-> id, index |-> i - 1,
                                            data |-> <<u, i>>]]
                   \o <<Frame("end", u, id)>>

ReadFile(u, id) ==
    /\ <<u, id>> \in reading
    /\ reading' = reading \ {<<u, id>>}
    /\ up' = IF connected THEN up \o FramesOf(u, id) ELSE up
    /\ UNCHANGED <<files, existing, connected, outcome, handlers, down, session, jobs, table>>

Unsubscribed(us) == handlers' = SelectSeq(handlers, LAMBDA u : u \notin us)
Tell(us, what) == outcome' = [u \in Uploads |-> IF u \in us THEN what ELSE outcome[u]]

ReadFails(u, id) ==
    /\ <<u, id>> \in reading
    /\ reading' = reading \ {<<u, id>>}
    /\ Unsubscribed({u})
    /\ Tell({u}, "error")
    /\ UNCHANGED <<files, existing, connected, up, down, session, jobs, table>>

(* trigger walks the live array of handlers: the one after a handler that   *)
(* unsubscribes is passed over.  All of them answer to an error without a   *)
(* request id.                                                              *)
Reached == {handlers[i] : i \in {j \in DOMAIN handlers : j % 2 = 1}}

Concerned(frame) == IF frame.type = "error" /\ frame.req = Nobody
                      THEN Reached
                      ELSE {u \in Range(handlers) : u = frame.req}

(* handleEvent: a frame the server sent is given to the handlers.           *)
Deliver(i) ==
    /\ i \in DOMAIN down /\ i <= Decoding
    /\ down' = RemoveAt(down, i)
    /\ LET frame == down[i]
           us == Concerned(frame)
       IN  IF frame.type = "ready"
             THEN /\ reading' = reading \cup {<<u, frame.id>> : u \in us}
                  /\ UNCHANGED <<outcome, handlers>>
             ELSE /\ Tell(us, frame.type)
                  /\ Unsubscribed(us)
                  /\ UNCHANGED reading
    /\ UNCHANGED <<files, existing, connected, up, session, jobs, table>>
-----------------------------------------------------------------------------
Receives(type) == up # <<>> /\ Head(up).type = type /\ up' = Tail(up)

(* purge_expired, which every operation begins with.                        *)
Fresh == {p \in pending : ~p.stale}

(* Mutant: the limit is off by one.                                         *)
SessionFullLate == Cardinality(Fresh) > MaxPending

SessionFull == Cardinality(Fresh) >= MaxPending

(* Mutants: the counter does not wrap in time, or does not count.           *)
NextIdOverflows(id) == IF id = IdSpace THEN 1 ELSE id + 1
NextIdReused(id) == 1

(* wrapping_add(1).max(1).                                                  *)
NextId(id) == IF id = IdSpace - 1 THEN 1 ELSE id + 1

(* on_upload_start.                                                         *)
UploadStart ==
    /\ Receives("start")
    /\ LET u == Head(up).req
           new == [id |-> nextId, message |-> message[u], size |-> size[u],
                   chunks |-> <<>>, stale |-> FALSE]
       IN  IF SessionFull
             THEN /\ pending' = Fresh
                  /\ Push(Error(u, "LIMIT_EXCEEDED"))
                  /\ UNCHANGED nextId
             ELSE /\ pending' = {p \in Fresh : p.id # nextId} \cup {new}
                  /\ nextId' = NextId(nextId)
                  /\ Push(Frame("ready", u, nextId))
    /\ UNCHANGED <<files, existing, connected, client, jobs, table>>

(* What add_chunk and finish_upload say of an upload that is there.  The    *)
(* time to live may end right after the purge.                              *)
ChunkError(p, index) == CASE index # Len(p.chunks) -> "OUT_OF_ORDER"
                          [] Len(p.chunks) + 1 > p.size -> "TOO_LARGE"
                          [] OTHER -> "no error"

Missing(id) == ~\E p \in Fresh : p.id = id
Reject(req, code) == Push(Error(req, code)) /\ UNCHANGED jobs
Expire(req, p) == pending' = Fresh \ {p} /\ Reject(req, "EXPIRED")

(* add_chunk; its errors carry no request id.                               *)
UploadChunk ==
    /\ Receives("chunk")
    /\ LET frame == Head(up)
       IN  \/ Missing(frame.id) /\ pending' = Fresh /\ Reject(Nobody, "NOT_FOUND")
           \/ \E p \in Fresh :
                  /\ p.id = frame.id
                  /\ \/ Expire(Nobody, p)
                     \/ IF ChunkError(p, frame.index) # "no error"
                          THEN pending' = Fresh /\ Reject(Nobody, ChunkError(p, frame.index))
                          ELSE /\ pending' = (Fresh \ {p}) \cup
                                      {[p EXCEPT !.chunks = Append(@, frame.data)]}
                               /\ UNCHANGED <<down, jobs>>
    /\ UNCHANGED <<files, existing, connected, client, nextId, table>>

(* on_upload_end: a complete upload leaves the session with a task.         *)
UploadEnd ==
    /\ Receives("end")
    /\ LET frame == Head(up)
       IN  \/ Missing(frame.id) /\ pending' = Fresh /\ Reject(frame.req, "NOT_FOUND")
           \/ \E p \in Fresh :
                  /\ p.id = frame.id
                  /\ \/ Expire(frame.req, p)
                     \/ IF Len(p.chunks) # p.size
                          THEN pending' = Fresh /\ Reject(frame.req, "INCOMPLETE")
                          ELSE /\ pending' = Fresh \ {p}
                               /\ jobs' = jobs \cup {[req |-> frame.req, message |-> p.message,
                                              chunks |-> p.chunks, row |-> 0, pc |-> "insert"]}
                               /\ UNCHANGED down
    /\ UNCHANGED <<files, existing, connected, client, nextId, table>>

(* PENDING_UPLOAD_TTL passes without a chunk of an upload.                  *)
Age(p) == /\ p \in Fresh
          /\ pending' = (pending \ {p}) \cup {[p EXCEPT !.stale = TRUE]}
          /\ UNCHANGED <<files, existing, connected, client, up, down, nextId, jobs, table>>

(* The actor stops: what is pending goes, the tasks go on.  Frames for the  *)
(* client that are on the wire may still arrive.                            *)
Disconnect == /\ connected
              /\ connected' = FALSE
              /\ pending' = {}
              /\ up' = <<>>
              /\ \E n \in 0 .. Len(down) : down' = SubSeq(down, 1, n)
              /\ UNCHANGED <<files, existing, client, nextId, jobs, table>>
-----------------------------------------------------------------------------
Goto(j, pc) == jobs' = (jobs \ {j}) \cup {[j EXCEPT !.pc = pc]}
Stored == MapThenSumSet(LAMBDA r : Len(r.chunks), rows)

(* persist_upload: INSERT, under the foreign key to the message ...         *)
InsertRow(j) ==
    /\ j.pc = "insert"
    /\ IF j.message \in existing
         THEN /\ rows' = rows \cup {[id |-> nextRow, message |-> j.message, chunks |-> j.chunks]}
              /\ nextRow' = nextRow + 1
              /\ stored' = stored \cup {j.req}
              /\ jobs' = (jobs \ {j}) \cup {[j EXCEPT !.pc = "select", !.row = nextRow]}
         ELSE Goto(j, "fail") /\ UNCHANGED table

(* ... SELECT of the row ...                                                *)
SelectRow(j) ==
    /\ j.pc = "select"
    /\ Goto(j, IF \E r \in rows : r.id = j.row THEN "check" ELSE "fail")
    /\ UNCHANGED table

(* ... and enforce_attachments_storage_limit.                               *)
CheckStorage(j) ==
    /\ j.pc = "check"
    /\ Goto(j, IF Stored <= MaxStored THEN "announce" ELSE "evict")
    /\ UNCHANGED table

(* Mutant: at most one row is evicted.                                      *)
EvictOnce(j) ==
    /\ j.pc = "evict"
    /\ rows' = {r \in rows : \E o \in rows : o.id < r.id}
    /\ Goto(j, "announce")
    /\ UNCHANGED <<nextRow, stored>>

EvictRow(j) ==
    /\ j.pc = "evict"
    /\ rows' = {r \in rows : \E o \in rows : o.id < r.id}
    /\ Goto(j, IF rows = {} THEN "announce" ELSE "check")
    /\ UNCHANGED <<nextRow, stored>>

(* Mutant: the error of a statement is not looked at.                       *)
JobGoesOn(j) == /\ j.pc \in {"insert", "select", "check", "evict"}
                /\ Goto(j, "announce")
                /\ UNCHANGED table

JobFails(j) == /\ j.pc \in {"insert", "select", "check", "evict"}
               /\ Goto(j, "fail")
               /\ UNCHANGED table

Persist(j) == /\ InsertRow(j) \/ SelectRow(j) \/ CheckStorage(j) \/ EvictRow(j) \/ JobFails(j)
              /\ UNCHANGED <<files, existing, connected, client, up, down, session>>

(* Mutant: an error is logged and not sent.                                 *)
AnswerSuccessOnly(j) == /\ \/ j.pc = "announce" /\ Push(Frame("done", j.req, j.row))
                           \/ j.pc = "fail" /\ UNCHANGED down
                        /\ jobs' = jobs \ {j}
                        /\ UNCHANGED <<files, existing, connected, client, up, session, table>>

(* The broadcast of upload_done, or an error to the uploader.               *)
Answer(j) == /\ \/ j.pc = "announce" /\ Push(Frame("done", j.req, j.row))
                \/ j.pc = "fail" /\ Push(Error(j.req, "INTERNAL"))
             /\ jobs' = jobs \ {j}
             /\ UNCHANGED <<files, existing, connected, client, up, session, table>>

(* Mutant: PRAGMA foreign_keys is off.                                      *)
DeleteMessageOnly(m) == /\ m \in existing
                        /\ existing' = existing \ {m}
                        /\ UNCHANGED <<files, connected, client, up, down, session, jobs, table>>

(* A message is deleted or evicted, by ON DELETE CASCADE its attachments.   *)
DeleteMessage(m) ==
    /\ m \in existing
    /\ existing' = existing \ {m}
    /\ rows' = {r \in rows : r.message # m}
    /\ UNCHANGED <<files, connected, client, up, down, session, jobs, nextRow, stored>>

Server == UploadStart \/ UploadChunk \/ UploadEnd
Job == \E j \in jobs : Persist(j) \/ Answer(j)
Decode == \E i \in 1 .. Decoding : Deliver(i)
Reader == \E r \in reading : ReadFile(r[1], r[2]) \/ ReadFails(r[1], r[2])

Next == \/ \E u \in Uploads : StartUpload(u)
        \/ Reader \/ Decode
        \/ Server \/ Disconnect
        \/ \E p \in pending : Age(p)
        \/ Job
        \/ \E m \in Messages : DeleteMessage(m)

(* The actor, the browser and the tasks keep running.                       *)
Fairness == WF_vars(Server) /\ WF_vars(Decode) /\ WF_vars(Reader) /\ WF_vars(Job)

Spec == Init /\ [][Next]_vars
FairSpec == Spec /\ Fairness
-----------------------------------------------------------------------------
(* What is stored is a file, whole and in order, and belongs to the message *)
(* it was sent for: the chunks of uploads that share the connection never   *)
(* mix, whatever expires or is given up between them.                       *)
WholeFiles == \A r \in rows : \E u \in Uploads :
                  /\ r.chunks = [i \in 1 .. size[u] |-> <<u, i>>]
                  /\ r.message = message[u]

(* A file is stored at most once, and its message is there.                 *)
StoredOnce == \A r \in rows : /\ r.message \in existing
                              /\ \A o \in rows : o.chunks = r.chunks => o = r

(* The user is told that an upload is done only if it got a row.            *)
DoneMeansStored == \A u \in Uploads : outcome[u] = "done" => u \in stored

(* A session buffers no more than MaxPending files, of which none is longer *)
(* than it declared.                                                        *)
BufferBounded == /\ Cardinality(pending) <= MaxPending
                 /\ \A p \in pending : Len(p.chunks) <= p.size /\ p.size <= MaxSize

(* The table exceeds its limit by no more than what tasks have inserted and *)
(* not found within the limit since, or failed to.                          *)
StorageBounded ==
    LET unchecked == {u \in stored : outcome[u] # "done"}
    IN  Stored <= MaxStored + MapThenSumSet(LAMBDA u : size[u], unchecked)

(* The two ends agree on the protocol: the server never finds the frames of *)
(* this client out of order, too long or incomplete, even when it expires   *)
(* uploads under way and the client goes on sending what it gave up.        *)
ProtocolKept == \A f \in Range(down) : f.type = "error" =>
                    f.code \notin {"OUT_OF_ORDER", "TOO_LARGE", "INCOMPLETE"}

(* Every upload ends with an answer as long as the connection lives, also   *)
(* if a chunk or the end is rejected or another upload's error comes first. *)
UploadSettles == \A u \in Uploads : outcome[u] = "open" ~> (outcome[u] # "open" \/ ~connected)
-----------------------------------------------------------------------------
(* ASSETS-50: what refers to an expired upload is answered UPLOAD_EXPIRED.  *)
ExpiredAnswered ==
    [][\A p \in pending : /\ UploadChunk \/ UploadEnd
                          /\ p.stale /\ Head(up).id = p.id
           => Last(down').code = "EXPIRED"]_vars
=============================================================================
