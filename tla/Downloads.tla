------------------------------ MODULE Downloads ------------------------------
(***************************************************************************)
(* Downloads of attachments over one chat connection: startDownload in the *)
(* browser (assets/js/chat/attachments/handler.ts) and the tasks that      *)
(* serve on_download_request (chat/attachments_actor.rs).                  *)
(*                                                                         *)
(* A task runs on the thread of its actor and pushes all frames of a file  *)
(* without a pause, so the files of one connection do not mix on the wire. *)
(* The client decodes a frame when the promise of its Blob.arrayBuffer()   *)
(* resolves, which may be after a later frame's; some browsers keep the    *)
(* order.                                                                  *)
(***************************************************************************)
EXTENDS Naturals, FiniteSets, Sequences, SequencesExt

CONSTANTS Downloads,    (* calls of startDownload, which name the requests    *)
          Attachments,  (* attachment ids                                     *)
          MaxChunks,    (* chunks of the longest file                         *)
          Decoding      (* how many frames are decoded at a time, if not one  *)

ASSUME DownloadsAssumption == MaxChunks \in Nat \ {0} /\ Decoding \in Nat \ {0}

VARIABLES want,       (* the attachment a download is for                     *)
          total,      (* how many chunks an attachment has                    *)
          inOrder,    (* the promises resolve in the order of the frames      *)
          available,  (* the attachments of the room that have a row          *)
          connected,  (* the actor runs and the socket is open                *)
          outcome,    (* what the user was told of a download                 *)
          started,    (* downloads in the order their handlers were subscribed*)
          session,    (* the DownloadActiveSession of a download, if any      *)
          requests,   (* downloads whose task is spawned and not done         *)
          inbox       (* frames of the server the client has not handled      *)

given == <<want, total, inOrder>>
client == <<outcome, started, session>>
vars == <<given, available, connected, client, requests, inbox>>

Session == [chunks : SUBSET (1 .. MaxChunks), received : Nat, endSeen : BOOLEAN]

Frame == [type : {"start", "chunk", "end", "error"}, of : Downloads, index : 0 .. MaxChunks]

(* The handlers on incoming: each unsubscribes when its download ends.      *)
Handlers == {d \in Downloads : outcome[d] = "open"}

TypeOK == /\ want \in [Downloads -> Attachments]
          /\ total \in [Attachments -> 1 .. MaxChunks]
          /\ inOrder \in BOOLEAN
          /\ available \subseteq Attachments /\ connected \in BOOLEAN
          /\ outcome \in [Downloads -> {"new", "open", "done", "error"}]
          /\ started \in Seq(Downloads) /\ IsInjective(started)
          /\ Range(started) = {d \in Downloads : outcome[d] # "new"}
          /\ DOMAIN session = Downloads /\ \A d \in Downloads : session[d] \subseteq Session
          /\ \A d \in Downloads : \A s, o \in session[d] : s = o
          /\ requests \subseteq Handlers
          /\ inbox \in Seq(Frame)

Init == /\ want \in [Downloads -> Attachments]
        /\ total \in [Attachments -> 1 .. MaxChunks]
        /\ inOrder \in BOOLEAN
        /\ available = Attachments /\ connected = TRUE
        /\ outcome = [d \in Downloads |-> "new"]
        /\ started = <<>>
        /\ session = [d \in Downloads |-> {}]
        /\ requests = {}
        /\ inbox = <<>>
-----------------------------------------------------------------------------
(* startDownload.  A list item waits for its download to end before it      *)
(* starts another, but an attachment may be in several items: history is    *)
(* rendered anew when the client joins again.                               *)
StartDownload(d) == /\ connected
                    /\ outcome[d] = "new"
                    /\ outcome' = [outcome EXCEPT ![d] = "open"]
                    /\ started' = Append(started, d)
                    /\ requests' = requests \cup {d}
                    /\ UNCHANGED <<given, available, connected, session, inbox>>

(* Of a chunk, index counts from 1, and the client knows the attachment only.*)
About(type, d) == [type |-> type, of |-> d, index |-> 0]
ChunkFrame(d, i) == [type |-> "chunk", of |-> d, index |-> i]

(* Mutant: the last chunk is left out.                                      *)
FileFramesShort(d) ==
    <<About("start", d)>>
    \o [i \in 1 .. total[want[d]] - 1 |-> ChunkFrame(d, i)]
    \o <<About("end", d)>>

(* download_start, one download_chunk per chunk, download_end.              *)
FileFrames(d) == <<About("start", d)>>
                 \o [i \in 1 .. total[want[d]] |-> ChunkFrame(d, i)]
                 \o <<About("end", d)>>

(* Mutant: the task serves its request over and over.                       *)
ServeAgain(d) == /\ d \in requests
                 /\ Len(inbox) <= MaxChunks
                 /\ inbox' = inbox \o FileFrames(d)
                 /\ UNCHANGED <<given, available, connected, client, requests>>

(* The task: the room's attachment is loaded and sent, or an error is.      *)
Serve(d) == /\ d \in requests
            /\ requests' = requests \ {d}
            /\ \E frames \in {FileFrames(d) : a \in available \cap {want[d]}}
                             \cup {<<About("error", d)>>} :
                   inbox' = IF connected THEN inbox \o frames ELSE inbox
            /\ UNCHANGED <<given, available, connected, client>>

(* The attachment is deleted with its message, or evicted.                  *)
RemoveAttachment(a) == /\ a \in available
                       /\ available' = available \ {a}
                       /\ UNCHANGED <<given, connected, client, requests, inbox>>

(* The actor stops; frames that are on the wire may still arrive.           *)
Disconnect == /\ connected
              /\ connected' = FALSE
              /\ \E n \in 0 .. Len(inbox) : inbox' = SubSeq(inbox, 1, n)
              /\ UNCHANGED <<given, available, client, requests>>
-----------------------------------------------------------------------------
(* handleEvent of a download: its session after a frame, if it has one.     *)
Started == {[chunks |-> {}, received |-> 0, endSeen |-> FALSE]}

WithChunk(s, index) == [s EXCEPT !.chunks = @ \cup {index}, !.received = @ + 1]

AfterFrame(d, frame) ==
    CASE frame.type = "start" /\ frame.of = d -> Started
      [] frame.type = "chunk" /\ want[frame.of] = want[d] ->
             {WithChunk(s, frame.index) : s \in session[d]}
      [] frame.type = "end" /\ frame.of = d -> {[s EXCEPT !.endSeen = TRUE] : s \in session[d]}
      [] OTHER -> session[d]

(* Mutant: the end is taken for the last frame (the bug ASSETS-40 reports   *)
(* as fixed).                                                               *)
CompletesAtEnd(d, frame) == /\ AfterFrame(d, frame) # session[d]
                            /\ \E s \in AfterFrame(d, frame) : s.endSeen

(* tryAssembleBlob runs when a chunk or the end was of this download.       *)
Completes(d, frame) ==
    /\ AfterFrame(d, frame) # session[d]
    /\ \E s \in AfterFrame(d, frame) : s.endSeen /\ s.received >= total[want[d]]

Refused(d, frame) == frame.type = "error" /\ frame.of = d

(* trigger walks the live array of handlers: the one after a handler that   *)
(* unsubscribes is passed over, and so cannot unsubscribe itself.  Of a run  *)
(* of handlers that would leave, every other one is reached.                *)
LeavingBefore(i, leaving) ==
    {j \in 1 .. i - 1 : /\ started[j] \in Handlers
                        /\ \A k \in j .. i - 1 : started[k] \in Handlers => started[k] \in leaving}

Reached(leaving) ==
    {started[i] : i \in {j \in DOMAIN started :
                            /\ started[j] \in Handlers
                            /\ Cardinality(LeavingBefore(j, leaving)) % 2 = 0}}

Deliver(i) ==
    /\ i \in DOMAIN inbox /\ (inOrder => i = 1)
    /\ inbox' = RemoveAt(inbox, i)
    /\ LET frame == inbox[i]
           done == {d \in Handlers : Completes(d, frame)}
           refused == {d \in Handlers : Refused(d, frame)}
           reached == Reached(done \cup refused)
       IN  /\ session' = [d \in Downloads |-> IF d \in reached THEN AfterFrame(d, frame)
                                                               ELSE session[d]]
           /\ outcome' = [d \in Downloads |-> CASE d \in reached \cap done -> "done"
                                                [] d \in reached \cap refused -> "error"
                                                [] OTHER -> outcome[d]]
    /\ UNCHANGED <<given, available, connected, started, requests>>

Next == \/ \E d \in Downloads : StartDownload(d) \/ Serve(d)
        \/ \E a \in Attachments : RemoveAttachment(a)
        \/ \E i \in 1 .. Decoding : Deliver(i)
        \/ Disconnect

Spec == Init /\ [][Next]_vars
-----------------------------------------------------------------------------
(* The chunks of a download are told from those of others, as long as no    *)
(* other of its attachment was started.                                     *)
Alone(d) == \A e \in Downloads \ {d} : want[e] = want[d] => outcome[e] = "new"

Whole(d) == \E s \in session[d] : s.chunks = 1 .. total[want[d]]

(* A file that is offered for saving is whole (handler.ts tryAssembleBlob), *)
(* in whatever order its frames are decoded; if they come in order, even    *)
(* when another download of the attachment is under way.                    *)
Intact == \A d \in Downloads : outcome[d] = "done" /\ (inOrder \/ Alone(d)) => Whole(d)

(* Once the server and the client have nothing left to do, every download   *)
(* has ended, in a file or in an error: handlers that are passed over, or   *)
(* chunks of another download, leave none of them waiting.                  *)
Ended == connected /\ requests = {} /\ inbox = <<>>
             => \A d \in Downloads : outcome[d] # "open"
EndedInOrder == inOrder => Ended

(* ASSETS-30: files come without loss of bytes, also (ASSETS-50) when one   *)
(* attachment is requested twice at the same time.                          *)
NoBytesLost == \A d \in Downloads : outcome[d] = "done" => Whole(d)
=============================================================================
