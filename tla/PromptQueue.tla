------------------------------ MODULE PromptQueue ------------------------------
(***************************************************************************)
(* The table of prompts for images: the statements of db.rs, the requests  *)
(* of pages/base64.rs that run them, and the program that draws, which     *)
(* fetches pending prompts over GET /task and posts status and image.      *)
(*                                                                         *)
(* POST /task may delete one prompt and add another; adding is an INSERT   *)
(* and a DELETE of all but the newest rows, which other requests' state-   *)
(* ments may come between.  Ids are INTEGER PRIMARY KEY without            *)
(* AUTOINCREMENT: one more than the largest id there is.                   *)
(***************************************************************************)
EXTENDS Integers, FiniteSetsExt

CONSTANTS Posts,       (* POST /task requests that can be served at once      *)
          Keep,        (* the LIMIT of the trimming DELETE                    *)
          MaxPrompts   (* bound of the model: prompts stored                  *)

ASSUME PromptAssumption == Keep \in Nat \ {0} /\ MaxPrompts \in Nat \ {0}

VARIABLES prompts,    (* the rows                                             *)
          post,       (* what is left to do of a request                      *)
          drawing,    (* the row the drawing program has fetched, if any      *)
          stored,     (* history: prompts stored so far                       *)
          withdrawn,  (* history: prompts that a user or a restart removed    *)
          reissued,   (* history: ids that such a removal freed               *)
          untrimmed   (* history: rows added since the last trimming          *)

historyVars == <<stored, withdrawn, reissued, untrimmed>>
promptVars == <<prompts, post, drawing, historyVars>>

(* Prompts are numbered in the order in which they are stored; 0 is no      *)
(* image.  State 0 is pending, 1 executing, 2 success, 3 failure.           *)
Row(id, n) == [id |-> id, prompt |-> n, state |-> 0, image |-> 0]
Ids(rows) == {r.id : r \in rows}
Prompts(rows) == {r.prompt : r \in rows}
Newest(rows) == Max(Ids(rows) \cup {0})

Done == [pc |-> "done", id |-> 0, adds |-> FALSE]

(* init_db drops the table, creates it and stores one prompt.               *)
Fresh(n) == {Row(1, n)}

PromptInit == /\ prompts = Fresh(1)
              /\ post = [p \in Posts |-> Done]
              /\ drawing = {}
              /\ stored = 1 /\ withdrawn = {} /\ reissued = {} /\ untrimmed = 0

Restart == /\ stored < MaxPrompts
           /\ prompts' = Fresh(stored + 1)
           /\ post' = [p \in Posts |-> Done]
           /\ stored' = stored + 1
           /\ withdrawn' = withdrawn \cup Prompts(prompts)
           /\ reissued' = reissued \cup 1 .. Newest(prompts)
           /\ untrimmed' = 0
           /\ UNCHANGED drawing
-----------------------------------------------------------------------------
(* A form that deletes, adds, or both; its page may be an old one.          *)
PostTask(p) == /\ post[p] = Done
               /\ \E id \in 0 .. stored, adds \in BOOLEAN :
                      post' = [post EXCEPT ![p] = [pc |-> IF id # 0 THEN "delete" ELSE "insert",
                                                   id |-> id, adds |-> adds]]
               /\ post'[p].id # 0 \/ post'[p].adds
               /\ UNCHANGED <<prompts, drawing, historyVars>>

Goto(p, pc) == post' = [post EXCEPT ![p] = IF pc = "done" THEN Done ELSE [@ EXCEPT !.pc = pc]]

DeletePrompt(p) ==
    LET gone == {r \in prompts : r.id = post[p].id}
    IN  /\ post[p].pc = "delete"
        /\ prompts' = prompts \ gone
        /\ withdrawn' = withdrawn \cup Prompts(gone)
        /\ reissued' = reissued \cup Newest(prompts') + 1 .. Newest(prompts)
        /\ Goto(p, IF post[p].adds THEN "insert" ELSE "done")
        /\ UNCHANGED <<drawing, stored, untrimmed>>

NextIdFree == Min(1 .. Newest(prompts) + 1 \ Ids(prompts))
NextId == Newest(prompts) + 1

InsertPrompt(p) ==
    /\ post[p].pc = "insert" /\ stored < MaxPrompts
    /\ prompts' = prompts \cup {Row(NextId, stored + 1)}
    /\ stored' = stored + 1 /\ untrimmed' = untrimmed + 1
    /\ Goto(p, "trim")
    /\ UNCHANGED <<drawing, withdrawn, reissued>>

KeptAscending(rows) == {r \in rows : Cardinality({s \in rows : s.id < r.id}) < Keep}

(* The rows that ORDER BY id DESC LIMIT names.                              *)
Kept(rows) == {r \in rows : Cardinality({s \in rows : s.id > r.id}) < Keep}

TrimPrompts(p) ==
    /\ post[p].pc = "trim"
    /\ prompts' = Kept(prompts)
    /\ untrimmed' = 0
    /\ Goto(p, "done")
    /\ UNCHANGED <<drawing, stored, withdrawn, reissued>>

(* A statement fails: the request ends, what ran before stays.              *)
PostFails(p) == /\ post[p] # Done
                /\ Goto(p, "done")
                /\ UNCHANGED <<prompts, drawing, historyVars>>
-----------------------------------------------------------------------------
(* GET /task lists the pending prompts; the program draws one of them.      *)
FetchTask == /\ drawing = {}
             /\ \E r \in prompts : r.state = 0 /\ drawing' = {[id |-> r.id, prompt |-> r.prompt]}
             /\ UNCHANGED <<prompts, post, historyVars>>

(* POST /task/status: executing, or failed, which ends the drawing.         *)
PostStatus == \E d \in drawing, s \in {1, 3} :
                  /\ prompts' = {IF r.id = d.id THEN [r EXCEPT !.state = s] ELSE r : r \in prompts}
                  /\ drawing' = IF s = 3 THEN {} ELSE drawing
                  /\ UNCHANGED <<post, historyVars>>

(* POST /upload_image.                                                      *)
UploadImage == \E d \in drawing :
                   /\ prompts' = {IF r.id = d.id THEN [r EXCEPT !.state = 2, !.image = d.prompt] ELSE r
                                   : r \in prompts}
                   /\ drawing' = {}
                   /\ UNCHANGED <<post, historyVars>>

PromptNext == \/ \E p \in Posts : \/ PostTask(p) \/ DeletePrompt(p) \/ InsertPrompt(p)
                                  \/ TrimPrompts(p) \/ PostFails(p)
              \/ FetchTask \/ PostStatus \/ UploadImage \/ Restart

PromptSpec == PromptInit /\ [][PromptNext]_promptVars
-----------------------------------------------------------------------------
(* However the INSERTs and DELETEs of requests interleave, the table is      *)
(* larger than its limit by no more than what was added since the last       *)
(* trimming, and trimming takes the oldest only: a prompt that nobody        *)
(* deleted stays until Keep more were stored.                               *)
PromptsKept == /\ Cardinality(prompts) <= Keep + untrimmed
               /\ \A n \in 1 .. stored \ (Prompts(prompts) \cup withdrawn) : stored - n >= Keep

(* A prompt shows the image that was drawn for it, unless its id was given   *)
(* out before and freed by a deletion or a restart.                         *)
ImageOfItsPrompt == \A r \in prompts : r.image \in {0, r.prompt} \/ r.id \in reissued

(* As one would expect it of an id; refuted, because ids are given out again *)
(* while an image is being drawn (insert_data_promt matches the id only).   *)
ImageAlwaysItsPrompt == \A r \in prompts : r.image \in {0, r.prompt}
============================================================================
