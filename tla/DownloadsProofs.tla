---------------------------- MODULE DownloadsProofs ----------------------------
(***************************************************************************)
(* Proofs about Downloads, for any number of downloads of any attachments  *)
(* that share a connection, and files of any length.                       *)
(*                                                                         *)
(* Two arguments.  Whatever order frames are decoded in, a download that is *)
(* alone with its attachment counts a chunk once, so that as many as there *)
(* are is all of them.  If frames come in order, the inbox says for each   *)
(* session how far it is, and only the download in front has a session.    *)
(***************************************************************************)
EXTENDS Downloads, SequenceTheorems, FiniteSetTheorems, TLAPS

(* Frames are distinct, and of downloads whose task has run.                *)
FramesOK == /\ IsInjective(inbox)
            /\ \A i \in DOMAIN inbox :
                   /\ inbox[i].of \notin requests
                   /\ outcome[inbox[i].of] # "new"
                   /\ inbox[i].type = "chunk" => inbox[i].index \in 1 .. total[want[inbox[i].of]]

(* ... and so are sessions, which hold chunks of the attachment.            *)
SessionsOK == \A d \in Downloads : \A s \in session[d] :
                  /\ d \notin requests
                  /\ outcome[d] # "new"
                  /\ s.chunks \subseteq 1 .. total[want[d]]

(* Without another download of the attachment chunks are counted right, and *)
(* those that are still to come are not among those that have.              *)
Counted == \A d \in Downloads : Alone(d) =>
               \A s \in session[d] :
                   /\ s.received = Cardinality(s.chunks)
                   /\ \A i \in DOMAIN inbox : inbox[i].of = d /\ inbox[i].type = "chunk"
                                                => inbox[i].index \notin s.chunks

(* The frames of a file follow one another, and then comes another file or  *)
(* an error.                                                                *)
Ends(f) == f.type \in {"end", "error"}
Follows(f, g) == /\ f.type = "start" => g = ChunkFrame(f.of, 1)
                 /\ f.type = "chunk" => g = IF f.index < total[want[f.of]]
                                              THEN ChunkFrame(f.of, f.index + 1)
                                              ELSE About("end", f.of)
                 /\ Ends(f) => g.type \in {"start", "error"}

(* What a session has after n chunks in order.                              *)
SoFar(n) == [chunks |-> 1 .. n, received |-> n, endSeen |-> FALSE]
Ready(f) == /\ f.type = "chunk" => session[f.of] = {SoFar(f.index - 1)}
            /\ f.type = "end" => session[f.of] = {SoFar(total[want[f.of]])}
InFront(e) == /\ inbox = <<>> => ~connected
              /\ inbox # <<>> => inbox[1].of = e /\ inbox[1].type \in {"chunk", "end"}

(* When frames are handled in order: none is of a download that has ended;  *)
OpenOnly == \A i \in DOMAIN inbox : inbox[i].of \in Handlers
(* they follow one another;                                                 *)
InSequence == \A i, j \in DOMAIN inbox : j = i + 1 => Follows(inbox[i], inbox[j])
(* a download has no frame after its last;                                  *)
EndsOnce == \A i, j \in DOMAIN inbox : i < j /\ inbox[i].of = inbox[j].of => ~Ends(inbox[i])
(* nothing is sent in part as long as the connection lives;                 *)
SentWhole == connected /\ inbox # <<>> => Ends(inbox[Len(inbox)])
(* the session that awaits the frame in front has what was sent before it,  *)
FrontReady == inbox # <<>> => Ready(inbox[1])
(* and is the only one in use;                                              *)
FrontOnly == \A e \in Handlers : session[e] # {} => InFront(e)
(* and a download that is not requested any more has its last frame to come.*)
EndToCome == connected => \A d \in Handlers \ requests :
                              \E i \in DOMAIN inbox : inbox[i].of = d /\ Ends(inbox[i])

Streamed == OpenOnly /\ InSequence /\ EndsOnce /\ SentWhole /\ FrontReady /\ FrontOnly /\ EndToCome

(* The inductive invariant.                                                 *)
IInv == /\ TypeOK /\ FramesOK /\ SessionsOK /\ Counted /\ Intact
        /\ inOrder => Streamed
-----------------------------------------------------------------------------
(* What is left of the inbox without a frame.                               *)
LEMMA RemovedAt ==
  ASSUME NEW S, NEW s \in Seq(S), NEW i \in 1 .. Len(s)
  PROVE  /\ RemoveAt(s, i) \in Seq(S) /\ Len(RemoveAt(s, i)) = Len(s) - 1
         /\ DOMAIN RemoveAt(s, i) = 1 .. Len(s) - 1
         /\ \A j \in 1 .. Len(s) - 1 : RemoveAt(s, i)[j] = s[IF j < i THEN j ELSE j + 1]
<1>1. Len(s) \in Nat /\ i \in Nat /\ 1 <= i /\ i <= Len(s)
  BY LenProperties
<1> DEFINE a == SubSeq(s, 1, i - 1)
           b == SubSeq(s, i + 1, Len(s))
<1>2. a \in Seq(S) /\ Len(a) = i - 1 /\ \A j \in 1 .. i - 1 : a[j] = s[j]
  BY <1>1, SubSeqProperties
<1>3. b \in Seq(S) /\ Len(b) = Len(s) - i /\ \A j \in 1 .. Len(s) - i : b[j] = s[j + i]
  BY <1>1, SubSeqProperties
<1>4. RemoveAt(s, i) = a \o b
  BY DEF RemoveAt
<1> HIDE DEF a, b
<1>5. /\ a \o b \in Seq(S) /\ Len(a \o b) = Len(s) - 1
      /\ \A j \in 1 .. Len(s) - 1 : (a \o b)[j] = IF j <= i - 1 THEN a[j] ELSE b[j - (i - 1)]
  BY <1>1, <1>2, <1>3, ConcatProperties
<1>6. ASSUME NEW j \in 1 .. Len(s) - 1 PROVE (a \o b)[j] = s[IF j < i THEN j ELSE j + 1]
  <2>1. CASE j < i
    BY <1>1, <1>2, <1>5, <2>1
  <2>2. CASE ~(j < i)
    <3>1. PICK l \in 1 .. Len(s) - i : l = j - (i - 1) /\ l + i = j + 1
      BY <1>1, <2>2
    <3>2. (a \o b)[j] = b[l]
      BY <1>1, <1>5, <2>2, <3>1
    <3>3. b[l] = s[l + i]
      BY <1>3, <3>1
    <3> QED
      BY <2>2, <3>1, <3>2, <3>3
  <2> QED
    BY <2>1, <2>2
<1> QED
  BY <1>1, <1>4, <1>5, <1>6, LenProperties

-----------------------------------------------------------------------------
(* Nothing is under way at first.                                           *)
LEMMA InitInv == Init => IInv
<1> SUFFICES ASSUME Init PROVE IInv
  OBVIOUS
<1> USE DEF Init
<1>0. started \in Seq(Downloads) /\ inbox \in Seq(Frame) /\ DOMAIN inbox = {} /\ DOMAIN started = {}
  OBVIOUS
<1>1. TypeOK
  BY <1>0 DEF TypeOK, IsInjective, Range, Handlers
<1>2. FramesOK /\ SessionsOK /\ Counted /\ Intact
  BY <1>0 DEF FramesOK, SessionsOK, Counted, Intact, IsInjective
<1>3. Streamed
  BY <1>0 DEF Streamed, Handlers, OpenOnly, InSequence, EndsOnce, SentWhole, FrontReady, FrontOnly,
              EndToCome
<1> QED
  BY <1>1, <1>2, <1>3 DEF IInv

(* Where a handler is that is subscribed.                                   *)
LEMMA Subscribed ==
  ASSUME TypeOK, NEW d \in Handlers
  PROVE  \E i \in DOMAIN started : started[i] = d
BY DEF TypeOK, Handlers, Range

(* If no other handler leaves, a handler is reached.                        *)
LEMMA ReachedAlone ==
  ASSUME TypeOK, NEW L, NEW d \in Handlers, \A e \in L : e = d
  PROVE  d \in Reached(L)
<1>1. PICK i \in DOMAIN started : started[i] = d
  BY Subscribed
<1>2. DOMAIN started = 1 .. Len(started) /\ Len(started) \in Nat
  BY LenProperties DEF TypeOK
<1>3. LeavingBefore(i, L) = {}
  <2> SUFFICES ASSUME NEW j \in LeavingBefore(i, L) PROVE FALSE
    OBVIOUS
  <2>1. j \in 1 .. i - 1 /\ j \in j .. i - 1 /\ j \in DOMAIN started /\ j # i
    BY <1>2 DEF LeavingBefore
  <2>2. started[j] \in L
    BY <2>1 DEF LeavingBefore
  <2>3. started[j] = started[i]
    BY <1>1, <2>2
  <2> QED
    BY <2>1, <2>3 DEF TypeOK, IsInjective
<1>4. Cardinality(LeavingBefore(i, L)) % 2 = 0
  <2>1. Cardinality({}) = 0
    BY FS_EmptySet
  <2> QED
    BY <1>3, <2>1
<1> QED
  BY <1>1, <1>4 DEF Reached

LEMMA ReachedOnly ==
  ASSUME NEW L
  PROVE  Reached(L) \subseteq Handlers
BY DEF Reached

(* A new handler is the last.                                               *)
LEMMA StartDownloadInv ==
  ASSUME IInv, NEW d \in Downloads, StartDownload(d)
  PROVE  IInv'
<1> USE DEF StartDownload, given
<1>0. TypeOK /\ FramesOK /\ SessionsOK /\ Counted /\ Intact /\ (inOrder => Streamed)
  BY DEF IInv
<1>1. /\ outcome[d] = "new" /\ outcome' \in [Downloads -> {"new", "open", "done", "error"}]
      /\ outcome'[d] = "open" /\ \A e \in Downloads \ {d} : outcome'[e] = outcome[e]
      /\ Handlers' = Handlers \cup {d} /\ d \notin Handlers
  BY <1>0 DEF TypeOK, Handlers
<1>2. \A i \in DOMAIN inbox : inbox[i] \in Frame /\ inbox[i].of \in Downloads /\ inbox[i].of # d
  <2>1. \A i \in DOMAIN inbox : inbox[i] \in Frame
    BY <1>0, ElementOfSeq, LenProperties DEF TypeOK
  <2> QED
    BY <1>0, <1>1, <2>1 DEF FramesOK, Frame
<1>3. session[d] = {}
  BY <1>0, <1>1 DEF SessionsOK
<1>4. /\ started' \in Seq(Downloads) /\ IsInjective(started')
      /\ Range(started') = {e \in Downloads : outcome'[e] # "new"}
  <2>1. /\ started \in Seq(Downloads) /\ IsInjective(started)
        /\ Range(started) = {e \in Downloads : outcome[e] # "new"}
    BY <1>0 DEF TypeOK
  <2>2. /\ started' \in Seq(Downloads) /\ Len(started) \in Nat
        /\ DOMAIN started = 1 .. Len(started) /\ DOMAIN started' = 1 .. Len(started) + 1
        /\ \A k \in 1 .. Len(started) : started'[k] = started[k]
        /\ started'[Len(started) + 1] = d
    BY <2>1, AppendProperties, LenProperties
  <2>3. \A k \in 1 .. Len(started) : started[k] # d
    BY <1>1, <2>1, <2>2 DEF Range
  <2>4. \A k \in DOMAIN started' : k \in 1 .. Len(started) \/ k = Len(started) + 1
    BY <2>2
  <2>5. IsInjective(started')
    <3> SUFFICES ASSUME NEW k \in DOMAIN started', NEW l \in DOMAIN started', started'[k] = started'[l]
                 PROVE  k = l
      BY DEF IsInjective
    <3> QED
      BY <2>1, <2>2, <2>3, <2>4 DEF IsInjective
  <2>6. Range(started') = Range(started) \cup {d}
    BY <2>2, <2>4 DEF Range
  <2> QED
    BY <1>1, <2>1, <2>2, <2>5, <2>6
<1>5. TypeOK'
  BY <1>0, <1>1, <1>4 DEF TypeOK
<1>6. FramesOK' /\ SessionsOK'
  BY <1>0, <1>1, <1>2, <1>3 DEF FramesOK, SessionsOK
<1>7. \A e \in Downloads : Alone(e)' => Alone(e)
  BY <1>1 DEF Alone
<1>8. Counted' /\ Intact'
  BY <1>0, <1>1, <1>7 DEF Counted, Intact, Whole
<1>9. ASSUME inOrder' PROVE Streamed'
  <2>0. inOrder /\ Streamed
    BY <1>0, <1>9
  <2> QED
    BY <2>0, <1>1, <1>3 DEF Streamed, OpenOnly, InSequence, EndsOnce, SentWhole, FrontReady, FrontOnly,
                            EndToCome, InFront, Ready, Follows
<1> QED
  BY <1>5, <1>6, <1>8, <1>9 DEF IInv
(* Rows that go change nothing here.                                        *)
LEMMA RemoveAttachmentInv ==
  ASSUME IInv, NEW a \in Attachments, RemoveAttachment(a)
  PROVE  IInv'
<1> USE DEF RemoveAttachment, given, client
<1>0. TypeOK /\ FramesOK /\ SessionsOK /\ Counted /\ Intact /\ (inOrder => Streamed)
  BY DEF IInv
<1>1. TypeOK'
  BY <1>0 DEF TypeOK, Handlers
<1>2. FramesOK' /\ SessionsOK'
  BY <1>0 DEF FramesOK, SessionsOK
<1>3. Counted' /\ Intact'
  BY <1>0 DEF Counted, Intact, Whole, Alone
<1>4. inOrder' => Streamed'
  BY <1>0 DEF Streamed, OpenOnly, InSequence, EndsOnce, SentWhole, FrontReady, FrontOnly,
              EndToCome, InFront, Handlers, Ready, Follows
<1> QED
  BY <1>1, <1>2, <1>3, <1>4 DEF IInv

(* What arrives after the end of the connection is the first of what was    *)
(* sent.                                                                    *)
LEMMA DisconnectInv ==
  ASSUME IInv, Disconnect
  PROVE  IInv'
<1>0. TypeOK /\ FramesOK /\ SessionsOK /\ Counted /\ Intact /\ (inOrder => Streamed)
  BY DEF IInv
<1>1. PICK n \in 0 .. Len(inbox) : inbox' = SubSeq(inbox, 1, n)
  BY DEF Disconnect
<1>2. connected' = FALSE /\ UNCHANGED <<want, total, inOrder, available, outcome, started, session, requests>>
  BY DEF Disconnect, given, client
<1>3. inbox \in Seq(Frame) /\ Len(inbox) \in Nat /\ DOMAIN inbox = 1 .. Len(inbox)
  BY <1>0, LenProperties DEF TypeOK
<1>4. /\ inbox' \in Seq(Frame) /\ DOMAIN inbox' = 1 .. n /\ n \in Nat /\ Len(inbox') = n
      /\ \A i \in 1 .. n : i \in DOMAIN inbox /\ inbox'[i] = inbox[i]
  <2>1. inbox' \in Seq(Frame) /\ Len(inbox') = n /\ \A i \in 1 .. n : inbox'[i] = inbox[i]
    BY <1>1, <1>3, SubSeqProperties
  <2> QED
    BY <1>3, <2>1, LenProperties
<1>5. Handlers' = Handlers /\ \A e \in Downloads : Alone(e)' = Alone(e)
  BY <1>2 DEF Handlers, Alone
<1>6. TypeOK'
  BY <1>0, <1>2, <1>4, <1>5 DEF TypeOK
<1>7. FramesOK' /\ SessionsOK'
  BY <1>0, <1>2, <1>4 DEF FramesOK, SessionsOK, IsInjective
<1>8. Counted' /\ Intact'
  BY <1>0, <1>2, <1>4, <1>5 DEF Counted, Intact, Whole
<1>9. ASSUME inOrder' PROVE Streamed'
  <2>0. inOrder /\ Streamed
    BY <1>0, <1>2, <1>9
  <2>1. inbox' # <<>> => n >= 1 /\ inbox'[1] = inbox[1] /\ inbox # <<>>
    BY <1>3, <1>4
  <2>3. InSequence'
    <3>1. ASSUME NEW i \in DOMAIN inbox', NEW j \in DOMAIN inbox', j = i + 1
          PROVE  Follows(inbox[i], inbox[j])
      BY <1>4, <2>0, <3>1 DEF Streamed, InSequence
    <3>2. ASSUME NEW i \in DOMAIN inbox', NEW j \in DOMAIN inbox', j = i + 1
          PROVE  Follows(inbox[i], inbox[j])'
      BY <1>2, <1>4, <3>1, <3>2 DEF Follows
    <3> QED
      BY <3>2 DEF InSequence
  <2>4. FrontReady' /\ FrontOnly'
    BY <1>2, <1>5, <2>0, <2>1 DEF Streamed, FrontReady, FrontOnly, InFront, Ready
  <2>5. EndsOnce' /\ OpenOnly'
    BY <1>4, <1>5, <2>0 DEF Streamed, EndsOnce, OpenOnly, Ends
  <2> QED
    BY <1>2, <2>3, <2>4, <2>5 DEF Streamed, SentWhole, EndToCome
<1> QED
  BY <1>6, <1>7, <1>8, <1>9 DEF IInv
LEMMA Joined ==
  ASSUME NEW S, NEW s \in Seq(S), NEW t \in Seq(S), NEW st, st = s \o t
  PROVE  /\ st \in Seq(S) /\ Len(s) \in Nat /\ Len(t) \in Nat
         /\ Len(st) = Len(s) + Len(t) /\ DOMAIN st = 1 .. Len(s) + Len(t)
         /\ DOMAIN s = 1 .. Len(s) /\ DOMAIN t = 1 .. Len(t)
         /\ \A i \in 1 .. Len(s) : st[i] = s[i]
         /\ \A i \in 1 .. Len(t) : st[Len(s) + i] = t[i]
<1>1. /\ s \o t \in Seq(S) /\ Len(s \o t) = Len(s) + Len(t) /\ Len(s) \in Nat /\ Len(t) \in Nat
      /\ \A i \in 1 .. Len(s) + Len(t) : (s \o t)[i] = IF i <= Len(s) THEN s[i] ELSE t[i - Len(s)]
  BY ConcatProperties, LenProperties
<1>2. \A i \in 1 .. Len(s) : st[i] = s[i]
  BY <1>1
<1>3. ASSUME NEW i \in 1 .. Len(t) PROVE st[Len(s) + i] = t[i]
  <2>1. Len(s) + i \in 1 .. Len(s) + Len(t) /\ ~(Len(s) + i <= Len(s)) /\ (Len(s) + i) - Len(s) = i
    BY <1>1
  <2>2. (s \o t)[Len(s) + i] = t[(Len(s) + i) - Len(s)]
    BY <1>1, <2>1
  <2> QED
    BY <2>1, <2>2
<1> QED
  BY <1>1, <1>2, <1>3, LenProperties

(* What the task of a download sends.                                       *)
Sent(fs, d) ==
    /\ fs \in Seq(Frame) /\ Len(fs) >= 1
    /\ IsInjective(fs)
    /\ \A i \in DOMAIN fs : fs[i].of = d
    /\ \A i \in DOMAIN fs : fs[i].type = "chunk" => fs[i].index \in 1 .. total[want[d]]
    /\ \A i, j \in DOMAIN fs : j = i + 1 => Follows(fs[i], fs[j])
    /\ \A i \in DOMAIN fs : Ends(fs[i]) <=> i = Len(fs)
    /\ fs[1].type \in {"start", "error"}

LEMMA ErrorSent ==
  ASSUME NEW d \in Downloads
  PROVE  Sent(<<About("error", d)>>, d)
<1> DEFINE f == About("error", d)
           fs == <<f>>
<1>1. f \in Frame /\ f.of = d /\ f.type = "error"
  BY DownloadsAssumption DEF About, Frame
<1> HIDE DEF f
<1>2. fs \in Seq(Frame) /\ Len(fs) = 1 /\ DOMAIN fs = {1} /\ fs[1] = f
  BY <1>1
<1> HIDE DEF fs
<1>3. Sent(fs, d)
  BY <1>1, <1>2 DEF Sent, IsInjective, Follows, Ends
<1> QED
  BY <1>3 DEF fs, f

LEMMA FileFramesAre ==
  ASSUME TypeOK, NEW d \in Downloads
  PROVE  /\ total[want[d]] \in Nat /\ total[want[d]] >= 1 /\ total[want[d]] <= MaxChunks
         /\ FileFrames(d) \in Seq(Frame) /\ Len(FileFrames(d)) = total[want[d]] + 2
         /\ DOMAIN FileFrames(d) = 1 .. total[want[d]] + 2
         /\ FileFrames(d)[1] = About("start", d)
         /\ \A i \in 1 .. total[want[d]] : FileFrames(d)[i + 1] = ChunkFrame(d, i)
         /\ FileFrames(d)[total[want[d]] + 2] = About("end", d)
<1> DEFINE n == total[want[d]]
           a == <<About("start", d)>>
           b == [i \in 1 .. n |-> ChunkFrame(d, i)]
           c == <<About("end", d)>>
<1>1. n \in Nat /\ n >= 1 /\ n <= MaxChunks /\ MaxChunks \in Nat
  BY DownloadsAssumption DEF TypeOK
<1>2. FileFrames(d) = a \o b \o c
  BY DEF FileFrames
<1> HIDE DEF n
<1>3. About("start", d) \in Frame /\ About("end", d) \in Frame /\ \A i \in 1 .. n : ChunkFrame(d, i) \in Frame
  BY <1>1 DEF About, ChunkFrame, Frame
<1>4. a \in Seq(Frame) /\ Len(a) = 1 /\ a[1] = About("start", d)
  BY <1>3
<1>5. c \in Seq(Frame) /\ Len(c) = 1 /\ c[1] = About("end", d)
  BY <1>3
<1>6. b \in Seq(Frame) /\ Len(b) = n /\ \A i \in 1 .. n : b[i] = ChunkFrame(d, i)
  <2>1. b \in [1 .. n -> Frame] /\ \A i \in 1 .. n : b[i] = ChunkFrame(d, i)
    BY <1>3
  <2> HIDE DEF b
  <2>2. b \in Seq(Frame)
    BY <1>1, <2>1, SeqDef
  <2> QED
    BY <1>1, <2>1, <2>2, LenProperties
<1> HIDE DEF a, b, c
<1> DEFINE ab == a \o b
           abc == ab \o c
<1>7. /\ ab \in Seq(Frame) /\ Len(ab) = n + 1
      /\ ab[1] = a[1] /\ \A i \in 1 .. n : ab[i + 1] = b[i]
  <2>0. ab = a \o b
    OBVIOUS
  <2> HIDE DEF ab
  <2>1. /\ ab \in Seq(Frame) /\ Len(ab) = Len(a) + Len(b)
        /\ \A i \in 1 .. Len(a) : ab[i] = a[i]
        /\ \A i \in 1 .. Len(b) : ab[Len(a) + i] = b[i]
    <3>1. a \in Seq(Frame) /\ b \in Seq(Frame)
      BY <1>4, <1>6
    <3> QED
      BY ONLY <3>1, <2>0, Joined
  <2>2. \A i \in 1 .. n : 1 + i = i + 1
    BY <1>1
  <2> QED
    BY <1>1, <1>4, <1>6, <2>1, <2>2
<1> HIDE DEF ab
<1>9. /\ abc \in Seq(Frame) /\ Len(abc) = n + 2
      /\ \A i \in 1 .. n + 1 : abc[i] = ab[i]
      /\ abc[n + 2] = c[1]
  <2>0. abc = ab \o c
    OBVIOUS
  <2> HIDE DEF abc
  <2>1. /\ abc \in Seq(Frame) /\ Len(abc) = Len(ab) + Len(c)
        /\ \A i \in 1 .. Len(ab) : abc[i] = ab[i]
        /\ \A i \in 1 .. Len(c) : abc[Len(ab) + i] = c[i]
    <3>1. ab \in Seq(Frame) /\ c \in Seq(Frame)
      BY <1>5, <1>7
    <3> QED
      BY ONLY <3>1, <2>0, Joined
  <2>2. (n + 1) + 1 = n + 2
    BY <1>1
  <2> QED
    BY <1>1, <1>5, <1>7, <2>1, <2>2
<1> HIDE DEF abc
<1>10. \A i \in 1 .. n : i + 1 \in 1 .. n + 1
  BY <1>1
<1>11. /\ abc \in Seq(Frame) /\ Len(abc) = n + 2 /\ DOMAIN abc = 1 .. n + 2
       /\ abc[1] = About("start", d) /\ abc[n + 2] = About("end", d)
       /\ \A i \in 1 .. n : abc[i + 1] = ChunkFrame(d, i)
  BY <1>1, <1>4, <1>5, <1>6, <1>7, <1>9, <1>10, LenProperties
<1> QED
  BY <1>1, <1>2, <1>11 DEF n, ab, abc

LEMMA FileSent ==
  ASSUME TypeOK, NEW d \in Downloads
  PROVE  Sent(FileFrames(d), d)
<1> DEFINE n == total[want[d]]
           fs == FileFrames(d)
<1>1. /\ n \in Nat /\ n >= 1 /\ fs \in Seq(Frame) /\ Len(fs) = n + 2 /\ DOMAIN fs = 1 .. n + 2
      /\ fs[1] = About("start", d) /\ fs[n + 2] = About("end", d)
      /\ \A i \in 1 .. n : fs[i + 1] = ChunkFrame(d, i)
  BY FileFramesAre
<1> HIDE DEF fs
<1>2. ASSUME NEW i \in DOMAIN fs
      PROVE  \/ i = 1 /\ fs[i] = About("start", d)
             \/ i \in 2 .. n + 1 /\ fs[i] = ChunkFrame(d, i - 1)
             \/ i = n + 2 /\ fs[i] = About("end", d)
  <2>1. CASE i \in 2 .. n + 1
    <3>1. i - 1 \in 1 .. n /\ (i - 1) + 1 = i
      BY <1>1, <2>1
    <3>2. fs[(i - 1) + 1] = ChunkFrame(d, i - 1)
      BY <1>1, <3>1
    <3> QED
      BY <2>1, <3>1, <3>2
  <2>2. CASE i \notin 2 .. n + 1
    BY <1>1, <2>2
  <2> QED
    BY <2>1, <2>2
<1>3. ASSUME NEW i \in DOMAIN fs
      PROVE  /\ fs[i].of = d
             /\ Ends(fs[i]) <=> i = Len(fs)
             /\ fs[i].type = "start" <=> i = 1
             /\ fs[i].type = "chunk" => fs[i].index \in 1 .. n /\ i = fs[i].index + 1
  <2> HIDE DEF n
  <2>1. CASE i = 1 /\ fs[i] = About("start", d)
    BY <1>1, <2>1 DEF About, Ends
  <2>2. CASE i \in 2 .. n + 1 /\ fs[i] = ChunkFrame(d, i - 1)
    BY <1>1, <2>2 DEF ChunkFrame, Ends
  <2>3. CASE i = n + 2 /\ fs[i] = About("end", d)
    BY <1>1, <2>3 DEF About, Ends
  <2> QED
    BY <1>2, <2>1, <2>2, <2>3
<1>4. IsInjective(fs)
  <2> SUFFICES ASSUME NEW i \in DOMAIN fs, NEW j \in DOMAIN fs, fs[i] = fs[j] PROVE i = j
    BY DEF IsInjective
  <2>1. i = 1 \/ i = Len(fs) \/ fs[i].type = "chunk"
    <3>1. \A k : ChunkFrame(d, k).type = "chunk"
      BY DEF ChunkFrame
    <3>2. CASE i \in 2 .. n + 1 /\ fs[i] = ChunkFrame(d, i - 1)
      BY <3>1, <3>2
    <3> QED
      BY <1>1, <1>2, <3>2
  <2> QED
    BY <1>3, <2>1
<1>5. ASSUME NEW i \in DOMAIN fs, NEW j \in DOMAIN fs, j = i + 1
      PROVE  Follows(fs[i], fs[j])
  <2>1. CASE i = 1
    BY <1>1, <1>2, <1>5, <2>1 DEF Follows, Ends, About, ChunkFrame
  <2>2. CASE i \in 2 .. n + 1 /\ i # n + 1
    <3>1. fs[i] = ChunkFrame(d, i - 1) /\ fs[j] = ChunkFrame(d, i) /\ i - 1 < n /\ (i - 1) + 1 = i
      BY <1>1, <1>2, <1>5, <2>2
    <3> QED
      BY <3>1 DEF Follows, Ends, ChunkFrame
  <2>3. CASE i = n + 1
    <3>1. fs[i] = ChunkFrame(d, n) /\ fs[j] = About("end", d) /\ ~(n < n)
      BY <1>1, <1>2, <1>5, <2>3
    <3> QED
      BY <3>1 DEF Follows, Ends, ChunkFrame
  <2> QED
    BY <1>1, <1>5, <2>1, <2>2, <2>3
<1>6. fs[1].type = "start"
  BY <1>1 DEF About
<1>7. Sent(fs, d)
  BY <1>1, <1>3, <1>4, <1>5, <1>6 DEF Sent
<1> QED
  BY <1>7 DEF fs
(* What a task sends goes behind what is under way.                         *)
LEMMA PushedInv ==
  ASSUME IInv, NEW d \in Downloads, NEW fs, Sent(fs, d),
         d \in requests, requests' = requests \ {d}, connected, inbox' = inbox \o fs,
         UNCHANGED <<want, total, inOrder, available, connected, outcome, started, session>>
  PROVE  IInv'
<1>0. TypeOK /\ FramesOK /\ SessionsOK /\ Counted /\ Intact /\ (inOrder => Streamed)
  BY DEF IInv
<1> DEFINE m == Len(inbox)
           l == Len(fs)
<1>1. inbox \in Seq(Frame) /\ fs \in Seq(Frame)
  BY <1>0 DEF TypeOK, Sent
<1>2. /\ inbox' \in Seq(Frame) /\ m \in Nat /\ l \in Nat /\ l >= 1
      /\ Len(inbox') = m + l /\ DOMAIN inbox' = 1 .. m + l
      /\ DOMAIN inbox = 1 .. m /\ DOMAIN fs = 1 .. l
      /\ \A i \in 1 .. m : inbox'[i] = inbox[i]
      /\ \A i \in 1 .. l : inbox'[m + i] = fs[i]
  <2>1. inbox' = inbox \o fs
    OBVIOUS
  <2>2. l >= 1
    BY DEF Sent
  <2> QED
    BY ONLY <1>1, <2>1, <2>2, Joined
<1> HIDE DEF m, l
<1>3. ASSUME NEW k \in DOMAIN inbox'
      PROVE  \/ k \in DOMAIN inbox /\ k <= m /\ inbox'[k] = inbox[k]
             \/ k > m /\ \E i \in DOMAIN fs : k = m + i /\ inbox'[k] = fs[i]
  <2>1. CASE k <= m
    BY <1>2, <2>1
  <2>2. CASE k > m
    <3>1. k - m \in 1 .. l /\ k = m + (k - m)
      BY <1>2, <2>2
    <3>2. inbox'[m + (k - m)] = fs[k - m]
      BY <1>2, <3>1
    <3> QED
      BY <1>2, <2>2, <3>1, <3>2
  <2> QED
    BY <1>2, <2>1, <2>2
<1>4. /\ \A k \in DOMAIN inbox : inbox[k].of # d
      /\ \A k \in DOMAIN fs : fs[k].of = d
      /\ d \in Handlers /\ outcome[d] # "new"
      /\ \A k \in DOMAIN fs : fs[k].type = "chunk" => fs[k].index \in 1 .. total[want[d]]
  BY <1>0 DEF FramesOK, Sent, TypeOK, Handlers
<1>5. Handlers' = Handlers /\ \A e \in Downloads : Alone(e)' = Alone(e)
  BY DEF Handlers, Alone
<1>6. TypeOK'
  BY <1>0, <1>2, <1>5 DEF TypeOK
<1>7. FramesOK'
  <2>1. IsInjective(inbox')
    <3> SUFFICES ASSUME NEW j \in DOMAIN inbox', NEW k \in DOMAIN inbox', inbox'[j] = inbox'[k]
                 PROVE  j = k
      BY DEF IsInjective
    <3>1. IsInjective(inbox) /\ IsInjective(fs)
      BY <1>0 DEF FramesOK, Sent
    <3>2. CASE j \in DOMAIN inbox /\ inbox'[j] = inbox[j]
      <4>1. inbox'[j].of # d /\ inbox'[k] = inbox[j]
        BY <1>4, <3>2
      <4>2. k \in DOMAIN inbox /\ inbox'[k] = inbox[k]
        BY <1>3, <1>4, <4>1
      <4> QED
        BY <3>1, <3>2, <4>1, <4>2 DEF IsInjective
    <3>3. ASSUME NEW i \in DOMAIN fs, j = m + i, inbox'[j] = fs[i] PROVE j = k
      <4>1. PICK n \in DOMAIN fs : k = m + n /\ inbox'[k] = fs[n]
        BY <1>3, <1>4, <3>3
      <4> QED
        BY <3>1, <3>3, <4>1 DEF IsInjective
    <3> QED
      BY <1>3, <3>2, <3>3
  <2> QED
    BY <2>1, <1>0, <1>3, <1>4 DEF FramesOK
<1>8. SessionsOK' /\ Intact'
  BY <1>0, <1>5 DEF SessionsOK, Intact, Whole
<1>9. Counted'
  BY <1>0, <1>3, <1>4, <1>5 DEF Counted, SessionsOK
<1>10. ASSUME inOrder' PROVE Streamed'
  <2>0. inOrder /\ Streamed
    BY <1>0, <1>10
  <2>1. OpenOnly'
    BY <2>0, <1>3, <1>4, <1>5 DEF Streamed, OpenOnly
  <2>2. InSequence'
    <3>1. ASSUME NEW j \in DOMAIN inbox', NEW k \in DOMAIN inbox', k = j + 1
          PROVE  Follows(inbox'[j], inbox'[k])
      <4>1. CASE k <= m
        <5>1. j \in DOMAIN inbox /\ k \in DOMAIN inbox /\ inbox'[j] = inbox[j] /\ inbox'[k] = inbox[k]
          BY <1>2, <3>1, <4>1
        <5>2. Follows(inbox[j], inbox[k])
          BY <2>0, <3>1, <5>1 DEF Streamed, InSequence
        <5> QED
          BY <5>1, <5>2
      <4>2. CASE j = m
        <5>1. j \in DOMAIN inbox /\ inbox # <<>> /\ inbox'[j] = inbox[m] /\ 1 \in 1 .. l /\ inbox'[k] = fs[1]
          BY <1>2, <3>1, <4>2
        <5>2. Ends(inbox[m])
          BY <2>0, <5>1 DEF Streamed, SentWhole, m
        <5>3. fs[1].type \in {"start", "error"}
          BY DEF Sent
        <5> QED
          BY <5>1, <5>2, <5>3 DEF Follows, Ends
      <4>3. CASE j > m
        <5>1. PICK i \in DOMAIN fs : j = m + i /\ inbox'[j] = fs[i]
          BY <1>2, <1>3, <4>3
        <5>2. i + 1 \in DOMAIN fs /\ k = m + (i + 1)
          BY <1>2, <3>1, <5>1
        <5>3. inbox'[k] = fs[i + 1]
          BY <1>2, <5>2
        <5>4. Follows(fs[i], fs[i + 1])
          BY <5>2 DEF Sent
        <5> QED
          BY <5>1, <5>3, <5>4
      <4> QED
        BY <1>2, <3>1, <4>1, <4>2, <4>3
    <3>2. ASSUME NEW j \in DOMAIN inbox', NEW k \in DOMAIN inbox', k = j + 1
          PROVE  Follows(inbox[j], inbox[k])'
      BY <3>1, <3>2 DEF Follows
    <3> QED
      BY <3>2 DEF InSequence
  <2>3. EndsOnce'
    <3>1. ASSUME NEW j \in DOMAIN inbox', NEW k \in DOMAIN inbox', j < k, inbox'[j].of = inbox'[k].of
          PROVE  ~Ends(inbox'[j])
      <4>1. CASE j <= m
        BY <1>2, <1>3, <1>4, <2>0, <3>1, <4>1 DEF Streamed, EndsOnce
      <4>2. CASE j > m
        <5>1. PICK i \in DOMAIN fs : j = m + i /\ inbox'[j] = fs[i]
          BY <1>2, <1>3, <4>2
        <5>2. i # l
          BY <1>2, <3>1, <5>1
        <5> QED
          BY <5>1, <5>2 DEF Sent, l
      <4> QED
        BY <1>2, <3>1, <4>1, <4>2
    <3> QED
      BY <3>1 DEF EndsOnce, Ends
  <2>4. inbox'[m + l] = fs[l] /\ Ends(fs[l]) /\ m + l \in DOMAIN inbox' /\ l \in DOMAIN fs
    BY <1>2 DEF Sent, l
  <2>5. SentWhole'
    BY <1>2, <2>4 DEF SentWhole, Ends
  <2>6. inbox = <<>> => m = 0 /\ inbox'[1] = fs[1]
    BY <1>2 DEF m
  <2>7. inbox # <<>> => inbox'[1] = inbox[1]
    BY <1>1, <1>2, EmptySeq DEF m
  <2>8. FrontReady'
    BY <2>0, <2>6, <2>7 DEF Streamed, FrontReady, Ready, Sent
  <2>9. FrontOnly'
    BY <1>2, <1>5, <2>0, <2>7 DEF Streamed, FrontOnly, InFront
  <2>10. EndToCome'
    <3>1. ASSUME NEW e \in Handlers' \ requests' PROVE \E i \in DOMAIN inbox' : inbox'[i].of = e /\ Ends(inbox'[i])
      <4>1. CASE e = d
        BY <1>4, <2>4, <4>1
      <4>2. CASE e # d
        <5>1. PICK i \in DOMAIN inbox : inbox[i].of = e /\ Ends(inbox[i])
          BY <1>5, <2>0, <3>1, <4>2 DEF Streamed, EndToCome
        <5>2. i \in DOMAIN inbox' /\ inbox'[i] = inbox[i]
          BY <1>2
        <5> QED
          BY <5>1, <5>2
      <4> QED
        BY <4>1, <4>2
    <3> QED
      BY <3>1 DEF EndToCome, Ends
  <2> QED
    BY <2>1, <2>2, <2>3, <2>5, <2>8, <2>9, <2>10 DEF Streamed
<1> QED
  BY <1>6, <1>7, <1>8, <1>9, <1>10 DEF IInv

(* A task whose connection is gone sends to nobody.                         *)
LEMMA ServeInv ==
  ASSUME IInv, NEW d \in Downloads, Serve(d)
  PROVE  IInv'
<1>0. TypeOK /\ FramesOK /\ SessionsOK /\ Counted /\ Intact /\ (inOrder => Streamed)
  BY DEF IInv
<1>1. /\ d \in requests /\ requests' = requests \ {d}
      /\ UNCHANGED <<want, total, inOrder, available, connected, outcome, started, session>>
  BY DEF Serve, given, client
<1>2. CASE connected
  <2>1. PICK fs : Sent(fs, d) /\ inbox' = inbox \o fs
    BY <1>0, <1>2, FileSent, ErrorSent DEF Serve
  <2> QED
    BY <1>1, <1>2, <2>1, PushedInv
<1>3. CASE ~connected
  <2>0. inbox' = inbox
    BY <1>3 DEF Serve
  <2>1. TypeOK'
    BY <1>0, <1>1, <2>0 DEF TypeOK, Handlers
  <2>2. FramesOK' /\ SessionsOK'
    BY <1>0, <1>1, <2>0 DEF FramesOK, SessionsOK
  <2>3. Counted' /\ Intact'
    BY <1>0, <1>1, <2>0 DEF Counted, Intact, Whole, Alone
  <2>4. inOrder' => Streamed'
    BY <1>0, <1>1, <1>3, <2>0 DEF Streamed, OpenOnly, InSequence, EndsOnce, SentWhole, FrontReady, FrontOnly,
                             EndToCome, InFront, Handlers, Ready, Follows
  <2> QED
    BY <2>1, <2>2, <2>3, <2>4 DEF IInv
<1> QED
  BY <1>2, <1>3
(* What a frame makes of a session, case by case.                           *)
Chunked(d, n) == {WithChunk(s, n) : s \in session[d]}
EndedBy(d) == {[s EXCEPT !.endSeen = TRUE] : s \in session[d]}

LEMMA AfterCases ==
  ASSUME NEW d \in Downloads, NEW f \in Frame
  PROVE  /\ f.type = "start" /\ f.of = d => AfterFrame(d, f) = Started
         /\ f.type = "start" /\ f.of # d => AfterFrame(d, f) = session[d]
         /\ f.type = "chunk" /\ want[f.of] = want[d]
              => AfterFrame(d, f) = Chunked(d, f.index)
         /\ f.type = "chunk" /\ want[f.of] # want[d] => AfterFrame(d, f) = session[d]
         /\ f.type = "end" /\ f.of = d
              => AfterFrame(d, f) = EndedBy(d)
         /\ f.type = "end" /\ f.of # d => AfterFrame(d, f) = session[d]
         /\ f.type = "error" => AfterFrame(d, f) = session[d]
         /\ f.type \in {"start", "chunk", "end", "error"}
<1>1. AfterFrame(d, f) = CASE f.type = "start" /\ f.of = d -> Started
                           [] f.type = "chunk" /\ want[f.of] = want[d] -> Chunked(d, f.index)
                           [] f.type = "end" /\ f.of = d -> EndedBy(d)
                           [] OTHER -> session[d]
  BY DEF AfterFrame, Chunked, EndedBy
<1>2. f.type \in {"start", "chunk", "end", "error"}
  BY DEF Frame
<1>3. /\ f.type = "start" /\ f.of = d => AfterFrame(d, f) = Started
      /\ f.type = "start" /\ f.of # d => AfterFrame(d, f) = session[d]
      /\ f.type = "chunk" /\ want[f.of] = want[d] => AfterFrame(d, f) = Chunked(d, f.index)
      /\ f.type = "chunk" /\ want[f.of] # want[d] => AfterFrame(d, f) = session[d]
      /\ f.type = "end" /\ f.of = d => AfterFrame(d, f) = EndedBy(d)
      /\ f.type = "end" /\ f.of # d => AfterFrame(d, f) = session[d]
      /\ f.type = "error" => AfterFrame(d, f) = session[d]
  BY <1>1
<1> QED
  BY <1>2, <1>3

(* A session with a chunk more.                                             *)
LEMMA WithChunkIs ==
  ASSUME NEW t \in Session, NEW n \in 1 .. MaxChunks
  PROVE  /\ WithChunk(t, n) \in Session
         /\ WithChunk(t, n).chunks = t.chunks \cup {n}
         /\ WithChunk(t, n).received = t.received + 1
         /\ WithChunk(t, n).endSeen = t.endSeen
<1>1. t.chunks \in SUBSET (1 .. MaxChunks) /\ t.received \in Nat /\ t.endSeen \in BOOLEAN
  BY DEF Session
<1>2. PICK c : c = t.chunks \cup {n}
  OBVIOUS
<1>3. c \in SUBSET (1 .. MaxChunks)
  BY <1>1, <1>2
<1>4. PICK r \in Nat : r = t.received + 1
  BY <1>1
<1>5. WithChunk(t, n) = [t EXCEPT !.chunks = c, !.received = r]
  BY <1>2, <1>4 DEF WithChunk
<1>6. PICK q : q = [t EXCEPT !.chunks = c, !.received = r]
  OBVIOUS
<1>7. q \in Session /\ q.chunks = c /\ q.received = r /\ q.endSeen = t.endSeen
  BY <1>1, <1>3, <1>6 DEF Session
<1> QED
  BY <1>2, <1>4, <1>5, <1>6, <1>7

(* A session that has seen the end.                                         *)
LEMMA EndSeenIs ==
  ASSUME NEW t \in Session, NEW s, s = [t EXCEPT !.endSeen = TRUE]
  PROVE  s \in Session /\ s.chunks = t.chunks /\ s.received = t.received /\ s.endSeen = TRUE
BY DEF Session

(* Where a session after a frame comes from.                                *)
LEMMA AfterFrameIs ==
  ASSUME TypeOK, NEW d \in Downloads, NEW f \in Frame,
         f.type = "chunk" => f.index \in 1 .. MaxChunks,
         NEW s \in AfterFrame(d, f)
  PROVE  /\ s \in Session
         /\ \/ f.type = "start" /\ f.of = d /\ s.chunks = {} /\ s.received = 0
            \/ /\ f.type = "chunk" /\ want[f.of] = want[d]
               /\ \E t \in session[d] : /\ s.chunks = t.chunks \cup {f.index}
                                        /\ s.received = t.received + 1
            \/ \E t \in session[d] : s.chunks = t.chunks /\ s.received = t.received
<1>0. session[d] \subseteq Session
  BY DEF TypeOK
<1>1. CASE f.type = "start" /\ f.of = d
  <2>1. s = [chunks |-> {}, received |-> 0, endSeen |-> FALSE]
    BY <1>1, AfterCases DEF Started
  <2> QED
    BY <1>1, <2>1 DEF Session
<1>2. CASE f.type = "chunk" /\ want[f.of] = want[d]
  <2>1. PICK t \in session[d] : s = WithChunk(t, f.index)
    BY <1>2, AfterCases DEF Chunked
  <2> QED
    BY <1>0, <1>2, <2>1, WithChunkIs
<1>3. CASE f.type = "end" /\ f.of = d
  <2>1. PICK t \in session[d] : s = [t EXCEPT !.endSeen = TRUE]
    BY <1>3, AfterCases DEF EndedBy
  <2> QED
    BY <1>0, <2>1, EndSeenIs
<1>4. CASE AfterFrame(d, f) = session[d]
  BY <1>0, <1>4
<1> QED
  BY <1>1, <1>2, <1>3, <1>4, AfterCases

(* There is at most one.                                                    *)
LEMMA AfterFrameOne ==
  ASSUME TypeOK, NEW d \in Downloads, NEW f \in Frame,
         NEW s \in AfterFrame(d, f), NEW o \in AfterFrame(d, f)
  PROVE  s = o
<1>0. \A t, u \in session[d] : t = u
  BY DEF TypeOK
<1>1. CASE f.type = "start" /\ f.of = d
  <2>1. s \in Started /\ o \in Started
    BY <1>1, AfterCases
  <2> QED
    BY <2>1 DEF Started
<1>2. CASE f.type = "chunk" /\ want[f.of] = want[d]
  <2>1. PICK t \in session[d], u \in session[d] : s = WithChunk(t, f.index) /\ o = WithChunk(u, f.index)
    BY <1>2, AfterCases DEF Chunked
  <2> QED
    BY <1>0, <2>1
<1>3. CASE f.type = "end" /\ f.of = d
  <2>1. PICK t \in session[d], u \in session[d] : s = [t EXCEPT !.endSeen = TRUE] /\ o = [u EXCEPT !.endSeen = TRUE]
    BY <1>3, AfterCases DEF EndedBy
  <2> QED
    BY <1>0, <2>1
<1>4. CASE AfterFrame(d, f) = session[d]
  BY <1>0, <1>4
<1> QED
  BY <1>1, <1>2, <1>3, <1>4, AfterCases

(* The step that handles a frame, without its bookkeeping.                  *)
LEMMA DeliverIs ==
  ASSUME IInv, NEW i, Deliver(i)
  PROVE  /\ i \in DOMAIN inbox /\ (inOrder => i = 1)
         /\ DOMAIN inbox = 1 .. Len(inbox) /\ Len(inbox) \in Nat
         /\ inbox' \in Seq(Frame) /\ DOMAIN inbox' = 1 .. Len(inbox) - 1 /\ Len(inbox') = Len(inbox) - 1
         /\ \A j \in 1 .. Len(inbox) - 1 : inbox'[j] = inbox[IF j < i THEN j ELSE j + 1]
         /\ inbox[i] \in Frame /\ inbox[i].of \in Downloads
         /\ inbox[i].type = "chunk" => inbox[i].index \in 1 .. MaxChunks
         /\ UNCHANGED <<want, total, inOrder, available, connected, started, requests>>
<1>0. TypeOK /\ FramesOK
  BY DEF IInv
<1>1. inbox \in Seq(Frame) /\ Len(inbox) \in Nat /\ DOMAIN inbox = 1 .. Len(inbox)
  BY <1>0, LenProperties DEF TypeOK
<1>2. i \in 1 .. Len(inbox) /\ (inOrder => i = 1) /\ inbox' = RemoveAt(inbox, i)
  BY <1>1 DEF Deliver
<1>3. /\ inbox' \in Seq(Frame) /\ Len(inbox') = Len(inbox) - 1 /\ DOMAIN inbox' = 1 .. Len(inbox) - 1
      /\ \A j \in 1 .. Len(inbox) - 1 : inbox'[j] = inbox[IF j < i THEN j ELSE j + 1]
  BY <1>1, <1>2, RemovedAt
<1>4. inbox[i] \in Frame
  BY <1>1, <1>2, ElementOfSeq
<1>5. inbox[i].of \in Downloads
  BY <1>4 DEF Frame
<1>6. inbox[i].type = "chunk" => inbox[i].index \in 1 .. MaxChunks
  BY <1>0, <1>1, <1>2, <1>5, DownloadsAssumption DEF FramesOK, TypeOK
<1>7. UNCHANGED <<want, total, inOrder, available, connected, started, requests>>
  BY DEF Deliver, given
<1> QED
  BY <1>1, <1>2, <1>3, <1>4, <1>5, <1>6, <1>7

LEMMA DeliverDomains ==
  ASSUME NEW i, Deliver(i)
  PROVE  DOMAIN session' = Downloads /\ outcome' = [d \in Downloads |-> outcome'[d]]
BY DEF Deliver

(* Its effect on the downloads.                                             *)
LEMMA DeliverEffect ==
  ASSUME IInv, NEW i, Deliver(i), NEW d \in Downloads
  PROVE  LET f == inbox[i]
             leaving == {e \in Handlers : Completes(e, f) \/ Refused(e, f)}
         IN  /\ d \in Reached(leaving) => d \in Handlers /\ session'[d] = AfterFrame(d, f)
             /\ d \notin Reached(leaving) => session'[d] = session[d] /\ outcome'[d] = outcome[d]
             /\ d \notin leaving => outcome'[d] = outcome[d]
             /\ d \in Reached(leaving) \cap leaving =>
                    outcome'[d] = IF Completes(d, f) THEN "done" ELSE "error"
<1> DEFINE f == inbox[i]
           done == {e \in Handlers : Completes(e, f)}
           refused == {e \in Handlers : Refused(e, f)}
           leaving == {e \in Handlers : Completes(e, f) \/ Refused(e, f)}
           reached == Reached(leaving)
<1>1. leaving = done \cup refused
  OBVIOUS
<1>2. /\ session' = [e \in Downloads |-> IF e \in reached THEN AfterFrame(e, f) ELSE session[e]]
      /\ outcome' = [e \in Downloads |-> CASE e \in reached \cap done -> "done"
                                           [] e \in reached \cap refused -> "error"
                                           [] OTHER -> outcome[e]]
  <2>1. Reached(done \cup refused) = reached
    BY <1>1
  <2> HIDE DEF leaving
  <2> QED
    BY <2>1 DEF Deliver
<1>3. reached \subseteq Handlers
  BY ReachedOnly
<1> HIDE DEF reached
<1>5. /\ d \in reached => d \in Handlers /\ session'[d] = AfterFrame(d, f)
      /\ d \notin reached => session'[d] = session[d] /\ outcome'[d] = outcome[d]
      /\ d \notin leaving => outcome'[d] = outcome[d]
      /\ d \in reached \cap leaving => outcome'[d] = IF Completes(d, f) THEN "done" ELSE "error"
  <2>1. session'[d] = IF d \in reached THEN AfterFrame(d, f) ELSE session[d]
    BY <1>2
  <2>3. outcome'[d] = CASE d \in reached \cap done -> "done"
                        [] d \in reached \cap refused -> "error"
                        [] OTHER -> outcome[d]
    BY <1>2
  <2>4. d \in done <=> d \in Handlers /\ Completes(d, f)
    OBVIOUS
  <2>5. d \notin done \cap refused
    <3>1. f \in Frame
      BY DeliverIs
    <3>2. Refused(d, f) => AfterFrame(d, f) = session[d]
      BY <3>1, AfterCases DEF Refused
    <3> QED
      BY <3>2 DEF Completes
  <2> HIDE DEF done, refused, leaving
  <2>6. /\ d \notin reached => outcome'[d] = outcome[d]
        /\ d \notin leaving => outcome'[d] = outcome[d]
        /\ d \in reached \cap leaving => outcome'[d] = IF d \in done THEN "done" ELSE "error"
    <3>1. CASE d \notin reached
      BY <2>3, <3>1
    <3>2. CASE d \in reached /\ d \in done
      <4>1. outcome'[d] = "done"
        BY <2>3, <2>5, <3>2
      <4> QED
        BY <1>1, <3>2, <4>1
    <3>3. CASE d \in reached /\ d \in refused /\ d \notin done
      <4>1. outcome'[d] = "error"
        BY <2>3, <3>3
      <4> QED
        BY <1>1, <3>3, <4>1
    <3>4. CASE d \notin refused /\ d \notin done
      BY <1>1, <2>3, <3>4
    <3> QED
      BY <3>1, <3>2, <3>3, <3>4
  <2> QED
    BY <1>3, <2>1, <2>4, <2>6
<1> QED
  BY <1>5 DEF reached
(* A frame changes nothing of a download that has not been served.          *)
LEMMA Unserved ==
  ASSUME IInv, NEW i, Deliver(i), NEW d \in requests
  PROVE  ~Completes(d, inbox[i]) /\ ~Refused(d, inbox[i])
<1> DEFINE f == inbox[i]
<1>1. d \in Downloads /\ session[d] = {}
  BY DEF IInv, TypeOK, Handlers, SessionsOK
<1>2. f \in Frame /\ f.of # d
  BY DeliverIs DEF IInv, FramesOK
<1>3. AfterFrame(d, f) = {}
  <2>1. Chunked(d, f.index) = {}
    BY <1>1 DEF Chunked
  <2> HIDE DEF f
  <2> QED
    BY <1>1, <1>2, <2>1, AfterCases
<1> QED
  BY <1>2, <1>3 DEF Completes, Refused

(* In whatever order frames are handled: types,                             *)
LEMMA DeliverTypes ==
  ASSUME IInv, NEW i, Deliver(i)
  PROVE  /\ TypeOK'
         /\ \A d \in Downloads : outcome'[d] = "new" <=> outcome[d] = "new"
         /\ \A d \in Downloads : \/ session'[d] = session[d]
                                 \/ d \in Handlers /\ session'[d] = AfterFrame(d, inbox[i])
<1> DEFINE f == inbox[i]
<1>0. TypeOK
  BY DEF IInv
<1>1. /\ f \in Frame
      /\ f.type = "chunk" => f.index \in 1 .. MaxChunks
      /\ inbox' \in Seq(Frame)
      /\ UNCHANGED <<want, total, inOrder, available, connected, started, requests>>
  BY DeliverIs
<1>2. ASSUME NEW d \in Downloads
      PROVE  /\ session'[d] = session[d] \/ (d \in Handlers /\ session'[d] = AfterFrame(d, f))
             /\ outcome'[d] = outcome[d] \/ (d \in Handlers /\ outcome'[d] \in {"done", "error"})
             /\ d \in requests => outcome'[d] = outcome[d]
  <2> DEFINE leaving == {e \in Handlers : Completes(e, f) \/ Refused(e, f)}
  <2>1. /\ d \in Reached(leaving) => d \in Handlers /\ session'[d] = AfterFrame(d, f)
        /\ d \notin Reached(leaving) => session'[d] = session[d] /\ outcome'[d] = outcome[d]
        /\ d \notin leaving => outcome'[d] = outcome[d]
        /\ d \in Reached(leaving) \cap leaving => outcome'[d] = IF Completes(d, f) THEN "done" ELSE "error"
    BY DeliverEffect
  <2>2. d \in requests => d \notin leaving
    BY Unserved
  <2> HIDE DEF leaving, f
  <2> QED
    BY <2>1, <2>2
<1> HIDE DEF f
<1>3. \A d \in Downloads : outcome'[d] = "new" <=> outcome[d] = "new"
  BY <1>2 DEF Handlers
<1>4. outcome' \in [Downloads -> {"new", "open", "done", "error"}]
  <2>1. \A d \in Downloads : outcome'[d] \in {"new", "open", "done", "error"}
    BY <1>0, <1>2 DEF TypeOK
  <2> QED
    BY <2>1, DeliverDomains
<1>5. \A d \in Downloads : session'[d] \subseteq Session /\ \A s, o \in session'[d] : s = o
  <2> TAKE d \in Downloads
  <2>1. CASE session'[d] = session[d]
    BY <1>0, <2>1 DEF TypeOK
  <2>2. CASE session'[d] = AfterFrame(d, f)
    <3>1. \A s \in AfterFrame(d, f) : s \in Session
      BY <1>0, <1>1, AfterFrameIs
    <3>2. \A s, o \in AfterFrame(d, f) : s = o
      BY <1>0, <1>1, AfterFrameOne
    <3> QED
      BY <2>2, <3>1, <3>2
  <2> QED
    BY <1>2, <2>1, <2>2
<1>6. requests' \subseteq Handlers'
  BY <1>0, <1>1, <1>2 DEF TypeOK, Handlers
<1>7. TypeOK'
  BY <1>0, <1>1, <1>3, <1>4, <1>5, <1>6, DeliverDomains DEF TypeOK
<1> QED
  BY <1>2, <1>3, <1>7 DEF f

(* frames and sessions,                                                     *)
LEMMA DeliverFrames ==
  ASSUME IInv, NEW i, Deliver(i)
  PROVE  FramesOK' /\ SessionsOK'
<1> DEFINE f == inbox[i]
<1>0. TypeOK /\ FramesOK /\ SessionsOK
  BY DEF IInv
<1>1. /\ f \in Frame /\ f.of \in Downloads /\ (f.type = "chunk" => f.index \in 1 .. MaxChunks)
      /\ i \in DOMAIN inbox /\ DOMAIN inbox = 1 .. Len(inbox) /\ Len(inbox) \in Nat
      /\ DOMAIN inbox' = 1 .. Len(inbox) - 1
      /\ \A j \in 1 .. Len(inbox) - 1 : inbox'[j] = inbox[IF j < i THEN j ELSE j + 1]
      /\ UNCHANGED <<want, total, requests>>
  BY DeliverIs
<1>2. \A d \in Downloads : /\ outcome'[d] = "new" <=> outcome[d] = "new"
                           /\ session'[d] = session[d] \/ session'[d] = AfterFrame(d, f)
  BY DeliverTypes
<1>3. FramesOK'
  <2>1. ASSUME NEW j \in DOMAIN inbox'
        PROVE  \E k \in DOMAIN inbox : k = (IF j < i THEN j ELSE j + 1) /\ inbox'[j] = inbox[k]
    BY <1>1
  <2>2. IsInjective(inbox')
    <3> SUFFICES ASSUME NEW j \in DOMAIN inbox', NEW l \in DOMAIN inbox', inbox'[j] = inbox'[l]
                 PROVE  j = l
      BY DEF IsInjective
    <3>1. (IF j < i THEN j ELSE j + 1) = IF l < i THEN l ELSE l + 1
      BY <1>0, <2>1 DEF FramesOK, IsInjective
    <3>2. j \in Nat /\ l \in Nat /\ i \in Nat
      BY <1>1
    <3> QED
      BY <3>1, <3>2
  <2>3. \A j \in DOMAIN inbox : inbox[j].of \in Downloads
    <3>1. \A j \in DOMAIN inbox : inbox[j] \in Frame
      BY <1>0, <1>1, ElementOfSeq DEF TypeOK
    <3> QED
      BY <3>1 DEF Frame
  <2> QED
    BY <1>0, <1>1, <1>2, <2>1, <2>2, <2>3 DEF FramesOK
<1>4. SessionsOK'
  <2> SUFFICES ASSUME NEW d \in Downloads, NEW s \in session'[d]
               PROVE  d \notin requests /\ outcome[d] # "new" /\ s.chunks \subseteq 1 .. total[want[d]]
    BY <1>1, <1>2 DEF SessionsOK
  <2>1. CASE s \in session[d]
    BY <1>0, <2>1 DEF SessionsOK
  <2>2. CASE s \in AfterFrame(d, f)
    <3>1. \/ f.of = d /\ s.chunks = {}
          \/ /\ f.type = "chunk" /\ want[f.of] = want[d]
             /\ \E t \in session[d] : s.chunks = t.chunks \cup {f.index}
          \/ \E t \in session[d] : s.chunks = t.chunks
      BY <1>0, <1>1, <2>2, AfterFrameIs
    <3>2. /\ f.of \notin requests /\ outcome[f.of] # "new"
          /\ f.type = "chunk" => f.index \in 1 .. total[want[f.of]]
      BY <1>0, <1>1 DEF FramesOK
    <3> HIDE DEF f
    <3> QED
      BY <1>0, <3>1, <3>2 DEF SessionsOK
  <2> QED
    BY <1>2, <2>1, <2>2
<1> QED
  BY <1>3, <1>4

(* what is counted of a download that is alone,                             *)
LEMMA DeliverCounted ==
  ASSUME IInv, NEW i, Deliver(i)
  PROVE  Counted'
<1> DEFINE f == inbox[i]
<1>0. TypeOK /\ FramesOK /\ SessionsOK /\ Counted
  BY DEF IInv
<1>1. /\ f \in Frame /\ f.of \in Downloads /\ (f.type = "chunk" => f.index \in 1 .. MaxChunks)
      /\ i \in DOMAIN inbox /\ DOMAIN inbox = 1 .. Len(inbox) /\ Len(inbox) \in Nat
      /\ DOMAIN inbox' = 1 .. Len(inbox) - 1
      /\ \A j \in 1 .. Len(inbox) - 1 : inbox'[j] = inbox[IF j < i THEN j ELSE j + 1]
      /\ UNCHANGED <<want, total, requests>>
  BY DeliverIs
<1>2. \A d \in Downloads : /\ outcome'[d] = "new" <=> outcome[d] = "new"
                           /\ session'[d] = session[d] \/ session'[d] = AfterFrame(d, f)
  BY DeliverTypes
<1>3. ASSUME NEW j \in DOMAIN inbox'
      PROVE  \E k \in DOMAIN inbox : k # i /\ inbox'[j] = inbox[k]
  BY <1>1
<1> SUFFICES ASSUME NEW d \in Downloads, Alone(d), NEW s \in session'[d]
             PROVE  /\ s.received = Cardinality(s.chunks)
                    /\ \A j \in DOMAIN inbox' : inbox'[j].of = d /\ inbox'[j].type = "chunk"
                                                  => inbox'[j].index \notin s.chunks
  BY <1>1, <1>2 DEF Counted, Alone
<1>4. ASSUME NEW t \in session[d]
      PROVE  /\ t.received = Cardinality(t.chunks) /\ IsFiniteSet(t.chunks)
             /\ \A k \in DOMAIN inbox : inbox[k].of = d /\ inbox[k].type = "chunk"
                                          => inbox[k].index \notin t.chunks
  <2>1. t.chunks \in SUBSET (1 .. MaxChunks) /\ 1 \in Int /\ MaxChunks \in Int
    BY <1>0, DownloadsAssumption DEF TypeOK, Session
  <2>2. IsFiniteSet(t.chunks)
    BY <2>1, FS_Interval, FS_Subset
  <2> QED
    BY <1>0, <2>2 DEF Counted
<1>5. CASE \E t \in session[d] : s.chunks = t.chunks /\ s.received = t.received
  BY <1>3, <1>4, <1>5
<1>6. CASE s.chunks = {} /\ s.received = 0
  BY <1>6, FS_EmptySet
<1>7. CASE /\ f.type = "chunk" /\ want[f.of] = want[d]
           /\ \E t \in session[d] : s.chunks = t.chunks \cup {f.index} /\ s.received = t.received + 1
  <2>1. f.of = d
    BY <1>0, <1>1, <1>7 DEF FramesOK, Alone
  <2>2. PICK t \in session[d] : s.chunks = t.chunks \cup {f.index} /\ s.received = t.received + 1
    BY <1>7
  <2>3. f.index \notin t.chunks
    BY <1>1, <1>4, <1>7, <2>1
  <2>4. Cardinality(s.chunks) = Cardinality(t.chunks) + 1
    BY <1>4, <2>2, <2>3, FS_AddElement
  <2>5. ASSUME NEW j \in DOMAIN inbox', inbox'[j].of = d, inbox'[j].type = "chunk"
        PROVE  inbox'[j].index \notin s.chunks
    <3>1. PICK k \in DOMAIN inbox : k # i /\ inbox'[j] = inbox[k]
      BY <1>3
    <3>2. inbox[k] # inbox[i] /\ inbox[k] \in Frame
      BY <1>0, <1>1, <3>1, ElementOfSeq DEF FramesOK, IsInjective, TypeOK
    <3>3. inbox[k].index # f.index
      BY <1>1, <1>7, <2>1, <2>5, <3>1, <3>2 DEF Frame
    <3> QED
      BY <1>4, <2>2, <2>5, <3>1, <3>3
  <2> QED
    BY <1>4, <2>2, <2>4, <2>5
<1>8. s \in session[d] \/ s \in AfterFrame(d, f)
  BY <1>2
<1> QED
  BY <1>0, <1>1, <1>5, <1>6, <1>7, <1>8, AfterFrameIs

(* and a file that is done.                                                 *)
LEMMA DeliverAlone ==
  ASSUME IInv, NEW i, Deliver(i), NEW d \in Downloads, outcome'[d] = "done", Alone(d)'
  PROVE  Whole(d)'
<1> DEFINE f == inbox[i]
           leaving == {e \in Handlers : Completes(e, f) \/ Refused(e, f)}
<1>0. TypeOK /\ Intact
  BY DEF IInv
<1>1. /\ d \in Reached(leaving) => d \in Handlers /\ session'[d] = AfterFrame(d, f)
      /\ d \notin Reached(leaving) => session'[d] = session[d] /\ outcome'[d] = outcome[d]
      /\ d \notin leaving => outcome'[d] = outcome[d]
      /\ d \in Reached(leaving) \cap leaving => outcome'[d] = IF Completes(d, f) THEN "done" ELSE "error"
  BY DeliverEffect
<1>2. UNCHANGED <<want, total>>
  BY DeliverIs
<1>3. \A e \in Downloads : outcome'[e] = "new" <=> outcome[e] = "new"
  BY DeliverTypes
<1>4. Alone(d)
  BY <1>2, <1>3 DEF Alone
<1> HIDE DEF leaving
<1>5. CASE d \in Reached(leaving) /\ d \in leaving
  <2>1. Completes(d, f) /\ session'[d] = AfterFrame(d, f)
    BY <1>1, <1>5
  <2>2. PICK s \in session'[d] : s.received >= total[want[d]]
    BY <2>1 DEF Completes
  <2>3. s.received = Cardinality(s.chunks)
    <3>1. Counted'
      BY DeliverCounted
    <3> QED
      BY <3>1 DEF Counted
  <2>4. s.chunks \subseteq 1 .. total[want[d]]
    <3>1. SessionsOK'
      BY DeliverFrames
    <3> QED
      BY <1>2, <3>1 DEF SessionsOK
  <2>5. total[want[d]] \in Nat
    BY <1>0, DownloadsAssumption DEF TypeOK
  <2>6. s.chunks = 1 .. total[want[d]]
    <3> DEFINE n == total[want[d]]
    <3>1. IsFiniteSet(1 .. n) /\ Cardinality(1 .. n) = n
      <4>1. 1 \in Int /\ n \in Int /\ (IF 1 > n THEN 0 ELSE n - 1 + 1) = n
        BY <2>5
      <4> HIDE DEF n
      <4> QED
        BY <4>1, FS_Interval
    <3> HIDE DEF n
    <3>2. Cardinality(s.chunks) >= n
      BY <2>2, <2>3 DEF n
    <3>3. s.chunks \subseteq 1 .. n
      BY <2>4 DEF n
    <3>4. Cardinality(s.chunks) = Cardinality(1 .. n)
      <4>1. Cardinality(s.chunks) \in Nat /\ Cardinality(s.chunks) <= n
        BY <3>1, <3>3, FS_Subset, FS_CardinalityType
      <4> QED
        BY <2>5, <3>1, <3>2, <4>1 DEF n
    <3>5. s.chunks = 1 .. n
      BY <3>1, <3>3, <3>4, FS_Subset
    <3> QED
      BY <3>5 DEF n
  <2> QED
    BY <1>2, <2>6 DEF Whole
<1>6. CASE ~(d \in Reached(leaving) /\ d \in leaving)
  <2>1. outcome[d] = "done"
    BY <1>1, <1>6
  <2>2. session'[d] = session[d]
    BY <1>1, <2>1 DEF Handlers
  <2> QED
    BY <1>0, <1>2, <1>4, <2>1, <2>2 DEF Intact, Whole
<1> QED
  BY <1>5, <1>6
-----------------------------------------------------------------------------
(* A session that has n chunks in order and gets the next one.              *)
LEMMA NextInOrder ==
  ASSUME NEW n \in 1 .. MaxChunks
  PROVE  /\ SoFar(n - 1) \in Session /\ SoFar(n) \in Session
         /\ WithChunk(SoFar(n - 1), n) = SoFar(n)
<1>1. n \in Nat /\ n - 1 \in Nat /\ MaxChunks \in Nat
  BY DownloadsAssumption
<1>2. SoFar(n - 1) \in Session /\ SoFar(n) \in Session
  BY <1>1 DEF SoFar, Session
<1>3. SoFar(n - 1).chunks \cup {n} = SoFar(n).chunks
  BY <1>1 DEF SoFar
<1>4. SoFar(n - 1).received + 1 = SoFar(n).received /\ SoFar(n - 1).endSeen = SoFar(n).endSeen
  BY <1>1 DEF SoFar
<1> DEFINE s == WithChunk(SoFar(n - 1), n)
<1>5. s \in Session /\ s.chunks = SoFar(n).chunks /\ s.received = SoFar(n).received
      /\ s.endSeen = SoFar(n).endSeen
  BY <1>2, <1>3, <1>4, WithChunkIs
<1> HIDE DEF s
<1>6. \A t, u \in Session : t.chunks = u.chunks /\ t.received = u.received /\ t.endSeen = u.endSeen
                             => t = u
  BY DEF Session
<1>7. s = SoFar(n)
  BY <1>2, <1>5, <1>6
<1> QED
  BY <1>2, <1>7 DEF s

(* If frames are handled in order, the one in front changes its download    *)
(* and no other, and no handler is passed over.                             *)
LEMMA InOrderEffect ==
  ASSUME IInv, inOrder, Deliver(1)
  PROVE  LET f == inbox[1]
         IN  /\ f.of \in Handlers
             /\ \A e \in Downloads \ {f.of} : session'[e] = session[e] /\ outcome'[e] = outcome[e]
             /\ f.type = "start" => session'[f.of] = {SoFar(0)} /\ outcome'[f.of] = outcome[f.of]
             /\ f.type = "chunk" => session'[f.of] = {SoFar(f.index)} /\ outcome'[f.of] = outcome[f.of]
             /\ f.type = "end" => /\ outcome'[f.of] = "done"
                                  /\ \E s \in session'[f.of] : s.chunks = 1 .. total[want[f.of]]
             /\ f.type = "error" => outcome'[f.of] = "error"
<1> DEFINE f == inbox[1]
           d == f.of
           leaving == {e \in Handlers : Completes(e, f) \/ Refused(e, f)}
<1>0. TypeOK /\ Streamed /\ FramesOK
  BY DEF IInv
<1>1. /\ f \in Frame /\ d \in Downloads /\ (f.type = "chunk" => f.index \in 1 .. MaxChunks)
      /\ 1 \in DOMAIN inbox /\ DOMAIN inbox = 1 .. Len(inbox) /\ Len(inbox) \in Nat
      /\ UNCHANGED <<want, total>>
  BY DeliverIs
<1>2. inbox # <<>>
  BY <1>1
<1>3. d \in Handlers /\ Ready(f)
  BY <1>0, <1>1, <1>2 DEF Streamed, OpenOnly, FrontReady
<1>4. \A e \in Handlers \ {d} : session[e] = {}
  BY <1>0, <1>2 DEF Streamed, FrontOnly, InFront
<1>6. \A e \in Downloads :
        /\ e \in Reached(leaving) => e \in Handlers /\ session'[e] = AfterFrame(e, f)
        /\ e \notin Reached(leaving) => session'[e] = session[e] /\ outcome'[e] = outcome[e]
        /\ e \notin leaving => outcome'[e] = outcome[e]
        /\ e \in Reached(leaving) \cap leaving => outcome'[e] = IF Completes(e, f) THEN "done" ELSE "error"
  BY DeliverEffect
<1> HIDE DEF f
<1>7. \A e \in Handlers \ {d} : AfterFrame(e, f) = session[e]
  <2> TAKE e \in Handlers \ {d}
  <2>1. e \in Downloads /\ session[e] = {}
    BY <1>4 DEF Handlers
  <2>2. Chunked(e, f.index) = {}
    BY <2>1 DEF Chunked
  <2> QED
    BY <1>1, <2>1, <2>2, AfterCases
<1>8. \A e \in Handlers \ {d} : e \notin leaving
  BY <1>7 DEF Completes, Refused
<1>9. d \in Reached(leaving)
  BY <1>0, <1>3, <1>8, ReachedAlone
<1> HIDE DEF leaving
<1>10. \A e \in Downloads \ {d} : session'[e] = session[e] /\ outcome'[e] = outcome[e]
  <2> TAKE e \in Downloads \ {d}
  <2>1. CASE e \in Handlers
    BY <1>6, <1>7, <1>8, <2>1
  <2>2. CASE e \notin Handlers
    BY <1>6, <2>2
  <2> QED
    BY <2>1, <2>2
<1>11. CASE f.type = "start"
  <2>1. AfterFrame(d, f) = {SoFar(0)}
    <3>1. AfterFrame(d, f) = Started
      BY <1>1, <1>11, AfterCases
    <3>2. 1 .. 0 = {}
      OBVIOUS
    <3> QED
      BY <3>1, <3>2 DEF Started, SoFar
  <2>2. d \notin leaving
    BY <1>11, <2>1 DEF leaving, Completes, Refused, SoFar
  <2> QED
    BY <1>1, <1>3, <1>6, <1>9, <1>10, <1>11, <2>1, <2>2 DEF f
<1>12. CASE f.type = "chunk"
  <2>1. session[d] = {SoFar(f.index - 1)}
    BY <1>3, <1>12 DEF Ready
  <2>2. AfterFrame(d, f) = {SoFar(f.index)}
    <3>1. AfterFrame(d, f) = Chunked(d, f.index)
      BY <1>1, <1>12, AfterCases
    <3>2. Chunked(d, f.index) = {WithChunk(SoFar(f.index - 1), f.index)}
      BY <2>1 DEF Chunked
    <3> QED
      BY <1>1, <1>12, <3>1, <3>2, NextInOrder
  <2>3. d \notin leaving
    BY <1>12, <2>2 DEF leaving, Completes, Refused, SoFar
  <2> QED
    BY <1>1, <1>3, <1>6, <1>9, <1>10, <1>12, <2>2, <2>3 DEF f
<1>13. CASE f.type = "end"
  <2> DEFINE n == total[want[d]]
             t == SoFar(n)
             s == [t EXCEPT !.endSeen = TRUE]
  <2>1. n \in 1 .. MaxChunks
    BY <1>0, <1>1 DEF TypeOK
  <2>2. session[d] = {t}
    BY <1>3, <1>13 DEF Ready
  <2>3. AfterFrame(d, f) = {s}
    <3>1. AfterFrame(d, f) = EndedBy(d)
      BY <1>1, <1>13, AfterCases
    <3> HIDE DEF t
    <3> QED
      BY <2>2, <3>1 DEF EndedBy
  <2>4. t \in Session /\ t.chunks = 1 .. n /\ t.received = n /\ t.endSeen = FALSE
    <3>1. t \in Session
      BY <2>1, NextInOrder
    <3> QED
      BY <3>1 DEF SoFar
  <2> HIDE DEF t
  <2>5. s.chunks = 1 .. n /\ s.received = n /\ s.endSeen = TRUE
    BY <2>4, EndSeenIs
  <2> HIDE DEF s, n
  <2>6. Completes(d, f)
    BY <2>1, <2>2, <2>3, <2>4, <2>5 DEF Completes, n
  <2>7. d \in leaving
    BY <1>3, <2>6 DEF leaving
  <2>8. outcome'[d] = "done" /\ session'[d] = {s}
    <3>1. /\ d \in Downloads /\ session'[d] = AfterFrame(d, f)
          /\ outcome'[d] = IF Completes(d, f) THEN "done" ELSE "error"
      BY <1>1, <1>6, <1>9, <2>7
    <3> QED
      BY <2>3, <2>6, <3>1
  <2>9. \E u \in session'[d] : u.chunks = 1 .. total[want[d]]
    BY <2>5, <2>8 DEF n
  <2> QED
    BY <1>3, <1>10, <1>13, <2>8, <2>9 DEF f
<1>14. CASE f.type = "error"
  <2>1. AfterFrame(d, f) = session[d]
    BY <1>1, <1>14, AfterCases
  <2>2. ~Completes(d, f) /\ Refused(d, f)
    BY <1>14, <2>1 DEF Completes, Refused
  <2>3. outcome'[d] = "error"
    BY <1>1, <1>3, <1>6, <1>9, <2>2 DEF leaving
  <2> QED
    BY <1>3, <1>10, <1>14, <2>3 DEF f
<1> QED
  BY <1>1, <1>11, <1>12, <1>13, <1>14 DEF Frame
LEMMA DeliverInOrder ==
  ASSUME IInv, inOrder, Deliver(1)
  PROVE  Streamed'
<1> DEFINE f == inbox[1]
           d == f.of
<1>0. TypeOK /\ Streamed /\ FramesOK
  BY DEF IInv
<1>1. /\ f \in Frame /\ d \in Downloads
      /\ 1 \in DOMAIN inbox /\ DOMAIN inbox = 1 .. Len(inbox) /\ Len(inbox) \in Nat
      /\ inbox' \in Seq(Frame) /\ DOMAIN inbox' = 1 .. Len(inbox) - 1 /\ Len(inbox') = Len(inbox) - 1
      /\ \A j \in 1 .. Len(inbox) - 1 : inbox'[j] = inbox[IF j < 1 THEN j ELSE j + 1]
      /\ UNCHANGED <<want, total, connected, requests>>
  BY DeliverIs
<1>2. \A j \in DOMAIN inbox' : /\ j \in Nat /\ j >= 1 /\ j + 1 \in DOMAIN inbox /\ 1 < j + 1
                               /\ inbox'[j] = inbox[j + 1]
  BY <1>1
<1>3. inbox # <<>>
  BY <1>1
<1>4. \A k \in DOMAIN inbox : inbox[k].of \in Handlers
  BY <1>0 DEF Streamed, OpenOnly
<1>5. /\ d \in Handlers
      /\ \A e \in Downloads \ {d} : session'[e] = session[e] /\ outcome'[e] = outcome[e]
      /\ f.type = "start" => session'[d] = {SoFar(0)} /\ outcome'[d] = outcome[d]
      /\ f.type = "chunk" => session'[d] = {SoFar(f.index)} /\ outcome'[d] = outcome[d]
      /\ f.type = "end" => outcome'[d] = "done"
      /\ f.type = "error" => outcome'[d] = "error"
      /\ f.type \in {"start", "chunk", "end", "error"}
  <2>1. f.type \in {"start", "chunk", "end", "error"}
    BY <1>1 DEF Frame
  <2> QED
    BY <2>1, InOrderEffect
<1>6. inbox' # <<>> => /\ 1 \in DOMAIN inbox' /\ 2 \in DOMAIN inbox /\ inbox'[1] = inbox[2]
                       /\ Follows(f, inbox[2])
  <2>1. inbox' # <<>> => Len(inbox) - 1 >= 1
    BY <1>1, EmptySeq
  <2>2. ASSUME Len(inbox) - 1 >= 1
        PROVE  1 \in DOMAIN inbox' /\ 2 \in DOMAIN inbox /\ inbox'[1] = inbox[2] /\ Follows(f, inbox[2])
    <3>1. 1 \in DOMAIN inbox' /\ 2 \in DOMAIN inbox /\ inbox'[1] = inbox[2] /\ 2 = 1 + 1
      BY <1>1, <2>2
    <3> QED
      BY <1>0, <1>1, <3>1 DEF Streamed, InSequence
  <2> QED
    BY <2>1, <2>2
<1>7. inbox' = <<>> => Len(inbox) = 1
  <2>1. Len(inbox') = Len(inbox) - 1 /\ Len(inbox) \in Nat
    BY <1>1
  <2> QED
    BY ONLY <2>1, EmptySeq
<1>8. \A k \in DOMAIN inbox : inbox[k] \in Frame /\ inbox[k].of \in Downloads
  <2>1. \A k \in DOMAIN inbox : inbox[k] \in Frame
    BY <1>0, <1>1, ElementOfSeq DEF TypeOK
  <2> QED
    BY <2>1 DEF Frame
<1> HIDE DEF f
<1>9. ASSUME NEW k \in DOMAIN inbox, 1 < k, inbox[k].of = d PROVE ~Ends(f)
  BY <1>0, <1>1, <1>9 DEF Streamed, EndsOnce, f
<1>10. ~Ends(f) => outcome'[d] = outcome[d]
  BY <1>5 DEF Ends
<1>11. OpenOnly'
  <2>1. ASSUME NEW j \in DOMAIN inbox' PROVE inbox'[j].of \in Downloads /\ outcome'[inbox'[j].of] = "open"
    <3>1. inbox'[j].of = inbox[j + 1].of /\ inbox[j + 1].of \in Downloads /\ outcome[inbox[j + 1].of] = "open"
      BY <1>2, <1>4 DEF Handlers
    <3>2. CASE inbox[j + 1].of = d
      BY <1>2, <1>9, <1>10, <3>1, <3>2
    <3>3. CASE inbox[j + 1].of # d
      BY <1>5, <3>1, <3>3
    <3> QED
      BY <3>2, <3>3
  <2> QED
    BY <2>1 DEF OpenOnly, Handlers
<1>12. InSequence'
  <2>1. ASSUME NEW j \in DOMAIN inbox', NEW k \in DOMAIN inbox', k = j + 1
        PROVE  Follows(inbox'[j], inbox'[k])
    <3>1. j + 1 \in DOMAIN inbox /\ k + 1 \in DOMAIN inbox /\ k + 1 = (j + 1) + 1
          /\ inbox'[j] = inbox[j + 1] /\ inbox'[k] = inbox[k + 1]
      BY <1>2, <2>1
    <3>2. Follows(inbox[j + 1], inbox[k + 1])
      BY <1>0, <3>1 DEF Streamed, InSequence
    <3> QED
      BY <3>1, <3>2
  <2>2. ASSUME NEW j \in DOMAIN inbox', NEW k \in DOMAIN inbox', k = j + 1
        PROVE  Follows(inbox[j], inbox[k])'
    BY <1>1, <2>1, <2>2 DEF Follows
  <2> QED
    BY <2>2 DEF InSequence
<1>13. EndsOnce'
  <2>1. ASSUME NEW j \in DOMAIN inbox', NEW k \in DOMAIN inbox', j < k, inbox'[j].of = inbox'[k].of
        PROVE  ~Ends(inbox'[j])
    <3>1. j + 1 \in DOMAIN inbox /\ k + 1 \in DOMAIN inbox /\ j + 1 < k + 1
          /\ inbox'[j] = inbox[j + 1] /\ inbox'[k] = inbox[k + 1]
      BY <1>2, <2>1
    <3> QED
      BY <1>0, <2>1, <3>1 DEF Streamed, EndsOnce
  <2> QED
    BY <2>1 DEF EndsOnce, Ends
<1>14. SentWhole'
  <2>1. ASSUME connected, inbox' # <<>> PROVE Ends(inbox'[Len(inbox')])
    <3>1. /\ Len(inbox') \in DOMAIN inbox' /\ Len(inbox') + 1 = Len(inbox)
          /\ inbox'[Len(inbox')] = inbox[Len(inbox') + 1]
      BY <1>1, <1>2, <1>6, <2>1
    <3>2. inbox'[Len(inbox')] = inbox[Len(inbox)]
      BY <3>1
    <3>3. Ends(inbox[Len(inbox)])
      BY <1>0, <1>3, <2>1 DEF Streamed, SentWhole
    <3> QED
      BY <3>2, <3>3
  <2> QED
    BY <1>1, <2>1 DEF SentWhole, Ends
<1>15. FrontReady'
  <2> DEFINE g == inbox[2]
  <2>1. ASSUME inbox' # <<>>
        PROVE  /\ g.type = "chunk" => session'[g.of] = {SoFar(g.index - 1)}
               /\ g.type = "end" => session'[g.of] = {SoFar(total[want[g.of]])}
    <3>0. Follows(f, g)
      BY <1>6, <2>1
    <3>1. CASE f.type = "start"
      <4>1. g.type = "chunk" /\ g.of = d /\ g.index = 1 /\ g.index - 1 = 0
        BY <3>0, <3>1 DEF Follows, ChunkFrame
      <4> QED
        BY <1>5, <3>1, <4>1
    <3>2. CASE f.type = "chunk" /\ f.index < total[want[d]]
      <4>1. f.index \in Nat
        BY <1>1 DEF Frame
      <4>2. g.type = "chunk" /\ g.of = d /\ g.index - 1 = f.index
        BY <3>0, <3>2, <4>1 DEF Follows, ChunkFrame
      <4> QED
        BY <1>5, <3>2, <4>2
    <3>3. CASE f.type = "chunk" /\ ~(f.index < total[want[d]])
      <4>1. f.index = total[want[d]]
        <5>1. f.index \in 1 .. total[want[d]] /\ total[want[d]] \in Nat
          BY <1>0, <1>1, <3>3, DownloadsAssumption DEF FramesOK, TypeOK, f
        <5> QED
          BY <3>3, <5>1
      <4>2. g.type = "end" /\ g.of = d
        BY <3>0, <3>3 DEF Follows, About
      <4> QED
        BY <1>5, <3>3, <4>1, <4>2
    <3>4. CASE Ends(f)
      BY <3>0, <3>4 DEF Follows
    <3> QED
      BY <1>5, <3>1, <3>2, <3>3, <3>4 DEF Ends
  <2> QED
    BY <1>1, <1>6, <2>1 DEF FrontReady, Ready
<1>16. FrontOnly'
  <2>1. ASSUME NEW e \in Downloads, outcome'[e] = "open", session'[e] # {}
        PROVE  /\ inbox' = <<>> => ~connected
               /\ inbox' # <<>> => inbox'[1].of = e /\ inbox'[1].type \in {"chunk", "end"}
    <3>1. e = d
      <4>1. ASSUME e # d PROVE FALSE
        <5>1. e \in Handlers /\ session[e] # {}
          BY <1>5, <2>1, <4>1 DEF Handlers
        <5> QED
          BY <1>0, <1>3, <4>1, <5>1 DEF Streamed, FrontOnly, InFront, f
      <4> QED
        BY <4>1
    <3>2. f.type \in {"start", "chunk"}
      BY <1>5, <2>1, <3>1
    <3>3. inbox' = <<>> => ~connected
      <4>1. ASSUME inbox' = <<>>, connected PROVE FALSE
        <5>1. Ends(f)
          BY <1>0, <1>3, <1>7, <4>1 DEF Streamed, SentWhole, f
        <5> QED
          BY <3>2, <5>1 DEF Ends
      <4> QED
        BY <4>1
    <3>4. inbox' # <<>> => inbox'[1].of = d /\ inbox'[1].type \in {"chunk", "end"}
      BY <1>6, <3>2 DEF Follows, About, ChunkFrame
    <3> QED
      BY <3>1, <3>3, <3>4
  <2> QED
    BY <1>1, <2>1 DEF FrontOnly, InFront, Handlers
<1>17. EndToCome'
  <2>1. ASSUME connected, NEW e \in Downloads, outcome'[e] = "open", e \notin requests
        PROVE  \E j \in DOMAIN inbox' : inbox'[j].of = e /\ Ends(inbox'[j])
    <3>1. e \in Handlers
      BY <1>5, <2>1 DEF Handlers
    <3>2. PICK k \in DOMAIN inbox : inbox[k].of = e /\ Ends(inbox[k])
      BY <1>0, <2>1, <3>1 DEF Streamed, EndToCome
    <3>3. k # 1
      <4>1. ASSUME k = 1 PROVE FALSE
        <5>1. e = d /\ Ends(f)
          BY <3>2, <4>1 DEF f
        <5> QED
          BY <1>5, <2>1, <5>1 DEF Ends
      <4> QED
        BY <4>1
    <3>4. k - 1 \in DOMAIN inbox' /\ (k - 1) + 1 = k
      BY <1>1, <3>2, <3>3
    <3>5. inbox'[k - 1] = inbox[k]
      BY <1>2, <3>4
    <3> QED
      BY <3>2, <3>4, <3>5
  <2> QED
    BY <1>1, <2>1 DEF EndToCome, Handlers, Ends
<1> QED
  BY <1>11, <1>12, <1>13, <1>14, <1>15, <1>16, <1>17 DEF Streamed

LEMMA DeliverInv ==
  ASSUME IInv, NEW i, Deliver(i)
  PROVE  IInv'
<1>1. UNCHANGED <<want, total, inOrder>> /\ (inOrder => i = 1)
  BY DeliverIs
<1>2. inOrder' => Streamed'
  BY <1>1, DeliverInOrder
<1>3. Intact'
  <2> SUFFICES ASSUME NEW d \in Downloads, outcome'[d] = "done", inOrder' \/ Alone(d)' PROVE Whole(d)'
    BY DEF Intact
  <2>1. CASE Alone(d)'
    BY <2>1, DeliverAlone
  <2>2. CASE inOrder'
    <3> DEFINE f == inbox[1]
    <3>0. inOrder /\ Deliver(1)
      BY <1>1, <2>2
    <3>1. /\ f.of \in Handlers /\ f \in Frame
          /\ \A e \in Downloads \ {f.of} : session'[e] = session[e] /\ outcome'[e] = outcome[e]
          /\ f.type = "start" => outcome'[f.of] = outcome[f.of]
          /\ f.type = "chunk" => outcome'[f.of] = outcome[f.of]
          /\ f.type = "end" => \E s \in session'[f.of] : s.chunks = 1 .. total[want[f.of]]
          /\ f.type = "error" => outcome'[f.of] = "error"
      BY <3>0, InOrderEffect, DeliverIs
    <3> HIDE DEF f
    <3>2. CASE d = f.of
      <4>1. f.type = "end"
        BY <3>1, <3>2 DEF Frame, Handlers
      <4> QED
        BY <1>1, <3>1, <3>2, <4>1 DEF Whole
    <3>3. CASE d # f.of
      <4>1. outcome[d] = "done" /\ session'[d] = session[d]
        BY <3>1, <3>3
      <4>2. Whole(d)
        BY <3>0, <4>1 DEF IInv, Intact
      <4> QED
        BY <1>1, <4>1, <4>2 DEF Whole
    <3> QED
      BY <3>2, <3>3
  <2> QED
    BY <2>1, <2>2
<1> QED
  BY <1>2, <1>3, DeliverTypes, DeliverFrames, DeliverCounted DEF IInv
-----------------------------------------------------------------------------
(* Every step keeps the invariant.                                          *)
LEMMA NextInv ==
  ASSUME IInv, [Next]_vars
  PROVE  IInv'
<1>1. CASE UNCHANGED vars
  <2>0. UNCHANGED <<want, total, inOrder, available, connected, outcome, started, session, requests, inbox>>
    BY <1>1 DEF vars, given, client
  <2>1. TypeOK' /\ FramesOK' /\ SessionsOK'
    BY <2>0 DEF IInv, TypeOK, FramesOK, SessionsOK, Handlers
  <2>2. Counted' /\ Intact'
    BY <2>0 DEF IInv, Counted, Intact, Whole, Alone
  <2>3. inOrder' => Streamed'
    BY <2>0 DEF IInv, Streamed, OpenOnly, InSequence, EndsOnce, SentWhole, FrontReady, FrontOnly,
                EndToCome, InFront, Handlers, Ready, Follows
  <2> QED
    BY <2>1, <2>2, <2>3 DEF IInv
<1>2. CASE Next
  BY <1>2, StartDownloadInv, ServeInv, RemoveAttachmentInv, DisconnectInv, DeliverInv DEF Next
<1> QED
  BY <1>1, <1>2

(* The invariant holds for any number of downloads, attachments and chunks, *)
(* and however many frames are decoded at a time.                           *)
THEOREM Invariance == Spec => []IInv
<1>1. IInv /\ [Next]_vars => IInv'
  BY NextInv
<1> QED
  BY InitInv, <1>1, PTL DEF Spec

(* Every variable keeps its type: in particular a request that has not been *)
(* served has a handler that waits for its answer.                          *)
THEOREM TypeCorrect == Spec => []TypeOK
<1>1. IInv => TypeOK
  BY DEF IInv
<1> QED
  BY Invariance, <1>1, PTL

(* A file that is offered for saving is whole, if frames come in order or   *)
(* the download is the only one of its attachment (tryAssembleBlob).        *)
THEOREM FilesAreIntact == Spec => []Intact
<1>1. IInv => Intact
  BY DEF IInv
<1> QED
  BY Invariance, <1>1, PTL

(* If frames come in order, a download is left waiting by nothing: not by a *)
(* handler that the observer passes over, nor by chunks of another download *)
(* of the attachment.                                                       *)
THEOREM DownloadsEnd == Spec => []EndedInOrder
<1>1. IInv => EndedInOrder
  <2> SUFFICES ASSUME IInv, inOrder, connected, requests = {}, inbox = <<>>,
                      NEW d \in Downloads, outcome[d] = "open"
               PROVE  FALSE
    BY DEF EndedInOrder, Ended
  <2>1. d \in Handlers \ requests
    BY DEF Handlers
  <2>2. \E i \in DOMAIN inbox : inbox[i].of = d
    BY <2>1 DEF IInv, Streamed, EndToCome
  <2>3. DOMAIN inbox = {}
    OBVIOUS
  <2> QED
    BY <2>2, <2>3
<1> QED
  BY Invariance, <1>1, PTL
=============================================================================
