----------------------------- MODULE UploadsProofs -----------------------------
(***************************************************************************)
(* Proofs about Uploads, for any number of uploads that share a            *)
(* connection, any file sizes and limits, and frames decoded in any order. *)
(*                                                                         *)
(* The argument follows an upload from stage to stage: it waits, has its   *)
(* id on the way to the client, is read, has its chunks on the way to the  *)
(* server, and ends in a task.  No variable says which id belongs to which *)
(* upload, so the invariant says that there is a function that does.       *)
(***************************************************************************)
EXTENDS Uploads, SequenceTheorems, FiniteSetTheorems, TLAPS

-----------------------------------------------------------------------------
(* What the variables range over.                                           *)
UpFrame == [type : {"start", "end"}, req : Uploads, id : Nat]
           \cup [type : {"chunk"}, id : Nat, index : Nat, data : Uploads \X Nat]
DownFrame == [type : {"ready", "done"}, req : Uploads, id : Nat]
             \cup [type : {"error"}, req : Requests, code : Codes]
Buffered == [id : Nat, message : Messages, size : Nat, chunks : Seq(Uploads \X Nat), stale : BOOLEAN]
JobPc == {"insert", "select", "check", "evict", "announce", "fail"}
JobRec == [req : Uploads, message : Messages, chunks : Seq(Uploads \X Nat), row : Nat, pc : JobPc]
RowRec == [id : Nat, message : Messages, chunks : Seq(Uploads \X Nat)]

Types == /\ size \in [Uploads -> 1 .. MaxSize] /\ message \in [Uploads -> Messages]
         /\ existing \subseteq Messages
         /\ outcome \in [Uploads -> {"new", "open", "done", "error"}]
         /\ reading \subseteq Uploads \X Nat
         /\ up \in Seq(UpFrame) /\ down \in Seq(DownFrame)
         /\ pending \subseteq Buffered /\ nextId \in 1 .. IdSpace - 1
         /\ jobs \subseteq JobRec /\ rows \subseteq RowRec /\ nextRow \in Nat
         /\ stored \subseteq Uploads

Whole(u) == [i \in 1 .. size[u] |-> <<u, i>>]

(* Uploads whose start the server has not taken.                            *)
Starts(u) == {k \in DOMAIN up : up[k].type = "start" /\ up[k].req = u}
Waiting == {u \in Uploads : outcome[u] = "new" \/ Starts(u) # {}}
StartsOnce == \A u \in Uploads : /\ outcome[u] = "new" => Starts(u) = {}
                                 /\ \A k, l \in Starts(u) : k = l

(* Of the ids that were given, "given" says which upload has which; 0 none. *)
IdsDistinct(given) ==
    /\ \A u, v \in Uploads : given[u] # 0 /\ given[u] = given[v] => u = v
    /\ \A u \in Uploads : given[u] # 0 => u \notin Waiting
    /\ Waiting # {} => /\ Cardinality(Waiting) + nextId <= Cardinality(Uploads) + 1
                       /\ \A u \in Uploads : given[u] < nextId

(* Frames of a file, and where in the file they are.                        *)
OfFile(f) == f.type \in {"chunk", "end"}
Sender(f) == IF f.type = "chunk" THEN f.data[1] ELSE f.req
Place(f) == IF f.type = "chunk" THEN f.index ELSE size[f.req]
OnTheWire(id) == \E k \in DOMAIN up : OfFile(up[k]) /\ up[k].id = id
Empty(id) == \A p \in pending : p.id = id => p.chunks = <<>>

(* An id that is on its way to the client is of a file that was not read.   *)
ReadyOK(given) ==
    \A i \in DOMAIN down : down[i].type = "ready" =>
        \A id \in {down[i].id} :
            /\ id # 0 /\ given[down[i].req] = id
            /\ \A j \in DOMAIN down : down[j].type = "ready" /\ down[j].id = id => i = j
            /\ ~OnTheWire(id) /\ Empty(id) /\ \A r \in reading : r[2] # id

ReadingOK(given) ==
    \A r \in reading : \A id \in {r[2]} :
        id # 0 /\ given[r[1]] = id /\ ~OnTheWire(id) /\ Empty(id)

(* The frames of a file follow each other, and the server has what came     *)
(* before the first of them unless it gave up the upload.                   *)
FileFrameOK(given, k, f) ==
    /\ f.id # 0 /\ given[Sender(f)] = f.id
    /\ f.type = "chunk" => f.index < size[Sender(f)] /\ f.data = <<Sender(f), f.index + 1>>
    /\ Place(f) = 0 => /\ Empty(f.id)
                       /\ \A l \in 1 .. k - 1 : OfFile(up[l]) => up[l].id # f.id
    /\ k > 1 /\ Place(f) > 0 => /\ OfFile(up[k - 1]) /\ up[k - 1].id = f.id
                                /\ Place(up[k - 1]) + 1 = Place(f)
    /\ k = 1 => \A p \in pending : p.id = f.id => Len(p.chunks) = Place(f)
WireOK(given) == \A k \in DOMAIN up : OfFile(up[k]) => FileFrameOK(given, k, up[k])

(* What is buffered is the beginning of the file of the upload with the id. *)
Finished(u) == u \in stored \/ \E j \in jobs : j.req = u
BufferOK(given) ==
    /\ IsFiniteSet(pending) /\ Cardinality(pending) <= MaxPending
    /\ \A p \in pending : \E u \in Uploads :
           /\ p.id # 0 /\ given[u] = p.id /\ ~Finished(u)
           /\ p.message = message[u] /\ p.size = size[u]
           /\ Len(p.chunks) <= size[u]
           /\ \A i \in 1 .. Len(p.chunks) : p.chunks[i] = <<u, i>>
    /\ \A p, q \in pending : p.id = q.id => p = q

Protocol(given) == IdsDistinct(given) /\ ReadyOK(given) /\ ReadingOK(given)
                   /\ WireOK(given) /\ BufferOK(given)

(* A file gets a task once, and a row once.                                 *)
JobsOK == /\ \A u \in Uploads : Finished(u) => u \notin Waiting
          /\ \A j \in jobs : /\ j.message = message[j.req] /\ j.chunks = Whole(j.req)
                             /\ j.pc = "insert" => j.req \notin stored
                             /\ j.pc \in JobPc \ {"insert", "fail"} => j.req \in stored
          /\ \A j, k \in jobs : j.req = k.req => j = k
RowsOK == /\ \A r \in rows : /\ r.message \in existing
                             /\ \E u \in stored : r.chunks = Whole(u) /\ r.message = message[u]
          /\ \A r, o \in rows : r.chunks = o.chunks => r = o

(* What the user is told.                                                   *)
ToldOK == /\ \A u \in Uploads : outcome[u] = "done" => u \in stored
          /\ \A i \in DOMAIN down : down[i].type = "done" => down[i].req \in stored

Given == [Uploads -> 0 .. IdSpace - 1]
IInv == /\ Types /\ StartsOnce /\ JobsOK /\ RowsOK /\ ToldOK /\ ProtocolKept
        /\ \E given \in Given : Protocol(given)
-----------------------------------------------------------------------------
(* What the queues are made of.                                             *)
LEMMA RemovedAt ==
  ASSUME NEW S, NEW s \in Seq(S), NEW i \in 1 .. Len(s)
  PROVE  /\ RemoveAt(s, i) \in Seq(S) /\ Len(RemoveAt(s, i)) = Len(s) - 1
         /\ DOMAIN RemoveAt(s, i) = 1 .. Len(s) - 1
         /\ \A j \in 1 .. Len(s) - 1 : RemoveAt(s, i)[j] = s[IF j < i THEN j ELSE j + 1]
<1>1. Len(s) \in Nat /\ i \in Nat /\ 1 <= i /\ i <= Len(s)
  BY LenProperties
<1> DEFINE a == SubSeq(s, 1, i - 1)
           b == SubSeq(s, i + 1, Len(s))
<1>2. a \in Seq(S) /\ Len(a) = i - 1 /\ \A j \in 1 .. i - 1 : a[j] = s[j]
  BY <1>1, SubSeqProperties
<1>3. b \in Seq(S) /\ Len(b) = Len(s) - i /\ \A j \in 1 .. Len(s) - i : b[j] = s[j + i]
  BY <1>1, SubSeqProperties
<1>4. RemoveAt(s, i) = a \o b
  BY DEF RemoveAt
<1> HIDE DEF a, b
<1>5. /\ a \o b \in Seq(S) /\ Len(a \o b) = Len(s) - 1
      /\ \A j \in 1 .. Len(s) - 1 : (a \o b)[j] = IF j <= i - 1 THEN a[j] ELSE b[j - (i - 1)]
  BY <1>1, <1>2, <1>3, ConcatProperties
<1>6. ASSUME NEW j \in 1 .. Len(s) - 1 PROVE (a \o b)[j] = s[IF j < i THEN j ELSE j + 1]
  <2>1. CASE j < i
    BY <1>1, <1>2, <1>5, <2>1
  <2>2. CASE ~(j < i)
    <3>1. PICK l \in 1 .. Len(s) - i : l = j - (i - 1) /\ l + i = j + 1
      BY <1>1, <2>2
    <3>2. (a \o b)[j] = b[l]
      BY <1>1, <1>5, <2>2, <3>1
    <3>3. b[l] = s[l + i]
      BY <1>3, <3>1
    <3> QED
      BY <2>2, <3>1, <3>2, <3>3
  <2> QED
    BY <2>1, <2>2
<1> QED
  BY <1>1, <1>4, <1>5, <1>6, LenProperties

LEMMA TailOf ==
  ASSUME NEW S, NEW s \in Seq(S), s # <<>>
  PROVE  /\ Tail(s) \in Seq(S) /\ Len(s) \in Nat /\ Len(s) > 0 /\ Head(s) = s[1]
         /\ DOMAIN s = 1 .. Len(s) /\ DOMAIN Tail(s) = 1 .. Len(s) - 1
         /\ \A k \in 1 .. Len(s) - 1 : Tail(s)[k] = s[k + 1]
BY HeadTailProperties, LenProperties, EmptySeq

LEMMA AppendOf ==
  ASSUME NEW S, NEW s \in Seq(S), NEW e \in S
  PROVE  /\ Append(s, e) \in Seq(S) /\ Len(s) \in Nat
         /\ DOMAIN s = 1 .. Len(s) /\ DOMAIN Append(s, e) = 1 .. Len(s) + 1
         /\ \A k \in 1 .. Len(s) : Append(s, e)[k] = s[k]
         /\ Append(s, e)[Len(s) + 1] = e
BY AppendProperties, LenProperties

LEMMA FileFrames ==
  ASSUME Types, NEW u \in Uploads, NEW id \in Nat
  PROVE  /\ size[u] \in Nat /\ size[u] > 0 /\ FramesOf(u, id) \in Seq(UpFrame)
         /\ Len(FramesOf(u, id)) = size[u] + 1
         /\ \A i \in 1 .. size[u] : FramesOf(u, id)[i] = [type |-> "chunk", id |-> id, index |-> i - 1,
                                                         data |-> <<u, i>>]
         /\ FramesOf(u, id)[size[u] + 1] = [type |-> "end", req |-> u, id |-> id]
<1> DEFINE m == size[u]
           chunk(i) == [type |-> "chunk", id |-> id, index |-> i - 1, data |-> <<u, i>>]
           a == [i \in 1 .. m |-> chunk(i)]
           end == [type |-> "end", req |-> u, id |-> id]
           b == <<end>>
<1>1. m \in Nat /\ m > 0
  BY UploadsAssumption DEF Types
<1> HIDE DEF m
<1>2. \A i \in 1 .. m : chunk(i) \in UpFrame
  BY <1>1 DEF UpFrame
<1>3. end \in UpFrame
  BY DEF UpFrame
<1> HIDE DEF chunk, end
<1>4. a \in Seq(UpFrame) /\ Len(a) = m /\ \A i \in 1 .. m : a[i] = chunk(i)
  <2>1. a \in [1 .. m -> UpFrame] /\ \A i \in 1 .. m : a[i] = chunk(i)
    BY <1>2
  <2> HIDE DEF a
  <2>2. a \in Seq(UpFrame)
    BY <1>1, <2>1, SeqDef
  <2> QED
    BY <1>1, <2>1, <2>2, LenProperties
<1>5. b \in Seq(UpFrame) /\ Len(b) = 1 /\ b[1] = end
  BY <1>3
<1>6. FramesOf(u, id) = a \o b
  BY DEF FramesOf, Frame, m, chunk, end
<1> HIDE DEF a, b
<1>7. /\ a \o b \in Seq(UpFrame) /\ Len(a \o b) = m + 1
      /\ \A i \in 1 .. m + 1 : (a \o b)[i] = IF i <= m THEN a[i] ELSE b[i - m]
  <2>1. /\ a \o b \in Seq(UpFrame) /\ Len(a \o b) = Len(a) + Len(b)
        /\ \A i \in 1 .. Len(a) + Len(b) : (a \o b)[i] = IF i <= Len(a) THEN a[i] ELSE b[i - Len(a)]
    <3> HIDE DEF UpFrame
    <3> QED
      BY <1>4, <1>5, ConcatProperties
  <2> QED
    BY <1>1, <1>4, <1>5, <2>1
<1>8. (a \o b)[m + 1] = end /\ \A i \in 1 .. m : (a \o b)[i] = chunk(i)
  <2>1. m + 1 \in 1 .. m + 1 /\ ~(m + 1 <= m) /\ (m + 1) - m = 1
    BY <1>1
  <2>2. (a \o b)[m + 1] = b[1]
    BY <1>7, <2>1
  <2>3. ASSUME NEW i \in 1 .. m PROVE (a \o b)[i] = a[i] /\ a[i] = chunk(i)
    BY <1>1, <1>4, <1>7, <2>3
  <2> QED
    BY <1>5, <2>2, <2>3
<1> QED
  BY <1>1, <1>6, <1>7, <1>8 DEF m, chunk, end
-----------------------------------------------------------------------------
(* The queue to the server when its first frame is taken.                   *)
LEMMA Taken ==
  ASSUME Types, StartsOnce, up # <<>>, up' = Tail(up), outcome' = outcome
  PROVE  /\ StartsOnce' /\ Waiting' \subseteq Waiting
         /\ Head(up).type = "start" => Head(up).req \in Waiting /\ Head(up).req \notin Waiting'
         /\ \A id : OnTheWire(id)' => OnTheWire(id)
<1>1. /\ up' \in Seq(UpFrame) /\ Len(up) \in Nat /\ Len(up) > 0 /\ Head(up) = up[1]
      /\ DOMAIN up = 1 .. Len(up) /\ DOMAIN up' = 1 .. Len(up) - 1
      /\ \A k \in 1 .. Len(up) - 1 : up'[k] = up[k + 1]
  BY TailOf DEF Types
<1>2. \A u : \A k \in Starts(u)' : k + 1 \in Starts(u) /\ k \in Nat /\ k > 0
  BY <1>1 DEF Starts
<1>3. StartsOnce'
  <2>1. ASSUME NEW u \in Uploads, outcome'[u] = "new" PROVE Starts(u)' = {}
    BY <1>2, <2>1 DEF StartsOnce
  <2>2. ASSUME NEW u \in Uploads, NEW k \in Starts(u)', NEW l \in Starts(u)' PROVE k = l
    <3>1. k + 1 = l + 1 /\ k \in Nat /\ l \in Nat
      BY <1>2 DEF StartsOnce
    <3> QED
      BY <3>1
  <2> QED
    BY <2>1, <2>2 DEF StartsOnce
<1>4. Waiting' \subseteq Waiting
  BY <1>2 DEF Waiting
<1>5. ASSUME Head(up).type = "start" PROVE Head(up).req \in Waiting /\ Head(up).req \notin Waiting'
  <2>1. PICK u \in Uploads : u = Head(up).req /\ 1 \in Starts(u)
    <3>1. up[1] \in UpFrame
      BY <1>1, ElementOfSeq DEF Types
    <3> QED
      BY <1>1, <1>5, <3>1 DEF Starts, UpFrame
  <2>2. outcome[u] # "new" /\ Starts(u)' = {}
    BY <1>2, <2>1 DEF StartsOnce
  <2> QED
    BY <2>1, <2>2 DEF Waiting
<1>6. ASSUME NEW id, OnTheWire(id)' PROVE OnTheWire(id)
  BY <1>1, <1>6 DEF OnTheWire, OfFile
<1> QED
  BY <1>3, <1>4, <1>5, <1>6

(* Fewer uploads wait: the ids that are left still suffice.                 *)
LEMMA IdsStay ==
  ASSUME NEW given \in Given, IdsDistinct(given), Waiting' \subseteq Waiting, nextId' = nextId,
         nextId \in Nat
  PROVE  IdsDistinct(given)'
<1>1. IsFiniteSet(Uploads) /\ Waiting \subseteq Uploads /\ Waiting' \subseteq Uploads
  BY IdsSuffice DEF Waiting
<1>2. /\ Cardinality(Waiting) \in Nat /\ Cardinality(Waiting') \in Nat
      /\ Cardinality(Waiting') <= Cardinality(Waiting) /\ Cardinality(Uploads) \in Nat
  BY <1>1, FS_Subset, FS_CardinalityType
<1> DEFINE few(n, W) == n + nextId <= Cardinality(Uploads) + 1
<1>3. Waiting' # {} => Cardinality(Waiting') + nextId <= Cardinality(Uploads) + 1
  BY <1>2 DEF IdsDistinct
<1> QED
  BY <1>3 DEF IdsDistinct

(* What is taken from the wire, and what the server has then.               *)
LEMMA WireTail ==
  ASSUME Types, NEW given \in Given, NEW later \in Given, WireOK(given),
         \A u \in Uploads : given[u] # 0 => later[u] = given[u],
         up # <<>>, up' = Tail(up), size' = size,
         \A q \in pending' : \/ OfFile(Head(up)) /\ q.id = Head(up).id
                             \/ q.chunks = <<>>
                             \/ \E p \in pending : p.id = q.id /\ p.chunks = q.chunks,
         OfFile(Head(up)) => \A q \in pending' : q.id = Head(up).id
                                                    => Len(q.chunks) = Place(Head(up)) + 1
  PROVE  WireOK(later)'
<1>1. /\ up' \in Seq(UpFrame) /\ Len(up) \in Nat /\ Len(up) > 0 /\ Head(up) = up[1]
      /\ DOMAIN up = 1 .. Len(up) /\ DOMAIN up' = 1 .. Len(up) - 1
      /\ \A k \in 1 .. Len(up) - 1 : up'[k] = up[k + 1]
  BY TailOf DEF Types
<1>2. SUFFICES ASSUME NEW k \in DOMAIN up', OfFile(up'[k])
               PROVE  FileFrameOK(later, k, up[k])'
  BY DEF WireOK, OfFile
<1>3. PICK f \in UpFrame : f = up'[k] /\ f = up[k + 1] /\ OfFile(f) /\ k + 1 \in DOMAIN up
  <2>1. up'[k] = up[k + 1] /\ k + 1 \in 1 .. Len(up)
    BY <1>1
  <2>2. up[k + 1] \in UpFrame
    BY <2>1, ElementOfSeq DEF Types
  <2> QED
    BY <1>1, <1>2, <2>1, <2>2
<1>4. /\ f.id # 0 /\ given[Sender(f)] = f.id
      /\ f.type = "chunk" => f.index < size[Sender(f)] /\ f.data = <<Sender(f), f.index + 1>>
      /\ Place(f) = 0 => /\ Empty(f.id)
                         /\ \A l \in 1 .. k : OfFile(up[l]) => up[l].id # f.id
      /\ Place(f) > 0 => /\ OfFile(up[k]) /\ up[k].id = f.id
                         /\ Place(up[k]) + 1 = Place(f)
  <2>1. k \in Nat /\ k > 0 /\ (k + 1) - 1 = k /\ k + 1 > 1
    BY <1>1
  <2>2. FileFrameOK(given, k + 1, f)
    BY <1>3 DEF WireOK
  <2> QED
    BY <2>1, <2>2 DEF FileFrameOK
<1>5. later[Sender(f)] = f.id
  <2>1. Sender(f) \in Uploads
    BY <1>3 DEF Sender, OfFile, UpFrame
  <2> QED
    BY <1>4, <2>1
<1>6. ASSUME Place(f) = 0
      PROVE  /\ \A q \in pending' : q.id = f.id => q.chunks = <<>>
             /\ \A l \in 1 .. k - 1 : OfFile(up'[l]) => up'[l].id # f.id
  <2>1. \A l \in 1 .. k : OfFile(up[l]) => up[l].id # f.id
    BY <1>4, <1>6
  <2>2. ~(OfFile(Head(up)) /\ Head(up).id = f.id)
    BY <1>1, <2>1
  <2>3. \A q \in pending' : q.id = f.id => q.chunks = <<>>
    BY <1>4, <1>6, <2>2 DEF Empty
  <2>4. \A l \in 1 .. k - 1 : up'[l] = up[l + 1] /\ l + 1 \in 1 .. k
    BY <1>1
  <2> QED
    BY <2>1, <2>3, <2>4
<1>7. ASSUME k > 1, Place(f) > 0
      PROVE  OfFile(up'[k - 1]) /\ up'[k - 1].id = f.id /\ Place(up'[k - 1]) + 1 = Place(f)
  <2>1. up'[k - 1] = up[k]
    <3>1. k - 1 \in 1 .. Len(up) - 1 /\ (k - 1) + 1 = k
      BY <1>1, <1>7
    <3> QED
      BY <1>1, <3>1
  <2> QED
    BY <1>4, <1>7, <2>1
<1>8. ASSUME k = 1, NEW q \in pending', q.id = f.id PROVE Len(q.chunks) = Place(f)
  <2>1. Place(f) \in Nat
    BY <1>3 DEF Place, OfFile, UpFrame, Types
  <2>2. CASE Place(f) = 0
    BY <1>6, <1>8, <2>2
  <2>3. CASE Place(f) > 0
    BY <1>1, <1>4, <1>8, <2>3
  <2> QED
    BY <2>1, <2>2, <2>3
<1>9. \A g \in UpFrame : Place(g)' = Place(g)
  BY DEF Place
<1>10. ASSUME k > 1, Place(f) > 0
       PROVE  OfFile(up'[k - 1]) /\ up'[k - 1].id = f.id /\ Place(up[k - 1])' + 1 = Place(f)
  BY <1>7, <1>10 DEF Place
<1>11. FileFrameOK(later, k, f)'
  BY <1>4, <1>5, <1>6, <1>8, <1>9, <1>10 DEF FileFrameOK, Empty
<1> QED
  BY <1>3, <1>11
-----------------------------------------------------------------------------
(* Steps that leave a part of the protocol alone, or take from it.          *)
LEMMA ReadyStays ==
  ASSUME Types, NEW given \in Given, NEW later \in Given, NEW at, ReadyOK(given),
         \A u \in Uploads : given[u] # 0 => later[u] = given[u],
         \A i \in DOMAIN down' : down'[i].type = "ready" =>
             /\ at[i] \in DOMAIN down /\ down'[i] = down[at[i]]
             /\ \A j \in DOMAIN down' : at[i] = at[j] => i = j
             /\ \A id \in {down'[i].id} :
                    ~OnTheWire(id) /\ Empty(id) /\ (\A r \in reading : r[2] # id)
                    => ~OnTheWire(id)' /\ Empty(id)' /\ (\A r \in reading' : r[2] # id)
  PROVE  ReadyOK(later)'
<1>1. SUFFICES ASSUME NEW i \in DOMAIN down', down'[i].type = "ready", NEW id, id = down'[i].id
               PROVE  /\ id # 0 /\ later[down'[i].req] = id
                      /\ \A j \in DOMAIN down' : down'[j].type = "ready" /\ down'[j].id = id => i = j
                      /\ ~OnTheWire(id)' /\ Empty(id)' /\ \A r \in reading' : r[2] # id
  BY DEF ReadyOK, OnTheWire, Empty
<1>2. PICK frame \in DownFrame : frame = down'[i] /\ frame = down[at[i]]
  BY <1>1, ElementOfSeq, LenProperties DEF Types
<1>3. frame.req \in Uploads
  BY <1>1, <1>2 DEF DownFrame
<1>4. /\ id # 0 /\ given[frame.req] = id
      /\ \A j \in DOMAIN down : down[j].type = "ready" /\ down[j].id = id => at[i] = j
      /\ ~OnTheWire(id) /\ Empty(id) /\ \A r \in reading : r[2] # id
  <2>1. PICK k \in DOMAIN down : k = at[i]
    BY <1>1
  <2>2. down[k] = frame /\ frame.type = "ready" /\ id \in {down[k].id}
    BY <1>1, <1>2, <2>1
  <2> QED
    BY <2>1, <2>2 DEF ReadyOK
<1>5. later[down'[i].req] = id
  BY <1>2, <1>3, <1>4
<1>6. ASSUME NEW j \in DOMAIN down', down'[j].type = "ready", down'[j].id = id PROVE i = j
  <2>1. at[j] \in DOMAIN down /\ down'[j] = down[at[j]]
    BY <1>6
  <2>2. at[i] = at[j]
    BY <1>4, <1>6, <2>1
  <2> QED
    BY <1>1, <2>2
<1>7. ~OnTheWire(id)' /\ Empty(id)' /\ \A r \in reading' : r[2] # id
  BY <1>1, <1>4
<1> QED
  BY <1>4, <1>5, <1>6, <1>7

LEMMA ReadingStays ==
  ASSUME Types, NEW given \in Given, NEW later \in Given, ReadingOK(given),
         \A u \in Uploads : given[u] # 0 => later[u] = given[u], reading' \subseteq reading,
         \A r \in reading' : \A id \in {r[2]} :
             ~OnTheWire(id) /\ Empty(id) => ~OnTheWire(id)' /\ Empty(id)'
  PROVE  ReadingOK(later)'
<1>1. \A r \in reading : r[1] \in Uploads
  BY DEF Types
<1> QED
  BY <1>1 DEF ReadingOK, OnTheWire, Empty

(* Every upload under way was under way, with the same chunks.              *)
Kept == \A q \in pending' : \E p \in pending : p.id = q.id /\ p.chunks = q.chunks

LEMMA EmptyStays ==
  ASSUME Kept, NEW id, Empty(id)
  PROVE  Empty(id)'
BY DEF Kept, Empty

LEMMA WireStays ==
  ASSUME NEW given, WireOK(given), Kept, up' = up, size' = size
  PROVE  WireOK(given)'
<1>1. SUFFICES ASSUME NEW k \in DOMAIN up, OfFile(up[k])
               PROVE  FileFrameOK(given, k, up[k])'
  BY DEF WireOK, OfFile
<1>2. PICK f : f = up[k]
  OBVIOUS
<1>3. FileFrameOK(given, k, f)
  BY <1>1, <1>2 DEF WireOK
<1>4. Empty(f.id) => Empty(f.id)'
  BY EmptyStays
<1>5. \A g : Place(g)' = Place(g)
  BY DEF Place
<1>6. Place(up[k - 1])' = Place(up[k - 1])
  BY DEF Place
<1>7. k = 1 => \A q \in pending' : q.id = f.id => Len(q.chunks) = Place(f)
  BY <1>3 DEF FileFrameOK, Kept
<1>8. FileFrameOK(given, k, f)'
  BY <1>3, <1>4, <1>5, <1>6, <1>7 DEF FileFrameOK
<1> QED
  BY <1>2, <1>8

(* One upload under way.                                                    *)
PartOf(given, p, u) == /\ p.id # 0 /\ given[u] = p.id
                       /\ p.message = message[u] /\ p.size = size[u]
                       /\ Len(p.chunks) <= size[u]
                       /\ \A i \in 1 .. Len(p.chunks) : p.chunks[i] = <<u, i>>

LEMMA BufferSplit ==
  ASSUME NEW given, BufferOK(given)
  PROVE  /\ IsFiniteSet(pending) /\ Cardinality(pending) <= MaxPending
         /\ \A p \in pending : \E u \in Uploads : ~Finished(u) /\ PartOf(given, p, u)
         /\ \A p, q \in pending : p.id = q.id => p = q
BY DEF BufferOK, PartOf

LEMMA BufferStays ==
  ASSUME NEW given, BufferOK(given), pending' \subseteq pending, UNCHANGED files,
         \A u \in Uploads : \A p \in pending' : given[u] = p.id /\ Finished(u)' => Finished(u)
  PROVE  BufferOK(given)'
<1>1. /\ IsFiniteSet(pending) /\ IsFiniteSet(pending') /\ Cardinality(pending') <= Cardinality(pending)
      /\ Cardinality(pending) \in Nat /\ Cardinality(pending') \in Nat
  BY FS_Subset, FS_CardinalityType DEF BufferOK
<1>2. MaxPending \in Nat
  BY UploadsAssumption
<1>3. Cardinality(pending') <= MaxPending
  BY <1>1, <1>2 DEF BufferOK
<1>4. ASSUME NEW p \in pending'
      PROVE  \E u \in Uploads : /\ p.id # 0 /\ given[u] = p.id /\ ~Finished(u)'
                                /\ p.message = message'[u] /\ p.size = size'[u]
                                /\ Len(p.chunks) <= size'[u]
                                /\ \A i \in 1 .. Len(p.chunks) : p.chunks[i] = <<u, i>>
  <2>1. PICK u \in Uploads : ~Finished(u) /\ PartOf(given, p, u)
    BY BufferSplit
  <2>2. ~Finished(u)'
    BY <2>1 DEF PartOf
  <2> QED
    BY <2>1, <2>2 DEF PartOf, files
<1>5. \A p, q \in pending' : p.id = q.id => p = q
  BY DEF BufferOK
<1> QED
  BY <1>1, <1>3, <1>4, <1>5 DEF BufferOK, Finished

(* Steps of which the protocol knows nothing.                               *)
LEMMA ProtocolStays ==
  ASSUME Types, NEW given \in Given, Protocol(given),
         UNCHANGED <<files, outcome, reading, up, down, session>>,
         \A u \in Uploads : Finished(u)' => Finished(u)
  PROVE  Protocol(given)' /\ StartsOnce' = StartsOnce /\ Waiting' = Waiting
<1> USE DEF files, session
<1>1. Kept
  BY DEF Kept
<1>2. WireOK(given)'
  BY <1>1, WireStays DEF Protocol
<1>3. \A id : OnTheWire(id)' = OnTheWire(id) /\ Empty(id)' = Empty(id)
  BY DEF OnTheWire, OfFile, Empty
<1>4. ReadyOK(given)'
  BY <1>3 DEF Protocol, ReadyOK
<1>5. ReadingOK(given)'
  BY <1>3 DEF Protocol, ReadingOK
<1>6. Waiting' = Waiting /\ StartsOnce' = StartsOnce
  BY DEF Waiting, StartsOnce, Starts
<1>7. IdsDistinct(given)'
  BY <1>6 DEF Protocol, IdsDistinct
<1>8. BufferOK(given)'
  BY BufferStays DEF Protocol
<1> QED
  BY <1>2, <1>4, <1>5, <1>6, <1>7, <1>8 DEF Protocol
(* Steps of which the tasks and the table know nothing.                     *)
LEMMA TasksStay ==
  ASSUME JobsOK, RowsOK, Waiting' \subseteq Waiting, UNCHANGED <<files, existing, jobs, table>>
  PROVE  JobsOK' /\ RowsOK' /\ \A u : Finished(u)' = Finished(u)
<1> USE DEF files, table
<1>1. \A u : Finished(u)' = Finished(u) /\ Whole(u)' = Whole(u)
  BY DEF Finished, Whole
<1>2. JobsOK'
  BY <1>1 DEF JobsOK
<1>3. RowsOK'
  BY <1>1 DEF RowsOK
<1> QED
  BY <1>1, <1>2, <1>3
-----------------------------------------------------------------------------
(* The client starts an upload.                                             *)
LEMMA StartUploadStep ==
  ASSUME IInv, NEW u \in Uploads, StartUpload(u)
  PROVE  IInv'
<1> USE DEF IInv, files, client, session, table
<1>1. PICK given \in Given : Protocol(given)
  OBVIOUS
<1>2. PICK start \in UpFrame : /\ start = Frame("start", u, 0) /\ up' = Append(up, start)
                               /\ start.type = "start" /\ start.req = u
  BY DEF StartUpload, Frame, UpFrame
<1>3. /\ up' \in Seq(UpFrame) /\ Len(up) \in Nat
      /\ DOMAIN up = 1 .. Len(up) /\ DOMAIN up' = 1 .. Len(up) + 1
      /\ \A k \in 1 .. Len(up) : up'[k] = up[k]
      /\ up'[Len(up) + 1] = start
  BY <1>2, AppendOf DEF Types
<1> DEFINE n == Len(up) + 1
<1>4. /\ n \in DOMAIN up' /\ \A k \in DOMAIN up : k \in DOMAIN up' /\ up'[k] = up[k]
      /\ \A k \in DOMAIN up' : k \in DOMAIN up \/ k = n
      /\ up'[n] = start
  BY <1>3
<1> HIDE DEF n
<1>5. outcome' = [outcome EXCEPT ![u] = "open"] /\ outcome[u] = "new"
  BY DEF StartUpload
<1>6. Types'
  BY <1>3, <1>5 DEF StartUpload, Types
<1>7. \A v \in Uploads : Starts(v)' = IF v = u THEN {n} ELSE Starts(v)
  BY <1>2, <1>4, <1>5 DEF Starts, StartsOnce
<1>8. StartsOnce' /\ Waiting' = Waiting
  BY <1>5, <1>7 DEF StartsOnce, Waiting, Types
<1>9. JobsOK' /\ RowsOK'
  BY <1>8, TasksStay DEF StartUpload
<1>10. ToldOK'
  BY <1>5 DEF ToldOK, StartUpload, Types
<1>11. ProtocolKept'
  BY DEF ProtocolKept, StartUpload, Range
<1>12. \A id : OnTheWire(id)' = OnTheWire(id) /\ Empty(id)' = Empty(id)
  BY <1>2, <1>4 DEF OnTheWire, Empty, OfFile, StartUpload
<1>13. ReadyOK(given)'
  BY <1>1, <1>12 DEF Protocol, ReadyOK, StartUpload
<1>14. ReadingOK(given)'
  BY <1>1, <1>12 DEF Protocol, ReadingOK, StartUpload
<1>15. IdsDistinct(given)'
  BY <1>1, <1>8 DEF Protocol, IdsDistinct, StartUpload
<1>16. BufferOK(given)'
  BY <1>1, BufferStays DEF Protocol, StartUpload, Finished
<1>17. WireOK(given)'
  <2>1. SUFFICES ASSUME NEW k \in DOMAIN up', OfFile(up'[k])
                 PROVE  FileFrameOK(given, k, up[k])'
    BY DEF WireOK, OfFile
  <2>2. k \in DOMAIN up /\ k \in Nat
    BY <1>2, <1>3, <1>4, <2>1 DEF OfFile
  <2>3. PICK f : f = up[k] /\ f = up'[k] /\ OfFile(f)
    BY <1>4, <2>1, <2>2
  <2>4. FileFrameOK(given, k, f)
    BY <1>1, <2>2, <2>3 DEF Protocol, WireOK
  <2>5. Empty(f.id)' = Empty(f.id)
    BY <1>12
  <2>6. \A l \in 1 .. k - 1 : up'[l] = up[l]
    BY <1>3, <2>2
  <2>7. k > 1 => up'[k - 1] = up[k - 1]
    BY <1>3, <2>2
  <2>8. (\A g : Place(g)' = Place(g)) /\ (Place(up[k - 1]))' = Place(up'[k - 1])
    BY DEF Place, StartUpload
  <2>9. FileFrameOK(given, k, f)'
    BY <2>4, <2>5, <2>6, <2>7, <2>8 DEF FileFrameOK, StartUpload
  <2> QED
    BY <2>3, <2>9
<1> QED
  BY <1>6, <1>8, <1>9, <1>10, <1>11, <1>13, <1>14, <1>15, <1>16, <1>17 DEF Protocol
(* The file cannot be read: its id is not used.                             *)
LEMMA ReadFailsStep ==
  ASSUME IInv, NEW r \in reading, ReadFails(r[1], r[2])
  PROVE  IInv'
<1> USE DEF IInv, files, session, table
<1>1. PICK given \in Given : Protocol(given)
  OBVIOUS
<1>2. \A v \in Uploads : outcome'[v] \in {outcome[v], "error"}
  BY DEF ReadFails, Tell
<1>3. outcome' \in [Uploads -> {"new", "open", "done", "error"}]
  BY DEF ReadFails, Tell, Types
<1>4. Types'
  BY <1>3 DEF ReadFails, Types
<1>5. \A v : Starts(v)' = Starts(v)
  BY DEF ReadFails, Starts
<1>6. StartsOnce' /\ Waiting' \subseteq Waiting
  BY <1>2, <1>5 DEF StartsOnce, Waiting
<1>7. JobsOK' /\ RowsOK' /\ \A u : Finished(u)' = Finished(u)
  BY <1>6, TasksStay DEF ReadFails
<1>8. ToldOK'
  BY <1>2 DEF ToldOK, ReadFails
<1>9. ProtocolKept'
  BY DEF ProtocolKept, ReadFails, Range
<1>10. \A id : OnTheWire(id)' = OnTheWire(id) /\ Empty(id)' = Empty(id)
  BY DEF OnTheWire, Empty, OfFile, ReadFails
<1>11. ReadyOK(given)' /\ ReadingOK(given)'
  BY <1>1, <1>10 DEF Protocol, ReadyOK, ReadingOK, ReadFails
<1>12. IdsDistinct(given)'
  BY <1>1, <1>6, IdsStay DEF Protocol, ReadFails, Types
<1>13. BufferOK(given)'
  BY <1>1, <1>7, BufferStays DEF Protocol, ReadFails
<1>14. WireOK(given)'
  <2>1. Kept
    BY DEF Kept, ReadFails
  <2> QED
    BY <1>1, <2>1, WireStays DEF Protocol, ReadFails
<1> QED
  BY <1>4, <1>6, <1>7, <1>8, <1>9, <1>11, <1>12, <1>13, <1>14 DEF Protocol

(* The time to live of an upload ends.                                      *)
LEMMA OneMore ==
  ASSUME NEW S, IsFiniteSet(S), NEW T \in SUBSET S, NEW x
  PROVE  /\ IsFiniteSet(T \cup {x}) /\ Cardinality(T \cup {x}) \in Nat
         /\ Cardinality(T \cup {x}) <= Cardinality(S) + 1 /\ Cardinality(S) \in Nat
         /\ T # S => Cardinality(T \cup {x}) <= Cardinality(S)
<1>1. /\ IsFiniteSet(T) /\ Cardinality(T) \in Nat /\ Cardinality(S) \in Nat
      /\ Cardinality(T) <= Cardinality(S) /\ (T # S => Cardinality(T) < Cardinality(S))
  BY FS_Subset, FS_CardinalityType
<1>2. /\ IsFiniteSet(T \cup {x})
      /\ Cardinality(T \cup {x}) = IF x \in T THEN Cardinality(T) ELSE Cardinality(T) + 1
  BY <1>1, FS_AddElement
<1> QED
  BY <1>1, <1>2

LEMMA AgeStep ==
  ASSUME IInv, NEW p \in pending, Age(p)
  PROVE  IInv'
<1> USE DEF IInv, files, client, session, table
<1>1. PICK given \in Given : Protocol(given)
  OBVIOUS
<1>2. p \in Buffered
  BY DEF Types
<1> DEFINE old == [p EXCEPT !.stale = TRUE]
<1>3. old \in Buffered
  BY <1>2 DEF Buffered
<1>4. old.id = p.id /\ old.message = p.message /\ old.size = p.size /\ old.chunks = p.chunks
  BY <1>2 DEF Buffered
<1>5. pending' = (pending \ {p}) \cup {old}
  BY DEF Age
<1> HIDE DEF old
<1>7. Types'
  BY <1>3, <1>5 DEF Age, Types
<1>8. StartsOnce' /\ Waiting' = Waiting
  BY DEF Age, StartsOnce, Waiting, Starts
<1>9. JobsOK' /\ RowsOK' /\ \A u : Finished(u)' = Finished(u)
  BY <1>8, TasksStay DEF Age
<1>10. ToldOK' /\ ProtocolKept'
  BY DEF ToldOK, ProtocolKept, Age, Range
<1>11. Kept
  BY <1>4, <1>5 DEF Kept
<1>12. \A id : OnTheWire(id)' = OnTheWire(id) /\ (Empty(id) => Empty(id)')
  BY <1>11, EmptyStays DEF OnTheWire, OfFile, Age
<1>13. ReadyOK(given)' /\ ReadingOK(given)'
  BY <1>1, <1>12 DEF Protocol, ReadyOK, ReadingOK, Age
<1>14. IdsDistinct(given)'
  BY <1>1, <1>8 DEF Protocol, IdsDistinct, Age
<1>15. WireOK(given)'
  BY <1>1, <1>11, WireStays DEF Protocol, Age
<1>16. BufferOK(given)'
  <2>1. /\ IsFiniteSet(pending) /\ Cardinality(pending) <= MaxPending
        /\ \A q \in pending : \E u \in Uploads : ~Finished(u) /\ PartOf(given, q, u)
        /\ \A q, s \in pending : q.id = s.id => q = s
    BY <1>1, BufferSplit DEF Protocol
  <2>2. IsFiniteSet(pending') /\ Cardinality(pending') <= MaxPending
    <3>1. pending \ {p} # pending /\ pending \ {p} \in SUBSET pending
      OBVIOUS
    <3>2. /\ IsFiniteSet((pending \ {p}) \cup {old}) /\ Cardinality((pending \ {p}) \cup {old}) \in Nat
          /\ Cardinality((pending \ {p}) \cup {old}) <= Cardinality(pending) /\ Cardinality(pending) \in Nat
      BY <2>1, <3>1, OneMore
    <3> QED
      BY <1>5, <2>1, <3>2, UploadsAssumption
  <2>3. \A q, s \in pending' : q.id = s.id => q = s
    BY <1>4, <1>5, <2>1
  <2>4. ASSUME NEW q \in pending'
        PROVE  \E u \in Uploads : /\ q.id # 0 /\ given[u] = q.id /\ ~Finished(u)'
                                  /\ q.message = message'[u] /\ q.size = size'[u]
                                  /\ Len(q.chunks) <= size'[u]
                                  /\ \A i \in 1 .. Len(q.chunks) : q.chunks[i] = <<u, i>>
    <3>1. PICK s \in pending : /\ s.id = q.id /\ s.message = q.message /\ s.size = q.size
                               /\ s.chunks = q.chunks
      BY <1>4, <1>5
    <3>2. PICK u \in Uploads : ~Finished(u) /\ PartOf(given, s, u)
      BY <2>1
    <3> QED
      BY <1>9, <3>1, <3>2 DEF PartOf, Age
  <2> QED
    BY <2>2, <2>3, <2>4 DEF BufferOK, Finished
<1> QED
  BY <1>7, <1>8, <1>9, <1>10, <1>13, <1>14, <1>15, <1>16 DEF Protocol

(* The connection ends: what is on its way to the server goes, and the last *)
(* of what is on its way to the client.                                     *)
LEMMA DisconnectStep ==
  ASSUME IInv, Disconnect
  PROVE  IInv'
<1> USE DEF IInv, files, client, session, table
<1>1. PICK given \in Given : Protocol(given)
  OBVIOUS
<1>2. PICK n \in 0 .. Len(down) : down' = SubSeq(down, 1, n)
  BY DEF Disconnect
<1>3. /\ down' \in Seq(DownFrame) /\ DOMAIN down' = 1 .. n /\ DOMAIN down = 1 .. Len(down)
      /\ n \in Nat /\ \A i \in 1 .. n : i \in DOMAIN down /\ down'[i] = down[i]
  <2>1. down \in Seq(DownFrame) /\ Len(down) \in Nat /\ DOMAIN down = 1 .. Len(down)
    BY LenProperties DEF Types
  <2>2. SubSeq(down, 1, n) \in Seq(DownFrame) /\ Len(SubSeq(down, 1, n)) = n
        /\ \A i \in 1 .. n : SubSeq(down, 1, n)[i] = down[i]
    <3>1. 1 \in 1 .. Len(down) + 1 /\ n \in 1 - 1 .. Len(down) /\ n - 1 + 1 = n
      BY <2>1
    <3> QED
      BY <2>1, <3>1, SubSeqProperties
  <2> QED
    BY <1>2, <2>1, <2>2, LenProperties
<1>4. up' = <<>> /\ up' \in Seq(UpFrame) /\ DOMAIN up' = {} /\ pending' = {} /\ UNCHANGED <<files, existing, client, nextId, jobs, table>>
  BY DEF Disconnect
<1>5. Types'
  BY <1>3, <1>4 DEF Types
<1>6. StartsOnce' /\ Waiting' \subseteq Waiting
  BY <1>4 DEF StartsOnce, Waiting, Starts
<1>7. JobsOK' /\ RowsOK' /\ \A u : Finished(u)' = Finished(u)
  BY <1>4, <1>6, TasksStay
<1>8. ToldOK' /\ ProtocolKept'
  BY <1>3, <1>4 DEF ToldOK, ProtocolKept, Range
<1>9. \A id : ~OnTheWire(id)' /\ Empty(id)'
  BY <1>4 DEF OnTheWire, Empty
<1>10. ReadyOK(given)'
  BY <1>1, <1>3, <1>4, <1>9 DEF Protocol, ReadyOK
<1>11. ReadingOK(given)'
  BY <1>1, <1>4, <1>9 DEF Protocol, ReadingOK
<1>12. IdsDistinct(given)'
  BY <1>1, <1>4, <1>6, IdsStay DEF Protocol, Types
<1>13. BufferOK(given)' /\ WireOK(given)'
  <2>1. WireOK(given)'
    BY <1>4 DEF WireOK
  <2>2. pending' \subseteq pending
    BY <1>4
  <2> QED
    BY <1>1, <1>4, <1>7, <2>1, <2>2, BufferStays DEF Protocol
<1> QED
  BY <1>5, <1>6, <1>7, <1>8, <1>10, <1>11, <1>12, <1>13 DEF Protocol
-----------------------------------------------------------------------------
(* The tasks.                                                               *)
LEMMA WholeApart ==
  ASSUME Types, NEW u \in Uploads, NEW v \in Uploads, Whole(u) = Whole(v)
  PROVE  u = v
<1>1. 1 \in 1 .. size[u] /\ 1 \in 1 .. size[v]
  BY UploadsAssumption DEF Types
<1>2. Whole(u)[1] = <<u, 1>> /\ Whole(v)[1] = <<v, 1>>
  BY <1>1 DEF Whole
<1>3. <<u, 1>> = <<v, 1>>
  BY <1>2
<1> QED
  BY <1>3

LEMMA TaskGoes ==
  ASSUME jobs \subseteq JobRec, NEW j \in jobs, NEW pc \in JobPc, Goto(j, pc)
  PROVE  \E n \in JobRec : /\ jobs' = (jobs \ {j}) \cup {n}
                           /\ n.req = j.req /\ n.message = j.message /\ n.chunks = j.chunks
                           /\ n.pc = pc
<1>1. j \in JobRec
  OBVIOUS
<1> DEFINE n == [j EXCEPT !.pc = pc]
<1>2. n \in JobRec
  BY <1>1 DEF JobRec
<1>3. n.req = j.req /\ n.message = j.message /\ n.chunks = j.chunks /\ n.pc = pc
  BY <1>1 DEF JobRec
<1>4. jobs' = (jobs \ {j}) \cup {n}
  BY DEF Goto
<1> HIDE DEF n
<1> QED
  BY <1>2, <1>3, <1>4

LEMMA TaskStays ==
  ASSUME JobsOK, NEW j \in jobs, j.req \in Uploads, NEW n, jobs' = (jobs \ {j}) \cup {n},
         n.req = j.req, n.message = j.message, n.chunks = j.chunks, n.pc # "insert",
         n.pc # "fail" => n.req \in stored', stored \subseteq stored',
         stored' \subseteq stored \cup {j.req}, Waiting' = Waiting, UNCHANGED files
  PROVE  JobsOK' /\ \A u \in Uploads : Finished(u)' = Finished(u)
<1> USE DEF files
<1>1. \A u : Whole(u)' = Whole(u)
  BY DEF Whole
<1>2. \A u \in Uploads : Finished(u)' = Finished(u)
  BY DEF Finished
<1>3. \A u \in Uploads : Finished(u)' => u \notin Waiting'
  BY <1>2 DEF JobsOK
<1>4. \A k, l \in jobs' : k.req = l.req => k = l
  BY DEF JobsOK
<1>5. ASSUME NEW k \in jobs'
      PROVE  /\ k.message = message'[k.req] /\ k.chunks = Whole(k.req)
             /\ k.pc = "insert" => k.req \notin stored'
             /\ k.pc \in JobPc \ {"insert", "fail"} => k.req \in stored'
  <2>1. CASE k = n
    BY <2>1 DEF JobsOK
  <2>2. CASE k \in jobs /\ k # j
    <3>1. k.req # j.req
      BY <2>2 DEF JobsOK
    <3> QED
      BY <2>2, <3>1 DEF JobsOK
  <2> QED
    BY <2>1, <2>2
<1> QED
  BY <1>1, <1>2, <1>3, <1>4, <1>5 DEF JobsOK, Whole

LEMMA PersistStep ==
  ASSUME IInv, NEW j \in jobs, Persist(j)
  PROVE  IInv'
<1> USE DEF IInv, files, client, session, table
<1>1. PICK given \in Given : Protocol(given)
  OBVIOUS
<1>2. UNCHANGED <<files, existing, outcome, reading, up, down, session>>
  BY DEF Persist
<1>3. StartsOnce' /\ Waiting' = Waiting
  BY <1>2 DEF StartsOnce, Waiting, Starts
<1>4. /\ j \in JobRec /\ j.req \in Uploads /\ j.message = message[j.req] /\ j.chunks = Whole(j.req)
      /\ j.pc = "insert" => j.req \notin stored
      /\ j.pc \in {"select", "check", "evict"} => j.req \in stored
  <2>1. j \in JobRec
    BY DEF Types
  <2> QED
    BY <2>1 DEF JobsOK, JobRec, JobPc
<1>5. SUFFICES /\ jobs' \subseteq JobRec /\ rows' \subseteq RowRec /\ nextRow' \in Nat
               /\ stored' \subseteq Uploads /\ stored \subseteq stored' /\ RowsOK' /\ JobsOK'
               /\ \A u \in Uploads : Finished(u)' = Finished(u)
  <2>1. Protocol(given)'
    BY <1>1, <1>2, <1>5, ProtocolStays
  <2>2. Types'
    BY <1>2, <1>5 DEF Types
  <2>3. ToldOK' /\ ProtocolKept'
    BY <1>2, <1>5 DEF ToldOK, ProtocolKept, Range
  <2> QED
    BY <1>3, <1>5, <2>1, <2>2, <2>3
<1>6. CASE InsertRow(j) /\ j.message \in existing
  <2> DEFINE row == [id |-> nextRow, message |-> j.message, chunks |-> j.chunks]
             n == [j EXCEPT !.pc = "select", !.row = nextRow]
  <2>1. /\ rows' = rows \cup {row} /\ nextRow' = nextRow + 1 /\ stored' = stored \cup {j.req}
        /\ jobs' = (jobs \ {j}) \cup {n} /\ j.pc = "insert"
    BY <1>6 DEF InsertRow
  <2>2. row \in RowRec /\ row.message = j.message /\ row.chunks = j.chunks
    BY <1>4 DEF RowRec, JobRec, Types
  <2>3. n \in JobRec
    BY <1>4 DEF JobRec, JobPc, Types
  <2>4. n.req = j.req /\ n.message = j.message /\ n.chunks = j.chunks /\ n.pc = "select"
    BY <1>4 DEF JobRec
  <2> HIDE DEF row, n
  <2>5. JobsOK' /\ \A u \in Uploads : Finished(u)' = Finished(u)
    BY <1>2, <1>3, <1>4, <2>1, <2>4, TaskStays
  <2>6. \A u : Whole(u)' = Whole(u)
    BY <1>2 DEF Whole
  <2>7. \A r \in rows : r.chunks # row.chunks
    <3>1. SUFFICES ASSUME NEW r \in rows, r.chunks = row.chunks PROVE FALSE
      OBVIOUS
    <3>2. PICK u \in stored : r.chunks = Whole(u)
      BY DEF RowsOK
    <3>3. u \in Uploads /\ Whole(u) = Whole(j.req)
      BY <1>4, <2>2, <3>1, <3>2 DEF Types
    <3>4. u = j.req
      BY <1>4, <3>3, WholeApart
    <3> QED
      BY <1>4, <2>1, <3>2, <3>4
  <2>8. RowsOK'
    BY <1>2, <1>4, <1>6, <2>1, <2>2, <2>6, <2>7 DEF RowsOK
  <2> QED
    BY <1>4, <2>1, <2>2, <2>3, <2>5, <2>8 DEF Types
<1>7. ASSUME NEW pc \in JobPc \ {"insert"}, Goto(j, pc), nextRow' = nextRow, stored' = stored,
             rows' \subseteq rows, pc # "fail" => j.req \in stored
      PROVE  /\ jobs' \subseteq JobRec /\ rows' \subseteq RowRec /\ nextRow' \in Nat
             /\ stored' \subseteq Uploads /\ stored \subseteq stored' /\ RowsOK' /\ JobsOK'
             /\ \A u \in Uploads : Finished(u)' = Finished(u)
  <2>1. PICK n \in JobRec : /\ jobs' = (jobs \ {j}) \cup {n}
                            /\ n.req = j.req /\ n.message = j.message /\ n.chunks = j.chunks
                            /\ n.pc = pc
    BY <1>7, TaskGoes DEF Types
  <2>2. JobsOK' /\ \A u \in Uploads : Finished(u)' = Finished(u)
    BY <1>2, <1>3, <1>4, <1>7, <2>1, TaskStays
  <2>3. RowsOK'
    <3>1. \A u : Whole(u)' = Whole(u)
      BY <1>2 DEF Whole
    <3> QED
      BY <1>2, <1>7, <3>1 DEF RowsOK
  <2> QED
    BY <1>7, <2>1, <2>2, <2>3 DEF Types
<1>8. CASE InsertRow(j) /\ j.message \notin existing
  BY <1>7, <1>8 DEF InsertRow, JobPc
<1>9. CASE SelectRow(j)
  <2>1. PICK pc \in {"check", "fail"} : Goto(j, pc)
    BY <1>9 DEF SelectRow
  <2> QED
    BY <1>4, <1>7, <1>9, <2>1 DEF SelectRow, JobPc
<1>10. CASE CheckStorage(j)
  <2>1. PICK pc \in {"announce", "evict"} : Goto(j, pc)
    BY <1>10 DEF CheckStorage
  <2> QED
    BY <1>4, <1>7, <1>10, <2>1 DEF CheckStorage, JobPc
<1>11. CASE EvictRow(j)
  <2>1. PICK pc \in {"announce", "check"} : Goto(j, pc)
    BY <1>11 DEF EvictRow
  <2> QED
    BY <1>4, <1>7, <1>11, <2>1 DEF EvictRow, JobPc
<1>12. CASE JobFails(j)
  BY <1>7, <1>12 DEF JobFails, JobPc
<1> QED
  BY <1>6, <1>8, <1>9, <1>10, <1>11, <1>12 DEF Persist

LEMMA DeleteMessageStep ==
  ASSUME IInv, NEW m \in Messages, DeleteMessage(m)
  PROVE  IInv'
<1> USE DEF IInv, files, client, session, table
<1>1. PICK given \in Given : Protocol(given)
  OBVIOUS
<1>2. UNCHANGED <<files, outcome, reading, up, down, session, jobs, nextRow, stored>>
  BY DEF DeleteMessage
<1>3. existing' = existing \ {m} /\ rows' = {r \in rows : r.message # m}
  BY DEF DeleteMessage
<1>4. \A u : Finished(u)' = Finished(u) /\ Whole(u)' = Whole(u)
  BY <1>2 DEF Finished, Whole
<1>5. Protocol(given)'
  BY <1>1, <1>2, <1>4, ProtocolStays
<1>6. StartsOnce' /\ Waiting' = Waiting
  BY <1>2 DEF StartsOnce, Waiting, Starts
<1>7. Types'
  BY <1>2, <1>3 DEF Types
<1>8. JobsOK'
  BY <1>2, <1>4, <1>6 DEF JobsOK
<1>9. RowsOK'
  BY <1>2, <1>3, <1>4 DEF RowsOK
<1>10. ToldOK' /\ ProtocolKept'
  BY <1>2 DEF ToldOK, ProtocolKept, Range
<1> QED
  BY <1>5, <1>6, <1>7, <1>8, <1>9, <1>10
-----------------------------------------------------------------------------
(* The server answers.                                                      *)
LEMMA Pushed ==
  ASSUME down \in Seq(DownFrame), NEW f \in DownFrame, Push(f)
  PROVE  /\ down' \in Seq(DownFrame) /\ Len(down) \in Nat
         /\ DOMAIN down = 1 .. Len(down) /\ DOMAIN down' \subseteq 1 .. Len(down) + 1
         /\ \A i \in DOMAIN down' : \/ i \in DOMAIN down /\ down'[i] = down[i]
                                    \/ i = Len(down) + 1 /\ down'[i] = f
<1>1. CASE connected
  <2>1. down' = Append(down, f)
    BY <1>1 DEF Push
  <2> QED
    BY <2>1, AppendOf
<1>2. CASE ~connected
  <2>1. down' = down
    BY <1>2 DEF Push
  <2> QED
    BY <2>1, LenProperties
<1> QED
  BY <1>1, <1>2

(* ... which tells no id.                                                   *)
LEMMA PushedNoId ==
  ASSUME Types, ToldOK, ProtocolKept, NEW f \in DownFrame, Push(f), f.type # "ready",
         f.type = "done" => f.req \in stored,
         f.type = "error" => f.code \notin {"OUT_OF_ORDER", "TOO_LARGE", "INCOMPLETE"},
         stored \subseteq stored', outcome' = outcome
  PROVE  /\ down' \in Seq(DownFrame) /\ ToldOK' /\ ProtocolKept'
         /\ \E at : \A i \in DOMAIN down' : down'[i].type = "ready" =>
                        /\ at[i] \in DOMAIN down /\ down'[i] = down[at[i]]
                        /\ \A j \in DOMAIN down' : at[i] = at[j] => i = j
<1>1. /\ down' \in Seq(DownFrame) /\ Len(down) \in Nat
      /\ DOMAIN down = 1 .. Len(down) /\ DOMAIN down' \subseteq 1 .. Len(down) + 1
      /\ \A i \in DOMAIN down' : \/ i \in DOMAIN down /\ down'[i] = down[i]
                                 \/ i = Len(down) + 1 /\ down'[i] = f
  BY Pushed DEF Types
<1>2. ToldOK'
  BY <1>1 DEF ToldOK
<1>3. ProtocolKept'
  BY <1>1 DEF ProtocolKept, Range
<1>4. PICK at : at = [i \in DOMAIN down' |-> i]
  OBVIOUS
<1>5. \A i \in DOMAIN down' : at[i] = i
  BY <1>4
<1>6. \A i \in DOMAIN down' : down'[i].type = "ready" => at[i] \in DOMAIN down /\ down'[i] = down[at[i]]
  BY <1>1, <1>5
<1>7. \A i, j \in DOMAIN down' : at[i] = at[j] => i = j
  BY <1>5
<1>8. \E a : \A i \in DOMAIN down' : down'[i].type = "ready" =>
          /\ a[i] \in DOMAIN down /\ down'[i] = down[a[i]]
          /\ \A j \in DOMAIN down' : a[i] = a[j] => i = j
  <2> WITNESS at
  <2> QED
    BY <1>6, <1>7
<1> QED
  BY <1>1, <1>2, <1>3, <1>8

LEMMA AnswerStep ==
  ASSUME IInv, NEW j \in jobs, Answer(j)
  PROVE  IInv'
<1> USE DEF IInv, files, client, session, table
<1>1. PICK given \in Given : Protocol(given)
  OBVIOUS
<1>2. UNCHANGED <<files, existing, connected, client, up, session, table>> /\ jobs' = jobs \ {j}
  BY DEF Answer
<1>3. PICK f \in DownFrame : /\ Push(f) /\ f.type # "ready" /\ (f.type = "done" => f.req \in stored)
                             /\ f.type = "error" => f.code = "INTERNAL"
  <2>1. /\ j.req \in Uploads /\ j.row \in Nat
        /\ j.pc = "announce" => j.req \in stored
    BY DEF Types, JobsOK, JobRec, JobPc
  <2>2. CASE j.pc = "announce" /\ Push(Frame("done", j.req, j.row))
    BY <2>1, <2>2 DEF Frame, DownFrame
  <2>3. CASE Push(Error(j.req, "INTERNAL"))
    BY <2>1, <2>3 DEF Error, DownFrame, Requests, Codes
  <2> QED
    BY <2>2, <2>3 DEF Answer
<1>4. /\ down' \in Seq(DownFrame) /\ ToldOK' /\ ProtocolKept'
      /\ \E at : \A i \in DOMAIN down' : down'[i].type = "ready" =>
                     /\ at[i] \in DOMAIN down /\ down'[i] = down[at[i]]
                     /\ \A k \in DOMAIN down' : at[i] = at[k] => i = k
  BY <1>2, <1>3, PushedNoId
<1>5. PICK at : \A i \in DOMAIN down' : down'[i].type = "ready" =>
                    /\ at[i] \in DOMAIN down /\ down'[i] = down[at[i]]
                    /\ \A k \in DOMAIN down' : at[i] = at[k] => i = k
  BY <1>4
<1>6. \A u : (Finished(u)' => Finished(u)) /\ Whole(u)' = Whole(u)
  BY <1>2 DEF Finished, Whole
<1>7. StartsOnce' /\ Waiting' = Waiting
  BY <1>2 DEF StartsOnce, Waiting, Starts
<1>8. Types'
  BY <1>2, <1>4 DEF Types
<1>9. JobsOK'
  BY <1>2, <1>6, <1>7 DEF JobsOK
<1>10. RowsOK'
  BY <1>2, <1>6 DEF RowsOK
<1>11. \A id : OnTheWire(id)' = OnTheWire(id) /\ Empty(id)' = Empty(id)
  BY <1>2 DEF OnTheWire, Empty, OfFile
<1>12. ReadyOK(given)'
  BY <1>1, <1>2, <1>5, <1>11, ReadyStays DEF Protocol
<1>13. ReadingOK(given)'
  BY <1>1, <1>2, <1>11 DEF Protocol, ReadingOK
<1>14. WireOK(given)'
  <2>1. Kept
    BY <1>2 DEF Kept
  <2> QED
    BY <1>1, <1>2, <2>1, WireStays DEF Protocol
<1>15. IdsDistinct(given)'
  BY <1>1, <1>2, <1>7 DEF Protocol, IdsDistinct
<1>16. BufferOK(given)'
  BY <1>1, <1>2, <1>6, BufferStays DEF Protocol
<1> QED
  BY <1>4, <1>7, <1>8, <1>9, <1>10, <1>12, <1>13, <1>14, <1>15, <1>16 DEF Protocol
-----------------------------------------------------------------------------
(* The client decodes a frame.                                              *)
LEMMA DeliverStep ==
  ASSUME IInv, NEW i \in DOMAIN down, Deliver(i)
  PROVE  IInv'
<1> USE DEF IInv, files, session, table
<1>1. PICK given \in Given : Protocol(given)
  OBVIOUS
<1>2. UNCHANGED <<files, existing, connected, up, session, jobs, table>>
  BY DEF Deliver
<1>3. PICK frame \in DownFrame : frame = down[i]
  BY ElementOfSeq, LenProperties DEF Types
<1>4. PICK us : us = Concerned(frame)
  OBVIOUS
<1>5. frame.type \in {"ready", "done"} => us \subseteq {frame.req}
  BY <1>3, <1>4 DEF Concerned, DownFrame
<1>6. /\ Len(down) \in Nat /\ i \in 1 .. Len(down) /\ DOMAIN down = 1 .. Len(down)
      /\ down' \in Seq(DownFrame) /\ DOMAIN down' = 1 .. Len(down) - 1
      /\ \A k \in 1 .. Len(down) - 1 : down'[k] = down[IF k < i THEN k ELSE k + 1]
  <2>1. down \in Seq(DownFrame) /\ DOMAIN down = 1 .. Len(down) /\ Len(down) \in Nat
    BY LenProperties DEF Types
  <2>2. down' = RemoveAt(down, i)
    BY DEF Deliver
  <2> QED
    BY <2>1, <2>2, RemovedAt
<1>7. PICK at : at = [k \in 1 .. Len(down) - 1 |-> IF k < i THEN k ELSE k + 1]
  OBVIOUS
<1>8. \A k \in DOMAIN down' : /\ at[k] \in DOMAIN down /\ at[k] # i /\ down'[k] = down[at[k]]
                              /\ \A l \in DOMAIN down' : at[k] = at[l] => k = l
  BY <1>6, <1>7
<1>9. /\ \A v \in Uploads : outcome'[v] \in {outcome[v], "done", "error"}
      /\ \A v \in Uploads : outcome'[v] = "done" /\ outcome[v] # "done"
                              => frame.type = "done" /\ v = frame.req
      /\ outcome' \in [Uploads -> {"new", "open", "done", "error"}]
  <2>1. CASE frame.type = "ready"
    <3>1. outcome' = outcome
      BY <1>3, <2>1 DEF Deliver
    <3> QED
      BY <3>1 DEF Types
  <2>2. CASE frame.type \in {"done", "error"}
    <3>1. outcome' = [u \in Uploads |-> IF u \in us THEN frame.type ELSE outcome[u]]
      BY <1>3, <1>4, <2>2 DEF Deliver, Tell
    <3> QED
      BY <1>5, <2>2, <3>1 DEF Types
  <2> QED
    BY <1>3, <2>1, <2>2 DEF DownFrame
<1>10. \A r \in reading' : r \in reading \/ (frame.type = "ready" /\ r = <<frame.req, frame.id>>)
  BY <1>3, <1>4, <1>5 DEF Deliver
<1>11. Types'
  <2>1. reading' \subseteq Uploads \X Nat
    BY <1>10 DEF DownFrame, Types
  <2> QED
    BY <1>2, <1>6, <1>9, <2>1 DEF Types
<1>12. StartsOnce' /\ Waiting' \subseteq Waiting
  <2>1. \A v : Starts(v)' = Starts(v)
    BY <1>2 DEF Starts
  <2> QED
    BY <1>9, <2>1 DEF StartsOnce, Waiting
<1>13. JobsOK' /\ RowsOK' /\ \A u : Finished(u)' = Finished(u)
  BY <1>2, <1>12, TasksStay
<1>14. ToldOK'
  BY <1>2, <1>3, <1>8, <1>9 DEF ToldOK
<1>15. ProtocolKept'
  BY <1>8 DEF ProtocolKept, Range
<1>16. \A id : OnTheWire(id)' = OnTheWire(id) /\ Empty(id)' = Empty(id)
  BY <1>2 DEF OnTheWire, Empty, OfFile
<1>17. frame.type = "ready" =>
         /\ frame.id # 0 /\ given[frame.req] = frame.id
         /\ \A k \in DOMAIN down : down[k].type = "ready" /\ down[k].id = frame.id => i = k
         /\ ~OnTheWire(frame.id) /\ Empty(frame.id)
  BY <1>1, <1>3 DEF Protocol, ReadyOK
<1>18. ReadingOK(given)'
  BY <1>1, <1>10, <1>16, <1>17 DEF Protocol, ReadingOK
<1>19. ReadyOK(given)'
  <2>1. ASSUME NEW k \in DOMAIN down', down'[k].type = "ready", NEW id \in {down'[k].id},
               \A r \in reading : r[2] # id, NEW r \in reading'
        PROVE  r[2] # id
    <3>1. at[k] # i /\ down'[k] = down[at[k]] /\ at[k] \in DOMAIN down
      BY <1>8, <2>1
    <3>2. frame.type = "ready" => frame.id # id
      BY <1>17, <2>1, <3>1
    <3> QED
      BY <1>10, <2>1, <3>2
  <2> QED
    BY <1>1, <1>8, <1>16, <2>1, ReadyStays DEF Protocol
<1>20. IdsDistinct(given)'
  BY <1>1, <1>2, <1>12, IdsStay DEF Protocol, Types
<1>21. BufferOK(given)' /\ WireOK(given)'
  <2>1. Kept
    BY <1>2 DEF Kept
  <2> QED
    BY <1>1, <1>2, <1>13, <2>1, WireStays, BufferStays DEF Protocol
<1> QED
  BY <1>11, <1>12, <1>13, <1>14, <1>15, <1>18, <1>19, <1>20, <1>21 DEF Protocol
-----------------------------------------------------------------------------
(* A file is read: its frames follow what is on the wire.                   *)
LEMMA Sent ==
  ASSUME Types, NEW u \in Uploads, NEW id \in Nat, up' = up \o FramesOf(u, id)
  PROVE  \E n, m \in Nat :
             /\ m = size[u] /\ m > 0 /\ n = Len(up)
             /\ up' \in Seq(UpFrame) /\ DOMAIN up = 1 .. n /\ DOMAIN up' = 1 .. n + m + 1
             /\ \A k \in 1 .. n : up'[k] = up[k]
             /\ \A i \in 1 .. m : up'[n + i] = [type |-> "chunk", id |-> id, index |-> i - 1,
                                                data |-> <<u, i>>]
             /\ up'[n + m + 1] = [type |-> "end", req |-> u, id |-> id]
<1> DEFINE fs == FramesOf(u, id)
           chunk(i) == [type |-> "chunk", id |-> id, index |-> i - 1, data |-> <<u, i>>]
           end == [type |-> "end", req |-> u, id |-> id]
<1>1. PICK n, m \in Nat : m = size[u] /\ n = Len(up)
  BY FileFrames, LenProperties DEF Types
<1>2. /\ m > 0 /\ fs \in Seq(UpFrame) /\ Len(fs) = m + 1
      /\ \A i \in 1 .. m : fs[i] = chunk(i)
      /\ fs[m + 1] = end
  BY <1>1, FileFrames
<1> HIDE DEF fs, chunk, end
<1>3. up \in Seq(UpFrame) /\ Len(up) = n /\ DOMAIN up = 1 .. n
  BY <1>1, LenProperties DEF Types
<1>4. /\ up \o fs \in Seq(UpFrame) /\ Len(up \o fs) = Len(up) + Len(fs)
      /\ \A k \in 1 .. Len(up) + Len(fs) : (up \o fs)[k] = IF k <= Len(up) THEN up[k] ELSE fs[k - Len(up)]
  BY <1>2, <1>3, ConcatProperties
<1>5. up' = up \o fs
  BY DEF fs
<1>6. /\ up' \in Seq(UpFrame) /\ Len(up') = n + m + 1
      /\ \A k \in 1 .. n + m + 1 : up'[k] = IF k <= n THEN up[k] ELSE fs[k - n]
  <2>1. n + (m + 1) = n + m + 1
    OBVIOUS
  <2> QED
    BY <1>2, <1>3, <1>4, <1>5, <2>1
<1>7. \A k \in 1 .. n : up'[k] = up[k]
  BY <1>6
<1>8. ASSUME NEW i \in 1 .. m + 1 PROVE up'[n + i] = fs[i]
  <2>1. n + i \in 1 .. n + m + 1 /\ ~(n + i <= n) /\ (n + i) - n = i
    BY <1>8
  <2> QED
    BY <1>6, <2>1
<1>9. ASSUME NEW i \in 1 .. m PROVE up'[n + i] = chunk(i)
  <2>1. i \in 1 .. m + 1
    OBVIOUS
  <2>2. up'[n + i] = fs[i]
    BY <1>8, <2>1
  <2> QED
    BY <1>2, <2>2
<1>10. up'[n + m + 1] = end
  <2>1. m + 1 \in 1 .. m + 1 /\ n + (m + 1) = n + m + 1
    OBVIOUS
  <2> QED
    BY <1>2, <1>8, <2>1
<1>11. DOMAIN up' = 1 .. n + m + 1
  BY <1>6, LenProperties
<1> QED
  BY <1>1, <1>2, <1>3, <1>6, <1>7, <1>9, <1>10, <1>11 DEF chunk, end

LEMMA ReadFileStep ==
  ASSUME IInv, NEW r \in reading, ReadFile(r[1], r[2])
  PROVE  IInv'
<1> USE DEF IInv, files, client, session, table
<1>1. PICK given \in Given : Protocol(given)
  OBVIOUS
<1>2. PICK u \in Uploads, id \in Nat : r = <<u, id>> /\ r[1] = u /\ r[2] = id
  BY DEF Types
<1>3. /\ reading' = reading \ {r}
      /\ UNCHANGED <<files, existing, connected, outcome, handlers, down, session, jobs, table>>
      /\ up' = up \o FramesOf(u, id) \/ up' = up
  BY <1>2 DEF ReadFile
<1>4. /\ id # 0 /\ given[u] = id /\ ~OnTheWire(id) /\ Empty(id)
      /\ \A i \in DOMAIN down : down[i].type = "ready" => down[i].id # id
      /\ \A s \in reading' : s[2] # id
  <2>1. id # 0 /\ given[u] = id /\ ~OnTheWire(id) /\ Empty(id)
    BY <1>1, <1>2 DEF Protocol, ReadingOK
  <2>2. \A i \in DOMAIN down : down[i].type = "ready" => down[i].id # id
    BY <1>1, <1>2 DEF Protocol, ReadyOK
  <2>3. ASSUME NEW s \in reading', s[2] = id PROVE FALSE
    <3>1. s[1] \in Uploads /\ s = <<s[1], s[2]>> /\ given[s[1]] = id /\ s # r
      BY <1>1, <1>3, <2>3 DEF Protocol, ReadingOK, Types
    <3>2. s[1] = u
      BY <1>1, <2>1, <3>1 DEF Protocol, IdsDistinct
    <3> QED
      BY <1>2, <2>3, <3>1, <3>2
  <2> QED
    BY <2>1, <2>2, <2>3
<1>5. SUFFICES /\ up' \in Seq(UpFrame)
               /\ \A v \in Uploads : Starts(v)' = Starts(v)
               /\ \A x : x # id => OnTheWire(x)' = OnTheWire(x)
               /\ WireOK(given)'
  <2>1. Types'
    BY <1>3, <1>5 DEF Types
  <2>2. StartsOnce' /\ Waiting' = Waiting
    BY <1>3, <1>5 DEF StartsOnce, Waiting
  <2>3. JobsOK' /\ RowsOK' /\ \A v : Finished(v)' = Finished(v)
    BY <1>3, <2>2, TasksStay
  <2>4. ToldOK' /\ ProtocolKept'
    BY <1>3 DEF ToldOK, ProtocolKept, Range
  <2>5. IdsDistinct(given)'
    BY <1>1, <1>3, <2>2 DEF Protocol, IdsDistinct
  <2>6. \A x : Empty(x)' = Empty(x)
    BY <1>3 DEF Empty
  <2>7. ReadyOK(given)'
    BY <1>1, <1>3, <1>4, <1>5, <2>6 DEF Protocol, ReadyOK
  <2>8. ReadingOK(given)'
    BY <1>1, <1>3, <1>4, <1>5, <2>6 DEF Protocol, ReadingOK
  <2>9. BufferOK(given)'
    BY <1>1, <1>3, <2>3, BufferStays DEF Protocol
  <2> QED
    BY <1>5, <2>1, <2>2, <2>3, <2>4, <2>5, <2>7, <2>8, <2>9 DEF Protocol
<1>6. CASE up' = up
  <2>1. Kept
    BY <1>3 DEF Kept
  <2>2. WireOK(given)'
    BY <1>1, <1>3, <1>6, <2>1, WireStays DEF Protocol
  <2> QED
    BY <1>6, <2>2 DEF Types, Starts, OnTheWire, OfFile
<1>7. CASE up' = up \o FramesOf(u, id)
  <2> DEFINE chunk(i) == [type |-> "chunk", id |-> id, index |-> i - 1, data |-> <<u, i>>]
             end == [type |-> "end", req |-> u, id |-> id]
  <2>1. PICK n, m \in Nat :
            /\ m = size[u] /\ m > 0 /\ n = Len(up)
            /\ up' \in Seq(UpFrame) /\ DOMAIN up = 1 .. n /\ DOMAIN up' = 1 .. n + m + 1
            /\ \A k \in 1 .. n : up'[k] = up[k]
            /\ \A i \in 1 .. m : up'[n + i] = chunk(i)
            /\ up'[n + m + 1] = end
    BY <1>7, Sent
  <2>2. /\ \A i : chunk(i).type = "chunk" /\ chunk(i).id = id /\ chunk(i).index = i - 1
                  /\ chunk(i).data = <<u, i>> /\ OfFile(chunk(i)) /\ Sender(chunk(i)) = u
                  /\ Place(chunk(i)) = i - 1 /\ Place(chunk(i))' = i - 1
        /\ end.type = "end" /\ end.id = id /\ OfFile(end) /\ Sender(end) = u
        /\ Place(end) = size[u] /\ Place(end)' = size[u]
    BY <1>3 DEF OfFile, Sender, Place
  <2> HIDE DEF chunk, end
  <2>3. ASSUME NEW k \in DOMAIN up' 
        PROVE  \/ k \in DOMAIN up /\ k \in 1 .. n /\ up'[k] = up[k]
               \/ \E i \in 1 .. m : k = n + i /\ up'[k] = chunk(i)
               \/ k = n + m + 1 /\ up'[k] = end
    <3>1. k \in 1 .. n \/ (\E i \in 1 .. m : k = n + i) \/ k = n + m + 1
      <4>1. CASE k <= n
        BY <2>1, <4>1
      <4>2. CASE k > n /\ k # n + m + 1
        <5>1. PICK i \in Nat : i = k - n
          BY <2>1, <4>2
        <5>2. i \in 1 .. m /\ k = n + i
          BY <2>1, <4>2, <5>1
        <5> QED
          BY <5>2
      <4> QED
        BY <2>1, <4>1, <4>2
    <3> QED
      BY <2>1, <3>1
  <2>4. ASSUME NEW k \in DOMAIN up PROVE k \in DOMAIN up' /\ up'[k] = up[k]
    BY <2>1
  <2>5. \A v \in Uploads : Starts(v)' = Starts(v)
    BY <2>2, <2>3, <2>4 DEF Starts, OfFile
  <2>6. \A x : x # id => OnTheWire(x)' = OnTheWire(x)
    BY <2>2, <2>3, <2>4 DEF OnTheWire, OfFile
  <2>7. \A x : Empty(x)' = Empty(x)
    BY <1>3 DEF Empty
  <2>8. ASSUME NEW l \in 1 .. n, OfFile(up'[l]) PROVE up'[l].id # id
    BY <1>4, <2>1, <2>8 DEF OnTheWire, OfFile
  <2>9. ASSUME NEW k \in DOMAIN up', OfFile(up'[k]) PROVE FileFrameOK(given, k, up[k])'
    <3>1. CASE k \in DOMAIN up /\ k \in 1 .. n /\ up'[k] = up[k]
      <4>1. PICK f : f = up[k] /\ f = up'[k] /\ OfFile(f)
        BY <2>9, <3>1
      <4>2. FileFrameOK(given, k, f)
        BY <1>1, <3>1, <4>1 DEF Protocol, WireOK
      <4>3. \A l \in 1 .. k - 1 : up'[l] = up[l]
        BY <2>1, <3>1
      <4>4. k > 1 => up'[k - 1] = up[k - 1]
        BY <2>1, <3>1
      <4>5. (\A g : Place(g)' = Place(g)) /\ (Place(up[k - 1]))' = Place(up'[k - 1])
        BY <1>3 DEF Place
      <4>6. FileFrameOK(given, k, f)'
        BY <1>3, <2>7, <4>2, <4>3, <4>4, <4>5 DEF FileFrameOK
      <4> QED
        BY <4>1, <4>6
    <3>2. ASSUME NEW i \in 1 .. m, k = n + i, up'[k] = chunk(i) PROVE FileFrameOK(given, k, up[k])'
      <4>1. PICK f : f = chunk(i) /\ f = up'[k]
        BY <3>2
      <4>2. /\ f.id = id /\ f.type = "chunk" /\ f.index = i - 1 /\ f.data = <<u, i>>
            /\ Sender(f) = u /\ Place(f)' = i - 1
        BY <2>2, <4>1
      <4>3. f.index < size'[Sender(f)] /\ f.index + 1 = i
        BY <1>3, <2>1, <4>2
      <4>4. i = 1 => \A l \in 1 .. k - 1 : OfFile(up'[l]) => up'[l].id # id
        BY <2>1, <2>8, <3>2
      <4>5. i # 1 => /\ OfFile(up'[k - 1]) /\ up'[k - 1].id = id
                     /\ Place(up[k - 1])' + 1 = i - 1
        <5>1. HAVE i # 1
        <5>2. PICK j \in 1 .. m : i = j + 1 /\ k - 1 = n + j
          <6>1. i - 1 \in 1 .. m /\ i = (i - 1) + 1 /\ k - 1 = n + (i - 1)
            BY <2>1, <3>2, <5>1
          <6> QED
            BY <6>1
        <5>3. up'[k - 1] = chunk(j) /\ j - 1 + 1 = i - 1
          BY <2>1, <5>2
        <5>4. Place(up[k - 1])' = j - 1
          BY <2>2, <5>3 DEF Place
        <5> QED
          BY <2>2, <5>3, <5>4
      <4>6. k = 1 => i = 1 /\ \A p \in pending' : p.id = id => Len(p.chunks) = i - 1
        <5>1. HAVE k = 1
        <5>2. i = 1 /\ i - 1 = 0
          BY <2>1, <3>2, <5>1
        <5>3. \A p \in pending' : p.id = id => p.chunks = <<>>
          BY <1>3, <1>4 DEF Empty
        <5> QED
          BY <5>2, <5>3
      <4>7. (i - 1 = 0 <=> i = 1) /\ (i - 1 > 0 => i # 1)
        BY <2>1
      <4>8. FileFrameOK(given, k, f)'
        BY <1>4, <2>7, <4>2, <4>3, <4>4, <4>5, <4>6, <4>7 DEF FileFrameOK
      <4> QED
        BY <4>1, <4>8
    <3>3. CASE k = n + m + 1 /\ up'[k] = end
      <4>1. PICK f : f = end /\ f = up'[k]
        BY <3>3
      <4>2. f.id = id /\ f.type = "end" /\ Sender(f) = u /\ Place(f)' = m
        BY <2>1, <2>2, <4>1
      <4>3. OfFile(up'[k - 1]) /\ up'[k - 1].id = id /\ Place(up[k - 1])' + 1 = m
        <5>1. k - 1 = n + m /\ m \in 1 .. m /\ m - 1 + 1 = m
          BY <2>1, <3>3
        <5>2. up'[k - 1] = chunk(m)
          BY <2>1, <5>1
        <5>3. Place(up[k - 1])' = m - 1
          BY <2>2, <5>2 DEF Place
        <5> QED
          BY <2>2, <5>1, <5>2, <5>3
      <4>4. k # 1 /\ k > 1 /\ m # 0 /\ m > 0
        BY <2>1, <3>3
      <4>5. FileFrameOK(given, k, f)'
        BY <1>4, <4>2, <4>3, <4>4 DEF FileFrameOK
      <4> QED
        BY <4>1, <4>5
    <3> QED
      BY <2>3, <3>1, <3>2, <3>3
  <2>10. WireOK(given)'
    BY <2>9 DEF WireOK, OfFile
  <2> QED
    BY <2>1, <2>5, <2>6, <2>10
<1> QED
  BY <1>3, <1>6, <1>7
-----------------------------------------------------------------------------
(* The server takes a frame of a file: what it has of that file is just     *)
(* what came before, if it has not given the upload up.                     *)
LEMMA FromFile ==
  ASSUME IInv, NEW given \in Given, Protocol(given), up # <<>>,
         NEW f, f = Head(up), OfFile(f)
  PROVE  /\ f \in UpFrame /\ Sender(f) \in Uploads /\ f.id # 0 /\ given[Sender(f)] = f.id
         /\ OnTheWire(f.id)
         /\ f.type = "chunk" => f.index < size[Sender(f)] /\ f.data = <<Sender(f), f.index + 1>>
         /\ \A p \in pending : p.id = f.id =>
                /\ Len(p.chunks) = Place(f)
                /\ ~Finished(Sender(f)) /\ PartOf(given, p, Sender(f))
<1>1. f = up[1] /\ 1 \in DOMAIN up /\ f \in UpFrame
  <2>1. up[1] = Head(up) /\ 1 \in 1 .. Len(up) /\ DOMAIN up = 1 .. Len(up)
    BY TailOf DEF IInv, Types
  <2> QED
    BY <2>1, ElementOfSeq DEF IInv, Types
<1>2. FileFrameOK(given, 1, f)
  BY <1>1 DEF Protocol, WireOK
<1>3. Sender(f) \in Uploads
  BY <1>1 DEF Sender, OfFile, UpFrame
<1>4. OnTheWire(f.id)
  BY <1>1 DEF OnTheWire
<1>5. f.id # 0 /\ given[Sender(f)] = f.id
  BY <1>2 DEF FileFrameOK
<1>6. ASSUME NEW p \in pending, p.id = f.id
      PROVE  Len(p.chunks) = Place(f) /\ ~Finished(Sender(f)) /\ PartOf(given, p, Sender(f))
  <2>1. PICK u \in Uploads : ~Finished(u) /\ PartOf(given, p, u)
    BY BufferSplit DEF Protocol
  <2>2. given[u] = f.id
    BY <1>6, <2>1 DEF PartOf
  <2>3. u = Sender(f)
    BY <1>3, <1>5, <2>2 DEF Protocol, IdsDistinct
  <2>4. Len(p.chunks) = Place(f)
    BY <1>2, <1>6 DEF FileFrameOK
  <2> QED
    BY <2>1, <2>3, <2>4
<1> QED
  BY <1>1, <1>2, <1>3, <1>4, <1>5, <1>6 DEF FileFrameOK

LEMMA FileTaken ==
  ASSUME IInv, NEW given \in Given, Protocol(given), up # <<>>, up' = Tail(up), OfFile(Head(up)),
         UNCHANGED <<files, existing, client, nextId, table>>,
         \A q \in pending' : \/ q.id = Head(up).id
                             \/ \E p \in pending : p.id = q.id /\ p.chunks = q.chunks,
         \A q \in pending' : q.id = Head(up).id => Len(q.chunks) = Place(Head(up)) + 1,
         pending' \subseteq Buffered, jobs' \subseteq JobRec, JobsOK', BufferOK(given)',
         \/ down' = down
         \/ \E e \in DownFrame : /\ Push(e) /\ e.type = "error"
                                 /\ e.code \notin {"OUT_OF_ORDER", "TOO_LARGE", "INCOMPLETE"}
  PROVE  IInv'
<1> USE DEF IInv, files, client, table
<1>1. /\ StartsOnce' /\ Waiting' \subseteq Waiting
      /\ \A id : OnTheWire(id)' => OnTheWire(id)
  BY Taken
<1>2. /\ down' \in Seq(DownFrame) /\ ToldOK' /\ ProtocolKept'
      /\ \E at : \A i \in DOMAIN down' : down'[i].type = "ready" =>
                     /\ at[i] \in DOMAIN down /\ down'[i] = down[at[i]]
                     /\ \A k \in DOMAIN down' : at[i] = at[k] => i = k
  <2>1. CASE down' = down
    <3>1. down' \in Seq(DownFrame) /\ ToldOK' /\ ProtocolKept'
      BY <2>1 DEF Types, ToldOK, ProtocolKept, Range
    <3>2. PICK at : at = [i \in DOMAIN down' |-> i]
      OBVIOUS
    <3>3. \A i \in DOMAIN down' : at[i] = i
      BY <3>2
    <3>4. \E a : \A i \in DOMAIN down' : down'[i].type = "ready" =>
              /\ a[i] \in DOMAIN down /\ down'[i] = down[a[i]]
              /\ \A k \in DOMAIN down' : a[i] = a[k] => i = k
      <4> WITNESS at
      <4> QED
        BY <2>1, <3>3
    <3> QED
      BY <3>1, <3>4
  <2>2. ASSUME NEW e \in DownFrame, Push(e), e.type = "error",
               e.code \notin {"OUT_OF_ORDER", "TOO_LARGE", "INCOMPLETE"}
        PROVE  /\ down' \in Seq(DownFrame) /\ ToldOK' /\ ProtocolKept'
               /\ \E at : \A i \in DOMAIN down' : down'[i].type = "ready" =>
                              /\ at[i] \in DOMAIN down /\ down'[i] = down[at[i]]
                              /\ \A k \in DOMAIN down' : at[i] = at[k] => i = k
    <3>1. e.type # "ready" /\ e.type # "done" /\ stored \subseteq stored' /\ outcome' = outcome
      BY <2>2
    <3> QED
      BY <2>2, <3>1, PushedNoId
  <2> QED
    BY <2>1, <2>2
<1>3. PICK at : \A i \in DOMAIN down' : down'[i].type = "ready" =>
                    /\ at[i] \in DOMAIN down /\ down'[i] = down[at[i]]
                    /\ \A k \in DOMAIN down' : at[i] = at[k] => i = k
  BY <1>2
<1>4. Types'
  <2>1. up' \in Seq(UpFrame)
    BY TailOf DEF Types
  <2> QED
    BY <1>2, <2>1 DEF Types
<1>5. RowsOK'
  <2>1. \A u : Whole(u)' = Whole(u)
    BY DEF Whole
  <2> QED
    BY <2>1 DEF RowsOK
<1>6. IdsDistinct(given)'
  BY <1>1, IdsStay DEF Protocol, Types
<1>7. OnTheWire(Head(up).id)
  BY FromFile
<1>8. \A id : ~OnTheWire(id) /\ Empty(id) => ~OnTheWire(id)' /\ Empty(id)'
  <2>1. SUFFICES ASSUME NEW id, ~OnTheWire(id), Empty(id) PROVE ~OnTheWire(id)' /\ Empty(id)'
    OBVIOUS
  <2>2. id # Head(up).id
    BY <1>7, <2>1
  <2> QED
    BY <1>1, <2>1, <2>2 DEF Empty
<1>9. ReadyOK(given)'
  BY <1>3, <1>8, ReadyStays DEF Protocol
<1>10. ReadingOK(given)'
  BY <1>8, ReadingStays DEF Protocol
<1>11. WireOK(given)'
  <2>1. WireOK(given)
    BY DEF Protocol
  <2> QED
    BY <2>1, WireTail
<1> QED
  BY <1>1, <1>2, <1>4, <1>5, <1>6, <1>9, <1>10, <1>11 DEF Protocol
LEMMA Refusal ==
  ASSUME NEW req \in Requests, NEW code \in {"NOT_FOUND", "EXPIRED"}, Reject(req, code)
  PROVE  /\ UNCHANGED jobs
         /\ \E e \in DownFrame : /\ Push(e) /\ e.type = "error"
                                 /\ e.code \notin {"OUT_OF_ORDER", "TOO_LARGE", "INCOMPLETE"}
<1>1. Error(req, code) \in DownFrame /\ Error(req, code).type = "error" /\ Error(req, code).code = code
  BY DEF Error, DownFrame, Codes
<1>2. Push(Error(req, code)) /\ UNCHANGED jobs
  BY DEF Reject
<1> QED
  BY <1>1, <1>2

(* A frame of an upload that is not there, or expires now.                  *)
LEMMA FileRefused ==
  ASSUME IInv, NEW given \in Given, Protocol(given), up # <<>>, up' = Tail(up), OfFile(Head(up)),
         UNCHANGED <<files, existing, client, nextId, table>>,
         pending' \subseteq pending, \A q \in pending' : q.id # Head(up).id,
         NEW req \in Requests, NEW code \in {"NOT_FOUND", "EXPIRED"}, Reject(req, code)
  PROVE  IInv'
<1> USE DEF IInv, files, client, table
<1>1. /\ UNCHANGED jobs
      /\ \E e \in DownFrame : /\ Push(e) /\ e.type = "error"
                              /\ e.code \notin {"OUT_OF_ORDER", "TOO_LARGE", "INCOMPLETE"}
  BY Refusal
<1>2. Waiting' \subseteq Waiting
  BY Taken
<1>3. JobsOK' /\ \A u : Finished(u)' = Finished(u)
  BY <1>1, <1>2, TasksStay
<1>4. BufferOK(given)'
  BY <1>3, BufferStays DEF Protocol
<1>5. pending' \subseteq Buffered /\ jobs' \subseteq JobRec
  BY <1>1 DEF Types
<1>6. \A q \in pending' : \E p \in pending : p.id = q.id /\ p.chunks = q.chunks
  OBVIOUS
<1> QED
  BY <1>1, <1>3, <1>4, <1>5, <1>6, FileTaken

LEMMA UploadChunkStep ==
  ASSUME IInv, UploadChunk
  PROVE  IInv'
<1> USE DEF IInv, files, client, session, table
<1>1. PICK given \in Given : Protocol(given)
  OBVIOUS
<1>2. PICK f : f = Head(up)
  OBVIOUS
<1>3. /\ up # <<>> /\ up' = Tail(up) /\ f.type = "chunk" /\ OfFile(f)
      /\ UNCHANGED <<files, existing, connected, client, nextId, table>>
  BY <1>2 DEF UploadChunk, Receives, OfFile
<1>4. /\ f \in UpFrame /\ Sender(f) \in Uploads /\ f.id # 0 /\ given[Sender(f)] = f.id
      /\ f.index < size[Sender(f)] /\ f.data = <<Sender(f), f.index + 1>>
      /\ \A p \in pending : p.id = f.id =>
             /\ Len(p.chunks) = Place(f)
             /\ ~Finished(Sender(f)) /\ PartOf(given, p, Sender(f))
  BY <1>1, <1>2, <1>3, FromFile
<1>5. f.index \in Nat /\ Place(f) = f.index /\ f.data \in Uploads \X Nat
  BY <1>3, <1>4 DEF UpFrame, Place
<1>6. Fresh \subseteq pending /\ Nobody \in Requests
  BY DEF Fresh, Requests
<1>7. PICK u \in Uploads : u = Sender(f)
  BY <1>4
<1>8. CASE Missing(f.id) /\ pending' = Fresh /\ Reject(Nobody, "NOT_FOUND")
  <2>1. \A q \in pending' : q.id # f.id
    BY <1>8 DEF Missing
  <2> QED
    BY <1>1, <1>2, <1>3, <1>6, <1>8, <2>1, FileRefused
<1>9. ASSUME NEW p \in Fresh, p.id = f.id, Expire(Nobody, p) PROVE IInv'
  <2>1. pending' = Fresh \ {p} /\ Reject(Nobody, "EXPIRED")
    BY <1>9 DEF Expire
  <2>2. \A q \in pending' : q.id # f.id
    BY <1>1, <1>6, <1>9, <2>1 DEF Protocol, BufferOK
  <2> QED
    BY <1>1, <1>2, <1>3, <1>6, <2>1, <2>2, FileRefused
<1>10. ASSUME NEW p \in Fresh, p.id = f.id PROVE ChunkError(p, f.index) = "no error"
  <2>1. Len(p.chunks) = f.index /\ p.size = size[u] /\ f.index < size[u]
    BY <1>4, <1>5, <1>6, <1>7, <1>10 DEF PartOf
  <2>2. size[u] \in Nat
    BY UploadsAssumption DEF Types
  <2>3. ~(Len(p.chunks) # f.index) /\ ~(Len(p.chunks) + 1 > p.size)
    BY <1>5, <2>1, <2>2
  <2> QED
    BY <2>3 DEF ChunkError
<1>11. ASSUME NEW p \in Fresh, p.id = f.id,
              pending' = (Fresh \ {p}) \cup {[p EXCEPT !.chunks = Append(@, f.data)]},
              UNCHANGED <<down, jobs>>
       PROVE  IInv'
  <2>1. p \in Buffered
    BY <1>6 DEF Types
  <2> DEFINE new == [p EXCEPT !.chunks = Append(@, f.data)]
  <2>2. p.chunks \in Seq(Uploads \X Nat)
    BY <2>1 DEF Buffered
  <2>3. /\ Append(p.chunks, f.data) \in Seq(Uploads \X Nat) /\ Len(p.chunks) \in Nat
        /\ Len(Append(p.chunks, f.data)) = Len(p.chunks) + 1
        /\ \A k \in 1 .. Len(p.chunks) : Append(p.chunks, f.data)[k] = p.chunks[k]
        /\ Append(p.chunks, f.data)[Len(p.chunks) + 1] = f.data
    BY <1>5, <2>2, AppendProperties, LenProperties
  <2>4. new \in Buffered
    BY <2>1, <2>3 DEF Buffered
  <2>5. /\ new.id = p.id /\ new.message = p.message /\ new.size = p.size
        /\ new.chunks = Append(p.chunks, f.data)
    BY <2>1 DEF Buffered
  <2>6. pending' = (Fresh \ {p}) \cup {new}
    BY <1>11
  <2> HIDE DEF new
  <2>7. Waiting' \subseteq Waiting
    BY <1>3, Taken
  <2>8. JobsOK' /\ \A v : Finished(v)' = Finished(v)
    BY <1>3, <1>11, <2>7, TasksStay
  <2>9. /\ p \in pending /\ Len(p.chunks) = f.index /\ ~Finished(u) /\ PartOf(given, p, u)
    BY <1>4, <1>5, <1>6, <1>7, <1>11
  <2>10. Len(new.chunks) = f.index + 1
    BY <2>3, <2>5, <2>9
  <2>11. PartOf(given, new, u)
    <3>1. size[u] \in Nat /\ f.index < size[u] /\ f.data = <<u, f.index + 1>>
      BY <1>4, <1>7, UploadsAssumption DEF Types
    <3>2. \A i \in 1 .. f.index + 1 : new.chunks[i] = <<u, i>>
      BY <1>5, <2>3, <2>5, <2>9, <3>1 DEF PartOf
    <3> QED
      BY <1>5, <2>5, <2>9, <2>10, <3>1, <3>2 DEF PartOf
  <2>12. BufferOK(given)'
    <3>1. /\ IsFiniteSet(pending) /\ Cardinality(pending) <= MaxPending
          /\ \A q \in pending : \E v \in Uploads : ~Finished(v) /\ PartOf(given, q, v)
          /\ \A q, s \in pending : q.id = s.id => q = s
      BY <1>1, BufferSplit DEF Protocol
    <3>2. IsFiniteSet(pending') /\ Cardinality(pending') <= MaxPending
      <4>1. Fresh \ {p} # pending /\ Fresh \ {p} \in SUBSET pending
        BY <1>6, <2>9
      <4>2. /\ IsFiniteSet((Fresh \ {p}) \cup {new}) /\ Cardinality((Fresh \ {p}) \cup {new}) \in Nat
            /\ Cardinality((Fresh \ {p}) \cup {new}) <= Cardinality(pending) /\ Cardinality(pending) \in Nat
        BY <3>1, <4>1, OneMore
      <4> QED
        BY <2>6, <3>1, <4>2, UploadsAssumption
    <3>3. \A q, s \in pending' : q.id = s.id => q = s
      BY <1>6, <2>5, <2>6, <2>9, <3>1
    <3>4. ASSUME NEW q \in pending'
          PROVE  \E v \in Uploads : /\ q.id # 0 /\ given[v] = q.id /\ ~Finished(v)'
                                    /\ q.message = message'[v] /\ q.size = size'[v]
                                    /\ Len(q.chunks) <= size'[v]
                                    /\ \A i \in 1 .. Len(q.chunks) : q.chunks[i] = <<v, i>>
      <4>1. PICK v \in Uploads : ~Finished(v) /\ PartOf(given, q, v)
        BY <1>6, <2>6, <2>9, <2>11, <3>1
      <4> QED
        BY <1>3, <2>8, <4>1 DEF PartOf
    <3> QED
      BY <3>2, <3>3, <3>4 DEF BufferOK, Finished
  <2>13. \A q \in pending' : q.id = f.id \/ \E s \in pending : s.id = q.id /\ s.chunks = q.chunks
    BY <1>6, <1>11, <2>5, <2>6
  <2>14. \A q \in pending' : q.id = f.id => Len(q.chunks) = Place(f) + 1
    BY <1>1, <1>5, <1>6, <1>11, <2>6, <2>9, <2>10 DEF Protocol, BufferOK
  <2>15. pending' \subseteq Buffered /\ jobs' \subseteq JobRec
    BY <1>6, <1>11, <2>4, <2>6 DEF Types
  <2> QED
    BY <1>1, <1>2, <1>3, <1>11, <2>8, <2>12, <2>13, <2>14, <2>15, FileTaken
<1> QED
  BY <1>2, <1>8, <1>9, <1>10, <1>11 DEF UploadChunk

LEMMA UploadEndStep ==
  ASSUME IInv, UploadEnd
  PROVE  IInv'
<1> USE DEF IInv, files, client, session, table
<1>1. PICK given \in Given : Protocol(given)
  OBVIOUS
<1>2. PICK f : f = Head(up)
  OBVIOUS
<1>3. /\ up # <<>> /\ up' = Tail(up) /\ f.type = "end" /\ OfFile(f)
      /\ UNCHANGED <<files, existing, connected, client, nextId, table>>
  BY <1>2 DEF UploadEnd, Receives, OfFile
<1>4. /\ f \in UpFrame /\ Sender(f) \in Uploads /\ f.id # 0 /\ given[Sender(f)] = f.id
      /\ \A p \in pending : p.id = f.id =>
             /\ Len(p.chunks) = Place(f)
             /\ ~Finished(Sender(f)) /\ PartOf(given, p, Sender(f))
  BY <1>1, <1>2, <1>3, FromFile
<1>5. Sender(f) = f.req /\ Place(f) = size[f.req] /\ f.req \in Requests
  BY <1>3, <1>4 DEF UpFrame, Place, Sender, Requests
<1>6. Fresh \subseteq pending
  BY DEF Fresh
<1>7. PICK u \in Uploads : u = f.req /\ u = Sender(f)
  BY <1>4, <1>5
<1>8. CASE Missing(f.id) /\ pending' = Fresh /\ Reject(f.req, "NOT_FOUND")
  <2>1. \A q \in pending' : q.id # f.id
    BY <1>8 DEF Missing
  <2> QED
    BY <1>1, <1>2, <1>3, <1>5, <1>6, <1>8, <2>1, FileRefused
<1>9. ASSUME NEW p \in Fresh, p.id = f.id PROVE pending' = Fresh \ {p} => \A q \in pending' : q.id # f.id
  BY <1>1, <1>6, <1>9 DEF Protocol, BufferOK
<1>10. ASSUME NEW p \in Fresh, p.id = f.id, Expire(f.req, p) PROVE IInv'
  <2>1. pending' = Fresh \ {p} /\ Reject(f.req, "EXPIRED")
    BY <1>10 DEF Expire
  <2>2. \A q \in pending' : q.id # f.id
    BY <1>9, <1>10, <2>1
  <2> QED
    BY <1>1, <1>2, <1>3, <1>5, <1>6, <2>1, <2>2, FileRefused
<1>11. ASSUME NEW p \in Fresh, p.id = f.id PROVE Len(p.chunks) = p.size
  BY <1>4, <1>5, <1>6, <1>7, <1>11 DEF PartOf
<1>12. ASSUME NEW p \in Fresh, p.id = f.id, pending' = Fresh \ {p},
              jobs' = jobs \cup {[req |-> f.req, message |-> p.message,
                                  chunks |-> p.chunks, row |-> 0, pc |-> "insert"]},
              UNCHANGED down
       PROVE  IInv'
  <2> DEFINE job == [req |-> f.req, message |-> p.message, chunks |-> p.chunks, row |-> 0, pc |-> "insert"]
  <2>1. p \in Buffered /\ p \in pending
    BY <1>6 DEF Types
  <2>2. job \in JobRec
    BY <1>7, <2>1 DEF JobRec, JobPc, Buffered
  <2>3. job.req = u /\ job.message = p.message /\ job.chunks = p.chunks /\ job.pc = "insert"
    BY <1>7
  <2>4. jobs' = jobs \cup {job}
    BY <1>12
  <2> HIDE DEF job
  <2>5. ~Finished(u) /\ PartOf(given, p, u) /\ Len(p.chunks) = size[u]
    BY <1>4, <1>5, <1>7, <1>12, <2>1
  <2>6. p.chunks = Whole(u)
    <3>1. p.chunks \in Seq(Uploads \X Nat) /\ p.chunks = [i \in 1 .. Len(p.chunks) |-> p.chunks[i]]
      BY <2>1, LenProperties DEF Buffered
    <3> QED
      BY <2>5, <3>1 DEF PartOf, Whole
  <2>7. u \notin Waiting
    BY <1>1, <1>4, <1>7 DEF Protocol, IdsDistinct
  <2>8. Waiting' \subseteq Waiting
    BY <1>3, Taken
  <2>9. \A v : Finished(v)' <=> Finished(v) \/ v = u
    BY <1>3, <2>3, <2>4 DEF Finished
  <2>10. \A v : Whole(v)' = Whole(v)
    BY <1>3 DEF Whole
  <2>11. JobsOK'
    <3>1. \A v \in Uploads : Finished(v)' => v \notin Waiting'
      BY <2>7, <2>8, <2>9 DEF JobsOK
    <3>2. ASSUME NEW j \in jobs'
          PROVE  /\ j.message = message'[j.req] /\ j.chunks = Whole(j.req)
                 /\ j.pc = "insert" => j.req \notin stored'
                 /\ j.pc \in JobPc \ {"insert", "fail"} => j.req \in stored'
      <4>1. CASE j = job
        BY <1>3, <2>3, <2>5, <2>6, <4>1 DEF PartOf, Finished
      <4>2. CASE j \in jobs
        BY <1>3, <4>2 DEF JobsOK
      <4> QED
        BY <2>4, <4>1, <4>2
    <3>3. \A j, k \in jobs' : j.req = k.req => j = k
      BY <2>3, <2>4, <2>5 DEF JobsOK, Finished
    <3> QED
      BY <1>3, <3>1, <3>2, <3>3 DEF JobsOK, Whole
  <2>12. \A q \in pending' : q.id # f.id
    BY <1>9, <1>12
  <2>13. BufferOK(given)'
    <3>1. \A v \in Uploads : \A q \in pending' : given[v] = q.id /\ Finished(v)' => Finished(v)
      BY <1>4, <1>7, <2>9, <2>12
    <3> QED
      BY <1>1, <1>3, <1>6, <1>12, <3>1, BufferStays DEF Protocol
  <2>14. \A q \in pending' : \E s \in pending : s.id = q.id /\ s.chunks = q.chunks
    BY <1>6, <1>12
  <2>15. pending' \subseteq Buffered /\ jobs' \subseteq JobRec
    BY <1>6, <1>12, <2>2, <2>4 DEF Types
  <2> QED
    BY <1>1, <1>2, <1>3, <1>12, <2>11, <2>12, <2>13, <2>14, <2>15, FileTaken
<1> QED
  BY <1>2, <1>8, <1>10, <1>11, <1>12 DEF UploadEnd
-----------------------------------------------------------------------------
(* The server gives an upload an id.                                        *)
LEMMA NextIdGiven ==
  ASSUME Types, StartsOnce, NEW given \in Given, IdsDistinct(given), up # <<>>, up' = Tail(up),
         outcome' = outcome, NEW u \in Uploads, u = Head(up).req, Head(up).type = "start",
         nextId' = NextId(nextId), NEW later \in Given, later = [given EXCEPT ![u] = nextId]
  PROVE  /\ given[u] = 0 /\ \A v \in Uploads : given[v] < nextId
         /\ IdsDistinct(later)' /\ nextId' \in 1 .. IdSpace - 1
<1>1. StartsOnce' /\ Waiting' \subseteq Waiting /\ u \in Waiting /\ u \notin Waiting'
  BY Taken
<1>2. /\ nextId \in Nat /\ nextId >= 1 /\ nextId <= IdSpace - 1 /\ IdSpace \in Nat /\ IdSpace > 1
      /\ Cardinality(Uploads) < IdSpace /\ IsFiniteSet(Uploads) /\ Cardinality(Uploads) \in Nat
  BY UploadsAssumption, IdsSuffice, FS_CardinalityType DEF Types
<1>3. given[u] = 0 /\ \A v \in Uploads : given[v] < nextId /\ given[v] \in Nat
  BY <1>1, <1>2 DEF IdsDistinct, Given
<1>4. later[u] = nextId /\ \A v \in Uploads : v # u => later[v] = given[v]
  BY DEF Given
<1>5. nextId' = (IF nextId = IdSpace - 1 THEN 1 ELSE nextId + 1)
  BY DEF NextId
<1>6. nextId' \in 1 .. IdSpace - 1
  BY <1>2, <1>5
<1>7. \A v, w \in Uploads : later[v] # 0 /\ later[v] = later[w] => v = w
  <2>1. \A v, w \in Uploads : given[v] # 0 /\ given[v] = given[w] => v = w
    BY DEF IdsDistinct
  <2>2. \A v \in Uploads : v # u => later[v] # later[u]
    BY <1>2, <1>3, <1>4
  <2> QED
    BY <1>4, <2>1, <2>2
<1>8. \A v \in Uploads : later[v] # 0 => v \notin Waiting'
  BY <1>1, <1>4 DEF IdsDistinct
<1>9. ASSUME Waiting' # {}
      PROVE  /\ Cardinality(Waiting') + nextId' <= Cardinality(Uploads) + 1
             /\ \A v \in Uploads : later[v] < nextId'
  <2>1. PICK n, m, c \in Nat : n = Cardinality(Waiting) /\ m = Cardinality(Waiting') /\ c = Cardinality(Uploads)
    <3>1. Waiting \subseteq Uploads /\ Waiting' \subseteq Uploads
      BY DEF Waiting
    <3> QED
      BY <1>2, <3>1, FS_Subset, FS_CardinalityType
  <2>2. m < n
    <3>1. IsFiniteSet(Waiting) /\ Waiting' # Waiting
      BY <1>1, <1>2, FS_Subset DEF Waiting
    <3> QED
      BY <1>1, <2>1, <3>1, FS_Subset
  <2>3. m # 0
    <3>1. IsFiniteSet(Waiting')
      BY <1>1, <1>2, FS_Subset DEF Waiting
    <3> QED
      BY <1>9, <2>1, <3>1, FS_EmptySet
  <2>4. n + nextId <= c + 1
    BY <1>1, <2>1 DEF IdsDistinct
  <2>5. nextId' = nextId + 1 /\ m + nextId' <= c + 1
    BY <1>2, <1>5, <2>1, <2>2, <2>3, <2>4
  <2> QED
    BY <1>2, <1>3, <1>4, <2>1, <2>5
<1> QED
  BY <1>3, <1>6, <1>7, <1>8, <1>9 DEF IdsDistinct

LEMMA UploadStartStep ==
  ASSUME IInv, UploadStart
  PROVE  IInv'
<1> USE DEF IInv, files, client, session, table
<1>1. PICK given \in Given : Protocol(given)
  OBVIOUS
<1>2. PICK f : f = Head(up)
  OBVIOUS
<1>3. /\ up # <<>> /\ up' = Tail(up) /\ f.type = "start" /\ ~OfFile(f)
      /\ UNCHANGED <<files, existing, connected, client, jobs, table>>
  BY <1>2 DEF UploadStart, Receives, OfFile
<1>4. f \in UpFrame /\ up' \in Seq(UpFrame)
  <2>1. up[1] = Head(up) /\ 1 \in 1 .. Len(up) /\ Tail(up) \in Seq(UpFrame)
    BY <1>3, TailOf DEF Types
  <2> QED
    BY <1>2, <1>3, <2>1, ElementOfSeq DEF Types
<1>5. PICK u \in Uploads : u = f.req
  BY <1>3, <1>4 DEF UpFrame
<1>6. /\ StartsOnce' /\ Waiting' \subseteq Waiting /\ u \in Waiting /\ u \notin Waiting'
      /\ \A id : OnTheWire(id)' => OnTheWire(id)
  BY <1>2, <1>3, <1>5, Taken
<1>7. JobsOK' /\ RowsOK' /\ \A v : Finished(v)' = Finished(v)
  BY <1>3, <1>6, TasksStay
<1>8. Fresh \subseteq pending
  BY DEF Fresh
<1>9. CASE SessionFull
  <2>1. pending' = Fresh /\ nextId' = nextId /\ Push(Error(u, "LIMIT_EXCEEDED"))
    BY <1>2, <1>5, <1>9 DEF UploadStart
  <2>2. PICK e \in DownFrame : e = Error(u, "LIMIT_EXCEEDED") /\ e.type = "error" /\ e.code = "LIMIT_EXCEEDED"
    <3>1. /\ Error(u, "LIMIT_EXCEEDED") \in DownFrame /\ Error(u, "LIMIT_EXCEEDED").type = "error"
          /\ Error(u, "LIMIT_EXCEEDED").code = "LIMIT_EXCEEDED"
      BY DEF Error, DownFrame, Requests, Codes
    <3> QED
      BY <3>1
  <2>3. e.type # "ready" /\ e.type # "done" /\ stored \subseteq stored' /\ outcome' = outcome /\ Push(e)
        /\ e.code \notin {"OUT_OF_ORDER", "TOO_LARGE", "INCOMPLETE"}
    BY <1>3, <2>1, <2>2
  <2>4. /\ down' \in Seq(DownFrame) /\ ToldOK' /\ ProtocolKept'
        /\ \E at : \A i \in DOMAIN down' : down'[i].type = "ready" =>
                       /\ at[i] \in DOMAIN down /\ down'[i] = down[at[i]]
                       /\ \A k \in DOMAIN down' : at[i] = at[k] => i = k
    BY <2>3, PushedNoId
  <2>5. PICK at : \A i \in DOMAIN down' : down'[i].type = "ready" =>
                      /\ at[i] \in DOMAIN down /\ down'[i] = down[at[i]]
                      /\ \A k \in DOMAIN down' : at[i] = at[k] => i = k
    BY <2>4
  <2>6. Types'
    BY <1>3, <1>4, <1>8, <2>1, <2>4 DEF Types
  <2>7. Kept
    BY <1>8, <2>1 DEF Kept
  <2>8. \A id : ~OnTheWire(id) /\ Empty(id) => ~OnTheWire(id)' /\ Empty(id)'
    BY <1>6, <2>7, EmptyStays
  <2>9. ReadyOK(given)'
    BY <1>1, <1>3, <2>5, <2>8, ReadyStays DEF Protocol
  <2>10. ReadingOK(given)'
    BY <1>1, <1>3, <2>8, ReadingStays DEF Protocol
  <2>11. IdsDistinct(given)'
    BY <1>1, <1>6, <2>1, IdsStay DEF Protocol, Types
  <2>12. BufferOK(given)'
    BY <1>1, <1>3, <1>7, <1>8, <2>1, BufferStays DEF Protocol
  <2>13. WireOK(given)'
    <3>1. WireOK(given)
      BY <1>1 DEF Protocol
    <3> QED
      BY <1>2, <1>3, <2>7, <3>1, WireTail DEF Kept
  <2> QED
    BY <1>6, <1>7, <2>4, <2>6, <2>9, <2>10, <2>11, <2>12, <2>13 DEF Protocol
<1>10. CASE ~SessionFull
  <2> DEFINE new == [id |-> nextId, message |-> message[u], size |-> size[u],
                     chunks |-> <<>>, stale |-> FALSE]
             ready == Frame("ready", u, nextId)
  <2>1. /\ pending' = {p \in Fresh : p.id # nextId} \cup {new}
        /\ nextId' = NextId(nextId) /\ Push(ready)
    BY <1>2, <1>5, <1>10 DEF UploadStart
  <2>2. nextId \in Nat /\ nextId # 0 /\ nextId \in 0 .. IdSpace - 1 /\ size[u] \in Nat /\ size[u] > 0 /\ message[u] \in Messages
    BY UploadsAssumption DEF Types
  <2>3. /\ new \in Buffered /\ new.id = nextId /\ new.message = message[u] /\ new.size = size[u]
        /\ new.chunks = <<>>
    BY <2>2 DEF Buffered
  <2>4. /\ ready \in DownFrame /\ ready.type = "ready" /\ ready.req = u /\ ready.id = nextId
    BY <2>2 DEF DownFrame, Frame
  <2> HIDE DEF new, ready
  <2>5. PICK later \in Given : later = [given EXCEPT ![u] = nextId]
    BY <2>2 DEF Given
  <2>6. /\ given[u] = 0 /\ \A v \in Uploads : given[v] < nextId
        /\ IdsDistinct(later)' /\ nextId' \in 1 .. IdSpace - 1
    BY <1>1, <1>2, <1>3, <1>5, <2>1, <2>5, NextIdGiven DEF Protocol
  <2>7. later[u] = nextId /\ \A v \in Uploads : given[v] # 0 => later[v] = given[v]
    BY <2>5, <2>6 DEF Given
  <2>8. /\ down' \in Seq(DownFrame) /\ Len(down) \in Nat
        /\ DOMAIN down = 1 .. Len(down) /\ DOMAIN down' \subseteq 1 .. Len(down) + 1
        /\ \A i \in DOMAIN down' : \/ i \in DOMAIN down /\ down'[i] = down[i]
                                   \/ i = Len(down) + 1 /\ down'[i] = ready
    BY <2>1, <2>4, Pushed DEF Types
  <2>9. Types'
    BY <1>3, <1>4, <1>8, <2>1, <2>3, <2>6, <2>8 DEF Types
  <2>10. ToldOK' /\ ProtocolKept'
    <3>1. ToldOK'
      BY <1>3, <2>4, <2>8 DEF ToldOK
    <3>2. ProtocolKept'
      BY <2>4, <2>8 DEF ProtocolKept, Range
    <3> QED
      BY <3>1, <3>2
  <2>11. \A q \in pending' : q.chunks = <<>> \/ \E p \in pending : p.id = q.id /\ p.chunks = q.chunks
    BY <1>8, <2>1, <2>3
  <2>12. \A id : ~OnTheWire(id) /\ Empty(id) => ~OnTheWire(id)' /\ Empty(id)'
    BY <1>6, <2>11 DEF Empty
  <2>13. ~OnTheWire(nextId) /\ \A r \in reading : r[2] # nextId
    <3>1. ASSUME NEW k \in DOMAIN up, OfFile(up[k]), up[k].id = nextId PROVE FALSE
      <4>1. PICK g \in UpFrame : g = up[k]
        BY ElementOfSeq, LenProperties DEF Types
      <4>2. given[Sender(g)] = nextId
        BY <1>1, <3>1, <4>1 DEF Protocol, WireOK, FileFrameOK
      <4>3. Sender(g) \in Uploads
        BY <3>1, <4>1 DEF UpFrame, OfFile, Sender
      <4> QED
        BY <2>2, <2>6, <4>2, <4>3
    <3>2. ASSUME NEW r \in reading, r[2] = nextId PROVE FALSE
      <4>1. r[1] \in Uploads /\ given[r[1]] = nextId
        BY <1>1, <3>2 DEF Protocol, ReadingOK, Types
      <4> QED
        BY <2>2, <2>6, <4>1
    <3> QED
      BY <3>1, <3>2 DEF OnTheWire
  <2>14. \A i \in DOMAIN down : down[i].type = "ready" => down[i].id # nextId /\ down[i].req \in Uploads
    <3>1. SUFFICES ASSUME NEW i \in DOMAIN down, down[i].type = "ready"
                   PROVE  down[i].id # nextId /\ down[i].req \in Uploads
      OBVIOUS
    <3>2. PICK g \in DownFrame : g = down[i]
      BY <2>8, ElementOfSeq DEF Types
    <3>3. g.req \in Uploads /\ given[g.req] = g.id
      BY <1>1, <3>1, <3>2 DEF DownFrame, Protocol, ReadyOK
    <3> QED
      BY <2>2, <2>6, <3>2, <3>3
  <2>15. ReadyOK(later)'
    <3>1. SUFFICES ASSUME NEW i \in DOMAIN down', down'[i].type = "ready", NEW id \in {down'[i].id}
                   PROVE  /\ id # 0 /\ later[down'[i].req] = id
                          /\ \A j \in DOMAIN down' : down'[j].type = "ready" /\ down'[j].id = id => i = j
                          /\ ~OnTheWire(id)' /\ Empty(id)' /\ \A r \in reading' : r[2] # id
      BY DEF ReadyOK, OnTheWire, Empty
    <3>2. CASE i \in DOMAIN down /\ down'[i] = down[i]
      <4>1. /\ id # 0 /\ given[down[i].req] = id
            /\ \A j \in DOMAIN down : down[j].type = "ready" /\ down[j].id = id => i = j
            /\ ~OnTheWire(id) /\ Empty(id) /\ \A r \in reading : r[2] # id
        BY <1>1, <3>1, <3>2 DEF Protocol, ReadyOK
      <4>2. later[down[i].req] = id /\ id # nextId
        BY <2>7, <2>14, <3>1, <3>2, <4>1
      <4>3. \A j \in DOMAIN down' : down'[j].type = "ready" /\ down'[j].id = id => i = j
        BY <2>4, <2>8, <4>1, <4>2
      <4> QED
        BY <1>3, <2>12, <3>2, <4>1, <4>2, <4>3
    <3>3. CASE i = Len(down) + 1 /\ down'[i] = ready
      <4>1. id = nextId /\ later[down'[i].req] = id
        BY <2>4, <2>7, <3>1, <3>3
      <4>2. \A j \in DOMAIN down' : down'[j].type = "ready" /\ down'[j].id = id => i = j
        BY <2>8, <2>14, <3>3, <4>1
      <4>3. \A q \in pending' : q.id = nextId => q.chunks = <<>>
        BY <2>1, <2>3
      <4>4. Empty(id)'
        BY <4>1, <4>3 DEF Empty
      <4> QED
        BY <1>3, <1>6, <2>2, <2>13, <4>1, <4>2, <4>4
    <3> QED
      BY <2>8, <3>2, <3>3
  <2>16. ReadingOK(later)'
    BY <1>1, <1>3, <2>7, <2>12, ReadingStays DEF Protocol
  <2>17. WireOK(later)'
    <3>1. WireOK(given)
      BY <1>1 DEF Protocol
    <3> QED
      BY <1>2, <1>3, <2>7, <2>11, <3>1, WireTail
  <2>18. BufferOK(later)'
    <3>1. /\ IsFiniteSet(pending) /\ Cardinality(pending) <= MaxPending
          /\ \A q \in pending : \E v \in Uploads : ~Finished(v) /\ PartOf(given, q, v)
          /\ \A q, s \in pending : q.id = s.id => q = s
      BY <1>1, BufferSplit DEF Protocol
    <3>2. IsFiniteSet(pending') /\ Cardinality(pending') <= MaxPending
      <4>1. IsFiniteSet(Fresh) /\ Cardinality(Fresh) \in Nat
        BY <1>8, <3>1, FS_Subset, FS_CardinalityType
      <4> DEFINE others == {p \in Fresh : p.id # nextId}
      <4>2. others \in SUBSET Fresh
        OBVIOUS
      <4>3. pending' = others \cup {new}
        BY <2>1
      <4> HIDE DEF others
      <4>4. /\ IsFiniteSet(others \cup {new}) /\ Cardinality(others \cup {new}) \in Nat
            /\ Cardinality(others \cup {new}) <= Cardinality(Fresh) + 1
        BY <4>1, <4>2, OneMore
      <4>5. Cardinality(Fresh) < MaxPending /\ MaxPending \in Nat
        BY <1>10, <4>1, UploadsAssumption DEF SessionFull
      <4> QED
        BY <4>1, <4>3, <4>4, <4>5
    <3>3. \A q, s \in pending' : q.id = s.id => q = s
      BY <1>8, <2>1, <2>3, <3>1
    <3>4. ~Finished(u)
      BY <1>6 DEF JobsOK
    <3>5. ASSUME NEW q \in pending'
          PROVE  \E v \in Uploads : /\ q.id # 0 /\ later[v] = q.id /\ ~Finished(v)'
                                    /\ q.message = message'[v] /\ q.size = size'[v]
                                    /\ Len(q.chunks) <= size'[v]
                                    /\ \A i \in 1 .. Len(q.chunks) : q.chunks[i] = <<v, i>>
      <4>1. CASE q = new
        <5>1. Len(q.chunks) = 0 /\ \A i \in 1 .. Len(q.chunks) : q.chunks[i] = <<u, i>>
          BY <2>3, <4>1
        <5> QED
          BY <1>3, <1>7, <2>2, <2>3, <2>7, <3>4, <4>1, <5>1
      <4>2. CASE q \in pending
        <5>1. PICK v \in Uploads : ~Finished(v) /\ PartOf(given, q, v)
          BY <3>1, <4>2
        <5> QED
          BY <1>3, <1>7, <2>7, <5>1 DEF PartOf
      <4> QED
        BY <1>8, <2>1, <4>1, <4>2
    <3> QED
      BY <3>2, <3>3, <3>5 DEF BufferOK, Finished
  <2> QED
    BY <1>6, <1>7, <2>6, <2>9, <2>10, <2>15, <2>16, <2>17, <2>18 DEF Protocol
<1> QED
  BY <1>9, <1>10
-----------------------------------------------------------------------------
LEMMA InitInv ==
  ASSUME Init
  PROVE  IInv
<1> USE DEF Init
<1>1. /\ IdSpace \in Nat /\ IdSpace > 1 /\ MaxPending \in Nat /\ IsFiniteSet(Uploads)
      /\ Cardinality(Uploads) \in Nat
  BY UploadsAssumption, IdsSuffice, FS_CardinalityType
<1>2. Types
  BY <1>1 DEF Types
<1>3. DOMAIN up = {} /\ DOMAIN down = {}
  OBVIOUS
<1>4. StartsOnce /\ JobsOK /\ RowsOK
  BY <1>3 DEF StartsOnce, JobsOK, RowsOK, Starts, Finished
<1>5. ToldOK /\ ProtocolKept
  BY <1>3 DEF ToldOK, ProtocolKept, Range
<1>6. PICK given \in Given : given = [u \in Uploads |-> 0]
  <2>1. 0 \in 0 .. IdSpace - 1
    BY <1>1
  <2>2. [u \in Uploads |-> 0] \in Given
    BY <2>1 DEF Given
  <2> QED
    BY <2>2
<1>7. Waiting = Uploads /\ \A u \in Uploads : given[u] = 0
  BY <1>6 DEF Waiting
<1>8. IdsDistinct(given)
  BY <1>1, <1>7 DEF IdsDistinct
<1>9. ReadyOK(given) /\ ReadingOK(given) /\ WireOK(given)
  BY <1>3 DEF ReadyOK, ReadingOK, WireOK
<1>10. BufferOK(given)
  BY <1>1, FS_EmptySet DEF BufferOK
<1> QED
  BY <1>2, <1>4, <1>5, <1>6, <1>8, <1>9, <1>10 DEF IInv, Protocol

LEMMA StepInv ==
  ASSUME IInv, Next
  PROVE  IInv'
<1>1. CASE \E u \in Uploads : StartUpload(u)
  BY <1>1, StartUploadStep
<1>2. CASE Reader
  BY <1>2, ReadFileStep, ReadFailsStep DEF Reader
<1>3. CASE Decode
  <2>1. PICK i : Deliver(i)
    BY <1>3 DEF Decode
  <2>2. i \in DOMAIN down
    BY <2>1 DEF Deliver
  <2> QED
    BY <2>1, <2>2, DeliverStep
<1>4. CASE Server
  BY <1>4, UploadStartStep, UploadChunkStep, UploadEndStep DEF Server
<1>5. CASE Disconnect
  BY <1>5, DisconnectStep
<1>6. CASE \E p \in pending : Age(p)
  BY <1>6, AgeStep
<1>7. CASE Job
  BY <1>7, PersistStep, AnswerStep DEF Job
<1>8. CASE \E m \in Messages : DeleteMessage(m)
  BY <1>8, DeleteMessageStep
<1> QED
  BY <1>1, <1>2, <1>3, <1>4, <1>5, <1>6, <1>7, <1>8 DEF Next

LEMMA StutterInv ==
  ASSUME IInv, UNCHANGED vars
  PROVE  IInv'
<1> USE DEF vars, files, client, session, table, IInv
<1>1. PICK given \in Given : Protocol(given)
  OBVIOUS
<1>2. \A u : Finished(u)' = Finished(u) /\ Whole(u)' = Whole(u)
  BY DEF Finished, Whole
<1>3. Protocol(given)' /\ StartsOnce' /\ Waiting' = Waiting
  BY <1>1, <1>2, ProtocolStays
<1>4. Types'
  BY DEF Types
<1>5. JobsOK' /\ RowsOK'
  BY <1>2, <1>3 DEF JobsOK, RowsOK
<1>6. ToldOK' /\ ProtocolKept'
  BY DEF ToldOK, ProtocolKept, Range
<1> QED
  BY <1>3, <1>4, <1>5, <1>6

(* The invariant holds in every state of every run: of start_upload,        *)
(* add_chunk, finish_upload, the tasks of on_upload_end and the browser's   *)
(* handlers, in any order.                                                  *)
THEOREM Invariance == Spec => []IInv
<1>1. Init => IInv
  BY InitInv
<1>2. IInv /\ [Next]_vars => IInv'
  BY StepInv, StutterInv
<1> QED
  BY <1>1, <1>2, PTL DEF Spec

(* What persist_upload stores is a file, whole, in order, and with the      *)
(* message it was sent for, however the uploads of a connection interleave. *)
THEOREM FilesAreWhole == Spec => []WholeFiles
<1>1. IInv => WholeFiles
  <2>1. SUFFICES ASSUME IInv, NEW r \in rows
                 PROVE  \E u \in Uploads : r.chunks = Whole(u) /\ r.message = message[u]
    BY DEF WholeFiles, Whole
  <2>2. PICK u \in stored : r.chunks = Whole(u) /\ r.message = message[u]
    BY <2>1 DEF IInv, RowsOK
  <2> QED
    BY <2>1, <2>2 DEF IInv, Types
<1> QED
  BY <1>1, Invariance, PTL

(* A file has one row, and its message's row is there: by the foreign key   *)
(* and ON DELETE CASCADE, whenever messages are deleted.                    *)
THEOREM FilesStoredOnce == Spec => []StoredOnce
<1>1. IInv => StoredOnce
  BY DEF IInv, RowsOK, StoredOnce
<1> QED
  BY <1>1, Invariance, PTL

(* upload_done reaches the user of an upload only if it got a row.          *)
THEOREM DoneIsStored == Spec => []DoneMeansStored
<1>1. IInv => DoneMeansStored
  BY DEF IInv, ToldOK, DoneMeansStored
<1> QED
  BY <1>1, Invariance, PTL

(* A session never buffers more than MAX_PENDING_UPLOADS_PER_SESSION files, *)
(* nor more of one than it declared.                                        *)
THEOREM BufferIsBounded == Spec => []BufferBounded
<1>1. IInv => BufferBounded
  <2>1. SUFFICES ASSUME IInv PROVE BufferBounded
    OBVIOUS
  <2>2. PICK given \in Given : BufferOK(given)
    BY <2>1 DEF IInv, Protocol
  <2>3. Cardinality(pending) <= MaxPending
    BY <2>2 DEF BufferOK
  <2>4. ASSUME NEW p \in pending PROVE Len(p.chunks) <= p.size /\ p.size <= MaxSize
    <3>1. PICK u \in Uploads : p.size = size[u] /\ Len(p.chunks) <= size[u]
      BY <2>2 DEF BufferOK
    <3>2. size[u] <= MaxSize
      BY <2>1, UploadsAssumption DEF IInv, Types
    <3> QED
      BY <3>1, <3>2
  <2> QED
    BY <2>3, <2>4 DEF BufferBounded
<1> QED
  BY <1>1, Invariance, PTL

(* The server never finds the frames of this client out of order, too long  *)
(* or incomplete, whatever expires, fails or is decoded late.               *)
THEOREM FramesAgree == Spec => []ProtocolKept
<1>1. IInv => ProtocolKept
  BY DEF IInv
<1> QED
  BY <1>1, Invariance, PTL
=============================================================================
