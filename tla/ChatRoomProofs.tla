---------------------------- MODULE ChatRoomProofs ----------------------------
(***************************************************************************)
(* Proofs about ChatStore and ChatRoom, for any number of clients, rooms,  *)
(* requests and statements under way.  The first part is about the tables  *)
(* alone, under any statements; the rest about the rooms that use them.    *)
(***************************************************************************)
EXTENDS ChatRoom, SequenceTheorems, FiniteSetTheorems, WellFoundedInduction, TLAPS

-----------------------------------------------------------------------------
(* The tables.  The invariant adds to their properties that the counters of *)
(* AUTOINCREMENT are above every id: a row that is new cannot be mistaken   *)
(* for one of before.                                                       *)
RowsBelow == \A r \in Rooms : roomRow[r] < nextRoom
IdsBelow == \A m \in msgs : m.id < nextMsg

IInv == StoreTypeOK /\ RowsBelow /\ IdsBelow /\ RowsDistinct /\ NoOrphan

-----------------------------------------------------------------------------
(* The tables start out empty.                                              *)
LEMMA InitInv == StoreInit => IInv
  BY DEF StoreInit, IInv, StoreTypeOK, RowsBelow, IdsBelow, RowsDistinct, NoOrphan, Rows, HasRow

(* A slug that gets a row gets one no slug and no message refers to.        *)
LEMMA InsertRoomInv == ASSUME IInv, NEW r \in Rooms, InsertRoom(r)
                       PROVE  IInv'
<1> USE DEF IInv, RowsBelow, IdsBelow
<1>1. CASE HasRow(r)
  BY <1>1 DEF InsertRoom, StoreTypeOK, RowsDistinct, NoOrphan, Rows, HasRow
<1>2. CASE ~HasRow(r)
  <2>0. /\ roomRow' = [roomRow EXCEPT ![r] = nextRoom]
        /\ nextRoom' = nextRoom + 1
        /\ msgs' = msgs /\ nextMsg' = nextMsg
    BY <1>2 DEF InsertRoom
  <2>1. StoreTypeOK'
    BY <2>0 DEF StoreTypeOK
  <2>2. RowsBelow' /\ IdsBelow'
    BY <2>0 DEF StoreTypeOK
  <2>3. RowsDistinct'
    BY <2>0, <1>2 DEF StoreTypeOK, RowsDistinct, Rows, HasRow
  <2>4. NoOrphan'
    BY <2>0, <1>2 DEF StoreTypeOK, NoOrphan, HasRow
  <2> QED BY <2>1, <2>2, <2>3, <2>4
<1> QED BY <1>1, <1>2

(* The cascade takes every message of the row that goes.                    *)
LEMMA DeleteRoomInv == ASSUME IInv, DeletePoorestRoom
                       PROVE  IInv'
<1> USE DEF IInv, RowsBelow, IdsBelow
<1>0. PICK r \in Rooms : /\ HasRow(r)
                         /\ roomRow' = [roomRow EXCEPT ![r] = 0]
                         /\ msgs' = msgs \ MessagesOf(r)
  BY DEF DeletePoorestRoom, Poorest
<1>1. nextRoom' = nextRoom /\ nextMsg' = nextMsg
  BY DEF DeletePoorestRoom
<1>2. StoreTypeOK'
  BY <1>0, <1>1 DEF StoreTypeOK
<1>3. RowsBelow' /\ IdsBelow'
  BY <1>0, <1>1 DEF StoreTypeOK
<1>4. RowsDistinct'
  BY <1>0 DEF StoreTypeOK, RowsDistinct, Rows, HasRow
<1>5. NoOrphan'
  BY <1>0 DEF StoreTypeOK, NoOrphan, HasRow, MessagesOf
<1> QED BY <1>2, <1>3, <1>4, <1>5

(* The foreign key holds for the row that is inserted.                      *)
LEMMA InsertMessageInv == ASSUME IInv, NEW row \in Nat \ {0}, NEW w \in Wallets,
                                 NEW size \in Sizes, InsertMessage(row, w, size)
                          PROVE  IInv'
  BY DEF IInv, RowsBelow, IdsBelow, InsertMessage, ForeignKeyAccepts, StoreTypeOK, Message,
         RowsDistinct, Rows, HasRow, NoOrphan

(* Deleting messages leaves the rooms alone.                                *)
LEMMA DeleteMessagesInv == ASSUME IInv, msgs' \subseteq msgs,
                                  UNCHANGED <<roomRow, nextRoom, nextMsg>>
                           PROVE  IInv'
  BY DEF IInv, RowsBelow, IdsBelow, StoreTypeOK, RowsDistinct, Rows, HasRow, NoOrphan

LEMMA StepInv == ASSUME IInv, [StoreNext]_storeVars
                 PROVE  IInv'
<1>1. ASSUME NEW r \in Rooms, InsertRoom(r) PROVE IInv'
  BY <1>1, InsertRoomInv
<1>2. CASE DeletePoorestRoom
  BY <1>2, DeleteRoomInv
<1>3. ASSUME NEW row \in 1 .. nextRoom - 1, NEW w \in Wallets, NEW size \in Sizes,
             InsertMessage(row, w, size)
      PROVE  IInv'
  <2>1. row \in Nat \ {0}
    BY DEF IInv, StoreTypeOK
  <2> QED BY <1>3, <2>1, InsertMessageInv
<1>4. CASE DeleteOldest
  BY <1>4, DeleteMessagesInv DEF DeleteOldest
<1>5. ASSUME NEW id \in 1 .. nextMsg - 1, NEW r \in Rooms, NEW w \in Wallets,
             DeleteMessage(id, r, w)
      PROVE  IInv'
  BY <1>5, DeleteMessagesInv DEF DeleteMessage
<1>6. CASE UNCHANGED storeVars
  BY <1>6, DeleteMessagesInv DEF storeVars
<1> QED BY <1>1, <1>2, <1>3, <1>4, <1>5, <1>6 DEF StoreNext

-----------------------------------------------------------------------------
(* The invariant holds whatever the interleaving of the statements.         *)
THEOREM Invariance == StoreSpec => []IInv
  BY InitInv, StepInv, PTL DEF StoreSpec

(* Every row is well formed: the type invariant of the tables.              *)
THEOREM StoreTypes == StoreSpec => []StoreTypeOK
<1>1. IInv => StoreTypeOK
  BY DEF IInv
<1> QED BY <1>1, Invariance, PTL

(* Foreign key and cascade keep every message in a room that exists.        *)
THEOREM MessagesHaveRooms == StoreSpec => []NoOrphan
<1>1. IInv => NoOrphan
  BY DEF IInv
<1> QED BY <1>1, Invariance, PTL

(* Two slugs never share a row.                                             *)
THEOREM RoomsAreDistinct == StoreSpec => []RowsDistinct
<1>1. IInv => RowsDistinct
  BY DEF IInv
<1> QED BY <1>1, Invariance, PTL

(* The id of a message that appears is above every id given out before.     *)
THEOREM FreshIds == StoreSpec => IdsNeverReused
<1>1. ASSUME IInv, [StoreNext]_storeVars
      PROVE  [\A m \in msgs' \ msgs : /\ m.id >= nextMsg
                                      /\ m.id < nextMsg']_storeVars
  BY <1>1 DEF IInv, StoreTypeOK, StoreNext, InsertRoom, DeletePoorestRoom, InsertMessage,
              DeleteOldest, DeleteMessage, storeVars
<1> QED BY <1>1, Invariance, PTL DEF StoreSpec, IdsNeverReused

(* The row a slug is given refers to no message that is already there.      *)
THEOREM FreshRooms == StoreSpec => FreshRoomIsEmpty
<1>1. ASSUME IInv, [StoreNext]_storeVars
      PROVE  [\A r \in Rooms : ~HasRow(r) /\ roomRow'[r] # 0
                                   => \A m \in msgs' : m.room # roomRow'[r]]_storeVars
  <2> SUFFICES ASSUME NEW r \in Rooms, ~HasRow(r), roomRow'[r] # 0,
                      NEW m \in msgs'
               PROVE  m.room # roomRow'[r]
    OBVIOUS
  <2>1. PICK o \in Rooms : InsertRoom(o)
    BY <1>1 DEF IInv, StoreTypeOK, StoreNext, DeletePoorestRoom, InsertMessage,
                DeleteOldest, DeleteMessage, storeVars, HasRow
  <2>2. roomRow'[r] = nextRoom /\ m \in msgs
    BY <1>1, <2>1 DEF InsertRoom, HasRow, IInv, StoreTypeOK
  <2>3. m.room < nextRoom
    BY <1>1, <2>2 DEF IInv, NoOrphan, RowsBelow, StoreTypeOK
  <2> QED BY <1>1, <2>2, <2>3 DEF IInv, StoreTypeOK
<1> QED BY <1>1, Invariance, PTL DEF StoreSpec, FreshRoomIsEmpty
-----------------------------------------------------------------------------
(* Sequences and sets of numbers.                                           *)

(* A set of naturals that is not empty has a least element.                 *)
LEMMA LeastNumber ==
  ASSUME NEW T \in SUBSET Nat, T # {}
  PROVE  \E x \in T : \A y \in T : x <= y
<1> DEFINE Below == {0 .. x : x \in T}
<1>1. Below \subseteq FiniteSubsetsOf(Nat) /\ Below # {}
  <2>1. \A x \in T : IsFiniteSet(0 .. x) /\ (0 .. x) \in SUBSET Nat
    BY FS_Interval
  <2> QED
    BY <2>1 DEF FiniteSubsetsOf
<1>2. PICK B \in Below : \A C \in Below : <<C, B>> \notin StrictSubsetOrdering(Nat)
  BY <1>1, WFMin, FS_StrictSubsetOrderingWellFounded
<1>3. PICK x \in T : B = 0 .. x
  BY <1>2
<1>4. ASSUME NEW y \in T, y < x PROVE FALSE
  <2>1. (0 .. y) \subseteq (0 .. x) /\ (0 .. y) # (0 .. x) /\ (0 .. y) \in Below
    <3>1. x \in 0 .. x /\ x \notin 0 .. y /\ (0 .. y) \subseteq (0 .. x)
      BY <1>4
    <3> QED
      BY <3>1
  <2>2. <<0 .. y, 0 .. x>> \in StrictSubsetOrdering(Nat)
    BY <2>1 DEF StrictSubsetOrdering
  <2> QED
    BY <1>2, <1>3, <2>1, <2>2
<1> QED
  BY <1>4

(* The numbers up to n that are in a set can be written in order.           *)
LEMMA Sorted ==
  ASSUME NEW n \in Nat, NEW S \in SUBSET (1 .. n)
  PROVE  /\ IsFiniteSet(S) /\ Cardinality(S) \in Nat
         /\ \E s \in [1 .. Cardinality(S) -> S] :
                \A i, j \in 1 .. Cardinality(S) : i < j => s[i] < s[j]
<1> DEFINE InOrder(U) == \E s \in [1 .. Cardinality(U) -> U] :
                             \A i, j \in 1 .. Cardinality(U) : i < j => s[i] < s[j]
           Bad == {k \in Nat : \E U \in SUBSET (1 .. k) : ~InOrder(U)}
<1>1. ASSUME NEW k \in Nat, NEW U \in SUBSET (1 .. k)
      PROVE  IsFiniteSet(U) /\ Cardinality(U) \in Nat
  <2>1. IsFiniteSet(1 .. k)
    BY FS_Interval
  <2>2. IsFiniteSet(U)
    BY <2>1, FS_Subset
  <2> QED
    BY <2>2, FS_CardinalityType
<1> HIDE DEF InOrder
<1>2. Bad = {}
  <2>1. SUFFICES ASSUME Bad # {} PROVE FALSE
    OBVIOUS
  <2>2. PICK k \in Bad : \A l \in Bad : k <= l
    BY <2>1, LeastNumber
  <2>3. PICK U \in SUBSET (1 .. k) : ~InOrder(U)
    BY <2>2
  <2>4. k \in Nat
    OBVIOUS
  <2>5. CASE U = {}
    <3>1. Cardinality(U) = 0
      BY <2>5, FS_EmptySet
    <3>2. [i \in 1 .. 0 |-> i] \in [1 .. 0 -> U]
      OBVIOUS
    <3> QED
      BY <2>3, <3>1, <3>2 DEF InOrder
  <2>6. CASE U # {} /\ k \notin U
    <3>1. U \in SUBSET (1 .. k - 1) /\ k - 1 \in Nat
      <4>1. \A u \in U : u \in 1 .. k - 1
        BY <2>4, <2>6
      <4>2. PICK u \in U : TRUE
        BY <2>6
      <4>3. k - 1 \in Nat
        BY <2>4, <4>1, <4>2
      <4> QED
        BY <4>1, <4>3
    <3>2. k - 1 \in Bad
      BY <2>3, <3>1
    <3> QED
      BY <2>2, <2>4, <3>2
  <2>7. CASE k \in U
    <3> DEFINE V == U \ {k}
    <3>1. V \in SUBSET (1 .. k - 1) /\ k - 1 \in Nat
      BY <2>4, <2>7
    <3>2. InOrder(V)
      <4>1. k - 1 \notin Bad
        BY <2>2, <2>4
      <4> QED
        BY <3>1, <4>1
    <3>3. Cardinality(U) \in Nat /\ Cardinality(V) = Cardinality(U) - 1 /\ Cardinality(V) \in Nat
      BY <1>1, <2>4, <2>7, <3>1, FS_RemoveElement
    <3> DEFINE m == Cardinality(U)
               l == Cardinality(V)
    <3>4. PICK s \in [1 .. l -> V] : \A i, j \in 1 .. l : i < j => s[i] < s[j]
      BY <3>2 DEF InOrder
    <3> DEFINE t == [i \in 1 .. m |-> IF i = m THEN k ELSE s[i]]
    <3>5. m \in Nat /\ l = m - 1
      BY <3>3
    <3> HIDE DEF m, l
    <3>6. t \in [1 .. m -> U]
      BY <2>7, <3>4, <3>5
    <3>7. \A i \in 1 .. l : s[i] \in Nat /\ s[i] < k
      <4>1. \A v \in V : v \in Nat /\ v < k
        BY <2>4, <3>1
      <4> QED
        BY <3>4, <4>1
    <3>8. ASSUME NEW i \in 1 .. m, NEW j \in 1 .. m, i < j PROVE t[i] < t[j]
      <4>1. i \in 1 .. l /\ t[i] = s[i]
        BY <3>5, <3>8
      <4>2. CASE j = m
        BY <3>7, <4>1, <4>2
      <4>3. CASE j # m
        BY <3>4, <3>5, <3>8, <4>1, <4>3
      <4> QED
        BY <4>2, <4>3
    <3> QED
      BY <2>3, <3>6, <3>8 DEF m, InOrder
  <2> QED
    BY <2>5, <2>6, <2>7
<1> QED
  BY <1>1, <1>2 DEF InOrder

(* An element that is removed leaves a sequence of the others.              *)
LEMMA Removed ==
  ASSUME NEW S, NEW s \in Seq(S), NEW i \in 1 .. Len(s)
  PROVE  /\ RemoveAt(s, i) \in Seq(S)
         /\ Range(RemoveAt(s, i)) \subseteq Range(s)
<1>1. /\ \A j \in 1 .. Len(s) : s[j] \in Range(s) /\ Len(s) \in Nat
      /\ s \in Seq(Range(s))
  BY RangeEquality, LenProperties, SeqOfRange
<1>2. SubSeq(s, 1, i - 1) \in Seq(Range(s)) /\ SubSeq(s, i + 1, Len(s)) \in Seq(Range(s))
  BY <1>1, SubSeqProperties
<1>3. RemoveAt(s, i) \in Seq(Range(s))
  BY <1>2, ConcatProperties DEF RemoveAt
<1>4. Range(s) \subseteq S
  BY RangeOfSeq
<1> QED
  BY <1>3, <1>4, RangeOfSeq, SeqMonotonic

LEMMA RemovedFirst ==
  ASSUME NEW S, NEW s \in Seq(S), NEW e
  PROVE  /\ RemoveFirstId(s, e) \in Seq(S)
         /\ Range(RemoveFirstId(s, e)) \subseteq Range(s)
<1> DEFINE I == {i \in 1 .. Len(s) : s[i] = e}
<1>1. CASE I = {}
  BY <1>1 DEF RemoveFirstId, RemoveFirst
<1>2. CASE I # {}
  <2>1. I \subseteq Nat /\ Len(s) \in Nat
    BY LenProperties
  <2>2. Min(I) \in I
    BY <1>2, <2>1, LeastNumber DEF Min
  <2>3. SelectInSeq(s, LAMBDA v : v = e) = Min(I)
    BY <1>2 DEF SelectInSeq
  <2>4. RemoveFirst(s, e) = RemoveAt(s, Min(I))
    BY <1>2, <2>3 DEF RemoveFirst
  <2> QED
    BY <2>2, <2>4, Removed DEF RemoveFirstId
<1> QED
  BY <1>1, <1>2

-----------------------------------------------------------------------------
(* The invariant.  Types first: what the variables range over.              *)
Ids == Nat \ {0}
TaskRec == [conn : Conns, pc : Pc, row : Nat, id : Nat, size : {0} \cup Sizes,
            items : Seq(Ids), todo : SUBSET Conns, reply : {"none", "ok", "error"}]
FrameRec == [type : {"error", "joined", "history", "message", "deleted"},
             ids : Seq(Ids), req : Nat]

RoomTypes == /\ room \in [Conns -> Rooms] /\ wallet \in [Conns -> Wallets]
             /\ admitted \subseteq Conns
             /\ open \subseteq Conns /\ fresh \subseteq Conns \ open
             /\ paid \subseteq Payers /\ named \subseteq Conns
             /\ tasks \in Seq(TaskRec) /\ Len(tasks) <= MaxRequests
             /\ mailbox \in [Conns -> Seq(FrameRec)]
             /\ list \in [Conns -> Seq(Ids)]

(* A message is posted in the room of the connection it came from, and      *)
(* that stays so when its row, or the room, is gone.                        *)
PostedIn(id, r) == \E t \in DOMAIN tasks : Posts(t) /\ tasks[t].id = id /\ RoomOf(t) = r

(* What a task knows by the statement it runs next.                         *)
Stored == {"select", "checkBytes", "evictMessage", "delete", "snapshot", "send"}
TaskOK(task) ==
    LET home == room[task.conn]
    IN  /\ task.pc \in MessagePc => task.size \in Sizes
        /\ task.pc \in JoinPc \cup {"delete"} => task.size = 0
        /\ task.pc \in {"lookup", "insert"} => task.id = 0
        /\ task.pc = "insert" => /\ task.row \in 1 .. nextRoom - 1
                                 /\ \A r \in Rooms : roomRow[r] = task.row => r = home
        /\ task.pc \in Stored => task.id # 0
        /\ task.id < nextMsg
        /\ task.pc \in {"snapshot", "send"} => PostedIn(task.id, home)
        /\ \A c \in task.todo : c \in admitted /\ room[c] = home
        /\ \A id \in Range(task.items) : PostedIn(id, home)
        /\ task.reply = "error" => task.pc = "done"
        /\ task.size > 0 => task.conn \in named
TasksOK == \A t \in DOMAIN tasks : TaskOK(tasks[t])

(* The database has what was posted, in the room it was posted in.          *)
Posted == \A m \in msgs, r \in Rooms : roomRow[r] = m.room => PostedIn(m.id, r)

(* Frames and lists have what was posted in the room of the client, and a   *)
(* message in a frame was not refused.                                      *)
Broadcasting(t) == tasks[t].pc \in {"send", "done"} /\ tasks[t].reply # "error"
FrameOK(c, f) == /\ \A id \in Range(f.ids) : PostedIn(id, room[c])
                 /\ f.type = "message" => f.req \in DOMAIN tasks /\ Broadcasting(f.req)
ClientsOK == \A c \in Conns : /\ \A id \in Range(list[c]) : PostedIn(id, room[c])
                              /\ \A f \in Range(mailbox[c]) : FrameOK(c, f)

PayersOK == OnlyPayersPost /\ \A c \in named : wallet[c] \in Payers

RoomInv == IInv /\ RoomTypes /\ TasksOK /\ Posted /\ ClientsOK /\ PayersOK
-----------------------------------------------------------------------------
(* What a history holds.                                                    *)
LEMMA RecentIds ==
  ASSUME StoreTypeOK, IdsBelow, NEW r \in Rooms
  PROVE  /\ Recent(r) \in Seq(Ids)
         /\ Range(Recent(r)) \subseteq {m.id : m \in MessagesOf(r)}
<1> DEFINE ids == {m.id : m \in MessagesOf(r)}
           cut == {i \in ids : Cardinality({j \in ids : j >= i}) <= HistoryLimit}
           n == Cardinality(cut)
           InOrder(s) == \A i, j \in 1 .. n : i < j => s[i] < s[j]
<1>1. nextMsg \in Nat /\ ids \subseteq Ids /\ ids \subseteq 1 .. nextMsg
  BY DEF MessagesOf, StoreTypeOK, Message, IdsBelow, Ids
<1>2. cut \in SUBSET (1 .. nextMsg) /\ cut \subseteq ids
  BY <1>1
<1>3. Recent(r) = CHOOSE s \in [1 .. n -> cut] : InOrder(s)
  BY DEF Recent
<1> HIDE DEF cut
<1>4. n \in Nat /\ \E s \in [1 .. n -> cut] : InOrder(s)
  BY <1>1, <1>2, Sorted
<1>5. Recent(r) \in [1 .. n -> cut]
  BY <1>3, <1>4
<1> HIDE DEF ids
<1>6. Recent(r) \in Seq(cut)
  BY <1>4, <1>5, SeqDef
<1>7. Recent(r) \in Seq(Ids) /\ Range(Recent(r)) \subseteq cut
  BY <1>1, <1>2, <1>6, SeqMonotonic, RangeOfSeq
<1> QED
  BY <1>2, <1>7 DEF ids

-----------------------------------------------------------------------------
(* The tasks after a step of task t.                                        *)
OthersSame(t) == /\ tasks' \in Seq(TaskRec) /\ Len(tasks') = Len(tasks)
                 /\ DOMAIN tasks' = DOMAIN tasks
                 /\ \A u \in DOMAIN tasks \ {t} : tasks'[u] = tasks[u]

LEMMA Replaced ==
  ASSUME tasks \in Seq(TaskRec), NEW t \in DOMAIN tasks, NEW rec \in TaskRec,
         tasks' = [tasks EXCEPT ![t] = rec]
  PROVE  OthersSame(t) /\ tasks'[t] = rec
<1>1. DOMAIN tasks = 1 .. Len(tasks) /\ t \in 1 .. Len(tasks)
  BY LenProperties
<1>2. /\ tasks' \in Seq(TaskRec) /\ Len(tasks') = Len(tasks)
      /\ \A u \in 1 .. Len(tasks) : tasks'[u] = IF u = t THEN rec ELSE tasks[u]
  BY <1>1, ExceptSeq
<1> QED
  BY <1>1, <1>2, LenProperties DEF OthersSame

LEMMA TaskIsRec ==
  ASSUME tasks \in Seq(TaskRec), NEW t \in DOMAIN tasks
  PROVE  tasks[t] \in TaskRec
BY ElementOfSeq, LenProperties

LEMMA Moved ==
  ASSUME tasks \in Seq(TaskRec), NEW t \in DOMAIN tasks, NEW pc \in Pc, Goto(t, pc)
  PROVE  /\ OthersSame(t)
         /\ tasks'[t].conn = tasks[t].conn /\ tasks'[t].pc = pc /\ tasks'[t].row = tasks[t].row
         /\ tasks'[t].id = tasks[t].id /\ tasks'[t].size = tasks[t].size
         /\ tasks'[t].items = tasks[t].items /\ tasks'[t].todo = tasks[t].todo
         /\ tasks'[t].reply = tasks[t].reply
<1>1. tasks[t] \in TaskRec
  BY TaskIsRec
<1> DEFINE rec == [tasks[t] EXCEPT !.pc = pc]
<1>2. rec \in TaskRec
  BY <1>1 DEF TaskRec
<1>3. tasks' = [tasks EXCEPT ![t] = rec]
  BY DEF Goto
<1>4. OthersSame(t) /\ tasks'[t] = rec
  BY <1>2, <1>3, Replaced
<1> QED
  BY <1>1, <1>4 DEF TaskRec

LEMMA Ended ==
  ASSUME tasks \in Seq(TaskRec), NEW t \in DOMAIN tasks, NEW reply \in {"none", "ok", "error"},
         End(t, reply)
  PROVE  /\ OthersSame(t)
         /\ tasks'[t].conn = tasks[t].conn /\ tasks'[t].pc = "done"
         /\ tasks'[t].id = tasks[t].id /\ tasks'[t].size = tasks[t].size
         /\ tasks'[t].items = <<>> /\ tasks'[t].todo = {} /\ tasks'[t].reply = reply
<1>1. tasks[t] \in TaskRec
  BY TaskIsRec
<1> DEFINE task == Task(tasks[t].conn, "done", tasks[t].id, tasks[t].size)
           rec == [task EXCEPT !.reply = reply]
<1>2. /\ task \in TaskRec
      /\ task.conn = tasks[t].conn /\ task.pc = "done" /\ task.id = tasks[t].id
      /\ task.size = tasks[t].size /\ task.items = <<>> /\ task.todo = {}
  <2>1. <<>> \in Seq(Ids) /\ "done" \in Pc
    BY DEF Pc
  <2> QED
    BY <1>1, <2>1 DEF TaskRec, Task
<1>3. tasks' = [tasks EXCEPT ![t] = rec]
  BY DEF End
<1> HIDE DEF task
<1>4. /\ rec \in TaskRec /\ rec.reply = reply
      /\ rec.conn = task.conn /\ rec.pc = task.pc /\ rec.id = task.id
      /\ rec.size = task.size /\ rec.items = task.items /\ rec.todo = task.todo
  BY <1>2 DEF TaskRec
<1> HIDE DEF rec
<1>5. OthersSame(t) /\ tasks'[t] = rec
  BY <1>3, <1>4, Replaced
<1> QED
  BY <1>2, <1>4, <1>5
-----------------------------------------------------------------------------
(* What no step takes back: row ids are not given again, what was posted    *)
(* stays posted, and a task that broadcasts is not refused.                 *)
StoreGrows == /\ nextRoom \in Nat /\ nextRoom' \in Nat /\ nextRoom <= nextRoom'
              /\ nextMsg \in Nat /\ nextMsg' \in Nat /\ nextMsg <= nextMsg'
              /\ \A r \in Rooms : roomRow'[r] \in {roomRow[r], 0, nextRoom}
TaskGrows(t) == /\ tasks'[t].conn = tasks[t].conn
                /\ tasks'[t].size = tasks[t].size
                /\ tasks[t].id # 0 => tasks'[t].id = tasks[t].id
                /\ Broadcasting(t) => Broadcasting(t)'
Grows == /\ UNCHANGED <<room, wallet, admitted>>
         /\ named \subseteq named'
         /\ DOMAIN tasks \subseteq DOMAIN tasks'
         /\ \A t \in DOMAIN tasks : TaskGrows(t)

LEMMA StoreGrowing ==
  ASSUME IInv, [StoreNext]_storeVars
  PROVE  StoreGrows
<1> USE DEF IInv, StoreTypeOK, StoreGrows
<1>1. ASSUME NEW r \in Rooms, InsertRoom(r) PROVE StoreGrows
  BY <1>1 DEF InsertRoom
<1>2. CASE DeletePoorestRoom
  BY <1>2 DEF DeletePoorestRoom
<1>3. ASSUME NEW row, NEW w, NEW size, InsertMessage(row, w, size) PROVE StoreGrows
  BY <1>3 DEF InsertMessage
<1>4. CASE DeleteOldest
  BY <1>4 DEF DeleteOldest
<1>5. ASSUME NEW id, NEW r, NEW w, DeleteMessage(id, r, w) PROVE StoreGrows
  BY <1>5 DEF DeleteMessage
<1>6. CASE UNCHANGED storeVars
  BY <1>6 DEF storeVars
<1> QED
  BY <1>1, <1>2, <1>3, <1>4, <1>5, <1>6 DEF StoreNext

LEMMA StaysPosted ==
  ASSUME Grows, NEW id \in Ids, NEW r, PostedIn(id, r)
  PROVE  PostedIn(id, r)'
<1>1. PICK t \in DOMAIN tasks : Posts(t) /\ tasks[t].id = id /\ RoomOf(t) = r
  BY DEF PostedIn
<1>2. t \in DOMAIN tasks' /\ TaskGrows(t) /\ room' = room /\ id # 0
  BY <1>1 DEF Grows, Ids
<1>3. Posts(t)' /\ tasks'[t].id = id /\ RoomOf(t)' = r
  BY <1>1, <1>2 DEF TaskGrows, Posts, RoomOf
<1> QED
  BY <1>2, <1>3 DEF PostedIn

(* A task that another task's step leaves alone.                            *)
LEMMA SameTask ==
  ASSUME RoomTypes, Grows, StoreGrows, NEW task \in TaskRec, TaskOK(task)
  PROVE  TaskOK(task)'
<1> DEFINE home == room[task.conn]
<1>1. home' = home /\ room' = room /\ admitted' = admitted /\ named \subseteq named'
  BY DEF Grows
<1>2. task.pc \in {"snapshot", "send"} => PostedIn(task.id, home)'
  <2>1. task.pc \in {"snapshot", "send"} => task.id \in Ids /\ PostedIn(task.id, home)
    BY DEF TaskOK, Stored, TaskRec, Ids
  <2> QED
    BY <1>1, <2>1, StaysPosted DEF PostedIn
<1>3. \A id \in Range(task.items) : PostedIn(id, home)'
  <2>1. \A id \in Range(task.items) : id \in Ids /\ PostedIn(id, home)
    BY RangeOfSeq DEF TaskOK, TaskRec
  <2> QED
    BY <1>1, <2>1, StaysPosted DEF PostedIn
<1>4. task.pc = "insert" => /\ task.row \in 1 .. nextRoom' - 1
                            /\ \A r \in Rooms : roomRow'[r] = task.row => r = home
  BY DEF TaskOK, StoreGrows
<1>5. task.id < nextMsg'
  BY DEF TaskOK, StoreGrows, TaskRec
<1> HIDE DEF home
<1>6. /\ task.pc \in MessagePc => task.size \in Sizes
      /\ task.pc \in JoinPc \cup {"delete"} => task.size = 0
      /\ task.pc \in {"lookup", "insert"} => task.id = 0
      /\ task.pc \in Stored => task.id # 0
      /\ \A c \in task.todo : c \in admitted' /\ room'[c] = home
      /\ task.reply = "error" => task.pc = "done"
      /\ task.size > 0 => task.conn \in named'
  BY <1>1 DEF TaskOK, home
<1> QED
  BY <1>1, <1>2, <1>3, <1>4, <1>5, <1>6 DEF TaskOK, home
(* What a step is, for the tasks: one task moves, the others stay.          *)
TaskStep(t) == OthersSame(t) /\ TaskGrows(t) /\ UNCHANGED connVars /\ named \subseteq named'

LEMMA StepGrows ==
  ASSUME RoomTypes, NEW t \in DOMAIN tasks, TaskStep(t)
  PROVE  Grows
BY DEF Grows, TaskStep, OthersSame, TaskGrows, Broadcasting, connVars

LEMMA OneTask ==
  ASSUME RoomTypes, TasksOK, StoreGrows, NEW t \in DOMAIN tasks, TaskStep(t), TaskOK(tasks[t])'
  PROVE  TasksOK'
<1>1. Grows
  BY StepGrows
<1>2. ASSUME NEW u \in DOMAIN tasks' PROVE TaskOK(tasks[u])'
  <2>1. CASE u = t
    BY <2>1
  <2>2. CASE u # t
    <3> DEFINE task == tasks[u]
    <3>1. u \in DOMAIN tasks /\ tasks'[u] = tasks[u]
      BY <1>2, <2>2 DEF TaskStep, OthersSame
    <3>2. task \in TaskRec /\ TaskOK(task)
      BY <3>1, TaskIsRec DEF RoomTypes, TasksOK
    <3>3. \A rec \in TaskRec : TaskOK(rec) => TaskOK(rec)'
      BY <1>1, SameTask
    <3>4. task' = task
      BY <3>1
    <3> QED
      BY <3>2, <3>3, <3>4
  <2> QED
    BY <2>1, <2>2
<1> QED
  BY <1>2 DEF TasksOK

(* Messages that were in the tables before the step stay posted.            *)
LEMMA StillPosted ==
  ASSUME IInv, Posted, Grows, StoreGrows,
         \A m \in msgs' \ msgs, r \in Rooms : roomRow'[r] = m.room => PostedIn(m.id, r)'
  PROVE  Posted'
<1>1. ASSUME NEW m \in msgs, NEW r \in Rooms, roomRow'[r] = m.room PROVE PostedIn(m.id, r)'
  <2>1. m.id \in Ids /\ m.room # 0 /\ m.room < nextRoom
    BY DEF IInv, StoreTypeOK, Message, Ids, NoOrphan, RowsBelow
  <2>2. roomRow[r] = m.room
    BY <1>1, <2>1 DEF StoreGrows
  <2> QED
    BY <2>1, <2>2, StaysPosted DEF Posted
<1> QED
  BY <1>1 DEF Posted

(* Frames and lists that stay are right as before.                          *)
LEMMA FrameStays ==
  ASSUME Grows, NEW c \in Conns, NEW f \in FrameRec, FrameOK(c, f)
  PROVE  FrameOK(c, f)'
<1>1. \A id \in Range(f.ids) : PostedIn(id, room[c])'
  <2>1. \A id \in Range(f.ids) : id \in Ids /\ PostedIn(id, room[c])
    BY RangeOfSeq DEF FrameOK, FrameRec
  <2> QED
    BY <2>1, StaysPosted DEF Grows, PostedIn
<1> QED
  BY <1>1 DEF FrameOK, Grows, TaskGrows

LEMMA ListStays ==
  ASSUME RoomTypes, ClientsOK, Grows, NEW c \in Conns, list'[c] = list[c]
  PROVE  \A id \in Range(list'[c]) : PostedIn(id, room[c])'
<1>1. \A id \in Range(list[c]) : id \in Ids /\ PostedIn(id, room[c])
  BY RangeOfSeq DEF ClientsOK, RoomTypes
<1> QED
  BY <1>1, StaysPosted DEF Grows, PostedIn

LEMMA MailboxStays ==
  ASSUME RoomTypes, ClientsOK, Grows, NEW c \in Conns
  PROVE  \A f \in Range(mailbox[c]) : FrameOK(c, f)'
<1>1. \A f \in Range(mailbox[c]) : f \in FrameRec /\ FrameOK(c, f)
  BY RangeOfSeq DEF ClientsOK, RoomTypes
<1> QED
  BY <1>1, FrameStays

LEMMA SameClients ==
  ASSUME RoomTypes, ClientsOK, Grows, UNCHANGED <<mailbox, list>>
  PROVE  ClientsOK'
<1>1. ASSUME NEW c \in Conns
      PROVE  /\ \A id \in Range(list'[c]) : PostedIn(id, room[c])'
             /\ \A f \in Range(mailbox'[c]) : FrameOK(c, f)'
  BY ListStays, MailboxStays
<1> QED
  BY <1>1 DEF ClientsOK

LEMMA Pushed ==
  ASSUME RoomTypes, ClientsOK, Grows, UNCHANGED list,
         NEW c \in Conns, NEW frame \in FrameRec, FrameOK(c, frame)', Push(c, frame)
  PROVE  mailbox' \in [Conns -> Seq(FrameRec)] /\ ClientsOK'
<1>1. /\ mailbox' \in [Conns -> Seq(FrameRec)]
      /\ \A d \in Conns : Range(mailbox'[d]) \subseteq Range(mailbox[d]) \cup (IF d = c THEN {frame} ELSE {})
  <2>1. mailbox[c] \in Seq(FrameRec)
    BY DEF RoomTypes
  <2>2. Append(mailbox[c], frame) \in Seq(FrameRec)
        /\ Range(Append(mailbox[c], frame)) = Range(mailbox[c]) \cup {frame}
    <3> DEFINE s == Append(mailbox[c], frame)
               one == <<frame>>
    <3>1. s \in Seq(FrameRec) /\ s = mailbox[c] \o one
      BY <2>1, AppendProperties, AppendIsConcat
    <3>2. one \in Seq(FrameRec) /\ Range(one) = {frame}
      BY DEF Range
    <3> HIDE DEF one
    <3>3. Range(mailbox[c] \o one) = Range(mailbox[c]) \cup Range(one)
      BY <2>1, <3>2, RangeConcatenation
    <3> QED
      BY <3>1, <3>2, <3>3
  <2> QED
    BY <2>2 DEF Push, RoomTypes
<1>2. ASSUME NEW d \in Conns
      PROVE  /\ \A id \in Range(list'[d]) : PostedIn(id, room[d])'
             /\ \A f \in Range(mailbox'[d]) : FrameOK(d, f)'
  BY <1>1, ListStays, MailboxStays
<1> QED
  BY <1>1, <1>2 DEF ClientsOK
-----------------------------------------------------------------------------
(* Every step is, for the two tables, a statement or nothing: the handlers  *)
(* use the store only as ChatStore says.                                    *)
LEMMA TaskFacts ==
  ASSUME RoomTypes, TasksOK, NEW t \in DOMAIN tasks
  PROVE  /\ tasks[t] \in TaskRec /\ TaskOK(tasks[t])
         /\ RoomOf(t) \in Rooms /\ wallet[tasks[t].conn] \in Wallets
BY TaskIsRec DEF RoomTypes, TasksOK, TaskRec, RoomOf

LEMMA DatabaseStoreStep ==
  ASSUME RoomInv, NEW t \in DOMAIN tasks, Database(t)
  PROVE  [StoreNext]_storeVars
<1> DEFINE task == tasks[t]
<1>1. /\ task \in TaskRec /\ TaskOK(task) /\ RoomOf(t) \in Rooms /\ wallet[task.conn] \in Wallets
      /\ nextMsg \in Nat
  BY TaskFacts DEF RoomInv, IInv, StoreTypeOK
<1>2. CASE CreateRoom(t)
  BY <1>1, <1>2 DEF CreateRoom, StoreNext
<1>3. CASE CheckRooms(t) \/ ReadHistory(t) \/ Lookup(t) \/ SelectBack(t) \/ CheckBytes(t) \/ StatementFails(t)
  BY <1>3 DEF CheckRooms, ReadHistory, Lookup, SelectBack, CheckBytes, StatementFails
<1>4. CASE EvictRoom(t)
  BY <1>4 DEF EvictRoom, StoreNext
<1>5. CASE Insert(t)
  <2>1. task.pc = "insert" /\ task.size \in Sizes /\ task.row \in 1 .. nextRoom - 1
    BY <1>1, <1>5 DEF Insert, At, TaskOK, MessagePc
  <2>2. CASE ForeignKeyAccepts(task.row)
    <3>1. InsertMessage(task.row, wallet[task.conn], task.size)
      BY <1>5, <2>2 DEF Insert
    <3> QED
      BY <1>1, <2>1, <3>1 DEF StoreNext
  <2>3. CASE ~ForeignKeyAccepts(task.row)
    BY <1>5, <2>3 DEF Insert
  <2> QED
    BY <2>2, <2>3
<1>6. CASE EvictMessage(t)
  BY <1>6 DEF EvictMessage, StoreNext
<1>7. CASE Delete(t)
  <2>1. task.pc = "delete" /\ task.id \in 1 .. nextMsg - 1
    BY <1>1, <1>7 DEF Delete, At, TaskOK, Stored, TaskRec
  <2>2. DeleteMessage(task.id, RoomOf(t), wallet[task.conn])
    BY <1>7 DEF Delete
  <2> QED
    BY <1>1, <2>1, <2>2 DEF StoreNext
<1> QED
  BY <1>2, <1>3, <1>4, <1>5, <1>6, <1>7 DEF Database

LEMMA StoreStep ==
  ASSUME RoomInv, [Next]_vars
  PROVE  [StoreNext]_storeVars
<1>1. ASSUME NEW c \in Conns, Open(c) \/ Request(c) \/ Show(c) \/ Close(c)
      PROVE  UNCHANGED storeVars
  BY <1>1 DEF Open, Request, JoinAccepted, MessageAccepted, DeleteRequested, Show, Close
<1>2. ASSUME NEW w \in Wallets, AccessExpires(w) PROVE UNCHANGED storeVars
  BY <1>2 DEF AccessExpires
<1>3. ASSUME NEW t \in DOMAIN tasks, Reply(t) PROVE UNCHANGED storeVars
  BY <1>3 DEF Reply, PushError, PushJoined, PushHistory, SnapshotRecipients, SendOne
<1>4. CASE UNCHANGED vars
  BY <1>4 DEF vars
<1> QED
  BY <1>1, <1>2, <1>3, <1>4, DatabaseStoreStep DEF Next

-----------------------------------------------------------------------------
(* Steps of a task at the database.                                         *)
RoomGoal == RoomTypes /\ TasksOK /\ Posted /\ ClientsOK /\ PayersOK

LEMMA DatabaseStep ==
  ASSUME RoomInv, StoreGrows, NEW t \in DOMAIN tasks,
         OthersSame(t), TaskGrows(t), TaskOK(tasks[t])',
         UNCHANGED <<connVars, open, paid, named, clientVars>>,
         \A m \in msgs' \ msgs : /\ m.author \in Payers
                                 /\ \A r \in Rooms : roomRow'[r] = m.room => PostedIn(m.id, r)'
  PROVE  RoomGoal'
<1>1. TaskStep(t) /\ UNCHANGED <<mailbox, list, room, wallet, admitted, fresh>>
  BY DEF TaskStep, connVars, clientVars
<1>2. Grows
  BY <1>1, StepGrows DEF RoomInv
<1>3. TasksOK'
  BY <1>1, OneTask DEF RoomInv
<1>4. Posted' /\ ClientsOK'
  BY <1>1, <1>2, StillPosted, SameClients DEF RoomInv
<1>5. RoomTypes'
  BY <1>1 DEF RoomInv, RoomTypes, OthersSame
<1>6. PayersOK'
  BY <1>1 DEF RoomInv, PayersOK, OnlyPayersPost
<1> QED
  BY <1>3, <1>4, <1>5, <1>6 DEF RoomGoal

(* What a task must know to go on at pc.                                    *)
MayGo(t, pc) == /\ pc \in Pc
                /\ pc \in MessagePc => tasks[t].size \in Sizes
                /\ pc \in JoinPc \cup {"delete"} => tasks[t].size = 0
                /\ pc \notin {"lookup", "insert"}
                /\ pc \in Stored => tasks[t].id # 0
                /\ pc \in {"snapshot", "send"} => PostedIn(tasks[t].id, RoomOf(t))

LEMMA GoesOn ==
  ASSUME RoomInv, StoreGrows, NEW t \in DOMAIN tasks, NEW pc, Goto(t, pc), MayGo(t, pc),
         tasks[t].pc \notin {"send", "done"}, UNCHANGED <<connVars, named>>
  PROVE  OthersSame(t) /\ TaskGrows(t) /\ TaskOK(tasks[t])'
<1> DEFINE task == tasks[t]
<1>1. /\ OthersSame(t)
      /\ task'.conn = task.conn /\ task'.pc = pc /\ task'.id = task.id
      /\ task'.size = task.size /\ task'.items = task.items /\ task'.todo = task.todo
      /\ task'.reply = task.reply
  BY Moved DEF RoomInv, RoomTypes, MayGo
<1>2. TaskGrows(t)
  BY <1>1 DEF TaskGrows, Broadcasting
<1>3. Grows
  BY <1>1, <1>2, StepGrows DEF RoomInv, TaskStep
<1>4. task \in TaskRec /\ TaskOK(task) /\ UNCHANGED <<room, admitted, named>>
  BY TaskFacts DEF RoomInv, connVars
<1> HIDE DEF task
<1> DEFINE home == room[task.conn]
<1>5. home' = home /\ RoomOf(t) = home
  BY <1>1, <1>4 DEF RoomOf, task
<1>6. pc \in {"snapshot", "send"} => PostedIn(task.id, home)'
  <2>1. pc \in {"snapshot", "send"} => task.id \in Ids /\ PostedIn(task.id, home)
    BY <1>4, <1>5 DEF MayGo, Stored, TaskRec, Ids, task
  <2> QED
    BY <1>1, <1>3, <1>5, <2>1, StaysPosted DEF PostedIn
<1>7. \A id \in Range(task.items) : PostedIn(id, home)'
  <2>1. \A id \in Range(task.items) : id \in Ids /\ PostedIn(id, home)
    BY <1>4, RangeOfSeq DEF TaskOK, TaskRec
  <2> QED
    BY <1>3, <1>5, <2>1, StaysPosted DEF PostedIn
<1>8. task.id < nextMsg' /\ task.reply # "error"
  BY <1>4 DEF TaskOK, StoreGrows, TaskRec, task
<1>9. TaskOK(task)'
  <2>1. \A d \in task.todo : d \in admitted /\ room[d] = home
    BY <1>4 DEF TaskOK
  <2>2. task.size > 0 => task.conn \in named
    BY <1>4 DEF TaskOK
  <2> HIDE DEF home
  <2> QED
    BY <1>1, <1>4, <1>5, <1>6, <1>7, <1>8, <2>1, <2>2 DEF TaskOK, MayGo, task, home
<1> QED
  BY <1>1, <1>2, <1>9 DEF task
LEMMA DatabaseKeeps ==
  ASSUME RoomInv, NEW t \in DOMAIN tasks, Database(t)
  PROVE  RoomGoal' /\ TaskStep(t)
<1> DEFINE task == tasks[t]
           known == OthersSame(t) /\ TaskGrows(t) /\ TaskOK(tasks[t])'
           lawful == \A m \in msgs' \ msgs :
                         /\ m.author \in Payers
                         /\ \A r \in Rooms : roomRow'[r] = m.room => PostedIn(m.id, r)'
<1>1. StoreGrows
  BY DatabaseStoreStep, StoreGrowing DEF RoomInv
<1>2. UNCHANGED <<connVars, open, paid, named, clientVars>>
  BY DEF Database
<1>3. SUFFICES known /\ lawful
  <2>1. UNCHANGED connVars /\ named \subseteq named'
    BY <1>2
  <2> QED
    BY <1>1, <1>2, <2>1, DatabaseStep, Zenon DEF TaskStep
<1>4. /\ task \in TaskRec /\ TaskOK(task) /\ RoomOf(t) \in Rooms /\ wallet[task.conn] \in Wallets
  BY TaskFacts DEF RoomInv
<1>5. /\ task.pc \in MessagePc => task.size \in Sizes /\ task.size > 0
      /\ task.pc \in JoinPc \cup {"delete"} => task.size = 0
      /\ task.pc \in Stored => task.id # 0
  <2>1. \A size \in Sizes : size > 0
    BY StoreAssumption
  <2> HIDE DEF task
  <2> QED
    BY <1>4, <2>1 DEF TaskOK
<1>6. Posts(t) /\ task.id # 0 => PostedIn(task.id, RoomOf(t))
  BY DEF PostedIn
<1> HIDE DEF task
<1>7. ASSUME NEW pc, Goto(t, pc), MayGo(t, pc), task.pc \notin {"send", "done"} PROVE known
  BY <1>1, <1>2, <1>7, GoesOn DEF task
<1>8. CASE CreateRoom(t)
  <2>1. Goto(t, "checkRooms") /\ MayGo(t, "checkRooms") /\ task.pc \notin {"send", "done"}
    BY <1>5, <1>8 DEF CreateRoom, At, MayGo, Pc, JoinPc, MessagePc, Stored, task
  <2>2. msgs' = msgs
    BY <1>8 DEF CreateRoom, InsertRoom
  <2> QED
    BY <1>7, <2>1, <2>2
<1>9. CASE CheckRooms(t)
  <2>1. PICK pc \in {"evictRoom", "readHistory"} : Goto(t, pc)
    BY <1>9 DEF CheckRooms
  <2>2. MayGo(t, pc) /\ task.pc \notin {"send", "done"} /\ msgs' = msgs
    BY <1>5, <1>9 DEF CheckRooms, At, MayGo, Pc, JoinPc, MessagePc, Stored, task, storeVars
  <2> QED
    BY <1>7, <2>1, <2>2
<1>10. CASE EvictRoom(t)
  <2>1. PICK pc \in {"checkRooms", "readHistory"} : Goto(t, pc)
    BY <1>10 DEF EvictRoom
  <2>2. MayGo(t, pc) /\ task.pc \notin {"send", "done"} /\ msgs' \subseteq msgs
    BY <1>5, <1>10 DEF EvictRoom, At, MayGo, Pc, JoinPc, MessagePc, Stored, task, storeVars, DeletePoorestRoom
  <2> QED
    BY <1>7, <2>1, <2>2
<1>11. CASE SelectBack(t)
  <2>1. PICK pc \in {"checkBytes", "refuse"} : Goto(t, pc)
    BY <1>11 DEF SelectBack
  <2>2. MayGo(t, pc) /\ task.pc \notin {"send", "done"} /\ msgs' = msgs
    BY <1>5, <1>11 DEF SelectBack, At, MayGo, Pc, JoinPc, MessagePc, Stored, task, storeVars
  <2> QED
    BY <1>7, <2>1, <2>2
<1>12. CASE CheckBytes(t)
  <2>1. PICK pc \in {"evictMessage", "snapshot"} : Goto(t, pc)
    BY <1>12 DEF CheckBytes
  <2>2. MayGo(t, pc) /\ task.pc \notin {"send", "done"} /\ msgs' = msgs
    BY <1>5, <1>6, <1>12 DEF CheckBytes, At, MayGo, Pc, JoinPc, MessagePc, Stored, task, storeVars, Posts
  <2> QED
    BY <1>7, <2>1, <2>2
<1>13. CASE EvictMessage(t)
  <2>1. PICK pc \in {"checkBytes", "snapshot"} : Goto(t, pc)
    BY <1>13 DEF EvictMessage
  <2>2. MayGo(t, pc) /\ task.pc \notin {"send", "done"} /\ msgs' \subseteq msgs
    BY <1>5, <1>6, <1>13 DEF EvictMessage, DeleteOldest, At, MayGo, Pc, JoinPc, MessagePc, Stored, task, Posts
  <2> QED
    BY <1>7, <2>1, <2>2
<1>14. CASE Delete(t)
  <2>1. PICK pc \in {"snapshot", "refuse"} :
            /\ Goto(t, pc)
            /\ pc = "snapshot" => Deletable(task.id, RoomOf(t), wallet[task.conn]) # {}
    BY <1>14 DEF Delete, task
  <2>2. pc = "snapshot" => PostedIn(task.id, RoomOf(t))
    BY <1>4, <2>1 DEF Deletable, MessagesOf, RoomInv, Posted
  <2>3. MayGo(t, pc) /\ task.pc \notin {"send", "done"} /\ msgs' \subseteq msgs
    BY <1>5, <1>14, <2>2 DEF Delete, DeleteMessage, At, MayGo, Pc, JoinPc, MessagePc, Stored, task
  <2> QED
    BY <1>7, <2>1, <2>3
<1>15. CASE StatementFails(t)
  <2>1. Goto(t, "refuse") /\ MayGo(t, "refuse") /\ task.pc \notin {"send", "done"} /\ msgs' = msgs
    BY <1>15 DEF StatementFails, MayGo, Pc, JoinPc, MessagePc, Stored, task, storeVars
  <2> QED
    BY <1>7, <2>1
<1>16. CASE ReadHistory(t)
  <2>1. /\ tasks' = [tasks EXCEPT ![t].pc = "pushJoined", ![t].items = Recent(RoomOf(t))]
        /\ msgs' = msgs /\ task.pc = "readHistory"
    BY <1>16 DEF ReadHistory, At, task, storeVars
  <2>2. PICK items \in Seq(Ids) :
            /\ items = Recent(RoomOf(t))
            /\ \A id \in Range(items) : id \in Ids /\ PostedIn(id, RoomOf(t))
    <3>1. /\ Recent(RoomOf(t)) \in Seq(Ids)
          /\ Range(Recent(RoomOf(t))) \subseteq {m.id : m \in MessagesOf(RoomOf(t))}
      BY <1>4, RecentIds DEF RoomInv, IInv
    <3>2. \A m \in MessagesOf(RoomOf(t)) : PostedIn(m.id, RoomOf(t))
      BY <1>4 DEF MessagesOf, RoomInv, Posted
    <3> QED
      BY <3>1, <3>2, RangeOfSeq
  <2>3. PICK rec \in TaskRec :
            /\ rec = [task EXCEPT !.pc = "pushJoined", !.items = items]
            /\ rec.conn = task.conn /\ rec.size = task.size /\ rec.id = task.id
            /\ rec.pc = "pushJoined" /\ rec.items = items /\ rec.todo = task.todo
            /\ rec.reply = task.reply
    <3> DEFINE new == [task EXCEPT !.pc = "pushJoined", !.items = items]
    <3>1. /\ new \in TaskRec
          /\ new.conn = task.conn /\ new.size = task.size /\ new.id = task.id
          /\ new.pc = "pushJoined" /\ new.items = items /\ new.todo = task.todo
          /\ new.reply = task.reply
      BY <1>4, <2>1, <2>2 DEF TaskRec, Pc, JoinPc
    <3> HIDE DEF new
    <3>2. \E rec \in TaskRec : rec = new
      BY <3>1
    <3> QED
      BY <3>1, <3>2 DEF new
  <2>4. tasks' = [tasks EXCEPT ![t] = rec]
    BY <2>1, <2>2, <2>3 DEF task
  <2>5. OthersSame(t) /\ tasks'[t] = rec
    BY <2>3, <2>4, Replaced DEF RoomInv, RoomTypes
  <2>6. TaskGrows(t)
    BY <2>1, <2>3, <2>5 DEF TaskGrows, Broadcasting, task
  <2>7. TaskOK(rec)'
    <3>1. PICK home \in Rooms : home = RoomOf(t)
      BY <1>4
    <3>2. room'[rec.conn] = home /\ room' = room /\ admitted' = admitted /\ named' = named
      BY <1>2, <2>3, <3>1 DEF RoomOf, connVars, task
    <3>3. \A id \in Range(items) : PostedIn(id, home)'
      <4>1. Grows
        BY <1>2, <2>5, <2>6, StepGrows DEF RoomInv, TaskStep
      <4> QED
        BY <2>2, <3>1, <4>1, StaysPosted
    <3>4. rec.id < nextMsg'
      BY <1>1, <1>4, <2>3 DEF TaskOK, StoreGrows, TaskRec
    <3>5. \A d \in rec.todo : d \in admitted /\ room[d] = home
      BY <1>4, <2>3, <3>1, <3>2 DEF TaskOK
    <3>6. rec.size = 0 /\ rec.reply # "error"
      BY <1>4, <2>1, <2>3 DEF TaskOK, JoinPc
    <3> QED
      BY <2>3, <3>2, <3>3, <3>4, <3>5, <3>6 DEF TaskOK, Stored, MessagePc
  <2> QED
    BY <2>1, <2>5, <2>6, <2>7
<1>17. CASE Lookup(t)
  <2>1. PICK pc \in {"insert", "refuse"}, row \in Nat :
            /\ tasks' = [tasks EXCEPT ![t].row = row, ![t].pc = pc]
            /\ row = roomRow[RoomOf(t)]
            /\ pc = "insert" => row # 0
    BY <1>4, <1>17 DEF Lookup, HasRow, RoomInv, IInv, StoreTypeOK
  <2>2. UNCHANGED storeVars /\ task.pc = "lookup"
    BY <1>17 DEF Lookup, At, task
  <2>3. PICK rec \in TaskRec :
            /\ rec = [task EXCEPT !.row = row, !.pc = pc]
            /\ rec.conn = task.conn /\ rec.size = task.size /\ rec.id = task.id
            /\ rec.pc = pc /\ rec.row = row /\ rec.items = task.items /\ rec.todo = task.todo
            /\ rec.reply = task.reply
    <3> DEFINE new == [task EXCEPT !.row = row, !.pc = pc]
    <3>1. /\ new \in TaskRec
          /\ new.conn = task.conn /\ new.size = task.size /\ new.id = task.id
          /\ new.pc = pc /\ new.row = row /\ new.items = task.items /\ new.todo = task.todo
          /\ new.reply = task.reply
      BY <1>4, <2>1, <2>2 DEF TaskRec, Pc, MessagePc
    <3> HIDE DEF new
    <3>2. \E rec \in TaskRec : rec = new
      BY <3>1
    <3> QED
      BY <3>1, <3>2 DEF new
  <2>4. tasks' = [tasks EXCEPT ![t] = rec]
    BY <2>1, <2>3 DEF task
  <2>5. OthersSame(t) /\ tasks'[t] = rec
    BY <2>3, <2>4, Replaced DEF RoomInv, RoomTypes
  <2>6. TaskGrows(t)
    BY <2>2, <2>3, <2>5 DEF TaskGrows, Broadcasting, task
  <2>7. TaskOK(rec)'
    <3>1. PICK home \in Rooms : home = RoomOf(t) /\ home = room[task.conn]
      BY <1>4 DEF RoomOf, task
    <3>2. /\ room'[rec.conn] = home /\ room' = room /\ admitted' = admitted /\ named' = named
          /\ nextMsg' = nextMsg /\ nextRoom' = nextRoom /\ roomRow' = roomRow
      BY <1>2, <2>2, <2>3, <3>1 DEF connVars, storeVars
    <3>3. \A id \in Range(rec.items) : PostedIn(id, home)'
      <4>1. Grows
        BY <1>2, <2>5, <2>6, StepGrows DEF RoomInv, TaskStep
      <4>2. \A id \in Range(task.items) : id \in Ids /\ PostedIn(id, home)
        BY <1>4, <3>1, RangeOfSeq DEF TaskOK, TaskRec
      <4> QED
        BY <2>3, <4>1, <4>2, StaysPosted
    <3>4. \A d \in rec.todo : d \in admitted /\ room[d] = home
      BY <1>4, <2>3, <3>1 DEF TaskOK
    <3>5. /\ rec.size \in Sizes /\ rec.size > 0 /\ rec.reply # "error" /\ rec.conn \in named
          /\ rec.id = 0 /\ rec.id < nextMsg
      BY <1>4, <1>5, <2>2, <2>3 DEF TaskOK, MessagePc
    <3>6. pc = "insert" => /\ row \in 1 .. nextRoom - 1
                           /\ \A r \in Rooms : roomRow[r] = row => r = home
      BY <1>4, <2>1, <3>1 DEF RoomInv, IInv, StoreTypeOK, RowsBelow, RowsDistinct, Rows, HasRow
    <3> QED
      BY <2>1, <2>3, <3>2, <3>3, <3>4, <3>5, <3>6 DEF TaskOK, Stored, MessagePc, JoinPc
  <2> QED
    BY <2>2, <2>5, <2>6, <2>7 DEF storeVars
<1>18. CASE Insert(t)
  <2>1. CASE ~ForeignKeyAccepts(task.row)
    <3>1. Goto(t, "refuse") /\ MayGo(t, "refuse") /\ task.pc \notin {"send", "done"} /\ msgs' = msgs
      BY <1>18, <2>1 DEF Insert, At, MayGo, Pc, JoinPc, MessagePc, Stored, task, storeVars
    <3> QED
      BY <1>7, <3>1
  <2>2. CASE ForeignKeyAccepts(task.row)
    <3>1. PICK id \in Ids : id = nextMsg
      BY DEF RoomInv, IInv, StoreTypeOK, Ids
    <3>2. /\ InsertMessage(task.row, wallet[task.conn], task.size) /\ task.pc = "insert"
          /\ tasks' = [tasks EXCEPT ![t].pc = "select", ![t].id = id]
      BY <1>18, <2>2, <3>1 DEF Insert, At, task
    <3>3. PICK rec \in TaskRec :
              /\ rec = [task EXCEPT !.pc = "select", !.id = id]
              /\ rec.conn = task.conn /\ rec.size = task.size /\ rec.id = id /\ rec.pc = "select"
              /\ rec.items = task.items /\ rec.todo = task.todo /\ rec.reply = task.reply
      <4> DEFINE new == [task EXCEPT !.pc = "select", !.id = id]
      <4>1. /\ new \in TaskRec
            /\ new.conn = task.conn /\ new.size = task.size /\ new.id = id /\ new.pc = "select"
            /\ new.items = task.items /\ new.todo = task.todo /\ new.reply = task.reply
        BY <1>4 DEF TaskRec, Pc, MessagePc, Ids
      <4> HIDE DEF new
      <4>2. \E rec \in TaskRec : rec = new
        BY <4>1
      <4> QED
        BY <4>1, <4>2 DEF new
    <3>4. tasks' = [tasks EXCEPT ![t] = rec]
      BY <3>2, <3>3 DEF task
    <3>5. OthersSame(t) /\ tasks'[t] = rec
      BY <3>3, <3>4, Replaced DEF RoomInv, RoomTypes
    <3>6. TaskGrows(t)
      <4>1. task.id = 0
        BY <1>4, <3>2 DEF TaskOK
      <4> QED
        BY <3>2, <3>3, <3>5, <4>1 DEF TaskGrows, Broadcasting, task
    <3>7. PICK home \in Rooms : home = RoomOf(t) /\ home = room[task.conn]
      BY <1>4 DEF RoomOf, task
    <3>8. /\ room'[rec.conn] = home /\ room' = room /\ admitted' = admitted /\ named' = named
          /\ roomRow' = roomRow /\ nextMsg' = nextMsg + 1
          /\ msgs' = msgs \cup {[id |-> id, room |-> task.row, author |-> wallet[task.conn],
                                 size |-> task.size]}
      BY <1>2, <3>1, <3>2, <3>3, <3>7 DEF connVars, InsertMessage
    <3>9. /\ task.size \in Sizes /\ task.size > 0 /\ rec.reply # "error" /\ rec.conn \in named
          /\ task.conn \in Conns
      BY <1>4, <1>5, <3>2, <3>3 DEF TaskOK, MessagePc, TaskRec
    <3>10. PostedIn(id, home)'
      BY <3>3, <3>5, <3>8, <3>9 DEF PostedIn, Posts, RoomOf, OthersSame
    <3>11. TaskOK(rec)'
      <4>1. \A i \in Range(rec.items) : PostedIn(i, home)'
        <5>1. Grows
          BY <1>2, <3>5, <3>6, StepGrows DEF RoomInv, TaskStep
        <5>2. \A i \in Range(task.items) : i \in Ids /\ PostedIn(i, home)
          BY <1>4, <3>7, RangeOfSeq DEF TaskOK, TaskRec
        <5> QED
          BY <3>3, <5>1, <5>2, StaysPosted
      <4>2. \A d \in rec.todo : d \in admitted /\ room[d] = home
        BY <1>4, <3>3, <3>7 DEF TaskOK
      <4>3. rec.id < nextMsg'
        BY <3>1, <3>3, <3>8 DEF Ids
      <4> QED
        BY <3>3, <3>8, <3>9, <4>1, <4>2, <4>3 DEF TaskOK, Stored, MessagePc, JoinPc, Ids
    <3>12. lawful
      <4>1. \A r \in Rooms : roomRow[r] = task.row => r = home
        BY <1>4, <3>2, <3>7 DEF TaskOK
      <4>2. wallet[task.conn] \in Payers
        BY <3>3, <3>9 DEF RoomInv, PayersOK
      <4> QED
        BY <3>8, <3>10, <4>1, <4>2
    <3> QED
      BY <3>5, <3>6, <3>11, <3>12
  <2> QED
    BY <2>1, <2>2
<1> QED
  BY <1>8, <1>9, <1>10, <1>11, <1>12, <1>13, <1>14, <1>15, <1>16, <1>17, <1>18 DEF Database
-----------------------------------------------------------------------------
(* A request adds a task, and may name its connection.                      *)
LEMMA Spawned ==
  ASSUME RoomInv, NEW new \in TaskRec, Spawn(new),
         UNCHANGED <<storeVars, connVars, open, paid, clientVars>>,
         named' \subseteq Conns, named \subseteq named', \A d \in named' : wallet[d] \in Payers,
         TaskOK(new)'
  PROVE  RoomGoal'
<1>1. /\ tasks' \in Seq(TaskRec) /\ Len(tasks') <= MaxRequests
      /\ DOMAIN tasks = 1 .. Len(tasks) /\ DOMAIN tasks' = 1 .. Len(tasks) + 1 /\ Len(tasks) \in Nat
      /\ \A t \in DOMAIN tasks : tasks'[t] = tasks[t]
      /\ tasks'[Len(tasks) + 1] = new
  <2>1. tasks \in Seq(TaskRec) /\ Len(tasks) < MaxRequests /\ tasks' = Append(tasks, new)
    BY DEF RoomInv, RoomTypes, Spawn
  <2>2. Len(tasks) \in Nat /\ DOMAIN tasks = 1 .. Len(tasks) /\ MaxRequests \in Nat
    BY <2>1, LenProperties, RoomAssumption
  <2>3. /\ tasks' \in Seq(TaskRec) /\ Len(tasks') = Len(tasks) + 1
        /\ \A i \in 1 .. Len(tasks) : tasks'[i] = tasks[i]
        /\ tasks'[Len(tasks) + 1] = new
    BY <2>1, AppendProperties
  <2> QED
    BY <2>1, <2>2, <2>3, LenProperties
<1>2. UNCHANGED <<roomRow, nextRoom, msgs, nextMsg, mailbox, list, room, wallet, admitted, fresh>>
  BY DEF storeVars, connVars, clientVars
<1>3. Grows
  BY <1>1, <1>2 DEF Grows, TaskGrows, Broadcasting
<1>4. StoreGrows
  BY <1>2 DEF StoreGrows, RoomInv, IInv, StoreTypeOK
<1>5. RoomTypes'
  BY <1>1, <1>2 DEF RoomInv, RoomTypes
<1>6. TasksOK'
  <2>1. ASSUME NEW t \in DOMAIN tasks PROVE TaskOK(tasks[t])'
    <3>1. PICK rec \in TaskRec : rec = tasks[t] /\ TaskOK(rec)
      BY TaskFacts DEF RoomInv
    <3>2. TaskOK(rec)' /\ tasks'[t] = rec
      BY <1>1, <1>3, <1>4, <3>1, SameTask DEF RoomInv
    <3> QED
      BY <3>2
  <2>2. ASSUME NEW t \in DOMAIN tasks', t \notin DOMAIN tasks PROVE TaskOK(tasks[t])'
    <3>1. tasks'[t] = new
      BY <1>1, <2>2
    <3> QED
      BY <3>1
  <2> QED
    BY <2>1, <2>2 DEF TasksOK
<1>7. Posted' /\ ClientsOK'
  BY <1>2, <1>3, <1>4, StillPosted, SameClients DEF RoomInv
<1>8. PayersOK'
  BY <1>2 DEF RoomInv, PayersOK, OnlyPayersPost
<1> QED
  BY <1>5, <1>6, <1>7, <1>8 DEF RoomGoal

LEMMA RequestKeeps ==
  ASSUME RoomInv, NEW c \in Conns, Request(c)
  PROVE  RoomGoal'
<1>1. /\ <<>> \in Seq(Ids) /\ Range(<<>>) = {} /\ c \in Conns
      /\ nextMsg \in Nat \ {0} /\ named \subseteq Conns /\ paid \subseteq Payers
      /\ \A d \in named : wallet[d] \in Payers
      /\ \A size \in Sizes : size > 0
  BY StoreAssumption DEF Range, RoomInv, IInv, StoreTypeOK, RoomTypes, PayersOK
<1>2. CASE JoinAccepted(c)
  <2> DEFINE new == Task(c, "create", 0, 0)
  <2>1. /\ new \in TaskRec /\ new.conn = c /\ new.pc = "create" /\ new.id = 0 /\ new.size = 0
        /\ new.items = <<>> /\ new.todo = {} /\ new.reply = "none"
    BY <1>1 DEF TaskRec, Task, Pc, JoinPc
  <2>2. Spawn(new) /\ UNCHANGED <<storeVars, connVars, open, paid, clientVars>> /\ nextMsg' = nextMsg
        /\ named' = named \cup {c} /\ wallet[c] \in Payers
    BY <1>1, <1>2 DEF JoinAccepted, storeVars
  <2> HIDE DEF new
  <2>3. TaskOK(new)'
    BY <1>1, <2>1, <2>2 DEF TaskOK, MessagePc, Stored
  <2> QED
    BY <1>1, <2>1, <2>2, <2>3, Spawned
<1>3. CASE MessageAccepted(c)
  <2>1. PICK size \in Sizes : Spawn(Task(c, "lookup", 0, size))
    BY <1>3 DEF MessageAccepted
  <2> DEFINE new == Task(c, "lookup", 0, size)
  <2>2. /\ new \in TaskRec /\ new.conn = c /\ new.pc = "lookup" /\ new.id = 0 /\ new.size = size
        /\ new.items = <<>> /\ new.todo = {} /\ new.reply = "none"
    BY <1>1 DEF TaskRec, Task, Pc, MessagePc
  <2>3. UNCHANGED <<storeVars, connVars, open, paid, clientVars>> /\ nextMsg' = nextMsg
        /\ named' = named /\ c \in named
    BY <1>3 DEF MessageAccepted, storeVars
  <2> HIDE DEF new
  <2>4. TaskOK(new)'
    BY <1>1, <2>2, <2>3 DEF TaskOK, JoinPc, Stored
  <2> QED
    BY <1>1, <2>1, <2>2, <2>3, <2>4, Spawned DEF new
<1>4. CASE DeleteRequested(c)
  <2>1. PICK id \in 1 .. nextMsg - 1 : Spawn(Task(c, "delete", id, 0))
    BY <1>4 DEF DeleteRequested
  <2> DEFINE new == Task(c, "delete", id, 0)
  <2>2. /\ new \in TaskRec /\ new.conn = c /\ new.pc = "delete" /\ new.id = id /\ new.size = 0
        /\ new.items = <<>> /\ new.todo = {} /\ new.reply = "none"
    BY <1>1 DEF TaskRec, Task, Pc
  <2>3. UNCHANGED <<storeVars, connVars, open, paid, clientVars>> /\ nextMsg' = nextMsg
        /\ named' = named
    BY <1>4 DEF DeleteRequested, storeVars
  <2> HIDE DEF new
  <2>4. TaskOK(new)'
    BY <1>1, <2>2, <2>3 DEF TaskOK, MessagePc, JoinPc
  <2> QED
    BY <1>1, <2>1, <2>2, <2>3, <2>4, Spawned DEF new
<1> QED
  BY <1>2, <1>3, <1>4 DEF Request
-----------------------------------------------------------------------------
(* Steps of a task that pushes.                                             *)
LEMMA Finishes ==
  ASSUME RoomInv, StoreGrows, NEW t \in DOMAIN tasks, NEW reply \in {"none", "ok", "error"},
         End(t, reply), tasks[t].pc = "send" => reply # "error",
         tasks[t].pc # "done", UNCHANGED <<connVars, named>>
  PROVE  OthersSame(t) /\ TaskGrows(t) /\ TaskOK(tasks[t])' /\ (reply # "error" => Broadcasting(t)')
<1> DEFINE task == tasks[t]
<1>1. /\ OthersSame(t)
      /\ task'.conn = task.conn /\ task'.pc = "done" /\ task'.id = task.id
      /\ task'.size = task.size /\ task'.items = <<>> /\ task'.todo = {} /\ task'.reply = reply
  BY Ended DEF RoomInv, RoomTypes
<1>2. TaskGrows(t) /\ (reply # "error" => Broadcasting(t)')
  BY <1>1 DEF TaskGrows, Broadcasting
<1>3. /\ task.id < nextMsg' /\ UNCHANGED named /\ Range(<<>>) = {}
      /\ task.size > 0 => task.conn \in named
  BY TaskFacts DEF RoomInv, TaskOK, StoreGrows, TaskRec, Range
<1> HIDE DEF task
<1>4. TaskOK(task)'
  BY <1>1, <1>3 DEF TaskOK, JoinPc, MessagePc, Stored
<1> QED
  BY <1>1, <1>2, <1>4 DEF task

(* What a reply leaves to show: the task, and the frame it pushes.          *)
LEMMA ReplyStep ==
  ASSUME RoomInv, NEW t \in DOMAIN tasks,
         OthersSame(t), TaskGrows(t), TaskOK(tasks[t])', mailbox' \in [Conns -> Seq(FrameRec)],
         ClientsOK', UNCHANGED <<storeVars, connVars, open, paid, named, list>>
  PROVE  RoomGoal'
<1>1. TaskStep(t) /\ UNCHANGED <<list, room, wallet, admitted, fresh, roomRow, nextRoom, msgs, nextMsg>>
  BY DEF TaskStep, connVars, storeVars
<1>2. Grows /\ StoreGrows
  BY <1>1, StepGrows DEF RoomInv, StoreGrows, IInv, StoreTypeOK
<1>3. TasksOK'
  BY <1>1, <1>2, OneTask DEF RoomInv
<1>4. Posted'
  BY <1>1, <1>2, StillPosted DEF RoomInv
<1>5. RoomTypes'
  BY <1>1 DEF RoomInv, RoomTypes, OthersSame
<1>6. PayersOK'
  BY <1>1 DEF RoomInv, PayersOK, OnlyPayersPost
<1> QED
  BY <1>3, <1>4, <1>5, <1>6 DEF RoomGoal

LEMMA Sends ==
  ASSUME RoomInv, StoreGrows, NEW t \in DOMAIN tasks, NEW rec \in TaskRec,
         tasks' = [tasks EXCEPT ![t] = rec], tasks[t].pc \in {"snapshot", "send"},
         rec.conn = tasks[t].conn, rec.size = tasks[t].size, rec.id = tasks[t].id,
         rec.items = tasks[t].items, rec.pc = "send", rec.reply # "error",
         \A d \in rec.todo : d \in admitted /\ room[d] = RoomOf(t),
         UNCHANGED <<connVars, named>>
  PROVE  OthersSame(t) /\ TaskGrows(t) /\ TaskOK(tasks[t])' /\ Broadcasting(t)'
<1>1. PICK task \in TaskRec : task = tasks[t] /\ TaskOK(task)
  BY TaskFacts DEF RoomInv
<1>2. OthersSame(t) /\ tasks'[t] = rec
  BY Replaced DEF RoomInv, RoomTypes
<1>3. TaskGrows(t) /\ Broadcasting(t)'
  BY <1>2 DEF TaskGrows, Broadcasting
<1>4. Grows
  BY <1>2, <1>3, StepGrows DEF RoomInv, TaskStep
<1>5. PICK home \in Rooms : home = RoomOf(t) /\ home = room[task.conn]
  BY <1>1, TaskFacts DEF RoomOf, RoomInv
<1>6. /\ room'[rec.conn] = home /\ room' = room /\ admitted' = admitted /\ named' = named
  BY <1>1, <1>5 DEF connVars
<1>7. /\ rec.id \in Ids /\ PostedIn(rec.id, home) /\ rec.id < nextMsg'
      /\ \A id \in Range(rec.items) : id \in Ids /\ PostedIn(id, home)
      /\ rec.size > 0 => rec.conn \in named
  BY <1>1, <1>5, RangeOfSeq DEF TaskOK, TaskRec, Stored, StoreGrows, Ids
<1>8. PostedIn(rec.id, home)' /\ \A id \in Range(rec.items) : PostedIn(id, home)'
  BY <1>4, <1>7, StaysPosted
<1>9. TaskOK(rec)'
  BY <1>5, <1>6, <1>7, <1>8 DEF TaskOK, JoinPc, MessagePc, Ids
<1> QED
  BY <1>2, <1>3, <1>9

LEMMA ReplyKeeps ==
  ASSUME RoomInv, NEW t \in DOMAIN tasks, Reply(t)
  PROVE  RoomGoal' /\ TaskStep(t)
<1> DEFINE known == OthersSame(t) /\ TaskGrows(t) /\ TaskOK(tasks[t])'
           shown == mailbox' \in [Conns -> Seq(FrameRec)] /\ ClientsOK'
<1>1. UNCHANGED <<storeVars, connVars, open, paid, named, list>>
  BY DEF Reply, PushError, PushJoined, PushHistory, SnapshotRecipients, SendOne, clientVars
<1>2. StoreGrows
  BY <1>1 DEF StoreGrows, RoomInv, IInv, StoreTypeOK, storeVars
<1>3. SUFFICES known /\ shown
  <2>1. UNCHANGED connVars /\ named \subseteq named'
    BY <1>1
  <2> QED
    BY <1>1, <2>1, ReplyStep, Zenon DEF TaskStep
<1>4. PICK task \in TaskRec : task = tasks[t] /\ TaskOK(task)
  BY TaskFacts DEF RoomInv
<1>5. ASSUME known PROVE Grows
  BY <1>1, <1>5, StepGrows DEF RoomInv, TaskStep
<1>6. ASSUME known, NEW c \in Conns, NEW frame \in FrameRec, FrameOK(c, frame)', Push(c, frame)
      PROVE  shown
  BY <1>1, <1>5, <1>6, Pushed DEF RoomInv
<1>7. ASSUME known, UNCHANGED mailbox PROVE shown
  BY <1>1, <1>5, <1>7, SameClients DEF RoomInv, RoomTypes
<1>8. t \in Nat /\ <<>> \in Seq(Ids) /\ Range(<<>>) = {} /\ task.conn \in Conns
  BY <1>4, LenProperties DEF Range, TaskRec, RoomInv, RoomTypes
<1>9. CASE PushError(t)
  <2>1. End(t, "error") /\ task.pc = "refuse" /\ Push(task.conn, Frame("error", <<>>, t))
    BY <1>4, <1>9 DEF PushError, At
  <2>2. known
    BY <1>1, <1>2, <1>4, <2>1, Finishes
  <2>3. Frame("error", <<>>, t) \in FrameRec /\ FrameOK(task.conn, Frame("error", <<>>, t))'
    BY <1>8 DEF Frame, FrameRec, FrameOK
  <2> QED
    BY <1>6, <1>8, <2>1, <2>2, <2>3
<1>10. CASE PushJoined(t)
  <2>1. Goto(t, "pushHistory") /\ task.pc = "pushJoined" /\ Push(task.conn, Frame("joined", <<>>, t))
    BY <1>4, <1>10 DEF PushJoined, At
  <2>2. MayGo(t, "pushHistory")
    BY <1>4, <2>1 DEF MayGo, TaskOK, Pc, JoinPc, MessagePc, Stored
  <2>3. known
    BY <1>1, <1>2, <1>4, <2>1, <2>2, GoesOn
  <2>4. Frame("joined", <<>>, t) \in FrameRec /\ FrameOK(task.conn, Frame("joined", <<>>, t))'
    BY <1>8 DEF Frame, FrameRec, FrameOK
  <2> QED
    BY <1>6, <1>8, <2>1, <2>3, <2>4
<1>11. CASE PushHistory(t)
  <2>1. End(t, "ok") /\ task.pc = "pushHistory" /\ Push(task.conn, Frame("history", task.items, t))
    BY <1>4, <1>11 DEF PushHistory, At
  <2>2. known
    BY <1>1, <1>2, <1>4, <2>1, Finishes
  <2>3. \A id \in Range(task.items) : PostedIn(id, room[task.conn])'
    <3>1. \A id \in Range(task.items) : id \in Ids /\ PostedIn(id, room[task.conn])
      BY <1>4, RangeOfSeq DEF TaskOK, TaskRec
    <3> QED
      BY <1>5, <2>2, <3>1, StaysPosted DEF Grows, PostedIn
  <2> DEFINE frame == Frame("history", task.items, t)
  <2>4. frame \in FrameRec /\ frame.ids = task.items /\ frame.type = "history"
    BY <1>4, <1>8 DEF Frame, FrameRec, TaskRec
  <2>5. Push(task.conn, frame)
    BY <2>1
  <2> HIDE DEF frame
  <2>6. FrameOK(task.conn, frame)'
    BY <2>3, <2>4 DEF FrameOK
  <2> QED
    BY <1>6, <1>8, <2>2, <2>4, <2>5, <2>6
<1>12. CASE SnapshotRecipients(t)
  <2> DEFINE rest == Recipients(RoomOf(t))
  <2>1. /\ task.pc = "snapshot" /\ mailbox' = mailbox
        /\ IF rest = {} THEN End(t, "none")
                        ELSE tasks' = [tasks EXCEPT ![t].pc = "send", ![t].todo = rest]
    BY <1>4, <1>12 DEF SnapshotRecipients, At, clientVars
  <2>2. CASE rest = {}
    <3>1. known
      BY <1>1, <1>2, <1>4, <2>1, <2>2, Finishes
    <3> QED
      BY <1>7, <2>1, <3>1
  <2>3. CASE rest # {}
    <3>1. PICK todo \in SUBSET Conns : /\ tasks' = [tasks EXCEPT ![t].pc = "send", ![t].todo = todo]
                                       /\ \A d \in todo : d \in admitted /\ room[d] = RoomOf(t)
      BY <2>1, <2>3 DEF Recipients, RoomInv, RoomTypes
    <3> DEFINE rec == [task EXCEPT !.pc = "send", !.todo = todo]
    <3>2. /\ rec \in TaskRec /\ rec.conn = task.conn /\ rec.size = task.size /\ rec.id = task.id
          /\ rec.pc = "send" /\ rec.items = task.items /\ rec.todo = todo /\ rec.reply = task.reply
      BY <1>4 DEF TaskRec, Pc
    <3>3. tasks' = [tasks EXCEPT ![t] = rec]
      BY <1>4, <3>1
    <3>4. task.reply # "error"
      BY <1>4, <2>1 DEF TaskOK
    <3> HIDE DEF rec
    <3>5. known
      BY <1>1, <1>2, <1>4, <2>1, <3>1, <3>2, <3>3, <3>4, Sends
    <3> QED
      BY <1>7, <2>1, <3>5
  <2> QED
    BY <2>2, <2>3
<1>13. ASSUME NEW c \in Conns, SendOne(t, c) PROVE known /\ shown
  <2>1. task.pc = "send" /\ c \in task.todo /\ Push(c, Payload(t))
    BY <1>4, <1>13 DEF SendOne, At
  <2>2. PICK reply \in {"none", "ok"} :
            IF task.todo = {c} THEN End(t, reply)
                               ELSE tasks' = [tasks EXCEPT ![t].todo = @ \ {c}, ![t].reply = reply]
    BY <1>4, <1>13, <2>1 DEF SendOne, TaskOK, TaskRec
  <2>3. known /\ Broadcasting(t)'
    <3>1. CASE task.todo = {c}
      BY <1>1, <1>2, <1>4, <2>1, <2>2, <3>1, Finishes
    <3>2. CASE task.todo # {c}
      <4> DEFINE rec == [task EXCEPT !.todo = @ \ {c}, !.reply = reply]
      <4>1. /\ rec \in TaskRec /\ rec.conn = task.conn /\ rec.size = task.size /\ rec.id = task.id
            /\ rec.pc = task.pc /\ rec.items = task.items /\ rec.todo = task.todo \ {c}
            /\ rec.reply = reply
        BY <1>4 DEF TaskRec
      <4>2. tasks' = [tasks EXCEPT ![t] = rec]
        BY <1>4, <2>2, <3>2
      <4> HIDE DEF rec
      <4>3. \A d \in rec.todo : d \in admitted /\ room[d] = RoomOf(t)
        BY <1>4, <4>1 DEF TaskOK, RoomOf
      <4> QED
        BY <1>1, <1>2, <1>4, <2>1, <4>1, <4>2, <4>3, Sends
    <3> QED
      BY <3>1, <3>2
  <2>4. task.id \in Ids /\ PostedIn(task.id, room[c])'
    <3>1. task.id \in Ids /\ PostedIn(task.id, room[c])
      BY <1>4, <2>1 DEF TaskOK, Stored, TaskRec, Ids
    <3> QED
      BY <1>5, <2>3, <3>1, StaysPosted DEF Grows, PostedIn
  <2>5. PICK frame \in FrameRec : /\ frame = Payload(t) /\ frame.ids = <<task.id>>
                                  /\ frame.type = "message" => frame.req = t
    <3>1. <<task.id>> \in Seq(Ids)
      BY <2>4
    <3> DEFINE one == <<task.id>>
    <3>2. one \in Seq(Ids) /\ (Payload(t) = Frame("message", one, t) \/ Payload(t) = Frame("deleted", one, 0))
      BY <1>4, <3>1 DEF Payload
    <3> HIDE DEF one
    <3>3. /\ Payload(t) \in FrameRec /\ Payload(t).ids = one
          /\ Payload(t).type = "message" => Payload(t).req = t
      BY <1>8, <3>2 DEF Frame, FrameRec
    <3> QED
      BY <3>3 DEF one
  <2>6. FrameOK(c, frame)'
    <3>1. Range(<<task.id>>) = {task.id}
      BY DEF Range
    <3>2. t \in DOMAIN tasks'
      BY <2>3 DEF OthersSame
    <3> QED
      BY <2>3, <2>4, <2>5, <3>1, <3>2 DEF FrameOK
  <2> QED
    BY <1>6, <2>1, <2>3, <2>5, <2>6
<1> QED
  BY <1>9, <1>10, <1>11, <1>12, <1>13 DEF Reply
-----------------------------------------------------------------------------
(* Steps of a client, and of time.                                          *)
LEMMA NothingPosted ==
  ASSUME RoomInv, UNCHANGED <<storeVars, room, wallet, admitted, named, tasks>>,
         paid' \subseteq paid, open' \subseteq Conns, fresh' \subseteq Conns \ open',
         mailbox' \in [Conns -> Seq(FrameRec)], list' \in [Conns -> Seq(Ids)],
         \A c \in Conns : /\ Range(mailbox'[c]) \subseteq Range(mailbox[c])
                          /\ Range(list'[c]) \subseteq IdsOf(c)
  PROVE  RoomGoal'
<1>1. UNCHANGED <<room, wallet, admitted, roomRow, nextRoom, msgs, nextMsg>>
  BY DEF storeVars
<1>2. TasksOK' /\ Posted' /\ PayersOK'
  BY <1>1 DEF RoomInv, TasksOK, TaskOK, Posted, PayersOK, OnlyPayersPost, PostedIn, Posts, RoomOf
<1>3. RoomTypes'
  BY <1>1 DEF RoomInv, RoomTypes
<1>4. ClientsOK'
  <2>1. ASSUME NEW c \in Conns, NEW id \in IdsOf(c) PROVE PostedIn(id, room[c])'
    <3>1. PostedIn(id, room[c])
      BY <2>1 DEF IdsOf, RoomInv, ClientsOK, FrameOK
    <3> QED
      BY <1>1, <3>1 DEF PostedIn, Posts, RoomOf
  <2>2. ASSUME NEW c \in Conns, NEW f \in Range(mailbox[c]) PROVE FrameOK(c, f)'
    <3>1. FrameOK(c, f)
      BY DEF RoomInv, ClientsOK
    <3> QED
      BY <1>1, <3>1 DEF FrameOK, PostedIn, Posts, RoomOf, Broadcasting
  <2> QED
    BY <2>1, <2>2 DEF ClientsOK
<1> QED
  BY <1>2, <1>3, <1>4 DEF RoomGoal

LEMMA OpenKeeps ==
  ASSUME RoomInv, NEW c \in Conns, Open(c)
  PROVE  RoomGoal'
<1>1. /\ UNCHANGED <<storeVars, room, wallet, admitted, named, tasks>> /\ UNCHANGED <<paid, mailbox, list>>
      /\ open' \subseteq Conns /\ fresh' \subseteq Conns \ open'
  BY DEF Open, clientVars, RoomInv, RoomTypes
<1>2. \A d \in Conns : Range(list[d]) \subseteq IdsOf(d)
  BY DEF IdsOf
<1> QED
  BY <1>1, <1>2, NothingPosted DEF RoomInv, RoomTypes

LEMMA ClientKeeps ==
  ASSUME RoomInv, NEW c \in Conns, Open(c) \/ Show(c) \/ Close(c)
  PROVE  RoomGoal'
<1>0. CASE Open(c)
  BY <1>0, OpenKeeps
<1>1. /\ mailbox \in [Conns -> Seq(FrameRec)] /\ list \in [Conns -> Seq(Ids)]
      /\ open \subseteq Conns /\ fresh \subseteq Conns \ open
      /\ \A d \in Conns : Range(list[d]) \subseteq IdsOf(d)
  BY DEF RoomInv, RoomTypes, IdsOf
<1>2. CASE Close(c)
  <2>1. <<>> \in Seq(FrameRec) /\ Range(<<>>) = {}
    BY DEF Range
  <2>2. /\ UNCHANGED <<storeVars, room, wallet, admitted, named, tasks>> /\ UNCHANGED <<paid, list>>
        /\ open' \subseteq Conns /\ fresh' \subseteq Conns \ open'
        /\ mailbox' = [mailbox EXCEPT ![c] = <<>>]
    BY <1>1, <1>2 DEF Close, connVars
  <2> QED
    BY <1>1, <2>1, <2>2, NothingPosted
<1>3. CASE Show(c)
  <2>1. PICK i \in DOMAIN mailbox[c] :
            /\ list' = [list EXCEPT ![c] = Shown(@, mailbox[c][i])]
            /\ mailbox' = [mailbox EXCEPT ![c] = RemoveAt(@, i)]
    BY <1>3 DEF Show
  <2>2. PICK f \in FrameRec : f = mailbox[c][i] /\ f \in Range(mailbox[c]) /\ i \in 1 .. Len(mailbox[c])
    <3>1. i \in 1 .. Len(mailbox[c]) /\ mailbox[c][i] \in Range(mailbox[c])
      BY <1>1, LenProperties DEF Range
    <3> QED
      BY <1>1, <3>1, ElementOfSeq
  <2>3. /\ RemoveAt(mailbox[c], i) \in Seq(FrameRec)
        /\ Range(RemoveAt(mailbox[c], i)) \subseteq Range(mailbox[c])
    BY <1>1, <2>2, Removed
  <2>4. PICK l \in Seq(Ids) : l = list[c]
    BY <1>1
  <2>5. Shown(l, f) \in Seq(Ids) /\ Range(Shown(l, f)) \subseteq Range(l) \cup Range(f.ids)
    <3>1. f.ids \in Seq(Ids)
      BY DEF FrameRec
    <3>2. l \o f.ids \in Seq(Ids) /\ Range(l \o f.ids) = Range(l) \cup Range(f.ids)
      BY <3>1, ConcatProperties, RangeConcatenation
    <3>3. /\ RemoveFirstId(l, f.ids[1]) \in Seq(Ids)
          /\ Range(RemoveFirstId(l, f.ids[1])) \subseteq Range(l)
      BY RemovedFirst
    <3> QED
      BY <3>1, <3>2, <3>3 DEF Shown
  <2>6. Range(l) \cup Range(f.ids) \subseteq IdsOf(c)
    BY <2>2, <2>4 DEF IdsOf
  <2>7. /\ UNCHANGED <<storeVars, room, wallet, admitted, named, tasks>>
        /\ paid' = paid /\ open' \subseteq Conns /\ fresh' \subseteq Conns \ open'
        /\ list' \in [Conns -> Seq(Ids)] /\ mailbox' \in [Conns -> Seq(FrameRec)]
    BY <1>1, <1>3, <2>1, <2>2, <2>3, <2>4, <2>5 DEF Show, connVars
  <2>8. ASSUME NEW d \in Conns
        PROVE  Range(mailbox'[d]) \subseteq Range(mailbox[d]) /\ Range(list'[d]) \subseteq IdsOf(d)
    BY <1>1, <2>1, <2>2, <2>3, <2>4, <2>5, <2>6
  <2> QED
    BY <2>7, <2>8, NothingPosted
<1> QED
  BY <1>0, <1>2, <1>3

LEMMA ExpiryKeeps ==
  ASSUME RoomInv, NEW w \in Wallets, AccessExpires(w)
  PROVE  RoomGoal'
<1>1. /\ UNCHANGED <<storeVars, room, wallet, admitted, named, tasks>> /\ UNCHANGED <<mailbox, list>>
      /\ paid' \subseteq paid /\ open' \subseteq Conns /\ fresh' \subseteq Conns \ open'
  BY DEF AccessExpires, clientVars, connVars, RoomInv, RoomTypes
<1>2. \A c \in Conns : Range(list[c]) \subseteq IdsOf(c)
  BY DEF IdsOf
<1> QED
  BY <1>1, <1>2, NothingPosted DEF RoomInv, RoomTypes

-----------------------------------------------------------------------------
LEMMA RoomInit == Init => RoomInv
<1> SUFFICES ASSUME Init PROVE RoomInv
  OBVIOUS
<1>1. IInv
  BY InitInv DEF Init
<1>2. /\ <<>> \in Seq(TaskRec) /\ <<>> \in Seq(FrameRec) /\ <<>> \in Seq(Ids)
      /\ Len(<<>>) = 0 /\ DOMAIN <<>> = {} /\ Range(<<>>) = {} /\ MaxRequests \in Nat
  BY RoomAssumption DEF Range
<1>3. RoomTypes
  BY <1>2 DEF Init, RoomTypes
<1>4. TasksOK /\ Posted /\ ClientsOK /\ PayersOK
  BY <1>2 DEF Init, StoreInit, TasksOK, Posted, ClientsOK, PayersOK, OnlyPayersPost
<1> QED
  BY <1>1, <1>3, <1>4 DEF RoomInv

LEMMA RoomStep ==
  ASSUME RoomInv, [Next]_vars
  PROVE  RoomInv'
<1>1. IInv'
  BY StoreStep, StepInv DEF RoomInv
<1>2. CASE UNCHANGED vars
  BY <1>2 DEF vars, storeVars, connVars, clientVars, RoomInv, IInv, StoreTypeOK, RowsBelow, IdsBelow,
     RowsDistinct, Rows, HasRow, NoOrphan, RoomTypes, TasksOK, TaskOK, Posted, ClientsOK, FrameOK,
     Broadcasting, PayersOK, OnlyPayersPost, PostedIn, Posts, RoomOf
<1>3. CASE Next
  <2>1. RoomGoal'
    BY <1>3, RequestKeeps, ClientKeeps, ExpiryKeeps, DatabaseKeeps, ReplyKeeps DEF Next
  <2> QED
    BY <1>1, <2>1 DEF RoomInv, RoomGoal
<1> QED
  BY <1>2, <1>3

(* The invariant holds however requests, tasks, pushes, closings and the    *)
(* decoding of frames interleave.                                           *)
THEOREM RoomInvariance == Spec => []RoomInv
  BY RoomInit, RoomStep, PTL DEF Spec

(* The handlers use the tables as ChatStore says: every SQL statement that  *)
(* a task runs is one of its steps.                                         *)
THEOREM UsesStore == Spec => StoreSpec
<1>1. Init => StoreInit
  BY DEF Init
<1>2. RoomInv /\ [Next]_vars => [StoreNext]_storeVars
  BY StoreStep
<1> QED
  BY <1>1, <1>2, RoomInvariance, PTL DEF Spec, StoreSpec

(* So what is proved of the tables holds under the handlers too.            *)
THEOREM StorePromises == Spec => []NoOrphan /\ []RowsDistinct /\ IdsNeverReused /\ FreshRoomIsEmpty
  BY UsesStore, MessagesHaveRooms, RoomsAreDistinct, FreshIds, FreshRooms, PTL

(* The type invariant of the rooms: a task pushes to admitted connections   *)
(* only, and lists show ids that were given out.                            *)
THEOREM RoomTypeCorrect == Spec => []TypeOK
<1>1. RoomInv => TypeOK
  <2> SUFFICES ASSUME RoomInv PROVE TypeOK
    OBVIOUS
  <2>1. \A t \in DOMAIN tasks : tasks[t].pc \in Pc /\ tasks[t].todo \subseteq admitted
    BY TaskFacts DEF RoomInv, TaskOK, TaskRec
  <2>2. ASSUME NEW c \in Conns, NEW id \in Range(list[c]) PROVE id \in 1 .. nextMsg - 1
    <3>1. id \in Ids /\ PostedIn(id, room[c])
      BY <2>2, RangeOfSeq DEF RoomInv, RoomTypes, ClientsOK
    <3>2. id < nextMsg
      BY <3>1, TaskFacts DEF PostedIn, RoomInv, TaskOK
    <3> QED
      BY <3>1, <3>2 DEF Ids, RoomInv, IInv, StoreTypeOK
  <2> QED
    BY <2>1, <2>2 DEF TypeOK, RoomInv, IInv, RoomTypes
<1> QED
  BY <1>1, RoomInvariance, PTL

(* A message that was answered with an error is in no mailbox.              *)
THEOREM RefusedNotBroadcast == Spec => []ErrorMeansNoBroadcast
<1>1. RoomInv => ErrorMeansNoBroadcast
  BY DEF RoomInv, ClientsOK, FrameOK, Broadcasting, ErrorMeansNoBroadcast
<1> QED
  BY <1>1, RoomInvariance, PTL

(* What a client is shown or sent was posted in its room.                   *)
THEOREM Isolated == Spec => []RoomIsolation
<1>1. RoomInv => RoomIsolation
  BY DEF RoomInv, ClientsOK, FrameOK, IdsOf, PostedIn, RoomIsolation
<1> QED
  BY <1>1, RoomInvariance, PTL

(* The author of every message paid for access.                             *)
THEOREM AuthorsPaid == Spec => []OnlyPayersPost
<1>1. RoomInv => OnlyPayersPost
  BY DEF RoomInv, PayersOK
<1> QED
  BY <1>1, RoomInvariance, PTL

(* A message disappears by its author, by a limit, or with its room.        *)
THEOREM RemovedForAReason == Spec => RemovalJustified
<1>1. ASSUME RoomInv, [Next]_vars
      PROVE  [\A m \in msgs \ msgs' : \E t \in DOMAIN tasks :
                 \/ At(t, "delete") /\ m.author = wallet[tasks[t].conn] /\ m.room = roomRow[RoomOf(t)]
                 \/ At(t, "evictMessage") /\ m \in Oldest
                 \/ At(t, "evictRoom") /\ ~\E r \in Rooms : roomRow'[r] = m.room]_vars
  <2> SUFFICES ASSUME NEW m \in msgs, m \notin msgs'
               PROVE  \E t \in DOMAIN tasks :
                 \/ At(t, "delete") /\ m.author = wallet[tasks[t].conn] /\ m.room = roomRow[RoomOf(t)]
                 \/ At(t, "evictMessage") /\ m \in Oldest
                 \/ At(t, "evictRoom") /\ ~\E r \in Rooms : roomRow'[r] = m.room
    OBVIOUS
  <2>1. PICK t \in DOMAIN tasks : Database(t)
    <3>1. ASSUME NEW c \in Conns, Open(c) \/ Request(c) \/ Show(c) \/ Close(c)
          PROVE  UNCHANGED storeVars
      BY <3>1 DEF Open, Request, JoinAccepted, MessageAccepted, DeleteRequested, Show, Close
    <3>2. ASSUME NEW w \in Wallets, AccessExpires(w) PROVE UNCHANGED storeVars
      BY <3>2 DEF AccessExpires
    <3>3. ASSUME NEW t \in DOMAIN tasks, Reply(t) PROVE UNCHANGED storeVars
      BY <3>3 DEF Reply, PushError, PushJoined, PushHistory, SnapshotRecipients, SendOne
    <3>4. CASE UNCHANGED vars
      BY <3>4 DEF vars, storeVars
    <3> QED
      BY <1>1, <3>1, <3>2, <3>3, <3>4 DEF Next, storeVars
  <2>2. CASE EvictRoom(t)
    <3>1. PICK r \in Rooms : /\ roomRow' = [roomRow EXCEPT ![r] = 0]
                             /\ m \in MessagesOf(r)
      BY <2>2 DEF EvictRoom, DeletePoorestRoom, storeVars
    <3>2. /\ At(t, "evictRoom") /\ m.room = roomRow[r] /\ m.room # 0
          /\ roomRow \in [Rooms -> Nat] /\ RowsDistinct
      BY <1>1, <2>2, <3>1 DEF EvictRoom, MessagesOf, HasRow, RoomInv, IInv, StoreTypeOK
    <3>3. ASSUME NEW o \in Rooms, roomRow'[o] = m.room PROVE FALSE
      BY <3>1, <3>2, <3>3 DEF RowsDistinct, Rows, HasRow
    <3> QED
      BY <3>2, <3>3
  <2>3. CASE EvictMessage(t)
    BY <2>3 DEF EvictMessage, DeleteOldest
  <2>4. CASE Delete(t)
    BY <2>4 DEF Delete, DeleteMessage, Deletable, MessagesOf
  <2>5. CASE CreateRoom(t) \/ Insert(t)
    BY <2>5 DEF CreateRoom, InsertRoom, Insert, InsertMessage, storeVars
  <2>6. CASE CheckRooms(t) \/ ReadHistory(t) \/ Lookup(t) \/ SelectBack(t) \/ CheckBytes(t)
             \/ StatementFails(t)
    BY <2>6 DEF CheckRooms, ReadHistory, Lookup, SelectBack, CheckBytes, StatementFails, storeVars
  <2> QED
    BY <2>1, <2>2, <2>3, <2>4, <2>5, <2>6 DEF Database
<1> QED
  BY <1>1, RoomInvariance, PTL DEF Spec, RemovalJustified
-----------------------------------------------------------------------------
(* What a settled client shows.  First what becomes of a mailbox: an id     *)
(* will be shown if the list or a frame has it and no later history lacks   *)
(* it.                                                                      *)
HistoryHas(f, id) == f.type = "history" => id \in Range(f.ids)
WillShow(l, s, id) ==
    \/ /\ id \in Range(l)
       /\ \A k \in DOMAIN s : HistoryHas(s[k], id)
    \/ \E k \in DOMAIN s :
           /\ s[k].type \in {"history", "message"} /\ id \in Range(s[k].ids)
           /\ \A o \in DOMAIN s : k < o => HistoryHas(s[o], id)

LEMMA Appended ==
  ASSUME NEW S, NEW s \in Seq(S), NEW f \in S
  PROVE  /\ Append(s, f) \in Seq(S) /\ Len(s) \in Nat /\ DOMAIN s = 1 .. Len(s)
         /\ DOMAIN Append(s, f) = 1 .. Len(s) + 1
         /\ \A k \in 1 .. Len(s) : Append(s, f)[k] = s[k]
         /\ Append(s, f)[Len(s) + 1] = f
BY AppendProperties, LenProperties

LEMMA PushKeeps ==
  ASSUME NEW s \in Seq(FrameRec), NEW f \in FrameRec, NEW l, NEW id,
         WillShow(l, s, id), HistoryHas(f, id)
  PROVE  WillShow(l, Append(s, f), id)
<1> DEFINE t == Append(s, f)
<1>1. /\ Len(s) \in Nat /\ DOMAIN s = 1 .. Len(s) /\ DOMAIN t = 1 .. Len(s) + 1
      /\ \A k \in 1 .. Len(s) : t[k] = s[k]
      /\ t[Len(s) + 1] = f
  BY Appended
<1> HIDE DEF t
<1>2. ASSUME NEW k \in DOMAIN t, k \in DOMAIN s => HistoryHas(s[k], id) PROVE HistoryHas(t[k], id)
  BY <1>1, <1>2
<1>3. CASE id \in Range(l) /\ \A k \in DOMAIN s : HistoryHas(s[k], id)
  BY <1>2, <1>3 DEF WillShow, t
<1>4. ASSUME NEW k \in DOMAIN s,
             s[k].type \in {"history", "message"}, id \in Range(s[k].ids),
             \A o \in DOMAIN s : k < o => HistoryHas(s[o], id)
      PROVE  WillShow(l, t, id)
  <2>1. k \in DOMAIN t /\ t[k] = s[k]
    BY <1>1
  <2>2. \A o \in DOMAIN t : k < o => HistoryHas(t[o], id)
    BY <1>2, <1>4
  <2> QED
    BY <1>4, <2>1, <2>2 DEF WillShow
<1> QED
  BY <1>3, <1>4 DEF WillShow, t

LEMMA PushShows ==
  ASSUME NEW s \in Seq(FrameRec), NEW f \in FrameRec, NEW l, NEW id,
         f.type \in {"history", "message"}, id \in Range(f.ids)
  PROVE  WillShow(l, Append(s, f), id)
<1> DEFINE t == Append(s, f)
<1>1. Len(s) \in Nat /\ DOMAIN t = 1 .. Len(s) + 1 /\ t[Len(s) + 1] = f
  BY Appended
<1> HIDE DEF t
<1>2. Len(s) + 1 \in DOMAIN t /\ \A o \in DOMAIN t : ~(Len(s) + 1 < o)
  BY <1>1
<1> QED
  BY <1>1, <1>2 DEF WillShow, t

LEMMA RemovedAt ==
  ASSUME NEW S, NEW s \in Seq(S), NEW i \in 1 .. Len(s)
  PROVE  /\ RemoveAt(s, i) \in Seq(S) /\ Len(RemoveAt(s, i)) = Len(s) - 1
         /\ DOMAIN RemoveAt(s, i) = 1 .. Len(s) - 1
         /\ \A j \in 1 .. Len(s) - 1 : RemoveAt(s, i)[j] = s[IF j < i THEN j ELSE j + 1]
<1>1. Len(s) \in Nat /\ i \in Nat /\ 1 <= i /\ i <= Len(s)
  BY LenProperties
<1> DEFINE a == SubSeq(s, 1, i - 1)
           b == SubSeq(s, i + 1, Len(s))
<1>2. a \in Seq(S) /\ Len(a) = i - 1 /\ \A j \in 1 .. i - 1 : a[j] = s[j]
  BY <1>1, SubSeqProperties
<1>3. b \in Seq(S) /\ Len(b) = Len(s) - i /\ \A j \in 1 .. Len(s) - i : b[j] = s[j + i]
  BY <1>1, SubSeqProperties
<1>4. RemoveAt(s, i) = a \o b
  BY DEF RemoveAt
<1> HIDE DEF a, b
<1>5. /\ a \o b \in Seq(S) /\ Len(a \o b) = Len(s) - 1
      /\ \A j \in 1 .. Len(s) - 1 : (a \o b)[j] = IF j <= i - 1 THEN a[j] ELSE b[j - (i - 1)]
  BY <1>1, <1>2, <1>3, ConcatProperties
<1>6. ASSUME NEW j \in 1 .. Len(s) - 1 PROVE (a \o b)[j] = s[IF j < i THEN j ELSE j + 1]
  <2>1. CASE j < i
    BY <1>1, <1>2, <1>5, <2>1
  <2>2. CASE ~(j < i)
    <3>1. PICK l \in 1 .. Len(s) - i : l = j - (i - 1) /\ l + i = j + 1
      BY <1>1, <2>2
    <3>2. (a \o b)[j] = b[l]
      BY <1>1, <1>5, <2>2, <3>1
    <3>3. b[l] = s[l + i]
      BY <1>3, <3>1
    <3> QED
      BY <2>2, <3>1, <3>2, <3>3
  <2> QED
    BY <2>1, <2>2
<1> QED
  BY <1>1, <1>4, <1>5, <1>6, LenProperties

LEMMA OthersStay ==
  ASSUME NEW S, NEW s \in Seq(S), NEW e, NEW x \in Range(s), x # e
  PROVE  x \in Range(RemoveFirstId(s, e))
<1> DEFINE I == {i \in 1 .. Len(s) : s[i] = e}
<1>1. CASE e \notin Range(s)
  BY <1>1 DEF RemoveFirstId
<1>2. CASE e \in Range(s)
  <2>1. Len(s) \in Nat /\ DOMAIN s = 1 .. Len(s) /\ I # {}
    BY <1>2, LenProperties DEF Range
  <2>2. PICK m \in 1 .. Len(s) : m = Min(I) /\ s[m] = e
    BY <2>1, LeastNumber DEF Min
  <2>3. SelectInSeq(s, LAMBDA v : v = e) = m
    BY <2>1, <2>2 DEF SelectInSeq
  <2>4. RemoveFirstId(s, e) = RemoveAt(s, m)
    BY <1>2, <2>1, <2>2, <2>3 DEF RemoveFirstId, RemoveFirst
  <2>5. PICK i \in 1 .. Len(s) : s[i] = x
    BY <2>1 DEF Range
  <2>6. PICK j \in 1 .. Len(s) - 1 : (IF j < m THEN j ELSE j + 1) = i
    <3>1. i # m
      BY <2>2, <2>5
    <3>2. CASE i < m
      BY <2>1, <3>2
    <3>3. CASE i > m
      <4>1. i - 1 \in 1 .. Len(s) - 1 /\ ~(i - 1 < m)
        BY <2>1, <3>3
      <4> QED
        BY <4>1
    <3> QED
      BY <2>1, <3>1, <3>2, <3>3
  <2>7. j \in DOMAIN RemoveAt(s, m) /\ RemoveAt(s, m)[j] = x
    BY <2>5, <2>6, RemovedAt
  <2> QED
    BY <2>4, <2>7 DEF Range
<1> QED
  BY <1>1, <1>2

(* ... and when the first frame is shown.                                   *)
LEMMA ShowKeeps ==
  ASSUME NEW s \in Seq(FrameRec), 1 \in DOMAIN s, NEW l \in Seq(Ids), NEW id,
         WillShow(l, s, id), s[1].type = "deleted" => s[1].ids[1] # id
  PROVE  WillShow(Shown(l, s[1]), RemoveAt(s, 1), id)
<1> DEFINE t == RemoveAt(s, 1)
           f == s[1]
<1>1. /\ Len(s) \in Nat /\ DOMAIN s = 1 .. Len(s) /\ DOMAIN t = 1 .. Len(s) - 1
      /\ \A k \in 1 .. Len(s) - 1 : t[k] = s[k + 1]
      /\ f \in FrameRec
  <2>1. Len(s) \in Nat /\ DOMAIN s = 1 .. Len(s) /\ 1 \in 1 .. Len(s) /\ f \in FrameRec
    BY LenProperties, ElementOfSeq
  <2>2. /\ DOMAIN t = 1 .. Len(s) - 1
        /\ \A k \in 1 .. Len(s) - 1 : t[k] = s[IF k < 1 THEN k ELSE k + 1]
    BY <2>1, RemovedAt
  <2> QED
    BY <2>1, <2>2
<1> HIDE DEF t
<1>2. ASSUME NEW k \in DOMAIN t PROVE k + 1 \in DOMAIN s /\ 1 < k + 1 /\ t[k] = s[k + 1]
  BY <1>1
<1>3. f.ids \in Seq(Ids)
  BY <1>1 DEF FrameRec
<1> HIDE DEF f
<1>4. id \in Range(l) /\ HistoryHas(f, id) => id \in Range(Shown(l, f))
  <2> SUFFICES ASSUME id \in Range(l), HistoryHas(f, id) PROVE id \in Range(Shown(l, f))
    OBVIOUS
  <2>1. CASE f.type = "history"
    BY <2>1 DEF Shown, HistoryHas
  <2>2. CASE f.type = "message"
    BY <1>3, <2>2, RangeConcatenation DEF Shown
  <2>3. CASE f.type = "deleted"
    <3>1. f.ids[1] # id
      BY <2>3 DEF f
    <3>2. id \in Range(RemoveFirstId(l, f.ids[1]))
      BY <3>1, OthersStay
    <3> QED
      BY <2>3, <3>2 DEF Shown
  <2>4. CASE f.type \notin {"history", "message", "deleted"}
    BY <2>4 DEF Shown
  <2> QED
    BY <2>1, <2>2, <2>3, <2>4
<1>5. f.type \in {"history", "message"} /\ id \in Range(f.ids) => id \in Range(Shown(l, f))
  <2>1. f.type = "message" => Range(Shown(l, f)) = Range(l) \cup Range(f.ids)
    BY <1>3, RangeConcatenation DEF Shown
  <2>2. f.type = "history" => Shown(l, f) = f.ids
    BY DEF Shown
  <2> QED
    BY <2>1, <2>2
<1>6. CASE id \in Range(l) /\ \A k \in DOMAIN s : HistoryHas(s[k], id)
  <2>1. HistoryHas(f, id) /\ \A k \in DOMAIN t : HistoryHas(t[k], id)
    BY <1>2, <1>6 DEF f
  <2> QED
    BY <1>4, <1>6, <2>1 DEF WillShow, t, f
<1>7. ASSUME NEW k \in DOMAIN s,
             s[k].type \in {"history", "message"}, id \in Range(s[k].ids),
             \A o \in DOMAIN s : k < o => HistoryHas(s[o], id)
      PROVE  WillShow(Shown(l, f), t, id)
  <2>1. CASE k = 1
    <3>1. id \in Range(Shown(l, f))
      BY <1>5, <1>7, <2>1 DEF f
    <3>2. \A j \in DOMAIN t : HistoryHas(t[j], id)
      BY <1>2, <1>7, <2>1
    <3> QED
      BY <3>1, <3>2 DEF WillShow
  <2>2. CASE k # 1
    <3>1. PICK j \in DOMAIN t : j + 1 = k /\ t[j] = s[k]
      <4>1. k - 1 \in DOMAIN t /\ (k - 1) + 1 = k
        BY <1>1, <2>2
      <4> QED
        BY <1>2, <4>1
    <3>2. ASSUME NEW o \in DOMAIN t, j < o PROVE HistoryHas(t[o], id)
      <4>1. k < o + 1
        BY <1>1, <3>1, <3>2
      <4> QED
        BY <1>2, <1>7, <4>1
    <3> QED
      BY <1>7, <3>1, <3>2 DEF WillShow
  <2> QED
    BY <2>1, <2>2
<1> QED
  BY <1>6, <1>7 DEF WillShow, t, f
-----------------------------------------------------------------------------
(* What the history has: every message with fewer than HistoryLimit newer   *)
(* ones.                                                                    *)
LEMMA RecentHas ==
  ASSUME StoreTypeOK, IdsBelow, NEW r \in Rooms, NEW m \in MessagesOf(r),
         Cardinality({j \in {n.id : n \in MessagesOf(r)} : j >= m.id}) <= HistoryLimit
  PROVE  m.id \in Range(Recent(r))
<1> DEFINE ids == {n.id : n \in MessagesOf(r)}
           cut == {i \in ids : Cardinality({j \in ids : j >= i}) <= HistoryLimit}
           n == Cardinality(cut)
           InOrder(s) == \A i, j \in 1 .. n : i < j => s[i] < s[j]
<1>1. nextMsg \in Nat /\ ids \subseteq 1 .. nextMsg
  BY DEF MessagesOf, StoreTypeOK, Message, IdsBelow
<1>2. cut \in SUBSET (1 .. nextMsg) /\ m.id \in cut
  BY <1>1
<1>3. Recent(r) = CHOOSE s \in [1 .. n -> cut] : InOrder(s)
  BY DEF Recent
<1> HIDE DEF cut
<1>4. IsFiniteSet(cut) /\ n \in Nat /\ \E s \in [1 .. n -> cut] : InOrder(s)
  BY <1>1, <1>2, Sorted
<1>5. PICK s \in [1 .. n -> cut] : s = Recent(r) /\ InOrder(s)
  BY <1>3, <1>4
<1>6. s \in Injection(1 .. n, cut)
  <2> HIDE DEF n
  <2>1. ASSUME NEW i \in 1 .. n, NEW j \in 1 .. n, s[i] = s[j] PROVE i = j
    <3>1. s[i] \in 1 .. nextMsg /\ s[j] \in 1 .. nextMsg
      BY <1>2, <1>5
    <3>2. ~(i < j) /\ ~(j < i)
      BY <1>5, <2>1, <3>1
    <3> QED
      BY <1>4, <3>2
  <2> QED
    BY <1>5, <2>1 DEF Injection, IsInjective
<1>7. IsFiniteSet(1 .. n) /\ Cardinality(1 .. n) = n
  BY <1>4, FS_Interval
<1>8. s \in Surjection(1 .. n, cut)
  BY <1>4, <1>6, <1>7, FS_Injection
<1>9. PICK i \in 1 .. n : s[i] = m.id
  BY <1>2, <1>8 DEF Surjection
<1> QED
  BY <1>5, <1>9 DEF Range

LEMMA ExpectedRecent ==
  ASSUME RoomInv, NEW t \in DOMAIN tasks, NEW r \in Rooms, Expected(t, r)
  PROVE  tasks[t].id \in Range(Recent(r))
<1>1. PICK m \in MessagesOf(r) : m.id = tasks[t].id
  BY DEF Expected
<1> DEFINE ids == {n.id : n \in MessagesOf(r)}
           later == {j \in ids : j > m.id}
           after == PostedAfter(t)
<1>2. /\ m.id \in Nat /\ m.id \in ids /\ ids \subseteq Nat /\ HistoryLimit \in Nat
      /\ \A j \in ids : PostedIn(j, r)
  BY RoomAssumption DEF MessagesOf, RoomInv, IInv, StoreTypeOK, Message, Posted
<1> HIDE DEF ids
<1> DEFINE f == [j \in later |-> CHOOSE u \in DOMAIN tasks :
                                     Posts(u) /\ tasks[u].id = j /\ RoomOf(u) = r]
<1>3. ASSUME NEW j \in later PROVE f[j] \in after /\ tasks[f[j]].id = j
  <2>1. \E u \in DOMAIN tasks : Posts(u) /\ tasks[u].id = j /\ RoomOf(u) = r
    BY <1>2 DEF PostedIn
  <2>2. f[j] \in DOMAIN tasks /\ Posts(f[j]) /\ tasks[f[j]].id = j /\ RoomOf(f[j]) = r
    BY <2>1
  <2>3. RoomOf(t) = r
    BY DEF Expected
  <2> QED
    BY <1>1, <2>2, <2>3 DEF PostedAfter
<1>4. f \in Injection(later, after)
  <2>1. f \in [later -> after]
    BY <1>3
  <2>2. \A i, j \in later : f[i] = f[j] => i = j
    BY <1>3
  <2> HIDE DEF f
  <2> QED
    BY <2>1, <2>2 DEF Injection, IsInjective
<1>5. IsFiniteSet(after)
  <2>1. DOMAIN tasks = 1 .. Len(tasks) /\ Len(tasks) \in Nat
    BY LenProperties DEF RoomInv, RoomTypes
  <2>2. IsFiniteSet(1 .. Len(tasks)) /\ after \in SUBSET (1 .. Len(tasks))
    BY <2>1, FS_Interval DEF PostedAfter
  <2> QED
    BY <2>2, FS_Subset
<1>6. Cardinality(after) < HistoryLimit
  BY DEF Expected
<1> HIDE DEF f, after
<1>7. IsFiniteSet(later) /\ Cardinality(later) <= Cardinality(after)
  BY <1>4, <1>5, FS_Injection
<1>8. Cardinality(later) \in Nat /\ Cardinality(after) \in Nat
  BY <1>5, <1>7, FS_CardinalityType
<1>9. {j \in ids : j >= m.id} = later \cup {m.id}
  <2>1. PICK k \in Nat : k = m.id /\ k \in ids
    BY <1>2
  <2>2. \A j \in ids : j >= k <=> j > k \/ j = k
    BY <1>2, <2>1
  <2>3. {j \in ids : j >= k} = {j \in ids : j > k} \cup {k}
    BY <2>1, <2>2
  <2> QED
    BY <2>1, <2>3
<1>10. Cardinality(later \cup {m.id}) = Cardinality(later) + 1
  <2>1. m.id \notin later
    BY <1>2
  <2> HIDE DEF later
  <2> QED
    BY <1>7, <2>1, FS_AddElement
<1>11. Cardinality({j \in ids : j >= m.id}) <= HistoryLimit
  <2>1. Cardinality(later) + 1 <= HistoryLimit
    <3> HIDE DEF later
    <3> QED
      BY <1>2, <1>6, <1>7, <1>8
  <2> QED
    BY <1>9, <1>10, <2>1
<1> QED
  BY <1>1, <1>11, RecentHas DEF ids, RoomInv, IInv
-----------------------------------------------------------------------------
(* The invariant of what is to be shown.  An id names one message; a        *)
(* connection that was not opened has no tasks; a message that is deleted   *)
(* in public is gone; and who has been sent a message and joined, or is     *)
(* about to get the history, will show it.                                  *)
UniqueIds == \A m, n \in msgs : m.id = n.id => m = n
NotFresh == \A t \in DOMAIN tasks : tasks[t].conn \notin fresh
Gone(id) == id \in 1 .. nextMsg - 1 /\ \A m \in msgs : m.id # id
DeletionsOK ==
    /\ \A t \in DOMAIN tasks : ~Posts(t) /\ tasks[t].pc \in {"snapshot", "send"} => Gone(tasks[t].id)
    /\ \A c \in Conns : \A f \in Range(mailbox[c]) : f.type = "deleted" => Gone(f.ids[1])

Unraced == (admitted \cap open) \ raced
SentTo(t, c) == tasks[t].pc = "done" \/ (tasks[t].pc = "send" /\ c \notin tasks[t].todo)
Underway(j, c) == tasks[j].conn = c /\ tasks[j].pc \in {"pushJoined", "pushHistory"}
Promised(c, t) ==
    /\ \A j \in DOMAIN tasks : Underway(j, c) => tasks[t].id \in Range(tasks[j].items)
    /\ (\E j \in DOMAIN tasks : Joined(j, c)) => WillShow(list[c], mailbox[c], tasks[t].id)
Complete == \A c \in Unraced, t \in DOMAIN tasks :
                Expected(t, room[c]) /\ SentTo(t, c) => Promised(c, t)

ShownInv == UniqueIds /\ NotFresh /\ DeletionsOK /\ Complete

(* The message table from one step to the next.                             *)
LEMMA NewMessages ==
  ASSUME IInv, UniqueIds, [StoreNext]_storeVars
  PROVE  UniqueIds' /\ \A m \in msgs' \ msgs : m.id = nextMsg
<1>1. CASE msgs' \subseteq msgs
  BY <1>1 DEF UniqueIds
<1>2. ASSUME NEW row, NEW w, NEW size, InsertMessage(row, w, size)
      PROVE  UniqueIds' /\ \A m \in msgs' \ msgs : m.id = nextMsg
  <2> DEFINE row0 == [id |-> nextMsg, room |-> row, author |-> w, size |-> size]
  <2>1. PICK new : msgs' = msgs \cup {new} /\ new.id = nextMsg
    <3>1. msgs' = msgs \cup {row0} /\ row0.id = nextMsg
      BY <1>2 DEF InsertMessage
    <3> QED
      BY <3>1
  <2>2. \A m \in msgs : m.id < nextMsg /\ m.id \in Nat
    BY DEF IInv, IdsBelow, StoreTypeOK, Message
  <2> QED
    BY <2>1, <2>2 DEF UniqueIds, IInv, StoreTypeOK
<1> QED
  BY <1>1, <1>2 DEF StoreNext, InsertRoom, DeletePoorestRoom, DeleteOldest, DeleteMessage, storeVars

StoreMoves == StoreGrows /\ UniqueIds' /\ \A m \in msgs' \ msgs : m.id = nextMsg

LEMMA GoneStays ==
  ASSUME StoreMoves, NEW i \in Nat, Gone(i)
  PROVE  Gone(i)'
<1>1. \A y, z \in Nat : y <= z /\ i \in 1 .. y - 1 => i \in 1 .. z - 1 /\ i # y
  OBVIOUS
<1>2. i \in 1 .. nextMsg' - 1 /\ i # nextMsg
  BY <1>1 DEF StoreMoves, StoreGrows, Gone
<1>3. \A m \in msgs' : m.id # i
  BY <1>2 DEF StoreMoves, Gone
<1> QED
  BY <1>2, <1>3 DEF Gone

LEMMA StillExpected ==
  ASSUME RoomInv, RoomTypes', Grows, StoreMoves, NEW t \in DOMAIN tasks, NEW r \in Rooms,
         Expected(t, r)', tasks'[t].id = tasks[t].id, tasks[t].reply # "error"
  PROVE  Expected(t, r)
<1>1. TaskGrows(t) /\ tasks[t].id \in Nat /\ tasks[t].id < nextMsg /\ room' = room
  BY TaskFacts DEF Grows, RoomInv, TaskRec, TaskOK
<1>2. Posts(t) /\ RoomOf(t) = r
  BY <1>1 DEF Expected, Posts, RoomOf, TaskGrows
<1>3. PICK m \in msgs' : m.id = tasks[t].id /\ roomRow'[r] # 0 /\ m.room = roomRow'[r]
  BY DEF Expected, MessagesOf, HasRow
<1>4. m \in msgs /\ m.room < nextRoom /\ m.room \in Nat
  <2>1. m \in msgs
    BY <1>1, <1>3 DEF StoreMoves, StoreGrows
  <2> QED
    BY <2>1 DEF RoomInv, IInv, StoreTypeOK, Message, NoOrphan, RowsBelow
<1>5. m \in MessagesOf(r)
  BY <1>3, <1>4 DEF MessagesOf, HasRow, StoreMoves, StoreGrows
<1>6. Cardinality(PostedAfter(t)) < HistoryLimit
  <2> DEFINE old == PostedAfter(t)
             new == PostedAfter(t)'
  <2>1. ASSUME NEW u \in old PROVE u \in new
    <3>1. u \in DOMAIN tasks /\ Posts(u) /\ RoomOf(u) = RoomOf(t) /\ tasks[u].id > tasks[t].id
      BY DEF PostedAfter
    <3>2. TaskGrows(u) /\ tasks[u].id \in Nat /\ u \in DOMAIN tasks'
      BY <3>1, TaskFacts DEF Grows, RoomInv, TaskRec
    <3> QED
      BY <1>1, <3>1, <3>2 DEF PostedAfter, TaskGrows, Posts, RoomOf
  <2>2. IsFiniteSet(new)
    <3>1. DOMAIN tasks' = 1 .. Len(tasks') /\ Len(tasks') \in Nat
      BY LenProperties DEF RoomTypes
    <3>2. IsFiniteSet(1 .. Len(tasks')) /\ new \in SUBSET (1 .. Len(tasks'))
      BY <3>1, FS_Interval DEF PostedAfter
    <3> QED
      BY <3>2, FS_Subset
  <2>3. Cardinality(new) < HistoryLimit
    BY DEF Expected
  <2> HIDE DEF old, new
  <2>4. IsFiniteSet(old) /\ Cardinality(old) <= Cardinality(new)
    BY <2>1, <2>2, FS_Subset
  <2>5. Cardinality(old) \in Nat /\ Cardinality(new) \in Nat /\ HistoryLimit \in Nat
    BY <2>2, <2>4, FS_CardinalityType, RoomAssumption
  <2> QED
    BY <2>3, <2>4, <2>5 DEF old
<1> QED
  BY <1>2, <1>3, <1>5, <1>6 DEF Expected

(* The promise of before the step.                                          *)
LEMMA OldPromise ==
  ASSUME RoomInv, RoomTypes', ShownInv, Grows, StoreMoves,
         NEW c \in Unraced, NEW t \in DOMAIN tasks, SentTo(t, c), Expected(t, room[c])',
         tasks'[t].id = tasks[t].id, tasks[t].reply # "error"
  PROVE  Expected(t, room[c]) /\ Promised(c, t)
<1>1. c \in Conns /\ room[c] \in Rooms /\ room' = room
  BY DEF Unraced, RoomInv, RoomTypes, Grows
<1>2. PICK r \in Rooms : r = room[c] /\ r = room'[c]
  BY <1>1
<1>3. Expected(t, r)'
  BY <1>2 DEF Expected
<1>4. Expected(t, r)
  BY <1>3, StillExpected
<1> QED
  BY <1>2, <1>4 DEF ShownInv, Complete
-----------------------------------------------------------------------------
(* A step of a task: what the other tasks were promised, and what has been  *)
(* deleted, stays so.                                                       *)
LEMMA StoreMoving ==
  ASSUME RoomInv, UniqueIds, [Next]_vars
  PROVE  StoreMoves
BY StoreStep, StoreGrowing, NewMessages DEF StoreMoves, RoomInv

LEMMA OthersPromised ==
  ASSUME RoomInv, RoomTypes', ShownInv, StoreMoves, NEW t0 \in DOMAIN tasks, TaskStep(t0),
         NEW c \in Unraced, NEW t \in DOMAIN tasks, t # t0,
         Expected(t, room[c])', SentTo(t, c)'
  PROVE  Expected(t, room[c]) /\ Promised(c, t) /\ tasks'[t] = tasks[t]
<1>1. tasks'[t] = tasks[t]
  BY DEF TaskStep, OthersSame
<1>2. SentTo(t, c) /\ tasks[t].reply # "error"
  BY <1>1 DEF SentTo, Expected
<1>3. Grows
  BY StepGrows DEF RoomInv
<1> QED
  BY <1>1, <1>2, <1>3, OldPromise

LEMMA DeletionsStay ==
  ASSUME RoomInv, RoomTypes', ShownInv, StoreMoves, NEW t0 \in DOMAIN tasks, TaskStep(t0),
         ~Posts(t0)' /\ tasks'[t0].pc \in {"snapshot", "send"} => Gone(tasks[t0].id)',
         \A c \in Conns : \A f \in Range(mailbox'[c]) \ Range(mailbox[c]) :
             f.type = "deleted" => Gone(f.ids[1])'
  PROVE  NotFresh' /\ DeletionsOK'
<1>1. /\ DOMAIN tasks' = DOMAIN tasks /\ fresh' = fresh
      /\ \A t \in DOMAIN tasks \ {t0} : tasks'[t] = tasks[t]
      /\ tasks'[t0].conn = tasks[t0].conn
  BY DEF TaskStep, OthersSame, TaskGrows, connVars
<1>2. NotFresh'
  <2>1. ASSUME NEW t \in DOMAIN tasks PROVE tasks'[t].conn = tasks[t].conn
    BY <1>1
  <2>2. \A t \in DOMAIN tasks : tasks[t].conn \notin fresh
    BY DEF ShownInv, NotFresh
  <2> QED
    BY <1>1, <2>1, <2>2 DEF NotFresh
<1>3. ASSUME NEW t \in DOMAIN tasks, t # t0, ~Posts(t)', tasks'[t].pc \in {"snapshot", "send"}
      PROVE  Gone(tasks[t].id)'
  <2>1. tasks'[t] = tasks[t] /\ tasks[t].id \in Nat
    BY <1>1, <1>3, TaskFacts DEF RoomInv, TaskRec
  <2>2. Gone(tasks[t].id)
    BY <1>3, <2>1 DEF ShownInv, DeletionsOK, Posts
  <2>3. PICK i \in Nat : i = tasks[t].id /\ i = tasks'[t].id
    BY <2>1
  <2>4. Gone(i)'
    BY <2>2, <2>3, GoneStays
  <2> QED
    BY <2>3, <2>4
<1>4. ASSUME NEW c \in Conns, NEW f \in Range(mailbox[c]), f.type = "deleted" PROVE Gone(f.ids[1])'
  <2>1. Gone(f.ids[1])
    BY <1>4 DEF ShownInv, DeletionsOK
  <2>2. PICK i \in Nat : i = f.ids[1]
    BY <2>1 DEF Gone, RoomInv, IInv, StoreTypeOK
  <2> QED
    BY <2>1, <2>2, GoneStays
<1>5. \A t \in DOMAIN tasks' : (~Posts(t) /\ tasks[t].pc \in {"snapshot", "send"} => Gone(tasks[t].id))'
  <2>1. ASSUME NEW t \in DOMAIN tasks', ~Posts(t)', tasks'[t].pc \in {"snapshot", "send"}
        PROVE  Gone(tasks[t].id)'
    <3>1. CASE t = t0
      BY <2>1, <3>1
    <3>2. CASE t # t0
      BY <1>1, <1>3, <2>1, <3>2
    <3> QED
      BY <3>1, <3>2
  <2> QED
    BY <2>1
<1>6. \A c \in Conns : \A f \in Range(mailbox'[c]) : f.type = "deleted" => Gone(f.ids[1])'
  BY <1>4
<1>7. DeletionsOK'
  BY <1>5, <1>6 DEF DeletionsOK
<1> QED
  BY <1>2, <1>7

LEMMA RangeOfAppend ==
  ASSUME NEW S, NEW s \in Seq(S), NEW e \in S
  PROVE  Range(Append(s, e)) = Range(s) \cup {e}
<1> DEFINE one == <<e>>
<1>1. Append(s, e) = s \o one
  BY AppendIsConcat
<1>2. one \in Seq(S) /\ Range(one) = {e}
  BY DEF Range
<1> HIDE DEF one
<1> QED
  BY <1>1, <1>2, RangeConcatenation

(* A frame that is pushed.                                                  *)
LEMMA Receives ==
  ASSUME RoomTypes, NEW c \in Unraced, NEW d \in Conns, NEW frame \in FrameRec, Push(d, frame)
  PROVE  /\ mailbox[c] \in Seq(FrameRec)
         /\ mailbox'[c] = IF c = d THEN Append(mailbox[c], frame) ELSE mailbox[c]
BY DEF RoomTypes, Unraced, Push

LEMMA KeptByPush ==
  ASSUME RoomTypes, NEW c \in Unraced, NEW d \in Conns, NEW frame \in FrameRec, Push(d, frame),
         UNCHANGED list, NEW i, WillShow(list[c], mailbox[c], i), c = d => HistoryHas(frame, i)
  PROVE  WillShow(list'[c], mailbox'[c], i)
<1>1. mailbox[c] \in Seq(FrameRec)
      /\ mailbox'[c] = IF c = d THEN Append(mailbox[c], frame) ELSE mailbox[c]
  BY Receives
<1> QED
  BY <1>1, PushKeeps

LEMMA ShownByPush ==
  ASSUME RoomTypes, NEW c \in Unraced, NEW frame \in FrameRec, Push(c, frame),
         NEW i, frame.type \in {"history", "message"}, i \in Range(frame.ids)
  PROVE  WillShow(list'[c], mailbox'[c], i)
<1>1. c \in Conns
  BY DEF Unraced, RoomTypes
<1>2. mailbox[c] \in Seq(FrameRec) /\ mailbox'[c] = Append(mailbox[c], frame)
  BY <1>1, Receives
<1> QED
  BY <1>2, PushShows

-----------------------------------------------------------------------------
(* A statement: where it leaves its task.                                   *)
LEMMA DeletedIsGone ==
  ASSUME IInv, UniqueIds, NEW i, NEW r, NEW w, DeleteMessage(i, r, w), Deletable(i, r, w) # {}
  PROVE  Gone(i)'
<1>1. PICK m \in Deletable(i, r, w) : TRUE
  OBVIOUS
<1>2. m \in msgs /\ m.id = i /\ m.id \in Nat \ {0} /\ m.id < nextMsg /\ nextMsg \in Nat
  BY <1>1 DEF Deletable, MessagesOf, IInv, IdsBelow, StoreTypeOK, Message
<1>3. nextMsg' = nextMsg /\ msgs' = msgs \ Deletable(i, r, w)
  BY DEF DeleteMessage
<1>4. \A n \in msgs' : n.id # i
  BY <1>1, <1>2, <1>3 DEF UniqueIds
<1>5. i \in 1 .. nextMsg' - 1
  BY <1>2, <1>3
<1> QED
  BY <1>4, <1>5 DEF Gone

LEMMA DatabaseMoves ==
  ASSUME RoomInv, UniqueIds, NEW t \in DOMAIN tasks, Database(t)
  PROVE  /\ TaskStep(t) /\ UNCHANGED <<open, clientVars>>
         /\ tasks[t].pc \notin {"send", "done"}
         /\ tasks'[t].pc \notin {"send", "done", "pushHistory"}
         /\ tasks'[t].pc = "pushJoined" => tasks'[t].items = Recent(RoomOf(t))
         /\ ~Posts(t) /\ tasks'[t].pc = "snapshot" => Gone(tasks[t].id)'
<1>1. TaskStep(t) /\ UNCHANGED <<open, clientVars>>
  BY DatabaseKeeps DEF Database
<1>2. /\ tasks[t] \in TaskRec /\ tasks \in Seq(TaskRec)
      /\ tasks[t].pc \in MessagePc => Posts(t)
  <2>1. \A size \in Sizes : size > 0
    BY StoreAssumption
  <2> QED
    BY <2>1, TaskFacts DEF RoomInv, RoomTypes, TaskOK, Posts
<1>3. ASSUME NEW pc \in Pc \ {"send", "done", "pushHistory", "pushJoined"}, Goto(t, pc)
      PROVE  tasks'[t].pc = pc
  BY <1>2, <1>3, Moved
<1>4. CASE Delete(t)
  <2>1. PICK pc \in {"snapshot", "refuse"} :
            /\ Goto(t, pc)
            /\ pc = "snapshot" => Deletable(tasks[t].id, RoomOf(t), wallet[tasks[t].conn]) # {}
    BY <1>4 DEF Delete
  <2>2. DeleteMessage(tasks[t].id, RoomOf(t), wallet[tasks[t].conn]) /\ tasks[t].pc = "delete"
    BY <1>4 DEF Delete, At
  <2>3. tasks'[t].pc = pc
    BY <1>3, <2>1 DEF Pc
  <2>4. PICK i \in Nat : i = tasks[t].id
    BY <1>2 DEF TaskRec
  <2>5. pc = "snapshot" => Gone(i)'
    BY <2>1, <2>2, <2>4, DeletedIsGone DEF RoomInv
  <2>6. tasks'[t].id = tasks[t].id
    BY <1>2, <2>1, Moved DEF Pc
  <2>7. pc = "snapshot" => Gone(tasks[t].id)'
    BY <2>4, <2>5, <2>6
  <2> QED
    BY <1>1, <2>1, <2>2, <2>3, <2>7
<1>5. CASE ReadHistory(t)
  <2>1. /\ tasks' = [tasks EXCEPT ![t].pc = "pushJoined", ![t].items = Recent(RoomOf(t))]
        /\ tasks[t].pc = "readHistory"
    BY <1>5 DEF ReadHistory, At
  <2>2. tasks'[t].pc = "pushJoined" /\ tasks'[t].items = Recent(RoomOf(t))
    BY <1>2, <2>1 DEF TaskRec
  <2> QED
    BY <1>1, <2>1, <2>2
<1>6. CASE Lookup(t)
  <2>1. PICK pc \in {"insert", "refuse"} :
            tasks' = [tasks EXCEPT ![t].row = roomRow[RoomOf(t)], ![t].pc = pc]
    BY <1>6 DEF Lookup
  <2>2. tasks'[t].pc = pc /\ tasks[t].pc = "lookup"
    BY <1>2, <1>6, <2>1 DEF TaskRec, Lookup, At
  <2> QED
    BY <1>1, <2>1, <2>2
<1>7. CASE Insert(t)
  <2>1. \/ tasks' = [tasks EXCEPT ![t].pc = "select", ![t].id = nextMsg]
        \/ Goto(t, "refuse")
    BY <1>7 DEF Insert
  <2>2. tasks'[t].pc \in {"select", "refuse"} /\ tasks[t].pc = "insert"
    BY <1>2, <1>3, <1>7, <2>1 DEF TaskRec, Insert, At, Pc
  <2> QED
    BY <1>1, <2>1, <2>2
<1>8. CASE CreateRoom(t) \/ CheckRooms(t) \/ EvictRoom(t) \/ SelectBack(t) \/ StatementFails(t)
  <2>1. PICK pc \in {"checkRooms", "evictRoom", "readHistory", "checkBytes", "refuse"} : Goto(t, pc)
    BY <1>8 DEF CreateRoom, CheckRooms, EvictRoom, SelectBack, StatementFails
  <2>2. tasks'[t].pc = pc /\ tasks[t].pc \notin {"send", "done"}
    BY <1>3, <1>8, <2>1 DEF Pc, JoinPc, MessagePc, CreateRoom, CheckRooms, EvictRoom, SelectBack, StatementFails, At
  <2> QED
    BY <1>1, <2>1, <2>2
<1>9. CASE CheckBytes(t) \/ EvictMessage(t)
  <2>1. PICK pc \in {"evictMessage", "checkBytes", "snapshot"} : Goto(t, pc)
    BY <1>9 DEF CheckBytes, EvictMessage
  <2>2. tasks'[t].pc = pc /\ tasks[t].pc \in MessagePc /\ tasks[t].pc \notin {"send", "done"}
    BY <1>3, <1>9, <2>1 DEF Pc, MessagePc, CheckBytes, EvictMessage, At
  <2> QED
    BY <1>1, <1>2, <2>1, <2>2
<1> QED
  BY <1>4, <1>5, <1>6, <1>7, <1>8, <1>9 DEF Database

LEMMA DatabaseShown ==
  ASSUME RoomInv, RoomTypes', ShownInv, StoreMoves, NEW t0 \in DOMAIN tasks, Database(t0)
  PROVE  ShownInv'
<1>1. /\ TaskStep(t0) /\ UNCHANGED <<open, mailbox, list, raced>>
      /\ tasks[t0].pc \notin {"send", "done"}
      /\ tasks'[t0].pc \notin {"send", "done", "pushHistory"}
      /\ tasks'[t0].pc = "pushJoined" => tasks'[t0].items = Recent(RoomOf(t0))
      /\ ~Posts(t0) /\ tasks'[t0].pc = "snapshot" => Gone(tasks[t0].id)'
  BY DatabaseMoves DEF ShownInv, clientVars
<1>2. NotFresh' /\ DeletionsOK'
  <2>1. Posts(t0)' = Posts(t0)
    BY <1>1 DEF TaskStep, TaskGrows, Posts
  <2> QED
    BY <1>1, <2>1, DeletionsStay
<1>3. /\ DOMAIN tasks' = DOMAIN tasks /\ Unraced' = Unraced /\ room' = room
      /\ tasks'[t0].conn = tasks[t0].conn
      /\ \A t \in DOMAIN tasks \ {t0} : tasks'[t] = tasks[t]
  BY <1>1 DEF TaskStep, OthersSame, TaskGrows, connVars, Unraced
<1>4. ASSUME NEW c \in Unraced, NEW t \in DOMAIN tasks, Expected(t, room[c])', SentTo(t, c)'
      PROVE  Promised(c, t)'
  <2>1. t # t0
    BY <1>1, <1>4 DEF SentTo
  <2>2. Expected(t, room[c]) /\ Promised(c, t) /\ tasks'[t] = tasks[t]
    BY <1>1, <1>4, <2>1, OthersPromised
  <2>3. ASSUME NEW j \in DOMAIN tasks, Underway(j, c)' PROVE tasks[t].id \in Range(tasks'[j].items)
    <3>1. CASE j = t0
      <4>1. tasks'[t0].pc = "pushJoined" /\ RoomOf(t0) = room[c]
        BY <1>1, <1>3, <2>3, <3>1 DEF Underway, RoomOf
      <4>2. tasks[t].id \in Range(Recent(room[c]))
        BY <2>2, ExpectedRecent DEF Unraced, RoomInv, RoomTypes
      <4> QED
        BY <1>1, <3>1, <4>1, <4>2
    <3>2. CASE j # t0
      <4>1. tasks'[j] = tasks[j] /\ Underway(j, c)
        BY <1>3, <2>3, <3>2 DEF Underway
      <4> QED
        BY <2>2, <4>1 DEF Promised
    <3> QED
      BY <3>1, <3>2
  <2>4. ASSUME NEW j \in DOMAIN tasks, Joined(j, c)' PROVE WillShow(list[c], mailbox[c], tasks[t].id)
    <3>1. j # t0
      BY <1>1, <2>4 DEF Joined
    <3>2. Joined(j, c)
      BY <1>3, <2>4, <3>1 DEF Joined, Posts
    <3> QED
      BY <2>2, <3>2 DEF Promised
  <2> QED
    BY <1>1, <1>3, <2>2, <2>3, <2>4 DEF Promised
<1>5. Complete'
  BY <1>3, <1>4 DEF Complete
<1> QED
  BY <1>2, <1>5 DEF ShownInv, StoreMoves

(* The replies to the requester: an error, that it joined, the history.     *)
AfterOwn(t0, frame) ==
    /\ frame \in FrameRec /\ Push(tasks[t0].conn, frame)
    /\ frame.type # "deleted" /\ (frame.type = "history" => frame.ids = tasks[t0].items)
    /\ UNCHANGED <<open, list, raced>>
    /\ IF tasks[t0].pc = "pushJoined"
         THEN /\ frame.type = "joined" /\ tasks'[t0].pc = "pushHistory"
              /\ tasks'[t0].items = tasks[t0].items
         ELSE /\ tasks'[t0].pc = "done"
              /\ IF tasks[t0].pc = "refuse"
                   THEN tasks'[t0].reply = "error" /\ frame.type = "error"
                   ELSE tasks[t0].pc = "pushHistory" /\ frame.type = "history" /\ ~Posts(t0)

LEMMA OwnReplies ==
  ASSUME RoomInv, NEW t0 \in DOMAIN tasks, PushError(t0) \/ PushJoined(t0) \/ PushHistory(t0)
  PROVE  TaskStep(t0) /\ \E frame : AfterOwn(t0, frame)
<1>1. TaskStep(t0)
  BY ReplyKeeps DEF Reply
<1>2. /\ tasks \in Seq(TaskRec) /\ tasks[t0].items \in Seq(Ids) /\ t0 \in Nat /\ <<>> \in Seq(Ids)
      /\ tasks[t0].pc \in JoinPc => tasks[t0].size = 0
  <2>1. PICK task \in TaskRec : task = tasks[t0] /\ TaskOK(task)
    BY TaskFacts DEF RoomInv
  <2>2. task.items \in Seq(Ids) /\ (task.pc \in JoinPc => task.size = 0)
    BY <2>1 DEF TaskRec, TaskOK
  <2>3. tasks \in Seq(TaskRec) /\ t0 \in Nat
    BY LenProperties DEF RoomInv, RoomTypes
  <2> QED
    BY <2>1, <2>2, <2>3
<1>3. CASE PushError(t0)
  <2> DEFINE frame == Frame("error", <<>>, t0)
  <2>1. frame \in FrameRec /\ frame.type = "error"
    BY <1>2 DEF Frame, FrameRec
  <2>2. Push(tasks[t0].conn, frame) /\ UNCHANGED <<open, list, raced>> /\ tasks[t0].pc = "refuse"
    BY <1>3 DEF PushError, At
  <2>3. tasks'[t0].pc = "done" /\ tasks'[t0].reply = "error"
    BY <1>2, <1>3, Ended DEF PushError
  <2> HIDE DEF frame
  <2> QED
    BY <1>1, <2>1, <2>2, <2>3 DEF AfterOwn
<1>4. CASE PushJoined(t0)
  <2> DEFINE frame == Frame("joined", <<>>, t0)
  <2>1. frame \in FrameRec /\ frame.type = "joined"
    BY <1>2 DEF Frame, FrameRec
  <2>2. Push(tasks[t0].conn, frame) /\ UNCHANGED <<open, list, raced>> /\ tasks[t0].pc = "pushJoined"
    BY <1>4 DEF PushJoined, At
  <2>3. tasks'[t0].pc = "pushHistory" /\ tasks'[t0].items = tasks[t0].items
    BY <1>2, <1>4, Moved DEF PushJoined, Pc, JoinPc
  <2> HIDE DEF frame
  <2> QED
    BY <1>1, <2>1, <2>2, <2>3 DEF AfterOwn
<1>5. CASE PushHistory(t0)
  <2> DEFINE frame == Frame("history", tasks[t0].items, t0)
  <2>1. frame \in FrameRec /\ frame.type = "history" /\ frame.ids = tasks[t0].items
    BY <1>2 DEF Frame, FrameRec
  <2>2. Push(tasks[t0].conn, frame) /\ UNCHANGED <<open, list, raced>> /\ tasks[t0].pc = "pushHistory"
    BY <1>5 DEF PushHistory, At
  <2>3. tasks'[t0].pc = "done" /\ ~Posts(t0)
    BY <1>2, <1>5, <2>2, Ended DEF PushHistory, Posts, JoinPc
  <2> HIDE DEF frame
  <2> QED
    BY <1>1, <2>1, <2>2, <2>3 DEF AfterOwn
<1> QED
  BY <1>3, <1>4, <1>5

LEMMA OwnReplyShown ==
  ASSUME RoomInv, RoomTypes', ShownInv, StoreMoves, NEW t0 \in DOMAIN tasks,
         PushError(t0) \/ PushJoined(t0) \/ PushHistory(t0)
  PROVE  ShownInv'
<1>1. PICK frame : TaskStep(t0) /\ AfterOwn(t0, frame)
  BY OwnReplies
<1> DEFINE d == tasks[t0].conn
<1>2. /\ frame \in FrameRec /\ Push(d, frame) /\ d \in Conns /\ UNCHANGED <<open, list, raced>>
      /\ tasks'[t0].pc \notin {"send", "snapshot"}
  BY <1>1, TaskFacts DEF AfterOwn, RoomInv, TaskRec
<1>3. NotFresh' /\ DeletionsOK'
  <2>1. \A c \in Conns : \A f \in Range(mailbox'[c]) \ Range(mailbox[c]) : f.type # "deleted"
    <3>1. frame.type # "deleted"
      BY <1>1 DEF AfterOwn
    <3>2. Range(Append(mailbox[d], frame)) = Range(mailbox[d]) \cup {frame}
      BY <1>2, RangeOfAppend DEF RoomInv, RoomTypes
    <3> QED
      BY <1>2, <3>1, <3>2 DEF Push, RoomInv, RoomTypes
  <2> QED
    BY <1>1, <1>2, <2>1, DeletionsStay
<1>4. /\ DOMAIN tasks' = DOMAIN tasks /\ Unraced' = Unraced /\ room' = room
      /\ tasks'[t0].conn = d /\ tasks'[t0].size = tasks[t0].size
      /\ \A t \in DOMAIN tasks \ {t0} : tasks'[t] = tasks[t]
  BY <1>1, <1>2 DEF TaskStep, OthersSame, TaskGrows, connVars, Unraced
<1>5. ASSUME NEW c \in Unraced, NEW t \in DOMAIN tasks, Expected(t, room[c])', SentTo(t, c)'
      PROVE  Promised(c, t)'
  <2>1. t # t0
    BY <1>1, <1>4, <1>5 DEF AfterOwn, SentTo, Expected, Posts
  <2>2. Expected(t, room[c]) /\ Promised(c, t) /\ tasks'[t] = tasks[t]
    BY <1>1, <1>4, <1>5, <2>1, OthersPromised
  <2>3. ASSUME NEW j \in DOMAIN tasks, Underway(j, c)' PROVE tasks[t].id \in Range(tasks'[j].items)
    <3>1. Underway(j, c) /\ tasks'[j].items = tasks[j].items
      <4>1. CASE j = t0
        BY <1>1, <1>4, <2>3, <4>1 DEF AfterOwn, Underway
      <4>2. CASE j # t0
        BY <1>4, <2>3, <4>2 DEF Underway
      <4> QED
        BY <4>1, <4>2
    <3> QED
      BY <2>2, <3>1 DEF Promised
  <2>4. ASSUME NEW j \in DOMAIN tasks, Joined(j, c)' PROVE WillShow(list'[c], mailbox'[c], tasks[t].id)
    <3>1. CASE c = d /\ tasks[t0].pc = "pushHistory"
      <4>1. Underway(t0, c)
        BY <3>1 DEF Underway
      <4>2. tasks[t].id \in Range(tasks[t0].items)
        BY <2>2, <4>1 DEF Promised
      <4>3. frame.type = "history" /\ frame.ids = tasks[t0].items
        BY <1>1, <3>1 DEF AfterOwn
      <4> QED
        BY <1>2, <3>1, <4>2, <4>3, ShownByPush DEF RoomInv
    <3>2. CASE ~(c = d /\ tasks[t0].pc = "pushHistory")
      <4>1. j # t0
        BY <1>1, <1>4, <2>4, <3>2 DEF AfterOwn, Joined
      <4>2. WillShow(list[c], mailbox[c], tasks[t].id)
        BY <1>4, <2>2, <2>4, <4>1 DEF Joined, Posts, Promised
      <4>3. c = d => HistoryHas(frame, tasks[t].id)
        BY <1>1, <3>2 DEF AfterOwn, HistoryHas
      <4> QED
        BY <1>2, <4>2, <4>3, KeptByPush DEF RoomInv
    <3> QED
      BY <3>1, <3>2
  <2> QED
    BY <1>4, <2>2, <2>3, <2>4 DEF Promised
<1>6. Complete'
  BY <1>4, <1>5 DEF Complete
<1> QED
  BY <1>3, <1>6 DEF ShownInv, StoreMoves

(* A broadcast: its recipients are copied, and sent to one by one.          *)
LEMMA SnapshotShown ==
  ASSUME RoomInv, RoomTypes', ShownInv, StoreMoves, NEW t0 \in DOMAIN tasks, SnapshotRecipients(t0)
  PROVE  ShownInv'
<1> DEFINE rest == Recipients(RoomOf(t0))
<1>1. TaskStep(t0)
  BY ReplyKeeps DEF Reply
<1>2. UNCHANGED <<open, mailbox, list, raced>> /\ tasks[t0].pc = "snapshot"
  BY DEF SnapshotRecipients, clientVars, At
<1>3. tasks \in Seq(TaskRec) /\ tasks[t0] \in TaskRec
  BY TaskFacts DEF RoomInv, RoomTypes
<1>4. IF rest = {} THEN tasks'[t0].pc = "done" /\ tasks'[t0].reply = "none"
                   ELSE tasks'[t0].pc = "send" /\ tasks'[t0].todo = rest
  <2>1. CASE rest = {}
    <3>1. End(t0, "none")
      BY <2>1 DEF SnapshotRecipients
    <3> QED
      BY <1>3, <2>1, <3>1, Ended
  <2>2. CASE rest # {}
    <3>1. tasks' = [tasks EXCEPT ![t0].pc = "send", ![t0].todo = rest]
      BY <2>2 DEF SnapshotRecipients
    <3> QED
      BY <1>3, <2>2, <3>1 DEF TaskRec
  <2> QED
    BY <2>1, <2>2
<1>5. /\ DOMAIN tasks' = DOMAIN tasks /\ Unraced' = Unraced /\ room' = room
      /\ tasks'[t0].conn = tasks[t0].conn /\ tasks'[t0].size = tasks[t0].size
      /\ tasks'[t0].id = tasks[t0].id
      /\ \A t \in DOMAIN tasks \ {t0} : tasks'[t] = tasks[t]
  <2>1. tasks[t0].id # 0
    BY <1>2, TaskFacts DEF RoomInv, TaskOK, Stored
  <2> QED
    BY <1>1, <1>2, <2>1 DEF TaskStep, OthersSame, TaskGrows, connVars, Unraced
<1>6. NotFresh' /\ DeletionsOK'
  <2>1. ~Posts(t0)' => Gone(tasks[t0].id)'
    <3>1. SUFFICES ASSUME ~Posts(t0) PROVE Gone(tasks[t0].id)'
      BY <1>5 DEF Posts
    <3>2. PICK i \in Nat : i = tasks[t0].id /\ i = tasks'[t0].id
      BY <1>3, <1>5 DEF TaskRec
    <3>3. Gone(i)
      BY <1>2, <3>1, <3>2 DEF ShownInv, DeletionsOK
    <3> QED
      BY <3>2, <3>3, GoneStays
  <2> QED
    BY <1>1, <1>2, <2>1, DeletionsStay
<1>7. ASSUME NEW c \in Unraced, NEW t \in DOMAIN tasks, Expected(t, room[c])', SentTo(t, c)'
      PROVE  Promised(c, t)'
  <2>1. t # t0
    <3>1. RoomOf(t0) = room[c] => c \in rest
      BY DEF Recipients, Unraced
    <3>2. t = t0 => RoomOf(t0) = room[c]
      BY <1>5, <1>7 DEF Expected, RoomOf
    <3> HIDE DEF rest
    <3>3. ~(c \in rest /\ SentTo(t0, c)')
      BY <1>4 DEF SentTo
    <3> QED
      BY <1>7, <3>1, <3>2, <3>3
  <2>2. Expected(t, room[c]) /\ Promised(c, t) /\ tasks'[t] = tasks[t]
    BY <1>1, <1>7, <2>1, OthersPromised
  <2>3. ASSUME NEW j \in DOMAIN tasks, Underway(j, c)' PROVE tasks[t].id \in Range(tasks'[j].items)
    <3>1. j # t0
      BY <1>4, <2>3 DEF Underway
    <3>2. Underway(j, c) /\ tasks'[j] = tasks[j]
      BY <1>5, <2>3, <3>1 DEF Underway
    <3> QED
      BY <2>2, <3>2 DEF Promised
  <2>4. ASSUME NEW j \in DOMAIN tasks, Joined(j, c)' PROVE WillShow(list[c], mailbox[c], tasks[t].id)
    <3>1. j # t0
      BY <1>4, <2>4 DEF Joined
    <3>2. Joined(j, c)
      BY <1>5, <2>4, <3>1 DEF Joined, Posts
    <3> QED
      BY <2>2, <3>2 DEF Promised
  <2> QED
    BY <1>2, <1>5, <2>2, <2>3, <2>4 DEF Promised
<1>8. Complete'
  BY <1>5, <1>7 DEF Complete
<1> QED
  BY <1>6, <1>8 DEF ShownInv, StoreMoves

LEMMA SendMoves ==
  ASSUME RoomInv, NEW t0 \in DOMAIN tasks, NEW d \in Conns, SendOne(t0, d)
  PROVE  /\ TaskStep(t0) /\ UNCHANGED <<open, list>>
         /\ tasks[t0].pc = "send" /\ tasks[t0].id \in Ids
         /\ raced \subseteq raced' /\ (HistoryUnderway(d) => d \in raced')
         /\ tasks'[t0].id = tasks[t0].id
         /\ \/ tasks'[t0].pc = "done" /\ tasks[t0].todo = {d}
            \/ tasks'[t0].pc = "send" /\ tasks'[t0].todo = tasks[t0].todo \ {d}
         /\ \E frame \in FrameRec :
                /\ Push(d, frame) /\ Range(frame.ids) = {tasks[t0].id}
                /\ frame.ids[1] = tasks[t0].id
                /\ frame.type = IF Posts(t0) THEN "message" ELSE "deleted"
<1>1. TaskStep(t0)
  BY ReplyKeeps DEF Reply
<1>2. UNCHANGED <<open, list>> /\ tasks[t0].pc = "send" /\ Push(d, Payload(t0))
  BY DEF SendOne, At
<1>3. /\ tasks \in Seq(TaskRec) /\ tasks[t0] \in TaskRec /\ tasks[t0].id \in Ids /\ t0 \in Nat
      /\ tasks[t0].reply \in {"none", "ok"}
  <2>1. PICK task \in TaskRec : task = tasks[t0] /\ TaskOK(task)
    BY TaskFacts DEF RoomInv
  <2>2. task.id \in Ids /\ task.reply \in {"none", "ok"}
    BY <1>2, <2>1 DEF TaskOK, Stored, TaskRec, Ids
  <2>3. tasks \in Seq(TaskRec) /\ t0 \in Nat
    BY LenProperties DEF RoomInv, RoomTypes
  <2> QED
    BY <2>1, <2>2, <2>3
<1>4. raced \subseteq raced' /\ (HistoryUnderway(d) => d \in raced')
  BY DEF SendOne
<1>5. \/ tasks'[t0].pc = "done" /\ tasks[t0].todo = {d}
      \/ tasks'[t0].pc = "send" /\ tasks'[t0].todo = tasks[t0].todo \ {d}
  <2>1. PICK reply \in {"none", "ok"} :
            IF tasks[t0].todo = {d}
              THEN End(t0, reply)
              ELSE tasks' = [tasks EXCEPT ![t0].todo = @ \ {d}, ![t0].reply = reply]
    BY <1>3 DEF SendOne
  <2>2. CASE tasks[t0].todo = {d}
    BY <1>3, <2>1, <2>2, Ended
  <2>3. CASE tasks[t0].todo # {d}
    <3>1. tasks' = [tasks EXCEPT ![t0].todo = @ \ {d}, ![t0].reply = reply]
      BY <2>1, <2>3
    <3> QED
      BY <1>2, <1>3, <3>1 DEF TaskRec
  <2> QED
    BY <2>2, <2>3
<1>6. tasks'[t0].id = tasks[t0].id
  BY <1>1, <1>3 DEF TaskStep, TaskGrows, Ids
<1>7. \E frame \in FrameRec :
          /\ Push(d, frame) /\ Range(frame.ids) = {tasks[t0].id}
          /\ frame.ids[1] = tasks[t0].id
          /\ frame.type = IF Posts(t0) THEN "message" ELSE "deleted"
  <2> DEFINE one == <<tasks[t0].id>>
  <2>1. one \in Seq(Ids) /\ Range(one) = {tasks[t0].id} /\ one[1] = tasks[t0].id
    BY <1>3 DEF Range
  <2>2. Payload(t0) = IF Posts(t0) THEN Frame("message", one, t0) ELSE Frame("deleted", one, 0)
    BY DEF Payload
  <2> HIDE DEF one
  <2>3. /\ Payload(t0) \in FrameRec /\ Payload(t0).ids = one
        /\ Payload(t0).type = IF Posts(t0) THEN "message" ELSE "deleted"
    BY <1>3, <2>1, <2>2 DEF Frame, FrameRec
  <2> QED
    BY <1>2, <2>1, <2>3
<1> QED
  BY <1>1, <1>2, <1>3, <1>4, <1>5, <1>6, <1>7

LEMMA SendShown ==
  ASSUME RoomInv, RoomTypes', ShownInv, StoreMoves, NEW t0 \in DOMAIN tasks,
         NEW d \in Conns, SendOne(t0, d)
  PROVE  ShownInv'
<1>1. /\ TaskStep(t0) /\ UNCHANGED <<open, list>>
      /\ tasks[t0].pc = "send" /\ tasks[t0].id \in Ids
      /\ raced \subseteq raced' /\ (HistoryUnderway(d) => d \in raced')
      /\ tasks'[t0].id = tasks[t0].id
      /\ \/ tasks'[t0].pc = "done" /\ tasks[t0].todo = {d}
         \/ tasks'[t0].pc = "send" /\ tasks'[t0].todo = tasks[t0].todo \ {d}
  BY SendMoves
<1>2. PICK frame \in FrameRec :
          /\ Push(d, frame) /\ Range(frame.ids) = {tasks[t0].id}
          /\ frame.ids[1] = tasks[t0].id
          /\ frame.type = IF Posts(t0) THEN "message" ELSE "deleted"
  BY SendMoves
<1>3. /\ DOMAIN tasks' = DOMAIN tasks /\ Unraced' \subseteq Unraced /\ room' = room
      /\ tasks'[t0].conn = tasks[t0].conn /\ tasks'[t0].size = tasks[t0].size
      /\ \A t \in DOMAIN tasks \ {t0} : tasks'[t] = tasks[t]
  BY <1>1 DEF TaskStep, OthersSame, TaskGrows, connVars, Unraced
<1>4. NotFresh' /\ DeletionsOK'
  <2>1. ~Posts(t0) => Gone(tasks[t0].id)'
    <3>1. SUFFICES ASSUME ~Posts(t0) PROVE Gone(tasks[t0].id)'
      OBVIOUS
    <3>2. PICK i \in Nat : i = tasks[t0].id /\ i = tasks'[t0].id
      BY <1>1 DEF Ids
    <3>3. Gone(i)
      BY <1>1, <3>1, <3>2 DEF ShownInv, DeletionsOK
    <3> QED
      BY <3>2, <3>3, GoneStays
  <2>2. ASSUME NEW c \in Conns, NEW f \in Range(mailbox'[c]) \ Range(mailbox[c]), f.type = "deleted"
        PROVE  Gone(f.ids[1])'
    <3>1. Range(Append(mailbox[d], frame)) = Range(mailbox[d]) \cup {frame}
      BY RangeOfAppend DEF RoomInv, RoomTypes
    <3>2. f = frame
      BY <1>2, <2>2, <3>1 DEF Push, RoomInv, RoomTypes
    <3>3. PICK i \in Nat : i = tasks[t0].id /\ i = tasks'[t0].id /\ i = f.ids[1]
      BY <1>1, <1>2, <3>2 DEF Ids
    <3>4. ~Posts(t0)
      BY <1>2, <2>2, <3>2
    <3> QED
      BY <2>1, <3>3, <3>4
  <2>3. Posts(t0)' = Posts(t0)
    BY <1>3 DEF Posts
  <2> QED
    BY <1>1, <2>1, <2>2, <2>3, DeletionsStay
<1>5. ASSUME NEW c \in Unraced', NEW t \in DOMAIN tasks, Expected(t, room[c])', SentTo(t, c)'
      PROVE  Promised(c, t)'
  <2>1. c \in Unraced /\ (c = d => ~HistoryUnderway(d))
    BY <1>1, <1>3 DEF Unraced
  <2>2. t # t0 => Expected(t, room[c]) /\ Promised(c, t)
    BY <1>1, <1>5, <2>1, OthersPromised
  <2>3. t = t0 /\ c # d => Expected(t, room[c]) /\ Promised(c, t)
    <3>1. SUFFICES ASSUME t = t0, c # d PROVE Expected(t, room[c]) /\ Promised(c, t)
      OBVIOUS
    <3>2. SentTo(t, c)
      BY <1>1, <1>5, <3>1 DEF SentTo
    <3>3. tasks'[t].id = tasks[t].id /\ tasks[t].reply # "error"
      BY <1>1, <3>1, TaskFacts DEF RoomInv, TaskOK
    <3>4. Grows
      BY <1>1, StepGrows DEF RoomInv
    <3> QED
      BY <1>5, <2>1, <3>2, <3>3, <3>4, OldPromise
  <2>4. tasks'[t].id = tasks[t].id
    BY <1>1, <1>3
  <2>5. ASSUME NEW j \in DOMAIN tasks, Underway(j, c)' PROVE tasks[t].id \in Range(tasks'[j].items)
    <3>1. j # t0
      BY <1>1, <2>5 DEF Underway
    <3>2. Underway(j, c) /\ tasks'[j] = tasks[j]
      BY <1>3, <2>5, <3>1 DEF Underway
    <3>3. c # d
      BY <2>1, <3>2 DEF Underway, HistoryUnderway
    <3> QED
      BY <2>2, <2>3, <3>2, <3>3 DEF Promised
  <2>6. ASSUME NEW j \in DOMAIN tasks, Joined(j, c)' PROVE WillShow(list'[c], mailbox'[c], tasks[t].id)
    <3>1. j # t0
      BY <1>1, <2>6 DEF Joined, Ids
    <3>2. Joined(j, c)
      BY <1>3, <2>6, <3>1 DEF Joined, Posts
    <3>3. CASE t = t0 /\ c = d
      <4>1. Posts(t0)
        BY <1>3, <1>5, <3>3 DEF Expected, Posts
      <4>2. frame.type = "message" /\ tasks[t].id \in Range(frame.ids)
        BY <1>2, <3>3, <4>1
      <4> QED
        BY <1>2, <2>1, <3>3, <4>2, ShownByPush DEF RoomInv
    <3>4. CASE ~(t = t0 /\ c = d)
      <4>1. WillShow(list[c], mailbox[c], tasks[t].id)
        BY <2>2, <2>3, <3>2, <3>4 DEF Promised
      <4>2. HistoryHas(frame, tasks[t].id)
        BY <1>2 DEF HistoryHas
      <4> QED
        BY <1>1, <1>2, <2>1, <4>1, <4>2, KeptByPush DEF RoomInv
    <3> QED
      BY <3>3, <3>4
  <2> QED
    BY <1>3, <2>4, <2>5, <2>6 DEF Promised
<1>6. Complete'
  BY <1>3, <1>5 DEF Complete
<1> QED
  BY <1>4, <1>6 DEF ShownInv, StoreMoves

-----------------------------------------------------------------------------
(* A request adds a task that has nothing to tell yet.                      *)
LEMMA RequestShown ==
  ASSUME RoomInv, RoomTypes', ShownInv, StoreMoves, NEW c0 \in Conns, Request(c0)
  PROVE  ShownInv'
<1>1. PICK new : /\ Spawn(new) /\ new.conn = c0 /\ new.pc \in {"create", "lookup", "delete"}
  <2>1. \E size, i : \E pc \in {"create", "lookup", "delete"} : Spawn(Task(c0, pc, i, size))
    BY DEF Request, JoinAccepted, MessageAccepted, DeleteRequested
  <2>2. \A size, i, pc : Task(c0, pc, i, size).conn = c0 /\ Task(c0, pc, i, size).pc = pc
    BY DEF Task
  <2> QED
    BY <2>1, <2>2
<1>2. UNCHANGED <<roomRow, nextRoom, msgs, nextMsg, room, wallet, admitted, fresh, open,
                  mailbox, list, raced>> /\ c0 \in open
  BY DEF Request, JoinAccepted, MessageAccepted, DeleteRequested, storeVars, connVars, clientVars
<1>3. PICK n \in Nat : /\ DOMAIN tasks = 1 .. n /\ DOMAIN tasks' = 1 .. n + 1
                       /\ \A t \in DOMAIN tasks : tasks'[t] = tasks[t]
                       /\ tasks'[n + 1] = new
  <2>1. tasks \in Seq(TaskRec) /\ tasks' = Append(tasks, new)
    BY <1>1 DEF RoomInv, RoomTypes, Spawn
  <2>2. tasks \in Seq(TaskRec \cup {new}) /\ new \in TaskRec \cup {new}
    BY <2>1, SeqMonotonic
  <2> QED
    BY <2>1, <2>2, Appended
<1>4. ASSUME NEW t \in DOMAIN tasks'
      PROVE  \/ t \in DOMAIN tasks /\ tasks'[t] = tasks[t]
             \/ tasks'[t].conn = c0 /\ tasks'[t].pc \in {"create", "lookup", "delete"}
  BY <1>1, <1>3
<1>5. NotFresh'
  <2>1. c0 \notin fresh
    BY <1>2 DEF RoomInv, RoomTypes
  <2> QED
    BY <1>2, <1>4, <2>1 DEF ShownInv, NotFresh
<1>6. DeletionsOK'
  <2>1. \A i : Gone(i) => Gone(i)'
    BY <1>2 DEF Gone
  <2>2. ASSUME NEW t \in DOMAIN tasks', ~Posts(t)', tasks'[t].pc \in {"snapshot", "send"}
        PROVE  Gone(tasks[t].id)'
    <3>1. t \in DOMAIN tasks /\ tasks'[t] = tasks[t]
      BY <1>4, <2>2
    <3> QED
      BY <1>2, <2>2, <3>1 DEF ShownInv, DeletionsOK, Posts, Gone
  <2>3. \A c \in Conns : \A f \in Range(mailbox'[c]) : f.type = "deleted" => Gone(f.ids[1])'
    BY <1>2, <2>1 DEF ShownInv, DeletionsOK
  <2> QED
    BY <2>2, <2>3 DEF DeletionsOK
<1>7. Grows
  <2>1. named \subseteq named'
    BY DEF Request, JoinAccepted, MessageAccepted, DeleteRequested
  <2>2. ASSUME NEW t \in DOMAIN tasks PROVE TaskGrows(t)
    BY <1>3 DEF TaskGrows, Broadcasting
  <2> QED
    BY <1>2, <1>3, <2>1, <2>2 DEF Grows
<1>8. ASSUME NEW c \in Unraced, NEW t \in DOMAIN tasks', Expected(t, room[c])', SentTo(t, c)'
      PROVE  Promised(c, t)'
  <2>1. t \in DOMAIN tasks /\ tasks'[t] = tasks[t] /\ SentTo(t, c) /\ tasks[t].reply # "error"
    BY <1>4, <1>8 DEF SentTo, Expected
  <2>2. Promised(c, t)
    BY <1>7, <1>8, <2>1, OldPromise
  <2>3. ASSUME NEW j \in DOMAIN tasks', Underway(j, c)' PROVE tasks[t].id \in Range(tasks'[j].items)
    <3>1. j \in DOMAIN tasks /\ tasks'[j] = tasks[j] /\ Underway(j, c)
      BY <1>4, <2>3 DEF Underway
    <3> QED
      BY <2>2, <3>1 DEF Promised
  <2>4. ASSUME NEW j \in DOMAIN tasks', Joined(j, c)' PROVE WillShow(list[c], mailbox[c], tasks[t].id)
    <3>1. j \in DOMAIN tasks /\ Joined(j, c)
      BY <1>4, <2>4 DEF Joined, Posts
    <3> QED
      BY <2>2, <3>1 DEF Promised
  <2> QED
    BY <1>2, <2>1, <2>3, <2>4 DEF Promised
<1>9. Complete'
  BY <1>2, <1>8 DEF Complete, Unraced
<1> QED
  BY <1>5, <1>6, <1>9 DEF ShownInv, StoreMoves

(* Steps that leave the tables and the tasks alone: a connection that opens *)
(* has no task, and what a client shows it was promised.                    *)
LEMMA QuietShown ==
  ASSUME RoomInv, ShownInv, UNCHANGED <<storeVars, room, admitted, tasks, raced>>,
         fresh' \subseteq fresh,
         \A c \in Conns : Range(mailbox'[c]) \subseteq Range(mailbox[c]),
         \A c \in open' : c \in fresh \/ c \in open,
         \A c \in Unraced : \A i : c \in open' /\ WillShow(list[c], mailbox[c], i) /\ (\E m \in msgs : m.id = i)
             => WillShow(list'[c], mailbox'[c], i)
  PROVE  ShownInv'
<1>1. UNCHANGED <<roomRow, nextRoom, msgs, nextMsg, room, admitted, tasks, raced>>
  BY DEF storeVars
<1>2. UniqueIds' /\ NotFresh'
  BY <1>1 DEF ShownInv, UniqueIds, NotFresh
<1>3. DeletionsOK'
  BY <1>1 DEF ShownInv, DeletionsOK, Gone, Posts
<1>4. ASSUME NEW c \in Unraced', NEW t \in DOMAIN tasks, Expected(t, room[c])', SentTo(t, c)'
      PROVE  Promised(c, t)'
  <2>1. c \in Conns /\ c \in open' /\ c \in admitted \ raced
    BY <1>1 DEF Unraced, RoomInv, RoomTypes
  <2>2. CASE c \in fresh
    BY <1>1, <2>2 DEF Promised, Underway, Joined, ShownInv, NotFresh
  <2>3. CASE c \in open
    <3>1. c \in Unraced /\ SentTo(t, c)
      BY <1>1, <1>4, <2>1, <2>3 DEF Unraced, SentTo
    <3>2. Expected(t, room[c])
      BY <1>1, <1>4 DEF Expected, Posts, RoomOf, MessagesOf, HasRow, PostedAfter
    <3>3. Promised(c, t)
      BY <3>1, <3>2 DEF ShownInv, Complete
    <3>4. \E m \in msgs : m.id = tasks[t].id
      BY <3>2 DEF Expected, MessagesOf
    <3>5. (\E j \in DOMAIN tasks : Joined(j, c)) => WillShow(list'[c], mailbox'[c], tasks[t].id)
      BY <2>1, <3>1, <3>3, <3>4 DEF Promised
    <3> QED
      BY <1>1, <3>3, <3>5 DEF Promised, Underway, Joined, Posts
  <2> QED
    BY <2>1, <2>2, <2>3
<1>5. Complete'
  BY <1>1, <1>4 DEF Complete
<1> QED
  BY <1>2, <1>3, <1>5 DEF ShownInv

LEMMA ShowShown ==
  ASSUME RoomInv, ShownInv, Decoding = 1, NEW d \in Conns, Show(d)
  PROVE  ShownInv'
<1>1. PICK s \in Seq(FrameRec), l \in Seq(Ids) : s = mailbox[d] /\ l = list[d]
  BY DEF RoomInv, RoomTypes
<1>2. /\ 1 \in DOMAIN s /\ 1 \in 1 .. Len(s)
      /\ list' = [list EXCEPT ![d] = Shown(l, s[1])]
      /\ mailbox' = [mailbox EXCEPT ![d] = RemoveAt(s, 1)]
  <2>1. PICK i \in DOMAIN s : /\ i <= Decoding
                              /\ list' = [list EXCEPT ![d] = Shown(l, s[i])]
                              /\ mailbox' = [mailbox EXCEPT ![d] = RemoveAt(s, i)]
    BY <1>1 DEF Show
  <2>2. i = 1 /\ i \in 1 .. Len(s)
    BY <2>1, LenProperties
  <2> QED
    BY <2>1, <2>2
<1>3. /\ list'[d] = Shown(l, s[1]) /\ mailbox'[d] = RemoveAt(s, 1)
      /\ \A c \in Conns \ {d} : list'[c] = list[c] /\ mailbox'[c] = mailbox[c]
  BY <1>2 DEF RoomInv, RoomTypes
<1>4. \A c \in Conns : Range(mailbox'[c]) \subseteq Range(mailbox[c])
  <2>1. Range(RemoveAt(s, 1)) \subseteq Range(s)
    BY <1>2, Removed
  <2> QED
    BY <1>1, <1>3, <2>1
<1>5. UNCHANGED <<storeVars, room, admitted, tasks, raced>> /\ fresh' = fresh /\ open' = open
  BY DEF Show, connVars
<1>6. ASSUME NEW c \in Unraced, NEW i, WillShow(list[c], mailbox[c], i), \E m \in msgs : m.id = i
      PROVE  WillShow(list'[c], mailbox'[c], i)
  <2>1. CASE c = d
    <3>1. s[1] \in Range(s)
      BY <1>2 DEF Range
    <3>2. s[1].type = "deleted" => s[1].ids[1] # i
      BY <1>1, <1>6, <3>1 DEF ShownInv, DeletionsOK, Gone
    <3>3. WillShow(l, s, i)
      BY <1>1, <1>6, <2>1
    <3>4. WillShow(Shown(l, s[1]), RemoveAt(s, 1), i)
      BY <1>2, <3>2, <3>3, ShowKeeps
    <3> QED
      BY <1>3, <2>1, <3>4
  <2>2. CASE c # d
    <3>1. c \in Conns
      BY DEF Unraced, RoomInv, RoomTypes
    <3> QED
      BY <1>3, <1>6, <2>2, <3>1
  <2> QED
    BY <2>1, <2>2
<1> QED
  BY <1>4, <1>5, <1>6, QuietShown

LEMMA ClientShown ==
  ASSUME RoomInv, ShownInv, NEW d \in Conns, Open(d) \/ Close(d)
  PROVE  ShownInv'
<1>1. UNCHANGED <<storeVars, room, admitted, tasks, raced>> /\ list' = list
      /\ \A c \in open' : c \in fresh \/ c \in open
  BY DEF Open, Close, clientVars, connVars
<1>2. fresh' \subseteq fresh
  BY DEF Open, Close, connVars
<1>3. CASE Open(d)
  <2>1. mailbox' = mailbox
    BY <1>3 DEF Open, clientVars
  <2> QED
    BY <1>1, <1>2, <2>1, QuietShown
<1>4. CASE Close(d)
  <2>1. mailbox' = [mailbox EXCEPT ![d] = <<>>] /\ open' = open \ {d} /\ Range(<<>>) = {}
    BY <1>4 DEF Close, Range
  <2>2. \A c \in Conns : Range(mailbox'[c]) \subseteq Range(mailbox[c])
    BY <2>1 DEF RoomInv, RoomTypes
  <2>3. \A c \in Unraced : c \in open' => mailbox'[c] = mailbox[c]
    BY <2>1 DEF Unraced, RoomInv, RoomTypes
  <2> QED
    BY <1>1, <1>2, <2>2, <2>3, QuietShown
<1> QED
  BY <1>3, <1>4

LEMMA StillShown ==
  ASSUME RoomInv, ShownInv, (\E w \in Wallets : AccessExpires(w)) \/ UNCHANGED vars
  PROVE  ShownInv'
<1>1. UNCHANGED <<storeVars, room, admitted, tasks, raced>> /\ UNCHANGED <<fresh, open, mailbox, list>>
  BY DEF AccessExpires, vars, clientVars, connVars
<1> QED
  BY <1>1, QuietShown
-----------------------------------------------------------------------------
LEMMA ShownInit == Init => ShownInv
<1> SUFFICES ASSUME Init PROVE ShownInv
  OBVIOUS
<1>1. tasks = <<>> /\ DOMAIN tasks = {} /\ msgs = {} /\ \A c \in Conns : Range(mailbox[c]) = {}
  BY DEF Init, StoreInit, Range
<1> QED
  BY <1>1 DEF ShownInv, UniqueIds, NotFresh, DeletionsOK, Complete

LEMMA ShownStep ==
  ASSUME RoomInv, RoomInv', ShownInv, Decoding = 1, [Next]_vars
  PROVE  ShownInv'
<1>1. StoreMoves /\ RoomTypes'
  BY StoreMoving DEF ShownInv, RoomInv
<1>2. ASSUME NEW t \in DOMAIN tasks, Reply(t) PROVE ShownInv'
  BY <1>1, <1>2, OwnReplyShown, SnapshotShown, SendShown DEF Reply
<1>3. ASSUME NEW t \in DOMAIN tasks, Database(t) PROVE ShownInv'
  BY <1>1, <1>3, DatabaseShown
<1>4. ASSUME NEW c \in Conns, Open(c) \/ Request(c) \/ Show(c) \/ Close(c) PROVE ShownInv'
  BY <1>1, <1>4, RequestShown, ShowShown, ClientShown
<1> QED
  BY <1>2, <1>3, <1>4, StillShown DEF Next

(* What the invariant says of a client that has settled.                    *)
LEMMA SettledShows == RoomInv /\ ShownInv => SettledListComplete
<1> SUFFICES ASSUME RoomInv, ShownInv, NEW c \in Conns \ raced, Settled(c),
                    NEW t \in DOMAIN tasks, Expected(t, room[c])
             PROVE  tasks[t].id \in Range(list[c])
  BY DEF SettledListComplete
<1>1. c \in Unraced /\ SentTo(t, c)
  BY DEF Settled, Unraced, SentTo
<1>2. WillShow(list[c], mailbox[c], tasks[t].id)
  BY <1>1 DEF ShownInv, Complete, Promised, Settled
<1>3. DOMAIN mailbox[c] = {}
  BY DEF Settled
<1> QED
  BY <1>2, <1>3 DEF WillShow

(* A client that decodes one frame at a time and whose history was not      *)
(* overtaken has, once all is quiet, every message it is to have.           *)
THEOREM ListsComplete == ASSUME Decoding = 1
                         PROVE  Spec => []SettledListComplete
<1>1. Init => RoomInv /\ ShownInv
  BY RoomInit, ShownInit
<1>2. (RoomInv /\ ShownInv) /\ [Next]_vars => (RoomInv /\ ShownInv)'
  BY RoomStep, ShownStep
<1>3. RoomInv /\ ShownInv => SettledListComplete
  BY SettledShows
<1> QED
  BY <1>1, <1>2, <1>3, PTL DEF Spec
=============================================================================
