------------------------------ MODULE ChatStore ------------------------------
(***************************************************************************)
(* The two chat tables of the SQLite database (chat/db.rs), one action per *)
(* SQL statement.  Every statement commits by itself: the connections of   *)
(* the pool interleave between any two of them, so what a handler looked   *)
(* up may be gone when it uses it.                                         *)
(*                                                                         *)
(* Slugs count as one unit each against the storage limit of the rooms     *)
(* table; a message body counts with its length.                           *)
(***************************************************************************)
EXTENDS Integers, FiniteSetsExt

CONSTANTS Rooms,        (* room slugs                                         *)
          Wallets,      (* sender ids                                         *)
          Sizes,        (* lengths of message bodies                          *)
          MaxBytes,     (* MAX_MESSAGES_STORAGE_BYTES                         *)
          MaxRooms      (* MAX_ROOMS_STORAGE_BYTES, in slugs                  *)

ASSUME StoreAssumption == /\ Sizes \subseteq Nat \ {0}
                          /\ MaxBytes \in Nat
                          /\ MaxRooms \in Nat

VARIABLES roomRow,   (* the row id of a slug, 0 when it has no row            *)
          nextRoom,  (* the next AUTOINCREMENT id of the rooms table          *)
          msgs,      (* the rows of the messages table                        *)
          nextMsg    (* the next AUTOINCREMENT id of the messages table       *)

storeVars == <<roomRow, nextRoom, msgs, nextMsg>>

Message == [id : Nat \ {0}, room : Nat \ {0}, author : Wallets, size : Sizes]

StoreTypeOK == /\ roomRow \in [Rooms -> Nat]
               /\ nextRoom \in Nat \ {0}
               /\ msgs \subseteq Message
               /\ nextMsg \in Nat \ {0}

StoreInit == /\ roomRow = [r \in Rooms |-> 0]
             /\ nextRoom = 1
             /\ msgs = {}
             /\ nextMsg = 1
-----------------------------------------------------------------------------
HasRow(r) == roomRow[r] # 0
Rows == {r \in Rooms : HasRow(r)}
MessagesOf(r) == {m \in msgs : HasRow(r) /\ m.room = roomRow[r]}

(* SELECT SUM(LENGTH(body)), SELECT SUM(LENGTH(slug)).                      *)
TotalBytes == MapThenSumSet(LAMBDA m : m.size, msgs)

(* Mutant: COUNT instead of SUM(LENGTH).                                    *)
TooManyMessages == Cardinality(msgs) > MaxBytes

MessagesOverLimit == TotalBytes > MaxBytes
RoomsOverLimit == Cardinality(Rows) > MaxRooms

(* Mutant: ids are counted, not remembered.                                 *)
InsertRoomCounted(r) == /\ roomRow' = IF HasRow(r) THEN roomRow
                              ELSE [roomRow EXCEPT ![r] = Cardinality(Rows) + 1]
                        /\ nextRoom' = IF HasRow(r) THEN nextRoom ELSE nextRoom + 1
                        /\ UNCHANGED <<msgs, nextMsg>>

(* INSERT OR IGNORE INTO rooms.                                             *)
InsertRoom(r) == /\ roomRow' = IF HasRow(r) THEN roomRow
                                            ELSE [roomRow EXCEPT ![r] = nextRoom]
                 /\ nextRoom' = IF HasRow(r) THEN nextRoom ELSE nextRoom + 1
                 /\ UNCHANGED <<msgs, nextMsg>>

(* The room the DELETE of enforce_rooms_storage_limit picks: fewest         *)
(* messages, then the oldest row.                                           *)
Poorest(r) == /\ HasRow(r)
              /\ \A o \in Rows :
                     LET mine == Cardinality(MessagesOf(r))
                         its  == Cardinality(MessagesOf(o))
                     IN  mine < its \/ (mine = its /\ roomRow[r] <= roomRow[o])

(* Mutant: PRAGMA foreign_keys is off.                                      *)
DeleteRoomOnly == /\ \E r \in Rooms : Poorest(r) /\ roomRow' = [roomRow EXCEPT ![r] = 0]
                  /\ UNCHANGED <<nextRoom, msgs, nextMsg>>

(* The row goes, and by ON DELETE CASCADE its messages.                     *)
DeletePoorestRoom == /\ \E r \in Rooms :
                            /\ Poorest(r)
                            /\ roomRow' = [roomRow EXCEPT ![r] = 0]
                            /\ msgs' = msgs \ MessagesOf(r)
                     /\ UNCHANGED <<nextRoom, nextMsg>>

(* A row id looked up before: the foreign key has to hold now.              *)
ForeignKeyAccepts(row) == \E r \in Rooms : HasRow(r) /\ roomRow[r] = row

(* Mutants: the id is read before the row is there; no AUTOINCREMENT.       *)
InsertWithId(id, row, w, size) ==
    /\ ForeignKeyAccepts(row)
    /\ msgs' = msgs \cup {[id |-> id, room |-> row, author |-> w, size |-> size]}
    /\ nextMsg' = nextMsg + 1
    /\ UNCHANGED <<roomRow, nextRoom>>
InsertWithLastId(row, w, size) == InsertWithId(nextMsg - 1, row, w, size)
InsertWithMaxId(row, w, size) == InsertWithId(Max({0} \cup {m.id : m \in msgs}) + 1, row, w, size)

(* INSERT INTO messages; AUTOINCREMENT takes an id no row ever had.         *)
InsertMessage(row, w, size) ==
    /\ ForeignKeyAccepts(row)
    /\ msgs' = msgs \cup {[id |-> nextMsg, room |-> row, author |-> w, size |-> size]}
    /\ nextMsg' = nextMsg + 1
    /\ UNCHANGED <<roomRow, nextRoom>>

(* DELETE of the row with the lowest id.                                    *)
Oldest == {m \in msgs : \A o \in msgs : m.id <= o.id}
DeleteOldest == /\ msgs' = msgs \ Oldest
                /\ UNCHANGED <<roomRow, nextRoom, nextMsg>>

(* Mutant: the room is not compared.                                        *)
DeletableAnywhere(id, r, w) == {m \in msgs : m.id = id /\ m.author = w}

(* DELETE ... WHERE id AND room_id = (row of the slug) AND sender_id.       *)
Deletable(id, r, w) == {m \in MessagesOf(r) : m.id = id /\ m.author = w}
DeleteMessage(id, r, w) == /\ msgs' = msgs \ Deletable(id, r, w)
                           /\ UNCHANGED <<roomRow, nextRoom, nextMsg>>

(* Any statement of any handler; row ids come from an earlier lookup.       *)
StoreNext == \/ \E r \in Rooms : InsertRoom(r)
             \/ DeletePoorestRoom
             \/ \E row \in 1 .. nextRoom - 1, w \in Wallets, size \in Sizes :
                    InsertMessage(row, w, size)
             \/ DeleteOldest
             \/ \E id \in 1 .. nextMsg - 1, r \in Rooms, w \in Wallets :
                    DeleteMessage(id, r, w)

StoreSpec == StoreInit /\ [][StoreNext]_storeVars
-----------------------------------------------------------------------------
(* No message is ever left without its room: the cascade and the foreign    *)
(* key hold between the statements of different handlers.                   *)
NoOrphan == \A m \in msgs : \E r \in Rooms : HasRow(r) /\ roomRow[r] = m.room

(* A row belongs to one slug only, so a message is in one room only.        *)
RowsDistinct == \A r, o \in Rows : roomRow[r] = roomRow[o] => r = o

(* An id names one message for ever: a row that appears has an id no row    *)
(* had before, even after deletions (the client finds messages by id).      *)
IdsNeverReused == [][\A m \in msgs' \ msgs : /\ m.id >= nextMsg
                                             /\ m.id < nextMsg']_storeVars

(* A room that is deleted and opened again does not inherit the messages    *)
(* of its earlier life.                                                     *)
FreshRoomIsEmpty == [][\A r \in Rooms : ~HasRow(r) /\ roomRow'[r] # 0
                                            => \A m \in msgs' : m.room # roomRow'[r]]_storeVars
=============================================================================
