---------------------------- MODULE MessageStore ----------------------------
(***************************************************************************)
(* The messages table as a value.                                          *)
(*                                                                         *)
(* A table is a function from global_position (its INTEGER PRIMARY KEY) to *)
(* rows, next to the AUTOINCREMENT counter that SQLite keeps for it in     *)
(* sqlite_sequence.  A row keeps the columns that the write path compares: *)
(* id, stream_name and position.  type, data, metadata and time are left   *)
(* out; what the CHECK constraints and json() do with them is the choice   *)
(* between an accepted and a refused row (see WriteMessage).               *)
(*                                                                         *)
(* Everything here is a constant-level operator, so that a snapshot, the   *)
(* working copy of a transaction and the committed database are all values *)
(* of the same kind.                                                       *)
(***************************************************************************)
EXTENDS Integers

CONSTANTS Streams,      \* values of the stream_name column
          Ids           \* canonical UUIDv4 texts

Row == [id : Ids, stream_name : Streams, position : Nat]

EmptyStore == [messages |-> <<>>, sequence |-> 0]

GlobalPositions(store) == DOMAIN store.messages

Rows(store) == {store.messages[g] : g \in GlobalPositions(store)}

(***************************************************************************)
(* The two unique indexes, messages_id and messages_stream, as the lookups *)
(* by which SQLite refuses a duplicate.                                    *)
(***************************************************************************)
HasId(store, id) == \E g \in GlobalPositions(store) : store.messages[g].id = id

HasPosition(store, stream, position) ==
    \E g \in GlobalPositions(store) :
        /\ store.messages[g].stream_name = stream
        /\ store.messages[g].position = position

Duplicates(store, row) ==
    HasId(store, row.id) \/ HasPosition(store, row.stream_name, row.position)

(***************************************************************************)
(* AUTOINCREMENT gives a new row the key that follows the largest key the  *)
(* table ever had, and records it.                                         *)
(***************************************************************************)
Insert(store, row) ==
    LET key == store.sequence + 1
    IN  [messages |-> [g \in GlobalPositions(store) \cup {key} |->
                          IF g = key THEN row ELSE store.messages[g]],
         sequence |-> key]

(***************************************************************************)
(* SELECT max(position) FROM messages WHERE stream_name = ?1, with the -1  *)
(* that write_message puts in place of the NULL of a stream that has no    *)
(* message.                                                                *)
(***************************************************************************)
IsStreamVersion(store, stream, version) ==
    /\ \A g \in GlobalPositions(store) :
           store.messages[g].stream_name = stream
               => store.messages[g].position <= version
    /\ version = -1 \/ HasPosition(store, stream, version)

StoredVersions(store) == {-1} \cup {row.position : row \in Rows(store)}

(* Defect: the version of the whole table. *)
TableVersion(store, stream) ==
    CHOOSE version \in StoredVersions(store) :
        \A other \in StoredVersions(store) : other <= version

(* Defect: the first position in place of the last. *)
FirstVersion(store, stream) == IF HasPosition(store, stream, 0) THEN 0 ELSE -1

StreamVersion(store, stream) ==
    CHOOSE version \in StoredVersions(store) :
        IsStreamVersion(store, stream, version)

-----------------------------------------------------------------------------
(***************************************************************************)
(* What the write path promises of every table it produces.                *)
(***************************************************************************)
IsStore(store) ==
    /\ store = [messages |-> store.messages, sequence |-> store.sequence]
    /\ store.sequence \in Nat
    /\ store.messages \in [1 .. store.sequence -> Row]

(* A message id is stored once. *)
IdsUnique(store) ==
    \A g, h \in GlobalPositions(store) :
        store.messages[g].id = store.messages[h].id => g = h

(* Within a stream, positions grow with the global position. *)
StreamsOrdered(store) ==
    \A g, h \in GlobalPositions(store) :
        /\ g < h
        /\ store.messages[g].stream_name = store.messages[h].stream_name
        => store.messages[g].position < store.messages[h].position

(* A stream starts at position 0 and skips no position. *)
StreamsGapless(store) ==
    \A g \in GlobalPositions(store) :
        LET row == store.messages[g]
        IN  row.position > 0
                => HasPosition(store, row.stream_name, row.position - 1)

WellFormed(store) ==
    /\ IdsUnique(store)
    /\ StreamsOrdered(store)
    /\ StreamsGapless(store)

(* A well-formed table of which every stream has a version. *)
Sound(store) ==
    /\ IsStore(store)
    /\ WellFormed(store)
    /\ \A stream \in Streams : \E version \in StoredVersions(store) :
           IsStreamVersion(store, stream, version)

(* Every message of the first table is in the second, at the same place. *)
Extends(store, longer) ==
    \A g \in GlobalPositions(store) :
        /\ g \in GlobalPositions(longer)
        /\ longer.messages[g] = store.messages[g]
=============================================================================
