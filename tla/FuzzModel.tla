----------------------------- MODULE FuzzModel -----------------------------
(***************************************************************************)
(* The fuzzer of the SQL functions (fuzz/fuzz_sql_model.c): one connection *)
(* writes messages and, next to the database, keeps an oracle of its own,  *)
(* an array of what it believes to be stored.  After every step it asks    *)
(* the database what the oracle knows.                                     *)
(*                                                                         *)
(* The store changes as the code under test changes it; the oracle as the  *)
(* fuzzer changes it; and the fuzzer's checks, which it makes for a few    *)
(* random arguments at a time, are made for all arguments in every state.  *)
(***************************************************************************)
EXTENDS Queries, MessageStore, FiniteSets

CONSTANTS Types,            \* values of the type column
          Correlations,     \* values of metadata.correlationStreamName, Null
          NoVersion,        \* write_message without an expected version
          Positions,        \* position arguments of the reads
          BatchSizes,       \* batch_size arguments
          MaxMessages       \* bound: messages in the oracle

ASSUME ReadsAssumption == Positions \subseteq Int /\ BatchSizes \subseteq Int

VARIABLES store,            \* the messages table of the database
          model             \* what the fuzzer believes
vars == <<store, model>>

Init ==
    /\ store = EmptyStore
    /\ model = <<>>

-----------------------------------------------------------------------------
(* The code under test. *)

(* write_message inserts a message: the expected version is the one there is,
   and no index refuses the row. *)
Accepted(id, stream, expected) ==
    /\ expected # NoVersion => expected = StreamVersion(store, stream)
    /\ ~Duplicates(store, [id |-> id, stream_name |-> stream,
                           position |-> StreamVersion(store, stream) + 1])

(* stream_version: NULL for a stream without messages. *)
ReportedVersion(stream) ==
    IF StreamVersion(store, stream) = -1 THEN Null
                                         ELSE StreamVersion(store, stream)

(* All the rows of a get_..._messages query, by their global positions: the
   statement is stepped until its end. *)
RowsOf(query, position) ==
    LET messages == store.messages
        rows[n \in 0 .. store.sequence] ==
            IF n = 0 THEN <<>>
            ELSE LET before == rows[n - 1]
                     from == IF n = 1 THEN position
                             ELSE Key(query, messages, before[n - 1]) + 1
                     row == IF Len(before) < n - 1 THEN 0
                            ELSE NextRow(query, messages, store.sequence, from,
                                         Len(before))
                 IN  IF row = 0 THEN before ELSE Append(before, row)
    IN  rows[store.sequence]

(* What the application gets: the rows, or an error for a batch_size below
   -1. *)
Fetched(query, position) ==
    IF query.batch_size < -1 THEN <<"error">> ELSE RowsOf(query, position)

-----------------------------------------------------------------------------
(* The fuzzer. *)

ModelVersion(stream) ==
    LET positions == {model[i].position : i \in
                         {j \in DOMAIN model : model[j].stream_name = stream}}
    IN  IF positions = {} THEN -1
        ELSE CHOOSE p \in positions : \A q \in positions : q <= p

UsedIds == {model[i].id : i \in DOMAIN model}

ShouldSucceed(id, stream, expected) ==
    id \notin UsedIds /\ expected \in {NoVersion, ModelVersion(stream)}

Written(id, stream, type, correlation, position) ==
    [id |-> id, stream_name |-> stream, type |-> type,
     correlation |-> correlation, position |-> position]

(* Defect: a row that is refused takes its global position along. *)
WriteBurns(id, stream, type, correlation, expected) ==
    IF Accepted(id, stream, expected)
    THEN Insert(store, Written(id, stream, type, correlation,
                               StreamVersion(store, stream) + 1))
    ELSE [store EXCEPT !.sequence = @ + 1]

(* What write_message leaves of the table. *)
Write(id, stream, type, correlation, expected) ==
    IF Accepted(id, stream, expected)
    THEN Insert(store, Written(id, stream, type, correlation,
                               StreamVersion(store, stream) + 1))
    ELSE store

(* run_write: write_message is called, and the oracle notes the message if it
   should have been written. *)
RunWrite(id, stream, type, correlation, expected) ==
    /\ Len(model) < MaxMessages
    /\ store' = Write(id, stream, type, correlation, expected)
    /\ model' = IF ShouldSucceed(id, stream, expected)
                THEN Append(model, Written(id, stream, type, correlation,
                                           ModelVersion(stream) + 1))
                ELSE model

(* It returns early when its array is full. *)
RunWriteFull == Len(model) >= MaxMessages /\ UNCHANGED vars

(* The expected versions that the fuzzer tries for a stream. *)
Expected(stream) ==
    {NoVersion, ModelVersion(stream), ModelVersion(stream) + 1, -1}

Next ==
    \/ RunWriteFull
    \/ \E id \in Ids, stream \in Streams, type \in Types,
          correlation \in Correlations :
           \E expected \in Expected(stream) :
               RunWrite(id, stream, type, correlation, expected)

Spec == Init /\ [][Next]_vars

-----------------------------------------------------------------------------
(* The checks of the fuzzer. *)

(* verify_invariants: the table holds the messages of the oracle in its
   order, with the global positions 1 .. count, and those of each stream with
   the positions 0, 1, 2, ... up to the version of the oracle. *)
VerifyInvariants ==
    /\ store.sequence = Len(model)
    /\ GlobalPositions(store) = 1 .. Len(model)
    /\ \A g \in DOMAIN model : store.messages[g] = model[g]
    /\ WellFormed(store)
    /\ \A stream \in Streams :
           ModelVersion(stream) + 1
               = Cardinality({g \in GlobalPositions(store) :
                                  store.messages[g].stream_name = stream})

RunStreamVersion(stream) ==
    ReportedVersion(stream) =
        IF ModelVersion(stream) < 0 THEN Null ELSE ModelVersion(stream)

(* The fuzzer walks its array and takes messages up to the batch size; it
   expects an error if that is below -1. *)
Taken(matching, batch_size) ==
    LET taken[i \in 0 .. Len(model)] ==
            IF i = 0 THEN <<>>
            ELSE IF /\ i \in matching
                    /\ batch_size < 0 \/ Len(taken[i - 1]) < batch_size
                 THEN Append(taken[i - 1], i)
                 ELSE taken[i - 1]
    IN  IF batch_size < -1 THEN <<"error">> ELSE taken[Len(model)]

RunStreamRead(stream, position, batch_size) ==
    LET matching == {i \in DOMAIN model : /\ model[i].stream_name = stream
                                          /\ model[i].position >= position}
    IN  Fetched([kind |-> "stream", name |-> stream,
                 batch_size |-> batch_size], position)
            = Taken(matching, batch_size)

(* The fuzzer passes no correlation; the model does that, too. *)
RunCategoryRead(category, position, batch_size, correlation) ==
    LET matching == {i \in DOMAIN model :
            /\ i >= position
            /\ Category(model[i].stream_name) = category
            /\ correlation # Null =>
                   /\ model[i].correlation # Null
                   /\ Category(model[i].correlation) = correlation}
    IN  Fetched([kind |-> "category", name |-> category,
                 correlation |-> correlation, member |-> Null,
                 batch_size |-> batch_size], position)
            = Taken(matching, batch_size)

(* A type of Null is a call without one. *)
RunLastStreamRead(stream, type) ==
    LET matching == {i \in DOMAIN model : /\ model[i].stream_name = stream
                                          /\ type \in {Null, model[i].type}}
    IN  LastMessage(store.messages, store.sequence, stream, type)
            = {i \in matching : \A j \in matching : j <= i}

-----------------------------------------------------------------------------
(* write_message succeeds when the oracle says that it should, and leaves no
   trace when it should not: no row and no gap, whatever came before. *)
WritesAsModelled == VerifyInvariants

(* stream_version(), whose answer an application passes on as the expected
   version of its next write, is the version of the oracle. *)
VersionAsModelled == \A stream \in Streams : RunStreamVersion(stream)

(* get_stream_messages returns the messages of the stream from a position on,
   in their order and as many as asked for. *)
StreamReadAsModelled ==
    \A stream \in Streams, position \in Positions, batch_size \in BatchSizes :
        RunStreamRead(stream, position, batch_size)

(* get_category_messages returns the messages of all streams of a category
   from a global position on, and of these the ones that answer to a category
   if a correlation is given. *)
CategoryReadAsModelled ==
    \A stream \in Streams, position \in Positions, batch_size \in BatchSizes,
       correlation \in Correlations :
        RunCategoryRead(Category(stream), position, batch_size,
                        Category(correlation))

(* get_last_stream_message returns the latest message of the stream, or the
   latest one of a type, and no row if there is none. *)
LastReadAsModelled ==
    \A stream \in Streams, type \in Types \cup {Null} :
        RunLastStreamRead(stream, type)
=============================================================================
