------------------------------ MODULE Retrieval ------------------------------
(***************************************************************************)
(* Reading the store: get_stream_messages and get_category_messages as     *)
(* readers use them to follow a stream or a category, alone or as the      *)
(* members of a consumer group.                                            *)
(*                                                                         *)
(* A reader executes SELECT ... FROM get_..._messages(...) from the        *)
(* position after the last message it got.  The virtual table runs a       *)
(* statement of its own and steps it once for every row that the           *)
(* application asks for, so that other connections, and the reader itself, *)
(* write while the cursor is open.  The statement sees the store as it was *)
(* when the reader's statement began, and in addition what the reader's    *)
(* connection has written since.                                           *)
(*                                                                         *)
(* A reader may also retrieve and write in a transaction of its own, in    *)
(* which it keeps the position to go on from as well, in a table of the    *)
(* same database: what it has handled, written and remembered is then      *)
(* committed, or rolled back, as one.                                      *)
(*                                                                         *)
(* The store is the log of its messages, in which the global position is   *)
(* the index: what WriteMessage is shown to maintain.  The messages of an  *)
(* open transaction are at its end.                                        *)
(***************************************************************************)
EXTENDS Queries, FiniteSets

CONSTANTS
    Readers,        \* connections, each of which follows one query
    Query,          \* Query[r]: the arguments that r passes
    Streams,        \* the stream names that are written to
    Correlations,   \* values of metadata.correlationStreamName, or Null
    NoCursor,       \* the reader has no statement open
    NoTransaction,  \* no reader has a transaction open
    Transactions,   \* do readers open transactions?
    MaxLog          \* bound: messages written

ASSUME HashAssumption ==
    /\ MaxHash \in Nat
    /\ \A stream \in Streams :
           CardinalId(stream) # Null
               => Hash[CardinalId(stream)] \in MinHash .. MaxHash

(* The queries that the argument checks of the filters let pass.  A member of
   Null is a reader outside consumer groups; batch_size -1 is no limit. *)
ASSUME QueryAssumption ==
    \A r \in Readers :
        /\ Query[r].kind \in {"stream", "category"}
        /\ Query[r].batch_size \in {-1} \cup Nat
        /\ Query[r].kind = "stream" <=> ~IsCategory(Query[r].name)
        /\ Query[r].kind = "category" /\ Query[r].member # Null =>
               /\ Query[r].size \in Nat \ {0}
               /\ Query[r].member \in 0 .. Query[r].size - 1

VARIABLES
    log,            \* the messages, by global position
    transaction,    \* the open transaction, and what it would roll back to
    cursor,         \* cursor[r]: the open statement of r
    next,           \* next[r]: the position r asks for next
    seen            \* seen[r]: the global positions of the rows r got

vars == <<log, transaction, cursor, next, seen>>

GlobalPositions == 1 .. Len(log)

Message == [stream_name : Streams, position : Nat,
            correlation : Correlations]

(* row is the global position of the current row, or 0 at the end; emitted
   says that the application got it, failed that the statement ended with an
   error; view is the length of the log that the statement sees, and start
   what r had seen when it began. *)
Cursor == [row : Nat, emitted : BOOLEAN, failed : BOOLEAN, returned : Nat,
           view : Nat, start : SUBSET Nat]

Transaction == [owner : Readers, committed : Nat, next : Nat,
                seen : SUBSET Nat]

TypeOK ==
    /\ log \in Seq(Message)
    /\ transaction \in Transaction \cup {NoTransaction}
    /\ transaction # NoTransaction => transaction.committed <= Len(log)
    /\ cursor \in [Readers -> Cursor \cup {NoCursor}]
    /\ \A r \in Readers : cursor[r] # NoCursor =>
           /\ cursor[r].row <= cursor[r].view
           /\ cursor[r].view <= Len(log)
    /\ next \in [Readers -> Nat]
    /\ seen \in [Readers -> SUBSET GlobalPositions]

(* The default positions are 0 for a stream and 1 for a category. *)
Init ==
    /\ log = <<>>
    /\ transaction = NoTransaction
    /\ cursor = [r \in Readers |-> NoCursor]
    /\ next = [r \in Readers |-> IF Query[r].kind = "stream" THEN 0 ELSE 1]
    /\ seen = [r \in Readers |-> {}]

-----------------------------------------------------------------------------
InTransaction(r) == transaction # NoTransaction /\ transaction.owner = r

Committed ==
    IF transaction = NoTransaction THEN Len(log) ELSE transaction.committed

(* The messages that a statement of r sees that begins now. *)
Sees(r) == IF InTransaction(r) THEN Len(log) ELSE Committed

(* The statement begins: xFilter prepares and binds the query, and steps it
   to its first row.  (If that fails, there is no statement.) *)
Filter(r) ==
    /\ cursor[r] = NoCursor
    /\ cursor' = [cursor EXCEPT ![r] =
           [row |-> NextRow(Query[r], log, Sees(r), next[r], 0),
            emitted |-> FALSE, failed |-> FALSE, returned |-> 0,
            view |-> Sees(r), start |-> seen[r]]]
    /\ UNCHANGED <<log, transaction, next, seen>>

(* Defect: the end of the query is not noticed. *)
EmitAtEnd(r) ==
    /\ cursor[r] # NoCursor
    /\ ~cursor[r].emitted
    /\ cursor' = [cursor EXCEPT ![r].emitted = TRUE, ![r].returned = @ + 1]
    /\ seen' = [seen EXCEPT ![r] = @ \cup {cursor[r].row}]
    /\ next' = [next EXCEPT ![r] = Key(Query[r], log, cursor[r].row) + 1]
    /\ UNCHANGED <<log, transaction>>

(* The application gets the current row (xEof, xColumn, xRowid), and will ask
   for the position after it the next time. *)
Emit(r) ==
    /\ cursor[r] # NoCursor
    /\ cursor[r].row # 0
    /\ ~cursor[r].emitted
    /\ cursor' = [cursor EXCEPT ![r].emitted = TRUE, ![r].returned = @ + 1]
    /\ seen' = [seen EXCEPT ![r] = @ \cup {cursor[r].row}]
    /\ next' = [next EXCEPT ![r] = Key(Query[r], log, cursor[r].row) + 1]
    /\ UNCHANGED <<log, transaction>>

(* Defect: the statement is not stepped past its current row. *)
AdvanceNowhere(r) ==
    /\ cursor[r] # NoCursor
    /\ cursor[r].emitted
    /\ LET row == NextRow(Query[r], log, cursor[r].view,
                          Key(Query[r], log, cursor[r].row),
                          cursor[r].returned)
       IN  cursor' = [cursor EXCEPT ![r].row = row, ![r].emitted = FALSE]
    /\ UNCHANGED <<log, transaction, next, seen>>

(* xNext: the statement is stepped to its next row, or to its end. *)
Advance(r) ==
    /\ cursor[r] # NoCursor
    /\ cursor[r].emitted
    /\ LET row == NextRow(Query[r], log, cursor[r].view,
                          Key(Query[r], log, cursor[r].row) + 1,
                          cursor[r].returned)
       IN  cursor' = [cursor EXCEPT ![r].row = row, ![r].emitted = FALSE]
    /\ UNCHANGED <<log, transaction, next, seen>>

(* Defect: an error is taken for the end of the rows. *)
AdvanceFailsQuietly(r) ==
    /\ cursor[r] # NoCursor
    /\ cursor[r].emitted
    /\ cursor' = [cursor EXCEPT ![r].row = 0, ![r].emitted = FALSE]
    /\ UNCHANGED <<log, transaction, next, seen>>

(* xNext fails (I/O, memory, an interrupt), and with it the statement of the
   application. *)
AdvanceFails(r) ==
    /\ cursor[r] # NoCursor
    /\ cursor[r].emitted
    /\ cursor' = [cursor EXCEPT ![r].row = 0, ![r].emitted = FALSE,
                                ![r].failed = TRUE]
    /\ UNCHANGED <<log, transaction, next, seen>>

(* The statement is at its end. *)
Ends(r) == cursor[r] # NoCursor /\ cursor[r].row = 0

(* The statement is at its end, or the application wants no more rows; xClose
   finalizes the query. *)
Close(r) ==
    /\ cursor[r] # NoCursor
    /\ cursor' = [cursor EXCEPT ![r] = NoCursor]
    /\ UNCHANGED <<log, transaction, next, seen>>

-----------------------------------------------------------------------------
(* The next message of a stream. *)
NewMessage(stream, correlation) ==
    [stream_name |-> stream, correlation |-> correlation,
     position |-> Cardinality({g \in GlobalPositions :
                                   log[g].stream_name = stream})]

(* write_message on another connection, up to its COMMIT.  Messages become
   visible in the order of their global positions, each at the position its
   stream has reached: LogAlwaysGrows of ConfirmationProofs. *)
Commit(stream, correlation) ==
    /\ transaction = NoTransaction
    /\ Len(log) < MaxLog
    /\ log' = Append(log, NewMessage(stream, correlation))
    /\ UNCHANGED <<transaction, cursor, next, seen>>

(* The reader writes a message on the connection it reads on, between two
   rows.  While its statement is open, that is refused unless nobody else has
   committed since (see BeginBusy of WriteMessage); the statement then sees
   the new message as well. *)
WriteWhileReading(r, stream, correlation) ==
    /\ transaction = NoTransaction \/ InTransaction(r)
    /\ cursor[r] # NoCursor
    /\ cursor[r].emitted
    /\ cursor[r].view = Len(log)
    /\ Len(log) < MaxLog
    /\ log' = Append(log, NewMessage(stream, correlation))
    /\ cursor' = [cursor EXCEPT ![r].view = @ + 1]
    /\ UNCHANGED <<transaction, next, seen>>

(* The reader writes a message in its transaction, between two statements. *)
WriteInTransaction(r, stream, correlation) ==
    /\ InTransaction(r)
    /\ cursor[r] = NoCursor
    /\ Len(log) < MaxLog
    /\ log' = Append(log, NewMessage(stream, correlation))
    /\ UNCHANGED <<transaction, cursor, next, seen>>

(* BEGIN IMMEDIATE of a reader: nobody else writes until its end. *)
BeginTransaction(r) ==
    /\ Transactions
    /\ transaction = NoTransaction
    /\ cursor[r] = NoCursor
    /\ transaction' = [owner |-> r, committed |-> Len(log),
                       next |-> next[r], seen |-> seen[r]]
    /\ UNCHANGED <<log, cursor, next, seen>>

CommitTransaction(r) ==
    /\ InTransaction(r)
    /\ transaction' = NoTransaction
    /\ UNCHANGED <<log, cursor, next, seen>>

(* Defect: the position is remembered outside of the database. *)
RollbackKeepsPosition(r) ==
    /\ InTransaction(r)
    /\ cursor[r] = NoCursor
    /\ log' = SubSeq(log, 1, transaction.committed)
    /\ seen' = [seen EXCEPT ![r] = transaction.seen]
    /\ transaction' = NoTransaction
    /\ UNCHANGED <<cursor, next>>

(* ROLLBACK, or the death of the reader, takes back the messages it wrote,
   whose global positions others will get, what it made of those it read, and
   its position. *)
RollbackTransaction(r) ==
    /\ InTransaction(r)
    /\ cursor[r] = NoCursor
    /\ log' = SubSeq(log, 1, transaction.committed)
    /\ next' = [next EXCEPT ![r] = transaction.next]
    /\ seen' = [seen EXCEPT ![r] = transaction.seen]
    /\ transaction' = NoTransaction
    /\ UNCHANGED cursor

Next ==
    \/ \E r \in Readers :
           \/ Filter(r) \/ Emit(r) \/ Advance(r) \/ AdvanceFails(r) \/ Close(r)
           \/ BeginTransaction(r)
           \/ CommitTransaction(r)
           \/ RollbackTransaction(r)
    \/ \E stream \in Streams, correlation \in Correlations :
           \/ Commit(stream, correlation)
           \/ \E r \in Readers :
                  \/ WriteWhileReading(r, stream, correlation)
                  \/ WriteInTransaction(r, stream, correlation)

Spec == Init /\ [][Next]_vars

(***************************************************************************)
(* A reader keeps asking, closes a statement that has ended, and does not  *)
(* for ever give up each statement, or see it fail, before its next row.   *)
(***************************************************************************)
FairSpec ==
    /\ Spec
    /\ \A r \in Readers :
           /\ WF_vars(Filter(r) \/ Advance(r) \/ (Ends(r) /\ Close(r)))
           /\ SF_vars(Emit(r))

-----------------------------------------------------------------------------
(* A reader that asks for the position after the last message it got skips no
   message that its query selects, however its batches fall around the
   writes, around statements that fail or that it gives up, and around
   transactions, its own among them, that are rolled back. *)
NoneSkipped ==
    \A r \in Readers : \A g \in GlobalPositions :
        Selects(Query[r], log[g]) /\ Key(Query[r], log, g) < next[r]
            => g \in seen[r]

(* No message is returned twice. *)
NoneRepeated ==
    \A r \in Readers :
        cursor[r] # NoCursor /\ ~cursor[r].emitted
            => cursor[r].row \notin seen[r]

(* A retrieval returns at most batch_size messages, also when the reader
   writes further messages of the category for those it gets. *)
BatchBounded ==
    \A r \in Readers :
        cursor[r] # NoCursor /\ Query[r].batch_size # -1
            => Cardinality(seen[r] \ cursor[r].start) <= Query[r].batch_size

(* A retrieval that ends without an error, with fewer messages than it asked
   for, has caught up: the reader has every message that there was when it
   began. *)
ShortBatchCaughtUp ==
    \A r \in Readers :
        /\ Ends(r)
        /\ ~cursor[r].failed
        /\ cursor[r].returned # Query[r].batch_size
        => \A g \in 1 .. cursor[r].view :
               Selects(Query[r], log[g]) => g \in seen[r]

(* The members of one consumer group. *)
SameGroup(r, s) ==
    /\ Query[r].kind = "category" /\ Query[s].kind = "category"
    /\ Query[r].member # Null /\ Query[s].member # Null
    /\ Query[r].name = Query[s].name
    /\ Query[r].correlation = Query[s].correlation
    /\ Query[r].size = Query[s].size

(* Different members of a group never get messages of the same entity: all
   streams with one cardinal id go to one member. *)
EntitiesStayTogether ==
    \A r, s \in Readers : \A g \in seen[r], h \in seen[s] :
        /\ SameGroup(r, s)
        /\ CardinalId(log[g].stream_name) = CardinalId(log[h].stream_name)
        => Query[r].member = Query[s].member

(* All the members of the group of r are among the readers. *)
WholeGroup(r) ==
    /\ Query[r].kind = "category" /\ Query[r].member # Null
    /\ \A m \in 0 .. Query[r].size - 1 :
           \E s \in Readers : SameGroup(r, s) /\ Query[s].member = m

(* The message is for r, or for some member of the whole group of r. *)
IsFor(r, message) ==
    \/ Selects(Query[r], message)
    \/ /\ WholeGroup(r)
       /\ Selects([Query[r] EXCEPT !.member = Null], message)
       /\ CardinalId(message.stream_name) # Null

Handled(g) ==
    \A r \in Readers :
        \/ \E s \in Readers : g \in seen[s] /\ (s = r \/ SameGroup(r, s))
        \/ ~IsFor(r, log[g])

(* Every message that has a cardinal id reaches some member of a consumer
   group that runs all its members, and every other reader gets every message
   that its query selects. *)
EveryMessageHandled ==
    \A g \in 1 .. MaxLog :
        g \in GlobalPositions ~> (g \in GlobalPositions /\ Handled(g))
=============================================================================
