---------------------------- MODULE WriteMessage ----------------------------
(***************************************************************************)
(* write_message, called from several connections to one database.         *)
(*                                                                         *)
(* The function runs inside a SQL statement of its connection: a plain     *)
(* SELECT, a SELECT that calls it once for every row of another table, or  *)
(* a statement that itself writes (INSERT ... SELECT write_message ...).   *)
(* It runs SQL statements of its own, each of which SQLite may interleave  *)
(* with the statements of other connections: there is one action for each. *)
(* Around the calls, the application opens and ends transactions, is       *)
(* interrupted, and may die between any two steps.                         *)
(***************************************************************************)
EXTENDS Sqlite

CONSTANTS NoCall,               \* the connection executes no call
          NoVersion,            \* expected_version is NULL or not passed
          ExpectedVersions,     \* the other expected_version arguments
          Interrupts,           \* does the application use sqlite3_interrupt?
          RollbackFails         \* may a ROLLBACK fail for another reason?

ASSUME NoVersionAssumption == NoVersion \notin Int
ASSUME ExpectedVersionsAssumption == ExpectedVersions \subseteq Int
ASSUME InterruptsAssumption == Interrupts \in BOOLEAN
ASSUME RollbackFailsAssumption == RollbackFails \in BOOLEAN

VARIABLES
    pc,         \* pc[c]: the next SQL statement of the call that c executes
    call,       \* call[c]: the arguments of the call
    began,      \* began[c]: this call started the transaction itself
    position,   \* position[c]: next_position, once it is known
    reply,      \* reply[c]: what the call has set as its result
    outer,      \* outer[c]: the statement that calls it for many rows
    interrupted,\* interrupted[c]: sqlite3_interrupt is in effect
    batching,   \* batching[c]: the application has issued BEGIN
    batch,      \* batch[c]: positions returned in that transaction
    acked,      \* history: the writes the application knows are committed
    unconfirmed \* history: the ids written without the application knowing

callVars == <<pc, call, began, position, reply, outer, interrupted>>
clientVars == <<batching, batch, acked, unconfirmed>>
vars == <<sqliteVars, callVars, clientVars>>

Call == [id : Ids, stream_name : Streams,
         expected_version : ExpectedVersions \cup {NoVersion}]

Confirmation == [id : Ids, stream_name : Streams, position : Nat,
                 expected_version : ExpectedVersions \cup {NoVersion}]

NewRow(c) == [id |-> call[c].id, stream_name |-> call[c].stream_name,
              position |-> position[c]]

ConfirmationOf(c) ==
    [id |-> call[c].id, stream_name |-> call[c].stream_name,
     position |-> position[c], expected_version |-> call[c].expected_version]

RowOf(confirmation) ==
    [id |-> confirmation.id, stream_name |-> confirmation.stream_name,
     position |-> confirmation.position]

IdsOf(confirmations) == {confirmation.id : confirmation \in confirmations}

CallTypeOK ==
    /\ pc \in [Conns -> {"idle", "begin", "query", "insert", "commit",
                         "cleanup", "return"}]
    /\ call \in [Conns -> Call \cup {NoCall}]
    /\ \A c \in Conns : pc[c] # "idle" => call[c] \in Call
    /\ began \in [Conns -> BOOLEAN]
    /\ position \in [Conns -> Nat]
    /\ reply \in [Conns -> {"position", "error", "busy", "wrong version"}]
    /\ outer \in [Conns -> {"none", "select", "write"}]
    /\ interrupted \in [Conns -> BOOLEAN]
    /\ batching \in [Conns -> BOOLEAN]
    /\ batch \in [Conns -> SUBSET Confirmation]
    /\ acked \in SUBSET Confirmation
    /\ unconfirmed \in SUBSET Ids

TypeOK == SqliteTypeOK /\ CallTypeOK

Init ==
    /\ SqliteInit
    /\ pc = [c \in Conns |-> "idle"]
    /\ call = [c \in Conns |-> NoCall]
    /\ began = [c \in Conns |-> FALSE]
    /\ position = [c \in Conns |-> 0]
    /\ reply = [c \in Conns |-> "position"]
    /\ outer = [c \in Conns |-> "none"]
    /\ interrupted = [c \in Conns |-> FALSE]
    /\ batching = [c \in Conns |-> FALSE]
    /\ batch = [c \in Conns |-> {}]
    /\ acked = {}
    /\ unconfirmed = {}

-----------------------------------------------------------------------------
(* Another statement of c is being stepped while write_message runs. *)
Stepping(c) == outer[c] # "none"

(* The call goes on to its next SQL statement. *)
Goto(c, next) ==
    /\ pc' = [pc EXCEPT ![c] = next]
    /\ UNCHANGED <<call, began, reply, outer, interrupted>>

(* The call sets its result or error, and goes to the step given. *)
Answer(c, answer, next) ==
    /\ pc' = [pc EXCEPT ![c] = next]
    /\ reply' = [reply EXCEPT ![c] = answer]
    /\ UNCHANGED <<call, began, position, outer, interrupted>>

(***************************************************************************)
(* A call whose arguments are accepted.  (One whose arguments are not runs *)
(* no SQL and fails the statement that made it: see CloseStatement.)       *)
(***************************************************************************)
Start(c, arguments) ==
    /\ pc[c] = "idle"
    /\ pc' = [pc EXCEPT ![c] = IF autocommit[c] THEN "begin" ELSE "query"]
    /\ call' = [call EXCEPT ![c] = arguments]
    /\ UNCHANGED <<sqliteVars, began, position, reply, outer, interrupted,
                   clientVars>>

(* Defect: BEGIN in place of BEGIN IMMEDIATE. *)
BeginPlain(c) ==
    /\ pc[c] = "begin"
    /\ ~interrupted[c]
    /\ BeginDeferred(c)
    /\ began' = [began EXCEPT ![c] = TRUE]
    /\ pc' = [pc EXCEPT ![c] = "query"]
    /\ UNCHANGED <<call, position, reply, outer, interrupted, clientVars>>

(* BEGIN IMMEDIATE, in autocommit mode only. *)
Begin(c) ==
    /\ pc[c] = "begin"
    /\ ~interrupted[c]
    /\ BeginImmediate(c)
    /\ began' = [began EXCEPT ![c] = TRUE]
    /\ pc' = [pc EXCEPT ![c] = "query"]
    /\ UNCHANGED <<call, position, reply, outer, interrupted, clientVars>>

(* BEGIN IMMEDIATE fails: at once on a snapshot, or after busy_timeout. *)
BeginBusy(c) ==
    /\ pc[c] = "begin"
    /\ ~CanWrite(c)
    /\ Answer(c, "busy", "return")
    /\ UNCHANGED <<sqliteVars, clientVars>>

(* Any other failure of BEGIN IMMEDIATE, among them an interrupt. *)
BeginFails(c) ==
    /\ pc[c] = "begin"
    /\ Answer(c, "error", "return")
    /\ UNCHANGED <<sqliteVars, clientVars>>

(* Defect: an expected version that the stream has passed is let through. *)
VersionReached(c, version) ==
    call[c].expected_version # NoVersion
        => call[c].expected_version <= version

(* Defect: expected_version is not compared. *)
VersionIgnored(c, version) == TRUE

(* query_stream_version, and the comparison with expected_version. *)
VersionExpected(c, version) ==
    call[c].expected_version \in {NoVersion, version}

(* Defect: the position is the current version. *)
QueryCurrent(c) ==
    /\ pc[c] = "query"
    /\ ~interrupted[c]
    /\ Reads(c)
    /\ LET version == StreamVersion(Snapshot(c), call[c].stream_name)
       IN  /\ VersionExpected(c, version)
           /\ position' = [position EXCEPT ![c] = version]
    /\ Goto(c, "insert")
    /\ UNCHANGED clientVars

(* Defect: the -1 of an empty stream is forgotten, and positions start at 1. *)
QueryFromZero(c) ==
    /\ pc[c] = "query"
    /\ ~interrupted[c]
    /\ Reads(c)
    /\ LET version == StreamVersion(Snapshot(c), call[c].stream_name)
       IN  /\ VersionExpected(c, version)
           /\ position' = [position EXCEPT
                              ![c] = IF version = -1 THEN 1 ELSE version + 1]
    /\ Goto(c, "insert")
    /\ UNCHANGED clientVars

QueryVersion(c) ==
    /\ pc[c] = "query"
    /\ ~interrupted[c]
    /\ Reads(c)
    /\ LET version == StreamVersion(Snapshot(c), call[c].stream_name)
       IN  /\ VersionExpected(c, version)
           /\ position' = [position EXCEPT ![c] = version + 1]
    /\ Goto(c, "insert")
    /\ UNCHANGED clientVars

WrongVersion(c) ==
    /\ pc[c] = "query"
    /\ ~interrupted[c]
    /\ Reads(c)
    /\ ~VersionExpected(c, StreamVersion(Snapshot(c), call[c].stream_name))
    /\ Answer(c, "wrong version", "cleanup")
    /\ UNCHANGED clientVars

(* The query fails.  An interrupt ends it before it reads anything and
   leaves the transaction alone; other errors may roll the transaction back. *)
QueryFails(c) ==
    /\ pc[c] = "query"
    /\ \/ /\ UNCHANGED <<sqliteVars, batch>>
       \/ /\ ~interrupted[c]
          /\ Reads(c)
          /\ UNCHANGED batch
       \/ /\ ~interrupted[c]
          /\ Rollback(c, Stepping(c))
          /\ batch' = [batch EXCEPT ![c] = {}]
    /\ Answer(c, "error", "cleanup")
    /\ UNCHANGED <<batching, acked, unconfirmed>>

(* Defect: the position is returned without a COMMIT. *)
InsertReturns(c) ==
    /\ pc[c] = "insert"
    /\ ~interrupted[c]
    /\ InsertRow(c, NewRow(c))
    /\ Answer(c, "position", "return")
    /\ UNCHANGED clientVars

(* The INSERT, after which a call that did not begin has its result. *)
InsertMessage(c) ==
    /\ pc[c] = "insert"
    /\ ~interrupted[c]
    /\ InsertRow(c, NewRow(c))
    /\ Answer(c, "position", IF began[c] THEN "commit" ELSE "return")
    /\ UNCHANGED clientVars

(* A unique index, a CHECK constraint or json() refuses the row. *)
InsertRefused(c) ==
    /\ pc[c] = "insert"
    /\ ~interrupted[c]
    /\ InsertNothing(c)
    /\ Answer(c, "error", "cleanup")
    /\ UNCHANGED clientVars

(* Defect: the INSERT waits for the write lock with its snapshot open. *)
InsertWaits(c) == FALSE

(* The transaction was opened by a plain BEGIN and cannot become a writer. *)
InsertBusy(c) ==
    /\ pc[c] = "insert"
    /\ ~CanWrite(c)
    /\ Answer(c, "busy", "cleanup")
    /\ UNCHANGED <<sqliteVars, clientVars>>

(* The statement cannot be prepared or bound, which leaves the transaction
   alone, or it fails and SQLite rolls the whole transaction back.  An
   interrupt does the one before the INSERT is prepared, the other after. *)
InsertFails(c) ==
    /\ pc[c] = "insert"
    /\ \/ UNCHANGED <<sqliteVars, batch>>
       \/ /\ Rollback(c, Stepping(c))
          /\ batch' = [batch EXCEPT ![c] = {}]
    /\ Answer(c, "error", "cleanup")
    /\ UNCHANGED <<batching, acked, unconfirmed>>

(* COMMIT, refused while a statement of the connection that writes runs. *)
CommitMessage(c) ==
    /\ pc[c] = "commit"
    /\ ~interrupted[c]
    /\ outer[c] # "write"
    /\ Commit(c, Stepping(c))
    /\ Answer(c, "position", "return")
    /\ UNCHANGED clientVars

CommitFails(c) ==
    /\ pc[c] = "commit"
    /\ \/ UNCHANGED sqliteVars
       \/ /\ ~interrupted[c]
          /\ Rollback(c, Stepping(c))
    /\ Answer(c, "error", "cleanup")
    /\ UNCHANGED clientVars

(* Defect: ROLLBACK whoever began the transaction. *)
CleanupAlways(c) ==
    /\ pc[c] = "cleanup"
    /\ IF ~interrupted[c] /\ ~autocommit[c]
       THEN Rollback(c, Stepping(c))
       ELSE UNCHANGED sqliteVars
    /\ Goto(c, "return")
    /\ UNCHANGED <<position, clientVars>>

(* Defect: an error returns without the cleanup. *)
CleanupNever(c) ==
    /\ pc[c] = "cleanup"
    /\ UNCHANGED sqliteVars
    /\ Goto(c, "return")
    /\ UNCHANGED <<position, clientVars>>

(* Defect: the cleanup commits. *)
CleanupCommits(c) ==
    /\ pc[c] = "cleanup"
    /\ IF began[c] /\ ~interrupted[c] /\ ~autocommit[c]
       THEN Commit(c, Stepping(c))
       ELSE UNCHANGED sqliteVars
    /\ Goto(c, "return")
    /\ UNCHANGED <<position, clientVars>>

(* The cleanup label: ROLLBACK, if this call began the transaction.  When it
   fails (it always does on an interrupted connection, and may for lack of
   memory to prepare it), the code does not look. *)
Cleanup(c) ==
    /\ pc[c] = "cleanup"
    /\ \/ /\ began[c] /\ ~autocommit[c]
          /\ ~interrupted[c]
          /\ Rollback(c, Stepping(c))
       \/ /\ \/ ~began[c] \/ autocommit[c]
             \/ interrupted[c] \/ RollbackFails
          /\ UNCHANGED sqliteVars
    /\ Goto(c, "return")
    /\ UNCHANGED <<position, clientVars>>

-----------------------------------------------------------------------------
(* The call is over: the connection keeps nothing of it. *)
Forget(c) ==
    /\ pc' = [pc EXCEPT ![c] = "idle"]
    /\ call' = [call EXCEPT ![c] = NoCall]
    /\ began' = [began EXCEPT ![c] = FALSE]
    /\ position' = [position EXCEPT ![c] = 0]
    /\ reply' = [reply EXCEPT ![c] = "position"]

(* The calling statement ends; in autocommit mode so does its transaction. *)
StatementEnds(c) ==
    /\ IF autocommit[c] THEN Rollback(c, FALSE) ELSE UNCHANGED sqliteVars
    /\ outer' = [outer EXCEPT ![c] = "none"]
    /\ interrupted' = [interrupted EXCEPT ![c] = FALSE]

(* The application receives the position.  To a position returned inside a
   transaction of the application the COMMIT is still to come, unless SQLite
   has rolled that transaction back: then the call has committed by itself. *)
ReturnPosition(c) ==
    /\ pc[c] = "return"
    /\ reply[c] = "position"
    /\ Forget(c)
    /\ IF outer[c] = "none"
       THEN StatementEnds(c)
       ELSE UNCHANGED <<sqliteVars, outer, interrupted>>
    /\ \/ /\ ~batching[c]
          /\ acked' = acked \cup {ConfirmationOf(c)}
          /\ UNCHANGED <<batch, unconfirmed>>
       \/ /\ batching[c] /\ ~autocommit[c]
          /\ batch' = [batch EXCEPT ![c] = @ \cup {ConfirmationOf(c)}]
          /\ UNCHANGED <<acked, unconfirmed>>
       \/ /\ batching[c] /\ autocommit[c]
          /\ unconfirmed' = unconfirmed \cup {call[c].id}
          /\ UNCHANGED <<acked, batch>>
    /\ UNCHANGED batching

(* The call fails, and with it the statement that made it. *)
ReturnError(c) ==
    /\ pc[c] = "return"
    /\ reply[c] # "position"
    /\ Forget(c)
    /\ StatementEnds(c)
    /\ UNCHANGED clientVars

(* The call has succeeded, but the statement that made it is interrupted
   before the application receives the position. *)
ReturnInterrupted(c) ==
    /\ pc[c] = "return"
    /\ reply[c] = "position"
    /\ interrupted[c]
    /\ Forget(c)
    /\ StatementEnds(c)
    /\ unconfirmed' = unconfirmed \cup {call[c].id}
    /\ UNCHANGED <<batching, batch, acked>>

(* sqlite3_interrupt, or a progress handler that says stop. *)
Interrupt(c) ==
    /\ Interrupts
    /\ pc[c] # "idle"
    /\ interrupted' = [interrupted EXCEPT ![c] = TRUE]
    /\ UNCHANGED <<sqliteVars, pc, call, began, position, reply, outer,
                   clientVars>>

-----------------------------------------------------------------------------
(* SELECT write_message(...) FROM t: the statement reads t while it calls. *)
OpenSelect(c) ==
    /\ pc[c] = "idle"
    /\ ~Stepping(c)
    /\ autocommit[c]
    /\ Reads(c)
    /\ outer' = [outer EXCEPT ![c] = "select"]
    /\ UNCHANGED <<pc, call, began, position, reply, interrupted, clientVars>>

(* INSERT INTO t SELECT write_message(...): the statement writes t. *)
OpenWrite(c) ==
    /\ pc[c] = "idle"
    /\ ~Stepping(c)
    /\ autocommit[c]
    /\ InsertNothing(c)
    /\ outer' = [outer EXCEPT ![c] = "write"]
    /\ UNCHANGED <<pc, call, began, position, reply, interrupted, clientVars>>

(* The statement has no more rows, or fails: on its own account, or because
   the arguments of its next call are refused. *)
CloseStatement(c) ==
    /\ pc[c] = "idle"
    /\ Stepping(c)
    /\ StatementEnds(c)
    /\ UNCHANGED <<pc, call, began, position, reply, clientVars>>

(* The application issues BEGIN or BEGIN IMMEDIATE. *)
ClientBegin(c) ==
    /\ pc[c] = "idle"
    /\ ~Stepping(c)
    /\ ~batching[c]
    /\ autocommit[c]
    /\ BeginImmediate(c) \/ BeginDeferred(c)
    /\ batching' = [batching EXCEPT ![c] = TRUE]
    /\ UNCHANGED <<callVars, batch, acked, unconfirmed>>

(* It reads the store in its transaction. *)
ClientRead(c) ==
    /\ pc[c] = "idle"
    /\ batching[c]
    /\ ~autocommit[c]
    /\ txn[c] = "none"
    /\ Reads(c)
    /\ UNCHANGED <<callVars, clientVars>>

EndBatch(c) ==
    /\ batching' = [batching EXCEPT ![c] = FALSE]
    /\ batch' = [batch EXCEPT ![c] = {}]

(* It issues COMMIT.  If SQLite has rolled the transaction back meanwhile,
   COMMIT says that no transaction is active. *)
ClientCommit(c) ==
    /\ pc[c] = "idle"
    /\ ~Stepping(c)
    /\ batching[c]
    /\ IF autocommit[c]
       THEN UNCHANGED <<sqliteVars, acked>>
       ELSE /\ Commit(c, FALSE)
            /\ acked' = acked \cup batch[c]
    /\ EndBatch(c)
    /\ UNCHANGED <<callVars, unconfirmed>>

(* It issues ROLLBACK, or COMMIT fails and SQLite rolls back. *)
ClientRollback(c) ==
    /\ pc[c] = "idle"
    /\ ~Stepping(c)
    /\ batching[c]
    /\ ~autocommit[c]
    /\ Rollback(c, FALSE)
    /\ EndBatch(c)
    /\ UNCHANGED <<callVars, acked, unconfirmed>>

(* The process that has the connection dies, and connects anew.  A commit
   that it was about to learn of stands. *)
Crash(c) ==
    /\ Rollback(c, FALSE)
    /\ Forget(c)
    /\ outer' = [outer EXCEPT ![c] = "none"]
    /\ interrupted' = [interrupted EXCEPT ![c] = FALSE]
    /\ EndBatch(c)
    /\ unconfirmed' =
           IF autocommit[c] /\ pc[c] = "return" /\ reply[c] = "position"
           THEN unconfirmed \cup {call[c].id} ELSE unconfirmed
    /\ UNCHANGED acked

-----------------------------------------------------------------------------
(* The steps of a call that has started. *)
CallStep(c) ==
    \/ Begin(c) \/ BeginBusy(c) \/ BeginFails(c)
    \/ QueryVersion(c) \/ WrongVersion(c) \/ QueryFails(c)
    \/ InsertMessage(c) \/ InsertRefused(c) \/ InsertBusy(c) \/ InsertFails(c)
    \/ CommitMessage(c) \/ CommitFails(c)
    \/ Cleanup(c)
    \/ ReturnPosition(c) \/ ReturnError(c) \/ ReturnInterrupted(c)

(* The steps of the application around its calls. *)
ClientStep(c) ==
    \/ \E arguments \in Call : Start(c, arguments)
    \/ OpenSelect(c) \/ OpenWrite(c) \/ CloseStatement(c)
    \/ ClientBegin(c) \/ ClientRead(c) \/ ClientCommit(c) \/ ClientRollback(c)
    \/ Interrupt(c)
    \/ Crash(c)

Next == \E c \in Conns : CallStep(c) \/ ClientStep(c)

Spec == Init /\ [][Next]_vars

(* The steps a call takes when nothing outside it fails. *)
Progress(c) ==
    \/ Begin(c) \/ BeginBusy(c)
    \/ QueryVersion(c) \/ WrongVersion(c)
    \/ InsertMessage(c) \/ InsertRefused(c) \/ InsertBusy(c)
    \/ CommitMessage(c) \/ (outer[c] = "write" /\ CommitFails(c))
    \/ interrupted[c] /\ (\/ BeginFails(c) \/ QueryFails(c)
                          \/ InsertFails(c) \/ CommitFails(c))
    \/ Cleanup(c) \/ ReturnPosition(c) \/ ReturnError(c)

(***************************************************************************)
(* A call runs on the thread of its caller, and busy_timeout bounds the    *)
(* one wait in it: it takes its next step.  No error is relied upon, and   *)
(* nothing obliges an application to call, to end its transactions, to     *)
(* interrupt or to stay alive.                                             *)
(***************************************************************************)
FairSpec == Spec /\ \A c \in Conns : WF_vars(Progress(c))

-----------------------------------------------------------------------------
(***************************************************************************)
(* Safety.                                                                 *)
(***************************************************************************)

(* Nothing keeps a ROLLBACK of a cleanup from being executed: the condition
   under which confirmations are worth something. *)
RollbacksExecute == ~Interrupts /\ ~RollbackFails

(* The committed store is at all times what an event store must be: ids are
   unique, and the positions of a stream are 0, 1, 2, ... in the order of
   the global positions, whatever the connections do around each other. *)
StoreWellFormed == WellFormed(db)

(* The position computed from max(position) is free when the row reaches the
   INSERT: write_message never meets the unique index on (stream_name,
   position), so its INSERT can only be refused for what the caller passed. *)
PositionFree ==
    \A c \in Conns :
        pc[c] = "insert"
            => ~HasPosition(Snapshot(c), call[c].stream_name, position[c])

(* A call that began its own transaction decides on the committed version of
   the stream, and the version stays current until the call is over: the
   position it inserts is the next one, and a refusal for a wrong expected
   version is true at the time it is made. *)
DecisionCurrent ==
    \A c \in Conns : began[c] =>
        LET version == StreamVersion(db, call[c].stream_name)
        IN  /\ pc[c] = "insert" => position[c] = version + 1
            /\ pc[c] = "cleanup" /\ reply[c] = "wrong version"
                   => call[c].expected_version # version

(* Because it begins IMMEDIATE, a call that got past its BEGIN never fails
   for another writer: the INSERT has the write lock. *)
ImmediateSuffices ==
    \A c \in Conns : pc[c] = "insert" /\ began[c] => CanWrite(c)

(* A write that the application knows to be committed is in the store at the
   position it was told. *)
AckedDurable == \A a \in acked : RowOf(a) \in Rows(db)

(* expected_version is a compare-and-swap on the stream: of the writes that
   expected the same version of the same stream, at most one succeeds. *)
CompareAndSwap ==
    \A a, b \in acked :
        /\ a.expected_version # NoVersion
        /\ a.expected_version = b.expected_version
        /\ a.stream_name = b.stream_name
        => a = b

(* The positions returned inside a transaction that the application opened
   belong to that transaction until it ends: still there, none of them
   committed yet, in spite of other calls in it that fail. *)
BatchPending ==
    \A c \in Conns : \A a \in batch[c] :
        /\ RowOf(a) \in Rows(Snapshot(c))
        /\ ~HasId(db, a.id)

(* Outside a transaction of the application and outside its statements, no
   transaction of the connection is open: write_message cleaned up, as long
   as its ROLLBACK is executed. *)
NothingLeftOpen ==
    \A c \in Conns :
        pc[c] = "idle" /\ ~Stepping(c) /\ ~batching[c]
            => autocommit[c] /\ txn[c] = "none" /\ lock # c

(* A call that fails writes nothing: a committed message is one that its
   application knows of, is about to learn of, or could not be told of. *)
NoSilentWrite ==
    \A row \in Rows(db) :
        \/ row.id \in IdsOf(acked) \cup unconfirmed
        \/ \E c \in Conns : /\ pc[c] = "return"
                            /\ reply[c] = "position"
                            /\ row = NewRow(c)

(* Committed messages are never changed, moved or removed. *)
AppendOnly == [][Extends(db, db')]_db

(* The store and the confirmations behave as the abstract log: every commit
   appends messages at the positions their streams have reached, every
   position returned for good is true, and nothing else changes the log. *)
Log == INSTANCE MessageLog WITH log <- db.messages

ImplementsLog == Log!Spec

(***************************************************************************)
(* The inductive invariant of the safety proofs.                           *)
(***************************************************************************)

(* A call that has its position still works on the version of the database
   that it computed the position from. *)
PositionFromView ==
    \A c \in Conns : pc[c] = "insert" =>
        /\ txn[c] # "none"
        /\ position[c] = StreamVersion(view[c], call[c].stream_name) + 1

StoreInv == TypeOK /\ WriterContinues /\ AllSound /\ PositionFromView

(***************************************************************************)
(* Liveness.                                                               *)
(***************************************************************************)

(* Every call returns, whoever holds the write lock and for how long: two
   transactions that both read and now want to write do not wait for each
   other. *)
CallReturns == \A c \in Conns : pc[c] # "idle" ~> pc[c] = "idle"

=============================================================================
