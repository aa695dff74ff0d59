# msg-db in TLA+

This directory models msg-db, the SQLite port of Message DB: a loadable
extension (`extension/message_db.c`, `extension/msgdb_core.c`) that adds
`write_message`, stream-name functions and table-valued read functions to a
SQLite connection, and SQL scripts (`database/`) that create the `messages`
table they work on. Paths below are relative to the repository; inside
`PROJECT.json` they start with `src/`.

There is no server. Every process that opens the database file runs the
extension inside its own SQLite connection, and all coordination between
processes is SQLite's: WAL snapshots, one write lock, the autocommit flag. What
can go wrong is therefore in the *sequence of SQL statements* that one call
makes, and in what other connections do between two of them.

## Inventory

| Component | State | Operations | What makes it correct |
| --- | --- | --- | --- |
| `write_message` (`message_db.c:371-519`, `1057-1095`) | `began`, `committed`, the position computed; SQLite's transaction | BEGIN IMMEDIATE (only in autocommit mode), `max(position)` of the stream, check of `expected_version`, INSERT, COMMIT, cleanup | positions of a stream are 0, 1, 2, ... in global order; an id is stored once; `expected_version` is a compare-and-swap; a returned position is durable (or part of the caller's batch); a failed call leaves nothing behind |
| `messages` table (`database/tables`, `database/indexes`) | rows, AUTOINCREMENT counter | INSERT; triggers that refuse UPDATE and DELETE | append-only; unique id, unique (stream_name, position); no negative position |
| installation (`database/install.sql`, `uninstall.sql`) | schema objects | two scripts, statement by statement, no transaction | can be stopped anywhere and run again; complete when it says so |
| stream names (`msgdb_core.c:24-92`, `message_db.c:209-277`) | none | `category`, `is_category`, `id`, `cardinal_id` | spans inside the name, nothing lost, compound streams keep their cardinal id |
| UUIDv4 (`msgdb_core.c:110-180`) | none | canonical form, random generation | accepts what the CHECK of the table accepts; generated ids are canonical |
| `hash_64`, MD5 (`msgdb_core.c:94-108`, `182-345`) | block buffer | init, update, final, conversion of the digest | any block boundary; every digest has a slot in a consumer group |
| virtual table planning (`message_db.c:522-650`, argument part of `736-1011`) | idxNum, argv | xConnect, xBestIndex, decoding in xFilter, argument checks | rows answer the arguments that were passed |
| virtual table cursors (`message_db.c:652-734`, SQL of `736-1011`, `1161-1176`) | the nested statement, eof | xOpen, xFilter, xNext, xEof, xColumn, xRowid, xClose | a reader that resumes by position misses nothing and gets nothing twice; batches are bounded; consumer groups split a category by entity |
| `stream_version`, `acquire_lock`, `message_store_version` | none | one query, one hash, one constant | the version can be passed on as an expected version |
| fuzzers (`fuzz/`) | `fuzz_sql_model.c` keeps an oracle of the table | writes, reads, checks | the oracle stays equal to what the extension answers |
| summary views; registration; tests; build | | | not modelled, see below |

Interactions: `write_message` runs *inside* a statement of the application and
on the same connection. It opens a transaction of its own only when autocommit
is on, so that its behaviour depends on what the application did before: a plain
`SELECT write_message(...)`, a `SELECT` that calls it once per row of another
table, an `INSERT ... SELECT write_message(...)`, or a call inside
`BEGIN ... COMMIT`. The read functions run a nested statement that is stepped
lazily, while other connections, and the reader's own, write. Readers rely on
what writers guarantee: global positions become visible in their order, and
stream positions have no gaps.

Hard behaviours: two connections between the version query and the INSERT; a
stale snapshot in a deferred transaction; every error path between BEGIN and
COMMIT; SQLite rolling a transaction back on its own; a ROLLBACK of the cleanup
that fails itself; a crash between COMMIT and the reply and a
retry with the same id; a scan of the category that is being appended to;
argument decoding for join orders in which some arguments are not available.
`PROJECT.json` lists them as hazards, each at its line.

## Modules

| Module | What it is |
| --- | --- |
| `MessageStore` | The messages table as a value: rows by global position, the AUTOINCREMENT counter, unique-index lookups, `max(position)`; what a well-formed store is. |
| `Sqlite` | External: transactions of a WAL database. One operator per SQL statement (BEGIN, BEGIN IMMEDIATE, read, INSERT, COMMIT, ROLLBACK), with the write lock, a snapshot per connection and the autocommit flag. |
| `WriteMessage` | EXTENDS `Sqlite`: `write_message` on several connections. One action per SQL statement of the call and per way it can fail; actions of the application around it. |
| `MessageLog` | The abstract specification of the write side: a log that grows by messages at the positions their streams have reached, and confirmations that are true. It *counts* messages where the code takes a maximum. |
| `Schema` | EXTENDS `MessageStore`: install.sql and uninstall.sql statement by statement, in several sessions, and what writers and an application's own SQL do to the table meanwhile and afterwards. |
| `StreamNames` | The name functions, as spans and as SQL functions. |
| `Uuid` | Canonical ids, random ids, and the GLOB of the table's CHECK. |
| `Hash64` | The buffering, padding and length of MD5 and the signed number made of the digest. |
| `Queries` | EXTENDS `StreamNames`: the SQL behind the three table-valued functions: what a query selects, in which order, and the consumer group member of a stream. |
| `Retrieval` | EXTENDS `Queries`: readers of streams and categories with open statements and transactions, among writers. Its `log` is the committed store that `WriteMessage` is shown to maintain. |
| `TableArguments` | Planning and argument decoding of the table-valued functions. What it accepts is what `Retrieval` assumes of its queries (`RetrievalDefined` against `QueryAssumption`). |
| `FuzzModel` | EXTENDS `Queries`, `MessageStore`: the composition of writes and reads that `fuzz_sql_model.c` exercises, with the fuzzer's oracle next to the store, and its checks as invariants. |
| `FuzzStrings` | EXTENDS `Queries`, `Uuid`, `Hash64`: every input of the text functions up to a bound, where `fuzz_strings.c` takes random ones; its checks and reference definitions as invariants. |
| `MCWriteMessage`, `MCRetrieval`, `MCTableArguments`, `MCFuzzModel`, `MCSchema` | Instances for TLC. |
| `MessageStoreProofs` | Lemmas on table values. |
| `WriteMessageProofs`, `ConfirmationProofs` | Theorems about `WriteMessage`: the SQL statements, the store and the decisions of a call; on top of it, what a confirmation is worth, and the refinement of `MessageLog`. |
| `RetrievalProofs`, `SchemaProofs`, `TableArgumentsProofs`, `FuzzModelProofs`, `FuzzStringsProofs` | Theorems about these modules. |

Definitions whose comment begins with "Defect:" are variants of the definition
that follows them, with a mistake one could make in that code. No specification
uses them; substituted for their neighbour they break a property, which shows
that the property can tell.

### WriteMessage and the code

`pc[c]` is the statement that the call on connection `c` runs next:

| pc | Code | Actions |
| --- | --- | --- |
| `idle` | no call | `Start`, and the application's statements |
| `begin` | `message_db.c:421-429` | `Begin`, `BeginBusy`, `BeginFails` |
| `query` | `431-446`, `query_stream_version` | `QueryVersion`, `WrongVersion`, `QueryFails` |
| `insert` | `448-489` | `InsertMessage`, `InsertRefused`, `InsertBusy`, `InsertFails` |
| `commit` | `491-501` | `CommitMessage`, `CommitFails` |
| `cleanup` | `505-518` | `Cleanup` |
| `return` | the end of the function and of the calling statement | `ReturnPosition`, `ReturnError`, `ReturnInterrupted` |

`began[c]` is the C variable; `autocommit[c]` is what `sqlite3_get_autocommit`
returns. `outer[c]` says whether the call is made by a statement that goes on
after it: one that reads (`OpenSelect`) keeps its snapshot across the COMMIT of
the call; one that writes (`OpenWrite`) makes SQLite refuse that COMMIT.
`batching[c]` says that the application has issued BEGIN; it differs from
`autocommit` when SQLite has rolled the batch back by itself. `acked`, `batch`
and `unconfirmed` are history variables: what the application knows committed,
what it was told inside an open transaction, and what was written without its
learning of it. No guard of the code's steps reads them.

Arguments that are refused (NULL, not a UUID, `expected_version` not an integer)
run no SQL; they are calls that never start. CHECK constraints and `json()` are
the free choice between `InsertMessage` and `InsertRefused`. A failure that no
condition of the model causes (disk full, no memory) may happen at every
statement. The ROLLBACK of the cleanup always fails on an interrupted
connection; whether it may fail otherwise (no memory to prepare it) is the
constant `RollbackFails`. `RollbacksExecute`, neither interrupts nor such
failures, is the condition under which confirmations are worth something.

The semantics of `Sqlite` were compared with the real library by running the
extension: a stale deferred transaction gets "database is locked" and stays
open; a failed row of an outer SELECT leaves the earlier rows committed; COMMIT
inside `INSERT ... SELECT` is refused ("SQL statements in progress"); an
interrupted INSERT rolls the whole transaction back while an interrupted query
or COMMIT does not; an open scan sees what its own connection appends.

### Retrieval and the code

`Filter`, `Emit`, `Advance`, `AdvanceFails` and `Close` are xFilter (which steps
to the first row), xEof/xColumn for a row that exists, xNext, an xNext whose
nested statement fails, and xClose. `view` is how much of the log the open
statement sees: fixed when the statement begins, and extended only by
`WriteWhileReading`, the reader's own writes between two rows, which SQLite lets
through only while nobody else has committed. `next[r]` is what the application
passes as position: one past the last message it got. A reader may do all this
in a transaction of its own, write in it, and roll back; what it made of the
messages and its position then go back with it. `seen` is history. `hash_64` is
any function into a signed range; in the instances it takes the smallest value,
which has no absolute value, and a negative one.

### TableArguments and the code

The planner offers any set of usable constraints (`BestIndex`, `NotPrepared`);
the values are chosen when the filter runs. Values are reduced to what the code
looks at: type, number, and whether a text is a category. Hidden columns that
were not consumed are compared by SQLite with the NULL that xColumn gives, so
no row passes ("nothing").

### Schema and the code

A statement of a script is a transaction of its own, so that `at[s]` is all that
is left of a session between two of them. `Create` and `Drop` follow
IF NOT EXISTS and IF EXISTS. A statement of install.sql that cannot succeed (a
unique index over duplicates), or that fails for reasons outside, ends the
script (`Bail`: `.bail on`, `install.sql:1`). uninstall.sql does not say
`.bail on`, so the shell goes on with the next statement after a failure
(`DropFails`). With the table go its triggers, all its indexes, its rows and the
AUTOINCREMENT counter; the views stay. `dropped[s]` is history: whether another
session dropped anything since `s` began.

`write_message` is one step here, as `ImplementsLog` allows. Applications may
also run INSERT and INSERT OR REPLACE, with a global position of their own or
without, UPDATE (of the other columns) and DELETE, whenever the primary key, the
indexes and the triggers that exist let them. ALTER and DROP by applications are
left out: they are not what the scripts promise anything about. `MaxPosition`
stands for INT64_MAX; the signed sum `version + 1` past it
(`message_db.c:446`) is undefined in C, so it may be any 64-bit number.

### The fuzzers

`FuzzModel` translates `run_write`, `model_stream_version`, the three read
checks and `verify_invariants`; the database side comes from `MessageStore` and
`Queries`. The fuzzer decodes one random action at a time; the model lets every
write happen and makes every check in every state. `FuzzStrings` replaces the
random bytes by inputs that grow or change one character at a time, and adds
what the fuzzer has no reference for: the hash of a text fed in one block
against one concatenation, and the CHECK of the table (the GLOB pattern written
out place by place, independent of the check in C). Of `fuzz_vtab_args.c` the
kinds of values it binds are those of `TableArguments`.

## Runs

| Run | Instance | Shows |
| --- | --- | --- |
| `write_message` | 2 connections, 1 stream, 2 ids, expected version -1 or none | All safety properties, the append-only action property, and that the whole implements `MessageLog`. |
| `calls_return` | 2 connections, 1 id, interrupts, ROLLBACKs that fail, fairness | Every call returns; the inductive invariant `StoreInv` also holds in the transactions that failed cleanups leave open. |
| `interrupted_confirmation` | 1 connection, 1 id, interrupts | **Violation**: see below. |
| `schema` | 2 sessions that install, 1 that uninstalls once, global positions 1 and 2, 1 failure, `MaxPosition` 1, fairness | A finished installation is complete and free of duplicates; it is completed at last; no position is negative. |
| `schema_replace` | 1 session that installs | **Violation**: see below. |
| `strings` | names of up to 7 characters over `a`, `-`, `+`; ids with up to 2 changes; random bytes around each mask; texts of 0 to 200 bytes; all 8-bit digests | Names are split without loss, ids are accepted as the table accepts them, padding and length are right at every block boundary, every digest has a slot. |
| `consumer_group` | 2 members, 4 streams, up to 4 messages, batch sizes 2 and none | Nothing repeated, bounded batches, entities stay together. |
| `followers` | a stream reader and a correlation reader, up to 3 messages, transactions of the readers | Nothing skipped, and a short batch means caught up, in spite of failing steps and rollbacks. |
| `group_handles` | 2 members, up to 3 messages, fairness | Every message is handled. |
| `table_arguments` | up to 2 optional arguments, values around the boundaries, every join order | Rows answer the arguments asked. |
| `condition_argument` | 1 optional argument | **Violation**: see below. |
| `fuzz_model` | 3 streams in 2 categories, up to 3 messages, 5 positions, 6 batch sizes | The oracle and the extension agree on every write, version and read. |

Bounds. Two connections suffice for every race in the code: a conflict is
between the call and one other writer, and the write lock admits one. Two ids
give two messages, a duplicate, and a retry; they are also the bound on the
length of the store, since an id is stored once. `fuzz_model` has the several
streams that distinguish "the stream" from "the table". `MaxLog` of 3 or 4 lets
a batch of 2 end before, at and after the last message, with messages of other
members in between. Seven characters hold each separator twice with text around
it; 200 bytes are three blocks and more. For the arguments, two optional ones
include each pair that is checked together (member and size) and every hole
before them. In `schema`, two rows are what a duplicate needs (`MaxRows` bounds
the largest key, so that two rows may also come in the other order), one failure
stops an installer, or skips a statement of the uninstaller, at each of its
statements, and one uninstallation meets both installers at each of theirs; `MaxPosition` 1 is reached by two messages.
Symmetry is used for connections and ids, in safety properties and refinement
only, never in a run with liveness: nothing orders or names them.

Deadlock is checked wherever the system runs on for ever. `strings` and
`table_arguments` end by design (an input grows up to its bound, a statement is
executed once), and so do the schema runs, whose sessions are done and whose
rows are bounded.

Fairness. `WriteMessage`: weak fairness of each call's own next step. A call
runs on its caller's thread, and its only wait, for the write lock in BEGIN
IMMEDIATE, is bounded by `busy_timeout` (0 when it was not set), so "busy" is
always among the steps it can take. Nothing is assumed of the application: it
may hold the lock for ever. `Retrieval`: the reader goes on polling and closes
ended statements (weak), and does not abandon every statement, or see it fail,
before it takes a row (strong fairness of `Emit`). That is an assumption on the
application; the extension has no scheduler of its own. `Schema`: the shell goes
on with a script it runs, and whoever installs runs install.sql again until it
is done (weak fairness per session; nothing of the uninstaller or of writers).

## What was found

*An interrupted call leaves a transaction open* (`interrupted_confirmation`,
`message_db.c:516`). `sqlite3_interrupt` between BEGIN IMMEDIATE and COMMIT makes
the next nested statement fail, and the ROLLBACK of the cleanup with it; its
outcome is ignored. (So is any other failure of that ROLLBACK, which has the
same effect.) The connection now holds the write lock in a transaction
nobody knows of. The next plain `write_message` sees autocommit off, does not
begin or commit, and returns a position for a message that is gone when the
connection closes. Reproduced with the real extension. The store itself stays
well formed: `StoreInv` holds with interrupts and failing ROLLBACKs
(`calls_return`, and proved).

*A condition is not always refused* (`condition_argument`, `message_db.c:633`).
The README says that any non-NULL condition fails. If the condition is a column
of a table that the plan reads later, xBestIndex accepts the plan without it,
and the statement returns no rows and no error. Other optional arguments suffer
alike: `FROM get_stream_messages('account-1', p.pos), p` is empty where the same
join written with CROSS JOIN in the other order has rows. Reproduced too.

*Append-only has a gap* (`schema_replace`, `tables/messages.sql:22`). INSERT OR
REPLACE with the global position, the id, or the stream name and position, of a
stored message deletes that message without firing the DELETE trigger, since
`recursive_triggers` is off unless an application turns it on.

*Limits, not defects.* A stream without an id (named like its category) is
returned to no member of a consumer group, since its cardinal id is NULL;
`EveryMessageHandled` is stated for the others. An application that writes
duplicates with its own SQL between CREATE TABLE and CREATE UNIQUE INDEX makes
the installation impossible to finish, and once the trigger on DELETE exists it
cannot remove them; `InstallCompletes` names that exception, which includes an
application that makes duplicates again and again. When SQLite rolls back a batch
of the application on its own (disk full, an interrupted INSERT), the next
`write_message` of what the application takes for its batch finds autocommit on
and commits by itself (`message_db.c:421`): the batch is then not atomic. No
document promises otherwise, the extension cannot see where the batch began, and
the application learns of it when its COMMIT fails ("no transaction is active");
`NoSilentWrite` counts such messages as written without a confirmation
(`unconfirmed`), so no property rules this out.

*Global positions become visible in order.* A consumer that resumes after the
last global position it got would lose a message that is committed later with a
smaller one. `Retrieval` takes the order for granted, since its log only grows at
the end. It is a property of the write side: `Grows` of `MessageLog`, checked by
`write_message` (`ImplementsLog`) and proved with every failure
(`LogAlwaysGrows`). INSERTs with a global position chosen by the application
are outside of it.

## Proofs

`tlapm` checks all eight proof modules, from nothing but the library's theorems.
Each theorem holds for every value of the constants that satisfies the
assumptions of its module; the runs show the same properties on the small
instances above. Every safety property that a passing run checks has its
theorem. Where a theorem is `Spec => []Inv`, it rests on an inductive invariant,
which TLC checked on an instance before it was proved.

### The store and the decisions (`WriteMessageProofs`)

For any sets of connections, streams, ids and expected versions, and with
interrupts and failing ROLLBACKs. Assumed: `NoConn` is no connection, `NoVersion`
is no integer, expected versions are integers, `Interrupts` and `RollbackFails`
are Booleans.

| Theorem | States |
| --- | --- |
| `TypeCorrect` | `Spec => []TypeOK` |
| `StoreAlwaysWellFormed` | `Spec => []StoreWellFormed`: ids unique, streams ordered by global position, streams without gaps |
| `PositionAlwaysFree` | `Spec => []PositionFree`: the INSERT never meets the unique index on (stream_name, position) |
| `StoreIsAppendOnly` | `Spec => AppendOnly` |
| `DecisionAlwaysCurrent` | `Spec => []DecisionCurrent`: a call in a transaction of its own inserts after the committed version, and refuses an expected version only while the committed one is another |
| `ImmediateAlwaysSuffices` | `Spec => []ImmediateSuffices`: after BEGIN IMMEDIATE no other writer makes the INSERT fail |

`StoreWellFormed` is about the committed store only, and a COMMIT replaces that
by a working copy, so it is not inductive. `StoreInv` (`StoreInvHolds`) adds:
`AllSound`, every database there is (committed, snapshot, working copy) is well
formed, and each of its streams has a version, so that the CHOOSE in
`StreamVersion` denotes one; `WriterContinues`, only the holder of the lock
writes and its working copy extends the *current* committed store, which needs
the refusal of stale snapshots in `CanWrite`; and `PositionFromView`, a call that
is about to insert has the version of the very copy it inserts into.
`MessageStoreProofs` shows that a row at the next position keeps a table sound;
`WriteMessageProofs` shows, SQL statement by SQL statement, that the database
part of the invariant is kept, and then has one lemma per group of actions. The
run `calls_return` checks `StoreInv` itself.

`DecisionInv` (`DecisionInvHolds`) says of each call that, from BEGIN IMMEDIATE
to its INSERT or refusal, it holds the lock and its copy *is* the committed
store. To be inductive it also says where `began` and autocommit can be set, and
that a calling statement that already writes has not changed the messages. The
steps of the others keep it because without the lock nobody changes the
committed store (`StepsKeepOthers`); those of the call and its application are
taken one by one.

### Confirmations and the abstract log (`ConfirmationProofs`)

| Theorem | States |
| --- | --- |
| `BatchAlwaysPending` | `Spec => []BatchPending`, also with interrupts and failing ROLLBACKs |
| `NothingStaysOpen` | `RollbacksExecute => (Spec => []NothingLeftOpen)` |
| `AckedAlwaysDurable` | `RollbacksExecute => (Spec => []AckedDurable)` |
| `NothingSilent` | `RollbacksExecute => (Spec => []NoSilentWrite)` |
| `ExpectedVersionSwaps` | `RollbacksExecute => (Spec => []CompareAndSwap)` |
| `LogAlwaysGrows` | `Spec => [][Log!Grows]_vars`, also with interrupts and failing ROLLBACKs |
| `LogImplemented` | `RollbacksExecute => (Spec => ImplementsLog)` |

`RollbacksExecute` (`~Interrupts /\ ~RollbackFails`) says that the application
never calls `sqlite3_interrupt` and that the ROLLBACK of a cleanup does not fail
for another reason. It is needed: a call whose ROLLBACK is not executed leaves
its transaction open, and the run
`interrupted_confirmation` shows `AckedDurable` false then. The run
`write_message` checks these properties under the same condition. Four
invariants carry the theorems, on top of `StoreInv` and `DecisionInv`:

* `PendingInv` says where the rows are that a connection was told of or is about
  to be told of: in its open transaction as long as autocommit is off, in the
  committed store when a plain call is about to return. `BatchPending` alone is
  not inductive, since a failing call could have begun a transaction while a
  batch is open; that it has not is a part of `PendingInv`.
* `VersionInv`: every position follows the version that was expected. With
  unique positions, and since the rows of all confirmations are in the committed
  store, two confirmations for one expected version are the same one.
* `ClosedInv`: only the application, or a call that is not over, has a
  transaction open. This is where failing ROLLBACKs have to be excluded.
* `AccountedInv`: every row of a working copy is committed, of the batch, or
  about to be returned, except between a failed COMMIT and the ROLLBACK of the
  cleanup. What a COMMIT makes visible is then known to the application.

For the refinement, `db.messages` and `acked` are the state of `MessageLog`. The
initial states map (`ConfirmationInitially`), and every step maps to a step or a
stutter (`StepsImplementLog`): `AppendOnly` and `StoreInv'` give `Grows`, where
`PositionsCount` of `MessageStoreProofs` turns the maximum that the code
computes into the count that the log speaks of; `AckedDurable'` and
`VersionInv'` give `Confirms`. The first half holds whatever fails
(`LogAlwaysGrows`). It is what the global order in `Retrieval` and its `Commit`
rest on, where each write appends one message, behind all others, at the position
that its stream has reached.

### Readers (`RetrievalProofs`)

For any readers and queries, any hash and any length of the log (`MaxLog` plays
no part). Assumed: `HashAssumption`, the hash is an integer of the signed range;
`QueryAssumption`, the queries are those the filter functions can bind, which
`RetrievalsDefined` below shows.

| Theorem | States |
| --- | --- |
| `TypesHold` | `Spec => []TypeOK` |
| `NothingSkipped` | `Spec => []NoneSkipped` |
| `NothingRepeated` | `Spec => []NoneRepeated` |
| `BatchesBounded` | `Spec => []BatchBounded` |
| `ShortBatchesCatchUp` | `Spec => []ShortBatchCaughtUp` |
| `EntitiesTogether` | `Spec => []EntitiesStayTogether` |
| `GroupsLoseNothing` | of a group that runs all its members, one selects each message with a cardinal id |

`NoneSkipped` says nothing of messages to come, so it is not inductive. In
`RetrievalInv`, `Positioned` says that a position counts the earlier messages of
its stream, which makes the key that a query resumes by increase with the global
position (`LogInOrder`). Then what a reader has is a frontier (`Reached`): all
and only the selected messages before the position it asks for next, and that
position is the first or follows a message it got, so that no append falls
behind it. The frontier is kept for what each reader sees, and separately for
the state a rollback returns to (`RollbackReached`): the two differ in a
transaction. `CursorsFit` ties the current row of an open statement to that
frontier, and counts what was returned, which batches need.

### Installation (`SchemaProofs`)

For any sessions, ids, streams and width of a position. Assumed: `MaxPosition`
is a positive natural number, no session both installs and uninstalls, the
bounds on failures and uninstallations are natural numbers.

| Theorem | States |
| --- | --- |
| `TypesHold` | `Spec => []TypeOK` |
| `PositionsStayInRange` | `Spec => []PositionsInRange` |
| `InstallationsComplete` | `Spec => []InstalledComplete` |
| `AppendOnlyButForReplace` | once both triggers exist, of the modelled statements only INSERT OR REPLACE and the DROP TABLE of uninstall.sql change or remove a message |

`SchemaInv` adds to the type that the table has its keys below the counter and
positions in range (`TableInv`, without which a version past the largest position
would be possible), that a unique index that exists stands over a table without
duplicates (`UniqueInv`: it is created over such a table only, and refuses or
replaces afterwards), and that a running script finds all that it has got behind
it (`ScriptsInv`). The last theorem says that the gap found by `schema_replace`
is the only one among these statements.

### Arguments (`TableArgumentsProofs`)

For any integers as values. Assumed: `Numbers` are integers.

| Theorem | States |
| --- | --- |
| `RowsAreAsAsked` | `Spec => []RowsAsAsked` |
| `NamesReachFilter` | `Spec => []NameReachesFilter` |
| `RetrievalsDefined` | `Spec => []RetrievalDefined` |

The heart is `ArgumentsArrive`: xBestIndex numbers the consumed constraints by
column, xFilter counts the bits of idxNum below the one it looks for, and for
every set of consumed columns both find the same value. `ArgumentsInv` holds an
answer to what was asked.

### The fuzzer's oracle (`FuzzModelProofs`)

For any streams, ids, types, correlations and number of messages. Assumed: the
positions and batch sizes that are read with are integers.

| Theorem | States |
| --- | --- |
| `WritesFollowOracle` | `Spec => []WritesAsModelled` |
| `VersionsFollowOracle` | `Spec => []VersionAsModelled` |
| `StreamReadsFollowOracle` | `Spec => []StreamReadAsModelled` |
| `CategoryReadsFollowOracle` | `Spec => []CategoryReadAsModelled` |
| `LastReadsFollowOracle` | `Spec => []LastReadAsModelled` |

`FuzzInv` says that the oracle's array is the table, and that the table, without
the columns that no index compares (`Plain`), is sound; so the lemmas about
tables serve here too. The reads compare two recursive functions: the statement
that finds each next row from the key of the last one, and the walk over the
array. Each is shown to exist and to produce the batch (`IsBatch`, `IsWhole`) of
the selected messages, of which there is only one (`OneBatch`). The induction
over their steps is the lemma `CountingUp`, which speaks of a set of numbers in
place of a predicate.

### Names, ids and hashes (`FuzzStringsProofs`)

For names over any characters and of any length, ids with any number of changes
to any characters, any random bytes, texts of any length, digests of any width
and consumer groups of any size: `MaxLength`, `MaxEdits` and `MaxBytes` play no
part. Assumed: NULL is not a name and the refusal of an id not an id
(`NullAssumption`); `MaxHash` and `MaxGroup` are natural numbers and `Bytes` are
bytes (`NumbersAssumption`).

| Theorem | States |
| --- | --- |
| `SpansAlwaysInBounds` | `Spec => []SpansInBounds` |
| `SplitsLoseNothing` | `Spec => []SplitLosesNothing` |
| `CompoundsKeepTheirCardinalId` | `Spec => CompoundsKeepCardinalId` |
| `IdsAcceptedAlike` | `Spec => []IdsAsColumnAccepts` |
| `GeneratedIdsAccepted` | `Spec => []GeneratedIdsCanonical` |
| `HashesWholeText` | `Spec => []HashOfWholeText` |
| `DigestsHaveSlots` | `Spec => []EveryDigestHasASlot` |

The inductive invariant is no more than what an input is (`InputsInv`); the
work is in lemmas about the functions.

* Names: the first occurrence of a separator exists when there is one
  (`LeastExists`), is the fuzzer's own first hyphen (`FirstDashIsHyphen`), and
  stays where it is when a character is appended (`OffsetOfAppended`). That gives
  the spans their form (`SpansOfName`) and a name its two parts (`TextsOfName`).
* Ids: `CanonicalForm` says position by position what is stored for an accepted
  text, and lowering a character twice is lowering it once. `DigitsPlaced` and
  `MarkedBytes` follow the digits of the bytes to their places between the
  hyphens.
* MD5: `TakenIn` is the invariant of the context. It holds of the data that a
  context was given if the blocks that were transformed, followed by the buffer,
  are these data, the blocks are whole, and the buffer is not full.
  `UpdateTakesIn` shows that `md5_update` keeps it for every state of the buffer
  and every length of what is added: the buffer stays short, or just fills, or
  fills and whole blocks follow. `PaddingFits` is the arithmetic of the padding.
  Then text, padding and length are whole blocks together, so that the buffer is
  empty (`WholeTakenIn`), and the padding is the only one that MD5 allows.

### Only model-checked

* Liveness: `CallReturns`, `EveryMessageHandled`, `InstallCompletes`. The prover
  has neither ENABLED nor fairness.
* The three runs that expect a violation show counterexamples; there is nothing
  to prove about them but that the exception is the only one
  (`AppendOnlyButForReplace`, and the theorems under `RollbacksExecute`).

## Plan

All of it is done, in this order: the write path and its abstract log, its
proofs; names; retrieval and consumer groups; arguments; readers in transactions
and with failing statements; schema and installation; ids and hash; the fuzzer's
oracle; the proofs about decisions, confirmations and the refinement of the log,
about readers, installation, arguments and the oracle, and about names, ids and
hashes. A change of the code is best followed in the same order: the module that
"map" in `PROJECT.json` names for its lines, the run, then the proof.

## Not modelled, and why

The block transformation of MD5 (32-bit arithmetic without a choice to make;
where a hash is needed it is an arbitrary function), message payloads and JSON
normalisation (they only decide whether the INSERT is refused), time stamps, the
summary views (read-only percentages), `acquire_lock` (it returns a hash and
locks nothing) and the version constant, registration of functions, memory
management of the vtab objects, the build and the tests, and how the fuzzers
draw inputs from bytes. SQLite's WAL recovery is taken as atomic commit. Other
journal modes than WAL, which the scripts set, are not considered; a wait for a
lock may end at any time, which covers every `busy_timeout`.
