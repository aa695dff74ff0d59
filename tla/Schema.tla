------------------------------- MODULE Schema -------------------------------
(***************************************************************************)
(* The schema of the message store over its lifetime: install.sql and      *)
(* uninstall.sql, which run statement by statement, each its own           *)
(* transaction, and what connections can do to the messages table in the   *)
(* meantime and afterwards, with write_message and with SQL of their own.  *)
(*                                                                         *)
(* When a statement fails, install.sql stops (".bail on"), and in          *)
(* uninstall.sql, which does not say so, the shell goes on with the next   *)
(* one.  A script may be run again at any time, also next to other ones.   *)
(*                                                                         *)
(* The SQL of applications is INSERT and INSERT OR REPLACE, with or        *)
(* without a global_position of their own, UPDATE of the other columns and *)
(* DELETE.  ALTER and DROP of theirs are left out: the properties are      *)
(* about what the scripts do to the schema.                                *)
(***************************************************************************)
EXTENDS MessageStore, Sequences

CONSTANTS Installers,       \* sessions that run install.sql
          Uninstallers,     \* sessions that run uninstall.sql
          MaxPosition,      \* the largest 64-bit integer
          MaxFailures,      \* bound: statements that fail for no reason here
          MaxRows,          \* bound: the largest global position
          MaxUninstalls     \* bound: runs of uninstall.sql

ASSUME MaxPositionAssumption == MaxPosition \in Nat \ {0}
ASSUME SessionsAssumption == Installers \cap Uninstallers = {}
ASSUME BoundsAssumption == MaxFailures \in Nat /\ MaxUninstalls \in Nat

Sessions == Installers \cup Uninstallers

Triggers == {"no_update", "no_delete"}

UniqueIndexes == {"messages_id", "messages_stream"}

(* What the statements of install.sql create, in their order.  The three
   indexes that are not unique, and the six views, are one object each: they
   refuse no row. *)
Install == <<"messages", "no_update", "no_delete", "messages_id",
             "messages_stream", "other_indexes", "views">>

(* What the statements of uninstall.sql drop. *)
Uninstall == <<"views", "other_indexes", "messages_stream", "messages_id",
               "messages">>

Objects == {Install[i] : i \in 1 .. Len(Install)}

VARIABLES
    objects,        \* the schema objects there are
    store,          \* the messages table
    script,         \* script[s]: the state of the script that s runs
    at,             \* at[s]: its next statement
    dropped,        \* dropped[s]: something was dropped since s began
    failures, uninstalls    \* counted for their bounds

sessionVars == <<script, at, dropped>>
vars == <<objects, store, sessionVars, failures, uninstalls>>

TypeOK ==
    /\ objects \subseteq Objects
    /\ objects \ {"views"} # {} => "messages" \in objects
    /\ "messages" \notin objects => store = EmptyStore
    /\ \A row \in Rows(store) : row \in [id : Ids, stream_name : Streams,
                                         position : Int]
    /\ script \in [Sessions -> {"idle", "running", "done"}]
    /\ at \in [Sessions -> 1 .. Len(Install)]
    /\ dropped \in [Sessions -> BOOLEAN]
    /\ failures \in 0 .. MaxFailures /\ uninstalls \in 0 .. MaxUninstalls

Init ==
    /\ objects = {}
    /\ store = EmptyStore
    /\ script = [s \in Sessions |-> "idle"]
    /\ at = [s \in Sessions |-> 1]
    /\ dropped = [s \in Sessions |-> FALSE]
    /\ failures = 0 /\ uninstalls = 0

-----------------------------------------------------------------------------
(* A session starts its script. *)
Start(s) ==
    /\ script[s] = "idle" \/ (script[s] = "done" /\ dropped[s])
    /\ s \in Uninstallers => uninstalls < MaxUninstalls
    /\ uninstalls' = IF s \in Uninstallers THEN uninstalls + 1 ELSE uninstalls
    /\ script' = [script EXCEPT ![s] = "running"]
    /\ at' = [at EXCEPT ![s] = 1]
    /\ dropped' = [dropped EXCEPT ![s] = FALSE]
    /\ UNCHANGED <<objects, store, failures>>

(* The script goes on to its next statement, or is done. *)
GoOn(s, statements) ==
    /\ script' = [script EXCEPT ![s] = IF at[s] = Len(statements) THEN "done"
                                                                  ELSE @]
    /\ at' = [at EXCEPT ![s] = IF at[s] = Len(statements) THEN 1 ELSE @ + 1]

(* Two rows that a unique index does not allow. *)
Duplicated(index) ==
    \E g, h \in GlobalPositions(store) :
        LET row == store.messages[g]
            other == store.messages[h]
        IN  /\ g # h
            /\ IF index = "messages_id" THEN row.id = other.id
               ELSE /\ row.stream_name = other.stream_name
                    /\ row.position = other.position

(* Defect: CREATE without IF NOT EXISTS. *)
CreatableOnce(object) ==
    /\ object \notin objects
    /\ object \notin {"messages", "views"} => "messages" \in objects
    /\ object \in UniqueIndexes => ~Duplicated(object)

(* CREATE ... IF NOT EXISTS does not fail: a trigger or index, but not a
   view, needs its table, and a unique index rows without duplicates. *)
Creatable(object) ==
    \/ object \in objects
    \/ /\ object \notin {"messages", "views"} => "messages" \in objects
       /\ object \in UniqueIndexes => ~Duplicated(object)

Create(s) ==
    /\ s \in Installers /\ script[s] = "running"
    /\ Creatable(Install[at[s]])
    /\ objects' = objects \cup {Install[at[s]]}
    /\ GoOn(s, Install)
    /\ UNCHANGED <<store, dropped, failures, uninstalls>>

(* Defect: the triggers and indexes stay when their table goes. *)
DropAlone(s) ==
    /\ s \in Uninstallers /\ script[s] = "running"
    /\ LET object == Uninstall[at[s]]
       IN  /\ objects' = objects \ {object}
           /\ store' = IF object = "messages" THEN EmptyStore ELSE store
    /\ dropped' = [r \in Sessions |-> r # s \/ dropped[r]]
    /\ GoOn(s, Uninstall)
    /\ UNCHANGED <<failures, uninstalls>>

(* DROP ... IF EXISTS.  With the table go its triggers and indexes, its rows
   and their AUTOINCREMENT counter; the views stay. *)
Drop(s) ==
    /\ s \in Uninstallers /\ script[s] = "running"
    /\ LET object == Uninstall[at[s]]
       IN  /\ objects' = IF object = "messages"
                         THEN objects \cap {"views"}
                         ELSE objects \ {object}
           /\ store' = IF object = "messages" THEN EmptyStore ELSE store
    /\ dropped' = [r \in Sessions |-> r # s \/ dropped[r]]
    /\ GoOn(s, Uninstall)
    /\ UNCHANGED <<failures, uninstalls>>

(* Defect: without ".bail on", install.sql goes on too. *)
IgnoreFailure(s) ==
    /\ s \in Installers /\ script[s] = "running"
    /\ \/ failures < MaxFailures /\ failures' = failures + 1
       \/ ~Creatable(Install[at[s]]) /\ UNCHANGED failures
    /\ GoOn(s, Install)
    /\ UNCHANGED <<objects, store, dropped, uninstalls>>

(* A statement of install.sql fails, for want of a lock, space or the
   extension or because of the rows there are, and the script stops. *)
Bail(s) ==
    /\ s \in Installers /\ script[s] = "running"
    /\ \/ failures < MaxFailures /\ failures' = failures + 1
       \/ ~Creatable(Install[at[s]]) /\ UNCHANGED failures
    /\ script' = [script EXCEPT ![s] = "idle"]
    /\ at' = [at EXCEPT ![s] = 1]
    /\ UNCHANGED <<objects, store, dropped, uninstalls>>

(* A statement of uninstall.sql fails, and the shell goes on after it. *)
DropFails(s) ==
    /\ s \in Uninstallers /\ script[s] = "running"
    /\ failures < MaxFailures /\ failures' = failures + 1
    /\ GoOn(s, Uninstall)
    /\ UNCHANGED <<objects, store, dropped, uninstalls>>

-----------------------------------------------------------------------------
(* Defect: no CHECK (position >= 0). *)
ChecksNothing(row) == TRUE

(* The CHECK constraint on position. *)
Checks(row) == row.position >= 0

(* The stored rows in the way of a row with a key: that of the same key, and
   its duplicates for the unique indexes that there are. *)
Conflicts(key, row) ==
    {g \in GlobalPositions(store) :
        LET old == store.messages[g]
        IN  \/ g = key
            \/ "messages_id" \in objects \cap UniqueIndexes /\ old.id = row.id
            \/ /\ "messages_stream" \in objects \cap UniqueIndexes
               /\ old.stream_name = row.stream_name
               /\ old.position = row.position}

(* The key that AUTOINCREMENT chooses. *)
NextKey == store.sequence + 1

(* A table with a row more; the counter keeps the largest key. *)
WithRow(table, key, row) ==
    [messages |-> [g \in GlobalPositions(table) \cup {key} |->
                      IF g = key THEN row ELSE table.messages[g]],
     sequence |-> IF key > table.sequence THEN key ELSE table.sequence]

(* INSERT of one row, by write_message or by an application that chooses the
   position itself, and perhaps the key. *)
InsertRow(key, row) ==
    /\ "messages" \in objects
    /\ key <= MaxRows
    /\ Checks(row)
    /\ Conflicts(key, row) = {}
    /\ store' = WithRow(store, key, row)
    /\ UNCHANGED <<objects, sessionVars, failures, uninstalls>>

(* The position after the version.  Past the largest 64-bit integer the sum
   is undefined in C, and may be any. *)
NextPositions(version) ==
    IF version < MaxPosition THEN {version + 1}
                             ELSE -MaxPosition - 1 .. MaxPosition

(* write_message, as the one step that its transaction makes it. *)
WriteMessage(id, stream) ==
    \E position \in NextPositions(StreamVersion(store, stream)) :
        InsertRow(NextKey, [id |-> id, stream_name |-> stream,
                            position |-> position])

(* The table without some rows. *)
Without(rows) ==
    [store EXCEPT !.messages = [g \in GlobalPositions(store) \ rows |-> @[g]]]

(* INSERT OR REPLACE deletes the rows that are in the way of the new one; the
   trigger on DELETE does not fire for them. *)
Replace(key, row) ==
    /\ "messages" \in objects
    /\ key <= MaxRows
    /\ Checks(row)
    /\ store' = WithRow(Without(Conflicts(key, row)), key, row)
    /\ UNCHANGED <<objects, sessionVars, failures, uninstalls>>

(* DELETE FROM messages; the trigger refuses it. *)
Delete(g) ==
    /\ "no_delete" \notin objects
    /\ store' = Without({g})
    /\ UNCHANGED <<objects, sessionVars, failures, uninstalls>>

(* UPDATE messages; the trigger refuses it. *)
Update(g, row) ==
    /\ "no_update" \notin objects
    /\ Checks(row)
    /\ Conflicts(g, row) = {g}
    /\ store' = [store EXCEPT !.messages[g] = row]
    /\ UNCHANGED <<objects, sessionVars, failures, uninstalls>>

Next ==
    \/ \E s \in Sessions :
           Start(s) \/ Create(s) \/ Drop(s) \/ Bail(s) \/ DropFails(s)
    \/ \E id \in Ids, stream \in Streams :
           \/ WriteMessage(id, stream)
           \/ \E position \in 0 .. MaxPosition :
                  LET row == [id |-> id, stream_name |-> stream,
                              position |-> position]
                  IN  \/ \E key \in 1 .. NextKey :
                             InsertRow(key, row) \/ Replace(key, row)
                      \/ \E g \in GlobalPositions(store) : Update(g, row)
    \/ \E g \in GlobalPositions(store) : Delete(g)

Spec == Init /\ [][Next]_vars

(***************************************************************************)
(* Whoever installs the store runs the script again until it is done, and  *)
(* a script that runs goes on.                                             *)
(***************************************************************************)
FairSpec ==
    /\ Spec
    /\ \A s \in Installers : WF_vars(Start(s) \/ Create(s) \/ Bail(s))

-----------------------------------------------------------------------------
(* No stored position is negative, whatever positions applications insert:
   when the next position overflows at the end of the 64-bit range, a stream
   cannot start over below zero, where the next message would have the
   version of an empty stream. *)
PositionsInRange == \A row \in Rows(store) : row.position \in 0 .. MaxPosition

(* When install.sql is done and nothing was dropped meanwhile, the schema is
   complete and its rows are free of duplicates: also when earlier runs
   failed half-way, other sessions installed or uninstalled next to it, and
   messages were written before the indexes were there. *)
InstalledComplete ==
    \A s \in Installers : script[s] = "done" /\ ~dropped[s] =>
        /\ objects = Objects
        /\ ~Duplicated("messages_id") /\ ~Duplicated("messages_stream")

(* The installation is completed at last, and stays so.  The exception is a
   store in which the scripts find duplicates again and again before the
   unique index that forbids them: no run of the script gets past them, and
   once the trigger on DELETE exists, they cannot be deleted either. *)
InstallCompletes ==
    \/ <>[](objects = Objects)
    \/ []<>(Duplicated("messages_id") \/ Duplicated("messages_stream"))

(* "messages is append-only": once both triggers exist, no message is changed
   or removed but with the table. *)
MessagesAppendOnly ==
    [][ Triggers \cup {"messages"} \subseteq objects /\ "messages" \in objects'
            => Extends(store, store') ]_vars
=============================================================================
