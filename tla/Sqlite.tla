------------------------------- MODULE Sqlite -------------------------------
(***************************************************************************)
(* External component: the transactions of a SQLite database in WAL mode,  *)
(* as far as the extension relies on them.                                 *)
(*                                                                         *)
(* The file holds the committed database.  A connection has a transaction  *)
(* state (none, read or write), the version of the database it works on    *)
(* (its snapshot, with its own uncommitted inserts when it writes) and the *)
(* autocommit flag.  One connection at a time holds the write lock.        *)
(*                                                                         *)
(* Each operator below is the effect of one SQL statement, complete with   *)
(* its UNCHANGED part, so that the modules that extend this one never      *)
(* touch these variables otherwise.                                        *)
(***************************************************************************)
EXTENDS MessageStore

CONSTANTS Conns,        \* the connections
          NoConn        \* no connection: the write lock is free

ASSUME NoConnAssumption == NoConn \notin Conns

VARIABLES
    db,                 \* the committed database
    lock,               \* the holder of the write lock, or NoConn
    txn,                \* txn[c]: "none", "read" or "write"
    view,               \* view[c]: the database the transaction of c works on
    autocommit          \* autocommit[c]: sqlite3_get_autocommit

sqliteVars == <<db, lock, txn, view, autocommit>>

SqliteTypeOK ==
    /\ IsStore(db)
    /\ lock \in Conns \cup {NoConn}
    /\ txn \in [Conns -> {"none", "read", "write"}]
    /\ DOMAIN view = Conns
    /\ \A c \in Conns : IsStore(view[c])
    /\ autocommit \in [Conns -> BOOLEAN]

SqliteInit ==
    /\ db = EmptyStore
    /\ lock = NoConn
    /\ txn = [c \in Conns |-> "none"]
    /\ view = [c \in Conns |-> EmptyStore]
    /\ autocommit = [c \in Conns |-> TRUE]

-----------------------------------------------------------------------------
(* The database a statement of c sees. *)
Snapshot(c) == IF txn[c] = "none" THEN db ELSE view[c]

(* Defect: a transaction may write on a snapshot that is not the latest. *)
CanWriteStale(c) == lock \in {NoConn, c}

(***************************************************************************)
(* The write lock can be had when no other connection has it and the       *)
(* snapshot of c, if c has one, is the latest.  Otherwise SQLITE_BUSY: at  *)
(* once when c already reads (SQLITE_BUSY_SNAPSHOT or a lock that waiting  *)
(* could deadlock on), and when busy_timeout has passed if it does not.    *)
(***************************************************************************)
CanWrite(c) ==
    /\ lock \in {NoConn, c}
    /\ txn[c] = "read" => view[c] = db

(* c becomes the writer, working on the database version given. *)
Writes(c, store) ==
    /\ lock' = c
    /\ txn' = [txn EXCEPT ![c] = "write"]
    /\ view' = [view EXCEPT ![c] = store]
    /\ UNCHANGED db

(* c has no write transaction any more; while a statement of c is still
   being stepped (keep) it goes on reading the version given. *)
EndsTransaction(c, keep, store) ==
    /\ lock' = IF lock = c THEN NoConn ELSE lock
    /\ txn' = [txn EXCEPT ![c] = IF keep THEN "read" ELSE "none"]
    /\ view' = [view EXCEPT ![c] = IF keep THEN store ELSE EmptyStore]

(* BEGIN IMMEDIATE *)
BeginImmediate(c) ==
    /\ CanWrite(c)
    /\ Writes(c, Snapshot(c))
    /\ autocommit' = [autocommit EXCEPT ![c] = FALSE]

(* BEGIN: the transaction starts with its first statement. *)
BeginDeferred(c) ==
    /\ autocommit' = [autocommit EXCEPT ![c] = FALSE]
    /\ UNCHANGED <<db, lock, txn, view>>

(* A statement that reads opens the snapshot if c has none. *)
Reads(c) ==
    /\ txn' = [txn EXCEPT ![c] = IF @ = "none" THEN "read" ELSE @]
    /\ view' = [view EXCEPT ![c] = Snapshot(c)]
    /\ UNCHANGED <<db, lock, autocommit>>

(* INSERT of one row.  An INSERT that a constraint refuses has taken the
   write lock all the same, and undoes nothing but itself. *)
InsertRow(c, row) ==
    /\ CanWrite(c)
    /\ ~Duplicates(Snapshot(c), row)
    /\ Writes(c, Insert(Snapshot(c), row))
    /\ UNCHANGED autocommit

InsertNothing(c) ==
    /\ CanWrite(c)
    /\ Writes(c, Snapshot(c))
    /\ UNCHANGED autocommit

(* COMMIT installs the working copy of a writer. *)
Commit(c, keep) ==
    /\ db' = IF txn[c] = "write" THEN view[c] ELSE db
    /\ EndsTransaction(c, keep, view[c])
    /\ autocommit' = [autocommit EXCEPT ![c] = TRUE]

(* ROLLBACK, or the rollback that SQLite does by itself after SQLITE_FULL,
   SQLITE_IOERR, SQLITE_NOMEM or SQLITE_INTERRUPT. *)
Rollback(c, keep) ==
    /\ EndsTransaction(c, keep, IF txn[c] = "write" THEN db ELSE Snapshot(c))
    /\ autocommit' = [autocommit EXCEPT ![c] = TRUE]
    /\ UNCHANGED db

-----------------------------------------------------------------------------
(***************************************************************************)
(* What these statements preserve when every INSERT is one that            *)
(* write_message makes: the part of its inductive invariant that is about  *)
(* the database alone.                                                     *)
(***************************************************************************)

(* The write lock and the transaction states agree, and the working copy of
   the writer continues the committed store: nobody else can commit in
   between. *)
WriterContinues ==
    \A c \in Conns :
        /\ txn[c] = "write" <=> lock = c
        /\ txn[c] = "write" => Extends(db, view[c])

(* Every database there is, committed, read or in the making, is sound. *)
AllSound == Sound(db) /\ \A c \in Conns : Sound(view[c])
=============================================================================
