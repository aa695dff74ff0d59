------------------------- MODULE WriteMessageProofs -------------------------
(***************************************************************************)
(* Safety of write_message for every set of connections, streams, ids and  *)
(* expected versions, with and without interrupts and failing ROLLBACKs.   *)
(*                                                                         *)
(* StoreInv and what follows from it is about the store; DecisionInv about *)
(* the decisions that a call takes on what it read.                        *)
(***************************************************************************)
EXTENDS WriteMessage, MessageStoreProofs

-----------------------------------------------------------------------------
(* What one SQL statement does to the invariant of the database, and what it
   leaves alone of the other connections. *)
SqliteInv == SqliteTypeOK /\ WriterContinues /\ AllSound

(* A statement of c keeps the invariant, only appends to the committed
   database, and does not touch the transactions of other connections. *)
StatementOf(c) ==
    /\ SqliteInv'
    /\ Extends(db, db')
    /\ \A d \in Conns \ {c} : txn'[d] = txn[d] /\ view'[d] = view[d]

LEMMA SqliteInitially == SqliteInit => SqliteInv
  <1> SUFFICES ASSUME SqliteInit PROVE SqliteInv
    OBVIOUS
  <1>1. Sound(EmptyStore)
    BY EmptyStoreSound
  <1>2. SqliteTypeOK
    BY <1>1 DEF SqliteInit, SqliteTypeOK, Sound
  <1>3. WriterContinues
    BY NoConnAssumption DEF SqliteInit, WriterContinues
  <1>4. AllSound
    BY <1>1 DEF SqliteInit, AllSound
  <1> QED
    BY <1>2, <1>3, <1>4 DEF SqliteInv

LEMMA SnapshotSound ==
    ASSUME SqliteInv, NEW c \in Conns
    PROVE  Sound(Snapshot(c))
  BY DEF SqliteInv, AllSound, Snapshot

(* Becoming the writer, or going on writing. *)
LEMMA WritesStatement ==
    ASSUME SqliteInv, NEW c \in Conns, CanWrite(c),
           NEW store, Sound(store), Extends(Snapshot(c), store),
           Writes(c, store),
           autocommit' \in [Conns -> BOOLEAN]
    PROVE  StatementOf(c)
  <1> USE DEF SqliteInv, SqliteTypeOK
  <1>1. /\ db' = db
        /\ lock' = c
        /\ txn'[c] = "write" /\ view'[c] = store
        /\ \A d \in Conns \ {c} : txn'[d] = txn[d] /\ view'[d] = view[d]
        /\ txn' \in [Conns -> {"none", "read", "write"}]
        /\ DOMAIN view' = Conns
    BY DEF Writes
  <1>2. Extends(db, store)
    <2>1. CASE txn[c] = "write"
      BY <2>1, ExtendsTransitive DEF WriterContinues, Snapshot
    <2>2. CASE txn[c] # "write"
      BY <2>2 DEF CanWrite, Snapshot
    <2> QED
      BY <2>1, <2>2
  <1>3. SqliteTypeOK'
    <2>1. ASSUME NEW d \in Conns PROVE IsStore(view'[d])
      BY <1>1 DEF Sound
    <2> QED
      BY <1>1, <2>1
  <1>4. WriterContinues'
    <2> SUFFICES ASSUME NEW d \in Conns
                 PROVE  /\ txn'[d] = "write" <=> lock' = d
                        /\ txn'[d] = "write" => Extends(db', view'[d])
      BY DEF WriterContinues
    <2>1. CASE d = c
      BY <1>1, <1>2, <2>1
    <2>2. CASE d # c
      <3>1. txn[d] # "write"
        BY <2>2, NoConnAssumption DEF CanWrite, WriterContinues
      <3> QED
        BY <1>1, <2>2, <3>1
    <2> QED
      BY <2>1, <2>2
  <1>5. AllSound'
    BY <1>1 DEF AllSound
  <1>6. Extends(db, db')
    BY <1>1, ExtendsReflexive
  <1> QED
    BY <1>1, <1>3, <1>4, <1>5, <1>6 DEF StatementOf

(* The end of a transaction, with or without its changes. *)
LEMMA EndsTransactionStatement ==
    ASSUME SqliteInv, NEW c \in Conns, NEW keep \in BOOLEAN,
           NEW store, Sound(store),
           db' = db \/ (txn[c] = "write" /\ db' = view[c]),
           EndsTransaction(c, keep, store),
           autocommit' \in [Conns -> BOOLEAN]
    PROVE  StatementOf(c)
  <1> USE DEF SqliteInv, SqliteTypeOK
  <1>1. /\ lock' = IF lock = c THEN NoConn ELSE lock
        /\ txn'[c] \in {"none", "read"}
        /\ view'[c] \in {store, EmptyStore}
        /\ \A d \in Conns \ {c} : txn'[d] = txn[d] /\ view'[d] = view[d]
        /\ txn' \in [Conns -> {"none", "read", "write"}]
        /\ DOMAIN view' = Conns
    BY DEF EndsTransaction
  <1>2. Sound(view'[c])
    BY <1>1, EmptyStoreSound
  <1>3. Sound(db')
    BY DEF AllSound
  <1>4. Extends(db, db')
    <2>1. CASE db' = db
      BY <2>1, ExtendsReflexive
    <2>2. CASE txn[c] = "write" /\ db' = view[c]
      BY <2>2 DEF WriterContinues
    <2> QED
      BY <2>1, <2>2
  <1>5. AllSound'
    BY <1>1, <1>2, <1>3 DEF AllSound
  <1>6. SqliteTypeOK'
    <2>1. IsStore(db') /\ \A d \in Conns : IsStore(view'[d])
      BY <1>5 DEF AllSound, Sound
    <2> QED
      BY <1>1, <2>1
  <1>7. WriterContinues'
    <2> SUFFICES ASSUME NEW d \in Conns
                 PROVE  /\ txn'[d] = "write" <=> lock' = d
                        /\ txn'[d] = "write" => Extends(db', view'[d])
      BY DEF WriterContinues
    <2>1. CASE d = c
      BY <1>1, <2>1, NoConnAssumption
    <2>2. CASE d # c
      <3>1. txn[d] = "write" <=> lock = d
        BY DEF WriterContinues
      <3>2. txn[d] = "write" => Extends(db, view[d])
        BY DEF WriterContinues
      <3>3. txn[d] = "write" => db' = db
        BY <2>2, <3>1 DEF WriterContinues
      <3>4. lock' = d <=> lock = d
        BY <1>1, <2>2, NoConnAssumption
      <3> QED
        BY <1>1, <2>2, <3>1, <3>2, <3>3, <3>4
    <2> QED
      BY <2>1, <2>2
  <1> QED
    BY <1>1, <1>4, <1>5, <1>6, <1>7 DEF StatementOf

LEMMA BeginImmediateStatement ==
    ASSUME SqliteInv, NEW c \in Conns, BeginImmediate(c)
    PROVE  StatementOf(c)
  <1>1. autocommit' \in [Conns -> BOOLEAN]
    BY DEF BeginImmediate, SqliteInv, SqliteTypeOK
  <1>2. Extends(Snapshot(c), Snapshot(c))
    BY ExtendsReflexive
  <1> QED
    BY <1>1, <1>2, SnapshotSound, WritesStatement DEF BeginImmediate

LEMMA InsertNothingStatement ==
    ASSUME SqliteInv, NEW c \in Conns, InsertNothing(c)
    PROVE  StatementOf(c)
  <1>1. autocommit' \in [Conns -> BOOLEAN]
    BY DEF InsertNothing, SqliteInv, SqliteTypeOK
  <1>2. Extends(Snapshot(c), Snapshot(c))
    BY ExtendsReflexive
  <1> QED
    BY <1>1, <1>2, SnapshotSound, WritesStatement DEF InsertNothing

(* An INSERT at the next position of the stream. *)
LEMMA InsertRowStatement ==
    ASSUME SqliteInv, NEW c \in Conns, NEW row \in Row,
           row.position = StreamVersion(Snapshot(c), row.stream_name) + 1,
           InsertRow(c, row)
    PROVE  StatementOf(c)
  <1> DEFINE store == Insert(Snapshot(c), row)
  <1>1. autocommit' \in [Conns -> BOOLEAN]
    BY DEF InsertRow, SqliteInv, SqliteTypeOK
  <1>2. Sound(Snapshot(c))
    BY SnapshotSound
  <1>3. ~HasId(Snapshot(c), row.id)
    BY DEF InsertRow, Duplicates
  <1>4. Sound(store)
    BY <1>2, <1>3, InsertSound
  <1>5. Extends(Snapshot(c), store)
    BY <1>2, InsertExtends DEF Sound
  <1>6. CanWrite(c) /\ Writes(c, store)
    BY DEF InsertRow
  <1> HIDE DEF store
  <1> QED
    BY <1>1, <1>4, <1>5, <1>6, WritesStatement

LEMMA CommitStatement ==
    ASSUME SqliteInv, NEW c \in Conns, NEW keep \in BOOLEAN, Commit(c, keep)
    PROVE  StatementOf(c)
  <1>1. autocommit' \in [Conns -> BOOLEAN]
    BY DEF Commit, SqliteInv, SqliteTypeOK
  <1>2. Sound(view[c])
    BY DEF SqliteInv, AllSound
  <1>3. /\ db' = db \/ (txn[c] = "write" /\ db' = view[c])
        /\ EndsTransaction(c, keep, view[c])
    BY DEF Commit
  <1> QED
    BY <1>1, <1>2, <1>3, EndsTransactionStatement

LEMMA RollbackStatement ==
    ASSUME SqliteInv, NEW c \in Conns, NEW keep \in BOOLEAN, Rollback(c, keep)
    PROVE  StatementOf(c)
  <1> DEFINE store == IF txn[c] = "write" THEN db ELSE Snapshot(c)
  <1>1. autocommit' \in [Conns -> BOOLEAN]
    BY DEF Rollback, SqliteInv, SqliteTypeOK
  <1>2. Sound(store)
    BY SnapshotSound DEF SqliteInv, AllSound
  <1>3. db' = db /\ EndsTransaction(c, keep, store)
    BY DEF Rollback
  <1> HIDE DEF store
  <1> QED
    BY <1>1, <1>2, <1>3, EndsTransactionStatement

(* BEGIN, a query and no statement at all change neither the committed
   database nor the write lock. *)
LEMMA ReadsStatement ==
    ASSUME SqliteInv, NEW c \in Conns, Reads(c)
    PROVE  StatementOf(c)
  <1> USE DEF SqliteInv, SqliteTypeOK
  <1>1. /\ db' = db /\ lock' = lock
        /\ txn'[c] = IF txn[c] = "none" THEN "read" ELSE txn[c]
        /\ view'[c] = Snapshot(c)
        /\ \A d \in Conns \ {c} : txn'[d] = txn[d] /\ view'[d] = view[d]
        /\ txn' \in [Conns -> {"none", "read", "write"}]
        /\ DOMAIN view' = Conns
        /\ autocommit' = autocommit
    BY DEF Reads
  <1>2. AllSound'
    BY <1>1, SnapshotSound DEF AllSound
  <1>3. SqliteTypeOK'
    <2>1. IsStore(db') /\ \A d \in Conns : IsStore(view'[d])
      BY <1>2 DEF AllSound, Sound
    <2> QED
      BY <1>1, <2>1
  <1>4. WriterContinues'
    <2> SUFFICES ASSUME NEW d \in Conns
                 PROVE  /\ txn'[d] = "write" <=> lock' = d
                        /\ txn'[d] = "write" => Extends(db', view'[d])
      BY DEF WriterContinues
    <2>1. txn'[d] = "write" <=> txn[d] = "write"
      BY <1>1
    <2>2. txn[d] = "write" => view'[d] = view[d]
      BY <1>1 DEF Snapshot
    <2> QED
      BY <1>1, <2>1, <2>2 DEF WriterContinues
  <1>5. Extends(db, db')
    BY <1>1, ExtendsReflexive
  <1> QED
    BY <1>1, <1>2, <1>3, <1>4, <1>5 DEF StatementOf

LEMMA NoStatement ==
    ASSUME SqliteInv, NEW c \in Conns, UNCHANGED <<db, lock, txn, view>>,
           autocommit' \in [Conns -> BOOLEAN]
    PROVE  StatementOf(c)
  <1>1. SqliteInv'
    BY DEF SqliteInv, SqliteTypeOK, WriterContinues, AllSound
  <1>2. Extends(db, db')
    BY ExtendsReflexive
  <1> QED
    BY <1>1, <1>2 DEF StatementOf

LEMMA BeginDeferredStatement ==
    ASSUME SqliteInv, NEW c \in Conns, BeginDeferred(c)
    PROVE  StatementOf(c)
  <1>1. autocommit' \in [Conns -> BOOLEAN]
    BY DEF BeginDeferred, SqliteInv, SqliteTypeOK
  <1> QED
    BY <1>1, NoStatement DEF BeginDeferred

-----------------------------------------------------------------------------

(* What a step of c does to the variables of the calls: it does not touch  *)
(* the calls of other connections, and leaves c elsewhere than before its  *)
(* INSERT.  QueryVersion and Interrupt, which do not, have proofs of their *)
(* own.                                                                    *)
CallFrame(c) ==
    \A d \in Conns \ {c} :
        pc'[d] = pc[d] /\ call'[d] = call[d] /\ position'[d] = position[d]

StepOf(c) ==
    /\ StatementOf(c)
    /\ CallTypeOK'
    /\ CallFrame(c)
    /\ pc'[c] # "insert"

LEMMA StoreInvParts == StoreInv <=> SqliteInv /\ CallTypeOK /\ PositionFromView
  BY DEF StoreInv, SqliteInv, TypeOK

(* The row that c inserts, at the next position of its stream in the view. *)
LEMMA NewRowFollows ==
    ASSUME StoreInv, NEW c \in Conns, pc[c] = "insert"
    PROVE  /\ NewRow(c) \in Row
           /\ Snapshot(c) = view[c]
           /\ NewRow(c).position
                  = StreamVersion(Snapshot(c), NewRow(c).stream_name) + 1
  <1>1. /\ call[c] \in Call
        /\ position[c] \in Nat
    BY DEF StoreInv, TypeOK, CallTypeOK
  <1>2. /\ txn[c] # "none"
        /\ position[c] = StreamVersion(view[c], call[c].stream_name) + 1
    BY DEF StoreInv, PositionFromView
  <1>3. NewRow(c) \in Row
    BY <1>1 DEF NewRow, Row, Call
  <1>4. Snapshot(c) = view[c]
    BY <1>2 DEF Snapshot
  <1>5. /\ NewRow(c).position = position[c]
        /\ NewRow(c).stream_name = call[c].stream_name
    BY DEF NewRow
  <1> QED
    BY <1>2, <1>3, <1>4, <1>5

LEMMA ConfirmationType ==
    ASSUME CallTypeOK, NEW c \in Conns, pc[c] # "idle"
    PROVE  ConfirmationOf(c) \in Confirmation
  <1>1. call[c] \in Call /\ position[c] \in Nat
    BY DEF CallTypeOK
  <1> QED
    BY <1>1 DEF ConfirmationOf, Confirmation, Call

(* The steps of a call. *)
LEMMA CallSteps ==
    ASSUME StoreInv, NEW c \in Conns, CallStep(c), ~QueryVersion(c)
    PROVE  StepOf(c)
  <1>1. SqliteInv /\ CallTypeOK /\ PositionFromView
    BY StoreInvParts
  <1>2. autocommit \in [Conns -> BOOLEAN] /\ Stepping(c) \in BOOLEAN
    BY <1>1 DEF SqliteInv, SqliteTypeOK, Stepping
  <1>3. ASSUME UNCHANGED sqliteVars PROVE StatementOf(c)
    BY <1>1, <1>2, <1>3, NoStatement DEF sqliteVars
  <1>4. ASSUME NEW keep \in BOOLEAN, Rollback(c, keep) PROVE StatementOf(c)
    BY <1>1, <1>4, RollbackStatement
  <1>5. CASE Begin(c)
    <2>1. StatementOf(c)
      BY <1>1, BeginImmediateStatement, <1>5 DEF Begin
    <2>2. CallTypeOK'
      BY <1>1, <1>5 DEF Begin, clientVars, CallTypeOK
    <2>3. CallFrame(c) /\ pc'[c] # "insert"
      BY <1>1, <1>5 DEF Begin, clientVars, CallTypeOK, CallFrame
    <2> QED
      BY <2>1, <2>2, <2>3 DEF StepOf
  <1>6. CASE BeginBusy(c)
    <2>1. StatementOf(c)
      BY <1>3, <1>6 DEF BeginBusy
    <2>2. CallTypeOK'
      BY <1>1, <1>6 DEF BeginBusy, clientVars, Answer, CallTypeOK
    <2>3. CallFrame(c) /\ pc'[c] # "insert"
      BY <1>1, <1>6 DEF BeginBusy, clientVars, Answer, CallTypeOK, CallFrame
    <2> QED
      BY <2>1, <2>2, <2>3 DEF StepOf
  <1>7. CASE BeginFails(c)
    <2>1. StatementOf(c)
      BY <1>3, <1>7 DEF BeginFails
    <2>2. CallTypeOK'
      BY <1>1, <1>7 DEF BeginFails, clientVars, Answer, CallTypeOK
    <2>3. CallFrame(c) /\ pc'[c] # "insert"
      BY <1>1, <1>7 DEF BeginFails, clientVars, Answer, CallTypeOK, CallFrame
    <2> QED
      BY <2>1, <2>2, <2>3 DEF StepOf
  <1>8. CASE WrongVersion(c)
    <2>1. StatementOf(c)
      BY <1>1, ReadsStatement, <1>8 DEF WrongVersion
    <2>2. CallTypeOK'
      BY <1>1, <1>8 DEF WrongVersion, clientVars, Answer, CallTypeOK
    <2>3. CallFrame(c) /\ pc'[c] # "insert"
      BY <1>1, <1>8 DEF WrongVersion, clientVars, Answer, CallTypeOK, CallFrame
    <2> QED
      BY <2>1, <2>2, <2>3 DEF StepOf
  <1>9. CASE QueryFails(c)
    <2>1. StatementOf(c)
      BY <1>1, <1>2, <1>3, <1>4, ReadsStatement, <1>9 DEF QueryFails,
         sqliteVars
    <2>2. CallTypeOK'
      BY <1>1, <1>9 DEF QueryFails, Answer, CallTypeOK
    <2>3. CallFrame(c) /\ pc'[c] # "insert"
      BY <1>1, <1>9 DEF QueryFails, Answer, CallTypeOK, CallFrame
    <2> QED
      BY <2>1, <2>2, <2>3 DEF StepOf
  <1>10. CASE InsertMessage(c)
    <2>1. StatementOf(c)
      BY <1>1, NewRowFollows, InsertRowStatement, <1>10 DEF InsertMessage
    <2>2. CallTypeOK'
      BY <1>1, <1>10 DEF InsertMessage, clientVars, Answer, CallTypeOK
    <2>3. CallFrame(c) /\ pc'[c] # "insert"
      BY <1>1, <1>10 DEF InsertMessage, clientVars, Answer, CallTypeOK,
         CallFrame
    <2> QED
      BY <2>1, <2>2, <2>3 DEF StepOf
  <1>11. CASE InsertRefused(c)
    <2>1. StatementOf(c)
      BY <1>1, InsertNothingStatement, <1>11 DEF InsertRefused
    <2>2. CallTypeOK'
      BY <1>1, <1>11 DEF InsertRefused, clientVars, Answer, CallTypeOK
    <2>3. CallFrame(c) /\ pc'[c] # "insert"
      BY <1>1, <1>11 DEF InsertRefused, clientVars, Answer, CallTypeOK,
         CallFrame
    <2> QED
      BY <2>1, <2>2, <2>3 DEF StepOf
  <1>12. CASE InsertBusy(c)
    <2>1. StatementOf(c)
      BY <1>3, <1>12 DEF InsertBusy
    <2>2. CallTypeOK'
      BY <1>1, <1>12 DEF InsertBusy, clientVars, Answer, CallTypeOK
    <2>3. CallFrame(c) /\ pc'[c] # "insert"
      BY <1>1, <1>12 DEF InsertBusy, clientVars, Answer, CallTypeOK, CallFrame
    <2> QED
      BY <2>1, <2>2, <2>3 DEF StepOf
  <1>13. CASE InsertFails(c)
    <2>1. StatementOf(c)
      BY <1>2, <1>3, <1>4, <1>13 DEF InsertFails, sqliteVars
    <2>2. CallTypeOK'
      BY <1>1, <1>13 DEF InsertFails, Answer, CallTypeOK
    <2>3. CallFrame(c) /\ pc'[c] # "insert"
      BY <1>1, <1>13 DEF InsertFails, Answer, CallTypeOK, CallFrame
    <2> QED
      BY <2>1, <2>2, <2>3 DEF StepOf
  <1>14. CASE CommitMessage(c)
    <2>1. StatementOf(c)
      BY <1>1, <1>2, CommitStatement, <1>14 DEF CommitMessage
    <2>2. CallTypeOK'
      BY <1>1, <1>14 DEF CommitMessage, clientVars, Answer, CallTypeOK
    <2>3. CallFrame(c) /\ pc'[c] # "insert"
      BY <1>1, <1>14 DEF CommitMessage, clientVars, Answer, CallTypeOK,
         CallFrame
    <2> QED
      BY <2>1, <2>2, <2>3 DEF StepOf
  <1>15. CASE CommitFails(c)
    <2>1. StatementOf(c)
      BY <1>2, <1>3, <1>4, <1>15 DEF CommitFails
    <2>2. CallTypeOK'
      BY <1>1, <1>15 DEF CommitFails, clientVars, Answer, CallTypeOK
    <2>3. CallFrame(c) /\ pc'[c] # "insert"
      BY <1>1, <1>15 DEF CommitFails, clientVars, Answer, CallTypeOK, CallFrame
    <2> QED
      BY <2>1, <2>2, <2>3 DEF StepOf
  <1>16. CASE Cleanup(c)
    <2>1. StatementOf(c)
      BY <1>2, <1>3, <1>4, <1>16 DEF Cleanup
    <2>2. CallTypeOK'
      BY <1>1, <1>16 DEF Cleanup, clientVars, Goto, CallTypeOK
    <2>3. CallFrame(c) /\ pc'[c] # "insert"
      BY <1>1, <1>16 DEF Cleanup, clientVars, Goto, CallTypeOK, CallFrame
    <2> QED
      BY <2>1, <2>2, <2>3 DEF StepOf
  <1>17. CASE ReturnPosition(c)
    <2>1. StatementOf(c)
      BY <1>3, <1>4, <1>17 DEF ReturnPosition, StatementEnds, sqliteVars
    <2>2. CallTypeOK'
      <3>1. call[c].id \in Ids /\ ConfirmationOf(c) \in Confirmation
        BY <1>1, <1>17, ConfirmationType DEF ReturnPosition, CallTypeOK, Call
      <3>2. /\ acked' \in SUBSET Confirmation
            /\ batch' \in [Conns -> SUBSET Confirmation]
            /\ unconfirmed' \in SUBSET Ids
        <4>1. CASE UNCHANGED <<acked, batch>>
          BY <1>1, <1>17, <3>1, <4>1 DEF ReturnPosition, CallTypeOK
        <4>2. CASE UNCHANGED <<batch, unconfirmed>>
          BY <1>1, <1>17, <3>1, <4>2 DEF ReturnPosition, CallTypeOK
        <4>3. CASE /\ batch' = [batch EXCEPT ![c] = @ \cup {ConfirmationOf(c)}]
                   /\ UNCHANGED <<acked, unconfirmed>>
          BY <1>1, <3>1, <4>3 DEF CallTypeOK
        <4> QED
          BY <1>17, <4>1, <4>2, <4>3 DEF ReturnPosition
      <3>3. /\ outer' \in [Conns -> {"none", "select", "write"}]
            /\ interrupted' \in [Conns -> BOOLEAN]
        BY <1>1, <1>17 DEF ReturnPosition, StatementEnds, CallTypeOK
      <3> QED
        BY <1>1, <1>17, <3>2, <3>3 DEF ReturnPosition, Forget, CallTypeOK
    <2>3. CallFrame(c) /\ pc'[c] # "insert"
      BY <1>1, <1>17 DEF ReturnPosition, Forget, StatementEnds, Call,
         sqliteVars, CallTypeOK, CallFrame
    <2> QED
      BY <2>1, <2>2, <2>3 DEF StepOf
  <1>18. CASE ReturnError(c)
    <2>1. StatementOf(c)
      BY <1>3, <1>4, <1>18 DEF ReturnError, StatementEnds
    <2>2. CallTypeOK'
      BY <1>1, <1>18 DEF ReturnError, Forget, StatementEnds, clientVars,
         CallTypeOK
    <2>3. CallFrame(c) /\ pc'[c] # "insert"
      BY <1>1, <1>18 DEF ReturnError, Forget, StatementEnds, clientVars,
         CallTypeOK, CallFrame
    <2> QED
      BY <2>1, <2>2, <2>3 DEF StepOf
  <1>19. CASE ReturnInterrupted(c)
    <2>1. StatementOf(c)
      BY <1>3, <1>4, <1>19 DEF ReturnInterrupted, StatementEnds
    <2>2. CallTypeOK'
      BY <1>1, <1>19 DEF ReturnInterrupted, Forget, StatementEnds, Call,
         CallTypeOK
    <2>3. CallFrame(c) /\ pc'[c] # "insert"
      BY <1>1, <1>19 DEF ReturnInterrupted, Forget, StatementEnds, Call,
         CallTypeOK, CallFrame
    <2> QED
      BY <2>1, <2>2, <2>3 DEF StepOf
  <1> QED
    BY <1>5, <1>6, <1>7, <1>8, <1>9, <1>10, <1>11, <1>12, <1>13, <1>14,
       <1>15, <1>16, <1>17, <1>18, <1>19 DEF CallStep

(* The steps of the application. *)
LEMMA ClientSteps ==
    ASSUME StoreInv, NEW c \in Conns, ClientStep(c), ~Interrupt(c)
    PROVE  StepOf(c)
  <1>1. SqliteInv /\ CallTypeOK /\ PositionFromView
    BY StoreInvParts
  <1>2. autocommit \in [Conns -> BOOLEAN] /\ Stepping(c) \in BOOLEAN
    BY <1>1 DEF SqliteInv, SqliteTypeOK, Stepping
  <1>3. ASSUME UNCHANGED sqliteVars PROVE StatementOf(c)
    BY <1>1, <1>2, <1>3, NoStatement DEF sqliteVars
  <1>4. ASSUME NEW keep \in BOOLEAN, Rollback(c, keep) PROVE StatementOf(c)
    BY <1>1, <1>4, RollbackStatement
  <1>5. CASE \E arguments \in Call : Start(c, arguments)
    <2>1. StatementOf(c)
      BY <1>3, <1>5 DEF Start
    <2>2. CallTypeOK'
      <3>1. PICK arguments \in Call : Start(c, arguments)
        BY <1>5
      <3>2. /\ pc' = [pc EXCEPT ![c] = IF autocommit[c] THEN "begin" ELSE "query"]
            /\ call' = [call EXCEPT ![c] = arguments]
            /\ UNCHANGED <<began, position, reply, outer, interrupted>>
            /\ UNCHANGED <<batching, batch, acked, unconfirmed>>
        BY <3>1 DEF Start, clientVars
      <3> QED
        BY <1>1, <3>2 DEF CallTypeOK
    <2>3. CallFrame(c) /\ pc'[c] # "insert"
      BY <1>1, <1>5 DEF Start, Call, clientVars, CallTypeOK, CallFrame
    <2> QED
      BY <2>1, <2>2, <2>3 DEF StepOf
  <1>6. CASE OpenSelect(c)
    <2>1. StatementOf(c)
      BY <1>1, ReadsStatement, <1>6 DEF OpenSelect
    <2>2. CallTypeOK'
      BY <1>1, <1>6 DEF OpenSelect, clientVars, CallTypeOK
    <2>3. CallFrame(c) /\ pc'[c] # "insert"
      BY <1>1, <1>6 DEF OpenSelect, clientVars, CallTypeOK, CallFrame
    <2> QED
      BY <2>1, <2>2, <2>3 DEF StepOf
  <1>7. CASE OpenWrite(c)
    <2>1. StatementOf(c)
      BY <1>1, InsertNothingStatement, <1>7 DEF OpenWrite
    <2>2. CallTypeOK'
      BY <1>1, <1>7 DEF OpenWrite, clientVars, CallTypeOK
    <2>3. CallFrame(c) /\ pc'[c] # "insert"
      BY <1>1, <1>7 DEF OpenWrite, clientVars, CallTypeOK, CallFrame
    <2> QED
      BY <2>1, <2>2, <2>3 DEF StepOf
  <1>8. CASE CloseStatement(c)
    <2>1. StatementOf(c)
      BY <1>3, <1>4, <1>8 DEF CloseStatement, StatementEnds
    <2>2. CallTypeOK'
      BY <1>1, <1>8 DEF CloseStatement, StatementEnds, clientVars, CallTypeOK
    <2>3. CallFrame(c) /\ pc'[c] # "insert"
      BY <1>1, <1>8 DEF CloseStatement, StatementEnds, clientVars, CallTypeOK,
         CallFrame
    <2> QED
      BY <2>1, <2>2, <2>3 DEF StepOf
  <1>9. CASE ClientBegin(c)
    <2>1. StatementOf(c)
      BY <1>1, BeginImmediateStatement, BeginDeferredStatement, <1>9 DEF
         ClientBegin
    <2>2. CallTypeOK'
      BY <1>1, <1>9 DEF ClientBegin, callVars, CallTypeOK
    <2>3. CallFrame(c) /\ pc'[c] # "insert"
      BY <1>1, <1>9 DEF ClientBegin, callVars, CallTypeOK, CallFrame
    <2> QED
      BY <2>1, <2>2, <2>3 DEF StepOf
  <1>10. CASE ClientRead(c)
    <2>1. StatementOf(c)
      BY <1>1, ReadsStatement, <1>10 DEF ClientRead
    <2>2. CallTypeOK'
      BY <1>1, <1>10 DEF ClientRead, callVars, clientVars, CallTypeOK
    <2>3. CallFrame(c) /\ pc'[c] # "insert"
      BY <1>1, <1>10 DEF ClientRead, callVars, clientVars, CallTypeOK,
         CallFrame
    <2> QED
      BY <2>1, <2>2, <2>3 DEF StepOf
  <1>11. CASE ClientCommit(c)
    <2>1. StatementOf(c)
      BY <1>1, <1>3, CommitStatement, <1>11 DEF ClientCommit, sqliteVars
    <2>2. CallTypeOK'
      BY <1>1, <1>11 DEF ClientCommit, EndBatch, callVars, CallTypeOK
    <2>3. CallFrame(c) /\ pc'[c] # "insert"
      BY <1>1, <1>11 DEF ClientCommit, EndBatch, callVars, CallTypeOK,
         CallFrame
    <2> QED
      BY <2>1, <2>2, <2>3 DEF StepOf
  <1>12. CASE ClientRollback(c)
    <2>1. StatementOf(c)
      BY <1>4, <1>12 DEF ClientRollback
    <2>2. CallTypeOK'
      BY <1>1, <1>12 DEF ClientRollback, EndBatch, callVars, CallTypeOK
    <2>3. CallFrame(c) /\ pc'[c] # "insert"
      BY <1>1, <1>12 DEF ClientRollback, EndBatch, callVars, CallTypeOK,
         CallFrame
    <2> QED
      BY <2>1, <2>2, <2>3 DEF StepOf
  <1>13. CASE Crash(c)
    <2>1. StatementOf(c)
      BY <1>4, <1>13 DEF Crash
    <2>2. CallTypeOK'
      BY <1>1, <1>13 DEF Crash, Forget, EndBatch, Call, CallTypeOK
    <2>3. CallFrame(c) /\ pc'[c] # "insert"
      BY <1>1, <1>13 DEF Crash, Forget, EndBatch, Call, CallTypeOK, CallFrame
    <2> QED
      BY <2>1, <2>2, <2>3 DEF StepOf
  <1> QED
    BY <1>5, <1>6, <1>7, <1>8, <1>9, <1>10, <1>11, <1>12, <1>13 DEF
       ClientStep

(* An interrupt only raises a flag. *)
LEMMA InterruptStep ==
    ASSUME StoreInv, NEW c \in Conns, Interrupt(c)
    PROVE  StoreInv' /\ Extends(db, db')
  <1>1. SqliteInv /\ CallTypeOK /\ PositionFromView
    BY StoreInvParts
  <1>2. StatementOf(c)
    BY <1>1, NoStatement DEF Interrupt, sqliteVars, SqliteInv, SqliteTypeOK
  <1>3. CallTypeOK'
    BY <1>1 DEF Interrupt, clientVars, CallTypeOK
  <1>4. PositionFromView'
    BY <1>1 DEF Interrupt, sqliteVars, PositionFromView
  <1> QED
    BY <1>2, <1>3, <1>4 DEF StatementOf, StoreInv, SqliteInv, TypeOK

(* Where a connection has not moved, neither has its position. *)
LEMMA OtherPositionsKept ==
    ASSUME StoreInv, NEW c \in Conns, StatementOf(c), CallFrame(c),
           NEW d \in Conns \ {c}, pc'[d] = "insert"
    PROVE  /\ txn'[d] # "none"
           /\ position'[d] = StreamVersion(view'[d], call'[d].stream_name) + 1
  <1>1. /\ txn'[d] = txn[d] /\ view'[d] = view[d]
        /\ pc[d] = "insert" /\ call'[d] = call[d] /\ position'[d] = position[d]
    BY DEF StatementOf, CallFrame
  <1> QED
    BY <1>1 DEF StoreInv, PositionFromView

LEMMA StepsKeepStoreInv ==
    ASSUME StoreInv, NEW c \in Conns, StepOf(c)
    PROVE  StoreInv' /\ Extends(db, db')
  <1>1. PositionFromView'
    BY OtherPositionsKept DEF StepOf, PositionFromView
  <1> QED
    BY <1>1 DEF StepOf, StatementOf, StoreInv, SqliteInv, TypeOK

(* The query computes the position from the snapshot that it leaves open. *)
LEMMA QueryVersionStep ==
    ASSUME StoreInv, NEW c \in Conns, QueryVersion(c)
    PROVE  StoreInv' /\ Extends(db, db')
  <1> DEFINE stream == call[c].stream_name
             version == StreamVersion(Snapshot(c), stream)
  <1>1. SqliteInv /\ CallTypeOK /\ PositionFromView
    BY StoreInvParts
  <1>2. StatementOf(c)
    BY <1>1, ReadsStatement DEF QueryVersion
  <1>3. stream \in Streams
    BY <1>1 DEF QueryVersion, CallTypeOK, Call
  <1>4. version \in {-1} \cup Nat
    BY <1>1, <1>3, SnapshotSound, StreamVersionDefined
  <1>5. /\ position' = [position EXCEPT ![c] = version + 1]
        /\ pc' = [pc EXCEPT ![c] = "insert"]
        /\ call' = call
    BY DEF QueryVersion, Goto
  <1> HIDE DEF version
  <1>6. CallTypeOK'
    <2>1. position' \in [Conns -> Nat]
      <3>1. version + 1 \in Nat
        BY <1>4
      <3> QED
        BY <1>1, <1>5, <3>1 DEF CallTypeOK
    <2>2. /\ pc' \in [Conns -> {"idle", "begin", "query", "insert", "commit",
                                "cleanup", "return"}]
          /\ \A d \in Conns : pc'[d] # "idle" => call'[d] \in Call
      BY <1>1, <1>5 DEF QueryVersion, CallTypeOK
    <2> QED
      BY <1>1, <2>1, <2>2 DEF QueryVersion, Goto, clientVars, CallTypeOK
  <1>7. CallFrame(c)
    BY <1>1, <1>5 DEF CallFrame, CallTypeOK
  <1>8. /\ txn'[c] # "none"
        /\ view'[c] = Snapshot(c)
    BY <1>1 DEF QueryVersion, Reads, SqliteInv, SqliteTypeOK
  <1>9. position'[c] = StreamVersion(view'[c], call'[c].stream_name) + 1
    BY <1>1, <1>5, <1>8 DEF version, CallTypeOK
  <1>10. PositionFromView'
    BY <1>2, <1>7, <1>8, <1>9, OtherPositionsKept DEF PositionFromView
  <1> QED
    BY <1>2, <1>6, <1>10 DEF StatementOf, StoreInv, SqliteInv, TypeOK

LEMMA StoreInvInitially == Init => StoreInv
  <1> SUFFICES ASSUME Init PROVE StoreInv
    OBVIOUS
  <1>1. SqliteInv
    BY SqliteInitially DEF Init
  <1>2. CallTypeOK
    BY DEF Init, CallTypeOK
  <1>3. PositionFromView
    BY DEF Init, PositionFromView
  <1> QED
    BY <1>1, <1>2, <1>3, StoreInvParts

LEMMA StoreInvStep ==
    ASSUME StoreInv, [Next]_vars
    PROVE  StoreInv' /\ Extends(db, db')
  <1>1. CASE Next
    <2>1. PICK c \in Conns : CallStep(c) \/ ClientStep(c)
      BY <1>1 DEF Next
    <2>2. CASE QueryVersion(c)
      BY <2>2, QueryVersionStep
    <2>3. CASE Interrupt(c)
      BY <2>3, InterruptStep
    <2>4. CASE ~QueryVersion(c) /\ ~Interrupt(c)
      BY <2>1, <2>4, CallSteps, ClientSteps, StepsKeepStoreInv
    <2> QED
      BY <2>2, <2>3, <2>4
  <1>2. CASE UNCHANGED vars
    <2>1. StoreInv'
      BY <1>2 DEF vars, sqliteVars, callVars, clientVars, StoreInv, TypeOK,
                  SqliteTypeOK, CallTypeOK, WriterContinues, AllSound,
                  PositionFromView
    <2> QED
      BY <1>2, <2>1, ExtendsReflexive DEF vars, sqliteVars
  <1> QED
    BY <1>1, <1>2

-----------------------------------------------------------------------------
(* The inductive invariant holds. *)
THEOREM StoreInvHolds == Spec => []StoreInv
  <1>1. StoreInv /\ [Next]_vars => StoreInv'
    BY StoreInvStep
  <1> QED
    BY <1>1, StoreInvInitially, PTL DEF Spec

(* Every variable keeps its type. *)
THEOREM TypeCorrect == Spec => []TypeOK
  <1>1. StoreInv => TypeOK
    BY DEF StoreInv
  <1> QED
    BY <1>1, StoreInvHolds, PTL

(* The committed store is well-formed: unique ids, and in every stream the
   positions 0, 1, 2, ... in the order of the global positions. *)
THEOREM StoreAlwaysWellFormed == Spec => []StoreWellFormed
  <1>1. StoreInv => StoreWellFormed
    BY DEF StoreInv, AllSound, Sound, StoreWellFormed
  <1> QED
    BY <1>1, StoreInvHolds, PTL

(* The position that write_message is about to insert is free. *)
THEOREM PositionAlwaysFree == Spec => []PositionFree
  <1>1. StoreInv => PositionFree
    <2> SUFFICES ASSUME StoreInv, NEW c \in Conns, pc[c] = "insert"
                 PROVE  ~HasPosition(Snapshot(c), call[c].stream_name,
                                     position[c])
      BY DEF PositionFree
    <2>1. call[c].stream_name \in Streams
      BY DEF StoreInv, TypeOK, CallTypeOK, Call
    <2>2. /\ Snapshot(c) = view[c]
          /\ position[c] = StreamVersion(view[c], call[c].stream_name) + 1
      BY NewRowFollows DEF StoreInv, PositionFromView
    <2>3. Sound(view[c])
      BY DEF StoreInv, AllSound
    <2> QED
      BY <2>1, <2>2, <2>3, NextPositionFree
  <1> QED
    BY <1>1, StoreInvHolds, PTL

(* No step changes, moves or removes a committed message. *)
THEOREM StoreIsAppendOnly == Spec => AppendOnly
  <1>1. StoreInv /\ [Next]_vars => [Extends(db, db')]_db
    BY StoreInvStep
  <1> QED
    BY <1>1, StoreInvHolds, PTL DEF Spec, AppendOnly

-----------------------------------------------------------------------------
(***************************************************************************)
(* What a call of write_message decides in a transaction of its own.       *)
(*                                                                         *)
(* The position a call inserts at and the version it refuses are read      *)
(* some statements before they are used.  They are the committed ones      *)
(* when used because BEGIN IMMEDIATE takes the write lock, and gives the   *)
(* latest database, before the version is read.  DecisionInv says so of    *)
(* every step from there to the INSERT or the refusal; it is inductive     *)
(* only together with StoreInv, whose WriterContinues ties the lock to     *)
(* the transaction states.                                                 *)
(***************************************************************************)

(* c acts on what it read of the committed store in its own transaction: it
   is about to read it, has its position, or is being refused. *)
Refusing(c) == pc[c] = "cleanup" /\ reply[c] = "wrong version"

Deciding(c) == began[c] /\ (pc[c] \in {"query", "insert"} \/ Refusing(c))

(* Such a connection holds the write lock, and has not written yet.  For
   BEGIN IMMEDIATE to give it the committed store also inside a statement that
   writes, that statement may not have changed the messages. *)
DecisionOf(c) ==
    /\ pc[c] \in {"idle", "begin"} => ~began[c]
    /\ pc[c] = "begin" => autocommit[c]
    /\ pc[c] \in {"query", "insert"} => ~autocommit[c]
    /\ autocommit[c] /\ txn[c] = "write" => view[c] = db
    /\ Deciding(c) => lock = c /\ view[c] = db
    /\ began[c] /\ Refusing(c)
           => call[c].expected_version
                  # StreamVersion(db, call[c].stream_name)

DecisionInv == \A c \in Conns : DecisionOf(c)

-----------------------------------------------------------------------------
(* What a step of d leaves alone. *)
OthersKept(d) ==
    /\ lock \notin {NoConn, d} => db' = db /\ lock' = lock
    /\ \A c \in Conns \ {d} :
           /\ pc'[c] = pc[c] /\ call'[c] = call[c]
           /\ began'[c] = began[c] /\ reply'[c] = reply[c]
           /\ txn'[c] = txn[c] /\ view'[c] = view[c]
           /\ autocommit'[c] = autocommit[c]

(* The end of a transaction, and of a statement, is the business of one
   connection: the lock it may give back is its own. *)
LEMMA EndsKeepOthers ==
    ASSUME StoreInv, NEW d \in Conns, NEW keep,
           \/ Commit(d, keep)
           \/ Rollback(d, keep)
           \/ StatementEnds(d)
           \/ UNCHANGED sqliteVars
    PROVE  /\ lock \notin {NoConn, d} => db' = db /\ lock' = lock
           /\ \A c \in Conns \ {d} :
                  /\ txn'[c] = txn[c] /\ view'[c] = view[c]
                  /\ autocommit'[c] = autocommit[c]
  <1> USE DEF StoreInv, TypeOK, SqliteTypeOK, EndsTransaction
  <1>1. CASE Commit(d, keep)
    <2>1. lock # d => db' = db
      BY <1>1 DEF Commit, WriterContinues
    <2> QED
      BY <1>1, <2>1 DEF Commit
  <1>2. ASSUME NEW k, Rollback(d, k)
        PROVE  /\ lock \notin {NoConn, d} => db' = db /\ lock' = lock
               /\ \A c \in Conns \ {d} :
                      /\ txn'[c] = txn[c] /\ view'[c] = view[c]
                      /\ autocommit'[c] = autocommit[c]
    BY <1>2 DEF Rollback
  <1>3. CASE UNCHANGED sqliteVars
    BY <1>3 DEF sqliteVars
  <1>4. CASE StatementEnds(d)
    BY <1>2, <1>3, <1>4 DEF StatementEnds
  <1> QED
    BY <1>1, <1>2, <1>3, <1>4

(* Another connection that writes has the lock, and without it nobody changes
   the committed store. *)
LEMMA StepsKeepOthers ==
    ASSUME StoreInv, NEW d \in Conns, CallStep(d) \/ ClientStep(d)
    PROVE  OthersKept(d)
  <1> USE DEF StoreInv, TypeOK, SqliteTypeOK, CallTypeOK, WriterContinues,
              OthersKept, sqliteVars, clientVars, callVars, Goto, Answer,
              Forget, EndBatch, StatementEnds, Reads, Writes, EndsTransaction,
              Rollback, Commit, InsertRow, InsertNothing, BeginImmediate,
              BeginDeferred, CanWrite
  <1>1. CASE Begin(d) \/ BeginBusy(d) \/ BeginFails(d)
    BY <1>1 DEF Begin, BeginBusy, BeginFails
  <1>2. CASE QueryVersion(d)
    BY <1>2 DEF QueryVersion
  <1>3. CASE WrongVersion(d)
    BY <1>3 DEF WrongVersion
  <1>4. CASE QueryFails(d)
    BY <1>4 DEF QueryFails
  <1>5. CASE InsertMessage(d)
    BY <1>5 DEF InsertMessage
  <1>6. CASE InsertRefused(d) \/ InsertBusy(d)
    BY <1>6 DEF InsertRefused, InsertBusy
  <1>7. CASE InsertFails(d)
    BY <1>7 DEF InsertFails
  <1>8. CASE CommitMessage(d)
    BY <1>8 DEF CommitMessage
  <1>9. CASE CommitFails(d)
    BY <1>9 DEF CommitFails
  <1>10. CASE Cleanup(d)
    BY <1>10 DEF Cleanup
  <1>11. CASE ReturnPosition(d)
    BY <1>11 DEF ReturnPosition
  <1>12. CASE ReturnError(d) \/ ReturnInterrupted(d)
    <2>1. Forget(d) /\ StatementEnds(d) /\ UNCHANGED batching
      BY <1>12 DEF ReturnError, ReturnInterrupted
    <2> QED
      BY <2>1, EndsKeepOthers
  <1>13. CASE \E arguments \in Call : Start(d, arguments)
    BY <1>13 DEF Start
  <1>14. CASE OpenSelect(d) \/ OpenWrite(d)
    BY <1>14 DEF OpenSelect, OpenWrite
  <1>15. CASE CloseStatement(d)
    <2>1. StatementEnds(d) /\ UNCHANGED <<pc, call, began, reply>>
      BY <1>15 DEF CloseStatement
    <2> QED
      BY <2>1, EndsKeepOthers
  <1>16. CASE ClientBegin(d) \/ ClientRead(d)
    BY <1>16 DEF ClientBegin, ClientRead
  <1>17. CASE ClientCommit(d) \/ ClientRollback(d)
    <2>1. UNCHANGED <<pc, call, began, reply>>
      BY <1>17 DEF ClientCommit, ClientRollback
    <2>2. \/ Commit(d, FALSE) \/ Rollback(d, FALSE)
          \/ UNCHANGED sqliteVars
      BY <1>17 DEF ClientCommit, ClientRollback
    <2> QED
      BY <2>1, <2>2, EndsKeepOthers
  <1>18. CASE Interrupt(d)
    BY <1>18 DEF Interrupt
  <1>19. CASE Crash(d)
    BY <1>19 DEF Crash
  <1> QED
    BY <1>1, <1>2, <1>3, <1>4, <1>5, <1>6, <1>7, <1>8, <1>9, <1>10, <1>11,
       <1>12, <1>13, <1>14, <1>15, <1>16, <1>17, <1>18, <1>19
       DEF CallStep, ClientStep

(* So a connection that decides on the committed store goes on doing so
   through the steps of the others. *)
LEMMA OtherDecisionsKept ==
    ASSUME StoreInv, NEW d \in Conns, OthersKept(d),
           NEW c \in Conns \ {d}, DecisionOf(c)
    PROVE  DecisionOf(c)'
  <1>1. /\ pc'[c] = pc[c] /\ call'[c] = call[c]
        /\ began'[c] = began[c] /\ reply'[c] = reply[c]
        /\ txn'[c] = txn[c] /\ view'[c] = view[c]
        /\ autocommit'[c] = autocommit[c]
    BY DEF OthersKept
  <1>2. txn[c] = "write" <=> lock = c
    BY DEF StoreInv, WriterContinues
  <1>3. lock = c => db' = db /\ lock' = c
    BY NoConnAssumption DEF OthersKept
  <1>4. began[c] /\ Refusing(c) => lock = c
    BY DEF DecisionOf, Deciding
  <1> QED
    BY <1>1, <1>2, <1>3, <1>4 DEF DecisionOf, Deciding, Refusing

(* The steps of the call itself. *)
LEMMA CallStepsDecide ==
    ASSUME StoreInv, NEW c \in Conns, DecisionOf(c), CallStep(c)
    PROVE  DecisionOf(c)'
  <1> USE DEF StoreInv, TypeOK, SqliteTypeOK, CallTypeOK, WriterContinues,
              DecisionOf, Deciding, Refusing, Snapshot, sqliteVars, Goto,
              Answer
  <1>1. CASE Begin(c)
    <2>1. Snapshot(c) = db
      BY <1>1 DEF Begin, BeginImmediate, CanWrite
    <2> QED
      BY <1>1, <2>1 DEF Begin, BeginImmediate, Writes
  <1>2. CASE BeginBusy(c) \/ BeginFails(c)
    BY <1>2 DEF BeginBusy, BeginFails
  <1>3. CASE QueryVersion(c)
    BY <1>3 DEF QueryVersion, Reads
  <1>4. CASE WrongVersion(c)
    BY <1>4 DEF WrongVersion, Reads, VersionExpected
  <1>5. CASE QueryFails(c)
    BY <1>5 DEF QueryFails, Reads, Rollback, EndsTransaction
  <1>6. CASE InsertMessage(c)
    BY <1>6 DEF InsertMessage, InsertRow, Writes
  <1>7. CASE InsertRefused(c)
    BY <1>7 DEF InsertRefused, InsertNothing, Writes
  <1>8. CASE InsertBusy(c)
    BY <1>8 DEF InsertBusy
  <1>9. CASE InsertFails(c)
    BY <1>9 DEF InsertFails, Rollback, EndsTransaction
  <1>10. CASE CommitMessage(c)
    BY <1>10 DEF CommitMessage, Commit, EndsTransaction
  <1>11. CASE CommitFails(c)
    <2>1. pc'[c] = "cleanup" /\ reply'[c] = "error"
      BY <1>11 DEF CommitFails
    <2>2. CASE UNCHANGED sqliteVars
      BY <2>1, <2>2
    <2>3. CASE Rollback(c, Stepping(c))
      BY <2>1, <2>3 DEF Rollback, EndsTransaction
    <2> QED
      BY <1>11, <2>2, <2>3 DEF CommitFails
  <1>12. CASE Cleanup(c)
    <2>1. pc[c] = "cleanup" /\ pc'[c] = "return" /\ UNCHANGED <<began, outer>>
      BY <1>12 DEF Cleanup
    <2>2. CASE UNCHANGED sqliteVars
      BY <2>1, <2>2
    <2>3. CASE Rollback(c, Stepping(c))
      BY <2>1, <2>3 DEF Rollback, EndsTransaction
    <2> QED
      BY <1>12, <2>2, <2>3 DEF Cleanup
  <1>13. CASE ReturnPosition(c)
    BY <1>13 DEF ReturnPosition, Forget, StatementEnds, Rollback,
       EndsTransaction
  <1>14. CASE ReturnError(c) \/ ReturnInterrupted(c)
    <2>1. Forget(c) /\ StatementEnds(c)
      BY <1>14 DEF ReturnError, ReturnInterrupted
    <2>2. CASE autocommit[c]
      <3>1. Rollback(c, FALSE)
        BY <2>1, <2>2 DEF StatementEnds
      <3> QED
        BY <2>1, <3>1 DEF Forget, Rollback, EndsTransaction
    <2>3. CASE ~autocommit[c]
      <3>1. UNCHANGED sqliteVars
        BY <2>1, <2>3 DEF StatementEnds
      <3> QED
        BY <2>1, <2>3, <3>1 DEF Forget
    <2> QED
      BY <2>2, <2>3
  <1> QED
    BY <1>1, <1>2, <1>3, <1>4, <1>5, <1>6, <1>7, <1>8, <1>9, <1>10, <1>11,
       <1>12, <1>13, <1>14 DEF CallStep

(* The steps of its application. *)
LEMMA ClientStepsDecide ==
    ASSUME StoreInv, NEW c \in Conns, DecisionOf(c), ClientStep(c)
    PROVE  DecisionOf(c)'
  <1> USE DEF StoreInv, TypeOK, SqliteTypeOK, CallTypeOK, WriterContinues,
              DecisionOf, Deciding, Refusing, Snapshot, sqliteVars, callVars
  <1>1. CASE \E arguments \in Call : Start(c, arguments)
    <2>1. PICK arguments \in Call : Start(c, arguments)
      BY <1>1
    <2>2. /\ pc[c] = "idle" /\ UNCHANGED <<sqliteVars, began, reply>>
          /\ pc'[c] = IF autocommit[c] THEN "begin" ELSE "query"
      BY <2>1 DEF Start
    <2> QED
      BY <2>2
  <1>2. CASE OpenSelect(c)
    BY <1>2 DEF OpenSelect, Reads
  <1>3. CASE OpenWrite(c)
    BY <1>3 DEF OpenWrite, InsertNothing, CanWrite, Writes
  <1>4. CASE CloseStatement(c)
    BY <1>4 DEF CloseStatement, StatementEnds, Rollback, EndsTransaction
  <1>5. CASE ClientBegin(c)
    BY <1>5 DEF ClientBegin, BeginImmediate, BeginDeferred, CanWrite, Writes
  <1>6. CASE ClientRead(c)
    BY <1>6 DEF ClientRead, Reads
  <1>7. CASE ClientCommit(c)
    BY <1>7 DEF ClientCommit, Commit, EndsTransaction
  <1>8. CASE ClientRollback(c)
    BY <1>8 DEF ClientRollback, Rollback, EndsTransaction
  <1>9. CASE Interrupt(c)
    BY <1>9 DEF Interrupt
  <1>10. CASE Crash(c)
    BY <1>10 DEF Crash, Forget, Rollback, EndsTransaction
  <1> QED
    BY <1>1, <1>2, <1>3, <1>4, <1>5, <1>6, <1>7, <1>8, <1>9, <1>10
       DEF ClientStep

LEMMA DecisionInvInitially == Init => DecisionInv
  BY DEF Init, SqliteInit, DecisionInv, DecisionOf, Deciding, Refusing

LEMMA DecisionInvStep ==
    StoreInv /\ DecisionInv /\ [Next]_vars => DecisionInv'
  <1> SUFFICES ASSUME StoreInv, DecisionInv, [Next]_vars,
                      NEW c \in Conns
               PROVE  DecisionOf(c)'
    BY DEF DecisionInv
  <1>1. DecisionOf(c)
    BY DEF DecisionInv
  <1>2. CASE UNCHANGED vars
    BY <1>1, <1>2 DEF vars, sqliteVars, callVars, clientVars, DecisionOf,
       Deciding, Refusing
  <1>3. CASE Next
    <2>1. PICK d \in Conns : CallStep(d) \/ ClientStep(d)
      BY <1>3 DEF Next
    <2>2. CASE d = c
      BY <1>1, <2>1, <2>2, CallStepsDecide, ClientStepsDecide
    <2>3. CASE d # c
      BY <1>1, <2>1, <2>3, StepsKeepOthers, OtherDecisionsKept
    <2> QED
      BY <2>2, <2>3
  <1> QED
    BY <1>2, <1>3

(* In every reachable state a call that began its own transaction holds the
   write lock on an unchanged copy of the committed store until it has
   inserted or been refused. *)
THEOREM DecisionInvHolds == Spec => []DecisionInv
  <1>1. Init => DecisionInv
    BY DecisionInvInitially
  <1>2. StoreInv /\ DecisionInv /\ [Next]_vars => DecisionInv'
    BY DecisionInvStep
  <1> QED
    BY <1>1, <1>2, StoreInvHolds, PTL DEF Spec

(* A call that began its own transaction inserts at the position after the
   committed version, and refuses an expected version only while the
   committed one is another: write_message between BEGIN IMMEDIATE and the
   end of its transaction. *)
THEOREM DecisionAlwaysCurrent == Spec => []DecisionCurrent
  <1>1. StoreInv /\ DecisionInv => DecisionCurrent
    BY DEF StoreInv, PositionFromView, DecisionInv, DecisionOf, Deciding,
       Refusing, DecisionCurrent
  <1> QED
    BY <1>1, StoreInvHolds, DecisionInvHolds, PTL

(* Once its BEGIN IMMEDIATE has succeeded, the INSERT of a call is never
   refused because of another writer. *)
THEOREM ImmediateAlwaysSuffices == Spec => []ImmediateSuffices
  <1>1. StoreInv /\ DecisionInv => ImmediateSuffices
    BY DEF StoreInv, WriterContinues, DecisionInv, DecisionOf, Deciding,
       ImmediateSuffices, CanWrite
  <1> QED
    BY <1>1, StoreInvHolds, DecisionInvHolds, PTL
=============================================================================
