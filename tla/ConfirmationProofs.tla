------------------------- MODULE ConfirmationProofs -------------------------
(***************************************************************************)
(* What a position returned by write_message is worth, for any number of   *)
(* connections, streams and messages: the row stays, committed or in the   *)
(* transaction of the application, and nothing else is committed.  With    *)
(* that, WriteMessage implements MessageLog.                               *)
(*                                                                         *)
(* PendingInv and VersionInv hold whatever happens.  ClosedInv, and all    *)
(* that rests on it, assume that the ROLLBACK of a cleanup is executed     *)
(* (RollbacksExecute): the application does not interrupt its connections, *)
(* and ROLLBACK does not fail for another reason.  When it does, the next  *)
(* call takes the open transaction for one of the application (see the run *)
(* interrupted_confirmation).                                              *)
(***************************************************************************)
EXTENDS WriteMessageProofs

(* c has inserted its row, and will return its position if all goes well. *)
Inserted(c) ==
    \/ pc[c] = "commit"
    \/ pc[c] = "return" /\ reply[c] = "position"

(* A row that the transaction of c has inserted and not committed. *)
Pending(c, row) ==
    /\ txn[c] = "write"
    /\ row \in Rows(view[c])
    /\ ~HasId(db, row.id)

(* Where the rows of c are: those of its batch, and the one it is about to
   return inside a transaction, pending; the one it returns in autocommit
   mode, committed.  For a failure to take nothing of the batch with it, a
   call that began a transaction has no batch, and a batch has an open
   transaction. *)
PendingOf(c) ==
    /\ autocommit[c] /\ ~Stepping(c) => txn[c] = "none"
    /\ batch[c] # {} => batching[c] /\ ~autocommit[c] /\ ~began[c]
    /\ pc[c] = "commit" => began[c] /\ ~autocommit[c]
    /\ pc[c] = "cleanup" => reply[c] # "position"
    /\ Inserted(c) /\ ~autocommit[c] => Pending(c, NewRow(c))
    /\ Inserted(c) /\ autocommit[c] => NewRow(c) \in Rows(db)
    /\ \A a \in batch[c] : Pending(c, RowOf(a))

PendingInv == \A c \in Conns : PendingOf(c)

(* The position follows the version that was expected. *)
VersionMet(confirmation) ==
    confirmation.expected_version # NoVersion
        => confirmation.position = confirmation.expected_version + 1

VersionOf(c) ==
    /\ pc[c] = "insert" \/ Inserted(c) => VersionMet(ConfirmationOf(c))
    /\ \A a \in batch[c] : VersionMet(a)

VersionInv ==
    /\ \A c \in Conns : VersionOf(c)
    /\ \A a \in acked : VersionMet(a)

(* Only the application, or a call that is not over, has a transaction open. *)
ClosedOf(c) ==
    /\ ~interrupted[c]
    /\ ~began[c] /\ ~batching[c] => autocommit[c]
    /\ pc[c] = "return" /\ began[c] => autocommit[c]

ClosedInv == \A c \in Conns : ClosedOf(c)

(* Every row in the working copy of c is committed, of its batch, or the one
   it returns; except between a failed COMMIT and the ROLLBACK after it. *)
Accounted(c) ==
    txn[c] = "write" /\ ~(pc[c] = "cleanup" /\ began[c])
        => \A row \in Rows(view[c]) :
               \/ row \in Rows(db)
               \/ row.id \in IdsOf(batch[c])
               \/ Inserted(c) /\ row = NewRow(c)

AccountedInv == \A c \in Conns : Accounted(c)

-----------------------------------------------------------------------------
(* What is in a table stays in every table that extends it. *)
LEMMA RowsKept ==
    ASSUME NEW store, NEW longer, Extends(store, longer)
    PROVE  /\ Rows(store) \subseteq Rows(longer)
           /\ \A id : HasId(store, id) => HasId(longer, id)
  BY DEF Extends, Rows, HasId

(* An INSERT adds one row. *)
LEMMA InsertRows ==
    ASSUME NEW store, IsStore(store), NEW row \in Row
    PROVE  Rows(Insert(store, row)) = Rows(store) \cup {row}
  <1> DEFINE after == Insert(store, row)
             key == store.sequence + 1
  <1>1. /\ GlobalPositions(after) = GlobalPositions(store) \cup {key}
        /\ key \notin GlobalPositions(store)
        /\ after.messages[key] = row
        /\ \A g \in GlobalPositions(store) :
               after.messages[g] = store.messages[g]
    BY InsertAppends
  <1> HIDE DEF after, key
  <1>2. Rows(after) = Rows(store) \cup {row}
    BY <1>1 DEF Rows
  <1> QED
    BY <1>2 DEF after

(* A row of a table is found by its id. *)
LEMMA HasRowId ==
    ASSUME NEW store, NEW row \in Rows(store)
    PROVE  HasId(store, row.id)
  BY DEF Rows, HasId

(* The rest of what a step of d leaves alone. *)
ClientsKept(d) ==
    \A c \in Conns \ {d} :
        /\ position'[c] = position[c] /\ outer'[c] = outer[c]
        /\ interrupted'[c] = interrupted[c]
        /\ batching'[c] = batching[c] /\ batch'[c] = batch[c]

(* A step of one connection leaves the application side of the others alone. *)
LEMMA StepsKeepClients ==
    ASSUME StoreInv, NEW d \in Conns, CallStep(d) \/ ClientStep(d)
    PROVE  ClientsKept(d)
  <1> USE DEF StoreInv, TypeOK, CallTypeOK, ClientsKept, clientVars, callVars,
              Goto, Answer, Forget, EndBatch, StatementEnds
  <1>1. CASE Begin(d) \/ BeginBusy(d) \/ BeginFails(d)
    BY <1>1 DEF Begin, BeginBusy, BeginFails
  <1>2. CASE QueryVersion(d)
    BY <1>2 DEF QueryVersion
  <1>3. CASE WrongVersion(d) \/ QueryFails(d)
    BY <1>3 DEF WrongVersion, QueryFails
  <1>4. CASE InsertMessage(d) \/ InsertRefused(d) \/ InsertBusy(d)
             \/ InsertFails(d)
    BY <1>4 DEF InsertMessage, InsertRefused, InsertBusy, InsertFails
  <1>5. CASE CommitMessage(d) \/ CommitFails(d) \/ Cleanup(d)
    BY <1>5 DEF CommitMessage, CommitFails, Cleanup
  <1>6. CASE ReturnPosition(d)
    BY <1>6 DEF ReturnPosition
  <1>7. CASE ReturnError(d) \/ ReturnInterrupted(d)
    BY <1>7 DEF ReturnError, ReturnInterrupted
  <1>8. CASE \E arguments \in Call : Start(d, arguments)
    BY <1>8 DEF Start
  <1>9. CASE OpenSelect(d) \/ OpenWrite(d) \/ CloseStatement(d)
    BY <1>9 DEF OpenSelect, OpenWrite, CloseStatement
  <1>10. CASE ClientBegin(d) \/ ClientRead(d)
    BY <1>10 DEF ClientBegin, ClientRead
  <1>11. CASE ClientCommit(d) \/ ClientRollback(d)
    BY <1>11 DEF ClientCommit, ClientRollback
  <1>12. CASE Interrupt(d)
    BY <1>12 DEF Interrupt
  <1>13. CASE Crash(d)
    BY <1>13 DEF Crash
  <1> QED
    BY <1>1, <1>2, <1>3, <1>4, <1>5, <1>6, <1>7, <1>8, <1>9, <1>10, <1>11,
       <1>12, <1>13 DEF CallStep, ClientStep

(* The rows in the making of c are untouched by the steps of d. *)
LEMMA OtherPendingKept ==
    ASSUME StoreInv, NEW d \in Conns, OthersKept(d), ClientsKept(d),
           Extends(db, db'), NEW c \in Conns \ {d}
    PROVE  /\ \A row : Pending(c, row) => Pending(c, row)'
           /\ Inserted(c)' <=> Inserted(c)
           /\ NewRow(c)' = NewRow(c)
           /\ PendingOf(c) => PendingOf(c)'
  <1>1. /\ pc'[c] = pc[c] /\ call'[c] = call[c]
        /\ began'[c] = began[c] /\ reply'[c] = reply[c]
        /\ txn'[c] = txn[c] /\ view'[c] = view[c]
        /\ autocommit'[c] = autocommit[c]
        /\ position'[c] = position[c] /\ outer'[c] = outer[c]
        /\ batching'[c] = batching[c] /\ batch'[c] = batch[c]
    BY DEF OthersKept, ClientsKept
  <1>2. txn[c] = "write" => db' = db
    BY NoConnAssumption DEF StoreInv, WriterContinues, OthersKept
  <1>3. \A row : Pending(c, row) => Pending(c, row)'
    BY <1>1, <1>2 DEF Pending
  <1>4. /\ Inserted(c)' <=> Inserted(c)
        /\ NewRow(c)' = NewRow(c)
    BY <1>1 DEF Inserted, NewRow
  <1>5. Rows(db) \subseteq Rows(db')
    BY RowsKept
  <1>6. PendingOf(c) => PendingOf(c)'
    BY <1>1, <1>3, <1>4, <1>5 DEF PendingOf, Stepping
  <1> QED
    BY <1>3, <1>4, <1>6

(* ROLLBACK gives up what the transaction has inserted. *)
LEMMA RollbackEnds ==
    ASSUME StoreInv, NEW c \in Conns, NEW keep \in BOOLEAN, Rollback(c, keep)
    PROVE  /\ db' = db
           /\ autocommit'[c] = TRUE
           /\ txn'[c] = IF keep THEN "read" ELSE "none"
  BY DEF StoreInv, TypeOK, SqliteTypeOK, Rollback, EndsTransaction

(* So does the end of the calling statement, outside a transaction. *)
LEMMA StatementEndsEffect ==
    ASSUME StoreInv, NEW c \in Conns, StatementEnds(c)
    PROVE  /\ db' = db
           /\ autocommit'[c] = autocommit[c]
           /\ autocommit[c] => txn'[c] = "none"
           /\ ~autocommit[c] => txn'[c] = txn[c] /\ view'[c] = view[c]
           /\ outer'[c] = "none"
           /\ interrupted'[c] = FALSE
  <1>1. /\ outer'[c] = "none"
        /\ interrupted'[c] = FALSE
    BY DEF StatementEnds, StoreInv, TypeOK, CallTypeOK
  <1>2. CASE autocommit[c]
    BY <1>1, <1>2, RollbackEnds DEF StatementEnds
  <1>3. CASE ~autocommit[c]
    BY <1>1, <1>3 DEF StatementEnds, sqliteVars
  <1> QED
    BY <1>2, <1>3

(* A successful INSERT has one row more pending. *)
LEMMA InsertMakesPending ==
    ASSUME StoreInv, NEW c \in Conns, InsertMessage(c)
    PROVE  /\ Pending(c, NewRow(c))'
           /\ \A row : Pending(c, row) => Pending(c, row)'
           /\ Rows(view[c])' = Rows(view[c]) \cup {NewRow(c)}
           /\ db' = db
           /\ NewRow(c)' = NewRow(c)
  <1>1. /\ NewRow(c) \in Row
        /\ Snapshot(c) = view[c]
    BY NewRowFollows DEF InsertMessage
  <1>2. /\ db' = db
        /\ txn'[c] = "write"
        /\ view'[c] = Insert(view[c], NewRow(c))
        /\ ~HasId(view[c], NewRow(c).id)
    BY <1>1 DEF InsertMessage, InsertRow, Writes, Duplicates, StoreInv, TypeOK,
       SqliteTypeOK
  <1>3. Extends(db, view[c])
    BY <1>1, ExtendsReflexive DEF InsertMessage, InsertRow, CanWrite, StoreInv,
       WriterContinues, TypeOK, SqliteTypeOK, PositionFromView
  <1>4. ~HasId(db, NewRow(c).id)
    BY <1>2, <1>3, RowsKept
  <1>5. Rows(view'[c]) = Rows(view[c]) \cup {NewRow(c)}
    BY <1>1, <1>2, InsertRows DEF StoreInv, AllSound, Sound
  <1>6. NewRow(c)' = NewRow(c)
    BY DEF InsertMessage, Answer, NewRow
  <1> QED
    BY <1>2, <1>4, <1>5, <1>6 DEF Pending

(* A call ends with its statement or within it. *)
LEMMA EndsEffect ==
    ASSUME StoreInv, NEW c \in Conns, StatementEnds(c) \/ UNCHANGED sqliteVars
    PROVE  /\ db' = db /\ autocommit'[c] = autocommit[c]
           /\ \/ autocommit[c] /\ txn'[c] = "none"
              \/ txn'[c] = txn[c] /\ view'[c] = view[c]
           /\ ~autocommit[c] => txn'[c] = txn[c] /\ view'[c] = view[c]
  BY StatementEndsEffect DEF sqliteVars

(* The end of a call, or of the calling statement. *)
LEMMA EndsPending ==
    ASSUME StoreInv, NEW c \in Conns, PendingOf(c),
           pc'[c] = "idle", began'[c] => began[c], UNCHANGED batching,
           StatementEnds(c) \/ UNCHANGED <<sqliteVars, outer>>,
           \/ UNCHANGED batch
           \/ /\ batch'[c] = batch[c] \cup {ConfirmationOf(c)}
              /\ batching[c] /\ ~autocommit[c] /\ Pending(c, NewRow(c))
              /\ ~began'[c]
    PROVE  PendingOf(c)'
  <1>1. /\ db' = db /\ autocommit'[c] = autocommit[c]
        /\ \/ autocommit[c] /\ txn'[c] = "none"
           \/ /\ txn'[c] = txn[c] /\ view'[c] = view[c]
              /\ ~autocommit[c] \/ outer'[c] = outer[c]
    BY StatementEndsEffect DEF sqliteVars
  <1>2. RowOf(ConfirmationOf(c)) = NewRow(c)
    BY DEF RowOf, ConfirmationOf, NewRow
  <1>3. ~Inserted(c)' /\ pc'[c] # "commit" /\ pc'[c] # "cleanup"
    BY DEF Inserted
  <1>4. autocommit'[c] /\ ~Stepping(c)' => txn'[c] = "none"
    BY <1>1 DEF PendingOf, Stepping
  <1>5. batch'[c] # {} => batching'[c] /\ ~autocommit'[c] /\ ~began'[c]
    BY <1>1 DEF PendingOf
  <1>6. ASSUME NEW a \in batch'[c]
        PROVE  Pending(c, RowOf(a))'
    <2>1. ~autocommit[c]
      BY <1>1, <1>5, <1>6
    <2>2. Pending(c, RowOf(a))
      BY <1>2, <1>6 DEF PendingOf
    <2> QED
      BY <1>1, <2>1, <2>2 DEF Pending, RowOf
  <1> QED
    BY <1>3, <1>4, <1>5, <1>6 DEF PendingOf

(* The steps of a call keep what is pending, or lose it with its
   transaction. *)
LEMMA CallStepsPending ==
    ASSUME StoreInv, NEW c \in Conns, DecisionOf(c), PendingOf(c),
           CallStep(c)
    PROVE  PendingOf(c)'
  <1> USE DEF StoreInv, TypeOK, SqliteTypeOK, CallTypeOK, WriterContinues,
              DecisionOf, PendingOf, Inserted, Pending, Stepping, sqliteVars,
              clientVars, Goto, Answer
  <1>1. CASE Begin(c)
    BY <1>1 DEF Begin, BeginImmediate, Writes
  <1>2. CASE BeginBusy(c) \/ BeginFails(c)
    BY <1>2 DEF BeginBusy, BeginFails
  <1>3. CASE QueryVersion(c)
    BY <1>3 DEF QueryVersion, Reads, Snapshot
  <1>4. CASE WrongVersion(c)
    BY <1>4 DEF WrongVersion, Reads, Snapshot
  <1>5. CASE QueryFails(c)
    <2>1. pc'[c] = "cleanup" /\ reply'[c] = "error" /\ began' = began
          /\ batching' = batching /\ outer' = outer
      BY <1>5 DEF QueryFails
    <2>2. CASE UNCHANGED <<sqliteVars, batch>>
      BY <2>1, <2>2
    <2>3. CASE Reads(c) /\ UNCHANGED batch
      BY <1>5, <2>1, <2>3 DEF QueryFails, Reads, Snapshot
    <2>4. CASE Rollback(c, Stepping(c)) /\ batch' = [batch EXCEPT ![c] = {}]
      BY <2>1, <2>4, RollbackEnds
    <2> QED
      BY <1>5, <2>2, <2>3, <2>4 DEF QueryFails
  <1>6. CASE InsertMessage(c)
    BY <1>6, InsertMakesPending DEF InsertMessage, InsertRow, Writes
  <1>7. CASE InsertRefused(c)
    BY <1>7 DEF InsertRefused, InsertNothing, Writes, Snapshot
  <1>8. CASE InsertBusy(c)
    BY <1>8 DEF InsertBusy
  <1>9. CASE InsertFails(c)
    <2>1. pc'[c] = "cleanup" /\ reply'[c] = "error" /\ began' = began
          /\ batching' = batching /\ outer' = outer
      BY <1>9 DEF InsertFails
    <2>2. CASE UNCHANGED <<sqliteVars, batch>>
      BY <2>1, <2>2
    <2>3. CASE Rollback(c, Stepping(c)) /\ batch' = [batch EXCEPT ![c] = {}]
      BY <2>1, <2>3, RollbackEnds
    <2> QED
      BY <1>9, <2>2, <2>3 DEF InsertFails
  <1>10. CASE CommitMessage(c)
    BY <1>10 DEF CommitMessage, Commit, EndsTransaction, NewRow
  <1>11. CASE CommitFails(c)
    BY <1>11 DEF CommitFails, Rollback, EndsTransaction
  <1>12. CASE Cleanup(c)
    <2>1. /\ pc'[c] = "return" /\ reply'[c] # "position" /\ began' = began
          /\ batching' = batching /\ outer' = outer /\ batch' = batch
      BY <1>12 DEF Cleanup
    <2>2. CASE UNCHANGED sqliteVars
      BY <2>1, <2>2
    <2>3. CASE began[c] /\ Rollback(c, Stepping(c))
      BY <2>1, <2>3, RollbackEnds
    <2> QED
      BY <1>12, <2>2, <2>3 DEF Cleanup
  <1>13. CASE ReturnPosition(c)
    <2>1. /\ pc'[c] = "idle" /\ ~began'[c] /\ batching' = batching
      BY <1>13 DEF ReturnPosition, Forget
    <2>2. StatementEnds(c) \/ UNCHANGED <<sqliteVars, outer>>
      BY <1>13 DEF ReturnPosition
    <2>3. \/ UNCHANGED batch
          \/ /\ batch'[c] = batch[c] \cup {ConfirmationOf(c)}
             /\ batching[c] /\ ~autocommit[c] /\ Pending(c, NewRow(c))
      BY <1>13 DEF ReturnPosition
    <2> HIDE DEF PendingOf, Pending, sqliteVars, StoreInv
    <2> QED
      BY <2>1, <2>2, <2>3, EndsPending
  <1>14. CASE ReturnError(c) \/ ReturnInterrupted(c)
    <2>1. /\ pc'[c] = "idle" /\ ~began'[c] /\ batching' = batching
          /\ batch' = batch
      BY <1>14 DEF ReturnError, ReturnInterrupted, Forget
    <2>2. StatementEnds(c)
      BY <1>14 DEF ReturnError, ReturnInterrupted
    <2> HIDE DEF PendingOf, StoreInv
    <2> QED
      BY <2>1, <2>2, EndsPending
  <1> QED
    BY <1>1, <1>2, <1>3, <1>4, <1>5, <1>6, <1>7, <1>8, <1>9, <1>10, <1>11,
       <1>12, <1>13, <1>14 DEF CallStep

(* So do those of the application. *)
LEMMA ClientStepsPending ==
    ASSUME StoreInv, NEW c \in Conns, DecisionOf(c), PendingOf(c),
           ClientStep(c)
    PROVE  PendingOf(c)'
  <1> USE DEF StoreInv, TypeOK, SqliteTypeOK, CallTypeOK, WriterContinues,
              DecisionOf, PendingOf, Inserted, Pending, Stepping, sqliteVars,
              callVars, clientVars
  <1>1. CASE \E arguments \in Call : Start(c, arguments)
    <2>1. PICK arguments \in Call : Start(c, arguments)
      BY <1>1
    <2>2. /\ pc'[c] \in {"begin", "query"}
          /\ UNCHANGED <<db, txn, view, autocommit, began, outer, batching,
                         batch>>
      BY <2>1 DEF Start
    <2> QED
      BY <2>2
  <1>2. CASE OpenSelect(c)
    BY <1>2 DEF OpenSelect, Reads
  <1>3. CASE OpenWrite(c)
    BY <1>3 DEF OpenWrite, InsertNothing, Writes
  <1>4. CASE CloseStatement(c)
    <2>1. /\ pc'[c] = "idle"
          /\ UNCHANGED <<began, batching, batch>>
          /\ StatementEnds(c)
      BY <1>4 DEF CloseStatement
    <2> HIDE DEF PendingOf, StoreInv
    <2> QED
      BY <2>1, EndsPending
  <1>5. CASE ClientBegin(c)
    BY <1>5 DEF ClientBegin, BeginImmediate, BeginDeferred, Writes
  <1>6. CASE ClientRead(c)
    BY <1>6 DEF ClientRead, Reads, Snapshot
  <1>7. CASE ClientCommit(c)
    BY <1>7 DEF ClientCommit, EndBatch, Commit, EndsTransaction
  <1>8. CASE ClientRollback(c)
    BY <1>8 DEF ClientRollback, EndBatch, Rollback, EndsTransaction
  <1>9. CASE Interrupt(c)
    BY <1>9 DEF Interrupt, NewRow
  <1>10. CASE Crash(c)
    BY <1>10 DEF Crash, EndBatch, Forget, Rollback, EndsTransaction
  <1> QED
    BY <1>1, <1>2, <1>3, <1>4, <1>5, <1>6, <1>7, <1>8, <1>9, <1>10
       DEF ClientStep

(* At first nothing is pending. *)
LEMMA PendingInvInitially == Init => PendingInv
  BY DEF Init, SqliteInit, PendingInv, PendingOf, Inserted, Stepping

(* Every step keeps PendingInv: the steps of a connection its own part, and
   those of the others, who cannot change its transaction, too. *)
LEMMA PendingInvStep ==
    StoreInv /\ DecisionInv /\ PendingInv /\ [Next]_vars => PendingInv'
  <1> SUFFICES ASSUME StoreInv, DecisionInv, PendingInv, [Next]_vars,
                      NEW c \in Conns
               PROVE  PendingOf(c)'
    BY DEF PendingInv
  <1>1. DecisionOf(c) /\ PendingOf(c)
    BY DEF DecisionInv, PendingInv
  <1>2. CASE UNCHANGED vars
    BY <1>1, <1>2 DEF vars, sqliteVars, callVars, clientVars, PendingOf,
       Inserted, Pending, NewRow, Stepping
  <1>3. CASE Next
    <2>1. PICK d \in Conns : CallStep(d) \/ ClientStep(d)
      BY <1>3 DEF Next
    <2>2. CASE d = c
      BY <1>1, <2>1, <2>2, CallStepsPending, ClientStepsPending
    <2>3. CASE d # c
      BY <1>1, <2>1, <2>3, StoreInvStep, StepsKeepOthers, StepsKeepClients,
         OtherPendingKept
    <2> QED
      BY <2>2, <2>3
  <1> QED
    BY <1>2, <1>3

(* In every reachable state, also after interrupts and failed ROLLBACKs, what a
   connection was told is where PendingInv says. *)
THEOREM PendingInvHolds == Spec => []PendingInv
  <1>1. StoreInv /\ DecisionInv /\ PendingInv /\ [Next]_vars => PendingInv'
    BY PendingInvStep
  <1> QED
    BY <1>1, PendingInvInitially, StoreInvHolds, DecisionInvHolds, PTL DEF Spec

(* Whatever fails in it, a transaction of the application keeps all positions
   that write_message returned in it, uncommitted until it ends: the calls in
   it neither commit nor roll back what they did not begin. *)
THEOREM BatchAlwaysPending == Spec => []BatchPending
  <1>1. PendingInv => BatchPending
    BY DEF PendingInv, PendingOf, Pending, BatchPending, RowOf, Snapshot
  <1> QED
    BY <1>1, PendingInvHolds, PTL

-----------------------------------------------------------------------------
(* What the steps of d do to the committed store and to the histories. *)
LEMMA StepsCommit ==
    ASSUME StoreInv, NEW d \in Conns, CallStep(d) \/ ClientStep(d)
    PROVE  /\ \/ db' = db
              \/ /\ txn[d] = "write" /\ db' = view[d]
                 /\ CommitMessage(d) \/ (ClientCommit(d) /\ ~autocommit[d])
           /\ \/ acked' = acked
              \/ /\ ReturnPosition(d) /\ ~batching[d]
                 /\ acked' = acked \cup {ConfirmationOf(d)}
              \/ /\ ClientCommit(d) /\ ~autocommit[d]
                 /\ acked' = acked \cup batch[d]
           /\ unconfirmed \subseteq unconfirmed'
  <1> USE DEF sqliteVars, clientVars, callVars, Goto, Answer, Reads, Writes,
              Rollback, InsertRow, InsertNothing, BeginImmediate, BeginDeferred
  <1>0. ASSUME StatementEnds(d) PROVE db' = db
    BY <1>0 DEF StatementEnds
  <1>1. CASE Begin(d) \/ BeginBusy(d) \/ BeginFails(d)
    BY <1>1 DEF Begin, BeginBusy, BeginFails
  <1>2. CASE QueryVersion(d) \/ WrongVersion(d) \/ QueryFails(d)
    BY <1>2 DEF QueryVersion, WrongVersion, QueryFails
  <1>3. CASE InsertMessage(d) \/ InsertRefused(d) \/ InsertBusy(d)
             \/ InsertFails(d)
    BY <1>3 DEF InsertMessage, InsertRefused, InsertBusy, InsertFails
  <1>4. CASE CommitMessage(d)
    BY <1>4 DEF CommitMessage, Commit
  <1>5. CASE CommitFails(d) \/ Cleanup(d)
    BY <1>5 DEF CommitFails, Cleanup
  <1>6. CASE ReturnPosition(d)
    BY <1>0, <1>6 DEF ReturnPosition
  <1>7. CASE ReturnError(d) \/ ReturnInterrupted(d)
    BY <1>0, <1>7 DEF ReturnError, ReturnInterrupted
  <1>8. CASE \E arguments \in Call : Start(d, arguments)
    BY <1>8 DEF Start
  <1>9. CASE OpenSelect(d) \/ OpenWrite(d) \/ CloseStatement(d)
    BY <1>0, <1>9 DEF OpenSelect, OpenWrite, CloseStatement
  <1>10. CASE ClientBegin(d) \/ ClientRead(d)
    BY <1>10 DEF ClientBegin, ClientRead
  <1>11. CASE ClientCommit(d)
    BY <1>11 DEF ClientCommit, Commit
  <1>12. CASE ClientRollback(d) \/ Interrupt(d)
    BY <1>12 DEF ClientRollback, Interrupt
  <1>13. CASE Crash(d)
    BY <1>13 DEF Crash
  <1> QED
    BY <1>1, <1>2, <1>3, <1>4, <1>5, <1>6, <1>7, <1>8, <1>9, <1>10, <1>11,
       <1>12, <1>13 DEF CallStep, ClientStep

(* The version that a call expects is the one its position follows. *)
LEMMA VersionSteps ==
    ASSUME StoreInv, NEW c \in Conns, PendingOf(c), VersionOf(c),
           CallStep(c) \/ ClientStep(c)
    PROVE  VersionOf(c)'
  <1> DEFINE Kept == /\ call'[c] = call[c] /\ position'[c] = position[c]
                     /\ batch'[c] \subseteq batch[c]
                     /\ pc'[c] = "insert" \/ Inserted(c)'
                            => pc[c] = "insert" \/ Inserted(c)
             Over == /\ pc'[c] \in {"idle", "begin", "query", "cleanup"}
                     /\ batch'[c] \subseteq batch[c]
  <1> USE DEF StoreInv, TypeOK, CallTypeOK, Inserted, clientVars, callVars,
              Goto, Answer
  <1>0. ASSUME Kept \/ Over PROVE VersionOf(c)'
    <2>1. CASE Kept
      BY <2>1 DEF VersionOf, ConfirmationOf, VersionMet
    <2>2. CASE Over
      BY <2>2 DEF VersionOf, VersionMet
    <2> QED
      BY <1>0, <2>1, <2>2
  <1>1. CASE Begin(c) \/ BeginBusy(c) \/ BeginFails(c)
    BY <1>0, <1>1 DEF Begin, BeginBusy, BeginFails
  <1>2. CASE QueryVersion(c)
    <2> DEFINE version == StreamVersion(Snapshot(c), call[c].stream_name)
    <2>1. /\ position'[c] = version + 1
          /\ call[c].expected_version \in {NoVersion, version}
          /\ call' = call /\ batch' = batch
      BY <1>2 DEF QueryVersion, VersionExpected
    <2> QED
      BY <2>1 DEF VersionOf, ConfirmationOf, VersionMet
  <1>3. CASE WrongVersion(c) \/ QueryFails(c)
    <2>1. Over
      BY <1>3 DEF WrongVersion, QueryFails
    <2> QED
      BY <1>0, <2>1
  <1>4. CASE InsertMessage(c)
    <2>1. Kept
      BY <1>4 DEF InsertMessage
    <2> QED
      BY <1>0, <2>1
  <1>5. CASE InsertRefused(c) \/ InsertBusy(c) \/ InsertFails(c)
    <2>1. Over
      BY <1>5 DEF InsertRefused, InsertBusy, InsertFails
    <2> QED
      BY <1>0, <2>1
  <1>6. CASE CommitMessage(c) \/ CommitFails(c) \/ Cleanup(c)
    <2>1. Kept
      BY <1>6 DEF PendingOf, CommitMessage, CommitFails, Cleanup
    <2> QED
      BY <1>0, <2>1
  <1>7. CASE ReturnPosition(c)
    <2>1. /\ pc'[c] = "idle" /\ Inserted(c)
          /\ batch'[c] \subseteq batch[c] \cup {ConfirmationOf(c)}
      BY <1>7 DEF ReturnPosition, Forget
    <2> QED
      BY <2>1 DEF VersionOf, VersionMet
  <1>8. CASE ReturnError(c) \/ ReturnInterrupted(c)
    <2>1. Over
      BY <1>8 DEF ReturnError, ReturnInterrupted, Forget
    <2> QED
      BY <1>0, <2>1
  <1>9. CASE \E arguments \in Call : Start(c, arguments)
    <2>1. PICK arguments \in Call : Start(c, arguments)
      BY <1>9
    <2>2. Over
      BY <2>1 DEF Start
    <2> QED
      BY <1>0, <2>2
  <1>10. CASE OpenSelect(c) \/ OpenWrite(c) \/ CloseStatement(c)
    <2>1. Kept
      BY <1>10 DEF OpenSelect, OpenWrite, CloseStatement
    <2> QED
      BY <1>0, <2>1
  <1>11. CASE ClientBegin(c) \/ ClientRead(c)
    <2>1. Kept
      BY <1>11 DEF ClientBegin, ClientRead
    <2> QED
      BY <1>0, <2>1
  <1>12. CASE ClientCommit(c) \/ ClientRollback(c)
    <2>1. Kept
      BY <1>12 DEF ClientCommit, ClientRollback, EndBatch
    <2> QED
      BY <1>0, <2>1
  <1>13. CASE Interrupt(c)
    <2>1. Kept
      BY <1>13 DEF Interrupt
    <2> QED
      BY <1>0, <2>1
  <1>14. CASE Crash(c)
    <2>1. Over
      BY <1>14 DEF Crash, EndBatch, Forget
    <2> QED
      BY <1>0, <2>1
  <1> QED
    BY <1>1, <1>2, <1>3, <1>4, <1>5, <1>6, <1>7, <1>8, <1>9, <1>10, <1>11,
       <1>12, <1>13, <1>14 DEF CallStep, ClientStep

(* Every step keeps VersionInv. *)
LEMMA VersionInvStep ==
    ASSUME StoreInv, PendingInv, VersionInv, [Next]_vars
    PROVE  VersionInv'
  <1>1. CASE UNCHANGED vars
    BY <1>1 DEF vars, callVars, clientVars, VersionInv, VersionOf, VersionMet,
       Inserted, ConfirmationOf
  <1>2. CASE Next
    <2>1. PICK d \in Conns : CallStep(d) \/ ClientStep(d)
      BY <1>2 DEF Next
    <2>2. VersionOf(d) /\ PendingOf(d)
      BY DEF VersionInv, PendingInv
    <2>3. ASSUME NEW c \in Conns PROVE VersionOf(c)'
      <3>1. CASE c = d
        BY <2>1, <2>2, <3>1, VersionSteps
      <3>2. CASE c # d
        <4>1. /\ pc'[c] = pc[c] /\ reply'[c] = reply[c]
              /\ call'[c] = call[c] /\ position'[c] = position[c]
              /\ batch'[c] = batch[c]
          BY <2>1, <3>2, StepsKeepOthers, StepsKeepClients DEF OthersKept,
             ClientsKept
        <4> QED
          BY <4>1 DEF VersionInv, VersionOf, VersionMet, Inserted,
             ConfirmationOf
      <3> QED
        BY <3>1, <3>2
    <2>4. ASSUME NEW a \in acked' PROVE VersionMet(a)
      <3>1. ReturnPosition(d) => VersionMet(ConfirmationOf(d))
        BY <2>2 DEF ReturnPosition, VersionOf, Inserted
      <3> QED
        BY <2>1, <2>2, <3>1, StepsCommit DEF VersionInv, VersionOf
    <2> QED
      BY <2>3, <2>4 DEF VersionInv, VersionMet
  <1> QED
    BY <1>1, <1>2

(* When its ROLLBACK is executed, no transaction of a call outlives it. *)
LEMMA ClosedSteps ==
    ASSUME StoreInv, NEW c \in Conns, DecisionOf(c), PendingOf(c), ClosedOf(c),
           CallStep(c) \/ ClientStep(c), RollbacksExecute
    PROVE  ClosedOf(c)'
  <1> USE DEF StoreInv, TypeOK, SqliteTypeOK, CallTypeOK, ClosedOf, DecisionOf,
              sqliteVars, clientVars, callVars, Goto, Answer, RollbacksExecute
  <1>1. CASE Begin(c) \/ BeginBusy(c) \/ BeginFails(c)
    BY <1>1 DEF Begin, BeginBusy, BeginFails, BeginImmediate
  <1>2. CASE QueryVersion(c) \/ WrongVersion(c)
    BY <1>2 DEF QueryVersion, WrongVersion, Reads
  <1>3. CASE QueryFails(c)
    BY <1>3 DEF QueryFails, Reads, Rollback
  <1>4. CASE InsertMessage(c) \/ InsertRefused(c) \/ InsertBusy(c)
    BY <1>4 DEF InsertMessage, InsertRefused, InsertBusy, InsertRow,
       InsertNothing
  <1>5. CASE InsertFails(c)
    BY <1>5 DEF InsertFails, Rollback
  <1>6. CASE CommitMessage(c)
    BY <1>6 DEF CommitMessage, Commit
  <1>7. CASE CommitFails(c)
    BY <1>7 DEF CommitFails, Rollback
  <1>8. CASE Cleanup(c)
    BY <1>8 DEF Cleanup, Rollback
  <1>9. CASE ReturnPosition(c) \/ ReturnError(c) \/ ReturnInterrupted(c)
    <2>1. Forget(c) /\ pc[c] = "return" /\ UNCHANGED batching
      BY <1>9 DEF ReturnPosition, ReturnError, ReturnInterrupted
    <2>2. StatementEnds(c) \/ UNCHANGED <<sqliteVars, interrupted>>
      BY <1>9 DEF ReturnPosition, ReturnError, ReturnInterrupted
    <2>3. autocommit'[c] = autocommit[c] /\ ~interrupted'[c]
      BY <2>2, StatementEndsEffect
    <2> QED
      BY <2>1, <2>3 DEF Forget
  <1>10. CASE \E arguments \in Call : Start(c, arguments)
    <2>1. PICK arguments \in Call : Start(c, arguments)
      BY <1>10
    <2>2. /\ pc'[c] \in {"begin", "query"}
          /\ UNCHANGED <<interrupted, began, batching, autocommit>>
      BY <2>1 DEF Start
    <2> QED
      BY <2>2
  <1>11. CASE OpenSelect(c) \/ OpenWrite(c)
    BY <1>11 DEF OpenSelect, OpenWrite, Reads, InsertNothing
  <1>12. CASE CloseStatement(c)
    <2>1. autocommit'[c] = autocommit[c] /\ ~interrupted'[c]
      BY <1>12, StatementEndsEffect DEF CloseStatement
    <2> QED
      BY <1>12, <2>1 DEF CloseStatement
  <1>13. CASE ClientBegin(c) \/ ClientRead(c)
    BY <1>13 DEF ClientBegin, ClientRead, Reads
  <1>14. CASE ClientCommit(c) \/ ClientRollback(c)
    BY <1>14 DEF ClientCommit, ClientRollback, EndBatch, Commit, Rollback
  <1>15. CASE Interrupt(c)
    BY <1>15 DEF Interrupt
  <1>16. CASE Crash(c)
    BY <1>16 DEF Crash, EndBatch, Forget, Rollback
  <1> QED
    BY <1>1, <1>2, <1>3, <1>4, <1>5, <1>6, <1>7, <1>8, <1>9, <1>10, <1>11,
       <1>12, <1>13, <1>14, <1>15, <1>16 DEF CallStep, ClientStep

(* Every step keeps ClosedInv. *)
LEMMA ClosedInvStep ==
    ASSUME StoreInv, DecisionInv, PendingInv, ClosedInv, [Next]_vars,
           RollbacksExecute
    PROVE  ClosedInv'
  <1> SUFFICES ASSUME NEW c \in Conns PROVE ClosedOf(c)'
    BY DEF ClosedInv
  <1>1. DecisionOf(c) /\ PendingOf(c) /\ ClosedOf(c)
    BY DEF DecisionInv, PendingInv, ClosedInv
  <1>2. CASE UNCHANGED vars
    BY <1>1, <1>2 DEF vars, sqliteVars, callVars, clientVars, ClosedOf
  <1>3. CASE Next
    <2>1. PICK d \in Conns : CallStep(d) \/ ClientStep(d)
      BY <1>3 DEF Next
    <2>2. CASE d = c
      BY <1>1, <2>1, <2>2, ClosedSteps
    <2>3. CASE d # c
      BY <1>1, <2>1, <2>3, StepsKeepOthers, StepsKeepClients DEF OthersKept,
         ClientsKept, ClosedOf
    <2> QED
      BY <2>2, <2>3
  <1> QED
    BY <1>2, <1>3

(* The rows of a transaction are accounted for. *)
LEMMA AccountedSteps ==
    ASSUME StoreInv, NEW c \in Conns, DecisionOf(c), PendingOf(c), ClosedOf(c),
           Accounted(c), CallStep(c) \/ ClientStep(c), RollbacksExecute
    PROVE  Accounted(c)'
  <1> DEFINE Kept == /\ db' = db /\ view'[c] = view[c] /\ txn[c] = "write"
                     /\ batch'[c] = batch[c]
                     /\ ~Inserted(c)
                     /\ ~(pc[c] = "cleanup" /\ began[c])
             Fresh == txn'[c] = "write" => view'[c] = db'
  <1> USE DEF StoreInv, TypeOK, SqliteTypeOK, CallTypeOK, WriterContinues,
              ClosedOf, DecisionOf, Inserted, sqliteVars, clientVars, callVars,
              Goto, Answer
  <1>0. ASSUME Kept \/ Fresh PROVE Accounted(c)'
    <2>1. CASE Kept
      BY <2>1 DEF Accounted
    <2>2. CASE Fresh
      BY <2>2 DEF Accounted
    <2> QED
      BY <1>0, <2>1, <2>2
  <1>1. CASE Begin(c)
    <2>1. Fresh
      BY <1>1 DEF Begin, BeginImmediate, CanWrite, Writes, Snapshot
    <2> QED
      BY <1>0, <2>1
  <1>2. CASE BeginBusy(c) \/ BeginFails(c)
    <2>1. Fresh
      BY <1>2 DEF BeginBusy, BeginFails
    <2> QED
      BY <1>0, <2>1
  <1>3. CASE QueryVersion(c) \/ WrongVersion(c)
    <2>1. Kept \/ Fresh
      BY <1>3 DEF QueryVersion, WrongVersion, Reads, Snapshot
    <2> QED
      BY <1>0, <2>1
  <1>4. CASE QueryFails(c)
    <2>1. CASE UNCHANGED <<sqliteVars, batch>>
      <3>1. Kept \/ Fresh
        BY <1>4, <2>1 DEF QueryFails
      <3> QED
        BY <1>0, <3>1
    <2>2. CASE Reads(c) /\ UNCHANGED batch
      <3>1. Kept \/ Fresh
        BY <1>4, <2>2 DEF QueryFails, Reads, Snapshot
      <3> QED
        BY <1>0, <3>1
    <2>3. CASE Rollback(c, Stepping(c))
      <3>1. Fresh
        BY <2>3, RollbackEnds DEF Stepping
      <3> QED
        BY <1>0, <3>1
    <2> QED
      BY <1>4, <2>1, <2>2, <2>3 DEF QueryFails
  <1>5. CASE InsertMessage(c)
    <2>1. /\ Rows(view[c])' = Rows(view[c]) \cup {NewRow(c)}
          /\ db' = db /\ NewRow(c)' = NewRow(c)
      BY <1>5, InsertMakesPending
    <2>2. Inserted(c)' /\ batch' = batch /\ pc[c] = "insert"
      BY <1>5 DEF InsertMessage
    <2>3. txn[c] = "write" \/ view[c] = db
      BY <1>5 DEF InsertMessage, InsertRow, CanWrite, PositionFromView
    <2>4. \A row \in Rows(view[c]) : row \in Rows(db) \/ row.id \in IdsOf(batch[c])
      BY <2>2, <2>3 DEF Accounted
    <2> HIDE DEF Inserted
    <2> QED
      BY <2>1, <2>2, <2>4 DEF Accounted
  <1>6. CASE InsertRefused(c)
    <2>1. Kept \/ Fresh
      BY <1>6 DEF InsertRefused, InsertNothing, Writes, CanWrite, Snapshot,
         PositionFromView
    <2> QED
      BY <1>0, <2>1
  <1>7. CASE InsertBusy(c)
    <2>1. Kept \/ Fresh
      BY <1>7 DEF InsertBusy
    <2> QED
      BY <1>0, <2>1
  <1>8. CASE InsertFails(c)
    <2>1. CASE UNCHANGED <<sqliteVars, batch>>
      <3>1. Kept \/ Fresh
        BY <1>8, <2>1 DEF InsertFails
      <3> QED
        BY <1>0, <3>1
    <2>2. CASE Rollback(c, Stepping(c))
      <3>1. Fresh
        BY <2>2, RollbackEnds DEF Stepping
      <3> QED
        BY <1>0, <3>1
    <2> QED
      BY <1>8, <2>1, <2>2 DEF InsertFails
  <1>9. CASE CommitMessage(c)
    <2>1. Fresh
      BY <1>9 DEF CommitMessage, Commit, EndsTransaction
    <2> QED
      BY <1>0, <2>1
  <1>10. CASE CommitFails(c)
    <2>1. pc'[c] = "cleanup" /\ began'[c]
      BY <1>10 DEF CommitFails, PendingOf
    <2> QED
      BY <2>1 DEF Accounted
  <1>11. CASE Cleanup(c)
    <2>1. pc[c] = "cleanup" /\ batch' = batch
      BY <1>11 DEF Cleanup
    <2>2. CASE Rollback(c, Stepping(c))
      <3>1. Fresh
        BY <2>2, RollbackEnds DEF Stepping
      <3> QED
        BY <1>0, <3>1
    <2>3. CASE UNCHANGED sqliteVars /\ (~began[c] \/ autocommit[c])
      <3>1. Kept \/ Fresh
        BY <2>1, <2>3
      <3> QED
        BY <1>0, <3>1
    <2> QED
      BY <1>11, <2>2, <2>3 DEF Cleanup, ClosedOf, RollbacksExecute
  <1>12. CASE ReturnPosition(c)
    <2> HIDE DEF StoreInv, sqliteVars
    <2>a. StatementEnds(c) \/ UNCHANGED sqliteVars
      BY <1>12 DEF ReturnPosition
    <2>0. /\ db' = db /\ autocommit'[c] = autocommit[c]
          /\ \/ autocommit[c] /\ txn'[c] = "none"
             \/ txn'[c] = txn[c] /\ view'[c] = view[c]
          /\ ~autocommit[c] => txn'[c] = txn[c] /\ view'[c] = view[c]
      BY <2>a, EndsEffect
    <2> USE DEF StoreInv, sqliteVars
    <2>1. CASE autocommit[c]
      <3>1. Fresh
        BY <2>0, <2>1
      <3> QED
        BY <1>0, <3>1
    <2>2. CASE ~autocommit[c]
      <3>1. batching[c] /\ pc[c] = "return"
        BY <1>12, <2>2 DEF ReturnPosition
      <3>2. batch'[c] = batch[c] \cup {ConfirmationOf(c)}
        BY <1>12, <2>2, <3>1 DEF ReturnPosition
      <3>3. db' = db /\ txn'[c] = txn[c] /\ view'[c] = view[c]
        BY <2>0, <2>2
      <3>4. NewRow(c).id \in IdsOf(batch'[c])
        <4>1. NewRow(c).id = ConfirmationOf(c).id
          BY DEF NewRow, ConfirmationOf
        <4>2. ConfirmationOf(c) \in batch'[c]
          BY <3>2
        <4> HIDE DEF StoreInv
        <4> QED
          BY <4>1, <4>2 DEF IdsOf
      <3>5. IdsOf(batch[c]) \subseteq IdsOf(batch'[c])
        BY <3>2 DEF IdsOf
      <3>6. pc'[c] = "idle"
        BY <1>12 DEF ReturnPosition, Forget
      <3>7. txn[c] = "write" => \A row \in Rows(view[c]) :
                row \in Rows(db) \/ row.id \in IdsOf(batch'[c])
        BY <3>1, <3>4, <3>5 DEF Accounted
      <3> HIDE DEF StoreInv, Inserted
      <3> QED
        BY <3>3, <3>7 DEF Accounted, IdsOf
    <2> QED
      BY <2>1, <2>2
  <1>13. CASE ReturnError(c) \/ ReturnInterrupted(c)
    <2>1. /\ pc[c] = "return" /\ reply[c] # "position" /\ UNCHANGED batch
          /\ StatementEnds(c)
      BY <1>13 DEF ReturnError, ReturnInterrupted
    <2>2. Kept \/ Fresh
      BY <2>1, StatementEndsEffect
    <2> QED
      BY <1>0, <2>2
  <1>14. CASE \E arguments \in Call : Start(c, arguments)
    <2>1. PICK arguments \in Call : Start(c, arguments)
      BY <1>14
    <2>2. Kept \/ Fresh
      BY <2>1 DEF Start
    <2> QED
      BY <1>0, <2>2
  <1>15. CASE OpenSelect(c)
    <2>1. Kept \/ Fresh
      BY <1>15 DEF OpenSelect, Reads, Snapshot
    <2> QED
      BY <1>0, <2>1
  <1>16. CASE OpenWrite(c)
    <2>1. Fresh
      BY <1>16 DEF OpenWrite, InsertNothing, Writes, CanWrite, Snapshot
    <2> QED
      BY <1>0, <2>1
  <1>17. CASE CloseStatement(c)
    <2>0. pc[c] = "idle" /\ UNCHANGED batch /\ StatementEnds(c)
      BY <1>17 DEF CloseStatement
    <2>1. Kept \/ Fresh
      BY <2>0, StatementEndsEffect
    <2> QED
      BY <1>0, <2>1
  <1>18. CASE ClientBegin(c) \/ ClientRead(c)
    <2>1. CASE BeginImmediate(c)
      <3>1. Fresh
        BY <1>18, <2>1 DEF ClientBegin, ClientRead, BeginImmediate, Writes,
           CanWrite, Snapshot
      <3> QED
        BY <1>0, <3>1
    <2>2. CASE BeginDeferred(c) \/ ClientRead(c)
      <3>1. Kept \/ Fresh
        BY <1>18, <2>2 DEF ClientBegin, ClientRead, BeginDeferred, Reads
      <3> QED
        BY <1>0, <3>1
    <2> QED
      BY <1>18, <2>1, <2>2 DEF ClientBegin
  <1>19. CASE ClientCommit(c)
    <2>1. ASSUME autocommit[c] PROVE Fresh
      BY <1>19, <2>1 DEF ClientCommit
    <2>2. ASSUME Commit(c, FALSE) PROVE Fresh
      BY <2>2 DEF Commit, EndsTransaction
    <2>3. Fresh
      BY <1>19, <2>1, <2>2 DEF ClientCommit
    <2> QED
      BY <1>0, <2>3
  <1>20. CASE ClientRollback(c) \/ Crash(c)
    <2>1. Fresh
      BY <1>20, RollbackEnds DEF ClientRollback, Crash
    <2> QED
      BY <1>0, <2>1
  <1>21. CASE Interrupt(c)
    BY <1>21 DEF Interrupt, RollbacksExecute
  <1> QED
    BY <1>1, <1>2, <1>3, <1>4, <1>5, <1>6, <1>7, <1>8, <1>9, <1>10, <1>11,
       <1>12, <1>13, <1>14, <1>15, <1>16, <1>17, <1>18, <1>19, <1>20, <1>21
       DEF CallStep, ClientStep

(* Every step keeps AccountedInv. *)
LEMMA AccountedInvStep ==
    ASSUME StoreInv, DecisionInv, PendingInv, ClosedInv, AccountedInv,
           [Next]_vars, RollbacksExecute
    PROVE  AccountedInv'
  <1> SUFFICES ASSUME NEW c \in Conns PROVE Accounted(c)'
    BY DEF AccountedInv
  <1>1. DecisionOf(c) /\ PendingOf(c) /\ ClosedOf(c) /\ Accounted(c)
    BY DEF DecisionInv, PendingInv, ClosedInv, AccountedInv
  <1>2. CASE UNCHANGED vars
    BY <1>1, <1>2 DEF vars, sqliteVars, callVars, clientVars, Accounted,
       Inserted, NewRow
  <1>3. CASE Next
    <2>1. PICK d \in Conns : CallStep(d) \/ ClientStep(d)
      BY <1>3 DEF Next
    <2>2. CASE d = c
      BY <1>1, <2>1, <2>2, AccountedSteps
    <2>3. CASE d # c
      <3>1. /\ pc'[c] = pc[c] /\ reply'[c] = reply[c] /\ began'[c] = began[c]
            /\ txn'[c] = txn[c] /\ view'[c] = view[c] /\ batch'[c] = batch[c]
            /\ call'[c] = call[c] /\ position'[c] = position[c]
        BY <2>1, <2>3, StepsKeepOthers, StepsKeepClients DEF OthersKept,
           ClientsKept
      <3>2. Rows(db) \subseteq Rows(db')
        BY StoreInvStep, RowsKept
      <3> QED
        BY <1>1, <3>1, <3>2 DEF Accounted, Inserted, NewRow
    <2> QED
      BY <2>2, <2>3
  <1> QED
    BY <1>2, <1>3

(* A position is only confirmed for a row that is committed, or is about to
   be with the batch. *)
LEMMA AckedStep ==
    ASSUME StoreInv, PendingInv, ClosedInv, AckedDurable, [Next]_vars
    PROVE  AckedDurable'
  <1>1. Rows(db) \subseteq Rows(db')
    BY StoreInvStep, RowsKept
  <1>2. CASE UNCHANGED vars
    BY <1>2 DEF vars, sqliteVars, clientVars, AckedDurable, RowOf
  <1>3. CASE Next
    <2>1. PICK d \in Conns : CallStep(d) \/ ClientStep(d)
      BY <1>3 DEF Next
    <2>2. PendingOf(d) /\ ClosedOf(d)
      BY DEF PendingInv, ClosedInv
    <2>3. CASE acked' = acked
      BY <1>1, <2>3 DEF AckedDurable, RowOf
    <2>4. CASE /\ ReturnPosition(d) /\ ~batching[d]
               /\ acked' = acked \cup {ConfirmationOf(d)}
      <3>1. NewRow(d) \in Rows(db)
        BY <2>2, <2>4 DEF ReturnPosition, PendingOf, ClosedOf, Inserted
      <3>2. RowOf(ConfirmationOf(d)) = NewRow(d)
        BY DEF RowOf, ConfirmationOf, NewRow
      <3> QED
        BY <1>1, <2>4, <3>1, <3>2 DEF AckedDurable, RowOf
    <2>5. CASE /\ ClientCommit(d) /\ ~autocommit[d]
               /\ acked' = acked \cup batch[d]
      <3>1. txn[d] = "write" => db' = view[d]
        BY <2>5 DEF ClientCommit, Commit
      <3>2. \A a \in batch[d] : RowOf(a) \in Rows(db')
        BY <2>2, <3>1 DEF PendingOf, Pending
      <3> QED
        BY <1>1, <2>5, <3>2 DEF AckedDurable, RowOf
    <2> QED
      BY <2>1, <2>3, <2>4, <2>5, StepsCommit
  <1> QED
    BY <1>2, <1>3

(* A row of the committed store belongs to a confirmation, to a call that is
   about to return, or to one that could not. *)
Known(row) ==
    \/ row.id \in IdsOf(acked) \cup unconfirmed
    \/ \E c \in Conns : /\ pc[c] = "return"
                        /\ reply[c] = "position"
                        /\ row = NewRow(c)

(* A committed row that is known stays known: the rows of a batch become
   confirmed when it is committed, a returned one joins acked or batch. *)
LEMMA KnownStays ==
    ASSUME StoreInv, NEW d \in Conns, PendingOf(d), ClosedOf(d),
           RollbacksExecute, CallStep(d) \/ ClientStep(d),
           NEW row \in Rows(db), Known(row)
    PROVE  Known(row)'
  <1>1. acked \subseteq acked' /\ unconfirmed \subseteq unconfirmed'
    BY StepsCommit
  <1>2. CASE row.id \in IdsOf(acked) \cup unconfirmed
    BY <1>1, <1>2 DEF Known, IdsOf
  <1>3. ASSUME NEW c \in Conns \ {d}, pc[c] = "return", reply[c] = "position",
               row = NewRow(c)
        PROVE  Known(row)'
    <2>1. /\ pc'[c] = "return" /\ reply'[c] = "position"
          /\ call'[c] = call[c] /\ position'[c] = position[c]
      BY <1>3, StepsKeepOthers, StepsKeepClients DEF OthersKept, ClientsKept
    <2> QED
      BY <1>3, <2>1 DEF Known, NewRow
  <1>4. ASSUME pc[d] = "return", reply[d] = "position", row = NewRow(d)
        PROVE  Known(row)'
    <2>1. autocommit[d]
      BY <1>4, HasRowId DEF PendingOf, Inserted, Pending
    <2>2. ReturnPosition(d) \/ Crash(d) \/ ReturnInterrupted(d)
      <3>1. CASE CallStep(d)
        <4>1. ~Cleanup(d) /\ ~InsertFails(d) /\ ~QueryFails(d)
          BY <1>4 DEF Cleanup, InsertFails, QueryFails
        <4> QED
          BY <1>4, <3>1, <4>1 DEF CallStep, Begin, BeginBusy, BeginFails,
             QueryVersion, WrongVersion, InsertMessage, InsertRefused,
             InsertBusy, CommitMessage, CommitFails, ReturnError
      <3>2. CASE ClientStep(d)
        BY <1>4, <3>2 DEF RollbacksExecute, ClientStep, Start, OpenSelect,
           OpenWrite, CloseStatement, ClientBegin, ClientRead, ClientCommit,
           ClientRollback, Interrupt
      <3> QED
        BY <3>1, <3>2
    <2>3. row.id = call[d].id /\ row.id = ConfirmationOf(d).id
      BY <1>4 DEF NewRow, ConfirmationOf
    <2>4. \/ acked' = acked \cup {ConfirmationOf(d)}
          \/ unconfirmed' = unconfirmed \cup {call[d].id}
      BY <1>4, <2>1, <2>2 DEF ReturnPosition, Crash, ReturnInterrupted
    <2> QED
      BY <2>3, <2>4 DEF Known, IdsOf
  <1> QED
    BY <1>2, <1>3, <1>4 DEF Known

(* A commit adds known rows only, since it commits an accounted working copy. *)
LEMMA NewRowsKnown ==
    ASSUME StoreInv, NEW d \in Conns, PendingOf(d), Accounted(d),
           CallStep(d) \/ ClientStep(d),
           NEW row \in Rows(db'), row \notin Rows(db)
    PROVE  Known(row)'
  <1>1. /\ txn[d] = "write" /\ db' = view[d]
        /\ CommitMessage(d) \/ (ClientCommit(d) /\ ~autocommit[d])
    BY StepsCommit
  <1>2. CASE CommitMessage(d)
    <2>1. batch[d] = {} /\ pc[d] = "commit"
      BY <1>2 DEF CommitMessage, PendingOf
    <2>2. row = NewRow(d)
      BY <1>1, <2>1 DEF Accounted, IdsOf
    <2>3. /\ pc'[d] = "return" /\ reply'[d] = "position"
          /\ call'[d] = call[d] /\ position'[d] = position[d]
      BY <1>2 DEF CommitMessage, Answer, StoreInv, TypeOK, CallTypeOK
    <2> QED
      BY <2>2, <2>3 DEF Known, NewRow
  <1>3. CASE ClientCommit(d) /\ ~autocommit[d]
    <2>1. acked' = acked \cup batch[d] /\ pc[d] = "idle"
      BY <1>3 DEF ClientCommit
    <2>2. row.id \in IdsOf(batch[d])
      BY <1>1, <2>1 DEF Accounted, Inserted
    <2> QED
      BY <2>1, <2>2 DEF Known, IdsOf
  <1> QED
    BY <1>1, <1>2, <1>3

(* No step commits a row in silence. *)
LEMMA SilentStep ==
    ASSUME StoreInv, PendingInv, ClosedInv, AccountedInv, NoSilentWrite,
           [Next]_vars, RollbacksExecute
    PROVE  NoSilentWrite'
  <1>1. NoSilentWrite <=> \A row \in Rows(db) : Known(row)
    BY DEF NoSilentWrite, Known
  <1>2. NoSilentWrite' <=> \A row \in Rows(db') : Known(row)'
    BY DEF NoSilentWrite, Known
  <1>3. CASE UNCHANGED vars
    BY <1>3 DEF vars, sqliteVars, callVars, clientVars, NoSilentWrite, NewRow
  <1>4. CASE Next
    <2>1. PICK d \in Conns : CallStep(d) \/ ClientStep(d)
      BY <1>4 DEF Next
    <2>2. PendingOf(d) /\ ClosedOf(d) /\ Accounted(d)
      BY DEF PendingInv, ClosedInv, AccountedInv
    <2>3. ASSUME NEW row \in Rows(db') PROVE Known(row)'
      <3>1. CASE row \in Rows(db)
        BY <1>1, <2>1, <2>2, <3>1, KnownStays
      <3>2. CASE row \notin Rows(db)
        BY <2>1, <2>2, <3>2, NewRowsKnown
      <3> QED
        BY <3>1, <3>2
    <2> QED
      BY <1>2, <2>3
  <1> QED
    BY <1>3, <1>4

-----------------------------------------------------------------------------
(* At first nothing is returned, confirmed or committed. *)
LEMMA ConfirmationInitially ==
    Init => ClosedInv /\ AccountedInv /\ VersionInv /\ AckedDurable
            /\ NoSilentWrite
  BY DEF Init, SqliteInit, ClosedInv, ClosedOf, AccountedInv, Accounted,
     VersionInv, VersionOf, Inserted, AckedDurable, NoSilentWrite, EmptyStore,
     Rows, GlobalPositions

(* Every position that is returned, pending or confirmed follows the version
   its call expected. *)
THEOREM VersionInvHolds == Spec => []VersionInv
  <1>1. StoreInv /\ PendingInv /\ VersionInv /\ [Next]_vars => VersionInv'
    BY VersionInvStep
  <1>2. Init => VersionInv
    BY ConfirmationInitially
  <1> QED
    BY <1>1, <1>2, StoreInvHolds, PendingInvHolds, PTL DEF Spec

(* When its ROLLBACK is executed, the cleanup of write_message leaves no
   transaction of a call behind. *)
THEOREM ClosedInvHolds == RollbacksExecute => (Spec => []ClosedInv)
  <1> SUFFICES ASSUME RollbacksExecute PROVE Spec => []ClosedInv
    OBVIOUS
  <1>1. StoreInv /\ DecisionInv /\ PendingInv /\ ClosedInv /\ [Next]_vars
            => ClosedInv'
    BY ClosedInvStep
  <1>2. Init => ClosedInv
    BY ConfirmationInitially
  <1> QED
    BY <1>1, <1>2, StoreInvHolds, DecisionInvHolds, PendingInvHolds, PTL
       DEF Spec

(* When every ROLLBACK of a cleanup is executed, no row is in a transaction
   that nobody was or will be told of. *)
THEOREM AccountedInvHolds == RollbacksExecute => (Spec => []AccountedInv)
  <1> SUFFICES ASSUME RollbacksExecute PROVE Spec => []AccountedInv
    OBVIOUS
  <1>1. StoreInv /\ DecisionInv /\ PendingInv /\ ClosedInv /\ AccountedInv
            /\ [Next]_vars => AccountedInv'
    BY AccountedInvStep
  <1>2. Init => AccountedInv
    BY ConfirmationInitially
  <1>3. Spec => []ClosedInv
    BY ClosedInvHolds
  <1> QED
    BY <1>1, <1>2, <1>3, StoreInvHolds, DecisionInvHolds, PendingInvHolds, PTL
       DEF Spec

(* Outside a transaction of the application and outside its statements, a
   connection has no transaction and no lock, when every ROLLBACK of a
   cleanup is executed: what the cleanup label of write_message is for. *)
THEOREM NothingStaysOpen == RollbacksExecute => (Spec => []NothingLeftOpen)
  <1> SUFFICES ASSUME RollbacksExecute PROVE Spec => []NothingLeftOpen
    OBVIOUS
  <1>1. StoreInv /\ DecisionInv /\ PendingInv /\ ClosedInv => NothingLeftOpen
    BY DEF StoreInv, WriterContinues, DecisionInv, DecisionOf, PendingInv,
       PendingOf, ClosedInv, ClosedOf, NothingLeftOpen
  <1>2. Spec => []ClosedInv
    BY ClosedInvHolds
  <1> QED
    BY <1>1, <1>2, StoreInvHolds, DecisionInvHolds, PendingInvHolds, PTL

(* When every ROLLBACK of a cleanup is executed, a write that the application
   knows to be committed is in the store for good, at the position it was
   told. *)
THEOREM AckedAlwaysDurable == RollbacksExecute => (Spec => []AckedDurable)
  <1> SUFFICES ASSUME RollbacksExecute PROVE Spec => []AckedDurable
    OBVIOUS
  <1>1. StoreInv /\ PendingInv /\ ClosedInv /\ AckedDurable /\ [Next]_vars
            => AckedDurable'
    BY AckedStep
  <1>2. Init => AckedDurable
    BY ConfirmationInitially
  <1>3. Spec => []ClosedInv
    BY ClosedInvHolds
  <1> QED
    BY <1>1, <1>2, <1>3, StoreInvHolds, PendingInvHolds, PTL DEF Spec

(* When every ROLLBACK of a cleanup is executed, a call of write_message that
   fails has written nothing: every committed message is one the application knows of, is about
   to learn of, or could not be told of. *)
THEOREM NothingSilent == RollbacksExecute => (Spec => []NoSilentWrite)
  <1> SUFFICES ASSUME RollbacksExecute PROVE Spec => []NoSilentWrite
    OBVIOUS
  <1>1. StoreInv /\ PendingInv /\ ClosedInv /\ AccountedInv /\ NoSilentWrite
            /\ [Next]_vars => NoSilentWrite'
    BY SilentStep
  <1>2. Init => NoSilentWrite
    BY ConfirmationInitially
  <1>3. (Spec => []ClosedInv) /\ (Spec => []AccountedInv)
    BY ClosedInvHolds, AccountedInvHolds
  <1> QED
    BY <1>1, <1>2, <1>3, StoreInvHolds, PendingInvHolds, PTL DEF Spec

(* When every ROLLBACK of a cleanup is executed, of the calls of write_message
   that expect the same version of the same stream at most one is confirmed. *)
THEOREM ExpectedVersionSwaps == RollbacksExecute => (Spec => []CompareAndSwap)
  <1> SUFFICES ASSUME RollbacksExecute PROVE Spec => []CompareAndSwap
    OBVIOUS
  <1>1. StoreInv /\ VersionInv /\ AckedDurable => CompareAndSwap
    <2> SUFFICES ASSUME StoreInv, VersionInv, AckedDurable,
                        NEW a \in acked, NEW b \in acked,
                        a.expected_version # NoVersion,
                        a.expected_version = b.expected_version,
                        a.stream_name = b.stream_name
                 PROVE  a = b
      BY DEF CompareAndSwap
    <2>1. a.position = b.position
      <3>1. VersionMet(a) /\ VersionMet(b)
        BY DEF VersionInv
      <3> QED
        BY <3>1 DEF VersionMet
    <2>2. PICK g \in GlobalPositions(db) : db.messages[g] = RowOf(a)
      BY DEF AckedDurable, Rows
    <2>3. PICK h \in GlobalPositions(db) : db.messages[h] = RowOf(b)
      BY DEF AckedDurable, Rows
    <2>4. WellFormed(db) /\ IsStore(db)
      BY DEF StoreInv, AllSound, Sound
    <2>5. g \in Nat /\ h \in Nat
      BY <2>4, StoreKeys
    <2>10. a \in Confirmation /\ b \in Confirmation
      BY DEF StoreInv, TypeOK, CallTypeOK
    <2>11. a.position \in Nat
      BY <2>10 DEF Confirmation
    <2>6. /\ db.messages[g].stream_name = db.messages[h].stream_name
          /\ db.messages[g].position = db.messages[h].position
          /\ db.messages[g].position = a.position
      BY <2>1, <2>2, <2>3 DEF RowOf
    <2>7. g = h
      <3>1. StreamsOrdered(db)
        BY <2>4 DEF WellFormed
      <3>2. ~(a.position < a.position)
        BY <2>11
      <3>3. ~(g < h) /\ ~(h < g)
        BY <2>6, <3>1, <3>2 DEF StreamsOrdered
      <3> QED
        BY <2>5, <3>3
    <2>8. a.id = b.id
      BY <2>2, <2>3, <2>7 DEF RowOf
    <2> QED
      BY <2>1, <2>8, <2>10 DEF Confirmation
  <1>2. Spec => []AckedDurable
    BY AckedAlwaysDurable
  <1> QED
    BY <1>1, <1>2, StoreInvHolds, VersionInvHolds, PTL

-----------------------------------------------------------------------------
(* MessageLog has its Cardinality from an instance of FiniteSets; it is the
   same. *)
LEMMA SameCardinality ==
    ASSUME NEW S
    PROVE  Log!Cardinality(S) = Cardinality(S)
  BY DEF Log!Cardinality, Cardinality

(* A sound database that extends another continues it as the log does. *)
LEMMA SoundGrows ==
    ASSUME Sound(db'), Extends(db, db')
    PROVE  Log!Grows
  <1>1. IsStore(db') /\ WellFormed(db')
    BY DEF Sound
  <1>2. /\ db'.sequence \in Nat
        /\ DOMAIN db'.messages = 1 .. db'.sequence
    BY <1>1, StoreKeys DEF GlobalPositions
  <1>3. Cardinality(DOMAIN db'.messages) = db'.sequence
    <2>1. Cardinality(1 .. db'.sequence)
              = IF 1 > db'.sequence THEN 0 ELSE db'.sequence - 1 + 1
      BY <1>2, FS_Interval
    <2> QED
      BY <1>2, <2>1
  <1>4. \A g \in DOMAIN db.messages :
            g \in DOMAIN db'.messages /\ db'.messages[g] = db.messages[g]
    BY DEF Extends, GlobalPositions
  <1>5. ASSUME NEW g \in DOMAIN db'.messages
        PROVE  Log!Continues(db'.messages, g)
    <2>1. g \in GlobalPositions(db')
      BY DEF GlobalPositions
    <2>2. db'.messages[g].position
              = Cardinality({h \in 1 .. g - 1 :
                                db'.messages[h].stream_name
                                    = db'.messages[g].stream_name})
      BY <1>1, <2>1, PositionsCount
    <2>3. ASSUME NEW h \in 1 .. g - 1
          PROVE  db'.messages[h].id # db'.messages[g].id
      <3>1. h \in GlobalPositions(db') /\ h # g
        BY <1>2 DEF GlobalPositions
      <3> QED
        BY <1>1, <2>1, <3>1 DEF WellFormed, IdsUnique
    <2> QED
      BY <2>2, <2>3, SameCardinality DEF Log!Continues, Log!StreamLength
  <1> QED
    BY <1>2, <1>3, <1>4, <1>5, SameCardinality DEF Log!Grows

(* The committed table grows as the log does in any case, also when ROLLBACKs
   fail: no step of write_message or of an application puts a message anywhere but
   behind the others, in a row, at the position that the messages of its
   stream before it give it.  Readers (Retrieval) rest on that. *)
THEOREM LogAlwaysGrows == Spec => [][Log!Grows]_vars
  <1>1. StoreInv /\ StoreInv' /\ [Next]_vars => [Log!Grows]_vars
    BY StoreInvStep, SoundGrows DEF StoreInv, AllSound
  <1> QED
    BY <1>1, StoreInvHolds, PTL DEF Spec

(* Confirmations that are durable and met their version are truthful. *)
LEMMA TruthfulConfirms ==
    ASSUME AckedDurable', VersionInv', acked \subseteq acked'
    PROVE  Log!Confirms
  <1> SUFFICES ASSUME NEW a \in acked'
               PROVE  Log!Truthful(db'.messages, a)
    BY DEF Log!Confirms
  <1>1. RowOf(a) \in Rows(db')
    BY DEF AckedDurable, RowOf
  <1>2. PICK g \in DOMAIN db'.messages : db'.messages[g] = RowOf(a)
    BY <1>1 DEF Rows, GlobalPositions
  <1>3. /\ db'.messages[g].id = a.id
        /\ db'.messages[g].stream_name = a.stream_name
        /\ db'.messages[g].position = a.position
    BY <1>2 DEF RowOf
  <1>4. VersionMet(a)
    BY DEF VersionInv, VersionMet
  <1> QED
    BY <1>3, <1>4 DEF Log!Truthful, VersionMet

(* Every step of the connections is a step of the log, or none. *)
LEMMA StepsImplementLog ==
    ASSUME StoreInv, [Next]_vars, StoreInv', AckedDurable', VersionInv'
    PROVE  [Log!Next]_<<db.messages, acked>>
  <1>1. Log!Grows
    BY StoreInvStep, SoundGrows DEF StoreInv, AllSound
  <1>2. acked \subseteq acked'
    BY StepsCommit DEF Next, vars, clientVars
  <1> QED
    BY <1>1, <1>2, TruthfulConfirms DEF Log!Next

(* When every ROLLBACK of a cleanup is executed, the committed table and the
   confirmations of write_message behave as the abstract log, whatever the connections,
   transactions and failures: every commit appends messages at the positions
   that their streams have reached, and no confirmation is false. *)
THEOREM LogImplemented == RollbacksExecute => (Spec => ImplementsLog)
  <1> SUFFICES ASSUME RollbacksExecute PROVE Spec => ImplementsLog
    OBVIOUS
  <1>1. Init => Log!Init
    BY DEF Init, SqliteInit, EmptyStore, Log!Init
  <1>2. StoreInv /\ StoreInv' /\ AckedDurable' /\ VersionInv' /\ [Next]_vars
            => [Log!Next]_<<db.messages, acked>>
    BY StepsImplementLog
  <1>3. Spec => []AckedDurable
    BY AckedAlwaysDurable
  <1> QED
    BY <1>1, <1>2, <1>3, StoreInvHolds, VersionInvHolds, PTL
       DEF Spec, ImplementsLog, Log!Spec
=============================================================================
