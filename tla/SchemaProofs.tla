---------------------------- MODULE SchemaProofs ----------------------------
(***************************************************************************)
(* What install.sql promises and what the messages table keeps, proved for *)
(* every number of sessions that install and uninstall, every set of ids   *)
(* and streams, and every width of a position.                             *)
(*                                                                         *)
(* Two facts carry the proofs: a unique index that exists stands over a    *)
(* table without duplicates (it is only created over such a table, and     *)
(* then refuses or replaces), and a script that runs has left behind what  *)
(* its earlier statements created, unless another script dropped something *)
(* since.                                                                  *)
(***************************************************************************)
EXTENDS Schema, MessageStoreProofs

-----------------------------------------------------------------------------
StoredRow == [id : Ids, stream_name : Streams, position : 0 .. MaxPosition]

(* A table whose rows may have gaps in their keys, which are below the
   AUTOINCREMENT counter. *)
IsTable(table) ==
    /\ table = [messages |-> table.messages, sequence |-> table.sequence]
    /\ table.sequence \in Nat
    /\ GlobalPositions(table) \subseteq 1 .. table.sequence
    /\ table.messages \in [GlobalPositions(table) -> StoredRow]

TableInv == IsTable(store)

(* What a unique index compares. *)
Same(row, other, index) ==
    IF index = "messages_id" THEN row.id = other.id
    ELSE row.stream_name = other.stream_name /\ row.position = other.position

Distinct(table, index) ==
    \A g, h \in GlobalPositions(table) :
        Same(table.messages[g], table.messages[h], index) => g = h

(* A unique index that exists has no duplicates to refuse. *)
UniqueInv ==
    \A index \in UniqueIndexes : index \in objects => Distinct(store, index)

(* As long as nothing was dropped since a session began to install, what its
   script has got behind it is there. *)
ScriptsInv ==
    /\ \A s \in Uninstallers : at[s] \in 1 .. Len(Uninstall)
    /\ \A s \in Installers : ~dropped[s] =>
           /\ script[s] = "running" =>
                  \A i \in 1 .. at[s] - 1 : Install[i] \in objects
           /\ script[s] = "done" => objects = Objects

(* The inductive invariant. *)
SchemaInv ==
    /\ TypeOK
    /\ TableInv
    /\ UniqueInv
    /\ ScriptsInv

-----------------------------------------------------------------------------
(* The two scripts, statement by statement. *)
LEMMA Scripts ==
    /\ Len(Install) = 7 /\ Len(Uninstall) = 5
    /\ Objects = {"messages", "no_update", "no_delete", "messages_id",
                  "messages_stream", "other_indexes", "views"}
    /\ \A i \in 1 .. 7 : Install[i] \in Objects
    /\ \A i \in 1 .. 5 : Uninstall[i] \in Objects
    /\ \A object \in Objects : \E i \in 1 .. 7 : Install[i] = object
  <1>1. Len(Install) = 7 /\ Len(Uninstall) = 5
    BY DEF Install, Uninstall
  <1>2. \A i \in 1 .. 7 :
            i = 1 \/ i = 2 \/ i = 3 \/ i = 4 \/ i = 5 \/ i = 6 \/ i = 7
    OBVIOUS
  <1>3. /\ Install[1] = "messages" /\ Install[2] = "no_update"
        /\ Install[3] = "no_delete" /\ Install[4] = "messages_id"
        /\ Install[5] = "messages_stream" /\ Install[6] = "other_indexes"
        /\ Install[7] = "views"
    BY DEF Install
  <1>4. Objects = {"messages", "no_update", "no_delete", "messages_id",
                   "messages_stream", "other_indexes", "views"}
    BY <1>1, <1>2, <1>3 DEF Objects
  <1>5. \A i \in 1 .. 5 : i = 1 \/ i = 2 \/ i = 3 \/ i = 4 \/ i = 5
    OBVIOUS
  <1>6. /\ Uninstall[1] = "views" /\ Uninstall[2] = "other_indexes"
        /\ Uninstall[3] = "messages_stream" /\ Uninstall[4] = "messages_id"
        /\ Uninstall[5] = "messages"
    BY DEF Uninstall
  <1>7. \A i \in 1 .. 7 : Install[i] \in Objects
    BY <1>2, <1>3, <1>4
  <1>8. \A i \in 1 .. 5 : Uninstall[i] \in Objects
    BY <1>4, <1>5, <1>6
  <1>9. \A object \in Objects : \E i \in 1 .. 7 : Install[i] = object
    BY <1>3, <1>4
  <1> QED
    BY <1>1, <1>4, <1>7, <1>8, <1>9

(* Duplicated, said of the table as a value. *)
LEMMA DuplicatedIsNotDistinct ==
    ASSUME NEW index
    PROVE  Duplicated(index) <=> ~Distinct(store, index)
  BY DEF Duplicated, Distinct, Same

(* The table that CREATE TABLE makes. *)
LEMMA EmptyTable ==
    /\ IsTable(EmptyStore)
    /\ GlobalPositions(EmptyStore) = {}
    /\ \A index : Distinct(EmptyStore, index)
  <1>1. GlobalPositions(EmptyStore) = {}
    BY DEF EmptyStore, GlobalPositions
  <1>2. EmptyStore.messages \in [{} -> StoredRow]
    BY DEF EmptyStore
  <1> QED
    BY <1>1, <1>2 DEF IsTable, Distinct, EmptyStore

(* What a table with gaps looks like with a row more, at a key that is free
   and not beyond the next one. *)
LEMMA RowIntoTable ==
    ASSUME NEW table, IsTable(table), NEW row \in StoredRow,
           NEW key \in 1 .. table.sequence + 1,
           key \notin GlobalPositions(table)
    PROVE  LET after == WithRow(table, key, row)
           IN  /\ IsTable(after)
               /\ GlobalPositions(after) = GlobalPositions(table) \cup {key}
               /\ after.messages[key] = row
               /\ \A g \in GlobalPositions(table) :
                      after.messages[g] = table.messages[g]
  <1> DEFINE after == WithRow(table, key, row)
             new == [g \in GlobalPositions(table) \cup {key} |->
                        IF g = key THEN row ELSE table.messages[g]]
             last == IF key > table.sequence THEN key ELSE table.sequence
  <1>1. after = [messages |-> new, sequence |-> last]
    BY DEF WithRow
  <1>2. /\ table.sequence \in Nat
        /\ GlobalPositions(table) \subseteq 1 .. table.sequence
        /\ \A g \in GlobalPositions(table) : table.messages[g] \in StoredRow
    BY DEF IsTable
  <1>3. /\ last \in Nat /\ key \in 1 .. last
        /\ 1 .. table.sequence \subseteq 1 .. last
    BY <1>2
  <1>4. new \in [GlobalPositions(table) \cup {key} -> StoredRow]
    BY <1>2
  <1> HIDE DEF last
  <1>5. GlobalPositions(after) = GlobalPositions(table) \cup {key}
    BY <1>1 DEF GlobalPositions
  <1>6. GlobalPositions(table) \cup {key} \subseteq 1 .. last
    BY <1>2, <1>3
  <1>7. IsTable(after)
    <2> HIDE DEF new
    <2> QED
      BY <1>1, <1>3, <1>4, <1>5, <1>6 DEF IsTable
  <1>8. new[key] = row
    OBVIOUS
  <1>9. \A g \in GlobalPositions(table) : new[g] = table.messages[g]
    OBVIOUS
  <1> HIDE DEF new
  <1> QED
    BY <1>1, <1>5, <1>7, <1>8, <1>9

(* The table without some rows. *)
LEMMA TableWithout ==
    ASSUME TableInv, NEW rows
    PROVE  /\ IsTable(Without(rows))
           /\ GlobalPositions(Without(rows)) = GlobalPositions(store) \ rows
           /\ \A g \in GlobalPositions(store) \ rows :
                  Without(rows).messages[g] = store.messages[g]
           /\ Without(rows).sequence = store.sequence
  <1> DEFINE kept == [g \in GlobalPositions(store) \ rows |->
                         store.messages[g]]
  <1>1. /\ store = [messages |-> store.messages, sequence |-> store.sequence]
        /\ store.sequence \in Nat
        /\ GlobalPositions(store) \subseteq 1 .. store.sequence
        /\ \A g \in GlobalPositions(store) : store.messages[g] \in StoredRow
    BY DEF TableInv, IsTable
  <1>2. Without(rows) = [messages |-> kept, sequence |-> store.sequence]
    BY <1>1 DEF Without
  <1>3. kept \in [GlobalPositions(store) \ rows -> StoredRow]
    BY <1>1
  <1>4. GlobalPositions(Without(rows)) = GlobalPositions(store) \ rows
    BY <1>2 DEF GlobalPositions
  <1>5. IsTable(Without(rows))
    <2> HIDE DEF kept
    <2> QED
      BY <1>1, <1>2, <1>3, <1>4 DEF IsTable
  <1> QED
    BY <1>2, <1>4, <1>5

(* Also in a table with gaps a stream has a version: the largest of its
   positions, which are bounded, or -1. *)
LEMMA TableVersion64 ==
    ASSUME NEW table, IsTable(table), NEW stream
    PROVE  StreamVersion(table, stream) \in -1 .. MaxPosition
  <1> DEFINE Positions == {table.messages[g].position :
                 g \in {h \in GlobalPositions(table) :
                            table.messages[h].stream_name = stream}}
             Gaps == {MaxPosition - position : position \in Positions}
  <1>1. /\ MaxPosition \in Nat
        /\ \A g \in GlobalPositions(table) :
               table.messages[g].position \in 0 .. MaxPosition
    BY MaxPositionAssumption DEF IsTable, StoredRow
  <1>2. \E version \in StoredVersions(table) :
            IsStreamVersion(table, stream, version)
    <2>1. CASE Positions = {}
      BY <2>1 DEF StoredVersions, IsStreamVersion
    <2>2. CASE Positions # {}
      <3>1. \A position \in Positions : position \in 0 .. MaxPosition
        BY <1>1
      <3>2. Gaps \in SUBSET Nat /\ Gaps # {}
        <4>1. \A position \in Positions : MaxPosition - position \in Nat
          BY <1>1, <3>1
        <4> HIDE DEF Positions
        <4> QED
          BY <2>2, <4>1
      <3>3. PICK least \in Gaps : \A other \in Gaps : least <= other
        BY <3>2, LeastExists
      <3>4. PICK version \in Positions : least = MaxPosition - version
        BY <3>3
      <3>5. ASSUME NEW position \in Positions
            PROVE  position <= version
        <4>0. MaxPosition - position \in Gaps
          OBVIOUS
        <4>1. MaxPosition - version <= MaxPosition - position
          <5> HIDE DEF Gaps
          <5> QED
            BY <3>3, <3>4, <4>0
        <4>2. position \in Int /\ version \in Int
          BY <3>1
        <4> HIDE DEF Positions
        <4> QED
          BY <1>1, <4>1, <4>2
      <3>6. PICK top \in GlobalPositions(table) :
                   /\ table.messages[top].stream_name = stream
                   /\ table.messages[top].position = version
        BY <3>4
      <3>7. version \in StoredVersions(table)
        BY <3>6 DEF StoredVersions, Rows
      <3>8. IsStreamVersion(table, stream, version)
        <4>1. \A g \in GlobalPositions(table) :
                  table.messages[g].stream_name = stream
                      => table.messages[g].position \in Positions
          OBVIOUS
        <4> HIDE DEF Positions
        <4>2. \A g \in GlobalPositions(table) :
                  table.messages[g].stream_name = stream
                      => table.messages[g].position <= version
          BY <3>5, <4>1
        <4>3. HasPosition(table, stream, version)
          BY <3>6 DEF HasPosition
        <4> QED
          BY <4>2, <4>3 DEF IsStreamVersion
      <3> QED
        BY <3>7, <3>8
    <2> QED
      BY <2>1, <2>2
  <1>3. StreamVersion(table, stream) \in StoredVersions(table)
    BY <1>2 DEF StreamVersion
  <1>4. StoredVersions(table) \subseteq -1 .. MaxPosition
    BY <1>1 DEF StoredVersions, Rows
  <1> QED
    BY <1>3, <1>4

-----------------------------------------------------------------------------
(* At first there is no table and no script runs. *)
LEMMA InitSchema == Init => SchemaInv
  <1> SUFFICES ASSUME Init
               PROVE  SchemaInv
    OBVIOUS
  <1>1. /\ objects = {} /\ store = EmptyStore
        /\ script = [s \in Sessions |-> "idle"]
        /\ at = [s \in Sessions |-> 1]
        /\ dropped = [s \in Sessions |-> FALSE]
        /\ failures = 0 /\ uninstalls = 0
    BY DEF Init
  <1>2. Rows(store) = {}
    BY <1>1, EmptyTable DEF Rows
  <1>3. TypeOK
    BY <1>1, <1>2, Scripts, BoundsAssumption DEF TypeOK
  <1>4. TableInv /\ UniqueInv
    BY <1>1, EmptyTable DEF TableInv, UniqueInv
  <1>5. ScriptsInv
    BY <1>1, Scripts DEF ScriptsInv, Sessions
  <1> QED
    BY <1>3, <1>4, <1>5 DEF SchemaInv

(* The rows that a unique index would refuse a row for are its conflicts. *)
LEMMA ConflictsFound ==
    ASSUME NEW row, NEW index \in UniqueIndexes, index \in objects,
           NEW g \in GlobalPositions(store), NEW key,
           Same(store.messages[g], row, index)
    PROVE  g \in Conflicts(key, row)
  <1>1. index = "messages_id" \/ index = "messages_stream"
    BY DEF UniqueIndexes
  <1>2. index \in objects \cap UniqueIndexes
    OBVIOUS
  <1> QED
    BY <1>1, <1>2 DEF Conflicts, Same

(* A row that is the same as no other leaves a table distinct. *)
LEMMA RowDistinct ==
    ASSUME NEW table, IsTable(table), NEW row \in StoredRow,
           NEW key \in 1 .. table.sequence + 1,
           key \notin GlobalPositions(table), NEW index,
           Distinct(table, index),
           \A g \in GlobalPositions(table) :
               ~Same(table.messages[g], row, index)
    PROVE  Distinct(WithRow(table, key, row), index)
  <1> DEFINE after == WithRow(table, key, row)
  <1>1. /\ GlobalPositions(after) = GlobalPositions(table) \cup {key}
        /\ after.messages[key] = row
        /\ \A g \in GlobalPositions(table) :
               after.messages[g] = table.messages[g]
    BY RowIntoTable
  <1> HIDE DEF after
  <1>2. \A g \in GlobalPositions(table) :
            /\ ~Same(after.messages[g], after.messages[key], index)
            /\ ~Same(after.messages[key], after.messages[g], index)
    BY <1>1 DEF Same
  <1>3. \A g, h \in GlobalPositions(table) :
            Same(after.messages[g], after.messages[h], index) => g = h
    BY <1>1 DEF Distinct
  <1>4. Distinct(after, index)
    BY <1>1, <1>2, <1>3 DEF Distinct
  <1> QED
    BY <1>4 DEF after

(* A step that changes nothing but the rows of the table. *)
LEMMA RowsStep ==
    ASSUME SchemaInv, UNCHANGED <<objects, sessionVars, failures, uninstalls>>,
           "messages" \in objects, IsTable(store'),
           \A index \in UniqueIndexes :
               index \in objects => Distinct(store', index)
    PROVE  SchemaInv'
  <1>1. UNCHANGED <<objects, script, at, dropped, failures, uninstalls>>
    BY DEF sessionVars
  <1>2. \A row \in Rows(store') :
            row \in [id : Ids, stream_name : Streams, position : Int]
    <2>1. Rows(store') \subseteq StoredRow
      BY DEF IsTable, Rows
    <2>2. StoredRow \subseteq
              [id : Ids, stream_name : Streams, position : Int]
      <3>1. 0 .. MaxPosition \subseteq Int
        OBVIOUS
      <3> QED
        BY <3>1 DEF StoredRow
    <2> QED
      BY <2>1, <2>2
  <1>3. TypeOK'
    BY <1>1, <1>2 DEF SchemaInv, TypeOK
  <1>4. TableInv' /\ UniqueInv'
    BY <1>1 DEF TableInv, UniqueInv
  <1>5. ScriptsInv'
    BY <1>1 DEF SchemaInv, ScriptsInv
  <1> QED
    BY <1>3, <1>4, <1>5 DEF SchemaInv

(* An INSERT is refused by the unique indexes or keeps them valid. *)
LEMMA InsertRowStep ==
    ASSUME SchemaInv, NEW id \in Ids, NEW stream \in Streams,
           NEW position \in Int, position <= MaxPosition,
           NEW key \in 1 .. NextKey,
           InsertRow(key, [id |-> id, stream_name |-> stream,
                           position |-> position])
    PROVE  SchemaInv'
  <1> DEFINE row == [id |-> id, stream_name |-> stream,
                     position |-> position]
  <1>1. /\ "messages" \in objects
        /\ Checks(row)
        /\ Conflicts(key, row) = {}
        /\ store' = WithRow(store, key, row)
        /\ UNCHANGED <<objects, sessionVars, failures, uninstalls>>
    BY DEF InsertRow
  <1>2. row \in StoredRow
    <2>1. position \in 0 .. MaxPosition
      BY <1>1, MaxPositionAssumption DEF Checks
    <2> QED
      BY <2>1 DEF StoredRow
  <1> HIDE DEF row
  <1>0. /\ key \in 1 .. store.sequence + 1
        /\ key \notin GlobalPositions(store)
    BY <1>1 DEF Conflicts, NextKey
  <1>3. IsTable(store')
    BY <1>0, <1>1, <1>2, RowIntoTable DEF SchemaInv, TableInv
  <1>4. ASSUME NEW index \in UniqueIndexes, index \in objects
        PROVE  Distinct(store', index)
    <2>1. \A g \in GlobalPositions(store) :
              ~Same(store.messages[g], row, index)
      BY <1>1, <1>4, ConflictsFound
    <2>2. IsTable(store) /\ Distinct(store, index)
      BY <1>4 DEF SchemaInv, TableInv, UniqueInv
    <2> QED
      BY <1>0, <1>1, <1>2, <2>1, <2>2, RowDistinct
  <1> QED
    BY <1>1, <1>3, <1>4, RowsStep

(* At the end of the range the CHECK refuses the negative numbers that the
   sum may be. *)
LEMMA WriteMessageStep ==
    ASSUME SchemaInv, NEW id \in Ids, NEW stream \in Streams,
           WriteMessage(id, stream)
    PROVE  SchemaInv'
  <1> DEFINE version == StreamVersion(store, stream)
  <1>1. version \in -1 .. MaxPosition
    BY TableVersion64 DEF SchemaInv, TableInv
  <1>2. PICK position \in NextPositions(version) :
            InsertRow(NextKey, [id |-> id, stream_name |-> stream,
                                position |-> position])
    BY DEF WriteMessage
  <1> HIDE DEF version
  <1>3. position \in Int /\ position <= MaxPosition
    BY <1>1, <1>2, MaxPositionAssumption DEF NextPositions
  <1>4. NextKey \in 1 .. NextKey
    BY DEF NextKey, SchemaInv, TableInv, IsTable
  <1> QED
    BY <1>2, <1>3, <1>4, InsertRowStep

(* INSERT OR REPLACE removes what the unique indexes would refuse, and the
   row whose key it takes. *)
LEMMA ReplaceStep ==
    ASSUME SchemaInv, NEW id \in Ids, NEW stream \in Streams,
           NEW position \in 0 .. MaxPosition, NEW key \in 1 .. NextKey,
           Replace(key, [id |-> id, stream_name |-> stream,
                         position |-> position])
    PROVE  SchemaInv'
  <1> DEFINE row == [id |-> id, stream_name |-> stream,
                     position |-> position]
             table == Without(Conflicts(key, row))
  <1>1. /\ "messages" \in objects
        /\ store' = WithRow(table, key, row)
        /\ UNCHANGED <<objects, sessionVars, failures, uninstalls>>
    BY DEF Replace
  <1>2. row \in StoredRow
    BY DEF StoredRow
  <1> HIDE DEF row
  <1>3. /\ IsTable(table)
        /\ GlobalPositions(table) =
               GlobalPositions(store) \ Conflicts(key, row)
        /\ \A g \in GlobalPositions(table) :
               table.messages[g] = store.messages[g]
        /\ table.sequence = store.sequence
    BY TableWithout DEF SchemaInv
  <1> HIDE DEF table
  <1>0. /\ key \in 1 .. table.sequence + 1
        /\ key \notin GlobalPositions(table)
    BY <1>3 DEF Conflicts, NextKey
  <1>4. IsTable(store')
    BY <1>0, <1>1, <1>2, <1>3, RowIntoTable
  <1>5. ASSUME NEW index \in UniqueIndexes, index \in objects
        PROVE  Distinct(store', index)
    <2>1. \A g \in GlobalPositions(table) :
              ~Same(table.messages[g], row, index)
      BY <1>3, <1>5, ConflictsFound
    <2>2. Distinct(store, index)
      BY <1>5 DEF SchemaInv, UniqueInv
    <2>3. Distinct(table, index)
      BY <1>3, <2>2 DEF Distinct
    <2> QED
      BY <1>0, <1>1, <1>2, <1>3, <2>1, <2>3, RowDistinct
  <1> QED
    BY <1>1, <1>4, <1>5, RowsStep

(* A table with a row has not been dropped. *)
LEMMA RowsNeedTable ==
    ASSUME SchemaInv, NEW g \in GlobalPositions(store)
    PROVE  "messages" \in objects
  BY EmptyTable DEF SchemaInv, TypeOK

(* Without some rows the others are still distinct. *)
LEMMA DeleteStep ==
    ASSUME SchemaInv, NEW g \in GlobalPositions(store), Delete(g)
    PROVE  SchemaInv'
  <1> DEFINE table == Without({g})
  <1>1. /\ store' = table
        /\ UNCHANGED <<objects, sessionVars, failures, uninstalls>>
        /\ "messages" \in objects
    BY RowsNeedTable DEF Delete
  <1>2. /\ IsTable(table)
        /\ GlobalPositions(table) = GlobalPositions(store) \ {g}
        /\ \A h \in GlobalPositions(table) :
               table.messages[h] = store.messages[h]
    BY TableWithout DEF SchemaInv
  <1> HIDE DEF table
  <1>3. ASSUME NEW index \in UniqueIndexes, index \in objects
        PROVE  Distinct(store', index)
    <2>1. Distinct(store, index)
      BY <1>3 DEF SchemaInv, UniqueInv
    <2> QED
      BY <1>1, <1>2, <2>1 DEF Distinct
  <1> QED
    BY <1>1, <1>2, <1>3, RowsStep

(* An UPDATE is refused by the unique indexes or keeps them valid. *)
LEMMA UpdateStep ==
    ASSUME SchemaInv, NEW id \in Ids, NEW stream \in Streams,
           NEW position \in 0 .. MaxPosition,
           NEW g \in GlobalPositions(store),
           Update(g, [id |-> id, stream_name |-> stream,
                      position |-> position])
    PROVE  SchemaInv'
  <1> DEFINE row == [id |-> id, stream_name |-> stream,
                     position |-> position]
             rows == [store.messages EXCEPT ![g] = row]
  <1>1. /\ Conflicts(g, row) = {g}
        /\ store' = [store EXCEPT !.messages[g] = row]
        /\ UNCHANGED <<objects, sessionVars, failures, uninstalls>>
        /\ "messages" \in objects
    BY RowsNeedTable DEF Update
  <1>2. row \in StoredRow
    BY DEF StoredRow
  <1> HIDE DEF row
  <1>3. /\ store = [messages |-> store.messages, sequence |-> store.sequence]
        /\ store.sequence \in Nat
        /\ GlobalPositions(store) \subseteq 1 .. store.sequence
        /\ store.messages \in [GlobalPositions(store) -> StoredRow]
    BY DEF SchemaInv, TableInv, IsTable
  <1>4. /\ rows \in [GlobalPositions(store) -> StoredRow]
        /\ rows[g] = row
        /\ \A h \in GlobalPositions(store) \ {g} : rows[h] = store.messages[h]
    BY <1>2, <1>3
  <1>5. store' = [messages |-> rows, sequence |-> store.sequence]
    BY <1>1, <1>3
  <1> HIDE DEF rows
  <1>6. GlobalPositions(store') = GlobalPositions(store)
    BY <1>4, <1>5 DEF GlobalPositions
  <1>7. IsTable(store')
    BY <1>3, <1>4, <1>5, <1>6 DEF IsTable
  <1>8. ASSUME NEW index \in UniqueIndexes, index \in objects
        PROVE  Distinct(store', index)
    <2>1. \A h \in GlobalPositions(store) \ {g} :
              ~Same(store.messages[h], row, index)
      BY <1>1, <1>8, ConflictsFound
    <2>2. \A h \in GlobalPositions(store) \ {g} :
              ~Same(rows[h], rows[g], index) /\ ~Same(rows[g], rows[h], index)
      BY <1>4, <2>1 DEF Same
    <2>3. \A h, k \in GlobalPositions(store) \ {g} :
              Same(rows[h], rows[k], index) => h = k
      BY <1>4, <1>8 DEF SchemaInv, UniqueInv, Distinct
    <2> QED
      BY <1>5, <1>6, <2>2, <2>3 DEF Distinct
  <1> QED
    BY <1>1, <1>7, <1>8, RowsStep

-----------------------------------------------------------------------------
(* Installers and uninstallers are different sessions. *)
LEMMA SessionKinds ==
    /\ \A s \in Installers : s \in Sessions /\ s \notin Uninstallers
    /\ \A s \in Uninstallers : s \in Sessions /\ s \notin Installers
    /\ \A s \in Sessions : s \in Installers \/ s \in Uninstallers
  BY SessionsAssumption DEF Sessions

(* A script begins with nothing behind it and nothing dropped. *)
LEMMA StartStep ==
    ASSUME SchemaInv, NEW s \in Sessions, Start(s)
    PROVE  SchemaInv'
  <1>1. /\ script' = [script EXCEPT ![s] = "running"]
        /\ at' = [at EXCEPT ![s] = 1]
        /\ dropped' = [dropped EXCEPT ![s] = FALSE]
        /\ UNCHANGED <<objects, store, failures>>
    BY DEF Start
  <1>2. TypeOK /\ TableInv /\ UniqueInv /\ ScriptsInv
    BY DEF SchemaInv
  <1>3. uninstalls' \in 0 .. MaxUninstalls
    BY <1>2, BoundsAssumption DEF Start, TypeOK
  <1>4. TypeOK'
    BY <1>1, <1>2, <1>3, Scripts DEF TypeOK
  <1>5. TableInv' /\ UniqueInv'
    BY <1>1, <1>2 DEF TableInv, UniqueInv
  <1>6. ScriptsInv'
    <2>1. \A r \in Uninstallers : at'[r] \in 1 .. Len(Uninstall)
      BY <1>1, <1>2, Scripts, SessionKinds DEF ScriptsInv, TypeOK
    <2>2. ASSUME NEW r \in Installers, ~dropped'[r]
          PROVE  /\ script'[r] = "running" =>
                        \A i \in 1 .. at'[r] - 1 : Install[i] \in objects'
                 /\ script'[r] = "done" => objects' = Objects
      <3>1. CASE r = s
        BY <1>1, <1>2, <3>1 DEF TypeOK
      <3>2. CASE r # s
        BY <1>1, <1>2, <2>2, <3>2, SessionKinds DEF ScriptsInv, TypeOK
      <3> QED
        BY <3>1, <3>2
    <2> QED
      BY <2>1, <2>2 DEF ScriptsInv
  <1> QED
    BY <1>4, <1>5, <1>6 DEF SchemaInv

(* A script that stops promises nothing any more. *)
LEMMA BailStep ==
    ASSUME SchemaInv, NEW s \in Sessions, Bail(s)
    PROVE  SchemaInv'
  <1>1. /\ s \in Installers
        /\ script' = [script EXCEPT ![s] = "idle"]
        /\ at' = [at EXCEPT ![s] = 1]
        /\ UNCHANGED <<objects, store, dropped, uninstalls>>
    BY DEF Bail
  <1>2. TypeOK /\ TableInv /\ UniqueInv /\ ScriptsInv
    BY DEF SchemaInv
  <1>3. failures' \in 0 .. MaxFailures
    BY <1>2, BoundsAssumption DEF Bail, TypeOK
  <1>4. TypeOK'
    BY <1>1, <1>2, <1>3, Scripts DEF TypeOK
  <1>5. TableInv' /\ UniqueInv'
    BY <1>1, <1>2 DEF TableInv, UniqueInv
  <1>6. ScriptsInv'
    <2>1. \A r \in Uninstallers : at'[r] \in 1 .. Len(Uninstall)
      BY <1>1, <1>2, Scripts, SessionKinds DEF ScriptsInv, TypeOK
    <2>2. ASSUME NEW r \in Installers, ~dropped'[r]
          PROVE  /\ script'[r] = "running" =>
                        \A i \in 1 .. at'[r] - 1 : Install[i] \in objects'
                 /\ script'[r] = "done" => objects' = Objects
      <3>1. CASE r = s
        BY <1>1, <1>2, <3>1 DEF TypeOK
      <3>2. CASE r # s
        BY <1>1, <1>2, <2>2, <3>2, SessionKinds DEF ScriptsInv, TypeOK
      <3> QED
        BY <3>1, <3>2
    <2> QED
      BY <2>1, <2>2 DEF ScriptsInv
  <1> QED
    BY <1>4, <1>5, <1>6 DEF SchemaInv

(* What a statement creates it finds no obstacle for, and leaves in place
   for the next one. *)
LEMMA CreateStep ==
    ASSUME SchemaInv, NEW s \in Sessions, Create(s)
    PROVE  SchemaInv'
  <1> DEFINE object == Install[at[s]]
  <1>1. /\ s \in Installers /\ script[s] = "running"
        /\ Creatable(object)
        /\ objects' = objects \cup {object}
        /\ script' = [script EXCEPT ![s] =
                         IF at[s] = Len(Install) THEN "done" ELSE @]
        /\ at' = [at EXCEPT ![s] =
                     IF at[s] = Len(Install) THEN 1 ELSE @ + 1]
        /\ UNCHANGED <<store, dropped, failures, uninstalls>>
    BY DEF Create, GoOn
  <1>2. TypeOK /\ TableInv /\ UniqueInv /\ ScriptsInv
    BY DEF SchemaInv
  <1>3. at[s] \in 1 .. 7 /\ object \in Objects
    BY <1>2, Scripts DEF TypeOK
  <1>4. object \notin {"messages", "views"} => "messages" \in objects
    BY <1>1, <1>2 DEF Creatable, TypeOK
  <1>5. TypeOK'
    <2>1. at' \in [Sessions -> 1 .. Len(Install)]
      BY <1>1, <1>2, <1>3, Scripts DEF TypeOK
    <2>2. script' \in [Sessions -> {"idle", "running", "done"}]
      BY <1>1, <1>2 DEF TypeOK
    <2>3. /\ objects' \subseteq Objects
          /\ objects' \ {"views"} # {} => "messages" \in objects'
          /\ "messages" \notin objects' => store' = EmptyStore
      <3> HIDE DEF object
      <3> QED
        BY <1>1, <1>2, <1>3, <1>4 DEF TypeOK
    <2> QED
      BY <1>1, <1>2, <2>1, <2>2, <2>3 DEF TypeOK
  <1>6. TableInv'
    BY <1>1, <1>2 DEF TableInv
  <1>7. UniqueInv'
    <2>1. ASSUME NEW index \in UniqueIndexes, index \in objects'
          PROVE  Distinct(store, index)
      <3>1. CASE index \in objects
        BY <1>2, <3>1 DEF UniqueInv
      <3>2. CASE index \notin objects
        <4>1. index = object
          BY <1>1, <2>1, <3>2
        <4>2. ~Duplicated(index)
          BY <1>1, <3>2, <4>1 DEF Creatable
        <4> QED
          BY <4>2, DuplicatedIsNotDistinct
      <3> QED
        BY <3>1, <3>2
    <2> QED
      BY <1>1, <2>1 DEF UniqueInv
  <1>8. ScriptsInv'
    <2>1. \A r \in Uninstallers : at'[r] \in 1 .. Len(Uninstall)
      BY <1>1, <1>2, SessionKinds DEF ScriptsInv, TypeOK
    <2>2. ASSUME NEW r \in Installers, ~dropped'[r]
          PROVE  /\ script'[r] = "running" =>
                        \A i \in 1 .. at'[r] - 1 : Install[i] \in objects'
                 /\ script'[r] = "done" => objects' = Objects
      <3>1. CASE r # s
        <4>1. script'[r] = script[r] /\ at'[r] = at[r] /\ ~dropped[r]
          BY <1>1, <1>2, <2>2, <3>1, SessionKinds DEF TypeOK
        <4>2. objects \subseteq objects' /\ objects' \subseteq Objects
          BY <1>1, <1>2, <1>3 DEF TypeOK
        <4> QED
          BY <1>2, <4>1, <4>2 DEF ScriptsInv
      <3>2. CASE r = s
        <4>1. ~dropped[s] /\ \A i \in 1 .. at[s] - 1 : Install[i] \in objects
          BY <1>1, <1>2, <2>2, <3>2 DEF ScriptsInv
        <4>2. \A i \in 1 .. at[s] : Install[i] \in objects'
          <5>1. \A i \in 1 .. at[s] : i \in 1 .. at[s] - 1 \/ i = at[s]
            BY <1>3
          <5> QED
            BY <1>1, <4>1, <5>1
        <4>3. CASE at[s] = 7
          <5>1. script'[s] = "done" /\ objects' \subseteq Objects
            BY <1>1, <1>2, <1>5, <4>3, Scripts DEF TypeOK
          <5>2. Objects \subseteq objects'
            BY <4>2, <4>3, Scripts
          <5> QED
            BY <3>2, <5>1, <5>2
        <4>4. CASE at[s] # 7
          <5>1. script'[s] = "running" /\ at'[s] = at[s] + 1
            BY <1>1, <1>2, <4>4, Scripts DEF TypeOK
          <5>2. at'[s] - 1 = at[s]
            BY <1>3, <5>1
          <5> QED
            BY <3>2, <4>2, <5>1, <5>2
        <4> QED
          BY <4>3, <4>4
      <3> QED
        BY <3>1, <3>2
    <2> QED
      BY <2>1, <2>2 DEF ScriptsInv
  <1> QED
    BY <1>5, <1>6, <1>7, <1>8 DEF SchemaInv

(* A statement of uninstall.sql that fails changes nothing that an installer
   relies on. *)
LEMMA DropFailsStep ==
    ASSUME SchemaInv, NEW s \in Sessions, DropFails(s)
    PROVE  SchemaInv'
  <1>1. /\ s \in Uninstallers
        /\ script' = [script EXCEPT ![s] =
                         IF at[s] = Len(Uninstall) THEN "done" ELSE @]
        /\ at' = [at EXCEPT ![s] =
                     IF at[s] = Len(Uninstall) THEN 1 ELSE @ + 1]
        /\ UNCHANGED <<objects, store, dropped, uninstalls>>
    BY DEF DropFails, GoOn
  <1>2. TypeOK /\ TableInv /\ UniqueInv /\ ScriptsInv
    BY DEF SchemaInv
  <1>3. failures' \in 0 .. MaxFailures
    BY <1>2, BoundsAssumption DEF DropFails, TypeOK
  <1>4. at[s] \in 1 .. 5
    BY <1>1, <1>2, Scripts DEF ScriptsInv
  <1>5. /\ at' \in [Sessions -> 1 .. Len(Install)]
        /\ \A r \in Uninstallers : at'[r] \in 1 .. Len(Uninstall)
    BY <1>1, <1>2, <1>4, Scripts, SessionKinds DEF TypeOK, ScriptsInv
  <1>6. script' \in [Sessions -> {"idle", "running", "done"}]
    BY <1>1, <1>2 DEF TypeOK
  <1>7. TypeOK'
    BY <1>1, <1>2, <1>3, <1>5, <1>6 DEF TypeOK
  <1>8. TableInv' /\ UniqueInv'
    BY <1>1, <1>2 DEF TableInv, UniqueInv
  <1>9. ScriptsInv'
    <2>1. \A r \in Installers : script'[r] = script[r] /\ at'[r] = at[r]
      BY <1>1, <1>2, SessionKinds DEF TypeOK
    <2> QED
      BY <1>1, <1>2, <1>5, <2>1 DEF ScriptsInv
  <1> QED
    BY <1>7, <1>8, <1>9 DEF SchemaInv

(* What is dropped, every other session will know. *)
LEMMA DropStep ==
    ASSUME SchemaInv, NEW s \in Sessions, Drop(s)
    PROVE  SchemaInv'
  <1> DEFINE object == Uninstall[at[s]]
  <1>1. /\ s \in Uninstallers
        /\ objects' = IF object = "messages" THEN objects \cap {"views"}
                      ELSE objects \ {object}
        /\ store' = IF object = "messages" THEN EmptyStore ELSE store
        /\ dropped' = [r \in Sessions |-> r # s \/ dropped[r]]
        /\ script' = [script EXCEPT ![s] =
                         IF at[s] = Len(Uninstall) THEN "done" ELSE @]
        /\ at' = [at EXCEPT ![s] =
                     IF at[s] = Len(Uninstall) THEN 1 ELSE @ + 1]
        /\ UNCHANGED <<failures, uninstalls>>
    BY DEF Drop, GoOn
  <1>2. TypeOK /\ TableInv /\ UniqueInv /\ ScriptsInv
    BY DEF SchemaInv
  <1>3. at[s] \in 1 .. 5 /\ object \in Objects
    BY <1>1, <1>2, Scripts DEF ScriptsInv
  <1>4. /\ at' \in [Sessions -> 1 .. Len(Install)]
        /\ \A r \in Uninstallers : at'[r] \in 1 .. Len(Uninstall)
    BY <1>1, <1>2, <1>3, Scripts, SessionKinds DEF TypeOK, ScriptsInv
  <1>5. dropped' \in [Sessions -> BOOLEAN]
    <2>1. \A r \in Sessions : (r # s \/ dropped[r]) \in BOOLEAN
      OBVIOUS
    <2> QED
      BY <1>1, <2>1
  <1>6. script' \in [Sessions -> {"idle", "running", "done"}]
    BY <1>1, <1>2 DEF TypeOK
  <1>7. Rows(EmptyStore) = {}
    BY EmptyTable DEF Rows
  <1>8. TypeOK'
    <2>1. CASE object = "messages"
      BY <1>1, <1>2, <1>4, <1>5, <1>6, <1>7, <2>1 DEF TypeOK
    <2>2. CASE object # "messages"
      <3> HIDE DEF object
      <3> QED
        BY <1>1, <1>2, <1>4, <1>5, <1>6, <2>2 DEF TypeOK
    <2> QED
      BY <2>1, <2>2
  <1>9. TableInv' /\ UniqueInv'
    <2>1. CASE object = "messages"
      BY <1>1, <2>1, EmptyTable DEF TableInv, UniqueInv
    <2>2. CASE object # "messages"
      BY <1>1, <1>2, <2>2 DEF TableInv, UniqueInv
    <2> QED
      BY <2>1, <2>2
  <1>10. ScriptsInv'
    <2>1. \A r \in Installers : dropped'[r]
      BY <1>1, SessionKinds
    <2> QED
      BY <1>4, <2>1 DEF ScriptsInv
  <1> QED
    BY <1>8, <1>9, <1>10 DEF SchemaInv

-----------------------------------------------------------------------------
(* Every step keeps the inductive invariant. *)
LEMMA NextSchema == SchemaInv /\ [Next]_vars => SchemaInv'
  <1> SUFFICES ASSUME SchemaInv, [Next]_vars
               PROVE  SchemaInv'
    OBVIOUS
  <1>1. ASSUME NEW s \in Sessions,
               Start(s) \/ Create(s) \/ Drop(s) \/ Bail(s) \/ DropFails(s)
        PROVE  SchemaInv'
    BY <1>1, StartStep, CreateStep, DropStep, BailStep, DropFailsStep
  <1>2. ASSUME NEW id \in Ids, NEW stream \in Streams,
               WriteMessage(id, stream)
        PROVE  SchemaInv'
    BY <1>2, WriteMessageStep
  <1>3. ASSUME NEW id \in Ids, NEW stream \in Streams,
               NEW position \in 0 .. MaxPosition,
               NEW row, row = [id |-> id, stream_name |-> stream,
                               position |-> position],
               \/ \E key \in 1 .. NextKey :
                      InsertRow(key, row) \/ Replace(key, row)
               \/ \E g \in GlobalPositions(store) : Update(g, row)
        PROVE  SchemaInv'
    <2>1. position \in Int /\ position <= MaxPosition
      BY MaxPositionAssumption
    <2> QED
      BY <1>3, <2>1, InsertRowStep, ReplaceStep, UpdateStep
  <1>4. ASSUME NEW g \in GlobalPositions(store), Delete(g)
        PROVE  SchemaInv'
    BY <1>4, DeleteStep
  <1>5. CASE UNCHANGED vars
    BY <1>5 DEF vars, sessionVars, SchemaInv, TypeOK, TableInv, UniqueInv,
                ScriptsInv
  <1> QED
    BY <1>1, <1>2, <1>3, <1>4, <1>5 DEF Next

(* In every reachable state, whatever the scripts and the writers did, the
   unique indexes that exist stand over a table without duplicates, and a
   script finds what it created unless another one dropped it. *)
THEOREM SchemaInvHolds == Spec => []SchemaInv
  BY InitSchema, NextSchema, PTL DEF Spec

(* TypeOK: nothing hangs on a table that is not there, and a dropped table
   leaves neither rows nor counter. *)
THEOREM TypesHold == Spec => []TypeOK
  <1>1. SchemaInv => TypeOK
    BY DEF SchemaInv
  <1> QED
    BY <1>1, SchemaInvHolds, PTL

(* PositionsInRange: whatever position + 1 is at the end of the 64-bit range,
   the CHECK on position lets no negative one into the table. *)
THEOREM PositionsStayInRange == Spec => []PositionsInRange
  <1>1. SchemaInv => PositionsInRange
    BY DEF SchemaInv, TableInv, IsTable, PositionsInRange, Rows, StoredRow
  <1> QED
    BY <1>1, SchemaInvHolds, PTL

(* InstalledComplete: a run of install.sql that is done, with nothing dropped
   since it began, leaves the whole schema, and rows without duplicates. *)
THEOREM InstallationsComplete == Spec => []InstalledComplete
  <1>1. SchemaInv => InstalledComplete
    <2> SUFFICES ASSUME SchemaInv, NEW s \in Installers,
                        script[s] = "done", ~dropped[s]
                 PROVE  /\ objects = Objects
                        /\ ~Duplicated("messages_id")
                        /\ ~Duplicated("messages_stream")
      BY DEF InstalledComplete
    <2>1. objects = Objects
      BY DEF SchemaInv, ScriptsInv
    <2>2. \A index \in UniqueIndexes : Distinct(store, index)
      BY <2>1, Scripts DEF SchemaInv, UniqueInv, UniqueIndexes
    <2> QED
      BY <2>1, <2>2, DuplicatedIsNotDistinct DEF UniqueIndexes
  <1> QED
    BY <1>1, SchemaInvHolds, PTL

(* An INSERT OR REPLACE. *)
SomeReplace ==
    \E id \in Ids, stream \in Streams, position \in 0 .. MaxPosition,
       key \in 1 .. NextKey :
        Replace(key, [id |-> id, stream_name |-> stream,
                      position |-> position])

(* "messages is append-only" but for INSERT OR REPLACE: once both triggers
   exist, write_message, INSERT, UPDATE, DELETE and the statements of both
   scripts change or remove no message, unless they drop the table.  (The run
   schema_replace shows what REPLACE does; ALTER TABLE and DROP TRIGGER by an
   application are not steps of the model.) *)
THEOREM AppendOnlyButForReplace ==
    Spec => [][ /\ Triggers \cup {"messages"} \subseteq objects
                /\ "messages" \in objects'
                /\ ~SomeReplace
                => Extends(store, store') ]_vars
  <1> DEFINE AppendsOnly == /\ Triggers \cup {"messages"} \subseteq objects
                            /\ "messages" \in objects'
                            /\ ~SomeReplace
                            => Extends(store, store')
  <1>1. ASSUME SchemaInv, Next, Triggers \cup {"messages"} \subseteq objects,
               "messages" \in objects', ~SomeReplace
        PROVE  Extends(store, store')
    <2>1. "no_update" \in objects /\ "no_delete" \in objects
      BY <1>1 DEF Triggers
    <2>2. ASSUME NEW key, NEW row, InsertRow(key, row)
          PROVE  Extends(store, store')
      <3>1. store' = WithRow(store, key, row)
        BY <2>2 DEF InsertRow
      <3>2. key \notin GlobalPositions(store)
        BY <2>2 DEF InsertRow, Conflicts
      <3>3. \A g \in GlobalPositions(store) :
                /\ g \in DOMAIN WithRow(store, key, row).messages
                /\ WithRow(store, key, row).messages[g] = store.messages[g]
        BY <3>2 DEF WithRow
      <3> QED
        BY <3>1, <3>3 DEF Extends, GlobalPositions
    <2>3. CASE store' = store
      BY <2>3 DEF Extends
    <2>4. ASSUME NEW s \in Sessions,
                 Start(s) \/ Create(s) \/ Drop(s) \/ Bail(s) \/ DropFails(s)
          PROVE  store' = store
      BY <1>1, <2>4 DEF Start, Create, Drop, Bail, DropFails
    <2>5. ASSUME NEW id \in Ids, NEW stream \in Streams,
                 WriteMessage(id, stream)
          PROVE  Extends(store, store')
      BY <2>2, <2>5 DEF WriteMessage
    <2>6. ASSUME NEW g, Delete(g)
          PROVE  FALSE
      BY <2>1, <2>6 DEF Delete
    <2>7. ASSUME NEW g, NEW row, Update(g, row)
          PROVE  FALSE
      BY <2>1, <2>7 DEF Update
    <2> QED
      BY <1>1, <2>2, <2>3, <2>4, <2>5, <2>6, <2>7 DEF Next, SomeReplace
  <1>2. SchemaInv /\ [Next]_vars => [AppendsOnly]_vars
    BY <1>1
  <1> HIDE DEF AppendsOnly
  <1>3. Spec => [][AppendsOnly]_vars
    BY <1>2, SchemaInvHolds, PTL DEF Spec
  <1> QED
    BY <1>3 DEF AppendsOnly
=============================================================================
