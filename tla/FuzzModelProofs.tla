-------------------------- MODULE FuzzModelProofs --------------------------
(***************************************************************************)
(* The oracle of the fuzzer stays equal to what the extension answers, for *)
(* any sets of streams, ids, types and correlations and any number of      *)
(* messages.                                                               *)
(*                                                                         *)
(* The rows of this table have more columns than those of MessageStore.    *)
(* Plain leaves these out; what the indexes and max(position) say of the   *)
(* table they say of Plain of it, so that the lemmas about tables apply.   *)
(*                                                                         *)
(* The reads are compared row for row: the statement that the extension    *)
(* steps to its end, and the fuzzer's walk over its array, are both the    *)
(* one batch of the size that was asked for.                               *)
(***************************************************************************)
EXTENDS FuzzModel, MessageStoreProofs

-----------------------------------------------------------------------------
(* The columns that the write path compares. *)
PlainRow(row) == [id |-> row.id, stream_name |-> row.stream_name,
                  position |-> row.position]

Plain(table) ==
    [messages |-> [g \in GlobalPositions(table) |->
                      PlainRow(table.messages[g])],
     sequence |-> table.sequence]

Noted == [id : Ids, stream_name : Streams, type : Types,
          correlation : Correlations, position : Nat]

(* The oracle has the rows of the table, in its order. *)
OracleAgrees ==
    /\ model \in Seq(Noted)
    /\ store = [messages |-> store.messages, sequence |-> store.sequence]
    /\ store.sequence = Len(model)
    /\ store.messages \in [1 .. Len(model) -> Noted]
    /\ \A g \in 1 .. Len(model) : store.messages[g] = model[g]

(* The inductive invariant. *)
FuzzInv ==
    /\ OracleAgrees
    /\ Sound(Plain(store))

-----------------------------------------------------------------------------
(* PlainRow keeps these columns. *)
LEMMA PlainColumns ==
    ASSUME NEW row
    PROVE  /\ PlainRow(row).id = row.id
           /\ PlainRow(row).stream_name = row.stream_name
           /\ PlainRow(row).position = row.position
  BY DEF PlainRow

(* Without the other columns the table looks the same to the indexes and to
   max(position). *)
LEMMA PlainSame ==
    ASSUME NEW table
    PROVE  /\ GlobalPositions(Plain(table)) = GlobalPositions(table)
           /\ \A g \in GlobalPositions(table) :
                  Plain(table).messages[g] = PlainRow(table.messages[g])
           /\ \A id : HasId(Plain(table), id) <=> HasId(table, id)
           /\ \A stream, position :
                  HasPosition(Plain(table), stream, position)
                      <=> HasPosition(table, stream, position)
           /\ WellFormed(Plain(table)) <=> WellFormed(table)
           /\ \A stream : StreamVersion(Plain(table), stream)
                              = StreamVersion(table, stream)
  <1> DEFINE plain == Plain(table)
  <1>1. /\ GlobalPositions(plain) = GlobalPositions(table)
        /\ plain.sequence = table.sequence
        /\ \A g \in GlobalPositions(table) :
               plain.messages[g] = PlainRow(table.messages[g])
    BY DEF Plain, GlobalPositions
  <1>2. \A g \in GlobalPositions(table) :
            /\ plain.messages[g].id = table.messages[g].id
            /\ plain.messages[g].stream_name = table.messages[g].stream_name
            /\ plain.messages[g].position = table.messages[g].position
    BY <1>1, PlainColumns
  <1> HIDE DEF plain
  <1>3. \A id : HasId(plain, id) <=> HasId(table, id)
    BY <1>1, <1>2 DEF HasId
  <1>4. \A stream, position : HasPosition(plain, stream, position)
                                  <=> HasPosition(table, stream, position)
    BY <1>1, <1>2 DEF HasPosition
  <1>5. WellFormed(plain) <=> WellFormed(table)
    <2>1. IdsUnique(plain) <=> IdsUnique(table)
      BY <1>1, <1>2 DEF IdsUnique
    <2>2. StreamsOrdered(plain) <=> StreamsOrdered(table)
      BY <1>1, <1>2 DEF StreamsOrdered
    <2>3. StreamsGapless(plain) <=> StreamsGapless(table)
      BY <1>1, <1>2, <1>4 DEF StreamsGapless
    <2> QED
      BY <2>1, <2>2, <2>3 DEF WellFormed
  <1>6. StoredVersions(plain) = StoredVersions(table)
    <2>1. \A p : (\E row \in Rows(plain) : row.position = p)
                   <=> (\E row \in Rows(table) : row.position = p)
      BY <1>1, <1>2 DEF Rows
    <2> QED
      BY <2>1 DEF StoredVersions
  <1>7. \A stream, version : IsStreamVersion(plain, stream, version)
                                 <=> IsStreamVersion(table, stream, version)
    BY <1>1, <1>2, <1>4 DEF IsStreamVersion
  <1>8. \A stream : StreamVersion(plain, stream) = StreamVersion(table, stream)
    BY <1>6, <1>7 DEF StreamVersion
  <1> QED
    BY <1>1, <1>3, <1>4, <1>5, <1>8 DEF plain

(* What the oracle computes from its array is what the extension computes
   from the table. *)
LEMMA OracleVersion ==
    ASSUME FuzzInv, NEW stream \in Streams
    PROVE  /\ ModelVersion(stream) = StreamVersion(store, stream)
           /\ StreamVersion(store, stream) \in {-1} \cup Nat
           /\ IsStreamVersion(store, stream, StreamVersion(store, stream))
  <1> DEFINE version == StreamVersion(store, stream)
             positions == {model[i].position : i \in
                           {j \in DOMAIN model :
                                model[j].stream_name = stream}}
  <1>1. /\ version \in {-1} \cup Nat
        /\ IsStreamVersion(store, stream, version)
    <2>1. StreamVersion(Plain(store), stream) = version
      BY PlainSame
    <2>2. /\ StreamVersion(Plain(store), stream) \in {-1} \cup Nat
          /\ IsStreamVersion(Plain(store), stream,
                             StreamVersion(Plain(store), stream))
      BY StreamVersionDefined DEF FuzzInv
    <2>3. \A g \in GlobalPositions(store) :
              /\ Plain(store).messages[g].stream_name
                     = store.messages[g].stream_name
              /\ Plain(store).messages[g].position
                     = store.messages[g].position
      BY PlainSame, PlainColumns
    <2> HIDE DEF version
    <2>4. IsStreamVersion(store, stream, version)
      BY <2>1, <2>2, <2>3, PlainSame DEF IsStreamVersion
    <2> QED
      BY <2>1, <2>2, <2>4
  <1>2. /\ DOMAIN model = GlobalPositions(store)
        /\ \A g \in DOMAIN model :
               /\ model[g] = store.messages[g]
               /\ model[g].position \in Nat
    BY DEF FuzzInv, OracleAgrees, GlobalPositions, Noted
  <1>3. \A p \in positions : p \in Nat /\ p <= version
    BY <1>1, <1>2 DEF IsStreamVersion
  <1>4. version \in Nat => version \in positions
    BY <1>1, <1>2 DEF IsStreamVersion, HasPosition
  <1>5. ModelVersion(stream) = IF positions = {} THEN -1
            ELSE CHOOSE p \in positions : \A q \in positions : q <= p
    BY DEF ModelVersion
  <1> HIDE DEF version, positions
  <1>6. CASE version = -1
    <2>1. positions = {}
      BY <1>3, <1>6
    <2> QED
      BY <1>1, <1>5, <1>6, <2>1 DEF version
  <1>7. CASE version \in Nat
    <2>1. /\ version \in positions
          /\ \A p \in positions :
                 (\A q \in positions : q <= p) <=> p = version
      BY <1>3, <1>4, <1>7
    <2>2. (CHOOSE p \in positions : \A q \in positions : q <= p) = version
      BY <2>1
    <2> QED
      BY <1>1, <1>5, <2>1, <2>2 DEF version
  <1> QED
    BY <1>1, <1>6, <1>7

(* The ids that the oracle has noted are those that the index on id finds. *)
LEMMA OracleIds ==
    ASSUME FuzzInv, NEW id
    PROVE  id \in UsedIds <=> HasId(store, id)
  BY DEF FuzzInv, OracleAgrees, UsedIds, HasId, GlobalPositions

(* write_message accepts what the oracle says it should. *)
LEMMA AcceptedAsModelled ==
    ASSUME FuzzInv, NEW id, NEW stream \in Streams, NEW expected
    PROVE  Accepted(id, stream, expected) <=> ShouldSucceed(id, stream, expected)
  <1> DEFINE version == StreamVersion(store, stream)
             row == [id |-> id, stream_name |-> stream,
                     position |-> version + 1]
  <1>1. ModelVersion(stream) = version
    BY OracleVersion
  <1>2. ~HasPosition(store, stream, version + 1)
    <2>1. ~HasPosition(Plain(store), stream,
                       StreamVersion(Plain(store), stream) + 1)
      BY NextPositionFree DEF FuzzInv
    <2> QED
      BY <2>1, PlainSame
  <1>3. Duplicates(store, row) <=> id \in UsedIds
    <2>1. /\ row.id = id /\ row.stream_name = stream
          /\ row.position = version + 1
      OBVIOUS
    <2> HIDE DEF row, version
    <2> QED
      BY <1>2, <2>1, OracleIds DEF Duplicates
  <1>4. Accepted(id, stream, expected)
            <=> /\ expected # NoVersion => expected = version
                /\ ~Duplicates(store, row)
    BY DEF Accepted
  <1> HIDE DEF version, row
  <1> QED
    BY <1>1, <1>3, <1>4 DEF ShouldSucceed

(* A message that should be written is written, and noted by the oracle. *)
LEMMA InsertKeepsInv ==
    ASSUME FuzzInv, NEW row \in Noted, ~HasId(store, row.id),
           row.position = StreamVersion(store, row.stream_name) + 1,
           store' = Insert(store, row), model' = Append(model, row)
    PROVE  FuzzInv'
  <1> DEFINE key == Len(model) + 1
  <1>1. /\ model \in Seq(Noted) /\ Len(model) \in Nat
        /\ GlobalPositions(store) = 1 .. Len(model)
        /\ store.sequence = Len(model)
        /\ store.messages \in [1 .. Len(model) -> Noted]
        /\ \A g \in 1 .. Len(model) : store.messages[g] = model[g]
    BY DEF FuzzInv, OracleAgrees, GlobalPositions
  <1>2. /\ model' \in Seq(Noted)
        /\ Len(model') = key
        /\ \A g \in 1 .. Len(model) : model'[g] = model[g]
        /\ model'[key] = row
    BY <1>1
  <1>3. 1 .. Len(model) \cup {key} = 1 .. key /\ key \notin 1 .. Len(model)
    BY <1>1
  <1>4. store' = [messages |-> [g \in 1 .. key |->
                      IF g = key THEN row ELSE store.messages[g]],
                  sequence |-> key]
    BY <1>1, <1>3 DEF Insert
  <1> HIDE DEF key
  <1>5. /\ store'.messages = [g \in 1 .. key |->
                                 IF g = key THEN row ELSE store.messages[g]]
        /\ store'.sequence = key
        /\ store' = [messages |-> store'.messages,
                     sequence |-> store'.sequence]
    BY <1>4
  <1>6. store'.messages \in [1 .. key -> Noted]
    BY <1>1, <1>3, <1>5
  <1>7. \A g \in 1 .. key : store'.messages[g] = model'[g]
    BY <1>1, <1>2, <1>3, <1>5
  <1>8. OracleAgrees'
    BY <1>2, <1>5, <1>6, <1>7 DEF OracleAgrees
  <1>9. Plain(store') = Insert(Plain(store), PlainRow(row))
    <2>1. GlobalPositions(store') = 1 .. key
      BY <1>5 DEF GlobalPositions
    <2>2. Plain(store') = [messages |-> [g \in 1 .. key |->
                               PlainRow(store'.messages[g])],
                           sequence |-> key]
      BY <1>5, <2>1 DEF Plain
    <2>3. \A g \in 1 .. key : PlainRow(store'.messages[g])
              = IF g = key THEN PlainRow(row) ELSE PlainRow(store.messages[g])
      BY <1>5
    <2>4. [g \in 1 .. key |-> PlainRow(store'.messages[g])]
              = [g \in 1 .. key |-> IF g = key THEN PlainRow(row)
                                    ELSE Plain(store).messages[g]]
      BY <1>1, <1>3, <2>3, PlainSame
    <2>5. Plain(store).sequence + 1 = key
      BY <1>1 DEF Plain, key
    <2>6. Insert(Plain(store), PlainRow(row))
              = [messages |-> [g \in GlobalPositions(store) \cup {key} |->
                                  IF g = key THEN PlainRow(row)
                                  ELSE Plain(store).messages[g]],
                 sequence |-> key]
      BY <2>5, PlainSame DEF Insert
    <2> QED
      BY <1>1, <1>3, <2>2, <2>4, <2>6
  <1>10. Sound(Plain(store)')
    <2>1. PlainRow(row) \in Row
      BY DEF PlainRow, Noted, Row
    <2>2. /\ ~HasId(Plain(store), PlainRow(row).id)
          /\ PlainRow(row).position
                 = StreamVersion(Plain(store), PlainRow(row).stream_name) + 1
      BY PlainSame DEF PlainRow
    <2>3. Sound(Insert(Plain(store), PlainRow(row)))
      BY <2>1, <2>2, InsertSound DEF FuzzInv
    <2> QED
      BY <1>9, <2>3
  <1> QED
    BY <1>8, <1>10 DEF FuzzInv

(* A write is made and noted, or neither. *)
LEMMA RunWriteStep ==
    ASSUME FuzzInv, NEW id \in Ids, NEW stream \in Streams,
           NEW type \in Types, NEW correlation \in Correlations, NEW expected,
           RunWrite(id, stream, type, correlation, expected)
    PROVE  FuzzInv'
  <1> DEFINE row == Written(id, stream, type, correlation,
                            StreamVersion(store, stream) + 1)
  <1>1. ModelVersion(stream) = StreamVersion(store, stream)
    BY OracleVersion
  <1>2. StreamVersion(store, stream) + 1 \in Nat
    BY OracleVersion
  <1>3. Accepted(id, stream, expected) <=> ShouldSucceed(id, stream, expected)
    BY AcceptedAsModelled
  <1>4. CASE ShouldSucceed(id, stream, expected)
    <2>1. /\ store' = Insert(store, row)
          /\ model' = Append(model, row)
      BY <1>1, <1>3, <1>4 DEF RunWrite, Write
    <2>2. /\ row \in Noted /\ row.id = id /\ row.stream_name = stream
          /\ row.position = StreamVersion(store, stream) + 1
      BY <1>2 DEF Written, Noted
    <2>3. ~HasId(store, row.id)
      BY <1>4, <2>2, OracleIds DEF ShouldSucceed
    <2> HIDE DEF row
    <2> QED
      BY <2>1, <2>2, <2>3, InsertKeepsInv
  <1>5. CASE ~ShouldSucceed(id, stream, expected)
    <2>1. store' = store /\ model' = model
      BY <1>3, <1>5 DEF RunWrite, Write
    <2> QED
      BY <2>1 DEF FuzzInv, OracleAgrees
  <1> QED
    BY <1>4, <1>5

(* At first the table and the array are empty. *)
LEMMA FuzzInit == Init => FuzzInv
  <1> SUFFICES ASSUME Init PROVE FuzzInv
    OBVIOUS
  <1>1. store = EmptyStore /\ model = <<>>
    BY DEF Init
  <1>2. OracleAgrees
    BY <1>1 DEF OracleAgrees, EmptyStore
  <1>3. Plain(EmptyStore) = EmptyStore
    BY DEF Plain, EmptyStore, GlobalPositions
  <1> QED
    BY <1>1, <1>2, <1>3, EmptyStoreSound DEF FuzzInv

(* Every step keeps the inductive invariant. *)
LEMMA FuzzNext == FuzzInv /\ [Next]_vars => FuzzInv'
  <1> SUFFICES ASSUME FuzzInv, [Next]_vars
               PROVE  FuzzInv'
    OBVIOUS
  <1>1. CASE UNCHANGED vars
    BY <1>1 DEF vars, FuzzInv, OracleAgrees
  <1>2. CASE RunWriteFull
    BY <1>2 DEF RunWriteFull, vars, FuzzInv, OracleAgrees
  <1>3. ASSUME NEW id \in Ids, NEW stream \in Streams, NEW type \in Types,
               NEW correlation \in Correlations,
               NEW expected \in Expected(stream),
               RunWrite(id, stream, type, correlation, expected)
        PROVE  FuzzInv'
    BY <1>3, RunWriteStep
  <1> QED
    BY <1>1, <1>2, <1>3 DEF Next

(* In every reachable state, whatever was written, the array of the oracle is
   the table, and the table is well formed. *)
THEOREM FuzzInvHolds == Spec => []FuzzInv
  BY FuzzInit, FuzzNext, PTL DEF Spec

-----------------------------------------------------------------------------
(* A stream has as many messages as its version says. *)
LEMMA VersionCounts ==
    ASSUME FuzzInv, NEW stream \in Streams
    PROVE  StreamVersion(store, stream) + 1
               = Cardinality({g \in GlobalPositions(store) :
                                  store.messages[g].stream_name = stream})
  <1> DEFINE version == StreamVersion(store, stream)
             Members == {g \in GlobalPositions(store) :
                             store.messages[g].stream_name = stream}
  <1>1. /\ version \in {-1} \cup Nat
        /\ IsStreamVersion(store, stream, version)
    BY OracleVersion
  <1>2. /\ GlobalPositions(store) = 1 .. Len(model) /\ Len(model) \in Nat
        /\ \A g \in GlobalPositions(store) :
               g \in Nat /\ store.messages[g].position \in Nat
    BY DEF FuzzInv, OracleAgrees, GlobalPositions, Noted
  <1>3. StreamsOrdered(store)
    BY PlainSame DEF FuzzInv, Sound, WellFormed
  <1> HIDE DEF version
  <1>4. CASE version = -1
    <2>1. Members = {}
      BY <1>1, <1>2, <1>4 DEF IsStreamVersion
    <2> QED
      BY <1>4, <2>1, FS_EmptySet DEF version
  <1>5. CASE version \in Nat
    <2>1. PICK top \in GlobalPositions(store) :
                 /\ store.messages[top].stream_name = stream
                 /\ store.messages[top].position = version
      BY <1>1, <1>5 DEF IsStreamVersion, HasPosition
    <2> DEFINE Earlier == {h \in 1 .. top - 1 :
                               store.messages[h].stream_name = stream}
    <2>2. version = Cardinality(Earlier)
      <3>1. \A h \in GlobalPositions(store) :
                /\ Plain(store).messages[h].stream_name
                       = store.messages[h].stream_name
                /\ Plain(store).messages[h].position
                       = store.messages[h].position
        BY PlainSame, PlainColumns
      <3>2. Plain(store).messages[top].position
                = Cardinality({h \in 1 .. top - 1 :
                                  Plain(store).messages[h].stream_name
                                      = Plain(store).messages[top].stream_name})
        BY PlainSame, PositionsCount DEF FuzzInv, Sound
      <3>3. \A h \in 1 .. top - 1 : h \in GlobalPositions(store)
        BY <1>2
      <3>4. {h \in 1 .. top - 1 : Plain(store).messages[h].stream_name
                                      = Plain(store).messages[top].stream_name}
                = Earlier
        BY <2>1, <3>1, <3>3
      <3> HIDE DEF Earlier
      <3> QED
        BY <2>1, <3>1, <3>2, <3>4
    <2>3. Members = Earlier \cup {top} /\ top \notin Earlier
      <3>1. ASSUME NEW g \in Members
            PROVE  g \in Earlier \cup {top}
        <4>1. ~(top < g)
          <5>1. store.messages[g].position <= version
            BY <1>1 DEF IsStreamVersion
          <5>2. top < g => version < store.messages[g].position
            BY <1>3, <2>1 DEF StreamsOrdered
          <5> QED
            BY <1>2, <1>5, <5>1, <5>2
        <4>2. g = top \/ g \in 1 .. top - 1
          BY <1>2, <4>1
        <4> QED
          BY <4>2
      <3>2. \A h \in 1 .. top - 1 : h \in GlobalPositions(store) /\ h # top
        BY <1>2
      <3> QED
        BY <2>1, <3>1, <3>2
    <2>4. IsFiniteSet(Earlier)
      <3>1. IsFiniteSet(1 .. top - 1)
        BY <1>2, FS_Interval
      <3> QED
        BY <3>1, FS_Subset
    <2> HIDE DEF Earlier, Members
    <2>5. Cardinality(Members) = version + 1
      BY <2>2, <2>3, <2>4, FS_AddElement
    <2> QED
      BY <2>5 DEF version, Members
  <1> QED
    BY <1>1, <1>4, <1>5

(* WritesAsModelled: write_message succeeds exactly when the oracle says so,
   and leaves neither a row nor a gap otherwise: the table is the array of the
   oracle, its streams are well formed, and their versions count them. *)
THEOREM WritesFollowOracle == Spec => []WritesAsModelled
  <1>1. FuzzInv => WritesAsModelled
    <2> SUFFICES ASSUME FuzzInv
                 PROVE  WritesAsModelled
      OBVIOUS
    <2>1. /\ store.sequence = Len(model)
          /\ GlobalPositions(store) = 1 .. Len(model)
          /\ \A g \in DOMAIN model : store.messages[g] = model[g]
      BY DEF FuzzInv, OracleAgrees, GlobalPositions
    <2>2. WellFormed(store)
      BY PlainSame DEF FuzzInv, Sound
    <2>3. \A stream \in Streams : ModelVersion(stream) + 1
              = Cardinality({g \in GlobalPositions(store) :
                                 store.messages[g].stream_name = stream})
      BY OracleVersion, VersionCounts
    <2> QED
      BY <2>1, <2>2, <2>3 DEF WritesAsModelled, VerifyInvariants
  <1> QED
    BY <1>1, FuzzInvHolds, PTL

(* VersionAsModelled: stream_version reports the version of the oracle, and
   NULL for a stream without messages. *)
THEOREM VersionsFollowOracle == Spec => []VersionAsModelled
  <1>1. FuzzInv => VersionAsModelled
    <2> SUFFICES ASSUME FuzzInv, NEW stream \in Streams
                 PROVE  RunStreamVersion(stream)
      BY DEF VersionAsModelled
    <2>1. /\ ModelVersion(stream) = StreamVersion(store, stream)
          /\ StreamVersion(store, stream) \in {-1} \cup Nat
      BY OracleVersion
    <2>2. (ModelVersion(stream) < 0) <=> (StreamVersion(store, stream) = -1)
      BY <2>1
    <2> QED
      BY <2>1, <2>2 DEF RunStreamVersion, ReportedVersion
  <1> QED
    BY <1>1, FuzzInvHolds, PTL

(* LastReadAsModelled: the largest position of a stream, or of its messages of
   a type, is that of the message that the oracle noted last. *)
THEOREM LastReadsFollowOracle == Spec => []LastReadAsModelled
  <1>1. FuzzInv => LastReadAsModelled
    <2> SUFFICES ASSUME FuzzInv, NEW stream \in Streams,
                        NEW type \in Types \cup {Null}
                 PROVE  RunLastStreamRead(stream, type)
      BY DEF LastReadAsModelled
    <2> DEFINE rows == {g \in 1 .. store.sequence :
                            /\ store.messages[g].stream_name = stream
                            /\ type \in {Null, store.messages[g].type}}
               matching == {i \in DOMAIN model :
                                /\ model[i].stream_name = stream
                                /\ type \in {Null, model[i].type}}
    <2>1. /\ GlobalPositions(store) = 1 .. Len(model) /\ Len(model) \in Nat
          /\ store.sequence = Len(model) /\ DOMAIN model = 1 .. Len(model)
          /\ \A g \in 1 .. Len(model) :
                 /\ store.messages[g] = model[g]
                 /\ store.messages[g].position \in Nat
      BY DEF FuzzInv, OracleAgrees, GlobalPositions, Noted
    <2>2. StreamsOrdered(store)
      BY PlainSame DEF FuzzInv, Sound, WellFormed
    <2>3. rows = matching
      BY <2>1
    <2>4. ASSUME NEW g \in rows, NEW h \in rows
          PROVE  store.messages[h].position <= store.messages[g].position
                     <=> h <= g
      <3>1. /\ g \in Nat /\ h \in Nat
            /\ g \in GlobalPositions(store) /\ h \in GlobalPositions(store)
            /\ store.messages[g].stream_name = store.messages[h].stream_name
            /\ store.messages[g].position \in Nat
            /\ store.messages[h].position \in Nat
        BY <2>1
      <3>2. /\ g < h => store.messages[g].position < store.messages[h].position
            /\ h < g => store.messages[h].position < store.messages[g].position
        BY <2>2, <3>1 DEF StreamsOrdered
      <3> QED
        BY <3>1, <3>2
    <2>5. LastMessage(store.messages, store.sequence, stream, type)
              = {g \in rows : \A h \in rows : store.messages[h].position
                                             <= store.messages[g].position}
      BY DEF LastMessage
    <2>6. RunLastStreamRead(stream, type)
              <=> LastMessage(store.messages, store.sequence, stream, type)
                      = {i \in matching : \A j \in matching : j <= i}
      BY DEF RunLastStreamRead
    <2> HIDE DEF rows, matching
    <2> QED
      BY <2>3, <2>4, <2>5, <2>6
  <1> QED
    BY <1>1, FuzzInvHolds, PTL

-----------------------------------------------------------------------------
(* The reads.  The extension finds the next row from the key of the last one
   until LIMIT or the end; the fuzzer walks its array.  Both are functions
   defined by recursion, along which the proofs go by CountingUp, and both
   produce the same batch: the first messages of the selection in their order
   (IsBatch), as many as there are or were asked for (IsWhole). *)

(* What RowsOf does in one step. *)
RowsStep(query, position, before, n) ==
    LET from == IF n = 1 THEN position
                ELSE Key(query, store.messages, before[n - 1]) + 1
        row == IF Len(before) < n - 1 THEN 0
               ELSE NextRow(query, store.messages, store.sequence, from,
                            Len(before))
    IN  IF row = 0 THEN before ELSE Append(before, row)

(* The recursion of RowsOf. *)
IsRows(rows, query, position) ==
    rows = [n \in 0 .. store.sequence |->
               IF n = 0 THEN <<>>
               ELSE RowsStep(query, position, rows[n - 1], n)]

(* RowsOf is the end of that recursion. *)
LEMMA RowsOfDefined ==
    ASSUME NEW query, NEW position
    PROVE  RowsOf(query, position)
               = (CHOOSE rows : IsRows(rows, query, position))[store.sequence]
  BY DEF RowsOf, IsRows, RowsStep

(* What Taken does in one step. *)
TakenStep(matching, batch_size, before, i) ==
    IF /\ i \in matching
       /\ batch_size < 0 \/ Len(before) < batch_size
    THEN Append(before, i)
    ELSE before

(* The recursion of Taken. *)
IsTaken(taken, matching, batch_size) ==
    taken = [i \in 0 .. Len(model) |->
                IF i = 0 THEN <<>>
                ELSE TakenStep(matching, batch_size, taken[i - 1], i)]

(* Taken is the end of that one. *)
LEMMA TakenDefined ==
    ASSUME NEW matching, NEW batch_size, ~(batch_size < -1)
    PROVE  Taken(matching, batch_size)
               = (CHOOSE taken :
                      IsTaken(taken, matching, batch_size))[Len(model)]
  BY DEF Taken, IsTaken, TakenStep

(* Induction, for sets: what has 0, and with a number the next, has them all. *)
LEMMA CountingUp ==
    ASSUME NEW S, 0 \in S, \A n \in Nat : n \in S => n + 1 \in S
    PROVE  Nat \subseteq S
  <1> SUFFICES ASSUME Nat \ S # {}
               PROVE  FALSE
    OBVIOUS
  <1>1. PICK least \in Nat \ S : \A other \in Nat \ S : least <= other
    BY LeastExists
  <1>2. least # 0 /\ least - 1 \in Nat /\ ~(least <= least - 1)
    BY <1>1
  <1>3. least - 1 \in S
    BY <1>1, <1>2
  <1> QED
    BY <1>1, <1>2, <1>3

(* The function that RowsOf defines by recursion exists. *)
LEMMA RowsExist ==
    ASSUME store.sequence \in Nat, NEW query, NEW position
    PROVE  \E rows : IsRows(rows, query, position)
  <1> DEFINE UpTo(m, f) == f = [n \in 0 .. m |->
                 IF n = 0 THEN <<>> ELSE RowsStep(query, position, f[n - 1], n)]
             S == {m \in Nat : \E f : UpTo(m, f)}
  <1>1. 0 \in S
    <2>1. UpTo(0, [n \in 0 .. 0 |-> <<>>])
      OBVIOUS
    <2> QED
      BY <2>1
  <1>2. ASSUME NEW m \in Nat, m \in S
        PROVE  m + 1 \in S
    <2>1. PICK f : UpTo(m, f)
      BY <1>2
    <2> DEFINE g == [n \in 0 .. m + 1 |->
                        IF n = m + 1 THEN RowsStep(query, position, f[m], m + 1)
                        ELSE f[n]]
    <2>2. \A n \in 0 .. m + 1 : g[n] =
              IF n = 0 THEN <<>> ELSE RowsStep(query, position, g[n - 1], n)
      <3> TAKE n \in 0 .. m + 1
      <3>1. CASE n = 0
        BY <2>1, <3>1
      <3>2. CASE n \in 1 .. m
        <4>1. /\ n \in 0 .. m /\ n - 1 \in 0 .. m /\ n # 0
              /\ n # m + 1 /\ n - 1 # m + 1
              /\ n \in 0 .. m + 1 /\ n - 1 \in 0 .. m + 1
          BY <3>2
        <4>2. f[n] = RowsStep(query, position, f[n - 1], n)
          BY <2>1, <4>1
        <4> QED
          BY <4>1, <4>2
      <3>3. CASE n = m + 1
        <4>1. /\ n - 1 = m /\ n # 0 /\ m # m + 1
              /\ m \in 0 .. m + 1 /\ n \in 0 .. m + 1
          BY <3>3
        <4> QED
          BY <3>3, <4>1
      <3> QED
        BY <3>1, <3>2, <3>3
    <2>3. UpTo(m + 1, g)
      <3>1. g = [n \in 0 .. m + 1 |-> g[n]]
        OBVIOUS
      <3> HIDE DEF g
      <3> QED
        BY <2>2, <3>1
    <2> HIDE DEF UpTo, g
    <2>4. \E h : UpTo(m + 1, h)
      BY <2>3
    <2> QED
      BY <2>4
  <1>3. store.sequence \in S
    <2> HIDE DEF S
    <2>1. Nat \subseteq S
      BY <1>1, <1>2, CountingUp
    <2> QED
      BY <2>1
  <1> QED
    BY <1>3 DEF IsRows

(* The function that Taken defines by recursion exists. *)
LEMMA TakenExists ==
    ASSUME Len(model) \in Nat, NEW matching, NEW size
    PROVE  \E taken : IsTaken(taken, matching, size)
  <1> DEFINE UpTo(m, f) == f = [n \in 0 .. m |->
                 IF n = 0 THEN <<>> ELSE TakenStep(matching, size, f[n - 1], n)]
             S == {m \in Nat : \E f : UpTo(m, f)}
  <1>1. 0 \in S
    <2>1. UpTo(0, [n \in 0 .. 0 |-> <<>>])
      OBVIOUS
    <2> QED
      BY <2>1
  <1>2. ASSUME NEW m \in Nat, m \in S
        PROVE  m + 1 \in S
    <2>1. PICK f : UpTo(m, f)
      BY <1>2
    <2> DEFINE g == [n \in 0 .. m + 1 |->
                        IF n = m + 1 THEN TakenStep(matching, size, f[m], m + 1)
                        ELSE f[n]]
    <2>2. \A n \in 0 .. m + 1 : g[n] =
              IF n = 0 THEN <<>> ELSE TakenStep(matching, size, g[n - 1], n)
      <3> TAKE n \in 0 .. m + 1
      <3>1. CASE n = 0
        BY <2>1, <3>1
      <3>2. CASE n \in 1 .. m
        <4>1. /\ n \in 0 .. m /\ n - 1 \in 0 .. m /\ n # 0
              /\ n # m + 1 /\ n - 1 # m + 1
              /\ n \in 0 .. m + 1 /\ n - 1 \in 0 .. m + 1
          BY <3>2
        <4>2. f[n] = TakenStep(matching, size, f[n - 1], n)
          BY <2>1, <4>1
        <4> QED
          BY <4>1, <4>2
      <3>3. CASE n = m + 1
        <4>1. /\ n - 1 = m /\ n # 0 /\ m # m + 1
              /\ m \in 0 .. m + 1 /\ n \in 0 .. m + 1
          BY <3>3
        <4> QED
          BY <3>3, <4>1
      <3> QED
        BY <3>1, <3>2, <3>3
    <2>3. UpTo(m + 1, g)
      <3>1. g = [n \in 0 .. m + 1 |-> g[n]]
        OBVIOUS
      <3> HIDE DEF g
      <3> QED
        BY <2>2, <3>1
    <2> HIDE DEF UpTo, g
    <2>4. \E h : UpTo(m + 1, h)
      BY <2>3
    <2> QED
      BY <2>4
  <1>3. Len(model) \in S
    <2> HIDE DEF S
    <2>1. Nat \subseteq S
      BY <1>1, <1>2, CountingUp
    <2> QED
      BY <2>1
  <1> QED
    BY <1>3 DEF IsTaken

(* g is in the sequence. *)
Holds(s, g) == \E j \in 1 .. Len(s) : s[j] = g

(* The first messages of a set, in their order, and at most size of them. *)
IsBatch(s, M, size) ==
    /\ s \in Seq(M)
    /\ \A j, k \in 1 .. Len(s) : j < k => s[j] < s[k]
    /\ \A k \in 1 .. Len(s) : \A g \in M : g < s[k] => Holds(s, g)
    /\ size # -1 => Len(s) <= size

(* As many of them as there are, or as were asked for. *)
IsWhole(s, M, size) == Len(s) = size \/ \A g \in M : Holds(s, g)

(* The types of a batch. *)
LEMMA BatchType ==
    ASSUME NEW M \in SUBSET Nat, NEW size, NEW s, IsBatch(s, M, size)
    PROVE  /\ s \in Seq(M) /\ Len(s) \in Nat
           /\ \A k \in 1 .. Len(s) : s[k] \in M /\ s[k] \in Nat
  <1>1. s \in Seq(M)
    BY DEF IsBatch
  <1>2. Len(s) \in Nat /\ \A k \in 1 .. Len(s) : s[k] \in M
    BY <1>1
  <1>3. \A g \in M : g \in Nat
    OBVIOUS
  <1> QED
    BY <1>1, <1>2, <1>3

(* A walk starts with nothing. *)
LEMMA EmptyBatch ==
    ASSUME NEW M, NEW size \in Int, size >= -1
    PROVE  IsBatch(<<>>, M, size)
  BY DEF IsBatch

(* g is the first member of M that is not in s. *)
Follows(s, M, g) ==
    /\ g \in M
    /\ \A j \in 1 .. Len(s) : s[j] < g
    /\ \A h \in M : h < g => Holds(s, h)

(* A batch goes on with the first message that it does not have. *)
LEMMA AppendToBatch ==
    ASSUME NEW M \in SUBSET Nat, NEW size \in Int, size >= -1,
           NEW s, IsBatch(s, M, size), Len(s) # size,
           NEW g, Follows(s, M, g)
    PROVE  /\ IsBatch(Append(s, g), M, size)
           /\ Len(Append(s, g)) = Len(s) + 1
           /\ Append(s, g)[Len(s) + 1] = g
           /\ Holds(Append(s, g), g)
           /\ \A h : Holds(s, h) => Holds(Append(s, g), h)
           /\ \A k \in 1 .. Len(s) : Append(s, g)[k] = s[k]
  <1> DEFINE t == Append(s, g)
  <1>0. /\ g \in M /\ \A j \in 1 .. Len(s) : s[j] < g
        /\ \A h \in M : h < g => Holds(s, h)
    BY DEF Follows
  <1>1. /\ s \in Seq(M) /\ Len(s) \in Nat
        /\ \A k \in 1 .. Len(s) : s[k] \in M /\ s[k] \in Nat
    BY BatchType
  <1>2. /\ t \in Seq(M) /\ Len(t) = Len(s) + 1
        /\ t[Len(s) + 1] = g
        /\ \A k \in 1 .. Len(s) : t[k] = s[k]
    BY <1>0, <1>1
  <1>3. \A k \in 1 .. Len(t) : k \in 1 .. Len(s) \/ k = Len(s) + 1
    BY <1>1, <1>2
  <1>4. 1 .. Len(s) \subseteq 1 .. Len(t) /\ Len(s) + 1 \in 1 .. Len(t)
    BY <1>1, <1>2
  <1> HIDE DEF t
  <1>5. Holds(t, g) /\ \A h : Holds(s, h) => Holds(t, h)
    BY <1>2, <1>4 DEF Holds
  <1>6. \A j, k \in 1 .. Len(t) : j < k => t[j] < t[k]
    <2> SUFFICES ASSUME NEW j \in 1 .. Len(t), NEW k \in 1 .. Len(t), j < k
                 PROVE  t[j] < t[k]
      OBVIOUS
    <2>1. j \in 1 .. Len(s)
      BY <1>1, <1>2
    <2>2. CASE k = Len(s) + 1
      BY <1>0, <1>2, <2>1, <2>2
    <2>3. CASE k \in 1 .. Len(s)
      BY <1>2, <2>1, <2>3 DEF IsBatch
    <2> QED
      BY <1>3, <2>2, <2>3
  <1>7. ASSUME NEW k \in 1 .. Len(t), NEW h \in M, h < t[k]
        PROVE  Holds(t, h)
    <2>1. CASE k = Len(s) + 1
      BY <1>0, <1>2, <1>5, <1>7, <2>1
    <2>2. CASE k \in 1 .. Len(s)
      BY <1>2, <1>5, <1>7, <2>2 DEF IsBatch
    <2> QED
      BY <1>3, <2>1, <2>2
  <1>8. size # -1 => Len(t) <= size
    BY <1>1, <1>2 DEF IsBatch
  <1>9. IsBatch(t, M, size)
    BY <1>2, <1>6, <1>7, <1>8 DEF IsBatch
  <1> QED
    BY <1>2, <1>5, <1>9 DEF t

(* There is one batch of a size. *)
LEMMA BatchesAgree ==
    ASSUME NEW M \in SUBSET Nat, NEW size \in Int,
           NEW s, IsBatch(s, M, size),
           NEW t, IsBatch(t, M, size)
    PROVE  \A k \in 1 .. Len(s) : k <= Len(t) => s[k] = t[k]
  <1>1. /\ Len(s) \in Nat /\ Len(t) \in Nat
        /\ \A k \in 1 .. Len(s) : s[k] \in M /\ s[k] \in Nat
        /\ \A k \in 1 .. Len(t) : t[k] \in M /\ t[k] \in Nat
    BY BatchType
  <1> DEFINE Differ == {k \in 1 .. Len(s) : k <= Len(t) /\ s[k] # t[k]}
  <1> SUFFICES ASSUME Differ # {}
               PROVE  FALSE
    OBVIOUS
  <1>2. PICK k \in Differ : \A other \in Differ : k <= other
    <2>1. Differ \in SUBSET Nat
      BY <1>1
    <2> HIDE DEF Differ
    <2> QED
      BY <2>1, LeastExists
  <1>3. k \in 1 .. Len(s) /\ k \in 1 .. Len(t) /\ s[k] # t[k]
    BY <1>1
  <1>4. \A j \in 1 .. Len(s) : j < k => j \in 1 .. Len(t) /\ s[j] = t[j]
    <2> TAKE j \in 1 .. Len(s)
    <2>1. j < k => j \in 1 .. Len(t) /\ j \notin Differ
      BY <1>1, <1>2, <1>3
    <2> QED
      BY <1>1, <2>1
  <1>5. CASE s[k] < t[k]
    <2>1. PICK j \in 1 .. Len(t) : t[j] = s[k]
      BY <1>1, <1>3, <1>5 DEF IsBatch, Holds
    <2>2. ~(k < j) /\ j # k
      BY <1>1, <1>3, <1>5, <2>1 DEF IsBatch
    <2>3. j < k /\ j \in 1 .. Len(s)
      BY <1>1, <1>3, <2>2
    <2>4. s[j] = s[k] /\ s[j] < s[k]
      BY <1>3, <1>4, <2>1, <2>3 DEF IsBatch
    <2> QED
      BY <1>1, <1>3, <2>4
  <1>6. CASE t[k] < s[k]
    <2>1. PICK j \in 1 .. Len(s) : s[j] = t[k]
      BY <1>1, <1>3, <1>6 DEF IsBatch, Holds
    <2>2. ~(k < j) /\ j # k
      BY <1>1, <1>3, <1>6, <2>1 DEF IsBatch
    <2>3. j < k /\ j \in 1 .. Len(t)
      BY <1>1, <1>3, <2>2
    <2>4. t[j] = t[k] /\ t[j] < t[k]
      BY <1>3, <1>4, <2>1, <2>3 DEF IsBatch
    <2> QED
      BY <1>1, <1>3, <2>4
  <1> QED
    BY <1>1, <1>3, <1>5, <1>6

(* No batch has more messages than a whole one. *)
LEMMA WholeIsLongest ==
    ASSUME NEW M \in SUBSET Nat, NEW size \in Int, size >= -1,
           NEW s, IsBatch(s, M, size), IsWhole(s, M, size),
           NEW t, IsBatch(t, M, size)
    PROVE  Len(t) <= Len(s)
  <1>1. /\ Len(s) \in Nat /\ Len(t) \in Nat
        /\ \A k \in 1 .. Len(t) : t[k] \in M /\ t[k] \in Nat
    BY BatchType
  <1> SUFFICES ASSUME Len(s) < Len(t)
               PROVE  FALSE
    BY <1>1
  <1>2. Len(s) # size
    BY <1>1 DEF IsBatch
  <1>3. Len(s) + 1 \in 1 .. Len(t)
    BY <1>1
  <1>4. PICK j \in 1 .. Len(s) : s[j] = t[Len(s) + 1]
    BY <1>1, <1>2, <1>3 DEF IsWhole, Holds
  <1>5. j \in 1 .. Len(t) /\ j <= Len(t) /\ j < Len(s) + 1
    BY <1>1
  <1>6. s[j] = t[j]
    BY <1>5, BatchesAgree
  <1>7. t[j] < t[Len(s) + 1]
    BY <1>3, <1>5 DEF IsBatch
  <1> QED
    BY <1>1, <1>3, <1>4, <1>5, <1>6, <1>7

(* There is one whole batch. *)
LEMMA OneBatch ==
    ASSUME NEW M \in SUBSET Nat, NEW size \in Int, size >= -1,
           NEW s, IsBatch(s, M, size), IsWhole(s, M, size),
           NEW t, IsBatch(t, M, size), IsWhole(t, M, size)
    PROVE  s = t
  <1>1. Len(s) \in Nat /\ Len(t) \in Nat /\ s \in Seq(M) /\ t \in Seq(M)
    BY DEF IsBatch
  <1>2. Len(s) <= Len(t) /\ Len(t) <= Len(s)
    BY WholeIsLongest
  <1>3. Len(s) = Len(t)
    BY <1>1, <1>2
  <1>4. \A k \in 1 .. Len(s) : s[k] = t[k]
    BY <1>1, <1>3, BatchesAgree
  <1> QED
    BY <1>1, <1>3, <1>4

-----------------------------------------------------------------------------
(* The walk of the fuzzer over its array. *)
LEMMA TakenIsBatch ==
    ASSUME Len(model) \in Nat, NEW M \in SUBSET (1 .. Len(model)),
           NEW size \in Int, size >= -1
    PROVE  /\ IsBatch(Taken(M, size), M, size)
           /\ IsWhole(Taken(M, size), M, size)
  <1> DEFINE taken == CHOOSE taken : IsTaken(taken, M, size)
             Walked(i) == /\ IsBatch(taken[i], M, size)
                          /\ \A k \in 1 .. Len(taken[i]) : taken[i][k] <= i
                          /\ \/ Len(taken[i]) = size
                             \/ \A g \in M : g <= i => Holds(taken[i], g)
             S == {i \in Nat : i <= Len(model) => Walked(i)}
  <1>1. IsTaken(taken, M, size)
    BY TakenExists
  <1>2. M \in SUBSET Nat /\ \A g \in M : g \in Nat /\ 1 <= g /\ g <= Len(model)
    OBVIOUS
  <1> HIDE DEF taken
  <1>3. /\ taken[0] = <<>>
        /\ \A i \in 1 .. Len(model) :
               taken[i] = TakenStep(M, size, taken[i - 1], i)
    <2>1. \A i \in 0 .. Len(model) :
              taken[i] = IF i = 0 THEN <<>>
                         ELSE TakenStep(M, size, taken[i - 1], i)
      BY <1>1 DEF IsTaken
    <2>2. 0 \in 0 .. Len(model)
          /\ \A i \in 1 .. Len(model) : i \in 0 .. Len(model) /\ i # 0
      OBVIOUS
    <2> QED
      BY <2>1, <2>2
  <1>4. Walked(0)
    <2>1. IsBatch(<<>>, M, size)
      BY EmptyBatch
    <2>2. Len(<<>>) = 0
      OBVIOUS
    <2>3. \A g \in M : ~(g <= 0)
      BY <1>2
    <2> QED
      BY <1>3, <2>1, <2>2, <2>3
  <1>5. ASSUME NEW i \in Nat, i + 1 <= Len(model), Walked(i)
        PROVE  Walked(i + 1)
    <2> DEFINE before == taken[i]
    <2>1. /\ IsBatch(before, M, size)
          /\ \A k \in 1 .. Len(before) : before[k] <= i
          /\ \/ Len(before) = size
             \/ \A g \in M : g <= i => Holds(before, g)
      BY <1>5
    <2>2. i + 1 \in 1 .. Len(model) /\ i + 1 - 1 = i
      BY <1>5
    <2>3. taken[i + 1] = TakenStep(M, size, before, i + 1)
      BY <1>3, <2>2
    <2> HIDE DEF before
    <2>4. /\ Len(before) \in Nat
          /\ \A k \in 1 .. Len(before) : before[k] \in Nat
          /\ size # -1 => Len(before) <= size
      BY <1>2, <2>1, BatchType DEF IsBatch
    <2>5. CASE i + 1 \in M /\ Len(before) # size
      <3>1. size < 0 \/ Len(before) < size
        BY <2>4, <2>5
      <3>2. taken[i + 1] = Append(before, i + 1)
        BY <2>3, <2>5, <3>1 DEF TakenStep
      <3>3. /\ \A j \in 1 .. Len(before) : before[j] < i + 1
            /\ \A h \in M : h < i + 1 => Holds(before, h)
            /\ \A h \in M : h <= i + 1 => h < i + 1 \/ h = i + 1
        <4>1. \A j \in 1 .. Len(before) : before[j] < i + 1
          BY <2>1, <2>4
        <4>2. \A h \in M : /\ h < i + 1 => h <= i
                           /\ h <= i + 1 => h < i + 1 \/ h = i + 1
          BY <1>2
        <4> QED
          BY <2>1, <2>5, <4>1, <4>2
      <3> DEFINE after == Append(before, i + 1)
      <3>4. /\ IsBatch(after, M, size)
            /\ Len(after) = Len(before) + 1
            /\ after[Len(before) + 1] = i + 1
            /\ Holds(after, i + 1)
            /\ \A h : Holds(before, h) => Holds(after, h)
            /\ \A k \in 1 .. Len(before) : after[k] = before[k]
        <4>1. M \in SUBSET Nat /\ Len(before) # size
          BY <1>2, <2>5
        <4>2. Follows(before, M, i + 1)
          BY <2>5, <3>3 DEF Follows
        <4> QED
          BY <2>1, <4>1, <4>2, AppendToBatch
      <3> HIDE DEF after
      <3>5. \A k \in 1 .. Len(after) : after[k] <= i + 1
        <4> TAKE k \in 1 .. Len(after)
        <4>1. k \in 1 .. Len(before) \/ k = Len(before) + 1
          BY <2>4, <3>4
        <4>2. k \in 1 .. Len(before) => before[k] <= i /\ before[k] \in Nat
          BY <2>1, <2>4
        <4> QED
          BY <3>4, <4>1, <4>2
      <3>6. \A g \in M : g <= i + 1 => Holds(after, g)
        BY <3>3, <3>4
      <3> QED
        BY <3>2, <3>4, <3>5, <3>6 DEF after
    <2>6. CASE ~(i + 1 \in M /\ Len(before) # size)
      <3>1. taken[i + 1] = before
        <4>1. CASE i + 1 \notin M
          BY <2>3, <4>1 DEF TakenStep
        <4>2. CASE Len(before) = size
          <5>1. ~(size < 0 \/ Len(before) < size)
            BY <2>4, <4>2
          <5> QED
            BY <2>3, <5>1 DEF TakenStep
        <4> QED
          BY <2>6, <4>1, <4>2
      <3>2. \A k \in 1 .. Len(before) : before[k] <= i + 1
        BY <2>1, <2>4
      <3>3. Len(before) = size \/ \A g \in M : g <= i + 1 => Holds(before, g)
        <4>1. CASE Len(before) # size
          <5>1. \A g \in M : g <= i + 1 => g <= i
            BY <1>2, <2>6, <4>1
          <5> QED
            BY <2>1, <4>1, <5>1
        <4> QED
          BY <4>1
      <3> QED
        BY <2>1, <3>1, <3>2, <3>3
    <2> QED
      BY <2>5, <2>6
  <1>6. Walked(Len(model))
    <2> HIDE DEF Walked
    <2>1. 0 \in S
      BY <1>4
    <2>2. ASSUME NEW i \in Nat, i \in S
          PROVE  i + 1 \in S
      BY <1>5, <2>2
    <2> HIDE DEF S
    <2>3. Len(model) \in S
      BY <2>1, <2>2, CountingUp
    <2> QED
      BY <2>3 DEF S
  <1>7. Taken(M, size) = taken[Len(model)]
    BY TakenDefined DEF taken
  <1>8. IsWhole(taken[Len(model)], M, size)
    BY <1>2, <1>6 DEF IsWhole
  <1> QED
    BY <1>6, <1>7, <1>8

-----------------------------------------------------------------------------
(* The rows that a query selects come in the order of their keys. *)
KeysOrdered(query) ==
    \A g, h \in 1 .. Len(model) :
        Selects(query, store.messages[g]) /\ Selects(query, store.messages[h])
            => /\ Key(query, store.messages, g) \in Int
               /\ Key(query, store.messages, h) \in Int
               /\ g < h <=> Key(query, store.messages, g)
                                < Key(query, store.messages, h)

(* The next row of the statement is the next message of the selection. *)
LEMMA NextOfRows ==
    ASSUME Len(model) \in Nat, NEW query, KeysOrdered(query),
           NEW from \in Int,
           RowsFrom(query, store.messages, Len(model), from) # {}
    PROVE  LET rows == RowsFrom(query, store.messages, Len(model), from)
               row == FirstRow(query, store.messages, rows)
           IN  row \in rows /\ \A g \in rows : row <= g
  <1> DEFINE rows == RowsFrom(query, store.messages, Len(model), from)
             row == FirstRow(query, store.messages, rows)
  <1>1. \A g \in rows : g \in 1 .. Len(model) /\ g \in Nat
                        /\ Selects(query, store.messages[g])
    BY DEF RowsFrom
  <1>2. rows # {}
    OBVIOUS
  <1> HIDE DEF rows
  <1>3. PICK least \in rows : \A g \in rows : least <= g
    BY <1>1, <1>2, LeastExists
  <1>4. \A g, h \in rows : g <= h <=> Key(query, store.messages, g)
                                         <= Key(query, store.messages, h)
    <2> TAKE g, h \in rows
    <2>1. /\ Key(query, store.messages, g) \in Int
          /\ Key(query, store.messages, h) \in Int
          /\ h < g <=> Key(query, store.messages, h)
                           < Key(query, store.messages, g)
      BY <1>1 DEF KeysOrdered
    <2>2. g \in Nat /\ h \in Nat
      BY <1>1
    <2> QED
      BY <2>1, <2>2
  <1>5. row = CHOOSE g \in rows : \A h \in rows :
                  Key(query, store.messages, g) <= Key(query, store.messages, h)
    BY <1>2 DEF FirstRow
  <1>6. /\ row \in rows
        /\ \A h \in rows : Key(query, store.messages, row)
                               <= Key(query, store.messages, h)
    BY <1>3, <1>4, <1>5
  <1> HIDE DEF row
  <1>7. \A h \in rows : row <= h
    BY <1>4, <1>6
  <1> QED
    BY <1>6, <1>7 DEF row, rows

(* The statement that the extension steps to its end. *)
LEMMA RowsAreBatch ==
    ASSUME Len(model) \in Nat, store.sequence = Len(model),
           NEW query, KeysOrdered(query),
           query.batch_size \in Int, query.batch_size >= -1,
           NEW position \in Int
    PROVE  LET M == RowsFrom(query, store.messages, Len(model), position)
           IN  /\ IsBatch(RowsOf(query, position), M, query.batch_size)
               /\ IsWhole(RowsOf(query, position), M, query.batch_size)
  <1> DEFINE M == RowsFrom(query, store.messages, Len(model), position)
             size == query.batch_size
             rows == CHOOSE rows : IsRows(rows, query, position)
             Stepped(n) == /\ IsBatch(rows[n], M, size)
                           /\ Len(rows[n]) <= n
                           /\ Len(rows[n]) < n => IsWhole(rows[n], M, size)
                           /\ Len(rows[n]) = n /\ n > 0 => rows[n][n] >= n
             S == {n \in Nat : n <= Len(model) => Stepped(n)}
  <1>1. IsRows(rows, query, position)
    BY RowsExist
  <1>2. /\ M \in SUBSET Nat
        /\ \A g \in M : g \in Nat /\ 1 <= g /\ g <= Len(model)
    BY DEF RowsFrom
  <1>3. size \in Int /\ size >= -1
    OBVIOUS
  <1>4. RowsOf(query, position) = rows[Len(model)]
    BY RowsOfDefined
  <1> HIDE DEF rows
  <1>5. /\ rows[0] = <<>>
        /\ \A n \in 1 .. Len(model) :
               rows[n] = RowsStep(query, position, rows[n - 1], n)
    <2>1. \A n \in 0 .. Len(model) :
              rows[n] = IF n = 0 THEN <<>>
                        ELSE RowsStep(query, position, rows[n - 1], n)
      BY <1>1 DEF IsRows
    <2>2. 0 \in 0 .. Len(model)
          /\ \A n \in 1 .. Len(model) : n \in 0 .. Len(model) /\ n # 0
      OBVIOUS
    <2> QED
      BY <2>1, <2>2
  <1>6. Stepped(0)
    <2>1. IsBatch(<<>>, M, size)
      BY <1>3, EmptyBatch
    <2>2. Len(<<>>) = 0
      OBVIOUS
    <2> HIDE DEF M, size
    <2> QED
      BY <1>5, <2>1, <2>2
  <1>7. ASSUME NEW n \in Nat, n + 1 <= Len(model), Stepped(n)
        PROVE  Stepped(n + 1)
    <2> DEFINE before == rows[n]
               from == IF n = 0 THEN position
                       ELSE Key(query, store.messages, before[n]) + 1
               later == RowsFrom(query, store.messages, Len(model), from)
               row == IF Len(before) < n THEN 0
                      ELSE NextRow(query, store.messages, Len(model), from,
                                   Len(before))
    <2>1. /\ IsBatch(before, M, size)
          /\ Len(before) <= n
          /\ Len(before) < n => IsWhole(before, M, size)
          /\ Len(before) = n /\ n > 0 => before[n] >= n
      BY <1>7
    <2>2. n + 1 \in 1 .. Len(model) /\ n + 1 - 1 = n /\ (n + 1 = 1 <=> n = 0)
      BY <1>7
    <2>3. rows[n + 1] = IF row = 0 THEN before ELSE Append(before, row)
      <3>1. rows[n + 1] = RowsStep(query, position, rows[n], n + 1)
        BY <1>5, <2>2
      <3> QED
        BY <2>2, <3>1 DEF RowsStep
    <2>4. /\ Len(before) \in Nat
          /\ \A k \in 1 .. Len(before) : before[k] \in M /\ before[k] \in Nat
      BY <1>2, <2>1, BatchType
    <2>5. CASE Len(before) < n
      <3>1. rows[n + 1] = before
        BY <2>3, <2>5
      <3> HIDE DEF before, M, size
      <3> QED
        BY <2>1, <2>4, <2>5, <3>1
    <2>6. CASE Len(before) = n
      <3>1. from \in Int
        <4>1. CASE n = 0
          BY <4>1
        <4>2. CASE n # 0
          <5>1. n \in 1 .. Len(before)
            BY <2>6, <4>2
          <5>2. before[n] \in M
            BY <2>4, <5>1
          <5>3. Key(query, store.messages, before[n]) \in Int
            BY <5>2 DEF KeysOrdered, RowsFrom
          <5> QED
            BY <4>2, <5>3
        <4> QED
          BY <4>1, <4>2
      <3>2. /\ later \subseteq M
            /\ \A g \in M : g \in later
                                <=> \A k \in 1 .. Len(before) : before[k] < g
        <4>1. CASE n = 0
          BY <2>6, <4>1
        <4>2. CASE n # 0
          <5>1. n \in 1 .. Len(before)
            BY <2>6, <4>2
          <5>2. before[n] \in M /\ before[n] \in Nat
            BY <2>4, <5>1
          <5> DEFINE last == before[n]
          <5>3. /\ last \in 1 .. Len(model)
                /\ Selects(query, store.messages[last])
                /\ Key(query, store.messages, last) >= position
                /\ Key(query, store.messages, last) \in Int
            BY <5>2 DEF RowsFrom, KeysOrdered
          <5>4. later = {g \in 1 .. Len(model) :
                             /\ Key(query, store.messages, g)
                                    >= Key(query, store.messages, last) + 1
                             /\ Selects(query, store.messages[g])}
            BY <4>2 DEF RowsFrom
          <5>5. \A k \in 1 .. Len(before) : before[k] <= last
            <6> TAKE k \in 1 .. Len(before)
            <6>1. k < n => before[k] < before[n]
              BY <2>1, <5>1 DEF IsBatch
            <6> QED
              BY <2>4, <2>6, <5>2, <6>1
          <5>6. ASSUME NEW g \in 1 .. Len(model),
                       Selects(query, store.messages[g])
                PROVE  /\ Key(query, store.messages, g) \in Int
                       /\ last < g
                              <=> Key(query, store.messages, g)
                                      >= Key(query, store.messages, last) + 1
            BY <5>3, <5>6 DEF KeysOrdered
          <5> HIDE DEF last, later
          <5>7. ASSUME NEW g \in later
                PROVE  g \in M /\ last < g
            <6>1. /\ g \in 1 .. Len(model) /\ Selects(query, store.messages[g])
                  /\ Key(query, store.messages, g)
                         >= Key(query, store.messages, last) + 1
              BY <5>4
            <6>2. last < g /\ Key(query, store.messages, g) \in Int
              BY <5>6, <6>1
            <6>3. Key(query, store.messages, g) >= position
              BY <5>3, <6>1, <6>2
            <6> QED
              BY <6>1, <6>2, <6>3 DEF RowsFrom
          <5>8. ASSUME NEW g \in M, last < g
                PROVE  g \in later
            <6>1. g \in 1 .. Len(model) /\ Selects(query, store.messages[g])
              BY DEF RowsFrom
            <6> QED
              BY <5>4, <5>6, <5>8, <6>1
          <5>9. \A g \in M : last < g
                                 <=> \A k \in 1 .. Len(before) : before[k] < g
            <6> TAKE g \in M
            <6>1. g \in Nat
              BY <1>2
            <6>2. last < g => \A k \in 1 .. Len(before) : before[k] < g
              BY <2>4, <5>2, <5>5, <6>1 DEF last
            <6> QED
              BY <5>1, <6>2 DEF last
          <5> HIDE DEF M
          <5> QED
            BY <5>7, <5>8, <5>9
        <4> QED
          BY <4>1, <4>2
      <3> DEFINE next == FirstRow(query, store.messages, later)
      <3>3. row = IF n = size THEN 0 ELSE next
        BY <2>4, <2>6 DEF NextRow
      <3>4. later = {} => next = 0
        BY DEF FirstRow
      <3>5. later # {} => next \in later /\ \A g \in later : next <= g
        BY <3>1, NextOfRows
      <3> HIDE DEF row, from, later, before, M, size, next
      <3>6. ASSUME NEW g \in M, g \notin later
            PROVE  Holds(before, g)
        <4>1. PICK k \in 1 .. Len(before) : ~(before[k] < g)
          BY <3>2, <3>6
        <4>2. before[k] = g \/ g < before[k]
          BY <1>2, <2>4, <4>1
        <4> QED
          BY <2>1, <4>2 DEF IsBatch, Holds
      <3>7. CASE n = size \/ later = {}
        <4>1. rows[n + 1] = before
          BY <2>3, <3>3, <3>4, <3>7
        <4>2. IsWhole(before, M, size)
          BY <2>6, <3>6, <3>7 DEF IsWhole
        <4>3. /\ Len(before) <= n + 1 /\ Len(before) < n + 1
              /\ Len(before) # n + 1
          BY <2>6
        <4> QED
          BY <2>1, <4>1, <4>2, <4>3
      <3>8. CASE n # size /\ later # {}
        <4>1. next \in M /\ next \in Nat /\ next # 0
          <5>1. next \in M
            BY <3>2, <3>5, <3>8
          <5> QED
            BY <1>2, <5>1
        <4>2. rows[n + 1] = Append(before, next)
          BY <2>3, <3>3, <3>8, <4>1
        <4>3. \A k \in 1 .. Len(before) : before[k] < next
          BY <3>2, <3>5, <3>8, <4>1
        <4>4. \A h \in M : h < next => Holds(before, h)
          <5> TAKE h \in M
          <5>1. h < next => h \notin later
            BY <1>2, <3>5, <3>8, <4>1
          <5> QED
            BY <3>6, <5>1
        <4>5. /\ IsBatch(Append(before, next), M, size)
              /\ Len(Append(before, next)) = Len(before) + 1
              /\ Append(before, next)[Len(before) + 1] = next
          <5>1. M \in SUBSET Nat /\ Len(before) # size
            BY <1>2, <2>6, <3>8
          <5>2. Follows(before, M, next)
            BY <4>1, <4>3, <4>4 DEF Follows
          <5>3. IsBatch(before, M, size)
            BY <2>1
          <5>4. \A s, g : /\ IsBatch(s, M, size) /\ Len(s) # size
                          /\ Follows(s, M, g)
                    => /\ IsBatch(Append(s, g), M, size)
                       /\ Len(Append(s, g)) = Len(s) + 1
                       /\ Append(s, g)[Len(s) + 1] = g
            BY <1>3, <5>1, AppendToBatch
          <5> QED
            BY <5>1, <5>2, <5>3, <5>4
        <4>6. next >= n + 1
          <5>1. CASE n = 0
            BY <4>1, <5>1
          <5>2. CASE n # 0
            <6>1. n \in 1 .. Len(before) /\ n > 0
              BY <2>6, <5>2
            <6>2. before[n] < next /\ before[n] >= n /\ before[n] \in Nat
              BY <2>1, <2>4, <2>6, <4>3, <6>1
            <6> QED
              BY <4>1, <6>2
          <5> QED
            BY <5>1, <5>2
        <4> QED
          BY <2>4, <2>6, <4>2, <4>5, <4>6
      <3> QED
        BY <3>7, <3>8
    <2> QED
      BY <2>1, <2>4, <2>5, <2>6
  <1>8. Stepped(Len(model))
    <2> HIDE DEF Stepped
    <2>1. 0 \in S
      BY <1>6
    <2>2. ASSUME NEW n \in Nat, n \in S
          PROVE  n + 1 \in S
      BY <1>7, <2>2
    <2> HIDE DEF S
    <2>3. Len(model) \in S
      BY <2>1, <2>2, CountingUp
    <2> QED
      BY <2>3 DEF S
  <1>9. IsWhole(rows[Len(model)], M, size)
    <2> DEFINE all == rows[Len(model)]
    <2>1. /\ Len(all) \in Nat
          /\ \A k \in 1 .. Len(all) : all[k] \in M /\ all[k] \in Nat
      BY <1>2, <1>8, BatchType
    <2>2. /\ IsBatch(all, M, size)
          /\ Len(all) <= Len(model)
          /\ Len(all) < Len(model) => IsWhole(all, M, size)
          /\ Len(all) = Len(model) /\ Len(model) > 0
                 => all[Len(model)] >= Len(model)
      BY <1>8
    <2> HIDE DEF all, M, size
    <2>3. CASE Len(all) = Len(model) /\ Len(model) > 0
      <3>1. Len(all) \in 1 .. Len(all)
        BY <2>3
      <3>2. all[Len(all)] = Len(model)
        BY <1>2, <2>1, <2>2, <2>3, <3>1
      <3>3. \A g \in M : g = Len(model) \/ g < Len(model)
        BY <1>2
      <3>4. \A g \in M : Holds(all, g)
        BY <2>2, <3>1, <3>2, <3>3 DEF IsBatch, Holds
      <3> QED
        BY <3>4 DEF IsWhole, all
    <2>4. CASE Len(model) = 0
      <3>1. M = {}
        BY <1>2, <2>4
      <3> QED
        BY <3>1 DEF IsWhole
    <2> QED
      BY <2>1, <2>2, <2>3, <2>4 DEF all
  <1> QED
    BY <1>4, <1>8, <1>9

-----------------------------------------------------------------------------
(* What a query fetches is what the fuzzer's walk over the messages that it
   selects takes. *)
LEMMA FetchedIsTaken ==
    ASSUME FuzzInv, NEW query, KeysOrdered(query),
           query.batch_size \in Int, NEW position \in Int
    PROVE  Fetched(query, position)
               = Taken(RowsFrom(query, store.messages, Len(model), position),
                       query.batch_size)
  <1> DEFINE M == RowsFrom(query, store.messages, Len(model), position)
             size == query.batch_size
  <1>1. Len(model) \in Nat /\ store.sequence = Len(model)
    BY DEF FuzzInv, OracleAgrees
  <1>2. CASE size < -1
    BY <1>2 DEF Fetched, Taken
  <1>3. CASE ~(size < -1)
    <2>1. size \in Int /\ size >= -1
      BY <1>3
    <2>2. M \in SUBSET (1 .. Len(model)) /\ M \in SUBSET Nat
      BY DEF RowsFrom
    <2>3. /\ IsBatch(RowsOf(query, position), M, size)
          /\ IsWhole(RowsOf(query, position), M, size)
      BY <1>1, <2>1, RowsAreBatch
    <2> HIDE DEF M, size
    <2>4. /\ IsBatch(Taken(M, size), M, size)
          /\ IsWhole(Taken(M, size), M, size)
      BY <1>1, <2>1, <2>2, TakenIsBatch
    <2>5. RowsOf(query, position) = Taken(M, size)
      <3>1. \A s, t : /\ IsBatch(s, M, size) /\ IsWhole(s, M, size)
                      /\ IsBatch(t, M, size) /\ IsWhole(t, M, size)
                      => s = t
        BY <2>1, <2>2, OneBatch
      <3> QED
        BY <2>3, <2>4, <3>1
    <2>6. Fetched(query, position) = RowsOf(query, position)
      BY <1>3 DEF Fetched, size
    <2> QED
      BY <2>5, <2>6 DEF M, size
  <1> QED
    BY <1>2, <1>3

(* StreamReadAsModelled: get_stream_messages, stepped to its end, returns the
   messages of the stream from a position on, in their order and as many as
   asked for. *)
THEOREM StreamReadsFollowOracle == Spec => []StreamReadAsModelled
  <1>1. FuzzInv => StreamReadAsModelled
    <2> SUFFICES ASSUME FuzzInv, NEW stream \in Streams,
                        NEW position \in Positions, NEW size \in BatchSizes
                 PROVE  RunStreamRead(stream, position, size)
      BY DEF StreamReadAsModelled
    <2> DEFINE query == [kind |-> "stream", name |-> stream,
                         batch_size |-> size]
               matching == {i \in DOMAIN model :
                                /\ model[i].stream_name = stream
                                /\ model[i].position >= position}
    <2>1. /\ GlobalPositions(store) = 1 .. Len(model)
          /\ DOMAIN model = 1 .. Len(model)
          /\ \A g \in 1 .. Len(model) :
                 /\ g \in Nat
                 /\ store.messages[g] = model[g]
                 /\ store.messages[g].position \in Nat
      BY DEF FuzzInv, OracleAgrees, GlobalPositions, Noted
    <2>2. StreamsOrdered(store)
      BY PlainSame DEF FuzzInv, Sound, WellFormed
    <2>3. /\ \A message : Selects(query, message)
                              <=> message.stream_name = stream
          /\ \A g : Key(query, store.messages, g) = store.messages[g].position
          /\ query.batch_size = size
      BY DEF Selects, Key
    <2>4. position \in Int /\ size \in Int
      BY ReadsAssumption
    <2> HIDE DEF query
    <2>5. KeysOrdered(query)
      <3> SUFFICES ASSUME NEW g \in 1 .. Len(model), NEW h \in 1 .. Len(model),
                          store.messages[g].stream_name = stream,
                          store.messages[h].stream_name = stream
                   PROVE  /\ store.messages[g].position \in Int
                          /\ store.messages[h].position \in Int
                          /\ g < h <=> store.messages[g].position
                                           < store.messages[h].position
        BY <2>3 DEF KeysOrdered
      <3>1. /\ g < h => store.messages[g].position < store.messages[h].position
            /\ h < g => store.messages[h].position < store.messages[g].position
        BY <2>1, <2>2 DEF StreamsOrdered
      <3>2. /\ g \in Nat /\ h \in Nat
            /\ store.messages[g].position \in Nat
            /\ store.messages[h].position \in Nat
        BY <2>1
      <3> QED
        BY <3>1, <3>2
    <2>6. RowsFrom(query, store.messages, Len(model), position) = matching
      BY <2>1, <2>3 DEF RowsFrom
    <2>7. Fetched(query, position) = Taken(matching, size)
      BY <2>3, <2>4, <2>5, <2>6, FetchedIsTaken
    <2> QED
      BY <2>7 DEF RunStreamRead, query
  <1> QED
    BY <1>1, FuzzInvHolds, PTL

(* CategoryReadAsModelled: get_category_messages returns the messages of all
   streams of a category from a global position on, and with a correlation the
   ones that answer to that category. *)
THEOREM CategoryReadsFollowOracle == Spec => []CategoryReadAsModelled
  <1>1. FuzzInv => CategoryReadAsModelled
    <2> SUFFICES ASSUME FuzzInv, NEW stream \in Streams,
                        NEW position \in Positions, NEW size \in BatchSizes,
                        NEW answering \in Correlations
                 PROVE  RunCategoryRead(Category(stream), position, size,
                                        Category(answering))
      BY DEF CategoryReadAsModelled
    <2> DEFINE category == Category(stream)
               correlation == Category(answering)
               query == [kind |-> "category", name |-> category,
                         correlation |-> correlation, member |-> Null,
                         batch_size |-> size]
               matching == {i \in DOMAIN model :
                                /\ i >= position
                                /\ Category(model[i].stream_name) = category
                                /\ correlation # Null =>
                                       /\ model[i].correlation # Null
                                       /\ Category(model[i].correlation)
                                              = correlation}
    <2>1. /\ DOMAIN model = 1 .. Len(model)
          /\ \A g \in 1 .. Len(model) :
                 g \in Nat /\ store.messages[g] = model[g]
      BY DEF FuzzInv, OracleAgrees
    <2> HIDE DEF category, correlation
    <2>2. /\ \A message : Selects(query, message)
                 <=> /\ Category(message.stream_name) = category
                     /\ correlation \in {Null, Category(message.correlation)}
          /\ \A g : Key(query, store.messages, g) = g
          /\ query.batch_size = size
      BY DEF Selects, Key
    <2>3. position \in Int /\ size \in Int
      BY ReadsAssumption
    <2> HIDE DEF query
    <2>4. KeysOrdered(query)
      BY <2>1, <2>2 DEF KeysOrdered
    <2>5. \A name : correlation \in {Null, Category(name)}
              <=> (correlation # Null =>
                       name # Null /\ Category(name) = correlation)
      BY DEF Category
    <2>6. RowsFrom(query, store.messages, Len(model), position) = matching
      BY <2>1, <2>2, <2>5 DEF RowsFrom
    <2>7. Fetched(query, position) = Taken(matching, size)
      BY <2>2, <2>3, <2>4, <2>6, FetchedIsTaken
    <2> QED
      BY <2>7 DEF RunCategoryRead, query, category, correlation
  <1> QED
    BY <1>1, FuzzInvHolds, PTL
============================================================================
