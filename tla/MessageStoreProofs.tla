------------------------- MODULE MessageStoreProofs -------------------------
(***************************************************************************)
(* Lemmas about the messages table: what max(position) finds, and what an  *)
(* INSERT at the next position of a stream preserves.                      *)
(***************************************************************************)
EXTENDS MessageStore, FiniteSetTheorems, FunctionTheorems,
        WellFoundedInduction, TLAPS

(* A set of naturals that is not empty has a least element. *)
LEMMA LeastExists ==
    ASSUME NEW T \in SUBSET Nat, T # {}
    PROVE  \E least \in T : \A other \in T : least <= other
  <1>1. PICK least \in T : \A other \in T :
               ~(<<other, least>> \in OpToRel(<, Nat))
    BY NatLessThanWellFounded, WFMin
  <1>2. \A other \in T : ~(other < least)
    BY <1>1, Zenon DEF OpToRel
  <1> QED
    BY <1>2

(* The keys of a table are the numbers up to its AUTOINCREMENT counter. *)
LEMMA StoreKeys ==
    ASSUME NEW store, IsStore(store)
    PROVE  /\ store.sequence \in Nat
           /\ GlobalPositions(store) = 1 .. store.sequence
           /\ \A g \in GlobalPositions(store) : store.messages[g] \in Row
  BY DEF IsStore, GlobalPositions

(* A positions query has an integer answer, -1 at the least. *)
LEMMA StoredVersionsAreIntegers ==
    ASSUME NEW store, IsStore(store)
    PROVE  StoredVersions(store) \subseteq {-1} \cup Nat
  BY StoreKeys DEF StoredVersions, Rows, Row

(* In a sound table the version of a stream is what IsStreamVersion says of
   it: an upper bound of its positions, and one of them unless it is -1. *)
LEMMA StreamVersionDefined ==
    ASSUME NEW store, Sound(store), NEW stream \in Streams
    PROVE  /\ StreamVersion(store, stream) \in {-1} \cup Nat
           /\ IsStreamVersion(store, stream, StreamVersion(store, stream))
  <1>1. PICK version \in StoredVersions(store) :
               IsStreamVersion(store, stream, version)
    BY DEF Sound
  <1>2. /\ StreamVersion(store, stream) \in StoredVersions(store)
        /\ IsStreamVersion(store, stream, StreamVersion(store, stream))
    BY <1>1 DEF StreamVersion
  <1> QED
    BY <1>2, StoredVersionsAreIntegers DEF Sound

(* The position that write_message computes is not taken. *)
LEMMA NextPositionFree ==
    ASSUME NEW store, Sound(store), NEW stream \in Streams
    PROVE  ~HasPosition(store, stream, StreamVersion(store, stream) + 1)
  <1> DEFINE version == StreamVersion(store, stream)
  <1>1. /\ version \in {-1} \cup Nat
        /\ IsStreamVersion(store, stream, version)
    BY StreamVersionDefined
  <1>2. \A g \in GlobalPositions(store) :
            /\ store.messages[g].position \in Nat
            /\ store.messages[g].stream_name = stream
                   => store.messages[g].position <= version
    BY <1>1, StoreKeys DEF Sound, IsStreamVersion, Row
  <1> HIDE DEF version
  <1>3. ~HasPosition(store, stream, version + 1)
    BY <1>1, <1>2 DEF HasPosition
  <1> QED
    BY <1>3 DEF version

LEMMA EmptyStoreSound == Sound(EmptyStore)
  <1>1. /\ GlobalPositions(EmptyStore) = {}
        /\ Rows(EmptyStore) = {}
    BY DEF EmptyStore, GlobalPositions, Rows
  <1>2. IsStore(EmptyStore)
    <2>1. EmptyStore.messages \in [1 .. 0 -> Row]
      BY DEF EmptyStore
    <2> QED
      BY <2>1 DEF EmptyStore, IsStore
  <1>3. WellFormed(EmptyStore)
    BY <1>1 DEF WellFormed, IdsUnique, StreamsOrdered, StreamsGapless
  <1>4. ASSUME NEW stream \in Streams
        PROVE  \E version \in StoredVersions(EmptyStore) :
                   IsStreamVersion(EmptyStore, stream, version)
    <2>1. -1 \in StoredVersions(EmptyStore)
      BY DEF StoredVersions
    <2>2. IsStreamVersion(EmptyStore, stream, -1)
      BY <1>1 DEF IsStreamVersion
    <2> QED
      BY <2>1, <2>2
  <1> QED
    BY <1>2, <1>3, <1>4 DEF Sound

(* What a table looks like after an INSERT. *)
LEMMA InsertAppends ==
    ASSUME NEW store, IsStore(store), NEW row \in Row
    PROVE  LET after == Insert(store, row)
               key == store.sequence + 1
           IN  /\ IsStore(after)
               /\ GlobalPositions(after) = GlobalPositions(store) \cup {key}
               /\ key \notin GlobalPositions(store)
               /\ \A g \in GlobalPositions(store) : g \in Nat /\ g < key
               /\ key \in Nat
               /\ after.messages[key] = row
               /\ \A g \in GlobalPositions(store) :
                      after.messages[g] = store.messages[g]
  <1> DEFINE after == Insert(store, row)
             key == store.sequence + 1
  <1>1. /\ store.sequence \in Nat
        /\ GlobalPositions(store) = 1 .. store.sequence
        /\ \A g \in GlobalPositions(store) : store.messages[g] \in Row
    BY StoreKeys
  <1>2. /\ key \in Nat
        /\ key \notin GlobalPositions(store)
        /\ \A g \in GlobalPositions(store) : g \in Nat /\ g < key
        /\ GlobalPositions(store) \cup {key} = 1 .. key
    BY <1>1
  <1>3. after.messages = [g \in GlobalPositions(store) \cup {key} |->
                             IF g = key THEN row ELSE store.messages[g]]
    BY DEF Insert
  <1>4. /\ GlobalPositions(after) = GlobalPositions(store) \cup {key}
        /\ after.messages[key] = row
        /\ \A g \in GlobalPositions(store) :
               after.messages[g] = store.messages[g]
    <2>1. DOMAIN after.messages = GlobalPositions(store) \cup {key}
      BY <1>3
    <2> QED
      BY <1>2, <1>3, <2>1 DEF GlobalPositions
  <1>5. IsStore(after)
    <2>1. after.messages \in [1 .. key -> Row]
      BY <1>1, <1>2, <1>3
    <2>2. after = [messages |-> after.messages, sequence |-> key]
      BY DEF Insert
    <2> QED
      BY <1>2, <2>1, <2>2 DEF IsStore, Insert
  <1> QED
    BY <1>2, <1>4, <1>5

LEMMA InsertExtends ==
    ASSUME NEW store, IsStore(store), NEW row \in Row
    PROVE  Extends(store, Insert(store, row))
  BY InsertAppends DEF Extends

LEMMA ExtendsReflexive ==
    ASSUME NEW store
    PROVE  Extends(store, store)
  BY DEF Extends

LEMMA ExtendsTransitive ==
    ASSUME NEW store, NEW longer, NEW longest,
           Extends(store, longer), Extends(longer, longest)
    PROVE  Extends(store, longest)
  BY DEF Extends

(* An INSERT of a new id at the next position of its stream keeps a table
   sound. *)
LEMMA InsertSound ==
    ASSUME NEW store, Sound(store), NEW row \in Row,
           ~HasId(store, row.id),
           row.position = StreamVersion(store, row.stream_name) + 1
    PROVE  Sound(Insert(store, row))
  <1> DEFINE after == Insert(store, row)
             key == store.sequence + 1
             version == StreamVersion(store, row.stream_name)
  <1> USE DEF Sound
  <1>1. /\ IsStore(after)
        /\ GlobalPositions(after) = GlobalPositions(store) \cup {key}
        /\ key \notin GlobalPositions(store)
        /\ \A g \in GlobalPositions(store) : g \in Nat /\ g < key
        /\ key \in Nat
        /\ after.messages[key] = row
        /\ \A g \in GlobalPositions(store) :
               after.messages[g] = store.messages[g]
    BY InsertAppends
  <1>2. \A g \in GlobalPositions(store) : store.messages[g] \in Row
    BY StoreKeys
  <1>3. /\ row.stream_name \in Streams
        /\ row.position \in Nat
    BY DEF Row
  <1>4. /\ version \in {-1} \cup Nat
        /\ IsStreamVersion(store, row.stream_name, version)
    BY <1>3, StreamVersionDefined
  <1>5. row.position = version + 1
    OBVIOUS
  <1> HIDE DEF after, key, version
  <1>6. ASSUME NEW stream, NEW position, HasPosition(store, stream, position)
        PROVE  HasPosition(after, stream, position)
    BY <1>1, <1>6 DEF HasPosition
  <1>7. HasPosition(after, row.stream_name, row.position)
    BY <1>1 DEF HasPosition
  <1>8. IdsUnique(after)
    BY <1>1 DEF WellFormed, IdsUnique, HasId
  <1>9. StreamsOrdered(after)
    <2> SUFFICES ASSUME NEW g \in GlobalPositions(after),
                        NEW h \in GlobalPositions(after),
                        g < h,
                        after.messages[g].stream_name
                            = after.messages[h].stream_name
                 PROVE  after.messages[g].position < after.messages[h].position
      BY DEF StreamsOrdered
    <2>1. g \in GlobalPositions(store)
      BY <1>1
    <2>2. CASE h = key
      <3>1. store.messages[g].position <= version
        BY <1>1, <1>4, <2>1, <2>2 DEF IsStreamVersion
      <3>2. store.messages[g].position \in Nat
        BY <1>2, <2>1 DEF Row
      <3>3. /\ after.messages[g].position = store.messages[g].position
            /\ after.messages[h].position = version + 1
        BY <1>1, <1>5, <2>1, <2>2
      <3> HIDE DEF Sound
      <3> QED
        BY <1>4, <3>1, <3>2, <3>3
    <2>3. CASE h \in GlobalPositions(store)
      BY <1>1, <2>1, <2>3 DEF WellFormed, StreamsOrdered
    <2> QED
      BY <1>1, <2>2, <2>3
  <1>10. StreamsGapless(after)
    <2> SUFFICES ASSUME NEW g \in GlobalPositions(after),
                        after.messages[g].position > 0
                 PROVE  HasPosition(after, after.messages[g].stream_name,
                                    after.messages[g].position - 1)
      BY DEF StreamsGapless
    <2>1. CASE g = key
      <3>1. version # -1 /\ row.position - 1 = version
        BY <1>1, <1>4, <1>5, <2>1
      <3>2. HasPosition(store, row.stream_name, version)
        BY <1>4, <3>1 DEF IsStreamVersion
      <3> QED
        BY <1>1, <1>6, <2>1, <3>1, <3>2
    <2>2. CASE g \in GlobalPositions(store)
      BY <1>1, <1>6, <2>2 DEF WellFormed, StreamsGapless
    <2> QED
      BY <1>1, <2>1, <2>2
  <1>11. ASSUME NEW stream \in Streams
         PROVE  \E v \in StoredVersions(after) :
                    IsStreamVersion(after, stream, v)
    <2>1. StoredVersions(store) \subseteq StoredVersions(after)
      BY <1>1 DEF StoredVersions, Rows
    <2>2. row.position \in StoredVersions(after)
      BY <1>1 DEF StoredVersions, Rows
    <2>3. CASE stream = row.stream_name
      <3>1. ASSUME NEW g \in GlobalPositions(after),
                   after.messages[g].stream_name = stream
            PROVE  after.messages[g].position <= row.position
        <4>1. CASE g = key
          BY <1>1, <1>3, <4>1
        <4>2. CASE g \in GlobalPositions(store)
          <5>1. store.messages[g].position <= version
            BY <1>1, <1>4, <2>3, <3>1, <4>2 DEF IsStreamVersion
          <5>2. store.messages[g].position \in Nat
            BY <1>2, <4>2 DEF Row
          <5> QED
            BY <1>1, <1>4, <1>5, <4>2, <5>1, <5>2
        <4> QED
          BY <1>1, <4>1, <4>2
      <3>2. IsStreamVersion(after, stream, row.position)
        BY <1>7, <2>3, <3>1 DEF IsStreamVersion
      <3> QED
        BY <2>2, <3>2
    <2>4. CASE stream # row.stream_name
      <3>1. PICK v \in StoredVersions(store) : IsStreamVersion(store, stream, v)
        OBVIOUS
      <3>2. ASSUME NEW g \in GlobalPositions(after),
                   after.messages[g].stream_name = stream
            PROVE  after.messages[g].position <= v
        <4>1. g \in GlobalPositions(store)
          BY <1>1, <2>4, <3>2
        <4> QED
          BY <1>1, <3>1, <3>2, <4>1 DEF IsStreamVersion
      <3>3. v = -1 \/ HasPosition(after, stream, v)
        BY <1>6, <3>1 DEF IsStreamVersion
      <3> QED
        BY <2>1, <3>1, <3>2, <3>3 DEF IsStreamVersion
    <2> QED
      BY <2>3, <2>4
  <1>12. Sound(after)
    BY <1>1, <1>8, <1>9, <1>10, <1>11 DEF WellFormed
  <1> QED
    BY <1>12 DEF after

(* Below a position of a stream there is no gap. *)
LEMMA PositionsReachZero ==
    ASSUME NEW store, IsStore(store), WellFormed(store),
           NEW g \in GlobalPositions(store),
           NEW k \in 0 .. store.messages[g].position
    PROVE  HasPosition(store, store.messages[g].stream_name, k)
  <1> DEFINE stream == store.messages[g].stream_name
             p == store.messages[g].position
             Missing == {j \in 0 .. p : ~HasPosition(store, stream, p - j)}
  <1>1. p \in Nat
    BY StoreKeys DEF Row
  <1> HIDE DEF p
  <1>2. CASE Missing # {}
    <2>1. PICK j \in Missing : \A other \in Missing : j <= other
      <3>1. Missing \in SUBSET Nat
        BY <1>1
      <3> HIDE DEF Missing
      <3> QED
        BY <1>2, <3>1, LeastExists
    <2>2. j # 0
      BY <1>1, <2>1 DEF p, HasPosition
    <2>3. j \in 1 .. p
      BY <1>1, <2>1, <2>2
    <2>4. j - 1 \in 0 .. p /\ j - 1 \notin Missing
      BY <1>1, <2>1, <2>3
    <2>5. HasPosition(store, stream, p - (j - 1))
      BY <2>4
    <2>6. PICK h \in GlobalPositions(store) :
                 /\ store.messages[h].stream_name = stream
                 /\ store.messages[h].position = p - (j - 1)
      BY <2>5 DEF HasPosition
    <2>7. p - (j - 1) > 0 /\ p - (j - 1) - 1 = p - j
      BY <1>1, <2>3
    <2>8. HasPosition(store, stream, p - j)
      BY <2>6, <2>7 DEF WellFormed, StreamsGapless
    <2> QED
      BY <2>1, <2>8
  <1>3. CASE Missing = {}
    <2>1. p - k \in 0 .. p /\ p - (p - k) = k
      BY <1>1 DEF p
    <2>2. p - k \notin Missing
      BY <1>3
    <2>3. HasPosition(store, stream, p - (p - k))
      BY <2>1, <2>2
    <2> QED
      BY <2>1, <2>3
  <1> QED
    BY <1>2, <1>3

(* The position of a message is the number of messages that its stream has
   before it. *)
LEMMA PositionsCount ==
    ASSUME NEW store, IsStore(store), WellFormed(store),
           NEW g \in GlobalPositions(store)
    PROVE  store.messages[g].position
               = Cardinality({h \in 1 .. g - 1 : store.messages[h].stream_name
                                  = store.messages[g].stream_name})
  <1> DEFINE stream == store.messages[g].stream_name
             p == store.messages[g].position
             Earlier == {h \in 1 .. g - 1 :
                            store.messages[h].stream_name = stream}
             PositionOf == [h \in Earlier |-> store.messages[h].position]
  <1>1. /\ p \in Nat /\ g \in Nat
        /\ \A h \in 1 .. g - 1 : h \in GlobalPositions(store) /\ h < g
        /\ \A h \in GlobalPositions(store) :
               h \in Nat /\ store.messages[h].position \in Nat
        /\ \A h \in GlobalPositions(store) : h < g => h \in 1 .. g - 1
    BY StoreKeys DEF Row
  <1>2. StreamsOrdered(store)
    BY DEF WellFormed
  <1>3. \A h \in Earlier : store.messages[h].position \in 0 .. p - 1
    <2> TAKE h \in Earlier
    <2>1. store.messages[h].position < p
      BY <1>1, <1>2 DEF StreamsOrdered
    <2>2. store.messages[h].position \in Nat
      BY <1>1
    <2> HIDE DEF p
    <2> QED
      BY <1>1, <2>1, <2>2
  <1>4. ASSUME NEW h \in Earlier, NEW i \in Earlier,
               store.messages[h].position = store.messages[i].position
        PROVE  h = i
    <2>1. ~(h < i) /\ ~(i < h)
      BY <1>1, <1>2, <1>4 DEF StreamsOrdered
    <2> QED
      BY <1>1, <2>1
  <1>5. ASSUME NEW k \in 0 .. p - 1
        PROVE  \E h \in Earlier : store.messages[h].position = k
    <2>1. k \in 0 .. p /\ k < p
      BY <1>1
    <2>2. PICK h \in GlobalPositions(store) :
                 /\ store.messages[h].stream_name = stream
                 /\ store.messages[h].position = k
      BY <2>1, PositionsReachZero DEF HasPosition
    <2>3. ~(g < h) /\ g # h
      BY <1>1, <1>2, <2>1, <2>2 DEF StreamsOrdered
    <2>4. h < g
      BY <1>1, <2>3
    <2> QED
      BY <1>1, <2>2, <2>4
  <1>6. PositionOf \in Bijection(Earlier, 0 .. p - 1)
    <2> HIDE DEF Earlier, p
    <2>1. PositionOf \in [Earlier -> 0 .. p - 1]
      BY <1>3
    <2>2. \A h, i \in Earlier : PositionOf[h] = PositionOf[i] => h = i
      BY <1>4
    <2>3. \A k \in 0 .. p - 1 : \E h \in Earlier : PositionOf[h] = k
      BY <1>5
    <2> HIDE DEF PositionOf
    <2> QED
      BY <2>1, <2>2, <2>3, Fun_IsBij
  <1>7. IsFiniteSet(Earlier)
    <2>1. IsFiniteSet(1 .. g - 1)
      BY <1>1, FS_Interval
    <2>2. Earlier \subseteq 1 .. g - 1
      OBVIOUS
    <2> HIDE DEF Earlier
    <2> QED
      BY <2>1, <2>2, FS_Subset
  <1>8. Cardinality(0 .. p - 1) = p
    <2> HIDE DEF p
    <2>1. Cardinality(0 .. p - 1)
              = IF 0 > p - 1 THEN 0 ELSE (p - 1) - 0 + 1
      BY <1>1, FS_Interval
    <2> QED
      BY <1>1, <2>1
  <1>9. Cardinality(0 .. p - 1) = Cardinality(Earlier)
    <2> HIDE DEF Earlier, p, PositionOf
    <2> QED
      BY <1>6, <1>7, FS_Bijection DEF ExistsBijection
  <1> QED
    BY <1>8, <1>9
=============================================================================
