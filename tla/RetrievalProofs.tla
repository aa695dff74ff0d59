-------------------------- MODULE RetrievalProofs --------------------------
(***************************************************************************)
(* What the readers of the store can rely on, proved for every number of   *)
(* readers, every set of queries, streams and hashes, and every length of  *)
(* the log.                                                                *)
(*                                                                         *)
(* The position of a message counts the earlier messages of its stream, so *)
(* that the rows of each query have increasing keys: this makes a position *)
(* to resume from a frontier (Reached), behind which nothing is missing    *)
(* and nothing will ever appear.  The frontier is kept per reader for the  *)
(* messages that the reader can see, and for the state that the open       *)
(* transaction would roll back to.                                         *)
(***************************************************************************)
EXTENDS Retrieval, FiniteSetTheorems, SequenceTheorems, WellFoundedInduction,
        TLAPS

-----------------------------------------------------------------------------
(* The position of a message is the number of earlier messages of its stream. *)
Positioned ==
    \A g \in GlobalPositions :
        log[g].position = Cardinality({h \in 1 .. g - 1 :
                              log[h].stream_name = log[g].stream_name})

(* Where a query starts that has returned nothing yet. *)
FirstKey(query) == IF query.kind = "stream" THEN 0 ELSE 1

(* What a reader has got, of the first messages, when it asks for the
   position from next: the selected messages before that position and no
   others; and the position is the first one, or follows that of a message
   which it got, so that no later message comes before it. *)
Reached(query, messages, from, got, view) ==
    /\ from \in Nat
    /\ got \subseteq 1 .. view
    /\ \A g \in got : /\ Selects(query, messages[g])
                      /\ Key(query, messages, g) < from
    /\ \A g \in 1 .. view :
           Selects(query, messages[g]) /\ Key(query, messages, g) < from
               => g \in got
    /\ \/ from = FirstKey(query)
       \/ \E g \in got : from = Key(query, messages, g) + 1

ReadersReached ==
    \A r \in Readers : Reached(Query[r], log, next[r], seen[r], Sees(r))

RollbackReached ==
    transaction # NoTransaction =>
        Reached(Query[transaction.owner], log, transaction.next,
                transaction.seen, transaction.committed)

(* What an open statement relies on: its current row, if the application has
   not got it, is the first of those in view from the position that the
   reader asks for next; when it has got it, the position follows that row. *)
Fits(c, query, messages, from, got, sees) ==
    LET rows == RowsFrom(query, messages, c.view, from)
    IN  /\ c.view <= sees
        /\ c.emitted =>
               /\ c.row \in 1 .. c.view
               /\ from = Key(query, messages, c.row) + 1
        /\ ~c.emitted /\ c.row # 0 =>
               /\ c.row \in rows
               /\ \A g \in rows :
                      Key(query, messages, c.row) <= Key(query, messages, g)
               /\ c.returned # query.batch_size
        /\ ~c.emitted /\ c.row = 0 /\ ~c.failed =>
               c.returned = query.batch_size \/ rows = {}
        /\ query.batch_size # -1 => c.returned <= query.batch_size
        /\ IsFiniteSet(got \ c.start)
        /\ Cardinality(got \ c.start) <= c.returned

CursorFits(r) == Fits(cursor[r], Query[r], log, next[r], seen[r], Sees(r))

CursorsFit == \A r \in Readers : cursor[r] # NoCursor => CursorFits(r)

(* The inductive invariant. *)
RetrievalInv ==
    /\ TypeOK
    /\ Positioned
    /\ ReadersReached
    /\ RollbackReached
    /\ CursorsFit

-----------------------------------------------------------------------------
(* The rows of a query come in the order of their global positions. *)
Ordered(query, messages) ==
    /\ \A g \in 1 .. Len(messages) :
           Selects(query, messages[g]) =>
               /\ Key(query, messages, g) \in Nat
               /\ FirstKey(query) <= Key(query, messages, g)
    /\ \A g, h \in 1 .. Len(messages) :
           g < h /\ Selects(query, messages[g]) /\ Selects(query, messages[h])
               => Key(query, messages, g) < Key(query, messages, h)

(* A set of natural numbers that is not empty has a least member. *)
LEMMA LeastExists ==
    ASSUME NEW T \in SUBSET Nat, T # {}
    PROVE  \E least \in T : \A other \in T : least <= other
  <1>1. PICK least \in T : \A other \in T :
               ~(<<other, least>> \in OpToRel(<, Nat))
    BY NatLessThanWellFounded, WFMin
  <1>2. \A other \in T : ~(other < least)
    BY <1>1, Zenon DEF OpToRel
  <1> QED
    BY <1>2

(* The messages before a position are finitely many. *)
LEMMA EarlierFinite ==
    ASSUME NEW n \in Nat, NEW stream
    PROVE  LET earlier == {h \in 1 .. n : log[h].stream_name = stream}
           IN  IsFiniteSet(earlier) /\ Cardinality(earlier) \in Nat
  <1> DEFINE earlier == {h \in 1 .. n : log[h].stream_name = stream}
  <1>1. IsFiniteSet(1 .. n)
    BY FS_Interval
  <1>2. IsFiniteSet(earlier)
    BY <1>1, FS_Subset
  <1> QED
    BY <1>2, FS_CardinalityType

(* Later messages of a stream have larger positions. *)
LEMMA PositionsIncrease ==
    ASSUME TypeOK, Positioned, NEW g \in GlobalPositions,
           NEW h \in GlobalPositions, g < h,
           log[g].stream_name = log[h].stream_name
    PROVE  log[g].position < log[h].position
  <1> DEFINE stream == log[h].stream_name
             Before(n) == {k \in 1 .. n : log[k].stream_name = stream}
  <1>1. g \in Nat /\ h \in Nat /\ g - 1 \in Nat /\ h - 1 \in Nat
    BY DEF GlobalPositions
  <1>2. log[g].position = Cardinality(Before(g - 1))
    BY DEF Positioned
  <1>3. log[h].position = Cardinality(Before(h - 1))
    BY DEF Positioned
  <1>4. Before(g - 1) \subseteq Before(h - 1)
    BY <1>1
  <1>5. g \in Before(h - 1) /\ g \notin Before(g - 1)
    BY <1>1
  <1>6. IsFiniteSet(Before(h - 1))
    BY <1>1, EarlierFinite
  <1>7. /\ Cardinality(Before(g - 1)) <= Cardinality(Before(h - 1))
        /\ Cardinality(Before(h - 1)) = Cardinality(Before(g - 1))
               => Before(h - 1) = Before(g - 1)
        /\ Cardinality(Before(g - 1)) \in Nat
        /\ Cardinality(Before(h - 1)) \in Nat
    BY <1>4, <1>6, FS_Subset, FS_CardinalityType
  <1> QED
    BY <1>2, <1>3, <1>5, <1>7

(* So the rows of the query of each reader come in order. *)
LEMMA QueriesOrdered ==
    ASSUME TypeOK, Positioned, NEW r \in Readers
    PROVE  Ordered(Query[r], log)
  <1>1. /\ Len(log) \in Nat
        /\ \A g \in 1 .. Len(log) : log[g] \in Message
    BY DEF TypeOK
  <1>2. CASE Query[r].kind = "stream"
    <2>1. \A g \in 1 .. Len(log) :
              /\ Key(Query[r], log, g) = log[g].position
              /\ log[g].position \in Nat
      BY <1>1, <1>2 DEF Key, Message
    <2>2. \A g \in 1 .. Len(log) :
              Selects(Query[r], log[g]) => log[g].stream_name = Query[r].name
      BY <1>2 DEF Selects
    <2>3. \A g, h \in 1 .. Len(log) :
              g < h /\ Selects(Query[r], log[g]) /\ Selects(Query[r], log[h])
                  => log[g].position < log[h].position
      BY <2>2, PositionsIncrease DEF GlobalPositions
    <2> QED
      BY <1>2, <2>1, <2>3 DEF Ordered, FirstKey
  <1>3. CASE Query[r].kind # "stream"
    BY <1>1, <1>3 DEF Ordered, FirstKey, Key
  <1> QED
    BY <1>2, <1>3

-----------------------------------------------------------------------------
(* What is reached stays reached when messages follow, ... *)
LEMMA ReachedExtends ==
    ASSUME NEW query, NEW messages, NEW from, NEW got, NEW view \in Nat,
           NEW longer \in Nat, view <= longer, Len(messages) \in Nat,
           longer <= Len(messages),
           Ordered(query, messages), Reached(query, messages, from, got, view)
    PROVE  Reached(query, messages, from, got, longer)
  <1>1. ASSUME NEW g \in view + 1 .. longer, Selects(query, messages[g])
        PROVE  ~(Key(query, messages, g) < from)
    <2>1. g \in 1 .. Len(messages) /\ Key(query, messages, g) \in Nat
      BY <1>1 DEF Ordered
    <2>2. CASE from = FirstKey(query)
      BY <1>1, <2>1, <2>2 DEF Ordered, FirstKey
    <2>3. CASE from # FirstKey(query)
      <3>1. PICK h \in got : from = Key(query, messages, h) + 1
        BY <2>3 DEF Reached
      <3>2. h \in 1 .. view /\ Selects(query, messages[h])
        BY DEF Reached
      <3>3. h \in 1 .. Len(messages) /\ h < g
        BY <1>1, <3>2
      <3>4. /\ Key(query, messages, h) \in Nat
            /\ Key(query, messages, h) < Key(query, messages, g)
        BY <1>1, <2>1, <3>2, <3>3 DEF Ordered
      <3> QED
        BY <2>1, <3>1, <3>4
    <2> QED
      BY <2>2, <2>3
  <1>2. \A g \in 1 .. longer : g \in 1 .. view \/ g \in view + 1 .. longer
    OBVIOUS
  <1>3. 1 .. view \subseteq 1 .. longer
    OBVIOUS
  <1> QED
    BY <1>1, <1>2, <1>3 DEF Reached

Agree(messages, others, view) ==
    \A g \in 1 .. view : messages[g] = others[g]

(* ... and it depends on nothing but the messages in view. *)
LEMMA ReachedKept ==
    ASSUME NEW query, NEW messages, NEW others, NEW from, NEW got,
           NEW view \in Nat, Agree(messages, others, view),
           Reached(query, messages, from, got, view)
    PROVE  Reached(query, others, from, got, view)
  <1>1. \A g \in 1 .. view :
            /\ Key(query, messages, g) = Key(query, others, g)
            /\ Selects(query, messages[g]) = Selects(query, others[g])
    BY DEF Key, Agree
  <1> QED
    BY <1>1 DEF Reached

(* The next row, of those from the position that is reached, moves the
   frontier behind it. *)
LEMMA ReachedAdvances ==
    ASSUME NEW query, NEW messages, NEW from, NEW got, NEW view \in Nat,
           Len(messages) \in Nat, view <= Len(messages),
           Ordered(query, messages), Reached(query, messages, from, got, view),
           NEW seesTo \in 0 .. view,
           NEW row \in RowsFrom(query, messages, seesTo, from),
           \A g \in RowsFrom(query, messages, seesTo, from) :
               Key(query, messages, row) <= Key(query, messages, g)
    PROVE  /\ Reached(query, messages, Key(query, messages, row) + 1,
                      got \cup {row}, view)
           /\ row \notin got
  <1> DEFINE to == Key(query, messages, row)
  <1>1. /\ row \in 1 .. seesTo
        /\ row \in 1 .. view
        /\ Selects(query, messages[row])
        /\ to >= from
    BY DEF RowsFrom
  <1>2. from \in Nat /\ to \in Nat
    BY <1>1 DEF Reached, Ordered
  <1>3. row \notin got
    BY <1>1, <1>2 DEF Reached
  <1>4. ASSUME NEW g \in got \cup {row}
        PROVE  Selects(query, messages[g]) /\ Key(query, messages, g) < to + 1
    <2>1. CASE g \in got
      <3>1. /\ Selects(query, messages[g])
            /\ Key(query, messages, g) < from
            /\ g \in 1 .. Len(messages)
        BY <2>1 DEF Reached
      <3>2. Key(query, messages, g) \in Nat
        BY <3>1 DEF Ordered
      <3> QED
        BY <1>1, <1>2, <3>1, <3>2
    <2>2. CASE g = row
      BY <1>1, <1>2, <2>2
    <2> QED
      BY <1>4, <2>1, <2>2
  <1>5. ASSUME NEW g \in 1 .. view, Selects(query, messages[g]),
               Key(query, messages, g) < to + 1
        PROVE  g \in got \cup {row}
    <2>1. Key(query, messages, g) \in Nat
      BY <1>5 DEF Ordered
    <2>2. CASE Key(query, messages, g) < from
      BY <1>5, <2>2 DEF Reached
    <2>3. CASE Key(query, messages, g) >= from /\ g \in 1 .. seesTo
      <3>1. to <= Key(query, messages, g)
        BY <1>5, <2>3 DEF RowsFrom
      <3>2. Key(query, messages, g) = to
        BY <1>2, <1>5, <2>1, <3>1
      <3> QED
        BY <1>1, <1>2, <1>5, <3>2 DEF Ordered
    <2>4. CASE g \notin 1 .. seesTo
      <3>1. row < g
        BY <1>1, <1>5, <2>4
      <3>2. to < Key(query, messages, g)
        BY <1>1, <1>5, <3>1 DEF Ordered
      <3> QED
        BY <1>2, <1>5, <2>1, <3>2
    <2> QED
      BY <1>2, <2>1, <2>2, <2>3, <2>4
  <1>6. got \cup {row} \subseteq 1 .. view
    BY <1>1 DEF Reached
  <1> QED
    BY <1>2, <1>3, <1>4, <1>5, <1>6 DEF Reached

(* A step of a statement gets the first row from the position on, unless the
   batch is full or there is none. *)
LEMMA NextRowIsFirst ==
    ASSUME NEW query, NEW messages, NEW view \in Nat, NEW from, NEW returned,
           Len(messages) \in Nat, view <= Len(messages),
           Ordered(query, messages)
    PROVE  LET rows == RowsFrom(query, messages, view, from)
               row == NextRow(query, messages, view, from, returned)
           IN  /\ row \in 0 .. view
               /\ row # 0 =>
                      /\ row \in rows
                      /\ \A g \in rows : Key(query, messages, row)
                                             <= Key(query, messages, g)
                      /\ returned # query.batch_size
               /\ row = 0 /\ returned # query.batch_size => rows = {}
  <1> DEFINE rows == RowsFrom(query, messages, view, from)
             row == NextRow(query, messages, view, from, returned)
             keys == {Key(query, messages, g) : g \in rows}
  <1>1. CASE returned = query.batch_size \/ rows = {}
    BY <1>1 DEF NextRow, FirstRow
  <1>2. CASE returned # query.batch_size /\ rows # {}
    <2>1. \A g \in rows : /\ g \in 1 .. view
                          /\ g \in 1 .. Len(messages)
                          /\ Key(query, messages, g) \in Nat
      BY DEF RowsFrom, Ordered
    <2>2. keys \in SUBSET Nat /\ keys # {}
      BY <1>2, <2>1
    <2>3. \E least \in keys : \A key \in keys : least <= key
      BY <2>2, LeastExists
    <2>4. \E g \in rows : \A h \in rows :
              Key(query, messages, g) <= Key(query, messages, h)
      BY <2>3
    <2>5. row = FirstRow(query, messages, rows)
      BY <1>2 DEF NextRow
    <2>6. /\ row \in rows
          /\ \A h \in rows :
                 Key(query, messages, row) <= Key(query, messages, h)
      BY <1>2, <2>4, <2>5 DEF FirstRow
    <2> QED
      BY <1>2, <2>1, <2>6
  <1> QED
    BY <1>1, <1>2

-----------------------------------------------------------------------------
(* At first there are no messages, and every reader asks for the first one. *)
LEMMA InitInv == Init => RetrievalInv
  <1> SUFFICES ASSUME Init
               PROVE  RetrievalInv
    OBVIOUS
  <1>1. Len(log) = 0 /\ GlobalPositions = {} /\ log \in Seq(Message)
    BY DEF Init, GlobalPositions
  <1>2. TypeOK
    BY <1>1 DEF Init, TypeOK
  <1>3. Positioned
    BY <1>1 DEF Positioned
  <1>4. ReadersReached
    BY <1>1, SMTT(30) DEF Init, ReadersReached, Reached, Sees, InTransaction,
                          Committed, FirstKey
  <1>5. RollbackReached
    BY DEF Init, RollbackReached
  <1>6. CursorsFit
    BY DEF Init, CursorsFit
  <1> QED
    BY <1>2, <1>3, <1>4, <1>5, <1>6 DEF RetrievalInv

(* What a reader sees lies between what is committed and the whole log. *)
LEMMA SeesBounds ==
    ASSUME TypeOK, NEW r \in Readers
    PROVE  /\ Len(log) \in Nat
           /\ Committed \in 0 .. Len(log)
           /\ Sees(r) \in Committed .. Len(log)
           /\ InTransaction(r) => Sees(r) = Len(log)
           /\ transaction = NoTransaction => Sees(r) = Len(log)
  BY DEF TypeOK, Committed, Sees, InTransaction, Transaction

(* QueriesOrdered and SeesBounds, in a form that applies to the next state as
   well. *)
LogInView ==
    \A r \in Readers : /\ Ordered(Query[r], log)
                       /\ Sees(r) \in Nat
                       /\ Sees(r) <= Len(log)

LEMMA LogInOrder == TypeOK /\ Positioned => LogInView
  BY QueriesOrdered, SeesBounds DEF LogInView

(* The cursor of a reader that does not move stays as it was, as long as the
   messages in its view do. *)
LEMMA CursorKept ==
    ASSUME TypeOK, NEW r \in Readers, cursor[r] # NoCursor, CursorFits(r),
           cursor'[r] = cursor[r], next'[r] = next[r], seen'[r] = seen[r],
           \A g \in 1 .. cursor[r].view : log'[g] = log[g],
           cursor[r].view <= Sees(r)'
    PROVE  CursorFits(r)'
  <1> DEFINE view == cursor[r].view
  <1>1. cursor[r].view \in Nat
    BY DEF TypeOK, Cursor
  <1>2. \A g \in 1 .. view :
            /\ Key(Query[r], log, g) = Key(Query[r], log', g)
            /\ Selects(Query[r], log[g]) = Selects(Query[r], log'[g])
    BY DEF Key
  <1>3. RowsFrom(Query[r], log', view, next[r])
            = RowsFrom(Query[r], log, view, next[r])
    BY <1>2 DEF RowsFrom
  <1>4. \A g \in RowsFrom(Query[r], log, view, next[r]) : g \in 1 .. view
    BY DEF RowsFrom
  <1> QED
    BY <1>1, <1>2, <1>3, <1>4 DEF CursorFits, Fits

(* A step that only moves the cursor of one reader. *)
LEMMA CursorStep ==
    ASSUME RetrievalInv, NEW r \in Readers,
           NEW c, cursor' = [cursor EXCEPT ![r] = c],
           UNCHANGED <<log, transaction, next, seen>>,
           c # NoCursor => /\ c \in Cursor
                           /\ c.row <= c.view
                           /\ Fits(c, Query[r], log, next[r], seen[r], Sees(r))
    PROVE  RetrievalInv'
  <1> USE DEF RetrievalInv
  <1>0. \A s \in Readers : Sees(s)' = Sees(s)
    BY DEF Sees, InTransaction, Committed
  <1>1. cursor'[r] = c /\ \A s \in Readers \ {r} : cursor'[s] = cursor[s]
    BY DEF TypeOK
  <1>2. c # NoCursor => c.view \in Nat /\ c.view <= Len(log)
    <2>1. c # NoCursor => c.view <= Sees(r)
      BY DEF Fits
    <2> QED
      BY <2>1, SeesBounds DEF Cursor
  <1>3. TypeOK'
    <2>1. cursor' \in [Readers -> Cursor \cup {NoCursor}]
      BY DEF TypeOK
    <2>2. \A s \in Readers : cursor'[s] # NoCursor =>
              /\ cursor'[s].row <= cursor'[s].view
              /\ cursor'[s].view <= Len(log)
      BY <1>1, <1>2 DEF TypeOK
    <2> QED
      BY <2>1, <2>2 DEF TypeOK, GlobalPositions
  <1>4. Positioned'
    BY DEF Positioned, GlobalPositions
  <1>5. ReadersReached'
    BY <1>0 DEF ReadersReached
  <1>6. RollbackReached'
    BY DEF RollbackReached
  <1>7. CursorsFit'
    <2>1. ASSUME NEW s \in Readers \ {r}, cursor'[s] # NoCursor
          PROVE  CursorFits(s)'
      BY <1>0, <1>1, <2>1 DEF CursorsFit, CursorFits
    <2>2. cursor'[r] # NoCursor => CursorFits(r)'
      BY <1>0, <1>1 DEF CursorFits
    <2> QED
      BY <2>1, <2>2 DEF CursorsFit
  <1> QED
    BY <1>3, <1>4, <1>5, <1>6, <1>7

(* The first row of a new statement is the first one from its position. *)
LEMMA FilterStep ==
    ASSUME RetrievalInv, NEW r \in Readers, Filter(r)
    PROVE  RetrievalInv'
  <1> DEFINE row == NextRow(Query[r], log, Sees(r), next[r], 0)
             c == [row |-> row, emitted |-> FALSE, failed |-> FALSE,
                   returned |-> 0, view |-> Sees(r), start |-> seen[r]]
             rows == RowsFrom(Query[r], log, Sees(r), next[r])
  <1>1. cursor' = [cursor EXCEPT ![r] = c]
        /\ UNCHANGED <<log, transaction, next, seen>>
    BY DEF Filter
  <1>2. /\ TypeOK
        /\ Ordered(Query[r], log)
    BY QueriesOrdered DEF RetrievalInv
  <1>3. Len(log) \in Nat /\ Sees(r) \in Nat /\ Sees(r) <= Len(log)
    BY <1>2, SeesBounds
  <1>4. /\ row \in 0 .. Sees(r)
        /\ row # 0 =>
               /\ row \in rows
               /\ \A g \in rows :
                      Key(Query[r], log, row) <= Key(Query[r], log, g)
               /\ 0 # Query[r].batch_size
        /\ row = 0 /\ 0 # Query[r].batch_size => rows = {}
    BY <1>2, <1>3, NextRowIsFirst
  <1>5. c \in Cursor /\ c.row <= c.view
    <2>1. seen[r] \in SUBSET Nat
      BY <1>2 DEF TypeOK, GlobalPositions
    <2> QED
      BY <1>3, <1>4, <2>1 DEF Cursor
  <1>6. Fits(c, Query[r], log, next[r], seen[r], Sees(r))
    <2>1. seen[r] \ c.start = {}
      OBVIOUS
    <2>2. IsFiniteSet({}) /\ Cardinality({}) = 0
      BY FS_EmptySet
    <2>3. Query[r].batch_size # -1 => 0 <= Query[r].batch_size
      BY QueryAssumption
    <2>4. /\ c.row = row /\ c.emitted = FALSE /\ c.failed = FALSE
          /\ c.returned = 0 /\ c.view = Sees(r)
      OBVIOUS
    <2>5. Sees(r) <= Sees(r)
      BY <1>3
    <2> HIDE DEF row, c
    <2> QED
      BY <1>4, <2>1, <2>2, <2>3, <2>4, <2>5 DEF Fits
  <1> HIDE DEF c
  <1> QED
    BY <1>1, <1>5, <1>6, CursorStep

(* The next row is the first one after the row that the application got. *)
LEMMA AdvanceStep ==
    ASSUME RetrievalInv, NEW r \in Readers, Advance(r)
    PROVE  RetrievalInv'
  <1> DEFINE view == cursor[r].view
             returned == cursor[r].returned
             row == NextRow(Query[r], log, view,
                            Key(Query[r], log, cursor[r].row) + 1, returned)
             c == [cursor[r] EXCEPT !.row = row, !.emitted = FALSE]
             rows == RowsFrom(Query[r], log, view, next[r])
  <1>1. /\ cursor[r] # NoCursor
        /\ cursor[r].emitted
        /\ cursor' = [cursor EXCEPT ![r].row = row, ![r].emitted = FALSE]
        /\ UNCHANGED <<log, transaction, next, seen>>
    BY DEF Advance
  <1>2. /\ TypeOK
        /\ CursorFits(r)
        /\ Ordered(Query[r], log)
    BY <1>1, QueriesOrdered DEF RetrievalInv, CursorsFit
  <1>3. /\ cursor[r] \in Cursor
        /\ Len(log) \in Nat /\ view \in Nat /\ view <= Len(log)
    BY <1>1, <1>2 DEF TypeOK, Cursor
  <1>4. next[r] = Key(Query[r], log, cursor[r].row) + 1
    BY <1>1, <1>2 DEF CursorFits, Fits
  <1>5. /\ row \in 0 .. view
        /\ row # 0 =>
               /\ row \in rows
               /\ \A g \in rows :
                      Key(Query[r], log, row) <= Key(Query[r], log, g)
               /\ returned # Query[r].batch_size
        /\ row = 0 /\ returned # Query[r].batch_size => rows = {}
    BY <1>2, <1>3, <1>4, NextRowIsFirst
  <1> HIDE DEF row
  <1>6. /\ c \in Cursor
        /\ c.row = row /\ c.emitted = FALSE
        /\ c.view = view /\ c.returned = returned
        /\ c.start = cursor[r].start /\ c.failed = cursor[r].failed
    <2>1. row \in Nat
      BY <1>3, <1>5
    <2> QED
      BY <1>3, <2>1 DEF Cursor
  <1>7. cursor' = [cursor EXCEPT ![r] = c]
    BY <1>1, <1>2 DEF TypeOK
  <1> HIDE DEF c
  <1>8. Fits(c, Query[r], log, next[r], seen[r], Sees(r))
    BY <1>1, <1>2, <1>5, <1>6 DEF CursorFits, Fits
  <1>9. c.row <= c.view
    BY <1>3, <1>5, <1>6
  <1> QED
    BY <1>1, <1>6, <1>7, <1>8, <1>9, CursorStep

(* A failed step leaves the position after the last row that was got. *)
LEMMA AdvanceFailsStep ==
    ASSUME RetrievalInv, NEW r \in Readers, AdvanceFails(r)
    PROVE  RetrievalInv'
  <1> DEFINE c == [cursor[r] EXCEPT !.row = 0, !.emitted = FALSE,
                                    !.failed = TRUE]
  <1>1. /\ cursor[r] # NoCursor
        /\ cursor[r].emitted
        /\ cursor' = [cursor EXCEPT ![r].row = 0, ![r].emitted = FALSE,
                                    ![r].failed = TRUE]
        /\ UNCHANGED <<log, transaction, next, seen>>
    BY DEF AdvanceFails
  <1>2. TypeOK /\ CursorFits(r) /\ cursor[r] \in Cursor
    BY <1>1 DEF RetrievalInv, CursorsFit, TypeOK
  <1>3. /\ c \in Cursor
        /\ c.row = 0 /\ c.emitted = FALSE /\ c.failed = TRUE
        /\ c.view = cursor[r].view /\ c.returned = cursor[r].returned
        /\ c.start = cursor[r].start
    BY <1>2 DEF Cursor
  <1>4. cursor' = [cursor EXCEPT ![r] = c]
    BY <1>1, <1>2 DEF TypeOK
  <1> HIDE DEF c
  <1>5. Fits(c, Query[r], log, next[r], seen[r], Sees(r))
    BY <1>2, <1>3 DEF CursorFits, Fits
  <1>6. c.row <= c.view
    BY <1>2, <1>3 DEF Cursor
  <1> QED
    BY <1>1, <1>3, <1>4, <1>5, <1>6, CursorStep

(* Closing a statement changes nothing of what the reader has. *)
LEMMA CloseStep ==
    ASSUME RetrievalInv, NEW r \in Readers, Close(r)
    PROVE  RetrievalInv'
  <1>1. /\ cursor' = [cursor EXCEPT ![r] = NoCursor]
        /\ UNCHANGED <<log, transaction, next, seen>>
    BY DEF Close
  <1> QED
    BY <1>1, CursorStep

(* The current row, which the application gets, moves the frontier behind it
   and is one that it did not have. *)
LEMMA EmitStep ==
    ASSUME RetrievalInv, NEW r \in Readers, Emit(r)
    PROVE  RetrievalInv'
  <1> DEFINE row == cursor[r].row
             to == Key(Query[r], log, row) + 1
             got == seen[r] \cup {row}
             c == [cursor[r] EXCEPT !.emitted = TRUE, !.returned = @ + 1]
  <1>1. /\ cursor[r] # NoCursor /\ row # 0 /\ ~cursor[r].emitted
        /\ cursor' = [cursor EXCEPT ![r].emitted = TRUE,
                                    ![r].returned = @ + 1]
        /\ seen' = [seen EXCEPT ![r] = got]
        /\ next' = [next EXCEPT ![r] = to]
        /\ UNCHANGED <<log, transaction>>
    BY DEF Emit
  <1>2. /\ TypeOK /\ CursorFits(r) /\ Positioned /\ RollbackReached
        /\ cursor[r] \in Cursor /\ Len(log) \in Nat
        /\ Reached(Query[r], log, next[r], seen[r], Sees(r))
    BY <1>1 DEF RetrievalInv, CursorsFit, TypeOK, ReadersReached
  <1>3. Ordered(Query[r], log) /\ Sees(r) \in 0 .. Len(log)
    BY <1>2, QueriesOrdered, SeesBounds
  <1>4. /\ cursor[r].view \in 0 .. Sees(r)
        /\ row \in RowsFrom(Query[r], log, cursor[r].view, next[r])
        /\ \A g \in RowsFrom(Query[r], log, cursor[r].view, next[r]) :
               Key(Query[r], log, row) <= Key(Query[r], log, g)
        /\ cursor[r].returned # Query[r].batch_size
    <2>1. cursor[r].view \in Nat /\ cursor[r].view <= Sees(r)
      BY <1>2 DEF CursorFits, Fits, Cursor
    <2> QED
      BY <1>1, <1>2, <1>3, <2>1 DEF CursorFits, Fits
  <1>5. Reached(Query[r], log, to, got, Sees(r)) /\ row \notin seen[r]
    <2>1. Sees(r) \in Nat /\ Sees(r) <= Len(log)
      BY <1>2, <1>3
    <2> HIDE DEF row
    <2> QED
      BY <1>2, <1>3, <1>4, <2>1, ReachedAdvances
  <1>6. row \in 1 .. cursor[r].view /\ row \in 1 .. Len(log)
    BY <1>3, <1>4 DEF RowsFrom
  <1>7. \A s \in Readers : Sees(s)' = Sees(s)
    BY <1>1 DEF Sees, InTransaction, Committed
  <1>8. /\ cursor' = [cursor EXCEPT ![r] = c]
        /\ c \in Cursor
        /\ c.row = row /\ c.emitted = TRUE /\ c.view = cursor[r].view
        /\ c.returned = cursor[r].returned + 1 /\ c.start = cursor[r].start
    <2>1. cursor' = [cursor EXCEPT ![r] = c]
      BY <1>1, <1>2 DEF TypeOK
    <2>2. c \in Cursor
      <3>1. cursor[r] \in Cursor
        BY <1>2
      <3>2. cursor[r].returned + 1 \in Nat
        BY <3>1 DEF Cursor
      <3> QED
        BY <3>1, <3>2, Zenon DEF Cursor
    <2>3. /\ c.row = row /\ c.emitted = TRUE /\ c.view = cursor[r].view
          /\ c.returned = cursor[r].returned + 1
          /\ c.start = cursor[r].start
      BY <1>2 DEF Cursor
    <2> QED
      BY <2>1, <2>2, <2>3
  <1> HIDE DEF c
  <1>9. /\ cursor'[r] = c /\ next'[r] = to /\ seen'[r] = got
        /\ \A s \in Readers \ {r} : /\ cursor'[s] = cursor[s]
                                    /\ next'[s] = next[s]
                                    /\ seen'[s] = seen[s]
    <2>1. /\ cursor \in [Readers -> Cursor \cup {NoCursor}]
          /\ next \in [Readers -> Nat]
          /\ seen \in [Readers -> SUBSET GlobalPositions]
      BY <1>2 DEF TypeOK
    <2> QED
      BY <1>1, <1>8, <2>1
  <1>10. TypeOK'
    <2>1. to \in Nat
      BY <1>5 DEF Reached
    <2>2. got \subseteq 1 .. Len(log)
      BY <1>2, <1>6 DEF TypeOK, GlobalPositions
    <2>3. cursor' \in [Readers -> Cursor \cup {NoCursor}]
      BY <1>2, <1>8 DEF TypeOK
    <2>4. next' \in [Readers -> Nat]
      BY <1>1, <1>2, <2>1 DEF TypeOK
    <2>5. seen' \in [Readers -> SUBSET (1 .. Len(log))]
      BY <1>1, <1>2, <2>2 DEF TypeOK, GlobalPositions
    <2>6. \A s \in Readers : cursor'[s] # NoCursor =>
              /\ cursor'[s].row <= cursor'[s].view
              /\ cursor'[s].view <= Len(log)
      BY <1>1, <1>2, <1>8, <1>9 DEF TypeOK
    <2> QED
      BY <1>1, <1>2, <2>3, <2>4, <2>5, <2>6 DEF TypeOK, GlobalPositions
  <1>11. Positioned'
    BY <1>1, <1>2 DEF Positioned, GlobalPositions
  <1>12. ReadersReached'
    <2>1. \A s \in Readers \ {r} :
              Reached(Query[s], log', next'[s], seen'[s], Sees(s)')
      BY <1>1, <1>7, <1>9 DEF RetrievalInv, ReadersReached
    <2>2. Reached(Query[r], log', next'[r], seen'[r], Sees(r)')
      BY <1>1, <1>5, <1>7, <1>9
    <2> QED
      BY <2>1, <2>2 DEF ReadersReached
  <1>13. RollbackReached'
    BY <1>1, <1>2 DEF RollbackReached
  <1>14. Fits(c, Query[r], log, to, got, Sees(r))
    <2> DEFINE old == seen[r] \ c.start
    <2>1. IsFiniteSet(old) /\ Cardinality(old) <= cursor[r].returned
      BY <1>2, <1>8 DEF CursorFits, Fits
    <2>2. got \ c.start \subseteq old \cup {row}
      OBVIOUS
    <2>3. /\ IsFiniteSet(old \cup {row})
          /\ Cardinality(old \cup {row}) \in Nat
          /\ Cardinality(old) \in Nat
          /\ Cardinality(old \cup {row}) <= Cardinality(old) + 1
      <3>1. /\ IsFiniteSet(old \cup {row})
            /\ \/ Cardinality(old \cup {row}) = Cardinality(old)
               \/ Cardinality(old \cup {row}) = Cardinality(old) + 1
        BY <2>1, FS_AddElement
      <3> HIDE DEF old, row
      <3> QED
        BY <2>1, <3>1, FS_CardinalityType
    <2>4. /\ IsFiniteSet(got \ c.start)
          /\ Cardinality(got \ c.start) \in Nat
          /\ Cardinality(got \ c.start) <= Cardinality(old \cup {row})
      BY <2>2, <2>3, FS_Subset, FS_CardinalityType
    <2>5. cursor[r].returned \in Nat
      BY <1>2 DEF Cursor
    <2>6. Cardinality(got \ c.start) <= c.returned
      BY <1>8, <2>1, <2>3, <2>4, <2>5
    <2>7. Query[r].batch_size # -1 => c.returned <= Query[r].batch_size
      <3>1. Query[r].batch_size # -1 =>
                cursor[r].returned <= Query[r].batch_size
        BY <1>2 DEF CursorFits, Fits
      <3>2. Query[r].batch_size # -1 => Query[r].batch_size \in Nat
        BY QueryAssumption
      <3> QED
        BY <1>4, <1>8, <2>5, <3>1, <3>2
    <2>8. c.view <= Sees(r)
      BY <1>3, <1>4, <1>8
    <2> HIDE DEF got, old
    <2> QED
      BY <1>6, <1>8, <2>4, <2>6, <2>7, <2>8 DEF Fits
  <1>15. CursorsFit'
    <2>1. ASSUME NEW s \in Readers \ {r}, cursor'[s] # NoCursor
          PROVE  CursorFits(s)'
      BY <1>1, <1>7, <1>9, <2>1 DEF RetrievalInv, CursorsFit, CursorFits
    <2>2. CursorFits(r)'
      BY <1>1, <1>7, <1>9, <1>14 DEF CursorFits
    <2> QED
      BY <2>1, <2>2 DEF CursorsFit
  <1> QED
    BY <1>10, <1>11, <1>12, <1>13, <1>15 DEF RetrievalInv

-----------------------------------------------------------------------------
(* A message that is written gets the position after those of its stream. *)
LEMMA Appended ==
    ASSUME TypeOK, Positioned, NEW stream \in Streams,
           NEW correlation \in Correlations,
           log' = Append(log, NewMessage(stream, correlation))
    PROVE  /\ log' \in Seq(Message)
           /\ Len(log') = Len(log) + 1
           /\ \A g \in 1 .. Len(log) : log'[g] = log[g]
           /\ Positioned'
  <1> DEFINE message == NewMessage(stream, correlation)
  <1>1. log \in Seq(Message) /\ Len(log) \in Nat
    BY DEF TypeOK
  <1>2. message \in Message
    BY <1>1, EarlierFinite DEF NewMessage, Message, GlobalPositions
  <1>3. /\ log' \in Seq(Message)
        /\ Len(log') = Len(log) + 1
        /\ \A g \in 1 .. Len(log) : log'[g] = log[g]
        /\ log'[Len(log) + 1] = message
    BY <1>1, <1>2, AppendProperties
  <1>4. ASSUME NEW g \in 1 .. Len(log)
        PROVE  log'[g].position = Cardinality({h \in 1 .. g - 1 :
                             log'[h].stream_name = log'[g].stream_name})
    <2>1. /\ log'[g] = log[g]
          /\ \A h \in 1 .. g - 1 : log'[h] = log[h]
      BY <1>1, <1>3
    <2>2. log[g].position = Cardinality({h \in 1 .. g - 1 :
                             log[h].stream_name = log[g].stream_name})
      BY DEF Positioned, GlobalPositions
    <2>3. {h \in 1 .. g - 1 : log'[h].stream_name = log'[g].stream_name}
              = {h \in 1 .. g - 1 : log[h].stream_name = log[g].stream_name}
      BY <2>1
    <2> QED
      BY <2>1, <2>2, <2>3
  <1>5. log'[Len(log) + 1].position
            = Cardinality({h \in 1 .. (Len(log) + 1) - 1 :
                  log'[h].stream_name = log'[Len(log) + 1].stream_name})
    <2>1. /\ message.stream_name = stream
          /\ message.position = Cardinality({g \in 1 .. Len(log) :
                                     log[g].stream_name = stream})
      BY DEF NewMessage, GlobalPositions
    <2>2. (Len(log) + 1) - 1 = Len(log)
      BY <1>1
    <2>3. {h \in 1 .. Len(log) : log'[h].stream_name = stream}
              = {h \in 1 .. Len(log) : log[h].stream_name = stream}
      BY <1>3
    <2> QED
      BY <1>3, <2>1, <2>2, <2>3
  <1>6. \A g \in 1 .. Len(log) + 1 :
            g \in 1 .. Len(log) \/ g = Len(log) + 1
    BY <1>1
  <1>7. Positioned'
    BY <1>3, <1>4, <1>5, <1>6 DEF Positioned, GlobalPositions
  <1> QED
    BY <1>3, <1>7

(* A step that writes a message.  The open statement of the writer sees it;
   that of any other reader stays as it was. *)
LEMMA WriteStep ==
    ASSUME RetrievalInv, NEW stream \in Streams,
           NEW correlation \in Correlations,
           log' = Append(log, NewMessage(stream, correlation)),
           UNCHANGED <<transaction, next, seen>>,
           cursor' \in [Readers -> Cursor \cup {NoCursor}],
           \A s \in Readers :
               \/ cursor'[s] = cursor[s]
               \/ /\ transaction = NoTransaction \/ InTransaction(s)
                  /\ cursor[s] # NoCursor
                  /\ cursor[s].emitted
                  /\ cursor[s].view = Len(log)
                  /\ cursor'[s] = [cursor[s] EXCEPT !.view = @ + 1]
    PROVE  RetrievalInv'
  <1>1. TypeOK /\ Positioned /\ Len(log) \in Nat
    BY DEF RetrievalInv, TypeOK
  <1>2. /\ log' \in Seq(Message)
        /\ Len(log') = Len(log) + 1
        /\ \A g \in 1 .. Len(log) : log'[g] = log[g]
        /\ Positioned'
    BY <1>1, Appended
  <1>3. transaction' = transaction /\ next' = next /\ seen' = seen
    OBVIOUS
  <1>4. \A s \in Readers :
            /\ Sees(s) \in 0 .. Len(log)
            /\ Sees(s) <= Sees(s)'
            /\ transaction = NoTransaction \/ InTransaction(s)
                   => Sees(s) = Len(log) /\ Sees(s)' = Len(log')
    <2>1. \A s \in Readers : /\ Sees(s) \in 0 .. Len(log)
                             /\ transaction = NoTransaction \/ InTransaction(s)
                                    => Sees(s) = Len(log)
      BY <1>1, SeesBounds
    <2> QED
      BY <1>1, <1>2, <1>3, <2>1 DEF Sees, InTransaction, Committed
  <1>5. ASSUME NEW s \in Readers, cursor[s] # NoCursor
        PROVE  /\ cursor[s] \in Cursor
               /\ cursor[s].view \in Nat
               /\ cursor[s].row \in Nat
               /\ cursor[s].row <= cursor[s].view
               /\ cursor[s].view <= Len(log)
               /\ CursorFits(s)
    BY <1>1, <1>5 DEF RetrievalInv, TypeOK, Cursor, CursorsFit
  <1>6. ASSUME NEW s \in Readers, cursor'[s] # NoCursor
        PROVE  /\ cursor'[s].row <= cursor'[s].view
               /\ cursor'[s].view <= Len(log')
               /\ CursorFits(s)'
    <2>1. CASE cursor'[s] = cursor[s]
      <3>1. cursor[s] # NoCursor
        BY <1>6, <2>1
      <3>2. cursor[s].view <= Sees(s)'
        <4>1. cursor[s].view <= Sees(s)
          BY <1>5, <3>1 DEF CursorFits, Fits
        <4>2. Sees(s)' \in Nat
          <5>1. transaction \in Transaction \cup {NoTransaction}
            BY <1>1 DEF TypeOK
          <5> QED
            BY <1>1, <1>2, <1>3, <5>1
            DEF Sees, InTransaction, Committed, Transaction
        <4> QED
          BY <1>4, <1>5, <3>1, <4>1, <4>2
      <3>3. \A g \in 1 .. cursor[s].view : log'[g] = log[g]
        BY <1>1, <1>2, <1>5, <3>1
      <3>4. CursorFits(s)'
        BY <1>1, <1>3, <1>5, <2>1, <3>1, <3>2, <3>3, CursorKept
      <3> QED
        BY <1>1, <1>2, <1>5, <2>1, <3>1, <3>4
    <2>2. CASE /\ transaction = NoTransaction \/ InTransaction(s)
               /\ cursor[s] # NoCursor
               /\ cursor[s].emitted
               /\ cursor[s].view = Len(log)
               /\ cursor'[s] = [cursor[s] EXCEPT !.view = @ + 1]
      <3> DEFINE c == cursor[s]
                 d == cursor'[s]
      <3>1. /\ d.row = c.row /\ d.emitted = c.emitted /\ d.failed = c.failed
            /\ d.returned = c.returned /\ d.start = c.start
            /\ d.view = c.view + 1
        <4>1. c \in Cursor
          BY <1>5, <2>2
        <4> QED
          BY <2>2, <4>1 DEF Cursor
      <3>2. c.row \in 1 .. c.view /\ next[s] = Key(Query[s], log, c.row) + 1
        BY <1>5, <2>2 DEF CursorFits, Fits
      <3>3. Key(Query[s], log', c.row) = Key(Query[s], log, c.row)
        BY <1>2, <2>2, <3>2 DEF Key
      <3>4. Fits(c, Query[s], log, next[s], seen[s], Sees(s))
        BY <1>5, <2>2 DEF CursorFits
      <3>5. /\ c.view \in Nat /\ c.view <= Len(log)
            /\ Sees(s)' = c.view + 1
        BY <1>2, <1>4, <1>5, <2>2
      <3>6. d.emitted /\ d.row \in 1 .. d.view /\ d.view <= Sees(s)'
        BY <2>2, <3>1, <3>2, <3>5
      <3>7. Fits(d, Query[s], log', next[s], seen[s], Sees(s)')
        <4> HIDE DEF c, d
        <4> QED
          BY <3>1, <3>2, <3>3, <3>4, <3>6 DEF Fits
      <3>8. CursorFits(s)'
        BY <1>3, <3>7 DEF CursorFits
      <3> QED
        BY <1>1, <1>2, <1>5, <2>2, <3>1, <3>5, <3>8
    <2> QED
      BY <2>1, <2>2
  <1>7. TypeOK'
    <2>1. transaction' # NoTransaction => transaction'.committed <= Len(log')
      <3>1. transaction # NoTransaction =>
                transaction.committed \in Nat /\ transaction.committed <= Len(log)
        BY <1>1 DEF TypeOK, Transaction
      <3> QED
        BY <1>1, <1>2, <1>3, <3>1
    <2>2. GlobalPositions \subseteq GlobalPositions'
      BY <1>1, <1>2 DEF GlobalPositions
    <2>3. seen' \in [Readers -> SUBSET GlobalPositions']
      BY <1>1, <1>3, <2>2 DEF TypeOK
    <2> QED
      BY <1>1, <1>2, <1>3, <1>6, <2>1, <2>3 DEF TypeOK
  <1>8. ReadersReached'
    <2>1. ASSUME NEW s \in Readers
          PROVE  Reached(Query[s], log', next[s], seen[s], Sees(s)')
      <3>1. Reached(Query[s], log, next[s], seen[s], Sees(s))
        BY DEF RetrievalInv, ReadersReached
      <3>2. /\ Sees(s) \in Nat /\ Agree(log, log', Sees(s))
            /\ Len(log') \in Nat
        BY <1>1, <1>2, <1>4 DEF Agree
      <3>3. Reached(Query[s], log', next[s], seen[s], Sees(s))
        BY <3>1, <3>2, ReachedKept
      <3>4. /\ Ordered(Query[s], log')
            /\ Sees(s)' \in Nat /\ Sees(s)' <= Len(log')
        <4>1. LogInView'
          BY <1>2, <1>7, LogInOrder, PTL
        <4> QED
          BY <4>1 DEF LogInView
      <3> QED
        BY <1>4, <3>2, <3>3, <3>4, ReachedExtends
    <2> QED
      BY <1>3, <2>1 DEF ReadersReached
  <1>9. RollbackReached'
    <2>1. SUFFICES ASSUME transaction # NoTransaction
                   PROVE  Reached(Query[transaction.owner], log',
                                  transaction.next, transaction.seen,
                                  transaction.committed)
      BY <1>3 DEF RollbackReached
    <2>2. /\ transaction.committed \in Nat
          /\ Agree(log, log', transaction.committed)
      BY <1>1, <1>2, <2>1 DEF TypeOK, Transaction, Agree
    <2>3. Reached(Query[transaction.owner], log, transaction.next,
                  transaction.seen, transaction.committed)
      BY <2>1 DEF RetrievalInv, RollbackReached
    <2> QED
      BY <2>2, <2>3, ReachedKept
  <1>10. CursorsFit'
    BY <1>6 DEF CursorsFit
  <1> QED
    BY <1>2, <1>7, <1>8, <1>9, <1>10 DEF RetrievalInv

(* A write, by the reader itself or by others, appends behind all frontiers. *)
LEMMA WritesKeepInv ==
    ASSUME RetrievalInv, NEW stream \in Streams,
           NEW correlation \in Correlations,
           \/ Commit(stream, correlation)
           \/ \E r \in Readers : \/ WriteWhileReading(r, stream, correlation)
                                 \/ WriteInTransaction(r, stream, correlation)
    PROVE  RetrievalInv'
  <1>1. TypeOK
    BY DEF RetrievalInv
  <1>2. CASE \/ Commit(stream, correlation)
             \/ \E r \in Readers : WriteInTransaction(r, stream, correlation)
    <2>1. /\ log' = Append(log, NewMessage(stream, correlation))
          /\ UNCHANGED <<transaction, cursor, next, seen>>
      BY <1>2 DEF Commit, WriteInTransaction
    <2>2. /\ cursor' \in [Readers -> Cursor \cup {NoCursor}]
          /\ \A s \in Readers : cursor'[s] = cursor[s]
      BY <1>1, <2>1 DEF TypeOK
    <2> QED
      BY <2>1, <2>2, WriteStep
  <1>3. ASSUME NEW r \in Readers, WriteWhileReading(r, stream, correlation)
        PROVE  RetrievalInv'
    <2> DEFINE c == [cursor[r] EXCEPT !.view = @ + 1]
    <2>1. /\ transaction = NoTransaction \/ InTransaction(r)
          /\ cursor[r] # NoCursor /\ cursor[r].emitted
          /\ cursor[r].view = Len(log)
          /\ log' = Append(log, NewMessage(stream, correlation))
          /\ UNCHANGED <<transaction, next, seen>>
          /\ cursor' = [cursor EXCEPT ![r].view = @ + 1]
      BY <1>3 DEF WriteWhileReading
    <2>2. cursor' = [cursor EXCEPT ![r] = c]
      BY <1>1, <2>1 DEF TypeOK
    <2>3. c \in Cursor
      <3>1. cursor[r] \in Cursor
        BY <1>1, <2>1 DEF TypeOK
      <3>2. cursor[r].view + 1 \in Nat
        BY <3>1 DEF Cursor
      <3> QED
        BY <3>1, <3>2, Zenon DEF Cursor
    <2>4. /\ cursor' \in [Readers -> Cursor \cup {NoCursor}]
          /\ \A s \in Readers : cursor'[s] = cursor[s] \/ s = r
          /\ cursor'[r] = c
      <3> HIDE DEF c
      <3> QED
        BY <1>1, <2>2, <2>3 DEF TypeOK
    <2> QED
      BY <2>1, <2>4, WriteStep
  <1> QED
    BY <1>2, <1>3

-----------------------------------------------------------------------------
(* A step after which each reader sees no less, of the same messages. *)
LEMMA ViewStep ==
    ASSUME RetrievalInv, UNCHANGED <<log, cursor, next, seen>>,
           transaction' \in Transaction \cup {NoTransaction},
           transaction' # NoTransaction => transaction'.committed <= Len(log),
           \A s \in Readers : Sees(s) <= Sees(s)',
           RollbackReached'
    PROVE  RetrievalInv'
  <1>1. TypeOK /\ Positioned
    BY DEF RetrievalInv
  <1>2. TypeOK' /\ Positioned'
    BY <1>1 DEF TypeOK, Positioned, GlobalPositions
  <1>3. LogInView /\ LogInView'
    BY <1>1, <1>2, LogInOrder, PTL
  <1>4. ReadersReached'
    <2>1. ASSUME NEW s \in Readers
          PROVE  Reached(Query[s], log, next[s], seen[s], Sees(s)')
      <3>1. Reached(Query[s], log, next[s], seen[s], Sees(s))
        BY DEF RetrievalInv, ReadersReached
      <3>2. /\ Ordered(Query[s], log) /\ Sees(s) \in Nat
            /\ Sees(s)' \in Nat /\ Sees(s)' <= Len(log)
        BY <1>3 DEF LogInView
      <3>3. Len(log) \in Nat
        BY <1>1 DEF TypeOK
      <3> QED
        BY <3>1, <3>2, <3>3, ReachedExtends
    <2> QED
      BY <2>1 DEF ReadersReached
  <1>5. CursorsFit'
    <2>1. ASSUME NEW s \in Readers, cursor[s] # NoCursor
          PROVE  CursorFits(s)'
      <3>1. CursorFits(s) /\ cursor[s].view \in Nat
        BY <1>1, <2>1 DEF RetrievalInv, CursorsFit, TypeOK, Cursor
      <3>2. cursor[s].view <= Sees(s) /\ Sees(s) \in Nat /\ Sees(s)' \in Nat
        BY <1>3, <3>1 DEF CursorFits, Fits, LogInView
      <3> QED
        BY <1>1, <2>1, <3>1, <3>2, CursorKept
    <2> QED
      BY <2>1 DEF CursorsFit
  <1> QED
    BY <1>2, <1>4, <1>5 DEF RetrievalInv

(* The state that a rollback returns to is the present one. *)
LEMMA BeginTransactionStep ==
    ASSUME RetrievalInv, NEW r \in Readers, BeginTransaction(r)
    PROVE  RetrievalInv'
  <1> DEFINE t == [owner |-> r, committed |-> Len(log),
                   next |-> next[r], seen |-> seen[r]]
  <1>1. /\ transaction = NoTransaction
        /\ transaction' = t
        /\ UNCHANGED <<log, cursor, next, seen>>
    BY DEF BeginTransaction
  <1>2. TypeOK /\ Len(log) \in Nat
    BY DEF RetrievalInv, TypeOK
  <1>3. \A s \in Readers : Sees(s) = Len(log) /\ Sees(s)' = Len(log)
    BY <1>1, <1>2 DEF Sees, InTransaction, Committed
  <1>4. t \in Transaction
    BY <1>2 DEF Transaction, TypeOK, GlobalPositions
  <1>5. RollbackReached'
    <2>1. Reached(Query[r], log, next[r], seen[r], Len(log))
      BY <1>3 DEF RetrievalInv, ReadersReached
    <2> QED
      BY <1>1, <2>1 DEF RollbackReached
  <1>6. t.committed <= Len(log)
    BY <1>2
  <1> HIDE DEF t
  <1> QED
    BY <1>1, <1>2, <1>3, <1>4, <1>5, <1>6, ViewStep

(* A commit ends the transaction, and others see what it wrote. *)
LEMMA CommitTransactionStep ==
    ASSUME RetrievalInv, NEW r \in Readers, CommitTransaction(r)
    PROVE  RetrievalInv'
  <1>1. /\ transaction' = NoTransaction
        /\ UNCHANGED <<log, cursor, next, seen>>
    BY DEF CommitTransaction
  <1>2. TypeOK
    BY DEF RetrievalInv
  <1>3. \A s \in Readers : Sees(s) <= Sees(s)'
    <2>1. \A s \in Readers : Sees(s)' = Len(log)
      BY <1>1 DEF Sees, InTransaction, Committed
    <2> QED
      BY <1>2, <2>1, SeesBounds
  <1>4. RollbackReached'
    BY <1>1 DEF RollbackReached
  <1> QED
    BY <1>1, <1>3, <1>4, ViewStep

(* What the transaction wrote is behind everything that the others have
   reached, and its reader goes back to what it had reached before. *)
LEMMA RollbackTransactionStep ==
    ASSUME RetrievalInv, NEW r \in Readers, RollbackTransaction(r)
    PROVE  RetrievalInv'
  <1> DEFINE committed == transaction.committed
  <1>1. /\ transaction # NoTransaction /\ transaction.owner = r
        /\ cursor[r] = NoCursor
        /\ log' = SubSeq(log, 1, committed)
        /\ next' = [next EXCEPT ![r] = transaction.next]
        /\ seen' = [seen EXCEPT ![r] = transaction.seen]
        /\ transaction' = NoTransaction
        /\ cursor' = cursor
    BY DEF RollbackTransaction, InTransaction
  <1>2. /\ TypeOK /\ Positioned /\ Len(log) \in Nat
        /\ committed \in Nat /\ committed <= Len(log)
        /\ transaction.next \in Nat
    BY <1>1 DEF RetrievalInv, TypeOK, Transaction
  <1>3. /\ log' \in Seq(Message)
        /\ Len(log') = committed
        /\ \A g \in 1 .. committed : log'[g] = log[g]
    <2>1. log \in Seq(Message)
      BY <1>2 DEF TypeOK
    <2> QED
      BY <1>1, <1>2, <2>1, SubSeqProperties
  <1>4. /\ next'[r] = transaction.next /\ seen'[r] = transaction.seen
        /\ \A s \in Readers \ {r} : next'[s] = next[s] /\ seen'[s] = seen[s]
    BY <1>1, <1>2 DEF TypeOK
  <1>5. /\ \A s \in Readers : Sees(s)' = committed
        /\ \A s \in Readers \ {r} : Sees(s) = committed
    BY <1>1, <1>3 DEF Sees, InTransaction, Committed
  <1>6. ReadersReached'
    <2>1. \A s \in Readers \ {r} :
              Reached(Query[s], log, next[s], seen[s], committed)
      BY <1>5 DEF RetrievalInv, ReadersReached
    <2>2. Reached(Query[r], log, transaction.next, transaction.seen, committed)
      BY <1>1 DEF RetrievalInv, RollbackReached
    <2>3. Agree(log, log', committed)
      BY <1>3 DEF Agree
    <2>4. \A s \in Readers \ {r} :
              Reached(Query[s], log', next[s], seen[s], committed)
      BY <1>2, <2>1, <2>3, ReachedKept
    <2>5. Reached(Query[r], log', transaction.next, transaction.seen,
                  committed)
      BY <1>2, <2>2, <2>3, ReachedKept
    <2> QED
      BY <1>4, <1>5, <2>4, <2>5 DEF ReadersReached
  <1>7. Positioned'
    <2>1. ASSUME NEW g \in 1 .. committed
          PROVE  log'[g].position = Cardinality({h \in 1 .. g - 1 :
                               log'[h].stream_name = log'[g].stream_name})
      <3>1. /\ log'[g] = log[g]
            /\ \A h \in 1 .. g - 1 : log'[h] = log[h]
        BY <1>2, <1>3
      <3>2. g \in GlobalPositions
        BY <1>2 DEF GlobalPositions
      <3>3. log[g].position = Cardinality({h \in 1 .. g - 1 :
                               log[h].stream_name = log[g].stream_name})
        BY <1>2, <3>2 DEF Positioned
      <3>4. {h \in 1 .. g - 1 : log'[h].stream_name = log'[g].stream_name}
                = {h \in 1 .. g - 1 : log[h].stream_name = log[g].stream_name}
        BY <3>1
      <3> QED
        BY <3>1, <3>3, <3>4
    <2> QED
      BY <1>3, <2>1 DEF Positioned, GlobalPositions
  <1>8. ASSUME NEW s \in Readers, cursor[s] # NoCursor
        PROVE  /\ cursor[s].row <= cursor[s].view
               /\ cursor[s].view <= committed
               /\ CursorFits(s)'
    <2>1. s \in Readers \ {r}
      BY <1>1, <1>8
    <2>2. /\ CursorFits(s) /\ cursor[s].view \in Nat
          /\ cursor[s].row <= cursor[s].view
      BY <1>2, <1>8 DEF RetrievalInv, CursorsFit, TypeOK, Cursor
    <2>3. cursor[s].view <= committed
      BY <1>5, <2>1, <2>2 DEF CursorFits, Fits
    <2>4. \A g \in 1 .. cursor[s].view : log'[g] = log[g]
      BY <1>2, <1>3, <2>2, <2>3
    <2> QED
      BY <1>1, <1>2, <1>4, <1>5, <1>8, <2>1, <2>2, <2>3, <2>4, CursorKept
  <1>9. TypeOK'
    <2>1. next' \in [Readers -> Nat]
      BY <1>1, <1>2 DEF TypeOK
    <2>2. \A s \in Readers : seen'[s] \subseteq 1 .. committed
      BY <1>5, <1>6 DEF ReadersReached, Reached
    <2>3. seen' \in [Readers -> SUBSET GlobalPositions']
      <3>1. seen \in [Readers -> SUBSET GlobalPositions]
        BY <1>2 DEF TypeOK
      <3> QED
        BY <1>1, <1>3, <2>2, <3>1 DEF GlobalPositions
    <2>4. cursor' \in [Readers -> Cursor \cup {NoCursor}]
      BY <1>1, <1>2 DEF TypeOK
    <2> QED
      BY <1>1, <1>3, <1>8, <2>1, <2>3, <2>4 DEF TypeOK
  <1>10. RollbackReached'
    BY <1>1 DEF RollbackReached
  <1>11. CursorsFit'
    BY <1>1, <1>8 DEF CursorsFit
  <1> QED
    BY <1>6, <1>7, <1>9, <1>10, <1>11 DEF RetrievalInv

-----------------------------------------------------------------------------
(* Every step keeps the inductive invariant. *)
LEMMA NextInv == RetrievalInv /\ [Next]_vars => RetrievalInv'
  <1> SUFFICES ASSUME RetrievalInv, [Next]_vars
               PROVE  RetrievalInv'
    OBVIOUS
  <1>1. ASSUME NEW r \in Readers,
               \/ Filter(r) \/ Emit(r) \/ Advance(r) \/ AdvanceFails(r)
               \/ Close(r)
        PROVE  RetrievalInv'
    BY <1>1, FilterStep, EmitStep, AdvanceStep, AdvanceFailsStep, CloseStep
  <1>2. ASSUME NEW r \in Readers,
               \/ BeginTransaction(r) \/ CommitTransaction(r)
               \/ RollbackTransaction(r)
        PROVE  RetrievalInv'
    BY <1>2, BeginTransactionStep, CommitTransactionStep,
       RollbackTransactionStep
  <1>3. ASSUME NEW stream \in Streams, NEW correlation \in Correlations,
               \/ Commit(stream, correlation)
               \/ \E r \in Readers :
                      \/ WriteWhileReading(r, stream, correlation)
                      \/ WriteInTransaction(r, stream, correlation)
        PROVE  RetrievalInv'
    BY <1>3, WritesKeepInv
  <1>4. CASE UNCHANGED vars
    <2>1. \A s \in Readers : Sees(s)' = Sees(s)
      BY <1>4 DEF vars, Sees, InTransaction, Committed
    <2>2. TypeOK' /\ Positioned' /\ RollbackReached'
      BY <1>4 DEF vars, RetrievalInv, TypeOK, Positioned, GlobalPositions,
                  RollbackReached
    <2>3. ReadersReached' /\ CursorsFit'
      BY <1>4, <2>1 DEF vars, RetrievalInv, ReadersReached, CursorsFit,
                        CursorFits
    <2> QED
      BY <2>2, <2>3 DEF RetrievalInv
  <1> QED
    BY <1>1, <1>2, <1>3, <1>4 DEF Next

(* In every reachable state, each reader has a frontier behind which nothing
   is missing and nothing appears, and its open statement continues there. *)
THEOREM RetrievalInvHolds == Spec => []RetrievalInv
  BY InitInv, NextInv, PTL DEF Spec

-----------------------------------------------------------------------------
(* TypeOK: the cursors stay within the log, their views among it, whatever
   is committed or rolled back. *)
THEOREM TypesHold == Spec => []TypeOK
  <1>1. RetrievalInv => TypeOK
    BY DEF RetrievalInv
  <1> QED
    BY <1>1, RetrievalInvHolds, PTL

(* NoneSkipped: a reader that asks for the position after the last message it
   got (the default positions of filter_stream and filter_category for the
   first time) has all the selected messages before it. *)
THEOREM NothingSkipped == Spec => []NoneSkipped
  <1>1. RetrievalInv => NoneSkipped
    <2> SUFFICES ASSUME RetrievalInv, NEW r \in Readers,
                        NEW g \in GlobalPositions, Selects(Query[r], log[g]),
                        Key(Query[r], log, g) < next[r]
                 PROVE  g \in seen[r]
      BY DEF NoneSkipped
    <2>1. /\ Ordered(Query[r], log) /\ Sees(r) \in Nat
          /\ Sees(r) <= Len(log) /\ Len(log) \in Nat
      BY LogInOrder DEF RetrievalInv, LogInView, TypeOK
    <2>2. Reached(Query[r], log, next[r], seen[r], Sees(r))
      BY DEF RetrievalInv, ReadersReached
    <2>3. Reached(Query[r], log, next[r], seen[r], Len(log))
      BY <2>1, <2>2, ReachedExtends
    <2> QED
      BY <2>3 DEF Reached, GlobalPositions
  <1> QED
    BY <1>1, RetrievalInvHolds, PTL

(* NoneRepeated: the row that a step of the statement (cursor_step) gets is
   one that the reader did not have. *)
THEOREM NothingRepeated == Spec => []NoneRepeated
  <1>1. RetrievalInv => NoneRepeated
    <2> SUFFICES ASSUME RetrievalInv, NEW r \in Readers,
                        cursor[r] # NoCursor, ~cursor[r].emitted
                 PROVE  cursor[r].row \notin seen[r]
      BY DEF NoneRepeated
    <2>1. /\ Ordered(Query[r], log) /\ Sees(r) \in Nat
          /\ Sees(r) <= Len(log) /\ Len(log) \in Nat
      BY LogInOrder DEF RetrievalInv, LogInView, TypeOK
    <2>2. Reached(Query[r], log, next[r], seen[r], Sees(r))
      BY DEF RetrievalInv, ReadersReached
    <2>3. CASE cursor[r].row = 0
      BY <2>2, <2>3 DEF Reached
    <2>4. CASE cursor[r].row # 0
      <3>1. cursor[r].row \in RowsFrom(Query[r], log, cursor[r].view, next[r])
        BY <2>4 DEF RetrievalInv, CursorsFit, CursorFits, Fits
      <3>2. cursor[r].view \in Nat /\ cursor[r].view <= Sees(r)
        BY DEF RetrievalInv, TypeOK, Cursor, CursorsFit, CursorFits, Fits
      <3>3. /\ cursor[r].row \in 1 .. Len(log)
            /\ Selects(Query[r], log[cursor[r].row])
            /\ Key(Query[r], log, cursor[r].row) >= next[r]
        BY <2>1, <3>1, <3>2 DEF RowsFrom
      <3>4. Key(Query[r], log, cursor[r].row) \in Nat /\ next[r] \in Nat
        BY <2>1, <2>2, <3>3 DEF Ordered, Reached
      <3> QED
        BY <2>2, <3>3, <3>4 DEF Reached
    <2> QED
      BY <2>3, <2>4
  <1> QED
    BY <1>1, RetrievalInvHolds, PTL

(* BatchBounded: LIMIT ends a retrieval after batch_size messages, also one
   during which its reader writes further messages that the query selects. *)
THEOREM BatchesBounded == Spec => []BatchBounded
  <1>1. RetrievalInv => BatchBounded
    <2> SUFFICES ASSUME RetrievalInv, NEW r \in Readers,
                        cursor[r] # NoCursor, Query[r].batch_size # -1
                 PROVE  Cardinality(seen[r] \ cursor[r].start)
                            <= Query[r].batch_size
      BY DEF BatchBounded
    <2> DEFINE got == seen[r] \ cursor[r].start
    <2>1. /\ IsFiniteSet(got)
          /\ Cardinality(got) <= cursor[r].returned
          /\ cursor[r].returned <= Query[r].batch_size
      BY DEF RetrievalInv, CursorsFit, CursorFits, Fits
    <2>2. Cardinality(got) \in Nat
      BY <2>1, FS_CardinalityType
    <2>3. cursor[r].returned \in Nat /\ Query[r].batch_size \in Nat
      BY QueryAssumption DEF RetrievalInv, TypeOK, Cursor
    <2> HIDE DEF got
    <2>4. Cardinality(got) <= Query[r].batch_size
      BY <2>1, <2>2, <2>3
    <2> QED
      BY <2>4 DEF got
  <1> QED
    BY <1>1, RetrievalInvHolds, PTL

(* ShortBatchCaughtUp: a batch that ends before it is full, without an error
   of cursor_step, ends because there was nothing more to see. *)
THEOREM ShortBatchesCatchUp == Spec => []ShortBatchCaughtUp
  <1>1. RetrievalInv => ShortBatchCaughtUp
    <2> SUFFICES ASSUME RetrievalInv, NEW r \in Readers, Ends(r),
                        ~cursor[r].failed,
                        cursor[r].returned # Query[r].batch_size,
                        NEW g \in 1 .. cursor[r].view,
                        Selects(Query[r], log[g])
                 PROVE  g \in seen[r]
      BY DEF ShortBatchCaughtUp
    <2>1. /\ Ordered(Query[r], log) /\ Sees(r) \in Nat
          /\ Sees(r) <= Len(log) /\ Len(log) \in Nat
      BY LogInOrder DEF RetrievalInv, LogInView, TypeOK
    <2>2. Reached(Query[r], log, next[r], seen[r], Sees(r))
      BY DEF RetrievalInv, ReadersReached
    <2>3. cursor[r] # NoCursor /\ cursor[r].row = 0
      BY DEF Ends
    <2>4. Fits(cursor[r], Query[r], log, next[r], seen[r], Sees(r))
      BY <2>3 DEF RetrievalInv, CursorsFit, CursorFits
    <2>5. cursor[r].view \in Nat /\ cursor[r].view <= Sees(r)
      BY <2>3, <2>4 DEF RetrievalInv, TypeOK, Cursor, Fits
    <2>6. ~cursor[r].emitted
      BY <2>3, <2>4, <2>5 DEF Fits
    <2>7. RowsFrom(Query[r], log, cursor[r].view, next[r]) = {}
      BY <2>3, <2>4, <2>6 DEF Fits
    <2>8. /\ ~(Key(Query[r], log, g) >= next[r])
          /\ Key(Query[r], log, g) \in Nat /\ next[r] \in Nat
          /\ g \in 1 .. Sees(r)
      BY <2>1, <2>2, <2>5, <2>7 DEF RowsFrom, Ordered, Reached
    <2> QED
      BY <2>2, <2>8 DEF Reached
  <1> QED
    BY <1>1, RetrievalInvHolds, PTL

(* EntitiesStayTogether: the slot of a message depends on its cardinal id
   alone, so that the messages of an entity go to one member of a group. *)
THEOREM EntitiesTogether == Spec => []EntitiesStayTogether
  <1>1. RetrievalInv => EntitiesStayTogether
    <2> SUFFICES ASSUME RetrievalInv, NEW r \in Readers, NEW s \in Readers,
                        NEW g \in seen[r], NEW h \in seen[s],
                        SameGroup(r, s),
                        CardinalId(log[g].stream_name)
                            = CardinalId(log[h].stream_name)
                 PROVE  Query[r].member = Query[s].member
      BY DEF EntitiesStayTogether
    <2>1. Selects(Query[r], log[g]) /\ Selects(Query[s], log[h])
      BY DEF RetrievalInv, ReadersReached, Reached
    <2>2. /\ Query[r].member = Slot(log[g].stream_name, Query[r].size)
          /\ Query[s].member = Slot(log[h].stream_name, Query[s].size)
          /\ Query[r].size = Query[s].size
      BY <2>1 DEF Selects, SameGroup
    <2> QED
      BY <2>2 DEF Slot
  <1> QED
    BY <1>1, RetrievalInvHolds, PTL

-----------------------------------------------------------------------------
(* The slot of a stream is the number of a member, whatever the sign of the
   hash and also if it has no absolute value (filter_category). *)
LEMMA SlotIsAMember ==
    ASSUME NEW stream \in Streams, CardinalId(stream) # Null,
           NEW size \in Nat \ {0}
    PROVE  Slot(stream, size) \in 0 .. size - 1
  <1> DEFINE hash == Hash[CardinalId(stream)]
             absolute == Absolute(hash)
  <1>1. MaxHash \in Nat /\ hash \in MinHash .. MaxHash
    BY HashAssumption
  <1>2. absolute \in Nat
    BY <1>1 DEF MinHash, Absolute
  <1>3. Slot(stream, size) = Modulo(absolute, size)
    BY DEF Slot, SlotOfHash
  <1> HIDE DEF absolute
  <1>4. Modulo(absolute, size) = absolute % size
    BY <1>2 DEF Modulo
  <1>5. absolute % size \in 0 .. size - 1
    BY <1>2
  <1> QED
    BY <1>3, <1>4, <1>5

(* Of a consumer group that runs all its members, one gets each message that
   the query selects and that has a cardinal id. *)
THEOREM GroupsLoseNothing ==
    ASSUME NEW r \in Readers, WholeGroup(r),
           NEW message, message.stream_name \in Streams,
           CardinalId(message.stream_name) # Null,
           Category(message.stream_name) = Query[r].name,
           Query[r].correlation \in {Null, Category(message.correlation)}
    PROVE  \E s \in Readers : SameGroup(r, s) /\ Selects(Query[s], message)
  <1>1. /\ Query[r].kind = "category" /\ Query[r].member # Null
        /\ Query[r].size \in Nat \ {0}
    BY QueryAssumption DEF WholeGroup
  <1>2. Slot(message.stream_name, Query[r].size) \in 0 .. Query[r].size - 1
    BY <1>1, SlotIsAMember
  <1>3. PICK s \in Readers :
               /\ SameGroup(r, s)
               /\ Query[s].member = Slot(message.stream_name, Query[r].size)
    BY <1>2 DEF WholeGroup
  <1>4. Selects(Query[s], message)
    BY <1>3 DEF SameGroup, Selects
  <1> QED
    BY <1>3, <1>4
=============================================================================
