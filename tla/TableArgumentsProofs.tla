------------------------ MODULE TableArgumentsProofs ------------------------
(***************************************************************************)
(* What reaches a query is what the application asked for, proved for all  *)
(* numbers and for any combination of arguments that are passed, left out  *)
(* or taken from other tables.                                             *)
(*                                                                         *)
(* The heart of it is that xBestIndex and xFilter agree: the places that   *)
(* xBestIndex gives out number the consumed constraints in the order of    *)
(* their columns, and xFilter counts the bits of idxNum below the one that *)
(* it reads (ArgumentsArrive).                                             *)
(***************************************************************************)
EXTENDS TableArguments, FiniteSetTheorems, TLAPS

-----------------------------------------------------------------------------
(* An answer, and what it says of the arguments. *)
AnswerInv ==
    /\ answer.result = "rows" =>
           /\ answer.arguments = Bound(Asked)
           /\ ~IsNull(Asked.name)
           /\ ~Refuses(Asked)
           /\ \A p \in ParametersOf(kind) : Asked[p] \in Values
    /\ answer.result = "name required" => IsNull(Asked.name)

(* The inductive invariant. *)
ArgumentsInv ==
    /\ kind \in DOMAIN Parameters
    /\ given \subseteq Columns(kind)
    /\ consumed \subseteq given
    /\ stage = "filter" => 1 \in consumed
    /\ AnswerInv

-----------------------------------------------------------------------------
(* The declared columns: the name comes first, and only once. *)
LEMMA DeclaredColumns ==
    ASSUME kind \in DOMAIN Parameters
    PROVE  /\ kind \in {"stream", "category", "last"}
           /\ Len(Parameters[kind]) \in Nat /\ 1 \in Columns(kind)
           /\ Columns(kind) \subseteq Nat
           /\ Parameters[kind][1] = "name"
           /\ \A c \in Columns(kind) : Parameters[kind][c] = "name" => c = 1
           /\ kind \in {"stream", "category"} =>
                  {"position", "batch_size", "condition"}
                      \subseteq ParametersOf(kind)
           /\ kind = "category" =>
                  {"correlation", "member", "size"} \subseteq ParametersOf(kind)
           /\ "name" \in ParametersOf(kind)
  <1>1. kind \in {"stream", "category", "last"}
    BY DEF Parameters
  <1>2. CASE kind = "stream"
    <2>1. Parameters[kind] = <<"name", "position", "batch_size", "condition">>
      BY <1>2 DEF Parameters
    <2>2. Columns(kind) = 1 .. 4
      BY <2>1 DEF Columns
    <2>3. \A c \in 1 .. 4 : c = 1 \/ c = 2 \/ c = 3 \/ c = 4
      OBVIOUS
    <2>4. /\ Parameters[kind][1] = "name"
          /\ Parameters[kind][2] = "position"
          /\ Parameters[kind][3] = "batch_size"
          /\ Parameters[kind][4] = "condition"
          /\ Len(Parameters[kind]) = 4
      BY <2>1
    <2>5. \A c \in 1 .. 4 : Parameters[kind][c] \in ParametersOf(kind)
      BY <2>2 DEF ParametersOf
    <2>6. {"name", "position", "batch_size", "condition"}
              \subseteq ParametersOf(kind)
      <3>1. 1 \in 1 .. 4 /\ 2 \in 1 .. 4 /\ 3 \in 1 .. 4 /\ 4 \in 1 .. 4
        OBVIOUS
      <3> QED
        BY <2>4, <2>5, <3>1
    <2> QED
      BY <1>2, <2>2, <2>3, <2>4, <2>6
  <1>3. CASE kind = "category"
    <2>1. Parameters[kind] = <<"name", "position", "batch_size",
                               "correlation", "member", "size", "condition">>
      BY <1>3 DEF Parameters
    <2>2. Columns(kind) = 1 .. 7
      BY <2>1 DEF Columns
    <2>3. \A c \in 1 .. 7 : \/ c = 1 \/ c = 2 \/ c = 3 \/ c = 4
                            \/ c = 5 \/ c = 6 \/ c = 7
      OBVIOUS
    <2>4. /\ Parameters[kind][1] = "name"
          /\ Parameters[kind][2] = "position"
          /\ Parameters[kind][3] = "batch_size"
          /\ Parameters[kind][4] = "correlation"
          /\ Parameters[kind][5] = "member"
          /\ Parameters[kind][6] = "size"
          /\ Parameters[kind][7] = "condition"
          /\ Len(Parameters[kind]) = 7
      BY <2>1
    <2>5. \A c \in 1 .. 7 : Parameters[kind][c] \in ParametersOf(kind)
      BY <2>2 DEF ParametersOf
    <2>6. {"name", "position", "batch_size", "correlation", "member", "size",
           "condition"} \subseteq ParametersOf(kind)
      <3>1. /\ 1 \in 1 .. 7 /\ 2 \in 1 .. 7 /\ 3 \in 1 .. 7 /\ 4 \in 1 .. 7
            /\ 5 \in 1 .. 7 /\ 6 \in 1 .. 7 /\ 7 \in 1 .. 7
        OBVIOUS
      <3> QED
        BY <2>4, <2>5, <3>1
    <2> QED
      BY <1>3, <2>2, <2>3, <2>4, <2>6
  <1>4. CASE kind = "last"
    <2>1. Parameters[kind] = <<"name", "type">>
      BY <1>4 DEF Parameters
    <2>2. Columns(kind) = 1 .. 2
      BY <2>1 DEF Columns
    <2>3. \A c \in 1 .. 2 : c = 1 \/ c = 2
      OBVIOUS
    <2>4. /\ Parameters[kind][1] = "name"
          /\ Parameters[kind][2] = "type"
          /\ Len(Parameters[kind]) = 2
      BY <2>1
    <2>5. \A c \in 1 .. 2 : Parameters[kind][c] \in ParametersOf(kind)
      BY <2>2 DEF ParametersOf
    <2>6. {"name", "type"}
              \subseteq ParametersOf(kind)
      <3>1. 1 \in 1 .. 2 /\ 2 \in 1 .. 2
        OBVIOUS
      <3> QED
        BY <2>4, <2>5, <3>1
    <2> QED
      BY <1>4, <2>2, <2>3, <2>4, <2>6
  <1> QED
    BY <1>1, <1>2, <1>3, <1>4

(* The constraints that are consumed are finitely many. *)
LEMMA ConsumedFinite ==
    ASSUME ArgumentsInv
    PROVE  consumed \subseteq Nat /\ IsFiniteSet(consumed)
  <1>1. /\ Len(Parameters[kind]) \in Nat
        /\ consumed \subseteq Columns(kind) /\ Columns(kind) \subseteq Nat
    BY DeclaredColumns DEF ArgumentsInv
  <1>2. IsFiniteSet(Columns(kind))
    BY <1>1, FS_Interval DEF Columns
  <1> QED
    BY <1>1, <1>2, FS_Subset

(* The places that xBestIndex gives out are different numbers from 1 on. *)
LEMMA PlacesDiffer ==
    ASSUME consumed \subseteq Nat, IsFiniteSet(consumed)
    PROVE  /\ \A c \in consumed : ArgvIndex(c) \in 1 .. Cardinality(consumed)
           /\ \A c, d \in consumed : ArgvIndex(c) = ArgvIndex(d) => c = d
           /\ \A c \in consumed :
                  ArgvIndex(c) = 1 + Cardinality({d \in consumed : d < c})
  <1> DEFINE UpTo(c) == {d \in consumed : d <= c}
             Before(c) == {d \in consumed : d < c}
  <1>1. \A c : /\ IsFiniteSet(UpTo(c)) /\ IsFiniteSet(Before(c))
               /\ Cardinality(UpTo(c)) <= Cardinality(consumed)
               /\ Cardinality(UpTo(c)) \in Nat /\ Cardinality(Before(c)) \in Nat
    BY FS_Subset, FS_CardinalityType
  <1>2. ASSUME NEW c \in consumed
        PROVE  Cardinality(UpTo(c)) = 1 + Cardinality(Before(c))
    <2>0. \A d \in consumed : (d <= c <=> d < c \/ d = c) /\ ~(c < c)
      OBVIOUS
    <2>1. UpTo(c) = Before(c) \cup {c} /\ c \notin Before(c)
      BY <2>0
    <2> HIDE DEF UpTo, Before
    <2>2. Cardinality(Before(c) \cup {c}) = Cardinality(Before(c)) + 1
      BY <1>1, <2>1, FS_AddElement
    <2> QED
      BY <1>1, <2>1, <2>2
  <1>3. ASSUME NEW c \in consumed, NEW d \in consumed, c < d
        PROVE  Cardinality(UpTo(c)) < Cardinality(UpTo(d))
    <2>0. \A e \in consumed : e <= c => e < d
      BY <1>3
    <2>1. UpTo(c) \subseteq Before(d)
      BY <2>0
    <2> HIDE DEF UpTo, Before
    <2>2. Cardinality(UpTo(c)) <= Cardinality(Before(d))
      BY <1>1, <2>1, FS_Subset
    <2> QED
      BY <1>1, <1>2, <2>2
  <1>4. \A c \in consumed : ArgvIndex(c) = Cardinality(UpTo(c))
    BY DEF ArgvIndex
  <1> HIDE DEF UpTo, Before
  <1>5. ASSUME NEW c \in consumed
        PROVE  ArgvIndex(c) \in 1 .. Cardinality(consumed)
    BY <1>1, <1>2, <1>4, FS_CardinalityType
  <1>6. ASSUME NEW c \in consumed, NEW d \in consumed,
               ArgvIndex(c) = ArgvIndex(d)
        PROVE  c = d
    <2>1. ~(c < d) /\ ~(d < c)
      BY <1>1, <1>3, <1>4, <1>6
    <2> QED
      BY <2>1
  <1> QED
    BY <1>2, <1>4, <1>5, <1>6 DEF Before

(* What xFilter takes for the argument of a column is the value of that
   column's constraint. *)
LEMMA ArgumentsArrive ==
    ASSUME consumed \subseteq Nat, IsFiniteSet(consumed), NEW values,
           NEW column
    PROVE  Argument(Argv(values), column)
               = IF column \in consumed THEN values[column] ELSE NullValue
  <1>1. CASE column \in consumed
    <2> DEFINE i == ArgvIndex(column)
    <2>1. /\ i \in 1 .. Cardinality(consumed)
          /\ i = 1 + Cardinality({c \in consumed : c < column})
          /\ \A c \in consumed : ArgvIndex(c) = i => c = column
      BY <1>1, PlacesDiffer
    <2>2. (CHOOSE c \in consumed : ArgvIndex(c) = i) = column
      BY <1>1, <2>1
    <2>3. Argv(values)[i] = values[CHOOSE c \in consumed : ArgvIndex(c) = i]
      <3> HIDE DEF i
      <3> QED
        BY <2>1 DEF Argv
    <2>4. Argument(Argv(values), column) = Argv(values)[i]
      <3> HIDE DEF i
      <3> QED
        BY <1>1, <2>1 DEF Argument
    <2> QED
      BY <1>1, <2>2, <2>3, <2>4
  <1>2. CASE column \notin consumed
    BY <1>2 DEF Argument
  <1> QED
    BY <1>1, <1>2

-----------------------------------------------------------------------------
(* At first there is no answer. *)
LEMMA InitArguments == Init => ArgumentsInv
  <1> SUFFICES ASSUME Init
               PROVE  ArgumentsInv
    OBVIOUS
  <1>1. answer.result = "none"
    BY DEF Init, NoAnswer
  <1> QED
    BY <1>1 DEF Init, ArgumentsInv, AnswerInv

(* What sqlite3_value_int64 reads of any value is an integer. *)
LEMMA ValuesAreTyped ==
    \A value \in Values : value.integer \in Int
  <1>1. \A n \in Numbers : Integer(n).integer \in Int
    BY NumbersAssumption DEF Integer
  <1>2. /\ NullValue.integer \in Int
        /\ Text(TRUE).integer \in Int /\ Text(FALSE).integer \in Int
    BY DEF NullValue, Text
  <1> QED
    BY <1>1, <1>2 DEF Values

(* xFilter decodes the arguments that were passed, if all were consumed, and
   the name in any case. *)
LEMMA DecodedAsAsked ==
    ASSUME ArgumentsInv, NEW values \in [given -> Values], Filter(values)
    PROVE  /\ consumed = given => Decoded(Argv(values)) = Asked'
           /\ Decoded(Argv(values)).name = Asked'.name
           /\ \A p \in ParametersOf(kind) : Asked'[p] \in Values
  <1> DEFINE ColumnOf(p) == CHOOSE c \in Columns(kind) : Parameters[kind][c] = p
             a == Decoded(Argv(values))
             asked == [p \in ParametersOf(kind) |->
                          IF ColumnOf(p) \in given THEN values[ColumnOf(p)]
                          ELSE NullValue]
  <1>1. /\ stage = "filter" /\ kind' = kind /\ given' = given
        /\ passed' = values
    BY DEF Filter
  <1>2. 1 \in consumed /\ consumed \subseteq given
    BY <1>1 DEF ArgumentsInv
  <1>3. consumed \subseteq Nat /\ IsFiniteSet(consumed)
    BY ConsumedFinite
  <1>4. Asked' = asked
    BY <1>1 DEF Asked
  <1>5. a = [p \in ParametersOf(kind) |-> Argument(Argv(values), ColumnOf(p))]
    BY DEF Decoded
  <1>6. \A p \in ParametersOf(kind) :
            a[p] = IF ColumnOf(p) \in consumed THEN values[ColumnOf(p)]
                   ELSE NullValue
    BY <1>3, <1>5, ArgumentsArrive
  <1>7. ColumnOf("name") = 1 /\ "name" \in ParametersOf(kind)
    BY DeclaredColumns DEF ArgumentsInv
  <1>8. NullValue \in Values
    BY DEF Values
  <1> HIDE DEF ColumnOf, a
  <1>9. a["name"] = values[1] /\ asked["name"] = values[1]
    BY <1>2, <1>6, <1>7
  <1>10. \A p \in ParametersOf(kind) : asked[p] \in Values
    BY <1>8
  <1>11. consumed = given => a = asked
    BY <1>5, <1>6
  <1> QED
    BY <1>4, <1>9, <1>10, <1>11 DEF a

(* xFilter answers what was asked, since its arguments arrive. *)
LEMMA FilterKeepsInv ==
    ASSUME ArgumentsInv, NEW values \in [given -> Values], Filter(values)
    PROVE  ArgumentsInv'
  <1> DEFINE a == Decoded(Argv(values))
  <1>1. /\ stage' = "done"
        /\ kind' = kind /\ given' = given /\ consumed' = consumed
        /\ answer' = IF IsNull(a.name) THEN [result |-> "name required"]
                     ELSE IF Refuses(a) THEN [result |-> "error"]
                     ELSE IF consumed # given THEN [result |-> "nothing"]
                     ELSE [result |-> "rows", arguments |-> Bound(a)]
    BY DEF Filter
  <1>2. /\ consumed = given => a = Asked'
        /\ a.name = Asked'.name
        /\ \A p \in ParametersOf(kind) : Asked'[p] \in Values
    BY DecodedAsAsked
  <1> HIDE DEF a
  <1>3. ASSUME answer'.result = "rows"
        PROVE  /\ answer'.arguments = Bound(a)
               /\ ~IsNull(a.name) /\ ~Refuses(a) /\ consumed = given
    BY <1>1, <1>3
  <1>4. answer'.result = "name required" => IsNull(a.name)
    BY <1>1
  <1>5. consumed = given => /\ Bound(Asked)' = Bound(a)
                            /\ Refuses(Asked)' <=> Refuses(a)
    BY <1>1, <1>2 DEF Bound, Refuses
  <1>6. AnswerInv'
    BY <1>1, <1>2, <1>3, <1>4, <1>5 DEF AnswerInv
  <1> QED
    BY <1>1, <1>6 DEF ArgumentsInv

(* An answer is what it was as long as the statement is the same. *)
LEMMA AnswerKept ==
    ASSUME AnswerInv, UNCHANGED <<kind, given, passed, answer>>
    PROVE  AnswerInv'
  <1>1. Asked' = Asked /\ kind' = kind /\ answer' = answer
    BY DEF Asked
  <1>2. Bound(Asked)' = Bound(Asked)
    BY <1>1 DEF Bound
  <1>3. Refuses(Asked)' <=> Refuses(Asked)
    BY <1>1 DEF Refuses
  <1> QED
    BY <1>1, <1>2, <1>3 DEF AnswerInv

(* Every step keeps the inductive invariant. *)
LEMMA NextArguments == ArgumentsInv /\ [Next]_vars => ArgumentsInv'
  <1> SUFFICES ASSUME ArgumentsInv, [Next]_vars
               PROVE  ArgumentsInv'
    OBVIOUS
  <1>1. ASSUME NEW usable \in SUBSET given, BestIndex(usable)
        PROVE  ArgumentsInv'
    <2>1. /\ 1 \in usable /\ consumed' = usable
          /\ UNCHANGED <<kind, given, passed, answer>>
      BY <1>1 DEF BestIndex
    <2>2. AnswerInv'
      BY <2>1, AnswerKept DEF ArgumentsInv
    <2> QED
      BY <2>1, <2>2 DEF ArgumentsInv
  <1>2. ASSUME NEW usable \in SUBSET given, NotPrepared(usable)
        PROVE  ArgumentsInv'
    <2>1. /\ answer'.result = "not prepared" /\ stage' = "done"
          /\ UNCHANGED <<kind, given, consumed, passed>>
      BY <1>2 DEF NotPrepared
    <2> QED
      BY <2>1 DEF ArgumentsInv, AnswerInv
  <1>3. ASSUME NEW values \in [given -> Values], Filter(values)
        PROVE  ArgumentsInv'
    BY <1>3, FilterKeepsInv
  <1>4. CASE UNCHANGED vars
    BY <1>4, AnswerKept DEF vars, ArgumentsInv
  <1> QED
    BY <1>1, <1>2, <1>3, <1>4 DEF Next

(* In every reachable state, the consumed constraints are some of those that
   were given, and an answer is one to what was asked. *)
THEOREM ArgumentsInvHolds == Spec => []ArgumentsInv
  BY InitArguments, NextArguments, PTL DEF Spec

(* RowsAsAsked: each filter function reads for each parameter the value that
   was passed for it, or the default. *)
THEOREM RowsAreAsAsked == Spec => []RowsAsAsked
  <1>1. ArgumentsInv => RowsAsAsked
    BY DEF ArgumentsInv, AnswerInv, RowsAsAsked
  <1> QED
    BY <1>1, ArgumentsInvHolds, PTL

(* NameReachesFilter: a name is missed by a filter function only if NULL was
   passed for it. *)
THEOREM NamesReachFilter == Spec => []NameReachesFilter
  <1>1. ArgumentsInv => NameReachesFilter
    BY DEF ArgumentsInv, AnswerInv, NameReachesFilter
  <1> QED
    BY <1>1, ArgumentsInvHolds, PTL

(* RetrievalDefined: what filter_stream and filter_category bind to their
   queries is what QueryAssumption of Retrieval says of a query. *)
THEOREM RetrievalsDefined == Spec => []RetrievalDefined
  <1>1. ArgumentsInv => RetrievalDefined
    <2> SUFFICES ASSUME ArgumentsInv, answer.result = "rows"
                 PROVE  RetrievalDefined
      BY DEF RetrievalDefined
    <2> DEFINE a == Asked
               b == Bound(a)
    <2>1. /\ answer.arguments = b /\ ~IsNull(a.name) /\ ~Refuses(a)
          /\ \A p \in ParametersOf(kind) : a[p] \in Values
          /\ kind \in DOMAIN Parameters
      BY DEF ArgumentsInv, AnswerInv
    <2>2. DOMAIN a = ParametersOf(kind)
      BY DEF Asked
    <2> HIDE DEF a
    <2>3. \A p \in ParametersOf(kind) \ {"position", "batch_size"} :
              b[p] = a[p]
      BY <2>2 DEF Bound, Default
    <2>4. \A p \in ParametersOf(kind) : a[p].integer \in Int
      BY <2>1, ValuesAreTyped
    <2>5. /\ "name" \in ParametersOf(kind)
          /\ kind \in {"stream", "category", "last"}
          /\ kind \in {"stream", "category"} =>
                 {"position", "batch_size"} \subseteq ParametersOf(kind)
          /\ kind = "category" => {"member", "size"} \subseteq ParametersOf(kind)
      BY <2>1, DeclaredColumns
    <2>6. b.name = a.name
      BY <2>3, <2>5
    <2>7. kind = "stream" => ~a.name.is_category
      BY <2>1 DEF Refuses, RefusesStream
    <2>8. ASSUME kind = "category"
          PROVE  /\ a.name.is_category
                 /\ b.member = a.member /\ b.size = a.size
                 /\ IsNull(a.member) <=> IsNull(a.size)
                 /\ ~IsNull(a.member) =>
                        a.member.integer \in 0 .. a.size.integer - 1
      <3>1. a.name.is_category /\ ~WrongGroup(a)
        BY <2>1, <2>8 DEF Refuses, RefusesCategory
      <3>2. b.member = a.member /\ b.size = a.size
        BY <2>3, <2>5, <2>8
      <3>3. a.member.integer \in Int /\ a.size.integer \in Int
        BY <2>4, <2>5, <2>8
      <3> QED
        BY <3>1, <3>2, <3>3 DEF WrongGroup, IsNull
    <2>9. ASSUME kind # "last"
          PROVE  /\ b.position.type = "integer"
                 /\ b.batch_size.type = "integer"
                 /\ b.batch_size.integer >= -1
      <3>1. /\ IsOptionalInteger(a.position) /\ IsOptionalInteger(a.batch_size)
            /\ ~(a.batch_size.integer < -1)
        BY <2>1, <2>5, <2>9 DEF Refuses, RefusesStream, RefusesCategory
      <3>2. "position" \in ParametersOf(kind) /\ "batch_size" \in ParametersOf(kind)
        BY <2>5, <2>9
      <3>3. /\ b.position = IF IsNull(a.position)
                            THEN Integer(Default.position[kind]) ELSE a.position
            /\ b.batch_size = IF IsNull(a.batch_size)
                              THEN Integer(Default.batch_size[kind])
                              ELSE a.batch_size
        BY <2>2, <3>2 DEF Bound, Default
      <3>4. Default.batch_size[kind] = 1000
        BY <2>5, <2>9 DEF Default
      <3>5. a.batch_size.integer \in Int
        BY <2>4, <3>2
      <3> QED
        BY <3>1, <3>3, <3>4, <3>5 DEF IsOptionalInteger, IsNull, Integer
    <2> HIDE DEF b
    <2> QED
      BY <2>1, <2>6, <2>7, <2>8, <2>9 DEF RetrievalDefined
  <1> QED
    BY <1>1, ArgumentsInvHolds, PTL
=============================================================================
