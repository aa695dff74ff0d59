--------------------------- MODULE TableArguments ---------------------------
(***************************************************************************)
(* How the arguments of get_stream_messages, get_category_messages and     *)
(* get_last_stream_message reach the query that answers them.              *)
(*                                                                         *)
(* The arguments are equality constraints on hidden columns.  An argument  *)
(* can be a constant or a column of another table of the FROM clause; in   *)
(* the second case it is usable only in the join orders that read the      *)
(* other table first.  SQLite's planner offers join orders to xBestIndex,  *)
(* which says which constraints it consumes and in what order xFilter gets *)
(* their values.  A constraint that is not consumed is checked by SQLite   *)
(* on every row, where the hidden column is NULL: no row passes.           *)
(*                                                                         *)
(* Modelled for one constraint for each hidden column, as the call syntax  *)
(* of a table-valued function makes them.                                  *)
(***************************************************************************)
EXTENDS Integers, Sequences, FiniteSets

CONSTANTS Numbers,      \* the integers among the values passed
          MaxGiven      \* bound: optional arguments passed at once

ASSUME NumbersAssumption == Numbers \subseteq Int

(***************************************************************************)
(* SQL values.  Of a text only matters whether it is a category (has no    *)
(* hyphen); an integer that is taken for a text is one unless it is        *)
(* negative.  A blob or a real number counts as a text: it is read as one, *)
(* and it is not an integer either.                                        *)
(***************************************************************************)
NullValue == [type |-> "null", integer |-> 0, is_category |-> FALSE]

Integer(n) == [type |-> "integer", integer |-> n, is_category |-> n >= 0]

Text(is_category) ==
    [type |-> "text", integer |-> 0, is_category |-> is_category]

Values == {NullValue, Text(TRUE), Text(FALSE)}
              \cup {Integer(n) : n \in Numbers}

(* The hidden columns, in their order in the declared schema. *)
Parameters ==
    [stream |-> <<"name", "position", "batch_size", "condition">>,
     category |-> <<"name", "position", "batch_size", "correlation",
                    "member", "size", "condition">>,
     last |-> <<"name", "type">>]

Columns(kind) == 1 .. Len(Parameters[kind])

ParametersOf(kind) == {Parameters[kind][column] : column \in Columns(kind)}

VARIABLES
    stage,      \* "prepare", "filter" or "done"
    kind,       \* the table-valued function
    given,      \* the columns of the arguments passed
    consumed,   \* idxNum: the columns of the constraints consumed
    passed,     \* passed[c]: the value of the argument of column c
    answer      \* what the application gets, and for which arguments

vars == <<stage, kind, given, consumed, passed, answer>>

NoAnswer == [result |-> "none"]

Init ==
    /\ stage = "prepare"
    /\ kind \in DOMAIN Parameters
    /\ given \in SUBSET Columns(kind)
    /\ Cardinality(given \ {1}) <= MaxGiven
    /\ consumed = {}
    /\ passed = <<>>
    /\ answer = NoAnswer

-----------------------------------------------------------------------------
(* Defect: a join order in which the stream name or category is not usable
   is accepted. *)
BestIndexAny(usable) ==
    /\ stage = "prepare"
    /\ 1 \in given
    /\ consumed' = usable
    /\ stage' = "filter"
    /\ UNCHANGED <<kind, given, passed, answer>>

(* xBestIndex for a join order that makes these constraints usable.  A join
   order in which the name is not usable is refused (SQLITE_CONSTRAINT), and
   the planner goes on to another. *)
BestIndex(usable) ==
    /\ stage = "prepare"
    /\ 1 \in usable
    /\ consumed' = usable
    /\ stage' = "filter"
    /\ UNCHANGED <<kind, given, passed, answer>>

(* No name was passed, or the statement fixes the join order in such a way
   that the name is not usable ("no query solution"): it is not prepared. *)
NotPrepared(usable) ==
    /\ stage = "prepare"
    /\ 1 \notin usable
    /\ answer' = [result |-> "not prepared"]
    /\ stage' = "done"
    /\ UNCHANGED <<kind, given, consumed, passed>>

(* The place of a consumed constraint in argv, as xBestIndex gives it out. *)
ArgvIndex(column) == Cardinality({c \in consumed : c <= column})

Argv(values) ==
    [i \in 1 .. Cardinality(consumed) |->
        values[CHOOSE column \in consumed : ArgvIndex(column) = i]]

(* Defect: xFilter takes the place of the column for its place in argv. *)
ArgumentAtColumn(argv, column) ==
    IF column \in consumed /\ column <= Len(argv) THEN argv[column]
    ELSE NullValue

(* What the filter functions take for the argument of a column: they go
   through the bits of idxNum, one value of argv for each.  An argument that
   is missing counts as NULL. *)
Argument(argv, column) ==
    IF column \in consumed
    THEN argv[1 + Cardinality({c \in consumed : c < column})]
    ELSE NullValue

Decoded(argv) ==
    [p \in ParametersOf(kind) |->
        Argument(argv,
                 CHOOSE c \in Columns(kind) : Parameters[kind][c] = p)]

-----------------------------------------------------------------------------
IsNull(value) == value.type = "null"

(* optional_i64 *)
IsOptionalInteger(value) == value.type \in {"null", "integer"}

(* Defect: the member may equal the size of the group. *)
WrongGroupByOne(a) ==
    \/ IsNull(a.member) # IsNull(a.size)
    \/ ~IsNull(a.size) /\ a.size.integer < 1
    \/ ~IsNull(a.member) /\ a.member.integer < 0
    \/ ~IsNull(a.member) /\ a.member.integer > a.size.integer

WrongGroup(a) ==
    \/ IsNull(a.member) # IsNull(a.size)
    \/ ~IsNull(a.size) /\ a.size.integer < 1
    \/ ~IsNull(a.member) /\ a.member.integer < 0
    \/ ~IsNull(a.member) /\ a.member.integer >= a.size.integer

(* The arguments that a filter answers with an error, once it has a name. *)
RefusesStream(a) ==
    \/ ~IsOptionalInteger(a.position)
    \/ ~IsOptionalInteger(a.batch_size)
    \/ ~IsNull(a.condition)
    \/ a.name.is_category
    \/ a.batch_size.integer < -1

RefusesCategory(a) ==
    \/ ~IsOptionalInteger(a.position)
    \/ ~IsOptionalInteger(a.batch_size)
    \/ ~IsOptionalInteger(a.member)
    \/ ~IsOptionalInteger(a.size)
    \/ ~IsNull(a.condition)
    \/ ~a.name.is_category
    \/ ~IsNull(a.correlation) /\ ~a.correlation.is_category
    \/ WrongGroup(a)
    \/ a.batch_size.integer < -1

(* The filter of the last message refuses no argument: it takes every value
   of its type parameter that is not NULL as text. *)
Refuses(a) ==
    \/ kind = "stream" /\ RefusesStream(a)
    \/ kind = "category" /\ RefusesCategory(a)

(* What the query is run for: NULL stands for the default of a parameter. *)
Default ==
    [position |-> [stream |-> 0, category |-> 1],
     batch_size |-> [stream |-> 1000, category |-> 1000]]

Bound(a) ==
    [p \in DOMAIN a |->
        IF IsNull(a[p]) /\ p \in DOMAIN Default
        THEN Integer(Default[p][kind]) ELSE a[p]]

(* xFilter, and the constraints that are left for SQLite to check: equality
   with anything fails on a NULL column. *)
Filter(values) ==
    /\ stage = "filter"
    /\ passed' = values
    /\ LET a == Decoded(Argv(values))
       IN  answer' = IF IsNull(a.name) THEN [result |-> "name required"]
                     ELSE IF Refuses(a) THEN [result |-> "error"]
                     ELSE IF consumed # given THEN [result |-> "nothing"]
                     ELSE [result |-> "rows", arguments |-> Bound(a)]
    /\ stage' = "done"
    /\ UNCHANGED <<kind, given, consumed>>

Next ==
    \/ \E usable \in SUBSET given : BestIndex(usable) \/ NotPrepared(usable)
    \/ \E values \in [given -> Values] : Filter(values)

Spec == Init /\ [][Next]_vars

-----------------------------------------------------------------------------
(* The arguments as the application wrote them. *)
Asked ==
    [p \in ParametersOf(kind) |->
        LET c == CHOOSE c \in Columns(kind) : Parameters[kind][c] = p
        IN  IF c \in given THEN passed[c] ELSE NullValue]

(* The rows are those of the arguments asked for, whichever of them were
   passed, left out or NULL, and whichever join order the planner chose: no
   value is taken for the one of another parameter. *)
RowsAsAsked ==
    answer.result = "rows" => answer.arguments = Bound(Asked)

(* A statement that passes a name is not told that it does not, wherever in
   the FROM clause the name comes from. *)
NameReachesFilter ==
    answer.result = "name required" => IsNull(Asked.name)

(* What is retrieved for is what Retrieval assumes of its queries: a stream
   is read by its name and a category by a category, the member is one of the
   slots of its group, and the LIMIT is -1 (none) or a number of rows. *)
RetrievalDefined ==
    answer.result = "rows" =>
        LET a == answer.arguments
        IN  /\ ~IsNull(a.name)
            /\ kind = "stream" => ~a.name.is_category
            /\ kind = "category" =>
                   /\ a.name.is_category
                   /\ IsNull(a.member) <=> IsNull(a.size)
                   /\ ~IsNull(a.member) =>
                          a.member.integer \in 0 .. a.size.integer - 1
            /\ kind # "last" => /\ a.position.type = "integer"
                                /\ a.batch_size.type = "integer"
                                /\ a.batch_size.integer >= -1

(* The README says of the condition argument that any value but NULL fails.
   It does not when the value comes from a table that is read later: the
   constraint is not consumed, and the application gets no rows. *)
ConditionFails ==
    /\ kind # "last"
    /\ stage = "done"
    /\ answer.result # "not prepared"
    /\ ~IsNull(Asked.condition)
    => answer.result \in {"error", "name required"}
=============================================================================
