---------------------------- MODULE StreamNames ----------------------------
(***************************************************************************)
(* The parts of a stream name.                                             *)
(*                                                                         *)
(*      account-123+456     category "account", id "123+456",              *)
(*                          cardinal id "123"                              *)
(*      account             a category: no id, no cardinal id              *)
(*                                                                         *)
(* A name is a sequence of characters; only "-" and "+" are special.  The  *)
(* C functions return spans (offset, length, present) of the name's bytes, *)
(* and the SQL functions the text of the span, or NULL.                    *)
(***************************************************************************)
EXTENDS Integers, Sequences

CONSTANT Null           \* the SQL value

(* The offset of the first such character at or after the offset given, or
   the length of the name if there is none. *)
OffsetOf(character, name, from) ==
    CHOOSE i \in from .. Len(name) :
        /\ i = Len(name) \/ name[i + 1] = character
        /\ \A j \in from .. i - 1 : name[j + 1] # character

(* Defect: the last such character. *)
LastOffsetOf(character, name, from) ==
    LET found == {i \in from .. Len(name) - 1 : name[i + 1] = character}
    IN  IF found = {} THEN Len(name)
        ELSE CHOOSE i \in found : \A j \in found : j <= i

NoSpan == [offset |-> 0, length |-> 0, present |-> FALSE]

(* Defect: the category up to the last hyphen. *)
CategorySpanLast(name) ==
    [offset |-> 0, length |-> LastOffsetOf("-", name, 0), present |-> TRUE]

CategorySpan(name) ==
    [offset |-> 0, length |-> OffsetOf("-", name, 0), present |-> TRUE]

IsCategory(name) == \A i \in 1 .. Len(name) : name[i] # "-"

(* Defect: the hyphen is taken for a part of the id's length. *)
IdSpanTooLong(name) ==
    LET hyphen == OffsetOf("-", name, 0)
    IN  IF IsCategory(name) THEN NoSpan
        ELSE [offset |-> hyphen + 1, length |-> Len(name) - hyphen,
              present |-> TRUE]

IdSpan(name) ==
    LET hyphen == OffsetOf("-", name, 0)
    IN  IF IsCategory(name) THEN NoSpan
        ELSE [offset |-> hyphen + 1, length |-> Len(name) - (hyphen + 1),
              present |-> TRUE]

(* Defect: the id up to its last "+". *)
CardinalIdSpanLast(name) ==
    LET id == IdSpan(name)
    IN  IF ~id.present THEN id
        ELSE [id EXCEPT !.length = LastOffsetOf("+", name, id.offset)
                                       - id.offset]

CardinalIdSpan(name) ==
    LET id == IdSpan(name)
    IN  IF ~id.present THEN id
        ELSE [id EXCEPT !.length = OffsetOf("+", name, id.offset) - id.offset]

-----------------------------------------------------------------------------
(* result_text_span *)
TextOf(name, span) ==
    IF span.present
    THEN SubSeq(name, span.offset + 1, span.offset + span.length)
    ELSE Null

(* The SQL functions category, id and cardinal_id. *)
Category(name) == IF name = Null THEN Null ELSE TextOf(name, CategorySpan(name))
Id(name) == IF name = Null THEN Null ELSE TextOf(name, IdSpan(name))
CardinalId(name) ==
    IF name = Null THEN Null ELSE TextOf(name, CardinalIdSpan(name))
=============================================================================
