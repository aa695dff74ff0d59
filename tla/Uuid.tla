-------------------------------- MODULE Uuid --------------------------------
(***************************************************************************)
(* Message ids: what write_message makes of the id it is given, what the   *)
(* id column of the messages table accepts, and the ids that               *)
(* gen_random_uuid makes.  A text is a sequence of one-character strings.  *)
(***************************************************************************)
EXTENDS Integers, Sequences

CONSTANT NoUuid     \* in place of an id: the text is refused

Digits == <<"0", "1", "2", "3", "4", "5", "6", "7", "8", "9",
            "a", "b", "c", "d", "e", "f">>

UpperLetters == <<"A", "B", "C", "D", "E", "F">>

LowerHexDigits == {Digits[i] : i \in 1 .. 16}

IsHex(c) == c \in LowerHexDigits \/ c \in {UpperLetters[i] : i \in 1 .. 6}

LowerHex(c) ==
    IF \E i \in 1 .. 6 : c = UpperLetters[i]
    THEN Digits[10 + CHOOSE i \in 1 .. 6 : c = UpperLetters[i]]
    ELSE c

(* Offsets count from 0, as in the code; position i + 1 holds offset i. *)
HyphenPositions == {8, 13, 18, 23}

UuidShaped(text) ==
    /\ Len(text) = 36
    /\ \A i \in 0 .. 35 :
           IF i \in HyphenPositions THEN text[i + 1] = "-"
                                    ELSE IsHex(text[i + 1])

(* Defect: the variant is compared before it is lowered. *)
CanonicalVariant(text) ==
    IF /\ UuidShaped(text)
       /\ text[15] = "4"
       /\ text[20] \in {"8", "9", "a", "b"}
    THEN [i \in 1 .. 36 |-> LowerHex(text[i])]
    ELSE NoUuid

(* The id that is stored for a text: a UUID of version 4 and variant 1 in
   lower case, or NoUuid for any other text. *)
Canonical(text) ==
    IF /\ UuidShaped(text)
       /\ text[15] = "4"
       /\ LowerHex(text[20]) \in {"8", "9", "a", "b"}
    THEN [i \in 1 .. 36 |-> LowerHex(text[i])]
    ELSE NoUuid

(* The GLOB pattern of the id column, which has no part of the code above:
   the set of characters that it has at each place. *)
HexClass == {"0", "1", "2", "3", "4", "5", "6", "7", "8", "9",
             "A", "B", "C", "D", "E", "F", "a", "b", "c", "d", "e", "f"}

Glob ==
    LET X == HexClass
        Hyphen == {"-"}
    IN  << X, X, X, X, X, X, X, X, Hyphen, X, X, X, X, Hyphen,
           {"4"}, X, X, X, Hyphen, {"8", "9", "A", "a", "B", "b"}, X, X, X,
           Hyphen, X, X, X, X, X, X, X, X, X, X, X, X >>

(* The CHECK of the id column. *)
ColumnAccepts(text) ==
    /\ Len(text) = 36
    /\ \A i \in 1 .. 36 : text[i] \in Glob[i]

-----------------------------------------------------------------------------
(* Defect: the variant bits are left as they are drawn. *)
VersionBits(bytes) == [bytes EXCEPT ![6] = (@ % 16) + 64]

(* The version and the variant are put over the random bytes 6 and 8. *)
Marked(bytes) == [bytes EXCEPT ![6] = (@ % 16) + 64, ![8] = (@ % 64) + 128]

(* The number of hyphens before byte i in the text, and the digits of a
   byte. *)
HyphensBefore(i) ==
    IF i < 4 THEN 0 ELSE IF i < 6 THEN 1 ELSE IF i < 8 THEN 2
    ELSE IF i < 10 THEN 3 ELSE 4

(* gen_random_uuid: two digits for each of the bytes 0 .. 15. *)
FromBytes(bytes) ==
    LET uuid == Marked(bytes)
        At(i) == 2 * i + HyphensBefore(i) + 1
    IN  [p \in 1 .. 36 |->
            IF p - 1 \in HyphenPositions THEN "-"
            ELSE LET i == CHOOSE i \in 0 .. 15 : p \in {At(i), At(i) + 1}
                 IN  IF p = At(i) THEN Digits[(uuid[i] \div 16) + 1]
                                  ELSE Digits[(uuid[i] % 16) + 1]]
=============================================================================
