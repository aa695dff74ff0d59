------------------------- MODULE FuzzStringsProofs -------------------------
(***************************************************************************)
(* The functions that take texts apart, for texts of any length over any   *)
(* characters, digests of any width and consumer groups of any size.       *)
(***************************************************************************)
EXTENDS FuzzStrings, SequenceTheorems, WellFoundedInduction, TLAPS

(* The characters of the ids that are made from the template. *)
IdCharacters == {"0", "4", "a", "f", "-"} \cup Replacements

(* What an input of each kind is: what the actions make of it. *)
InputsInv ==
    /\ kind = "name" => input \in Seq(Characters)
    /\ kind = "id" => input \in Seq(IdCharacters)
    /\ kind = "random" => input \in [0 .. 15 -> 0 .. 255]
    /\ kind = "text" => input \in Seq({"text"} \X Nat)
    /\ kind = "number" => input \in 0 .. 2 * MaxHash + 1

LEMMA InputsInitially == Init => InputsInv
  <1>1. Template \in Seq(IdCharacters)
    BY SMTT(30) DEF Template, IdCharacters
  <1>2. <<>> \in Seq(Characters) /\ <<>> \in Seq({"text"} \X Nat)
    BY EmptySeq
  <1>3. 0 \in 0 .. 2 * MaxHash + 1
    BY NumbersAssumption
  <1>4. [i \in 0 .. 15 |-> 0] \in [0 .. 15 -> 0 .. 255]
    OBVIOUS
  <1> QED
    BY <1>1, <1>2, <1>3, <1>4 DEF Init, InputsInv

LEMMA InputsStep == InputsInv /\ [Next]_vars => InputsInv'
  <1> SUFFICES ASSUME InputsInv, [Next]_vars
               PROVE  InputsInv'
    OBVIOUS
  <1>1. CASE Type
    <2>1. PICK c \in Characters : Change(Append(input, c))
      BY <1>1 DEF Type
    <2>2. Append(input, c) \in Seq(Characters)
      BY <1>1, AppendProperties DEF Type, InputsInv
    <2> QED
      BY <1>1, <2>1, <2>2 DEF Type, Change, InputsInv
  <1>2. CASE ReplaceCharacter
    <2>1. PICK i \in 1 .. Len(input), c \in Replacements :
              Change([input EXCEPT ![i] = c])
      BY <1>2 DEF ReplaceCharacter
    <2>2. [input EXCEPT ![i] = c] \in Seq(IdCharacters)
      BY <1>2, ExceptSeq DEF ReplaceCharacter, InputsInv, IdCharacters
    <2> QED
      BY <1>2, <2>1, <2>2 DEF ReplaceCharacter, Change, InputsInv
  <1>3. CASE ChangeLength
    <2> DEFINE Text == Seq(IdCharacters)
    <2>1. input \in Text /\ Len(input) \in Nat
      BY <1>3, LenProperties DEF ChangeLength, InputsInv
    <2>2. SubSeq(input, 1, Len(input) - 1) \in Text
      <3>1. \A i \in 1 .. Len(input) - 1 :
                input[i] \in IdCharacters
        BY <2>1, ElementOfSeq
      <3> QED
        BY <2>1, <3>1, SubSeqProperties
    <2>3. Append(input, "0") \in Text
      BY <2>1, AppendProperties DEF IdCharacters
    <2> QED
      BY <1>3, <2>2, <2>3 DEF ChangeLength, Change, InputsInv
  <1>4. CASE ReplaceByte
    <2>1. PICK i \in DOMAIN input, byte \in Bytes :
              Change([input EXCEPT ![i] = byte])
      BY <1>4 DEF ReplaceByte
    <2>2. [input EXCEPT ![i] = byte] \in [0 .. 15 -> 0 .. 255]
      BY <1>4, NumbersAssumption DEF ReplaceByte, InputsInv
    <2> QED
      BY <1>4, <2>1, <2>2 DEF ReplaceByte, Change, InputsInv
  <1>5. CASE Lengthen
    <2>1. Len(input) + 1 \in Nat
      BY <1>5, LenProperties DEF Lengthen, InputsInv
    <2>2. Append(input, <<"text", Len(input) + 1>>) \in Seq({"text"} \X Nat)
      BY <1>5, <2>1, AppendProperties DEF Lengthen, InputsInv
    <2> QED
      BY <1>5, <2>2 DEF Lengthen, Change, InputsInv
  <1>6. CASE Count
    <2>1. input + 1 \in 0 .. 2 * MaxHash + 1
      BY <1>6, NumbersAssumption DEF Count, InputsInv
    <2> QED
      BY <1>6, <2>1 DEF Count, Change, InputsInv
  <1>7. CASE UNCHANGED vars
    BY <1>7 DEF vars, InputsInv
  <1> QED
    BY <1>1, <1>2, <1>3, <1>4, <1>5, <1>6, <1>7 DEF Next

(* Inputs are of their kind throughout, however long they grow and however
   often they are changed. *)
LEMMA InputsInvHolds == Spec => []InputsInv
  <1> QED
    BY InputsInitially, InputsStep, PTL DEF Spec

-----------------------------------------------------------------------------
(* Digests as numbers. *)

(* signed_i64_from_u64 keeps the value modulo 2^64. *)
LEMMA SignedKeepsBits ==
    ASSUME NEW value \in 0 .. 2 * MaxHash + 1
    PROVE  /\ Signed(value, MaxHash) \in MinHash .. MaxHash
           /\ \/ Signed(value, MaxHash) = value
              \/ Signed(value, MaxHash) = value - (2 * MaxHash + 2)
  BY NumbersAssumption DEF Signed, MinHash

(* abs() of a hash as the query takes it. *)
LEMMA AbsoluteInRange ==
    ASSUME NEW hash \in MinHash .. MaxHash
    PROVE  Absolute(hash) \in 0 .. MaxHash
  BY NumbersAssumption DEF Absolute, MinHash

LEMMA SlotInGroup ==
    ASSUME NEW hash \in MinHash .. MaxHash, NEW size \in Nat \ {0}
    PROVE  SlotOfHash(hash, size) \in 0 .. size - 1
  <1> DEFINE absolute == Absolute(hash)
  <1>1. absolute \in Nat
    BY AbsoluteInRange, NumbersAssumption
  <1>2. absolute % size \in 0 .. size - 1
    <2> HIDE DEF absolute
    <2> QED
      BY <1>1
  <1>3. SlotOfHash(hash, size) = absolute % size
    BY <1>1 DEF SlotOfHash, Modulo
  <1> QED
    BY <1>2, <1>3

(* Every digest is a number of the signed range with the same bits, and every
   number of the range, the one without an absolute value included, belongs
   to a member of the group: no stream is lost by the partition of the
   consumer group query. *)
THEOREM DigestsHaveSlots == Spec => []EveryDigestHasASlot
  <1>1. InputsInv => EveryDigestHasASlot
    <2> SUFFICES ASSUME InputsInv, kind = "number"
                 PROVE  LET hash == Signed(input, MaxHash)
                        IN  /\ hash \in MinHash .. MaxHash
                            /\ (hash - input) % (2 * MaxHash + 2) = 0
                            /\ \A size \in 1 .. MaxGroup :
                                   SlotOfHash(hash, size) \in 0 .. size - 1
      BY DEF EveryDigestHasASlot
    <2> DEFINE hash == Signed(input, MaxHash)
               width == 2 * MaxHash + 2
    <2>1. input \in 0 .. 2 * MaxHash + 1
      BY DEF InputsInv
    <2>2. hash \in MinHash .. MaxHash /\ hash - input \in {0, -width}
      BY <2>1, SignedKeepsBits, NumbersAssumption DEF MinHash
    <2>3. width \in Nat \ {0} /\ 0 % width = 0 /\ (-width) % width = 0
      <3> HIDE DEF width
      <3>1. \A w \in Nat \ {0} : 0 % w = 0 /\ (-w) % w = 0
        OBVIOUS
      <3>2. width \in Nat \ {0}
        BY NumbersAssumption DEF width
      <3> QED
        BY <3>1, <3>2
    <2>4. (hash - input) % width = 0
      <3> HIDE DEF hash, width
      <3> QED
        BY <2>2, <2>3
    <2>5. \A size \in 1 .. MaxGroup : SlotOfHash(hash, size) \in 0 .. size - 1
      <3> HIDE DEF hash
      <3> QED
        BY <2>2, SlotInGroup, NumbersAssumption
    <2> QED
      BY <2>2, <2>4, <2>5
  <1> QED
    BY <1>1, InputsInvHolds, PTL
-----------------------------------------------------------------------------
(* Names. *)

LEMMA LeastExists ==
    ASSUME NEW T \in SUBSET Nat, T # {}
    PROVE  \E least \in T : \A other \in T : least <= other
  <1>1. PICK least \in T : \A other \in T :
               ~(<<other, least>> \in OpToRel(<, Nat))
    BY NatLessThanWellFounded, WFMin
  <1>2. \A other \in T : ~(other < least)
    BY <1>1, Zenon DEF OpToRel
  <1> QED
    BY <1>2

(* What the loops over the characters of a name stop at. *)
LEMMA OffsetDefined ==
    ASSUME NEW S, NEW name \in Seq(S), NEW character,
           NEW from \in 0 .. Len(name)
    PROVE  LET offset == OffsetOf(character, name, from)
           IN  /\ offset \in from .. Len(name)
               /\ offset = Len(name) \/ name[offset + 1] = character
               /\ \A j \in from .. offset - 1 : name[j + 1] # character
  <1> DEFINE Stops(i) == i = Len(name) \/ name[i + 1] = character
             T == {i \in from .. Len(name) : Stops(i)}
  <1>1. Len(name) \in Nat
    BY LenProperties
  <1>2. T \in SUBSET Nat /\ Len(name) \in T
    BY <1>1
  <1>3. PICK least \in T : \A other \in T : least <= other
    BY <1>2, LeastExists, Zenon
  <1>4. \A j \in from .. least - 1 : name[j + 1] # character
    <2> SUFFICES ASSUME NEW j \in from .. least - 1, name[j + 1] = character
                 PROVE  FALSE
      OBVIOUS
    <2>1. least \in from .. Len(name)
      BY <1>3
    <2>2. j \in from .. Len(name) /\ j < least
      BY <1>1, <2>1
    <2>3. j \in T
      BY <2>2
    <2> QED
      BY <1>3, <2>1, <2>2, <2>3
  <1>5. \E i \in from .. Len(name) :
            /\ i = Len(name) \/ name[i + 1] = character
            /\ \A j \in from .. i - 1 : name[j + 1] # character
    BY <1>3, <1>4
  <1> QED
    BY <1>5, Zenon DEF OffsetOf

(* The first hyphen of a name: IsCategory is to have none. *)
LEMMA FirstHyphen ==
    ASSUME NEW S, NEW name \in Seq(S)
    PROVE  LET hyphen == OffsetOf("-", name, 0)
           IN  /\ hyphen \in 0 .. Len(name)
               /\ IsCategory(name) <=> hyphen = Len(name)
               /\ ~IsCategory(name) => name[hyphen + 1] = "-"
               /\ \A i \in 1 .. hyphen : name[i] # "-"
  <1> DEFINE hyphen == OffsetOf("-", name, 0)
  <1>1. Len(name) \in Nat
    BY LenProperties
  <1>2. /\ hyphen \in 0 .. Len(name)
        /\ hyphen = Len(name) \/ name[hyphen + 1] = "-"
        /\ \A j \in 0 .. hyphen - 1 : name[j + 1] # "-"
    BY <1>1, OffsetDefined
  <1> HIDE DEF hyphen
  <1>3. \A i \in 1 .. hyphen : name[i] # "-"
    <2> SUFFICES ASSUME NEW i \in 1 .. hyphen PROVE name[i] # "-"
      OBVIOUS
    <2>1. i - 1 \in 0 .. hyphen - 1 /\ (i - 1) + 1 = i
      BY <1>2
    <2> QED
      BY <1>2, <2>1
  <1>4. IsCategory(name) <=> hyphen = Len(name)
    BY <1>1, <1>2, <1>3 DEF IsCategory
  <1> QED
    BY <1>2, <1>3, <1>4 DEF hyphen

(* The fuzzer finds the same hyphen. *)
LEMMA FirstDashIsHyphen ==
    ASSUME NEW S, NEW name \in Seq(S)
    PROVE  FirstDash(name) = OffsetOf("-", name, 0)
  <1> DEFINE hyphen == OffsetOf("-", name, 0)
  <1>1. Len(name) \in Nat
    BY LenProperties
  <1>2. /\ hyphen \in 0 .. Len(name)
        /\ IsCategory(name) <=> hyphen = Len(name)
        /\ ~IsCategory(name) => name[hyphen + 1] = "-"
        /\ \A i \in 1 .. hyphen : name[i] # "-"
    BY FirstHyphen
  <1> HIDE DEF hyphen
  <1> DEFINE First(i) == name[i] = "-" /\ \A j \in 1 .. i - 1 : name[j] # "-"
             first == CHOOSE i \in 1 .. Len(name) : First(i)
  <1>3. FirstDash(name) = IF IsCategory(name) THEN Len(name) ELSE first - 1
    BY Zenon DEF FirstDash, IsCategory
  <1>4. ASSUME ~IsCategory(name)
        PROVE  first = hyphen + 1
    <2>1. hyphen + 1 \in 1 .. Len(name) /\ First(hyphen + 1)
      BY <1>1, <1>2, <1>4
    <2>2. \A i \in 1 .. Len(name) : First(i) => i = hyphen + 1
      BY <1>1, <1>2, <2>1
    <2> QED
      <3> HIDE DEF First
      <3> QED
        BY <2>1, <2>2
  <1> HIDE DEF first
  <1> QED
    BY <1>1, <1>2, <1>3, <1>4 DEF hyphen

(* The spans of a name, as records of numbers. *)
LEMMA SpansOfName ==
    ASSUME NEW S, NEW name \in Seq(S)
    PROVE  LET hyphen == OffsetOf("-", name, 0)
               plus == OffsetOf("+", name, hyphen + 1)
           IN  /\ CategorySpan(name)
                       = [offset |-> 0, length |-> hyphen, present |-> TRUE]
               /\ IsCategory(name) => /\ IdSpan(name) = NoSpan
                                      /\ CardinalIdSpan(name) = NoSpan
               /\ ~IsCategory(name) =>
                      /\ hyphen + 1 \in 1 .. Len(name)
                      /\ plus \in hyphen + 1 .. Len(name)
                      /\ plus = Len(name) \/ name[plus + 1] = "+"
                      /\ \A i \in hyphen + 2 .. plus : name[i] # "+"
                      /\ IdSpan(name)
                             = [offset |-> hyphen + 1,
                                length |-> Len(name) - (hyphen + 1),
                                present |-> TRUE]
                      /\ CardinalIdSpan(name)
                             = [offset |-> hyphen + 1,
                                length |-> plus - (hyphen + 1),
                                present |-> TRUE]
  <1> DEFINE hyphen == OffsetOf("-", name, 0)
             plus == OffsetOf("+", name, hyphen + 1)
  <1>1. /\ Len(name) \in Nat /\ hyphen \in 0 .. Len(name)
        /\ IsCategory(name) <=> hyphen = Len(name)
    BY LenProperties, FirstHyphen
  <1>2. CategorySpan(name)
            = [offset |-> 0, length |-> hyphen, present |-> TRUE]
    BY DEF CategorySpan
  <1>3. ASSUME IsCategory(name)
        PROVE  IdSpan(name) = NoSpan /\ CardinalIdSpan(name) = NoSpan
    BY <1>3 DEF IdSpan, CardinalIdSpan, NoSpan
  <1>4. ASSUME ~IsCategory(name)
        PROVE  /\ hyphen + 1 \in 1 .. Len(name)
               /\ plus \in hyphen + 1 .. Len(name)
               /\ plus = Len(name) \/ name[plus + 1] = "+"
               /\ \A i \in hyphen + 2 .. plus : name[i] # "+"
               /\ IdSpan(name) = [offset |-> hyphen + 1,
                                  length |-> Len(name) - (hyphen + 1),
                                  present |-> TRUE]
               /\ CardinalIdSpan(name) = [offset |-> hyphen + 1,
                                          length |-> plus - (hyphen + 1),
                                          present |-> TRUE]
    <2>1. hyphen + 1 \in 1 .. Len(name)
      <3> HIDE DEF hyphen
      <3> QED
        BY <1>1, <1>4
    <2>2. /\ plus \in hyphen + 1 .. Len(name)
          /\ plus = Len(name) \/ name[plus + 1] = "+"
          /\ \A j \in hyphen + 1 .. plus - 1 : name[j + 1] # "+"
      <3>1. hyphen + 1 \in 0 .. Len(name)
        BY <2>1, <1>1
      <3> HIDE DEF hyphen
      <3> QED
        BY <3>1, OffsetDefined
    <2>3. IdSpan(name) = [offset |-> hyphen + 1,
                          length |-> Len(name) - (hyphen + 1),
                          present |-> TRUE]
      BY <1>4 DEF IdSpan
    <2>4. CardinalIdSpan(name) = [offset |-> hyphen + 1,
                                  length |-> plus - (hyphen + 1),
                                  present |-> TRUE]
      <3> HIDE DEF hyphen
      <3>1. IdSpan(name).present /\ IdSpan(name).offset = hyphen + 1
        BY <2>3
      <3>2. CardinalIdSpan(name)
                = [IdSpan(name) EXCEPT !.length = plus - (hyphen + 1)]
        BY <3>1, Zenon DEF CardinalIdSpan
      <3> HIDE DEF plus
      <3>3. PICK yes : yes = TRUE
        OBVIOUS
      <3>4. IdSpan(name) = [offset |-> hyphen + 1,
                            length |-> Len(name) - (hyphen + 1),
                            present |-> yes]
        BY <2>3, <3>3, Zenon
      <3>5. CardinalIdSpan(name) = [offset |-> hyphen + 1,
                                    length |-> plus - (hyphen + 1),
                                    present |-> yes]
        BY <3>2, <3>4
      <3> QED
        BY <3>3, <3>5, Zenon
    <2>5. ASSUME NEW i \in hyphen + 2 .. plus
          PROVE  name[i] # "+"
      <3> HIDE DEF hyphen, plus
      <3>1. i - 1 \in hyphen + 1 .. plus - 1 /\ (i - 1) + 1 = i
        BY <1>1, <2>2
      <3> QED
        BY <2>2, <3>1
    <2> HIDE DEF hyphen, plus
    <2> QED
      BY <2>1, <2>2, <2>3, <2>4, <2>5
  <1> QED
    <2> HIDE DEF hyphen, plus
    <2>1. /\ IsCategory(name) => /\ IdSpan(name) = NoSpan
                                 /\ CardinalIdSpan(name) = NoSpan
          /\ ~IsCategory(name) =>
                 /\ hyphen + 1 \in 1 .. Len(name)
                 /\ plus \in hyphen + 1 .. Len(name)
                 /\ plus = Len(name) \/ name[plus + 1] = "+"
                 /\ \A i \in hyphen + 2 .. plus : name[i] # "+"
                 /\ IdSpan(name) = [offset |-> hyphen + 1,
                                    length |-> Len(name) - (hyphen + 1),
                                    present |-> TRUE]
                 /\ CardinalIdSpan(name) = [offset |-> hyphen + 1,
                                            length |-> plus - (hyphen + 1),
                                            present |-> TRUE]
      BY <1>3, <1>4
    <2> QED
      BY <1>2, <2>1 DEF hyphen, plus

(* No offset or length leads out of the bytes of a name, whatever it consists
   of: unsigned subtraction never wraps in id_span and cardinal_id_span, and
   the spans are those that the fuzzer finds by itself. *)
THEOREM SpansAlwaysInBounds == Spec => []SpansInBounds
  <1>1. InputsInv => SpansInBounds
    <2> SUFFICES ASSUME InputsInv, kind = "name"
                 PROVE  RequireSpans(input)
      BY DEF SpansInBounds
    <2> DEFINE hyphen == OffsetOf("-", input, 0)
               plus == OffsetOf("+", input, hyphen + 1)
    <2>1. input \in Seq(Characters) /\ Len(input) \in Nat
      BY LenProperties DEF InputsInv
    <2>2. /\ FirstDash(input) = hyphen /\ hyphen \in 0 .. Len(input)
          /\ IsCategory(input) <=> hyphen = Len(input)
      BY <2>1, FirstHyphen, FirstDashIsHyphen
    <2>3. CategorySpan(input)
              = [offset |-> 0, length |-> hyphen, present |-> TRUE]
      BY <2>1, SpansOfName
    <2>4. IsCategory(input) => /\ IdSpan(input) = NoSpan
                               /\ CardinalIdSpan(input) = NoSpan
      BY <2>1, SpansOfName
    <2>5. ~IsCategory(input) =>
              /\ hyphen + 1 \in 1 .. Len(input)
              /\ plus \in hyphen + 1 .. Len(input)
              /\ plus = Len(input) \/ input[plus + 1] = "+"
              /\ \A i \in hyphen + 2 .. plus : input[i] # "+"
              /\ IdSpan(input) = [offset |-> hyphen + 1,
                                  length |-> Len(input) - (hyphen + 1),
                                  present |-> TRUE]
              /\ CardinalIdSpan(input) = [offset |-> hyphen + 1,
                                          length |-> plus - (hyphen + 1),
                                          present |-> TRUE]
      BY <2>1, SpansOfName
    <2> HIDE DEF hyphen, plus
    <2>6. CASE IsCategory(input)
      BY <2>1, <2>2, <2>3, <2>4, <2>6 DEF RequireSpans, InBounds, NoSpan
    <2>7. CASE ~IsCategory(input)
      <3> DEFINE end == CardinalIdSpan(input).offset
                            + CardinalIdSpan(input).length
      <3>1. end = plus
        BY <2>2, <2>5, <2>7
      <3> HIDE DEF end
      <3>2. /\ hyphen < Len(input)
            /\ \A i \in hyphen + 2 .. end : input[i] # "+"
            /\ end = Len(input) \/ input[end + 1] = "+"
        BY <2>1, <2>2, <2>5, <2>7, <3>1
      <3>3. \A span \in {CategorySpan(input), IdSpan(input),
                         CardinalIdSpan(input)} : InBounds(span, Len(input))
        BY <2>1, <2>2, <2>3, <2>5, <2>7 DEF InBounds
      <3> QED
        BY <2>2, <2>3, <2>5, <2>7, <3>2, <3>3 DEF RequireSpans, end
    <2> QED
      BY <2>6, <2>7
  <1> QED
    BY <1>1, InputsInvHolds, PTL

(* The texts of the spans. *)
LEMMA TextsOfName ==
    ASSUME NEW S, NEW name \in Seq(S), Null \notin Seq(S)
    PROVE  LET hyphen == OffsetOf("-", name, 0)
               plus == OffsetOf("+", name, hyphen + 1)
           IN  /\ Category(name) = SubSeq(name, 1, hyphen)
               /\ IsCategory(name) => Id(name) = Null /\ CardinalId(name) = Null
               /\ ~IsCategory(name) =>
                      /\ Id(name) = SubSeq(name, hyphen + 2, Len(name))
                      /\ CardinalId(name) = SubSeq(name, hyphen + 2, plus)
  <1> DEFINE hyphen == OffsetOf("-", name, 0)
             plus == OffsetOf("+", name, hyphen + 1)
  <1>1. name # Null /\ Len(name) \in Nat /\ hyphen \in 0 .. Len(name)
    BY LenProperties, FirstHyphen
  <1>2. CategorySpan(name)
            = [offset |-> 0, length |-> hyphen, present |-> TRUE]
    BY SpansOfName
  <1>3. IsCategory(name) => /\ IdSpan(name) = NoSpan
                            /\ CardinalIdSpan(name) = NoSpan
    BY SpansOfName
  <1>4. ~IsCategory(name) =>
            /\ plus \in hyphen + 1 .. Len(name)
            /\ IdSpan(name) = [offset |-> hyphen + 1,
                               length |-> Len(name) - (hyphen + 1),
                               present |-> TRUE]
            /\ CardinalIdSpan(name) = [offset |-> hyphen + 1,
                                       length |-> plus - (hyphen + 1),
                                       present |-> TRUE]
    BY SpansOfName
  <1> HIDE DEF hyphen, plus
  <1>5. Category(name) = SubSeq(name, 1, hyphen)
    BY <1>1, <1>2 DEF Category, TextOf
  <1>6. IsCategory(name) => Id(name) = Null /\ CardinalId(name) = Null
    BY <1>1, <1>3 DEF Id, CardinalId, TextOf, NoSpan
  <1>7. ASSUME ~IsCategory(name)
        PROVE  /\ Id(name) = SubSeq(name, hyphen + 2, Len(name))
               /\ CardinalId(name) = SubSeq(name, hyphen + 2, plus)
    <2>1. /\ (hyphen + 1) + 1 = hyphen + 2
          /\ (hyphen + 1) + (Len(name) - (hyphen + 1)) = Len(name)
          /\ (hyphen + 1) + (plus - (hyphen + 1)) = plus
      BY <1>1, <1>4, <1>7
    <2>2. Id(name) = SubSeq(name, hyphen + 2, Len(name))
      BY <1>1, <1>4, <1>7, <2>1 DEF Id, TextOf
    <2>3. CardinalId(name) = SubSeq(name, hyphen + 2, plus)
      BY <1>1, <1>4, <1>7, <2>1 DEF CardinalId, TextOf
    <2> QED
      BY <2>2, <2>3
  <1> QED
    BY <1>5, <1>6, <1>7 DEF hyphen, plus

LEMMA SplitAnywhere ==
    ASSUME NEW S, NEW text \in Seq(S), NEW k \in 0 .. Len(text)
    PROVE  SubSeq(text, 1, k) \o SubSeq(text, k + 1, Len(text)) = text
  <1>1. \A m \in 1 .. Len(text) + 1 : \A j \in m - 1 .. Len(text) :
        \A n \in j .. Len(text) :
            SubSeq(text, m, j) \o SubSeq(text, j + 1, n) = SubSeq(text, m, n)
    BY ConcatAdjacentSubSeq
  <1>2. 1 \in 1 .. Len(text) + 1 /\ 0 = 1 - 1 /\ Len(text) \in k .. Len(text)
    BY LenProperties
  <1>3. SubSeq(text, 1, k) \o SubSeq(text, k + 1, Len(text))
            = SubSeq(text, 1, Len(text))
    BY <1>1, <1>2, Zenon
  <1> QED
    BY <1>3, SubSeqFull

(* A category is a category: it has no hyphen, and is its own category. *)
LEMMA CategoryOfCategory ==
    ASSUME NEW S, NEW name \in Seq(S), Null \notin Seq(S)
    PROVE  /\ Category(name) \in Seq(S)
           /\ IsCategory(Category(name))
           /\ IsCategory(name) => Category(name) = name
  <1> DEFINE hyphen == OffsetOf("-", name, 0)
  <1>1. /\ Len(name) \in Nat /\ hyphen \in 0 .. Len(name)
        /\ IsCategory(name) <=> hyphen = Len(name)
        /\ \A i \in 1 .. hyphen : name[i] # "-"
    BY LenProperties, FirstHyphen
  <1>2. Category(name) = SubSeq(name, 1, hyphen)
    BY TextsOfName
  <1> HIDE DEF hyphen
  <1>3. \A i \in 1 .. hyphen : name[i] \in S
    BY <1>1, ElementOfSeq
  <1>4. /\ Category(name) \in Seq(S)
        /\ Len(Category(name)) = hyphen
        /\ \A i \in 1 .. hyphen : Category(name)[i] = name[i]
    BY <1>1, <1>2, <1>3, SubSeqProperties
  <1>5. IsCategory(Category(name))
    BY <1>1, <1>4 DEF IsCategory
  <1>6. IsCategory(name) => Category(name) = name
    BY <1>1, <1>2, SubSeqFull
  <1> QED
    BY <1>4, <1>5, <1>6

(* category() and id() of a name of any length give the name back, and a
   category stays what it is: the expression index on category(stream_name)
   and the category that a retrieval asks for speak of the same streams. *)
THEOREM SplitsLoseNothing == Spec => []SplitLosesNothing
  <1>1. InputsInv => SplitLosesNothing
    <2> SUFFICES ASSUME InputsInv, kind = "name"
                 PROVE  /\ IsCategory(Category(input))
                        /\ Category(Category(input)) = Category(input)
                        /\ IF IsCategory(input)
                           THEN Category(input) = input /\ Id(input) = Null
                           ELSE input = Category(input) \o <<"-">> \o Id(input)
      BY DEF SplitLosesNothing
    <2> DEFINE hyphen == OffsetOf("-", input, 0)
    <2>1. input \in Seq(Characters) /\ Null \notin Seq(Characters)
      BY NullAssumption DEF InputsInv
    <2>2. /\ Category(input) \in Seq(Characters)
          /\ IsCategory(Category(input))
          /\ Category(Category(input)) = Category(input)
          /\ IsCategory(input) => Category(input) = input
      BY <2>1, CategoryOfCategory
    <2>3. IsCategory(input) => Id(input) = Null
      BY <2>1, TextsOfName
    <2>4. ASSUME ~IsCategory(input)
          PROVE  input = Category(input) \o <<"-">> \o Id(input)
      <3>1. /\ Len(input) \in Nat /\ hyphen + 1 \in 1 .. Len(input)
            /\ input[hyphen + 1] = "-" /\ hyphen \in 0 .. Len(input)
        BY <2>1, <2>4, LenProperties, FirstHyphen, SpansOfName
      <3>2. /\ Category(input) = SubSeq(input, 1, hyphen)
            /\ Id(input) = SubSeq(input, hyphen + 2, Len(input))
        BY <2>1, <2>4, TextsOfName
      <3> HIDE DEF hyphen
      <3>3. SubSeq(input, 1, hyphen + 1) = SubSeq(input, 1, hyphen) \o <<"-">>
        <4>1. \A n \in 1 .. Len(input) :
                  SubSeq(input, 1, n) = SubSeq(input, 1, n - 1) \o <<input[n]>>
          BY <2>1, <3>1, SubSeqRecursiveSecond
        <4>2. SubSeq(input, 1, hyphen + 1)
                  = SubSeq(input, 1, (hyphen + 1) - 1) \o <<input[hyphen + 1]>>
          BY <3>1, <4>1, Zenon
        <4>3. (hyphen + 1) - 1 = hyphen /\ input[hyphen + 1] = "-"
          BY <3>1
        <4> QED
          BY <4>2, <4>3, Zenon
      <3>4. SubSeq(input, 1, hyphen + 1) \o SubSeq(input, hyphen + 2, Len(input))
                = input
        <4>1. \A k \in 0 .. Len(input) :
                  SubSeq(input, 1, k) \o SubSeq(input, k + 1, Len(input)) = input
          BY <2>1, SplitAnywhere
        <4>2. (hyphen + 1) + 1 = hyphen + 2 /\ hyphen + 1 \in 0 .. Len(input)
          BY <3>1
        <4>3. SubSeq(input, 1, hyphen + 1)
                  \o SubSeq(input, (hyphen + 1) + 1, Len(input)) = input
          BY <4>1, <4>2, Zenon
        <4> QED
          BY <4>2, <4>3, Zenon
      <3> QED
        BY <3>2, <3>3, <3>4
    <2> QED
      BY <2>2, <2>3, <2>4
  <1> QED
    BY <1>1, InputsInvHolds, PTL

(* What a prefix keeps of the offsets in a longer name. *)
LEMMA OffsetOfAppended ==
    ASSUME NEW S, NEW name \in Seq(S), NEW c \in S, NEW character,
           NEW from \in 0 .. Len(name),
           OffsetOf(character, name, from) # Len(name)
    PROVE  OffsetOf(character, Append(name, c), from)
               = OffsetOf(character, name, from)
  <1> DEFINE longer == Append(name, c)
             offset == OffsetOf(character, name, from)
             other == OffsetOf(character, longer, from)
  <1>1. /\ longer \in Seq(S) /\ Len(name) \in Nat
        /\ Len(longer) = Len(name) + 1
        /\ \A i \in 1 .. Len(name) : longer[i] = name[i]
    BY AppendProperties, LenProperties
  <1>2. /\ offset \in from .. Len(name) - 1
        /\ name[offset + 1] = character
        /\ \A j \in from .. offset - 1 : name[j + 1] # character
    <2>1. /\ offset \in from .. Len(name)
          /\ offset = Len(name) \/ name[offset + 1] = character
          /\ \A j \in from .. offset - 1 : name[j + 1] # character
      BY OffsetDefined
    <2>2. offset # Len(name)
      OBVIOUS
    <2> HIDE DEF offset
    <2> QED
      BY <1>1, <2>1, <2>2
  <1>3. /\ other \in from .. Len(longer)
        /\ other = Len(longer) \/ longer[other + 1] = character
        /\ \A j \in from .. other - 1 : longer[j + 1] # character
    <2>1. from \in 0 .. Len(longer)
      <3> HIDE DEF longer
      <3> QED
        BY <1>1
    <2> HIDE DEF longer
    <2> QED
      BY <1>1, <2>1, OffsetDefined
  <1> HIDE DEF longer, offset, other
  <1>4. \A j \in from .. Len(name) - 1 : longer[j + 1] = name[j + 1]
    BY <1>1
  <1>5. ~(other < offset)
    <2> SUFFICES ASSUME other < offset PROVE FALSE
      OBVIOUS
    <2>1. other \in from .. offset - 1 /\ other \in from .. Len(name) - 1
      BY <1>1, <1>2, <1>3
    <2>2. longer[other + 1] = character
      BY <1>1, <1>3, <2>1
    <2> QED
      BY <1>2, <1>4, <2>1, <2>2
  <1>6. ~(offset < other)
    <2> SUFFICES ASSUME offset < other PROVE FALSE
      OBVIOUS
    <2>1. offset \in from .. other - 1
      BY <1>1, <1>2, <1>3
    <2>2. longer[offset + 1] # character /\ longer[offset + 1] = name[offset + 1]
      BY <1>2, <1>3, <1>4, <2>1
    <2> QED
      BY <1>2, <2>2
  <1> QED
    BY <1>2, <1>3, <1>5, <1>6 DEF offset, other, longer

LEMMA SubSeqOfAppended ==
    ASSUME NEW S, NEW name \in Seq(S), NEW c \in S,
           NEW m \in 1 .. Len(name) + 1, NEW n \in 0 .. Len(name)
    PROVE  SubSeq(Append(name, c), m, n) = SubSeq(name, m, n)
  <1> DEFINE longer == Append(name, c)
  <1>1. /\ longer \in Seq(S) /\ Len(name) \in Nat
        /\ \A i \in 1 .. Len(name) : longer[i] = name[i] /\ name[i] \in S
    BY AppendProperties, LenProperties, ElementOfSeq
  <1> HIDE DEF longer
  <1>2. /\ \A i \in m .. n : longer[i] \in S /\ name[i] \in S
        /\ \A i \in 1 .. n - m + 1 : longer[m + i - 1] = name[m + i - 1]
    BY <1>1
  <1>3. /\ SubSeq(longer, m, n) \in Seq(S) /\ SubSeq(name, m, n) \in Seq(S)
        /\ Len(SubSeq(longer, m, n)) = Len(SubSeq(name, m, n))
        /\ Len(SubSeq(name, m, n)) = IF m <= n THEN n - m + 1 ELSE 0
        /\ \A i \in 1 .. n - m + 1 : SubSeq(longer, m, n)[i] = longer[m + i - 1]
        /\ \A i \in 1 .. n - m + 1 : SubSeq(name, m, n)[i] = name[m + i - 1]
    BY <1>2, SubSeqProperties
  <1>4. \A i \in 1 .. Len(SubSeq(name, m, n)) :
            SubSeq(longer, m, n)[i] = SubSeq(name, m, n)[i]
    BY <1>2, <1>3
  <1> QED
    BY <1>3, <1>4, SeqEqual DEF longer

(* Whatever follows the first hyphen, the category stays; whatever follows
   the first "+" of the id, the cardinal id stays. *)
LEMMA AppendedKeeps ==
    ASSUME NEW S, NEW name \in Seq(S), NEW c \in S, Null \notin Seq(S)
    PROVE  /\ ~IsCategory(name) => Category(Append(name, c)) = Category(name)
           /\ Id(name) # CardinalId(name)
                  => CardinalId(Append(name, c)) = CardinalId(name)
  <1> DEFINE longer == Append(name, c)
             hyphen == OffsetOf("-", name, 0)
             plus == OffsetOf("+", name, hyphen + 1)
  <1>1. /\ longer \in Seq(S) /\ Len(name) \in Nat
        /\ Len(longer) = Len(name) + 1
    BY AppendProperties, LenProperties
  <1>2. /\ hyphen \in 0 .. Len(name)
        /\ IsCategory(name) <=> hyphen = Len(name)
    BY FirstHyphen
  <1>3. SUFFICES ASSUME ~IsCategory(name)
                 PROVE  /\ Category(longer) = Category(name)
                        /\ Id(name) # CardinalId(name)
                               => CardinalId(longer) = CardinalId(name)
    BY TextsOfName
  <1>4. OffsetOf("-", longer, 0) = hyphen
    <2>1. 0 \in 0 .. Len(name) /\ hyphen # Len(name)
      BY <1>1, <1>2, <1>3
    <2> QED
      BY <2>1, OffsetOfAppended
  <1>5. /\ Category(name) = SubSeq(name, 1, hyphen)
        /\ Category(longer) = SubSeq(longer, 1, hyphen)
    BY <1>1, <1>4, TextsOfName
  <1>6. SubSeq(longer, 1, hyphen) = SubSeq(name, 1, hyphen)
    <2>1. 1 \in 1 .. Len(name) + 1
      BY <1>1
    <2> QED
      BY <1>2, <2>1, SubSeqOfAppended
  <1>7. ASSUME Id(name) # CardinalId(name)
        PROVE  CardinalId(longer) = CardinalId(name)
    <2>1. /\ Id(name) = SubSeq(name, hyphen + 2, Len(name))
          /\ CardinalId(name) = SubSeq(name, hyphen + 2, plus)
          /\ hyphen + 1 \in 1 .. Len(name)
          /\ plus \in hyphen + 1 .. Len(name)
      BY <1>3, TextsOfName, SpansOfName
    <2>2. plus # Len(name)
      BY <1>7, <2>1
    <2>3. OffsetOf("+", longer, hyphen + 1) = plus
      <3>1. hyphen + 1 \in 0 .. Len(name)
        BY <2>1, <1>1
      <3> HIDE DEF hyphen
      <3> QED
        BY <2>2, <3>1, OffsetOfAppended
    <2>4. ~IsCategory(longer)
      <3>1. OffsetOf("-", longer, 0) # Len(longer)
        <4> HIDE DEF hyphen, longer
        <4> QED
          BY <1>1, <1>2, <1>4
      <3> QED
        BY <1>1, <3>1, FirstHyphen
    <2>5. CardinalId(longer) = SubSeq(longer, hyphen + 2, plus)
      BY <1>1, <1>4, <2>3, <2>4, TextsOfName
    <2>6. SubSeq(longer, hyphen + 2, plus) = SubSeq(name, hyphen + 2, plus)
      <3> HIDE DEF hyphen, plus
      <3>1. hyphen + 2 \in 1 .. Len(name) + 1 /\ plus \in 0 .. Len(name)
        BY <1>1, <1>2, <2>1
      <3> QED
        BY <3>1, SubSeqOfAppended DEF longer
    <2> QED
      BY <2>1, <2>5, <2>6
  <1> QED
    BY <1>5, <1>6, <1>7

(* However long a name grows behind its first "+", it keeps its cardinal id
   and with it its hash and its consumer group member, so that the compound
   streams of one entity are read by one member. *)
THEOREM CompoundsKeepTheirCardinalId == Spec => CompoundsKeepCardinalId
  <1>1. InputsInv /\ [Next]_vars =>
            [ kind = "name" =>
                  /\ ~IsCategory(input) => Category(input') = Category(input)
                  /\ Id(input) # CardinalId(input)
                         => CardinalId(input') = CardinalId(input)
            ]_vars
    <2> SUFFICES ASSUME InputsInv, Next, kind = "name"
                 PROVE  /\ ~IsCategory(input)
                               => Category(input') = Category(input)
                        /\ Id(input) # CardinalId(input)
                               => CardinalId(input') = CardinalId(input)
      OBVIOUS
    <2>1. Type
      BY DEF Next, ReplaceCharacter, ChangeLength, ReplaceByte, Lengthen, Count
    <2>2. PICK c \in Characters : input' = Append(input, c)
      BY <2>1 DEF Type, Change
    <2>3. input \in Seq(Characters) /\ Null \notin Seq(Characters)
      BY NullAssumption DEF InputsInv
    <2> QED
      BY <2>2, <2>3, AppendedKeeps
  <1> QED
    BY <1>1, InputsInvHolds, PTL DEF Spec, CompoundsKeepCardinalId

-----------------------------------------------------------------------------
(* Message ids. *)

LEMMA LowerHexValues ==
    /\ LowerHex("A") = "a" /\ LowerHex("B") = "b" /\ LowerHex("C") = "c"
    /\ LowerHex("D") = "d" /\ LowerHex("E") = "e" /\ LowerHex("F") = "f"
    /\ \A c : c \notin {"A", "B", "C", "D", "E", "F"} => LowerHex(c) = c
  <1>1. \A c : (\E i \in 1 .. 6 : c = UpperLetters[i])
                   <=> c \in {"A", "B", "C", "D", "E", "F"}
    BY DEF UpperLetters
  <1>2. \A c : c \notin {"A", "B", "C", "D", "E", "F"} => LowerHex(c) = c
    BY <1>1, Zenon DEF LowerHex
  <1>3. ASSUME NEW n \in 1 .. 6
        PROVE  LowerHex(UpperLetters[n]) = Digits[10 + n]
    <2>1. \A i \in 1 .. 6 : UpperLetters[n] = UpperLetters[i] => i = n
      BY DEF UpperLetters
    <2>2. (CHOOSE i \in 1 .. 6 : UpperLetters[n] = UpperLetters[i]) = n
      BY <2>1
    <2> QED
      BY <2>2, Zenon DEF LowerHex
  <1>4. /\ LowerHex("A") = "a" /\ LowerHex("B") = "b" /\ LowerHex("C") = "c"
        /\ LowerHex("D") = "d" /\ LowerHex("E") = "e" /\ LowerHex("F") = "f"
    BY <1>3 DEF UpperLetters, Digits
  <1> QED
    BY <1>2, <1>4

LEMMA HexCharacters ==
    /\ LowerHexDigits = {"0", "1", "2", "3", "4", "5", "6", "7", "8", "9",
                         "a", "b", "c", "d", "e", "f"}
    /\ \A c : IsHex(c) <=> \/ c \in LowerHexDigits
                           \/ c \in {"A", "B", "C", "D", "E", "F"}
  <1>1. \A c : c \in {UpperLetters[i] : i \in 1 .. 6}
                   <=> c \in {"A", "B", "C", "D", "E", "F"}
    BY DEF UpperLetters
  <1>2. \A c : c \in LowerHexDigits
                   <=> c \in {"0", "1", "2", "3", "4", "5", "6", "7", "8",
                              "9", "a", "b", "c", "d", "e", "f"}
    BY SMTT(30) DEF LowerHexDigits, Digits
  <1> QED
    BY <1>1, <1>2, Zenon DEF IsHex

(* Lower case has no other hexadecimal digits, hyphens, versions or variants
   than the text it is made from. *)
LEMMA LoweredCharacter ==
    ASSUME NEW c
    PROVE  /\ IsHex(LowerHex(c)) <=> IsHex(c)
           /\ IsHex(c) => LowerHex(c) \in LowerHexDigits
           /\ c \in LowerHexDigits \cup {"-"} => LowerHex(c) = c
           /\ LowerHex(LowerHex(c)) = LowerHex(c)
           /\ LowerHex(c) = "-" <=> c = "-"
           /\ LowerHex(c) = "4" <=> c = "4"
           /\ LowerHex(c) \in {"8", "9", "a", "b"}
                  <=> c \in {"8", "9", "A", "a", "B", "b"}
  <1>1. CASE c \in {"A", "B", "C", "D", "E", "F"}
    BY <1>1, LowerHexValues, HexCharacters
  <1>2. CASE c \notin {"A", "B", "C", "D", "E", "F"}
    <2>1. LowerHex(c) = c
      BY <1>2, LowerHexValues
    <2> QED
      BY <1>2, <2>1, HexCharacters
  <1> QED
    BY <1>1, <1>2

Accepted(text) ==
    /\ UuidShaped(text)
    /\ text[15] = "4"
    /\ LowerHex(text[20]) \in {"8", "9", "a", "b"}

(* What the GLOB pattern has at each place. *)
LEMMA GlobPlaces ==
    \A i \in 1 .. 36 :
        Glob[i] = IF i - 1 \in HyphenPositions THEN {"-"}
                  ELSE IF i = 15 THEN {"4"}
                  ELSE IF i = 20 THEN {"8", "9", "A", "a", "B", "b"}
                  ELSE HexClass
  <1>1. \A i \in 1 .. 36 : i - 1 \in HyphenPositions <=> i \in {9, 14, 19, 24}
    BY DEF HyphenPositions
  <1>2. /\ Glob[9] = {"-"} /\ Glob[14] = {"-"}
        /\ Glob[19] = {"-"} /\ Glob[24] = {"-"}
        /\ Glob[15] = {"4"} /\ Glob[20] = {"8", "9", "A", "a", "B", "b"}
    BY DEF Glob
  <1>3. \A i \in 1 .. 36 \ {9, 14, 15, 19, 20, 24} : Glob[i] = HexClass
    BY DEF Glob
  <1> QED
    BY <1>1, <1>2, <1>3

(* The classes of the pattern are the characters that the code takes. *)
LEMMA HexClassIsHex == \A c : c \in HexClass <=> IsHex(c)
  BY HexCharacters, Zenon DEF HexClass

LEMMA AcceptedByColumn ==
    ASSUME NEW text
    PROVE  Accepted(text) <=> ColumnAccepts(text)
  <1> DEFINE Places == \A i \in 1 .. 36 :
                 IF i - 1 \in HyphenPositions THEN text[i] = "-"
                                              ELSE IsHex(text[i])
  <1>1. UuidShaped(text) <=> Len(text) = 36 /\ Places
    <2>1. \A i \in 1 .. 36 : i - 1 \in 0 .. 35 /\ (i - 1) + 1 = i
      OBVIOUS
    <2>2. \A i \in 0 .. 35 : i + 1 \in 1 .. 36 /\ (i + 1) - 1 = i
      OBVIOUS
    <2> QED
      BY <2>1, <2>2 DEF UuidShaped
  <1>2. 14 \notin HyphenPositions /\ 19 \notin HyphenPositions
    BY DEF HyphenPositions
  <1>3. IsHex("4") /\ \A c \in {"8", "9", "A", "a", "B", "b"} : IsHex(c)
    BY HexCharacters
  <1>4. LowerHex(text[20]) \in {"8", "9", "a", "b"}
            <=> text[20] \in {"8", "9", "A", "a", "B", "b"}
    BY LoweredCharacter
  <1>5. ASSUME Places, text[15] = "4",
               text[20] \in {"8", "9", "A", "a", "B", "b"}
        PROVE  \A i \in 1 .. 36 : text[i] \in Glob[i]
    BY <1>5, GlobPlaces, HexClassIsHex
  <1>6. ASSUME \A i \in 1 .. 36 : text[i] \in Glob[i]
        PROVE  /\ Places
               /\ text[15] = "4"
               /\ text[20] \in {"8", "9", "A", "a", "B", "b"}
    <2>1. text[15] = "4" /\ text[20] \in {"8", "9", "A", "a", "B", "b"}
      BY <1>2, <1>6, GlobPlaces
    <2>2. Places
      BY <1>3, <1>6, <2>1, GlobPlaces, HexClassIsHex
    <2> QED
      BY <2>1, <2>2
  <1> HIDE DEF Places
  <1> QED
    BY <1>1, <1>4, <1>5, <1>6 DEF Accepted, ColumnAccepts

(* The id that is stored for an accepted text. *)
LEMMA CanonicalForm ==
    ASSUME NEW text, Accepted(text)
    PROVE  /\ Canonical(text) = [i \in 1 .. 36 |-> LowerHex(text[i])]
           /\ Canonical(text) # NoUuid
           /\ CanonicalOutput(Canonical(text))
           /\ Accepted(Canonical(text))
           /\ Canonical(Canonical(text)) = Canonical(text)
  <1> DEFINE id == [i \in 1 .. 36 |-> LowerHex(text[i])]
  <1>1. Canonical(text) = id
    BY Zenon DEF Canonical, Accepted
  <1>2. \A i \in 1 .. 36 :
            id[i] = LowerHex(text[i]) /\ LowerHex(id[i]) = id[i]
    BY LoweredCharacter
  <1>3. \A i \in 1 .. 36 : IF i - 1 \in HyphenPositions THEN id[i] = "-"
                             ELSE id[i] \in LowerHexDigits
    <2> SUFFICES ASSUME NEW i \in 1 .. 36
                 PROVE  IF i - 1 \in HyphenPositions THEN id[i] = "-"
                        ELSE id[i] \in LowerHexDigits
      OBVIOUS
    <2>1. i - 1 \in 0 .. 35 /\ (i - 1) + 1 = i
      OBVIOUS
    <2>2. IF i - 1 \in HyphenPositions THEN text[i] = "-"
                                       ELSE IsHex(text[i])
      BY <2>1 DEF Accepted, UuidShaped
    <2> QED
      BY <1>2, <2>2, LoweredCharacter
  <1>4. id \in [1 .. 36 -> LowerHexDigits \cup {"-"}] /\ Len(id) = 36
    BY <1>3
  <1>5. id[15] = "4" /\ id[20] \in {"8", "9", "a", "b"}
    BY LoweredCharacter DEF Accepted
  <1>6. id # NoUuid
    BY <1>4, NullAssumption
  <1> HIDE DEF id
  <1>7. CanonicalOutput(id)
    BY <1>3, <1>4, <1>5 DEF CanonicalOutput
  <1>8. UuidShaped(id)
    <2>1. ASSUME NEW i \in 0 .. 35
          PROVE  IF i \in HyphenPositions THEN id[i + 1] = "-"
                                          ELSE IsHex(id[i + 1])
      <3>1. i + 1 \in 1 .. 36 /\ (i + 1) - 1 = i
        OBVIOUS
      <3> QED
        BY <1>3, <3>1 DEF IsHex
    <2> QED
      BY <1>4, <2>1 DEF UuidShaped
  <1>9. Accepted(id)
    BY <1>2, <1>5, <1>8 DEF Accepted
  <1>10. Canonical(id) = id
    <2>1. Canonical(id) = [i \in 1 .. 36 |-> LowerHex(id[i])]
      BY <1>9, Zenon DEF Canonical, Accepted
    <2> QED
      BY <1>2, <1>4, <2>1
  <1> QED
    BY <1>1, <1>6, <1>7, <1>9, <1>10 DEF id

(* The case of the letters is of no account. *)
LEMMA LoweredAccepted ==
    ASSUME NEW S, NEW text \in Seq(S)
    PROVE  Canonical(Lowered(text)) = Canonical(text)
  <1> DEFINE lowered == Lowered(text)
  <1>1. /\ Len(text) \in Nat /\ Len(lowered) = Len(text)
        /\ \A i \in 1 .. Len(text) : lowered[i] = LowerHex(text[i])
    BY LenProperties DEF Lowered
  <1> HIDE DEF lowered
  <1>2. Accepted(lowered) <=> Accepted(text)
    <2>1. CASE Len(text) = 36
      <3>4. \A i \in 1 .. 36 : lowered[i] = LowerHex(text[i])
        BY <1>1, <2>1, Zenon
      <3>1. \A i \in 0 .. 35 : /\ lowered[i + 1] = "-" <=> text[i + 1] = "-"
                               /\ IsHex(lowered[i + 1]) <=> IsHex(text[i + 1])
        <4> SUFFICES ASSUME NEW i \in 0 .. 35
                     PROVE  /\ lowered[i + 1] = "-" <=> text[i + 1] = "-"
                            /\ IsHex(lowered[i + 1]) <=> IsHex(text[i + 1])
          OBVIOUS
        <4>1. i + 1 \in 1 .. 36
          OBVIOUS
        <4>2. lowered[i + 1] = LowerHex(text[i + 1])
          BY <3>4, <4>1
        <4> QED
          BY <4>2, LoweredCharacter
      <3>2. UuidShaped(lowered) <=> UuidShaped(text)
        BY <1>1, <2>1, <3>1 DEF UuidShaped
      <3>3. /\ lowered[15] = "4" <=> text[15] = "4"
            /\ LowerHex(lowered[20]) = LowerHex(text[20])
        <4>1. /\ lowered[15] = LowerHex(text[15])
              /\ lowered[20] = LowerHex(text[20])
          BY <3>4
        <4> QED
          BY <4>1, LoweredCharacter
      <3> QED
        BY <3>2, <3>3 DEF Accepted
    <2>2. CASE Len(text) # 36
      BY <1>1, <2>2 DEF Accepted, UuidShaped
    <2> QED
      BY <2>1, <2>2
  <1>3. CASE Accepted(text)
    <2>1. \A i \in 1 .. 36 : LowerHex(lowered[i]) = LowerHex(text[i])
      <3>1. Len(text) = 36
        BY <1>3 DEF Accepted, UuidShaped
      <3>2. \A i \in 1 .. 36 : lowered[i] = LowerHex(text[i])
        BY <1>1, <3>1, Zenon
      <3> QED
        BY <3>2, LoweredCharacter
    <2>2. [i \in 1 .. 36 |-> LowerHex(lowered[i])]
              = [i \in 1 .. 36 |-> LowerHex(text[i])]
      BY <2>1
    <2> QED
      BY <1>2, <1>3, <2>2, CanonicalForm DEF lowered
  <1>4. CASE ~Accepted(text)
    BY <1>2, <1>4, Zenon DEF Accepted, Canonical, lowered
  <1> QED
    BY <1>3, <1>4

(* write_message and the CHECK of the id column accept the same texts, and
   what is stored for a text is one id however its letters are spelt: so the
   unique index on ids meets every retry. *)
THEOREM IdsAcceptedAlike == Spec => []IdsAsColumnAccepts
  <1>1. InputsInv => IdsAsColumnAccepts
    <2> SUFFICES ASSUME InputsInv, kind = "id"
                 PROVE  /\ RequireUuid(input)
                        /\ Canonical(input) # NoUuid <=> ColumnAccepts(input)
                        /\ Canonical(input) # NoUuid
                               => ColumnAccepts(Canonical(input))
                        /\ Canonical(Lowered(input)) = Canonical(input)
      BY DEF IdsAsColumnAccepts
    <2>1. Canonical(Lowered(input)) = Canonical(input)
      BY LoweredAccepted DEF InputsInv
    <2>2. CASE Accepted(input)
      BY <2>1, <2>2, CanonicalForm, AcceptedByColumn DEF RequireUuid
    <2>3. CASE ~Accepted(input)
      <3>1. Canonical(input) = NoUuid
        BY <2>3, Zenon DEF Canonical, Accepted
      <3> QED
        BY <2>1, <2>3, <3>1, AcceptedByColumn DEF RequireUuid
    <2> QED
      BY <2>2, <2>3
  <1> QED
    BY <1>1, InputsInvHolds, PTL

(* The character offset of the first digit of byte i, counted from 1. *)
DigitAt(i) == 2 * i + HyphensBefore(i) + 1

(* Each character that is not a hyphen is a digit of some byte, those that
   hold the version and the variant of the bytes 6 and 8 only. *)
LEMMA DigitsPlaced ==
    /\ \A p \in 1 .. 36 : p - 1 \notin HyphenPositions
           => \E i \in 0 .. 15 : p \in {DigitAt(i), DigitAt(i) + 1}
    /\ \A i \in 0 .. 15 : 15 \in {DigitAt(i), DigitAt(i) + 1} <=> i = 6
    /\ \A i \in 0 .. 15 : 20 \in {DigitAt(i), DigitAt(i) + 1} <=> i = 8
    /\ DigitAt(6) = 15 /\ DigitAt(8) = 20
  <1>1. ASSUME NEW p \in 1 .. 36, p - 1 \notin HyphenPositions
        PROVE  \E i \in 0 .. 15 : p \in {DigitAt(i), DigitAt(i) + 1}
    <2>1. \/ p \in 1 .. 8 \/ p \in 10 .. 13 \/ p \in 15 .. 18
          \/ p \in 20 .. 23 \/ p \in 25 .. 36
      BY <1>1 DEF HyphenPositions
    <2>2. \E hyphens \in 0 .. 4 :
              /\ (p - 1 - hyphens) \div 2 \in 0 .. 15
              /\ HyphensBefore((p - 1 - hyphens) \div 2) = hyphens
      <3>1. CASE p \in 1 .. 8
        BY <3>1 DEF HyphensBefore
      <3>2. CASE p \in 10 .. 13
        BY <3>2 DEF HyphensBefore
      <3>3. CASE p \in 15 .. 18
        BY <3>3 DEF HyphensBefore
      <3>4. CASE p \in 20 .. 23
        BY <3>4 DEF HyphensBefore
      <3>5. CASE p \in 25 .. 36
        BY <3>5 DEF HyphensBefore
      <3> QED
        BY <2>1, <3>1, <3>2, <3>3, <3>4, <3>5
    <2>3. PICK hyphens \in 0 .. 4 :
              /\ (p - 1 - hyphens) \div 2 \in 0 .. 15
              /\ HyphensBefore((p - 1 - hyphens) \div 2) = hyphens
      BY <2>2
    <2>4. DigitAt((p - 1 - hyphens) \div 2) \in {p, p - 1}
      BY <2>3 DEF DigitAt
    <2> QED
      BY <2>3, <2>4
  <1>2. \A i \in 0 .. 15 : 15 \in {DigitAt(i), DigitAt(i) + 1} <=> i = 6
    BY DEF DigitAt, HyphensBefore
  <1>3. \A i \in 0 .. 15 : 20 \in {DigitAt(i), DigitAt(i) + 1} <=> i = 8
    BY DEF DigitAt, HyphensBefore
  <1>4. DigitAt(6) = 15 /\ DigitAt(8) = 20
    BY DEF DigitAt, HyphensBefore
  <1> QED
    BY <1>1, <1>2, <1>3, <1>4

(* What is put over the random bytes: the version is 4, the variant 8 to b. *)
LEMMA MarkedBytes ==
    ASSUME NEW bytes \in [0 .. 15 -> 0 .. 255]
    PROVE  /\ Marked(bytes) \in [0 .. 15 -> 0 .. 255]
           /\ Marked(bytes)[6] \div 16 = 4
           /\ Marked(bytes)[8] \div 16 \in 8 .. 11
  <1> DEFINE version == (bytes[6] % 16) + 64
             variant == (bytes[8] % 64) + 128
  <1>1. version \in 64 .. 79 /\ variant \in 128 .. 191
    <2>1. bytes[6] \in 0 .. 255 /\ bytes[8] \in 0 .. 255
      OBVIOUS
    <2> QED
      BY <2>1
  <1>2. Marked(bytes) = [bytes EXCEPT ![6] = version, ![8] = variant]
    BY Zenon DEF Marked
  <1> HIDE DEF version, variant
  <1>3. /\ Marked(bytes) \in [0 .. 15 -> 0 .. 255]
        /\ Marked(bytes)[6] = version /\ Marked(bytes)[8] = variant
    BY <1>1, <1>2
  <1>4. version \div 16 = 4 /\ variant \div 16 \in 8 .. 11
    BY <1>1
  <1> QED
    BY <1>3, <1>4

LEMMA FromBytesAccepted ==
    ASSUME NEW bytes \in [0 .. 15 -> 0 .. 255]
    PROVE  /\ Accepted(FromBytes(bytes))
           /\ \A p \in 1 .. 36 :
                  FromBytes(bytes)[p] \in LowerHexDigits \cup {"-"}
           /\ FromBytes(bytes) = [p \in 1 .. 36 |-> FromBytes(bytes)[p]]
  <1> DEFINE uuid == Marked(bytes)
             id == FromBytes(bytes)
             Holds(p, i) == p \in {DigitAt(i), DigitAt(i) + 1}
             byte(p) == CHOOSE i \in 0 .. 15 : Holds(p, i)
             digit(p) == IF p = DigitAt(byte(p))
                         THEN Digits[(uuid[byte(p)] \div 16) + 1]
                         ELSE Digits[(uuid[byte(p)] % 16) + 1]
  <1>1. id = [p \in 1 .. 36 |-> IF p - 1 \in HyphenPositions THEN "-"
                                ELSE digit(p)]
    BY Zenon DEF FromBytes, DigitAt
  <1>2. /\ uuid \in [0 .. 15 -> 0 .. 255]
        /\ uuid[6] \div 16 = 4 /\ uuid[8] \div 16 \in 8 .. 11
    BY MarkedBytes
  <1> HIDE DEF uuid
  <1>3. ASSUME NEW p \in 1 .. 36, p - 1 \notin HyphenPositions
        PROVE  digit(p) \in LowerHexDigits
    <2>1. byte(p) \in 0 .. 15
      <3>1. \E i \in 0 .. 15 : Holds(p, i)
        BY <1>3, DigitsPlaced
      <3> HIDE DEF Holds
      <3> QED
        BY <3>1
    <2> HIDE DEF byte
    <2>2. /\ (uuid[byte(p)] \div 16) + 1 \in 1 .. 16
          /\ (uuid[byte(p)] % 16) + 1 \in 1 .. 16
      <3>1. uuid[byte(p)] \in 0 .. 255
        BY <1>2, <2>1
      <3> QED
        BY <3>1
    <2> QED
      BY <2>2 DEF LowerHexDigits
  <1>4. byte(15) = 6 /\ byte(20) = 8
    <2>1. \A i \in 0 .. 15 : (Holds(15, i) <=> i = 6) /\ (Holds(20, i) <=> i = 8)
      BY DigitsPlaced
    <2> HIDE DEF Holds
    <2> QED
      BY <2>1
  <1> HIDE DEF byte
  <1>5. digit(15) = "4" /\ digit(20) \in {"8", "9", "a", "b"}
    <2>1. /\ digit(15) = Digits[(uuid[6] \div 16) + 1]
          /\ digit(20) = Digits[(uuid[8] \div 16) + 1]
      BY <1>4, DigitsPlaced
    <2>2. Digits[4 + 1] = "4"
      BY DEF Digits
    <2>3. \A n \in 8 .. 11 : Digits[n + 1] \in {"8", "9", "a", "b"}
      BY DEF Digits
    <2> QED
      BY <1>2, <2>1, <2>2, <2>3
  <1> HIDE DEF digit, id
  <1>6. \A p \in 1 .. 36 : IF p - 1 \in HyphenPositions THEN id[p] = "-"
                                                       ELSE id[p] \in LowerHexDigits
    BY <1>1, <1>3
  <1>7. id[15] = "4" /\ id[20] \in {"8", "9", "a", "b"}
    BY <1>1, <1>5 DEF HyphenPositions
  <1>8. id = [p \in 1 .. 36 |-> id[p]] /\ Len(id) = 36
    BY <1>1
  <1>9. UuidShaped(id)
    <2>1. ASSUME NEW i \in 0 .. 35
          PROVE  IF i \in HyphenPositions THEN id[i + 1] = "-"
                                          ELSE IsHex(id[i + 1])
      <3>1. i + 1 \in 1 .. 36 /\ (i + 1) - 1 = i
        OBVIOUS
      <3> QED
        BY <1>6, <3>1 DEF IsHex
    <2> QED
      BY <1>8, <2>1 DEF UuidShaped
  <1>10. Accepted(id)
    BY <1>7, <1>9, LoweredCharacter DEF Accepted
  <1> QED
    BY <1>6, <1>8, <1>10 DEF id

(* Whatever bytes are drawn, gen_random_uuid makes an id of version 4 and
   variant 1 that write_message accepts and stores as it is. *)
THEOREM GeneratedIdsAccepted == Spec => []GeneratedIdsCanonical
  <1>1. InputsInv => GeneratedIdsCanonical
    <2> SUFFICES ASSUME InputsInv, kind = "random"
                 PROVE  Canonical(FromBytes(input)) = FromBytes(input)
      BY DEF GeneratedIdsCanonical
    <2> DEFINE id == FromBytes(input)
    <2>1. /\ Accepted(id)
          /\ \A p \in 1 .. 36 : id[p] \in LowerHexDigits \cup {"-"}
          /\ id = [p \in 1 .. 36 |-> id[p]]
      BY FromBytesAccepted DEF InputsInv
    <2>2. Canonical(id) = [p \in 1 .. 36 |-> LowerHex(id[p])]
      BY <2>1, CanonicalForm
    <2> HIDE DEF id
    <2>3. \A p \in 1 .. 36 : LowerHex(id[p]) = id[p]
      BY <2>1, LoweredCharacter
    <2>4. [p \in 1 .. 36 |-> LowerHex(id[p])] = [p \in 1 .. 36 |-> id[p]]
      BY <2>3
    <2> QED
      BY <2>1, <2>2, <2>4 DEF id
  <1> QED
    BY <1>1, InputsInvHolds, PTL

-----------------------------------------------------------------------------
(* The buffer of MD5. *)

Context(length, buffer, transformed) ==
    [total_length |-> length, buffer |-> buffer, transformed |-> transformed]

LEMMA ContextEqual ==
    ASSUME NEW ctx, NEW length, NEW buffer, NEW transformed,
           ctx = [f \in {"total_length", "buffer", "transformed"} |-> ctx[f]],
           ctx.total_length = length, ctx.buffer = buffer,
           ctx.transformed = transformed
    PROVE  ctx = Context(length, buffer, transformed)
  <1> DEFINE other == Context(length, buffer, transformed)
  <1>1. other = [f \in {"total_length", "buffer", "transformed"} |-> other[f]]
    BY DEF Context
  <1>2. \A f \in {"total_length", "buffer", "transformed"} : other[f] = ctx[f]
    BY DEF Context
  <1> HIDE DEF other
  <1> QED
    BY <1>1, <1>2 DEF other

WholeBlocks(bytes) == Len(bytes) % BlockSize = 0

(* The context has taken in the data, in whole blocks but for the rest that
   is in its buffer, and has counted the length. *)
TakenIn(S, ctx, length, data) ==
    \E transformed \in Seq(S), buffer \in Seq(S) :
        /\ ctx = Context(length, buffer, transformed)
        /\ transformed \o buffer = data
        /\ Len(buffer) < BlockSize
        /\ WholeBlocks(transformed)

(* Concatenation under a name of its own: the provers get lost in facts about
   many concatenations. *)
Join(s, t) == s \o t

LEMMA JoinProperties ==
    ASSUME NEW S
    PROVE  /\ \A s, t \in Seq(S) : Join(s, t) \in Seq(S)
           /\ \A s, t, u \in Seq(S) : Join(Join(s, t), u) = Join(s, Join(t, u))
  <1>1. ASSUME NEW s \in Seq(S), NEW t \in Seq(S)
        PROVE  Join(s, t) \in Seq(S)
    BY ConcatProperties DEF Join
  <1>2. ASSUME NEW s \in Seq(S), NEW t \in Seq(S), NEW u \in Seq(S)
        PROVE  Join(Join(s, t), u) = Join(s, Join(t, u))
    BY ConcatAssociative DEF Join
  <1> QED
    BY <1>1, <1>2

LEMMA Regrouped ==
    ASSUME NEW S, NEW s \in Seq(S), NEW t \in Seq(S), NEW u \in Seq(S),
           NEW v \in Seq(S)
    PROVE  Join(Join(s, Join(t, u)), v) = Join(Join(s, t), Join(u, v))
  BY JoinProperties

(* With an empty buffer, the loop over whole blocks and the copy of the rest
   take in everything. *)
LEMMA BlocksTakeIn ==
    ASSUME NEW S, NEW transformed \in Seq(S), NEW data \in Seq(S), NEW length,
           WholeBlocks(transformed)
    PROVE  TakenIn(S, Blocks(Context(length, <<>>, transformed), data), length,
                   transformed \o data)
  <1> DEFINE whole == (Len(data) \div BlockSize) * BlockSize
             front == SubSeq(data, 1, whole)
             back == IF whole < Len(data)
                     THEN SubSeq(data, whole + 1, Len(data)) ELSE <<>>
             done == transformed \o front
  <1>1. Len(data) \in Nat /\ Len(transformed) \in Nat
    BY LenProperties
  <1>2. whole \in 0 .. Len(data) /\ Len(data) - whole < 64 /\ whole % 64 = 0
    BY <1>1 DEF BlockSize
  <1>3. Blocks(Context(length, <<>>, transformed), data)
            = Context(length, back, done)
    <2> DEFINE old == Context(length, <<>>, transformed)
               ctx == [old EXCEPT !.transformed = @ \o front, !.buffer = back]
    <2>1. Blocks(old, data) = ctx
      BY DEF Blocks, Context
    <2>2. /\ ctx = [f \in {"total_length", "buffer", "transformed"} |-> ctx[f]]
          /\ ctx.total_length = length /\ ctx.buffer = back
          /\ ctx.transformed = done
      <3> HIDE DEF front, back
      <3> QED
        BY DEF Context
    <2> HIDE DEF ctx, back, done
    <2> QED
      BY <2>1, <2>2, ContextEqual
  <1> HIDE DEF whole
  <1>4. front \in Seq(S) /\ Len(front) = whole
    <2>1. \A i \in 1 .. whole : data[i] \in S
      BY <1>1, <1>2, ElementOfSeq
    <2> QED
      BY <1>2, <2>1, SubSeqProperties
  <1>5. back = SubSeq(data, whole + 1, Len(data))
    BY <1>1, <1>2, SubSeqEmpty
  <1>6. back \in Seq(S) /\ Len(back) = Len(data) - whole
    <2>1. \A i \in whole + 1 .. Len(data) : data[i] \in S
      BY <1>1, <1>2, ElementOfSeq
    <2> QED
      BY <1>1, <1>2, <1>5, <2>1, SubSeqProperties
  <1>7. front \o back = data
    <2>1. SubSeq(data, 1, whole) \o SubSeq(data, whole + 1, Len(data)) = data
      BY <1>2, SplitAnywhere
    <2> QED
      BY <1>5, <2>1, Zenon
  <1> HIDE DEF front, back
  <1>8. /\ done \in Seq(S) /\ Len(done) = Len(transformed) + whole
        /\ done \o back = transformed \o data
    <2>1. front \in Seq(S) /\ back \in Seq(S)
      BY <1>4, <1>6
    <2>2. (transformed \o front) \o back = transformed \o (front \o back)
      BY <2>1, ConcatAssociative
    <2> QED
      BY <1>4, <1>7, <2>2, ConcatProperties
  <1> HIDE DEF done
  <1>9. WholeBlocks(done) /\ Len(back) < BlockSize
    <2>1. Len(transformed) % 64 = 0
      BY DEF WholeBlocks, BlockSize
    <2>2. \A a, b \in Nat : a % 64 = 0 /\ b % 64 = 0 => (a + b) % 64 = 0
      OBVIOUS
    <2>3. (Len(transformed) + whole) % 64 = 0
      BY <1>1, <1>2, <2>1, <2>2
    <2>4. Len(done) % 64 = 0 /\ Len(back) < 64
      BY <1>2, <1>6, <1>8, <2>3
    <2> QED
      BY <2>4 DEF WholeBlocks, BlockSize
  <1> QED
    BY <1>3, <1>6, <1>8, <1>9 DEF TakenIn

(* Nothing to take in leaves a context as it is. *)
LEMMA NoBlocks ==
    ASSUME NEW S, NEW transformed \in Seq(S), NEW buffer \in Seq(S), NEW length
    PROVE  Blocks(Context(length, buffer, transformed), <<>>)
               = Context(length, buffer, transformed)
  <1>1. /\ Len(<<>>) = 0 /\ (0 \div 64) * 64 = 0
        /\ SubSeq(<<>>, 1, 0) = <<>> /\ transformed \o <<>> = transformed
    BY SubSeqEmpty, ConcatEmptySeq
  <1> DEFINE old == Context(length, buffer, transformed)
             ctx == [old EXCEPT !.transformed = @ \o SubSeq(<<>>, 1, 0),
                                !.buffer = @]
  <1>2. Blocks(old, <<>>) = ctx
    BY <1>1 DEF Blocks, BlockSize
  <1>3. /\ ctx = [f \in {"total_length", "buffer", "transformed"} |-> ctx[f]]
        /\ ctx.total_length = length /\ ctx.buffer = buffer
        /\ ctx.transformed = transformed
    BY <1>1 DEF Context
  <1> HIDE DEF ctx
  <1> QED
    BY <1>2, <1>3, ContextEqual

(* Bytes that go to the buffer. *)
LEMMA BufferedContext ==
    ASSUME NEW length, NEW n, NEW buffer, NEW transformed, NEW first
    PROVE  Buffered(Counted(Context(length, buffer, transformed), n), first)
               = Context(length + n, buffer \o first, transformed)
  <1> DEFINE counted == Counted(Context(length, buffer, transformed), n)
             longer == buffer \o first
             ctx == Buffered(Context(length + n, buffer, transformed), first)
  <1>1. counted = Context(length + n, buffer, transformed)
    BY DEF Counted, Context
  <1>2. /\ ctx = [f \in {"total_length", "buffer", "transformed"} |-> ctx[f]]
        /\ ctx.total_length = length + n /\ ctx.buffer = longer
        /\ ctx.transformed = transformed
    BY DEF Buffered, Context
  <1>3. ctx = Context(length + n, longer, transformed)
    <2> HIDE DEF ctx, longer
    <2> QED
      BY <1>2, ContextEqual
  <1> QED
    BY <1>1, <1>3

LEMMA FlushedContext ==
    ASSUME NEW length, NEW buffer, NEW transformed
    PROVE  Flushed(Context(length, buffer, transformed))
               = IF Len(buffer) = BlockSize
                 THEN Context(length, <<>>, transformed \o buffer)
                 ELSE Context(length, buffer, transformed)
  <1> DEFINE old == Context(length, buffer, transformed)
             ctx == [old EXCEPT !.transformed = @ \o old.buffer,
                                !.buffer = <<>>]
  <1>1. Flushed(old) = IF Len(buffer) = BlockSize THEN ctx ELSE old
    BY DEF Flushed, Context
  <1>2. /\ ctx = [f \in {"total_length", "buffer", "transformed"} |-> ctx[f]]
        /\ ctx.total_length = length /\ ctx.buffer = <<>>
        /\ ctx.transformed = transformed \o buffer
    BY DEF Context
  <1>3. ctx = Context(length, <<>>, transformed \o buffer)
    <2> HIDE DEF ctx
    <2> QED
      BY <1>2, ContextEqual
  <1> QED
    BY <1>1, <1>3

(* How many bytes go to the buffer first: none if it is empty; otherwise all
   there are, and it does not get full, or as many as fill it. *)
LEMMA TopUpBounds ==
    ASSUME NEW used \in Nat, used < 64, NEW size \in Nat,
           NEW first, first = IF used = 0 THEN 0
                              ELSE IF size < 64 - used THEN size ELSE 64 - used
    PROVE  /\ first \in 0 .. size
           /\ used = 0 => first = 0
           /\ used # 0 => \/ used + first = 64
                          \/ first = size /\ used + first < 64
  OBVIOUS

(* md5_update takes in what it is given, however that meets the end of the
   buffer. *)
LEMMA UpdateTakesIn ==
    ASSUME NEW S, NEW ctx, NEW length \in Nat, NEW data, NEW more \in Seq(S),
           TakenIn(S, ctx, length, data)
    PROVE  TakenIn(S, Update(ctx, more), length + Len(more), data \o more)
  <1> DEFINE total == length + Len(more)
             first == TopUp(ctx, more)
             begun == SubSeq(more, 1, first)
             rest == SubSeq(more, first + 1, Len(more))
  <1>1. PICK transformed \in Seq(S), buffer \in Seq(S) :
             /\ ctx = Context(length, buffer, transformed)
             /\ transformed \o buffer = data
             /\ Len(buffer) < BlockSize
             /\ WholeBlocks(transformed)
    BY DEF TakenIn
  <1>2. /\ Len(more) \in Nat
        /\ Len(buffer) \in Nat /\ Len(buffer) < 64
    BY <1>1, LenProperties, Zenon DEF BlockSize
  <1>3. CASE Len(more) = 0
    <2>1. more = <<>> /\ data \o more = data /\ total = length
      <3>1. more = <<>> /\ total = length
        BY <1>3, EmptySeq
      <3>2. data \in Seq(S)
        BY <1>1, ConcatProperties
      <3> QED
        BY <3>1, <3>2, ConcatEmptySeq
    <2>2. Update(ctx, more) = ctx
      BY <1>3 DEF Update
    <2> QED
      BY <2>1, <2>2
  <1>4. CASE Len(more) # 0
    <2> DEFINE filled == buffer \o begun
    <2>1. /\ first \in 0 .. Len(more)
          /\ Len(buffer) = 0 => first = 0
          /\ Len(buffer) # 0 => \/ Len(buffer) + first = 64
                                \/ /\ first = Len(more)
                                   /\ Len(buffer) + first < 64
      <3>1. ctx.buffer = buffer
        BY <1>1 DEF Context
      <3> DEFINE used == Len(buffer)
                 size == Len(more)
      <3>2. first = IF used = 0 THEN 0
                    ELSE IF size < 64 - used THEN size ELSE 64 - used
        BY <3>1, Zenon DEF TopUp, BlockSize
      <3>3. used \in Nat /\ used < 64 /\ size \in Nat
        BY <1>2
      <3> HIDE DEF first, used, size
      <3>4. /\ first \in 0 .. size
            /\ used = 0 => first = 0
            /\ used # 0 => \/ used + first = 64
                           \/ first = size /\ used + first < 64
        BY <3>2, <3>3, TopUpBounds
      <3> QED
        BY <3>4, Zenon DEF used, size
    <2>2. Update(ctx, more)
              = Blocks(Flushed(Context(total, filled, transformed)), rest)
      <3>1. Update(ctx, more)
                = Blocks(Flushed(Buffered(Counted(ctx, Len(more)), begun)), rest)
        BY <1>4, Zenon DEF Update
      <3>2. Buffered(Counted(ctx, Len(more)), begun)
                = Context(total, filled, transformed)
        <4> HIDE DEF first, begun
        <4> QED
          BY <1>1, BufferedContext
      <3> QED
        BY <3>1, <3>2, Zenon
    <2> HIDE DEF first
    <2>3. begun \o rest = more
      BY <2>1, SplitAnywhere
    <2>4. begun \in Seq(S) /\ Len(begun) = first
      <3>1. \A i \in 1 .. first : more[i] \in S
        BY <1>2, <2>1, ElementOfSeq
      <3> QED
        BY <1>2, <2>1, <3>1, SubSeqProperties
    <2>5. rest \in Seq(S) /\ (first = Len(more) => rest = <<>>)
      <3>1. \A i \in first + 1 .. Len(more) : more[i] \in S
        BY <1>2, <2>1, ElementOfSeq
      <3> QED
        BY <1>2, <2>1, <3>1, SubSeqProperties, SubSeqEmpty
    <2> HIDE DEF begun, rest
    <2>6. filled \in Seq(S) /\ Len(filled) = Len(buffer) + first
      BY <1>1, <2>4, ConcatProperties
    <2>7. (transformed \o filled) \o rest = data \o more
      <3>1. begun \in Seq(S) /\ rest \in Seq(S) /\ filled \in Seq(S)
        BY <2>4, <2>5, <2>6
      <3>2. Join(Join(transformed, Join(buffer, begun)), rest)
                = Join(Join(transformed, buffer), Join(begun, rest))
        BY <3>1, Regrouped
      <3> QED
        BY <1>1, <2>3, <3>2, Zenon DEF Join
    <2> HIDE DEF filled
    <2>8. CASE Len(filled) = 64
      <3> DEFINE done == transformed \o filled
      <3>1. /\ done \in Seq(S) /\ WholeBlocks(done)
        <4>1. done \in Seq(S) /\ Len(done) = Len(transformed) + 64
          <5>1. filled \in Seq(S)
            BY <2>6
          <5>2. done \in Seq(S) /\ Len(done) = Len(transformed) + Len(filled)
            BY <5>1, ConcatProperties
          <5> QED
            BY <2>8, <5>2
        <4>2. Len(transformed) \in Nat /\ Len(transformed) % 64 = 0
          BY <1>1, LenProperties DEF WholeBlocks, BlockSize
        <4>3. \A n \in Nat : n % 64 = 0 => (n + 64) % 64 = 0
          OBVIOUS
        <4>4. Len(done) % 64 = 0
          BY <4>1, <4>2, <4>3
        <4> QED
          BY <4>1, <4>4 DEF WholeBlocks, BlockSize
      <3>2. Flushed(Context(total, filled, transformed))
                = Context(total, <<>>, done)
        BY <2>8, FlushedContext DEF BlockSize
      <3> HIDE DEF done
      <3>3. TakenIn(S, Blocks(Context(total, <<>>, done), rest), total,
                    done \o rest)
        <4>1. rest \in Seq(S)
          BY <2>5
        <4> HIDE DEF total
        <4> QED
          BY <3>1, <4>1, BlocksTakeIn
      <3> QED
        BY <2>2, <2>7, <3>2, <3>3 DEF done
    <2>9. CASE Len(buffer) = 0
      <3>1. filled = <<>> /\ rest = more
        <4>1. buffer = <<>> /\ begun = <<>>
          BY <1>1, <2>1, <2>4, <2>9, EmptySeq
        <4> QED
          BY <2>3, <2>5, <4>1, ConcatEmptySeq DEF filled
      <3>2. Flushed(Context(total, filled, transformed))
                = Context(total, <<>>, transformed)
        <4>1. Len(filled) # BlockSize
          BY <3>1 DEF BlockSize
        <4> QED
          BY <3>1, <4>1, FlushedContext
      <3>3. transformed \o more = data \o more
        BY <2>7, <3>1, ConcatEmptySeq
      <3>4. TakenIn(S, Blocks(Context(total, <<>>, transformed), more), total,
                    transformed \o more)
        <4> HIDE DEF total
        <4> QED
          BY <1>1, BlocksTakeIn
      <3> QED
        BY <2>2, <3>1, <3>2, <3>3, <3>4, Zenon
    <2>10. CASE Len(buffer) # 0 /\ Len(filled) # 64
      <3>1. rest = <<>> /\ Len(filled) < BlockSize
        <4>1. first = Len(more) /\ Len(filled) < 64
          BY <2>1, <2>6, <2>10, Zenon
        <4> QED
          BY <2>5, <4>1, Zenon DEF BlockSize
      <3>2. Flushed(Context(total, filled, transformed))
                = Context(total, filled, transformed)
        BY <2>10, FlushedContext DEF BlockSize
      <3>3. Update(ctx, more) = Context(total, filled, transformed)
        BY <2>2, <2>6, <3>1, <3>2, NoBlocks
      <3>4. transformed \o filled = data \o more
        <4>1. transformed \o filled \in Seq(S)
          BY <2>6, ConcatProperties
        <4> QED
          BY <2>7, <3>1, <4>1, ConcatEmptySeq
      <3> QED
        BY <1>1, <2>6, <3>1, <3>3, <3>4, Zenon DEF TakenIn
    <2> QED
      BY <2>8, <2>9, <2>10
  <1> QED
    BY <1>3, <1>4

(* The padding for so many bytes: at least one, no more than the array holds,
   and eight bytes less than whole blocks.  The reference takes the only such
   number. *)
PaddingFor(size, padding) ==
    /\ padding \in 1 .. 64
    /\ (size + padding + 8) % 64 = 0
    /\ \A n \in 0 .. 63 : (size + 1 + n + 8) % 64 = 0 <=> n = padding - 1

(* PadLength, where so many of the bytes are in the buffer. *)
LEMMA PaddingFits ==
    ASSUME NEW blocks \in Nat, blocks % 64 = 0, NEW used \in Nat, used < 64,
           NEW padding,
           padding = IF used < 56 THEN 56 - used ELSE 120 - used
    PROVE  PaddingFor(blocks + used, padding)
  <1>1. PICK k \in Nat : blocks = 64 * k
    <2>1. blocks = 64 * (blocks \div 64)
      OBVIOUS
    <2> QED
      BY <2>1
  <1>2. padding \in 1 .. 64 /\ (used + padding = 56 \/ used + padding = 120)
    OBVIOUS
  <1>3. (blocks + used + padding + 8) % 64 = 0
    BY <1>1, <1>2
  <1>4. ASSUME NEW n \in 0 .. 63
        PROVE  (blocks + used + 1 + n + 8) % 64 = 0 <=> n = padding - 1
    BY <1>1, <1>2
  <1> QED
    BY <1>2, <1>3, <1>4 DEF PaddingFor

(* The bytes of a message, by where they come from. *)
Byte == ({"text", "pad"} \X Nat) \cup ({"length"} \X Nat \X Nat)

(* The padding is a one bit and zeros. *)
LEMMA PadBytes ==
    ASSUME NEW padding \in 1 .. 64
    PROVE  /\ SubSeq(Pad, 1, padding) \in Seq(Byte)
           /\ Len(SubSeq(Pad, 1, padding)) = padding
           /\ SubSeq(Pad, 1, padding)
                  = <<<<"pad", 128>>>> \o [i \in 1 .. padding - 1 |-> <<"pad", 0>>]
  <1> DEFINE zeros == [i \in 1 .. padding - 1 |-> <<"pad", 0>>]
             pad == SubSeq(Pad, 1, padding)
             one == <<<<"pad", 128>>>>
  <1>1. \A i \in 1 .. padding : Pad[i] \in Byte
    BY DEF Pad, Byte
  <1>2. /\ pad \in Seq(Byte) /\ Len(pad) = padding
        /\ \A i \in 1 .. padding : pad[i] = Pad[i]
    BY <1>1, SubSeqProperties
  <1>3. one \in Seq(Byte) /\ Len(one) = 1 /\ one[1] = <<"pad", 128>>
    BY DEF Byte
  <1>4. zeros \in Seq(Byte) /\ Len(zeros) = padding - 1
    <2>1. <<"pad", 0>> \in Byte
      BY DEF Byte
    <2>2. zeros \in [1 .. padding - 1 -> Byte] /\ padding - 1 \in Nat
      BY <2>1
    <2>3. Len(zeros) = padding - 1
      BY <2>2
    <2>4. zeros \in Seq(Byte)
      <3> HIDE DEF zeros
      <3> QED
        BY <2>2, SeqDef
    <2> QED
      BY <2>3, <2>4
  <1>5. \A i \in 1 .. padding - 1 : zeros[i] = <<"pad", 0>>
    OBVIOUS
  <1> HIDE DEF zeros, one, pad
  <1>6. /\ one \o zeros \in Seq(Byte) /\ Len(one \o zeros) = padding
        /\ \A i \in 1 .. padding : (one \o zeros)[i]
                                      = IF i <= 1 THEN one[i] ELSE zeros[i - 1]
    <2>1. /\ one \o zeros \in Seq(Byte)
          /\ Len(one \o zeros) = Len(one) + Len(zeros)
          /\ \A i \in 1 .. Len(one) + Len(zeros) :
                 (one \o zeros)[i] = IF i <= Len(one) THEN one[i]
                                                     ELSE zeros[i - Len(one)]
      BY <1>3, <1>4, ConcatProperties
    <2>2. Len(one) + Len(zeros) = padding
      BY <1>3, <1>4
    <2> QED
      BY <1>3, <2>1, <2>2
  <1>7. ASSUME NEW i \in 1 .. padding
        PROVE  pad[i] = (one \o zeros)[i]
    <2>1. i \in 1 .. 64 /\ pad[i] = Pad[i]
      BY <1>2
    <2>2. CASE i = 1
      <3>1. Pad[i] = <<"pad", 128>>
        BY <2>2 DEF Pad
      <3>2. (one \o zeros)[i] = one[1]
        BY <1>6, <2>2
      <3> QED
        BY <1>3, <2>1, <3>1, <3>2, Zenon
    <2>3. CASE i # 1
      <3>1. i - 1 \in 1 .. padding - 1
        BY <2>3
      <3>2. Pad[i] = <<"pad", 0>>
        BY <2>1, <2>3 DEF Pad
      <3>3. (one \o zeros)[i] = zeros[i - 1]
        BY <1>6, <2>3
      <3> QED
        BY <1>5, <2>1, <3>1, <3>2, <3>3, Zenon
    <2> QED
      BY <2>2, <2>3
  <1>8. pad = one \o zeros
    BY <1>2, <1>6, <1>7, SeqEqual
  <1> QED
    BY <1>2, <1>8 DEF pad, one, zeros

LEMMA LengthInBytes ==
    ASSUME NEW bits \in Nat
    PROVE  LengthBytes(bits) \in Seq(Byte) /\ Len(LengthBytes(bits)) = 8
  <1>1. LengthBytes(bits) \in [1 .. 8 -> Byte]
    BY DEF LengthBytes, Byte
  <1>2. Len(LengthBytes(bits)) = 8
    BY DEF LengthBytes
  <1>3. LengthBytes(bits) \in Seq(Byte)
    BY <1>1, SeqDef
  <1> QED
    BY <1>2, <1>3

(* A new context has taken in nothing. *)
LEMMA InitialTakenIn == TakenIn(Byte, InitialContext, 0, <<>>)
  <1>1. InitialContext = Context(0, <<>>, <<>>)
    BY DEF InitialContext, Context
  <1>2. <<>> \in Seq(Byte) /\ Len(<<>>) = 0 /\ <<>> \o <<>> = <<>>
    BY EmptySeq, ConcatEmptySeq
  <1>3. WholeBlocks(<<>>) /\ Len(<<>>) < BlockSize
    BY <1>2 DEF WholeBlocks, BlockSize
  <1> QED
    BY <1>1, <1>2, <1>3 DEF TakenIn

(* When what was taken in is whole blocks, nothing is left in the buffer. *)
LEMMA WholeTakenIn ==
    ASSUME NEW S, NEW ctx, NEW length, NEW data,
           TakenIn(S, ctx, length, data), WholeBlocks(data)
    PROVE  ctx.transformed = data /\ ctx.buffer = <<>>
  <1>1. PICK transformed \in Seq(S), buffer \in Seq(S) :
             /\ ctx = Context(length, buffer, transformed)
             /\ transformed \o buffer = data
             /\ Len(buffer) < BlockSize
             /\ WholeBlocks(transformed)
    BY DEF TakenIn
  <1>2. Len(data) = Len(transformed) + Len(buffer)
    BY <1>1, ConcatProperties
  <1>3. /\ Len(transformed) \in Nat /\ Len(buffer) \in Nat
        /\ Len(buffer) < 64
        /\ Len(transformed) % 64 = 0 /\ Len(data) % 64 = 0
    BY <1>1, LenProperties DEF WholeBlocks, BlockSize
  <1>4. \A m, n \in Nat : m % 64 = 0 /\ (m + n) % 64 = 0 /\ n < 64 => n = 0
    OBVIOUS
  <1>5. Len(buffer) = 0
    BY <1>2, <1>3, <1>4
  <1>6. buffer = <<>>
    BY <1>1, <1>5, EmptySeq
  <1>7. data = transformed
    BY <1>1, <1>6, ConcatEmptySeq
  <1>8. ctx.transformed = transformed /\ ctx.buffer = buffer
    BY <1>1 DEF Context
  <1> QED
    BY <1>6, <1>7, <1>8

(* The padding of a context, and how it comes out at whole blocks. *)
LEMMA PaddingOfContext ==
    ASSUME NEW S, NEW ctx, NEW length, NEW data, TakenIn(S, ctx, length, data)
    PROVE  /\ ctx.total_length = length
           /\ PaddingFor(Len(data), PadLength(ctx))
  <1>1. PICK transformed \in Seq(S), buffer \in Seq(S) :
             /\ ctx = Context(length, buffer, transformed)
             /\ transformed \o buffer = data
             /\ Len(buffer) < BlockSize
             /\ WholeBlocks(transformed)
    BY DEF TakenIn
  <1> DEFINE blocks == Len(transformed)
             used == Len(buffer)
             padding == PadLength(ctx)
  <1>2. Len(data) = blocks + used
    BY <1>1, ConcatProperties
  <1>3. ctx.total_length = length /\ ctx.buffer = buffer
    BY <1>1 DEF Context
  <1>4. padding = IF used < 56 THEN 56 - used ELSE 120 - used
    BY <1>3, Zenon DEF PadLength
  <1>5. blocks \in Nat /\ used \in Nat /\ used < 64 /\ blocks % 64 = 0
    BY <1>1, LenProperties DEF WholeBlocks, BlockSize
  <1> HIDE DEF blocks, used, padding
  <1>6. PaddingFor(blocks + used, padding)
    BY <1>4, <1>5, PaddingFits
  <1> QED
    BY <1>2, <1>3, <1>6, Zenon DEF padding

(* md5_final: the padding that the buffer calls for is the one prescribed. *)
LEMMA HashTakesInPadded ==
    ASSUME NEW text \in Seq({"text"} \X Nat)
    PROVE  /\ HashContext(text).transformed = Padded(text)
           /\ HashContext(text).buffer = <<>>
           /\ PadLength(Update(InitialContext, text)) \in 1 .. 64
  <1> DEFINE size == Len(text)
             ctx == Update(InitialContext, text)
             padding == PadLength(ctx)
             pad == SubSeq(Pad, 1, padding)
             bits == LengthBytes(8 * size)
             whole == (text \o pad) \o bits
  <1>1. text \in Seq(Byte) /\ size \in Nat
    <2>1. {"text"} \X Nat \subseteq Byte
      BY DEF Byte
    <2> QED
      BY <2>1, LenProperties, SeqMonotonic
  <1>2. TakenIn(Byte, ctx, size, text)
    <2>1. TakenIn(Byte, Update(InitialContext, text), 0 + size, <<>> \o text)
      BY <1>1, InitialTakenIn, UpdateTakesIn
    <2>2. 0 + size = size /\ <<>> \o text = text
      BY <1>1, ConcatEmptySeq
    <2> QED
      BY <2>1, <2>2, Zenon
  <1> HIDE DEF ctx
  <1>3. /\ ctx.total_length = size
        /\ padding \in 1 .. 64
        /\ (size + padding + 8) % 64 = 0
        /\ \A n \in 0 .. 63 : (size + 1 + n + 8) % 64 = 0 <=> n = padding - 1
    <2> HIDE DEF size
    <2>1. ctx.total_length = size /\ PaddingFor(Len(text), PadLength(ctx))
      BY <1>2, PaddingOfContext
    <2> QED
      BY <2>1, Zenon DEF PaddingFor, size
  <1> HIDE DEF size, padding
  <1>4. /\ pad \in Seq(Byte) /\ Len(pad) = padding
        /\ pad = <<<<"pad", 128>>>> \o [i \in 1 .. padding - 1 |-> <<"pad", 0>>]
    BY <1>3, PadBytes
  <1>5. bits \in Seq(Byte) /\ Len(bits) = 8
    BY <1>1, LengthInBytes
  <1>6. Final(ctx) = Update(Update(ctx, pad), bits)
    BY <1>3, Zenon DEF Final, padding
  <1> HIDE DEF pad, bits
  <1>7. TakenIn(Byte, Final(ctx), size + padding + 8, whole)
    <2>1. TakenIn(Byte, Update(ctx, pad), size + padding, text \o pad)
      BY <1>1, <1>2, <1>4, UpdateTakesIn, Zenon
    <2>2. size + padding \in Nat
      BY <1>1, <1>3
    <2>3. TakenIn(Byte, Update(Update(ctx, pad), bits), size + padding + 8,
                  (text \o pad) \o bits)
      BY <1>5, <2>1, <2>2, UpdateTakesIn, Zenon
    <2> QED
      BY <1>6, <2>3, Zenon
  <1>8. WholeBlocks(whole)
    <2>1. text \o pad \in Seq(Byte) /\ Len(text \o pad) = size + padding
      BY <1>1, <1>4, ConcatProperties DEF size
    <2>2. Len(whole) = Len(text \o pad) + Len(bits)
      <3> DEFINE front == text \o pad
      <3>1. front \in Seq(Byte) /\ bits \in Seq(Byte)
        BY <1>5, <2>1
      <3> HIDE DEF front
      <3>2. Len(front \o bits) = Len(front) + Len(bits)
        BY <3>1, ConcatProperties
      <3> QED
        BY <3>2 DEF front
    <2>3. Len(whole) = size + padding + 8
      BY <1>5, <2>1, <2>2, Zenon
    <2> QED
      BY <1>3, <2>3, Zenon DEF WholeBlocks, BlockSize
  <1>9. whole = Padded(text)
    <2> DEFINE zeros == CHOOSE n \in 0 .. 63 : (size + 1 + n + 8) % 64 = 0
               one == <<<<"pad", 128>>>>
               none(n) == [i \in 1 .. n |-> <<"pad", 0>>]
    <2>1. zeros = padding - 1
      <3>1. padding - 1 \in 0 .. 63
        BY <1>3
      <3>2. \A n \in 0 .. 63 : (size + 1 + n + 8) % 64 = 0 <=> n = padding - 1
        BY <1>3
      <3> QED
        BY <3>1, <3>2, Zenon
    <2>2. Padded(text) = text \o one \o none(zeros) \o bits
      BY Zenon DEF Padded, size, bits
    <2>3. one \in Seq(Byte) /\ none(padding - 1) \in Seq(Byte)
      <3>1. one \in Seq(Byte)
        BY DEF Byte
      <3>2. none(padding - 1) \in [1 .. padding - 1 -> Byte]
        BY DEF Byte
      <3>3. none(padding - 1) \in Seq(Byte)
        <4>1. padding - 1 \in Nat
          BY <1>3
        <4> HIDE DEF none
        <4> QED
          BY <3>2, <4>1, SeqDef
      <3> QED
        BY <3>1, <3>3
    <2> HIDE DEF one, none, zeros
    <2>4. pad = one \o none(padding - 1)
      BY <1>4 DEF one, none
    <2>5. (text \o one) \o none(padding - 1) = text \o (one \o none(padding - 1))
      BY <1>1, <2>3, ConcatAssociative
    <2> QED
      BY <2>1, <2>2, <2>4, <2>5, Zenon
  <1>10. Final(ctx).transformed = whole /\ Final(ctx).buffer = <<>>
    BY <1>7, <1>8, WholeTakenIn, Zenon
  <1>11. HashContext(text) = Final(ctx)
    BY DEF HashContext, ctx
  <1> QED
    BY <1>3, <1>9, <1>10, <1>11, Zenon DEF padding, ctx

(* Whatever the length of a text is, md5_final transforms the text and the
   padding that MD5 prescribes in whole blocks, leaves nothing in its buffer
   and reads no more padding than there is. *)
THEOREM HashesWholeText == Spec => []HashOfWholeText
  <1>1. Len(Pad) = 64
    BY DEF Pad
  <1>2. InputsInv => HashOfWholeText
    <2> SUFFICES ASSUME InputsInv, kind = "text"
                 PROVE  /\ HashContext(input).transformed = Padded(input)
                        /\ HashContext(input).buffer = <<>>
                        /\ PadLength(Update(InitialContext, input))
                               \in 1 .. Len(Pad)
      BY DEF HashOfWholeText
    <2>1. input \in Seq({"text"} \X Nat)
      BY DEF InputsInv
    <2> QED
      BY <1>1, <2>1, HashTakesInPadded, Zenon
  <1> QED
    BY <1>2, InputsInvHolds, PTL
=============================================================================
