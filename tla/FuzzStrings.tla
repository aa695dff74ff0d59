---------------------------- MODULE FuzzStrings ----------------------------
(***************************************************************************)
(* The fuzzer of the functions that take texts apart (fuzz_strings.c), and *)
(* what a fuzzer cannot do: every input up to a bound, and a reference for *)
(* what it only calls.  The inputs are stream names, character by          *)
(* character; ids in which characters or the end are changed; random bytes *)
(* for an id; texts of every length for hash_64; and the numbers that its  *)
(* digest can be.                                                          *)
(***************************************************************************)
EXTENDS Queries, Uuid, Hash64

CONSTANTS Characters,   \* of names; one ordinary one is enough, next to - +
          MaxLength,    \* bound: of names
          Replacements, \* characters that are put into an id
          MaxEdits,     \* bound: how many
          Bytes,        \* values that are put among the random bytes
          MaxBytes,     \* bound: the length of a text to be hashed
          MaxGroup      \* bound: the size of a consumer group

(* NULL is not a name, and a refused id not an id. *)
ASSUME NullAssumption ==
    /\ Null \notin Seq(Characters)
    /\ NoUuid \notin [1 .. 36 -> LowerHexDigits \cup {"-"}]
ASSUME NumbersAssumption ==
    /\ MaxHash \in Nat /\ MaxGroup \in Nat
    /\ Bytes \subseteq 0 .. 255

VARIABLES kind,         \* what the input is
          input,
          edits         \* how often it was changed
vars == <<kind, input, edits>>

Template == <<"0", "0", "0", "0", "0", "0", "0", "a", "-",
              "0", "0", "0", "0", "-", "4", "0", "0", "0", "-",
              "a", "0", "0", "0", "-", "0", "0", "0", "0",
              "0", "0", "0", "0", "0", "0", "0", "f">>

Init ==
    /\ edits = 0
    /\ \/ kind = "name" /\ input = <<>>
       \/ kind = "id" /\ input = Template
       \/ kind = "random" /\ input = [i \in 0 .. 15 |-> 0]
       \/ kind = "text" /\ input = <<>>
       \/ kind = "number" /\ input = 0

Change(value) ==
    /\ input' = value
    /\ edits' = edits + 1
    /\ UNCHANGED kind

Type ==
    /\ kind = "name" /\ Len(input) < MaxLength
    /\ \E c \in Characters : Change(Append(input, c))

ReplaceCharacter ==
    /\ kind = "id" /\ edits < MaxEdits
    /\ \E i \in 1 .. Len(input), c \in Replacements :
           Change([input EXCEPT ![i] = c])

ChangeLength ==
    /\ kind = "id" /\ edits < MaxEdits
    /\ \/ Change(SubSeq(input, 1, Len(input) - 1))
       \/ Change(Append(input, "0"))

ReplaceByte ==
    /\ kind = "random" /\ edits < MaxEdits
    /\ \E i \in DOMAIN input, byte \in Bytes :
           Change([input EXCEPT ![i] = byte])

Lengthen ==
    /\ kind = "text" /\ Len(input) < MaxBytes
    /\ Change(Append(input, <<"text", Len(input) + 1>>))

Count ==
    /\ kind = "number" /\ input < 2 * MaxHash + 1
    /\ Change(input + 1)

Next ==
    \/ Type \/ ReplaceCharacter \/ ChangeLength \/ ReplaceByte \/ Lengthen
    \/ Count

Spec == Init /\ [][Next]_vars

-----------------------------------------------------------------------------
(* The fuzzer's own view of a name: the offset of its first hyphen, or its
   length if there is none. *)
FirstDash(name) ==
    IF \A i \in 1 .. Len(name) : name[i] # "-" THEN Len(name)
    ELSE (CHOOSE i \in 1 .. Len(name) :
              name[i] = "-" /\ \A j \in 1 .. i - 1 : name[j] # "-") - 1

InBounds(span, size) ==
    span.present => /\ span.offset \in 0 .. size
                    /\ span.length \in 0 .. size - span.offset

(* What it requires of the spans: the category reaches to the first hyphen,
   the id from there to the end, and the cardinal id to the first plus. *)
RequireSpans(name) ==
    LET dash == FirstDash(name)
        category == CategorySpan(name)
        id == IdSpan(name)
        cardinal_id == CardinalIdSpan(name)
    IN  /\ \A span \in {category, id, cardinal_id} : InBounds(span, Len(name))
        /\ category.present /\ category.offset = 0 /\ category.length = dash
        /\ IsCategory(name) <=> dash = Len(name)
        /\ id.present <=> dash < Len(name)
        /\ cardinal_id.present <=> dash < Len(name)
        /\ id.present =>
               LET end == cardinal_id.offset + cardinal_id.length
               IN  /\ id.offset = dash + 1 /\ cardinal_id.offset = dash + 1
                   /\ id.length = Len(name) - id.offset
                   /\ \A i \in dash + 2 .. end : name[i] # "+"
                   /\ end = Len(name) \/ name[end + 1] = "+"

(* What it requires of an id that is accepted: lower case, the version and
   the variant, and that it is accepted again as it is. *)
CanonicalOutput(id) ==
    /\ DOMAIN id = 1 .. 36
    /\ \A i \in 1 .. 36 : IF i - 1 \in HyphenPositions THEN id[i] = "-"
                           ELSE id[i] \in LowerHexDigits
    /\ id[15] = "4"
    /\ id[20] \in {"8", "9", "a", "b"}

RequireUuid(text) ==
    Canonical(text) # NoUuid =>
        /\ CanonicalOutput(Canonical(text))
        /\ Canonical(Canonical(text)) = Canonical(text)

-----------------------------------------------------------------------------
(* Every span lies within the bytes of the name, from which category_func and
   its siblings copy, and is the one that the fuzzer finds by itself. *)
SpansInBounds == kind = "name" => RequireSpans(input)

(* category() and id() split a name at its first hyphen and lose nothing, and
   what category() returns is a category of its own: the indexes on
   category(stream_name) and the category argument of a retrieval agree. *)
SplitLosesNothing ==
    kind = "name" =>
        /\ IsCategory(Category(input))
        /\ Category(Category(input)) = Category(input)
        /\ IF IsCategory(input)
           THEN Category(input) = input /\ Id(input) = Null
           ELSE input = Category(input) \o <<"-">> \o Id(input)

(* A name keeps its category from the first hyphen on, and its cardinal id
   from the first "+" of the id on: the compound streams of one entity
   (account-123+a, account-123+b+c) have one cardinal id, by which a consumer
   group keeps them together. *)
CompoundsKeepCardinalId ==
    [][ kind = "name" =>
            /\ ~IsCategory(input) => Category(input') = Category(input)
            /\ Id(input) # CardinalId(input)
                   => CardinalId(input') = CardinalId(input)
      ]_vars

Lowered(text) == [i \in DOMAIN text |-> LowerHex(text[i])]

(* write_message accepts the ids that the CHECK of the id column accepts, no
   more and no fewer.  What it stores for them is accepted again, stays as it
   is, and is the same however the letters are spelt: a retry that passes the
   id in upper case meets the unique index, which compares bytes. *)
IdsAsColumnAccepts ==
    kind = "id" =>
        /\ RequireUuid(input)
        /\ Canonical(input) # NoUuid <=> ColumnAccepts(input)
        /\ Canonical(input) # NoUuid => ColumnAccepts(Canonical(input))
        /\ Canonical(Lowered(input)) = Canonical(input)

(* An id that gen_random_uuid makes is one that write_message stores as it
   is, whatever the random bytes are. *)
GeneratedIdsCanonical ==
    kind = "random" => Canonical(FromBytes(input)) = FromBytes(input)

(* The text with the padding that MD5 prescribes: one bit, zeros up to eight
   bytes before the end of a block, and the length in bits. *)
Padded(text) ==
    LET zeros == CHOOSE n \in 0 .. 63 : (Len(text) + 1 + n + 8) % 64 = 0
    IN  text \o <<<<"pad", 128>>>> \o [i \in 1 .. zeros |-> <<"pad", 0>>]
             \o LengthBytes(8 * Len(text))

(* md5_final transforms the text and its padding in whole blocks, each byte
   once, leaves nothing in the buffer, and takes no more padding than there
   is in its array: for every length, also where the padding or the length
   just fits a block or just does not. *)
HashOfWholeText ==
    kind = "text" =>
        /\ HashContext(input).transformed = Padded(input)
        /\ HashContext(input).buffer = <<>>
        /\ PadLength(Update(InitialContext, input)) \in 1 .. Len(Pad)

(* Whatever 64 bits the digest begins with, hash_64 is the number they stand
   for in two's complement, and puts the stream into a consumer group slot
   that some member asks for. *)
EveryDigestHasASlot ==
    kind = "number" =>
        LET hash == Signed(input, MaxHash)
        IN  /\ hash \in MinHash .. MaxHash
            /\ (hash - input) % (2 * MaxHash + 2) = 0
            /\ \A size \in 1 .. MaxGroup : SlotOfHash(hash, size) \in 0 .. size - 1
=============================================================================
