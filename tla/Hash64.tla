------------------------------- MODULE Hash64 -------------------------------
(***************************************************************************)
(* hash_64: how a text is cut into the blocks that MD5 transforms, and how *)
(* the first eight bytes of the digest become a signed integer.            *)
(*                                                                         *)
(* What the transformation does to a block is left out: a digest is the    *)
(* right one if the blocks are.  A byte is a pair that says where it comes *)
(* from, the text, the padding or the length, so that no two are confused. *)
(***************************************************************************)
EXTENDS Integers, Sequences

BlockSize == 64

(* total_length, the used part of the buffer, and the bytes of the blocks
   that were transformed, one block after the other. *)
InitialContext == [total_length |-> 0, buffer |-> <<>>, transformed |-> <<>>]

(* The bytes that go to the buffer first, if there is anything in it. *)
TopUp(ctx, data) ==
    LET needed == BlockSize - Len(ctx.buffer)
    IN  IF Len(ctx.buffer) = 0 THEN 0
        ELSE IF Len(data) < needed THEN Len(data) ELSE needed

Counted(ctx, n) == [ctx EXCEPT !.total_length = @ + n]

Buffered(ctx, data) == [ctx EXCEPT !.buffer = @ \o data]

(* A buffer that is full is transformed, and is empty then. *)
Flushed(ctx) ==
    IF Len(ctx.buffer) = BlockSize
    THEN [ctx EXCEPT !.transformed = @ \o ctx.buffer, !.buffer = <<>>]
    ELSE ctx

(* Whole blocks are transformed where they are; the bytes that are left, if
   there are any, are put at the front of the buffer. *)
Blocks(ctx, data) ==
    LET whole == (Len(data) \div BlockSize) * BlockSize
    IN  [ctx EXCEPT
            !.transformed = @ \o SubSeq(data, 1, whole),
            !.buffer = IF whole < Len(data)
                       THEN SubSeq(data, whole + 1, Len(data))
                       ELSE @]

(* md5_update. *)
Update(ctx, data) ==
    IF Len(data) = 0 THEN ctx
    ELSE LET first == TopUp(ctx, data)
         IN  Blocks(Flushed(Buffered(Counted(ctx, Len(data)),
                                     SubSeq(data, 1, first))),
                    SubSeq(data, first + 1, Len(data)))

(* Defect: a buffer with eight bytes left takes no padding. *)
PadLengthShort(ctx) ==
    IF Len(ctx.buffer) <= 56 THEN 56 - Len(ctx.buffer)
                             ELSE 120 - Len(ctx.buffer)

(* How much padding leaves eight bytes of a block. *)
PadLength(ctx) ==
    IF Len(ctx.buffer) < 56 THEN 56 - Len(ctx.buffer)
                            ELSE 120 - Len(ctx.buffer)

(* The array of 64 bytes that the padding is taken from. *)
Pad == [i \in 1 .. 64 |-> <<"pad", IF i = 1 THEN 128 ELSE 0>>]

(* The eight bytes that hold a length in bits. *)
LengthBytes(bits) == [i \in 1 .. 8 |-> <<"length", bits, i>>]

(* md5_final, up to the digest. *)
Final(ctx) ==
    Update(Update(ctx, SubSeq(Pad, 1, PadLength(ctx))),
           LengthBytes(8 * ctx.total_length))

(* msgdb_hash64, up to the digest. *)
HashContext(text) == Final(Update(InitialContext, text))

-----------------------------------------------------------------------------
(* signed_i64_from_u64: a number below 2 * max + 2, where max is INT64_MAX,
   as the signed number with the same bits. *)
Signed(value, max) ==
    IF value <= max THEN value ELSE -1 - (2 * max + 1 - value)
=============================================================================
