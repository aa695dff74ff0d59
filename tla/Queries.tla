------------------------------ MODULE Queries ------------------------------
(***************************************************************************)
(* The SQL queries behind get_stream_messages, get_category_messages and   *)
(* get_last_stream_message, over messages that are given by their global   *)
(* positions.  Of a message only the columns by which the queries select   *)
(* are kept.                                                               *)
(***************************************************************************)
EXTENDS StreamNames

CONSTANTS
    MaxHash,        \* hash_64 returns -MaxHash - 1 .. MaxHash
    Hash            \* Hash[i]: hash_64 of the cardinal id i

MinHash == -MaxHash - 1

(***************************************************************************)
(* The consumer group member that a stream belongs to: the hash of its     *)
(* cardinal id, without its sign, modulo the size of the group.  The hash  *)
(* that has no absolute value counts as the largest one.  A stream without *)
(* an id belongs to no member, for the slot is NULL.                       *)
(***************************************************************************)
(* Defect: abs() of every negative hash, as if it could not overflow. *)
AbsoluteOverflows(hash) == IF hash = MinHash THEN MinHash
                           ELSE IF hash < 0 THEN -hash ELSE hash

Absolute(hash) == IF hash = MinHash THEN MaxHash ELSE IF hash < 0 THEN -hash
                                                     ELSE hash

(* The % of SQL truncates: a negative number leaves a negative rest. *)
Modulo(n, size) == IF n < 0 THEN -((-n) % size) ELSE n % size

SlotOfHash(hash, size) == Modulo(Absolute(hash), size)

(* Defect: the sign of the hash stays. *)
SlotSigned(stream, size) ==
    LET id == CardinalId(stream)
    IN  IF id = Null THEN Null ELSE Modulo(Hash[id], size)

(* Defect: the id in place of the cardinal id; the hash of a compound id is
   not that of its cardinal id. *)
SlotOfId(stream, size) ==
    LET id == CardinalId(stream)
    IN  IF id = Null THEN Null
        ELSE Modulo(Absolute(Hash[id])
                        + (IF Id(stream) = id THEN 0 ELSE 1), size)

Slot(stream, size) ==
    LET id == CardinalId(stream)
    IN  IF id = Null THEN Null ELSE SlotOfHash(Hash[id], size)

-----------------------------------------------------------------------------
(* The WHERE clause of the query, but for the position. *)
Selects(query, message) ==
    \/ /\ query.kind = "stream"
       /\ message.stream_name = query.name
    \/ /\ query.kind = "category"
       /\ Category(message.stream_name) = query.name
       /\ query.correlation \in {Null, Category(message.correlation)}
       /\ query.member # Null
              => query.member = Slot(message.stream_name, query.size)

(* The column that the position argument bounds, and by which the rows are
   ordered: position for a stream, global_position for a category. *)
Key(query, messages, g) ==
    IF query.kind = "stream" THEN messages[g].position ELSE g

(* Defect: position > ?2. *)
RowsAfter(query, messages, view, from) ==
    {g \in 1 .. view :
        Key(query, messages, g) > from /\ Selects(query, messages[g])}

(* The rows of the query at or after a position, in the first messages. *)
RowsFrom(query, messages, view, from) ==
    {g \in 1 .. view :
        Key(query, messages, g) >= from /\ Selects(query, messages[g])}

(* Defect: ORDER BY ... DESC. *)
LastRow(query, messages, rows) ==
    IF rows = {} THEN 0
    ELSE CHOOSE g \in rows :
             \A h \in rows : Key(query, messages, g) >= Key(query, messages, h)

(* ORDER BY: the row that comes first, or 0 if there is none. *)
FirstRow(query, messages, rows) ==
    IF rows = {} THEN 0
    ELSE CHOOSE g \in rows :
             \A h \in rows : Key(query, messages, g) <= Key(query, messages, h)

(* Defect: the batch has one row too many. *)
NextRowBeyond(query, messages, view, from, returned) ==
    IF query.batch_size # -1 /\ returned > query.batch_size THEN 0
    ELSE FirstRow(query, messages, RowsFrom(query, messages, view, from))

(* What a step of the statement gets: the first row from a position on, or
   the end, which is 0.  LIMIT ends the statement after batch_size rows; -1
   does not limit it. *)
NextRow(query, messages, view, from, returned) ==
    IF returned = query.batch_size THEN 0
    ELSE FirstRow(query, messages, RowsFrom(query, messages, view, from))

-----------------------------------------------------------------------------
(* Defect: the type is not compared. *)
LastAnyType(messages, view, stream, type) ==
    {g \in 1 .. view :
        /\ messages[g].stream_name = stream
        /\ \A h \in 1 .. view :
               messages[h].stream_name = stream
                   => messages[h].position <= messages[g].position}

(* get_last_stream_message: the row with the largest position among those of
   a stream, and of a type if one is given. *)
LastMessage(messages, view, stream, type) ==
    LET rows == {g \in 1 .. view : /\ messages[g].stream_name = stream
                                   /\ type \in {Null, messages[g].type}}
    IN  {g \in rows : \A h \in rows :
                          messages[h].position <= messages[g].position}
=============================================================================
