---------------------------- MODULE MCRetrieval ----------------------------
(* Instances of Retrieval for TLC. *)
EXTENDS Retrieval, TLC

CONSTANTS r1, r2

(* "a" is a category; "a-1" and "a-1+2" are streams of one entity. *)
A == <<"a">>
A1 == <<"a", "-", "1">>
A12 == <<"a", "-", "1", "+", "2">>
A2 == <<"a", "-", "2">>
A3 == <<"a", "-", "3">>
B == <<"b">>
B1 == <<"b", "-", "1">>

GroupStreams == {A, A1, A12, A3}
EntityStreams == {A1, A2, A3}
CorrelatedStreams == {A1, B1}

(* The smallest hash, which has no absolute value, a negative and a positive
   one.  In a group of two, 1 and 2 belong to member 1 and 3 to member 0. *)
Hashes == <<"1">> :> -8 @@ <<"2">> :> -3 @@ <<"3">> :> 2

CategoryQuery(name, batch_size, correlation, member, size) ==
    [kind |-> "category", name |-> name, batch_size |-> batch_size,
     correlation |-> correlation, member |-> member, size |-> size]

(* A consumer group of two. *)
GroupQuery ==
    r1 :> CategoryQuery(A, 2, Null, 0, 2) @@ r2 :> CategoryQuery(A, -1, Null, 1, 2)

(* A follower of a stream, and one of a category and a correlation. *)
FollowerQuery ==
    r1 :> [kind |-> "stream", name |-> A1, batch_size |-> 2]
        @@ r2 :> CategoryQuery(A, 1, B, Null, 0)

NoCorrelations == {Null}
SomeCorrelations == {Null, A1, B1}
=============================================================================
