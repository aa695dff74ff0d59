---------------------------- MODULE MCFuzzModel ----------------------------
(* An instance of FuzzModel for TLC. *)
EXTENDS FuzzModel, TLC

CONSTANTS id1, id2, id3, id4

FuzzStreams == {<<"a", "-", "1">>, <<"a", "-", "2">>, <<"b", "-", "1">>}

FuzzCorrelations == {Null, <<"b", "-", "1">>}

FuzzPositions == {-1, 0, 1, 2, 8}

FuzzBatchSizes == {-2, -1, 0, 1, 2, 1000}

Symmetry == Permutations(Ids)
=============================================================================
