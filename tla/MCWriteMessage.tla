--------------------------- MODULE MCWriteMessage ---------------------------
(* Instances of WriteMessage for TLC. *)
EXTENDS WriteMessage, TLC

CONSTANTS c1, c2, id1, id2, account

TwoConns == {c1, c2}
OneStream == {account}
TwoIds == {id1, id2}

(* The version of an empty stream. *)
EarlyVersions == {-1}

(* Connections and ids are interchangeable. *)
Symmetry == Permutations(Conns) \cup Permutations(Ids)
=============================================================================
