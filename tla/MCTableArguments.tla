-------------------------- MODULE MCTableArguments --------------------------
(* Instances of TableArguments for TLC. *)
EXTENDS TableArguments

(* Around the boundaries of batch_size, of a member and of a group size. *)
Boundaries == {-2, -1, 0, 1}
=============================================================================
