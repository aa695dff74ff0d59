------------------------------ MODULE MCSchema ------------------------------
(* Instances of Schema for TLC. *)
EXTENDS Schema, TLC

CONSTANTS s1, s2, s3, id1, id2, account
=============================================================================
