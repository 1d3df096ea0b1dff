------------------------------ MODULE MCEngine ------------------------------
(* Engine on a few keys, values and records. *)
EXTENDS Engine

KeySymmetry == Permutations(Key)
=============================================================================
