---------------------------- MODULE MCLeasedKeys ----------------------------
(* LeasedKeys on a few keys, leases and clients. *)
EXTENDS LeasedKeys, TLC

KeySymmetry == Permutations(Key)
=============================================================================
