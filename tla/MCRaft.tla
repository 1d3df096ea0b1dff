------------------------------- MODULE MCRaft -------------------------------
(* Raft on a small cluster. *)
EXTENDS Raft, TLC

ServerSymmetry == Permutations(Server)
=============================================================================
