-------------------------- MODULE MCOwnershipWrites --------------------------
(* Small instances of OwnershipWrites for TLC. *)
EXTENDS OwnershipWrites, TLC

Symmetry == Permutations(Keys) \cup Permutations(KeyIds) \cup Permutations(GrantIds) \cup Permutations(Threads)
=============================================================================
