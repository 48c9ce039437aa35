----------------------------- MODULE MCPersistence -----------------------------
(* Small instances of KeyPersistence for TLC. *)
EXTENDS KeyPersistence, TLC

Symmetry == Permutations(Keys) \cup Permutations(Ids)
=============================================================================
