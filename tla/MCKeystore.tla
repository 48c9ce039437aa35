------------------------------ MODULE MCKeystore ------------------------------
(* Small instances of Keystore2Interceptor for TLC. *)
EXTENDS Keystore2Interceptor, TLC

CONSTANTS u1, u2

\* Threads and drawn numbers are interchangeable.
Symmetry == Permutations(Threads) \cup Permutations(RealIds) \cup Permutations(ForgedIds)

Auto     == {"AUTO"}
Leaf     == {"LEAF_HACK"}
Generate == {"GENERATE"}
Mixed    == {"LEAF_HACK", "GENERATE"}     \* a shared UID

\* u1 is moved between the modes of target.txt; u2 is its grantee.
TargetedOwner == [uid \in Uids |-> IF uid = u1 THEN {Auto, Leaf, Generate} ELSE {Auto, Leaf}]
SharedAlone   == [uid \in Uids |-> {Auto, Mixed}]

GenerateOwner == [uid \in Uids |-> IF uid = u1 THEN {Generate} ELSE {Auto}]
LeafOwner     == [uid \in Uids |-> {Leaf}]

EveryOp  == AllOps
EveryEnv == AllEnv
Attested == {"attested"}
AttestedOrSymmetric == {"attested", "symmetric"}
ReadOnly == {{"GET_INFO"}}
ReadOrUpdate == {{"GET_INFO"}, {"GET_INFO", "UPDATE"}}
=============================================================================
