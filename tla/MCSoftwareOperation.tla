------------------------- MODULE MCSoftwareOperation -------------------------
(* Small instances of SoftwareOperation for TLC. *)
EXTENDS SoftwareOperation, TLC

Symmetry == Permutations(Handles) \cup Permutations(Keys)

\* A signing key that can be used once, and a key without a limit.
SigningKeys ==
    {[algorithm |-> "EC", purpose |-> {"SIGN"}, usageCountLimit |-> 1]}
    \cup {[algorithm |-> "AES", purpose |-> {"ENCRYPT", "DECRYPT"}, usageCountLimit |-> 0]}
=============================================================================
