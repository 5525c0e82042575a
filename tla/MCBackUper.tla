----------------------------- MODULE MCBackUper -----------------------------
(* Small instances of the backup archive for TLC. *)
EXTENDS BackUperSafety, TLC, FiniteSets

CONSTANTS p1, p2, p3, v1, v2, se3, other

SymmetricData == Permutations({p1, p2, p3}) \cup Permutations({v1, v2})
SymmetricPair == Permutations({p1, p2}) \cup Permutations({se3, other})
=============================================================================
