--------------------------- MODULE MCOrderCreate ---------------------------
(* OrderCreate for TLC: uuids are interchangeable. *)
EXTENDS OrderCreate

PartSymmetry == Permutations(PartIds)
=============================================================================
