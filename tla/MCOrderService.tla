--------------------------- MODULE MCOrderService ---------------------------
(* Small instances of OrderService for TLC. *)
EXTENDS OrderService, TLC

\* Requests are interchangeable in the runs that check safety only.
RequestSymmetry == Permutations(Requests)
=============================================================================
