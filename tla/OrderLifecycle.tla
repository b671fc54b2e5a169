--------------------------- MODULE OrderLifecycle ---------------------------
(***************************************************************************)
(* What the order service promises about one order, free of requests,      *)
(* snapshots and failures: an order is placed, settled once under one      *)
(* transaction, then fulfilled; or it is abandoned before any settlement.  *)
(* OrderService implements this specification when no two callers work on  *)
(* the same order at once.                                                 *)
(***************************************************************************)
CONSTANTS Orders,        \* order ids
          Transactions,  \* transaction ids the payment service hands out
          None           \* "no transaction yet"

VARIABLES status,        \* status[o]: where order o stands
          settledBy      \* settledBy[o]: the transaction that paid for o

lvars == <<status, settledBy>>

LifecycleStatuses ==
  {"NONE", "PENDING_PAYMENT", "PAID", "COMPLETED", "CANCELLED"}

Init == /\ status = [o \in Orders |-> "NONE"]
        /\ settledBy = [o \in Orders |-> None]

Move(o, from, to) == /\ status[o] = from
                     /\ status' = [status EXCEPT ![o] = to]

Place(o) == /\ Move(o, "NONE", "PENDING_PAYMENT")
            /\ UNCHANGED settledBy

Settle(o, tx) == /\ Move(o, "PENDING_PAYMENT", "PAID")
                 /\ settledBy' = [settledBy EXCEPT ![o] = tx]

Abandon(o) == /\ Move(o, "PENDING_PAYMENT", "CANCELLED")
              /\ UNCHANGED settledBy

Fulfil(o) == /\ Move(o, "PAID", "COMPLETED")
             /\ UNCHANGED settledBy

Next == \E o \in Orders :
          \/ Place(o)
          \/ \E tx \in Transactions : Settle(o, tx)
          \/ Abandon(o)
          \/ Fulfil(o)

Spec == Init /\ [][Next]_lvars
=============================================================================
