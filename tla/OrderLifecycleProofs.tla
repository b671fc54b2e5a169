------------------------ MODULE OrderLifecycleProofs ------------------------
(***************************************************************************)
(* What the order service guarantees, for any number of orders, requests,  *)
(* methods and with any of the faults, when callers take turns: the events *)
(* agree with the table, no order is charged twice behind a caller's back, *)
(* and every order goes through OrderLifecycle.                            *)
(***************************************************************************)
EXTENDS OrderServiceProofs

-----------------------------------------------------------------------------
(* The inductive invariant. *)

\* No two requests in flight name the same order.
OneAtATime ==
  \A r, q \in Requests :
    InFlight(r) /\ InFlight(q) /\ params[r].id = params[q].id => r = q

\* A request that is yet to write decided on the status the row still has; one
\* that has written finds its own payment there.
CopiesAreFresh ==
  \A r \in Requests :
    /\ pc[r] \in {"pay_charge", "pay_update", "cancel_update"} =>
         rows[params[r].id].status = "PENDING_PAYMENT"
    /\ pc[r] = "pay_send" => /\ rows[params[r].id].tx = r
                             /\ rows[params[r].id].method = params[r].method

\* A cancelled order was not paid.
CancelledIsUnpaid ==
  \A o \in Orders : rows[o].status = "CANCELLED" => rows[o].tx = None

\* A charge was made by the Pay request that names it; while no failure was
\* reported, that request is between its charge and its answer, or answered
\* with success.
ChargesAreKnown ==
  \A c \in charges :
    /\ c = ChargeOf(c.tx)
    /\ pc[c.tx] \in {"pay_update", "pay_send", "done"}
    /\ reply[c.tx] \in {NoReply, 200, 500, 502, Lost}
    /\ pc[c.tx] = "done" => reply[c.tx] # NoReply

TurnsInv == /\ OneAtATime
            /\ CopiesAreFresh
            /\ CancelledIsUnpaid
            /\ EventMatchesRow
            /\ ChargesAreKnown

-----------------------------------------------------------------------------
(* Every step keeps it. *)

\* Nothing has happened yet.
LEMMA InitTurns == Init => TurnsInv
BY DEF Init, TurnsInv, OneAtATime, InFlight, CopiesAreFresh, CancelledIsUnpaid,
       NoRow, EventMatchesRow, ChargesAreKnown

\* A request enters flight only when no other one names its order.
LEMMA OneAtATimeKept ==
  ASSUME Serialized, IInv, OneAtATime, [Next]_vars
  PROVE  OneAtATime'
<1> USE DEF IInv, TypeOK
<1>1. ASSUME NEW r \in Requests, NEW o \in Orders,
             MayStart(r, o), params'[r].id = o,
             \A q \in Requests \ {r} : pc'[q] = pc[q] /\ params'[q] = params[q]
      PROVE  OneAtATime'
  BY <1>1 DEF MayStart, OneAtATime, InFlight
<1>2. ASSUME UNCHANGED params,
             \A q \in Requests : InFlight(q)' => InFlight(q)
      PROVE  OneAtATime'
  BY <1>2 DEF OneAtATime, InFlight
<1>3. ASSUME NEW r \in Requests, NEW o \in Orders, NEW m \in Methods,
             PayRead(r, o, m)
      PROVE  OneAtATime'
  BY <1>1, <1>3 DEF PayRead, PayOrderRequestToParams, Goto, Answer
<1>4. ASSUME NEW r \in Requests, NEW o \in Orders, CancelRead(r, o)
      PROVE  OneAtATime'
  BY <1>1, <1>4 DEF CancelRead, Goto, Answer
<1>5. ASSUME NEW r \in Requests,
             PayCharge(r) \/ PayUpdate(r) \/ PaySend(r) \/ CancelUpdate(r)
      PROVE  OneAtATime'
  BY <1>2, <1>5
     DEF PayCharge, PayUpdate, PaySend, CancelUpdate, Goto, Answer, InFlight
<1>6. ASSUME NEW o \in Orders, Create(o) \/ ShipAssembled(o)
      PROVE  OneAtATime'
  BY <1>2, <1>6 DEF Create, ShipAssembled, InFlight
<1>7. CASE Crash \/ UNCHANGED vars
  BY <1>2, <1>7 DEF Crash, vars, InFlight
<1> QED BY <1>3, <1>4, <1>5, <1>6, <1>7 DEF Next, Pay, Cancel

\* The parts of the invariant other than OneAtATime.
Fresh == CopiesAreFresh /\ CancelledIsUnpaid /\ EventMatchesRow /\ ChargesAreKnown

\* A request that starts copies the row as it is.
LEMMA ReadsAreFresh ==
  ASSUME IInv, TurnsInv, NEW r \in Requests, NEW o \in Orders,
         CancelRead(r, o) \/ \E m \in Methods : PayRead(r, o, m)
  PROVE  Fresh'
<1> USE DEF IInv, TypeOK, TurnsInv
<1>1. /\ pc[r] = "idle" /\ params'[r].id = o
      /\ pc'[r] \in {"done", "pay_charge", "cancel_update"}
      /\ pc'[r] # "done" => rows[o].status = "PENDING_PAYMENT"
      /\ \A q \in Requests \ {r} : /\ pc'[q] = pc[q] /\ params'[q] = params[q]
                                   /\ reply'[q] = reply[q]
      /\ UNCHANGED <<rows, charges, published>>
  BY DEF PayRead, CancelRead, MayStart, PayOrderRequestToParams, Goto, Answer,
         Payable, Cancellable
<1>2. CopiesAreFresh'
  BY <1>1 DEF CopiesAreFresh
<1>3. ChargesAreKnown'
  BY <1>1 DEF ChargesAreKnown, ChargeOf, Charge
<1> QED BY <1>1, <1>2, <1>3 DEF Fresh, CancelledIsUnpaid, EventMatchesRow

\* A charge names the request that made it.
LEMMA ChargeIsFresh ==
  ASSUME IInv, TurnsInv, NEW r \in Requests, PayCharge(r)
  PROVE  Fresh'
<1> USE DEF IInv, TypeOK, TurnsInv
<1>1. /\ pc[r] = "pay_charge" /\ reply[r] = NoReply
      /\ \A q \in Requests \ {r} : pc'[q] = pc[q] /\ reply'[q] = reply[q]
      /\ \/ pc'[r] = "pay_update" /\ reply'[r] = NoReply
         \/ pc'[r] = "done" /\ reply'[r] \in {500, 502}
      /\ charges' \subseteq charges \cup {ChargeOf(r)}
      /\ UNCHANGED <<rows, params, published>>
  BY DEF PayCharge, PayOrder, Goto, Answer, StatusCode, CopiesAreSound
<1>2. CopiesAreFresh'
  BY <1>1 DEF CopiesAreFresh
<1>3. ASSUME NEW c \in charges'
      PROVE  /\ c = ChargeOf(c.tx)'
             /\ pc'[c.tx] \in {"pay_update", "pay_send", "done"}
             /\ reply'[c.tx] \in {NoReply, 200, 500, 502, Lost}
             /\ pc'[c.tx] = "done" => reply'[c.tx] # NoReply
  <2>1. CASE c \in charges
    BY <1>1, <2>1 DEF ChargesAreKnown, ChargeOf, Charge
  <2>2. CASE c = ChargeOf(r)
    BY <1>1, <2>2 DEF ChargeOf, NoReply
  <2> QED BY <1>1, <2>1, <2>2
<1>4. ChargesAreKnown'
  BY <1>3 DEF ChargesAreKnown
<1> QED BY <1>1, <1>2, <1>4 DEF Fresh, CancelledIsUnpaid, EventMatchesRow

\* What a request that is done or goes on to its send, and that adds no charge,
\* does to ChargesAreKnown: nothing, if it answers like a Pay past its charge.
LEMMA AnswersAreKnown ==
  ASSUME IInv, TurnsInv, NEW r \in Requests, UNCHANGED <<params, charges>>,
         \A q \in Requests \ {r} : pc'[q] = pc[q] /\ reply'[q] = reply[q],
         \/ \A c \in charges : c.tx # r
         \/ pc'[r] = "pay_send" /\ reply'[r] = reply[r]
         \/ pc'[r] = "done" /\ reply'[r] \in {200, 500}
  PROVE  ChargesAreKnown'
BY DEF IInv, TypeOK, TurnsInv, ChargesAreKnown, ChargeOf, Charge, NoReply, Lost

\* A write by the only request in flight on a PENDING_PAYMENT order disturbs
\* no other copy, and no event names that order yet.
LEMMA WriteDisturbsNobody ==
  ASSUME IInv, TurnsInv, NEW r \in Requests, NEW o \in Orders,
         InFlight(r), params[r].id = o, rows[o].status = "PENDING_PAYMENT",
         UNCHANGED <<params, published>>,
         \A q \in Requests \ {r} : pc'[q] = pc[q],
         \A p \in Orders : p # o => rows'[p] = rows[p],
         rows'[o].status = "CANCELLED" => rows'[o].tx = None,
         pc'[r] = "pay_send" => /\ rows'[o].tx = r
                                /\ rows'[o].method = params[r].method,
         pc'[r] \in {"pay_send", "done"}
  PROVE  (CopiesAreFresh /\ CancelledIsUnpaid /\ EventMatchesRow)'
<1> USE DEF IInv, TypeOK, TurnsInv
<1>1. \A q \in Requests \ {r} : InFlight(q) => params[q].id \in Orders \ {o}
  BY DEF OneAtATime, CopiesAreSound
<1>2. \A e \in published : e.order \in Orders \ {o}
  BY DEF PublishedIsPersisted, Charge
<1>3. CopiesAreFresh'
  BY <1>1 DEF CopiesAreFresh, InFlight
<1>4. CancelledIsUnpaid'
  BY DEF CancelledIsUnpaid
<1>5. EventMatchesRow'
  BY <1>2 DEF EventMatchesRow
<1> QED BY <1>3, <1>4, <1>5

\* Pay's write meets the status it read.
LEMMA PayUpdateIsFresh ==
  ASSUME IInv, TurnsInv, NEW r \in Requests, PayUpdate(r)
  PROVE  Fresh'
<1> DEFINE o == params[r].id
<1> USE DEF IInv, TypeOK, TurnsInv
<1>1. /\ o \in Orders /\ InFlight(r) /\ r # None /\ params[r].method # None
      /\ rows[o].status = "PENDING_PAYMENT"
      /\ ord[r] = [status |-> "PAID", tx |-> r, method |-> params[r].method]
      /\ UNCHANGED <<params, ord, charges, published>>
  <2>1. /\ pc[r] = "pay_update" /\ InFlight(r)
        /\ UNCHANGED <<params, ord, charges, published>>
    BY DEF PayUpdate, InFlight
  <2>2. o \in Orders /\ r # None /\ params[r].method # None
    BY <2>1, NoneIsFresh DEF CopiesAreSound, ChargeOf, Charge
  <2>3. /\ rows[o].status = "PENDING_PAYMENT"
        /\ ord[r] = [status |-> "PAID", tx |-> r, method |-> params[r].method]
    BY <2>1 DEF CopiesAreSound, CopiesAreFresh
  <2> QED BY <2>1, <2>2, <2>3
<1>2. /\ pc'[r] \in {"pay_send", "done"}
      /\ pc'[r] = "pay_send" => reply'[r] = reply[r]
      /\ pc'[r] = "done" => reply'[r] = 500
      /\ \A q \in Requests \ {r} : pc'[q] = pc[q] /\ reply'[q] = reply[q]
  BY DEF PayUpdate, Goto, Answer
<1>3. ChargesAreKnown'
  BY <1>1, <1>2, AnswersAreKnown
<1>4. CASE Update(o, ord[r])
  <2>1. /\ rows'[o] = [status |-> "PAID", tx |-> r, method |-> params[r].method]
        /\ \A p \in Orders : p # o => rows'[p] = rows[p]
    BY <1>1, <1>4, UpdateEffect DEF UpdatedRow
  <2>2. (CopiesAreFresh /\ CancelledIsUnpaid /\ EventMatchesRow)'
    BY <1>1, <1>2, <2>1, WriteDisturbsNobody
  <2> QED BY <1>3, <2>2 DEF Fresh
<1>5. CASE UNCHANGED rows /\ Answer(r, 500)
  BY <1>1, <1>2, <1>3, <1>5
     DEF Fresh, CopiesAreFresh, CancelledIsUnpaid, EventMatchesRow, Answer
<1> QED BY <1>4, <1>5 DEF PayUpdate

\* Cancel's write meets the status it read.
LEMMA CancelUpdateIsFresh ==
  ASSUME IInv, TurnsInv, NEW r \in Requests, CancelUpdate(r)
  PROVE  Fresh'
<1> DEFINE o == params[r].id
<1> USE DEF IInv, TypeOK, TurnsInv
<1>1. /\ o \in Orders /\ InFlight(r) /\ pc[r] = "cancel_update"
      /\ rows[o].status = "PENDING_PAYMENT" /\ rows[o].tx = None
      /\ ord[r] = [status |-> "CANCELLED", tx |-> None, method |-> None]
      /\ UNCHANGED <<params, ord, charges, published>>
  BY DEF CancelUpdate, InFlight, CopiesAreSound, CopiesAreFresh, RowsAreSound
<1>2. /\ pc'[r] = "done"
      /\ \A q \in Requests \ {r} : pc'[q] = pc[q] /\ reply'[q] = reply[q]
  BY DEF CancelUpdate, Answer
<1>3. ChargesAreKnown'
  <2>1. \A c \in charges : c.tx # r
    BY <1>1 DEF ChargesAreKnown
  <2> QED BY <1>1, <1>2, <2>1, AnswersAreKnown
<1>4. CASE Update(o, ord[r])
  <2>1. /\ rows'[o] = UpdatedRow(rows[o], ord[r])
        /\ \A p \in Orders : p # o => rows'[p] = rows[p]
    BY <1>1, <1>4, UpdateEffect
  <2>2. rows'[o].tx = None
    BY <1>1, <2>1 DEF UpdatedRow
  <2>3. (CopiesAreFresh /\ CancelledIsUnpaid /\ EventMatchesRow)'
    BY <1>1, <1>2, <2>1, <2>2, WriteDisturbsNobody
  <2> QED BY <1>3, <2>3 DEF Fresh
<1>5. CASE UNCHANGED rows
  BY <1>1, <1>2, <1>3, <1>5
     DEF Fresh, CopiesAreFresh, CancelledIsUnpaid, EventMatchesRow
<1> QED BY <1>4, <1>5 DEF CancelUpdate

\* The event of a send carries the payment that the row holds.
LEMMA PaySendIsFresh ==
  ASSUME IInv, TurnsInv, NEW r \in Requests, PaySend(r)
  PROVE  Fresh'
<1> USE DEF IInv, TypeOK, TurnsInv
<1>1. /\ pc[r] = "pay_send"
      /\ pc'[r] = "done" /\ reply'[r] \in {200, 500}
      /\ \A q \in Requests \ {r} : pc'[q] = pc[q] /\ reply'[q] = reply[q]
      /\ published' \subseteq published \cup {ChargeOf(r)}
      /\ UNCHANGED <<rows, params, ord, charges>>
  BY DEF PaySend, Answer
<1>2. ChargesAreKnown'
  BY <1>1, AnswersAreKnown
<1>3. CopiesAreFresh' /\ CancelledIsUnpaid'
  BY <1>1 DEF CopiesAreFresh, CancelledIsUnpaid
<1>4. EventMatchesRow'
  BY <1>1 DEF EventMatchesRow, CopiesAreFresh, ChargeOf
<1> QED BY <1>2, <1>3, <1>4 DEF Fresh

\* A ship is assembled for an order that is PAID or COMPLETED.
LEMMA AnnouncedIsPaid ==
  ASSUME IInv, TurnsInv, NEW e \in published
  PROVE  rows[e.order].status \in {"PAID", "COMPLETED"}
BY DEF IInv, TypeOK, TurnsInv, Row, Statuses, Charge, PublishedIsPersisted,
       CancelledIsUnpaid

\* Complete changes the status alone.
LEMMA CompleteEffect ==
  ASSUME IInv, NEW o \in Orders, ShipAssembled(o)
  PROVE  /\ rows'[o].status = "COMPLETED" /\ rows'[o].tx = rows[o].tx
         /\ rows'[o].method = rows[o].method
         /\ \A q \in Orders : q # o => rows'[q] = rows[q]
<1> DEFINE upd == [status |-> "COMPLETED", tx |-> None, method |-> None]
<1>1. Update(o, upd)
  BY DEF ShipAssembled, Complete
<1> HIDE DEF upd
<1>2. /\ rows'[o] = UpdatedRow(rows[o], upd)
      /\ \A q \in Orders : q # o => rows'[q] = rows[q]
  BY <1>1, UpdateEffect DEF IInv
<1> QED BY <1>2 DEF UpdatedRow, upd

\* Every step keeps the invariant.
LEMMA NextTurns == Serialized /\ IInv /\ TurnsInv /\ [Next]_vars => TurnsInv'
<1> SUFFICES ASSUME Serialized, IInv, TurnsInv, [Next]_vars PROVE Fresh'
  BY OneAtATimeKept DEF TurnsInv, Fresh
<1> USE DEF IInv, TypeOK, TurnsInv
<1>1. ASSUME NEW o \in Orders, Create(o) PROVE Fresh'
  <2>1. /\ rows[o].status = "NONE" /\ rows'[o].status = "PENDING_PAYMENT"
        /\ \A q \in Orders : q # o => rows'[q] = rows[q]
        /\ UNCHANGED <<pc, params, ord, charges, published, reply>>
    BY <1>1 DEF Create, Insert, NoRow
  <2>2. \A r \in Requests : InFlight(r) => params[r].id \in Orders \ {o}
    BY <2>1 DEF CopiesAreSound
  <2>3. \A e \in published : e.order \in Orders \ {o}
    BY <2>1 DEF PublishedIsPersisted, Charge
  <2>4. CopiesAreFresh'
    BY <2>1, <2>2 DEF CopiesAreFresh, InFlight
  <2>5. CancelledIsUnpaid' /\ EventMatchesRow'
    BY <2>1, <2>3 DEF CancelledIsUnpaid, EventMatchesRow
  <2>6. ChargesAreKnown'
    BY <2>1 DEF ChargesAreKnown, ChargeOf
  <2> QED BY <2>4, <2>5, <2>6 DEF Fresh
<1>2. ASSUME NEW o \in Orders, ShipAssembled(o) PROVE Fresh'
  <2>1. UNCHANGED <<pc, params, ord, charges, published, reply>>
    BY <1>2 DEF ShipAssembled, Complete
  <2>2. rows[o].status \in {"PAID", "COMPLETED"}
    BY <1>2, AnnouncedIsPaid DEF ShipAssembled
  <2>3. CopiesAreFresh'
    BY <1>2, <2>1, <2>2, CompleteEffect DEF CopiesAreFresh, CopiesAreSound, InFlight
  <2>4. CancelledIsUnpaid' /\ EventMatchesRow'
    BY <1>2, <2>1, CompleteEffect DEF CancelledIsUnpaid, EventMatchesRow, Charge
  <2>5. ChargesAreKnown'
    BY <2>1 DEF ChargesAreKnown, ChargeOf
  <2> QED BY <2>3, <2>4, <2>5 DEF Fresh
<1>3. ASSUME NEW r \in Requests, Pay(r) PROVE Fresh'
  BY <1>3, ReadsAreFresh, ChargeIsFresh, PayUpdateIsFresh, PaySendIsFresh DEF Pay
<1>4. ASSUME NEW r \in Requests, Cancel(r) PROVE Fresh'
  BY <1>4, ReadsAreFresh, CancelUpdateIsFresh DEF Cancel
<1>5. CASE Crash
  <2>1. CopiesAreFresh'
    BY <1>5 DEF Crash, CopiesAreFresh, InFlight
  <2>2. CancelledIsUnpaid' /\ EventMatchesRow'
    BY <1>5 DEF Crash, CancelledIsUnpaid, EventMatchesRow
  <2>3. ChargesAreKnown'
    BY <1>5 DEF Crash, ChargesAreKnown, ChargeOf, Charge, InFlight, Lost, NoReply
  <2> QED BY <2>1, <2>2, <2>3 DEF Fresh
<1>6. CASE UNCHANGED vars
  BY <1>6 DEF vars, Fresh, CopiesAreFresh, CancelledIsUnpaid, EventMatchesRow,
              ChargesAreKnown, ChargeOf
<1> QED BY <1>1, <1>2, <1>3, <1>4, <1>5, <1>6 DEF Next

\* Both invariants hold in every reachable state.
THEOREM TurnsInvariance == Serialized => (Spec => [](IInv /\ TurnsInv))
<1> SUFFICES ASSUME Serialized PROVE Spec => [](IInv /\ TurnsInv)
  OBVIOUS
<1>1. Init => IInv /\ TurnsInv
  BY InitInv, InitTurns
<1>2. IInv /\ TurnsInv /\ [Next]_vars => (IInv /\ TurnsInv)'
  BY NextInv, NextTurns
<1> QED BY <1>1, <1>2, PTL DEF Spec

-----------------------------------------------------------------------------
(* What follows. *)

\* When callers take turns, every event on order.paid carries the transaction
\* and the method that the table holds for its order (Pay, SendOrderPaid).
THEOREM EventsMatchRows == Serialized => (Spec => []EventMatchesRow)
<1> SUFFICES ASSUME Serialized PROVE Spec => []EventMatchesRow
  OBVIOUS
<1> QED BY TurnsInvariance, PTL DEF TurnsInv

\* When callers take turns, an order is charged again, or cancelled after its
\* charge, only if the caller of the first charge was told of a failure or of
\* nothing (Pay, Cancel).
THEOREM NobodyIsChargedTwice == Serialized => (Spec => []ChargedOnce)
<1> SUFFICES ASSUME Serialized PROVE Spec => []ChargedOnce
  OBVIOUS
<1>1. ASSUME IInv, TurnsInv, NEW c \in charges, reply[c.tx] \in {NoReply, 200}
      PROVE  /\ c.tx \in Requests /\ c.order \in Orders
             /\ c = ChargeOf(c.tx) /\ params[c.tx].id = c.order
             /\ \/ InFlight(c.tx) /\ rows[c.order].status = "PENDING_PAYMENT"
                \/ rows[c.order].tx = c.tx /\ (reply[c.tx] = NoReply => InFlight(c.tx))
  <2> USE <1>1 DEF IInv, TypeOK, TurnsInv
  <2>1. /\ c.tx \in Requests /\ c.order \in Orders
        /\ c = ChargeOf(c.tx) /\ params[c.tx].id = c.order
    BY DEF Charge, ChargesAreKnown, ChargeOf
  <2>2. CASE reply[c.tx] = 200
    <3>1. c \in published
      BY <2>1, <2>2 DEF OkMeansAnnounced
    <3>2. rows[c.order].tx = c.tx
      BY <3>1 DEF EventMatchesRow
    <3> QED BY <2>1, <2>2, <3>2 DEF NoReply
  <2>3. CASE reply[c.tx] = NoReply
    <3>1. pc[c.tx] \in {"pay_update", "pay_send"}
      BY <2>3 DEF ChargesAreKnown
    <3> QED BY <2>1, <3>1 DEF CopiesAreFresh, InFlight
  <2> QED BY <2>1, <2>2, <2>3
<1>2. ASSUME IInv, TurnsInv, NEW c \in charges, reply[c.tx] \in {NoReply, 200}
      PROVE  rows[c.order].status # "CANCELLED"
  BY <1>1, <1>2, NoneIsFresh DEF TurnsInv, CancelledIsUnpaid
<1>3. ASSUME IInv, TurnsInv, NEW c \in charges, NEW d \in charges,
             reply[c.tx] \in {NoReply, 200}, reply[d.tx] \in {NoReply, 200},
             d.order = c.order
      PROVE  c = d
  <2>1. rows[c.order].status = "PENDING_PAYMENT" => rows[c.order].tx = None
    BY <1>1, <1>3 DEF IInv, RowsAreSound
  <2>2. c.tx = d.tx
    BY <1>1, <1>3, <2>1, NoneIsFresh DEF TurnsInv, OneAtATime
  <2> QED BY <1>1, <1>3, <2>2
<1>4. ASSUME IInv, TurnsInv PROVE ChargedOnce
  <2>1. \A c \in charges : reply[c.tx] \in {NoReply, 200, 500, 502, Lost}
    BY <1>4 DEF TurnsInv, ChargesAreKnown
  <2> QED BY <1>2, <1>3, <1>4, <2>1 DEF ChargedOnce
<1> QED BY <1>4, TurnsInvariance, PTL

\* What a write can meet when callers take turns: Pay and Cancel write to a
\* PENDING_PAYMENT row, and only Complete writes to one that is paid.
Met(o) ==
  \/ rows'[o] = rows[o]
  \/ /\ rows[o].status = "NONE" /\ rows'[o].status = "PENDING_PAYMENT"
     /\ rows'[o].tx = rows[o].tx
  \/ rows[o].status = "PENDING_PAYMENT" /\ rows'[o].status = "PAID"
  \/ rows[o].status = "PENDING_PAYMENT" /\ rows'[o].status = "CANCELLED"
  \/ /\ rows[o].status \in {"PAID", "COMPLETED"} /\ rows'[o].status = "COMPLETED"
     /\ rows'[o].tx = rows[o].tx /\ rows'[o].method = rows[o].method

\* No step does anything else to a row.
LEMMA StepsMeet ==
  ASSUME IInv, TurnsInv, [Next]_vars, NEW o \in Orders
  PROVE  Met(o)
<1> USE DEF IInv, TypeOK, TurnsInv
<1>1. ASSUME NEW q \in Orders, Create(q) PROVE Met(o)
  BY <1>1 DEF Create, Insert, NoRow, Met
<1>2. ASSUME NEW q \in Orders, ShipAssembled(q) PROVE Met(o)
  <2>1. rows[q].status \in {"PAID", "COMPLETED"}
    BY <1>2, AnnouncedIsPaid DEF ShipAssembled
  <2> QED BY <1>2, <2>1, CompleteEffect DEF Met
<1>3. ASSUME NEW r \in Requests, PayUpdate(r) \/ CancelUpdate(r), rows' # rows
      PROVE  Met(o)
  <2>0. PICK q \in Orders : q = params[r].id
    BY <1>3 DEF PayUpdate, CancelUpdate, InFlight, CopiesAreSound
  <2>1. /\ rows[q].status = "PENDING_PAYMENT" /\ ord[r].status \in {"PAID", "CANCELLED"}
        /\ ord[r] \in Row /\ Update(q, ord[r])
    BY <1>3, <2>0 DEF PayUpdate, CancelUpdate, InFlight, CopiesAreSound, CopiesAreFresh
  <2>2. /\ rows'[q] = UpdatedRow(rows[q], ord[r])
        /\ \A p \in Orders : p # q => rows'[p] = rows[p]
    BY <2>1, UpdateEffect
  <2>3. rows'[q].status = ord[r].status
    BY <2>2 DEF UpdatedRow
  <2> QED BY <2>1, <2>2, <2>3 DEF Met
<1>4. CASE UNCHANGED rows
  BY <1>4 DEF Met
<1>5. ASSUME NEW r \in Requests,
             \/ \E q \in Orders, m \in Methods : PayRead(r, q, m)
             \/ PayCharge(r) \/ PaySend(r)
             \/ \E q \in Orders : CancelRead(r, q)
      PROVE  UNCHANGED rows
  BY <1>5 DEF PayRead, PayCharge, PaySend, CancelRead
<1> QED BY <1>1, <1>2, <1>3, <1>4, <1>5 DEF Next, Pay, Cancel, Crash, vars

\* A payment is taken while its order waits for one.
LEMMA ChargesMeet ==
  ASSUME IInv, TurnsInv, [Next]_vars, NEW c \in charges' \ charges
  PROVE  c.order \in Orders /\ rows[c.order].status = "PENDING_PAYMENT"
<1> USE DEF IInv, TypeOK, TurnsInv
<1>1. PICK r \in Requests : PayCharge(r)
  BY DEF Next, Create, ShipAssembled, Complete, Pay, Cancel, PayRead, PayUpdate,
         PaySend, CancelRead, CancelUpdate, Crash, vars
<1>2. c = ChargeOf(r) /\ pc[r] = "pay_charge"
  BY <1>1 DEF PayCharge, PayOrder
<1> QED BY <1>2 DEF ChargeOf, CopiesAreSound, CopiesAreFresh, InFlight

\* The interface description is right about callers that take turns: PayOrder
\* is called, payment data is stored, and an order is cancelled, only while it
\* is PENDING_PAYMENT. That it is wrong about callers that race is shown by a
\* run (Pay, Cancel).
THEOREM ActsInTurn == Serialized => (Spec => ActsOnPendingOnly)
<1> SUFFICES ASSUME Serialized PROVE Spec => ActsOnPendingOnly
  OBVIOUS
<1> DEFINE Rule(o) ==
      \/ rows[o].status = "PENDING_PAYMENT"
      \/ /\ \A c \in charges' \ charges : c.order # o
         /\ rows'[o].tx = rows[o].tx
         /\ rows'[o].status # rows[o].status => rows'[o].status # "CANCELLED"
<1>1. ASSUME IInv, TurnsInv, [Next]_vars, NEW o \in Orders PROVE Rule(o)
  BY <1>1, StepsMeet, ChargesMeet DEF Met
<1>2. IInv /\ TurnsInv /\ [Next]_vars => [\A o \in Orders : Rule(o)]_vars
  BY <1>1
<1> QED BY <1>2, TurnsInvariance, PTL DEF Spec, ActsOnPendingOnly

\* Once an order shows a payment it shows that one for ever, and an order that
\* is COMPLETED or CANCELLED stays so.
PaymentIsFinal ==
  [][\A o \in Orders :
       /\ rows[o].tx # None =>
            rows'[o].tx = rows[o].tx /\ rows'[o].method = rows[o].method
       /\ rows[o].status \in {"COMPLETED", "CANCELLED"} =>
            rows'[o].status = rows[o].status]_vars

\* When callers take turns, a payment is never replaced and an end is an end
\* (Pay, Cancel, Complete, repository.Update).
THEOREM PaymentsAreFinal == Serialized => (Spec => PaymentIsFinal)
<1> SUFFICES ASSUME Serialized PROVE Spec => PaymentIsFinal
  OBVIOUS
<1> DEFINE Final(o) ==
      /\ rows[o].tx # None =>
           rows'[o].tx = rows[o].tx /\ rows'[o].method = rows[o].method
      /\ rows[o].status \in {"COMPLETED", "CANCELLED"} =>
           rows'[o].status = rows[o].status
<1>1. ASSUME IInv, TurnsInv, [Next]_vars, NEW o \in Orders PROVE Final(o)
  BY <1>1, StepsMeet DEF Met, IInv, RowsAreSound, TurnsInv, CancelledIsUnpaid
<1>2. IInv /\ TurnsInv /\ [Next]_vars => [\A o \in Orders : Final(o)]_vars
  BY <1>1
<1> QED BY <1>2, TurnsInvariance, PTL DEF Spec, PaymentIsFinal

\* A success tells the truth: the order of a Pay that was answered 200 is PAID or
\* COMPLETED, under the very transaction and method of that request.
SuccessIsShown ==
  \A r \in Requests : reply[r] = 200 =>
    /\ params[r].id \in Orders
    /\ rows[params[r].id].status \in {"PAID", "COMPLETED"}
    /\ rows[params[r].id].tx = r
    /\ rows[params[r].id].method = params[r].method

\* When callers take turns, the answer 200 stays true for ever, whatever other
\* requests, crashes and completions come after it (Pay, Complete).
THEOREM SuccessesAreShown == Serialized => (Spec => []SuccessIsShown)
<1> SUFFICES ASSUME Serialized PROVE Spec => []SuccessIsShown
  OBVIOUS
<1>1. ASSUME IInv, TurnsInv, NEW r \in Requests, reply[r] = 200
      PROVE  /\ params[r].id \in Orders
             /\ rows[params[r].id].status \in {"PAID", "COMPLETED"}
             /\ rows[params[r].id].tx = r
             /\ rows[params[r].id].method = params[r].method
  <2>1. ChargeOf(r) \in published
    BY <1>1 DEF IInv, OkMeansAnnounced
  <2>2. /\ rows[ChargeOf(r).order].status \in {"PAID", "COMPLETED"}
        /\ ChargeOf(r).order \in Orders
    BY <1>1, <2>1, AnnouncedIsPaid DEF IInv, TypeOK, Charge
  <2>3. /\ rows[ChargeOf(r).order].tx = ChargeOf(r).tx
        /\ rows[ChargeOf(r).order].method = ChargeOf(r).method
    BY <1>1, <2>1 DEF TurnsInv, EventMatchesRow
  <2> QED BY <2>2, <2>3 DEF ChargeOf
<1>2. IInv /\ TurnsInv => SuccessIsShown
  BY <1>1 DEF SuccessIsShown
<1> QED BY <1>2, TurnsInvariance, PTL

\* A cancellation is kept: the order of a Cancel that was answered 204 is
\* CANCELLED and shows no payment.
CancelIsKept ==
  \A r \in Requests : reply[r] = 204 =>
    /\ pc[r] = "done" /\ params[r].id \in Orders
    /\ rows[params[r].id].status = "CANCELLED"
    /\ rows[params[r].id].tx = None

\* No error is answered with 204.
LEMMA ErrorIsNoCancel == \A err : StatusCode(err) # 204
BY DEF StatusCode

\* A request that is done makes no further call and keeps its answer.
LEMMA DoneIsDone ==
  ASSUME TypeOK, [Next]_vars, NEW r \in Requests, pc[r] = "done"
  PROVE  pc'[r] = "done" /\ params'[r] = params[r] /\ reply'[r] = reply[r]
<1> USE DEF TypeOK
<1>1. ASSUME NEW q \in Requests,
             \/ \E o \in Orders, m \in Methods : PayRead(q, o, m)
             \/ \E o \in Orders : CancelRead(q, o)
      PROVE  pc'[r] = "done" /\ params'[r] = params[r] /\ reply'[r] = reply[r]
  BY <1>1 DEF PayRead, CancelRead, MayStart, Goto, Answer
<1>2. ASSUME NEW q \in Requests,
             PayCharge(q) \/ PayUpdate(q) \/ PaySend(q) \/ CancelUpdate(q)
      PROVE  pc'[r] = "done" /\ params'[r] = params[r] /\ reply'[r] = reply[r]
  BY <1>2 DEF PayCharge, PayUpdate, PaySend, CancelUpdate, Goto, Answer
<1>3. ASSUME \/ \E o \in Orders : Create(o) \/ ShipAssembled(o)
             \/ Crash \/ UNCHANGED vars
      PROVE  pc'[r] = "done" /\ params'[r] = params[r] /\ reply'[r] = reply[r]
  BY <1>3 DEF Create, ShipAssembled, Crash, InFlight, vars
<1> QED BY <1>1, <1>2, <1>3 DEF Next, Pay, Cancel

\* A request that is not done is answered 204 by the write of a Cancel only.
LEMMA CancelAnswer ==
  ASSUME IInv, [Next]_vars, NEW r \in Requests, pc[r] # "done", reply'[r] = 204
  PROVE  CancelUpdate(r) /\ Update(params[r].id, ord[r])
<1> USE DEF IInv, TypeOK
<1>0. reply[r] # 204
  BY DEF CopiesAreSound, NoReply
<1>1. ASSUME NEW o \in Orders, Create(o) \/ ShipAssembled(o) PROVE FALSE
  BY <1>0, <1>1 DEF Create, ShipAssembled
<1>2. ASSUME NEW q \in Requests,
             \/ \E o \in Orders, m \in Methods : PayRead(q, o, m)
             \/ \E o \in Orders : CancelRead(q, o)
      PROVE  FALSE
  BY <1>0, <1>2, ErrorIsNoCancel DEF PayRead, CancelRead, Goto, Answer
<1>3. ASSUME NEW q \in Requests, PayCharge(q) \/ PayUpdate(q) \/ PaySend(q)
      PROVE  FALSE
  BY <1>0, <1>3, ErrorIsNoCancel DEF PayCharge, PayUpdate, PaySend, Goto, Answer
<1>4. ASSUME NEW q \in Requests, CancelUpdate(q)
      PROVE  CancelUpdate(r) /\ Update(params[r].id, ord[r])
  BY <1>0, <1>4 DEF CancelUpdate, Answer
<1>5. CASE Crash \/ UNCHANGED vars
  BY <1>0, <1>5 DEF Crash, vars, Lost
<1> QED BY <1>1, <1>2, <1>3, <1>4, <1>5 DEF Next, Pay, Cancel

\* When callers take turns, the answer 204 stays true for ever: no payment and no
\* late assembly revives the order (Cancel, Pay, Complete).
THEOREM CancelsAreKept == Serialized => (Spec => []CancelIsKept)
<1> SUFFICES ASSUME Serialized PROVE Spec => []CancelIsKept
  OBVIOUS
<1>1. Init => CancelIsKept
  BY DEF Init, CancelIsKept, NoReply
<1>2. ASSUME IInv, TurnsInv, CancelIsKept, [Next]_vars,
             NEW r \in Requests, reply'[r] = 204
      PROVE  /\ pc'[r] = "done" /\ params'[r].id \in Orders
             /\ rows'[params'[r].id].status = "CANCELLED"
             /\ rows'[params'[r].id].tx = None
  <2>1. CASE CancelUpdate(r) /\ Update(params[r].id, ord[r])
    <3>1. pc[r] = "cancel_update" /\ CopiesAreSound
      BY <1>2, <2>1 DEF CancelUpdate, IInv
    <3>2. PICK o \in Orders : o = params[r].id
      BY <3>1 DEF CopiesAreSound, InFlight
    <3>3. /\ ord[r] \in Row
          /\ ord[r] = [status |-> "CANCELLED", tx |-> None, method |-> None]
      BY <1>2, <3>1 DEF IInv, TypeOK, CopiesAreSound
    <3>4. rows[o].tx = None
      BY <1>2, <3>1, <3>2 DEF IInv, TurnsInv, CopiesAreFresh, RowsAreSound
    <3>5. rows'[o] = UpdatedRow(rows[o], ord[r])
      <4>1. Update(o, ord[r])
        BY <2>1, <3>2
      <4> QED BY <1>2, <3>3, <4>1, UpdateEffect DEF IInv
    <3>6. rows'[o].status = "CANCELLED" /\ rows'[o].tx = None
      BY <3>3, <3>4, <3>5 DEF UpdatedRow
    <3>7. params'[r].id = o /\ pc'[r] = "done"
      BY <1>2, <2>1, <3>2 DEF CancelUpdate, Answer, IInv, TypeOK
    <3> QED BY <3>6, <3>7
  <2>2. CASE pc[r] = "done"
    <3>1. pc'[r] = "done" /\ params'[r] = params[r] /\ reply[r] = 204
      BY <1>2, <2>2, DoneIsDone DEF IInv
    <3>2. /\ params[r].id \in Orders /\ rows[params[r].id].tx = None
          /\ rows[params[r].id].status = "CANCELLED"
      BY <1>2, <3>1 DEF CancelIsKept
    <3>3. rows'[params[r].id] = rows[params[r].id]
      BY <1>2, <3>2, StepsMeet DEF Met
    <3> QED BY <3>1, <3>2, <3>3
  <2> QED BY <1>2, <2>1, <2>2, CancelAnswer
<1>3. IInv /\ TurnsInv /\ CancelIsKept /\ [Next]_vars => CancelIsKept'
  BY <1>2 DEF CancelIsKept
<1> QED BY <1>1, <1>3, TurnsInvariance, PTL DEF Spec

-----------------------------------------------------------------------------
(* The refinement. *)

\* A write to one row that moves its status is the move of the life cycle.
LEMMA MoveOfRow ==
  ASSUME TypeOK, rows' \in [Orders -> Row], NEW o \in Orders, NEW from, NEW to,
         rows[o].status = from, rows'[o].status = to,
         \A q \in Orders : q # o => rows'[q] = rows[q]
  PROVE  /\ Lifecycle!Move(o, from, to)
         /\ rows'[o].tx = rows[o].tx =>
              [q \in Orders |-> rows'[q].tx] = [q \in Orders |-> rows[q].tx]
         /\ [q \in Orders |-> rows'[q].tx]
              = [[q \in Orders |-> rows[q].tx] EXCEPT ![o] = rows'[o].tx]
BY DEF Lifecycle!Move, TypeOK

\* A step that changes no status and no transaction stutters.
LEMMA SameRows ==
  ASSUME \A q \in Orders : /\ rows'[q].status = rows[q].status
                           /\ rows'[q].tx = rows[q].tx
  PROVE  UNCHANGED Lifecycle!lvars
BY DEF Lifecycle!lvars

\* Every step is a step of the life cycle or changes nothing it sees.
LEMMA NextSimulates ==
  Serialized /\ IInv /\ TurnsInv /\ [Next]_vars
    => [Lifecycle!Next]_(Lifecycle!lvars)
<1> SUFFICES ASSUME Serialized, IInv, TurnsInv, [Next]_vars
             PROVE  Lifecycle!Next \/ UNCHANGED Lifecycle!lvars
  OBVIOUS
<1>0. rows' \in [Orders -> Row]
  BY NextType DEF TypeOK
<1> USE <1>0 DEF IInv, TurnsInv
<1>1. ASSUME NEW o \in Orders, Create(o) PROVE Lifecycle!Next
  <2>1. /\ rows[o].status = "NONE" /\ rows'[o].status = "PENDING_PAYMENT"
        /\ rows'[o].tx = rows[o].tx
        /\ \A q \in Orders : q # o => rows'[q] = rows[q]
    BY <1>1 DEF Create, Insert, NoRow, TypeOK
  <2>2. Lifecycle!Place(o)
    BY <2>1, MoveOfRow DEF Lifecycle!Place
  <2> QED BY <2>2 DEF Lifecycle!Next
<1>2. ASSUME NEW o \in Orders, ShipAssembled(o)
      PROVE  Lifecycle!Next \/ UNCHANGED Lifecycle!lvars
  <2>1. rows[o].status \in {"PAID", "COMPLETED"}
    BY <1>2, AnnouncedIsPaid DEF ShipAssembled
  <2>2. /\ rows'[o].status = "COMPLETED" /\ rows'[o].tx = rows[o].tx
        /\ \A q \in Orders : q # o => rows'[q] = rows[q]
    BY <1>2, CompleteEffect
  <2>3. CASE rows[o].status = "PAID"
    <3>1. Lifecycle!Fulfil(o)
      BY <2>2, <2>3, MoveOfRow DEF Lifecycle!Fulfil
    <3> QED BY <3>1 DEF Lifecycle!Next
  <2>4. CASE rows[o].status = "COMPLETED"
    BY <2>2, <2>4, SameRows
  <2> QED BY <2>1, <2>3, <2>4
<1>3. ASSUME NEW r \in Requests, PayUpdate(r), rows' # rows
      PROVE  Lifecycle!Next
  <2>0. PICK o \in Orders : o = params[r].id
    BY <1>3 DEF PayUpdate, InFlight, CopiesAreSound
  <2>1. /\ r # None /\ rows[o].status = "PENDING_PAYMENT"
        /\ ord[r] = [status |-> "PAID", tx |-> r, method |-> params[r].method]
        /\ Update(o, ord[r])
    BY <1>3, <2>0, NoneIsFresh
       DEF PayUpdate, InFlight, CopiesAreSound, CopiesAreFresh
  <2>2. /\ rows'[o].status = "PAID" /\ rows'[o].tx = r
        /\ \A q \in Orders : q # o => rows'[q] = rows[q]
    BY <2>1, UpdateEffect DEF UpdatedRow
  <2>3. Lifecycle!Settle(o, r)
    BY <2>1, <2>2, MoveOfRow DEF Lifecycle!Settle
  <2> QED BY <2>3 DEF Lifecycle!Next
<1>4. ASSUME NEW r \in Requests, CancelUpdate(r), rows' # rows
      PROVE  Lifecycle!Next
  <2>0. PICK o \in Orders : o = params[r].id
    BY <1>4 DEF CancelUpdate, InFlight, CopiesAreSound
  <2>1. /\ rows[o].status = "PENDING_PAYMENT"
        /\ ord[r] = [status |-> "CANCELLED", tx |-> None, method |-> None]
        /\ Update(o, ord[r])
    BY <1>4, <2>0 DEF CancelUpdate, InFlight, CopiesAreSound, CopiesAreFresh
  <2>2. /\ rows'[o].status = "CANCELLED" /\ rows'[o].tx = rows[o].tx
        /\ \A q \in Orders : q # o => rows'[q] = rows[q]
    BY <2>1, UpdateEffect DEF UpdatedRow
  <2>3. Lifecycle!Abandon(o)
    BY <2>1, <2>2, MoveOfRow DEF Lifecycle!Abandon
  <2> QED BY <2>3 DEF Lifecycle!Next
<1>5. CASE UNCHANGED rows
  BY <1>5, SameRows
<1>6. ASSUME NEW r \in Requests,
             \/ \E q \in Orders, m \in Methods : PayRead(r, q, m)
             \/ PayCharge(r) \/ PaySend(r)
             \/ \E q \in Orders : CancelRead(r, q)
      PROVE  UNCHANGED rows
  BY <1>6 DEF PayRead, PayCharge, PaySend, CancelRead
<1> QED BY <1>1, <1>2, <1>3, <1>4, <1>5, <1>6 DEF Next, Pay, Cancel, Crash, vars

\* When callers take turns, the table takes every order through the abstract
\* life cycle, whatever fails: placed, settled once under one transaction and
\* fulfilled, or abandoned unpaid (Create, Pay, Cancel, Complete).
THEOREM ImplementsLifecycle == Serialized => (Spec => RefinesLifecycle)
<1> SUFFICES ASSUME Serialized PROVE Spec => RefinesLifecycle
  OBVIOUS
<1>1. Init => Lifecycle!Init
  BY DEF Init, Lifecycle!Init, NoRow
<1>2. IInv /\ TurnsInv /\ [Next]_vars => [Lifecycle!Next]_(Lifecycle!lvars)
  BY NextSimulates
<1> QED BY <1>1, <1>2, TurnsInvariance, PTL
        DEF Spec, RefinesLifecycle, Lifecycle!Spec
=============================================================================
