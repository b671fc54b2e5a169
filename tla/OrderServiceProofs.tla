------------------------- MODULE OrderServiceProofs -------------------------
(***************************************************************************)
(* What OrderService guarantees for any number of orders, requests and     *)
(* payment methods, with callers that race or take turns, and with any of  *)
(* the faults: the invariants hold by IInv, which every step preserves.    *)
(***************************************************************************)
EXTENDS OrderService, TLAPS

\* An error is answered with a declared status, never with success.
LEMMA StatusCodeType ==
  \A err : StatusCode(err) \in Replies /\ StatusCode(err) # 200
BY DEF StatusCode, Replies

\* Success is neither the missing nor the lost answer.
LEMMA SuccessIsAnAnswer == NoReply # 200 /\ Lost # 200
BY DEF NoReply, Lost

\* A row that Update writes is a row.
LEMMA UpdatedRowType ==
  ASSUME NEW row \in Row, NEW upd \in Row
  PROVE  UpdatedRow(row, upd) \in Row
BY DEF UpdatedRow, Row

\* Update keeps the table's domain.
LEMMA UpdateType ==
  ASSUME TypeOK, NEW o \in Orders, NEW upd \in Row, Update(o, upd)
  PROVE  rows' \in [Orders -> Row]
BY UpdatedRowType DEF Update, TypeOK

\* The initial state satisfies the inductive invariant.
LEMMA InitInv == Init => IInv
<1> SUFFICES ASSUME Init PROVE IInv
  OBVIOUS
<1>1. TypeOK
  BY DEF Init, TypeOK, Row, NoRow, Params, Steps, Replies, NoReply, Statuses
<1>2. CopiesAreSound
  BY DEF Init, CopiesAreSound, InFlight
<1>3. RowsAreSound
  BY DEF Init, RowsAreSound, NoRow
<1>4. PublishedIsPersisted /\ OkMeansAnnounced
  BY SuccessIsAnAnswer DEF Init, PublishedIsPersisted, OkMeansAnnounced
<1> QED BY <1>1, <1>2, <1>3, <1>4 DEF IInv

\* Every step keeps the domains of the variables.
LEMMA NextType == IInv /\ [Next]_vars => TypeOK'
<1> SUFFICES ASSUME IInv, [Next]_vars PROVE TypeOK'
  OBVIOUS
<1> USE DEF TypeOK, IInv
<1>1. ASSUME NEW o \in Orders, Create(o) PROVE TypeOK'
  BY <1>1 DEF Create, Insert, NoRow, Row, Statuses
<1>2. ASSUME NEW o \in Orders, ShipAssembled(o) PROVE TypeOK'
  <2>1. [status |-> "COMPLETED", tx |-> None, method |-> None] \in Row
    BY DEF Row, Statuses
  <2>2. rows' \in [Orders -> Row]
    BY <1>2, <2>1, UpdateType DEF ShipAssembled, Complete
  <2> QED BY <1>2, <2>2 DEF ShipAssembled, Complete
<1>3. ASSUME NEW r \in Requests, NEW o \in Orders, NEW m \in Methods,
             PayRead(r, o, m)
      PROVE  TypeOK'
  <2>1. params' \in [Requests -> Params] /\ ord' \in [Requests -> Row]
    BY <1>3 DEF PayRead, Params, PayOrderRequestToParams, OAPIToPaymentMethod
  <2>2. pc' \in [Requests -> Steps]
    BY <1>3 DEF PayRead, Goto, Answer, Steps
  <2>3. reply' \in [Requests -> Replies]
    BY <1>3, StatusCodeType DEF PayRead, Goto, Answer, Replies
  <2> QED BY <1>3, <2>1, <2>2, <2>3 DEF PayRead
<1>4. ASSUME NEW r \in Requests, PayCharge(r) PROVE TypeOK'
  <2>1. params[r].id \in Orders /\ params[r].method \in Methods
    BY <1>4 DEF PayCharge, CopiesAreSound, InFlight
  <2>2. charges' \subseteq Charge
    BY <1>4, <2>1 DEF PayCharge, PayOrder, ChargeOf, Charge
  <2>3. ord' \in [Requests -> Row]
    BY <1>4, <2>1 DEF PayCharge, Row, Statuses
  <2> QED BY <1>4, <2>2, <2>3, StatusCodeType
          DEF PayCharge, Goto, Answer, Steps, Replies
<1>5. ASSUME NEW r \in Requests, PayUpdate(r) PROVE TypeOK'
  <2>1. params[r].id \in Orders /\ ord[r] \in Row
    BY <1>5 DEF PayUpdate, CopiesAreSound, InFlight
  <2>2. rows' \in [Orders -> Row]
    BY <1>5, <2>1, UpdateType DEF PayUpdate
  <2> QED BY <1>5, <2>2 DEF PayUpdate, Goto, Answer, Steps, Replies
<1>6. ASSUME NEW r \in Requests, PaySend(r) PROVE TypeOK'
  <2>1. ChargeOf(r) \in Charge
    BY <1>6 DEF PaySend, CopiesAreSound
  <2> QED BY <1>6, <2>1 DEF PaySend, Answer, Steps, Replies
<1>7. ASSUME NEW r \in Requests, NEW o \in Orders, CancelRead(r, o)
      PROVE  TypeOK'
  <2>1. ord' \in [Requests -> Row]
    BY <1>7 DEF CancelRead, Row, Statuses
  <2>2. params' \in [Requests -> Params]
    BY <1>7 DEF CancelRead, Params
  <2>3. pc' \in [Requests -> Steps]
    BY <1>7 DEF CancelRead, Goto, Answer, Steps
  <2>4. reply' \in [Requests -> Replies]
    BY <1>7, StatusCodeType DEF CancelRead, Goto, Answer, Replies
  <2> QED BY <1>7, <2>1, <2>2, <2>3, <2>4 DEF CancelRead
<1>8. ASSUME NEW r \in Requests, CancelUpdate(r) PROVE TypeOK'
  <2>1. params[r].id \in Orders /\ ord[r] \in Row
    BY <1>8 DEF CancelUpdate, CopiesAreSound, InFlight
  <2>2. rows' \in [Orders -> Row]
    BY <1>8, <2>1, UpdateType DEF CancelUpdate
  <2> QED BY <1>8, <2>2 DEF CancelUpdate, Answer, Steps, Replies
<1>9. CASE Crash
  BY <1>9 DEF Crash, Steps, Replies, Lost
<1>10. CASE UNCHANGED vars
  BY <1>10 DEF vars
<1> QED BY <1>1, <1>2, <1>3, <1>4, <1>5, <1>6, <1>7, <1>8, <1>9, <1>10
        DEF Next, Pay, Cancel

\* The four parts of IInv other than TypeOK.
Sound == CopiesAreSound /\ RowsAreSound /\ PublishedIsPersisted /\ OkMeansAnnounced

\* What Update does to the table, in the terms of IInv: the row exists, takes
\* the new status, and keeps payment data unless it is given new data.
LEMMA UpdateEffect ==
  ASSUME TypeOK, NEW o \in Orders, NEW upd, Update(o, upd)
  PROVE  /\ rows[o] # NoRow
         /\ rows'[o] = UpdatedRow(rows[o], upd)
         /\ \A q \in Orders : q # o => rows'[q] = rows[q]
BY DEF Update, UpdateAccepts, TypeOK

\* Pay's write: the copy carries a charge of this order.
LEMMA PayUpdateSound ==
  ASSUME IInv, NEW r \in Requests, PayUpdate(r)
  PROVE  Sound'
<1> DEFINE o == params[r].id
<1> USE DEF TypeOK, IInv
<1>1. /\ o \in Orders /\ ChargeOf(r) \in charges /\ rows[o].status # "NONE"
      /\ ord[r] = [status |-> "PAID", tx |-> r, method |-> params[r].method]
      /\ params[r].method # None
  BY NoneIsFresh DEF PayUpdate, CopiesAreSound, InFlight, ChargeOf, Charge
<1>2. CASE Update(o, ord[r])
  <2>1. /\ rows'[o] = [status |-> "PAID", tx |-> r, method |-> params[r].method]
        /\ \A q \in Orders : q # o => rows'[q] = rows[q]
    BY <1>1, <1>2, UpdateEffect, NoneIsFresh DEF UpdatedRow
  <2>2. r # None
    BY NoneIsFresh
  <2>3. UNCHANGED <<params, ord, charges, published>>
    BY DEF PayUpdate
  <2>4. CopiesAreSound'
    BY <1>1, <2>1, <2>2, <2>3
       DEF PayUpdate, Goto, Answer, CopiesAreSound, InFlight, ChargeOf
  <2>5. RowsAreSound'
    BY <1>1, <2>1, <2>2, <2>3 DEF RowsAreSound, ChargeOf
  <2>6. PublishedIsPersisted'
    BY <2>1, <2>2, <2>3 DEF PublishedIsPersisted, Charge
  <2>7. OkMeansAnnounced'
    BY <2>3 DEF PayUpdate, Goto, Answer, OkMeansAnnounced, ChargeOf
  <2> QED BY <2>4, <2>5, <2>6, <2>7 DEF Sound
<1>3. CASE UNCHANGED rows /\ Answer(r, 500)
  <2> USE <1>3 DEF PayUpdate
  <2>1. CopiesAreSound'
    BY DEF Answer, CopiesAreSound, InFlight, ChargeOf
  <2>2. RowsAreSound' /\ PublishedIsPersisted'
    BY DEF RowsAreSound, PublishedIsPersisted
  <2>3. OkMeansAnnounced'
    BY DEF Answer, OkMeansAnnounced, ChargeOf
  <2> QED BY <2>1, <2>2, <2>3 DEF Sound
<1> QED BY <1>2, <1>3 DEF PayUpdate

\* Cancel's write: the copy carries no payment data, so none is erased.
LEMMA CancelUpdateSound ==
  ASSUME IInv, NEW r \in Requests, CancelUpdate(r)
  PROVE  Sound'
<1> DEFINE o == params[r].id
<1> USE DEF TypeOK, IInv
<1>1. /\ o \in Orders /\ rows[o].status # "NONE" /\ params[r].method = None
      /\ ord[r] = [status |-> "CANCELLED", tx |-> None, method |-> None]
  BY DEF CancelUpdate, CopiesAreSound, InFlight
<1>2. UNCHANGED <<params, ord, charges, published>>
  BY DEF CancelUpdate
<1>3. OkMeansAnnounced'
  BY <1>1, <1>2 DEF CancelUpdate, Answer, OkMeansAnnounced, ChargeOf
<1>4. CASE Update(o, ord[r])
  <2>1. \A q \in Orders : q # o => rows'[q] = rows[q]
    BY <1>1, <1>4, UpdateEffect
  <2>2. rows'[o] = UpdatedRow(rows[o], ord[r])
    BY <1>1, <1>4, UpdateEffect
  <2>3. /\ rows'[o].status = "CANCELLED" /\ rows'[o].tx = rows[o].tx
        /\ rows'[o].method = rows[o].method
    BY <1>1, <2>2 DEF UpdatedRow
  <2>4. CopiesAreSound'
    BY <1>1, <1>2, <2>1, <2>3
       DEF CancelUpdate, Answer, CopiesAreSound, InFlight, ChargeOf
  <2>5. RowsAreSound'
    BY <1>1, <1>2, <2>1, <2>3 DEF RowsAreSound
  <2>6. PublishedIsPersisted'
    BY <1>2, <2>1, <2>3 DEF PublishedIsPersisted, Charge
  <2> QED BY <1>3, <2>4, <2>5, <2>6 DEF Sound
<1>5. CASE UNCHANGED rows /\ Answer(r, 500)
  <2>1. CopiesAreSound'
    BY <1>1, <1>2, <1>5 DEF Answer, CopiesAreSound, InFlight, ChargeOf
  <2>2. RowsAreSound' /\ PublishedIsPersisted'
    BY <1>2, <1>5 DEF RowsAreSound, PublishedIsPersisted
  <2> QED BY <1>3, <2>1, <2>2 DEF Sound
<1> QED BY <1>4, <1>5 DEF CancelUpdate

\* Complete's blind write: the order was announced, so its row is paid for.
LEMMA CompleteSound ==
  ASSUME IInv, NEW o \in Orders, ShipAssembled(o)
  PROVE  Sound'
<1> USE DEF TypeOK, IInv
<1>1. rows[o].tx # None
  BY DEF ShipAssembled, Complete, PublishedIsPersisted
<1>2. UNCHANGED <<pc, params, ord, charges, published, reply>>
  BY DEF ShipAssembled, Complete
<1>3. /\ rows'[o].status = "COMPLETED" /\ rows'[o].tx = rows[o].tx
      /\ rows'[o].method = rows[o].method
      /\ \A q \in Orders : q # o => rows'[q] = rows[q]
  <2> DEFINE upd == [status |-> "COMPLETED", tx |-> None, method |-> None]
  <2>1. Update(o, upd)
    BY DEF ShipAssembled, Complete
  <2> HIDE DEF upd
  <2>2. /\ rows'[o] = UpdatedRow(rows[o], upd)
        /\ \A q \in Orders : q # o => rows'[q] = rows[q]
    BY <2>1, UpdateEffect
  <2> QED BY <2>2 DEF UpdatedRow, upd
<1>4. CopiesAreSound'
  BY <1>2, <1>3 DEF CopiesAreSound, InFlight, ChargeOf
<1>5. RowsAreSound'
  BY <1>1, <1>2, <1>3 DEF RowsAreSound
<1>6. PublishedIsPersisted'
  BY <1>2, <1>3 DEF PublishedIsPersisted, Charge
<1>7. OkMeansAnnounced'
  BY <1>2 DEF OkMeansAnnounced, ChargeOf
<1> QED BY <1>4, <1>5, <1>6, <1>7 DEF Sound

\* Every step keeps the inductive invariant.
LEMMA NextInv == IInv /\ [Next]_vars => IInv'
<1> SUFFICES ASSUME IInv, [Next]_vars PROVE Sound'
  BY NextType DEF IInv, Sound
<1> USE DEF TypeOK, IInv
<1>1. ASSUME NEW o \in Orders, Create(o) PROVE Sound'
  <2>1. /\ rows[o].status = "NONE" /\ rows[o].tx = None
        /\ rows'[o] = [status |-> "PENDING_PAYMENT", tx |-> None,
                       method |-> None]
        /\ \A q \in Orders : q # o => rows'[q] = rows[q]
    BY <1>1 DEF Create, Insert, NoRow
  <2>2. UNCHANGED <<pc, params, ord, charges, published, reply>>
    BY <1>1 DEF Create
  <2>3. CopiesAreSound'
    BY <2>1, <2>2 DEF CopiesAreSound, InFlight, ChargeOf
  <2>4. RowsAreSound'
    BY <2>1, <2>2 DEF RowsAreSound
  <2>5. PublishedIsPersisted'
    BY <2>1, <2>2 DEF PublishedIsPersisted, Charge
  <2>6. OkMeansAnnounced'
    BY <2>2 DEF OkMeansAnnounced, ChargeOf
  <2> QED BY <2>3, <2>4, <2>5, <2>6 DEF Sound
<1>2. ASSUME NEW o \in Orders, ShipAssembled(o) PROVE Sound'
  BY <1>2, CompleteSound
<1>3. ASSUME NEW r \in Requests, NEW o \in Orders, NEW m \in Methods,
             PayRead(r, o, m)
      PROVE  Sound'
  <2>1. pc[r] = "idle" /\ reply[r] = NoReply
    BY <1>3 DEF PayRead, MayStart, CopiesAreSound
  <2>2. UNCHANGED <<rows, charges, published>>
    BY <1>3 DEF PayRead
  <2>4. CopiesAreSound'
    BY <1>3, <2>1, <2>2
       DEF PayRead, PayOrderRequestToParams, OAPIToPaymentMethod, Payable,
           Goto, Answer, CopiesAreSound, InFlight, ChargeOf
  <2>5. RowsAreSound' /\ PublishedIsPersisted'
    BY <2>2 DEF RowsAreSound, PublishedIsPersisted
  <2>6. OkMeansAnnounced'
    BY <1>3, <2>1, <2>2, StatusCodeType, SuccessIsAnAnswer
       DEF PayRead, Goto, Answer, OkMeansAnnounced, ChargeOf
  <2> QED BY <2>4, <2>5, <2>6 DEF Sound
<1>4. ASSUME NEW r \in Requests, PayCharge(r) PROVE Sound'
  <2>1. charges \subseteq charges' /\ UNCHANGED <<rows, params, published>>
    BY <1>4 DEF PayCharge, PayOrder
  <2>2. CopiesAreSound'
    BY <1>4, <2>1
       DEF PayCharge, PayOrder, Goto, Answer, CopiesAreSound, InFlight,
           ChargeOf
  <2>3. RowsAreSound' /\ PublishedIsPersisted'
    BY <2>1 DEF RowsAreSound, PublishedIsPersisted
  <2>4. OkMeansAnnounced'
    BY <1>4, <2>1, StatusCodeType
       DEF PayCharge, Goto, Answer, OkMeansAnnounced, ChargeOf
  <2> QED BY <2>2, <2>3, <2>4 DEF Sound
<1>5. ASSUME NEW r \in Requests, PayUpdate(r) PROVE Sound'
  BY <1>5, PayUpdateSound
<1>6. ASSUME NEW r \in Requests, PaySend(r) PROVE Sound'
  <2>1. UNCHANGED <<rows, params, ord, charges>>
    BY <1>6 DEF PaySend
  <2>2. CopiesAreSound'
    BY <1>6, <2>1 DEF PaySend, Answer, CopiesAreSound, InFlight, ChargeOf
  <2>3. RowsAreSound'
    BY <2>1 DEF RowsAreSound
  <2>4. ChargeOf(r) \in charges /\ rows[params[r].id].tx # None
        /\ params[r].id \in Orders
    BY <1>6 DEF PaySend, CopiesAreSound, InFlight
  <2>5. rows[params[r].id].status \notin {"NONE", "PENDING_PAYMENT"}
    BY <2>4 DEF RowsAreSound
  <2>6. PublishedIsPersisted'
    BY <1>6, <2>1, <2>4, <2>5 DEF PaySend, PublishedIsPersisted, ChargeOf
  <2>7. OkMeansAnnounced'
    BY <1>6, <2>1 DEF PaySend, Answer, OkMeansAnnounced, ChargeOf
  <2> QED BY <2>2, <2>3, <2>6, <2>7 DEF Sound
<1>7. ASSUME NEW r \in Requests, NEW o \in Orders, CancelRead(r, o)
      PROVE  Sound'
  <2>1. pc[r] = "idle" /\ reply[r] = NoReply
    BY <1>7 DEF CancelRead, MayStart, CopiesAreSound
  <2>2. /\ UNCHANGED <<rows, charges, published>>
        /\ params' = [params EXCEPT ![r] = [id |-> o, method |-> None]]
    BY <1>7 DEF CancelRead
  <2>3. ASSUME Cancellable(rows[o].status)
        PROVE  [rows[o] EXCEPT !.status = "CANCELLED"]
                 = [status |-> "CANCELLED", tx |-> None, method |-> None]
    <3>1. rows[o] \in Row /\ rows[o].tx = None /\ rows[o].method = None
      BY <2>3 DEF Cancellable, RowsAreSound
    <3> QED BY <3>1 DEF Row
  <2>4. CopiesAreSound'
    BY <1>7, <2>1, <2>2, <2>3
       DEF CancelRead, Cancellable, Goto, Answer, CopiesAreSound, InFlight, ChargeOf
  <2>5. RowsAreSound' /\ PublishedIsPersisted'
    BY <2>2 DEF RowsAreSound, PublishedIsPersisted
  <2>6. OkMeansAnnounced'
    BY <1>7, <2>1, <2>2, StatusCodeType, SuccessIsAnAnswer
       DEF CancelRead, Goto, Answer, OkMeansAnnounced, ChargeOf
  <2> QED BY <2>4, <2>5, <2>6 DEF Sound
<1>8. ASSUME NEW r \in Requests, CancelUpdate(r) PROVE Sound'
  BY <1>8, CancelUpdateSound
<1>9. CASE Crash
  <2>1. CopiesAreSound'
    BY <1>9 DEF Crash, CopiesAreSound, InFlight, ChargeOf
  <2>2. RowsAreSound' /\ PublishedIsPersisted' /\ OkMeansAnnounced'
    BY <1>9, SuccessIsAnAnswer DEF Crash, RowsAreSound, PublishedIsPersisted, OkMeansAnnounced, ChargeOf
  <2> QED BY <2>1, <2>2 DEF Sound
<1>10. CASE UNCHANGED vars
  BY <1>10 DEF vars, Sound, CopiesAreSound, InFlight, RowsAreSound,
               PublishedIsPersisted, OkMeansAnnounced, ChargeOf
<1> QED BY <1>1, <1>2, <1>3, <1>4, <1>5, <1>6, <1>7, <1>8, <1>9, <1>10
        DEF Next, Pay, Cancel

\* The inductive invariant holds in every reachable state.
THEOREM Invariance == Spec => []IInv
BY InitInv, NextInv, PTL DEF Spec

\* Every variable keeps its domain.
THEOREM TypeInvariance == Spec => []TypeOK
BY Invariance, PTL DEF IInv

\* However requests race and whatever fails, an order that GET shows as PAID
\* or COMPLETED was charged under the transaction and by the method shown
\* (Pay, Complete, repository.Update, OrderToOAPI).
THEOREM PaidOrdersAreCharged == Spec => []PaidIsCharged
<1>1. IInv => PaidIsCharged
  <2> SUFFICES ASSUME IInv, NEW o \in Orders, NEW shown \in OrderByID(o),
                      shown.status \in {"PAID", "COMPLETED"}
               PROVE  \E c \in charges : /\ c.order = o
                                         /\ c.tx = shown.transactionUUID
                                         /\ c.method = shown.paymentMethod
    BY DEF PaidIsCharged
  <2>1. shown = OrderToOAPI(rows[o])
    BY DEF OrderByID
  <2>2. rows[o].status \in {"PAID", "COMPLETED"}
    BY <2>1 DEF OrderToOAPI, orderStatusToOAPI
  <2>3. [order |-> o, tx |-> rows[o].tx, method |-> rows[o].method] \in charges
    BY <2>2 DEF IInv, RowsAreSound
  <2> WITNESS [order |-> o, tx |-> rows[o].tx, method |-> rows[o].method]
                \in charges
  <2> QED BY <2>1 DEF OrderToOAPI
<1> QED BY <1>1, Invariance, PTL

\* An event on order.paid announces a charge whose order carries payment data
\* in the table.
THEOREM EventsArePersisted == Spec => []PublishedIsPersisted
BY Invariance, PTL DEF IInv

\* A payment answered with success was announced.
THEOREM SuccessIsAnnounced == Spec => []OkMeansAnnounced
BY Invariance, PTL DEF IInv

\* What any step may do to a row: insert it, or write a copy whose status is
\* not an open one.
Written(o) ==
  \/ rows[o] = NoRow
  \/ \E upd \in Row :
       /\ rows'[o] = UpdatedRow(rows[o], upd)
       /\ upd.status \notin {"NONE", "PENDING_PAYMENT"}

\* Every step leaves a row alone or writes it in one of these ways.
LEMMA RowSteps ==
  ASSUME IInv, [Next]_vars, NEW o \in Orders
  PROVE  rows'[o] = rows[o] \/ Written(o)
<1> USE DEF TypeOK, IInv
<1>1. ASSUME NEW q \in Orders, NEW upd \in Row, Update(q, upd),
             upd.status \notin {"NONE", "PENDING_PAYMENT"}
      PROVE  rows'[o] = rows[o] \/ Written(o)
  <2>1. CASE o = q
    BY <1>1, <2>1, UpdateEffect DEF Written
  <2>2. CASE o # q
    BY <1>1, <2>2, UpdateEffect
  <2> QED BY <2>1, <2>2
<1>2. ASSUME NEW q \in Orders, Create(q) PROVE rows'[o] = rows[o] \/ Written(o)
  BY <1>2 DEF Create, Insert, Written
<1>3. ASSUME NEW q \in Orders, ShipAssembled(q)
      PROVE  rows'[o] = rows[o] \/ Written(o)
  <2> DEFINE upd == [status |-> "COMPLETED", tx |-> None, method |-> None]
  <2>1. upd \in Row /\ Update(q, upd) /\ upd.status = "COMPLETED"
    BY <1>3 DEF ShipAssembled, Complete, Row, Statuses
  <2> QED BY <1>1, <2>1
<1>4. ASSUME NEW r \in Requests, PayUpdate(r)
      PROVE  rows'[o] = rows[o] \/ Written(o)
  <2>1. params[r].id \in Orders /\ ord[r] \in Row /\ ord[r].status = "PAID"
    BY <1>4 DEF PayUpdate, CopiesAreSound, InFlight
  <2>2. CASE Update(params[r].id, ord[r])
    BY <1>1, <2>1, <2>2
  <2> QED BY <1>4, <2>2 DEF PayUpdate
<1>5. ASSUME NEW r \in Requests, CancelUpdate(r)
      PROVE  rows'[o] = rows[o] \/ Written(o)
  <2>1. /\ params[r].id \in Orders /\ ord[r] \in Row
        /\ ord[r].status = "CANCELLED"
    BY <1>5 DEF CancelUpdate, CopiesAreSound, InFlight
  <2>2. CASE Update(params[r].id, ord[r])
    BY <1>1, <2>1, <2>2
  <2> QED BY <1>5, <2>2 DEF CancelUpdate
<1>6. CASE UNCHANGED rows
  BY <1>6
<1>7. ASSUME NEW r \in Requests,
             \/ \E q \in Orders, m \in Methods : PayRead(r, q, m)
             \/ PayCharge(r) \/ PaySend(r)
             \/ \E q \in Orders : CancelRead(r, q)
      PROVE  UNCHANGED rows
  BY <1>7 DEF PayRead, PayCharge, PaySend, CancelRead
<1> QED BY <1>2, <1>3, <1>4, <1>5, <1>6, <1>7
        DEF Next, Pay, Cancel, Crash, vars

\* However requests race and whatever fails, no write erases payment data or
\* makes an order payable again (repository.Update skips nil fields, and no
\* caller writes PENDING_PAYMENT).
THEOREM PaymentDataIsKept == Spec => PaymentDataKept
<1> DEFINE Kept(o) ==
      /\ rows[o].tx # None => rows'[o].tx # None /\ rows'[o].method # None
      /\ rows[o].status \notin {"NONE", "PENDING_PAYMENT"} =>
           rows'[o].status \notin {"NONE", "PENDING_PAYMENT"}
<1>1. ASSUME IInv, [Next]_vars, NEW o \in Orders PROVE Kept(o)
  <2>1. rows[o].tx # None <=> rows[o].method # None
    BY <1>1 DEF IInv, RowsAreSound
  <2>2. CASE rows'[o] = rows[o]
    BY <2>1, <2>2
  <2>3. CASE rows[o] = NoRow
    BY <2>3 DEF NoRow
  <2>4. ASSUME NEW upd \in Row, rows'[o] = UpdatedRow(rows[o], upd),
               upd.status \notin {"NONE", "PENDING_PAYMENT"}
        PROVE  Kept(o)
    BY <2>1, <2>4 DEF UpdatedRow
  <2> QED BY <1>1, <2>2, <2>3, <2>4, RowSteps DEF Written
<1>2. IInv /\ [Next]_vars => [\A o \in Orders : Kept(o)]_vars
  BY <1>1
<1> QED BY <1>2, Invariance, PTL DEF Spec, PaymentDataKept

\* However requests race and whatever fails, whoever comes after a success
\* neither charges nor cancels: what was announced is not payable again, and
\* Pay and Cancel go on only from a payable row (Pay, Cancel).
THEOREM SettledIsSafe == Spec => SettledIsRefused
<1> DEFINE Refused(q, r) ==
      reply[q] = 200 /\ pc[r] = "idle" /\ pc'[r] \notin {"idle", "done"} =>
        params'[r].id # params[q].id
<1>1. ASSUME IInv, [Next]_vars, NEW q \in Requests, NEW r \in Requests
      PROVE  Refused(q, r)
  <2> SUFFICES ASSUME reply[q] = 200, pc[r] = "idle", pc'[r] \notin {"idle", "done"}
               PROVE  params'[r].id # params[q].id
    OBVIOUS
  <2> USE <1>1 DEF IInv, TypeOK
  <2>1. rows[params[q].id].status # "PENDING_PAYMENT"
    <3>1. ChargeOf(q) \in published
      BY DEF OkMeansAnnounced
    <3>2. ChargeOf(q).order = params[q].id
      BY DEF ChargeOf
    <3> QED BY <3>1, <3>2 DEF PublishedIsPersisted
  <2>2. PICK o \in Orders :
          \/ \E m \in Methods : PayRead(r, o, m)
          \/ CancelRead(r, o)
    <3>1. ASSUME NEW p \in Requests, NEW step \in Steps, pc[p] # "idle",
                 pc' = [pc EXCEPT ![p] = step]
          PROVE  FALSE
      BY <3>1
    <3>2. ASSUME NEW p \in Requests,
                 PayCharge(p) \/ PayUpdate(p) \/ PaySend(p) \/ CancelUpdate(p)
          PROVE  FALSE
      BY <3>1, <3>2 DEF PayCharge, PayUpdate, PaySend, CancelUpdate, Goto, Answer, Steps
    <3>3. ASSUME NEW p \in Requests, p # r, NEW o \in Orders,
                 CancelRead(p, o) \/ \E m \in Methods : PayRead(p, o, m)
          PROVE  FALSE
      BY <3>3 DEF PayRead, CancelRead, Goto, Answer
    <3>4. ~(UNCHANGED vars \/ Crash \/ \E o \in Orders : Create(o) \/ ShipAssembled(o))
      BY DEF vars, Crash, Create, ShipAssembled, InFlight
    <3> QED BY <3>2, <3>3, <3>4 DEF Next, Pay, Cancel
  <2>3. /\ params'[r].id = o /\ rows[o].status = "PENDING_PAYMENT"
    BY <2>2 DEF PayRead, CancelRead, Payable, Cancellable, PayOrderRequestToParams,
                Goto, Answer
  <2> QED BY <2>1, <2>3
<1>2. IInv /\ [Next]_vars => [\A q, r \in Requests : Refused(q, r)]_vars
  BY <1>1
<1> QED BY <1>2, Invariance, PTL DEF Spec, SettledIsRefused

\* Somebody speaks for order o: an event announces it, a request is about to
\* announce it, or a caller was told of a failure or of nothing.
Speaks(o) ==
  \/ \E e \in published : e.order = o
  \/ \E r \in Requests :
       params[r].id = o /\ (pc[r] = "pay_send" \/ reply[r] \in {500, Lost})

\* A PAID order that was not announced is still being announced, or some caller
\* of that order was told of a failure or of nothing: the safety half of
\* PaidIsAnnounced, which adds that the announcing request gets on.
SilenceIsKnown == \A o \in Orders : rows[o].status = "PAID" => Speaks(o)

\* A request that is not done goes on, and whatever spoke for an order still
\* does.
LEMMA SpeakingGoesOn ==
  ASSUME IInv, NEW q \in Requests, pc[q] # "done", published \subseteq published',
         \A r \in Requests \ {q} :
           pc'[r] = pc[r] /\ params'[r] = params[r] /\ reply'[r] = reply[r],
         pc[q] = "pay_send" =>
           \/ ChargeOf(q) \in published'
           \/ params'[q] = params[q] /\ reply'[q] = 500,
         NEW o \in Orders, Speaks(o)
  PROVE  Speaks(o)'
<1>1. reply[q] \notin {500, Lost}
  <2>1. reply[q] = NoReply
    BY DEF IInv, CopiesAreSound
  <2> QED BY <2>1 DEF NoReply, Lost
<1>2. CASE \E e \in published : e.order = o
  BY <1>2 DEF Speaks
<1>3. ASSUME NEW r \in Requests, params[r].id = o, pc[r] = "pay_send" \/ reply[r] \in {500, Lost}
      PROVE  Speaks(o)'
  <2>1. CASE r = q
    BY <1>1, <1>3, <2>1 DEF Speaks, ChargeOf
  <2>2. CASE r # q
    BY <1>3, <2>2 DEF Speaks
  <2> QED BY <2>1, <2>2
<1> QED BY <1>2, <1>3 DEF Speaks

\* Every step keeps it.
LEMMA NextSpeaks == IInv /\ SilenceIsKnown /\ [Next]_vars => SilenceIsKnown'
<1> SUFFICES ASSUME IInv, SilenceIsKnown, [Next]_vars, NEW o \in Orders,
                    rows'[o].status = "PAID"
             PROVE  Speaks(o)'
  BY DEF SilenceIsKnown
<1> USE DEF TypeOK
<1>0. rows[o].status = "PAID" => Speaks(o)
  BY DEF SilenceIsKnown
<1>1. ASSUME NEW q \in Orders, Create(q) \/ ShipAssembled(q) PROVE Speaks(o)'
  <2>1. UNCHANGED <<pc, params, published, reply>>
    BY <1>1 DEF Create, ShipAssembled
  <2>2. rows'[o].status = rows[o].status
    BY <1>1 DEF Create, Insert, NoRow, ShipAssembled, Complete, Update, UpdatedRow, IInv
  <2> QED BY <1>0, <2>1, <2>2 DEF Speaks
<1>2. ASSUME NEW q \in Requests,
             \/ \E p \in Orders, m \in Methods : PayRead(q, p, m)
             \/ PayCharge(q) \/ PaySend(q)
             \/ \E p \in Orders : CancelRead(q, p)
      PROVE  Speaks(o)'
  <2>1. rows' = rows /\ pc[q] # "done" /\ published \subseteq published'
    BY <1>2 DEF PayRead, PayCharge, PaySend, CancelRead, MayStart
  <2>2. \A r \in Requests \ {q} :
          pc'[r] = pc[r] /\ params'[r] = params[r] /\ reply'[r] = reply[r]
    BY <1>2 DEF PayRead, PayCharge, PaySend, CancelRead, Goto, Answer, IInv
  <2>3. ASSUME pc[q] = "pay_send"
        PROVE  \/ ChargeOf(q) \in published'
               \/ params'[q] = params[q] /\ reply'[q] = 500
    <3>1. PaySend(q)
      BY <1>2, <2>3 DEF PayRead, PayCharge, CancelRead, MayStart
    <3> QED BY <3>1 DEF PaySend, Answer, IInv
  <2> QED BY <1>0, <2>1, <2>2, <2>3, SpeakingGoesOn
<1>3. ASSUME NEW q \in Requests, PayUpdate(q) \/ CancelUpdate(q)
      PROVE  Speaks(o)'
  <2>1. /\ pc[q] \in {"pay_update", "cancel_update"} /\ UNCHANGED <<params, published>>
        /\ \A r \in Requests \ {q} : pc'[r] = pc[r] /\ reply'[r] = reply[r]
    BY <1>3 DEF PayUpdate, CancelUpdate, Goto, Answer, IInv
  <2>2. CASE rows'[o].status = rows[o].status
    BY <1>0, <2>1, <2>2, SpeakingGoesOn
  <2>3. CASE rows'[o].status # rows[o].status
    <3>1. /\ params[q].id = o /\ ord[q].status = "PAID"
      <4>1. \/ rows' = rows
            \/ rows' = [rows EXCEPT ![params[q].id] =
                          UpdatedRow(rows[params[q].id], ord[q])]
        BY <1>3 DEF PayUpdate, CancelUpdate, Update
      <4> QED BY <2>3, <4>1 DEF UpdatedRow, IInv
    <3>2. PayUpdate(q)
      BY <1>3, <3>1 DEF CancelUpdate, IInv, CopiesAreSound
    <3>3. pc'[q] = "pay_send" \/ reply'[q] = 500
      BY <3>2 DEF PayUpdate, Goto, Answer, IInv
    <3> QED BY <2>1, <3>1, <3>3 DEF Speaks
  <2> QED BY <2>2, <2>3
<1>4. CASE Crash
  <2>1. \A r \in Requests : pc[r] = "pay_send" \/ reply[r] \in {500, Lost} =>
          params'[r] = params[r] /\ reply'[r] \in {500, Lost}
    BY <1>4 DEF Crash, InFlight, IInv, CopiesAreSound, NoReply, Lost
  <2>2. rows' = rows /\ published' = published
    BY <1>4 DEF Crash
  <2> QED BY <1>0, <2>1, <2>2 DEF Speaks
<1>5. CASE UNCHANGED vars
  BY <1>0, <1>5 DEF vars, Speaks
<1> QED BY <1>1, <1>2, <1>3, <1>4, <1>5 DEF Next, Pay, Cancel

\* However requests race and whatever fails, no payment stays unannounced while
\* every caller was told that all is well (Pay, SendOrderPaid).
THEOREM SilenceIsNoticed == Spec => []SilenceIsKnown
<1>1. Init => SilenceIsKnown
  BY DEF Init, NoRow, SilenceIsKnown
<1> QED BY <1>1, NextSpeaks, Invariance, PTL DEF Spec

\* A charge was made by the Pay request that names it, and that request is still
\* to write or to announce it, or is over and either announced it or left its
\* caller with a failure or with nothing.
Owned(c) ==
  /\ c = ChargeOf(c.tx)
  /\ \/ pc[c.tx] \in {"pay_update", "pay_send"}
     \/ /\ pc[c.tx] = "done"
        /\ c \in published \/ reply[c.tx] \in {500, 502, Lost}

ChargesAreOwned == \A c \in charges : Owned(c)

\* A charge stays owned when its request is not the one that moves.
LEMMA OwnedGoesOn ==
  ASSUME NEW c \in charges, Owned(c), published \subseteq published',
         params'[c.tx] = params[c.tx], pc'[c.tx] = pc[c.tx],
         reply'[c.tx] = reply[c.tx]
  PROVE  Owned(c)'
BY DEF Owned, ChargeOf

\* A charge stays owned when its own request writes, announces or fails.
LEMMA OwnerGoesOn ==
  ASSUME NEW c \in charges, Owned(c), params'[c.tx] = params[c.tx],
         \/ pc'[c.tx] = "pay_send"
         \/ /\ pc'[c.tx] = "done"
            /\ ChargeOf(c.tx) \in published' \/ reply'[c.tx] \in {500, 502, Lost}
  PROVE  Owned(c)'
BY DEF Owned, ChargeOf

\* Every step keeps it.
LEMMA NextOwned == IInv /\ ChargesAreOwned /\ [Next]_vars => ChargesAreOwned'
<1> SUFFICES ASSUME IInv, ChargesAreOwned, [Next]_vars, NEW c \in charges'
             PROVE  Owned(c)'
  BY DEF ChargesAreOwned
<1> USE DEF TypeOK
<1>0. /\ c.tx \in Requests
      /\ c \in charges => Owned(c) /\ pc[c.tx] \in {"pay_update", "pay_send", "done"}
  <2>1. charges' \subseteq Charge
    BY NextType
  <2> QED BY <2>1 DEF Charge, ChargesAreOwned, Owned
<1>1. ASSUME NEW o \in Orders, Create(o) \/ ShipAssembled(o) PROVE Owned(c)'
  BY <1>0, <1>1, OwnedGoesOn DEF Create, ShipAssembled
<1>2. ASSUME NEW r \in Requests,
             \/ \E o \in Orders, m \in Methods : PayRead(r, o, m)
             \/ \E o \in Orders : CancelRead(r, o)
      PROVE  Owned(c)'
  <2>1. /\ pc[r] = "idle" /\ UNCHANGED <<charges, published>>
        /\ \A q \in Requests \ {r} :
             pc'[q] = pc[q] /\ params'[q] = params[q] /\ reply'[q] = reply[q]
    BY <1>2 DEF PayRead, CancelRead, MayStart, Goto, Answer, IInv
  <2> QED BY <1>0, <2>1, OwnedGoesOn
<1>3. ASSUME NEW r \in Requests, PayCharge(r) PROVE Owned(c)'
  <2>1. /\ pc[r] = "pay_charge" /\ UNCHANGED <<params, published>>
        /\ charges' \subseteq charges \cup {ChargeOf(r)}
        /\ \A q \in Requests \ {r} : pc'[q] = pc[q] /\ reply'[q] = reply[q]
        /\ \/ pc'[r] = "pay_update"
           \/ pc'[r] = "done" /\ reply'[r] \in {500, 502}
    BY <1>3 DEF PayCharge, PayOrder, Goto, Answer, StatusCode, IInv
  <2>2. CASE c \in charges
    BY <1>0, <2>1, <2>2, OwnedGoesOn
  <2>3. CASE c = ChargeOf(r)
    BY <2>1, <2>3 DEF Owned, ChargeOf
  <2> QED BY <2>1, <2>2, <2>3
<1>4. ASSUME NEW r \in Requests, PayUpdate(r) \/ PaySend(r) \/ CancelUpdate(r)
      PROVE  Owned(c)'
  <2>1. /\ UNCHANGED <<params, charges>> /\ published \subseteq published'
        /\ \A q \in Requests \ {r} : pc'[q] = pc[q] /\ reply'[q] = reply[q]
    BY <1>4 DEF PayUpdate, PaySend, CancelUpdate, Goto, Answer, IInv
  <2>2. CASE c.tx # r
    BY <1>0, <2>1, <2>2, OwnedGoesOn
  <2>3. CASE c.tx = r
    <3>1. PayUpdate(r) \/ PaySend(r)
      BY <1>0, <1>4, <2>1, <2>3 DEF CancelUpdate
    <3>2. \/ pc'[r] = "pay_send"
          \/ /\ pc'[r] = "done"
             /\ ChargeOf(r) \in published' \/ reply'[r] = 500
      BY <3>1 DEF PayUpdate, PaySend, Goto, Answer, IInv
    <3> QED BY <1>0, <2>1, <2>3, <3>2, OwnerGoesOn
  <2> QED BY <2>2, <2>3
<1>5. CASE Crash
  <2>1. UNCHANGED <<params, charges, published>>
    BY <1>5 DEF Crash
  <2>2. CASE InFlight(c.tx)
    BY <1>0, <1>5, <2>1, <2>2, OwnerGoesOn DEF Crash
  <2>3. CASE ~InFlight(c.tx)
    BY <1>0, <1>5, <2>1, <2>3, OwnedGoesOn DEF Crash
  <2> QED BY <2>2, <2>3
<1>6. CASE UNCHANGED vars
  BY <1>0, <1>6, OwnedGoesOn DEF vars
<1> QED BY <1>1, <1>2, <1>3, <1>4, <1>5, <1>6 DEF Next, Pay, Cancel

\* No money is taken silently: however requests race and whatever fails, every
\* charge the payment service made belongs to the Pay request it names, which is
\* still at work on it, or announced it, or ended with a failure or with a lost
\* connection at its caller (Pay, PaymentClient.PayOrder).
THEOREM NoChargeIsSilent == Spec => []ChargesAreOwned
<1>1. Init => ChargesAreOwned
  BY DEF Init, ChargesAreOwned
<1> QED BY <1>1, NextOwned, Invariance, PTL DEF Spec
=============================================================================
