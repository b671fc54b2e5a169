---------------------------- MODULE OrderService ----------------------------
(***************************************************************************)
(* The order service: the orders table, the HTTP requests that pay or      *)
(* cancel an order, and the handler of order.assembled that completes it.  *)
(*                                                                         *)
(* A request reads the row into a local variable, decides on that copy,    *)
(* and writes later by id alone: between the two, other requests run.      *)
(* Each step below is one call the request makes (a query, the payment     *)
(* RPC, the send to Kafka); everything between two calls is local.         *)
(*                                                                         *)
(* A transaction id is a fresh uuid of the payment service and a request   *)
(* calls PayOrder at most once, so the request names its transaction.      *)
(***************************************************************************)
EXTENDS Naturals

CONSTANTS
  Orders,          \* ids of the orders that may be created
  Requests,        \* HTTP requests, each served once
  Methods,         \* payment methods a caller may pass
  UnknownMethod,   \* PAYMENT_METHOD_UNKNOWN: the payment service refuses it
  None,            \* SQL NULL, a nil pointer
  Serialized,      \* TRUE: callers keep one request per order in flight
  Faults           \* what may fail: "db", "payment", "kafka", "crash"

ASSUME NoneIsFresh == None \notin Requests \cup Methods \cup Orders
ASSUME SerializedIsBool == Serialized \in BOOLEAN

VARIABLES
  rows,       \* the orders table: rows[o] is the row of order o
  pc,         \* pc[r]: the call request r is about to make
  params,     \* params[r]: the parameters of request r
  ord,        \* ord[r]: the local variable `ord` of request r
  charges,    \* what the payment service accepted
  published,  \* the events on the topic order.paid
  reply       \* reply[r]: the HTTP status request r was answered with

vars == <<rows, pc, params, ord, charges, published, reply>>

Statuses == {"PENDING_PAYMENT", "PAID", "COMPLETED", "CANCELLED"}
Row == [status : Statuses \cup {"NONE"},
        tx : Requests \cup {None}, method : Methods \cup {None}]
NoRow == [status |-> "NONE", tx |-> None, method |-> None]

\* One successful PayOrder call, and the event that announces it.
Charge == [order : Orders, tx : Requests, method : Methods]
Params == [id : Orders \cup {None}, method : Methods \cup {None}]

Steps == {"idle", "pay_charge", "pay_update", "pay_send",
          "cancel_update", "done"}

NoReply == 0
Lost == 1       \* the connection broke before an answer
Replies == {NoReply, Lost, 200, 204, 404, 409, 500, 502}

InFlight(r) == pc[r] \notin {"idle", "done"}

Init ==
  /\ rows = [o \in Orders |-> NoRow]
  /\ pc = [r \in Requests |-> "idle"]
  /\ params = [r \in Requests |-> [id |-> None, method |-> None]]
  /\ ord = [r \in Requests |-> NoRow]
  /\ charges = {}
  /\ published = {}
  /\ reply = [r \in Requests |-> NoReply]

-----------------------------------------------------------------------------
(* The repository. *)

\* Fault: a full-row update, nil fields included.
UpdatedRowWithNulls(row, upd) == upd

\* Update: only the fields that are set are written, and the WHERE clause
\* names the id alone, whatever status the row has by now.
UpdatedRow(row, upd) ==
  [status |-> upd.status,
   tx     |-> IF upd.tx = None THEN row.tx ELSE upd.tx,
   method |-> IF upd.method = None THEN row.method ELSE upd.method]

\* Update returns an error and writes nothing when no row has the id, or when
\* PAID comes without payment data.
UpdateAccepts(row, upd) ==
  /\ row # NoRow
  /\ upd.status = "PAID" => upd.tx # None /\ upd.method # None

Update(o, upd) ==
  /\ UpdateAccepts(rows[o], upd)
  /\ rows' = [rows EXCEPT ![o] = UpdatedRow(rows[o], upd)]

\* Create inserts a row that has no payment data.
Insert(o) ==
  /\ rows[o] = NoRow
  /\ rows' = [rows EXCEPT ![o] = [NoRow EXCEPT !.status = "PENDING_PAYMENT"]]

-----------------------------------------------------------------------------
(* The HTTP requests. *)

Goto(r, step) == /\ pc' = [pc EXCEPT ![r] = step]
                 /\ UNCHANGED reply

Answer(r, code) == /\ pc' = [pc EXCEPT ![r] = "done"]
                   /\ reply' = [reply EXCEPT ![r] = code]

\* The HTTP status of an error of the service: mapErrorToPayOrderRes and
\* mapErrorToCancelOrderRes. An unknown status, a failed query and a failed
\* send are all 500. Fault: a status the API does not declare for them.
StatusCodeRaw(err) == CASE err = "not_found" -> 404
                        [] err = "conflict"  -> 409
                        [] OTHER             -> 503
StatusCode(err) == CASE err = "not_found"   -> 404
                     [] err = "conflict"    -> 409
                     [] err = "bad_gateway" -> 502
                     [] OTHER               -> 500

\* What GET shows of an order: nothing (404) when there is no row.
orderStatusToOAPI(s) == IF s \in Statuses THEN s ELSE "PENDING_PAYMENT"

OrderToOAPI(row) ==
  [status |-> orderStatusToOAPI(row.status), transactionUUID |-> row.tx,
   paymentMethod |-> row.method]

OrderByID(o) == IF rows[o] = NoRow THEN {} ELSE {OrderToOAPI(rows[o])}

\* A caller sends request r for order o.
MayStart(r, o) ==
  /\ pc[r] = "idle"
  /\ Serialized => \A q \in Requests : InFlight(q) => params[q].id # o

\* Create's only change of the table: the insert of a PENDING_PAYMENT row.
\* The checks before it (parts, stock, price) read other services only.
Create(o) ==
  /\ Insert(o)
  /\ UNCHANGED <<pc, params, ord, charges, published, reply>>

\* The statuses Pay accepts. Fault: PAID is missing from the conflicts.
PayableTwice(s) == s \in {"PENDING_PAYMENT", "PAID"}
Payable(s) == s = "PENDING_PAYMENT"

\* Pay's error for the others.
PayRefusal(s) == CASE s = "NONE"                  -> "not_found"
                   [] s \in {"PAID", "CANCELLED"} -> "conflict"
                   [] OTHER                       -> "unknown_status"

OAPIToPaymentMethod(m) == IF m \in Methods THEN m ELSE UnknownMethod

PayOrderRequestToParams(o, m) == [id |-> o, method |-> OAPIToPaymentMethod(m)]

\* Pay reads the order and decides on the copy.
PayRead(r, o, m) ==
  /\ MayStart(r, o)
  /\ params' = [params EXCEPT ![r] = PayOrderRequestToParams(o, m)]
  /\ \/ /\ ord' = [ord EXCEPT ![r] = rows[o]]
        /\ IF Payable(rows[o].status)
             THEN Goto(r, "pay_charge")
             ELSE Answer(r, StatusCode(PayRefusal(rows[o].status)))
     \/ "db" \in Faults /\ Answer(r, 500) /\ UNCHANGED ord
  /\ UNCHANGED <<rows, charges, published>>

ChargeOf(r) == [order |-> params[r].id, tx |-> r, method |-> params[r].method]

\* The payment service refuses the unknown method and takes every other.
PaymentAccepts(m) == m # UnknownMethod

\* The payment service takes the payment.
PayOrder(r) ==
  /\ PaymentAccepts(params[r].method)
  /\ charges' = charges \cup {ChargeOf(r)}

\* Fault: the error of PayOrder is not checked.
PayChargeUnchecked(r) ==
  /\ pc[r] = "pay_charge"
  /\ \/ charges' = charges \cup {ChargeOf(r)}
     \/ "payment" \in Faults /\ UNCHANGED charges
  /\ ord' = [ord EXCEPT ![r] = [status |-> "PAID", tx |-> r,
                               method |-> params[r].method]]
  /\ Goto(r, "pay_update")
  /\ UNCHANGED <<rows, params, published>>

\* The PayOrder RPC. The service accepts every known method and answers with
\* a fresh transaction id; the answer, or the call itself, may be lost, or the
\* id is none that uuid.Parse reads, which is answered 500.
PayCharge(r) ==
  /\ pc[r] = "pay_charge"
  /\ \/ /\ PayOrder(r)
        /\ \/ /\ ord' = [ord EXCEPT ![r] = [status |-> "PAID", tx |-> r,
                                            method |-> params[r].method]]
              /\ Goto(r, "pay_update")
           \/ /\ "payment" \in Faults
              /\ \E err \in {"bad_gateway", "bad_uuid"} : Answer(r, StatusCode(err))
              /\ UNCHANGED ord
     \/ /\ ~PaymentAccepts(params[r].method) \/ "payment" \in Faults
        /\ Answer(r, StatusCode("bad_gateway"))
        /\ UNCHANGED <<charges, ord>>
  /\ UNCHANGED <<rows, params, published>>

\* Fault: the error of Update is not checked.
PayUpdateUnchecked(r) ==
  /\ pc[r] = "pay_update"
  /\ Goto(r, "pay_send")
  /\ \/ Update(params[r].id, ord[r])
     \/ "db" \in Faults /\ UNCHANGED rows
  /\ UNCHANGED <<params, ord, charges, published>>

\* Fault: Pay answers without announcing the payment.
PayUpdateSilent(r) ==
  /\ pc[r] = "pay_update"
  /\ Update(params[r].id, ord[r]) /\ Answer(r, 200)
  /\ UNCHANGED <<params, ord, charges, published>>

\* Pay writes its copy back. A failing Exec may or may not have been applied.
PayUpdate(r) ==
  /\ pc[r] = "pay_update"
  /\ \/ Update(params[r].id, ord[r]) /\ Goto(r, "pay_send")
     \/ /\ "db" \in Faults
        /\ UNCHANGED rows \/ Update(params[r].id, ord[r])
        /\ Answer(r, 500)
  /\ UNCHANGED <<params, ord, charges, published>>

\* Fault: a failed send is only logged.
PaySendBestEffort(r) ==
  /\ pc[r] = "pay_send"
  /\ \/ published' = published \cup {ChargeOf(r)}
     \/ "kafka" \in Faults /\ UNCHANGED published
  /\ Answer(r, 200)
  /\ UNCHANGED <<rows, params, ord, charges>>

\* Pay announces the payment on order.paid. A failing send may have been
\* written by the broker; the row stays PAID either way.
PaySend(r) ==
  /\ pc[r] = "pay_send"
  /\ \/ published' = published \cup {ChargeOf(r)} /\ Answer(r, 200)
     \/ /\ "kafka" \in Faults
        /\ UNCHANGED published \/ published' = published \cup {ChargeOf(r)}
        /\ Answer(r, 500)
  /\ UNCHANGED <<rows, params, ord, charges>>

\* The statuses Cancel accepts. Fault: a PAID order may be cancelled.
CancellablePaid(s) == s \in {"PENDING_PAYMENT", "PAID"}
Cancellable(s) == s = "PENDING_PAYMENT"

\* Cancel's error for the others.
CancelRefusal(s) == CASE s = "NONE"                  -> "not_found"
                      [] s \in {"PAID", "COMPLETED"} -> "conflict"
                      [] OTHER                       -> "unknown_status"

\* Cancel reads the order and decides on the copy.
CancelRead(r, o) ==
  /\ MayStart(r, o)
  /\ params' = [params EXCEPT ![r] = [id |-> o, method |-> None]]
  /\ \/ /\ Cancellable(rows[o].status)
        /\ ord' = [ord EXCEPT ![r] = [rows[o] EXCEPT !.status = "CANCELLED"]]
        /\ Goto(r, "cancel_update")
     \/ /\ ~Cancellable(rows[o].status)
        /\ ord' = [ord EXCEPT ![r] = rows[o]]
        /\ Answer(r, StatusCode(CancelRefusal(rows[o].status)))
     \/ "db" \in Faults /\ Answer(r, 500) /\ UNCHANGED ord
  /\ UNCHANGED <<rows, charges, published>>

\* Cancel writes its copy back.
CancelUpdate(r) ==
  /\ pc[r] = "cancel_update"
  /\ \/ Update(params[r].id, ord[r]) /\ Answer(r, 204)
     \/ /\ "db" \in Faults
        /\ UNCHANGED rows \/ Update(params[r].id, ord[r])
        /\ Answer(r, 500)
  /\ UNCHANGED <<params, ord, charges, published>>

-----------------------------------------------------------------------------
(* The consumer of order.assembled. *)

\* Complete writes COMPLETED without reading the row.
Complete(o) ==
  Update(o, [status |-> "COMPLETED", tx |-> None, method |-> None])

\* The handler of order.assembled. A ship is assembled for an order that was
\* announced, any number of times: both topics deliver at least once. When
\* Update fails nothing is written and the message may come again.
ShipAssembled(o) ==
  /\ \E e \in published : e.order = o
  /\ Complete(o)
  /\ UNCHANGED <<pc, params, ord, charges, published, reply>>

\* The process dies: its requests are gone, the table and the topic stay.
Crash ==
  /\ "crash" \in Faults
  /\ \E r \in Requests : InFlight(r)
  /\ pc' = [r \in Requests |-> IF InFlight(r) THEN "done" ELSE pc[r]]
  /\ reply' = [r \in Requests |-> IF InFlight(r) THEN Lost ELSE reply[r]]
  /\ UNCHANGED <<rows, params, ord, charges, published>>

-----------------------------------------------------------------------------
Pay(r) == \/ \E o \in Orders, m \in Methods : PayRead(r, o, m)
          \/ PayCharge(r)
          \/ PayUpdate(r)
          \/ PaySend(r)

Cancel(r) == \/ \E o \in Orders : CancelRead(r, o)
             \/ CancelUpdate(r)

Next == \/ \E o \in Orders : Create(o) \/ ShipAssembled(o)
        \/ \E r \in Requests : Pay(r) \/ Cancel(r)
        \/ Crash

Spec == Init /\ [][Next]_vars

\* A query runs under a timeout and a synchronous send returns, so these
\* steps are taken; the payment RPC has no timeout and may hang for ever.
Fairness == \A r \in Requests :
              WF_vars(PayUpdate(r)) /\ WF_vars(PaySend(r))

FairSpec == Spec /\ Fairness

-----------------------------------------------------------------------------
(* Invariants. *)

\* The domain of every variable.
TypeOK ==
  /\ rows \in [Orders -> Row]
  /\ pc \in [Requests -> Steps]
  /\ params \in [Requests -> Params]
  /\ ord \in [Requests -> Row]
  /\ charges \subseteq Charge
  /\ published \subseteq Charge
  /\ reply \in [Requests -> Replies]

\* An order that GET shows as PAID or COMPLETED was really charged, for that
\* order, by the method and under the transaction that are shown with it:
\* however requests race, Update never mixes two payments in one row and
\* Complete never completes an unpaid order (Pay, Complete,
\* repository.Update, OrderToOAPI).
PaidIsCharged ==
  \A o \in Orders : \A shown \in OrderByID(o) :
    shown.status \in {"PAID", "COMPLETED"} =>
      \E c \in charges : /\ c.order = o
                         /\ c.tx = shown.transactionUUID
                         /\ c.method = shown.paymentMethod

\* An event on order.paid announces a payment that was taken and whose order
\* carries payment data in the table: the send comes after the write, and no
\* later write takes the data away.
PublishedIsPersisted ==
  \A e \in published :
    /\ e \in charges
    /\ rows[e.order].tx # None
    /\ rows[e.order].status \notin {"NONE", "PENDING_PAYMENT"}

\* A payment answered with success was charged and announced, even when the
\* process crashed or the broker failed around it (a part of IInv).
OkMeansAnnounced ==
  \A r \in Requests :
    reply[r] = 200 => ChargeOf(r) \in published

\* When callers take turns, an order is charged twice, or charged and in the
\* end cancelled, only if the caller of the first charge was told that it
\* failed (500, 502) or was told nothing: whoever is answered 200 is charged
\* once and gets the ship. (Pay, Cancel; a lost answer of the payment service
\* or a failed Update leaves the order PENDING_PAYMENT after the charge.)
ChargedOnce ==
  \A c \in charges :
    reply[c.tx] \in {NoReply, 200} =>
      /\ rows[c.order].status # "CANCELLED"
      /\ \A d \in charges \ {c} :
           d.order = c.order => reply[d.tx] \in {500, 502, Lost}

\* When callers take turns, every event agrees with the row of its order:
\* assembly and notification are told the transaction and the method that the
\* table holds.
EventMatchesRow ==
  \A e \in published :
    rows[e.order].tx = e.tx /\ rows[e.order].method = e.method

\* What the copies of the requests in flight are worth: the order they name
\* exists; a Pay that was charged holds the payment it is about to write, and
\* once written the row keeps payment data; a Cancel holds none.
CopiesAreSound ==
  \A r \in Requests :
    /\ InFlight(r) => params[r].id \in Orders /\ rows[params[r].id].status # "NONE"
    /\ pc[r] = "pay_charge" => params[r].method \in Methods
    /\ pc[r] \in {"pay_update", "pay_send"} =>
         /\ ChargeOf(r) \in charges
         /\ ord[r] = [status |-> "PAID", tx |-> r, method |-> params[r].method]
    /\ pc[r] = "pay_send" => rows[params[r].id].tx # None
    /\ pc[r] = "cancel_update" =>
         /\ params[r].method = None
         /\ ord[r] = [status |-> "CANCELLED", tx |-> None, method |-> None]
    /\ pc[r] # "done" => reply[r] = NoReply

\* What the table is worth: payment data is there or not as a whole, names a
\* charge of this very order, and is there for every paid order.
RowsAreSound ==
  \A o \in Orders :
    /\ rows[o].tx = None <=> rows[o].method = None
    /\ rows[o].tx # None =>
         [order |-> o, tx |-> rows[o].tx, method |-> rows[o].method] \in charges
    /\ rows[o].status \in {"NONE", "PENDING_PAYMENT"} => rows[o].tx = None
    /\ rows[o].status \in {"PAID", "COMPLETED"} => rows[o].tx # None

\* The inductive invariant behind the safety properties that hold however
\* requests race and whatever fails.
IInv == TypeOK /\ CopiesAreSound /\ RowsAreSound /\ PublishedIsPersisted
        /\ OkMeansAnnounced

-----------------------------------------------------------------------------
(* Action properties. *)

\* However requests race, payment data is never erased and an order never
\* becomes payable again once it left PENDING_PAYMENT.
PaymentDataKept ==
  [][\A o \in Orders :
       /\ rows[o].tx # None => rows'[o].tx # None /\ rows'[o].method # None
       /\ rows[o].status \notin {"NONE", "PENDING_PAYMENT"} =>
            rows'[o].status \notin {"NONE", "PENDING_PAYMENT"}]_vars

\* However requests race and whatever fails, one that is sent after a Pay of
\* the order was answered 200 goes no further than its first read: it neither
\* charges nor cancels. To charge an order twice, or to cancel it in spite of a
\* success, takes a request that had read it before the answer (Pay, Cancel).
SettledIsRefused ==
  [][\A q, r \in Requests :
       reply[q] = 200 /\ pc[r] = "idle" /\ pc'[r] \notin {"idle", "done"} =>
         params'[r].id # params[q].id]_vars

\* order_pay.yaml:9-14 and order_cancel.yaml:9-12: PayOrder is called, payment
\* data is stored, and an order is cancelled, only while the order is in
\* PENDING_PAYMENT. The copy a request decided on says so, the row may not any
\* more. (When two Pays both call PayOrder in time, the second one to store its
\* payment meets a PAID order.)
ActsOnPendingOnly ==
  [][\A o \in Orders :
       \/ rows[o].status = "PENDING_PAYMENT"
       \/ /\ \A c \in charges' \ charges : c.order # o
          /\ rows'[o].tx = rows[o].tx
          /\ rows'[o].status # rows[o].status => rows'[o].status # "CANCELLED"]_vars

-----------------------------------------------------------------------------
(* Liveness and refinement. *)

\* A payment that reached the table is announced on order.paid, unless some
\* request for the order was answered 500 or lost its connection: no order
\* stays PAID and silent while every caller was told that all is well.
PaidIsAnnounced ==
  \A o \in Orders :
    rows[o].status = "PAID" ~>
      \/ \E e \in published : e.order = o
      \/ \E r \in Requests : params[r].id = o /\ reply[r] \in {500, Lost}

\* assembly.proto:10-17: an order that is paid is fulfilled, which starts with
\* its event. After a failed send the row is PAID, the retry is refused, and
\* nothing sends the event again.
PaidIsAlwaysAnnounced ==
  \A o \in Orders :
    rows[o].status = "PAID" ~> \E e \in published : e.order = o

\* When callers take turns, the table goes through the life cycle and no
\* other way, whatever fails.
Lifecycle == INSTANCE OrderLifecycle
               WITH Transactions <- Requests,
                    status <- [o \in Orders |-> rows[o].status],
                    settledBy <- [o \in Orders |-> rows[o].tx]

RefinesLifecycle == Lifecycle!Spec
=============================================================================
