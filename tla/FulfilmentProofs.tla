-------------------------- MODULE FulfilmentProofs --------------------------
(***************************************************************************)
(* What the composed system guarantees for any number of orders, requests, *)
(* chats, messages and restarts, with racing callers and any faults: it is *)
(* still an order service, no order is completed without its payment and   *)
(* its ship, and no chat hears of what did not happen.                     *)
(*                                                                         *)
(* What is proved of the order service alone holds in the composition: the *)
(* instance P below has the same definitions as Fulfilment's OS.           *)
(***************************************************************************)
EXTENDS Fulfilment, SequenceTheorems, TLAPS

P == INSTANCE OrderLifecycleProofs

-----------------------------------------------------------------------------
(* The order service within the system. *)

\* The two instances start in the same states.
LEMMA SameInit == OS!Init <=> P!Init
BY DEF OS!Init, P!Init, OS!NoRow, P!NoRow, OS!NoReply, P!NoReply

\* The two instances have the same invariant, in a state and in the next one.
LEMMA SameIInv == (OS!IInv <=> P!IInv) /\ (OS!IInv' <=> P!IInv')
BY DEF OS!IInv, P!IInv, OS!TypeOK, P!TypeOK, OS!CopiesAreSound,
       P!CopiesAreSound, OS!RowsAreSound, P!RowsAreSound,
       OS!PublishedIsPersisted, P!PublishedIsPersisted, OS!OkMeansAnnounced,
       P!OkMeansAnnounced, OS!InFlight, P!InFlight, OS!ChargeOf, P!ChargeOf,
       OS!Charge, P!Charge, OS!Row, P!Row, OS!Params, P!Params, OS!Steps,
       P!Steps, OS!Replies, P!Replies, OS!NoReply, P!NoReply, OS!Lost, P!Lost,
       OS!Statuses, P!Statuses

\* The two instances take the same steps.
LEMMA SameNext == OS!Next <=> P!Next
BY DEF OS!Next, P!Next, OS!Create, P!Create, OS!Insert, P!Insert, OS!NoRow,
       P!NoRow, OS!ShipAssembled, P!ShipAssembled, OS!Complete, P!Complete,
       OS!Update, P!Update, OS!UpdateAccepts, P!UpdateAccepts, OS!UpdatedRow,
       P!UpdatedRow, OS!Pay, P!Pay, OS!Cancel, P!Cancel, OS!PayRead, P!PayRead,
       OS!MayStart, P!MayStart, OS!PayOrderRequestToParams,
       P!PayOrderRequestToParams, OS!OAPIToPaymentMethod,
       P!OAPIToPaymentMethod, OS!Payable, P!Payable, OS!PayRefusal,
       P!PayRefusal, OS!InFlight, P!InFlight, OS!PayCharge, P!PayCharge,
       OS!PayOrder, P!PayOrder, OS!PaymentAccepts, P!PaymentAccepts,
       OS!ChargeOf, P!ChargeOf, OS!Goto, P!Goto, OS!Answer, P!Answer,
       OS!StatusCode, P!StatusCode, OS!PayUpdate, P!PayUpdate, OS!PaySend,
       P!PaySend, OS!CancelRead, P!CancelRead, OS!Cancellable, P!Cancellable,
       OS!CancelRefusal, P!CancelRefusal, OS!CancelUpdate, P!CancelUpdate,
       OS!Crash, P!Crash, OS!Lost, P!Lost

\* Its invariant holds at the start and survives its steps.
LEMMA OrderInit == OS!Init => OS!IInv
BY P!InitInv, SameInit, SameIInv, NoneIsFresh, SerializedIsBool

\* Every step of the order service within the system keeps its invariant.
LEMMA OrderNext == OS!IInv /\ [OS!Next]_(OS!vars) => OS!IInv'
<1>1. [OS!Next]_(OS!vars) <=> [P!Next]_(P!vars)
  BY SameNext DEF OS!vars, P!vars
<1>2. P!IInv /\ [P!Next]_(P!vars) => P!IInv'
  BY P!NextInv, NoneIsFresh, SerializedIsBool
<1> QED BY <1>1, <1>2, SameIInv

-----------------------------------------------------------------------------
(* The inductive invariant. *)

Positions == [next : Nat, mark : Nat, kept : Nat]

\* A position on a topic of n messages.
Placed(p, n) ==
  /\ p \in Positions
  /\ p.kept <= p.mark /\ p.mark <= p.next /\ p.next <= n

\* TypeOK in three parts.
LogsTyped == /\ paidLog \in Seq(OS!Charge) /\ shipLog \in Seq(OS!Charge)
             /\ Len(shipLog) <= MaxShips
GroupsPlaced == /\ group \in [Groups -> Positions]
                /\ \A g \in Groups : Placed(group[g], Len(Log(g)))
RestTyped == /\ building \in BOOLEAN /\ storage \subseteq Chats
             /\ told \in [Notices -> [Chats -> SUBSET Nat]]
             /\ skipped \subseteq Groups \X Nat
             /\ stops \in 0 .. MaxStops

\* A ship is announced for a payment that was, and a payment for a charge.
LogsAgree == /\ InLog(paidLog) \subseteq published
             /\ InLog(shipLog) \subseteq InLog(paidLog)

\* The assembly handler that waits for its timer has its message.
BuildHasMessage == building => HasMessage("assembly")

\* Chats are told of messages.
ToldIsLogged ==
  \A g \in Notices, c \in Chats : \A i \in told[g][c] : i < Len(Log(g))

\* Every completed order has its ship on the topic.
CompletedIsShipped ==
  \A o \in Orders : rows[o].status = "COMPLETED" =>
    \E e \in InLog(shipLog) : e.order = o

IInv == /\ OS!IInv
        /\ LogsTyped /\ GroupsPlaced /\ RestTyped
        /\ LogsAgree /\ BuildHasMessage /\ ToldIsLogged /\ CompletedIsShipped

\* The three parts together are the type invariant of the system.
LEMMA PartsOfType == LogsTyped /\ GroupsPlaced /\ RestTyped => TypeOK
BY DEF TypeOK, LogsTyped, GroupsPlaced, RestTyped, Placed, Positions

-----------------------------------------------------------------------------
(* Topics and positions. *)

\* A topic with one more message.
LEMMA Appended ==
  ASSUME NEW log \in Seq(OS!Charge), NEW e \in OS!Charge
  PROVE  /\ Append(log, e) \in Seq(OS!Charge)
         /\ Len(Append(log, e)) = Len(log) + 1
         /\ InLog(Append(log, e)) = InLog(log) \cup {e}
<1>1. /\ Append(log, e) \in Seq(OS!Charge)
      /\ Len(Append(log, e)) = Len(log) + 1
      /\ \A i \in 1 .. Len(log) : Append(log, e)[i] = log[i]
      /\ Append(log, e)[Len(log) + 1] = e
  BY AppendProperties
<1>2. DOMAIN log = 1 .. Len(log) /\ Len(log) \in Nat
      /\ DOMAIN Append(log, e) = 1 .. Len(log) + 1
  BY <1>1
<1>3. \A x \in InLog(Append(log, e)) : x \in InLog(log) \cup {e}
  BY <1>1, <1>2 DEF InLog
<1>4. \A x \in InLog(log) : x \in InLog(Append(log, e))
  BY <1>1, <1>2 DEF InLog
<1>5. e \in InLog(Append(log, e))
  BY <1>1, <1>2 DEF InLog
<1> QED BY <1>1, <1>3, <1>4, <1>5

\* What a success does to a position.
LEMMA SucceededPosition ==
  ASSUME NEW p \in Positions
  PROVE  C!Succeeded(p)
           = [next |-> p.next + 1, mark |-> p.next + 1, kept |-> p.kept]
<1> DEFINE h == [next |-> p.next + 1, mark |-> p.mark, kept |-> p.kept]
<1>1. [p EXCEPT !.next = p.next + 1] = h
  BY DEF Positions
<1>2. [h EXCEPT !.mark = p.next + 1]
        = [next |-> p.next + 1, mark |-> p.next + 1, kept |-> p.kept]
  OBVIOUS
<1>3. C!Succeeded(p) = [[p EXCEPT !.next = p.next + 1] EXCEPT !.mark = p.next + 1]
  BY DEF C!Succeeded
<1> QED BY <1>1, <1>2, <1>3

\* The handler moves its group by one message; a rejoin moves it back.
LEMMA MovesArePlaced ==
  ASSUME NEW n \in Nat, NEW p, Placed(p, n)
  PROVE  /\ p.next < n => Placed(C!Succeeded(p), n) /\ Placed(C!PassedOver(p), n)
         /\ \A at \in C!Resumed(p) : Placed(at, n)
         /\ \A m \in Nat : n <= m => Placed(p, m)
<1> USE DEF Placed, Positions
<1>1. ASSUME p.next < n PROVE Placed(C!PassedOver(p), n)
  <2>1. C!PassedOver(p) = [next |-> p.next + 1, mark |-> p.mark, kept |-> p.kept]
    BY DEF C!PassedOver
  <2> QED BY <1>1, <2>1
<1>2. ASSUME p.next < n PROVE Placed(C!Succeeded(p), n)
  <2>1. C!Succeeded(p) = [next |-> p.next + 1, mark |-> p.next + 1, kept |-> p.kept]
    BY SucceededPosition
  <2> QED BY <1>2, <2>1
<1>3. ASSUME NEW at \in C!Resumed(p) PROVE Placed(at, n)
  <2>1. PICK k \in p.kept .. p.mark : at = [next |-> k, mark |-> k, kept |-> k]
    BY <1>3 DEF C!Resumed, C!At
  <2> QED BY <2>1
<1>4. ASSUME NEW m \in Nat, n <= m PROVE Placed(p, m)
  BY <1>4
<1> QED BY <1>1, <1>2, <1>3, <1>4

\* The topics' lengths are numbers, and what is taken of a topic is on it.
LEMMA Messages ==
  ASSUME LogsTyped, NEW g \in Groups
  PROVE  /\ Log(g) \in Seq(OS!Charge) /\ Len(Log(g)) \in Nat
         /\ GroupsPlaced /\ HasMessage(g) =>
              Message(g) \in InLog(Log(g)) /\ Message(g) \in OS!Charge
<1>1. Log(g) \in Seq(OS!Charge)
  BY DEF Log, LogsTyped
<1>2. Len(Log(g)) \in Nat /\ DOMAIN Log(g) = 1 .. Len(Log(g))
  BY <1>1
<1>3. ASSUME GroupsPlaced, HasMessage(g)
      PROVE  Message(g) \in InLog(Log(g)) /\ Message(g) \in OS!Charge
  <2>1. group[g].next + 1 \in 1 .. Len(Log(g))
    BY <1>2, <1>3 DEF GroupsPlaced, Placed, Positions, HasMessage
  <2>2. Message(g) = Log(g)[group[g].next + 1]
    BY DEF Message
  <2> QED BY <1>1, <1>2, <2>1, <2>2 DEF InLog
<1> QED BY <1>1, <1>2, <1>3

\* What a handler's return does: its group alone moves and stays on its topic,
\* which may grow in the same step.
LEMMA HandlerReturns ==
  ASSUME LogsTyped, GroupsPlaced, RestTyped, LogsTyped',
         NEW g \in Groups, HasMessage(g),
         HandlerOk(g) \/ HandlerFails(g),
         \A h \in Groups : Len(Log(h)) <= Len(Log(h)')
  PROVE  /\ GroupsPlaced'
         /\ \A h \in Groups : h # g => group'[h] = group[h]
         /\ skipped' \subseteq Groups \X Nat
<1>1. \A h \in Groups : Len(Log(h)) \in Nat /\ Len(Log(h)') \in Nat
  BY DEF LogsTyped, Log
<1>2. group[g].next \in Nat /\ group[g].next < Len(Log(g))
  BY DEF GroupsPlaced, Placed, Positions, HasMessage
<1>3. /\ group' = [group EXCEPT ![g] = group'[g]]
      /\ group'[g] \in {C!Succeeded(group[g]), C!PassedOver(group[g])}
  BY DEF HandlerOk, HandlerFails, GroupsPlaced
<1>4. Placed(group'[g], Len(Log(g)))
  BY <1>1, <1>2, <1>3, MovesArePlaced DEF GroupsPlaced
<1>5. \A h \in Groups : h # g => group'[h] = group[h]
  BY <1>3 DEF GroupsPlaced
<1>6. \A h \in Groups : Placed(group'[h], Len(Log(h)))
  BY <1>4, <1>5 DEF GroupsPlaced
<1>7. \A h \in Groups : Placed(group'[h], Len(Log(h)'))
  BY <1>1, <1>6, MovesArePlaced
<1>8. group'[g] \in Positions
  BY <1>4 DEF Placed
<1>9. group' \in [Groups -> Positions]
  BY <1>3, <1>8 DEF GroupsPlaced
<1>10. skipped' \subseteq Groups \X Nat
  BY <1>2 DEF HandlerOk, HandlerFails, RestTyped
<1> QED BY <1>5, <1>7, <1>9, <1>10 DEF GroupsPlaced

-----------------------------------------------------------------------------
(* The refinement. *)

\* What the completion handler takes from order.assembled names an order that
\* was announced: the event of the payment is on order.paid, from where assembly
\* copied it. So the order has a row that is not PENDING_PAYMENT.
LEMMA ShipsWereAnnounced ==
  ASSUME IInv, HasMessage("completion")
  PROVE  /\ Message("completion").order \in Orders
         /\ \E e \in published : e.order = Message("completion").order
         /\ rows[Message("completion").order].status \notin {"NONE", "PENDING_PAYMENT"}
<1> DEFINE m == Message("completion")
<1>1. m \in InLog(shipLog) /\ m \in OS!Charge
  BY Messages DEF IInv, Groups, Log
<1>2. m \in published
  BY <1>1 DEF IInv, LogsAgree
<1>3. rows[m.order].status \notin {"NONE", "PENDING_PAYMENT"}
  BY <1>2 DEF IInv, OS!IInv, OS!PublishedIsPersisted
<1> QED BY <1>1, <1>2, <1>3 DEF OS!Charge

\* Every step is a step of the order service or leaves its state alone.
LEMMA StepsOfOrder == IInv /\ [Next]_vars => [OS!Next]_(OS!vars)
<1> SUFFICES ASSUME IInv, [Next]_vars PROVE OS!Next \/ UNCHANGED orderVars
  BY DEF OS!vars, orderVars
<1>1. ASSUME NEW o \in Orders, Create(o) PROVE OS!Next
  BY <1>1 DEF Create, OS!Next
<1>2. ASSUME NEW r \in Requests, Request(r) PROVE OS!Next
  BY <1>2 DEF Request, OS!Next
<1>3. CASE CompleteOrder
  <2>1. PICK o \in Orders : o = Message("completion").order
    BY <1>3, ShipsWereAnnounced DEF CompleteOrder
  <2>2. \E e \in published : e.order = o
    BY <1>3, <2>1, ShipsWereAnnounced DEF CompleteOrder
  <2>3. /\ OS!Complete(o) \/ UNCHANGED rows
        /\ UNCHANGED <<pc, params, ord, charges, published, reply>>
    BY <1>3, <2>1 DEF CompleteOrder
  <2>4. OS!ShipAssembled(o) \/ UNCHANGED orderVars
    BY <2>2, <2>3 DEF OS!ShipAssembled, orderVars
  <2> QED BY <2>1, <2>4 DEF OS!Next
<1>4. CASE OrderRestarts
  BY <1>4 DEF OrderRestarts, OS!Next
<1>5. CASE BuildStarts \/ BuildEnds \/ (\E c \in Chats : Subscribe(c))
           \/ (\E g \in Notices : Notify(g)) \/ (\E g \in Groups : Rejoin(g))
           \/ NotifierRestarts
  BY <1>5 DEF BuildStarts, BuildEnds, Subscribe, Notify, Rejoin, NotifierRestarts
<1>6. CASE UNCHANGED vars
  BY <1>6 DEF vars
<1> QED BY <1>1, <1>2, <1>3, <1>4, <1>5, <1>6 DEF Next

-----------------------------------------------------------------------------
(* Every step keeps the invariant. *)

\* What a request does to the rows and the events: it completes no order, and
\* the only event it publishes is that of its own charge.
LEMMA RequestEffect ==
  ASSUME OS!IInv, NEW r \in Requests, OS!Pay(r) \/ OS!Cancel(r)
  PROVE  /\ \A o \in Orders : rows'[o].status = "COMPLETED" =>
                                rows[o].status = "COMPLETED"
         /\ published' # published =>
              /\ published' = published \cup {OS!ChargeOf(r)}
              /\ OS!ChargeOf(r) \in OS!Charge
<1> USE DEF OS!IInv, OS!TypeOK
<1>1. CASE OS!PayUpdate(r) \/ OS!CancelUpdate(r)
  <2>1. /\ ord[r].status \in {"PAID", "CANCELLED"}
        /\ published' = published
    BY <1>1 DEF OS!PayUpdate, OS!CancelUpdate, OS!CopiesAreSound
  <2>2. \/ rows' = rows
        \/ rows' = [rows EXCEPT ![params[r].id] =
                      OS!UpdatedRow(rows[params[r].id], ord[r])]
    BY <1>1 DEF OS!PayUpdate, OS!CancelUpdate, OS!Update
  <2> QED BY <2>1, <2>2 DEF OS!UpdatedRow
<1>2. CASE OS!PaySend(r)
  <2>1. OS!ChargeOf(r) \in OS!Charge
    BY <1>2 DEF OS!PaySend, OS!CopiesAreSound
  <2> QED BY <1>2, <2>1 DEF OS!PaySend
<1>3. CASE \/ \E o \in Orders, m \in Methods : OS!PayRead(r, o, m)
           \/ OS!PayCharge(r)
           \/ \E o \in Orders : OS!CancelRead(r, o)
  BY <1>3 DEF OS!PayRead, OS!PayCharge, OS!CancelRead
<1> QED BY <1>1, <1>2, <1>3 DEF OS!Pay, OS!Cancel

\* The parts of IInv other than OS!IInv.
Rest == /\ LogsTyped /\ GroupsPlaced /\ RestTyped
        /\ LogsAgree /\ BuildHasMessage /\ ToldIsLogged /\ CompletedIsShipped

\* A step that leaves the consumers alone while topics may grow.
LEMMA ConsumersStay ==
  ASSUME IInv, LogsTyped',
         UNCHANGED <<group, building, storage, told, skipped, stops>>,
         \A g \in Groups : Len(Log(g)) <= Len(Log(g)')
  PROVE  GroupsPlaced' /\ RestTyped' /\ BuildHasMessage' /\ ToldIsLogged'
<1> USE DEF IInv
<1>1. \A g \in Groups : Len(Log(g)) \in Nat /\ Len(Log(g)') \in Nat
  BY DEF LogsTyped, Log
<1>2. GroupsPlaced'
  BY <1>1, MovesArePlaced DEF GroupsPlaced
<1>3. RestTyped'
  BY DEF RestTyped
<1>4. BuildHasMessage'
  <2>1. building' = building /\ group' = group /\ "assembly" \in Groups
    BY DEF Groups
  <2>2. group["assembly"].next \in Nat
    BY <2>1 DEF GroupsPlaced, Placed, Positions
  <2>3. HasMessage("assembly") => HasMessage("assembly")'
    BY <1>1, <2>1, <2>2 DEF HasMessage
  <2> QED BY <2>1, <2>3 DEF BuildHasMessage
<1>5. ToldIsLogged'
  <2>1. ASSUME NEW g \in Notices, NEW c \in Chats, NEW i \in told[g][c]
        PROVE  i < Len(Log(g)')
    <3>1. g \in Groups /\ i \in Nat /\ i < Len(Log(g))
      BY <2>1 DEF Notices, Groups, RestTyped, ToldIsLogged
    <3> QED BY <1>1, <3>1
  <2> QED BY <2>1 DEF ToldIsLogged
<1> QED BY <1>2, <1>3, <1>4, <1>5

\* A request may announce its payment.
LEMMA RequestKeeps ==
  ASSUME IInv, NEW r \in Requests, Request(r)
  PROVE  Rest'
<1> USE DEF IInv
<1>1. OS!Pay(r) \/ OS!Cancel(r)
  BY DEF Request
<1>2. UNCHANGED <<shipLog, group, building, storage, told, skipped, stops>>
  BY DEF Request, notifyVars
<1>3. CASE published' = published /\ paidLog' = paidLog
  <2>1. LogsTyped' /\ LogsAgree'
    BY <1>2, <1>3 DEF LogsTyped, LogsAgree
  <2>2. \A g \in Groups : Len(Log(g)) <= Len(Log(g)')
    BY <1>2, <1>3, Messages DEF Log
  <2>3. CompletedIsShipped'
    BY <1>1, <1>2, RequestEffect DEF CompletedIsShipped
  <2> QED BY <1>2, <2>1, <2>2, <2>3, ConsumersStay DEF Rest
<1>4. CASE published' # published /\ paidLog' = Append(paidLog, OS!ChargeOf(r))
  <2>1. /\ published' = published \cup {OS!ChargeOf(r)}
        /\ OS!ChargeOf(r) \in OS!Charge
    BY <1>1, <1>4, RequestEffect
  <2>2. /\ paidLog' \in Seq(OS!Charge) /\ Len(paidLog') = Len(paidLog) + 1
        /\ InLog(paidLog') = InLog(paidLog) \cup {OS!ChargeOf(r)}
    BY <1>4, <2>1, Appended DEF LogsTyped
  <2>3. LogsTyped'
    BY <1>2, <2>2 DEF LogsTyped, OS!Charge
  <2>4. LogsAgree'
    BY <1>2, <2>1, <2>2 DEF LogsAgree
  <2>5. \A g \in Groups : Len(Log(g)) <= Len(Log(g)')
    BY <1>2, <2>2, Messages DEF Log, LogsTyped
  <2>6. CompletedIsShipped'
    BY <1>1, <1>2, RequestEffect DEF CompletedIsShipped
  <2> QED BY <1>2, <2>3, <2>4, <2>5, <2>6, ConsumersStay DEF Rest
<1> QED BY <1>3, <1>4 DEF Request

\* A new row is not a completed one.
LEMMA CreateKeeps ==
  ASSUME IInv, NEW o \in Orders, Create(o)
  PROVE  Rest'
<1> USE DEF IInv
<1>1. UNCHANGED <<published, paidLog, shipLog, group, building, storage, told,
                  skipped, stops>>
  BY DEF Create, OS!Create, notifyVars
<1>2. LogsTyped' /\ LogsAgree'
  BY <1>1 DEF LogsTyped, LogsAgree
<1>3. \A g \in Groups : Len(Log(g)) <= Len(Log(g)')
  BY <1>1, Messages DEF Log
<1>4. CompletedIsShipped'
  BY <1>1 DEF Create, OS!Create, OS!Insert, OS!NoRow, OS!IInv, OS!TypeOK,
              CompletedIsShipped
<1> QED BY <1>1, <1>2, <1>3, <1>4, ConsumersStay DEF Rest

\* The order that is completed is that of a message of order.assembled.
LEMMA CompleteOrderKeeps ==
  ASSUME IInv, CompleteOrder
  PROVE  Rest'
<1> DEFINE g == "completion"
<1> USE DEF IInv
<1>1. /\ g \in Groups /\ HasMessage(g) /\ (HandlerOk(g) \/ HandlerFails(g))
      /\ UNCHANGED <<published, paidLog, shipLog, building, storage, told, stops>>
  BY DEF CompleteOrder, Groups, notifyVars
<1>2. Message(g) \in InLog(shipLog) /\ Message(g) \in OS!Charge
  BY <1>1, Messages DEF Log
<1>3. LogsTyped' /\ LogsAgree'
  BY <1>1 DEF LogsTyped, LogsAgree
<1>4. \A h \in Groups : Log(h)' = Log(h)
  BY <1>1 DEF Log
<1>5. \A h \in Groups : Len(Log(h)) <= Len(Log(h)')
  BY <1>4, Messages
<1>6. /\ GroupsPlaced' /\ skipped' \subseteq Groups \X Nat
      /\ group'["assembly"] = group["assembly"]
  BY <1>1, <1>3, <1>5, HandlerReturns DEF Groups
<1>7. RestTyped' /\ BuildHasMessage' /\ ToldIsLogged'
  BY <1>1, <1>4, <1>6 DEF RestTyped, BuildHasMessage, HasMessage, ToldIsLogged,
                          Groups, Notices
<1>8. CompletedIsShipped'
  <2>1. \/ rows' = rows
        \/ \E upd : rows' = [rows EXCEPT ![Message(g).order] = upd]
    BY DEF CompleteOrder, OS!Complete, OS!Update
  <2>2. \A o \in Orders : o # Message(g).order => rows'[o] = rows[o]
    BY <2>1 DEF OS!IInv, OS!TypeOK
  <2> QED BY <1>1, <1>2, <2>2 DEF CompletedIsShipped
<1> QED BY <1>3, <1>6, <1>7, <1>8 DEF Rest

\* The timer starts for a message that is there.
LEMMA BuildStartsKeeps ==
  ASSUME IInv, BuildStarts
  PROVE  Rest'
BY DEF IInv, BuildStarts, notifyVars, orderVars, Rest, LogsTyped, GroupsPlaced,
       RestTyped, LogsAgree, BuildHasMessage, HasMessage, ToldIsLogged,
       CompletedIsShipped, Log

\* The ship that is announced copies a message of order.paid.
LEMMA BuildEndsKeeps ==
  ASSUME IInv, BuildEnds
  PROVE  Rest'
<1> DEFINE g == "assembly"
<1> USE DEF IInv
<1>1. /\ g \in Groups /\ HasMessage(g) /\ (HandlerOk(g) \/ HandlerFails(g))
      /\ Len(shipLog) < MaxShips /\ building' = FALSE
      /\ UNCHANGED <<rows, published, paidLog, storage, told, stops>>
      /\ shipLog' = shipLog \/ shipLog' = Append(shipLog, Message(g))
  BY DEF BuildEnds, BuildHasMessage, RestTyped, Groups, notifyVars, orderVars
<1>2. Message(g) \in InLog(paidLog) /\ Message(g) \in OS!Charge
  BY <1>1, Messages DEF Log
<1>3. /\ shipLog' \in Seq(OS!Charge)
      /\ Len(shipLog') \in {Len(shipLog), Len(shipLog) + 1}
      /\ InLog(shipLog) \subseteq InLog(shipLog')
      /\ InLog(shipLog') \subseteq InLog(shipLog) \cup {Message(g)}
  BY <1>1, <1>2, Appended DEF LogsTyped
<1>4. Len(shipLog) \in Nat
  BY DEF LogsTyped
<1>5. LogsTyped'
  BY <1>1, <1>3, <1>4, BoundsAreNat DEF LogsTyped, OS!Charge
<1>6. LogsAgree'
  BY <1>1, <1>2, <1>3 DEF LogsAgree
<1>7. \A h \in Groups : Len(Log(h)) \in Nat /\ Len(Log(h)) <= Len(Log(h)')
  BY <1>1, <1>3, <1>4, Messages DEF Log
<1>8. GroupsPlaced' /\ skipped' \subseteq Groups \X Nat
  BY <1>1, <1>5, <1>7, HandlerReturns
<1>9. RestTyped' /\ BuildHasMessage'
  BY <1>1, <1>8 DEF RestTyped, BuildHasMessage
<1>10. ToldIsLogged'
  <2>1. ASSUME NEW h \in Notices, NEW c \in Chats, NEW i \in told[h][c]
        PROVE  i < Len(Log(h)')
    <3>1. h \in Groups /\ i \in Nat /\ i < Len(Log(h))
      BY <2>1 DEF Notices, Groups, RestTyped, ToldIsLogged
    <3>2. Len(Log(h)') \in Nat
      BY <1>5 DEF LogsTyped, Log
    <3> QED BY <1>7, <3>1, <3>2
  <2> QED BY <1>1, <2>1 DEF ToldIsLogged
<1>11. CompletedIsShipped'
  BY <1>1, <1>3 DEF CompletedIsShipped
<1> QED BY <1>5, <1>6, <1>8, <1>9, <1>10, <1>11 DEF Rest

\* The chats are told of the message in hand.
LEMMA NotifyKeeps ==
  ASSUME IInv, NEW g \in Notices, Notify(g)
  PROVE  Rest'
<1> USE DEF IInv
<1>1. /\ g \in Groups /\ g # "assembly" /\ HasMessage(g)
      /\ HandlerOk(g) \/ HandlerFails(g)
      /\ UNCHANGED <<rows, published, paidLog, shipLog, building, storage, stops>>
  BY DEF Notify, Notices, Groups, orderVars
<1>2. LogsTyped' /\ LogsAgree' /\ CompletedIsShipped'
  BY <1>1 DEF LogsTyped, LogsAgree, CompletedIsShipped
<1>3. \A h \in Groups : Log(h)' = Log(h)
  BY <1>1 DEF Log
<1>4. \A h \in Groups : Len(Log(h)) <= Len(Log(h)')
  BY <1>3, Messages
<1>5. /\ GroupsPlaced' /\ skipped' \subseteq Groups \X Nat
      /\ group'["assembly"] = group["assembly"]
  BY <1>1, <1>2, <1>4, HandlerReturns DEF Groups
<1>6. BuildHasMessage'
  BY <1>1, <1>3, <1>5 DEF BuildHasMessage, HasMessage, Groups
<1>7. group[g].next \in Nat /\ group[g].next < Len(Log(g))
  BY <1>1 DEF GroupsPlaced, Placed, Positions, HasMessage
<1>8. PICK S \in SUBSET storage :
        told' = [told EXCEPT ![g] =
          [c \in Chats |-> IF c \in S THEN told[g][c] \cup {group[g].next}
                                      ELSE told[g][c]]]
  BY DEF Notify
<1>9. told' \in [Notices -> [Chats -> SUBSET Nat]]
  BY <1>7, <1>8 DEF RestTyped
<1>10. \A h \in Notices, c \in Chats : \A i \in told'[h][c] :
         i \in told[h][c] \/ (h = g /\ i = group[g].next)
  BY <1>8 DEF RestTyped
<1>11. ToldIsLogged'
  BY <1>1, <1>3, <1>7, <1>10 DEF ToldIsLogged, Notices, Groups
<1>12. RestTyped'
  BY <1>1, <1>5, <1>9 DEF RestTyped
<1> QED BY <1>2, <1>5, <1>6, <1>11, <1>12 DEF Rest

\* A group that joins again starts on its topic; a build that waits is given
\* up with its session.
LEMMA RejoinKeeps ==
  ASSUME IInv, UNCHANGED <<rows, published, paidLog, shipLog, told, skipped>>,
         stops < MaxStops, stops' = stops + 1, storage' \subseteq Chats,
         group' \in [Groups -> Positions],
         \A g \in Groups : group'[g] = group[g] \/ group'[g] \in C!Resumed(group[g]),
         building' \in BOOLEAN,
         building' => building /\ group'["assembly"] = group["assembly"]
  PROVE  Rest'
<1> USE DEF IInv
<1>1. LogsTyped' /\ LogsAgree' /\ CompletedIsShipped'
  BY DEF LogsTyped, LogsAgree, CompletedIsShipped
<1>2. \A h \in Groups : Log(h)' = Log(h)
  BY DEF Log
<1>3. GroupsPlaced'
  BY <1>2, Messages, MovesArePlaced DEF GroupsPlaced
<1>4. RestTyped'
  BY BoundsAreNat DEF RestTyped
<1>5. BuildHasMessage' /\ ToldIsLogged'
  BY <1>2 DEF BuildHasMessage, HasMessage, ToldIsLogged, Groups, Notices
<1> QED BY <1>1, <1>3, <1>4, <1>5 DEF Rest

\* Where a group resumes is a position.
LEMMA ResumedIsPosition ==
  ASSUME GroupsPlaced, NEW g \in Groups, NEW at \in C!Resumed(group[g])
  PROVE  at \in Positions
BY DEF GroupsPlaced, Placed, Positions, C!Resumed, C!At

\* The invariant is inductive.
LEMMA NextInv == IInv /\ [Next]_vars => IInv'
<1> SUFFICES ASSUME IInv, [Next]_vars PROVE Rest'
  BY StepsOfOrder, OrderNext DEF IInv, Rest
<1>1. ASSUME NEW o \in Orders, Create(o) PROVE Rest'
  BY <1>1, CreateKeeps
<1>2. ASSUME NEW r \in Requests, Request(r) PROVE Rest'
  BY <1>2, RequestKeeps
<1>3. CASE CompleteOrder
  BY <1>3, CompleteOrderKeeps
<1>4. CASE BuildStarts
  BY <1>4, BuildStartsKeeps
<1>5. CASE BuildEnds
  BY <1>5, BuildEndsKeeps
<1>6. ASSUME NEW c \in Chats, Subscribe(c) PROVE Rest'
  BY <1>6 DEF IInv, Subscribe, orderVars, Rest, LogsTyped, GroupsPlaced,
              RestTyped, LogsAgree, BuildHasMessage, HasMessage, ToldIsLogged,
              CompletedIsShipped, Log
<1>7. ASSUME NEW g \in Notices, Notify(g) PROVE Rest'
  BY <1>7, NotifyKeeps
<1>8. ASSUME NEW g \in Groups, Rejoin(g) PROVE Rest'
  <2>1. PICK at \in C!Resumed(group[g]) : group' = [group EXCEPT ![g] = at]
    BY <1>8 DEF Rejoin
  <2>2. at \in Positions
    BY ResumedIsPosition DEF IInv
  <2>3. /\ group' \in [Groups -> Positions]
        /\ \A h \in Groups : group'[h] = group[h] \/ group'[h] \in C!Resumed(group[h])
        /\ g # "assembly" => group'["assembly"] = group["assembly"]
    BY <2>1, <2>2 DEF IInv, GroupsPlaced, Groups
  <2>4. /\ UNCHANGED <<rows, published, paidLog, shipLog, told, skipped, storage>>
        /\ stops < MaxStops /\ stops' = stops + 1
        /\ building' = (building /\ g # "assembly")
    BY <1>8 DEF Rejoin, Stop, orderVars, notifyVars
  <2>5. storage' \subseteq Chats /\ building' \in BOOLEAN
    BY <2>4 DEF IInv, RestTyped
  <2>6. building' => building /\ group'["assembly"] = group["assembly"]
    BY <2>3, <2>4
  <2> QED BY <2>3, <2>4, <2>5, <2>6, RejoinKeeps
<1>9. CASE NotifierRestarts
  <2>1. PICK p \in C!Resumed(group["paid_notice"]), s \in C!Resumed(group["ship_notice"]) :
          group' = [group EXCEPT !["paid_notice"] = p, !["ship_notice"] = s]
    BY <1>9 DEF NotifierRestarts
  <2>2. p \in Positions /\ s \in Positions
    BY ResumedIsPosition DEF IInv, Groups
  <2>3. /\ group' \in [Groups -> Positions]
        /\ \A h \in Groups : group'[h] = group[h] \/ group'[h] \in C!Resumed(group[h])
        /\ group'["assembly"] = group["assembly"]
    BY <2>1, <2>2 DEF IInv, GroupsPlaced, Groups
  <2>4. /\ UNCHANGED <<rows, published, paidLog, shipLog, told, skipped, building>>
        /\ stops < MaxStops /\ stops' = stops + 1 /\ storage' \subseteq Chats
    BY <1>9 DEF NotifierRestarts, Stop, orderVars
  <2> QED BY <2>3, <2>4, RejoinKeeps DEF IInv, RestTyped
<1>10. CASE OrderRestarts
  <2>1. PICK at \in C!Resumed(group["completion"]) :
          group' = [group EXCEPT !["completion"] = at]
    BY <1>10 DEF OrderRestarts
  <2>2. at \in Positions
    BY ResumedIsPosition DEF IInv, Groups
  <2>3. /\ group' \in [Groups -> Positions]
        /\ \A h \in Groups : group'[h] = group[h] \/ group'[h] \in C!Resumed(group[h])
        /\ group'["assembly"] = group["assembly"]
    BY <2>1, <2>2 DEF IInv, GroupsPlaced, Groups
  <2>4. /\ UNCHANGED <<rows, published, paidLog, shipLog, told, skipped, building,
                       storage>>
        /\ stops < MaxStops /\ stops' = stops + 1
    BY <1>10 DEF OrderRestarts, Stop, notifyVars, OS!Crash
  <2> QED BY <2>3, <2>4, RejoinKeeps DEF IInv, RestTyped
<1>11. CASE UNCHANGED vars
  BY <1>11 DEF IInv, vars, orderVars, notifyVars, Rest, LogsTyped, GroupsPlaced,
               RestTyped, LogsAgree, BuildHasMessage, HasMessage, ToldIsLogged,
               CompletedIsShipped, Log
<1> QED BY <1>1, <1>2, <1>3, <1>4, <1>5, <1>6, <1>7, <1>8, <1>9, <1>10, <1>11
        DEF Next

\* The invariant holds at the start.
LEMMA InitInv == Init => IInv
<1> SUFFICES ASSUME Init PROVE Rest
  BY OrderInit DEF Init, IInv, Rest
<1>1. LogsTyped /\ LogsAgree /\ BuildHasMessage
  BY BoundsAreNat DEF Init, LogsTyped, LogsAgree, InLog, BuildHasMessage
<1>2. GroupsPlaced
  BY DEF Init, GroupsPlaced, Placed, Positions, C!At, Log
<1>3. RestTyped
  <2>1. told \in [Notices -> [Chats -> SUBSET Nat]]
    BY DEF Init
  <2>2. building \in BOOLEAN /\ storage \subseteq Chats /\ skipped \subseteq Groups \X Nat
    BY DEF Init
  <2>3. stops \in 0 .. MaxStops
    BY BoundsAreNat DEF Init
  <2> QED BY <2>1, <2>2, <2>3 DEF RestTyped
<1>4. ToldIsLogged
  BY DEF Init, ToldIsLogged
<1>5. CompletedIsShipped
  BY DEF Init, OS!Init, OS!NoRow, CompletedIsShipped
<1> QED BY <1>1, <1>2, <1>3, <1>4, <1>5 DEF Rest

-----------------------------------------------------------------------------
(* The theorems. *)

\* The inductive invariant holds in every reachable state.
THEOREM Invariance == Spec => []IInv
BY InitInv, NextInv, PTL DEF Spec

\* Every variable keeps its domain, and no group leaves its topic.
THEOREM TypeInvariance == Spec => []TypeOK
<1>1. IInv => TypeOK
  BY PartsOfType DEF IInv
<1> QED BY <1>1, Invariance, PTL

\* The whole system is an order service. The handler of order.assembled would
\* complete any order it is told of; that every such order was announced before,
\* which OrderService takes for granted, is a fact about the two topics and the
\* positions of their readers (shipAssembledHandler, paidOrderHandler, Pay).
THEOREM ImplementsOrderService == Spec => RefinesOrderService
<1>1. Init => OS!Init
  BY DEF Init
<1> QED BY <1>1, StepsOfOrder, Invariance, PTL
        DEF Spec, RefinesOrderService, OS!Spec

\* A COMPLETED order was announced on both topics by one event, and charged.
THEOREM NoShipWithoutPayment == Spec => []CompletedWasBuilt
<1>1. IInv => CompletedWasBuilt
  BY DEF IInv, CompletedIsShipped, LogsAgree, OS!IInv,
         OS!PublishedIsPersisted, CompletedWasBuilt
<1> QED BY <1>1, Invariance, PTL

\* No chat is told of a payment that is not in the table, or of a ship whose
\* payment was not announced.
THEOREM NoticesTellTheTruth == Spec => []NoticesAreTrue
<1>1. ASSUME IInv PROVE NoticesAreTrue
  <2> USE <1>1 DEF IInv
  <2>1. ASSUME NEW c \in Chats, NEW i \in told["paid_notice"][c]
        PROVE  rows[paidLog[i + 1].order].tx # None
    <3>1. i \in Nat /\ i < Len(paidLog)
      BY <2>1 DEF ToldIsLogged, Log, Notices, RestTyped
    <3>2. i + 1 \in DOMAIN paidLog
      BY <3>1 DEF LogsTyped
    <3>3. paidLog[i + 1] \in published
      BY <3>2 DEF LogsAgree, InLog
    <3> QED BY <3>3 DEF OS!IInv, OS!PublishedIsPersisted
  <2>2. ASSUME NEW c \in Chats, NEW i \in told["ship_notice"][c]
        PROVE  shipLog[i + 1] \in InLog(paidLog)
    <3>1. i \in Nat /\ i < Len(shipLog)
      BY <2>2 DEF ToldIsLogged, Log, Notices, RestTyped
    <3>2. i + 1 \in DOMAIN shipLog
      BY <3>1 DEF LogsTyped
    <3> QED BY <3>2 DEF LogsAgree, InLog
  <2> QED BY <2>1, <2>2 DEF NoticesAreTrue
<1> QED BY <1>1, Invariance, PTL

-----------------------------------------------------------------------------
(* What the order service guarantees alone, the whole system does. *)

\* The behaviours of the system are behaviours of the order service, as the
\* proofs about it name it.
LEMMA SystemIsService == Spec => P!Spec
<1>1. Init => P!Init
  BY SameInit DEF Init
<1>2. IInv /\ [Next]_vars => [P!Next]_(P!vars)
  BY StepsOfOrder, SameNext DEF OS!vars, P!vars
<1> QED BY <1>1, <1>2, Invariance, PTL DEF Spec, P!Spec

\* With racing callers, redelivered messages and restarts of every service: no
\* payment data is ever erased (the consumer writes NULL fields, which Update
\* leaves out), what is shown as paid was charged, who was answered 200 is
\* announced, no payment stays unannounced behind everybody's back and no charge
\* is taken behind its caller's (CompleteOrder, repository.Update, Pay).
THEOREM SystemKeepsPayments ==
  Spec => /\ P!PaymentDataKept
          /\ []P!PaidIsCharged /\ []P!OkMeansAnnounced /\ []P!SilenceIsKnown
          /\ []P!ChargesAreOwned
BY SystemIsService, P!PaymentDataIsKept, P!PaidOrdersAreCharged, P!SuccessIsAnnounced,
   P!SilenceIsNoticed, P!NoChargeIsSilent, NoneIsFresh, SerializedIsBool, PTL

\* When callers take turns, the five services take every order through the
\* abstract life cycle, a payment shown is never replaced, and nobody is charged
\* twice behind his back (Pay, Cancel, CompleteOrder).
THEOREM SystemImplementsLifecycle ==
  Serialized => (Spec => P!RefinesLifecycle /\ P!PaymentIsFinal /\ []P!ChargedOnce)
<1> SUFFICES ASSUME Serialized
             PROVE  Spec => P!RefinesLifecycle /\ P!PaymentIsFinal /\ []P!ChargedOnce
  OBVIOUS
<1>1. /\ P!Spec => P!RefinesLifecycle
      /\ P!Spec => P!PaymentIsFinal
      /\ P!Spec => []P!ChargedOnce
  BY P!ImplementsLifecycle, P!PaymentsAreFinal, P!NobodyIsChargedTwice, NoneIsFresh,
     SerializedIsBool
<1> QED BY <1>1, SystemIsService, PTL

-----------------------------------------------------------------------------
(* Nothing is dropped silently. *)

\* What the assembly service has passed was built, or its handler returned an
\* error.
AssemblyDone ==
  \A i \in Nat : i < group["assembly"].next =>
    <<"assembly", i>> \in skipped \/ paidLog[i + 1] \in InLog(shipLog)

\* What the order service has read of order.assembled is a completed order, or
\* its handler returned an error.
CompletionDone ==
  \A i \in Nat : i < group["completion"].next =>
    <<"completion", i>> \in skipped \/ rows[shipLog[i + 1].order].status = "COMPLETED"

\* Order.paid holds the events that were announced.
PublishedIsLogged == published \subseteq InLog(paidLog)

\* When callers take turns, the three hold on top of the invariants of the
\* system and of the order service.
TurnsInv == P!TurnsInv /\ AssemblyDone /\ CompletionDone /\ PublishedIsLogged

\* Messages stay where they are and what is known of them stays known.
LEMMA LogsGrow ==
  ASSUME IInv, [Next]_vars
  PROVE  /\ skipped \subseteq skipped'
         /\ InLog(paidLog) \subseteq InLog(paidLog')
         /\ InLog(shipLog) \subseteq InLog(shipLog')
         /\ \A i \in 1 .. Len(paidLog) : paidLog'[i] = paidLog[i]
         /\ \A i \in 1 .. Len(shipLog) : shipLog'[i] = shipLog[i]
<1>1. skipped \subseteq skipped'
  BY DEF Next, Create, Request, CompleteOrder, BuildStarts, BuildEnds, Subscribe, Notify,
         Rejoin, NotifierRestarts, OrderRestarts, HandlerOk, HandlerFails, vars
<1>2. paidLog' = paidLog \/ \E e \in OS!Charge : paidLog' = Append(paidLog, e)
  <2>1. ASSUME NEW r \in Requests, Request(r), paidLog' # paidLog
        PROVE  OS!ChargeOf(r) \in OS!Charge /\ paidLog' = Append(paidLog, OS!ChargeOf(r))
    BY <2>1, RequestEffect DEF Request, IInv
  <2> QED BY <2>1 DEF Next, Create, CompleteOrder, BuildStarts, BuildEnds, Subscribe,
               Notify, Rejoin, NotifierRestarts, OrderRestarts, vars
<1>3. shipLog' = shipLog \/ \E e \in OS!Charge : shipLog' = Append(shipLog, e)
  <2>1. ASSUME BuildEnds, shipLog' # shipLog
        PROVE  Message("assembly") \in OS!Charge /\ shipLog' = Append(shipLog, Message("assembly"))
    <3>1. Message("assembly") \in OS!Charge
      BY <2>1, Messages DEF BuildEnds, IInv, BuildHasMessage, Groups
    <3> QED BY <2>1, <3>1 DEF BuildEnds
  <2> QED BY <2>1 DEF Next, Create, Request, CompleteOrder, BuildStarts, Subscribe,
               Notify, Rejoin, NotifierRestarts, OrderRestarts, vars
<1>4. ASSUME NEW log \in Seq(OS!Charge), NEW log2,
             log2 = log \/ \E e \in OS!Charge : log2 = Append(log, e)
      PROVE  /\ InLog(log) \subseteq InLog(log2)
             /\ \A i \in 1 .. Len(log) : log2[i] = log[i]
  <2>1. CASE log2 = log
    BY <2>1
  <2>2. ASSUME NEW e \in OS!Charge, log2 = Append(log, e)
        PROVE  /\ InLog(log) \subseteq InLog(log2)
               /\ \A i \in 1 .. Len(log) : log2[i] = log[i]
    BY <2>2, Appended, AppendProperties
  <2> QED BY <1>4, <2>1, <2>2
<1> QED BY <1>1, <1>2, <1>3, <1>4 DEF IInv, LogsTyped

\* A group that resumes goes back.
LEMMA ResumedIsBehind ==
  ASSUME GroupsPlaced, NEW g \in Groups, NEW at \in C!Resumed(group[g])
  PROVE  at.next <= group[g].next
<1>1. PICK k \in group[g].kept .. group[g].mark : at = [next |-> k, mark |-> k, kept |-> k]
  BY DEF C!Resumed, C!At
<1> QED BY <1>1 DEF GroupsPlaced, Placed, Positions

\* A handler that returns moves its group by one message, which it has handled
\* or skipped.
LEMMA HandlerMoves ==
  ASSUME GroupsPlaced, NEW g \in Groups, HandlerOk(g) \/ HandlerFails(g),
         NEW i \in Nat, i < group'[g].next
  PROVE  \/ i < group[g].next
         \/ i = group[g].next /\ (HandlerFails(g) => <<g, i>> \in skipped')
<1>1. group[g] \in Positions /\ group[g].next \in Nat
  BY DEF GroupsPlaced, Placed, Positions
<1>2. group'[g] = C!Succeeded(group[g]) \/ group'[g] = C!PassedOver(group[g])
  BY DEF HandlerOk, HandlerFails, GroupsPlaced
<1>3. C!Succeeded(group[g]).next = group[g].next + 1
  BY <1>1, SucceededPosition
<1>4. C!PassedOver(group[g]).next = group[g].next + 1
  BY <1>1 DEF C!PassedOver, Positions
<1>5. i < group[g].next \/ i = group[g].next
  BY <1>1, <1>2, <1>3, <1>4
<1> QED BY <1>5 DEF HandlerFails

\* The assembly service passes one message at a time: it announces the ship or
\* returns an error.
LEMMA AssemblyMoves ==
  ASSUME IInv, [Next]_vars, NEW i \in Nat, i < group'["assembly"].next
  PROVE  \/ i < group["assembly"].next
         \/ <<"assembly", i>> \in skipped'
         \/ paidLog[i + 1] \in InLog(shipLog')
<1> USE DEF IInv
<1> DEFINE g == "assembly"
<1>0. g \in Groups /\ group \in [Groups -> Positions]
  BY DEF Groups, GroupsPlaced
<1>1. CASE BuildEnds
  <2>1. HandlerOk(g) \/ HandlerFails(g)
    BY <1>1 DEF BuildEnds
  <2>2. \/ i < group[g].next
        \/ i = group[g].next /\ (HandlerFails(g) => <<g, i>> \in skipped')
    BY <1>0, <2>1, HandlerMoves
  <2>3. ASSUME ~HandlerFails(g), i = group[g].next
        PROVE  paidLog[i + 1] \in InLog(shipLog')
    <3>1. Message(g) = paidLog[i + 1] /\ shipLog' = Append(shipLog, Message(g))
      BY <1>1, <2>3 DEF BuildEnds, Message, Log
    <3>2. Message(g) \in OS!Charge
      BY <1>0, <1>1, Messages DEF BuildEnds, BuildHasMessage
    <3> QED BY <3>1, <3>2, Appended DEF LogsTyped
  <2> QED BY <2>2, <2>3
<1>2. ASSUME NEW h \in Groups, Rejoin(h) PROVE i < group[g].next
  <2>1. PICK at \in C!Resumed(group[h]) : group' = [group EXCEPT ![h] = at]
    BY <1>2 DEF Rejoin
  <2>2. group'[g] = group[g] \/ group'[g] \in C!Resumed(group[g])
    BY <1>0, <2>1
  <2>3. group'[g].next <= group[g].next /\ group[g].next \in Nat /\ group'[g].next \in Nat
    BY <1>0, <2>2, ResumedIsBehind, ResumedIsPosition DEF Positions
  <2> QED BY <2>3
<1>3. CASE group'[g] = group[g]
  BY <1>3
<1>4. ASSUME NEW h \in Groups, h # g, HandlerOk(h) \/ HandlerFails(h)
      PROVE  group'[g] = group[g]
  BY <1>0, <1>4 DEF HandlerOk, HandlerFails
<1>5. ASSUME CompleteOrder \/ \E h \in Notices : Notify(h) PROVE group'[g] = group[g]
  BY <1>4, <1>5 DEF CompleteOrder, Notify, Notices, Groups
<1>6. CASE NotifierRestarts \/ OrderRestarts
  BY <1>0, <1>3, <1>6 DEF NotifierRestarts, OrderRestarts
<1>7. CASE UNCHANGED group
  BY <1>3, <1>7
<1>8. CASE \/ \E o \in Orders : Create(o)
           \/ \E r \in Requests : Request(r)
           \/ BuildStarts \/ \E c \in Chats : Subscribe(c)
           \/ UNCHANGED vars
  BY <1>7, <1>8 DEF Create, Request, BuildStarts, Subscribe, vars
<1> QED BY <1>1, <1>2, <1>3, <1>5, <1>6, <1>8 DEF Next

\* And so does the order service: it completes the order or returns an error.
LEMMA CompletionMoves ==
  ASSUME IInv, [Next]_vars, NEW i \in Nat, i < group'["completion"].next
  PROVE  \/ i < group["completion"].next
         \/ <<"completion", i>> \in skipped'
         \/ rows'[shipLog[i + 1].order].status = "COMPLETED"
<1> USE DEF IInv
<1> DEFINE g == "completion"
<1>0. g \in Groups /\ group \in [Groups -> Positions]
  BY DEF Groups, GroupsPlaced
<1>1. CASE CompleteOrder
  <2>1. HasMessage(g) /\ (HandlerOk(g) \/ HandlerFails(g))
    BY <1>1 DEF CompleteOrder
  <2>2. \/ i < group[g].next
        \/ i = group[g].next /\ (HandlerFails(g) => <<g, i>> \in skipped')
    BY <1>0, <2>1, HandlerMoves
  <2>3. ASSUME ~HandlerFails(g), i = group[g].next
        PROVE  rows'[shipLog[i + 1].order].status = "COMPLETED"
    <3>1. Message(g) = shipLog[i + 1] /\ OS!Complete(Message(g).order)
      BY <1>1, <2>3 DEF CompleteOrder, Message, Log
    <3>2. Message(g).order \in Orders
      BY <1>0, <2>1, Messages DEF OS!Charge
    <3>3. rows' = [rows EXCEPT ![Message(g).order] =
                     OS!UpdatedRow(rows[Message(g).order],
                       [status |-> "COMPLETED", tx |-> None, method |-> None])]
      BY <3>1 DEF OS!Complete, OS!Update
    <3>4. rows'[Message(g).order].status = "COMPLETED"
      BY <3>2, <3>3 DEF OS!UpdatedRow, OS!IInv, OS!TypeOK
    <3> QED BY <3>1, <3>4
  <2> QED BY <2>2, <2>3
<1>2. ASSUME NEW h \in Groups, Rejoin(h) PROVE i < group[g].next
  <2>1. PICK at \in C!Resumed(group[h]) : group' = [group EXCEPT ![h] = at]
    BY <1>2 DEF Rejoin
  <2>2. group'[g] = group[g] \/ group'[g] \in C!Resumed(group[g])
    BY <1>0, <2>1
  <2>3. group'[g].next <= group[g].next /\ group[g].next \in Nat /\ group'[g].next \in Nat
    BY <1>0, <2>2, ResumedIsBehind, ResumedIsPosition DEF Positions
  <2> QED BY <2>3
<1>3. CASE OrderRestarts
  <2>1. PICK at \in C!Resumed(group[g]) : group' = [group EXCEPT ![g] = at]
    BY <1>3 DEF OrderRestarts
  <2>2. group'[g].next <= group[g].next /\ group[g].next \in Nat /\ group'[g].next \in Nat
    BY <1>0, <2>1, ResumedIsBehind, ResumedIsPosition DEF Positions
  <2> QED BY <2>2
<1>4. ASSUME NEW h \in Groups, h # g, HandlerOk(h) \/ HandlerFails(h)
      PROVE  group'[g] = group[g]
  BY <1>0, <1>4 DEF HandlerOk, HandlerFails
<1>5. CASE BuildEnds \/ \E h \in Notices : Notify(h)
  BY <1>4, <1>5 DEF BuildEnds, Notify, Notices, Groups
<1>6. CASE NotifierRestarts
  BY <1>0, <1>6 DEF NotifierRestarts
<1>7. CASE \/ \E o \in Orders : Create(o)
           \/ \E r \in Requests : Request(r)
           \/ BuildStarts \/ \E c \in Chats : Subscribe(c)
           \/ UNCHANGED vars
  BY <1>7 DEF Create, Request, BuildStarts, Subscribe, vars
<1> QED BY <1>1, <1>2, <1>3, <1>5, <1>6, <1>7 DEF Next

\* Every announcement is on the topic.
LEMMA PublishedStaysLogged ==
  ASSUME IInv, PublishedIsLogged, [Next]_vars
  PROVE  PublishedIsLogged'
<1> USE DEF IInv
<1>1. InLog(paidLog) \subseteq InLog(paidLog')
  BY LogsGrow
<1>2. ASSUME NEW r \in Requests, Request(r), published' # published
      PROVE  PublishedIsLogged'
  <2>1. /\ published' = published \cup {OS!ChargeOf(r)} /\ OS!ChargeOf(r) \in OS!Charge
        /\ paidLog' = Append(paidLog, OS!ChargeOf(r))
    BY <1>2, RequestEffect DEF Request
  <2>2. InLog(paidLog') = InLog(paidLog) \cup {OS!ChargeOf(r)}
    BY <2>1, Appended DEF LogsTyped
  <2> QED BY <2>1, <2>2 DEF PublishedIsLogged
<1>3. CASE published' = published
  BY <1>1, <1>3 DEF PublishedIsLogged
<1>4. CASE \/ \E o \in Orders : Create(o)
           \/ CompleteOrder \/ BuildStarts \/ BuildEnds
           \/ \E c \in Chats : Subscribe(c)
           \/ \E g \in Notices : Notify(g)
           \/ \E g \in Groups : Rejoin(g)
           \/ NotifierRestarts \/ OrderRestarts \/ UNCHANGED vars
  <2>1. published' = published
    BY <1>4 DEF Create, OS!Create, CompleteOrder, BuildStarts,
                BuildEnds, Subscribe, Notify, Rejoin, NotifierRestarts, OrderRestarts,
                OS!Crash, orderVars, vars
  <2> QED BY <1>3, <2>1
<1> QED BY <1>2, <1>3, <1>4 DEF Next

\* Every step keeps what the positions have seen.
LEMMA NextTurns == Serialized /\ IInv /\ TurnsInv /\ [Next]_vars => TurnsInv'
<1> SUFFICES ASSUME Serialized, IInv, TurnsInv, [Next]_vars PROVE TurnsInv'
  OBVIOUS
<1> USE DEF IInv, TurnsInv
<1>1. P!IInv /\ [P!Next]_(P!vars)
  BY StepsOfOrder, SameNext, SameIInv DEF OS!vars, P!vars
<1>2. P!TurnsInv'
  BY <1>1, P!NextTurns, NoneIsFresh, SerializedIsBool
<1>3. \A g \in {"assembly", "completion"} :
        /\ group[g].next \in Nat /\ group[g].next <= Len(Log(g)) /\ Len(Log(g)) \in Nat
  BY Messages DEF GroupsPlaced, Placed, Positions, Groups
<1>4. AssemblyDone'
  <2>1. ASSUME NEW i \in Nat, i < group'["assembly"].next
        PROVE  <<"assembly", i>> \in skipped' \/ paidLog'[i + 1] \in InLog(shipLog')
    <3>1. CASE i < group["assembly"].next
      <4>1. i + 1 \in 1 .. Len(paidLog)
        BY <1>3, <3>1 DEF Log
      <4> QED BY <3>1, <4>1, LogsGrow DEF AssemblyDone
    <3>2. CASE ~(i < group["assembly"].next) /\ <<"assembly", i>> \notin skipped'
      <4>1. paidLog[i + 1] \in InLog(shipLog')
        BY <2>1, <3>2, AssemblyMoves
      <4>2. GroupsPlaced' /\ LogsTyped'
        BY NextInv
      <4>3. i + 1 \in 1 .. Len(paidLog')
        <5>1. Log("assembly")' = paidLog' /\ Len(paidLog') \in Nat
          BY <4>2 DEF Log, LogsTyped
        <5>2. /\ group'["assembly"].next \in Nat
              /\ group'["assembly"].next <= Len(paidLog')
          BY <4>2, <5>1 DEF GroupsPlaced, Placed, Positions, Groups
        <5> QED BY <2>1, <5>1, <5>2
      <4>4. i + 1 \in 1 .. Len(paidLog)
        <5>1. CASE paidLog' = paidLog
          BY <4>3, <5>1
        <5>2. CASE paidLog' # paidLog
          <6>1. PICK r \in Requests : Request(r)
            BY <5>2 DEF Next, Create, CompleteOrder, BuildStarts, BuildEnds, Subscribe,
                        Notify, Rejoin, NotifierRestarts, OrderRestarts, vars
          <6> QED BY <2>1, <3>2, <6>1 DEF Request
        <5> QED BY <5>1, <5>2
      <4> QED BY <4>1, <4>4, LogsGrow
    <3> QED BY <3>1, <3>2
  <2> QED BY <2>1 DEF AssemblyDone
<1>5. CompletionDone'
  <2>1. ASSUME NEW i \in Nat, i < group'["completion"].next
        PROVE  \/ <<"completion", i>> \in skipped'
               \/ rows'[shipLog'[i + 1].order].status = "COMPLETED"
    <3>1. CASE i < group["completion"].next
      <4>1. i + 1 \in 1 .. Len(shipLog) /\ shipLog \in Seq(OS!Charge)
        BY <1>3, <3>1 DEF Log, LogsTyped
      <4>2. shipLog'[i + 1] = shipLog[i + 1] /\ skipped \subseteq skipped'
        BY <4>1, LogsGrow
      <4>3. PICK o \in Orders : o = shipLog[i + 1].order
        <5>1. shipLog[i + 1] \in OS!Charge
          BY <4>1
        <5> QED BY <5>1 DEF OS!Charge
      <4>4. rows[o].status = "COMPLETED" => rows'[o].status = "COMPLETED"
        BY <1>1, P!StepsMeet, NoneIsFresh, SerializedIsBool DEF P!Met
      <4> QED BY <3>1, <4>2, <4>3, <4>4 DEF CompletionDone
    <3>2. CASE ~(i < group["completion"].next) /\ <<"completion", i>> \notin skipped'
      <4>1. rows'[shipLog[i + 1].order].status = "COMPLETED"
        BY <2>1, <3>2, CompletionMoves
      <4>2. CASE shipLog' = shipLog
        BY <4>1, <4>2
      <4>3. CASE shipLog' # shipLog
        <5>1. BuildEnds
          BY <4>3 DEF Next, Create, Request, CompleteOrder, BuildStarts, Subscribe,
                      Notify, Rejoin, NotifierRestarts, OrderRestarts, vars
        <5>2. HandlerOk("assembly") \/ HandlerFails("assembly")
          BY <5>1 DEF BuildEnds
        <5>3. group'["completion"] = group["completion"]
          BY <5>2 DEF HandlerOk, HandlerFails, GroupsPlaced, Groups
        <5> QED BY <2>1, <3>2, <5>3
      <4> QED BY <4>2, <4>3
    <3> QED BY <3>1, <3>2
  <2> QED BY <2>1 DEF CompletionDone
<1> QED BY <1>2, <1>4, <1>5, PublishedStaysLogged

\* At the start there is nothing to see.
LEMMA InitTurns == Init => TurnsInv
<1> SUFFICES ASSUME Init PROVE TurnsInv
  OBVIOUS
<1>1. P!TurnsInv
  BY SameInit, P!InitTurns, NoneIsFresh, SerializedIsBool DEF Init
<1>2. group["assembly"].next = 0 /\ group["completion"].next = 0
  BY DEF Init, Groups, C!At
<1>3. AssemblyDone /\ CompletionDone
  BY <1>2 DEF AssemblyDone, CompletionDone
<1>4. PublishedIsLogged
  BY DEF Init, OS!Init, PublishedIsLogged
<1> QED BY <1>1, <1>3, <1>4 DEF TurnsInv

\* Both invariants hold in every reachable state.
THEOREM TurnsInvariance == Serialized => (Spec => [](IInv /\ TurnsInv))
<1> SUFFICES ASSUME Serialized PROVE Spec => [](IInv /\ TurnsInv)
  OBVIOUS
<1>1. Init => IInv /\ TurnsInv
  BY InitInv, InitTurns
<1>2. IInv /\ TurnsInv /\ [Next]_vars => (IInv /\ TurnsInv)'
  BY NextInv, NextTurns
<1> QED BY <1>1, <1>2, PTL DEF Spec

\* When the two consumers have read their topics to the end, every announced
\* order is completed, or one of their handlers returned an error: the safety
\* half of AnnouncedIsFulfilled, which adds that they do read to the end.
CaughtUpIsFulfilled ==
  ~HasMessage("assembly") /\ ~HasMessage("completion") =>
    \A e \in published :
      \/ rows[e.order].status = "COMPLETED"
      \/ \E x \in skipped : x[1] \in {"assembly", "completion"}

\* No announced payment is lost between the services, through rebalances,
\* restarts and redelivery, but by a handler that returned an error
\* (paidOrderHandler, shipAssembledHandler, ConsumeClaim).
THEOREM NothingIsDropped == Serialized => (Spec => []CaughtUpIsFulfilled)
<1> SUFFICES ASSUME Serialized PROVE Spec => []CaughtUpIsFulfilled
  OBVIOUS
<1>1. ASSUME IInv, TurnsInv, ~HasMessage("assembly"), ~HasMessage("completion"),
             NEW e \in published, ~\E x \in skipped : x[1] \in {"assembly", "completion"}
      PROVE  rows[e.order].status = "COMPLETED"
  <2> USE <1>1 DEF IInv, TurnsInv
  <2>1. /\ group["assembly"].next = Len(paidLog) /\ Len(paidLog) \in Nat
        /\ group["completion"].next = Len(shipLog) /\ Len(shipLog) \in Nat
    BY DEF GroupsPlaced, Placed, Positions, HasMessage, Groups, Log, LogsTyped
  <2>2. PICK j \in 1 .. Len(paidLog) : e = paidLog[j]
    BY DEF PublishedIsLogged, InLog, LogsTyped
  <2>3. j - 1 \in Nat /\ j - 1 < group["assembly"].next /\ (j - 1) + 1 = j
    BY <2>1, <2>2
  <2>4. e \in InLog(shipLog)
    BY <2>2, <2>3 DEF AssemblyDone
  <2>5. PICK k \in 1 .. Len(shipLog) : e = shipLog[k]
    BY <2>4 DEF InLog, LogsTyped
  <2>6. k - 1 \in Nat /\ k - 1 < group["completion"].next /\ (k - 1) + 1 = k
    BY <2>1, <2>5
  <2> QED BY <2>5, <2>6 DEF CompletionDone
<1>2. IInv /\ TurnsInv => CaughtUpIsFulfilled
  BY <1>1 DEF CaughtUpIsFulfilled
<1> QED BY <1>2, TurnsInvariance, PTL

\* Both topics agree with the table: an announcement, of the payment or of the
\* ship, names the payment that the order shows, and the order is not cancelled.
TopicsMatchRows ==
  \A e \in InLog(paidLog) \cup InLog(shipLog) :
    /\ rows[e.order].tx = e.tx /\ rows[e.order].method = e.method
    /\ rows[e.order].status \in {"PAID", "COMPLETED"}

\* When callers take turns, no service and no chat ever sees two payments for
\* one order, whatever is delivered again (SendOrderPaid, SendShipAssembled).
THEOREM TopicsAgree == Serialized => (Spec => []TopicsMatchRows)
<1> SUFFICES ASSUME Serialized PROVE Spec => []TopicsMatchRows
  OBVIOUS
<1>1. ASSUME IInv, TurnsInv, NEW e \in InLog(paidLog) \cup InLog(shipLog)
      PROVE  /\ rows[e.order].tx = e.tx /\ rows[e.order].method = e.method
             /\ rows[e.order].status \in {"PAID", "COMPLETED"}
  <2>1. e \in published
    BY <1>1 DEF IInv, LogsAgree
  <2>2. P!IInv /\ P!TurnsInv
    BY <1>1, SameIInv DEF IInv, TurnsInv
  <2>3. rows[e.order].status \in {"PAID", "COMPLETED"}
    BY <2>1, <2>2, P!AnnouncedIsPaid, NoneIsFresh, SerializedIsBool
  <2> QED BY <2>1, <2>2, <2>3 DEF P!TurnsInv, P!EventMatchesRow
<1>2. IInv /\ TurnsInv => TopicsMatchRows
  BY <1>1 DEF TopicsMatchRows
<1> QED BY <1>2, TurnsInvariance, PTL

\* When callers take turns, the two answers of success stay true in the system,
\* whatever is delivered again and whichever service restarts: an order answered
\* 200 shows the payment of that request, one answered 204 is CANCELLED and
\* unpaid (Pay, Cancel, CompleteOrder).
THEOREM SystemKeepsAnswers ==
  Serialized => (Spec => []P!SuccessIsShown /\ []P!CancelIsKept)
<1> SUFFICES ASSUME Serialized PROVE Spec => []P!SuccessIsShown /\ []P!CancelIsKept
  OBVIOUS
<1>1. /\ P!Spec => []P!SuccessIsShown
      /\ P!Spec => []P!CancelIsKept
  BY P!SuccessesAreShown, P!CancelsAreKept, NoneIsFresh, SerializedIsBool
<1> QED BY <1>1, SystemIsService, PTL

\* A buyer who was answered 200 has his ship once the consumers have caught up,
\* or a handler of theirs returned an error.
SuccessIsFulfilled ==
  ~HasMessage("assembly") /\ ~HasMessage("completion") =>
    \A r \in Requests : reply[r] = 200 =>
      \/ /\ rows[params[r].id].status = "COMPLETED"
         /\ rows[params[r].id].tx = r /\ rows[params[r].id].method = params[r].method
      \/ \E x \in skipped : x[1] \in {"assembly", "completion"}

\* From the HTTP answer to the end of the chain: when callers take turns, the
\* order of a successful Pay is completed under that very payment (Pay,
\* paidOrderHandler, shipAssembledHandler, Complete).
THEOREM SuccessesAreFulfilled == Serialized => (Spec => []SuccessIsFulfilled)
<1> SUFFICES ASSUME Serialized PROVE Spec => []SuccessIsFulfilled
  OBVIOUS
<1>1. ASSUME P!IInv, CaughtUpIsFulfilled, P!SuccessIsShown,
             ~HasMessage("assembly"), ~HasMessage("completion"),
             NEW r \in Requests, reply[r] = 200,
             ~\E x \in skipped : x[1] \in {"assembly", "completion"}
      PROVE  /\ rows[params[r].id].status = "COMPLETED"
             /\ rows[params[r].id].tx = r /\ rows[params[r].id].method = params[r].method
  <2>1. P!ChargeOf(r) \in published /\ P!ChargeOf(r).order = params[r].id
    BY <1>1 DEF P!IInv, P!OkMeansAnnounced, P!ChargeOf
  <2>2. rows[params[r].id].status = "COMPLETED"
    BY <1>1, <2>1 DEF CaughtUpIsFulfilled
  <2> QED BY <1>1, <2>2 DEF P!SuccessIsShown
<1>2. P!IInv /\ CaughtUpIsFulfilled /\ P!SuccessIsShown => SuccessIsFulfilled
  BY <1>1 DEF SuccessIsFulfilled
<1>3. IInv => P!IInv
  BY SameIInv DEF IInv
<1> QED BY <1>2, <1>3, Invariance, NothingIsDropped, SystemKeepsAnswers, PTL

\* An order whose cancellation was answered 204 is on no topic.
CancelledIsOnNoTopic ==
  \A r \in Requests : reply[r] = 204 =>
    \A e \in InLog(paidLog) \cup InLog(shipLog) : e.order # params[r].id

\* When callers take turns, nobody builds a ship for a cancelled order and no
\* chat hears of one (Cancel, SendOrderPaid, SendShipAssembled).
THEOREM CancelledIsNotBuilt == Serialized => (Spec => []CancelledIsOnNoTopic)
<1> SUFFICES ASSUME Serialized PROVE Spec => []CancelledIsOnNoTopic
  OBVIOUS
<1>1. TopicsMatchRows /\ P!CancelIsKept => CancelledIsOnNoTopic
  BY DEF TopicsMatchRows, P!CancelIsKept, CancelledIsOnNoTopic
<1> QED BY <1>1, TopicsAgree, SystemKeepsAnswers, PTL

-----------------------------------------------------------------------------
(* The chats. *)

\* What a chat was told it was told, and the notification service passes a
\* message only when every chat it knows was told of it, or with an error.
Informed(g, c) ==
  /\ told[g][c] \subseteq told'[g][c]
  /\ \A i \in Nat :
       c \in storage /\ group[g].next <= i /\ i < group'[g].next =>
         i \in told'[g][c] \/ <<g, i>> \in skipped'

NoChatIsPassedOver == [][\A g \in Notices, c \in Chats : Informed(g, c)]_vars

\* A group that rests or goes back passes nothing.
LEMMA BehindIsInformed ==
  ASSUME IInv, told' = told, NEW g \in Notices, NEW c \in Chats,
         group'[g] = group[g] \/ group'[g] \in C!Resumed(group[g])
  PROVE  Informed(g, c)
<1>1. g \in Groups
  BY DEF Notices, Groups
<1>2. group[g].next \in Nat /\ group'[g].next \in Nat
      /\ group'[g].next <= group[g].next
  BY <1>1, ResumedIsBehind, ResumedIsPosition
     DEF IInv, GroupsPlaced, Placed, Positions
<1>3. \A i \in Nat : ~(group[g].next <= i /\ i < group'[g].next)
  BY <1>2
<1> QED BY <1>3 DEF Informed

\* A notice goes to every chat that is known, or ends in an error.
LEMMA NotifyInforms ==
  ASSUME IInv, NEW h \in Notices, Notify(h), NEW g \in Notices, NEW c \in Chats
  PROVE  Informed(g, c)
<1> USE DEF IInv, RestTyped, GroupsPlaced
<1>1. h \in Groups /\ g \in Groups /\ group[h].next \in Nat
  BY DEF Notices, Groups, Positions
<1>2. PICK S \in SUBSET storage :
        /\ told' = [told EXCEPT ![h] =
             [x \in Chats |-> IF x \in S THEN told[h][x] \cup {group[h].next}
                                         ELSE told[h][x]]]
        /\ \/ S = storage /\ HandlerOk(h)
           \/ HandlerFails(h)
  BY DEF Notify
<1>3. CASE g # h
  <2>1. group'[g] = group[g] /\ told'[g] = told[g]
    BY <1>1, <1>2, <1>3 DEF HandlerOk, HandlerFails
  <2>2. group[g].next \in Nat
    BY <1>1 DEF Positions
  <2> QED BY <2>1, <2>2 DEF Informed
<1>4. CASE g = h
  <2>1. /\ told[g][c] \subseteq told'[g][c]
        /\ c \in S => group[g].next \in told'[g][c]
    BY <1>2, <1>4
  <2>2. ASSUME NEW i \in Nat, c \in storage, group[g].next <= i, i < group'[g].next
        PROVE  i \in told'[g][c] \/ <<g, i>> \in skipped'
    <3>1. i = group[g].next /\ (HandlerFails(g) => <<g, i>> \in skipped')
      BY <1>1, <1>2, <1>4, <2>2, HandlerMoves
    <3> QED BY <1>2, <1>4, <2>1, <2>2, <3>1
  <2> QED BY <2>1, <2>2 DEF Informed
<1> QED BY <1>3, <1>4

\* A chat that is known when the group passes a message has been told of it, or
\* a handler returned an error; however often messages come again, nothing told
\* is untold. The safety half of ChatsAreTold (NotifyPaidOrder,
\* NotifyShipAssembled, ConsumeClaim).
THEOREM ChatsAreInformed == Spec => NoChatIsPassedOver
<1>1. ASSUME IInv, [Next]_vars, NEW g \in Notices, NEW c \in Chats
      PROVE  Informed(g, c)
  <2> USE <1>1 DEF IInv, GroupsPlaced
  <2>1. ASSUME NEW h \in Notices, Notify(h) PROVE Informed(g, c)
    BY <2>1, NotifyInforms
  <2>2. ASSUME NEW h \in Groups, Rejoin(h) PROVE Informed(g, c)
    <3>1. told' = told /\ (group'[g] = group[g] \/ group'[g] \in C!Resumed(group[g]))
      BY <2>2 DEF Rejoin, notifyVars, Notices, Groups
    <3> QED BY <3>1, BehindIsInformed
  <2>3. CASE NotifierRestarts
    <3>1. told' = told /\ (group'[g] = group[g] \/ group'[g] \in C!Resumed(group[g]))
      BY <2>3 DEF NotifierRestarts, Notices, Groups
    <3> QED BY <3>1, BehindIsInformed
  <2>4. CASE OrderRestarts
    <3>1. told' = told /\ group'[g] = group[g]
      BY <2>4 DEF OrderRestarts, notifyVars, Notices, Groups
    <3> QED BY <3>1, BehindIsInformed
  <2>5. CASE CompleteOrder \/ BuildEnds
    <3>1. told' = told /\ group'[g] = group[g]
      BY <2>5 DEF CompleteOrder, BuildEnds, HandlerOk, HandlerFails, notifyVars,
                  Notices, Groups
    <3> QED BY <3>1, BehindIsInformed
  <2>6. ASSUME \/ \E o \in Orders : Create(o)
               \/ \E r \in Requests : Request(r)
               \/ BuildStarts \/ (\E x \in Chats : Subscribe(x)) \/ UNCHANGED vars
        PROVE  Informed(g, c)
    <3>1. told' = told /\ group'[g] = group[g]
      BY <2>6 DEF Create, Request, BuildStarts, Subscribe, notifyVars, vars
    <3> QED BY <3>1, BehindIsInformed
  <2> QED BY <2>1, <2>2, <2>3, <2>4, <2>5, <2>6 DEF Next
<1>2. IInv /\ [Next]_vars => [\A g \in Notices, c \in Chats : Informed(g, c)]_vars
  BY <1>1
<1> QED BY <1>2, Invariance, PTL DEF Spec, NoChatIsPassedOver
=============================================================================
