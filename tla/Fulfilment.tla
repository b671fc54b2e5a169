----------------------------- MODULE Fulfilment -----------------------------
(***************************************************************************)
(* The path of a paid order through the system: the order service          *)
(* announces it on order.paid; the assembly service builds the ship and    *)
(* announces it on order.assembled; the order service completes the order; *)
(* the notification service tells every subscribed Telegram chat of both.  *)
(*                                                                         *)
(* The order service is OrderService, step by step; each of the four       *)
(* consumers is a ConsumerGroup. A topic is one partition: the messages of *)
(* one order carry its id as key and share a partition.                    *)
(***************************************************************************)
EXTENDS Naturals, Sequences

CONSTANTS Orders, Requests, Methods, UnknownMethod, None, Serialized, Faults,
          Chats,       \* Telegram chats
          MaxShips,    \* bound on the messages of order.assembled
          MaxStops     \* bound on rebalances and restarts

ASSUME NoneIsFresh == None \notin Requests \cup Methods \cup Orders
ASSUME SerializedIsBool == Serialized \in BOOLEAN
ASSUME BoundsAreNat == MaxShips \in Nat /\ MaxStops \in Nat

VARIABLES
  rows, pc, params, ord, charges, published, reply,   \* of OrderService
  paidLog,    \* order.paid: the charges announced, in order
  shipLog,    \* order.assembled: a ship's event copies that of its payment
  group,      \* group[g]: where consumer group g is; what the broker keeps
              \* for it is settled when it matters, at a rejoin
  building,   \* the assembly handler waits for its timer
  storage,    \* chats the notification service knows
  told,       \* told[g][c]: offsets of g's topic that chat c was told of
  skipped,    \* <<g, i>>: a handler of g returned an error for offset i
  stops       \* rebalances and restarts so far

OS == INSTANCE OrderService
C == INSTANCE ConsumerGroup WITH length <- 0

orderVars == <<rows, pc, params, ord, charges, published, reply>>
notifyVars == <<storage, told>>
vars == <<orderVars, paidLog, shipLog, group, building, notifyVars, skipped, stops>>

\* The consumer groups, and the topic each reads. Fault: the order service is
\* subscribed to order.paid.
Groups == {"assembly", "completion", "paid_notice", "ship_notice"}
Notices == {"paid_notice", "ship_notice"}
LogOfPaid(g) == IF g = "ship_notice" THEN shipLog ELSE paidLog
Log(g) == IF g \in {"assembly", "paid_notice"} THEN paidLog ELSE shipLog

HasMessage(g) == group[g].next < Len(Log(g))
Message(g) == Log(g)[group[g].next + 1]
InLog(log) == {log[i] : i \in DOMAIN log}

Init ==
  /\ OS!Init
  /\ paidLog = <<>> /\ shipLog = <<>>
  /\ group = [g \in Groups |-> C!At(0)]
  /\ building = FALSE
  /\ storage = {}
  /\ told = [g \in Notices |-> [c \in Chats |-> {}]]
  /\ skipped = {}
  /\ stops = 0

\* Fault: the message after the handled one is marked.
HandlerOkTwice(g) == /\ group' = [group EXCEPT ![g] = C!Succeeded(C!Succeeded(@))]
                     /\ UNCHANGED skipped

\* The handler of g returns nil, or an error.
HandlerOk(g) == /\ group' = [group EXCEPT ![g] = C!Succeeded(@)]
                /\ UNCHANGED skipped
HandlerFails(g) == /\ group' = [group EXCEPT ![g] = C!PassedOver(@)]
                   /\ skipped' = skipped \cup {<<g, group[g].next>>}

-----------------------------------------------------------------------------
(* The order service. *)

\* Fault: the event is sent as soon as the payment is taken.
RequestSendsEarly(r) ==
  /\ OS!Pay(r) \/ OS!Cancel(r)
  /\ paidLog' = IF charges' = charges THEN paidLog
                ELSE Append(paidLog, OS!ChargeOf(r))
  /\ UNCHANGED <<shipLog, group, building, notifyVars, skipped, stops>>

\* Every call of a request. The call that announces a payment appends to
\* order.paid what OrderService adds to `published`.
Request(r) ==
  /\ OS!Pay(r) \/ OS!Cancel(r)
  /\ paidLog' = IF published' = published THEN paidLog
                ELSE Append(paidLog, OS!ChargeOf(r))
  /\ UNCHANGED <<shipLog, group, building, notifyVars, skipped, stops>>

Create(o) == /\ OS!Create(o)
             /\ UNCHANGED <<paidLog, shipLog, group, building, notifyVars, skipped, stops>>

\* shipAssembledHandler completes the order of the message, whatever order that
\* is. It returns the error of a query that fails, applied or not, and of one
\* that finds no row.
CompleteOrder ==
  LET o == Message("completion").order IN
  /\ HasMessage("completion")
  /\ \/ OS!Complete(o) /\ HandlerOk("completion")
     \/ /\ "db" \in Faults \/ rows[o] = OS!NoRow
        /\ UNCHANGED rows \/ OS!Complete(o)
        /\ HandlerFails("completion")
  /\ UNCHANGED <<pc, params, ord, charges, published, reply, paidLog, shipLog,
                 building, notifyVars, stops>>

-----------------------------------------------------------------------------
(* The assembly service. *)

\* paidOrderHandler starts its timer.
BuildStarts ==
  /\ ~building /\ HasMessage("assembly")
  /\ building' = TRUE
  /\ UNCHANGED <<orderVars, paidLog, shipLog, group, notifyVars, skipped, stops>>

\* The timer fires and the ship is announced. A failing send may have been
\* written by the broker.
BuildEnds ==
  /\ building /\ Len(shipLog) < MaxShips
  /\ building' = FALSE
  /\ \/ shipLog' = Append(shipLog, Message("assembly")) /\ HandlerOk("assembly")
     \/ /\ "kafka" \in Faults
        /\ shipLog' = shipLog \/ shipLog' = Append(shipLog, Message("assembly"))
        /\ HandlerFails("assembly")
  /\ UNCHANGED <<orderVars, paidLog, notifyVars, stops>>

-----------------------------------------------------------------------------
(* The notification service. *)

\* A user sends /start.
Subscribe(c) ==
  /\ c \notin storage
  /\ storage' = storage \cup {c}
  /\ UNCHANGED <<orderVars, paidLog, shipLog, group, building, told, skipped, stops>>

\* NotifyPaidOrder and NotifyShipAssembled send to the known chats, in the
\* order of a map, until one send fails.
Notify(g) ==
  /\ HasMessage(g)
  /\ \E S \in SUBSET storage :
       /\ told' = [told EXCEPT ![g] =
            [c \in Chats |-> IF c \in S THEN @[c] \cup {group[g].next} ELSE @[c]]]
       /\ \/ S = storage /\ HandlerOk(g)
          \/ "telegram" \in Faults /\ S # storage /\ HandlerFails(g)
  /\ UNCHANGED <<orderVars, paidLog, shipLog, building, storage, stops>>

-----------------------------------------------------------------------------
(* The consumer groups, restarts. *)

Stop == stops < MaxStops /\ stops' = stops + 1

\* Fault: the group joins again at the end of the topic.
RejoinNewest(g) ==
  /\ Stop
  /\ group' = [group EXCEPT ![g] = C!At(Len(Log(g)))]
  /\ building' = (building /\ g # "assembly")
  /\ UNCHANGED <<orderVars, paidLog, shipLog, notifyVars, skipped>>

\* The session of g ends and it joins again. A build that waits is cancelled.
Rejoin(g) ==
  /\ Stop
  /\ \E at \in C!Resumed(group[g]) : group' = [group EXCEPT ![g] = at]
  /\ building' = (building /\ g # "assembly")
  /\ UNCHANGED <<orderVars, paidLog, shipLog, notifyVars, skipped>>

\* The notification service is restarted: its chats were in memory.
NotifierRestarts ==
  /\ Stop
  /\ storage' = {}
  /\ \E p \in C!Resumed(group["paid_notice"]), s \in C!Resumed(group["ship_notice"]) :
       group' = [group EXCEPT !["paid_notice"] = p, !["ship_notice"] = s]
  /\ UNCHANGED <<orderVars, paidLog, shipLog, building, told, skipped>>

\* The order service is restarted.
OrderRestarts ==
  /\ Stop
  /\ OS!Crash
  /\ \E at \in C!Resumed(group["completion"]) :
       group' = [group EXCEPT !["completion"] = at]
  /\ UNCHANGED <<paidLog, shipLog, building, notifyVars, skipped>>

Next == \/ \E o \in Orders : Create(o)
        \/ \E r \in Requests : Request(r)
        \/ CompleteOrder \/ BuildStarts \/ BuildEnds
        \/ \E c \in Chats : Subscribe(c)
        \/ \E g \in Notices : Notify(g)
        \/ \E g \in Groups : Rejoin(g)
        \/ NotifierRestarts \/ OrderRestarts

Spec == Init /\ [][Next]_vars

\* Consumers keep reading and their handlers return; a timer fires. (When a
\* consumer ends for good is the subject of ServiceShutdown.)
Fairness == /\ WF_vars(CompleteOrder) /\ WF_vars(BuildStarts) /\ WF_vars(BuildEnds)
            /\ \A g \in Notices : WF_vars(Notify(g))

FairSpec == Spec /\ Fairness

-----------------------------------------------------------------------------
\* The domain of the variables this module adds.
TypeOK ==
  /\ paidLog \in Seq(OS!Charge) /\ shipLog \in Seq(OS!Charge)
  /\ Len(shipLog) <= MaxShips
  /\ group \in [Groups -> [next : Nat, mark : Nat, kept : Nat]]
  /\ \A g \in Groups : /\ group[g].kept <= group[g].mark
                       /\ group[g].mark <= group[g].next
                       /\ group[g].next <= Len(Log(g))
  /\ building \in BOOLEAN
  /\ storage \subseteq Chats
  /\ told \in [Notices -> [Chats -> SUBSET Nat]]
  /\ skipped \subseteq Groups \X Nat
  /\ stops \in 0 .. MaxStops

\* No ship without a payment: a COMPLETED order was announced on both topics,
\* by one event, and charged, however often messages come again.
CompletedWasBuilt ==
  \A o \in Orders :
    rows[o].status = "COMPLETED" =>
      \E e \in InLog(shipLog) : /\ e.order = o
                                /\ e \in InLog(paidLog)
                                /\ e \in charges

\* A chat is told of a payment only when the table holds payment data for its
\* order, and of a ship only when a payment of its order was announced: the
\* notifications never run ahead of the services they report on.
NoticesAreTrue ==
  \A c \in Chats :
    /\ \A i \in told["paid_notice"][c] : rows[paidLog[i + 1].order].tx # None
    /\ \A i \in told["ship_notice"][c] : shipLog[i + 1] \in InLog(paidLog)

\* OrderService assumes that ships are assembled for announced orders only.
\* The handler of order.assembled does not check it; the topics see to it: what
\* assembly reads was sent after the payment was written, what completion reads
\* copies that, and neither a rejoin nor a restart moves a group past the end
\* of its topic. So every step of the system is one of the order service, or
\* none.
RefinesOrderService == OS!Spec

\* Every announced payment ends in a COMPLETED order, with callers taking
\* turns, through rebalances and restarts, unless a handler of assembly or of
\* the order consumer returned an error.
AnnouncedIsFulfilled ==
  \A o \in Orders :
    (\E e \in published : e.order = o) ~>
      \/ rows[o].status = "COMPLETED"
      \/ \E x \in skipped : x[1] \in {"assembly", "completion"}

\* A chat that is known before a message is handled is told of it, unless the
\* handler returned an error or a restart lost the chat.
ChatsAreTold ==
  \A g \in Notices, c \in Chats, i \in 0 .. MaxShips - 1 :
    (c \in storage /\ group[g].next <= i /\ i < Len(Log(g))) ~>
      i \in told[g][c] \/ <<g, i>> \in skipped \/ c \notin storage

\* assembly.proto:19-22: consumers are to use event_uuid to process an event
\* once. None does: a message that comes again is sent to the chats again.
ToldOnce ==
  [][\A g \in Notices, c \in Chats :
       \A i \in told'[g][c] \ told[g][c], j \in told[g][c] :
         Log(g)[i + 1] # Log(g)[j + 1]]_vars
=============================================================================
