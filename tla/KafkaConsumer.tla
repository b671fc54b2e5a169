--------------------------- MODULE KafkaConsumer ----------------------------
(***************************************************************************)
(* One consumer group on one partition: platform/kafka/consumer with its   *)
(* recovery middleware, on top of the sarama client. Every service of the  *)
(* system that reads a topic does it through this code, alone in its group.*)
(*                                                                         *)
(* Offsets are naturals. `marked` and `committed` name the next offset to  *)
(* read, as in sarama: offset i is behind the mark when i < marked.        *)
(***************************************************************************)
EXTENDS Naturals

CONSTANTS MaxProduced,   \* bound on the messages the topic receives
          MaxStops       \* bound on crashes, rebalances and cancellations

ASSUME BoundsAreNat == MaxProduced \in Nat /\ MaxStops \in Nat

VARIABLES
  produced,    \* messages the topic holds: offsets 0 .. produced - 1
  committed,   \* the group's committed offset, kept by the broker
  proc,        \* the goroutine in Consume: "running", or "stopped"
  cancelled,   \* the context given to Consume is cancelled
  session,     \* "none", "open", or "closing": the session context is done
  next,        \* next offset the claim delivers
  marked,      \* the session's mark, not yet committed
  inHand,      \* the offset ConsumeClaim handles, or Nobody
  done,        \* offsets some handler call finished without error
  failed,      \* offsets some handler call returned an error for
  panicked,    \* offsets some handler call panicked on
  stops        \* interruptions so far

vars == <<produced, committed, proc, cancelled, session, next, marked,
          inHand, done, failed, panicked, stops>>

Nobody == MaxProduced          \* no offset: offsets are below MaxProduced
Offsets == 0 .. MaxProduced - 1

Init ==
  /\ produced = 0 /\ committed = 0
  /\ proc = "running" /\ cancelled = FALSE
  /\ session = "none" /\ next = 0 /\ marked = 0
  /\ inHand = Nobody
  /\ done = {} /\ failed = {} /\ panicked = {}
  /\ stops = 0

history == <<done, failed, panicked>>

\* A producer appends a message.
Produce ==
  /\ produced < MaxProduced
  /\ produced' = produced + 1
  /\ UNCHANGED <<committed, proc, cancelled, session, next, marked, inHand,
                 history, stops>>

\* Fault: a session starts at the end of the topic (OffsetNewest).
JoinNewest ==
  /\ proc = "running" /\ session = "none" /\ ~cancelled
  /\ session' = "open"
  /\ next' = produced /\ marked' = committed
  /\ UNCHANGED <<produced, committed, proc, cancelled, inHand, history, stops>>

\* Fault: the mark of a new session does not start at the committed offset.
JoinUnmarked ==
  /\ proc = "running" /\ session = "none" /\ ~cancelled
  /\ session' = "open"
  /\ next' = committed /\ marked' = 0
  /\ UNCHANGED <<produced, committed, proc, cancelled, inHand, history, stops>>

\* group.Consume joins the group: a session starts at the committed offset.
Join ==
  /\ proc = "running" /\ session = "none" /\ ~cancelled
  /\ session' = "open"
  /\ next' = committed /\ marked' = committed
  /\ UNCHANGED <<produced, committed, proc, cancelled, inHand, history, stops>>

\* ConsumeClaim takes the next message. Once the session context is done the
\* select may still take a message the channel holds.
Take ==
  /\ session # "none" /\ inHand = Nobody
  /\ next < produced
  /\ inHand' = next /\ next' = next + 1
  /\ UNCHANGED <<produced, committed, proc, cancelled, session, marked,
                 history, stops>>

\* MarkMessage only moves the mark forward.
MarkMessage(i) == marked' = IF i + 1 > marked THEN i + 1 ELSE marked

Finish == /\ inHand # Nobody
          /\ inHand' = Nobody
          /\ UNCHANGED <<produced, committed, proc, cancelled, session, next,
                         stops>>

\* Fault: the message after the handled one is marked.
HandleOkMarksNext ==
  /\ Finish
  /\ done' = done \cup {inHand}
  /\ MarkMessage(inHand + 1)
  /\ UNCHANGED <<failed, panicked>>

\* The handler succeeds and the message is marked.
HandleOk ==
  /\ Finish
  /\ done' = done \cup {inHand}
  /\ MarkMessage(inHand)
  /\ UNCHANGED <<failed, panicked>>

\* Fault: no `continue` after a handler error.
HandleErrorMarks ==
  /\ Finish
  /\ failed' = failed \cup {inHand}
  /\ MarkMessage(inHand)
  /\ UNCHANGED <<done, panicked>>

\* The handler returns an error: the loop goes on to the next message and the
\* mark stays.
HandleError ==
  /\ Finish
  /\ failed' = failed \cup {inHand}
  /\ UNCHANGED <<marked, done, panicked>>

\* The handler panics: Recovery logs it, the deferred return value is nil, and
\* ConsumeClaim marks the message.
HandlePanic ==
  /\ Finish
  /\ panicked' = panicked \cup {inHand}
  /\ MarkMessage(inHand)
  /\ UNCHANGED <<done, failed>>

\* sarama commits the mark at every tick.
AutoCommit ==
  /\ session # "none"
  /\ committed' = marked
  /\ UNCHANGED <<produced, proc, cancelled, session, next, marked, inHand,
                 history, stops>>

Stop == stops < MaxStops /\ stops' = stops + 1

\* The group rebalances, or the broker drops the session.
Rebalance ==
  /\ Stop
  /\ session = "open"
  /\ session' = "closing"
  /\ UNCHANGED <<produced, committed, proc, cancelled, next, marked, inHand,
                 history>>

\* The application cancels the context: the session ends too, if there is one.
CancelCtx ==
  /\ Stop
  /\ proc = "running" /\ ~cancelled
  /\ cancelled' = TRUE
  /\ session' = IF session = "none" THEN "none" ELSE "closing"
  /\ UNCHANGED <<produced, committed, proc, next, marked, inHand, history>>

\* ConsumeClaim has returned: the session commits the mark, or fails to, and
\* group.Consume returns without error. Consume then joins again, unless its
\* context is done.
Leave ==
  /\ session = "closing" /\ inHand = Nobody
  /\ session' = "none"
  /\ committed' \in {committed, marked}
  /\ proc' = IF cancelled THEN "stopped" ELSE proc
  /\ UNCHANGED <<produced, cancelled, next, marked, inHand, history, stops>>

\* group.Consume returns an error, or the group is closed: Consume returns.
JoinFails ==
  /\ Stop
  /\ session = "none" /\ proc = "running"
  /\ proc' = "stopped"
  /\ UNCHANGED <<produced, committed, cancelled, session, next, marked, inHand,
                 history>>

\* The context is done before a session starts: Consume returns its error.
JoinCancelled ==
  /\ session = "none" /\ proc = "running" /\ cancelled
  /\ proc' = "stopped"
  /\ UNCHANGED <<produced, committed, cancelled, session, next, marked, inHand,
                 history, stops>>

\* The process is killed. What is marked and not committed is forgotten.
Crash ==
  /\ Stop
  /\ proc = "running"
  /\ proc' = "stopped" /\ session' = "none" /\ inHand' = Nobody
  /\ UNCHANGED <<produced, committed, cancelled, next, marked, history>>

\* The process is started again.
Restart ==
  /\ proc = "stopped"
  /\ proc' = "running" /\ cancelled' = FALSE
  /\ UNCHANGED <<produced, committed, session, next, marked, inHand, history,
                 stops>>

Handle == HandleOk \/ HandleError \/ HandlePanic

Next == \/ Produce \/ Join \/ Take \/ Handle \/ AutoCommit
        \/ Rebalance \/ CancelCtx \/ Leave \/ JoinFails \/ JoinCancelled
        \/ Crash \/ Restart

Spec == Init /\ [][Next]_vars

\* The consumer goroutine keeps running and a handler call returns. Nothing
\* restarts a stopped process: the services have no restart policy.
Fairness == /\ WF_vars(Join \/ JoinCancelled) /\ WF_vars(Take)
            /\ WF_vars(Handle) /\ WF_vars(Leave)

FairSpec == Spec /\ Fairness

-----------------------------------------------------------------------------
\* The domain of every variable.
TypeOK ==
  /\ produced \in 0 .. MaxProduced
  /\ committed \in 0 .. MaxProduced
  /\ proc \in {"running", "stopped"}
  /\ cancelled \in BOOLEAN
  /\ session \in {"none", "open", "closing"}
  /\ next \in 0 .. MaxProduced
  /\ marked \in 0 .. MaxProduced
  /\ inHand \in 0 .. MaxProduced
  /\ done \subseteq Offsets /\ failed \subseteq Offsets
  /\ panicked \subseteq Offsets
  /\ stops \in 0 .. MaxStops

\* The messages that were given to the handler.
tried == done \cup failed \cup panicked

\* The only ways to lose a message: its handler panicked and Recovery turned
\* the panic into success, or its handler returned an error and a later
\* message of the partition was marked over it.
LossIsPanicOrOvertaken ==
  \A i \in Offsets :
    i < committed /\ i \notin done =>
      \/ i \in panicked
      \/ i \in failed /\ \E j \in done \cup panicked : j > i

\* Every message of the topic is given to the handler, whatever the (finitely
\* many) rebalances and failed commits, unless the process stops for good.
EveryMessageIsTried ==
  \A i \in Offsets : produced > i ~> i \in tried \/ proc = "stopped"

\* The consumer implements the group: a message in hand is still to be
\* handled, and without a session the group is at its committed offset. So no
\* interleaving of sessions, commits, cancellations and crashes skips a message
\* unhandled or moves a mark past the message that was handled last.
Group == INSTANCE ConsumerGroup
           WITH length <- produced,
                group <- [next |-> IF session = "none" THEN committed
                                   ELSE IF inHand # Nobody THEN inHand ELSE next,
                          mark |-> IF session = "none" THEN committed ELSE marked,
                          kept |-> committed]

RefinesGroup == Group!Spec
=============================================================================
