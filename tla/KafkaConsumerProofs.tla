------------------------ MODULE KafkaConsumerProofs -------------------------
(***************************************************************************)
(* What KafkaConsumer guarantees for topics of any length and any number   *)
(* of crashes, rebalances and cancellations.                               *)
(***************************************************************************)
EXTENDS KafkaConsumer, TLAPS

\* In a session the offsets are in order, and the message in hand is the last
\* one the claim delivered.
InOrder ==
  /\ committed <= produced
  /\ session = "none" => inHand = Nobody
  /\ session # "none" =>
       /\ committed <= marked /\ marked <= next /\ next <= produced
       /\ inHand # Nobody => next = inHand + 1 /\ marked <= inHand

\* Every message below k was handled, or lost in one of the two ways.
Accounted(k) ==
  \A i \in Offsets :
    i < k /\ i \notin done =>
      \/ i \in panicked
      \/ i \in failed /\ \E j \in done \cup panicked : j > i

\* A session may commit its mark at any time. What lies behind the mark is
\* accounted for, and what lies between it and the next message was tried,
\* so that the next success accounts for it.
MarkIsSound ==
  session # "none" =>
    /\ Accounted(marked)
    /\ \A i \in Offsets : marked <= i /\ i < next /\ i # inHand => i \in tried

\* The inductive invariant.
IInv == TypeOK /\ InOrder /\ Accounted(committed) /\ MarkIsSound

\* A message in hand has an offset.
LEMMA InHandType == TypeOK /\ inHand # Nobody => inHand \in Offsets
BY BoundsAreNat DEF TypeOK, Offsets, Nobody

\* The initial state satisfies the inductive invariant.
LEMMA InitInv == Init => IInv
<1>1. ASSUME Init PROVE TypeOK
  <2>1. Nobody \in 0 .. MaxProduced /\ 0 \in 0 .. MaxProduced
        /\ 0 \in 0 .. MaxStops
    BY BoundsAreNat DEF Nobody
  <2> QED BY <1>1, <2>1 DEF Init, TypeOK
<1>2. Init => InOrder
  BY DEF Init, InOrder
<1>3. Init => Accounted(committed) /\ MarkIsSound
  BY BoundsAreNat DEF Init, Accounted, MarkIsSound, Offsets
<1> QED BY <1>1, <1>2, <1>3 DEF IInv

\* Every step keeps the domains of the variables.
LEMMA NextType == IInv /\ [Next]_vars => TypeOK'
<1> SUFFICES ASSUME IInv, [Next]_vars PROVE TypeOK'
  OBVIOUS
<1> USE DEF TypeOK, IInv, InOrder, history
<1>1. CASE Handle
  BY <1>1, InHandType, BoundsAreNat
     DEF Handle, HandleOk, HandleError, HandlePanic, Finish, MarkMessage, Nobody
<1>2. CASE Produce \/ Join \/ Take \/ AutoCommit
  BY <1>2, BoundsAreNat DEF Produce, Join, Take, AutoCommit, Nobody
<1>3. CASE Rebalance \/ CancelCtx \/ JoinFails
  <2>1. stops' \in 0 .. MaxStops
    BY <1>3, BoundsAreNat DEF Rebalance, CancelCtx, JoinFails, Stop
  <2> QED BY <1>3, <2>1 DEF Rebalance, CancelCtx, JoinFails
<1>4. CASE Leave \/ JoinCancelled \/ Restart
  BY <1>4 DEF Leave, JoinCancelled, Restart
<1>5. CASE Crash
  <2>1. stops' \in 0 .. MaxStops /\ Nobody \in 0 .. MaxProduced
    BY <1>5, BoundsAreNat DEF Crash, Stop, Nobody
  <2> QED BY <1>5, <2>1 DEF Crash
<1>6. CASE UNCHANGED vars
  BY <1>6 DEF vars
<1> QED BY <1>1, <1>2, <1>3, <1>4, <1>5, <1>6 DEF Next

\* Every step keeps the offsets in order.
LEMMA NextOrder == IInv /\ [Next]_vars => InOrder'
<1> SUFFICES ASSUME IInv, [Next]_vars PROVE InOrder'
  OBVIOUS
<1> USE BoundsAreNat DEF IInv, TypeOK, InOrder, Nobody, Stop
<1>1. CASE Handle
  BY <1>1 DEF Handle, HandleOk, HandleError, HandlePanic, Finish, MarkMessage
<1>2. CASE Produce \/ Join \/ Take \/ AutoCommit
  BY <1>2 DEF Produce, Join, Take, AutoCommit
<1>3. CASE Rebalance \/ CancelCtx \/ Leave
  BY <1>3 DEF Rebalance, CancelCtx, Leave
<1>4. CASE JoinFails \/ JoinCancelled \/ Crash \/ Restart
  BY <1>4 DEF JoinFails, JoinCancelled, Crash, Restart
<1>5. CASE UNCHANGED vars
  BY <1>5 DEF vars
<1> QED BY <1>1, <1>2, <1>3, <1>4, <1>5 DEF Next

\* A success, or a panic that Recovery turns into one, moves the mark behind
\* the message in hand: all messages before it were tried, so a failed one
\* among them is overtaken now.
LEMMA SuccessIsSound ==
  ASSUME IInv, inHand # Nobody, HandleOk \/ HandlePanic
  PROVE  Accounted(committed)' /\ MarkIsSound'
<1> USE BoundsAreNat DEF IInv, TypeOK, InOrder, Nobody
<1>1. session # "none" /\ inHand \in Offsets /\ marked' = inHand + 1
      /\ next = inHand + 1 /\ UNCHANGED <<committed, next, session>>
  BY DEF HandleOk, HandlePanic, Finish, MarkMessage, Offsets
<1>2. inHand \in (done \cup panicked)' /\ failed' = failed
      /\ done \subseteq done' /\ panicked \subseteq panicked'
  BY DEF HandleOk, HandlePanic
<1>3. ASSUME NEW i \in Offsets, i < inHand + 1, i \notin done'
      PROVE  \/ i \in panicked'
             \/ i \in failed' /\ \E j \in (done \cup panicked)' : j > i
  <2>1. CASE i = inHand
    BY <1>2, <1>3, <2>1
  <2>2. CASE i < inHand /\ i < marked
    BY <1>1, <1>2, <1>3, <2>2 DEF MarkIsSound, Accounted
  <2>3. CASE i < inHand /\ marked <= i
    <3>1. i \in tried
      BY <1>1, <2>3 DEF MarkIsSound, Offsets
    <3> QED BY <1>2, <1>3, <2>3, <3>1 DEF tried
  <2> QED BY <1>1, <1>3, <2>1, <2>2, <2>3 DEF Offsets
<1>4. Accounted(marked)'
  BY <1>1, <1>3 DEF Accounted, Offsets
<1>5. Accounted(committed)'
  BY <1>1, <1>4 DEF Accounted, Offsets
<1>6. MarkIsSound'
  BY <1>1, <1>4 DEF MarkIsSound, Offsets
<1> QED BY <1>5, <1>6

\* Every step keeps the accounts.
LEMMA NextAccounts ==
  IInv /\ [Next]_vars => Accounted(committed)' /\ MarkIsSound'
<1> SUFFICES ASSUME IInv, [Next]_vars
             PROVE  Accounted(committed)' /\ MarkIsSound'
  OBVIOUS
<1> USE BoundsAreNat DEF IInv, TypeOK, InOrder, Nobody, Offsets, history, Stop,
                        Accounted, MarkIsSound, tried
<1>1. CASE HandleOk \/ HandlePanic
  BY <1>1, SuccessIsSound DEF HandleOk, HandlePanic, Finish
<1>2. CASE HandleError
  BY <1>2 DEF HandleError, Finish
<1>3. CASE Produce
  BY <1>3 DEF Produce
<1>4. CASE Join
  BY <1>4 DEF Join
<1>5. CASE Take
  BY <1>5 DEF Take
<1>6. CASE AutoCommit
  BY <1>6 DEF AutoCommit
<1>7. CASE Leave
  BY <1>7 DEF Leave
<1>8. CASE Rebalance \/ CancelCtx
  BY <1>8 DEF Rebalance, CancelCtx
<1>9. CASE JoinFails \/ JoinCancelled \/ Crash \/ Restart
  BY <1>9 DEF JoinFails, JoinCancelled, Crash, Restart
<1>10. CASE UNCHANGED vars
  BY <1>10 DEF vars
<1> QED BY <1>1, <1>2, <1>3, <1>4, <1>5, <1>6, <1>7, <1>8, <1>9, <1>10
        DEF Next, Handle

\* In every run of a consumer group the offsets stay in order and every
\* message behind the mark is accounted for.
THEOREM Invariance == Spec => []IInv
<1>1. IInv /\ [Next]_vars => IInv'
  BY NextType, NextOrder, NextAccounts DEF IInv
<1> QED BY InitInv, <1>1, PTL DEF Spec

\* Every variable keeps its domain.
THEOREM TypeInvariance == Spec => []TypeOK
<1>1. IInv => TypeOK
  BY DEF IInv
<1> QED BY Invariance, <1>1, PTL

\* A message is lost only to a panic of its handler, or to an error of its
\* handler followed by a success: no crash, rebalance, cancellation or failed
\* commit loses one (ConsumeClaim, MarkMessage, Recovery).
THEOREM LossesAreExplained == Spec => []LossIsPanicOrOvertaken
<1>1. IInv => LossIsPanicOrOvertaken
  BY DEF IInv, Accounted, LossIsPanicOrOvertaken
<1> QED BY Invariance, <1>1, PTL

\* Whatever the claim has delivered was given to the handler, or is in hand.
NothingIsPassedOver ==
  session # "none" => \A i \in Offsets : i < next => i = inHand \/ i \in tried

\* The reader never skips a message: a session that starts at the committed
\* offset has every message before it tried already, by this process or by one
\* that crashed. This is the safety half of EveryMessageIsTried, which adds that
\* the claim gets on (ConsumeClaim, MarkMessage).
THEOREM NothingIsSkipped == Spec => []NothingIsPassedOver
<1>1. ASSUME IInv, session # "none", NEW i \in Offsets, i < next, i # inHand
      PROVE  i \in tried
  <2>1. CASE marked <= i
    BY <1>1, <2>1 DEF IInv, MarkIsSound
  <2>2. CASE ~(marked <= i)
    <3>1. i < marked
      BY <1>1, <2>2, BoundsAreNat DEF IInv, TypeOK, Offsets
    <3>2. i \in done \/ i \in panicked \/ i \in failed
      BY <1>1, <3>1 DEF IInv, MarkIsSound, Accounted
    <3> QED BY <3>2 DEF tried
  <2> QED BY <2>1, <2>2
<1>2. IInv => NothingIsPassedOver
  BY <1>1 DEF NothingIsPassedOver
<1> QED BY Invariance, <1>2, PTL

\* The committed offset never falls back, and the message in hand is not behind
\* it.
CommittedIsOver ==
  [][committed <= committed' /\ (inHand' # Nobody => committed' <= inHand')]_vars

\* Messages come again after a crash, a rebalance or a failed commit, but never
\* one that is behind the committed offset: the window of duplicates is what was
\* handled since the last commit (ConsumeClaim, MarkMessage).
THEOREM CommittedIsNotRepeated == Spec => CommittedIsOver
<1>1. ASSUME IInv, [Next]_vars PROVE committed <= committed'
  <2> USE <1>1 DEF IInv, TypeOK, InOrder
  <2>1. CASE AutoCommit
    BY <2>1 DEF AutoCommit
  <2>2. CASE Leave
    BY <2>2 DEF Leave
  <2>3. ASSUME ~AutoCommit, ~Leave PROVE UNCHANGED committed
    BY <2>3
       DEF Next, Produce, Join, Take, Handle, HandleOk, HandleError, HandlePanic, Finish,
           Rebalance, CancelCtx, JoinFails, JoinCancelled, Crash, Restart, vars
  <2> QED BY <2>1, <2>2, <2>3
<1>2. ASSUME IInv, IInv', [Next]_vars
      PROVE  committed <= committed' /\ (inHand' # Nobody => committed' <= inHand')
  <2>1. inHand' # Nobody => committed' <= inHand'
    <3>1. committed' \in Nat /\ marked' \in Nat /\ inHand' \in Nat
      BY <1>2, BoundsAreNat DEF IInv, TypeOK
    <3>2. InOrder'
      BY <1>2 DEF IInv
    <3> QED BY <3>1, <3>2 DEF InOrder, Nobody
  <2> QED BY <1>1, <1>2, <2>1
<1>3. IInv /\ IInv' /\ [Next]_vars =>
        [committed <= committed' /\ (inHand' # Nobody => committed' <= inHand')]_vars
  BY <1>2
<1> QED BY <1>3, Invariance, PTL DEF Spec, CommittedIsOver

-----------------------------------------------------------------------------
(* The refinement. *)

\* Where the group is, as ConsumerGroup sees it.
grp == [next |-> IF session = "none" THEN committed
                 ELSE IF inHand # Nobody THEN inHand ELSE next,
        mark |-> IF session = "none" THEN committed ELSE marked,
        kept |-> committed]

\* What a success does to a position.
LEMMA SucceededPosition ==
  ASSUME NEW n, NEW m, NEW k
  PROVE  Group!Succeeded([next |-> n, mark |-> m, kept |-> k])
           = [next |-> n + 1, mark |-> n + 1, kept |-> k]
<1> DEFINE g == [next |-> n, mark |-> m, kept |-> k]
           h == [next |-> n + 1, mark |-> m, kept |-> k]
<1>1. [g EXCEPT !.next = n + 1] = h
  OBVIOUS
<1>2. [h EXCEPT !.mark = n + 1] = [next |-> n + 1, mark |-> n + 1, kept |-> k]
  OBVIOUS
<1>3. Group!Succeeded(g) = [[g EXCEPT !.next = n + 1] EXCEPT !.mark = n + 1]
  BY DEF Group!Succeeded
<1> QED BY <1>1, <1>2, <1>3

\* Handling the message in hand is one step of the group.
LEMMA HandleSimulates ==
  ASSUME IInv, Handle
  PROVE  Group!Handle
<1> USE BoundsAreNat DEF IInv, TypeOK, InOrder, Nobody
<1>1. session # "none" /\ inHand # Nobody /\ inHand' = Nobody
      /\ next = inHand + 1 /\ marked <= inHand /\ inHand < produced
      /\ UNCHANGED <<produced, committed, session, next>>
  BY DEF Handle, HandleOk, HandleError, HandlePanic, Finish
<1>2. grp = [next |-> inHand, mark |-> marked, kept |-> committed]
  BY <1>1 DEF grp
<1>3. grp' = [next |-> inHand + 1, mark |-> marked', kept |-> committed]
  BY <1>1 DEF grp
<1>4. CASE HandleOk \/ HandlePanic
  <2>1. marked' = inHand + 1
    BY <1>1, <1>4 DEF HandleOk, HandlePanic, MarkMessage
  <2>2. grp' = Group!Succeeded(grp)
    BY <1>2, <1>3, <2>1, SucceededPosition
  <2> QED BY <1>1, <1>2, <2>2 DEF Group!Handle, grp
<1>5. CASE HandleError
  <2>1. marked' = marked
    BY <1>5 DEF HandleError
  <2>2. grp' = Group!PassedOver(grp)
    BY <1>2, <1>3, <2>1 DEF Group!PassedOver
  <2> QED BY <1>1, <1>2, <2>2 DEF Group!Handle, grp
<1> QED BY <1>4, <1>5 DEF Handle

\* Leaving a session, with or without its last commit, and losing it in a
\* crash are rejoins.
LEMMA LeaveSimulates ==
  ASSUME IInv, Leave \/ Crash
  PROVE  Group!Rejoin
<1>1. grp.kept = committed /\ (session # "none" => grp.mark = marked)
  BY DEF grp
<1>2. grp' = Group!At(committed')
  BY DEF Leave, Crash, grp, Group!At
<1>3. CASE Leave
  <2>1. committed' \in {grp.kept, grp.mark}
    BY <1>1, <1>3 DEF Leave
  <2> QED BY <1>2, <1>3, <2>1 DEF Leave, Group!Rejoin, Group!RejoinPoints, grp
<1>4. CASE Crash
  BY <1>1, <1>2, <1>4 DEF Crash, Group!Rejoin, Group!RejoinPoints, grp
<1> QED BY <1>3, <1>4

\* Every step of the consumer is a step of the group or changes nothing that
\* the group sees.
LEMMA NextSimulates == IInv /\ [Next]_vars => [Group!Next]_(Group!cvars)
<1> SUFFICES ASSUME IInv, [Next]_vars
             PROVE  Group!Next \/ UNCHANGED <<produced, grp>>
  BY DEF Group!cvars, grp
<1>1. CASE Handle
  BY <1>1, HandleSimulates DEF Group!Next
<1>2. CASE Leave \/ Crash
  BY <1>2, LeaveSimulates DEF Group!Next
<1>3. CASE Produce
  BY <1>3 DEF Produce, Group!Next, Group!Arrive, Nobody
<1>4. CASE AutoCommit
  <2>1. grp' = Group!Committed(grp)
    BY <1>4 DEF AutoCommit, grp, Group!Committed, Nobody
  <2> QED BY <1>4, <2>1 DEF AutoCommit, Group!Next, Group!Commit, grp
<1>5. CASE Join
  BY <1>5 DEF Join, grp, IInv, InOrder, Nobody
<1>6. CASE Take
  BY <1>6, BoundsAreNat DEF Take, grp, IInv, TypeOK, Nobody
<1>7. CASE Rebalance \/ CancelCtx
  BY <1>7 DEF Rebalance, CancelCtx, grp, Nobody
<1>8. CASE JoinFails \/ JoinCancelled \/ Restart
  BY <1>8 DEF JoinFails, JoinCancelled, Restart, grp, Nobody
<1>9. CASE UNCHANGED vars
  BY <1>9 DEF vars, grp, Nobody
<1> QED BY <1>1, <1>2, <1>3, <1>4, <1>5, <1>6, <1>7, <1>8, <1>9 DEF Next

\* The consumer implements the group: however sessions, commits,
\* cancellations and crashes interleave, the services see a reader that
\* handles messages one by one, marks the last success, and starts again at
\* what was kept (Consume and ConsumeClaim).
THEOREM ImplementsGroup == Spec => RefinesGroup
<1>1. Init => Group!Init
  BY DEF Init, Group!Init, Group!At
<1> QED BY <1>1, NextSimulates, Invariance, PTL DEF Spec, RefinesGroup, Group!Spec
=============================================================================
