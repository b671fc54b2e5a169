--------------------------- MODULE ConsumerGroup ----------------------------
(***************************************************************************)
(* What platform/kafka/consumer promises about one consumer group on one   *)
(* partition, without sessions, contexts and processes: messages are       *)
(* handled one by one from the offset the group kept; a handled message    *)
(* moves the mark, a failed one does not, but the next success passes over *)
(* it; whenever the group joins again it starts at what was kept.          *)
(*                                                                         *)
(* KafkaConsumer implements this specification, and Fulfilment connects    *)
(* the services with its operators.                                        *)
(***************************************************************************)
EXTENDS Naturals

VARIABLES
  length,  \* messages on the partition
  group    \* where the group is

cvars == <<length, group>>

\* The offset to handle next, the offset after the last success, the offset
\* the broker keeps for the group.
Position == [next : Nat, mark : Nat, kept : Nat]

At(k) == [next |-> k, mark |-> k, kept |-> k]

\* The message at g.next was handled; it was passed over; the mark was
\* committed; the group joined again, with or without a last commit.
Succeeded(g) == [g EXCEPT !.next = @ + 1, !.mark = g.next + 1]
PassedOver(g) == [g EXCEPT !.next = @ + 1]
Committed(g) == [g EXCEPT !.kept = g.mark]
RejoinPoints(g) == {At(g.kept), At(g.mark)}

\* Where a group can be found after any number of commits of its marks, none
\* or the last included, and a rejoin.
Resumed(g) == {At(k) : k \in g.kept .. g.mark}

Init == length = 0 /\ group = At(0)

Arrive == length' = length + 1 /\ UNCHANGED group

Handle == /\ group.next < length
          /\ group' \in {Succeeded(group), PassedOver(group)}
          /\ UNCHANGED length

Commit == group' = Committed(group) /\ UNCHANGED length

Rejoin == group' \in RejoinPoints(group) /\ UNCHANGED length

Next == Arrive \/ Handle \/ Commit \/ Rejoin

Spec == Init /\ [][Next]_cvars
=============================================================================
