------------------------------ MODULE RemoteCall ------------------------------
(***************************************************************************)
(* What a client of the order API may rely on: the operation it invokes    *)
(* runs with the arguments it gave, a write at most once, and what it gets *)
(* back is the answer of a run, or a failure that says nothing.            *)
(***************************************************************************)
EXTENDS Naturals

CONSTANTS Calls,      \* operations with their arguments
          Reads,      \* the calls that may run more than once
          None,       \* no call, no answer
          Fail        \* the outcome that says nothing

VARIABLES call,       \* the call in progress or None
          ran,        \* the last call that ran for it
          runs,       \* how often
          answer,     \* the answer of the last run
          outcome     \* what the caller has: None, an answer or Fail

vars == <<call, ran, runs, answer, outcome>>

Init == call = None /\ ran = None /\ runs = 0 /\ answer = None /\ outcome = None

Invoke(c) ==
    /\ call = None
    /\ call' = c
    /\ UNCHANGED <<ran, runs, answer, outcome>>

\* Once the caller has given up the operation may still run.
Run ==
    /\ call # None
    /\ runs = 0 \/ call \in Reads
    /\ ran' = call /\ runs' = runs + 1 /\ answer' = None
    /\ UNCHANGED <<call, outcome>>

Finish ==
    /\ ran # None /\ answer = None
    /\ answer' # None
    /\ UNCHANGED <<call, ran, runs, outcome>>

Return ==
    /\ call # None /\ outcome = None /\ answer # None
    /\ outcome' = answer
    /\ UNCHANGED <<call, ran, runs, answer>>

GiveUp ==
    /\ call # None /\ outcome = None
    /\ outcome' = Fail
    /\ UNCHANGED <<call, ran, runs, answer>>

\* The caller goes on and forgets the call.
End ==
    /\ outcome # None
    /\ call' = None /\ ran' = None /\ runs' = 0 /\ answer' = None /\ outcome' = None

Next ==
    \/ \E c \in Calls : Invoke(c)
    \/ Run \/ Finish \/ Return \/ GiveUp \/ End

Spec == Init /\ [][Next]_vars
=============================================================================
