------------------------------- MODULE Closer -------------------------------
(***************************************************************************)
(* platform/closer: the registry of close functions every service keeps,   *)
(* and CloseAll, which runs them when the service shuts down.              *)
(*                                                                         *)
(* CloseAll may be called by several goroutines (a deferred call of the    *)
(* app, the signal handler of Configure); sync.Once lets one of them work  *)
(* and makes the others wait for it. The working call starts a goroutine   *)
(* per function, a goroutine that closes the error channel when all have   *)
(* ended, and collects errors until the channel is closed or its context   *)
(* is done.                                                                *)
(***************************************************************************)
EXTENDS Naturals, Sequences, FiniteSets

CONSTANTS Funcs,        \* close functions a service may register
          Callers,      \* goroutines that may call CloseAll
          Handler,      \* the caller that runs handleSignals
          Nobody,       \* no caller
          CtxErr        \* the error of a context that is done

ASSUME HandlerIsCaller == Handler \in Callers
ASSUME FuncsAreFinite == IsFiniteSet(Funcs)
ASSUME NobodyIsFresh == Nobody \notin Callers \cup Funcs \cup {CtxErr}
ASSUME CtxErrIsFresh == CtxErr \notin Funcs

VARIABLES
  funcs,     \* c.funcs: registered functions in the order of Add
  taken,     \* the owner's local `funcs`
  owner,     \* the caller inside once.Do, or the one that was
  call,      \* call[p]: where caller p is in CloseAll
  result,    \* result[p]: the local `result` of caller p; Nobody is nil
  fstate,    \* fstate[f]: where the goroutine of function f is
  wg,        \* the wait group's counter
  errCh,     \* the error channel
  chClosed,  \* errCh is closed
  ctxDone,   \* the owner's context is done
  doneCh     \* c.done is closed

vars == <<funcs, taken, owner, call, result, fstate, wg, errCh, chClosed,
          ctxDone, doneCh>>

Errors == Funcs \cup {CtxErr}    \* f stands for the error f failed with

Init ==
  /\ funcs = <<>> /\ taken = <<>>
  /\ owner = Nobody
  /\ call = [p \in Callers |-> "idle"]
  /\ result = [p \in Callers |-> Nobody]
  /\ fstate = [f \in Funcs |-> "new"]
  /\ wg = 0
  /\ errCh = <<>> /\ chClosed = FALSE
  /\ ctxDone = FALSE /\ doneCh = FALSE

\* Add appends under the lock, before CloseAll or after it. (AddNamed wraps
\* the function in logging and passes its error on.)
Add(f) ==
  /\ fstate[f] = "new"
  /\ fstate' = [fstate EXCEPT ![f] = "added"]
  /\ funcs' = Append(funcs, f)
  /\ UNCHANGED <<taken, owner, call, result, wg, errCh, chClosed, ctxDone,
                 doneCh>>

\* A goroutine calls CloseAll. The first one enters once.Do, any other waits.
\* For the signal handler: a signal came before c.done was closed.
Call(p) ==
  /\ call[p] = "idle"
  /\ IF owner = Nobody
       THEN owner' = p /\ call' = [call EXCEPT ![p] = "entered"]
       ELSE call' = [call EXCEPT ![p] = "waiting"] /\ UNCHANGED owner
  /\ UNCHANGED <<funcs, taken, result, fstate, wg, errCh, chClosed, ctxDone,
                 doneCh>>

\* handleSignals sees that CloseAll has run, and leaves.
HandlerLeaves ==
  /\ call[Handler] = "idle" /\ doneCh
  /\ call' = [call EXCEPT ![Handler] = "returned"]
  /\ UNCHANGED <<funcs, taken, owner, result, fstate, wg, errCh, chClosed,
                 ctxDone, doneCh>>

\* A caller that found once.Do taken returns when it is over, with nil.
WaiterReturns(p) ==
  /\ call[p] = "waiting" /\ doneCh
  /\ call' = [call EXCEPT ![p] = "returned"]
  /\ UNCHANGED <<funcs, taken, owner, result, fstate, wg, errCh, chClosed,
                 ctxDone, doneCh>>

Return(p) == /\ call' = [call EXCEPT ![p] = "returned"]
             /\ doneCh' = TRUE

\* Fault: wg.Add is missing.
TakeFuncsUncounted(p) ==
  /\ call[p] = "entered" /\ funcs # <<>>
  /\ call' = [call EXCEPT ![p] = "collecting"]
  /\ fstate' = [f \in Funcs |->
       IF \E i \in DOMAIN funcs : funcs[i] = f THEN "running" ELSE fstate[f]]
  /\ taken' = funcs /\ funcs' = <<>>
  /\ UNCHANGED <<owner, result, wg, errCh, chClosed, ctxDone, doneCh>>

\* The owner takes the functions under the lock and starts one goroutine per
\* function, the last added first; with none it returns.
TakeFuncs(p) ==
  /\ call[p] = "entered"
  /\ IF funcs = <<>>
       THEN Return(p) /\ UNCHANGED <<funcs, taken, fstate, wg>>
       ELSE /\ call' = [call EXCEPT ![p] = "collecting"]
            /\ fstate' = [f \in Funcs |->
                 IF \E i \in DOMAIN funcs : funcs[i] = f THEN "running"
                 ELSE fstate[f]]
            /\ wg' = Len(funcs)
            /\ taken' = funcs /\ funcs' = <<>>
            /\ UNCHANGED doneCh
  /\ UNCHANGED <<owner, result, errCh, chClosed, ctxDone>>

\* f returns nil; its goroutine leaves the wait group.
CloseOk(f) ==
  /\ fstate[f] = "running"
  /\ fstate' = [fstate EXCEPT ![f] = "ok"]
  /\ wg' = wg - 1
  /\ UNCHANGED <<funcs, taken, owner, call, result, errCh, chClosed, ctxDone,
                 doneCh>>

\* Fault: wg.Done runs before the error is sent.
CloseFailsEarlyDone(f) ==
  /\ fstate[f] = "running"
  /\ fstate' = [fstate EXCEPT ![f] = "failing"]
  /\ wg' = wg - 1
  /\ UNCHANGED <<funcs, taken, owner, call, result, errCh, chClosed, ctxDone,
                 doneCh>>

\* f returns an error, or panics and is recovered.
CloseFails(f) ==
  /\ fstate[f] = "running"
  /\ fstate' = [fstate EXCEPT ![f] = "failing"]
  /\ UNCHANGED <<funcs, taken, owner, call, result, wg, errCh, chClosed,
                 ctxDone, doneCh>>

\* The goroutine sends the error: the channel has room for one per function.
SendError(f) ==
  /\ fstate[f] = "failing"
  /\ fstate' = [fstate EXCEPT ![f] = "sending"]
  /\ errCh' = Append(errCh, f)
  /\ UNCHANGED <<funcs, taken, owner, call, result, wg, chClosed, ctxDone,
                 doneCh>>

\* Only then the deferred wg.Done runs.
DoneAfterError(f) ==
  /\ fstate[f] = "sending"
  /\ fstate' = [fstate EXCEPT ![f] = "sent"]
  /\ wg' = wg - 1
  /\ UNCHANGED <<funcs, taken, owner, call, result, errCh, chClosed, ctxDone,
                 doneCh>>

\* The waiting goroutine closes the channel when every function has ended.
CloseChannel ==
  /\ taken # <<>> /\ wg = 0 /\ ~chClosed
  /\ chClosed' = TRUE
  /\ UNCHANGED <<funcs, taken, owner, call, result, fstate, wg, errCh,
                 ctxDone, doneCh>>

\* The owner's context times out.
CtxExpires ==
  /\ ~ctxDone
  /\ \E p \in Callers : call[p] = "collecting"
  /\ ctxDone' = TRUE
  /\ UNCHANGED <<funcs, taken, owner, call, result, fstate, wg, errCh,
                 chClosed, doneCh>>

Keep(p, e) == result' = [result EXCEPT ![p] = IF @ = Nobody THEN e ELSE @]

\* The owner's select: an error, the closed channel, or the context. When two
\* are ready, either is chosen.
CollectError(p) ==
  /\ call[p] = "collecting" /\ errCh # <<>>
  /\ Keep(p, Head(errCh)) /\ errCh' = Tail(errCh)
  /\ UNCHANGED <<funcs, taken, owner, call, fstate, wg, chClosed, ctxDone,
                 doneCh>>

CollectEnd(p) ==
  /\ call[p] = "collecting" /\ errCh = <<>> /\ chClosed
  /\ Return(p)
  /\ UNCHANGED <<funcs, taken, owner, result, fstate, wg, errCh, chClosed,
                 ctxDone>>

\* Fault: the expired context is only logged.
CollectTimeoutSilent(p) ==
  /\ call[p] = "collecting" /\ ctxDone
  /\ Return(p)
  /\ UNCHANGED <<funcs, taken, owner, result, fstate, wg, errCh, chClosed,
                 ctxDone>>

\* Fault: the loop reads errors only.
CollectNoTimeout(p) == FALSE

CollectTimeout(p) ==
  /\ call[p] = "collecting" /\ ctxDone
  /\ Keep(p, CtxErr) /\ Return(p)
  /\ UNCHANGED <<funcs, taken, owner, fstate, wg, errCh, chClosed, ctxDone>>

Owner(p) == \/ TakeFuncs(p) \/ CollectError(p) \/ CollectEnd(p)
            \/ CollectTimeout(p)

Goroutine(f) == \/ CloseOk(f) \/ CloseFails(f) \/ SendError(f)
                \/ DoneAfterError(f)

Next == \/ \E f \in Funcs : Add(f) \/ Goroutine(f)
        \/ \E p \in Callers : Call(p) \/ WaiterReturns(p) \/ Owner(p)
        \/ HandlerLeaves \/ CloseChannel \/ CtxExpires

Spec == Init /\ [][Next]_vars

\* Goroutines that can go on do, and the context has a deadline. A close
\* function need not return.
Fairness == /\ \A p \in Callers : WF_vars(Owner(p)) /\ WF_vars(WaiterReturns(p))
            /\ \A f \in Funcs : WF_vars(SendError(f)) /\ WF_vars(DoneAfterError(f))
            /\ WF_vars(CloseChannel) /\ WF_vars(CtxExpires)

FairSpec == Spec /\ Fairness

-----------------------------------------------------------------------------
\* The domain of every variable.
TypeOK ==
  /\ funcs \in Seq(Funcs) /\ taken \in Seq(Funcs) /\ errCh \in Seq(Funcs)
  /\ owner \in Callers \cup {Nobody}
  /\ call \in [Callers -> {"idle", "entered", "waiting", "collecting",
                           "returned"}]
  /\ result \in [Callers -> Errors \cup {Nobody}]
  /\ fstate \in [Funcs -> {"new", "added", "running", "ok", "failing",
                           "sending", "sent"}]
  /\ wg \in 0 .. Cardinality(Funcs)
  /\ chClosed \in BOOLEAN /\ ctxDone \in BOOLEAN /\ doneCh \in BOOLEAN

\* No goroutine sends on the closed error channel, which would panic outside
\* its recover: the error is sent before the wait group is left, on the path
\* of an error and on that of a panic, also when CloseAll gave up long ago.
NoSendAfterClose ==
  chClosed => \A f \in Funcs : fstate[f] \notin {"running", "failing", "sending"}

\* The call that did the work returns nil only if every function it took ended
\* without error: neither an expired context nor a late failure is hidden.
NilMeansAllClosed ==
  \A p \in Callers :
    owner = p /\ call[p] = "returned" /\ result[p] = Nobody =>
      \A i \in DOMAIN taken : fstate[taken[i]] = "ok"

\* Every call of CloseAll returns, even if some close function never does.
CloseAllReturns ==
  \A p \in Callers : call[p] \in {"entered", "waiting"} ~> call[p] = "returned"
=============================================================================
