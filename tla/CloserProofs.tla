---------------------------- MODULE CloserProofs ----------------------------
(***************************************************************************)
(* What Closer guarantees for any number of close functions and of callers *)
(* of CloseAll: the wait group counts the goroutines that still run, so    *)
(* the error channel is closed behind the last of them, and no error is    *)
(* lost on its way to the result.                                          *)
(***************************************************************************)
EXTENDS Closer, FiniteSetTheorems, SequenceTheorems, TLAPS

\* Functions that are registered, and functions whose goroutine is in the
\* wait group.
Added == {f \in Funcs : fstate[f] = "added"}
Busy == {f \in Funcs : fstate[f] \in {"running", "failing", "sending"}}

Elems(s) == {s[i] : i \in 1 .. Len(s)}

\* The domains, but for the counter.
Domains ==
  /\ funcs \in Seq(Funcs) /\ taken \in Seq(Funcs) /\ errCh \in Seq(Funcs)
  /\ owner \in Callers \cup {Nobody}
  /\ call \in [Callers -> {"idle", "entered", "waiting", "collecting",
                           "returned"}]
  /\ result \in [Callers -> Errors \cup {Nobody}]
  /\ fstate \in [Funcs -> {"new", "added", "running", "ok", "failing",
                           "sending", "sent"}]
  /\ chClosed \in BOOLEAN /\ ctxDone \in BOOLEAN /\ doneCh \in BOOLEAN

\* One caller is inside once.Do at most, and takes the functions once.
OneOwner ==
  /\ \A p \in Callers : call[p] \in {"entered", "collecting"} => p = owner
  /\ owner # Nobody => call[owner] \in {"entered", "collecting", "returned"}
  /\ owner = Nobody => taken = <<>>
  /\ owner # Nobody /\ call[owner] = "entered" => taken = <<>>
  /\ taken = <<>> => \A f \in Funcs : fstate[f] \in {"new", "added"}

\* The registered functions are those in the list, and none is listed twice;
\* the functions that were taken have been started.
Listed ==
  /\ Elems(funcs) = Added
  /\ Len(funcs) = Cardinality(Added)
  /\ \A f \in Elems(taken) : fstate[f] \notin {"new", "added"}

\* The wait group counts the goroutines that have not left it, and the
\* channel is closed when there is none.
Counted ==
  /\ wg = Cardinality(Busy)
  /\ chClosed => Busy = {} /\ taken # <<>>

\* An error that was sent is in the channel, unless the owner already has one.
ErrorsAreKept ==
  owner # Nobody =>
    \/ result[owner] # Nobody
    \/ \A f \in Funcs : fstate[f] \in {"sending", "sent"} => f \in Elems(errCh)

\* The inductive invariant.
IInv == Domains /\ OneOwner /\ Listed /\ Counted /\ ErrorsAreKept
          /\ NilMeansAllClosed

-----------------------------------------------------------------------------
\* What a sequence holds after Append, and at the beginning.
LEMMA AppendElems ==
  ASSUME NEW S, NEW s \in Seq(S), NEW e \in S
  PROVE  /\ Append(s, e) \in Seq(S)
         /\ Append(s, e) # <<>>
         /\ Len(Append(s, e)) = Len(s) + 1
         /\ Elems(Append(s, e)) = Elems(s) \cup {e}
<1> DEFINE t == Append(s, e)
<1>1. /\ t \in Seq(S) /\ t # <<>> /\ Len(t) = Len(s) + 1
      /\ \A i \in 1 .. Len(s) : t[i] = s[i]
      /\ t[Len(s) + 1] = e
  BY AppendProperties
<1>2. Len(s) \in Nat
  BY LenProperties
<1> HIDE DEF t
<1>3. Elems(t) \subseteq Elems(s) \cup {e}
  BY <1>1, <1>2 DEF Elems
<1>4. Elems(s) \cup {e} \subseteq Elems(t)
  BY <1>1, <1>2 DEF Elems
<1> QED BY <1>1, <1>3, <1>4 DEF t

\* Nothing is in the empty sequence.
LEMMA EmptyElems == Elems(<<>>) = {}
BY EmptySeq DEF Elems

\* A sequence that is not empty holds something.
LEMMA SomeElem ==
  ASSUME NEW S, NEW s \in Seq(S), s # <<>>
  PROVE  Len(s) \in Nat \ {0} /\ Head(s) \in S /\ Tail(s) \in Seq(S)
BY EmptySeq, HeadTailProperties

\* A list and its domain.
LEMMA ElemsDomain ==
  ASSUME NEW S, NEW s \in Seq(S)
  PROVE  /\ DOMAIN s = 1 .. Len(s)
         /\ Elems(s) = {s[i] : i \in DOMAIN s}
         /\ Elems(s) \subseteq S
BY LenProperties DEF Elems

\* Sets of functions are finite.
LEMMA SetsAreFinite ==
  /\ IsFiniteSet(Added) /\ IsFiniteSet(Busy)
  /\ Cardinality(Busy) \in 0 .. Cardinality(Funcs)
  /\ Cardinality(Added) \in Nat
<1>1. Added \in SUBSET Funcs /\ Busy \in SUBSET Funcs
  BY DEF Added, Busy
<1> QED BY <1>1, FuncsAreFinite, FS_Subset, FS_CardinalityType

\* The initial state satisfies the inductive invariant.
LEMMA InitInv == Init => IInv
<1> SUFFICES ASSUME Init PROVE IInv
  OBVIOUS
<1>1. Domains
  BY EmptySeq DEF Init, Domains
<1>2. OneOwner
  BY NobodyIsFresh DEF Init, OneOwner
<1>3. Added = {} /\ Busy = {}
  BY DEF Init, Added, Busy
<1>4. Listed /\ Counted
  BY <1>3, EmptyElems, EmptySeq, FS_EmptySet DEF Init, Listed, Counted
<1>5. ErrorsAreKept /\ NilMeansAllClosed
  BY NobodyIsFresh DEF Init, ErrorsAreKept, NilMeansAllClosed
<1> QED BY <1>1, <1>2, <1>4, <1>5 DEF IInv

\* Add registers a function that is not in the list.
LEMMA AddSound ==
  ASSUME IInv, NEW f \in Funcs, Add(f)
  PROVE  IInv'
<1> USE DEF IInv, Domains
<1>1. /\ funcs' \in Seq(Funcs) /\ Elems(funcs') = Elems(funcs) \cup {f}
      /\ Len(funcs') = Len(funcs) + 1
  BY AppendElems DEF Add
<1>2. Domains'
  BY <1>1 DEF Add
<1>3. OneOwner'
  BY DEF Add, OneOwner
<1>4. Added' = Added \cup {f} /\ f \notin Added /\ Busy' = Busy
  BY DEF Add, Added, Busy
<1>5. Cardinality(Added') = Cardinality(Added) + 1
  BY <1>4, SetsAreFinite, FS_AddElement
<1>6. \A x \in Elems(taken) : fstate'[x] \notin {"new", "added"}
  BY ElemsDomain DEF Add, Listed
<1>7. Listed'
  BY <1>1, <1>4, <1>5, <1>6 DEF Listed, Add
<1>8. Counted'
  BY <1>4 DEF Add, Counted
<1>9. ErrorsAreKept'
  BY DEF Add, ErrorsAreKept
<1>10. NilMeansAllClosed'
  <2>1. \A x \in Funcs : fstate[x] = "ok" => fstate'[x] = "ok"
    BY DEF Add
  <2> QED BY <2>1, ElemsDomain DEF Add, NilMeansAllClosed
<1> QED BY <1>2, <1>3, <1>7, <1>8, <1>9, <1>10

\* A step that leaves the functions and the channel alone.
LEMMA OthersSound ==
  ASSUME IInv,
         UNCHANGED <<funcs, taken, fstate, wg, errCh>>
  PROVE  /\ Listed' /\ Added' = Added /\ Busy' = Busy
         /\ chClosed' = chClosed => Counted'
<1>1. Added' = Added /\ Busy' = Busy
  BY DEF Added, Busy
<1>2. Elems(funcs') = Elems(funcs) /\ Elems(taken') = Elems(taken)
  BY DEF Elems
<1>3. Listed'
  BY <1>1, <1>2 DEF IInv, Listed
<1>4. chClosed' = chClosed => Counted'
  BY <1>1 DEF IInv, Counted
<1> QED BY <1>1, <1>3, <1>4

\* A call of CloseAll enters or waits.
LEMMA CallSound ==
  ASSUME IInv, NEW p \in Callers, Call(p)
  PROVE  IInv'
<1> USE DEF IInv, Domains
<1>1. Listed' /\ Counted'
  BY OthersSound DEF Call
<1>2. Domains' /\ OneOwner'
  <2>1. CASE owner = Nobody
    BY <2>1, NobodyIsFresh DEF Call, OneOwner
  <2>2. CASE owner # Nobody
    BY <2>2, NobodyIsFresh DEF Call, OneOwner
  <2> QED BY <2>1, <2>2
<1>3. ErrorsAreKept'
  BY NobodyIsFresh DEF Call, ErrorsAreKept, OneOwner
<1>4. NilMeansAllClosed'
  BY NobodyIsFresh DEF Call, NilMeansAllClosed, OneOwner
<1> QED BY <1>1, <1>2, <1>3, <1>4

\* Who did no work leaves, or the context expires.
LEMMA QuietSound ==
  ASSUME IInv,
         HandlerLeaves \/ CtxExpires \/ \E p \in Callers : WaiterReturns(p)
  PROVE  IInv'
<1> USE DEF IInv, Domains
<1>1. Listed' /\ Counted'
  BY OthersSound DEF HandlerLeaves, WaiterReturns, CtxExpires
<1>2. CASE CtxExpires
  BY <1>1, <1>2 DEF CtxExpires, OneOwner, ErrorsAreKept, NilMeansAllClosed
<1>3. ASSUME NEW p \in Callers, call[p] \in {"idle", "waiting"},
             call' = [call EXCEPT ![p] = "returned"],
             UNCHANGED <<funcs, taken, owner, result, fstate, wg, errCh,
                         chClosed, ctxDone, doneCh>>
      PROVE  IInv'
  <2>1. p # owner
    BY <1>3, NobodyIsFresh DEF OneOwner
  <2>2. OneOwner'
    BY <1>3, <2>1 DEF OneOwner
  <2>3. ErrorsAreKept' /\ NilMeansAllClosed'
    BY <1>3, <2>1 DEF ErrorsAreKept, NilMeansAllClosed
  <2> QED BY <1>1, <1>3, <2>2, <2>3
<1>4. ASSUME NEW p \in Callers, WaiterReturns(p) PROVE IInv'
  BY <1>3, <1>4 DEF WaiterReturns
<1>5. CASE HandlerLeaves
  BY <1>3, <1>5, HandlerIsCaller DEF HandlerLeaves
<1> QED BY <1>2, <1>4, <1>5

\* The owner starts a goroutine for each function of the list: as many as are
\* added to the wait group.
LEMMA TakeSound ==
  ASSUME IInv, NEW p \in Callers, TakeFuncs(p)
  PROVE  IInv'
<1> USE DEF IInv, Domains
<1>1. p = owner /\ taken = <<>> /\ Busy = {}
      /\ \A f \in Funcs : fstate[f] \in {"new", "added"}
  BY NobodyIsFresh DEF TakeFuncs, OneOwner, Busy
<1>2. CASE funcs = <<>>
  <2>1. Listed' /\ Counted'
    BY <1>2, OthersSound DEF TakeFuncs
  <2>2. Domains' /\ OneOwner'
    BY <1>1, <1>2, NobodyIsFresh DEF TakeFuncs, Return, OneOwner
  <2>3. ErrorsAreKept' /\ NilMeansAllClosed'
    BY <1>1, <1>2, EmptySeq, ElemsDomain
       DEF TakeFuncs, ErrorsAreKept, NilMeansAllClosed
  <2> QED BY <2>1, <2>2, <2>3
<1>3. CASE funcs # <<>>
  <2>1. taken' = funcs /\ funcs' = <<>> /\ wg' = Len(funcs)
        /\ call' = [call EXCEPT ![p] = "collecting"]
        /\ UNCHANGED <<owner, result, errCh, chClosed, ctxDone, doneCh>>
    BY <1>3 DEF TakeFuncs
  <2>2. fstate' = [f \in Funcs |-> IF f \in Added THEN "running" ELSE fstate[f]]
    <3>1. \A f \in Funcs : f \in Added <=> \E i \in DOMAIN funcs : funcs[i] = f
      <4>1. Added = Elems(funcs) /\ funcs \in Seq(Funcs)
        BY DEF Listed
      <4>2. Elems(funcs) = {funcs[i] : i \in DOMAIN funcs}
        BY <4>1, ElemsDomain
      <4> QED BY <4>1, <4>2
    <3> QED BY <1>3, <3>1 DEF TakeFuncs
  <2>3. Busy' = Added /\ Added' = {}
    BY <1>1, <2>2 DEF Busy, Added
  <2>4. Domains'
    BY <2>1, <2>2, EmptySeq
  <2>5. OneOwner'
    BY <1>1, <1>3, <2>1, NobodyIsFresh DEF OneOwner
  <2>6. \A f \in Elems(taken') : fstate'[f] = "running"
    BY <2>1, <2>2, ElemsDomain DEF Listed
  <2>7. Listed'
    BY <2>1, <2>3, <2>6, EmptyElems, EmptySeq, FS_EmptySet DEF Listed
  <2>8. Counted'
    BY <1>1, <2>1, <2>3 DEF Counted, Listed
  <2>9. ErrorsAreKept'
    BY <1>1, <2>1, <2>2 DEF ErrorsAreKept
  <2>10. NilMeansAllClosed'
    BY <1>1, <2>1 DEF NilMeansAllClosed
  <2> QED BY <2>4, <2>5, <2>7, <2>8, <2>9, <2>10
<1> QED BY <1>2, <1>3

\* What a goroutine may do to its own function: it leaves the wait group with
\* the counter, or stays in it.
LEMMA GoroutineSound ==
  ASSUME IInv, NEW f \in Busy, NEW st,
         st \in {"ok", "failing", "sending", "sent"},
         fstate' = [fstate EXCEPT ![f] = st],
         UNCHANGED <<funcs, taken, owner, call, result, chClosed, ctxDone, doneCh>>,
         errCh' \in Seq(Funcs), Elems(errCh) \subseteq Elems(errCh'),
         st \in {"sending", "sent"} => f \in Elems(errCh') \/ fstate[f] = "sending",
         wg' = IF st \in {"ok", "sent"} THEN wg - 1 ELSE wg
  PROVE  IInv'
<1> USE DEF IInv, Domains
<1>1. f \in Funcs /\ fstate[f] \in {"running", "failing", "sending"}
  BY DEF Busy
<1>2. Domains'
  BY <1>1
<1>3. OneOwner'
  BY <1>1 DEF OneOwner
<1>4. Added' = Added
  BY <1>1 DEF Added
<1>5. Elems(funcs') = Elems(funcs) /\ Elems(taken') = Elems(taken)
      /\ Elems(taken) \subseteq Funcs
  BY ElemsDomain DEF Elems
<1>6. Listed'
  BY <1>1, <1>4, <1>5 DEF Listed
<1>7. Busy' = IF st \in {"ok", "sent"} THEN Busy \ {f} ELSE Busy
  BY <1>1 DEF Busy
<1>8. wg' = Cardinality(Busy')
  BY <1>7, SetsAreFinite, FS_RemoveElement DEF Counted
<1>9. Counted'
  BY <1>8 DEF Counted
<1>10. ErrorsAreKept'
  BY <1>1 DEF ErrorsAreKept
<1>11. NilMeansAllClosed'
  <2>1. \A x \in Funcs : fstate[x] = "ok" => fstate'[x] = "ok"
    BY <1>1
  <2> QED BY <2>1, ElemsDomain DEF NilMeansAllClosed
<1> QED BY <1>2, <1>3, <1>6, <1>9, <1>10, <1>11

\* The goroutine closes, fails, sends its error and leaves the wait group, in
\* this order.
LEMMA CloseSound ==
  ASSUME IInv, NEW f \in Funcs, Goroutine(f)
  PROVE  IInv'
<1>1. CASE CloseOk(f)
  <2>1. f \in Busy /\ errCh' = errCh /\ errCh \in Seq(Funcs)
    BY <1>1 DEF CloseOk, Busy, IInv, Domains
  <2> QED BY <1>1, <2>1, GoroutineSound DEF CloseOk
<1>2. CASE CloseFails(f)
  <2>1. f \in Busy /\ errCh' = errCh /\ errCh \in Seq(Funcs)
    BY <1>2 DEF CloseFails, Busy, IInv, Domains
  <2> QED BY <1>2, <2>1, GoroutineSound DEF CloseFails
<1>3. CASE SendError(f)
  <2>1. f \in Busy /\ errCh' \in Seq(Funcs)
        /\ Elems(errCh') = Elems(errCh) \cup {f}
    BY <1>3, AppendElems DEF SendError, Busy, IInv, Domains
  <2> QED BY <1>3, <2>1, GoroutineSound DEF SendError
<1>4. CASE DoneAfterError(f)
  <2>1. f \in Busy /\ errCh' = errCh /\ errCh \in Seq(Funcs)
    BY <1>4 DEF DoneAfterError, Busy, IInv, Domains
  <2> QED BY <1>4, <2>1, GoroutineSound DEF DoneAfterError
<1> QED BY <1>1, <1>2, <1>3, <1>4 DEF Goroutine

\* The channel is closed when the wait group is empty, that is, when no
\* goroutine is left to send.
LEMMA CloseChannelSound ==
  ASSUME IInv, CloseChannel
  PROVE  IInv'
<1> USE DEF IInv, Domains
<1>1. Busy = {} /\ taken # <<>>
  BY SetsAreFinite, FS_EmptySet DEF CloseChannel, Counted
<1>2. Listed' /\ Busy' = Busy
  BY OthersSound DEF CloseChannel
<1>3. Counted'
  BY <1>1, <1>2 DEF CloseChannel, Counted
<1>4. Domains' /\ OneOwner'
  BY DEF CloseChannel, OneOwner
<1>5. ErrorsAreKept' /\ NilMeansAllClosed'
  BY DEF CloseChannel, ErrorsAreKept, NilMeansAllClosed
<1> QED BY <1>2, <1>3, <1>4, <1>5

\* The first error the owner reads, or the end of its context, stays its
\* result.
LEMMA KeepSound ==
  ASSUME Domains, NEW p \in Callers, NEW e \in Errors, Keep(p, e)
  PROVE  result' \in [Callers -> Errors \cup {Nobody}] /\ result'[p] # Nobody
<1>1. e # Nobody
  BY NobodyIsFresh DEF Errors
<1> QED BY <1>1 DEF Domains, Keep

\* The owner's select.
LEMMA CollectSound ==
  ASSUME IInv, NEW p \in Callers,
         CollectError(p) \/ CollectEnd(p) \/ CollectTimeout(p)
  PROVE  IInv'
<1> USE DEF IInv, Domains
<1>1. call[p] = "collecting" /\ p = owner /\ owner # Nobody
  BY NobodyIsFresh DEF CollectError, CollectEnd, CollectTimeout, OneOwner
<1>2. Elems(funcs') = Elems(funcs) /\ Elems(taken') = Elems(taken)
      /\ Added' = Added /\ Busy' = Busy
  BY DEF CollectError, CollectEnd, CollectTimeout, Elems, Added, Busy
<1>3. Listed' /\ Counted'
  BY <1>2 DEF CollectError, CollectEnd, CollectTimeout, Listed, Counted
<1>4. CASE CollectError(p)
  <2>1. Head(errCh) \in Errors /\ errCh' \in Seq(Funcs)
    BY <1>4, SomeElem DEF CollectError, Errors
  <2>2. result' \in [Callers -> Errors \cup {Nobody}] /\ result'[p] # Nobody
    BY <1>4, <2>1, KeepSound DEF CollectError
  <2>3. Domains' /\ OneOwner'
    BY <1>4, <2>1, <2>2 DEF CollectError, OneOwner
  <2>4. ErrorsAreKept' /\ NilMeansAllClosed'
    BY <1>1, <1>4, <2>2 DEF CollectError, ErrorsAreKept, NilMeansAllClosed
  <2> QED BY <1>3, <2>3, <2>4
<1>5. CASE CollectTimeout(p)
  <2>1. result' \in [Callers -> Errors \cup {Nobody}] /\ result'[p] # Nobody
    BY <1>5, KeepSound DEF CollectTimeout, Errors
  <2>2. Domains' /\ OneOwner'
    BY <1>1, <1>5, <2>1 DEF CollectTimeout, Return, OneOwner
  <2>3. ErrorsAreKept' /\ NilMeansAllClosed'
    BY <1>1, <1>5, <2>1
       DEF CollectTimeout, Return, ErrorsAreKept, NilMeansAllClosed
  <2> QED BY <1>3, <2>2, <2>3
<1>6. CASE CollectEnd(p)
  <2>1. Domains' /\ OneOwner'
    BY <1>1, <1>6 DEF CollectEnd, Return, OneOwner
  <2>2. ErrorsAreKept'
    BY <1>6 DEF CollectEnd, ErrorsAreKept, Elems
  <2>3. ASSUME result[p] = Nobody, NEW i \in DOMAIN taken
        PROVE  fstate[taken[i]] = "ok"
    <3>1. taken[i] \in Funcs /\ taken[i] \in Elems(taken)
      BY <2>3, ElemsDomain
    <3>2. fstate[taken[i]] \notin {"new", "added", "running", "failing", "sending"}
      BY <1>6, <3>1 DEF CollectEnd, Listed, Counted, Busy
    <3>3. fstate[taken[i]] \notin {"sending", "sent"}
      BY <1>1, <1>6, <2>3, <3>1, EmptyElems DEF CollectEnd, ErrorsAreKept
    <3> QED BY <3>1, <3>2, <3>3
  <2>4. NilMeansAllClosed'
    BY <1>1, <1>6, <2>3 DEF CollectEnd, Return, NilMeansAllClosed
  <2> QED BY <1>3, <2>1, <2>2, <2>4
<1> QED BY <1>4, <1>5, <1>6

\* The inductive invariant holds in every run of the closer: the wait group
\* counts the goroutines and no error gets lost.
THEOREM Invariance == Spec => []IInv
<1>1. ASSUME IInv, [Next]_vars PROVE IInv'
  <2>1. CASE UNCHANGED vars
    BY <1>1, <2>1, OthersSound
       DEF vars, IInv, Domains, OneOwner, ErrorsAreKept, NilMeansAllClosed, Elems
  <2>2. ASSUME NEW f \in Funcs, Add(f) \/ Goroutine(f) PROVE IInv'
    BY <1>1, <2>2, AddSound, CloseSound
  <2>3. ASSUME NEW p \in Callers, Call(p) \/ Owner(p) PROVE IInv'
    BY <1>1, <2>3, CallSound, TakeSound, CollectSound DEF Owner
  <2>4. CASE HandlerLeaves \/ CtxExpires \/ \E p \in Callers : WaiterReturns(p)
    BY <1>1, <2>4, QuietSound
  <2>5. CASE CloseChannel
    BY <1>1, <2>5, CloseChannelSound
  <2> QED BY <1>1, <2>1, <2>2, <2>3, <2>4, <2>5 DEF Next
<1> QED BY InitInv, <1>1, PTL DEF Spec

\* Every variable keeps its domain; in particular the wait group never counts
\* below zero, which would panic.
THEOREM TypeInvariance == Spec => []TypeOK
<1>1. IInv => TypeOK
  BY SetsAreFinite DEF IInv, Domains, Counted, TypeOK
<1> QED BY Invariance, <1>1, PTL

\* No goroutine of CloseAll sends on the closed channel of errors.
THEOREM NothingIsSentOnClosed == Spec => []NoSendAfterClose
<1>1. IInv => NoSendAfterClose
  BY DEF IInv, Counted, Busy, NoSendAfterClose
<1> QED BY Invariance, <1>1, PTL

\* CloseAll returns nil to the caller that did the work only when every
\* function it took ended without an error.
THEOREM NilIsHonest == Spec => []NilMeansAllClosed
<1>1. IInv => NilMeansAllClosed
  BY DEF IInv
<1> QED BY Invariance, <1>1, PTL

-----------------------------------------------------------------------------
(* Who returns, with what, and which functions ran. *)

\* The working call is done when c.done is closed, and then it waits for no
\* function unless its context is done.
OwnerIsDone ==
  /\ doneCh => owner # Nobody /\ call[owner] = "returned"
  /\ owner # Nobody /\ call[owner] = "returned" =>
       /\ doneCh
       /\ ctxDone \/ \A i \in DOMAIN taken : fstate[taken[i]] \in {"ok", "sent"}

\* Nobody returns from CloseAll before the call that does the work, and that
\* one returns when every function it took is over, or at its deadline.
NobodyLeavesEarly ==
  \A p \in Callers : call[p] = "returned" =>
    /\ owner # Nobody /\ call[owner] = "returned"
    /\ ctxDone \/ \A i \in DOMAIN taken : fstate[taken[i]] \in {"ok", "sent"}

\* An error is the owner's alone, and it is the error of a function that failed
\* or that of a context that is done.
ErrorsAreTrue ==
  \A p \in Callers : result[p] # Nobody =>
    /\ p = owner
    /\ result[p] \in Funcs => fstate[result[p]] \in {"sending", "sent"}
    /\ result[p] = CtxErr => ctxDone

\* What the channel holds was sent.
SentIsFailed == \A f \in Elems(errCh) : fstate[f] \in {"sending", "sent"}

LeaveInv == OwnerIsDone /\ NobodyLeavesEarly /\ ErrorsAreTrue /\ SentIsFailed

\* Before CloseAll.
LEMMA InitLeave == Init => LeaveInv
BY EmptyElems, NobodyIsFresh
   DEF Init, LeaveInv, OwnerIsDone, NobodyLeavesEarly, ErrorsAreTrue, SentIsFailed

\* What the head and the tail of a list hold.
LEMMA TailElems ==
  ASSUME NEW S, NEW s \in Seq(S), s # <<>>
  PROVE  Head(s) \in Elems(s) /\ Elems(Tail(s)) \subseteq Elems(s)
<1>1. /\ Len(s) \in Nat \ {0} /\ Head(s) = s[1]
      /\ Len(Tail(s)) = Len(s) - 1
      /\ \A i \in 1 .. Len(Tail(s)) : Tail(s)[i] = s[i + 1]
  BY EmptySeq, HeadTailProperties
<1>2. Head(s) \in Elems(s)
  BY <1>1 DEF Elems
<1>3. ASSUME NEW i \in 1 .. Len(Tail(s)) PROVE Tail(s)[i] \in Elems(s)
  BY <1>1, <1>3 DEF Elems
<1> QED BY <1>2, <1>3 DEF Elems

\* A function that is over or has sent its error stays so.
LEMMA EndedStays ==
  ASSUME IInv, [Next]_vars, NEW f \in Funcs
  PROVE  /\ fstate[f] \in {"ok", "sent"} => fstate'[f] \in {"ok", "sent"}
         /\ fstate[f] \in {"sending", "sent"} => fstate'[f] \in {"sending", "sent"}
<1> USE DEF IInv, Domains
<1>1. ASSUME NEW g \in Funcs, Add(g) \/ Goroutine(g)
      PROVE  /\ fstate[f] \in {"ok", "sent"} => fstate'[f] \in {"ok", "sent"}
             /\ fstate[f] \in {"sending", "sent"} => fstate'[f] \in {"sending", "sent"}
  BY <1>1 DEF Add, Goroutine, CloseOk, CloseFails, SendError, DoneAfterError
<1>2. ASSUME NEW p \in Callers, TakeFuncs(p)
      PROVE  fstate[f] \in {"new", "added"}
  BY <1>2, NobodyIsFresh DEF TakeFuncs, OneOwner
<1>3. ASSUME NEW p \in Callers,
             \/ Call(p) \/ WaiterReturns(p) \/ CollectError(p) \/ CollectEnd(p)
             \/ CollectTimeout(p)
      PROVE  fstate' = fstate
  BY <1>3 DEF Call, WaiterReturns, CollectError, CollectEnd, CollectTimeout
<1>4. CASE HandlerLeaves \/ CloseChannel \/ CtxExpires \/ UNCHANGED vars
  BY <1>4 DEF HandlerLeaves, CloseChannel, CtxExpires, vars
<1> QED BY <1>1, <1>2, <1>3, <1>4 DEF Next, Owner

\* What was taken, who returned and what was read stays as it is in the steps of
\* the functions, of the channel and of the deadline.
LEMMA LeaveStays ==
  ASSUME IInv, LeaveInv, [Next]_vars,
         UNCHANGED <<taken, owner, call, result, doneCh>>, ctxDone => ctxDone',
         Elems(errCh') \subseteq {f \in Funcs : f \in Elems(errCh) \/ fstate'[f] = "sending"}
  PROVE  LeaveInv'
<1> USE DEF IInv, Domains, LeaveInv
<1>1. \A i \in DOMAIN taken : taken[i] \in Funcs
  BY ElemsDomain
<1>2. (\A i \in DOMAIN taken : fstate[taken[i]] \in {"ok", "sent"}) =>
        \A i \in DOMAIN taken' : fstate'[taken'[i]] \in {"ok", "sent"}
  BY <1>1, EndedStays
<1>3. OwnerIsDone'
  BY <1>2 DEF OwnerIsDone
<1>4. NobodyLeavesEarly'
  BY <1>2 DEF NobodyLeavesEarly
<1>5. ErrorsAreTrue'
  BY EndedStays DEF ErrorsAreTrue
<1>6. SentIsFailed'
  BY EndedStays DEF SentIsFailed
<1> QED BY <1>3, <1>4, <1>5, <1>6

\* A caller that did no work leaves only after the working call.
LEMMA WaiterLeaves ==
  ASSUME IInv, LeaveInv, NEW p \in Callers,
         call[p] \in {"waiting", "idle"}, doneCh,
         call' = [call EXCEPT ![p] = "returned"],
         UNCHANGED <<funcs, taken, owner, result, fstate, wg, errCh, chClosed,
                     ctxDone, doneCh>>
  PROVE  LeaveInv'
BY DEF IInv, Domains, LeaveInv, OwnerIsDone, NobodyLeavesEarly, ErrorsAreTrue,
       SentIsFailed, Elems

\* Entering once.Do or waiting for it.
LEMMA CallLeaves ==
  ASSUME IInv, LeaveInv, NEW p \in Callers, Call(p)
  PROVE  LeaveInv'
<1> USE NobodyIsFresh DEF IInv, Domains, LeaveInv
<1>1. /\ UNCHANGED <<funcs, taken, result, fstate, errCh, ctxDone, doneCh>>
      /\ call[p] = "idle"
      /\ \/ owner = Nobody /\ owner' = p /\ call' = [call EXCEPT ![p] = "entered"]
         \/ owner # Nobody /\ owner' = owner /\ call' = [call EXCEPT ![p] = "waiting"]
  BY DEF Call
<1>2. OwnerIsDone' /\ NobodyLeavesEarly'
  BY <1>1 DEF OwnerIsDone, NobodyLeavesEarly, OneOwner
<1>3. ErrorsAreTrue'
  BY <1>1 DEF ErrorsAreTrue
<1>4. SentIsFailed'
  BY <1>1 DEF SentIsFailed, Elems
<1> QED BY <1>2, <1>3, <1>4

\* The owner starts the functions, or has none to start.
LEMMA TakeLeaves ==
  ASSUME IInv, LeaveInv, [Next]_vars, NEW p \in Callers, TakeFuncs(p)
  PROVE  LeaveInv'
<1> USE DEF IInv, Domains, LeaveInv
<1>1. /\ call[p] = "entered" /\ p = owner /\ owner # Nobody /\ taken = <<>>
      /\ UNCHANGED <<owner, result, errCh, ctxDone>>
  BY NobodyIsFresh DEF TakeFuncs, OneOwner
<1>2. ErrorsAreTrue'
  BY <1>1, EndedStays DEF ErrorsAreTrue
<1>3. SentIsFailed'
  <2>1. Elems(errCh') = Elems(errCh) /\ Elems(errCh) \subseteq Funcs
    BY <1>1, ElemsDomain DEF Elems
  <2> QED BY <2>1, EndedStays DEF SentIsFailed
<1>4. OwnerIsDone' /\ NobodyLeavesEarly'
  <2>1. CASE funcs = <<>>
    <3>1. taken' = <<>> /\ doneCh' /\ call' = [call EXCEPT ![p] = "returned"]
      BY <1>1, <2>1 DEF TakeFuncs, Return
    <3>2. DOMAIN taken' = {}
      BY <3>1
    <3> QED BY <1>1, <3>1, <3>2 DEF OwnerIsDone, NobodyLeavesEarly
  <2>2. CASE funcs # <<>>
    <3>1. doneCh' = doneCh /\ call' = [call EXCEPT ![p] = "collecting"]
      BY <2>2 DEF TakeFuncs
    <3> QED BY <1>1, <3>1 DEF OwnerIsDone, NobodyLeavesEarly
  <2> QED BY <2>1, <2>2
<1> QED BY <1>2, <1>3, <1>4

\* The owner returns when the channel is closed behind all functions, or at the
\* end of its context.
LEMMA CollectLeaves ==
  ASSUME IInv, LeaveInv, NEW p \in Callers,
         CollectError(p) \/ CollectEnd(p) \/ CollectTimeout(p)
  PROVE  LeaveInv'
<1> USE DEF IInv, Domains, LeaveInv
<1>1. /\ call[p] = "collecting" /\ p = owner /\ owner # Nobody
      /\ UNCHANGED <<taken, owner, fstate, ctxDone>>
      /\ \A q \in Callers \ {p} : call'[q] = call[q] /\ result'[q] = result[q]
  BY NobodyIsFresh
     DEF CollectError, CollectEnd, CollectTimeout, Return, Keep, OneOwner
<1>2. CASE CollectError(p)
  <2>1. Head(errCh) \in Elems(errCh) /\ Elems(errCh') \subseteq Elems(errCh)
    BY <1>2, TailElems DEF CollectError
  <2>2. /\ Head(errCh) \in Funcs /\ Head(errCh) # CtxErr
        /\ fstate[Head(errCh)] \in {"sending", "sent"}
    BY <2>1, ElemsDomain, CtxErrIsFresh DEF SentIsFailed
  <2>3. UNCHANGED <<call, doneCh>> /\ result'[p] \in {result[p], Head(errCh)}
    BY <1>2 DEF CollectError, Keep
  <2>4. ErrorsAreTrue'
    BY <1>1, <2>2, <2>3 DEF ErrorsAreTrue
  <2>5. OwnerIsDone' /\ NobodyLeavesEarly'
    BY <1>1, <2>3 DEF OwnerIsDone, NobodyLeavesEarly
  <2>6. SentIsFailed'
    BY <1>1, <2>1 DEF SentIsFailed
  <2> QED BY <2>4, <2>5, <2>6
<1>3. CASE CollectEnd(p)
  <2>1. UNCHANGED <<errCh, result>> /\ call'[p] = "returned" /\ doneCh'
    BY <1>3 DEF CollectEnd, Return
  <2>2. ASSUME NEW i \in DOMAIN taken PROVE fstate[taken[i]] \in {"ok", "sent"}
    <3>1. taken[i] \in Funcs /\ taken[i] \in Elems(taken)
      BY ElemsDomain
    <3>2. fstate[taken[i]] \notin {"new", "added", "running", "failing", "sending"}
      BY <1>3, <3>1 DEF CollectEnd, Listed, Counted, Busy
    <3> QED BY <3>1, <3>2
  <2>3. OwnerIsDone' /\ NobodyLeavesEarly'
    BY <1>1, <2>1, <2>2 DEF OwnerIsDone, NobodyLeavesEarly
  <2>4. ErrorsAreTrue' /\ SentIsFailed'
    BY <1>1, <2>1 DEF ErrorsAreTrue, SentIsFailed, Elems
  <2> QED BY <2>3, <2>4
<1>4. CASE CollectTimeout(p)
  <2>1. /\ errCh' = errCh /\ call'[p] = "returned" /\ doneCh' /\ ctxDone
        /\ result'[p] \in {result[p], CtxErr}
    BY <1>4 DEF CollectTimeout, Keep, Return
  <2>2. OwnerIsDone' /\ NobodyLeavesEarly'
    BY <1>1, <2>1 DEF OwnerIsDone, NobodyLeavesEarly
  <2>3. ErrorsAreTrue'
    BY <1>1, <2>1, CtxErrIsFresh DEF ErrorsAreTrue
  <2>4. SentIsFailed'
    BY <1>1, <2>1 DEF SentIsFailed, Elems
  <2> QED BY <2>2, <2>3, <2>4
<1> QED BY <1>2, <1>3, <1>4

\* Every step keeps it.
LEMMA NextLeaves == IInv /\ LeaveInv /\ [Next]_vars => LeaveInv'
<1> SUFFICES ASSUME IInv, LeaveInv, [Next]_vars PROVE LeaveInv'
  OBVIOUS
<1>1. ASSUME NEW f \in Funcs, Add(f) \/ Goroutine(f) PROVE LeaveInv'
  <2>1. UNCHANGED <<taken, owner, call, result, doneCh, ctxDone>>
    BY <1>1 DEF Add, Goroutine, CloseOk, CloseFails, SendError, DoneAfterError
  <2>2. CASE SendError(f)
    <3>1. Elems(errCh') = Elems(errCh) \cup {f} /\ fstate'[f] = "sending"
          /\ Elems(errCh) \subseteq Funcs
      BY <2>2, AppendElems, ElemsDomain DEF SendError, IInv, Domains
    <3> QED BY <2>1, <3>1, LeaveStays
  <2>3. CASE ~SendError(f)
    <3>1. errCh' = errCh
      BY <1>1, <2>3 DEF Add, Goroutine, CloseOk, CloseFails, DoneAfterError
    <3>2. Elems(errCh') = Elems(errCh) /\ Elems(errCh) \subseteq Funcs
      BY <3>1, ElemsDomain DEF IInv, Domains, Elems
    <3> QED BY <2>1, <3>2, LeaveStays
  <2> QED BY <2>2, <2>3
<1>2. CASE CloseChannel \/ CtxExpires \/ UNCHANGED vars
  <2>1. /\ UNCHANGED <<taken, owner, call, result, doneCh, errCh>>
        /\ ctxDone => ctxDone'
    BY <1>2 DEF CloseChannel, CtxExpires, vars
  <2>2. Elems(errCh') = Elems(errCh) /\ Elems(errCh) \subseteq Funcs
    BY <2>1, ElemsDomain DEF IInv, Domains, Elems
  <2> QED BY <2>1, <2>2, LeaveStays
<1>3. ASSUME NEW p \in Callers, WaiterReturns(p) PROVE LeaveInv'
  BY <1>3, WaiterLeaves DEF WaiterReturns
<1>4. CASE HandlerLeaves
  BY <1>4, WaiterLeaves, HandlerIsCaller DEF HandlerLeaves
<1>5. ASSUME NEW p \in Callers, Call(p) \/ Owner(p) PROVE LeaveInv'
  BY <1>5, CallLeaves, TakeLeaves, CollectLeaves DEF Owner
<1> QED BY <1>1, <1>2, <1>3, <1>4, <1>5 DEF Next

\* It holds in every run of the closer.
THEOREM LeaveInvariance == Spec => []LeaveInv
BY InitLeave, NextLeaves, Invariance, PTL DEF Spec

\* However the calls of CloseAll race, whoever returns from one may rely on it:
\* the functions are over or the deadline has passed. The safety half of
\* CloseAllReturns (sync.Once, CloseAll, handleSignals).
THEOREM CloseAllIsAwaited == Spec => []NobodyLeavesEarly
BY LeaveInvariance, PTL DEF LeaveInv

\* CloseAll reports what happened: an error it returns was returned by a
\* function it ran or stands for an expired context, and only the call that did
\* the work returns one (closeAll, the error channel).
THEOREM ReportsAreTrue == Spec => []ErrorsAreTrue
BY LeaveInvariance, PTL DEF LeaveInv

\* A function is started by the one take of the one working call, when it was
\* registered before it; what was taken never changes.
StartedOnce ==
  [][/\ taken # <<>> => taken' = taken
     /\ \A f \in Funcs : fstate'[f] = "running" /\ fstate[f] # "running" =>
          fstate[f] = "added" /\ taken = <<>>
     /\ \A f \in Funcs : fstate[f] \notin {"new", "added"} =>
          fstate'[f] \notin {"new", "added"}]_vars

\* No function is closed twice, however many goroutines call CloseAll, and none
\* that is added after the take is closed at all (sync.Once, CloseAll, Add).
THEOREM FunctionsRunOnce == Spec => StartedOnce
<1> DEFINE Once ==
      /\ taken # <<>> => taken' = taken
      /\ \A f \in Funcs : fstate'[f] = "running" /\ fstate[f] # "running" =>
           fstate[f] = "added" /\ taken = <<>>
      /\ \A f \in Funcs : fstate[f] \notin {"new", "added"} =>
           fstate'[f] \notin {"new", "added"}
<1>1. ASSUME IInv, [Next]_vars PROVE Once
  <2> USE <1>1 DEF IInv, Domains
  <2>1. ASSUME NEW g \in Funcs, Add(g) \/ Goroutine(g) PROVE Once
    BY <2>1 DEF Add, Goroutine, CloseOk, CloseFails, SendError, DoneAfterError
  <2>2. ASSUME NEW p \in Callers, TakeFuncs(p) PROVE Once
    <3>1. taken = <<>> /\ \A f \in Funcs : fstate[f] \in {"new", "added"}
      BY <2>2, NobodyIsFresh DEF TakeFuncs, OneOwner
    <3>2. \A i \in DOMAIN funcs : fstate[funcs[i]] = "added"
      BY ElemsDomain DEF Listed, Added
    <3> QED BY <2>2, <3>1, <3>2 DEF TakeFuncs
  <2>3. ASSUME NEW p \in Callers,
               \/ Call(p) \/ WaiterReturns(p) \/ CollectError(p)
               \/ CollectEnd(p) \/ CollectTimeout(p)
        PROVE  Once
    BY <2>3 DEF Call, WaiterReturns, CollectError, CollectEnd, CollectTimeout
  <2>4. CASE HandlerLeaves \/ CloseChannel \/ CtxExpires \/ UNCHANGED vars
    BY <2>4 DEF HandlerLeaves, CloseChannel, CtxExpires, vars
  <2> QED BY <2>1, <2>2, <2>3, <2>4 DEF Next, Owner
<1>2. IInv /\ [Next]_vars => [Once]_vars
  BY <1>1
<1> QED BY <1>2, Invariance, PTL DEF Spec, StartedOnce
=============================================================================
