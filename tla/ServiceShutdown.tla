-------------------------- MODULE ServiceShutdown ---------------------------
(***************************************************************************)
(* How each service of the system runs and stops: internal/app of order,   *)
(* notification and assembly, and of payment and inventory, which are gRPC *)
(* servers and share one form.                                             *)
(*                                                                         *)
(* main gives New and run a context that SIGINT or SIGTERM cancels. run    *)
(* starts workers in goroutines, waits in a way of its own, and leaves     *)
(* through a deferred gracefulShutdown, which closes what the container    *)
(* opened. A worker first asks the container for what it needs.            *)
(*                                                                         *)
(* Two things run outside the workers, and no closer waits for them: the   *)
(* calls a server has in flight, each in a goroutine of its connection,    *)
(* and the goroutine of the Telegram bot.                                  *)
(***************************************************************************)
EXTENDS ServiceStart

CONSTANT MaxCalls   \* bound on the calls a server has in flight

ASSUME MaxCallsIsNat == MaxCalls \in Nat

VARIABLES
  signal,    \* the context of main is cancelled
  group,     \* the context of the errgroup is cancelled
  worker,    \* worker[w]: where goroutine w is
  closed,    \* resources closed
  toClose,   \* the functions CloseAll took
  calls,     \* calls the server has in flight
  kept,      \* some client has a connection, which is good for more calls
  polling,   \* the goroutine of the bot runs
  crashed    \* some worker ended with an error of its own

outside == <<calls, kept, polling>>
vars == <<startVars, signal, group, worker, closed, toClose, outside, crashed>>

\* The runs that wait for all their goroutines, in an errgroup. The others
\* wait for a signal or one error.
UsesErrgroup(a) == a \in {"order", "notification"}

\* The runs that stop a gRPC server and do not call the closer.
IsGrpc(a) == a \in {"payment", "inventory"}

\* Fault: the consumers of notification watch the errgroup's parent.
CtxDoneRoot(w) == w # "server" /\ signal

\* The context worker w watches is done: the context of main for the order
\* and the assembly consumers, the errgroup's for those of notification. The
\* HTTP server and the gRPC server watch none.
CtxDone(w) == w # "server" /\ (signal \/ (app = "notification" /\ group))

-----------------------------------------------------------------------------
Running == main \in {"starting", "waiting", "closing"}   \* it is alive

ran == main # "starting" /\ step > Len(Inits[app])       \* run was called

Init ==
  /\ StartInit
  /\ signal = FALSE /\ group = FALSE
  /\ worker = [w \in AllWorkers |-> IF w \in Workers(app) THEN "asking" ELSE "ended"]
  /\ closed = {} /\ toClose = {}
  /\ calls = 0 /\ kept = FALSE /\ polling = FALSE
  /\ crashed = FALSE

\* SIGINT or SIGTERM.
Signal ==
  /\ ~signal /\ main \in {"starting", "waiting"}
  /\ signal' = TRUE
  /\ UNCHANGED <<startVars, group, worker, closed, toClose, outside, crashed>>

\* New runs the initialisers. At most a ping that is given the cancelled
\* context fails: nothing else looks at the signal. The last initialiser of
\* notification starts the goroutine of the bot.
New ==
  /\ Initialise \/ InitFails \/ InitPanics
  /\ polling' = (app = "notification" /\ main' = "waiting")
  /\ UNCHANGED <<signal, group, worker, closed, toClose, calls, kept, crashed>>

Asking(w) == ran /\ Running /\ worker[w] = "asking" /\ got[w] < Len(Asks(w))

Get(w) ==
  /\ Asking(w) /\ Gets(w)
  /\ UNCHANGED <<signal, group, worker, closed, toClose, outside, crashed>>

\* The getter finds a nil field: it is going to make the thing.
Miss(w) ==
  /\ Asking(w) /\ made[Asks(w)[got[w] + 1]] = 0
  /\ worker' = [worker EXCEPT ![w] = "making"]
  /\ UNCHANGED <<startVars, signal, group, closed, toClose, outside, crashed>>

Made(w) ==
  /\ Running /\ worker[w] = "making"
  /\ Makes(w)
  /\ worker' = [worker EXCEPT ![w] = "asking"]
  /\ UNCHANGED <<signal, group, closed, toClose, outside, crashed>>

\* It cannot be made: the container panics in the goroutine and the process
\* dies, with nothing closed.
MakePanics(w) ==
  /\ Running /\ worker[w] = "making" /\ Asks(w)[got[w] + 1] \in Resources
  /\ main' = "died"
  /\ UNCHANGED <<built, signal, group, worker, closed, toClose, outside, crashed>>

\* Worker w has what it needs and runs.
Start(w) ==
  /\ ran /\ Running
  /\ worker[w] = "asking" /\ got[w] = Len(Asks(w))
  /\ worker' = [worker EXCEPT ![w] = "running"]
  /\ UNCHANGED <<startVars, signal, group, closed, toClose, outside, crashed>>

\* A goroutine returns an error: in an errgroup that cancels the group, in
\* the others the goroutine reports it to run.
Returns(w) ==
  IF UsesErrgroup(app)
    THEN /\ worker' = [worker EXCEPT ![w] = "ended"]
         /\ group' = TRUE
    ELSE /\ worker' = [worker EXCEPT ![w] = "reporting"]
         /\ UNCHANGED group

\* Worker w fails by itself: the broker refuses the group, the port is taken.
Fails(w) ==
  /\ Running
  /\ worker[w] = "running"
  /\ crashed' = TRUE
  /\ Returns(w)
  /\ UNCHANGED <<startVars, signal, closed, toClose, outside>>

\* Worker w sees its context done and returns the context's error.
SeesCtx(w) ==
  /\ Running
  /\ worker[w] = "running" /\ CtxDone(w)
  /\ Returns(w)
  /\ UNCHANGED <<startVars, signal, closed, toClose, outside, crashed>>

\* Its consumer group, the first thing it got, was closed under it: Consume
\* returns nil.
SeesClosedGroup(w) ==
  /\ Running
  /\ worker[w] = "running" /\ w # "server"
  /\ got[w] > 0 /\ Asks(w)[1] \in closed
  /\ worker' = [worker EXCEPT ![w] = "ended"]
  /\ UNCHANGED <<startVars, signal, group, closed, toClose, outside, crashed>>

\* The reporter's select takes the cancelled context.
DropsReport(w) ==
  /\ Running
  /\ worker[w] = "reporting" /\ signal
  /\ worker' = [worker EXCEPT ![w] = "ended"]
  /\ UNCHANGED <<startVars, signal, group, closed, toClose, outside, crashed>>

\* gracefulShutdown begins: CloseAll takes the registered functions, or, for
\* a gRPC server, GracefulStop stops accepting calls. (The closer is not
\* called then.)
Shutdown ==
  /\ main' = "closing"
  /\ toClose' = IF IsGrpc(app) THEN {} ELSE Opened

\* run receives the error of a worker and returns it. gRPC's Serve has ended.
Receives(w) ==
  /\ main = "waiting" /\ worker[w] = "reporting"
  /\ worker' = [worker EXCEPT ![w] = "ended"]
  /\ Shutdown
  /\ UNCHANGED <<built, signal, group, closed, outside, crashed>>

\* run sees the signal and returns.
SeesSignal ==
  /\ main = "waiting" /\ ~UsesErrgroup(app) /\ signal
  /\ Shutdown
  /\ UNCHANGED <<built, signal, group, worker, closed, outside, crashed>>

\* Fault: run waits for the group's context and not for its goroutines.
WaitEndsEarly ==
  /\ main = "waiting" /\ UsesErrgroup(app) /\ (signal \/ group)
  /\ Shutdown
  /\ UNCHANGED <<built, signal, group, worker, closed, outside, crashed>>

\* eg.Wait returns: every goroutine has.
WaitEnds ==
  /\ main = "waiting" /\ UsesErrgroup(app)
  /\ \A w \in Workers(app) : worker[w] = "ended"
  /\ Shutdown
  /\ UNCHANGED <<built, signal, group, worker, closed, outside, crashed>>

\* A call arrives: over a new connection while the server listens, or over one
\* that is open. GracefulStop ends that for a gRPC server. Nobody shuts the
\* HTTP server of order down, and its connections outlive its listener.
CallBegins ==
  /\ Running /\ (IsGrpc(app) => main = "waiting")
  /\ worker["server"] = "running" \/ kept
  /\ calls < MaxCalls
  /\ calls' = calls + 1 /\ kept' = TRUE
  /\ UNCHANGED <<startVars, signal, group, worker, closed, toClose, polling, crashed>>

\* A call is answered.
CallEnds ==
  /\ Running /\ calls > 0
  /\ calls' = calls - 1
  /\ UNCHANGED <<startVars, signal, group, worker, closed, toClose, kept, polling, crashed>>

\* The bot, which watches the context of main, sees the signal.
BotStops ==
  /\ Running /\ polling /\ signal
  /\ polling' = FALSE
  /\ UNCHANGED <<startVars, signal, group, worker, closed, toClose, calls, kept, crashed>>

\* Fault: CloseAll closes what it was not given.
CloseUnregistered(x) ==
  /\ main = "closing" /\ x \notin closed
  /\ closed' = closed \cup {x}
  /\ UNCHANGED <<startVars, signal, group, worker, toClose, outside, crashed>>

\* A function of CloseAll closes its resource. It may never do so.
Close(x) ==
  /\ main = "closing" /\ x \in toClose \ closed
  /\ closed' = closed \cup {x}
  /\ UNCHANGED <<startVars, signal, group, worker, toClose, outside, crashed>>

\* GracefulStop has waited for the calls in flight, Serve returns, and the
\* process ends.
Stops ==
  /\ IsGrpc(app) /\ main = "closing" /\ calls = 0
  /\ main' = "exited"
  /\ worker' = [worker EXCEPT !["server"] = "ended"]
  /\ UNCHANGED <<built, signal, group, closed, toClose, outside, crashed>>

\* CloseAll has returned, all functions done or its deadline over, and the
\* process ends.
Exits ==
  /\ ~IsGrpc(app) /\ main = "closing"
  /\ main' = "exited"
  /\ UNCHANGED <<built, signal, group, worker, closed, toClose, outside, crashed>>

Next ==
  \/ New
  \/ Signal \/ SeesSignal \/ WaitEnds \/ Stops \/ Exits
  \/ CallBegins \/ CallEnds \/ BotStops
  \/ \E w \in AllWorkers : \/ Get(w) \/ Miss(w) \/ Made(w) \/ MakePanics(w)
                           \/ Start(w) \/ Fails(w) \/ SeesCtx(w)
                           \/ SeesClosedGroup(w) \/ DropsReport(w) \/ Receives(w)
  \/ \E x \in Resources : Close(x)

Spec == Init /\ [][Next]_vars

\* Goroutines that can go on do: whatever opens a connection gives up after a
\* time. A call of payment or inventory ends: its queries have deadlines (one
\* of order need not: PayOrder has none). CloseAll ends: its context has a
\* deadline. No signal and no failure has to come.
Fairness ==
  /\ WF_vars(New)
  /\ \A w \in AllWorkers : /\ WF_vars(Get(w)) /\ WF_vars(Miss(w))
                           /\ WF_vars(Made(w)) /\ WF_vars(Start(w))
                           /\ WF_vars(SeesCtx(w)) /\ WF_vars(DropsReport(w))
                           /\ WF_vars(Receives(w))
  /\ WF_vars(SeesSignal) /\ WF_vars(WaitEnds)
  /\ WF_vars(IsGrpc(app) /\ CallEnds) /\ WF_vars(Stops) /\ WF_vars(Exits)

FairSpec == Spec /\ Fairness

-----------------------------------------------------------------------------
\* The domain of every variable.
TypeOK ==
  /\ app \in Apps
  /\ step \in 1 .. Len(Inits[app]) + 1
  /\ made \in [Things -> Nat]
  /\ got \in [AllWorkers -> 0 .. 4]
  /\ signal \in BOOLEAN /\ group \in BOOLEAN /\ crashed \in BOOLEAN
  /\ worker \in [AllWorkers -> {"asking", "making", "running", "reporting", "ended"}]
  /\ closed \subseteq Opened /\ toClose \subseteq Opened
  /\ calls \in 0 .. MaxCalls /\ kept \in BOOLEAN /\ polling \in BOOLEAN
  /\ main \in {"starting", "waiting", "closing", "exited", "died"}

\* The container is used without a lock, yet nothing is made twice: what two
\* goroutines of a run ask for was made by New before it started them. (Two
\* services for the chats would each know some of them; a second connection
\* would never be used.) Only the converter of the events, which has no state,
\* may be made by each consumer of notification.
MadeOnce == \A x \in Things \ Stateless : made[x] <= 1

\* What runs besides main and its deferred shutdown.
Busy == {w \in Workers(app) : worker[w] # "ended"}
          \cup {x \in {"call"} : calls > 0} \cup {x \in {"bot"} : polling}

\* In order and notification CloseAll starts when the last goroutine of the
\* errgroup has ended, and takes whatever one of them opened late. What it may
\* close in use, it closes under a request in flight, in order, and there the
\* HTTP server has failed; or under the bot, in notification. (In assembly a
\* worker may use it too, and what it opens then is forgotten: run leaves at
\* the signal, while the consumer may still be asking the container.)
ClosedAfterUse ==
  UsesErrgroup(app) /\ ran /\ main \in {"closing", "exited"} =>
    /\ toClose = Opened
    /\ Busy \subseteq (IF app = "order" THEN {"call"} ELSE {"bot"})
    /\ calls > 0 => crashed

\* closer.go:25: the closer manages the graceful shutdown of the application.
\* That takes a run that returns at a signal, and run of order waits for an
\* HTTP server that nobody shuts down.
SignalStops == signal ~> ~Running

\* After a signal, during the start or later, every service but order ends,
\* whatever its workers are doing then: none waits for a worker that waits for
\* it. And none but order goes on with half of its workers gone: when one
\* fails, the others are stopped and the process ends.
OthersStop == (signal \/ crashed) /\ app # "order" ~> ~Running
=============================================================================
