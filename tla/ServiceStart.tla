---------------------------- MODULE ServiceStart ----------------------------
(***************************************************************************)
(* How a service gets up to run: main, app.New with its initialisers, and  *)
(* the DI container that makes things when they are first asked for.       *)
(*                                                                         *)
(* New runs the initialisers one after the other in main's goroutine. The  *)
(* getters of the container are also called by the goroutines of run, and  *)
(* no lock protects them: a getter reads its field, makes the thing when   *)
(* the field is nil, and assigns the field.                                *)
(***************************************************************************)
EXTENDS Naturals, Sequences

CONSTANT Apps       \* the services to look at

ASSUME AppsAreKnown ==
  Apps \subseteq {"order", "notification", "assembly", "payment", "inventory"}

VARIABLES
  app,       \* the service
  main,      \* where main's goroutine is
  step,      \* the next initialiser
  made,      \* made[x]: how often thing x was made
  got        \* got[w]: the things goroutine w has got from the container

built == <<app, step, made, got>>
startVars == <<built, main>>

-----------------------------------------------------------------------------
(* The things of the containers. *)

\* What a getter registers with the closer when it has made it.
Resources == {"inventory", "payment", "pool", "migrator", "producer", "group",
              "group2", "bot", "mongo", "listener"}

\* What carries the state of a service and must be one for all goroutines.
Services == {"orderService", "tgService"}

\* What carries no state: a second one would do no harm.
Stateless == {"converter"}

Things == Resources \cup Services \cup Stateless

\* A part of an initialiser: what it makes, if anything, and how it may fail:
\* by an error, which New returns, or by a panic of the container.
Part(makes, fails) == <<[makes |-> makes, fails |-> fails]>>

\* config.Load: a variable of the environment is missing or malformed.
initConfig == Part({}, "error")

\* The logger, the closer's logger and the empty container cannot fail.
initLogger == Part({}, "never")

initTables ==
  Part({"pool"}, "panic") \o Part({"migrator"}, "never") \o Part({}, "error")

\* initServer of order: the handler with all that it stands on, then the
\* server.
OrderInitServer ==
  Part({"inventory"}, "panic") \o Part({"payment"}, "panic")
    \o Part({"producer"}, "panic") \o Part({"converter"}, "never")
    \o Part({"orderService"}, "never") \o Part({}, "error")

\* Fault: the service for the chats is left to the goroutines that need it.
initTelegramBotAlone == Part({"bot"}, "panic")

\* The bot, and the service its /start handler gives the chats to. (Then a
\* goroutine of the bot starts: see ServiceShutdown.)
initTelegramBot == Part({"bot"}, "panic") \o Part({"tgService"}, "never")

initListener == Part({"listener"}, "error")

\* initServer of inventory: the client, its ping and the indexes.
InventoryInitServer == Part({"mongo"}, "panic") \o Part({}, "panic")

initPartsData == Part({}, "error")

\* The initialisers of each service in their order.
Inits ==
  [order        |-> initConfig \o initLogger \o initTables \o OrderInitServer,
   notification |-> initConfig \o initLogger \o initTelegramBot,
   assembly     |-> initConfig \o initLogger,
   payment      |-> initConfig \o initLogger \o initListener,
   inventory    |-> initConfig \o initLogger \o initListener
                      \o InventoryInitServer \o initPartsData]

\* What the goroutines of each run ask the container for, in this order. The
\* servers were made by New.
OrderNeeds == [consumer |-> <<"group", "converter", "orderService">>, server |-> <<>>]

NotificationNeeds == [consumer |-> <<"group", "converter", "bot", "tgService">>,
                      consumer2 |-> <<"group2", "converter", "bot", "tgService">>]

AssemblyNeeds == [consumer |-> <<"group", "producer", "converter">>]

GrpcNeeds == [server |-> <<>>]

Needs == [order |-> OrderNeeds, notification |-> NotificationNeeds,
          assembly |-> AssemblyNeeds, payment |-> GrpcNeeds,
          inventory |-> GrpcNeeds]

AllWorkers == {"consumer", "consumer2", "server"}

Workers(a) == DOMAIN Needs[a]
Asks(w) == Needs[app][w]

Opened == {x \in Resources : made[x] > 0}

-----------------------------------------------------------------------------
StartInit ==
  /\ app \in Apps
  /\ main = "starting" /\ step = 1
  /\ made = [x \in Things |-> 0]
  /\ got = [w \in AllWorkers |-> 0]

Make(xs) == made' = [x \in Things |-> IF x \in xs THEN made[x] + 1 ELSE made[x]]

\* The next part of the initialisers succeeds. After the last one main calls
\* run.
Initialise ==
  /\ main = "starting"
  /\ Make(Inits[app][step].makes)
  /\ step' = step + 1
  /\ main' = IF step = Len(Inits[app]) THEN "waiting" ELSE main
  /\ UNCHANGED <<app, got>>

\* It returns an error: main logs it and returns, and nothing that was opened
\* is closed. Before initLogger there is no logger: the logging panics.
InitFails ==
  /\ main = "starting" /\ Inits[app][step].fails = "error"
  /\ main' = IF step > Len(initConfig) THEN "exited" ELSE "died"
  /\ UNCHANGED <<app, step, made, got>>

\* The container panics, and the process dies.
InitPanics ==
  /\ main = "starting" /\ Inits[app][step].fails = "panic"
  /\ main' = "died"
  /\ UNCHANGED <<app, step, made, got>>

\* Goroutine w asks for the next thing, which is there.
Gets(w) ==
  /\ made[Asks(w)[got[w] + 1]] > 0
  /\ got' = [got EXCEPT ![w] = @ + 1]
  /\ UNCHANGED <<app, main, step, made>>

\* Goroutine w has found the field of the next thing nil, makes the thing and
\* assigns the field.
Makes(w) ==
  /\ Make({Asks(w)[got[w] + 1]})
  /\ got' = [got EXCEPT ![w] = @ + 1]
  /\ UNCHANGED <<app, main, step>>
=============================================================================
