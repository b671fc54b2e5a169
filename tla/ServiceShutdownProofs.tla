----------------------- MODULE ServiceShutdownProofs ------------------------
(***************************************************************************)
(* What holds of every service while it starts, runs and stops, whatever   *)
(* fails on the way: the container makes nothing twice that has a state,   *)
(* though no lock protects it, and a run that waits for its goroutines     *)
(* closes nothing under them.                                              *)
(***************************************************************************)
EXTENDS ServiceShutdown, TLAPS

-----------------------------------------------------------------------------
(* The services.  What New makes, and what the goroutines ask for. *)

\* The positions of the initialisers of a service.
Steps(a) == 1 .. Len(Inits[a])

\* What New makes before it starts a goroutine.
MadeByNew(a) == UNION {Inits[a][i].makes : i \in Steps(a)}

\* The initialisers of a service make known things, and no two of them the
\* same.
InitsAreGood(a) ==
  /\ Len(Inits[a]) \in Nat \ {0}
  /\ \A i \in Steps(a) : Inits[a][i].makes \subseteq Things
  /\ \A i, j \in Steps(a) : i # j => Inits[a][i].makes \cap Inits[a][j].makes = {}

\* The goroutines of a service ask for at most four known things each.
NeedsAreGood(a) ==
  /\ DOMAIN Needs[a] \subseteq AllWorkers
  /\ \A w \in DOMAIN Needs[a] :
       /\ Len(Needs[a][w]) \in 0 .. 4
       /\ \A k \in 1 .. Len(Needs[a][w]) : Needs[a][w][k] \in Things

\* What New leaves to the goroutines and must not be made twice is asked for by
\* one of them, once.
AskedOnce(a) ==
  \A v, w \in DOMAIN Needs[a] :
    \A j \in 1 .. Len(Needs[a][v]), k \in 1 .. Len(Needs[a][w]) :
      /\ Needs[a][v][j] = Needs[a][w][k]
      /\ Needs[a][v][j] \notin MadeByNew(a) \cup Stateless
      => v = w /\ j = k

ServiceIsGood(a) == InitsAreGood(a) /\ NeedsAreGood(a) /\ AskedOnce(a)

\* The order service: New makes the tables and all that the handler stands on,
\* and leaves only the consumer group to the consumer.
LEMMA OrderIsGood == ServiceIsGood("order")
<1>1. Len(Inits["order"]) = 11
  BY DEF Inits, initConfig, initLogger, initTables, OrderInitServer, Part
<1>2. /\ Inits["order"][1].makes = {} /\ Inits["order"][2].makes = {}
      /\ Inits["order"][3].makes = {"pool"} /\ Inits["order"][4].makes = {"migrator"}
      /\ Inits["order"][5].makes = {}
  BY DEF Inits, initConfig, initLogger, initTables, OrderInitServer, Part
<1>3. /\ Inits["order"][6].makes = {"inventory"}
      /\ Inits["order"][7].makes = {"payment"}
      /\ Inits["order"][8].makes = {"producer"}
      /\ Inits["order"][9].makes = {"converter"}
      /\ Inits["order"][10].makes = {"orderService"}
      /\ Inits["order"][11].makes = {}
  BY DEF Inits, initConfig, initLogger, initTables, OrderInitServer, Part
<1>4. /\ Steps("order") = 1 .. 11
      /\ \A i \in 1 .. 11 : i \in {1, 2, 3, 4, 5, 6, 7, 8, 9, 10, 11}
  BY <1>1 DEF Steps
<1>5. \A i \in 1 .. 11 : Inits["order"][i].makes \subseteq Things
  BY <1>2, <1>3, <1>4 DEF Things, Resources, Services, Stateless
<1>6. \A i, j \in 1 .. 11 :
        i # j => Inits["order"][i].makes \cap Inits["order"][j].makes = {}
  BY <1>2, <1>3, <1>4
<1>7. InitsAreGood("order")
  BY <1>1, <1>4, <1>5, <1>6 DEF InitsAreGood
<1>8. /\ DOMAIN Needs["order"] = {"consumer", "server"}
      /\ Len(Needs["order"]["consumer"]) = 3 /\ Len(Needs["order"]["server"]) = 0
      /\ Needs["order"]["consumer"][1] = "group"
      /\ Needs["order"]["consumer"][2] = "converter"
      /\ Needs["order"]["consumer"][3] = "orderService"
  BY DEF Needs, OrderNeeds
<1>9. NeedsAreGood("order")
  <2>1. \A k \in 1 .. 3 : k = 1 \/ k = 2 \/ k = 3
    OBVIOUS
  <2> QED BY <1>8, <2>1 DEF NeedsAreGood, AllWorkers, Things, Resources, Services, Stateless
<1>10. AskedOnce("order")
  <2>1. \A k \in 1 .. 3 : k = 1 \/ k = 2 \/ k = 3
    OBVIOUS
  <2> QED BY <1>8, <2>1 DEF AskedOnce
<1> QED BY <1>7, <1>9, <1>10 DEF ServiceIsGood

\* The notification service: New makes the bot and the service of the chats,
\* and each consumer has a group of its own.
LEMMA NotificationIsGood == ServiceIsGood("notification")
<1>1. Len(Inits["notification"]) = 4
  BY DEF Inits, initConfig, initLogger, initTelegramBot, Part
<1>2. /\ Inits["notification"][1].makes = {} /\ Inits["notification"][2].makes = {}
      /\ Inits["notification"][3].makes = {"bot"}
      /\ Inits["notification"][4].makes = {"tgService"}
  BY DEF Inits, initConfig, initLogger, initTelegramBot, Part
<1>3. /\ Steps("notification") = 1 .. 4
      /\ \A i \in 1 .. 4 : i \in {1, 2, 3, 4}
  BY <1>1 DEF Steps
<1>4. InitsAreGood("notification")
  BY <1>1, <1>2, <1>3 DEF InitsAreGood, Things, Resources, Services, Stateless
<1>5. "bot" \in MadeByNew("notification") /\ "tgService" \in MadeByNew("notification")
  BY <1>2, <1>3 DEF MadeByNew
<1>6. /\ DOMAIN Needs["notification"] = {"consumer", "consumer2"}
      /\ Len(Needs["notification"]["consumer"]) = 4
      /\ Len(Needs["notification"]["consumer2"]) = 4
      /\ Needs["notification"]["consumer"][1] = "group"
      /\ Needs["notification"]["consumer"][2] = "converter"
      /\ Needs["notification"]["consumer"][3] = "bot"
      /\ Needs["notification"]["consumer"][4] = "tgService"
      /\ Needs["notification"]["consumer2"][1] = "group2"
      /\ Needs["notification"]["consumer2"][2] = "converter"
      /\ Needs["notification"]["consumer2"][3] = "bot"
      /\ Needs["notification"]["consumer2"][4] = "tgService"
  BY DEF Needs, NotificationNeeds
<1>7. \A k \in 1 .. 4 : k = 1 \/ k = 2 \/ k = 3 \/ k = 4
  OBVIOUS
<1>8. NeedsAreGood("notification")
  BY <1>6, <1>7 DEF NeedsAreGood, AllWorkers, Things, Resources, Services, Stateless
<1>9. AskedOnce("notification")
  BY <1>5, <1>6, <1>7 DEF AskedOnce, Stateless
<1> QED BY <1>4, <1>8, <1>9 DEF ServiceIsGood

\* The assembly service: New makes nothing, and there is one consumer.
LEMMA AssemblyIsGood == ServiceIsGood("assembly")
<1>1. Len(Inits["assembly"]) = 2
  BY DEF Inits, initConfig, initLogger, Part
<1>2. Inits["assembly"][1].makes = {} /\ Inits["assembly"][2].makes = {}
  BY DEF Inits, initConfig, initLogger, Part
<1>3. /\ Steps("assembly") = 1 .. 2
      /\ \A i \in 1 .. 2 : i = 1 \/ i = 2
  BY <1>1 DEF Steps
<1>4. InitsAreGood("assembly")
  BY <1>1, <1>2, <1>3 DEF InitsAreGood
<1>5. /\ DOMAIN Needs["assembly"] = {"consumer"}
      /\ Len(Needs["assembly"]["consumer"]) = 3
      /\ Needs["assembly"]["consumer"][1] = "group"
      /\ Needs["assembly"]["consumer"][2] = "producer"
      /\ Needs["assembly"]["consumer"][3] = "converter"
  BY DEF Needs, AssemblyNeeds
<1>6. \A k \in 1 .. 3 : k = 1 \/ k = 2 \/ k = 3
  OBVIOUS
<1>7. NeedsAreGood("assembly")
  BY <1>5, <1>6 DEF NeedsAreGood, AllWorkers, Things, Resources, Services, Stateless
<1>8. AskedOnce("assembly")
  BY <1>5, <1>6 DEF AskedOnce
<1> QED BY <1>4, <1>7, <1>8 DEF ServiceIsGood

\* The gRPC server of a service asks for nothing: New has made what it needs.
LEMMA ServerAsksNothing ==
  ASSUME NEW a, Needs[a] = GrpcNeeds
  PROVE  NeedsAreGood(a) /\ AskedOnce(a)
<1>1. DOMAIN Needs[a] = {"server"} /\ Len(Needs[a]["server"]) = 0
  BY DEF GrpcNeeds
<1> QED BY <1>1 DEF NeedsAreGood, AskedOnce, AllWorkers

\* The payment service.
LEMMA PaymentIsGood == ServiceIsGood("payment")
<1>1. Len(Inits["payment"]) = 3
  BY DEF Inits, initConfig, initLogger, initListener, Part
<1>2. /\ Inits["payment"][1].makes = {} /\ Inits["payment"][2].makes = {}
      /\ Inits["payment"][3].makes = {"listener"}
  BY DEF Inits, initConfig, initLogger, initListener, Part
<1>3. /\ Steps("payment") = 1 .. 3
      /\ \A i \in 1 .. 3 : i = 1 \/ i = 2 \/ i = 3
  BY <1>1 DEF Steps
<1>4. InitsAreGood("payment")
  BY <1>1, <1>2, <1>3 DEF InitsAreGood, Things, Resources
<1>5. Needs["payment"] = GrpcNeeds
  BY DEF Needs
<1> QED BY <1>4, <1>5, ServerAsksNothing DEF ServiceIsGood

\* The inventory service.
LEMMA InventoryIsGood == ServiceIsGood("inventory")
<1>1. Len(Inits["inventory"]) = 6
  BY DEF Inits, initConfig, initLogger, initListener, InventoryInitServer, initPartsData, Part
<1>2. /\ Inits["inventory"][1].makes = {} /\ Inits["inventory"][2].makes = {}
      /\ Inits["inventory"][3].makes = {"listener"}
      /\ Inits["inventory"][4].makes = {"mongo"}
      /\ Inits["inventory"][5].makes = {} /\ Inits["inventory"][6].makes = {}
  BY DEF Inits, initConfig, initLogger, initListener, InventoryInitServer, initPartsData, Part
<1>3. /\ Steps("inventory") = 1 .. 6
      /\ \A i \in 1 .. 6 : i \in {1, 2, 3, 4, 5, 6}
  BY <1>1 DEF Steps
<1>4. InitsAreGood("inventory")
  BY <1>1, <1>2, <1>3 DEF InitsAreGood, Things, Resources
<1>5. Needs["inventory"] = GrpcNeeds
  BY DEF Needs
<1> QED BY <1>4, <1>5, ServerAsksNothing DEF ServiceIsGood

\* All the services are of this form.
LEMMA ServicesAreGood == \A a \in Apps : ServiceIsGood(a)
BY AppsAreKnown, OrderIsGood, NotificationIsGood, AssemblyIsGood, PaymentIsGood,
   InventoryIsGood

-----------------------------------------------------------------------------
(* The invariant. *)

\* Goroutine w has x from the container.
HasGot(w, x) == \E k \in 1 .. got[w] : Asks(w)[k] = x

\* Somebody has had thing x made: an initialiser that is over, or a goroutine
\* that has got it.
Needed(x) ==
  \/ \E i \in 1 .. step - 1 : x \in Inits[app][i].makes
  \/ \E w \in Workers(app) : HasGot(w, x)

\* The types that TypeOK gives, without the bounds that follow from the rest.
Types ==
  /\ app \in Apps
  /\ step \in Nat /\ 1 <= step /\ step <= Len(Inits[app]) + 1
  /\ made \in [Things -> Nat]
  /\ got \in [AllWorkers -> Nat]
  /\ signal \in BOOLEAN /\ group \in BOOLEAN /\ crashed \in BOOLEAN
  /\ worker \in [AllWorkers -> {"asking", "making", "running", "reporting", "ended"}]
  /\ closed \subseteq Opened /\ toClose \subseteq Opened
  /\ main \in {"starting", "waiting", "closing", "exited", "died"}

\* main runs the initialisers to the end before it waits, and no goroutine
\* does anything before that.
MainSound ==
  /\ main = "starting" => step <= Len(Inits[app])
  /\ main \in {"waiting", "closing"} => step = Len(Inits[app]) + 1
  /\ ~ran => \A w \in AllWorkers : got[w] = 0 /\ worker[w] \in {"asking", "ended"}

\* The goroutines of other services do not exist. What w is about to make is
\* what New has left to it.
WorkerSound(w) ==
  /\ w \notin Workers(app) => got[w] = 0 /\ worker[w] = "ended"
  /\ w \in Workers(app) => got[w] <= Len(Asks(w))
  /\ worker[w] = "making" =>
       got[w] < Len(Asks(w)) /\ Asks(w)[got[w] + 1] \notin MadeByNew(app)
  /\ UsesErrgroup(app) => worker[w] # "reporting"

\* A thing that is not to be made twice, or that New makes.
Single(x) == x \notin Stateless \/ x \in MadeByNew(app)

\* Such a thing was made once if somebody needed it, and not at all before.
MadeForUse ==
  \A x \in Things : Single(x) => made[x] = IF Needed(x) THEN 1 ELSE 0

\* Where run waits for its goroutines, it closes after the last of them ended.
EndedFirst ==
  UsesErrgroup(app) /\ ran /\ main \in {"closing", "exited"} =>
    /\ toClose = Opened
    /\ \A w \in Workers(app) : worker[w] = "ended"

\* Only notification has a bot, and only a service with a server has clients.
OutsideSound ==
  /\ calls \in 0 .. MaxCalls /\ kept \in BOOLEAN /\ polling \in BOOLEAN
  /\ polling => app = "notification"
  /\ kept \/ calls > 0 => "server" \in Workers(app)

\* The inductive invariant.
IInv ==
  /\ Types
  /\ MainSound
  /\ \A w \in AllWorkers : WorkerSound(w)
  /\ MadeForUse
  /\ EndedFirst
  /\ OutsideSound

\* The invariant holds at the start.
LEMMA InitInv == Init => IInv
<1> SUFFICES ASSUME Init PROVE IInv
  OBVIOUS
<1>1. ServiceIsGood(app)
  BY ServicesAreGood DEF Init, StartInit
<1>2. /\ app \in Apps /\ main = "starting" /\ step = 1
      /\ made = [x \in Things |-> 0] /\ got = [w \in AllWorkers |-> 0]
      /\ worker = [w \in AllWorkers |-> IF w \in Workers(app) THEN "asking" ELSE "ended"]
      /\ signal = FALSE /\ group = FALSE /\ crashed = FALSE
      /\ closed = {} /\ toClose = {}
      /\ calls = 0 /\ kept = FALSE /\ polling = FALSE
  BY DEF Init, StartInit
<1>3. Types
  <2>1. /\ made \in [Things -> Nat] /\ got \in [AllWorkers -> Nat]
        /\ worker \in [AllWorkers -> {"asking", "making", "running", "reporting", "ended"}]
    BY <1>2
  <2>2. step \in Nat /\ 1 <= step /\ step <= Len(Inits[app]) + 1
    BY <1>1, <1>2 DEF ServiceIsGood, InitsAreGood
  <2> QED BY <1>2, <2>1, <2>2 DEF Types
<1>4. MainSound
  BY <1>1, <1>2 DEF MainSound, ServiceIsGood, InitsAreGood
<1>5. ASSUME NEW w \in AllWorkers PROVE WorkerSound(w)
  BY <1>1, <1>2 DEF WorkerSound, ServiceIsGood, NeedsAreGood, Workers, Asks
<1>6. MadeForUse
  <2>1. \A w \in Workers(app) : got[w] = 0
    BY <1>1, <1>2 DEF Workers, ServiceIsGood, NeedsAreGood
  <2>2. \A x : ~Needed(x)
    BY <1>2, <2>1 DEF Needed, HasGot
  <2> QED BY <1>2, <2>2 DEF MadeForUse
<1>7. EndedFirst
  BY <1>2 DEF EndedFirst
<1>8. OutsideSound
  <2>1. calls \in 0 .. MaxCalls /\ ~(calls > 0)
    BY <1>2, MaxCallsIsNat
  <2>2. kept \in BOOLEAN /\ polling \in BOOLEAN /\ ~kept /\ ~polling
    BY <1>2
  <2> QED BY <2>1, <2>2 DEF OutsideSound
<1> QED BY <1>3, <1>4, <1>5, <1>6, <1>7, <1>8 DEF IInv

\* The service of a state is one of the good ones.
LEMMA AppIsGood ==
  ASSUME IInv
  PROVE  InitsAreGood(app) /\ NeedsAreGood(app) /\ AskedOnce(app)
BY ServicesAreGood DEF IInv, Types, ServiceIsGood

\* Once run is called, everything that New makes is there.
LEMMA MadeByNewIsThere ==
  ASSUME IInv, ran, NEW x \in Things, x \in MadeByNew(app)
  PROVE  made[x] = 1
<1>1. step = Len(Inits[app]) + 1 /\ Len(Inits[app]) \in Nat
  BY AppIsGood DEF ran, IInv, Types, InitsAreGood
<1>2. 1 .. step - 1 = Steps(app)
  BY <1>1 DEF Steps
<1>3. Needed(x)
  BY <1>2 DEF Needed, MadeByNew
<1> QED BY <1>3 DEF IInv, MadeForUse, Single

\* What a goroutine is going to make nobody has, if it must not be made twice:
\* New has left it to the goroutines, and only this one asks for it.
LEMMA NextIsNew ==
  ASSUME IInv, NEW w \in Workers(app), got[w] < Len(Asks(w)),
         Asks(w)[got[w] + 1] \notin MadeByNew(app) \cup Stateless
  PROVE  ~Needed(Asks(w)[got[w] + 1])
<1> DEFINE x == Asks(w)[got[w] + 1]
<1>1. w \in AllWorkers /\ got[w] \in Nat /\ Len(Asks(w)) \in Nat
  BY AppIsGood DEF IInv, Types, NeedsAreGood, Workers, Asks
<1>2. \A i \in 1 .. step - 1 : x \notin Inits[app][i].makes
  <2>1. \A i \in 1 .. step - 1 : i \in Steps(app)
    BY AppIsGood DEF IInv, Types, Steps, InitsAreGood
  <2> QED BY <2>1 DEF MadeByNew
<1>3. ASSUME NEW v \in Workers(app), NEW k \in 1 .. got[v], Asks(v)[k] = x
      PROVE  FALSE
  <2>1. v \in AllWorkers /\ got[v] \in Nat /\ got[v] <= Len(Asks(v)) /\ Len(Asks(v)) \in Nat
    BY AppIsGood DEF IInv, Types, WorkerSound, NeedsAreGood, Workers, Asks
  <2>2. k \in 1 .. Len(Asks(v)) /\ got[w] + 1 \in 1 .. Len(Asks(w))
    BY <1>1, <2>1
  <2>3. v = w /\ k = got[w] + 1
    BY <1>3, <2>2, AppIsGood DEF AskedOnce, Workers, Asks
  <2> QED BY <1>1, <2>3
<1> QED BY <1>2, <1>3 DEF Needed, HasGot

\* The next thing a goroutine asks for is a thing.
LEMMA NextIsThing ==
  ASSUME IInv, NEW w \in Workers(app), got[w] < Len(Asks(w))
  PROVE  /\ w \in AllWorkers /\ got[w] \in Nat /\ got[w] + 1 \in 1 .. Len(Asks(w))
         /\ Asks(w)[got[w] + 1] \in Things
<1>1. w \in AllWorkers /\ got[w] \in Nat /\ Len(Asks(w)) \in Nat
  BY AppIsGood DEF IInv, Types, NeedsAreGood, Workers, Asks
<1>2. got[w] + 1 \in 1 .. Len(Asks(w))
  BY <1>1
<1> QED BY <1>1, <1>2, AppIsGood DEF NeedsAreGood, Workers, Asks

\* Only a goroutine of the service that is not over asks or makes.
LEMMA OnlyWorkersWork ==
  ASSUME IInv, NEW w \in AllWorkers, worker[w] # "ended"
  PROVE  w \in Workers(app) /\ (worker[w] = "making" => ran)
BY DEF IInv, WorkerSound, MainSound

-----------------------------------------------------------------------------
(* The steps that make or hand out a thing. *)

\* After goroutine w got one more thing, it has that one and those before.
LEMMA GotOneMore ==
  ASSUME IInv, NEW w \in Workers(app), got[w] < Len(Asks(w)), NEW x,
         got' = [got EXCEPT ![w] = @ + 1], app' = app, step' = step
  PROVE  Needed(x)' <=> Needed(x) \/ x = Asks(w)[got[w] + 1]
<1>1. /\ w \in AllWorkers /\ got[w] \in Nat /\ got'[w] = got[w] + 1
      /\ \A v \in AllWorkers \ {w} : got'[v] = got[v]
  BY NextIsThing DEF IInv, Types
<1>2. Workers(app)' = Workers(app) /\ \A v : Asks(v)' = Asks(v)
  BY DEF Workers, Asks
<1>3. HasGot(w, x)' <=> HasGot(w, x) \/ x = Asks(w)[got[w] + 1]
  <2>1. 1 .. got[w] + 1 = (1 .. got[w]) \cup {got[w] + 1}
    BY <1>1
  <2> QED BY <1>1, <1>2, <2>1 DEF HasGot
<1>4. ASSUME NEW v \in Workers(app), v # w
      PROVE  HasGot(v, x)' <=> HasGot(v, x)
  <2>1. v \in AllWorkers
    BY AppIsGood DEF NeedsAreGood, Workers
  <2> QED BY <1>1, <1>2, <1>4, <2>1 DEF HasGot
<1> QED BY <1>2, <1>3, <1>4 DEF Needed

\* What was opened stays opened, and a thing that nobody had is made.
LEMMA MakesSets ==
  ASSUME IInv, NEW xs \in SUBSET Things, Make(xs)
  PROVE  /\ made' \in [Things -> Nat] /\ Opened \subseteq Opened'
         /\ \A x \in Things : made'[x] = IF x \in xs THEN made[x] + 1 ELSE made[x]
BY DEF IInv, Types, Make, Opened, Things

\* An initialiser is over: what it makes nobody had.
LEMMA InitialiseKeeps ==
  ASSUME IInv, Initialise, OutsideSound',
         UNCHANGED <<signal, group, worker, closed, toClose, crashed>>
  PROVE  IInv'
<1> DEFINE xs == Inits[app][step].makes
<1>1. /\ main = "starting" /\ Make(xs) /\ step' = step + 1 /\ app' = app /\ got' = got
      /\ main' = IF step = Len(Inits[app]) THEN "waiting" ELSE main
  BY DEF Initialise
<1>2. /\ step \in Steps(app) /\ step \in Nat /\ Len(Inits[app]) \in Nat
      /\ xs \in SUBSET Things
  BY <1>1, AppIsGood DEF IInv, Types, MainSound, InitsAreGood, Steps
<1>3. /\ made' \in [Things -> Nat] /\ Opened \subseteq Opened'
      /\ \A x \in Things : made'[x] = IF x \in xs THEN made[x] + 1 ELSE made[x]
  BY <1>1, <1>2, MakesSets
<1>4. \A w \in AllWorkers : got[w] = 0 /\ worker[w] \in {"asking", "ended"}
  BY <1>1 DEF IInv, MainSound, ran
<1>5. Types'
  <2>1. step' \in Nat /\ 1 <= step' /\ step' <= Len(Inits[app]) + 1
    BY <1>1, <1>2 DEF IInv, Types, MainSound
  <2>2. closed' \subseteq Opened' /\ toClose' \subseteq Opened'
    BY <1>3 DEF IInv, Types
  <2>3. main' \in {"starting", "waiting", "closing", "exited", "died"}
    BY <1>1
  <2> QED BY <1>1, <1>3, <2>1, <2>2, <2>3 DEF IInv, Types
<1>6. MainSound'
  BY <1>1, <1>2, <1>4 DEF IInv, MainSound, ran
<1>7. ASSUME NEW w \in AllWorkers PROVE WorkerSound(w)'
  BY <1>1, <1>4, <1>7 DEF IInv, WorkerSound, Workers, Asks
<1>8. MadeForUse'
  <2>1. ASSUME NEW x PROVE Needed(x)' <=> Needed(x) \/ x \in xs
    <3>1. \A i : i \in 1 .. step' - 1 <=> i \in 1 .. step - 1 \/ i = step
      BY <1>1, <1>2 DEF Steps
    <3>2. Workers(app)' = Workers(app) /\ \A w : HasGot(w, x)' <=> HasGot(w, x)
      BY <1>1 DEF Workers, HasGot, Asks
    <3> QED BY <1>1, <3>1, <3>2 DEF Needed
  <2>2. ASSUME NEW x \in xs PROVE ~Needed(x)
    <3>1. \A i \in 1 .. step - 1 : i \in Steps(app) /\ i # step
      BY <1>2 DEF Steps
    <3>2. \A i \in 1 .. step - 1 : x \notin Inits[app][i].makes
      BY <1>2, <3>1, AppIsGood DEF InitsAreGood
    <3>3. \A w \in Workers(app) : got[w] = 0
      BY <1>4, AppIsGood DEF NeedsAreGood, Workers
    <3> QED BY <3>2, <3>3 DEF Needed, HasGot
  <2> HIDE DEF xs
  <2>3. \A x : Single(x)' <=> Single(x)
    BY <1>1 DEF Single, MadeByNew, Steps
  <2> QED BY <1>3, <2>1, <2>2, <2>3 DEF IInv, MadeForUse
<1>9. EndedFirst'
  BY <1>1 DEF EndedFirst
<1> QED BY <1>5, <1>6, <1>7, <1>8, <1>9 DEF IInv

\* What must be made once depends on the service only.
LEMMA SingleStays == ASSUME app' = app PROVE \A x : Single(x)' <=> Single(x)
BY DEF Single, MadeByNew, Steps

\* What runs outside the goroutines is left alone.
LEMMA OutsideStays ==
  ASSUME IInv, UNCHANGED outside, app' = app
  PROVE  OutsideSound'
BY DEF IInv, OutsideSound, outside, Workers

\* A goroutine gets a thing that is there.
LEMMA GetKeeps ==
  ASSUME IInv, NEW w \in AllWorkers, Get(w)
  PROVE  IInv'
<1> DEFINE x == Asks(w)[got[w] + 1]
<1>1. /\ ran /\ Running /\ worker[w] = "asking" /\ got[w] < Len(Asks(w)) /\ made[x] > 0
      /\ got' = [got EXCEPT ![w] = @ + 1]
      /\ UNCHANGED <<app, main, step, made, signal, group, worker, closed, toClose, outside,
                     crashed>>
  BY DEF Get, Gets, Asking
<1>2. w \in Workers(app)
  BY <1>1, OnlyWorkersWork
<1>3. got[w] \in Nat /\ got[w] + 1 \in 1 .. Len(Asks(w)) /\ x \in Things
  BY <1>1, <1>2, NextIsThing
<1>4. Single(x) => Needed(x)
  BY <1>1, <1>3 DEF IInv, MadeForUse
<1>5. \A y : Single(y) => (Needed(y)' <=> Needed(y))
  BY <1>1, <1>2, <1>4, GotOneMore
<1>6. Types'
  BY <1>1 DEF IInv, Types, Opened
<1>7. MainSound'
  BY <1>1 DEF IInv, MainSound, ran
<1>8. ASSUME NEW v \in AllWorkers PROVE WorkerSound(v)'
  <2>1. WorkerSound(v)
    BY DEF IInv
  <2>2. CASE v = w
    BY <1>1, <1>2, <1>3, <2>1, <2>2 DEF WorkerSound, Workers, Asks, IInv, Types
  <2>3. CASE v # w
    BY <1>1, <2>1, <2>3 DEF WorkerSound, Workers, Asks, IInv, Types
  <2> QED BY <2>2, <2>3
<1>9. MadeForUse'
  BY <1>1, <1>5, SingleStays DEF IInv, MadeForUse
<1>10. EndedFirst'
  BY <1>1 DEF IInv, EndedFirst, ran, Opened, Workers
<1>11. OutsideSound'
  BY <1>1, OutsideStays
<1> QED BY <1>6, <1>7, <1>8, <1>9, <1>10, <1>11 DEF IInv

\* A goroutine makes a thing: nobody else has it, or is going to, if there
\* should be one only.
LEMMA MadeKeeps ==
  ASSUME IInv, NEW w \in AllWorkers, Made(w)
  PROVE  IInv'
<1> DEFINE x == Asks(w)[got[w] + 1]
<1>1. /\ Running /\ worker[w] = "making" /\ Make({x})
      /\ got' = [got EXCEPT ![w] = @ + 1]
      /\ worker' = [worker EXCEPT ![w] = "asking"]
      /\ UNCHANGED <<app, main, step, signal, group, closed, toClose, outside, crashed>>
  BY DEF Made, Makes
<1>2. w \in Workers(app) /\ ran /\ got[w] < Len(Asks(w)) /\ x \notin MadeByNew(app)
  BY <1>1, OnlyWorkersWork DEF IInv, WorkerSound
<1>3. got[w] \in Nat /\ got[w] + 1 \in 1 .. Len(Asks(w)) /\ x \in Things
  BY <1>2, NextIsThing
<1>4. Single(x) => ~Needed(x)
  BY <1>2, NextIsNew DEF Single
<1>5. \A y : Needed(y)' <=> Needed(y) \/ y = x
  BY <1>1, <1>2, GotOneMore
<1>6. /\ made' \in [Things -> Nat] /\ Opened \subseteq Opened'
      /\ \A y \in Things : made'[y] = IF y \in {x} THEN made[y] + 1 ELSE made[y]
  BY <1>1, <1>3, MakesSets
<1>7. Types'
  BY <1>1, <1>6 DEF IInv, Types
<1>8. MainSound'
  BY <1>1, <1>2 DEF IInv, MainSound, ran
<1>9. ASSUME NEW v \in AllWorkers PROVE WorkerSound(v)'
  <2>1. WorkerSound(v)
    BY DEF IInv
  <2>2. CASE v = w
    BY <1>1, <1>2, <1>3, <2>1, <2>2 DEF WorkerSound, Workers, Asks, IInv, Types
  <2>3. CASE v # w
    BY <1>1, <2>1, <2>3 DEF WorkerSound, Workers, Asks, IInv, Types
  <2> QED BY <2>2, <2>3
<1>10. MadeForUse'
  <2>1. \A y : Single(y)' <=> Single(y)
    BY <1>1, SingleStays
  <2> HIDE DEF x
  <2> QED BY <1>4, <1>5, <1>6, <2>1 DEF IInv, MadeForUse
<1>11. EndedFirst'
  <2>1. ~(UsesErrgroup(app) /\ main \in {"closing", "exited"})
    BY <1>1, <1>2 DEF IInv, EndedFirst
  <2> QED BY <1>1, <2>1 DEF EndedFirst
<1>12. OutsideSound'
  BY <1>1, OutsideStays
<1> QED BY <1>7, <1>8, <1>9, <1>10, <1>11, <1>12 DEF IInv

-----------------------------------------------------------------------------
(* The other steps. *)

\* A step that makes and hands out nothing keeps the invariant if it keeps the
\* parts about main, the goroutines and the closing.
LEMMA QuietKeeps ==
  ASSUME IInv, UNCHANGED built,
         MainSound', \A w \in AllWorkers : WorkerSound(w)', EndedFirst',
         main' \in {"starting", "waiting", "closing", "exited", "died"},
         worker' \in [AllWorkers -> {"asking", "making", "running", "reporting", "ended"}],
         signal' \in BOOLEAN, group' \in BOOLEAN, crashed' \in BOOLEAN,
         UNCHANGED outside \/ OutsideSound',
         closed' \subseteq Opened, toClose' \subseteq Opened
  PROVE  IInv'
<1>1. app' = app /\ step' = step /\ made' = made /\ got' = got
  BY DEF built
<1>2. Types'
  BY <1>1 DEF IInv, Types, Opened
<1>3. MadeForUse'
  BY <1>1, SingleStays DEF IInv, MadeForUse, Needed, HasGot, Workers, Asks
<1>4. OutsideSound'
  BY <1>1, OutsideStays
<1> QED BY <1>2, <1>3, <1>4 DEF IInv

\* Nothing is closing while somebody works in a run that waits for everybody.
LEMMA NobodyIsLeft ==
  ASSUME IInv, UsesErrgroup(app), NEW w \in AllWorkers, worker[w] # "ended", ran
  PROVE  main \notin {"closing", "exited"}
BY OnlyWorkersWork DEF IInv, EndedFirst

\* A goroutine of the service goes from one place to another.
LEMMA WorkerMoves ==
  ASSUME IInv, UNCHANGED <<built, main, signal, closed, toClose, outside>>,
         NEW w \in AllWorkers, worker[w] # "ended", ran,
         NEW place \in {"asking", "making", "running", "reporting", "ended"},
         worker' = [worker EXCEPT ![w] = place],
         place = "making" =>
           got[w] < Len(Asks(w)) /\ Asks(w)[got[w] + 1] \notin MadeByNew(app),
         UsesErrgroup(app) => place # "reporting",
         group' \in BOOLEAN, crashed' \in BOOLEAN
  PROVE  IInv'
<1>1. w \in Workers(app)
  BY OnlyWorkersWork
<1>2. /\ worker' \in [AllWorkers -> {"asking", "making", "running", "reporting", "ended"}]
      /\ worker'[w] = place
      /\ \A v \in AllWorkers \ {w} : worker'[v] = worker[v]
  BY DEF IInv, Types
<1>3. MainSound'
  BY DEF IInv, MainSound, ran, built
<1>4. ASSUME NEW v \in AllWorkers PROVE WorkerSound(v)'
  <2>1. WorkerSound(v)
    BY DEF IInv
  <2>2. CASE v = w
    BY <1>1, <1>2, <2>1, <2>2 DEF WorkerSound, Workers, Asks, built
  <2>3. CASE v # w
    BY <1>1, <1>2, <2>1, <2>3 DEF WorkerSound, Workers, Asks, built
  <2> QED BY <2>2, <2>3
<1>5. EndedFirst'
  <2>1. UsesErrgroup(app) => main \notin {"closing", "exited"}
    BY NobodyIsLeft
  <2> QED BY <2>1 DEF EndedFirst, built
<1> QED BY <1>2, <1>3, <1>4, <1>5, QuietKeeps DEF IInv, Types, Opened

\* Every step of a goroutine by itself keeps the invariant.
LEMMA GoroutineKeeps ==
  ASSUME IInv, NEW w \in AllWorkers,
         \/ Miss(w) \/ MakePanics(w) \/ Start(w) \/ Fails(w) \/ SeesCtx(w)
         \/ SeesClosedGroup(w) \/ DropsReport(w)
  PROVE  IInv'
<1>1. CASE Miss(w)
  <2>1. /\ ran /\ worker[w] = "asking" /\ got[w] < Len(Asks(w))
        /\ made[Asks(w)[got[w] + 1]] = 0
    BY <1>1 DEF Miss, Asking
  <2>2. Asks(w)[got[w] + 1] \in Things
    BY <2>1, OnlyWorkersWork, NextIsThing
  <2>3. Asks(w)[got[w] + 1] \notin MadeByNew(app)
    BY <2>1, <2>2, MadeByNewIsThere
  <2> QED BY <1>1, <2>1, <2>3, WorkerMoves DEF Miss, startVars, IInv, Types
<1>2. CASE MakePanics(w)
  <2>1. ran /\ main' = "died" /\ UNCHANGED built
        /\ UNCHANGED <<signal, group, worker, closed, toClose, outside, crashed>>
    BY <1>2, OnlyWorkersWork DEF MakePanics
  <2>2. MainSound' /\ EndedFirst'
    BY <2>1 DEF IInv, MainSound, EndedFirst, ran, built
  <2>3. \A v \in AllWorkers : WorkerSound(v)'
    BY <2>1 DEF IInv, WorkerSound, Workers, Asks, built
  <2> QED BY <2>1, <2>2, <2>3, QuietKeeps DEF IInv, Types
<1>3. CASE Start(w)
  BY <1>3, WorkerMoves DEF Start, startVars, IInv, Types
<1>4. ASSUME worker[w] = "running", Returns(w), crashed' \in BOOLEAN,
             UNCHANGED <<startVars, signal, closed, toClose, outside>>
      PROVE  IInv'
  <2>1. ran
    BY <1>4 DEF IInv, MainSound
  <2>2. CASE UsesErrgroup(app)
    BY <1>4, <2>1, <2>2, WorkerMoves DEF Returns, startVars
  <2>3. CASE ~UsesErrgroup(app)
    BY <1>4, <2>1, <2>3, WorkerMoves DEF Returns, startVars, IInv, Types
  <2> QED BY <2>2, <2>3
<1>5. CASE Fails(w)
  BY <1>4, <1>5 DEF Fails
<1>6. CASE SeesCtx(w)
  BY <1>4, <1>6 DEF SeesCtx, IInv, Types
<1>7. CASE SeesClosedGroup(w)
  <2>1. ran
    BY <1>7 DEF IInv, MainSound, SeesClosedGroup
  <2> QED BY <1>7, <2>1, WorkerMoves DEF SeesClosedGroup, startVars, IInv, Types
<1>8. CASE DropsReport(w)
  <2>1. ran
    BY <1>8 DEF IInv, MainSound, DropsReport
  <2> QED BY <1>8, <2>1, WorkerMoves DEF DropsReport, startVars, IInv, Types
<1> QED BY <1>1, <1>2, <1>3, <1>5, <1>6, <1>7, <1>8

\* run returns and the deferred shutdown begins: in a run that waits for all
\* its goroutines only when they have ended.
LEMMA ShutdownKeeps ==
  ASSUME IInv, main = "waiting", Shutdown,
         UNCHANGED <<built, signal, group, closed, outside, crashed>>,
         \/ UNCHANGED worker
         \/ \E w \in AllWorkers :
              worker[w] = "reporting" /\ worker' = [worker EXCEPT ![w] = "ended"],
         UsesErrgroup(app) => \A w \in Workers(app) : worker[w] = "ended"
  PROVE  IInv'
<1>1. main' = "closing" /\ toClose' = IF IsGrpc(app) THEN {} ELSE Opened
  BY DEF Shutdown
<1>2. ran
  BY AppIsGood DEF IInv, MainSound, InitsAreGood, ran
<1>3. /\ worker' \in [AllWorkers -> {"asking", "making", "running", "reporting", "ended"}]
      /\ \A v \in AllWorkers : worker'[v] = worker[v] \/ worker'[v] = "ended"
  BY DEF IInv, Types
<1>4. MainSound'
  BY <1>1, <1>2 DEF IInv, MainSound, ran, built
<1>5. ASSUME NEW v \in AllWorkers PROVE WorkerSound(v)'
  BY <1>3 DEF IInv, WorkerSound, Workers, Asks, built
<1>6. EndedFirst'
  <2>1. ASSUME UsesErrgroup(app), NEW w \in Workers(app) PROVE worker'[w] = "ended"
    BY <1>3, <2>1, AppIsGood DEF NeedsAreGood, Workers
  <2>2. UsesErrgroup(app) => toClose' = Opened /\ Opened' = Opened
    BY <1>1 DEF UsesErrgroup, IsGrpc, Opened, built
  <2> QED BY <2>1, <2>2 DEF EndedFirst, Workers, built
<1> QED BY <1>1, <1>3, <1>4, <1>5, <1>6, QuietKeeps DEF IInv, Types, Opened

\* And so does what happens outside the goroutines.
LEMMA ProcessKeeps ==
  ASSUME IInv,
         \/ New \/ Signal \/ SeesSignal \/ WaitEnds \/ CallBegins \/ CallEnds
         \/ BotStops \/ Stops \/ Exits \/ (\E w \in AllWorkers : Receives(w))
         \/ \E x \in Resources : Close(x)
  PROVE  IInv'
<1>1. CASE New
  <2>0. OutsideSound'
    <3>1. /\ app' = app /\ UNCHANGED <<calls, kept>>
          /\ polling' = (app = "notification" /\ main' = "waiting")
      BY <1>1 DEF New, Initialise, InitFails, InitPanics
    <3> QED BY <3>1 DEF IInv, OutsideSound, Workers
  <2>1. CASE Initialise
    BY <1>1, <2>0, <2>1, InitialiseKeeps DEF New
  <2>2. CASE InitFails \/ InitPanics
    <3>1. /\ main = "starting" /\ main' \in {"exited", "died"} /\ UNCHANGED built
          /\ UNCHANGED <<signal, group, worker, closed, toClose, crashed>>
      BY <1>1, <2>2 DEF New, InitFails, InitPanics, built
    <3>2. step <= Len(Inits[app]) /\ ~ran
      BY <3>1 DEF IInv, MainSound, ran
    <3>3. ~ran'
      BY <3>1, <3>2, AppIsGood DEF ran, built, IInv, Types, InitsAreGood
    <3>4. MainSound' /\ EndedFirst'
      BY <3>1, <3>2, <3>3 DEF IInv, MainSound, EndedFirst, built
    <3>5. \A v \in AllWorkers : WorkerSound(v)'
      BY <3>1 DEF IInv, WorkerSound, Workers, Asks, built
    <3> QED BY <2>0, <3>1, <3>4, <3>5, QuietKeeps DEF IInv, Types
  <2> QED BY <1>1, <2>1, <2>2 DEF New
<1>2. CASE SeesSignal
  BY <1>2, ShutdownKeeps DEF SeesSignal
<1>3. CASE WaitEnds
  BY <1>3, ShutdownKeeps DEF WaitEnds
<1>4. CASE \E w \in AllWorkers : Receives(w)
  <2>1. PICK w \in AllWorkers : Receives(w)
    BY <1>4
  <2>2. ~UsesErrgroup(app)
    BY <2>1 DEF Receives, IInv, WorkerSound
  <2> QED BY <2>1, <2>2, ShutdownKeeps DEF Receives
<1>5. CASE Signal \/ CallBegins \/ CallEnds \/ BotStops
  <2>1. UNCHANGED <<built, main, group, worker, closed, toClose, crashed>>
    BY <1>5 DEF Signal, CallBegins, CallEnds, BotStops, startVars
  <2>2. signal' \in BOOLEAN
    BY <1>5 DEF Signal, CallBegins, CallEnds, BotStops, IInv, Types
  <2>3. UNCHANGED outside \/ OutsideSound'
    <3>1. CASE CallBegins
      <4>1. "server" \in Workers(app)
        <5>1. worker["server"] = "running" => "server" \in Workers(app)
          BY DEF IInv, WorkerSound, AllWorkers
        <5> QED BY <3>1, <5>1 DEF CallBegins, IInv, OutsideSound
      <4> QED BY <2>1, <3>1, <4>1, MaxCallsIsNat
              DEF CallBegins, IInv, OutsideSound, Workers, built
    <3>2. CASE CallEnds
      BY <2>1, <3>2, MaxCallsIsNat DEF CallEnds, IInv, OutsideSound, Workers, built
    <3>3. CASE BotStops
      BY <2>1, <3>3 DEF BotStops, IInv, OutsideSound, Workers, built
    <3>4. CASE Signal
      BY <3>4 DEF Signal
    <3> QED BY <1>5, <3>1, <3>2, <3>3, <3>4
  <2>4. MainSound' /\ EndedFirst'
    BY <2>1 DEF IInv, MainSound, EndedFirst, ran, built, Workers, Opened
  <2>5. \A v \in AllWorkers : WorkerSound(v)'
    BY <2>1 DEF IInv, WorkerSound, Workers, Asks, built
  <2> QED BY <2>1, <2>2, <2>3, <2>4, <2>5, QuietKeeps DEF IInv, Types
<1>6. CASE \E x \in Resources : Close(x)
  <2>1. /\ UNCHANGED <<built, main, signal, group, worker, toClose, outside, crashed>>
        /\ closed' \subseteq Opened
    BY <1>6 DEF Close, startVars, IInv, Types
  <2>2. MainSound' /\ EndedFirst'
    BY <2>1 DEF IInv, MainSound, EndedFirst, ran, built, Workers, Opened
  <2>3. \A v \in AllWorkers : WorkerSound(v)'
    BY <2>1 DEF IInv, WorkerSound, Workers, Asks, built
  <2> QED BY <2>1, <2>2, <2>3, QuietKeeps DEF IInv, Types
<1>7. CASE Stops
  <2>1. /\ IsGrpc(app) /\ main = "closing" /\ main' = "exited"
        /\ worker' = [worker EXCEPT !["server"] = "ended"]
        /\ UNCHANGED <<built, signal, group, closed, toClose, outside, crashed>>
    BY <1>7 DEF Stops
  <2>2. ~UsesErrgroup(app) /\ ran
    BY <2>1, AppIsGood DEF IsGrpc, UsesErrgroup, ran, IInv, MainSound, InitsAreGood
  <2>3. /\ worker' \in [AllWorkers -> {"asking", "making", "running", "reporting", "ended"}]
        /\ \A v \in AllWorkers : worker'[v] = worker[v] \/ worker'[v] = "ended"
    BY <2>1 DEF IInv, Types
  <2>4. MainSound' /\ EndedFirst'
    BY <2>1, <2>2 DEF IInv, MainSound, EndedFirst, ran, built
  <2>5. \A v \in AllWorkers : WorkerSound(v)'
    BY <2>1, <2>3 DEF IInv, WorkerSound, Workers, Asks, built
  <2> QED BY <2>1, <2>3, <2>4, <2>5, QuietKeeps DEF IInv, Types
<1>8. CASE Exits
  <2>1. /\ main = "closing" /\ main' = "exited"
        /\ UNCHANGED <<built, signal, group, worker, closed, toClose, outside, crashed>>
    BY <1>8 DEF Exits
  <2>2. ran
    BY <2>1, AppIsGood DEF ran, IInv, MainSound, InitsAreGood
  <2>3. MainSound' /\ EndedFirst'
    BY <2>1, <2>2 DEF IInv, MainSound, EndedFirst, ran, built, Workers, Opened
  <2>4. \A v \in AllWorkers : WorkerSound(v)'
    BY <2>1 DEF IInv, WorkerSound, Workers, Asks, built
  <2> QED BY <2>1, <2>3, <2>4, QuietKeeps DEF IInv, Types
<1> QED BY <1>1, <1>2, <1>3, <1>4, <1>5, <1>6, <1>7, <1>8

\* The invariant is inductive.
LEMMA NextInv == IInv /\ [Next]_vars => IInv'
<1> SUFFICES ASSUME IInv, [Next]_vars PROVE IInv'
  OBVIOUS
<1>1. CASE UNCHANGED vars
  <2>1. UNCHANGED <<built, main, signal, group, worker, closed, toClose, outside, crashed>>
    BY <1>1 DEF vars, startVars
  <2>2. MainSound' /\ EndedFirst'
    BY <2>1 DEF IInv, MainSound, EndedFirst, ran, built, Workers, Opened
  <2>3. \A v \in AllWorkers : WorkerSound(v)'
    BY <2>1 DEF IInv, WorkerSound, Workers, Asks, built
  <2> QED BY <2>1, <2>2, <2>3, QuietKeeps DEF IInv, Types
<1>2. ASSUME NEW w \in AllWorkers, Get(w) \/ Made(w)
      PROVE  IInv'
  BY <1>2, GetKeeps, MadeKeeps
<1>3. ASSUME NEW w \in AllWorkers,
             \/ Miss(w) \/ MakePanics(w) \/ Start(w) \/ Fails(w) \/ SeesCtx(w)
             \/ SeesClosedGroup(w) \/ DropsReport(w)
      PROVE  IInv'
  BY <1>3, GoroutineKeeps
<1>4. ASSUME \/ New \/ Signal \/ SeesSignal \/ WaitEnds \/ CallBegins \/ CallEnds
             \/ BotStops \/ Stops \/ Exits \/ (\E w \in AllWorkers : Receives(w))
             \/ \E x \in Resources : Close(x)
      PROVE  IInv'
  BY <1>4, ProcessKeeps
<1> QED BY <1>1, <1>2, <1>3, <1>4 DEF Next

\* Every reachable state satisfies the inductive invariant.
THEOREM Invariance == Spec => []IInv
<1> QED BY InitInv, NextInv, PTL DEF Spec

-----------------------------------------------------------------------------
(* What follows from it. *)

\* Every variable keeps its domain: no goroutine gets more than it asks for,
\* and nothing is closed or waits to be closed that was not opened.
THEOREM TypeInvariance == Spec => []TypeOK
<1>1. ASSUME IInv PROVE TypeOK
  <2>1. step \in 1 .. Len(Inits[app]) + 1
    BY <1>1, AppIsGood DEF IInv, Types, InitsAreGood
  <2>2. got \in [AllWorkers -> 0 .. 4]
    <3>1. ASSUME NEW w \in AllWorkers PROVE got[w] \in 0 .. 4
      <4>1. WorkerSound(w) /\ got[w] \in Nat
        BY <1>1 DEF IInv, Types
      <4>2. CASE w \in Workers(app)
        BY <1>1, <4>1, <4>2, AppIsGood DEF WorkerSound, NeedsAreGood, Workers, Asks
      <4>3. CASE w \notin Workers(app)
        BY <4>1, <4>3 DEF WorkerSound
      <4> QED BY <4>2, <4>3
    <3> QED BY <1>1, <3>1 DEF IInv, Types
  <2> QED BY <1>1, <2>1, <2>2 DEF IInv, Types, OutsideSound, TypeOK
<1> QED BY <1>1, Invariance, PTL

\* The container has no lock, yet it makes nothing twice that has a state, in
\* any service and however its goroutines interleave.
THEOREM NothingIsMadeTwice == Spec => []MadeOnce
<1>1. IInv => MadeOnce
  BY DEF IInv, MadeForUse, Single, MadeOnce
<1> QED BY <1>1, Invariance, PTL

\* The reason: such a thing is there exactly when an initialiser or a goroutine
\* has asked for it.
THEOREM ThingsAreMadeForUse == Spec => []MadeForUse
<1>1. IInv => MadeForUse
  BY DEF IInv
<1> QED BY <1>1, Invariance, PTL

-----------------------------------------------------------------------------
(* Why a service stops. *)

\* A service that was up and shuts down was told to or has lost a worker. For
\* the order service a signal is not enough: its HTTP server must have failed.
StopsForCause ==
  ran /\ main \in {"closing", "exited"} =>
    IF app = "order" THEN crashed ELSE signal \/ crashed

\* What leads there: the group is cancelled and a goroutine ends for such a
\* cause, the goroutine of the HTTP server by its own error only, and a
\* consumer group is closed under its consumer only in the shutdown.
CauseSound ==
  /\ group => signal \/ crashed
  /\ closed # {} => main \notin {"starting", "waiting"}
  /\ \A w \in Workers(app) :
       worker[w] \in {"reporting", "ended"} => signal \/ crashed
  /\ app = "order" /\ worker["server"] = "ended" => crashed
  /\ StopsForCause

\* At the start nothing has ended.
LEMMA InitCause == Init => CauseSound
<1> SUFFICES ASSUME Init PROVE CauseSound
  OBVIOUS
<1>1. /\ main = "starting" /\ group = FALSE /\ closed = {}
      /\ worker = [w \in AllWorkers |-> IF w \in Workers(app) THEN "asking" ELSE "ended"]
  BY DEF Init, StartInit
<1>2. app = "order" => "server" \in Workers(app)
  BY DEF Workers, Needs, OrderNeeds
<1>3. Workers(app) \subseteq AllWorkers
  BY ServicesAreGood DEF Init, StartInit, ServiceIsGood, NeedsAreGood, Workers
<1> QED BY <1>1, <1>2, <1>3 DEF CauseSound, StopsForCause, AllWorkers

\* A step within one phase of main in which no goroutine ends keeps it.
LEMMA CauseStays ==
  ASSUME CauseSound, UNCHANGED <<app, step, main, group>>,
         signal => signal', crashed => crashed',
         closed' # {} => closed # {} \/ main = "closing",
         \A w \in Workers(app) \cup {"server"} :
           worker'[w] = worker[w] \/ worker'[w] \in {"asking", "making", "running"}
  PROVE  CauseSound'
BY DEF CauseSound, StopsForCause, ran, Workers

\* A goroutine that ends does so for a cause.
LEMMA CauseOfWorker ==
  ASSUME IInv, CauseSound, NEW w \in AllWorkers,
         Fails(w) \/ SeesCtx(w) \/ SeesClosedGroup(w) \/ DropsReport(w)
  PROVE  CauseSound'
<1>1. /\ UNCHANGED <<app, step, main, signal, closed>>
      /\ crashed => crashed'
      /\ \A v \in AllWorkers \ {w} : worker'[v] = worker[v]
  BY DEF Fails, SeesCtx, SeesClosedGroup, DropsReport, Returns, startVars, built, IInv, Types
<1>2. w \in Workers(app) /\ Workers(app) \subseteq AllWorkers
  BY OnlyWorkersWork, AppIsGood
     DEF Fails, SeesCtx, SeesClosedGroup, DropsReport, NeedsAreGood, Workers
<1>3. signal \/ crashed'
  <2>1. CASE Fails(w)
    BY <2>1 DEF Fails
  <2>2. CASE SeesCtx(w)
    BY <1>1, <2>2 DEF SeesCtx, CtxDone, CauseSound
  <2>3. CASE SeesClosedGroup(w)
    <3>1. main = "closing" /\ ran
      BY <2>3 DEF SeesClosedGroup, CauseSound, Running, IInv, MainSound
    <3> QED BY <1>1, <3>1 DEF CauseSound, StopsForCause
  <2>4. CASE DropsReport(w)
    BY <2>4 DEF DropsReport
  <2> QED BY <2>1, <2>2, <2>3, <2>4
<1>4. app = "order" /\ w = "server" => crashed'
  BY DEF Fails, SeesCtx, SeesClosedGroup, DropsReport, CtxDone, IInv, WorkerSound, UsesErrgroup
<1>5. StopsForCause'
  BY <1>1 DEF CauseSound, StopsForCause, ran
<1>6. \A v \in Workers(app)' : worker'[v] \in {"reporting", "ended"} => signal' \/ crashed'
  BY <1>1, <1>2, <1>3 DEF CauseSound, Workers
<1>7. app' = "order" /\ worker'["server"] = "ended" => crashed'
  BY <1>1, <1>4 DEF CauseSound, AllWorkers
<1> QED BY <1>1, <1>3, <1>5, <1>6, <1>7 DEF CauseSound

\* The shutdown begins for a cause.
LEMMA CauseOfShutdown ==
  ASSUME IInv, CauseSound,
         SeesSignal \/ WaitEnds \/ \E w \in AllWorkers : Receives(w)
  PROVE  CauseSound'
<1>1. /\ UNCHANGED <<app, step, signal, crashed, group, closed>>
      /\ main' = "closing"
  BY DEF SeesSignal, WaitEnds, Receives, Shutdown, built
<1>2. IF app = "order" THEN crashed ELSE signal \/ crashed
  <2>1. CASE SeesSignal
    BY <2>1 DEF SeesSignal, UsesErrgroup
  <2>2. CASE WaitEnds
    <3>1. \A w \in Workers(app) : worker[w] = "ended"
      BY <2>2 DEF WaitEnds
    <3>2. app \in {"order", "notification"}
      BY <2>2 DEF WaitEnds, UsesErrgroup
    <3>3. app = "order" => "server" \in Workers(app)
      BY DEF Workers, Needs, OrderNeeds
    <3>4. app = "notification" => "consumer" \in Workers(app)
      BY DEF Workers, Needs, NotificationNeeds
    <3> QED BY <3>1, <3>2, <3>3, <3>4 DEF CauseSound
  <2>3. CASE \E w \in AllWorkers : Receives(w)
    <3>1. PICK w \in AllWorkers : Receives(w)
      BY <2>3
    <3>2. w \in Workers(app) /\ worker[w] = "reporting" /\ ~UsesErrgroup(app)
      BY <3>1, OnlyWorkersWork DEF Receives, IInv, WorkerSound
    <3> QED BY <3>2 DEF CauseSound, UsesErrgroup
  <2> QED BY <2>1, <2>2, <2>3
<1>3. signal \/ crashed
  BY <1>2
<1>4. app = "order" => worker' = worker
  <2>1. \A w \in AllWorkers : app = "order" => worker[w] # "reporting"
    BY DEF IInv, WorkerSound, UsesErrgroup
  <2> QED BY <2>1 DEF SeesSignal, WaitEnds, Receives
<1> QED BY <1>1, <1>2, <1>3, <1>4 DEF CauseSound, StopsForCause

\* And so it goes on to the end of the process.
LEMMA NextCause == IInv /\ CauseSound /\ [Next]_vars => CauseSound'
<1> SUFFICES ASSUME IInv, CauseSound, [Next]_vars PROVE CauseSound'
  OBVIOUS
<1> USE DEF startVars, built
<1>1. CASE UNCHANGED vars \/ CallBegins \/ CallEnds \/ BotStops \/ Signal
  BY <1>1, CauseStays DEF vars, CallBegins, CallEnds, BotStops, Signal
<1>2. CASE \E x \in Resources : Close(x)
  BY <1>2, CauseStays DEF Close
<1>3. ASSUME NEW w \in AllWorkers, Get(w) \/ Miss(w) \/ Made(w) \/ Start(w)
      PROVE  CauseSound'
  <2>1. /\ UNCHANGED <<app, step, main, signal, group, closed, crashed>>
        /\ \/ UNCHANGED worker
           \/ \E p \in {"making", "asking", "running"} : worker' = [worker EXCEPT ![w] = p]
    BY <1>3 DEF Get, Gets, Miss, Made, Makes, Start
  <2>2. \A v \in AllWorkers :
          worker'[v] = worker[v] \/ worker'[v] \in {"asking", "making", "running"}
    BY <2>1 DEF IInv, Types
  <2>3. Workers(app) \cup {"server"} \subseteq AllWorkers
    BY AppIsGood DEF NeedsAreGood, Workers, AllWorkers
  <2> QED BY <2>1, <2>2, <2>3, CauseStays
<1>4. ASSUME NEW w \in AllWorkers, Fails(w) \/ SeesCtx(w) \/ SeesClosedGroup(w) \/ DropsReport(w)
      PROVE  CauseSound'
  BY <1>4, CauseOfWorker
<1>5. ASSUME NEW w \in AllWorkers, MakePanics(w)
      PROVE  CauseSound'
  BY <1>5 DEF MakePanics, CauseSound, StopsForCause, Workers
<1>6. CASE SeesSignal \/ WaitEnds \/ \E w \in AllWorkers : Receives(w)
  BY <1>6, CauseOfShutdown
<1>7. CASE New
  <2>1. /\ app' = app /\ main = "starting" /\ ~ran
        /\ UNCHANGED <<signal, group, worker, closed, crashed>>
    BY <1>7 DEF New, Initialise, InitFails, InitPanics, ran
  <2>2. closed = {}
    BY <2>1 DEF CauseSound
  <2>3. main' \in {"closing", "exited"} => ~ran'
    <3>1. main' \in {"closing", "exited"} => step' = step
      BY <1>7, <2>1 DEF New, Initialise, InitFails, InitPanics
    <3> QED BY <2>1, <3>1 DEF ran, IInv, MainSound, Types
  <2> QED BY <2>1, <2>2, <2>3 DEF CauseSound, StopsForCause, Workers
<1>8. CASE Stops \/ Exits
  <2>1. /\ UNCHANGED <<app, step, signal, group, closed, crashed>>
        /\ main = "closing" /\ main' = "exited"
        /\ app = "order" => worker' = worker
    BY <1>8 DEF Stops, Exits, IsGrpc
  <2>2. ran
    BY <2>1, AppIsGood DEF ran, IInv, MainSound, InitsAreGood
  <2> QED BY <2>1, <2>2 DEF CauseSound, StopsForCause
<1> QED BY <1>1, <1>2, <1>3, <1>4, <1>5, <1>6, <1>7, <1>8 DEF Next

\* No service that was up shuts down unasked while its workers work, and the
\* order service does not even when it is asked.
THEOREM StopsHaveCause == Spec => []StopsForCause
<1>1. Spec => [](IInv /\ CauseSound)
  BY Invariance, InitCause, NextCause, PTL DEF Spec
<1>2. CauseSound => StopsForCause
  BY DEF CauseSound
<1> QED BY <1>1, <1>2, PTL

\* Where run waits for its goroutines, closing begins after the last of them
\* has ended, with everything that was ever opened. Of what else may run then,
\* order has requests only, when its HTTP server has failed, and notification
\* its bot.
THEOREM ClosingFollowsUse == Spec => []ClosedAfterUse
<1>1. ASSUME IInv, CauseSound, UsesErrgroup(app), ran, main \in {"closing", "exited"}
      PROVE  /\ toClose = Opened
             /\ Busy \subseteq (IF app = "order" THEN {"call"} ELSE {"bot"})
             /\ calls > 0 => crashed
  <2>1. toClose = Opened /\ \A w \in Workers(app) : worker[w] = "ended"
    BY <1>1 DEF IInv, EndedFirst
  <2>2. Busy = {x \in {"call"} : calls > 0} \cup {x \in {"bot"} : polling}
    BY <2>1 DEF Busy
  <2>3. app = "order" => ~polling /\ crashed
    BY <1>1 DEF IInv, OutsideSound, CauseSound, StopsForCause
  <2>4. app # "order" => app = "notification"
    BY <1>1 DEF UsesErrgroup
  <2>5. app = "notification" => ~(calls > 0)
    BY <1>1 DEF IInv, OutsideSound, Workers, Needs, NotificationNeeds
  <2> QED BY <2>1, <2>2, <2>3, <2>4, <2>5
<1>2. IInv /\ CauseSound => ClosedAfterUse
  BY <1>1 DEF ClosedAfterUse
<1> QED BY <1>2, Invariance, InitCause, NextCause, PTL DEF Spec
=============================================================================
