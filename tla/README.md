# Formal model of rocket-maintenance

TLA+ modules, TLC runs and TLAPS proofs for the Go monorepo in `src/`: five
services that create, pay, build and report orders for rocket parts, and the
platform code they share. File references below are relative to `src/`.

## 1. Inventory of the system

```
  HTTP client ──► order ──gRPC──► inventory (MongoDB)
                  │  │ ──gRPC──► payment   (stateless)
             Postgres │
                      └─ order.paid ──► assembly ── order.assembled ──► order (Complete)
                             │                            │
                             └────────► notification ◄────┘ ──► Telegram chats
```

| Part | State | Operations | Hard because |
|---|---|---|---|
| order service (`order/internal/service/order`) | rows of `orders` | Create, Pay, Cancel, OrderByID, Complete | reads a row, decides on the copy and writes later by id, with no transaction, lock or status condition |
| order repository (`order/internal/repository/order`) | Postgres | Create, OrderByID, Update (writes only the fields that are set) | acknowledgements may be lost |
| order producer, platform producer | – | SendOrderPaid | runs after the row is written; no outbox, no retry |
| inventory (`inventory/internal`) | Mongo collection of parts | GetPart, ListParts, bootstrap at each start | bootstrap repeats itself under new ids and may stop half way |
| payment (`payment/internal`) | none | PayOrder | no idempotency: each call is a charge; the caller sets no deadline |
| assembly (`assembly/internal`) | a timer | paidOrderHandler | the session may end while the timer runs; a redelivered event is built again |
| notification (`notification/internal`) | chats in memory | two handlers, `/start` | fan-out stops at the first error; a restart forgets the chats |
| Kafka consumer (`platform/kafka/consumer`, `middleware`) | position, mark, committed offset | Consume, ConsumeClaim, Recovery | marks, commits, rebalances, cancellation and crashes interleave; a failed message is passed over |
| order API (`shared/pkg/openapi/order/v1`, `order/internal/transport/http`) | none; one request at a time in each of its parts | four operations through client, router, parameters, body, validators, handler, encoder, decoder | two generated halves and a hand-written middle must agree on every status, field and path while the connection fails, is given up or repeats a GET |
| start (`*/cmd/main.go`, `*/internal/app`) | fields of the DI container | `New` with its initialisers, the getters | initialisers fail half way; getters run in several goroutines without a lock |
| closer (`platform/closer`) | list of functions, `once`, `done` | Add, CloseAll, signal handler | goroutines, an error channel that gets closed, a deadline |
| stop (`*/internal/app`) | goroutines of `run`, resources of the DI container | run, gracefulShutdown | a signal, a failing worker and late opening race |

What makes each part correct is stated as properties in section 3;
`PROJECT.json` lists the hazards they are aimed at, each at its line.

## 2. Modules

| Module | Models | State and actions in the code |
|---|---|---|
| `OrderLifecycle` | abstract: the status machine of an order | what the service promises of one order |
| `OrderService` | table, requests Pay and Cancel, handler of order.assembled | one action per CALL a request makes (`PayRead`, `PayCharge`, `PayUpdate`, `PaySend`, `CancelRead`, `CancelUpdate`); `ord[r]` is the local variable `ord`; `UpdatedRow` is the partial UPDATE |
| `Inventory` | the collection, filters, conversions, bootstrap, edits by hand | `BuildMongoFilter`, `EntityFromModel`, … keep their names |
| `OrderCreate` | Create against a changing inventory (extends `Inventory`) | `ListsParts`, then the checks on the local `parts`, then `Inserts` |
| `OrderCodec` | the data of the order API: Go values, their JSON, decoders and validators | one operator per generated codec and validator; a struct is described by a schema (fields, required fields, closed or not) |
| `OrderAPI` | one request from the generated client to its answer (extends `OrderCodec`) | `sendPayOrder`, `Route`, `handlePayOrderRequest`, `PayOrderHandler`, `WriteAnswer`, `DecodeResponse`, … one action per layer; a path is a sequence of pieces |
| `RemoteCall` | abstract: an operation that runs, answers or fails | what a caller of the API may rely on |
| `ConsumerGroup` | abstract: a reader with a position, a mark and a committed offset | what the services rely on |
| `KafkaConsumer` | one group on one partition: Consume, ConsumeClaim, Recovery, sarama sessions | `marked` is the session's mark, `committed` the broker's; a rebalance and a cancellation first make the session "closing" |
| `Fulfilment` | composition: `OrderService` (as an instance), four `ConsumerGroup`s, assembly, notification, two topics | every action of the order service is one step; handlers of the other services are added |
| `Closer` | Add, CloseAll by several callers, the signal handler | one action per goroutine step |
| `ServiceStart` | main, `New` and the containers of all five services | `Inits` lists the initialisers of each service, `Needs` what its goroutines ask the container for; a getter is two steps, `Miss` (in `ServiceShutdown`) and `Makes` |
| `ServiceShutdown` | run and gracefulShutdown of all five services (extends `ServiceStart`), hence a whole life from main to exit | workers, contexts, what is opened and closed; outside the workers, the calls a server has in flight (HTTP or gRPC) and the goroutine of the bot |
| `MCOrderService`, `MCOrderCreate`, `MCOrderAPI` | symmetry and instances for TLC | |
| `OrderServiceProofs`, `OrderLifecycleProofs`, `OrderCreateProofs`, `KafkaConsumerProofs`, `FulfilmentProofs`, `CloserProofs`, `ServiceShutdownProofs`, `OrderAPIProofs` | theorems, section 4 | |

Four refinements tie the detailed modules to what they promise.
`OrderService` implements `OrderLifecycle` when callers take turns
(`RefinesLifecycle`), `KafkaConsumer` implements `ConsumerGroup`
(`RefinesGroup`), the whole path of `OrderAPI` is a `RemoteCall` to its caller
(`RefinesRemoteCall`), and the whole system of `Fulfilment` implements
`OrderService` (`RefinesOrderService`). The last is a statement about the topics:
`OrderService` assumes that ships are assembled for announced orders only
(`ShipAssembled`), the handler in `Fulfilment` completes whatever order its message
names, as the code does, and what is on the topics makes the assumption true.

Abstractions:

- A request names its own transaction: PayOrder draws a fresh uuid and a request
  calls it at most once.
- A failing query or send either had no effect or had its effect before the error
  was returned. A statement the database applies only after its client has given up is
  left out.
- A query of the small inventory collection is one step.
- One partition per topic: all messages of an order carry the order id as key.
- Messages and answers are records of what the services read of them. In
  `OrderAPI` a JSON document is a tree of tagged values and a path a sequence of
  pieces of text; a price keeps its sign, its units and its digits after the
  point, since a pattern is matched against them. Bytes, the wording of errors, logs,
  part descriptions, dimensions and metadata are left out.
- Requests to the API share nothing before they reach the service, so one at a
  time shows what any number of them does. Resending a GET (net/http) and
  answering a panic (chi) are external.
- A uuid is canonical: `uuid.Parse`, which the generated decoders and Pay call, also accepts the
  `urn:uuid:`, the braced and the bare hexadecimal form. They stand for the same value and are left out.
  That it refuses the payment service's transaction id is an outcome of `PayCharge` (500).
- `Edited` (prices and stock changed by hand) is outside the code; without it the
  stock would never change, since no code writes it.

## 3. Runs

Every run ends with "no error" or, where `expect` is *violation*, with the
counterexample described.

| Run | Instance | Question |
|---|---|---|
| `order_race` | 2 orders, 3 racing requests, 3 methods with the unknown one, all faults | What survives every race and fault: a shown payment was charged, events agree with the table, payment data is never lost, a request that comes after an answer 200 is refused; the inductive invariant of the proofs, of which "200 means announced" (`OkMeansAnnounced`) is a part |
| `order_turns` | the same, one request per order in flight | The life cycle is followed, events name the row's payment, whoever is answered 200 is charged once, a paid order is announced or some caller was told of a failure |
| `order_stale` (violation) | 1 order, 2 requests, no faults | PayOrder is called for an order that was cancelled since Pay read it, and a second payment is stored over one that was stored since: `order_pay.yaml` says both happen to PENDING_PAYMENT orders |
| `order_silent` (violation) | callers take turns, only Kafka fails | After a failed send a PAID order is never announced: `assembly.proto` says paid orders are fulfilled |
| `order_create` | 1 request of up to 2 parts, 2 catalogue entries, 4 ids, 1 edit | A stored order names distinct parts that were listed in stock, with their total; 404 and 201 tell the truth; ordered parts outlive restarts; filters mean what the proto says |
| `order_api` | 2 uuids and the nil uuid, 3 prices, every path of up to four pieces, every kind of body, all faults, one resend | A request is served exactly when the interface description declares it; the client reads the answer the handler gave, field by field; metrics count the status that was sent; the whole path is a remote call |
| `kafka` | 3 messages, 2 interruptions | A message is lost only to a panic or by being overtaken; the consumer is a `ConsumerGroup`; every message is tried |
| `fulfilment` | 1 order, 2 requests, 1 chat, 2 ships, 1 stop | No ship without payment, no notice ahead of its cause, announced orders are completed, known chats are told, and the topics never name an order that was not announced |
| `fulfilment_twice` (violation) | the same | An event that comes again is sent to the chats again: `assembly.proto` asks for `event_uuid` to prevent it |
| `closer` | 3 functions, 2 callers | No send on the closed channel, nil means that everything is closed, CloseAll returns |
| `shutdown` | all five services, each from main to exit, 2 calls in flight | Nothing with a state is made twice by goroutines that share the container; order and notification close after all goroutines of their errgroup, forgetting nothing, and only a request in flight (order, its server failed) or the bot may still run then; a signal or a failing worker ends the process (order excepted) |
| `shutdown_order` (violation) | order | SIGTERM does not end the order service |

Why the bounds are enough. Requests meet only in one row, and the races of the code are between
a read and a write: two requests show each pair, the third lets one of them
come late (pay, pay, cancel). Two orders let one request's data reach another's
row if it could. Create requests never read each other's rows, so one request
against a changing inventory shows what each of many does; two parts are enough for a
duplicate, a missing and a sold out one, and four ids for two whole
bootstraps or a failed one and a whole one. Three messages let one be overtaken while another
waits; two interruptions let a rebalance meet a crash. In `fulfilment` one stop
is enough to repeat any single message on any of the four groups. In `order_api` the
longest declared path has four pieces after the base, every body differs from a proper one in
at most two fields, and the prices have one digit of cents, two, and none. `shutdown`
has no bound but the number of calls in flight, and two show one that ends while
another runs. Three close functions let one fail, one
panic late and one hang. Deadlock checking is off in every run but `order_api`, because the
modelled behaviours may end: requests are served once, processes stop, the
bounds run out. (In `order_api` the next request can always come.)

What `ChargedOnce` does not say. Two Pays that both read PENDING_PAYMENT both call
PayOrder, and nothing in the code prevents the second charge (`service.go:154-183`), so no
property excludes it for racing callers: `ChargedOnce` is checked and proved for callers that
take turns. What holds of racing ones is that a request which comes after an answer 200 charges
nothing (`SettledIsRefused`) and that every charge has a caller who knows of it
(`NoChargeIsSilent`). The double charge itself violates `ActsOnPendingOnly` when the second payment
is stored, which is one of the counterexamples of `order_stale`.

The mutants of `PROJECT.json` show that each property is sensitive to a plausible mistake in the
code it is about; they are the operators with a "Fault:" comment.

### Fairness

- `OrderService`: `PayUpdate` and `PaySend` are weakly fair, as queries have
  timeouts and the synchronous producer returns. `PayCharge` is not: the RPC has no
  deadline. No fairness for clients, crashes or `ShipAssembled`.
- `KafkaConsumer`: joining, taking, handling and leaving go on while the process
  runs. Nothing restarts a stopped process: no compose file gives a service a restart
  policy; so liveness is stated "or the process has stopped".
- `Fulfilment`: consumers keep reading, handlers return, timers fire.
- `Closer`: goroutines that can run do, a close function need not return,
  and the context of CloseAll expires.
- `ServiceShutdown`: initialisers and getters succeed or give up (each opens
  its connection with a timeout), goroutines that can go on do, calls of gRPC servers end
  (their queries have deadlines; a request of order need not, as PayOrder has none), CloseAll ends (its context has one). No
  signal and no failure is assumed to come.

## 4. Proofs

Every theorem holds for all values of the constants that satisfy the named
assumptions of the modules; TLC evaluates these in the runs.

| Theorem | Statement | What it says |
|---|---|---|
| **`OrderServiceProofs`** | assumptions `NoneIsFresh`, `SerializedIsBool` | racing callers, all faults |
| `TypeInvariance`, `Invariance` | `Spec => []TypeOK`, `Spec => []IInv` | |
| `PaidOrdersAreCharged` | `Spec => []PaidIsCharged` | a shown payment was taken |
| `EventsArePersisted` | `Spec => []PublishedIsPersisted` | an event has its payment data in the table |
| `SuccessIsAnnounced` | `Spec => []OkMeansAnnounced` | 200 means announced (a part of `IInv`) |
| `SettledIsSafe` | `Spec => SettledIsRefused` | whoever comes after an answer 200 neither charges nor cancels |
| `PaymentDataIsKept` | `Spec => PaymentDataKept` | payment data is never erased |
| `SilenceIsNoticed` | `Spec => []SilenceIsKnown` | behind every PAID row is an event, a request that still has one to send, or a caller who was told 500 or got no answer |
| `NoChargeIsSilent` | `Spec => []ChargesAreOwned` | behind every charge is the Pay request that made it: at work, or announced, or its caller was told 500 or 502 or lost the connection |
| **`OrderLifecycleProofs`** | the same, and `Serialized` | callers that take turns, all faults |
| `EventsMatchRows` | `Serialized => (Spec => []EventMatchesRow)` | an event names the payment of the row |
| `NobodyIsChargedTwice` | `Serialized => (Spec => []ChargedOnce)` | |
| `ImplementsLifecycle` | `Serialized => (Spec => RefinesLifecycle)` | step simulation of `OrderLifecycle` |
| `ActsInTurn` | `Serialized => (Spec => ActsOnPendingOnly)` | the documented rule that `order_stale` refutes for racing callers: orders are charged, payments stored and orders cancelled in PENDING_PAYMENT only |
| `PaymentsAreFinal` | `Serialized => (Spec => PaymentIsFinal)` | a payment is never replaced, an end is an end |
| `SuccessesAreShown`, `CancelsAreKept` | `Serialized => (Spec => []SuccessIsShown)`, `[]CancelIsKept` | the answers 200 and 204 stay true for ever: this payment is shown; the order is CANCELLED and unpaid |
| **`OrderCreateProofs`** | `IdsAreFinite`, `SeedsAreKnown`, `EditsAreBounded`, `MaxPartsIsNat` | |
| `TypeInvariance` | `Spec => []TypeOK` | |
| `StoredOrdersAreComplete` | `Spec => []OrdersAreComplete` | a stored order names every part once, each found in stock, and costs the sum of what they cost when it was made |
| `NotFoundIsHonest`, `CreatedMeansStored` | `[]MissingIsHonest`, `[]CreatedIsStored` | 404 and 201 tell the truth |
| `NothingOrderedVanishes` | `Spec => []OrderedPartsExist` | ordered parts outlive every restart |
| `ShownPartsAreFound` | `Spec => []FoundByWhatIsShown` | a part is found by every field a client is shown of it |
| `FiltersRestrictInTurn` | `Spec => []FiltersInPasses` | the fields of a filter restrict independently |
| `CountriesStayNormalised` | `Spec => []Normalised` | stored countries stay in the form the filter looks for |
| **`KafkaConsumerProofs`** | `BoundsAreNat` | |
| `TypeInvariance` | `Spec => []TypeOK` | |
| `LossesAreExplained` | `Spec => []LossIsPanicOrOvertaken` | nothing else loses a message |
| `ImplementsGroup` | `Spec => RefinesGroup` | step simulation of `ConsumerGroup` |
| `CommittedIsNotRepeated` | `Spec => CommittedIsOver` | what is committed is never handed to a handler again |
| `NothingIsSkipped` | `Spec => []NothingIsPassedOver` | what the claim delivered was given to the handler or is in hand |
| **`FulfilmentProofs`** | `NoneIsFresh`, `SerializedIsBool`, `BoundsAreNat` | the composed system |
| `TypeInvariance` | `Spec => []TypeOK` | |
| `ImplementsOrderService` | `Spec => RefinesOrderService` | the topics name announced orders only, so the handler that checks nothing does no harm and the system is an order service |
| `NoShipWithoutPayment` | `Spec => []CompletedWasBuilt` | |
| `NoticesTellTheTruth` | `Spec => []NoticesAreTrue` | |
| `SystemKeepsPayments` | `Spec =>` `PaymentDataKept`, `[]PaidIsCharged`, `[]OkMeansAnnounced`, `[]SilenceIsKnown`, `[]ChargesAreOwned` of the order service | its promises hold in the system |
| `SystemImplementsLifecycle` | `Serialized => (Spec =>` `RefinesLifecycle`, `PaymentIsFinal`, `[]ChargedOnce)` | five services implement the life cycle of an order |
| `NothingIsDropped` | `Serialized => (Spec => []CaughtUpIsFulfilled)` | with both consumers caught up, an announced order is completed or a handler returned an error |
| `TopicsAgree` | `Serialized => (Spec => []TopicsMatchRows)` | both topics name the payment of the row, and the row is PAID or COMPLETED |
| `SystemKeepsAnswers` | `Serialized => (Spec => []SuccessIsShown /\ []CancelIsKept)` | 200 and 204 stay true through redelivery and restarts |
| `SuccessesAreFulfilled` | `Serialized => (Spec => []SuccessIsFulfilled)` | with both consumers caught up, the order of a Pay answered 200 is COMPLETED under that payment, or a handler returned an error |
| `CancelledIsNotBuilt` | `Serialized => (Spec => []CancelledIsOnNoTopic)` | an order answered 204 is on neither topic |
| `ChatsAreInformed` | `Spec => NoChatIsPassedOver` | no message passes a known chat untold without an error, nothing told is untold |
| **`CloserProofs`** | `FuncsAreFinite`, `NobodyIsFresh`, `HandlerIsCaller`, `CtxErrIsFresh` | |
| `TypeInvariance` | `Spec => []TypeOK` | |
| `NothingIsSentOnClosed` | `Spec => []NoSendAfterClose` | no send on the closed channel |
| `NilIsHonest` | `Spec => []NilMeansAllClosed` | nil hides nothing |
| `ReportsAreTrue` | `Spec => []ErrorsAreTrue` | an error is that of a failed function or of a done context, and only the working call returns one |
| `CloseAllIsAwaited` | `Spec => []NobodyLeavesEarly` | no call returns before the functions are over or the deadline has passed |
| `FunctionsRunOnce` | `Spec => StartedOnce` | a function is started once, by the one take, and none that is added later |
| **`ServiceShutdownProofs`** | `AppsAreKnown`, `MaxCallsIsNat` | each of the five services, any number of calls in flight |
| `TypeInvariance`, `Invariance` | `Spec => []TypeOK`, `Spec => []IInv` | |
| `NothingIsMadeTwice` | `Spec => []MadeOnce` | no second pool, client, consumer group or service |
| `ThingsAreMadeForUse` | `Spec => []MadeForUse` | such a thing is made exactly if somebody has asked for it |
| `ClosingFollowsUse` | `Spec => []ClosedAfterUse` | CloseAll runs after the errgroup's goroutines, with all that was opened; a request or the bot may be left |
| `StopsHaveCause` | `Spec => []StopsForCause` | a service that was up stops for a signal or a failure; order, only when its HTTP server failed |
| **`OrderAPIProofs`** | the ten named assumptions of `OrderCodec` and `OrderAPI`: uuids have no slash, orders, prices, requests and paths have their types, `Fail` is not `None` | any uuids, orders, prices, bodies, paths and faults |
| `TypeInvariance` | `Spec => []TypeOK` | |
| `Understood` | `Spec => []AnswersAreUnderstood` | the client reads the answer that was given |
| `Served` | `Spec => []ServedAsDeclared` | what is declared is served, and nothing else |
| `Counted` | `Spec => []CountedAsSent` | the metrics show the status that was sent |
| `NothingRunsTwice` | `Spec => [](request.method # "GET" => Len(served) <= 1)` | a request that is not a GET runs at most once, whoever sent it |
| `Refinement` | `NoneIsNothing` implies `Spec => RefinesRemoteCall` | step simulation of `RemoteCall` |

None of the safety properties is inductive; each module strengthens them to an
invariant `IInv` (`TurnsInv`, `CauseSound`) that TLC checked first.

- **`OrderServiceProofs`.** Whether a write leaves a sound row depends on the copy it
  writes, which a request made long ago: `CopiesAreSound` says what such a copy is
  worth (a Pay past the charge holds exactly the payment that was taken; a Cancel holds no
  payment data, since it read a PENDING_PAYMENT row). Whether the copy of a Cancel holds
  none depends on the rows: `RowsAreSound` says that payment data is whole, names a charge
  of that order and is absent before the first payment. There is one lemma per writing
  action and one step per action of `Next`; the action property follows from the lemma
  `RowSteps`, all that a step can do to one row. `SilenceIsKnown`
  needs the promise of a request past its charge to go on until it has
  sent or answered (`SpeakingGoesOn`); with fairness it becomes `PaidIsAnnounced`.
  `ChargesAreOwned` follows a charge through the pc and the answer of the request that
  made it. It needs no turns: requests that race may write over each other's payment
  in the row, yet no payment is taken that nobody was told of.
- **`OrderLifecycleProofs`.** When callers take turns no two requests on one order
  are in flight (`OneAtATime`), so the row still has the status the copy was read
  with (`CopiesAreFresh`): that is the fact the racing service lacks, and
  with it each write is a step of the life cycle. That an order CANCELLED shows no payment,
  that an event is the row's, and that two charges need a failed first
  answer rest on it. `StepsMeet` gathers these steps into the four things that
  can happen to a row, and `ActsInTurn` and `PaymentsAreFinal` are read off them. So is
  what an answer is worth later: a success was announced and an event is the row's, hence
  `SuccessIsShown`; a cancelled row meets no further write, hence `CancelIsKept`, which also
  needs that only the write of a Cancel answers 204 (`CancelAnswer`).
- **`OrderCreateProofs`.** Create compares the number of parts found with the number of
  ids asked for. `SameLength` is the pigeonhole argument that this is enough: parts with
  distinct ids, all of them asked for, are as many as the positions of the list
  exactly if the list repeats nothing and nothing is missing. The invariant carries it
  from the call to the row: the answer in hand is an answer to this list (`FoundIsAsked`),
  a request not yet decided has no effect (`NotYet`), a row was written after both
  comparisons (`RowIsChecked`), and the reply agrees with it (`ReplyIsDecision`). Parts
  never leave the collection (`InvNextKeeps`), so they are there still. The price is
  a sum over the parts, a fold that chooses the next part at each step.
  `IsSum` describes the sum without a choice. It exists for every finite set (`SumExists`) and
  every such fold equals it (`FoldIsSum`): a smallest set for which this failed is
  refuted by taking one element out of it. This is how induction on finite sets is done without a
  theorem that takes an operator. So what Create adds up for its list is what the
  invariant says of the row. The theorems about queries go field by field through
  `BuildMongoFilter` and the conversions; a country is found because stored
  countries are in lower case and trimmed (`Normalised`), which the bootstrap, edits and restarts keep.
- **`KafkaConsumerProofs`.** Offsets are ordered (committed ≤ marked ≤ next in a
  session), and every offset behind the mark is accounted for: handled, panicked, or failed
  before a later success. The simulation adds that a session in the closing phase
  still moves the same three numbers. The message in hand is the next one, hence not
  behind the committed offset: duplicates after a crash or a rebalance are exactly
  what was handled since the last commit. That a message is accounted for implies that it
  was tried, so nothing is skipped either.
- **`FulfilmentProofs`.** The order service inside is an instance with the same
  definitions as the one of `OrderServiceProofs`, so its invariant is taken over
  (`SameInit`, `SameNext`, `SameIInv`) and only the rest is shown: a ship on the topic
  was announced as paid (`LogsAgree`), the handler that waits for its timer has
  its message (`BuildHasMessage`), what completion reads is such a ship, whose payment the order
  service still knows as announced (`ShipsWereAnnounced`), chats are told of messages that are on the topic
  (`ToldIsLogged`), and a completed order has its ship (`CompletedIsShipped`).
  A behaviour of the system is one of the order service (`SystemIsService`), so the theorems
  about the service, refinement included, hold of the system as they stand. What it
  takes to drop nothing is a second invariant, `TurnsInv`: what the assembly
  service has passed was built (`AssemblyDone`), what the order service has passed is
  completed (`CompletionDone`), what was announced is logged (`PublishedIsLogged`),
  each but for a handler's error. `CompletionDone` needs COMPLETED to be final, which
  only callers that take turns give: a racing Cancel can overwrite it.
  Together with the answers of the order service it spans the system: from a 200 to the
  COMPLETED order, from a 204 to topics that never name the order. For the chats one step is
  enough (`NotifyInforms`): a handler that returns nil has told all chats it knew; every
  other step of a group goes back.
- **`CloserProofs`.** The wait group counts the goroutines that have not finished,
  for any finite set of functions; the channel is closed at zero, behind the last
  sender. What was sent is in the channel or in the result. `LeaveInv` adds who may
  return: `c.done` is closed by the working call alone, which leaves when the channel is
  closed or its context is done (`OwnerIsDone`), and the others leave after it.
- **`ServiceShutdownProofs`.** A getter makes a thing if it is not there and another
  goroutine may do the same between the look and the assignment. Both consumers of notification
  may make the converter, which has no state (`Stateless`). That nothing else is made
  twice depends on the order of the initialisers, so the lists of the five services are
  examined first (the `Good` facts): a goroutine asks for what New has made, for what no other
  goroutine asks for, or for the converter. `MadeForUse` is the inductive form of `MadeOnce`: the count is
  1 if an initialiser behind `step` or a goroutine that has got it needed the thing, else 0.
  `MainSound` keeps the goroutines still until New is done, `WorkerSound` what each is
  about to make; that CloseAll comes after the errgroup's goroutines (`EndedFirst`) needs both.
  `OutsideSound` says who can have a bot or a client, so that `ClosedAfterUse` can name all that
  may still run. `CauseSound` follows a stop back
  to its cause; for the order service, which does not pass its context to the HTTP server, this
  is why a signal alone does not stop it (`SignalStops`, run `shutdown_order`).
- **`OrderAPIProofs`.** The codec comes first: a field arrives
  if its kind does (one lemma per kind), a struct if its fields do
  (`StructTravels`), and so every schema has its lemma. `AnswerIsRead` puts together the
  round trip, the two status tables and the client's validators for all answers a
  handler can give (`AnswerOf`). Routing is shown for sequences of any length
  (`Routed`, `DeclaredIsRouted`): a path is its prefix, the piece up to the first slash and the
  rest, so exactly the declared paths reach a handler. `IInv` then says that a request keeps
  its route, that everything served for it is declared, is the caller's own call when the
  generated client sent it, and is at most one call unless it is a GET; that an answer is one of `AnswerOf`
  for the last call served; and that a response is one of five kinds (whole, cut in
  the body, panicked, refused, unrouted), each with what was recorded for it. The
  properties are read off these kinds. For the simulation `TypedSteps` gives each step of
  the path its step of `RemoteCall`: passing a call on is Run, the service's answer
  is Finish, a response that is read is Return, and a panic, a refusal (whose document
  the client cannot decode) or a lost connection is GiveUp. It needs `NoneIsNothing`: None is
  neither a call nor an answer.

Every invariant and every safety action property of the passing runs is stated by a
theorem. Model-checked only: everything with ENABLED or fairness, that is the six
liveness properties `PaidIsAnnounced`, `EveryMessageIsTried`, `CloseAllReturns`,
`OthersStop`, `AnnouncedIsFulfilled` and `ChatsAreTold`. Five of them have a safety half
that is proved, which says what is true as far as the requests, the consumers and the
callers have got: `SilenceIsNoticed`, `NothingIsSkipped`, `CloseAllIsAwaited`,
`NothingIsDropped` and `ChatsAreInformed`.

## 5. What disagrees with the documents

The four violation runs, each with the line it contradicts, are in
`PROJECT.json` under `findings`. Observed while modelling and not worth a run:

- Pay of a COMPLETED order and Cancel of a CANCELLED one are answered 500
  (`service.go:159`), the API lists 409 for them (`order_pay.yaml:53-56`); an unknown
  method gives 502 (`service.go:168`), not 422.
- A request that is refused before it reaches a handler is answered 400 with the body
  `{"error_message": …}`, which the description's own `bad_request_error` (closed, with
  `code` and `message`, `generic_error.yaml:12`) does not allow: the generated client
  cannot read it.
- `mapErrorToCreateOrderRes` sets code 400 in the body of an answer that is encoded
  as 422; `generic_error.yaml:7` calls that field the HTTP status.
- A part listed twice in CreateOrder is answered 404 although it exists.
- `closer.go:157` speaks of the reverse order; the functions start in that order but
  run concurrently.
- When `config.Load` fails, main logs through a logger that is not there yet and
  panics. A start that fails later exits without closing what it has opened, and payment
  and inventory never call the closer.
- When the HTTP server of order fails, CloseAll closes the pool, the payment connection and
  the producer under the requests in flight (`app.go:109`); run of notification does not wait for
  the goroutine of the bot (`app.go:107-110`); assembly's run leaves at the signal while its
  consumer may still be asking the container. `ClosedAfterUse` says that this is all.
- `BuildTimeSec` is read with `time.Duration(...)`, as nanoseconds, by order and
  notification.
- Integer metadata of a part is int32 in BSON and has no case in
  `metadataFromModel`: clients never see it.

## 6. Not modelled

The generated protobuf code, the single values of the configuration, levels and
output of the logger, the gRPC health service (it answers a constant), what goose does to the tables, the
text of Telegram messages and the Telegram client, middleware and instrumentation of
the generated server beyond the recorded status, test containers, deployment. The
README of the repository names a service `iam`; there is no code for it.

## 7. Plan

Built in this order: `OrderService` with `OrderLifecycle` and its proofs,
`KafkaConsumer` with `ConsumerGroup`, `Closer`, `ServiceShutdown`, `Fulfilment`,
`Inventory` with `OrderCreate`; then `ServiceStart`, `OrderCodec`, `OrderAPI` with
`RemoteCall`, and the proofs about lifecycle, Kafka, closer, system, creation and the API;
then those about start and shutdown, sums and queries, and of the service's promises
in the whole system.

Left:

1. Model extensions: several partitions per topic with keys, the database
   applying a statement after its timeout, the converters of Kafka events
   (`BuildTimeSec`) and of inventory metadata (int32).
