# TLA+ models of xmidt-event-streams

xmidt-event-streams receives device events (WRP messages) over HTTP, matches them
against configured filters, collects what a filter accepts into batches and puts the
batches into Kinesis streams, with retries and failover to alternative streams. The
modules here model that way from the request to the stream, who is let in at its
beginning, the credentials used at its end, and the loading of the filters. TLC checks them on small instances;
TLAPS proves the main invariants for all values of the constants.

Line numbers refer to the files under `src/`. `queue.go` is `internal/queue/queue.go`,
`stream_dispatcher.go` and the `filter*.go` are in `filter/`, and so on.

Contents: [the system](#the-system), [modules and code](#modules-and-code),
[runs](#runs), [fairness](#fairness), [divergences](#where-code-and-documents-disagree),
[proofs](#proofs), [not modelled](#what-is-not-modelled), [plan](#plan).

## The system

```
 HTTP request ─ route, Auth.Middleware ─ keys from a URL
                  │
                RequestHandler ─ EventHandler ─ FilterManager.Queue
                (one goroutine     │
                 per request)      ├─ Filter.Queue ─ matchers ─ Dispatcher.Queue
                                   ├─ ...                          │ AddItem
                                                                   ▼
                                        MyQueue: channel ─ Start (one goroutine)
                                                                   │ batch, semaphore
                                                                   ▼
                                 StreamDispatcher.Submit (one goroutine per batch)
                                     for each stream until one takes the batch:
                                       KinesisSender.OnEvent ─ retry runner
                                         KinesisClient.PutRecords ─ refreshClient, STS
```

| component | state it keeps | operations | module |
|---|---|---|---|
| request handler, `internal/event/request_handler.go` | `incomingQueueDepth` | `ServeHTTP` | `EventIntake` |
| event handler, `internal/event/event_handler.go` | none | `HandleEvent` | `EventIntake` |
| filter manager, `filter_manager.go` | the map `filters`, a mutex, a shutdown channel | `New`, `Queue`, `Shutdown` | `EventIntake`, `FilterLoading` |
| filter, `filter.go` | matchers, dispatcher | `Queue`, `Shutdown` | `EventIntake`, `FilterLoading` |
| filter factory, `filter_factory.go`, `filter_config.go` | defaults | `New` | `FilterLoading` |
| dispatcher factory and queue provider | options | `GetDispatcher`, `GetQueue` | `FilterLoading` |
| stream dispatcher, `stream_dispatcher.go` | streams, senders, queue, counters | `Queue`, `Submit`, `Shutdown` | `BatchDelivery`, `Delivery`, `Pipeline`, `EventQueue` |
| queue, `queue.go` | channel, semaphore, wait group, batch size, Start's slice | `AddItem`, `Start`, `SetBatchSize`, `Close`, `Empty`, `Wait` | `EventQueue`, `BatchingFifo`, `FilterQueue`, `Pipeline` |
| sender, `internal/sender` | a client, a retry runner | `OnEvent`, `GetSender` | `BatchDelivery`, `FilterLoading` |
| Kinesis client, `internal/kinesis/kinesis.go` | `svc`, `credsExpireAt` | `PutRecords`, `refreshClient`; `PutRecord` and `GetRecords` unused | `BatchDelivery`, `KinesisCredentials` |
| batch helper, `internal/batch/batch.go` | none | `GetBatch`; `GetBatches` unused | `BatchDelivery` |
| authentication, key provider, `internal/auth` | a key cache of the library | `Middleware`, `GetKeys` | `Access` |
| installation, `internal/install` | configuration | `provideCoreEndpoints`, `provideConfig` | `Access` (routes and authentication only) |
| command line, metrics, logging, time | wiring | | none |

What is hard in it, and what makes each part correct:

* **Queue.** Any number of producers, one consumer, a goroutine per batch and a shutdown
  share a channel and a slice without a lock. `AddItem` tests the length and sends in two
  steps; `Start` hands its slice to a goroutine and goes on; the ticker and `SetBatchSize`
  cut batches anywhere; `Close` panics senders, `Empty` counts one channel and replaces it,
  and a closed channel yields nil messages for ever. Correct means: what the channel took
  is handed over once and in order, in batches that are neither empty nor too large, by a
  bounded number of goroutines; nothing waits for ever; after a shutdown only what
  the shutdown discarded is missing.
* **Delivery.** A batch is cut into requests, each may fail, be refused in part, or be
  stored although its answer is lost; attempts repeat, streams fail over. Correct means: a
  batch reported as sent is stored in one stream in full, requests have a legal size,
  attempts are bounded, every stream gets its chance and no loss goes uncounted.
* **Queue and delivery together.** Goroutines of several batches fail over at the same time
  while the next batch is collected, and a context may end under them. Correct means that a
  message is neither lost without a counter nor sent twice without a failure, that few
  batches are overtaken, and that every message and every goroutine comes to an end.
* **Access.** Tokens are judged by keys fetched earlier, copied once per algorithm, while
  their issuer changes them and refreshes fail. Correct means that nobody unauthorised gets to
  the handler and that a rotation takes access from no one whose key stays.
* **Credentials.** Workers share two unsynchronised fields, the client and the time its
  credentials expire, and refresh both on the way to a request. Correct means that requests
  are sent with credentials that are still valid, in spite of mixed assignments.
* **Intake.** Requests are counted, admitted and offered to the filters; a queue can block
  its producer, and Shutdown can close it meanwhile. Correct means that the count is exact on
  each of the ways out, the bound holds, one filter's trouble does not keep a message from
  another, and every request is answered.
* **Loading.** Goroutines are started before a filter is known to be sound, sizes pass through
  three levels of defaults, names may repeat. Correct means that sizes arrive positive,
  filters match what was asked for and no goroutine is left over without an explanation.

The `hazards` of `PROJECT.json` list these at the lines where they bite, each with the
properties that cover it or the reason why none does.

## Modules and code

Every definition that models code is listed with its lines in the `map` of `PROJECT.json`.
Operators whose comment begins with "Mutant" are altered forms of the definition behind
them; no specification uses them. They show that a property can fail: put in place of
the definition, each makes TLC report the property its `mutants` entry names.

**`EventQueue`**: one `MyQueue` with the Shutdown of its dispatcher. `stage[m]` is the
control point of the `AddItem` call that carries `m`: `AddItemCheck`/`AddItemDrop` (the
length test), `AddItemBind` (the operand `q.items` is read; a closed channel panics),
`AddItemSend`. `pc` is the control point of `Start`, with one action per case of its select
(`ReceiveItem`, `ReceiveOrphan`, `ReceiveZero`, `Tick`, `CtxDone`), `ProcessItems`, and
`Acquire`/`AcquireCancelled` for `submitItems`. `buf`, `closed` are the channel;
`orphan`, `onOrphan` what `Empty` replaced and whether the select still holds it.
`SubmitReturns` and `SubmitPanics` end a batch's goroutine. Nil messages, which a closed
channel yields, are counted in `nils`. `accepted` and `handed` are history.

**`BatchingFifo`**: what a queue promises that nobody empties, and that it hands nothing over once
its context has ended. `EventQueue` implements it with `backlog` as Start's slice followed by
the buffer and `ended` as `cancelled`.

**`FilterQueue`**: `EventQueue` seen as the queue of `EventIntake` with a single filter
(`Intake(mode)`): `HandlerAt` is where a handler's `AddItem` leaves it, `ShutdownAt` where the
Shutdown is, `NilReceived` whether Start has got a nil message. `BehavesAsInIntake` says that
every step of the queue is a step of `EventIntake` or none.

**`BatchDelivery`**: one call of `Submit`. `NoStreams`, `NoMessages`, `EnterLoop`,
`AllStreamsFailed`, `Judge` are `Submit` and `submitBatch`; `OnEvent`, `PutFails` the
retry runner around `PutAnswered`/`PutFails`, the requests of `PutRecords`; `Chunk` and
`More` are `GetBatch`. Kinesis and the network are the choice of which records a request
stores and whether its answer arrives: an error may follow a request that stored anything.

**`Delivery`**: what `Submit` promises the queue: the streams are tried in order and may end up
with any part of the batch, bit by bit (`Store`) or as they fail or succeed (`StreamFails`, `Sent`);
it is sent once one has all of it, and counted in full once all have failed. `BatchDelivery` implements it with `tried` as the streams it is done with and
`counted` as the sum of its counters.

**`Pipeline`**: `EventQueue` with a `Submit` in every goroutine, as `Delivery` describes it
(`StreamFails`, `StreamTakes`, `AllFailed`). `EventQueue`'s own actions are used unchanged
(`QueueStep`); a goroutine ends with `SubmitReturns`. Nobody calls Shutdown here, the context may end.
`Promise(b)` is `Delivery` for batch `b` alone, and `BatchesAreDeliveries` that every batch keeps it.

**`Access`**: the configuration (`isBasic`, `server`, `serviceCapabilities`), the keys at the URL
(`Publish`), the library's cache (`Ask`, `Refreshed`, `RefreshFails`, `FirstToken`) filled by
`GetPostFetcher`, and what the route and the middleware make of a request (`Outcome`), which keep
no state. The library can be told to try every key of a key id; the program does not tell it,
and what its default does is outside the repository, so `triesEvery` is either: if only the first
is tried, of the copies of a key that names no algorithm only the first serves
(`RS256` or `ES256`), which the properties take into account.

**`KinesisCredentials`**: workers sharing a client that has a role. `Check` is the test of
`refreshClient`, `Retrieve`/`RetrieveFails` is `getClient`, `SaveTime`/`SaveSvc` are the two
assignments, visible in either order because nothing orders them; `Tick` lets time pass,
but no call takes longer than `MaxDelay`.

**`EventIntake`**: the handlers (`pc`, `status`), the counter, the range over the filters
(`NextFilter` in any order; `RangeFatal` when the map is being written), `AddItem` again, and
`FilterManager.Shutdown` (`ShutdownNext` ... `Delete`). The queues behind are what producers
see of them, a channel and a loop that takes from it (`Receive`); once the channel is closed and
drained, or was replaced by Empty, the loop may get a nil message (`ReceiveZero`), and then the
process may end at any moment (`NilBatch`), also after a new channel is in place. `FilterQueue`
shows that `EventQueue` does nothing else.

**`FilterLoading`**: `New` of the filter manager as a sequential machine: `checkRequired`,
`configureQueue`, `ParseDestType`, `GetSender` per stream, `StartQueue`,
`configureMatchers` with the entry in the map. A regular expression is the set of texts it
matches. `Accepts` is `Filter.Queue`'s decision and `Wants` its reference.

The modules meet at these points. The queues of `EventIntake` are `EventQueue`, seen as
`FilterQueue` says. A batch that `EventQueue` hands to a goroutine is the `batchLen` and `hasNil`
of a `BatchDelivery`, which implements `Delivery`, and every batch of `Pipeline` is delivered as
`Delivery` says. An `Outcome` of "handler" in `Access` is the arrival of a request in
`EventIntake`. The sizes of `FilterLoading`'s `NewQueue` satisfy `QueueAssumption` of `EventQueue`
(invariant `SizesArePositive`). A request of `PutRecords` is the `Send` of `KinesisCredentials`.
The first two are checked and proved; the others are read off the code.

## Runs

Each `MC` module instantiates a module for TLC; its configurations ask one question each.

| run | configuration | distinct states | shows |
|---|---|---|---|
| shutdown | `MCFilterQueue_shutdown` | 398 001 | both kinds of Shutdown against producers, Start and its goroutines: what the channel took is handed over, in the buffer or discarded; a discard is one block, and is counted; nil batches cost at most one partial batch; seen by its producers and by Shutdown, the queue is one of `EventIntake`'s; Shutdown ends |
| live | `MCEventQueue_live` | 82 095 | with SubmitOnEmptyQueue, no Shutdown, batch sizes changing and a context that may end: types, pool and batch bounds; the FIFO is implemented, and the live FIFO without the ticker's help; blocked producers get a place, unless the context ends |
| pipeline | `MCPipeline_pipeline` | 194 358 | the queue with the deliveries of its batches, and a context that may end: losses counted, duplicates explained by failures, order disturbed by less than the worker count; each batch a `Delivery`; with the ticker, every message settles; after the context ended, Start and all goroutines do |
| submit | `MCBatchDelivery_submit` | 65 358 | five invariants of Submit, that it implements `Delivery`, that each step goes on, and that it ends |
| renewal | `MCKinesisCredentials_renewal` | 371 672 | two workers: live credentials, close times, and late assignments that do not undo a refresh |
| admit | `MCEventIntake_admit` | 2 310 262 (symmetry) | admission bound, exact count, complete fan-out and no message twice, beside a gentle Shutdown |
| answer | `MCEventIntake_answer` | 230 411 | every request is answered although an abrupt Shutdown closes and replaces the queue |
| access | `MCAccess_access` | 33 216 | who reaches the handler, and whose access survives rotations of keys and failing refreshes |
| load | `MCFilterLoading_load` | 89 540 | loading and matching |
| crash, besides, retries | `MCEventQueue_crash`, `MCEventIntake_besides`, `MCFilterLoading_retries` | | a counterexample each, see below |

Bounds, and why they are enough:

* `EventQueue`, with a Shutdown: three messages, a channel of two places, two workers, batches
  of two. Producers overtake the length test, one batch runs while the next is collected, and
  the Shutdown meets full, partial and empty buffers and slices.
  Without one (`live`): four messages, one place, one worker, batch sizes one to three, so that a
  batch can run, one wait for the semaphore, the buffer be full and a producer wait. Nothing in
  the code tells a fifth message from a fourth. Only the nil messages are unbounded in principle;
  Start stops at the semaphore once `WorkerPoolSize` batches with nils run, because these never
  finish otherwise than by ending the process.
* `BatchDelivery`: four messages, two to a request (exact multiples, remainders and single
  requests occur), two streams, two attempts each. Program values are 500 and 4.
* `Pipeline`: three messages, one place, two workers, batches of one or two, two streams. Two
  batches fail over at the same time while a third message waits in the slice, or at the
  semaphore when the context ends.
* `Access`: four sets of keys with two key ids: one key, both, the other, and a key of a type
  without entry in `AlgMap`; an algorithm named or not; two capabilities. A request is judged
  alone, so that all of them are looked at in every state.
* `KinesisCredentials`: two workers, lifetime 5, margin 4, delay 2; the clock runs to 9, past
  one renewal. The ratios keep `CredentialsAssumption`, which the 15 minutes, 3 minutes and
  about 30 seconds of the program satisfy.
* `EventIntake`: three requests, two of them admitted at a time, so that refusing happens;
  one or two filters with queues of one place, so that blocking and dropping happen.
* `FilterLoading`: two filters out of 63 configurations, each a sound one or one changed in a
  single aspect (streams, destination, events, devices, sizes, name), and three values of
  the defaults. Filters interact only through names and through the first error, for which two do.

`CHECK_DEADLOCK FALSE` is set where the program really stops: messages or requests are finite,
the loading ends, Submit returns, a context ends or the process crashes.

## Fairness

* Goroutines that can run do (weak fairness of Start's loop, of the pending sends, of Submit
  goroutines, of a Shutdown that has begun, of an admitted handler): Go's scheduler is
  preemptive. Nothing makes a message arrive, a context end, a Shutdown begin or a size change.
* `CtxDone` is strongly fair: a select chooses at random among ready cases, so a case that is
  ready again and again is taken.
* `Tick` is weakly fair in `FairSpec` and `FairPipelineSpec`: the ticker fires every 15 seconds.
  `EagerSpec`, which `live` runs under, does without it.
* `DeliveryFairness` lets the goroutine of every batch go on; which streams fail is open.
  `SubmitFairness` and `BatchDelivery`'s `FairSpec` assume that requests are answered or fail:
  attempts are bounded, and the AWS SDK's own retries and timeouts end (an assumption on
  code outside the repository).
* `EventIntake`'s loops are weakly fair, which `EventQueue`'s liveness runs justify.

## Where code and documents disagree

Runs that expect a violation, each of a sentence in the repository:

| run | the repository says | the code does |
|---|---|---|
| crash | `filter_manager.go:141-143`: a gentle Shutdown waits "for delivery queues to empty" | the nil messages of the closed channel panic in a goroutine without recover |
| besides | `filter_manager_test.go:501-504`: "Concurrent shutdown should not panic" | Queue ranges over the map from which Shutdown deletes |
| retries | `filter_factory.go:31`: "Number of delivery retries before giving up" | DeliveryRetries does not reach the senders, which always retry 3 times |

More of them, met while modelling; the actions show them, no run asks about them:

| the repository says | the code does |
|---|---|
| `stream_dispatcher.go:24`: Queue "will dump messages if the buffer fills up" | producers that pass the length test together wait in the send (`AddItemBind`, `AddItemSend`) |
| `internal/install/config.go:90`: `MaxOutstanding`, a setting of the request handler | the option is commented out (`internal/install/request_handler.go:38`); the bound is always the default |
| `filter.go:44-46`: abruptly shut down, "all queued messages will be dropped without an attempt to send made" | Start's slice is still submitted (`ProcessItems` after `EmptySwap`) |
| `filter_manager.go:141-143`: a gentle Shutdown waits "for delivery queues to empty" | before Start's `wg.Add`, Wait returns with messages in the buffer (`WaitReturns`) |
| `internal/metrics/fx.go:80-81`: "messages dropped by id" | the counter also counts failed attempts at streams for batches that a later stream took (`Drop`) |
| `kinesis.go:332`: the saved expiration replaces asking | between the two assignments another worker trusts the new time and sends with the old client (the exception in `LiveUnlessMidSave`) |
| `request_handler.go:135`: "Request placed on to queue." | also answered when every queue dropped the message (`RangeDone`) |
| `filter_manager.go:115`: "send all the possible streams a message" | the panic on one closed queue ends the loop over the filters (`AddItemSend`) |
| `streams_only.yaml:45`: key "session_token" | the sender reads "sessiontoken" (`internal/sender/sender.go:26`) |

Shutdown is called by tests only: no stop hook is registered. The runs about it say what the
operation does, not what happens when the program is stopped.

## Proofs

TLAPS checks these modules to the last leaf. Sets and bounds are arbitrary; the only assumptions are
the named ones of the modules (`QueueAssumption`, `DeliveryAssumption`, `PipelineAssumption`,
`CredentialsAssumption`, `IntakeAssumption`, `LoadingAssumption`, `AccessAssumption`), which TLC
evaluates in every run. Every safety property of the passing runs is proved: invariants, action
properties and the refinements but for their fairness.

**`EventQueueProofs`.**
`TypeCorrect` and `PoolBounded` follow from `PoolInv`: the running goroutines are among the
batches handed out, a finite set, and the semaphore's weight is their number. `BatchesBounded`
adds `SliceInv`: Start's slice never exceeds the largest batch size and, in front of the
semaphore, is not empty; the bound on the slice is what SetBatchSize could break, as it
lowers the limit under a slice that is already longer. `NothingIsLost` is inductive together
with the types once a Shutdown's position (`emptied`) is known. `QueueImplementsFifo`
shows, as long as no Shutdown is abrupt, by the refinement mapping that each step is a step of `BatchingFifo` or a stutter; a
message is taken once because its `stage` leaves "sending" when the channel takes it.

**`EventQueueShutdownProofs`.** `ChannelInv`: nobody waits on a closed channel, and it stays closed
between the two steps of `Empty`, so that the buffer only shrinks between its being counted and its
being replaced; `EmptyCountsAll` follows. `OneBatchIsSpoiled` needs that a nil message is
in the slice or in a batch only when the channel is closed and drained (`PoisonInv`).
`EmptyCutsOnce` splits what Start has received into the part before the discarded block and the
part behind it (`Cut`); while the select still holds the replaced channel the second is empty.
`QueueBehavesAsInIntake` maps every action of `EventQueue` to one of `EventIntake` or a stutter. Its
`ViewInv` holds what the view hides and a step needs: what has left the channel is a prefix of what
it took, and a nil message is only received where `ReceiveZero` may receive one.

**`PipelineProofs`.** Every step of the pipeline is one of the queue or none (`PipelineHasTheQueue`),
which makes `EventQueue`'s theorems available. `LossesAreCounted` compares, step by step, the
messages that cease to be covered with what is counted: at most one for a refusal, at most the
length of the batch when all streams have failed. `DuplicatesAreFailures` needs that batches have no message in
common (`BatchesInv`, from `NothingIsLost` and `AcceptedOnce`) and that what is stored comes from a batch,
in streams tried for it (`CopiesInv`). `FewAreOvertaken` is inductive with `PoolInv`.
`BatchesKeepThePromise` takes a step of one goroutine apart by batch: for its own batch it is a
step of `Delivery` (`OwnDelivery`), for another one it is none, because batches share no message
(`OthersDelivery`), and a batch just handed over is in no stream (`NewBatch`); that it holds no nil
message (`NilFree`) is what the absence of a Shutdown is needed for.

**`BatchDeliveryProofs`.** `SentIsStored` needs `StoredInv`: while no record of the attempt
has been refused, the stream tried holds all items before `start`. `LoopInv` bounds `start` so
that a request is never empty (`LegalRequests`). The lemmas on `Chunk` state what `GetBatch`
returns for every start and length. `CopiesAreBounded` counts, per record and stream, at most one
put in each attempt made; `EveryStreamIsTried` relates the counters to the streams behind `i`;
`LossesAreCounted` follows from what each way out counts. `SubmitImplementsDelivery` uses the
invariants to map every step to a step of `Delivery` or a stutter: a request is a `Store`, the end of
a failed stream a `StreamFails`, and the last answer `Sent` because of `StoredInv`.
`SubmitAdvances` is what can be proved of `SubmitEnds`: each step goes on in the order stream, phase,
attempt, chunk, and the type invariant keeps all four within their ends; that a step is always
possible, and is taken, remains with TLC.

**`KinesisCredentialsProofs`.** `CredentialsSafety` is an invariant of two parts. `ClockInv`:
nobody is under way for longer than `MaxDelay`, and what a worker got from STS is as fresh as
its call. `FreshInv`: the saved time is ahead of the client by at most `MaxDelay` unless
a worker is between its two assignments; what a worker that has put its client in place
still has to save as time is no further ahead either; a worker about to send made its test
at least a margin, less a delay, before the client expires. `CredentialsAreLive`,
`SavedTimeIsClose` and `ClientsDoNotAge` follow. `2 * MaxDelay <= Margin` is used in the
first: one delay for the client that may be older than the time saved, one for the way
from the test to the request.

**`EventIntakeProofs`.** `DepthCountsHandlers` and `AdmissionIsBounded` rest on
`WithinStep`: every step but `Refuse`, `Admit` and `Leave` keeps the set of handlers on their way
and admits none. The finiteness of `Requests` is used for cardinalities. `FanOutCompletes`: a
filter that accepted a message has it or its handler is in that filter's `AddItem` (`FanOutInv`); a filter does
not lose what it has (`HasIsStable`), and a Shutdown that has begun leaves its traces for good
(`ShutdownIsForGood`). `OfferedAtMostOnce` needs that a message a filter has, or has refused, is one
whose handler has visited the filter and is no longer at it (`OnceInv`), so that the next
`AddItem` is for a filter that never saw the message.

**`FilterLoadingProofs`.** `LoadingInv` relates the place of the loading to what has been started:
a queue belongs to a configuration that is done with or whose matchers are next (`PlaceInv`), a name has the
filter of the last configuration of that name (`NamesInv`), and what is compiled is what was configured
(`MatchersInv`). `FiltersAcceptWhatIsWanted` compares the detours of the code with the reference
`Wants`, for any lists of patterns.

**`AccessProofs`.** `SourceInv`: what is in the cache was made of one of the sets published since
it was read. `FetcherIsFaithful`: the copies verify exactly the tokens the keys they were made of are
for. `OnlyAuthorised` and `AccessSurvivesRotation` follow for any keys, ids and capabilities.

Types are proved for every module (`TypeCorrect`, `PipelineTypes`). Runs check them for `EventQueue`
and `FilterLoading`, where they relate variables. For the other modules the theorem stands alone;
their runs ask for what takes several steps to go wrong.

Model-checked only: the liveness properties (`ShutdownEnds`, `SenderUnblocks`, `SubmitEnds`,
`EveryRequestIsAnswered`, `EveryMessageSettles`, `CancelLeavesOnlyTheQueue`) and the live refinement
`ImplementsLiveFifo`. Liveness under fairness is beyond this prover.

## What is not modelled

* The libraries under the middleware: parsing of headers, checking of signatures, expiry of
  tokens. `auth.New` drops the error of an unusable key URL and installs a nil middleware; what
  the library does with it is not modelled. Nor is a cloning of keys that fails.
* Installation but for the routes, command line, HTTP servers, metrics registration, logging: wiring.
* Decoding of WRP messages and what `fixWrp` fills in: a choice between a good and a bad request.
* `PutRecord`, `GetRecords`, `GetBatches`, `overlaps`, the conversions of `internal/mytime`:
  no part of the program calls them.
* Regular expressions as text, JSON encoding, partition keys and shards.
* A crash of the process loses what is in memory; nothing is persisted, so there is nothing to
  recover and no property about it.
* Labels and histograms of the metrics; only counters of lost messages are state.
* Data races other than those on the channel, on the map of filters and on the client's two fields:
  `cfg.BatchSize` is a word, read and written whole.

## Plan

Done: 1. `EventQueue` with `BatchingFifo`; 2. `BatchDelivery`; 3. `KinesisCredentials`;
4. `EventIntake`; 5. `FilterLoading`; 6. `Delivery`, its refinement by `BatchDelivery`, and `Pipeline`;
7. `Access`; 8. proofs of all safety properties of these; 9. `FilterQueue`, which refines the queues
of `EventIntake` by `EventQueue`, and of `Delivery` by each batch of `Pipeline`.

To come:

10. Filters that share streams: several `Pipeline`s over the same Kinesis client.
