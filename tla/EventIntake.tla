----------------------------- MODULE EventIntake ------------------------------
(***************************************************************************)
(* The way of an event from its HTTP request to the queues of the filters: *)
(* RequestHandler.ServeHTTP (internal/event/request_handler.go) admits and *)
(* decodes it, BaseFilterManager.Queue (filter/filter_manager.go) offers   *)
(* it to every filter, and BaseFilter.Queue (filter/filter.go) to the      *)
(* filter's queue if the matchers accept it.  BaseFilterManager.Shutdown   *)
(* runs besides, under a mutex that Queue does not take.                   *)
(*                                                                         *)
(* A filter's queue is here what producers see of it: the channel, a loop  *)
(* that takes messages out of it once it has started, and the nil messages *)
(* a closed channel gives that loop, which end the process some time       *)
(* later.  FilterQueue shows that EventQueue is such a queue.              *)
(***************************************************************************)
EXTENDS Naturals, Sequences, FiniteSets

CONSTANTS
  Requests,        \* the HTTP requests, each with its own handler goroutine
  Filters,         \* the filters loaded by New
  maxOutstanding,  \* MAX_OUTSTANDING_DEFAULT
  ChannelSize,     \* of every filter's queue
  ShutdownMode,    \* is Shutdown called: "none", "gentle" or "abrupt"
  None             \* no filter

ASSUME IntakeAssumption ==
  /\ IsFiniteSet(Requests)
  /\ maxOutstanding \in Nat \ {0} /\ ChannelSize \in Nat \ {0}
  /\ ShutdownMode \in {"none", "gentle", "abrupt"}
  /\ None \notin Filters

VARIABLES
  pc,                  \* control point of each handler
  status,              \* the status code it has written, or 0
  incomingQueueDepth,  \* the field of that name
  visited,             \* the filters the range statement has produced so far
  at,                  \* the filter whose AddItem the handler is in
  filters,             \* the keys of fm.filters
  writing,             \* is Shutdown inside delete?
  buf, closed,         \* the channel of each filter's queue
  started,             \* has the queue's Start begun?
  replaced,            \* has Empty put a new channel in place of the closed one?
  poisoned,            \* has Start received a nil message?
  stop,                \* control point of Shutdown
  victim,              \* the filter Shutdown is at
  crash,               \* why the process has ended: "no", "nil" or "map"
  matched,             \* history: the filters that accepted the message
  taken, refused       \* history: per filter, the messages that have left the
                       \* channel and those AddItem counted as dropped

handlerVars == <<pc, status, incomingQueueDepth, visited, at, matched>>
loopVars    == <<started, replaced, poisoned>>
queueVars   == <<buf, closed, loopVars, taken, refused>>
stopVars    == <<filters, writing, stop, victim>>
vars == <<handlerVars, queueVars, stopVars, crash>>

Points == {"new", "reading", "range", "check", "bind", "sending", "leaving", "answered"}
Codes  == {202, 400, 415, 503}

TypeOK ==
  /\ pc \in [Requests -> Points]
  /\ status \in [Requests -> Codes \cup {0}]
  /\ incomingQueueDepth \in Nat
  /\ visited \in [Requests -> SUBSET Filters] /\ at \in [Requests -> Filters \cup {None}]
  /\ filters \subseteq Filters /\ writing \in BOOLEAN
  /\ buf \in [Filters -> Seq(Requests)] /\ closed \in [Filters -> BOOLEAN]
  /\ started \in [Filters -> BOOLEAN]
  /\ replaced \in [Filters -> BOOLEAN] /\ poisoned \in [Filters -> BOOLEAN]
  /\ stop \in {"idle", "close", "empty", "closeAgain", "wait", "delete", "done"}
  /\ victim \in Filters \cup {None} /\ crash \in {"no", "nil", "map"}
  /\ matched \in [Requests -> SUBSET Filters]
  /\ taken \in [Filters -> SUBSET Requests] /\ refused \in [Filters -> SUBSET Requests]

Init ==
  /\ pc = [r \in Requests |-> "new"] /\ status = [r \in Requests |-> 0]
  /\ incomingQueueDepth = 0
  /\ visited = [r \in Requests |-> {}] /\ at = [r \in Requests |-> None]
  /\ filters = Filters /\ writing = FALSE
  /\ buf = [f \in Filters |-> <<>>] /\ closed = [f \in Filters |-> FALSE]
  /\ started = [f \in Filters |-> FALSE]
  /\ replaced = [f \in Filters |-> FALSE] /\ poisoned = [f \in Filters |-> FALSE]
  /\ stop = "idle" /\ victim = None /\ crash = "no"
  /\ matched = [r \in Requests |-> {}]
  /\ taken = [f \in Filters |-> {}] /\ refused = [f \in Filters |-> {}]

Running == crash = "no"
Contents(f) == {buf[f][k] : k \in DOMAIN buf[f]}
Goto(r, point) == pc' = [pc EXCEPT ![r] = point]

\* The handler writes its answer; the deferred decrement is still to come.
Answer(r, code) == Goto(r, "leaving") /\ status' = [status EXCEPT ![r] = code]

-------------------------------------------------------------------------------
(***************************************************************************)
(* ServeHTTP.  The test of the depth looks at what atomic.AddInt32         *)
(* returned, so it belongs to the addition.                                *)
(***************************************************************************)
UnsupportedMediaType(r) ==
  /\ Running /\ pc[r] = "new" /\ Goto(r, "answered")
  /\ status' = [status EXCEPT ![r] = 415]
  /\ UNCHANGED <<incomingQueueDepth, visited, at, matched, queueVars, stopVars, crash>>

Count(r) == pc[r] = "new" /\ incomingQueueDepth' = incomingQueueDepth + 1

\* Mutant: no deferred decrement on this way out.
RefuseLeaks(r) ==
  /\ Running /\ Count(r) /\ maxOutstanding < incomingQueueDepth'
  /\ Goto(r, "answered")
  /\ status' = [status EXCEPT ![r] = 503]
  /\ UNCHANGED <<visited, at, matched, queueVars, stopVars, crash>>

Refuse(r) ==
  /\ Running /\ Count(r) /\ maxOutstanding < incomingQueueDepth'
  /\ Answer(r, 503)
  /\ UNCHANGED <<visited, at, matched, queueVars, stopVars, crash>>

\* Mutant: the handler looks at the depth before it adds itself.
AdmitOneMore(r) ==
  /\ Running /\ Count(r) /\ incomingQueueDepth <= maxOutstanding
  /\ Goto(r, "reading")
  /\ UNCHANGED <<status, visited, at, matched, queueVars, stopVars, crash>>

Admit(r) ==
  /\ Running /\ Count(r) /\ incomingQueueDepth' <= maxOutstanding
  /\ Goto(r, "reading")
  /\ UNCHANGED <<status, visited, at, matched, queueVars, stopVars, crash>>

\* The body cannot be read, is empty, cannot be decoded, is not an event or is
\* not UTF-8.
BadRequest(r) ==
  /\ Running /\ pc[r] = "reading" /\ Answer(r, 400)
  /\ UNCHANGED <<incomingQueueDepth, visited, at, matched, queueVars, stopVars, crash>>

\* HandleEvent; what fixWrp adds to the message matters to nothing here.
HandleEvent(r) ==
  /\ Running /\ pc[r] = "reading" /\ Goto(r, "range")
  /\ UNCHANGED <<status, incomingQueueDepth, visited, at, matched, queueVars, stopVars, crash>>

\* The deferred decrement.
Leave(r) ==
  /\ Running /\ pc[r] = "leaving" /\ Goto(r, "answered")
  /\ incomingQueueDepth' = incomingQueueDepth - 1
  /\ UNCHANGED <<status, visited, at, matched, queueVars, stopVars, crash>>

-------------------------------------------------------------------------------
(***************************************************************************)
(* BaseFilterManager.Queue ranges over fm.filters in any order.  An entry  *)
(* deleted before it is reached is not produced; the map may notice that   *)
(* it is being written to and end the process.                             *)
(***************************************************************************)
NextFilter(r, f) ==
  /\ pc[r] = "range" /\ f \in filters \ visited[r]
  /\ visited' = [visited EXCEPT ![r] = @ \cup {f}]
  /\ UNCHANGED <<status, incomingQueueDepth, queueVars, stopVars, crash>>

\* The matchers of BaseFilter.Queue do not accept the message ...
Mismatch(r, f) ==
  /\ Running /\ NextFilter(r, f)
  /\ UNCHANGED <<pc, at, matched>>

\* ... or they do.
Match(r, f) ==
  /\ Running /\ NextFilter(r, f) /\ Goto(r, "check")
  /\ at' = [at EXCEPT ![r] = f]
  /\ matched' = [matched EXCEPT ![r] = @ \cup {f}]

RangeDone(r) ==
  /\ Running /\ pc[r] = "range" /\ filters \subseteq visited[r] /\ Answer(r, 202)
  /\ UNCHANGED <<incomingQueueDepth, visited, at, matched, queueVars, stopVars, crash>>

RangeFatal(r) ==
  /\ Running /\ pc[r] = "range" /\ writing
  /\ crash' = "map"
  /\ UNCHANGED <<handlerVars, queueVars, stopVars>>

(***************************************************************************)
(* AddItem, as in EventQueue.  A send on a closed channel panics; the      *)
(* panic is recovered in BaseFilterManager.Queue, outside its loop.        *)
(***************************************************************************)
AddItemCheck(r) ==
  /\ Running /\ pc[r] = "check" /\ Len(buf[at[r]]) < ChannelSize /\ Goto(r, "bind")
  /\ UNCHANGED <<status, incomingQueueDepth, visited, at, matched, queueVars, stopVars,
                 crash>>

\* Mutant: a full queue ends the loop over the filters.
AddItemDropEndsRange(r) ==
  /\ Running /\ pc[r] = "check" /\ Len(buf[at[r]]) >= ChannelSize /\ Answer(r, 202)
  /\ refused' = [refused EXCEPT ![at[r]] = @ \cup {r}]
  /\ at' = [at EXCEPT ![r] = None]
  /\ UNCHANGED <<incomingQueueDepth, visited, matched, buf, closed,
                 loopVars, taken, stopVars, crash>>

\* Mutant: a filter whose queue is full is offered the message again.
AddItemDropOffersAgain(r) ==
  /\ Running /\ pc[r] = "check" /\ Len(buf[at[r]]) >= ChannelSize /\ Goto(r, "range")
  /\ refused' = [refused EXCEPT ![at[r]] = @ \cup {r}]
  /\ visited' = [visited EXCEPT ![r] = @ \ {at[r]}]
  /\ at' = [at EXCEPT ![r] = None]
  /\ UNCHANGED <<status, incomingQueueDepth, matched, buf, closed,
                 loopVars, taken, stopVars, crash>>

AddItemDrop(r) ==
  /\ Running /\ pc[r] = "check" /\ Len(buf[at[r]]) >= ChannelSize /\ Goto(r, "range")
  /\ refused' = [refused EXCEPT ![at[r]] = @ \cup {r}]
  /\ at' = [at EXCEPT ![r] = None]
  /\ UNCHANGED <<status, incomingQueueDepth, visited, matched, buf, closed,
                 loopVars, taken, stopVars, crash>>

AddItemBind(r) ==
  /\ Running /\ pc[r] = "bind"
  /\ \/ ~closed[at[r]] /\ Goto(r, "sending") /\ UNCHANGED status
     \/ closed[at[r]] /\ Answer(r, 202)
  /\ UNCHANGED <<incomingQueueDepth, visited, at, matched, queueVars, stopVars, crash>>

AddItemSend(r) ==
  /\ Running /\ pc[r] = "sending" /\ Len(buf[at[r]]) < ChannelSize /\ Goto(r, "range")
  /\ buf' = [buf EXCEPT ![at[r]] = Append(@, r)]
  /\ at' = [at EXCEPT ![r] = None]
  /\ UNCHANGED <<status, incomingQueueDepth, visited, matched, closed, loopVars,
                 taken, refused, stopVars, crash>>

-------------------------------------------------------------------------------
(***************************************************************************)
(* The queue's own goroutine.                                              *)
(***************************************************************************)
Start(f) ==
  /\ Running /\ ~started[f]
  /\ started' = [started EXCEPT ![f] = TRUE]
  /\ UNCHANGED <<handlerVars, buf, closed, replaced, poisoned, taken, refused, stopVars,
                 crash>>

\* Mutant: the slot of the first batch is never given back, Start waits for it.
ReceiveOnce(f) ==
  /\ Running /\ started[f] /\ buf[f] # <<>> /\ taken[f] = {}
  /\ taken' = [taken EXCEPT ![f] = @ \cup {Head(buf[f])}]
  /\ buf' = [buf EXCEPT ![f] = Tail(@)]
  /\ UNCHANGED <<handlerVars, closed, loopVars, refused, stopVars, crash>>

Receive(f) ==
  /\ Running /\ started[f] /\ buf[f] # <<>>
  /\ taken' = [taken EXCEPT ![f] = @ \cup {Head(buf[f])}]
  /\ buf' = [buf EXCEPT ![f] = Tail(@)]
  /\ UNCHANGED <<handlerVars, closed, loopVars, refused, stopVars, crash>>

\* A closed and drained channel yields nil.  So does the channel that Empty
\* replaced, which a select that has read q.items before may still hold.
ReceiveZero(f) ==
  /\ Running /\ started[f] /\ ~poisoned[f]
  /\ (closed[f] /\ buf[f] = <<>>) \/ replaced[f]
  /\ poisoned' = [poisoned EXCEPT ![f] = TRUE]
  /\ UNCHANGED <<handlerVars, buf, closed, started, replaced, taken, refused, stopVars,
                 crash>>

\* The goroutine that submits the nil panics, whatever has become of the channel.
NilBatch(f) ==
  /\ Running /\ poisoned[f]
  /\ crash' = "nil"
  /\ UNCHANGED <<handlerVars, queueVars, stopVars>>

-------------------------------------------------------------------------------
(***************************************************************************)
(* BaseFilterManager.Shutdown, with StreamDispatcher.Shutdown in it.       *)
(***************************************************************************)
ShutdownNext ==
  /\ Running /\ ShutdownMode # "none" /\ stop = "idle"
  /\ IF filters = {} THEN stop' = "done" /\ UNCHANGED victim
                     ELSE stop' = "close" /\ victim' \in filters
  /\ UNCHANGED <<handlerVars, queueVars, filters, writing, crash>>

WaitsFor(r, f) == pc[r] = "sending" /\ at[r] = f

\* Closing the channel panics the handlers that wait to send on it.
Close ==
  /\ closed' = [closed EXCEPT ![victim] = TRUE]
  /\ pc' = [r \in Requests |-> IF WaitsFor(r, victim) THEN "leaving" ELSE pc[r]]
  /\ status' = [r \in Requests |-> IF WaitsFor(r, victim) THEN 202 ELSE status[r]]

ShutdownClose ==
  /\ Running
  /\ \/ stop = "close" /\ stop' = IF ShutdownMode = "gentle" THEN "wait" ELSE "empty"
     \/ stop = "closeAgain" /\ stop' = "wait"
  /\ Close
  /\ UNCHANGED <<incomingQueueDepth, visited, at, matched, buf, loopVars,
                 taken, refused, filters, writing, victim, crash>>

ShutdownEmpty ==
  /\ Running /\ stop = "empty" /\ stop' = "closeAgain"
  /\ taken' = [taken EXCEPT ![victim] = @ \cup Contents(victim)]
  /\ buf' = [buf EXCEPT ![victim] = <<>>]
  /\ closed' = [closed EXCEPT ![victim] = FALSE]
  /\ replaced' = [replaced EXCEPT ![victim] = TRUE]
  /\ UNCHANGED <<handlerVars, started, poisoned, refused, filters, writing, victim, crash>>

\* Start never ends: Wait returns only if it comes before Start.
WaitReturns ==
  /\ Running /\ stop = "wait" /\ ~started[victim] /\ stop' = "delete"
  /\ writing' = TRUE
  /\ UNCHANGED <<handlerVars, queueVars, filters, victim, crash>>

Delete ==
  /\ Running /\ stop = "delete" /\ stop' = "idle"
  /\ filters' = filters \ {victim} /\ victim' = None
  /\ writing' = FALSE
  /\ UNCHANGED <<handlerVars, queueVars, crash>>

-------------------------------------------------------------------------------
ServeHTTP(r) ==
  \/ BadRequest(r) \/ HandleEvent(r) \/ Leave(r)
  \/ \E f \in Filters : Mismatch(r, f)
  \/ \E f \in Filters : Match(r, f)
  \/ RangeDone(r) \/ RangeFatal(r)
  \/ AddItemCheck(r) \/ AddItemDrop(r) \/ AddItemBind(r) \/ AddItemSend(r)

Arrive(r) == UnsupportedMediaType(r) \/ Refuse(r) \/ Admit(r)
Loop(f)   == Start(f) \/ Receive(f) \/ ReceiveZero(f) \/ NilBatch(f)
Shutdown  == ShutdownNext \/ ShutdownClose \/ ShutdownEmpty \/ WaitReturns \/ Delete

Next == \/ \E r \in Requests : Arrive(r) \/ ServeHTTP(r)
        \/ \E f \in Filters : Loop(f)
        \/ Shutdown

Spec == Init /\ [][Next]_vars

(***************************************************************************)
(* Goroutines that can run do run, bodies are read or fail, and the queue  *)
(* takes messages (EventQueue's ImplementsLiveFifo).                       *)
(***************************************************************************)
FairSpec == /\ Spec
            /\ \A r \in Requests : WF_vars(ServeHTTP(r))
            /\ \A f \in Filters : WF_vars(Loop(f))

-------------------------------------------------------------------------------
(***************************************************************************)
(* Properties.                                                             *)
(***************************************************************************)
Admitted == {"reading", "range", "check", "bind", "sending"}

\* incomingQueueDepth is the number of handlers on their way, whichever of the
\* early returns they take (request_handler.go:79-129), so it neither leaks a
\* place nor frees one twice.
DepthIsExact ==
  incomingQueueDepth = Cardinality({r \in Requests : pc[r] \notin {"new", "answered"}})

\* Never more than maxOutstanding requests are decoded and queued at a time,
\* though many pass the test at once (request_handler.go:79-88).
AdmissionBound == Cardinality({r \in Requests : pc[r] \in Admitted}) <= maxOutstanding

\* Before Shutdown begins, a request answered with 202 has been offered to
\* every filter, and each filter that accepted it has it, took it or counted it
\* as dropped: no full or blocked queue of one filter keeps it from another
\* (filter_manager.go:136-138).
Has(f, r) == r \in taken[f] \cup refused[f] \cup Contents(f)

NotShutDown == stop = "idle" /\ filters = Filters

FanOutIsComplete ==
  NotShutDown =>
    \A r \in Requests : status[r] = 202 => /\ visited[r] = Filters
                                           /\ \A f \in matched[r] : Has(f, r)

\* No filter gets a message twice, nor one it has refused, also if the request
\* is still at a filter that is shut down: a handler calls AddItem of each
\* queue once (filter_manager.go:136-138, queue.go:133-142).
OfferedOnce ==
  \A f \in Filters :
    /\ \A j, k \in DOMAIN buf[f] : buf[f][j] = buf[f][k] => j = k
    /\ Contents(f) \cap (taken[f] \cup refused[f]) = {}
    /\ taken[f] \cap refused[f] = {}

\* Every request is answered, also one that waits for a place in a queue that
\* Shutdown closes, unless the process ends.
EveryRequestIsAnswered ==
  \A r \in Requests : pc[r] = "reading" ~> pc[r] = "answered" \/ ~Running

-------------------------------------------------------------------------------
(***************************************************************************)
(* What the repository says and the code does not do.                      *)
(***************************************************************************)
\* filter/filter_manager_test.go:501-504, a Shutdown "while other operations
\* might be happening": "Concurrent shutdown should not panic".
ShutdownBesidesQueue == crash # "map"
===============================================================================
