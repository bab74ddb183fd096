------------------------------ MODULE EventQueue ------------------------------
(***************************************************************************)
(* The batching queue of internal/queue/queue.go (MyQueue), with the calls *)
(* StreamDispatcher.Shutdown makes on it (filter/stream_dispatcher.go).    *)
(*                                                                         *)
(* Processes: one AddItem call per message (the goroutine of the HTTP      *)
(* request that carries it), the single goroutine of Start, one goroutine  *)
(* per batch handed to the Submitter, and one caller of Shutdown.          *)
(*                                                                         *)
(* The zero value received from a closed channel is a nil *wrp.Message; it *)
(* is counted in nils and not stored, its place in a batch being           *)
(* irrelevant: any nil makes Submit panic.                                 *)
(***************************************************************************)
EXTENDS Naturals, Sequences, FiniteSets

CONSTANTS
  Msgs,                \* the messages offered, one AddItem call each
  ChannelSize,         \* cfg.ChannelSize
  WorkerPoolSize,      \* cfg.WorkerPoolSize, the weight of the semaphore
  BatchSizes,          \* the values cfg.BatchSize takes (SetBatchSize)
  MaxBatchSize,        \* a bound on BatchSizes
  SubmitOnEmptyQueue,  \* cfg.SubmitOnEmptyQueue
  Cancellable,         \* may the context given to Start be cancelled?
  ShutdownModes        \* how Shutdown may be called: "gentle", "abrupt"

(***************************************************************************)
(* NewQueue replaces sizes that are not positive by defaults.  The only    *)
(* caller of Shutdown starts its queue with context.Background(), which is *)
(* never cancelled (filter/dispatcher_factory.go:120).                     *)
(***************************************************************************)
ASSUME QueueAssumption ==
  /\ ChannelSize \in Nat \ {0}
  /\ WorkerPoolSize \in Nat \ {0}
  /\ MaxBatchSize \in Nat \ {0}
  /\ BatchSizes # {} /\ BatchSizes \subseteq 1..MaxBatchSize
  /\ SubmitOnEmptyQueue \in BOOLEAN
  /\ Cancellable \in BOOLEAN
  /\ ShutdownModes \subseteq {"gentle", "abrupt"}
  /\ Cancellable => ShutdownModes = {}

VARIABLES
  stage,      \* the AddItem call of each message
  buf,        \* contents of the channel q.items
  closed,     \* is q.items closed?
  orphan,     \* contents left in the channel that Empty replaced
  onOrphan,   \* is Start's select holding the channel that Empty replaced?
  pc,         \* control point of Start
  batch,      \* Start's slice items: the messages in it ...
  nils,       \* ... and how many nil messages it holds besides
  batchSize,  \* cfg.BatchSize
  cancelled,  \* is the context done?
  sem,        \* weight acquired from q.sem
  batches,    \* every batch handed to a goroutine, in the order of go statements
  running,    \* the batches whose goroutine has not finished Submit
  stop,       \* control point of Shutdown
  numDropped, \* local of Empty
  emptied,    \* has Empty replaced the channel?
  dropped,    \* the DroppedItems counter
  crashed,    \* a panic nobody recovers has ended the process: nothing moves again
  accepted,   \* history: the messages sent on q.items, in order
  handed      \* history: the messages handed to Submit, in order

addVars  == <<stage, dropped>>
chanVars == <<buf, closed, orphan, onOrphan>>
loopVars == <<pc, batch, nils>>
workVars == <<sem, batches, running, crashed>>
stopVars == <<stop, numDropped, emptied>>
envVars  == <<batchSize, cancelled>>
histVars == <<accepted, handed>>
vars == <<addVars, chanVars, loopVars, workVars, stopVars, envVars, histVars>>

Stages == {"new", "checked", "sending", "queued", "dropped", "panicked"}
Batch  == [items : Seq(Msgs), nils : Nat]

TypeOK ==
  /\ stage \in [Msgs -> Stages]
  /\ buf \in Seq(Msgs) /\ closed \in BOOLEAN
  /\ orphan \in Seq(Msgs) /\ onOrphan \in BOOLEAN
  /\ pc \in {"unstarted", "select", "check", "acquire", "exited"}
  /\ batch \in Seq(Msgs) /\ nils \in Nat
  /\ batchSize \in BatchSizes /\ cancelled \in BOOLEAN
  /\ sem \in Nat /\ batches \in Seq(Batch) /\ running \subseteq 1..Len(batches)
  /\ stop \in {"idle", "count", "swap", "close", "wait", "done"}
  /\ numDropped \in Nat /\ emptied \in BOOLEAN
  /\ dropped \in Nat /\ crashed \in BOOLEAN
  /\ accepted \in Seq(Msgs) /\ handed \in Seq(Msgs)

Init ==
  /\ stage = [m \in Msgs |-> "new"] /\ dropped = 0
  /\ buf = <<>> /\ closed = FALSE /\ orphan = <<>> /\ onOrphan = FALSE
  /\ pc = "unstarted" /\ batch = <<>> /\ nils = 0
  /\ batchSize \in BatchSizes /\ cancelled = FALSE
  /\ sem = 0 /\ batches = <<>> /\ running = {} /\ crashed = FALSE
  /\ stop = "idle" /\ numDropped = 0 /\ emptied = FALSE
  /\ accepted = <<>> /\ handed = <<>>

-------------------------------------------------------------------------------
(***************************************************************************)
(* AddItem.  The length test and the send are separate: other producers    *)
(* may fill the buffer in between, and then the send waits.  The operand   *)
(* q.items of the send is read on its own (AddItemBind), before the send   *)
(* can wait; Shutdown may close or replace the channel around it.          *)
(***************************************************************************)
AddItemCheck(m) ==
  /\ ~crashed /\ stage[m] = "new" /\ Len(buf) < ChannelSize
  /\ stage' = [stage EXCEPT ![m] = "checked"]
  /\ UNCHANGED <<dropped, chanVars, loopVars, workVars, stopVars, envVars, histVars>>

AddItemDrop(m) ==
  /\ ~crashed /\ stage[m] = "new" /\ Len(buf) >= ChannelSize
  /\ stage' = [stage EXCEPT ![m] = "dropped"]
  /\ dropped' = dropped + 1
  /\ UNCHANGED <<chanVars, loopVars, workVars, stopVars, envVars, histVars>>

\* Sending on a closed channel panics; FilterManager.Queue recovers it.
AddItemBind(m) ==
  /\ ~crashed /\ stage[m] = "checked"
  /\ stage' = [stage EXCEPT ![m] = IF closed THEN "panicked" ELSE "sending"]
  /\ UNCHANGED <<dropped, chanVars, loopVars, workVars, stopVars, envVars, histVars>>

AddItemSend(m) ==
  /\ ~crashed /\ stage[m] = "sending" /\ Len(buf) < ChannelSize
  /\ stage' = [stage EXCEPT ![m] = "queued"]
  /\ buf' = Append(buf, m)
  /\ accepted' = Append(accepted, m)
  /\ UNCHANGED <<dropped, closed, orphan, onOrphan, loopVars, workVars, stopVars,
                 envVars, handed>>

-------------------------------------------------------------------------------
(***************************************************************************)
(* Start: the loop of the queue's only consumer.  pc = "select" means that *)
(* the select statement has read q.items and waits for one of its cases.   *)
(***************************************************************************)
Start ==
  /\ ~crashed /\ pc = "unstarted"
  /\ pc' = "select"
  /\ UNCHANGED <<batch, nils, addVars, chanVars, workVars, stopVars, envVars, histVars>>

\* case item := <-q.items
ReceiveItem ==
  /\ ~crashed /\ pc = "select" /\ ~onOrphan /\ buf # <<>>
  /\ batch' = Append(batch, Head(buf))
  /\ buf' = Tail(buf)
  /\ pc' = "check"
  /\ UNCHANGED <<nils, closed, orphan, onOrphan, addVars, workVars, stopVars,
                 envVars, histVars>>

\* The same case, the select having read q.items before Empty replaced it.
ReceiveOrphan ==
  /\ ~crashed /\ pc = "select" /\ onOrphan /\ orphan # <<>>
  /\ batch' = Append(batch, Head(orphan))
  /\ orphan' = Tail(orphan)
  /\ onOrphan' = FALSE
  /\ pc' = "check"
  /\ UNCHANGED <<nils, buf, closed, addVars, workVars, stopVars, envVars, histVars>>

\* Mutant: a closed channel is noticed and skipped, Start never ends.
ReceiveZeroSkipped ==
  /\ ~crashed /\ pc = "select" /\ ~onOrphan /\ closed /\ buf = <<>>
  /\ UNCHANGED vars

\* The same case on a closed and drained channel: it yields nil at once.
ReceiveZero ==
  /\ ~crashed /\ pc = "select"
  /\ IF onOrphan THEN orphan = <<>> ELSE closed /\ buf = <<>>
  /\ nils' = nils + 1
  /\ onOrphan' = FALSE
  /\ pc' = "check"
  /\ UNCHANGED <<batch, buf, closed, orphan, addVars, workVars, stopVars, envVars,
                 histVars>>

BatchLen == Len(batch) + nils

\* Mutants: the empty queue is not looked at; one item too many.
NeverSubmitOnEmpty == FALSE
BatchFullLate == BatchLen > batchSize

SubmitIfQueueIsEmpty == SubmitOnEmptyQueue /\ buf = <<>>

BatchFull == BatchLen >= batchSize

\* processItems
ProcessItems ==
  /\ ~crashed /\ pc = "check"
  /\ pc' = IF BatchFull \/ SubmitIfQueueIsEmpty THEN "acquire" ELSE "select"
  /\ UNCHANGED <<batch, nils, addVars, chanVars, workVars, stopVars, envVars, histVars>>

\* Mutant: the ticker leaves a batch that is not full alone.
TickFullOnly ==
  /\ ~crashed /\ pc = "select"
  /\ pc' = IF BatchFull THEN "acquire" ELSE "select"
  /\ onOrphan' = FALSE
  /\ UNCHANGED <<batch, nils, buf, closed, orphan, addVars, workVars, stopVars,
                 envVars, histVars>>

\* case <-timeout.C; submitItems returns at once when there is nothing to submit.
Tick ==
  /\ ~crashed /\ pc = "select"
  /\ pc' = IF BatchLen = 0 THEN "select" ELSE "acquire"
  /\ onOrphan' = FALSE
  /\ UNCHANGED <<batch, nils, buf, closed, orphan, addVars, workVars, stopVars,
                 envVars, histVars>>

\* case <-ctx.Done()
CtxDone ==
  /\ ~crashed /\ pc = "select" /\ cancelled
  /\ pc' = "exited"
  /\ UNCHANGED <<batch, nils, addVars, chanVars, workVars, stopVars, envVars, histVars>>

\* A goroutine gets the slice ...
Spawn ==
  /\ sem' = sem + 1
  /\ batches' = Append(batches, [items |-> batch, nils |-> nils])
  /\ running' = running \cup {Len(batches) + 1}
  /\ handed' = handed \o batch
  /\ UNCHANGED <<crashed, accepted>>

\* Mutant: ... and Start goes on with the same one.
HandOffKeepsSlice ==
  /\ Spawn
  /\ UNCHANGED <<batch, nils>>

\* ... and Start goes on with a new one.
HandOff ==
  /\ Spawn
  /\ batch' = <<>> /\ nils' = 0

\* Mutant: no semaphore.
AcquireUnbounded ==
  /\ ~crashed /\ pc = "acquire" /\ ~cancelled
  /\ HandOff
  /\ pc' = "select"
  /\ UNCHANGED <<addVars, chanVars, stopVars, envVars>>

\* submitItems
Acquire ==
  /\ ~crashed /\ pc = "acquire" /\ ~cancelled /\ sem < WorkerPoolSize
  /\ HandOff
  /\ pc' = "select"
  /\ UNCHANGED <<addVars, chanVars, stopVars, envVars>>

\* Mutants: submitItems tries again instead of giving up; the slice is emptied
\* although nobody has got it.
AcquireTriesAgain == ~crashed /\ pc = "acquire" /\ cancelled /\ UNCHANGED vars

AcquireCancelledEmptiesSlice ==
  /\ ~crashed /\ pc = "acquire" /\ cancelled
  /\ pc' = "select" /\ batch' = <<>>
  /\ UNCHANGED <<nils, addVars, chanVars, workVars, stopVars, envVars, histVars>>

\* Acquire fails once the context is done; Start keeps the slice.
AcquireCancelled ==
  /\ ~crashed /\ pc = "acquire" /\ cancelled
  /\ pc' = "select"
  /\ UNCHANGED <<batch, nils, addVars, chanVars, workVars, stopVars, envVars, histVars>>

-------------------------------------------------------------------------------
(***************************************************************************)
(* The goroutines of submitItems.  An error of Submit is logged and        *)
(* counted, nothing else depends on it.  A nil message makes OnEvent panic *)
(* at m.SessionID before anything is sent; Submit panics again and nobody  *)
(* recovers in that goroutine.                                             *)
(***************************************************************************)
Finish(i) ==
  /\ running' = running \ {i}
  /\ UNCHANGED <<batches, crashed, addVars, chanVars, loopVars, stopVars, envVars,
                 histVars>>

\* Mutants: the slot is given back twice, or (after an error) never.
SubmitReleasesTwice(i) ==
  /\ ~crashed /\ i \in running /\ batches[i].nils = 0
  /\ sem' = sem - 2
  /\ Finish(i)

SubmitLeaksSlot(i) ==
  /\ ~crashed /\ i \in running /\ batches[i].nils = 0
  /\ sem' \in {sem - 1, sem}
  /\ Finish(i)

SubmitReturns(i) ==
  /\ ~crashed /\ i \in running /\ batches[i].nils = 0
  /\ sem' = sem - 1
  /\ Finish(i)

SubmitPanics(i) ==
  /\ ~crashed /\ i \in running /\ batches[i].nils > 0
  /\ crashed' = TRUE
  /\ UNCHANGED <<sem, batches, running, addVars, chanVars, loopVars, stopVars,
                 envVars, histVars>>

-------------------------------------------------------------------------------
(***************************************************************************)
(* StreamDispatcher.Shutdown: Close and Wait when gentle, else Close,      *)
(* Empty, Close and Wait.  Closing the channel panics every send that has  *)
(* read q.items already, whether it waits for space or is about to send.   *)
(***************************************************************************)
\* Mutant: Close only raises a flag, sends that have begun go on.
CloseSparesSenders == closed' = TRUE /\ UNCHANGED stage

Close ==
  /\ closed' = TRUE
  /\ stage' = [m \in Msgs |-> IF stage[m] = "sending" THEN "panicked" ELSE stage[m]]

\* Mutant: not gentle, Shutdown empties the queue without closing it first.
ShutdownClosesLast ==
  /\ ~crashed
  /\ \/ stop = "idle" /\ "abrupt" \in ShutdownModes /\ stop' = "count" /\ UNCHANGED <<closed, stage>>
     \/ stop = "close" /\ stop' = "wait" /\ Close
  /\ UNCHANGED <<numDropped, emptied, dropped, buf, orphan, onOrphan, loopVars,
                 workVars, envVars, histVars>>

ShutdownClose ==
  /\ ~crashed
  /\ \/ stop = "idle" /\ "gentle" \in ShutdownModes /\ stop' = "wait"
     \/ stop = "idle" /\ "abrupt" \in ShutdownModes /\ stop' = "count"
     \/ stop = "close" /\ stop' = "wait"
  /\ Close
  /\ UNCHANGED <<numDropped, emptied, dropped, buf, orphan, onOrphan, loopVars,
                 workVars, envVars, histVars>>

EmptyCount ==
  /\ ~crashed /\ stop = "count" /\ stop' = "swap"
  /\ numDropped' = Len(buf)
  /\ UNCHANGED <<emptied, addVars, chanVars, loopVars, workVars, envVars, histVars>>

\* Mutant: Empty throws Start's slice away as well.
EmptySwapClearsSlice ==
  /\ ~crashed /\ stop = "swap" /\ stop' = "close" /\ emptied' = TRUE
  /\ orphan' = buf /\ buf' = <<>> /\ closed' = FALSE
  /\ onOrphan' \in {FALSE, pc = "select"}
  /\ dropped' = dropped + numDropped + Len(batch)
  /\ batch' = <<>>
  /\ UNCHANGED <<pc, nils, stage, numDropped, workVars, envVars, histVars>>

\* A Start that is at its select may or may not have read q.items yet.
EmptySwap ==
  /\ ~crashed /\ stop = "swap" /\ stop' = "close" /\ emptied' = TRUE
  /\ orphan' = buf /\ buf' = <<>> /\ closed' = FALSE
  /\ onOrphan' \in {FALSE, pc = "select"}
  /\ dropped' = dropped + numDropped
  /\ UNCHANGED <<stage, numDropped, loopVars, workVars, envVars, histVars>>

\* q.wg counts Start from its first to its last statement.
WaitReturns ==
  /\ ~crashed /\ stop = "wait" /\ pc \in {"unstarted", "exited"}
  /\ stop' = "done"
  /\ UNCHANGED <<numDropped, emptied, addVars, chanVars, loopVars, workVars, envVars, histVars>>

-------------------------------------------------------------------------------
SetBatchSize ==
  /\ ~crashed /\ batchSize' \in BatchSizes \ {batchSize}
  /\ UNCHANGED <<cancelled, addVars, chanVars, loopVars, workVars, stopVars, histVars>>

CancelContext ==
  /\ ~crashed /\ Cancellable /\ ~cancelled
  /\ cancelled' = TRUE
  /\ UNCHANGED <<batchSize, addVars, chanVars, loopVars, workVars, stopVars, histVars>>

AddItem(m) == AddItemCheck(m) \/ AddItemDrop(m) \/ AddItemBind(m) \/ AddItemSend(m)
Loop == \/ Start \/ ReceiveItem \/ ReceiveOrphan \/ ReceiveZero
        \/ ProcessItems \/ CtxDone \/ Acquire \/ AcquireCancelled
Submit(i) == SubmitReturns(i) \/ SubmitPanics(i)
Shutdown == ShutdownClose \/ EmptyCount \/ EmptySwap \/ WaitReturns

Next ==
  \/ \E m \in Msgs : AddItem(m)
  \/ Loop
  \/ Tick
  \/ \E i \in running : Submit(i)
  \/ Shutdown
  \/ SetBatchSize
  \/ CancelContext

Spec == Init /\ [][Next]_vars

-------------------------------------------------------------------------------
(***************************************************************************)
(* Fairness.  Goroutines that can run do run.  A select with several ready *)
(* cases chooses at random, so CtxDone, ready at every iteration, is       *)
(* chosen in the end: strong fairness.  Submit returns: its attempts are   *)
(* bounded and the SDK's requests are assumed to end.  Nothing makes a     *)
(* message arrive, a context end or a Shutdown begin.                      *)
(***************************************************************************)
LoopFairness == WF_vars(Loop) /\ SF_vars(CtxDone)
AddItemFairness == \A m \in Msgs : WF_vars(AddItemBind(m)) /\ WF_vars(AddItemSend(m))
SubmitFairness == \A i \in 1..(Cardinality(Msgs) + WorkerPoolSize) :
                    WF_vars(i \in running /\ Submit(i))
ShutdownFairness == WF_vars(stop # "idle" /\ Shutdown)

\* Without the ticker.
EagerSpec == Spec /\ LoopFairness /\ AddItemFairness /\ SubmitFairness /\ ShutdownFairness
FairSpec  == EagerSpec /\ WF_vars(Tick)

-------------------------------------------------------------------------------
(***************************************************************************)
(* Invariants.                                                             *)
(***************************************************************************)
\* The semaphore's weight is the number of goroutines submitting, and there
\* are never more of them than WorkerPoolSize (queue.go:191-194).
PoolBound == sem = Cardinality(running) /\ sem <= WorkerPoolSize

\* No goroutine gets an empty batch, nor one larger than the largest batch
\* size in force, though SetBatchSize changes the limit while a batch is
\* being collected and the ticker cuts batches short (queue.go:157-207).
BatchBound == \A i \in DOMAIN batches :
                Len(batches[i].items) + batches[i].nils \in 1..MaxBatchSize

\* As long as Empty has not replaced the channel, the messages the channel took are,
\* in the order it took them, those handed to Submit, then those in Start's
\* slice, then those in the buffer: none is lost, repeated or overtaken by the
\* hand-over of the slice, by a cancelled Acquire or by a closed channel.
NothingLost == ~emptied => accepted = handed \o batch \o buf

\* What Empty discards (queue.go:120) is one block of consecutive messages:
\* all those taken before it are handed over first, all those taken after it,
\* by the new channel, follow, and the order is kept on both sides.
DiscardIsOneBlock ==
  LET taken == handed \o batch
  IN  \E k \in 0..Len(taken) :
        accepted = SubSeq(taken, 1, k) \o orphan \o SubSeq(taken, k + 1, Len(taken)) \o buf

\* The DroppedItems counter never falls short of the messages refused by
\* AddItem and those discarded by Empty, although Empty counts the buffer in
\* one step and replaces it in another (queue.go:119-121).
EmptyNeverUndercounts ==
  dropped >= Cardinality({m \in Msgs : stage[m] = "dropped"}) + Len(orphan)

\* Unless Empty puts a new channel in place of the closed one, no message is
\* behind the first batch that holds a nil: messages and nils mix only in the
\* partial batch the close caught in Start's slice.  So the panic of the
\* goroutine that meets the nil costs at most that batch.
OnlyLastBatchPoisoned ==
  ~emptied =>
    \A i, j \in DOMAIN batches : i < j /\ batches[i].nils > 0 => batches[j].items = <<>>

-------------------------------------------------------------------------------
(***************************************************************************)
(* Action and temporal properties.                                         *)
(***************************************************************************)
\* A producer that waits for space inside AddItem gets it, unless the context
\* of Start ends: nobody takes messages then (queue.go:135, 159-161).
SenderUnblocks ==
  \A m \in Msgs : stage[m] = "sending" ~> stage[m] = "queued" \/ cancelled

\* A call of Shutdown does not hang: it returns, or the panic of a batch of
\* nil messages ends the process (stream_dispatcher.go:29-37).
ShutdownEnds == stop # "idle" ~> stop = "done" \/ crashed

-------------------------------------------------------------------------------
(***************************************************************************)
(* Refinement: Start's slice and the buffer are the backlog of             *)
(* BatchingFifo.                                                           *)
(***************************************************************************)
Fifo == INSTANCE BatchingFifo WITH backlog <- batch \o buf, out <- handed,
                                ended <- cancelled

\* A queue that is not emptied is a batching FIFO: its steps map to taking one
\* fresh message, to handing over between one and MaxBatchSize messages from
\* the front, or to nothing; and none hands anything over once the context has
\* ended, neither from the select nor from the wait for the semaphore
\* (queue.go:133-207).
ImplementsFifo == Fifo!Spec

\* With the scheduler running it is a live one: whenever there is a backlog, a
\* batch of it is handed over later unless the context ends, by the ticker or, if
\* SubmitOnEmptyQueue is set, without it (queue.go:157-207).
ImplementsLiveFifo == Fifo!FairSpec

-------------------------------------------------------------------------------
(***************************************************************************)
(* What a comment of the repository says and the code does not do.         *)
(***************************************************************************)
\* filter/filter_manager.go:141-143: a gentle Shutdown cleans up "waiting for
\* delivery queues to empty" -- so it does not bring the process down.
ShutdownDoesNotCrash == ~crashed
===============================================================================
