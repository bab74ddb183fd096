------------------------------- MODULE Pipeline -------------------------------
(***************************************************************************)
(* The queue of a filter (EventQueue) together with what becomes of its    *)
(* batches: every goroutine of submitItems runs StreamDispatcher.Submit    *)
(* over the filter's streams, as Delivery describes it, beside the         *)
(* goroutines of other batches, the producers and Start.                   *)
(*                                                                         *)
(* Nobody calls Shutdown here, so no nil message gets into a batch; the    *)
(* context of Start may end at any moment.                                 *)
(***************************************************************************)
EXTENDS EventQueue

CONSTANTS NumStreams   \* len(d.streams); GetDispatcher refuses a filter without one

ASSUME PipelineAssumption ==
  /\ NumStreams \in Nat \ {0}
  /\ ShutdownModes = {}
  /\ IsFiniteSet(Msgs)

VARIABLES
  tried,        \* per batch, how many streams have failed
  gaveUp,       \* the batches every stream has failed
  stored,       \* per stream, the messages stored there
  counted,      \* the DroppedMessage counter of the filter
  submitErrors  \* the SubmitErrors counter of the queue

deliveryVars == <<tried, gaveUp, stored, counted, submitErrors>>
pipelineVars == <<vars, deliveryVars>>

Streams == 1..NumStreams
MessagesOf(b) == {batches[b].items[k] : k \in DOMAIN batches[b].items}

PipelineTypeOK ==
  /\ tried \in Seq(0..NumStreams) /\ Len(tried) = Len(batches)
  /\ gaveUp \subseteq DOMAIN batches \ running
  /\ stored \in [Streams -> SUBSET Msgs]
  /\ counted \in Nat /\ submitErrors \in Nat

PipelineInit ==
  /\ Init
  /\ tried = <<>> /\ gaveUp = {} /\ counted = 0 /\ submitErrors = 0
  /\ stored = [s \in Streams |-> {}]

-------------------------------------------------------------------------------
(***************************************************************************)
(* The goroutine of batch b tries stream tried[b] + 1.                     *)
(***************************************************************************)
TakesStream(b) == b \in running /\ tried[b] < NumStreams

\* The stream has some of the batch's messages and fails nevertheless: it
\* refused the others, or an answer was lost.
StreamFails(b, S) ==
  /\ TakesStream(b) /\ S \subseteq MessagesOf(b)
  /\ stored' = [stored EXCEPT ![tried[b] + 1] = @ \cup S]
  /\ tried' = [tried EXCEPT ![b] = @ + 1]
  /\ counted' = counted + 1
  /\ UNCHANGED <<gaveUp, submitErrors, vars>>

\* The stream has them all: Submit returns nil.
StreamTakes(b) ==
  /\ TakesStream(b)
  /\ stored' = [stored EXCEPT ![tried[b] + 1] = @ \cup MessagesOf(b)]
  /\ SubmitReturns(b)
  /\ UNCHANGED <<tried, gaveUp, counted, submitErrors>>

\* No stream is left: Submit returns the last stream's error.
AllFailed(b) ==
  /\ b \in running /\ tried[b] = NumStreams
  /\ gaveUp' = gaveUp \cup {b}
  /\ counted' = counted + Len(batches[b].items)
  /\ submitErrors' = submitErrors + 1
  /\ SubmitReturns(b)
  /\ UNCHANGED <<tried, stored>>

Deliver(b) == \/ \E S \in SUBSET MessagesOf(b) : StreamFails(b, S)
              \/ StreamTakes(b) \/ AllFailed(b)

-------------------------------------------------------------------------------
\* Every step of the queue but the end of a Submit.  A new batch starts at the
\* first stream.
QueueStep ==
  /\ \/ \E m \in Msgs : AddItem(m)
     \/ Loop
     \/ Tick
     \/ SetBatchSize
     \/ CancelContext
  /\ tried' = IF Len(batches') > Len(batches) THEN Append(tried, 0) ELSE tried
  /\ UNCHANGED <<gaveUp, stored, counted, submitErrors>>

PipelineNext == QueueStep \/ \E b \in running : Deliver(b)

PipelineSpec == PipelineInit /\ [][PipelineNext]_pipelineVars

-------------------------------------------------------------------------------
(***************************************************************************)
(* Fairness: the queue's, and the goroutines of the batches go on; a       *)
(* stream that is asked answers or fails.                                  *)
(***************************************************************************)
DeliveryFairness ==
  \A b \in 1..Cardinality(Msgs) : WF_pipelineVars(b \in running /\ Deliver(b))

FairPipelineSpec ==
  /\ PipelineSpec
  /\ LoopFairness /\ WF_vars(Tick) /\ AddItemFairness
  /\ DeliveryFairness

-------------------------------------------------------------------------------
(***************************************************************************)
(* Properties.                                                             *)
(***************************************************************************)
InQueue == {buf[k] : k \in DOMAIN buf} \cup {batch[k] : k \in DOMAIN batch}
InDelivery == UNION {MessagesOf(b) : b \in running}
Stored == UNION {stored[s] : s \in Streams}
Offered == {m \in Msgs : stage[m] \in {"queued", "dropped"}}

\* Of the messages whose AddItem has returned, those that are neither in the
\* buffer, in Start's slice or on their way to a stream, nor stored anywhere,
\* are covered by the two counters of dropped messages, also after the context
\* ended with a slice that could not be handed over (queue.go:139, 188-207,
\* stream_dispatcher.go:66-70).
LossIsCounted ==
  Cardinality(Offered \ (InQueue \cup InDelivery \cup Stored)) <= dropped + counted

\* A message is in more streams than one only if its batch failed at all of
\* them but the last: neither the hand-over of the slice nor two goroutines at
\* work at once send a message twice (queue.go:191-207).
DuplicatesNeedFailures ==
  \A b \in DOMAIN batches : \A m \in MessagesOf(b) :
    Cardinality({s \in Streams : m \in stored[s]}) <= tried[b] + 1

\* A batch that has started is behind fewer than WorkerPoolSize unfinished
\* ones.  With one worker the order of arrival reaches the streams
\* (queue.go:191-202).
OvertakesFew ==
  \A b \in DOMAIN batches : Cardinality({a \in running : a < b}) < WorkerPoolSize

\* What becomes of batch b, as Delivery sees it: the messages are the places of
\* the batch, and of the filter's streams only what they have of this batch
\* counts.
StoredOf(b) ==
  [s \in Streams |-> {k \in DOMAIN batches[b].items : batches[b].items[k] \in stored[s]}]

OutcomeOf(b) == IF b \in running THEN "running" ELSE IF b \in gaveUp THEN "failed" ELSE "sent"

CountedFor(b) == tried[b] + IF b \in gaveUp THEN Len(batches[b].items) ELSE 0

Promise(b) == INSTANCE Delivery WITH
  MaxStreams <- NumStreams, MaxBatchLen <- MaxBatchSize,
  numStreams <- NumStreams, batchLen <- Len(batches[b].items), hasNil <- batches[b].nils > 0,
  tried <- tried[b], stored <- StoredOf(b), outcome <- OutcomeOf(b), counted <- CountedFor(b)

\* Each batch is delivered as Delivery promises it, as if it were alone: it
\* starts with nothing of it in any stream, and whatever the deliveries of the
\* other batches, the queue or the producers do is none of its business
\* (queue.go:191-207, stream_dispatcher.go:39-82).
BatchesAreDeliveries ==
  [][\A b \in DOMAIN batches' :
       IF b \in DOMAIN batches THEN [Promise(b)!Next]_(Promise(b)!vars)
                               ELSE Promise(b)!Init']_pipelineVars

Settled(m) == \E b \in DOMAIN batches \ running : m \in MessagesOf(b)

\* Whatever streams do, a message the channel took is stored or given up in the
\* end, unless the context ends (queue.go:157-207, stream_dispatcher.go:64-79).
EveryMessageSettles ==
  \A m \in Msgs : stage[m] = "queued" ~> cancelled \/ Settled(m)

\* After the context has ended the goroutines at work finish, so that nothing
\* is left but the slice and the buffer, however Start came to its end
\* (queue.go:159-161, 191).
CancelLeavesOnlyTheQueue ==
  cancelled ~> pc = "exited" /\ running = {}
===============================================================================
