---------------------------- MODULE PipelineProofs -----------------------------
(***************************************************************************)
(* Safety of Pipeline for any number of messages, streams and workers and  *)
(* any sizes.  What EventQueueProofs shows of the queue holds of the queue *)
(* in the pipeline, as every step is one of the queue or none.             *)
(***************************************************************************)
EXTENDS Pipeline, EventQueueProofs

\* QueueStep, action by action.
LEMMA QueueActions ==
  ASSUME QueueStep
  PROVE  /\ \/ \E m \in Msgs : \/ AddItemCheck(m) \/ AddItemDrop(m)
                               \/ AddItemBind(m) \/ AddItemSend(m)
            \/ Start \/ ReceiveItem \/ ReceiveOrphan \/ ReceiveZero
            \/ ProcessItems \/ CtxDone \/ Acquire \/ AcquireCancelled \/ Tick
            \/ SetBatchSize \/ CancelContext
         /\ UNCHANGED <<gaveUp, stored, counted, submitErrors>>
BY Zenon DEF QueueStep, AddItem, Loop

\* A Submit changes nothing of the queue but the semaphore and who is running.
LEMMA DeliverySteps ==
  ASSUME NEW b \in running, Deliver(b)
  PROVE  \/ \E S \in SUBSET MessagesOf(b) : StreamFails(b, S)
         \/ StreamTakes(b) \/ AllFailed(b)
BY DEF Deliver

\* The queue of the pipeline is a queue: composition adds no behaviour to it
\* (dispatcher_factory.go:111-123).
THEOREM PipelineHasTheQueue == PipelineSpec => Spec
<1>1. PipelineInit => Init
  BY DEF PipelineInit
<1>2. [PipelineNext]_pipelineVars => [Next]_vars
  <2>1. ASSUME QueueStep PROVE Next
    BY <2>1, Zenon DEF QueueStep, Next
  <2>2. ASSUME NEW b \in running, Deliver(b) PROVE [Next]_vars
    <3>1. ASSUME NEW S \in SUBSET MessagesOf(b), StreamFails(b, S) PROVE [Next]_vars
      BY <3>1 DEF StreamFails
    <3>2. ASSUME StreamTakes(b) \/ AllFailed(b) PROVE Next
      <4>1. SubmitReturns(b)
        BY <3>2 DEF StreamTakes, AllFailed
      <4> QED
        BY <4>1 DEF Next, Submit
    <3> QED
      BY <2>2, <3>1, <3>2, DeliverySteps
  <2>3. ASSUME UNCHANGED pipelineVars PROVE UNCHANGED vars
    BY <2>3 DEF pipelineVars
  <2> QED
    BY <2>1, <2>2, <2>3 DEF PipelineNext
<1> QED
  BY <1>1, <1>2, PTL DEF PipelineSpec, Spec

LEMMA PoolInPipeline == PipelineSpec => []PoolInv
BY PipelineHasTheQueue, PoolSafety, PTL

(***************************************************************************)
(* The steps of the pipeline by what they do to the batches.               *)
(***************************************************************************)
\* No batch begins or ends.
SameBatches == UNCHANGED <<batches, running, tried>>

\* Start hands its slice over.
BatchBegins ==
  /\ Acquire /\ UNCHANGED <<gaveUp, stored, counted, submitErrors>>
  /\ batches' = Append(batches, [items |-> batch, nils |-> nils])
  /\ running' = running \cup {Len(batches) + 1}
  /\ tried' = Append(tried, 0)

LEMMA QueueStepKinds ==
  ASSUME TypeOK, QueueStep
  PROVE  \/ SameBatches /\ ~Acquire
         \/ BatchBegins
<1>1. CASE Acquire
  <2>1. /\ batches' = Append(batches, [items |-> batch, nils |-> nils])
        /\ running' = running \cup {Len(batches) + 1}
    BY <1>1 DEF Acquire, HandOff, Spawn
  <2>2. Len(batches') > Len(batches)
    BY <2>1 DEF TypeOK
  <2> QED
    BY <1>1, <2>1, <2>2, QueueActions DEF BatchBegins, QueueStep
<1>2. CASE ~Acquire
  <2>1. UNCHANGED <<batches, running>>
    BY <1>2, QueueActions DEF AddItemCheck, AddItemDrop, AddItemBind, AddItemSend, Start,
       ReceiveItem, ReceiveOrphan, ReceiveZero, ProcessItems, CtxDone, AcquireCancelled, Tick,
       SetBatchSize, CancelContext, workVars
  <2>2. ~(Len(batches') > Len(batches))
    BY <2>1 DEF TypeOK
  <2> QED
    BY <1>2, <2>1, <2>2 DEF SameBatches, QueueStep
<1> QED
  BY <1>1, <1>2

\* A stream fails, takes a batch, or none is left for it.
LEMMA DeliveryKinds ==
  ASSUME NEW b \in running, Deliver(b)
  PROVE  /\ UNCHANGED <<batches, stage, buf, batch, dropped, handed, accepted>>
         /\ running' \in {running, running \ {b}}
BY DeliverySteps DEF StreamFails, StreamTakes, AllFailed, SubmitReturns, Finish, vars, addVars,
   chanVars, loopVars, workVars, histVars

LEMMA BatchMessages ==
  ASSUME TypeOK, NEW b \in DOMAIN batches
  PROVE  batches[b].items \in Seq(Msgs) /\ MessagesOf(b) \subseteq Msgs
<1>1. batches[b] \in Batch
  BY DEF TypeOK
<1>2. batches[b].items \in Seq(Msgs)
  BY <1>1 DEF Batch
<1> QED
  BY <1>2 DEF MessagesOf

-------------------------------------------------------------------------------
LEMMA PipelineTypesStep ==
  ASSUME TypeOK, TypeOK', PipelineTypeOK, [PipelineNext]_pipelineVars
  PROVE  PipelineTypeOK'
<1> USE PipelineAssumption DEF PipelineTypeOK
<1>0. /\ Len(batches) \in Nat /\ DOMAIN batches = 1..Len(batches)
      /\ running \subseteq 1..Len(batches) /\ batches \in Seq(Batch)
  BY DEF TypeOK
<1>1. CASE QueueStep
  <2>1. UNCHANGED <<gaveUp, stored, counted, submitErrors>>
    BY <1>1 DEF QueueStep
  <2>2. CASE SameBatches
    BY <2>1, <2>2 DEF SameBatches
  <2>3. CASE BatchBegins
    <3>1. Len(batches') = Len(batches) + 1 /\ DOMAIN batches' = 1..(Len(batches) + 1)
      BY <1>0, <2>3 DEF BatchBegins
    <3>2. tried' \in Seq(0..NumStreams) /\ Len(tried') = Len(batches')
      BY <2>3, <3>1 DEF BatchBegins
    <3>3. gaveUp' \subseteq DOMAIN batches' \ running'
      BY <1>0, <2>1, <2>3, <3>1 DEF BatchBegins
    <3> QED
      BY <2>1, <3>2, <3>3
  <2> QED
    BY <1>1, <2>2, <2>3, QueueStepKinds
<1>2. ASSUME NEW b \in running, Deliver(b)
      PROVE  PipelineTypeOK'
  <2>1. \A S \in SUBSET MessagesOf(b) : S \subseteq Msgs
    BY <1>0, BatchMessages DEF TypeOK
  <2>2. ASSUME NEW S \in SUBSET MessagesOf(b), StreamFails(b, S)
        PROVE  PipelineTypeOK'
    <3>1. UNCHANGED <<gaveUp, submitErrors, batches, running>> /\ counted' = counted + 1
      BY <2>2 DEF StreamFails, vars, workVars
    <3>2. tried' \in Seq(0..NumStreams) /\ Len(tried') = Len(tried)
      BY <1>0, <2>2 DEF StreamFails, TakesStream
    <3>3. stored' \in [Streams -> SUBSET Msgs]
      BY <2>1, <2>2 DEF StreamFails, TakesStream
    <3> QED
      BY <3>1, <3>2, <3>3
  <2>3. CASE StreamTakes(b)
    BY <1>0, <2>1, <2>3 DEF StreamTakes, SubmitReturns, Finish
  <2>4. CASE AllFailed(b)
    <3>1. Len(batches[b].items) \in Nat
      BY <1>0 DEF Batch
    <3> QED
      BY <1>0, <2>4, <3>1 DEF AllFailed, SubmitReturns, Finish
  <2> QED
    BY <1>2, <2>2, <2>3, <2>4, DeliverySteps
<1>3. CASE UNCHANGED pipelineVars
  BY <1>3 DEF pipelineVars, deliveryVars, vars, workVars
<1> QED
  BY <1>1, <1>2, <1>3 DEF PipelineNext

\* Every batch has its place among the streams, and none that is given up is
\* still on its way (stream_dispatcher.go:64-79, queue.go:199-207).
THEOREM PipelineTypes == PipelineSpec => []PipelineTypeOK
<1>1. PipelineInit => PipelineTypeOK
  BY DEF PipelineInit, Init, PipelineTypeOK
<1>2. PoolInv => TypeOK
  BY DEF PoolInv
<1> QED
  BY <1>1, <1>2, PipelineTypesStep, PoolInPipeline, PTL DEF PipelineSpec

-------------------------------------------------------------------------------
(***************************************************************************)
(* A batch begins behind fewer than WorkerPoolSize others, and those only  *)
(* become fewer.                                                           *)
(***************************************************************************)
LEMMA OvertakesStep ==
  ASSUME PoolInv, OvertakesFew, [PipelineNext]_pipelineVars
  PROVE  OvertakesFew'
<1> DEFINE Before(b) == {a \in running : a < b}
<1>0. /\ Len(batches) \in Nat /\ DOMAIN batches = 1..Len(batches)
      /\ running \subseteq 1..Len(batches) /\ IsFiniteSet(running)
      /\ sem = Cardinality(running) /\ WorkerPoolSize \in Nat
      /\ \A b \in DOMAIN batches : Cardinality(Before(b)) < WorkerPoolSize
  BY RunningIsFinite, QueueAssumption DEF PoolInv, PoolBound, TypeOK, OvertakesFew
<1>1. ASSUME NEW S, S \subseteq running PROVE IsFiniteSet(S) /\ Cardinality(S) \in Nat
  BY <1>0, <1>1, FS_Subset, FS_CardinalityType
<1>2. ASSUME batches' = batches, running' \subseteq running PROVE OvertakesFew'
  <2>1. ASSUME NEW b \in DOMAIN batches
        PROVE  Cardinality(Before(b)') < WorkerPoolSize
    <3>1. Before(b)' \subseteq Before(b) /\ Before(b) \subseteq running
      BY <1>2
    <3>2. Cardinality(Before(b)') <= Cardinality(Before(b))
      BY <1>1, <3>1, FS_Subset
    <3>3. Cardinality(Before(b)') \in Nat /\ Cardinality(Before(b)) \in Nat
      BY <1>1, <3>1
    <3> QED
      BY <1>0, <3>2, <3>3
  <2> QED
    BY <1>2, <2>1 DEF OvertakesFew
<1>3. CASE QueueStep
  <2>1. CASE SameBatches
    BY <1>2, <2>1 DEF SameBatches
  <2>2. CASE BatchBegins
    <3>1. /\ DOMAIN batches' = 1..(Len(batches) + 1) /\ Cardinality(running) < WorkerPoolSize
          /\ running' = running \cup {Len(batches) + 1}
      BY <1>0, <2>2 DEF BatchBegins, Acquire, PoolInv, TypeOK
    <3>2. \A b \in DOMAIN batches : Before(b)' = Before(b)
      BY <1>0, <3>1
    <3>3. ASSUME NEW n \in Nat, n = Len(batches) + 1 PROVE Before(n)' = running
      <4>1. \A a \in running : a \in Nat /\ a < n
        BY <1>0, <3>3
      <4> QED
        BY <3>1, <3>3, <4>1
    <3> QED
      BY <1>0, <3>1, <3>2, <3>3 DEF OvertakesFew
  <2> QED
    BY <1>3, <2>1, <2>2, QueueStepKinds DEF PoolInv
<1>4. ASSUME NEW b \in running, Deliver(b) PROVE OvertakesFew'
  BY <1>2, <1>4, DeliveryKinds
<1>5. CASE UNCHANGED pipelineVars
  BY <1>2, <1>5 DEF pipelineVars, vars, workVars
<1> QED
  BY <1>3, <1>4, <1>5 DEF PipelineNext

\* A batch that has started is behind fewer than WorkerPoolSize unfinished
\* ones, whatever the streams do (queue.go:191-202).
THEOREM FewAreOvertaken == PipelineSpec => []OvertakesFew
<1>1. PipelineInit => OvertakesFew
  BY DEF PipelineInit, Init, OvertakesFew
<1> QED
  BY <1>1, OvertakesStep, PoolInPipeline, PTL DEF PipelineSpec

-------------------------------------------------------------------------------
(***************************************************************************)
(* Messages neither on their way nor stored, and the counters.             *)
(***************************************************************************)
Covered == InQueue \cup InDelivery \cup Stored
Lost    == Offered \ Covered

\* A step that loses the messages of S counts at least as many.
LEMMA LossBound ==
  ASSUME TypeOK, PipelineTypeOK, LossIsCounted,
         NEW S \in SUBSET Msgs, Lost' \subseteq Lost \cup S,
         NEW d \in Nat, NEW c \in Nat, Cardinality(S) <= d + c,
         dropped' = dropped + d, counted' = counted + c
  PROVE  LossIsCounted'
<1>1. \A T \in SUBSET Msgs : IsFiniteSet(T) /\ Cardinality(T) \in Nat
  BY PipelineAssumption, FS_Subset, FS_CardinalityType
<1>2. Lost \in SUBSET Msgs /\ Lost \cup S \in SUBSET Msgs
  BY DEF Lost, Offered
<1>3. Lost' \in SUBSET Msgs /\ Lost \cap S \in SUBSET Msgs
  BY <1>2
<1>4. Cardinality(Lost') <= Cardinality(Lost \cup S)
  BY <1>1, <1>2, FS_Subset
<1>5. Cardinality(Lost \cup S) = Cardinality(Lost) + Cardinality(S) - Cardinality(Lost \cap S)
  BY <1>1, <1>2, FS_Union
<1>6. Cardinality(Lost) <= dropped + counted
  BY DEF LossIsCounted, Lost, Covered
<1>7. /\ Cardinality(Lost) \in Nat /\ Cardinality(Lost') \in Nat
      /\ Cardinality(Lost \cup S) \in Nat /\ Cardinality(Lost \cap S) \in Nat
      /\ Cardinality(S) \in Nat /\ dropped \in Nat /\ counted \in Nat
  BY <1>1, <1>2, <1>3 DEF TypeOK, PipelineTypeOK
<1>8. Cardinality(Lost') <= dropped' + counted'
  BY <1>4, <1>5, <1>6, <1>7
<1> QED
  BY <1>8 DEF LossIsCounted, Lost, Covered

\* A step that loses nothing need not count.
LEMMA NothingMoreLost ==
  ASSUME TypeOK, PipelineTypeOK, LossIsCounted, Lost' \subseteq Lost,
         dropped' = dropped, NEW c \in Nat, counted' = counted + c
  PROVE  LossIsCounted'
<1>1. Cardinality({}) = 0 /\ {} \in SUBSET Msgs /\ 0 <= 0 + c
  BY FS_EmptySet
<1>2. dropped' = dropped + 0
  BY DEF TypeOK
<1> QED
  BY <1>1, <1>2, LossBound

\* A batch holds at most as many messages as it has places.
LEMMA BatchCardinality ==
  ASSUME TypeOK, NEW b \in DOMAIN batches
  PROVE  Cardinality(MessagesOf(b)) <= Len(batches[b].items)
<1> DEFINE s == batches[b].items
           f == [k \in 1..Len(s) |-> s[k]]
<1>1. s \in Seq(Msgs) /\ Len(s) \in Nat /\ DOMAIN s = 1..Len(s)
  BY BatchMessages
<1>2. f \in Surjection(1..Len(s), MessagesOf(b))
  BY <1>1 DEF Surjection, MessagesOf
<1>3. ExistsSurjection(1..Len(s), MessagesOf(b))
  BY <1>2 DEF ExistsSurjection
<1> QED
  BY <1>1, <1>3, FS_SurjCardinalityBound

\* Nothing leaves the queue but into a batch.
LEMMA QueueKeeps ==
  ASSUME TypeOK, PipelineTypeOK, QueueStep
  PROVE  Covered \subseteq Covered'
<1>1. Stored' = Stored
  BY DEF QueueStep, Stored, Streams
<1>2. buf \in Seq(Msgs) /\ batch \in Seq(Msgs) /\ orphan \in Seq(Msgs)
      /\ batches \in Seq(Batch) /\ running \subseteq 1..Len(batches)
  BY DEF TypeOK
<1>3. CASE BatchBegins
  <2>1. \A b \in running : b \in running' /\ MessagesOf(b)' = MessagesOf(b)
    BY <1>2, <1>3 DEF BatchBegins, MessagesOf
  <2>2. InDelivery \subseteq InDelivery'
    BY <2>1 DEF InDelivery
  <2>3. ASSUME NEW n \in Nat, n = Len(batches) + 1
        PROVE  n \in running' /\ MessagesOf(n)' = {batch[k] : k \in DOMAIN batch}
    <3>1. batches'[n].items = batch
      BY <1>2, <1>3, <2>3 DEF BatchBegins
    <3> QED
      BY <1>3, <2>3, <3>1 DEF BatchBegins, MessagesOf
  <2>4. {batch[k] : k \in DOMAIN batch} \subseteq InDelivery'
    BY <1>2, <2>3 DEF InDelivery
  <2>5. buf' = buf
    BY <1>3 DEF BatchBegins, Acquire, chanVars
  <2> QED
    BY <1>1, <2>2, <2>4, <2>5 DEF Covered, InQueue
<1>4. CASE SameBatches /\ ~Acquire
  <2>1. InDelivery' = InDelivery
    BY <1>4 DEF SameBatches, InDelivery, MessagesOf
  <2>2. CASE ReceiveItem
    <3>1. buf # <<>> /\ buf' = Tail(buf) /\ batch' = Append(batch, Head(buf))
      BY <2>2 DEF ReceiveItem
    <3>2. \A k \in DOMAIN batch : k \in DOMAIN batch' /\ batch'[k] = batch[k]
      BY <1>2, <3>1
    <3>3. Len(batch) + 1 \in DOMAIN batch' /\ batch'[Len(batch) + 1] = buf[1]
      BY <1>2, <3>1
    <3>4. \A k \in DOMAIN buf : k # 1 => k - 1 \in DOMAIN buf' /\ buf'[k - 1] = buf[k]
      BY <1>2, <3>1
    <3>5. InQueue \subseteq InQueue'
      BY <3>2, <3>3, <3>4 DEF InQueue
    <3> QED
      BY <1>1, <2>1, <3>5 DEF Covered
  <2>3. CASE ReceiveOrphan
    <3>1. buf' = buf /\ batch' = Append(batch, Head(orphan))
      BY <2>3 DEF ReceiveOrphan
    <3>2. \A k \in DOMAIN batch : k \in DOMAIN batch' /\ batch'[k] = batch[k]
      BY <1>2, <3>1
    <3> QED
      BY <1>1, <2>1, <3>1, <3>2 DEF Covered, InQueue
  <2>4. ASSUME NEW m \in Msgs, AddItemSend(m)
        PROVE  InQueue \subseteq InQueue'
    <3>1. buf' = Append(buf, m) /\ batch' = batch
      BY <2>4 DEF AddItemSend, loopVars
    <3>2. \A k \in DOMAIN buf : k \in DOMAIN buf' /\ buf'[k] = buf[k]
      BY <1>2, <3>1
    <3> QED
      BY <3>1, <3>2 DEF InQueue
  <2>5. ASSUME ~ReceiveItem, ~ReceiveOrphan, \A m \in Msgs : ~AddItemSend(m)
        PROVE  UNCHANGED <<buf, batch>>
    BY <1>4, <2>5, QueueActions DEF AddItemCheck, AddItemDrop, AddItemBind, Start, ReceiveZero,
       ProcessItems, CtxDone, AcquireCancelled, Tick, SetBatchSize, CancelContext, chanVars,
       loopVars
  <2> QED
    BY <1>1, <2>1, <2>2, <2>3, <2>4, <2>5 DEF Covered, InQueue
<1> QED
  BY <1>3, <1>4, QueueStepKinds

\* A message whose AddItem returns is refused and counted, or in the buffer.
LEMMA QueueOffers ==
  ASSUME TypeOK, QueueStep
  PROVE  \/ Offered' \subseteq Offered \cup InQueue' /\ dropped' = dropped
         \/ \E m \in Msgs : Offered' \subseteq Offered \cup {m} /\ dropped' = dropped + 1
<1>0. stage \in [Msgs -> Stages] /\ buf \in Seq(Msgs)
  BY DEF TypeOK
<1>1. ASSUME NEW m \in Msgs, AddItemCheck(m) \/ AddItemBind(m)
      PROVE  Offered' \subseteq Offered /\ dropped' = dropped
  BY <1>0, <1>1 DEF AddItemCheck, AddItemBind, Offered
<1>2. ASSUME NEW m \in Msgs, AddItemDrop(m)
      PROVE  Offered' \subseteq Offered \cup {m} /\ dropped' = dropped + 1
  BY <1>0, <1>2 DEF AddItemDrop, Offered
<1>3. ASSUME NEW m \in Msgs, AddItemSend(m)
      PROVE  Offered' \subseteq Offered \cup InQueue' /\ dropped' = dropped
  <2>1. buf' = Append(buf, m) /\ dropped' = dropped /\ stage' = [stage EXCEPT ![m] = "queued"]
    BY <1>3 DEF AddItemSend
  <2>2. Len(buf) + 1 \in DOMAIN buf' /\ buf'[Len(buf) + 1] = m
    BY <1>0, <2>1
  <2>3. m \in InQueue'
    BY <2>2 DEF InQueue
  <2> QED
    BY <1>0, <2>1, <2>3 DEF Offered
<1>4. ASSUME \A m \in Msgs : ~(\/ AddItemCheck(m) \/ AddItemDrop(m)
                               \/ AddItemBind(m) \/ AddItemSend(m))
      PROVE  Offered' = Offered /\ dropped' = dropped
  <2>1. UNCHANGED addVars
    BY <1>4, QueueActions DEF Start, ReceiveItem, ReceiveOrphan, ReceiveZero, ProcessItems,
       CtxDone, Acquire, AcquireCancelled, Tick, SetBatchSize, CancelContext
  <2> QED
    BY <2>1 DEF addVars, Offered
<1> QED
  BY <1>1, <1>2, <1>3, <1>4

LEMMA LossStep ==
  ASSUME TypeOK, PipelineTypeOK, LossIsCounted, [PipelineNext]_pipelineVars
  PROVE  LossIsCounted'
<1>0. dropped \in Nat /\ counted \in Nat /\ running \subseteq DOMAIN batches
  BY DEF TypeOK, PipelineTypeOK
<1>1. CASE QueueStep
  <2>1. Covered \subseteq Covered' /\ counted' = counted + 0
    BY <1>0, <1>1, QueueKeeps DEF QueueStep
  <2>2. CASE Offered' \subseteq Offered \cup InQueue' /\ dropped' = dropped
    <3>1. Lost' \subseteq Lost
      BY <2>1, <2>2 DEF Lost, Covered
    <3> QED
      BY <2>1, <2>2, <3>1, NothingMoreLost
  <2>3. ASSUME NEW m \in Msgs, Offered' \subseteq Offered \cup {m}, dropped' = dropped + 1
        PROVE  LossIsCounted'
    <3>1. Lost' \subseteq Lost \cup {m}
      BY <2>1, <2>3 DEF Lost
    <3>2. Cardinality({m}) = 1 /\ {m} \in SUBSET Msgs
      BY FS_Singleton
    <3> QED
      BY <2>1, <2>3, <3>1, <3>2, LossBound
  <2> QED
    BY <1>1, <2>2, <2>3, QueueOffers
<1>2. ASSUME NEW b \in running, Deliver(b)
      PROVE  LossIsCounted'
  <2>1. UNCHANGED <<batches, stage, buf, batch, dropped>>
    BY <1>2, DeliveryKinds
  <2>2. Offered' = Offered /\ InQueue' = InQueue
    BY <2>1 DEF Offered, InQueue
  <2>3. \A c : MessagesOf(c)' = MessagesOf(c)
    BY <2>1 DEF MessagesOf
  <2>4. ASSUME running' = running \ {b}
        PROVE  InDelivery \subseteq InDelivery' \cup MessagesOf(b)
    BY <2>3, <2>4 DEF InDelivery
  <2>5. ASSUME NEW S \in SUBSET MessagesOf(b), StreamFails(b, S)
        PROVE  LossIsCounted'
    <3>1. Stored \subseteq Stored'
      BY <2>5 DEF StreamFails, Stored, PipelineTypeOK
    <3>2. InDelivery' = InDelivery
      BY <2>3, <2>5 DEF StreamFails, vars, workVars, InDelivery
    <3>3. Lost' \subseteq Lost
      BY <2>2, <3>1, <3>2 DEF Lost, Covered
    <3>4. counted' = counted + 1
      BY <2>5 DEF StreamFails
    <3> QED
      BY <2>1, <3>3, <3>4, NothingMoreLost
  <2>6. CASE StreamTakes(b)
    <3>1. /\ tried[b] + 1 \in Streams /\ running' = running \ {b} /\ counted' = counted + 0
          /\ stored' = [stored EXCEPT ![tried[b] + 1] = @ \cup MessagesOf(b)]
      BY <1>0, <2>6, PipelineAssumption
      DEF StreamTakes, TakesStream, SubmitReturns, Finish, PipelineTypeOK, Streams
    <3>2. Stored \subseteq Stored' /\ MessagesOf(b) \subseteq Stored'
      BY <3>1 DEF Stored, PipelineTypeOK
    <3>3. Lost' \subseteq Lost
      BY <2>2, <2>4, <3>1, <3>2 DEF Lost, Covered
    <3> QED
      BY <2>1, <3>1, <3>3, NothingMoreLost
  <2>7. CASE AllFailed(b)
    <3>1. /\ running' = running \ {b} /\ stored' = stored
          /\ counted' = counted + Len(batches[b].items)
      BY <2>7 DEF AllFailed, SubmitReturns, Finish
    <3>2. Lost' \subseteq Lost \cup MessagesOf(b)
      BY <2>2, <2>4, <3>1 DEF Lost, Covered, Stored
    <3>3. /\ MessagesOf(b) \in SUBSET Msgs /\ Len(batches[b].items) \in Nat
          /\ Cardinality(MessagesOf(b)) <= Len(batches[b].items)
      BY <1>0, BatchMessages, BatchCardinality
    <3>4. dropped' = dropped + 0
      BY <1>0, <2>1
    <3>5. Cardinality(MessagesOf(b)) <= 0 + Len(batches[b].items)
      BY <3>3
    <3> QED
      BY <3>1, <3>2, <3>3, <3>4, <3>5, LossBound
  <2> QED
    BY <1>2, <2>5, <2>6, <2>7, DeliverySteps
<1>3. CASE UNCHANGED pipelineVars
  BY <1>3 DEF pipelineVars, deliveryVars, vars, addVars, chanVars, loopVars, workVars,
     LossIsCounted, Offered, InQueue, InDelivery, Stored, MessagesOf
<1> QED
  BY <1>1, <1>2, <1>3 DEF PipelineNext

\* The counters of dropped messages cover every message that AddItem has
\* returned for and that is neither in the queue, on its way to a stream nor
\* stored (queue.go:139, 188-207, stream_dispatcher.go:66-70).
THEOREM LossesAreCounted == PipelineSpec => []LossIsCounted
<1>1. PipelineInit => LossIsCounted
  <2>1. ASSUME PipelineInit PROVE Offered = {} /\ dropped = 0 /\ counted = 0
    BY <2>1 DEF PipelineInit, Init, Offered
  <2>2. Cardinality({}) = 0
    BY FS_EmptySet
  <2>3. ASSUME PipelineInit PROVE Offered \ (InQueue \cup InDelivery \cup Stored) = {}
    BY <2>1, <2>3
  <2> QED
    BY <2>1, <2>2, <2>3 DEF LossIsCounted
<1>2. PoolInv => TypeOK
  BY DEF PoolInv
<1> QED
  BY <1>1, <1>2, LossStep, PoolInPipeline, PipelineTypes, PTL DEF PipelineSpec

-------------------------------------------------------------------------------
(***************************************************************************)
(* Where copies of a message come from.                                    *)
(***************************************************************************)
AcceptedOnce == \A j, k \in DOMAIN accepted : accepted[j] = accepted[k] => j = k

LEMMA AcceptedOnceStep ==
  ASSUME TypeOK, AcceptedInv, AcceptedOnce, [Next]_vars
  PROVE  AcceptedOnce'
<1>0. accepted \in Seq(Msgs)
  BY DEF TypeOK
<1>1. ASSUME NEW m \in Msgs, AddItemSend(m)
      PROVE  AcceptedOnce'
  <2>1. accepted' = Append(accepted, m) /\ stage[m] # "queued"
    BY <1>1 DEF AddItemSend
  <2>2. \A k \in DOMAIN accepted : accepted[k] # m
    BY <2>1 DEF AcceptedInv
  <2>3. /\ DOMAIN accepted' = 1..(Len(accepted) + 1) /\ DOMAIN accepted = 1..Len(accepted)
        /\ Len(accepted) \in Nat /\ accepted'[Len(accepted) + 1] = m
        /\ \A k \in DOMAIN accepted : accepted'[k] = accepted[k]
    BY <1>0, <2>1
  <2>4. ASSUME NEW j \in DOMAIN accepted', NEW k \in DOMAIN accepted', accepted'[j] = accepted'[k]
        PROVE  j = k
    <3>1. CASE j \in DOMAIN accepted /\ k \in DOMAIN accepted
      BY <2>3, <2>4, <3>1 DEF AcceptedOnce
    <3>2. CASE j \in DOMAIN accepted /\ k = Len(accepted) + 1
      BY <2>2, <2>3, <2>4, <3>2
    <3>3. CASE k \in DOMAIN accepted /\ j = Len(accepted) + 1
      BY <2>2, <2>3, <2>4, <3>3
    <3> QED
      BY <2>3, <3>1, <3>2, <3>3
  <2> QED
    BY <2>4 DEF AcceptedOnce
<1>2. ASSUME \A m \in Msgs : ~AddItemSend(m)
      PROVE  accepted' = accepted
  <2>1. CASE UNCHANGED vars
    BY <2>1 DEF vars, histVars
  <2> QED
    BY <1>2, <2>1, NextActions DEF AddItemCheck, AddItemDrop, AddItemBind, Start, ReceiveItem,
       ReceiveOrphan, ReceiveZero, ProcessItems, CtxDone, Acquire, HandOff, Spawn,
       AcquireCancelled, Tick, SubmitReturns, SubmitPanics, Finish, ShutdownClose, EmptyCount,
       EmptySwap, WaitReturns, SetBatchSize, CancelContext, histVars
<1>3. accepted' = accepted => AcceptedOnce'
  BY DEF AcceptedOnce
<1> QED
  BY <1>1, <1>2, <1>3

\* Nothing in Start's slice has been handed over before.
LEMMA SliceIsNew ==
  ASSUME TypeOK, FifoInv, AcceptedOnce
  PROVE  \A j \in DOMAIN handed, k \in DOMAIN batch : handed[j] # batch[k]
<1>1. accepted = handed \o batch \o buf
  BY PipelineAssumption DEF FifoInv, NothingLost
<1>2. handed \in Seq(Msgs) /\ batch \in Seq(Msgs) /\ buf \in Seq(Msgs)
  BY DEF TypeOK
<1>3. ASSUME NEW j \in DOMAIN handed, NEW k \in DOMAIN batch
      PROVE  handed[j] # batch[k]
  <2>1. j \in 1..Len(handed) /\ k \in 1..Len(batch)
    BY <1>2
  <2>2. handed \o batch \in Seq(Msgs) /\ Len(handed \o batch) = Len(handed) + Len(batch)
    BY <1>2
  <2>3. (handed \o batch)[j] = handed[j] /\ (handed \o batch)[Len(handed) + k] = batch[k]
    BY <1>2, <2>1
  <2>4. /\ accepted[j] = handed[j] /\ accepted[Len(handed) + k] = batch[k]
        /\ j \in DOMAIN accepted /\ Len(handed) + k \in DOMAIN accepted
    BY <1>1, <1>2, <2>1, <2>2, <2>3
  <2>5. j # Len(handed) + k
    BY <1>2, <2>1
  <2> QED
    BY <2>4, <2>5 DEF AcceptedOnce
<1> QED
  BY <1>3

\* Batches have no message in common, and only messages of a batch are stored:
\* in streams tried for it, one more once its Submit has ended.
BatchesInv ==
  /\ \A b \in DOMAIN batches : MessagesOf(b) \subseteq {handed[k] : k \in DOMAIN handed}
  /\ \A a, b \in DOMAIN batches : a # b => MessagesOf(a) \cap MessagesOf(b) = {}

CopiesInv ==
  \A s \in Streams : \A m \in stored[s] :
    /\ \E b \in DOMAIN batches : m \in MessagesOf(b)
    /\ \A b \in DOMAIN batches : m \in MessagesOf(b) =>
         s <= tried[b] + 1 /\ (b \in running => s <= tried[b])

LEMMA CopiesStep ==
  ASSUME TypeOK, PipelineTypeOK, FifoInv, AcceptedOnce, BatchesInv, CopiesInv,
         [PipelineNext]_pipelineVars
  PROVE  BatchesInv' /\ CopiesInv'
<1>0. /\ Len(batches) \in Nat /\ DOMAIN batches = 1..Len(batches) /\ batches \in Seq(Batch)
      /\ running \subseteq DOMAIN batches /\ DOMAIN tried = DOMAIN batches
      /\ \A b \in DOMAIN batches : tried[b] \in 0..NumStreams
      /\ tried \in Seq(0..NumStreams) /\ NumStreams \in Nat
      /\ stored \in [Streams -> SUBSET Msgs]
  BY PipelineAssumption DEF TypeOK, PipelineTypeOK
<1>1. ASSUME UNCHANGED <<batches, handed>> PROVE BatchesInv'
  BY <1>1 DEF BatchesInv, MessagesOf
<1>2. ASSUME UNCHANGED <<batches, running, tried, stored>> PROVE CopiesInv'
  BY <1>2 DEF CopiesInv, MessagesOf
<1>3. CASE QueueStep
  <2>1. stored' = stored
    BY <1>3 DEF QueueStep
  <2>2. CASE SameBatches /\ ~Acquire
    <3>1. handed' = handed
      BY <1>3, <2>2, QueueActions DEF AddItemCheck, AddItemDrop, AddItemBind, AddItemSend,
         Start, ReceiveItem, ReceiveOrphan, ReceiveZero, ProcessItems, CtxDone,
         AcquireCancelled, Tick, SetBatchSize, CancelContext, histVars
    <3> QED
      BY <1>1, <1>2, <2>1, <2>2, <3>1 DEF SameBatches
  <2>3. CASE BatchBegins
    <3> DEFINE slice == {batch[k] : k \in DOMAIN batch}
               out == {handed[k] : k \in DOMAIN handed}
    <3>1. handed' = handed \o batch
      BY <2>3 DEF BatchBegins, Acquire, HandOff, Spawn
    <3>2. handed \in Seq(Msgs) /\ batch \in Seq(Msgs)
      BY DEF TypeOK
    <3>3. slice \cap out = {}
      BY SliceIsNew
    <3>4. out' = out \cup slice
      <4>1. \A k \in DOMAIN handed : k \in DOMAIN handed' /\ handed'[k] = handed[k]
        BY <3>1, <3>2
      <4>2. \A k \in DOMAIN batch : /\ Len(handed) + k \in DOMAIN handed'
                                    /\ handed'[Len(handed) + k] = batch[k]
        BY <3>1, <3>2
      <4>3. \A k \in DOMAIN handed' : \/ k \in DOMAIN handed /\ handed'[k] = handed[k]
                                      \/ /\ k - Len(handed) \in DOMAIN batch
                                         /\ handed'[k] = batch[k - Len(handed)]
        BY <3>1, <3>2
      <4> QED
        BY <4>1, <4>2, <4>3
    <3>5. PICK n \in Nat : n = Len(batches) + 1
      BY <1>0
    <3>6. /\ DOMAIN batches' = DOMAIN batches \cup {n} /\ n \notin DOMAIN batches
          /\ batches'[n].items = batch /\ tried'[n] = 0
          /\ running' = running \cup {n}
          /\ \A b \in DOMAIN batches : batches'[b] = batches[b] /\ tried'[b] = tried[b]
      <4>1. DOMAIN batches' = DOMAIN batches \cup {n} /\ n \notin DOMAIN batches
            /\ batches'[n].items = batch
            /\ \A b \in DOMAIN batches : batches'[b] = batches[b]
        BY <1>0, <2>3, <3>5 DEF BatchBegins
      <4>2. tried' = Append(tried, 0) /\ Len(tried) = Len(batches)
        BY <2>3 DEF BatchBegins, PipelineTypeOK
      <4>3. tried'[n] = 0 /\ \A b \in DOMAIN batches : tried'[b] = tried[b]
        BY <1>0, <3>5, <4>2
      <4> QED
        BY <2>3, <3>5, <4>1, <4>3 DEF BatchBegins
    <3>7. MessagesOf(n)' = slice /\ \A b \in DOMAIN batches : MessagesOf(b)' = MessagesOf(b)
      BY <3>6 DEF MessagesOf
    <3>8. \A b \in DOMAIN batches : MessagesOf(b) \subseteq out
      BY DEF BatchesInv
    <3>9. BatchesInv'
      <4>1. \A b \in DOMAIN batches' : MessagesOf(b)' \subseteq out'
        BY <3>4, <3>6, <3>7, <3>8
      <4>2. \A a, b \in DOMAIN batches : a # b => MessagesOf(a)' \cap MessagesOf(b)' = {}
        BY <3>7 DEF BatchesInv
      <4>3. \A b \in DOMAIN batches : MessagesOf(b)' \cap MessagesOf(n)' = {}
        BY <3>3, <3>7, <3>8
      <4>4. \A a, b \in DOMAIN batches' : a # b => MessagesOf(a)' \cap MessagesOf(b)' = {}
        BY <3>6, <4>2, <4>3
      <4> QED
        BY <4>1, <4>4 DEF BatchesInv
    <3>10. CopiesInv'
      <4>1. ASSUME NEW s \in Streams, NEW m \in stored'[s]
            PROVE  /\ \E b \in DOMAIN batches' : m \in MessagesOf(b)'
                   /\ \A b \in DOMAIN batches' : m \in MessagesOf(b)' =>
                        s <= tried'[b] + 1 /\ (b \in running' => s <= tried'[b])
        <5>1. m \in stored[s]
          BY <2>1, <4>1
        <5>2. PICK b \in DOMAIN batches : m \in MessagesOf(b)
          BY <4>1, <5>1 DEF CopiesInv
        <5>3. m \notin MessagesOf(n)'
          BY <3>3, <3>7, <3>8, <5>2
        <5>4. \A c \in DOMAIN batches : m \in MessagesOf(c) =>
                s <= tried[c] + 1 /\ (c \in running => s <= tried[c])
          BY <4>1, <5>1 DEF CopiesInv
        <5> QED
          BY <3>6, <3>7, <5>2, <5>3, <5>4
      <4> QED
        BY <4>1 DEF CopiesInv
    <3> QED
      BY <3>9, <3>10
  <2> QED
    BY <1>3, <2>2, <2>3, QueueStepKinds
<1>4. ASSUME NEW b \in running, Deliver(b)
      PROVE  BatchesInv' /\ CopiesInv'
  <2>1. /\ UNCHANGED <<batches, handed>> /\ running' \in {running, running \ {b}}
        /\ b \in DOMAIN batches
    BY <1>0, <1>4, DeliveryKinds
  <2>2. \A c : MessagesOf(c)' = MessagesOf(c)
    BY <2>1 DEF MessagesOf
  <2> DEFINE t == tried[b] + 1
  <2>3. \A s \in Streams : s \in Nat
    BY DEF Streams
  \* What the stream tried takes is of b, and counted as tried or b has ended.
  <2>4. ASSUME \A s \in Streams : \A m \in stored'[s] :
                 m \in stored[s] \/ (s = t /\ m \in MessagesOf(b)),
               \A c \in DOMAIN batches : c # b => tried'[c] = tried[c],
               \/ tried'[b] = t
               \/ tried'[b] = tried[b] /\ running' = running \ {b}
        PROVE  CopiesInv'
    <3>1. ASSUME NEW s \in Streams, NEW m \in stored'[s]
          PROVE  /\ \E c \in DOMAIN batches : m \in MessagesOf(c)
                 /\ \A c \in DOMAIN batches : m \in MessagesOf(c) =>
                      s <= tried'[c] + 1 /\ (c \in running' => s <= tried'[c])
      <4>1. m \in stored[s] \/ (s = t /\ m \in MessagesOf(b))
        BY <2>4, <3>1
      <4>2. \E c \in DOMAIN batches : m \in MessagesOf(c)
        BY <2>1, <3>1, <4>1 DEF CopiesInv
      <4>3. ASSUME NEW c \in DOMAIN batches, m \in MessagesOf(c)
            PROVE  s <= tried'[c] + 1 /\ (c \in running' => s <= tried'[c])
        <5>0. tried[c] \in Nat /\ tried[b] \in Nat /\ s \in Nat
          BY <1>0, <2>1, <2>3
        <5>1. CASE m \in stored[s]
          <6>1. s <= tried[c] + 1 /\ (c \in running => s <= tried[c])
            BY <3>1, <4>3, <5>1 DEF CopiesInv
          <6> QED
            BY <2>1, <2>4, <5>0, <6>1
        <5>2. CASE m \notin stored[s]
          <6>1. s = t /\ c = b
            BY <2>1, <4>1, <4>3, <5>2 DEF BatchesInv
          <6> QED
            BY <2>4, <5>0, <6>1
        <5> QED
          BY <5>1, <5>2
      <4> QED
        BY <4>2, <4>3
    <3> QED
      BY <2>1, <2>2, <3>1 DEF CopiesInv
  <2>5. ASSUME NEW S \in SUBSET MessagesOf(b), StreamFails(b, S) PROVE CopiesInv'
    <3>1. /\ t \in Streams /\ stored' = [stored EXCEPT ![t] = @ \cup S]
          /\ tried' = [tried EXCEPT ![b] = @ + 1]
      BY <1>0, <2>1, <2>5 DEF StreamFails, TakesStream, Streams
    <3>2. \A s \in Streams : \A m \in stored'[s] :
            m \in stored[s] \/ (s = t /\ m \in MessagesOf(b))
      BY <1>0, <3>1
    <3>3. tried'[b] = t /\ \A c \in DOMAIN batches : c # b => tried'[c] = tried[c]
      BY <1>0, <2>1, <3>1
    <3> QED
      BY <2>4, <3>2, <3>3
  <2>6. CASE StreamTakes(b)
    <3>1. /\ t \in Streams /\ stored' = [stored EXCEPT ![t] = @ \cup MessagesOf(b)]
          /\ tried' = tried /\ running' = running \ {b}
      BY <1>0, <2>1, <2>6 DEF StreamTakes, TakesStream, SubmitReturns, Finish, Streams
    <3>2. \A s \in Streams : \A m \in stored'[s] :
            m \in stored[s] \/ (s = t /\ m \in MessagesOf(b))
      BY <1>0, <3>1
    <3>3. /\ tried'[b] = tried[b] /\ running' = running \ {b} /\ t \in Streams
          /\ \A c \in DOMAIN batches : c # b => tried'[c] = tried[c]
      BY <3>1
    <3> QED
      BY <1>1, <2>1, <2>4, <3>2, <3>3
  <2>7. CASE AllFailed(b)
    <3>1. UNCHANGED <<tried, stored, batches>> /\ running' \subseteq running
      BY <2>1, <2>7 DEF AllFailed
    <3>2. ASSUME NEW s \in Streams, NEW m \in stored'[s]
          PROVE  /\ \E c \in DOMAIN batches : m \in MessagesOf(c)
                 /\ \A c \in DOMAIN batches : m \in MessagesOf(c) =>
                      s <= tried'[c] + 1 /\ (c \in running' => s <= tried'[c])
      BY <3>1, <3>2 DEF CopiesInv
    <3> QED
      BY <1>1, <2>1, <2>2, <3>2 DEF CopiesInv
  <2> QED
    BY <1>1, <1>4, <2>1, <2>5, <2>6, <2>7, DeliverySteps
<1>5. CASE UNCHANGED pipelineVars
  BY <1>1, <1>2, <1>5 DEF pipelineVars, deliveryVars, vars, workVars, histVars
<1> QED
  BY <1>3, <1>4, <1>5 DEF PipelineNext

LEMMA AcceptedOnceSafety == Spec => []AcceptedOnce
<1>1. Init => AcceptedOnce
  BY DEF Init, AcceptedOnce
<1> QED
  BY <1>1, AcceptedOnceStep, TypeCorrect, AcceptedSafety, PTL DEF Spec

LEMMA CopiesSafety == PipelineSpec => [](BatchesInv /\ CopiesInv)
<1>1. PipelineInit => BatchesInv /\ CopiesInv
  BY DEF PipelineInit, Init, BatchesInv, CopiesInv
<1> QED
  BY <1>1, CopiesStep, PipelineHasTheQueue, TypeCorrect, FifoSafety, PipelineTypes,
     AcceptedOnceSafety, PTL DEF PipelineSpec

\* A message is in more streams than one only if its batch failed at all of
\* them but the last: no step of the queue or of another batch sends it again
\* (queue.go:191-207, stream_dispatcher.go:64-79).
THEOREM DuplicatesAreFailures == PipelineSpec => []DuplicatesNeedFailures
<1>1. TypeOK /\ PipelineTypeOK /\ CopiesInv => DuplicatesNeedFailures
  <2> SUFFICES ASSUME TypeOK, PipelineTypeOK, CopiesInv,
                      NEW b \in DOMAIN batches, NEW m \in MessagesOf(b)
               PROVE  Cardinality({s \in Streams : m \in stored[s]}) <= tried[b] + 1
    BY DEF DuplicatesNeedFailures
  <2> DEFINE In == {s \in Streams : m \in stored[s]}
  <2>1. tried[b] \in Nat
    <3>1. \A c \in DOMAIN batches : tried[c] \in 0..NumStreams
      BY PipelineAssumption DEF TypeOK, PipelineTypeOK
    <3> QED
      BY <3>1
  <2>2. In \subseteq 1..(tried[b] + 1)
    BY <2>1 DEF CopiesInv, Streams
  <2>3. /\ IsFiniteSet(1..(tried[b] + 1))
        /\ Cardinality(1..(tried[b] + 1)) = tried[b] + 1
    BY <2>1, FS_Interval
  <2> QED
    BY <2>2, <2>3, FS_Subset
<1> QED
  BY <1>1, CopiesSafety, PipelineHasTheQueue, TypeCorrect, PipelineTypes, PTL

-------------------------------------------------------------------------------
(***************************************************************************)
(* Each batch as a delivery of its own.                                    *)
(***************************************************************************)
\* Nobody closes or replaces the channel, so there is no nil message.
NilFree ==
  /\ stop = "idle" /\ ~closed /\ ~onOrphan /\ nils = 0
  /\ \A b \in DOMAIN batches : batches[b].nils = 0

LEMMA NilFreeStep ==
  ASSUME TypeOK, NilFree, [Next]_vars
  PROVE  NilFree'
<1> USE DEF NilFree
<1>0. batches \in Seq(Batch) /\ orphan \in Seq(Msgs)
  BY DEF TypeOK
<1>1. ASSUME UNCHANGED <<stop, closed, onOrphan, nils, batches>> PROVE NilFree'
  BY <1>1
<1>2. ASSUME \/ \E m \in Msgs : \/ AddItemCheck(m) \/ AddItemDrop(m)
                                \/ AddItemBind(m) \/ AddItemSend(m)
             \/ SetBatchSize \/ CancelContext \/ UNCHANGED vars
      PROVE  UNCHANGED <<stop, closed, onOrphan, nils, batches>>
  BY <1>2 DEF AddItemCheck, AddItemDrop, AddItemBind, AddItemSend, SetBatchSize, CancelContext,
     vars, chanVars, loopVars, workVars, stopVars
<1>3. CASE \/ Start \/ ReceiveItem \/ ProcessItems \/ CtxDone \/ AcquireCancelled \/ Tick
  BY <1>3 DEF Start, ReceiveItem, ProcessItems, CtxDone, AcquireCancelled, Tick, chanVars,
     workVars, stopVars
<1>4. ~ReceiveOrphan /\ ~ReceiveZero
  BY DEF ReceiveOrphan, ReceiveZero
<1>5. CASE Acquire
  <2>1. /\ batches' = Append(batches, [items |-> batch, nils |-> nils])
        /\ nils' = 0 /\ UNCHANGED <<stop, closed, onOrphan>>
    BY <1>5 DEF Acquire, HandOff, Spawn, chanVars, stopVars
  <2>2. /\ DOMAIN batches' = DOMAIN batches \cup {Len(batches) + 1}
        /\ \A b \in DOMAIN batches : batches'[b] = batches[b]
        /\ batches'[Len(batches) + 1].nils = nils
    BY <1>0, <2>1
  <2> QED
    BY <2>1, <2>2
<1>6. ASSUME NEW b \in running, SubmitReturns(b) \/ SubmitPanics(b)
      PROVE  UNCHANGED <<stop, closed, onOrphan, nils, batches>>
  BY <1>6 DEF SubmitReturns, Finish, SubmitPanics, chanVars, loopVars, stopVars
<1>7. ~ShutdownClose /\ ~EmptyCount /\ ~EmptySwap /\ ~WaitReturns
  BY PipelineAssumption DEF ShutdownClose, EmptyCount, EmptySwap, WaitReturns
<1> QED
  BY <1>1, <1>2, <1>3, <1>4, <1>5, <1>6, <1>7, NextActions

LEMMA NilFreeSafety == Spec => []NilFree
<1>1. Init => NilFree
  BY DEF Init, NilFree
<1> QED
  BY <1>1, NilFreeStep, TypeCorrect, PTL DEF Spec

\* A batch whose share of the streams, and whose Submit, a step leaves alone.
LEMMA NotItsBusiness ==
  ASSUME NEW b \in DOMAIN batches, batches'[b] = batches[b], tried'[b] = tried[b],
         b \in running' <=> b \in running, b \in gaveUp' <=> b \in gaveUp,
         \A s \in Streams : \A m \in MessagesOf(b) : m \in stored'[s] <=> m \in stored[s]
  PROVE  UNCHANGED Promise(b)!vars
<1>1. StoredOf(b)' = StoredOf(b)
  <2>1. \A s \in Streams :
          {k \in DOMAIN batches[b].items : batches[b].items[k] \in stored'[s]}
            = {k \in DOMAIN batches[b].items : batches[b].items[k] \in stored[s]}
    BY DEF MessagesOf
  <2> QED
    BY <2>1 DEF StoredOf
<1>2. UNCHANGED <<OutcomeOf(b), CountedFor(b)>>
  BY DEF OutcomeOf, CountedFor
<1> QED
  BY <1>1, <1>2 DEF Promise!vars

LEMMA Bookkeeping ==
  ASSUME TypeOK, PipelineTypeOK
  PROVE  /\ running \subseteq DOMAIN batches /\ DOMAIN tried = DOMAIN batches
         /\ \A b \in DOMAIN batches : tried[b] \in 0..NumStreams
         /\ NumStreams \in Nat /\ stored \in [Streams -> SUBSET Msgs]
<1>1. batches \in Seq(Batch) /\ tried \in Seq(0..NumStreams) /\ Len(tried) = Len(batches)
  BY DEF TypeOK, PipelineTypeOK
<1>2. DOMAIN batches = 1..Len(batches) /\ DOMAIN tried = 1..Len(batches)
  BY <1>1
<1> QED
  BY <1>1, <1>2, PipelineAssumption DEF TypeOK, PipelineTypeOK

LEMMA OwnDelivery ==
  ASSUME TypeOK, PipelineTypeOK, NilFree, NEW b \in running, Deliver(b)
  PROVE  Promise(b)!Next
<1>0. /\ b \in DOMAIN batches /\ batches[b].nils = 0 /\ tried[b] \in 0..NumStreams
      /\ NumStreams \in Nat /\ b \notin gaveUp
      /\ stored \in [Streams -> SUBSET Msgs] /\ b \in DOMAIN tried
  BY Bookkeeping DEF PipelineTypeOK, NilFree
<1>1. batches[b].items \in Seq(Msgs) /\ DOMAIN batches[b].items = 1..Len(batches[b].items)
      /\ Len(batches[b].items) \in Nat
  BY <1>0, BatchMessages
<1>2. OutcomeOf(b) = "running" /\ CountedFor(b) = tried[b]
  BY <1>0 DEF OutcomeOf, CountedFor
<1> DEFINE Places(S) == {k \in DOMAIN batches[b].items : batches[b].items[k] \in S}
\* What the stream it is at gets, by message and by place.
<1>3. ASSUME NEW S \in SUBSET MessagesOf(b), tried[b] < NumStreams,
             stored' = [stored EXCEPT ![tried[b] + 1] = @ \cup S], batches' = batches
      PROVE  /\ StoredOf(b)' = [StoredOf(b) EXCEPT ![tried[b] + 1] = @ \cup Places(S)]
             /\ Places(S) \in SUBSET (1..Len(batches[b].items))
  <2>1. tried[b] + 1 \in Streams
    BY <1>0, <1>3 DEF Streams
  <2>2. \A s \in Streams : stored'[s] = IF s = tried[b] + 1 THEN stored[s] \cup S ELSE stored[s]
    BY <1>0, <1>3, <2>1
  <2>3. \A s \in Streams :
          Places(stored'[s]) = IF s = tried[b] + 1 THEN Places(stored[s]) \cup Places(S)
                                                   ELSE Places(stored[s])
    BY <2>2
  <2>4. StoredOf(b)' = [s \in Streams |-> Places(stored'[s])]
    BY <1>3 DEF StoredOf
  <2>5. StoredOf(b) = [s \in Streams |-> Places(stored[s])]
    BY DEF StoredOf
  <2> HIDE DEF Places
  <2>6. StoredOf(b)' = [StoredOf(b) EXCEPT ![tried[b] + 1] = @ \cup Places(S)]
    BY <2>1, <2>3, <2>4, <2>5
  <2> QED
    BY <1>1, <2>6 DEF Places
<1> HIDE DEF Places
<1>4. ASSUME NEW S \in SUBSET MessagesOf(b), StreamFails(b, S)
      PROVE  Promise(b)!Next
  <2>1. /\ tried[b] < NumStreams /\ stored' = [stored EXCEPT ![tried[b] + 1] = @ \cup S]
        /\ tried'[b] = tried[b] + 1 /\ UNCHANGED <<batches, running, gaveUp>>
    BY <1>0, <1>4 DEF StreamFails, TakesStream, vars, workVars
  <2>2. OutcomeOf(b)' = "running" /\ CountedFor(b)' = tried[b] + 1
    BY <1>0, <2>1 DEF OutcomeOf, CountedFor
  <2>3. /\ StoredOf(b)' = [StoredOf(b) EXCEPT ![tried[b] + 1] = @ \cup Places(S)]
        /\ Places(S) \in SUBSET (1..Len(batches[b].items))
    BY <1>3, <1>4, <2>1
  <2>4. Promise(b)!StreamFails(Places(S))
    BY <1>0, <1>2, <2>1, <2>2, <2>3
    DEF Promise!StreamFails, Promise!Trying, Promise!call
  <2> QED
    BY <2>3, <2>4 DEF Promise!Next, Promise!Batch
<1>5. CASE StreamTakes(b)
  <2>1. /\ tried[b] < NumStreams
        /\ stored' = [stored EXCEPT ![tried[b] + 1] = @ \cup MessagesOf(b)]
        /\ UNCHANGED <<tried, batches, gaveUp>> /\ running' = running \ {b}
    BY <1>5 DEF StreamTakes, TakesStream, SubmitReturns, Finish
  <2>2. OutcomeOf(b)' = "sent" /\ CountedFor(b)' = tried[b]
    BY <1>0, <2>1 DEF OutcomeOf, CountedFor
  <2>3. Places(MessagesOf(b)) = 1..Len(batches[b].items)
    BY <1>1 DEF MessagesOf, Places
  <2>4. StoredOf(b)' = [StoredOf(b) EXCEPT ![tried[b] + 1] = @ \cup 1..Len(batches[b].items)]
    BY <1>3, <2>1, <2>3
  <2>5. Promise(b)!Sent
    BY <1>0, <1>2, <2>1, <2>2, <2>4
    DEF Promise!Sent, Promise!Trying, Promise!call, Promise!Batch
  <2> QED
    BY <2>5 DEF Promise!Next
<1>6. CASE AllFailed(b)
  <2>1. /\ tried[b] = NumStreams /\ gaveUp' = gaveUp \cup {b}
        /\ UNCHANGED <<tried, stored, batches>> /\ running' = running \ {b}
    BY <1>6 DEF AllFailed, SubmitReturns, Finish
  <2>2. OutcomeOf(b)' = "failed" /\ CountedFor(b)' = tried[b] + Len(batches[b].items)
    BY <1>0, <2>1 DEF OutcomeOf, CountedFor
  <2>3. StoredOf(b)' = StoredOf(b)
    BY <2>1 DEF StoredOf
  <2>4. Promise(b)!GiveUp
    BY <1>2, <2>1, <2>2, <2>3 DEF Promise!GiveUp, Promise!call
  <2> QED
    BY <2>4 DEF Promise!Next
<1> QED
  BY <1>4, <1>5, <1>6, DeliverySteps

\* The goroutine of batch c touches no message of batch b.
LEMMA OthersDelivery ==
  ASSUME TypeOK, PipelineTypeOK, BatchesInv, NEW c \in running, Deliver(c),
         NEW b \in DOMAIN batches, b # c
  PROVE  UNCHANGED Promise(b)!vars
<1>0. /\ c \in DOMAIN batches /\ MessagesOf(b) \cap MessagesOf(c) = {}
      /\ stored \in [Streams -> SUBSET Msgs] /\ b \in DOMAIN tried
  BY Bookkeeping DEF BatchesInv
<1>1. batches' = batches /\ (b \in running' <=> b \in running)
  BY DeliveryKinds
<1>2. /\ tried'[b] = tried[b] /\ (b \in gaveUp' <=> b \in gaveUp)
      /\ \/ stored' = stored
         \/ \E S \in SUBSET MessagesOf(c) : stored' = [stored EXCEPT ![tried[c] + 1] = @ \cup S]
  <2>1. ASSUME NEW S \in SUBSET MessagesOf(c), StreamFails(c, S)
        PROVE  /\ tried' = [tried EXCEPT ![c] = @ + 1] /\ gaveUp' = gaveUp
               /\ stored' = [stored EXCEPT ![tried[c] + 1] = @ \cup S]
    BY <2>1 DEF StreamFails
  <2>2. ASSUME StreamTakes(c)
        PROVE  /\ tried' = tried /\ gaveUp' = gaveUp
               /\ stored' = [stored EXCEPT ![tried[c] + 1] = @ \cup MessagesOf(c)]
    BY <2>2 DEF StreamTakes
  <2>3. ASSUME AllFailed(c)
        PROVE  tried' = tried /\ gaveUp' = gaveUp \cup {c} /\ stored' = stored
    BY <2>3 DEF AllFailed
  <2> QED
    BY <1>0, <2>1, <2>2, <2>3, DeliverySteps
<1>3. \A s \in Streams : \A m \in MessagesOf(b) : m \in stored'[s] <=> m \in stored[s]
  BY <1>0, <1>2
<1> QED
  BY <1>1, <1>2, <1>3, NotItsBusiness

\* A new batch starts at the first stream, and no stream has anything of it.
LEMMA NewBatch ==
  ASSUME TypeOK, PipelineTypeOK, FifoInv, AcceptedOnce, BatchesInv, CopiesInv, NilFree,
         BatchBound', BatchBegins, NEW b \in DOMAIN batches' \ DOMAIN batches
  PROVE  Promise(b)!Init'
<1>1. /\ b = Len(batches) + 1 /\ batches'[b] = [items |-> batch, nils |-> nils]
      /\ tried'[b] = 0 /\ b \in running' /\ b \notin gaveUp'
      /\ batch \in Seq(Msgs) /\ stored' = stored
  <2>1. /\ batches \in Seq(Batch) /\ batch \in Seq(Msgs) /\ tried \in Seq(0..NumStreams)
        /\ Len(tried) = Len(batches) /\ gaveUp \subseteq DOMAIN batches
    BY DEF TypeOK, PipelineTypeOK
  <2>2. /\ batches' = Append(batches, [items |-> batch, nils |-> nils])
        /\ tried' = Append(tried, 0) /\ running' = running \cup {Len(batches) + 1}
        /\ UNCHANGED <<gaveUp, stored>>
    BY DEF BatchBegins
  <2>3. b = Len(batches) + 1
    BY <2>1, <2>2
  <2> QED
    BY <2>1, <2>2, <2>3
<1>2. batches'[b].items = batch /\ batches'[b].nils = 0
  BY <1>1 DEF NilFree
<1>3. Len(batch) \in Nat /\ Len(batch) <= MaxBatchSize
  <2>1. Len(batches'[b].items) + batches'[b].nils \in 1..MaxBatchSize
    BY DEF BatchBound
  <2> QED
    BY <1>1, <1>2, <2>1, QueueAssumption
<1>4. ASSUME NEW s \in Streams, NEW k \in DOMAIN batch PROVE batch[k] \notin stored[s]
  <2>1. \A j \in DOMAIN handed : handed[j] # batch[k]
    BY SliceIsNew
  <2> QED
    BY <2>1 DEF CopiesInv, BatchesInv
<1>5. StoredOf(b)' = [s \in Streams |-> {}]
  BY <1>1, <1>2, <1>4 DEF StoredOf
<1>6. OutcomeOf(b)' = "running" /\ CountedFor(b)' = 0
  BY <1>1 DEF OutcomeOf, CountedFor
<1> QED
  BY <1>1, <1>2, <1>3, <1>5, <1>6, PipelineAssumption, QueueAssumption
  DEF Promise!Init, Streams

LEMMA DeliveriesStep ==
  ASSUME TypeOK, PipelineTypeOK, FifoInv, AcceptedOnce, BatchesInv, CopiesInv, NilFree,
         BatchBound', [PipelineNext]_pipelineVars, NEW b \in DOMAIN batches'
  PROVE  IF b \in DOMAIN batches THEN [Promise(b)!Next]_(Promise(b)!vars)
                                 ELSE Promise(b)!Init'
<1>1. CASE QueueStep
  <2>1. UNCHANGED <<gaveUp, stored>>
    BY <1>1 DEF QueueStep
  <2>2. CASE SameBatches
    BY <2>1, <2>2, NotItsBusiness DEF SameBatches
  <2>3. CASE BatchBegins /\ b \in DOMAIN batches
    <3>1. /\ batches \in Seq(Batch) /\ tried \in Seq(0..NumStreams) /\ Len(tried) = Len(batches)
      BY DEF TypeOK, PipelineTypeOK
    <3>2. batches'[b] = batches[b] /\ tried'[b] = tried[b] /\ (b \in running' <=> b \in running)
      BY <2>3, <3>1 DEF BatchBegins
    <3> QED
      BY <2>1, <2>3, <3>2, NotItsBusiness
  <2>4. CASE BatchBegins /\ b \notin DOMAIN batches
    BY <2>4, NewBatch
  <2> QED
    BY <1>1, <2>2, <2>3, <2>4, QueueStepKinds
<1>2. ASSUME NEW c \in running, Deliver(c)
      PROVE  b \in DOMAIN batches /\ [Promise(b)!Next]_(Promise(b)!vars)
  <2>1. b \in DOMAIN batches
    BY <1>2, DeliveryKinds
  <2> QED
    BY <1>2, <2>1, OwnDelivery, OthersDelivery
<1>3. CASE UNCHANGED pipelineVars
  <2>1. UNCHANGED <<batches, running, tried, gaveUp, stored>>
    BY <1>3 DEF pipelineVars, deliveryVars, vars, workVars
  <2> QED
    BY <2>1, NotItsBusiness
<1> QED
  BY <1>1, <1>2, <1>3 DEF PipelineNext

\* Every batch is delivered by the contract of StreamDispatcher.Submit, whatever
\* the goroutines of other batches do to the same streams meanwhile
\* (queue.go:191-207, stream_dispatcher.go:39-82).
THEOREM BatchesKeepThePromise == PipelineSpec => BatchesAreDeliveries
<1> DEFINE Step == \A b \in DOMAIN batches' :
                     IF b \in DOMAIN batches THEN [Promise(b)!Next]_(Promise(b)!vars)
                                             ELSE Promise(b)!Init'
<1>1. TypeOK /\ PipelineTypeOK /\ FifoInv /\ AcceptedOnce /\ BatchesInv /\ CopiesInv /\ NilFree
      /\ BatchBound' /\ [PipelineNext]_pipelineVars => [Step]_pipelineVars
  BY DeliveriesStep
<1> QED
  BY <1>1, PipelineHasTheQueue, TypeCorrect, PipelineTypes, FifoSafety, AcceptedOnceSafety,
     CopiesSafety, NilFreeSafety, BatchesBounded, PTL
  DEF PipelineSpec, BatchesAreDeliveries
===============================================================================
