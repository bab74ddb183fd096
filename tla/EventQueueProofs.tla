--------------------------- MODULE EventQueueProofs ---------------------------
(***************************************************************************)
(* Safety of EventQueue for every value of its constants.                  *)
(***************************************************************************)
EXTENDS EventQueue, SequenceTheorems, FiniteSetTheorems, TLAPS

(***************************************************************************)
(* Next, spread out into the actions of the program.                       *)
(***************************************************************************)
LEMMA NextActions ==
  ASSUME Next
  PROVE  \/ \E m \in Msgs : \/ AddItemCheck(m) \/ AddItemDrop(m)
                            \/ AddItemBind(m) \/ AddItemSend(m)
         \/ Start \/ ReceiveItem \/ ReceiveOrphan \/ ReceiveZero
         \/ ProcessItems \/ CtxDone \/ Acquire \/ AcquireCancelled \/ Tick
         \/ \E i \in running : SubmitReturns(i) \/ SubmitPanics(i)
         \/ ShutdownClose \/ EmptyCount \/ EmptySwap \/ WaitReturns
         \/ SetBatchSize \/ CancelContext
BY DEF Next, AddItem, Loop, Submit, Shutdown

(***************************************************************************)
(* What each part of the system leaves alone.                              *)
(***************************************************************************)
LEMMA RunningIsFinite ==
  ASSUME TypeOK
  PROVE  IsFiniteSet(running) /\ Cardinality(running) \in Nat
<1>1. Len(batches) \in Nat
  BY LenProperties DEF TypeOK
<1>2. IsFiniteSet(1..Len(batches))
  BY <1>1, FS_Interval
<1>3. running \in SUBSET (1..Len(batches))
  BY DEF TypeOK
<1> QED
  BY <1>2, <1>3, FS_Subset, FS_CardinalityType

\* sem never goes below zero only because every goroutine that releases the
\* semaphore holds a slot: type correctness and PoolBound are one invariant.
PoolInv == TypeOK /\ PoolBound

LEMMA PoolInit == Init => PoolInv
<1> SUFFICES ASSUME Init PROVE PoolInv
  OBVIOUS
<1>1. stage \in [Msgs -> Stages]
  BY DEF Init, Stages
<1>2. /\ buf \in Seq(Msgs) /\ orphan \in Seq(Msgs) /\ batch \in Seq(Msgs)
      /\ accepted \in Seq(Msgs) /\ handed \in Seq(Msgs) /\ batches \in Seq(Batch)
  BY EmptySeq DEF Init
<1>3. running \subseteq 1..Len(batches)
  BY DEF Init
<1>4. TypeOK
  BY <1>1, <1>2, <1>3 DEF Init, TypeOK
<1>5. Cardinality(running) = 0
  BY FS_EmptySet DEF Init
<1>6. PoolBound
  BY <1>5, QueueAssumption DEF Init, PoolBound
<1> QED
  BY <1>4, <1>6 DEF PoolInv

LEMMA PoolStep ==
  ASSUME PoolInv, [Next]_vars
  PROVE  PoolInv'
<1> USE DEF PoolInv
<1>0. TypeOK BY DEF PoolInv
<1>1. ASSUME NEW m \in Msgs, AddItemCheck(m) PROVE PoolInv'
  BY <1>1 DEF AddItemCheck, TypeOK, PoolBound, Stages, chanVars, loopVars, workVars, stopVars,
     envVars, histVars
<1>2. ASSUME NEW m \in Msgs, AddItemDrop(m) PROVE PoolInv'
  BY <1>2 DEF AddItemDrop, TypeOK, PoolBound, Stages, chanVars, loopVars, workVars, stopVars,
     envVars, histVars
<1>3. ASSUME NEW m \in Msgs, AddItemBind(m) PROVE PoolInv'
  BY <1>3 DEF AddItemBind, TypeOK, PoolBound, Stages, chanVars, loopVars, workVars, stopVars,
     envVars, histVars
<1>4. ASSUME NEW m \in Msgs, AddItemSend(m) PROVE PoolInv'
  BY <1>4 DEF AddItemSend, TypeOK, PoolBound, Stages, chanVars, loopVars, workVars, stopVars,
     envVars, histVars
<1>5. CASE Start
  BY <1>5 DEF Start, TypeOK, PoolBound, addVars, chanVars, workVars, stopVars, envVars, histVars
<1>6. CASE ReceiveItem
  <2>1. Append(batch, Head(buf)) \in Seq(Msgs) /\ Tail(buf) \in Seq(Msgs)
    BY <1>6, HeadTailProperties, AppendProperties DEF ReceiveItem, TypeOK
  <2> QED
    BY <1>6, <2>1 DEF ReceiveItem, TypeOK, PoolBound, addVars, workVars, stopVars,
                      envVars, histVars
<1>7. CASE ReceiveOrphan
  <2>1. Append(batch, Head(orphan)) \in Seq(Msgs) /\ Tail(orphan) \in Seq(Msgs)
    BY <1>7, HeadTailProperties, AppendProperties DEF ReceiveOrphan, TypeOK
  <2> QED
    BY <1>7, <2>1 DEF ReceiveOrphan, TypeOK, PoolBound, addVars, workVars, stopVars,
                      envVars, histVars
<1>8. CASE ReceiveZero
  <2>1. /\ nils' = nils + 1 /\ onOrphan' = FALSE /\ pc' = "check"
        /\ UNCHANGED <<batch, buf, closed, orphan, addVars, workVars, stopVars, envVars,
                       histVars>>
    BY <1>8 DEF ReceiveZero
  <2> QED
    <3>1. nils' \in Nat
      BY <2>1 DEF TypeOK
    <3>2. TypeOK'
      BY <2>1, <3>1 DEF TypeOK, addVars, workVars, stopVars, envVars, histVars
    <3>3. PoolBound'
      BY <2>1 DEF PoolBound, workVars
    <3> QED
      BY <3>2, <3>3
<1>9. CASE ProcessItems
  BY <1>9 DEF ProcessItems, TypeOK, PoolBound, addVars, chanVars, workVars, stopVars, envVars,
     histVars
<1>10. CASE CtxDone
  BY <1>10 DEF CtxDone, TypeOK, PoolBound, addVars, chanVars, workVars, stopVars, envVars,
     histVars
<1>11. CASE Acquire
  <2> USE <1>11 DEF Acquire, HandOff, Spawn
  <2>1. [items |-> batch, nils |-> nils] \in Batch
    BY DEF TypeOK, Batch
  <2>2. /\ batches' \in Seq(Batch)
        /\ Len(batches') = Len(batches) + 1
        /\ Len(batches) \in Nat
    BY <2>1, AppendProperties, LenProperties DEF TypeOK
  <2>3. running' \subseteq 1..Len(batches')
    <3>1. /\ running \subseteq 1..Len(batches)
          /\ running' = running \cup {Len(batches) + 1}
      BY DEF TypeOK
    <3>2. 1..Len(batches) \subseteq 1..(Len(batches) + 1)
      BY <2>2
    <3>3. Len(batches) + 1 \in 1..(Len(batches) + 1)
      BY <2>2
    <3> QED
      BY <2>2, <3>1, <3>2, <3>3
  <2>4. handed' \in Seq(Msgs) /\ batch' \in Seq(Msgs)
    BY ConcatProperties, EmptySeq DEF TypeOK
  <2>5. Len(batches) + 1 \notin running
    BY <2>2 DEF TypeOK
  <2>6. Cardinality(running') = Cardinality(running) + 1
    BY <2>5, RunningIsFinite, FS_AddElement
  <2>7. PoolBound'
    BY <2>6, QueueAssumption DEF PoolBound, TypeOK
  <2>8. TypeOK'
    BY <2>2, <2>3, <2>4 DEF TypeOK, addVars, chanVars, stopVars, envVars
  <2> QED BY <2>7, <2>8
<1>12. CASE AcquireCancelled
  BY <1>12 DEF AcquireCancelled, TypeOK, PoolBound, addVars, chanVars, workVars, stopVars,
     envVars, histVars
<1>13. CASE Tick
  BY <1>13 DEF Tick, TypeOK, PoolBound, addVars, workVars, stopVars, envVars, histVars
<1>14. ASSUME NEW i \in running, SubmitReturns(i) PROVE PoolInv'
  <2> USE <1>14 DEF SubmitReturns, Finish
  <2>1. Cardinality(running') = Cardinality(running) - 1 /\ Cardinality(running) \in Nat
    BY RunningIsFinite, FS_RemoveElement
  <2>2. Cardinality(running) # 0
    BY RunningIsFinite, FS_EmptySet
  <2>3. sem' \in Nat /\ PoolBound'
    BY <2>1, <2>2, QueueAssumption DEF PoolBound, TypeOK
  <2>4. TypeOK'
    BY <2>3 DEF TypeOK, addVars, chanVars, loopVars, stopVars, envVars, histVars
  <2> QED BY <2>3, <2>4
<1>15. ASSUME NEW i \in running, SubmitPanics(i) PROVE PoolInv'
  BY <1>15 DEF SubmitPanics, TypeOK, PoolBound, addVars, chanVars, loopVars, stopVars, envVars,
     histVars
<1>16. CASE ShutdownClose
  <2>1. stage' \in [Msgs -> Stages]
    BY <1>16 DEF ShutdownClose, Close, TypeOK, Stages
  <2>2. stop' \in {"wait", "count"} /\ closed' = TRUE
    BY <1>16 DEF ShutdownClose, Close
  <2> QED
    BY <1>16, <2>1, <2>2 DEF ShutdownClose, TypeOK, PoolBound, loopVars, workVars,
                             envVars, histVars
<1>17. CASE EmptyCount
  BY <1>17, LenProperties DEF EmptyCount, TypeOK, PoolBound, addVars, chanVars, loopVars,
     workVars, envVars, histVars
<1>18. CASE EmptySwap
  <2>1. onOrphan' \in BOOLEAN
    BY <1>18 DEF EmptySwap
  <2>2. buf' = <<>> /\ buf' \in Seq(Msgs)
    BY <1>18, EmptySeq DEF EmptySwap
  <2>3. /\ stop' = "close" /\ closed' = FALSE /\ orphan' = buf /\ emptied' = TRUE
        /\ dropped' = dropped + numDropped
        /\ UNCHANGED <<stage, numDropped, loopVars, workVars, envVars, histVars>>
    BY <1>18 DEF EmptySwap
  <2> QED
    <3>1. dropped' \in Nat
      BY <2>3 DEF TypeOK
    <3>2. TypeOK'
      BY <2>1, <2>2, <2>3, <3>1 DEF TypeOK, loopVars, workVars, envVars, histVars
    <3>3. PoolBound'
      BY <2>3 DEF PoolBound, workVars
    <3> QED
      BY <3>2, <3>3
<1>19. CASE WaitReturns
  BY <1>19 DEF WaitReturns, TypeOK, PoolBound, addVars, chanVars, loopVars, workVars, envVars,
     histVars
<1>20. CASE SetBatchSize
  BY <1>20 DEF SetBatchSize, TypeOK, PoolBound, addVars, chanVars, loopVars, workVars,
     stopVars, histVars
<1>21. CASE CancelContext
  BY <1>21 DEF CancelContext, TypeOK, PoolBound, addVars, chanVars, loopVars, workVars,
     stopVars, histVars
<1>22. CASE UNCHANGED vars
  BY <1>22 DEF TypeOK, PoolBound, vars, addVars, chanVars, loopVars, workVars, stopVars,
     envVars, histVars
<1> QED
  BY <1>1, <1>2, <1>3, <1>4, <1>5, <1>6, <1>7, <1>8, <1>9, <1>10, <1>11, <1>12, <1>13,
     <1>14, <1>15, <1>16, <1>17, <1>18, <1>19, <1>20, <1>21, <1>22, NextActions

(***************************************************************************)
(* The semaphore's weight is what the running goroutines hold, and at most *)
(* WorkerPoolSize of them run (queue.go:191-194).  With it, the types.     *)
(***************************************************************************)
THEOREM PoolSafety == Spec => []PoolInv
<1>1. PoolInv /\ [Next]_vars => PoolInv'
  BY PoolStep
<1> QED
  BY PoolInit, <1>1, PTL DEF Spec

\* All variables keep their types, among them sem, which a release without an
\* acquisition (queue.go:194) would take below zero.
THEOREM TypeCorrect == Spec => []TypeOK
BY PoolSafety, PTL DEF PoolInv

\* Never more than WorkerPoolSize goroutines submit, each with one slot of the
\* semaphore (queue.go:191-194).
THEOREM PoolBounded == Spec => []PoolBound
BY PoolSafety, PTL DEF PoolInv

-------------------------------------------------------------------------------
(***************************************************************************)
(* BatchBound.  Start's slice reaches the limit only on its way to         *)
(* submitItems, unless the context is done and no batch will be handed     *)
(* over any more.                                                          *)
(***************************************************************************)
SliceInv ==
  /\ pc = "unstarted" => BatchLen = 0
  /\ pc = "select" /\ ~cancelled => BatchLen < MaxBatchSize
  /\ pc \in {"check", "acquire"} => BatchLen > 0 /\ (~cancelled => BatchLen <= MaxBatchSize)
  /\ BatchBound

LEMMA SliceInit == Init => SliceInv
BY QueueAssumption DEF Init, SliceInv, BatchBound, BatchLen

LEMMA SliceStep ==
  ASSUME TypeOK, SliceInv, [Next]_vars
  PROVE  SliceInv'
<1>0. /\ BatchLen \in Nat /\ Len(batch) \in Nat /\ nils \in Nat
      /\ batchSize \in 1..MaxBatchSize /\ MaxBatchSize \in Nat \ {0}
      /\ DOMAIN batches = 1..Len(batches) /\ Len(batches) \in Nat
  BY LenProperties, QueueAssumption DEF TypeOK, BatchLen
<1> USE DEF SliceInv, BatchLen
<1>1. ASSUME NEW m \in Msgs, AddItemCheck(m) \/ AddItemDrop(m) \/ AddItemBind(m) \/ AddItemSend(m)
      PROVE  SliceInv'
  BY <1>1 DEF AddItemCheck, AddItemDrop, AddItemBind, AddItemSend, BatchBound, loopVars,
              workVars, envVars
<1>2. CASE Start
  BY <1>2, <1>0 DEF Start, BatchBound, workVars, envVars
<1>3. CASE ReceiveItem \/ ReceiveOrphan
  <2>1. pc = "select" /\ pc' = "check" /\ UNCHANGED <<nils, batches, cancelled>>
    BY <1>3 DEF ReceiveItem, ReceiveOrphan, workVars, envVars
  <2>2. Len(batch') = Len(batch) + 1
    BY <1>3, HeadTailProperties, AppendProperties DEF ReceiveItem, ReceiveOrphan, TypeOK
  <2> QED
    BY <2>1, <2>2, <1>0 DEF BatchBound
<1>4. CASE ReceiveZero
  <2>1. pc = "select" /\ pc' = "check" /\ UNCHANGED <<batch, batches, cancelled>>
        /\ nils' = nils + 1
    BY <1>4 DEF ReceiveZero, workVars, envVars
  <2> QED
    BY <2>1, <1>0 DEF BatchBound
<1>5. CASE ProcessItems
  BY <1>5, <1>0 DEF ProcessItems, BatchFull, BatchBound, workVars, envVars
<1>6. CASE CtxDone
  BY <1>6, <1>0 DEF CtxDone, BatchBound, workVars, envVars
<1>7. CASE Acquire
  <2> DEFINE b == [items |-> batch, nils |-> nils]
  <2>1. pc = "acquire" /\ pc' = "select" /\ ~cancelled /\ ~cancelled'
        /\ batches' = Append(batches, b) /\ batch' = <<>> /\ nils' = 0
    BY <1>7 DEF Acquire, HandOff, Spawn, envVars
  <2>2. b \in Batch
    BY DEF TypeOK, Batch
  <2>3. /\ Len(batches') = Len(batches) + 1
        /\ DOMAIN batches' = 1..(Len(batches) + 1)
        /\ \A i \in 1..Len(batches) : batches'[i] = batches[i]
        /\ batches'[Len(batches) + 1] = b
    BY <2>1, <2>2, AppendProperties, LenProperties DEF TypeOK
  <2>4. Len(b.items) + b.nils \in 1..MaxBatchSize
    BY <2>1, <1>0
  <2>5. BatchBound'
    <3> SUFFICES ASSUME NEW i \in DOMAIN batches'
                 PROVE  Len(batches'[i].items) + batches'[i].nils \in 1..MaxBatchSize
      BY DEF BatchBound
    <3>1. CASE i \in DOMAIN batches
      BY <3>1, <2>3, <1>0 DEF BatchBound
    <3>2. CASE i = Len(batches) + 1
      BY <3>2, <2>3, <2>4
    <3> QED
      BY <3>1, <3>2, <2>3, <1>0
  <2>6. Len(batch') + nils' = 0
    BY <2>1
  <2> QED
    BY <2>1, <2>5, <2>6, <1>0
<1>8. CASE AcquireCancelled
  BY <1>8, <1>0 DEF AcquireCancelled, BatchBound, workVars, envVars
<1>9. CASE Tick
  BY <1>9, <1>0 DEF Tick, BatchBound, workVars, envVars
<1>10. ASSUME NEW i \in running, SubmitReturns(i) \/ SubmitPanics(i)
       PROVE  SliceInv'
  BY <1>10 DEF SubmitReturns, Finish, SubmitPanics, BatchBound, loopVars, envVars
<1>11. CASE ShutdownClose \/ EmptyCount \/ EmptySwap \/ WaitReturns
  BY <1>11 DEF ShutdownClose, EmptyCount, EmptySwap, WaitReturns, BatchBound, loopVars,
               workVars, envVars
<1>12. CASE SetBatchSize
  BY <1>12 DEF SetBatchSize, BatchBound, loopVars, workVars
<1>13. CASE CancelContext
  BY <1>13, <1>0 DEF CancelContext, BatchBound, loopVars, workVars
<1>14. CASE UNCHANGED vars
  BY <1>14 DEF BatchBound, vars, loopVars, workVars, envVars
<1> QED
  BY <1>1, <1>2, <1>3, <1>4, <1>5, <1>6, <1>7, <1>8, <1>9, <1>10, <1>11, <1>12, <1>13,
     <1>14, NextActions

(***************************************************************************)
(* No goroutine gets an empty batch or one above the largest batch size,   *)
(* whatever SetBatchSize, the ticker and a closed channel do in between    *)
(* (queue.go:157-207).                                                     *)
(***************************************************************************)
THEOREM BatchesBounded == Spec => []BatchBound
<1>1. TypeOK /\ SliceInv /\ [Next]_vars => SliceInv'
  BY SliceStep
<1>2. SliceInv => BatchBound
  BY DEF SliceInv
<1> QED
  BY SliceInit, <1>1, <1>2, TypeCorrect, PTL DEF Spec

-------------------------------------------------------------------------------
(***************************************************************************)
(* NothingLost, and with it the order of the hand-over.                    *)
(***************************************************************************)
LEMMA MoveHead ==
  \A s, t, u \in Seq(Msgs) :
    u # <<>> => (s \o Append(t, Head(u))) \o Tail(u) = (s \o t) \o u
OBVIOUS

LEMMA AppendToConcat ==
  \A s, t \in Seq(Msgs), e \in Msgs : Append(s \o t, e) = s \o Append(t, e)
OBVIOUS

\* Only an abrupt Shutdown reaches Empty, and Start holds a replaced channel
\* only after that.
FifoInv ==
  /\ stop \in {"count", "swap"} \/ emptied => "abrupt" \in ShutdownModes
  /\ ~emptied => ~onOrphan
  /\ NothingLost

LEMMA FifoInit == Init => FifoInv
<1> SUFFICES ASSUME Init PROVE FifoInv
  OBVIOUS
<1>1. accepted = <<>> /\ (handed \o batch) \o buf = <<>>
  BY ConcatEmptySeq, EmptySeq DEF Init
<1> QED
  BY <1>1 DEF Init, FifoInv, NothingLost

LEMMA FifoStep ==
  ASSUME TypeOK, FifoInv, [Next]_vars
  PROVE  FifoInv'
<1>0. /\ buf \in Seq(Msgs) /\ batch \in Seq(Msgs) /\ handed \in Seq(Msgs)
      /\ accepted \in Seq(Msgs) /\ handed \o batch \in Seq(Msgs)
  BY ConcatProperties DEF TypeOK
<1>a. \A m \in Msgs : Append((handed \o batch) \o buf, m) = (handed \o batch) \o Append(buf, m)
  BY <1>0, AppendToConcat
<1>b. buf # <<>> =>
        (handed \o Append(batch, Head(buf))) \o Tail(buf) = (handed \o batch) \o buf
  BY <1>0, MoveHead
<1> USE DEF FifoInv, NothingLost
<1>1. ASSUME UNCHANGED <<buf, onOrphan, batch, stop, emptied, accepted, handed>>
      PROVE  FifoInv'
  BY <1>1
<1>2. ASSUME NEW m \in Msgs, AddItemCheck(m) \/ AddItemDrop(m) \/ AddItemBind(m)
      PROVE  FifoInv'
  BY <1>1, <1>2 DEF AddItemCheck, AddItemDrop, AddItemBind, chanVars, loopVars, stopVars,
                    histVars
<1>3. ASSUME NEW m \in Msgs, AddItemSend(m)
      PROVE  FifoInv'
  <2>1. Append((handed \o batch) \o buf, m) = (handed \o batch) \o Append(buf, m)
    BY <1>a
  <2>2. /\ accepted' = Append(accepted, m) /\ buf' = Append(buf, m)
        /\ UNCHANGED <<onOrphan, batch, stop, emptied, handed>>
    BY <1>3 DEF AddItemSend, loopVars, stopVars
  <2> QED
    BY <2>1, <2>2
<1>4. CASE Start \/ ReceiveZero \/ ProcessItems \/ CtxDone \/ AcquireCancelled \/ Tick
  <2>1. /\ buf' = buf /\ batch' = batch /\ stop' = stop /\ emptied' = emptied
        /\ accepted' = accepted /\ handed' = handed
    <3>1. CASE Start \/ ProcessItems
      BY <3>1 DEF Start, ProcessItems, chanVars, stopVars, histVars
    <3>2. CASE CtxDone \/ AcquireCancelled
      BY <3>2 DEF CtxDone, AcquireCancelled, chanVars, stopVars, histVars
    <3>3. CASE ReceiveZero \/ Tick
      BY <3>3 DEF ReceiveZero, Tick, stopVars, histVars
    <3> QED
      BY <1>4, <3>1, <3>2, <3>3
  <2>2. onOrphan' = onOrphan \/ onOrphan' = FALSE
    BY <1>4 DEF Start, ReceiveZero, ProcessItems, CtxDone, AcquireCancelled, Tick, chanVars
  <2>3. ~emptied => ~onOrphan'
    BY <2>2
  <2> QED
    BY <2>1, <2>3
<1>5. CASE ReceiveItem
  <2>1. (handed \o Append(batch, Head(buf))) \o Tail(buf) = (handed \o batch) \o buf
    BY <1>5, <1>b DEF ReceiveItem
  <2>2. /\ batch' = Append(batch, Head(buf)) /\ buf' = Tail(buf)
        /\ UNCHANGED <<onOrphan, stop, emptied, accepted, handed>>
    BY <1>5 DEF ReceiveItem, stopVars, histVars
  <2> QED
    BY <2>1, <2>2
<1>6. CASE ReceiveOrphan
  BY <1>6 DEF ReceiveOrphan, stopVars
<1>7. CASE Acquire
  <2>1. (handed \o batch) \o <<>> = handed \o batch
    BY <1>0, ConcatEmptySeq
  <2> QED
    BY <1>7, <2>1 DEF Acquire, HandOff, Spawn, chanVars, stopVars
<1>8. ASSUME NEW i \in running, SubmitReturns(i) \/ SubmitPanics(i)
      PROVE  FifoInv'
  BY <1>1, <1>8 DEF SubmitReturns, Finish, SubmitPanics, chanVars, loopVars, stopVars,
                    histVars
<1>9. CASE ShutdownClose
  BY <1>9 DEF ShutdownClose, Close, loopVars, histVars
<1>10. CASE EmptyCount \/ WaitReturns
  <2>1. /\ \/ stop = "count" /\ stop' = "swap"
           \/ stop = "wait" /\ stop' = "done"
        /\ UNCHANGED <<buf, onOrphan, batch, emptied, accepted, handed>>
    BY <1>10 DEF EmptyCount, WaitReturns, chanVars, loopVars, histVars
  <2> QED
    BY <2>1
<1>11. CASE EmptySwap
  BY <1>11 DEF EmptySwap
<1>12. CASE SetBatchSize \/ CancelContext
  BY <1>1, <1>12 DEF SetBatchSize, CancelContext, chanVars, loopVars, stopVars, histVars
<1>13. CASE UNCHANGED vars
  BY <1>1, <1>13 DEF vars, chanVars, loopVars, stopVars, histVars
<1> QED
  BY <1>2, <1>3, <1>4, <1>5, <1>6, <1>7, <1>8, <1>9, <1>10, <1>11, <1>12, <1>13, NextActions

(***************************************************************************)
(* Until Empty replaces the channel, what the channel took is what was     *)
(* handed to Submit, then Start's slice, then the buffer, in that order.   *)
(***************************************************************************)
THEOREM FifoSafety == Spec => []FifoInv
<1>1. TypeOK /\ FifoInv /\ [Next]_vars => FifoInv'
  BY FifoStep
<1> QED
  BY FifoInit, <1>1, TypeCorrect, PTL DEF Spec

\* No message the channel took is lost, repeated or overtaken (queue.go:133-207).
THEOREM NothingIsLost == Spec => []NothingLost
<1>1. FifoInv => NothingLost
  BY DEF FifoInv
<1> QED
  BY <1>1, FifoSafety, PTL

-------------------------------------------------------------------------------
(***************************************************************************)
(* A queue that is not emptied implements BatchingFifo.  A step of the     *)
(* queue maps to the acceptance of a message (its send), to the hand-over  *)
(* of the slice, or to nothing.                                            *)
(***************************************************************************)
\* A message on the channel belongs to a call of AddItem that has returned.
AcceptedInv == \A k \in DOMAIN accepted : stage[accepted[k]] = "queued"

LEMMA AcceptedStep ==
  ASSUME TypeOK, AcceptedInv, [Next]_vars
  PROVE  AcceptedInv'
<1>0. /\ accepted \in Seq(Msgs) /\ stage \in [Msgs -> Stages]
      /\ \A k \in DOMAIN accepted : accepted[k] \in Msgs
  BY DEF TypeOK
<1>1. ASSUME UNCHANGED <<stage, accepted>> PROVE AcceptedInv'
  BY <1>1 DEF AcceptedInv
<1>2. ASSUME NEW m \in Msgs, AddItemCheck(m) \/ AddItemDrop(m) \/ AddItemBind(m)
      PROVE  AcceptedInv'
  <2>1. PICK e : stage' = [stage EXCEPT ![m] = e]
    BY <1>2 DEF AddItemCheck, AddItemDrop, AddItemBind
  <2>2. stage[m] # "queued" /\ accepted' = accepted
    BY <1>2 DEF AddItemCheck, AddItemDrop, AddItemBind, histVars
  <2>3. \A n \in Msgs \ {m} : stage'[n] = stage[n]
    BY <1>0, <2>1
  <2> QED
    BY <1>0, <2>2, <2>3 DEF AcceptedInv
<1>3. ASSUME NEW m \in Msgs, AddItemSend(m) PROVE AcceptedInv'
  <2>1. /\ stage' = [stage EXCEPT ![m] = "queued"]
        /\ accepted' = Append(accepted, m)
    BY <1>3 DEF AddItemSend
  <2>2. \A k \in DOMAIN accepted' :
          \/ accepted'[k] = m
          \/ k \in DOMAIN accepted /\ accepted'[k] = accepted[k]
    BY <1>0, <2>1
  <2> QED
    BY <1>0, <2>1, <2>2 DEF AcceptedInv
<1>4. CASE ShutdownClose
  <2>1. /\ accepted' = accepted
        /\ \A n \in Msgs : stage[n] = "queued" => stage'[n] = "queued"
    BY <1>4 DEF ShutdownClose, Close, histVars
  <2> QED
    BY <1>0, <2>1 DEF AcceptedInv
<1>5. CASE \/ Start \/ ReceiveItem \/ ReceiveOrphan \/ ReceiveZero
           \/ ProcessItems \/ CtxDone \/ Acquire \/ AcquireCancelled \/ Tick
           \/ EmptyCount \/ EmptySwap \/ WaitReturns \/ SetBatchSize \/ CancelContext
  BY <1>1, <1>5 DEF Start, ReceiveItem, ReceiveOrphan, ReceiveZero, ProcessItems, CtxDone,
     Acquire, HandOff, Spawn, AcquireCancelled, Tick, EmptyCount, EmptySwap, WaitReturns,
     SetBatchSize, CancelContext, addVars, histVars
<1>6. ASSUME NEW i \in running, SubmitReturns(i) \/ SubmitPanics(i)
      PROVE  AcceptedInv'
  BY <1>1, <1>6 DEF SubmitReturns, Finish, SubmitPanics, addVars, histVars
<1>7. CASE UNCHANGED vars
  BY <1>1, <1>7 DEF vars, addVars, histVars
<1> QED
  BY <1>2, <1>3, <1>4, <1>5, <1>6, <1>7, NextActions

LEMMA AcceptedSafety == Spec => []AcceptedInv
<1>1. Init => AcceptedInv
  BY DEF Init, AcceptedInv
<1>2. TypeOK /\ AcceptedInv /\ [Next]_vars => AcceptedInv'
  BY AcceptedStep
<1> QED
  BY <1>1, <1>2, TypeCorrect, PTL DEF Spec

LEMMA SliceAndBuffer ==
  \A s, t \in Seq(Msgs) :
    /\ SubSeq(s \o t, 1, Len(s)) = s
    /\ SubSeq(s \o t, Len(s) + 1, Len(s \o t)) = t
    /\ Len(s) <= Len(s \o t)
OBVIOUS

LEMMA MoveHeadOnce ==
  \A t, u \in Seq(Msgs) : u # <<>> => Append(t, Head(u)) \o Tail(u) = t \o u
OBVIOUS

LEMMA ConcatAssoc ==
  \A s, t, u \in Seq(Msgs) : (s \o t) \o u = s \o (t \o u)
OBVIOUS

LEMMA FifoRefinementStep ==
  ASSUME "abrupt" \notin ShutdownModes, TypeOK, SliceInv, FifoInv, AcceptedInv, [Next]_vars
  PROVE  [Fifo!Next]_(Fifo!vars)
<1>0. /\ buf \in Seq(Msgs) /\ batch \in Seq(Msgs) /\ handed \in Seq(Msgs)
      /\ accepted \in Seq(Msgs)
  BY DEF TypeOK
<1>1. ~emptied /\ ~onOrphan /\ stop \notin {"count", "swap"}
  BY DEF FifoInv
<1>2. ASSUME UNCHANGED <<buf, batch, handed, cancelled>> PROVE [Fifo!Next]_(Fifo!vars)
  BY <1>2 DEF Fifo!vars
<1>3. ASSUME NEW m \in Msgs, AddItemCheck(m) \/ AddItemDrop(m) \/ AddItemBind(m)
      PROVE  [Fifo!Next]_(Fifo!vars)
  BY <1>2, <1>3 DEF AddItemCheck, AddItemDrop, AddItemBind, chanVars, loopVars, envVars,
                    histVars
<1>4. ASSUME NEW m \in Msgs, AddItemSend(m)
      PROVE  [Fifo!Next]_(Fifo!vars)
  <2>1. /\ stage[m] = "sending" /\ buf' = Append(buf, m)
        /\ batch' = batch /\ handed' = handed /\ cancelled' = cancelled
    BY <1>4 DEF AddItemSend, loopVars, envVars
  <2>2. handed \o (batch \o buf) = accepted
    BY <1>0, <1>1, ConcatAssoc DEF FifoInv, NothingLost
  <2>3. m \notin Fifo!Taken
    BY <2>1, <2>2 DEF Fifo!Taken, AcceptedInv
  <2>4. (batch \o buf)' = Append(batch \o buf, m)
    BY <1>0, <2>1, AppendToConcat
  <2>5. Fifo!Accept(m)
    BY <2>1, <2>3, <2>4 DEF Fifo!Accept
  <2> QED
    BY <2>5 DEF Fifo!Next
<1>5. CASE ReceiveItem
  <2>1. /\ buf # <<>> /\ batch' = Append(batch, Head(buf)) /\ buf' = Tail(buf)
        /\ handed' = handed /\ cancelled' = cancelled
    BY <1>5 DEF ReceiveItem, envVars, histVars
  <2>2. (batch \o buf)' = batch \o buf
    BY <1>0, <2>1, MoveHeadOnce
  <2> QED
    BY <2>1, <2>2 DEF Fifo!vars
<1>6. CASE Acquire
  <2>1. /\ batch' = <<>> /\ buf' = buf /\ handed' = handed \o batch
        /\ pc = "acquire" /\ ~cancelled /\ cancelled' = cancelled
    BY <1>6 DEF Acquire, HandOff, Spawn, chanVars, envVars
  <2>2. /\ SubSeq(batch \o buf, 1, Len(batch)) = batch
        /\ SubSeq(batch \o buf, Len(batch) + 1, Len(batch \o buf)) = buf
        /\ Len(batch) <= Len(batch \o buf)
    BY <1>0, SliceAndBuffer
  <2>3. (batch \o buf)' = buf
    BY <1>0, <2>1, ConcatEmptySeq
  <2>4. Fifo!HandOver(Len(batch))
    BY <2>1, <2>2, <2>3 DEF Fifo!HandOver
  <2>5. Len(batch) \in Nat /\ nils \in Nat /\ Len(batch) <= MaxBatchSize
    BY <1>0, <2>1, QueueAssumption DEF SliceInv, BatchLen, TypeOK
  <2>6. CASE Len(batch) = 0
    <3>1. batch = <<>>
      BY <1>0, <2>6
    <3>2. handed \o batch = handed /\ batch \o buf = buf
      BY <1>0, <3>1
    <3> QED
      BY <2>1, <2>3, <3>2 DEF Fifo!vars
  <2>7. CASE Len(batch) # 0
    <3>1. Len(batch) \in 1..MaxBatchSize
      BY <2>5, <2>7, QueueAssumption
    <3> QED
      BY <2>4, <3>1 DEF Fifo!Next, Fifo!Hand
  <2> QED
    BY <2>6, <2>7
<1>7. CASE ReceiveOrphan \/ EmptySwap
  BY <1>1, <1>7 DEF ReceiveOrphan, EmptySwap
<1>8. CASE \/ Start \/ ReceiveZero \/ ProcessItems \/ CtxDone \/ AcquireCancelled \/ Tick
           \/ ShutdownClose \/ EmptyCount \/ WaitReturns \/ SetBatchSize
  BY <1>2, <1>8 DEF Start, ReceiveZero, ProcessItems, CtxDone, AcquireCancelled, Tick,
     ShutdownClose, EmptyCount, WaitReturns, SetBatchSize, chanVars, loopVars, envVars,
     histVars
<1>9. ASSUME NEW i \in running, SubmitReturns(i) \/ SubmitPanics(i)
      PROVE  [Fifo!Next]_(Fifo!vars)
  BY <1>2, <1>9 DEF SubmitReturns, Finish, SubmitPanics, chanVars, loopVars, envVars,
                    histVars
<1>10. CASE CancelContext
  <2>1. ~cancelled /\ cancelled' = TRUE /\ UNCHANGED <<buf, batch, handed>>
    BY <1>10 DEF CancelContext, chanVars, loopVars, histVars
  <2>2. Fifo!End
    BY <2>1 DEF Fifo!End
  <2> QED
    BY <2>2 DEF Fifo!Next
<1>11. CASE UNCHANGED vars
  BY <1>2, <1>11 DEF vars, chanVars, loopVars, envVars, histVars
<1> QED
  BY <1>3, <1>4, <1>5, <1>6, <1>7, <1>8, <1>9, <1>10, <1>11, NextActions

(***************************************************************************)
(* Unless Shutdown empties it, the queue hands every message it takes over *)
(* once, in order, in batches of at most MaxBatchSize (queue.go:133-207).  *)
(***************************************************************************)
THEOREM QueueImplementsFifo == "abrupt" \notin ShutdownModes => (Spec => ImplementsFifo)
<1> SUFFICES ASSUME "abrupt" \notin ShutdownModes PROVE Spec => ImplementsFifo
  OBVIOUS
<1>1. Init => Fifo!Init
  BY DEF Init, Fifo!Init
<1>2. TypeOK /\ SliceInv /\ FifoInv /\ AcceptedInv /\ [Next]_vars => [Fifo!Next]_(Fifo!vars)
  BY FifoRefinementStep
<1>3. TypeOK /\ SliceInv /\ [Next]_vars => SliceInv'
  BY SliceStep
<1> QED
  BY SliceInit, <1>1, <1>2, <1>3, TypeCorrect, FifoSafety, AcceptedSafety, PTL
     DEF Spec, ImplementsFifo, Fifo!Spec
===============================================================================
