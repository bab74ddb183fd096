----------------------- MODULE EventQueueShutdownProofs ------------------------
(***************************************************************************)
(* What a Shutdown of the queue, gentle or abrupt, does to the messages:   *)
(* where Empty cuts, what it counts, and which batch a nil message spoils; *)
(* and that the producers see the queue of EventIntake in all of it; for   *)
(* every value of the constants.                                           *)
(***************************************************************************)
EXTENDS FilterQueue, EventQueueProofs

(***************************************************************************)
(* The channel around Close and Empty.                                     *)
(***************************************************************************)
\* Nobody waits on a closed channel, and it stays closed until Empty replaces
\* it, so that the buffer does not grow after Empty has looked at its length.
ChannelInv ==
  /\ closed => \A m \in Msgs : stage[m] # "sending"
  /\ stop \in {"count", "swap"} => closed
  /\ stop = "swap" => Len(buf) <= numDropped
  /\ stop \in {"idle", "count", "swap"} => ~emptied
  /\ ~emptied => orphan = <<>>
  /\ onOrphan => pc \in {"select", "exited"}

LEMMA ChannelStep ==
  ASSUME TypeOK, FifoInv, ChannelInv, [Next]_vars
  PROVE  ChannelInv'
<1> USE DEF ChannelInv
<1>0. buf \in Seq(Msgs) /\ orphan \in Seq(Msgs) /\ stage \in [Msgs -> Stages]
      /\ numDropped \in Nat
  BY DEF TypeOK
<1>1. ASSUME UNCHANGED <<stage, chanVars, pc, stopVars>> PROVE ChannelInv'
  BY <1>1 DEF chanVars, stopVars
<1>2. ASSUME NEW m \in Msgs, AddItemCheck(m) \/ AddItemDrop(m) \/ AddItemBind(m)
      PROVE  ChannelInv'
  BY <1>0, <1>2 DEF AddItemCheck, AddItemDrop, AddItemBind, chanVars, loopVars, stopVars
<1>3. ASSUME NEW m \in Msgs, AddItemSend(m)
      PROVE  ChannelInv'
  <2>1. ~closed /\ stop \notin {"count", "swap"}
    BY <1>3 DEF AddItemSend
  <2> QED
    BY <1>3, <2>1 DEF AddItemSend, loopVars, stopVars
<1>4. CASE Start \/ ProcessItems \/ Acquire \/ AcquireCancelled \/ CtxDone
  BY <1>4 DEF Start, ProcessItems, Acquire, HandOff, AcquireCancelled, CtxDone, addVars,
     chanVars, stopVars
<1>5. CASE ReceiveItem
  <2>1. buf # <<>> /\ buf' = Tail(buf) /\ ~onOrphan
    BY <1>5 DEF ReceiveItem
  <2>2. Len(buf') <= Len(buf) /\ Len(buf') \in Nat /\ Len(buf) \in Nat
    BY <1>0, <2>1
  <2> QED
    BY <1>0, <1>5, <2>1, <2>2 DEF ReceiveItem, addVars, stopVars
<1>6. CASE ReceiveOrphan \/ ReceiveZero \/ Tick
  BY <1>6 DEF ReceiveOrphan, ReceiveZero, Tick, addVars, stopVars
<1>7. ASSUME NEW i \in running, SubmitReturns(i) \/ SubmitPanics(i)
      PROVE  ChannelInv'
  BY <1>1, <1>7 DEF SubmitReturns, Finish, SubmitPanics, addVars, loopVars
<1>8. CASE ShutdownClose
  BY <1>0, <1>8 DEF ShutdownClose, Close, loopVars
<1>9. CASE EmptyCount
  <2>1. Len(buf) \in Nat
    BY <1>0
  <2> QED
    BY <1>9, <2>1 DEF EmptyCount, addVars, chanVars, loopVars
<1>10. CASE EmptySwap
  BY <1>10 DEF EmptySwap, loopVars
<1>11. CASE WaitReturns
  BY <1>11 DEF WaitReturns, addVars, chanVars, loopVars
<1>12. CASE SetBatchSize \/ CancelContext \/ UNCHANGED vars
  BY <1>1, <1>12 DEF SetBatchSize, CancelContext, addVars, loopVars, vars
<1> QED
  BY <1>2, <1>3, <1>4, <1>5, <1>6, <1>7, <1>8, <1>9, <1>10, <1>11, <1>12, NextActions

LEMMA ChannelSafety == Spec => []ChannelInv
<1>1. Init => ChannelInv
  BY DEF Init, ChannelInv
<1> QED
  BY <1>1, ChannelStep, TypeCorrect, FifoSafety, PTL DEF Spec

-------------------------------------------------------------------------------
(***************************************************************************)
(* The counter.                                                            *)
(***************************************************************************)
Refused == {m \in Msgs : stage[m] = "dropped"}

CountInv ==
  /\ IsFiniteSet(Refused)
  /\ Cardinality(Refused) + Len(orphan) <= dropped

LEMMA CountStep ==
  ASSUME TypeOK, ChannelInv, CountInv, [Next]_vars
  PROVE  CountInv'
<1> USE DEF CountInv
<1>0. /\ orphan \in Seq(Msgs) /\ Len(orphan) \in Nat /\ dropped \in Nat
      /\ buf \in Seq(Msgs) /\ stage \in [Msgs -> Stages] /\ numDropped \in Nat
      /\ Cardinality(Refused) \in Nat
  BY FS_CardinalityType DEF TypeOK
<1>1. ASSUME Refused' = Refused, UNCHANGED <<orphan, dropped>> PROVE CountInv'
  BY <1>1
<1>2. ASSUME NEW m \in Msgs, AddItemCheck(m) \/ AddItemBind(m) \/ AddItemSend(m)
      PROVE  CountInv'
  BY <1>0, <1>1, <1>2 DEF AddItemCheck, AddItemBind, AddItemSend, chanVars, Refused
<1>3. ASSUME NEW m \in Msgs, AddItemDrop(m)
      PROVE  CountInv'
  <2>1. Refused' = Refused \cup {m} /\ m \notin Refused /\ dropped' = dropped + 1
        /\ orphan' = orphan
    BY <1>0, <1>3 DEF AddItemDrop, Refused, chanVars
  <2>2. IsFiniteSet(Refused') /\ Cardinality(Refused') = Cardinality(Refused) + 1
    BY <2>1, FS_AddElement
  <2> QED
    BY <1>0, <2>1, <2>2
<1>4. CASE ReceiveOrphan
  <2>1. /\ orphan # <<>> /\ orphan' = Tail(orphan) /\ UNCHANGED <<stage, dropped>>
    BY <1>4 DEF ReceiveOrphan, addVars
  <2>2. Len(orphan') = Len(orphan) - 1
    BY <1>0, <2>1
  <2>3. Refused' = Refused
    BY <2>1 DEF Refused
  <2> QED
    BY <1>0, <2>1, <2>2, <2>3
<1>5. CASE ShutdownClose
  BY <1>0, <1>1, <1>5 DEF ShutdownClose, Close, Refused
<1>6. CASE EmptySwap
  <2>1. /\ orphan' = buf /\ dropped' = dropped + numDropped /\ stage' = stage
        /\ Len(buf) <= numDropped /\ orphan = <<>>
    BY <1>6 DEF EmptySwap, ChannelInv
  <2>2. Refused' = Refused /\ Len(orphan) = 0 /\ Len(buf) \in Nat
    BY <1>0, <2>1 DEF Refused
  <2> QED
    BY <1>0, <2>1, <2>2
<1>7. CASE \/ Start \/ ReceiveItem \/ ReceiveZero \/ ProcessItems \/ CtxDone \/ Acquire
           \/ AcquireCancelled \/ Tick \/ EmptyCount \/ WaitReturns \/ SetBatchSize
           \/ CancelContext \/ UNCHANGED vars
  <2>1. UNCHANGED <<stage, orphan, dropped>>
    BY <1>7 DEF Start, ReceiveItem, ReceiveZero, ProcessItems, CtxDone, Acquire,
       AcquireCancelled, Tick, EmptyCount, WaitReturns, SetBatchSize, CancelContext, vars,
       addVars, chanVars
  <2> QED
    BY <1>1, <2>1 DEF Refused
<1>8. ASSUME NEW i \in running, SubmitReturns(i) \/ SubmitPanics(i)
      PROVE  CountInv'
  BY <1>1, <1>8 DEF SubmitReturns, Finish, SubmitPanics, addVars, chanVars, Refused
<1> QED
  BY <1>2, <1>3, <1>4, <1>5, <1>6, <1>7, <1>8, NextActions

\* DroppedItems covers what AddItem refused and what Empty threw away, though
\* Empty counts in one step and replaces in another (queue.go:119-121): the
\* channel is closed in between.
THEOREM EmptyCountsAll == Spec => []EmptyNeverUndercounts
<1>1. Init => CountInv
  <2>1. ASSUME Init PROVE Refused = {} /\ Len(orphan) = 0 /\ dropped = 0
    BY <2>1 DEF Init, Refused
  <2> QED
    BY <2>1, FS_EmptySet DEF CountInv
<1>2. TypeOK /\ CountInv => EmptyNeverUndercounts
  BY FS_CardinalityType DEF TypeOK, CountInv, EmptyNeverUndercounts, Refused
<1> QED
  BY <1>1, <1>2, CountStep, TypeCorrect, ChannelSafety, PTL DEF Spec

-------------------------------------------------------------------------------
(***************************************************************************)
(* Nil messages.                                                           *)
(***************************************************************************)
Poisoned == \E i \in DOMAIN batches : batches[i].nils > 0

PoisonInv ==
  ~emptied =>
    /\ nils > 0 \/ Poisoned => closed /\ buf = <<>>
    /\ Poisoned => batch = <<>>
    /\ OnlyLastBatchPoisoned

LEMMA PoisonStep ==
  ASSUME TypeOK, FifoInv, ChannelInv, PoisonInv, [Next]_vars
  PROVE  PoisonInv'
<1> USE DEF PoisonInv
<1>0. /\ batches \in Seq(Batch) /\ Len(batches) \in Nat /\ DOMAIN batches = 1..Len(batches)
      /\ nils \in Nat
  BY DEF TypeOK
<1>1. ASSUME UNCHANGED <<buf, closed, batch, nils, batches, emptied>> PROVE PoisonInv'
  BY <1>1 DEF Poisoned, OnlyLastBatchPoisoned
<1>2. ASSUME NEW m \in Msgs, AddItemCheck(m) \/ AddItemDrop(m) \/ AddItemBind(m)
      PROVE  PoisonInv'
  BY <1>1, <1>2 DEF AddItemCheck, AddItemDrop, AddItemBind, chanVars, loopVars, workVars,
     stopVars
<1>3. ASSUME NEW m \in Msgs, AddItemSend(m)
      PROVE  PoisonInv'
  <2>1. ~closed /\ UNCHANGED <<closed, batch, nils, batches, emptied>>
    BY <1>3 DEF AddItemSend, ChannelInv, loopVars, workVars, stopVars
  <2> QED
    BY <2>1 DEF Poisoned, OnlyLastBatchPoisoned
<1>4. CASE Start \/ ProcessItems \/ CtxDone \/ AcquireCancelled \/ Tick
  BY <1>1, <1>4 DEF Start, ProcessItems, CtxDone, AcquireCancelled, Tick, chanVars, workVars,
     stopVars
<1>5. CASE ReceiveItem
  <2>1. buf # <<>> /\ UNCHANGED <<closed, nils, batches, emptied>>
    BY <1>5 DEF ReceiveItem, workVars, stopVars
  <2> QED
    BY <2>1 DEF Poisoned, OnlyLastBatchPoisoned
<1>6. CASE ReceiveOrphan
  BY <1>6 DEF ReceiveOrphan, FifoInv, stopVars
<1>7. CASE ReceiveZero
  <2>1. /\ ~onOrphan => closed /\ buf = <<>>
        /\ UNCHANGED <<buf, closed, batch, batches, emptied>>
    BY <1>7 DEF ReceiveZero, workVars, stopVars
  <2> QED
    BY <2>1 DEF FifoInv, Poisoned, OnlyLastBatchPoisoned
<1>8. CASE Acquire
  <2>1. /\ batches' = Append(batches, [items |-> batch, nils |-> nils])
        /\ batch' = <<>> /\ nils' = 0 /\ UNCHANGED <<buf, closed, emptied>>
    BY <1>8 DEF Acquire, HandOff, Spawn, chanVars, stopVars
  <2>2. /\ DOMAIN batches' = 1..(Len(batches) + 1)
        /\ \A i \in DOMAIN batches : batches'[i] = batches[i]
        /\ \A i \in DOMAIN batches' : i \notin DOMAIN batches =>
             i = Len(batches) + 1 /\ batches'[i].items = batch /\ batches'[i].nils = nils
    BY <1>0, <2>1
  <2>3. Poisoned' => Poisoned \/ nils > 0
    BY <2>2 DEF Poisoned
  <2>4. ASSUME ~emptied,
               NEW i \in DOMAIN batches', NEW j \in DOMAIN batches',
               i < j, batches'[i].nils > 0
        PROVE  batches'[j].items = <<>>
    <3>1. i \in DOMAIN batches /\ batches[i].nils > 0
      BY <1>0, <2>2, <2>4
    <3>2. CASE j \in DOMAIN batches
      BY <2>2, <2>4, <3>1, <3>2 DEF OnlyLastBatchPoisoned
    <3>3. CASE j \notin DOMAIN batches
      BY <2>2, <2>4, <3>1, <3>3 DEF Poisoned
    <3> QED
      BY <3>2, <3>3
  <2>5. ~emptied => OnlyLastBatchPoisoned'
    BY <2>4 DEF OnlyLastBatchPoisoned
  <2> QED
    BY <2>1, <2>3, <2>5
<1>9. ASSUME NEW i \in running, SubmitReturns(i) \/ SubmitPanics(i)
      PROVE  PoisonInv'
  BY <1>1, <1>9 DEF SubmitReturns, Finish, SubmitPanics, chanVars, loopVars, stopVars
<1>10. CASE ShutdownClose
  <2>1. closed' = TRUE /\ UNCHANGED <<buf, batch, nils, batches, emptied>>
    BY <1>10 DEF ShutdownClose, Close, loopVars, workVars
  <2> QED
    BY <2>1 DEF Poisoned, OnlyLastBatchPoisoned
<1>11. CASE EmptySwap
  BY <1>11 DEF EmptySwap
<1>12. CASE EmptyCount \/ WaitReturns
  BY <1>1, <1>12 DEF EmptyCount, WaitReturns, chanVars, loopVars, workVars
<1>13. CASE SetBatchSize \/ CancelContext \/ UNCHANGED vars
  BY <1>1, <1>13 DEF SetBatchSize, CancelContext, vars, chanVars, loopVars, workVars, stopVars
<1> QED
  BY <1>2, <1>3, <1>4, <1>5, <1>6, <1>7, <1>8, <1>9, <1>10, <1>11, <1>12, <1>13, NextActions

\* Unless Empty puts a new channel in place of the closed one, no message is
\* in a batch behind the first that holds a nil: the panic that follows costs
\* at most one batch (queue.go:111-114, 162-176).
THEOREM OneBatchIsSpoiled == Spec => []OnlyLastBatchPoisoned
<1>1. Init => PoisonInv
  BY DEF Init, PoisonInv, Poisoned, OnlyLastBatchPoisoned
<1>2. PoisonInv => OnlyLastBatchPoisoned
  BY DEF PoisonInv, OnlyLastBatchPoisoned
<1> QED
  BY <1>1, <1>2, PoisonStep, TypeCorrect, FifoSafety, ChannelSafety, PTL DEF Spec

-------------------------------------------------------------------------------
(***************************************************************************)
(* What Empty discards.                                                    *)
(***************************************************************************)
\* The messages Start has received are those before the discarded block and
\* those behind it.
Cut(p, q) ==
  /\ handed \o batch = p \o q
  /\ accepted = ((p \o orphan) \o q) \o buf
  /\ onOrphan => q = <<>>

BlockInv == \E p, q \in Seq(Msgs) : Cut(p, q)

LEMMA BlockStep ==
  ASSUME TypeOK, FifoInv, ChannelInv, BlockInv, [Next]_vars
  PROVE  BlockInv'
<1>0. /\ buf \in Seq(Msgs) /\ batch \in Seq(Msgs) /\ handed \in Seq(Msgs)
      /\ accepted \in Seq(Msgs) /\ orphan \in Seq(Msgs)
  BY DEF TypeOK
<1>1. PICK p \in Seq(Msgs), q \in Seq(Msgs) : Cut(p, q)
  BY DEF BlockInv
<1>2. p \o orphan \in Seq(Msgs) /\ (p \o orphan) \o q \in Seq(Msgs) /\ <<>> \in Seq(Msgs)
  BY <1>0
<1>3. ASSUME UNCHANGED <<buf, orphan, handed, batch, accepted>>, onOrphan' => onOrphan
      PROVE  BlockInv'
  BY <1>1, <1>3 DEF Cut, BlockInv
<1>4. ASSUME NEW m \in Msgs, AddItemSend(m)
      PROVE  BlockInv'
  <2>1. /\ buf' = Append(buf, m) /\ accepted' = Append(accepted, m)
        /\ UNCHANGED <<orphan, onOrphan, batch, handed>>
    BY <1>4 DEF AddItemSend, loopVars
  <2>2. accepted' = ((p \o orphan) \o q) \o Append(buf, m)
    <3>1. buf \in Seq(Msgs)
      BY <1>0
    <3>2. Append(((p \o orphan) \o q) \o buf, m) = ((p \o orphan) \o q) \o Append(buf, m)
      BY <1>2, <3>1, AppendToConcat, Zenon
    <3> QED
      BY <1>1, <2>1, <3>2 DEF Cut
  <2>3. Cut(p, q)'
    BY <1>1, <2>1, <2>2 DEF Cut
  <2> QED
    BY <2>3 DEF BlockInv
<1>5. CASE ReceiveItem
  <2> DEFINE r == Append(q, Head(buf))
  <2>1. /\ buf # <<>> /\ buf' = Tail(buf) /\ batch' = Append(batch, Head(buf)) /\ ~onOrphan
        /\ UNCHANGED <<orphan, onOrphan, handed, accepted>>
    BY <1>5 DEF ReceiveItem, histVars
  <2>2. Head(buf) \in Msgs /\ r \in Seq(Msgs)
    BY <1>0, <2>1
  <2>3. handed \o batch' = p \o r
    <3>1. handed \o batch' = Append(handed \o batch, Head(buf))
      BY <1>0, <2>1, <2>2, AppendToConcat
    <3>2. p \o r = Append(p \o q, Head(buf))
      BY <2>2, AppendToConcat
    <3> QED
      BY <1>1, <3>1, <3>2 DEF Cut
  <2>4. accepted = ((p \o orphan) \o r) \o Tail(buf)
    <3>1. PICK x \in Seq(Msgs) : x = p \o orphan
      BY <1>2
    <3>2. buf \in Seq(Msgs) /\ buf # <<>>
      BY <1>0, <2>1
    <3>3. (x \o Append(q, Head(buf))) \o Tail(buf) = (x \o q) \o buf
      BY <3>2, MoveHead, Zenon
    <3> QED
      BY <1>1, <3>1, <3>3 DEF Cut
  <2>5. handed' \o batch' = p \o r /\ accepted' = ((p \o orphan') \o r) \o buf' /\ ~onOrphan'
    BY <2>1, <2>3, <2>4
  <2>6. PICK s \in Seq(Msgs) : s = r
    BY <2>2
  <2>7. Cut(p, s)'
    BY <2>5, <2>6 DEF Cut
  <2> QED
    BY <2>7 DEF BlockInv
<1>6. CASE ReceiveOrphan
  <2>1. /\ orphan # <<>> /\ orphan' = Tail(orphan) /\ batch' = Append(batch, Head(orphan))
        /\ onOrphan /\ ~onOrphan' /\ UNCHANGED <<buf, handed, accepted>>
    BY <1>6 DEF ReceiveOrphan, histVars
  <2>2. q = <<>> /\ Head(orphan) \in Msgs
    BY <1>0, <1>1, <2>1 DEF Cut
  <2>9. Append(p, Head(orphan)) \in Seq(Msgs)
    BY <2>2
  <2>3. PICK s \in Seq(Msgs) : s = Append(p, Head(orphan))
    BY <2>9
  <2>4. handed \o batch' = s
    <3>1. handed \o batch = p
      BY <1>0, <1>1, <2>2 DEF Cut
    <3>2. batch \in Seq(Msgs) /\ handed \in Seq(Msgs) /\ Head(orphan) \in Msgs
      BY <1>0, <2>2
    <3>3. Append(handed \o batch, Head(orphan)) = handed \o Append(batch, Head(orphan))
      BY <3>2, AppendToConcat, Zenon
    <3> QED
      BY <2>1, <2>3, <3>1, <3>3
  <2>5. s \o Tail(orphan) = p \o orphan
    BY <1>0, <2>1, <2>3, MoveHeadOnce
  <2>6. s \o <<>> = s
    OBVIOUS
  <2>7. Cut(s, <<>>)'
    BY <1>1, <2>1, <2>2, <2>4, <2>5, <2>6 DEF Cut
  <2> QED
    BY <1>2, <2>7 DEF BlockInv
<1>7. CASE Acquire
  <2>1. /\ handed' = handed \o batch /\ batch' = <<>>
        /\ UNCHANGED <<buf, orphan, onOrphan, accepted>>
    BY <1>7 DEF Acquire, HandOff, Spawn, chanVars
  <2>2. (handed \o batch) \o <<>> = handed \o batch
    BY <1>0, ConcatProperties, ConcatEmptySeq
  <2>3. Cut(p, q)'
    BY <1>1, <2>1, <2>2 DEF Cut
  <2> QED
    BY <2>3 DEF BlockInv
<1>8. CASE EmptySwap
  <2>1. /\ orphan' = buf /\ buf' = <<>> /\ UNCHANGED <<batch, handed, accepted>>
    BY <1>8 DEF EmptySwap, loopVars, histVars
  <2>2. accepted = (handed \o batch) \o buf
    BY <1>8 DEF EmptySwap, ChannelInv, FifoInv, NothingLost
  <2>9. handed \o batch \in Seq(Msgs)
    BY <1>0, ConcatProperties
  <2>3. PICK s \in Seq(Msgs) : s = handed \o batch
    BY <2>9
  <2>4. s \o <<>> = s /\ ((s \o buf) \o <<>>) \o <<>> = s \o buf
    BY <1>0
  <2>5. Cut(s, <<>>)'
    BY <2>1, <2>2, <2>3, <2>4 DEF Cut
  <2> QED
    BY <1>2, <2>5 DEF BlockInv
<1>9. ASSUME NEW m \in Msgs, AddItemCheck(m) \/ AddItemDrop(m) \/ AddItemBind(m)
      PROVE  BlockInv'
  BY <1>3, <1>9 DEF AddItemCheck, AddItemDrop, AddItemBind, chanVars, loopVars, histVars
<1>10. CASE Start \/ ReceiveZero \/ ProcessItems \/ CtxDone \/ AcquireCancelled \/ Tick
  BY <1>3, <1>10 DEF Start, ReceiveZero, ProcessItems, CtxDone, AcquireCancelled, Tick,
     chanVars, histVars
<1>11. ASSUME NEW i \in running, SubmitReturns(i) \/ SubmitPanics(i)
       PROVE  BlockInv'
  BY <1>3, <1>11 DEF SubmitReturns, Finish, SubmitPanics, chanVars, loopVars, histVars
<1>12. CASE \/ ShutdownClose \/ EmptyCount \/ WaitReturns \/ SetBatchSize \/ CancelContext
            \/ UNCHANGED vars
  BY <1>3, <1>12 DEF ShutdownClose, EmptyCount, WaitReturns, SetBatchSize, CancelContext, vars,
     chanVars, loopVars, histVars
<1> QED
  BY <1>4, <1>5, <1>6, <1>7, <1>8, <1>9, <1>10, <1>11, <1>12, NextActions

\* What Empty discards is one block of consecutive messages; the messages
\* before it and behind it keep their order (queue.go:117-123).
THEOREM EmptyCutsOnce == Spec => []DiscardIsOneBlock
<1>1. Init => BlockInv
  <2>1. ASSUME Init PROVE Cut(<<>>, <<>>)
    BY <2>1 DEF Init, Cut
  <2>2. <<>> \in Seq(Msgs)
    OBVIOUS
  <2> QED
    BY <2>1, <2>2 DEF BlockInv
<1>2. ASSUME BlockInv PROVE DiscardIsOneBlock
  <2>1. PICK p \in Seq(Msgs), q \in Seq(Msgs) : Cut(p, q)
    BY <1>2 DEF BlockInv
  <2>2. /\ SubSeq(p \o q, 1, Len(p)) = p
        /\ SubSeq(p \o q, Len(p) + 1, Len(p \o q)) = q
        /\ Len(p) \in 0..Len(p \o q)
    BY SliceAndBuffer
  <2> QED
    BY <2>1, <2>2 DEF Cut, DiscardIsOneBlock
<1> QED
  BY <1>1, <1>2, BlockStep, TypeCorrect, FifoSafety, ChannelSafety, PTL DEF Spec
-------------------------------------------------------------------------------
(***************************************************************************)
(* EventQueue as a filter's queue of EventIntake (FilterQueue).            *)
(***************************************************************************)
\* The buffer is the end of what the channel took; only a Shutdown's Start
\* never ends.
ViewInv ==
  /\ Len(buf) <= Len(accepted)
  /\ \A k \in 1..Len(buf) : buf[k] = accepted[Len(accepted) - Len(buf) + k]
  /\ cancelled => Cancellable
  /\ pc = "exited" => cancelled
  /\ stop # "idle" => ShutdownModes # {}

LEMMA ViewStep ==
  ASSUME TypeOK, ViewInv, [Next]_vars
  PROVE  ViewInv'
<1> USE DEF ViewInv
<1>0. /\ buf \in Seq(Msgs) /\ accepted \in Seq(Msgs)
      /\ Len(buf) \in Nat /\ Len(accepted) \in Nat
  BY DEF TypeOK
<1>1. ASSUME UNCHANGED <<buf, accepted, cancelled, stop>>, pc' \in {pc, "select", "check", "acquire"}
      PROVE  ViewInv'
  BY <1>1
<1>2. ASSUME NEW m \in Msgs, AddItemCheck(m) \/ AddItemDrop(m) \/ AddItemBind(m)
      PROVE  ViewInv'
  BY <1>1, <1>2 DEF AddItemCheck, AddItemDrop, AddItemBind, chanVars, loopVars, stopVars,
     envVars, histVars
<1>3. ASSUME NEW m \in Msgs, AddItemSend(m)
      PROVE  ViewInv'
  <2>1. /\ buf' = Append(buf, m) /\ accepted' = Append(accepted, m)
        /\ UNCHANGED <<cancelled, pc, stop>>
    BY <1>3 DEF AddItemSend, loopVars, stopVars, envVars
  <2>2. Len(buf') = Len(buf) + 1 /\ Len(accepted') = Len(accepted) + 1
    BY <1>0, <2>1
  <2>3. ASSUME NEW k \in 1..Len(buf')
        PROVE  buf'[k] = accepted'[Len(accepted') - Len(buf') + k]
    <3>1. CASE k \in 1..Len(buf)
      <4>1. buf'[k] = buf[k] /\ Len(accepted) - Len(buf) + k \in 1..Len(accepted)
        BY <1>0, <2>1, <3>1
      <4> QED
        BY <1>0, <2>1, <2>2, <3>1, <4>1
    <3>2. CASE k = Len(buf) + 1
      BY <1>0, <2>1, <2>2, <3>2
    <3> QED
      BY <1>0, <2>2, <3>1, <3>2
  <2>4. /\ Len(buf') <= Len(accepted')
        /\ cancelled' = cancelled /\ pc' = pc /\ stop' = stop
    BY <1>0, <2>1, <2>2
  <2> QED
    BY <2>3, <2>4
<1>4. CASE \/ Start \/ ReceiveOrphan \/ ReceiveZero \/ ProcessItems
           \/ Acquire \/ AcquireCancelled \/ Tick
  BY <1>1, <1>4 DEF Start, ReceiveOrphan, ReceiveZero, ProcessItems, Acquire, HandOff, Spawn,
     AcquireCancelled, Tick, chanVars, stopVars, envVars, histVars
<1>5. CASE ReceiveItem
  <2>1. /\ buf # <<>> /\ buf' = Tail(buf) /\ UNCHANGED <<accepted, cancelled, stop>>
        /\ pc' = "check"
    BY <1>5 DEF ReceiveItem, stopVars, envVars, histVars
  <2>2. Len(buf') = Len(buf) - 1 /\ \A k \in 1..Len(buf') : buf'[k] = buf[k + 1]
    BY <1>0, <2>1
  <2>3. ASSUME NEW k \in 1..Len(buf')
        PROVE  buf'[k] = accepted'[Len(accepted') - Len(buf') + k]
    <3>1. k + 1 \in 1..Len(buf) /\ Len(accepted) - Len(buf) + (k + 1) = Len(accepted) - Len(buf') + k
      BY <1>0, <2>2
    <3>2. buf[k + 1] = accepted[Len(accepted) - Len(buf) + (k + 1)]
      BY <3>1
    <3> QED
      BY <2>1, <2>2, <3>1, <3>2
  <2> QED
    BY <1>0, <2>1, <2>2, <2>3
<1>6. CASE CtxDone
  BY <1>6 DEF CtxDone, chanVars, stopVars, envVars, histVars
<1>7. ASSUME NEW i \in running, SubmitReturns(i) \/ SubmitPanics(i)
      PROVE  ViewInv'
  BY <1>1, <1>7 DEF SubmitReturns, Finish, SubmitPanics, chanVars, loopVars, stopVars,
     envVars, histVars
<1>8. CASE ShutdownClose
  BY <1>8 DEF ShutdownClose, loopVars, envVars, histVars
<1>9. CASE EmptyCount \/ WaitReturns
  BY <1>9 DEF EmptyCount, WaitReturns, chanVars, loopVars, envVars, histVars
<1>10. CASE EmptySwap
  <2>1. /\ buf' = <<>> /\ UNCHANGED <<accepted, cancelled, pc>> /\ stop = "swap"
    BY <1>10 DEF EmptySwap, loopVars, envVars, histVars
  <2>2. Len(buf') = 0
    BY <2>1
  <2> QED
    BY <1>0, <2>1, <2>2
<1>11. CASE SetBatchSize \/ CancelContext
  BY <1>11 DEF SetBatchSize, CancelContext, chanVars, loopVars, stopVars, histVars
<1>12. CASE UNCHANGED vars
  BY <1>1, <1>12 DEF vars, chanVars, loopVars, stopVars, envVars, histVars
<1> QED
  BY <1>2, <1>3, <1>4, <1>5, <1>6, <1>7, <1>8, <1>9, <1>10, <1>11, <1>12, NextActions

LEMMA ViewSafety == Spec => []ViewInv
<1>1. Init => ViewInv
  <2> SUFFICES ASSUME Init PROVE ViewInv
    OBVIOUS
  <2>1. Len(buf) = 0 /\ Len(accepted) = 0
    BY DEF Init
  <2> QED
    BY <2>1 DEF Init, ViewInv
<1> QED
  BY <1>1, ViewStep, TypeCorrect, PTL DEF Spec

(***************************************************************************)
(* What EventIntake sees of a step.                                        *)
(***************************************************************************)
\* The handlers are told by the stages of their calls.
LEMMA SameHandlers ==
  ASSUME stage' = stage, NEW mode
  PROVE  UNCHANGED <<Intake(mode)!handlerVars, PerFilter(RefusedBy)>>
BY DEF Intake!handlerVars, HandlerAt, StatusOf, FilterOf, FiltersOf, PerFilter, RefusedBy

\* A step that changes nothing of what the producers see.
Unseen ==
  /\ UNCHANGED <<stage, buf, closed, accepted, stop, emptied, crashed>>
  /\ (pc' # "unstarted") = (pc # "unstarted")
  /\ NilReceived' = NilReceived

LEMMA UnseenStep ==
  ASSUME Unseen
  PROVE  UNCHANGED Intake("gentle")!vars
<1>1. UNCHANGED <<Intake("gentle")!handlerVars, PerFilter(RefusedBy)>>
  BY SameHandlers DEF Unseen
<1>2. UNCHANGED <<Intake("gentle")!loopVars, PerFilter(buf), PerFilter(closed),
                  PerFilter(LeftChannel)>>
  BY DEF Unseen, Intake!loopVars, PerFilter, LeftChannel
<1>3. UNCHANGED <<Intake("gentle")!stopVars, IF crashed THEN "nil" ELSE "no">>
  BY DEF Unseen, Intake!stopVars, ShutdownAt
<1> QED
  BY <1>1, <1>2, <1>3 DEF Intake!vars, Intake!queueVars

\* The queue's variables but those of the channel, in a step of a producer.
LEMMA AddItemView ==
  ASSUME NEW mode, UNCHANGED <<closed, stop, emptied, crashed, loopVars, batches>>
  PROVE  UNCHANGED <<Intake(mode)!loopVars, Intake(mode)!stopVars, PerFilter(closed),
                     IF crashed THEN "nil" ELSE "no">>
BY DEF Intake!loopVars, Intake!stopVars, PerFilter, NilReceived, ShutdownAt, loopVars

LEMMA AddItemCheckView ==
  ASSUME TypeOK, NEW mode, NEW m \in Msgs, AddItemCheck(m)
  PROVE  Intake(mode)!AddItemCheck(m)
<1>1. stage \in [Msgs -> Stages] /\ stage[m] = "new" /\ stage' = [stage EXCEPT ![m] = "checked"]
  BY DEF TypeOK, AddItemCheck
<1>2. UNCHANGED <<closed, stop, emptied, crashed, loopVars, batches, buf, accepted>>
  BY DEF AddItemCheck, chanVars, workVars, stopVars, histVars
<1>3. HandlerAt[m] = "check" /\ HandlerAt' = [HandlerAt EXCEPT ![m] = "bind"]
  BY <1>1 DEF HandlerAt
<1>4. FilterOf[m] = TheFilter /\ UNCHANGED <<FilterOf, StatusOf, FiltersOf, RefusedBy>>
  BY <1>1 DEF FilterOf, StatusOf, FiltersOf, RefusedBy
<1>5. UNCHANGED <<PerFilter(buf), PerFilter(LeftChannel), PerFilter(RefusedBy)>>
      /\ PerFilter(buf)[TheFilter] = buf
  BY <1>2, <1>4 DEF PerFilter, LeftChannel
<1>6. ~crashed /\ Len(buf) < ChannelSize
  BY DEF AddItemCheck
<1> QED
  BY <1>2, <1>3, <1>4, <1>5, <1>6, AddItemView
  DEF Intake!AddItemCheck, Intake!Running, Intake!Goto, Intake!queueVars

LEMMA AddItemDropView ==
  ASSUME TypeOK, NEW mode, NEW m \in Msgs, AddItemDrop(m)
  PROVE  Intake(mode)!AddItemDrop(m)
<1>1. stage \in [Msgs -> Stages] /\ stage[m] = "new" /\ stage' = [stage EXCEPT ![m] = "dropped"]
  BY DEF TypeOK, AddItemDrop
<1>2. UNCHANGED <<closed, stop, emptied, crashed, loopVars, batches, buf, accepted>>
  BY DEF AddItemDrop, chanVars, workVars, stopVars, histVars
<1>3. HandlerAt[m] = "check" /\ HandlerAt' = [HandlerAt EXCEPT ![m] = "range"]
  BY <1>1 DEF HandlerAt
<1>4. /\ FilterOf[m] = TheFilter /\ FilterOf' = [FilterOf EXCEPT ![m] = NoFilter]
      /\ UNCHANGED <<StatusOf, FiltersOf>>
      /\ RefusedBy' = RefusedBy \cup {m}
  BY <1>1 DEF FilterOf, StatusOf, FiltersOf, RefusedBy
<1>5. /\ UNCHANGED <<PerFilter(buf), PerFilter(LeftChannel)>>
      /\ PerFilter(buf)[TheFilter] = buf
      /\ PerFilter(RefusedBy)' = [PerFilter(RefusedBy) EXCEPT ![TheFilter] = @ \cup {m}]
  BY <1>2, <1>4 DEF PerFilter, LeftChannel
<1>6. ~crashed /\ Len(buf) >= ChannelSize
  BY DEF AddItemDrop
<1> QED
  BY <1>2, <1>3, <1>4, <1>5, <1>6, AddItemView
  DEF Intake!AddItemDrop, Intake!Running, Intake!Goto

LEMMA AddItemBindView ==
  ASSUME TypeOK, NEW mode, NEW m \in Msgs, AddItemBind(m)
  PROVE  Intake(mode)!AddItemBind(m)
<1>1. /\ stage \in [Msgs -> Stages] /\ stage[m] = "checked"
      /\ stage' = [stage EXCEPT ![m] = IF closed THEN "panicked" ELSE "sending"]
      /\ closed \in BOOLEAN
  BY DEF TypeOK, AddItemBind
<1>2. UNCHANGED <<closed, stop, emptied, crashed, loopVars, batches, buf, accepted>>
  BY DEF AddItemBind, chanVars, workVars, stopVars, histVars
<1>3. /\ HandlerAt[m] = "bind"
      /\ ~closed => HandlerAt' = [HandlerAt EXCEPT ![m] = "sending"] /\ StatusOf' = StatusOf
      /\ closed => /\ HandlerAt' = [HandlerAt EXCEPT ![m] = "leaving"]
                   /\ StatusOf' = [StatusOf EXCEPT ![m] = 202]
  BY <1>1 DEF HandlerAt, StatusOf
<1>4. FilterOf[m] = TheFilter /\ UNCHANGED <<FilterOf, FiltersOf, RefusedBy>>
  BY <1>1 DEF FilterOf, FiltersOf, RefusedBy
<1>5. /\ UNCHANGED <<PerFilter(buf), PerFilter(LeftChannel), PerFilter(RefusedBy)>>
      /\ PerFilter(closed)[TheFilter] = closed
  BY <1>2, <1>4 DEF PerFilter, LeftChannel
<1>6. ~crashed
  BY DEF AddItemBind
<1> QED
  BY <1>1, <1>2, <1>3, <1>4, <1>5, <1>6, AddItemView
  DEF Intake!AddItemBind, Intake!Running, Intake!Goto, Intake!Answer, Intake!queueVars

LEMMA AddItemSendView ==
  ASSUME TypeOK, NEW mode, NEW m \in Msgs, AddItemSend(m)
  PROVE  Intake(mode)!AddItemSend(m)
<1>1. /\ stage \in [Msgs -> Stages] /\ stage[m] = "sending"
      /\ stage' = [stage EXCEPT ![m] = "queued"]
  BY DEF TypeOK, AddItemSend
<1>2. UNCHANGED <<closed, stop, emptied, crashed, loopVars, batches>>
  BY DEF AddItemSend, workVars, stopVars
<1>3. HandlerAt[m] = "sending" /\ HandlerAt' = [HandlerAt EXCEPT ![m] = "range"]
  BY <1>1 DEF HandlerAt
<1>4. /\ FilterOf[m] = TheFilter /\ FilterOf' = [FilterOf EXCEPT ![m] = NoFilter]
      /\ UNCHANGED <<StatusOf, FiltersOf, RefusedBy>>
  BY <1>1 DEF FilterOf, StatusOf, FiltersOf, RefusedBy
<1>5. /\ PerFilter(buf)' = [PerFilter(buf) EXCEPT ![TheFilter] = Append(@, m)]
      /\ PerFilter(buf)[TheFilter] = buf
      /\ UNCHANGED PerFilter(RefusedBy)
  BY <1>4 DEF PerFilter, AddItemSend
<1>6. UNCHANGED PerFilter(LeftChannel)
  <2>1. /\ buf \in Seq(Msgs) /\ accepted \in Seq(Msgs)
        /\ buf' = Append(buf, m) /\ accepted' = Append(accepted, m)
    BY DEF TypeOK, AddItemSend
  <2>2. Len(accepted') - Len(buf') = Len(accepted) - Len(buf)
    BY <2>1
  <2>3. \A k \in 1..(Len(accepted) - Len(buf)) : accepted'[k] = accepted[k]
    BY <2>1
  <2>4. LeftChannel' = LeftChannel
    BY <2>2, <2>3 DEF LeftChannel
  <2> QED
    BY <2>4 DEF PerFilter
<1>7. ~crashed /\ Len(buf) < ChannelSize
  BY DEF AddItemSend
<1> QED
  BY <1>2, <1>3, <1>4, <1>5, <1>6, <1>7, AddItemView
  DEF Intake!AddItemSend, Intake!Running, Intake!Goto

-------------------------------------------------------------------------------
\* The steps of the loop and of Shutdown that the producers notice.
LEMMA StartView ==
  ASSUME NEW mode, Start
  PROVE  Intake(mode)!Start(TheFilter)
<1>1. /\ pc = "unstarted" /\ pc' = "select" /\ ~crashed
      /\ UNCHANGED <<stage, buf, closed, accepted, stop, emptied, crashed, nils, batches>>
  BY DEF Start, addVars, chanVars, workVars, stopVars, histVars
<1>2. UNCHANGED <<PerFilter(buf), PerFilter(closed), PerFilter(emptied), PerFilter(NilReceived),
                  PerFilter(LeftChannel), Intake(mode)!stopVars, IF crashed THEN "nil" ELSE "no">>
  BY <1>1 DEF PerFilter, NilReceived, LeftChannel, Intake!stopVars, ShutdownAt
<1>3. /\ ~PerFilter(pc # "unstarted")[TheFilter]
      /\ PerFilter(pc # "unstarted")' = [PerFilter(pc # "unstarted") EXCEPT ![TheFilter] = TRUE]
  BY <1>1 DEF PerFilter
<1> QED
  BY <1>1, <1>2, <1>3, SameHandlers DEF Intake!Start, Intake!Running

LEMMA ReceiveItemView ==
  ASSUME TypeOK, ViewInv, NEW mode, ReceiveItem
  PROVE  Intake(mode)!Receive(TheFilter)
<1>1. /\ pc = "select" /\ pc' = "check" /\ ~crashed /\ buf # <<>> /\ buf' = Tail(buf)
      /\ UNCHANGED <<stage, closed, accepted, stop, emptied, crashed, nils, batches>>
  BY DEF ReceiveItem, addVars, workVars, stopVars, histVars
<1>2. UNCHANGED <<PerFilter(closed), Intake(mode)!loopVars, Intake(mode)!stopVars,
                  IF crashed THEN "nil" ELSE "no">>
  BY <1>1 DEF PerFilter, NilReceived, Intake!loopVars, Intake!stopVars, ShutdownAt
<1>3. LeftChannel' = LeftChannel \cup {Head(buf)}
  <2> DEFINE gone == Len(accepted) - Len(buf)
  <2>1. buf \in Seq(Msgs) /\ accepted \in Seq(Msgs) /\ Len(buf) \in Nat /\ Len(accepted) \in Nat
    BY DEF TypeOK
  <2>2. Len(buf') = Len(buf) - 1 /\ 1 \in 1..Len(buf) /\ Head(buf) = buf[1]
    BY <1>1, <2>1
  <2>3. gone \in Nat /\ gone' = gone + 1 /\ Head(buf) = accepted[gone + 1]
    BY <1>1, <2>1, <2>2 DEF ViewInv
  <2>4. 1..(gone + 1) = (1..gone) \cup {gone + 1}
    BY <2>3
  <2>5. LeftChannel = {accepted[k] : k \in 1..gone} /\ LeftChannel' = {accepted[k] : k \in 1..(gone + 1)}
    BY <1>1, <2>3 DEF LeftChannel
  <2> HIDE DEF gone
  <2> QED
    BY <2>3, <2>4, <2>5
<1>4. /\ PerFilter(pc # "unstarted")[TheFilter] /\ PerFilter(buf)[TheFilter] = buf
      /\ PerFilter(buf)' = [PerFilter(buf) EXCEPT ![TheFilter] = Tail(@)]
      /\ PerFilter(LeftChannel)' = [PerFilter(LeftChannel) EXCEPT ![TheFilter] = @ \cup {Head(buf)}]
  BY <1>1, <1>3 DEF PerFilter
<1> QED
  BY <1>1, <1>2, <1>4, SameHandlers DEF Intake!Receive, Intake!Running

LEMMA ReceiveZeroView ==
  ASSUME TypeOK, FifoInv, NEW mode, ReceiveZero
  PROVE  Unseen \/ Intake(mode)!ReceiveZero(TheFilter)
<1>1. /\ pc = "select" /\ pc' = "check" /\ ~crashed /\ nils \in Nat /\ nils' = nils + 1
      /\ UNCHANGED <<stage, buf, closed, accepted, stop, emptied, crashed, batches>>
      /\ (closed /\ buf = <<>>) \/ emptied
  BY DEF ReceiveZero, addVars, workVars, stopVars, histVars, TypeOK, FifoInv
<1>2. NilReceived'
  BY <1>1 DEF NilReceived
<1>3. CASE NilReceived
  BY <1>1, <1>2, <1>3 DEF Unseen
<1>4. CASE ~NilReceived
  <2>1. UNCHANGED <<PerFilter(buf), PerFilter(closed), PerFilter(pc # "unstarted"), PerFilter(emptied),
                    PerFilter(LeftChannel), Intake(mode)!stopVars, IF crashed THEN "nil" ELSE "no">>
    BY <1>1 DEF PerFilter, LeftChannel, Intake!stopVars, ShutdownAt
  <2>2. /\ PerFilter(pc # "unstarted")[TheFilter]
        /\ ~PerFilter(NilReceived)[TheFilter]
        /\ PerFilter(NilReceived)' = [PerFilter(NilReceived) EXCEPT ![TheFilter] = TRUE]
        /\ \/ PerFilter(closed)[TheFilter] /\ PerFilter(buf)[TheFilter] = <<>>
           \/ PerFilter(emptied)[TheFilter]
    BY <1>1, <1>2, <1>4 DEF PerFilter
  <2> QED
    BY <1>1, <2>1, <2>2, SameHandlers DEF Intake!ReceiveZero, Intake!Running
<1> QED
  BY <1>3, <1>4

LEMMA SubmitPanicsView ==
  ASSUME TypeOK, NEW mode, NEW i \in running, SubmitPanics(i)
  PROVE  Intake(mode)!NilBatch(TheFilter)
<1>1. /\ ~crashed /\ crashed' /\ batches[i].nils > 0 /\ i \in DOMAIN batches
      /\ UNCHANGED <<stage, buf, closed, accepted, stop, emptied, nils, batches, pc>>
  BY DEF SubmitPanics, addVars, chanVars, loopVars, stopVars, histVars, TypeOK
<1>2. PerFilter(NilReceived)[TheFilter]
  BY <1>1 DEF PerFilter, NilReceived
<1>3. UNCHANGED <<PerFilter(buf), PerFilter(closed), Intake(mode)!loopVars,
                  PerFilter(LeftChannel), Intake(mode)!stopVars>>
  BY <1>1 DEF PerFilter, LeftChannel, Intake!loopVars, NilReceived, Intake!stopVars, ShutdownAt
<1> QED
  BY <1>1, <1>2, <1>3, SameHandlers DEF Intake!NilBatch, Intake!Running, Intake!queueVars

LEMMA ShutdownCloseView ==
  ASSUME TypeOK, ShutdownClose
  PROVE  \E mode \in {"gentle", "abrupt"} : Intake(mode)!ShutdownClose
<1>1. /\ ~crashed /\ closed' = TRUE /\ stage \in [Msgs -> Stages]
      /\ stage' = [m \in Msgs |-> IF stage[m] = "sending" THEN "panicked" ELSE stage[m]]
      /\ UNCHANGED <<emptied, buf, pc, nils, batches, crashed, accepted>>
  BY DEF ShutdownClose, Close, loopVars, workVars, histVars, TypeOK
<1>2. PICK mode \in {"gentle", "abrupt"} :
        \/ /\ ShutdownAt = "close"
           /\ ShutdownAt' = IF mode = "gentle" THEN "wait" ELSE "empty"
        \/ ShutdownAt = "closeAgain" /\ ShutdownAt' = "wait"
  BY DEF ShutdownClose, ShutdownAt
<1>3. (stop = "done") = FALSE /\ (stop = "done")' = FALSE
  BY DEF ShutdownClose
<1>4. Intake(mode)!Close
  <2>1. PerFilter(closed)' = [PerFilter(closed) EXCEPT ![TheFilter] = TRUE]
    BY <1>1 DEF PerFilter
  <2>2. \A m \in Msgs : Intake(mode)!WaitsFor(m, TheFilter) <=> stage[m] = "sending"
    BY <1>1 DEF Intake!WaitsFor, HandlerAt, FilterOf, Stages
  <2>3. HandlerAt' = [m \in Msgs |-> IF stage[m] = "sending" THEN "leaving" ELSE HandlerAt[m]]
    BY <1>1 DEF HandlerAt
  <2>4. StatusOf' = [m \in Msgs |-> IF stage[m] = "sending" THEN 202 ELSE StatusOf[m]]
    BY <1>1 DEF StatusOf
  <2> QED
    BY <2>1, <2>2, <2>3, <2>4 DEF Intake!Close
<1>5. UNCHANGED <<FilterOf, FiltersOf, RefusedBy>>
  BY <1>1 DEF FilterOf, FiltersOf, RefusedBy
<1>6. UNCHANGED <<PerFilter(buf), Intake(mode)!loopVars, PerFilter(LeftChannel),
                  PerFilter(RefusedBy), IF crashed THEN "nil" ELSE "no">>
  BY <1>1, <1>5 DEF PerFilter, Intake!loopVars, NilReceived, LeftChannel
<1>7. Intake(mode)!ShutdownClose
  BY <1>1, <1>2, <1>3, <1>4, <1>5, <1>6 DEF Intake!ShutdownClose, Intake!Running
<1> QED
  BY <1>7

LEMMA EmptySwapView ==
  ASSUME TypeOK, ViewInv, NEW mode, EmptySwap
  PROVE  Intake(mode)!ShutdownEmpty
<1>1. /\ ~crashed /\ stop = "swap" /\ stop' = "close" /\ emptied' = TRUE
      /\ buf' = <<>> /\ closed' = FALSE
      /\ UNCHANGED <<stage, pc, nils, batches, crashed, accepted>>
  BY DEF EmptySwap, loopVars, workVars, histVars
<1>2. LeftChannel' = LeftChannel \cup Intake(mode)!Contents(TheFilter)
  <2>1. buf \in Seq(Msgs) /\ accepted \in Seq(Msgs) /\ Len(buf) \in Nat /\ Len(accepted) \in Nat
    BY DEF TypeOK
  <2> DEFINE gone == Len(accepted) - Len(buf)
  <2>2. gone \in Nat /\ LeftChannel = {accepted[k] : k \in 1..gone}
    BY <2>1 DEF ViewInv, LeftChannel
  <2>3. LeftChannel' = {accepted[k] : k \in 1..Len(accepted)}
    BY <1>1, <2>1 DEF LeftChannel
  <2>4. Intake(mode)!Contents(TheFilter) = {buf[k] : k \in 1..Len(buf)}
    BY <2>1 DEF Intake!Contents, PerFilter
  <2>5. {buf[k] : k \in 1..Len(buf)} = {accepted[k] : k \in (gone + 1)..Len(accepted)}
    <3>1. \A k \in 1..Len(buf) : gone + k \in (gone + 1)..Len(accepted) /\ buf[k] = accepted[gone + k]
      BY <2>1, <2>2 DEF ViewInv
    <3>2. \A k \in (gone + 1)..Len(accepted) : k - gone \in 1..Len(buf) /\ gone + (k - gone) = k
      BY <2>1, <2>2
    <3> HIDE DEF gone
    <3> QED
      BY <3>1, <3>2
  <2>6. 1..Len(accepted) = (1..gone) \cup ((gone + 1)..Len(accepted))
    BY <2>1, <2>2
  <2> HIDE DEF gone
  <2> QED
    BY <2>2, <2>3, <2>4, <2>5, <2>6
<1>3. /\ PerFilter(LeftChannel)' = [PerFilter(LeftChannel) EXCEPT
                                      ![TheFilter] = @ \cup Intake(mode)!Contents(TheFilter)]
      /\ PerFilter(buf)' = [PerFilter(buf) EXCEPT ![TheFilter] = <<>>]
      /\ PerFilter(closed)' = [PerFilter(closed) EXCEPT ![TheFilter] = FALSE]
      /\ PerFilter(emptied)' = [PerFilter(emptied) EXCEPT ![TheFilter] = TRUE]
  BY <1>1, <1>2 DEF PerFilter
<1>4. /\ UNCHANGED <<PerFilter(pc # "unstarted"), PerFilter(NilReceived), IF crashed THEN "nil" ELSE "no">>
      /\ (stop = "done") = FALSE /\ (stop = "done")' = FALSE
      /\ ShutdownAt = "empty" /\ ShutdownAt' = "closeAgain"
  BY <1>1 DEF PerFilter, NilReceived, ShutdownAt
<1> QED
  BY <1>1, <1>3, <1>4, SameHandlers DEF Intake!ShutdownEmpty, Intake!Running

\* Wait returns to a Shutdown that is there before Start: the context given to
\* a Start that is shut down never ends.
LEMMA WaitReturnsView ==
  ASSUME TypeOK, ViewInv, NEW mode, WaitReturns
  PROVE  Intake(mode)!WaitReturns
<1>1. /\ ~crashed /\ stop = "wait" /\ stop' = "done" /\ pc = "unstarted"
      /\ UNCHANGED <<stage, buf, closed, emptied, pc, nils, batches, crashed, accepted>>
  BY QueueAssumption DEF WaitReturns, addVars, chanVars, loopVars, workVars, histVars, ViewInv
<1>2. UNCHANGED <<PerFilter(buf), PerFilter(closed), Intake(mode)!loopVars, PerFilter(LeftChannel),
                  IF crashed THEN "nil" ELSE "no">>
  BY <1>1 DEF PerFilter, Intake!loopVars, NilReceived, LeftChannel
<1>3. /\ ShutdownAt = "wait" /\ ShutdownAt' = "delete"
      /\ ~PerFilter(pc # "unstarted")[TheFilter] /\ (stop = "done")' = TRUE
  BY <1>1 DEF ShutdownAt, PerFilter
<1> QED
  BY <1>1, <1>2, <1>3, SameHandlers
  DEF Intake!WaitReturns, Intake!Running, Intake!queueVars

-------------------------------------------------------------------------------
\* The steps the producers do not notice: batches are cut and handed over, the
\* nils among their messages with them.
LEMMA AcquireUnseen ==
  ASSUME TypeOK, Acquire
  PROVE  Unseen
<1>1. /\ pc = "acquire" /\ pc' = "select" /\ nils' = 0
      /\ batches' = Append(batches, [items |-> batch, nils |-> nils])
      /\ UNCHANGED <<stage, buf, closed, accepted, stop, emptied, crashed>>
  BY DEF Acquire, HandOff, Spawn, addVars, chanVars, stopVars
<1>2. /\ batches \in Seq(Batch) /\ nils \in Nat /\ [items |-> batch, nils |-> nils] \in Batch
  BY DEF TypeOK, Batch
<1>3. /\ DOMAIN batches' = DOMAIN batches \cup {Len(batches) + 1}
      /\ \A i \in DOMAIN batches : batches'[i] = batches[i]
      /\ batches'[Len(batches) + 1].nils = nils
  BY <1>1, <1>2
<1>4. NilReceived' <=> NilReceived
  BY <1>1, <1>2, <1>3 DEF NilReceived
<1> QED
  BY <1>1, <1>4 DEF Unseen

LEMMA OthersUnseen ==
  ASSUME TypeOK,
         \/ ReceiveOrphan \/ ProcessItems \/ CtxDone \/ AcquireCancelled \/ Tick
         \/ \E i \in running : SubmitReturns(i)
         \/ EmptyCount \/ SetBatchSize \/ CancelContext \/ UNCHANGED vars
  PROVE  Unseen \/ UNCHANGED Intake("gentle")!vars
<1>1. CASE ReceiveOrphan \/ ProcessItems \/ CtxDone \/ AcquireCancelled \/ Tick
  BY <1>1 DEF Unseen, NilReceived, ReceiveOrphan, ProcessItems, CtxDone, AcquireCancelled, Tick,
     addVars, chanVars, workVars, stopVars, histVars
<1>2. ASSUME NEW i \in running, SubmitReturns(i) PROVE Unseen
  BY <1>2 DEF Unseen, NilReceived, SubmitReturns, Finish, addVars, chanVars, loopVars, stopVars,
     histVars
<1>3. CASE SetBatchSize \/ CancelContext \/ UNCHANGED vars
  BY <1>3 DEF Unseen, NilReceived, SetBatchSize, CancelContext, vars, addVars, chanVars,
     loopVars,
     workVars, stopVars, histVars
<1>4. CASE EmptyCount
  <2>1. /\ UNCHANGED <<stage, buf, closed, accepted, emptied, crashed, pc, nils, batches>>
        /\ UNCHANGED <<ShutdownAt, stop = "done">>
    BY <1>4 DEF EmptyCount, addVars, chanVars, loopVars, workVars, histVars, ShutdownAt
  <2>2. UNCHANGED <<Intake("gentle")!handlerVars, PerFilter(RefusedBy)>>
    BY <2>1, SameHandlers
  <2> QED
    BY <2>1, <2>2 DEF Intake!vars, Intake!queueVars, Intake!loopVars, Intake!stopVars,
       PerFilter,
       NilReceived, LeftChannel
<1> QED
  BY <1>1, <1>2, <1>3, <1>4

LEMMA ViewRefinementStep ==
  ASSUME TypeOK, FifoInv, ViewInv, [Next]_vars
  PROVE  [\E mode \in {"gentle", "abrupt"} : Intake(mode)!Next]_(Intake("gentle")!vars)
<1> DEFINE Seen == \E mode \in {"gentle", "abrupt"} : Intake(mode)!Next
<1>1. ASSUME NEW m \in Msgs,
             AddItemCheck(m) \/ AddItemDrop(m) \/ AddItemBind(m) \/ AddItemSend(m)
      PROVE  Seen
  <2>1. Intake("gentle")!ServeHTTP(m)
    BY <1>1, AddItemCheckView, AddItemDropView, AddItemBindView, AddItemSendView
    DEF Intake!ServeHTTP
  <2> QED
    BY <2>1 DEF Intake!Next
<1>2. ASSUME Intake("gentle")!Loop(TheFilter) PROVE Seen
  BY <1>2 DEF Intake!Next
<1>3. CASE Start \/ ReceiveItem
  BY <1>2, <1>3, StartView, ReceiveItemView DEF Intake!Loop
<1>4. CASE ReceiveZero
  BY <1>2, <1>4, ReceiveZeroView, UnseenStep DEF Intake!Loop
<1>5. CASE \E i \in running : SubmitPanics(i)
  BY <1>2, <1>5, SubmitPanicsView DEF Intake!Loop
<1>6. CASE ShutdownClose
  BY <1>6, ShutdownCloseView DEF Intake!Next, Intake!Shutdown
<1>7. CASE EmptySwap \/ WaitReturns
  <2>1. Intake("gentle")!Shutdown
    BY <1>7, EmptySwapView, WaitReturnsView DEF Intake!Shutdown
  <2> QED
    BY <2>1 DEF Intake!Next
<1>8. CASE Acquire
  BY <1>8, AcquireUnseen, UnseenStep
<1>9. CASE \/ ReceiveOrphan \/ ProcessItems \/ CtxDone \/ AcquireCancelled \/ Tick
           \/ \E i \in running : SubmitReturns(i)
           \/ EmptyCount \/ SetBatchSize \/ CancelContext \/ UNCHANGED vars
  BY <1>9, OthersUnseen, UnseenStep
<1> QED
  BY <1>1, <1>3, <1>4, <1>5, <1>6, <1>7, <1>8, <1>9, NextActions

(***************************************************************************)
(* The producers, of which EventIntake knows more, cannot tell the queue   *)
(* from the one EventIntake gives them, whatever happens to its batches    *)
(* and whichever channel Start holds (queue.go:115-207,                    *)
(* stream_dispatcher.go:29-37).                                            *)
(***************************************************************************)
THEOREM QueueBehavesAsInIntake == Spec => BehavesAsInIntake
<1>1. TypeOK /\ FifoInv /\ ViewInv /\ [Next]_vars =>
        [\E mode \in {"gentle", "abrupt"} : Intake(mode)!Next]_(Intake("gentle")!vars)
  BY ViewRefinementStep
<1> QED
  BY <1>1, TypeCorrect, FifoSafety, ViewSafety, PTL DEF Spec, BehavesAsInIntake
===============================================================================
