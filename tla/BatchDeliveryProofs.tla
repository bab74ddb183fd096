-------------------------- MODULE BatchDeliveryProofs --------------------------
(***************************************************************************)
(* Safety of BatchDelivery for any number of streams, messages, records    *)
(* per request and retries.                                                *)
(***************************************************************************)
EXTENDS BatchDelivery, FiniteSetTheorems, TLAPS

(***************************************************************************)
(* The chunks GetBatch cuts.                                               *)
(***************************************************************************)
LEMMA ChunkProperties ==
  ASSUME TypeOK
  PROVE  /\ batchLen \in Nat /\ start \in Nat /\ start <= batchLen
         /\ MaxPutRecordsBatchSize \in Nat \ {0}
         /\ Chunk \subseteq Batch /\ IsFiniteSet(Chunk)
         /\ More => /\ start + MaxPutRecordsBatchSize < batchLen
                    /\ 1..(start + MaxPutRecordsBatchSize) = (1..start) \cup Chunk
         /\ ~More => Batch = (1..start) \cup Chunk
         /\ start < batchLen => Chunk # {} /\ Cardinality(Chunk) <= MaxPutRecordsBatchSize
<1>1. /\ batchLen \in Nat /\ start \in Nat /\ start <= batchLen
      /\ MaxPutRecordsBatchSize \in Nat \ {0}
  BY DeliveryAssumption DEF TypeOK
<1> DEFINE last == IF More THEN start + MaxPutRecordsBatchSize ELSE batchLen
<1>2. /\ last \in Nat /\ last <= batchLen /\ start <= last
      /\ last <= start + MaxPutRecordsBatchSize
      /\ start < batchLen => start < last
  BY <1>1 DEF More
<1>3. Chunk = (start + 1)..last
  BY DEF Chunk
<1>4. IsFiniteSet(Chunk) /\ (start < last => Cardinality(Chunk) = last - start)
  <2>1. start + 1 \in Int /\ last \in Int
    BY <1>1, <1>2
  <2>2. /\ IsFiniteSet((start + 1)..last)
        /\ Cardinality((start + 1)..last) = IF start + 1 > last THEN 0 ELSE last - (start + 1) + 1
    BY <2>1, FS_Interval
  <2> HIDE DEF last
  <2> QED
    BY <2>2, <1>1, <1>2, <1>3
<1>5. start < batchLen => Chunk # {} /\ Cardinality(Chunk) <= MaxPutRecordsBatchSize
  <2> HIDE DEF last
  <2>1. start < last => start + 1 \in Chunk
    BY <1>1, <1>2, <1>3
  <2> QED
    BY <1>1, <1>2, <1>4, <2>1
<1>6. Chunk \subseteq Batch
  BY <1>1, <1>2, <1>3 DEF Batch
<1>7. More => /\ start + MaxPutRecordsBatchSize < batchLen
              /\ 1..(start + MaxPutRecordsBatchSize) = (1..start) \cup Chunk
  BY <1>1 DEF More, Chunk
<1>8. ~More => Batch = (1..start) \cup Chunk
  BY <1>1 DEF More, Chunk, Batch
<1> QED
  BY <1>1, <1>4, <1>5, <1>6, <1>7, <1>8

LEMMA RefusedRecords ==
  ASSUME TypeOK, NEW F \in SUBSET Chunk
  PROVE  Cardinality(F) \in Nat /\ (Cardinality(F) = 0 => F = {})
<1>1. IsFiniteSet(F)
  BY ChunkProperties, FS_Subset
<1> QED
  BY <1>1, FS_CardinalityType, FS_EmptySet

-------------------------------------------------------------------------------
(***************************************************************************)
(* The inductive invariant.  In PutRecords' loop an attempt that has not   *)
(* counted a failed record has stored every item behind start; an attempt  *)
(* that ends without an error and without one has stored the whole batch.  *)
(***************************************************************************)
LoopInv ==
  /\ pc \in {"next", "put", "judge"} => batchLen > 0
  /\ pc \in {"put", "judge"} => i <= numStreams
  /\ pc = "put" => start < batchLen

StoredInv ==
  /\ \A s \in Streams : stored[s] \subseteq Batch
  /\ pc = "put" /\ failedRecordCount = 0 => 1..start \subseteq stored[i]
  /\ pc = "judge" /\ ~err /\ failedRecordCount = 0 => stored[i] = Batch
  /\ OkMeansStored

DeliveryInv == TypeOK /\ LoopInv /\ StoredInv

LEMMA DeliveryInit == Init => DeliveryInv
<1> SUFFICES ASSUME Init PROVE DeliveryInv
  OBVIOUS
<1>1. /\ stored \in [Streams -> SUBSET Messages] /\ \A s \in Streams : stored[s] = {}
      /\ puts \in [Streams -> [Messages -> Nat]]
      /\ dropped \in [Reasons -> Nat]
  BY DEF Init
<1>2. numStreams \in Nat /\ batchLen \in Nat /\ 1 \in 1..(numStreams + 1)
      /\ 1 \in 1..(MaxRetries + 1) /\ 0 \in 0..batchLen
  BY DeliveryAssumption DEF Init
<1>3. TypeOK
  BY <1>1, <1>2 DEF Init, TypeOK
<1>4. LoopInv /\ StoredInv
  BY <1>1 DEF Init, LoopInv, StoredInv, OkMeansStored
<1> QED
  BY <1>3, <1>4 DEF DeliveryInv

\* What a request leaves behind, whatever becomes of it.
LEMMA RequestStores ==
  ASSUME DeliveryInv, pc = "put", NEW S \in SUBSET Chunk, Request(Chunk, S)
  PROVE  /\ i \in Streams
         /\ stored' \in [Streams -> SUBSET Messages]
         /\ puts' \in [Streams -> [Messages -> Nat]]
         /\ stored'[i] = stored[i] \cup S
         /\ \A s \in Streams : stored'[s] \subseteq Batch
<1>1. /\ i \in Streams /\ stored \in [Streams -> SUBSET Messages]
      /\ puts \in [Streams -> [Messages -> Nat]]
  BY DeliveryAssumption DEF DeliveryInv, TypeOK, LoopInv, Streams
<1>2. S \subseteq Batch /\ Batch \subseteq Messages
  BY ChunkProperties, DeliveryAssumption DEF DeliveryInv, TypeOK, Batch, Messages
<1>3. stored' = [stored EXCEPT ![i] = stored[i] \cup S]
  BY DEF Request
<1>4. puts' = [puts EXCEPT ![i] = [m \in Messages |-> IF m \in Chunk THEN puts[i][m] + 1
                                                                   ELSE puts[i][m]]]
  BY DEF Request
<1>5. puts' \in [Streams -> [Messages -> Nat]]
  BY <1>1, <1>4
<1> QED
  BY <1>1, <1>2, <1>3, <1>5 DEF DeliveryInv, StoredInv

LEMMA DropType ==
  ASSUME TypeOK, NEW r \in Reasons, NEW n \in Nat, Drop(r, n)
  PROVE  dropped' \in [Reasons -> Nat]
BY DEF TypeOK, Drop

LEMMA DeliveryStep ==
  ASSUME DeliveryInv, [Next]_vars
  PROVE  DeliveryInv'
<1>0. /\ TypeOK /\ LoopInv /\ StoredInv /\ batchLen \in Nat /\ numStreams \in Nat
      /\ MaxRetries \in Nat
  BY DeliveryAssumption DEF DeliveryInv, TypeOK
<1> USE DEF DeliveryInv, LoopInv, StoredInv, OkMeansStored
<1>1. CASE NoStreams
  <2>1. dropped' \in [Reasons -> Nat]
    BY <1>0, <1>1, DropType DEF NoStreams, Reasons
  <2> QED
    BY <1>0, <1>1, <2>1 DEF NoStreams, TypeOK, Final, callVars, Batch
<1>2. CASE NoMessages \/ EnterLoop
  BY <1>0, <1>2 DEF NoMessages, EnterLoop, TypeOK, Final, callVars, Batch
<1>3. CASE AllStreamsFailed
  <2>1. dropped' \in [Reasons -> Nat]
    BY <1>0, <1>3, DropType DEF AllStreamsFailed, Reasons
  <2> QED
    BY <1>0, <1>3, <2>1 DEF AllStreamsFailed, TypeOK, Final, callVars, Batch
<1>4. CASE OnEventPanics
  <2>1. dropped' \in [Reasons -> Nat]
    BY <1>0, <1>4, DropType DEF OnEventPanics, Reasons
  <2> QED
    BY <1>0, <1>4, <2>1 DEF OnEventPanics, TypeOK, Final, callVars, Batch
<1>5. CASE OnEvent
  BY <1>0, <1>5 DEF OnEvent, BeginAttempt, TypeOK, Final, callVars, Batch
<1>6. ASSUME NEW F \in SUBSET Chunk, PutAnswered(F) PROVE DeliveryInv'
  <2>1. /\ pc = "put" /\ start < batchLen /\ i <= numStreams
        /\ failedRecordCount \in Nat
        /\ failedRecordCount' = failedRecordCount + Cardinality(F)
        /\ Request(Chunk, Chunk \ F)
        /\ UNCHANGED <<numStreams, batchLen, hasNil, i, attempt, dropped>>
    BY <1>6 DEF PutAnswered, CountFailed, callVars, TypeOK
  <2>2. /\ i \in Streams
        /\ stored' \in [Streams -> SUBSET Messages]
        /\ puts' \in [Streams -> [Messages -> Nat]]
        /\ stored'[i] = stored[i] \cup (Chunk \ F)
        /\ \A s \in Streams : stored'[s] \subseteq Batch
    BY <2>1, RequestStores
  <2>3. /\ failedRecordCount' \in Nat
        /\ failedRecordCount' = 0 => failedRecordCount = 0 /\ F = {}
    BY <1>0, <2>1, RefusedRecords
  <2>4. CASE More
    <3>1. pc' = pc /\ err' = err /\ start' = start + MaxPutRecordsBatchSize
      BY <1>6, <2>4 DEF PutAnswered
    <3>2. start' \in 0..batchLen /\ start' < batchLen
      BY <1>0, <2>4, <3>1, ChunkProperties
    <3>3. failedRecordCount' = 0 => 1..start' \subseteq stored'[i]
      BY <1>0, <2>1, <2>2, <2>3, <2>4, <3>1, ChunkProperties
    <3>4. TypeOK'
      BY <1>0, <2>1, <2>2, <2>3, <3>1, <3>2 DEF TypeOK
    <3> QED
      BY <1>0, <2>1, <2>2, <3>1, <3>2, <3>3, <3>4 DEF Batch
  <2>5. CASE ~More
    <3>1. pc' = "judge" /\ err' = FALSE /\ start' = start
      BY <1>6, <2>5 DEF PutAnswered
    <3>2. failedRecordCount' = 0 => stored'[i] = Batch
      BY <1>0, <2>1, <2>2, <2>3, <2>5, ChunkProperties
    <3>3. TypeOK'
      BY <1>0, <2>1, <2>2, <2>3, <3>1 DEF TypeOK
    <3> QED
      BY <1>0, <2>1, <2>2, <3>1, <3>2, <3>3 DEF Batch
  <2> QED
    BY <2>4, <2>5
<1>7. ASSUME NEW S \in SUBSET Chunk, PutFails(S) PROVE DeliveryInv'
  <2>1. /\ pc = "put" /\ start < batchLen /\ i <= numStreams
        /\ Request(Chunk, S)
        /\ UNCHANGED <<numStreams, batchLen, hasNil, i, dropped>>
    BY <1>7 DEF PutFails, callVars
  <2>2. /\ stored' \in [Streams -> SUBSET Messages]
        /\ puts' \in [Streams -> [Messages -> Nat]]
        /\ \A s \in Streams : stored'[s] \subseteq Batch
    BY <2>1, RequestStores
  <2>3. CASE LastAttempt
    <3>1. pc' = "judge" /\ err' = TRUE /\ UNCHANGED <<attempt, start, failedRecordCount>>
      BY <1>7, <2>3 DEF PutFails
    <3>2. TypeOK'
      BY <1>0, <2>1, <2>2, <3>1 DEF TypeOK
    <3> QED
      BY <1>0, <2>1, <2>2, <3>1, <3>2 DEF Batch
  <2>4. CASE ~LastAttempt
    <3>1. /\ pc' = pc /\ err' = err /\ attempt' = attempt + 1
          /\ start' = 0 /\ failedRecordCount' = 0
      BY <1>7, <2>4 DEF PutFails, BeginAttempt
    <3>2. attempt' \in 1..(MaxRetries + 1)
      BY <1>0, <2>4, <3>1 DEF TypeOK, LastAttempt
    <3>3. TypeOK'
      BY <1>0, <2>1, <2>2, <3>1, <3>2 DEF TypeOK
    <3> QED
      BY <1>0, <2>1, <2>2, <3>1, <3>3 DEF Batch
  <2> QED
    BY <2>3, <2>4
<1>8. CASE Judge
  <2>1. /\ pc = "judge" /\ i <= numStreams /\ batchLen > 0
        /\ UNCHANGED <<numStreams, batchLen, hasNil, attempt, start, failedRecordCount, err,
                       stored, puts>>
    BY <1>8 DEF Judge, callVars
  <2>2. CASE \/ BatchFailed("send_error")
             \/ BatchFailed("some_records_failed")
    <3>1. dropped' \in [Reasons -> Nat]
      BY <1>0, <2>2, DropType DEF BatchFailed, Reasons
    <3>2. pc' = "next" /\ i' = i + 1
      BY <2>2 DEF BatchFailed
    <3> QED
      BY <1>0, <2>1, <3>1, <3>2 DEF TypeOK, Batch
  <2>3. CASE ~err /\ failedRecordCount = 0 /\ pc' = "ok" /\ UNCHANGED <<i, dropped>>
    BY <1>0, <2>1, <2>3 DEF TypeOK, Final, Batch
  <2> QED
    BY <1>8, <2>2, <2>3 DEF Judge
<1>9. CASE UNCHANGED vars
  BY <1>0, <1>9 DEF vars, callVars, TypeOK, Batch
<1> QED
  BY <1>1, <1>2, <1>3, <1>4, <1>5, <1>6, <1>7, <1>8, <1>9 DEF Next

(***************************************************************************)
(* Types, and with them that PutRecords never slices its items behind      *)
(* their end (batch.go:6-17).                                              *)
(***************************************************************************)
THEOREM DeliverySafety == Spec => []DeliveryInv
<1>1. DeliveryInv /\ [Next]_vars => DeliveryInv'
  BY DeliveryStep
<1> QED
  BY DeliveryInit, <1>1, PTL DEF Spec

\* Every variable keeps its type; start stays inside the batch (kinesis.go:215-253).
THEOREM TypeCorrect == Spec => []TypeOK
BY DeliverySafety, PTL DEF DeliveryInv

\* A batch Submit reports as sent is stored in full in the stream tried last,
\* however it was cut, refused in part and retried (stream_dispatcher.go:65-82).
THEOREM SentIsStored == Spec => []OkMeansStored
<1>1. DeliveryInv => OkMeansStored
  BY DEF DeliveryInv, StoredInv
<1> QED
  BY <1>1, DeliverySafety, PTL

\* No request is empty or above Kinesis' limit (kinesis.go:219-222).
THEOREM LegalRequests == Spec => []RequestsAreLegal
<1>1. DeliveryInv => RequestsAreLegal
  BY ChunkProperties DEF DeliveryInv, LoopInv, RequestsAreLegal
<1> QED
  BY <1>1, DeliverySafety, PTL
-------------------------------------------------------------------------------
(***************************************************************************)
(* The refinement.  Only the attempt at the first stream can meet a nil    *)
(* message, so nothing is stored and no stream has failed when it panics.  *)
(***************************************************************************)
PathInv ==
  /\ pc = "begin" => i = 1
  /\ hasNil => i = 1 /\ batchLen > 0 /\ pc \notin {"put", "judge", "ok"}

LEMMA PathInit == Init => PathInv
BY DEF Init, PathInv

LEMMA PathStep ==
  ASSUME DeliveryInv, PathInv, [Next]_vars
  PROVE  PathInv'
<1> USE DEF PathInv
<1>1. CASE NoStreams \/ NoMessages \/ EnterLoop
  BY <1>1 DEF NoStreams, NoMessages, EnterLoop, callVars
<1>2. CASE AllStreamsFailed \/ OnEventPanics \/ OnEvent
  BY <1>2 DEF AllStreamsFailed, OnEventPanics, OnEvent, callVars
<1>3. ASSUME NEW F \in SUBSET Chunk, PutAnswered(F) PROVE PathInv'
  BY <1>3 DEF PutAnswered, callVars
<1>4. ASSUME NEW S \in SUBSET Chunk, PutFails(S) PROVE PathInv'
  BY <1>4 DEF PutFails, callVars
<1>5. CASE Judge
  BY <1>5 DEF Judge, BatchFailed, callVars
<1>6. CASE UNCHANGED vars
  BY <1>6 DEF vars, callVars
<1> QED
  BY <1>1, <1>2, <1>3, <1>4, <1>5, <1>6 DEF Next

LEMMA DropCounts ==
  ASSUME TypeOK, NEW r \in Reasons, NEW n \in Nat, Drop(r, n)
  PROVE  TotalDropped' = TotalDropped + n
<1>1. /\ dropped \in [Reasons -> Nat]
      /\ dropped' = [dropped EXCEPT ![r] = dropped[r] + n]
  BY DEF TypeOK, Drop
<1>2. \A q \in Reasons : dropped[q] \in Nat /\ dropped'[q] = IF q = r THEN dropped[q] + n
                                                                      ELSE dropped[q]
  BY <1>1
<1> QED
  BY <1>2 DEF TotalDropped, Reasons

LEMMA RefinesInit == Init => Promise!Init
<1> SUFFICES ASSUME Init PROVE Promise!Init
  OBVIOUS
<1>1. TotalDropped = 0
  BY DEF Init, TotalDropped, Reasons
<1> QED
  BY <1>1 DEF Init, Promise!Init, Outcome, Streams

LEMMA RefinesStep ==
  ASSUME DeliveryInv, PathInv, [Next]_vars
  PROVE  [Promise!Next]_(Promise!vars)
<1>0. /\ TypeOK /\ i \in Nat /\ batchLen \in Nat /\ numStreams \in Nat
      /\ (i - 1) + 1 = i
  BY DeliveryAssumption DEF DeliveryInv, TypeOK
<1> USE DEF Promise!call, callVars, Promise!Batch
<1>a. /\ stored = [stored EXCEPT ![(i - 1) + 1] = stored[i]]
      /\ \A s \in Streams : stored[s] \cup {} = stored[s] /\ stored[s] \cup stored[s] = stored[s]
  BY <1>0 DEF TypeOK
<1>1. CASE NoStreams
  <2>1. TotalDropped' = TotalDropped + batchLen
    BY <1>0, <1>1, DropCounts DEF NoStreams, Reasons
  <2> QED
    BY <1>0, <1>1, <2>1 DEF NoStreams, PathInv, Promise!Next, Promise!GiveUp, Outcome, Batch
<1>2. CASE NoMessages
  <2>1. i = 1 /\ 1 \in Streams /\ numStreams > 0 /\ ~hasNil /\ Batch = {}
    BY <1>0, <1>2, DeliveryAssumption DEF NoMessages, PathInv, Streams, Batch, TypeOK
  <2> QED
    BY <1>0, <1>2, <1>a, <2>1
    DEF NoMessages, Promise!Next, Promise!Sent, Promise!Trying, Outcome, TotalDropped, Batch
<1>3. CASE EnterLoop \/ OnEvent \/ UNCHANGED vars
  BY <1>3 DEF EnterLoop, OnEvent, vars, Promise!vars, Outcome, TotalDropped, Batch
<1>4. CASE AllStreamsFailed
  <2>1. TotalDropped' = TotalDropped + batchLen
    BY <1>0, <1>4, DropCounts DEF AllStreamsFailed, Reasons
  <2> QED
    BY <1>0, <1>4, <2>1 DEF AllStreamsFailed, Promise!Next, Promise!GiveUp, Outcome, Batch
<1>5. CASE OnEventPanics
  <2>1. TotalDropped' = TotalDropped + batchLen
    BY <1>0, <1>5, DropCounts DEF OnEventPanics, Reasons
  <2> QED
    BY <1>0, <1>5, <2>1 DEF OnEventPanics, PathInv, Promise!Next, Promise!Panic, Outcome, Batch
<1>6. ASSUME NEW S \in SUBSET Batch, pc = "put", pc' \in {"put", "judge"},
             stored' = [stored EXCEPT ![i] = stored[i] \cup S],
             UNCHANGED <<callVars, i, dropped>>
      PROVE  Promise!Store(S)
  <2>1. i - 1 < numStreams /\ ~hasNil
    BY <1>0, <1>6 DEF DeliveryInv, LoopInv, PathInv
  <2>2. Outcome = "running" /\ Outcome' = "running" /\ TotalDropped' = TotalDropped
    BY <1>6 DEF Outcome, TotalDropped
  <2> QED
    BY <1>0, <1>6, <2>1, <2>2 DEF Promise!Store, Promise!Trying, Batch
<1>7. ASSUME NEW F \in SUBSET Chunk, PutAnswered(F) PROVE Promise!Next
  <2>1. Chunk \ F \in SUBSET Batch
    BY <1>0, ChunkProperties
  <2>2. Promise!Store(Chunk \ F)
    BY <1>6, <1>7, <2>1 DEF PutAnswered, Request
  <2> QED
    BY <2>1, <2>2 DEF Promise!Next, Batch
<1>8. ASSUME NEW S \in SUBSET Chunk, PutFails(S) PROVE Promise!Next
  <2>1. S \in SUBSET Batch
    BY <1>0, ChunkProperties
  <2>2. Promise!Store(S)
    BY <1>6, <1>8, <2>1 DEF PutFails, Request
  <2> QED
    BY <2>1, <2>2 DEF Promise!Next, Batch
<1>9. CASE Judge
  <2>1. pc = "judge" /\ i <= numStreams /\ ~hasNil /\ UNCHANGED <<callVars, stored>>
    BY <1>9 DEF Judge, DeliveryInv, LoopInv, PathInv
  <2>a. i \in Streams
    BY <1>0, <2>1, DeliveryAssumption DEF Streams, TypeOK
  <2>2. CASE BatchFailed("send_error") \/ BatchFailed("some_records_failed")
    <3>1. TotalDropped' = TotalDropped + 1
      BY <1>0, <2>2, DropCounts DEF BatchFailed, Reasons
    <3>2. stored' = [stored EXCEPT ![(i - 1) + 1] = @ \cup {}]
      BY <1>0, <1>a, <2>1, <2>a
    <3>3. Outcome = "running" /\ Outcome' = "running" /\ i' - 1 = (i - 1) + 1 /\ i - 1 < numStreams
      BY <1>0, <2>1, <2>2 DEF BatchFailed, Outcome
    <3>4. Promise!StreamFails({})
      BY <2>1, <3>1, <3>2, <3>3 DEF Promise!StreamFails, Promise!Trying
    <3> QED
      BY <3>4 DEF Promise!Next
  <2>3. CASE ~err /\ failedRecordCount = 0 /\ pc' = "ok" /\ UNCHANGED <<i, dropped>>
    <3>1. stored[i] = Batch
      BY <2>1, <2>3 DEF DeliveryInv, StoredInv
    <3>2. stored' = [stored EXCEPT ![(i - 1) + 1] = @ \cup Batch]
      BY <1>0, <1>a, <2>1, <2>a, <3>1
    <3>3. /\ Outcome = "running" /\ Outcome' = "sent" /\ TotalDropped' = TotalDropped
          /\ i' = i /\ i - 1 < numStreams
      BY <1>0, <2>1, <2>3 DEF Outcome, TotalDropped
    <3>4. Promise!Sent
      BY <2>1, <3>2, <3>3 DEF Promise!Sent, Promise!Trying, Batch
    <3> QED
      BY <3>4 DEF Promise!Next
  <2> QED
    BY <1>9, <2>2, <2>3 DEF Judge
<1> QED
  BY <1>1, <1>2, <1>3, <1>4, <1>5, <1>7, <1>8, <1>9 DEF Next

\* Submit keeps the promise of Delivery, for any number of streams, messages,
\* retries and records per request (stream_dispatcher.go:39-105).
THEOREM SubmitImplementsDelivery == Spec => ImplementsDelivery
<1>1. DeliveryInv /\ PathInv /\ [Next]_vars => DeliveryInv' /\ PathInv'
  BY DeliveryStep, PathStep
<1>2. DeliveryInv /\ PathInv /\ [Next]_vars => [Promise!Next]_(Promise!vars)
  BY RefinesStep
<1> QED
  BY DeliveryInit, PathInit, RefinesInit, <1>1, <1>2, PTL
  DEF Spec, ImplementsDelivery, Promise!Spec
-------------------------------------------------------------------------------
(***************************************************************************)
(* The counter.  It covers the whole batch when Submit gives up or panics, *)
(* and when it reports success there is nothing to cover.                  *)
(***************************************************************************)
CountInv ==
  /\ pc \in {"failed", "panicked"} => TotalDropped >= batchLen
  /\ pc = "ok" /\ batchLen > 0 => i <= numStreams

LEMMA CountStep ==
  ASSUME DeliveryInv, CountInv, [Next]_vars
  PROVE  CountInv'
<1>0. TypeOK /\ batchLen \in Nat /\ TotalDropped \in Nat
  BY DeliveryAssumption DEF DeliveryInv, TypeOK, TotalDropped, Reasons
<1> USE DEF CountInv
<1>1. ASSUME NEW r \in Reasons, Drop(r, batchLen), batchLen' = batchLen, pc' # "ok"
      PROVE  CountInv'
  BY <1>0, <1>1, DropCounts
<1>2. CASE NoStreams \/ AllStreamsFailed \/ OnEventPanics
  BY <1>1, <1>2 DEF NoStreams, AllStreamsFailed, OnEventPanics, callVars, Reasons
<1>3. CASE NoMessages \/ EnterLoop \/ OnEvent
  BY <1>3 DEF NoMessages, EnterLoop, OnEvent, callVars
<1>4. ASSUME NEW F \in SUBSET Chunk, PutAnswered(F) PROVE CountInv'
  BY <1>4 DEF PutAnswered
<1>5. ASSUME NEW S \in SUBSET Chunk, PutFails(S) PROVE CountInv'
  BY <1>5 DEF PutFails
<1>6. CASE Judge
  BY <1>6 DEF Judge, BatchFailed, DeliveryInv, LoopInv, callVars
<1>7. CASE UNCHANGED vars
  BY <1>7 DEF vars, callVars, TotalDropped
<1> QED
  BY <1>2, <1>3, <1>4, <1>5, <1>6, <1>7 DEF Next

\* When Submit is over the DroppedMessage counter accounts for every message no
\* stream has (stream_dispatcher.go:43, 51, 69, 94, 98).
THEOREM LossesAreCounted == Spec => []NoSilentLoss
<1>1. Init => CountInv
  BY DEF Init, CountInv
<1>2. DeliveryInv /\ CountInv /\ [Next]_vars => CountInv'
  BY CountStep
<1>3. ASSUME DeliveryInv, CountInv PROVE NoSilentLoss
  <2>1. /\ batchLen \in Nat /\ TotalDropped \in Nat
        /\ stored \in [Streams -> SUBSET Messages] /\ numStreams <= MaxStreams
        /\ i \in 1..(numStreams + 1)
    BY <1>3, DeliveryAssumption DEF DeliveryInv, TypeOK, TotalDropped, Reasons
  <2>2. IsFiniteSet(Batch) /\ Cardinality(Batch) = batchLen
    <3>1. /\ IsFiniteSet(1..batchLen)
          /\ Cardinality(1..batchLen) = IF 1 > batchLen THEN 0 ELSE batchLen - 1 + 1
      BY <2>1, FS_Interval
    <3> QED
      BY <2>1, <3>1 DEF Batch
  <2>3. Cardinality(Lost) \in Nat /\ Cardinality(Lost) <= batchLen
    <3>1. Lost \subseteq Batch
      BY DEF Lost
    <3> QED
      BY <2>2, <3>1, FS_Subset, FS_CardinalityType
  <2>4. CASE pc = "ok"
    <3>1. CASE batchLen = 0
      BY <2>1, <2>3, <3>1 DEF NoSilentLoss
    <3>2. CASE batchLen # 0
      <4>1. stored[i] = Batch /\ 1 \in Batch
        BY <1>3, <2>1, <2>4, <3>2 DEF DeliveryInv, StoredInv, OkMeansStored, Batch
      <4>2. i \in Streams
        BY <1>3, <2>1, <2>4, <3>2, DeliveryAssumption DEF CountInv, DeliveryInv, TypeOK, Streams
      <4>3. Lost = {}
        BY <4>1, <4>2 DEF Lost
      <4> QED
        BY <2>1, <4>3, FS_EmptySet DEF NoSilentLoss
    <3> QED
      BY <3>1, <3>2
  <2>5. CASE pc \in {"failed", "panicked"}
    BY <1>3, <2>1, <2>3, <2>5 DEF CountInv, NoSilentLoss
  <2> QED
    BY <2>4, <2>5 DEF NoSilentLoss, Final
<1> QED
  BY DeliverySafety, <1>1, <1>2, <1>3, PTL DEF Spec
-------------------------------------------------------------------------------
(***************************************************************************)
(* The requests.  A stream not yet tried has had none.  In attempt a at a  *)
(* stream, a message behind start has been in at most a requests and in at *)
(* least one, another in at most a - 1, and the first message in all of    *)
(* the attempts that have sent anything.                                   *)
(***************************************************************************)
Chance(s) == \/ puts[s][1] = MaxRetries + 1
             \/ \A m \in Batch : puts[s][m] > 0

Untried(s) == \A m \in Messages : puts[s][m] = 0

InAttempt ==
  /\ \A m \in Messages : puts[i][m] <= IF m <= start THEN attempt ELSE attempt - 1
  /\ \A m \in 1..start : puts[i][m] > 0
  /\ puts[i][1] = IF start = 0 THEN attempt - 1 ELSE attempt

PutsInv ==
  /\ PutsBounded
  /\ \A s \in Streams : s > i \/ (s = i /\ pc \in {"begin", "next"}) => Untried(s)
  /\ \A s \in Streams : s < i \/ (s = i /\ pc = "judge") => Chance(s)
  /\ pc = "put" => InAttempt
  /\ pc = "failed" => i = numStreams + 1

\* What the request for a chunk does to the counts of an attempt.
LEMMA RequestPuts ==
  ASSUME DeliveryInv, PutsInv, pc = "put", NEW S \in SUBSET Chunk, Request(Chunk, S)
  PROVE  /\ \A s \in Streams \ {i} : puts'[s] = puts[s]
         /\ \A m \in Messages : puts'[i][m] \in Nat /\ puts'[i][m] <= attempt
         /\ \A m \in (1..start) \cup Chunk : puts'[i][m] > 0
         /\ puts'[i][1] = attempt
         /\ \A m \in Messages \ ((1..start) \cup Chunk) : puts'[i][m] <= attempt - 1
<1>1. /\ i \in Streams /\ puts \in [Streams -> [Messages -> Nat]]
      /\ attempt \in Nat \ {0} /\ start \in Nat /\ batchLen \in Nat /\ start < batchLen
      /\ MaxBatchLen \in Nat /\ batchLen <= MaxBatchLen
  BY DeliveryAssumption DEF DeliveryInv, TypeOK, LoopInv, Streams
<1>2. puts' = [puts EXCEPT ![i] = [m \in Messages |-> IF m \in Chunk THEN puts[i][m] + 1
                                                                   ELSE puts[i][m]]]
  BY DEF Request
<1>3. /\ \A s \in Streams \ {i} : puts'[s] = puts[s]
      /\ \A m \in Messages : puts'[i][m] = IF m \in Chunk THEN puts[i][m] + 1 ELSE puts[i][m]
  BY <1>1, <1>2
<1>4. \A m \in Messages : puts[i][m] \in Nat
  BY <1>1
<1>5. /\ Chunk \subseteq Messages /\ 1..start \subseteq Messages /\ 1 \in Messages
      /\ \A m \in Chunk : ~(m <= start)
      /\ start = 0 => 1 \in Chunk
  <2>1. /\ MaxPutRecordsBatchSize \in Nat \ {0}
        /\ Chunk \subseteq Batch
    BY ChunkProperties DEF DeliveryInv
  <2> QED
    BY <1>1, <2>1 DEF Chunk, More, Batch, Messages
<1>6. \A m \in Messages : m <= start <=> m \in 1..start
  BY <1>1 DEF Messages
<1>7. InAttempt
  BY DEF PutsInv
<1>8. ASSUME NEW m \in Messages
      PROVE  /\ puts'[i][m] \in Nat /\ puts'[i][m] <= attempt
             /\ m \in (1..start) \cup Chunk => puts'[i][m] > 0
             /\ m \notin (1..start) \cup Chunk => puts'[i][m] <= attempt - 1
  BY <1>1, <1>3, <1>4, <1>5, <1>6, <1>7 DEF InAttempt
<1>9. puts'[i][1] = attempt
  <2>1. start # 0 => 1 \notin Chunk
    BY <1>1, <1>5
  <2> QED
    BY <1>1, <1>3, <1>4, <1>5, <1>7, <2>1 DEF InAttempt
<1> QED
  BY <1>3, <1>5, <1>8, <1>9

LEMMA PutsInit == Init => PutsInv
<1> SUFFICES ASSUME Init PROVE PutsInv
  OBVIOUS
<1>1. \A s \in Streams, m \in Messages : puts[s][m] = 0
  BY DEF Init
<1> QED
  BY <1>1, DeliveryAssumption DEF Init, PutsInv, PutsBounded, Untried, Streams

LEMMA PutsStep ==
  ASSUME DeliveryInv, PutsInv, [Next]_vars
  PROVE  PutsInv'
<1>0. /\ TypeOK /\ i \in Nat \ {0} /\ numStreams \in Nat /\ numStreams <= MaxStreams
      /\ MaxStreams \in Nat /\ MaxRetries \in Nat /\ attempt \in 1..(MaxRetries + 1)
      /\ batchLen \in Nat /\ i <= numStreams + 1
  BY DeliveryAssumption DEF DeliveryInv, TypeOK
<1>1. ASSUME UNCHANGED <<callVars, i, puts>>, pc' \notin {"put", "judge"},
             pc' \in {"begin", "next"} => pc \in {"begin", "next"},
             pc' = "failed" => i = numStreams + 1
      PROVE  PutsInv'
  BY <1>1 DEF PutsInv, PutsBounded, Untried, Chance, Batch, callVars
<1>2. CASE NoStreams \/ NoMessages \/ EnterLoop
  <2>1. NoStreams => i = numStreams + 1
    BY <1>0 DEF NoStreams
  <2> QED
    BY <1>1, <1>2, <2>1 DEF NoStreams, NoMessages, EnterLoop
<1>3. CASE AllStreamsFailed \/ OnEventPanics
  BY <1>1, <1>3 DEF AllStreamsFailed, OnEventPanics
<1>4. CASE OnEvent
  <2>1. /\ pc = "next" /\ pc' = "put" /\ attempt' = 1 /\ start' = 0 /\ i <= numStreams
        /\ UNCHANGED <<callVars, i, puts>>
    BY <1>4 DEF OnEvent, BeginAttempt
  <2>2. i \in Streams /\ 1 \in Messages /\ Untried(i)
    BY <1>0, <1>4, <2>1, DeliveryAssumption
    DEF PutsInv, DeliveryInv, LoopInv, TypeOK, Streams, Messages
  <2>3. InAttempt'
    BY <2>1, <2>2 DEF Untried, InAttempt, Messages
  <2> QED
    BY <1>0, <2>1, <2>3 DEF PutsInv, PutsBounded, Untried, Chance, Batch, callVars
\* After a request: the streams but i, and the counts of i.
<1>5. ASSUME pc = "put", NEW S \in SUBSET Chunk, Request(Chunk, S),
             UNCHANGED <<callVars, i>>, pc' \in {"put", "judge"},
             pc' = "judge" => Chance(i)',
             pc' = "put" => InAttempt'
      PROVE  PutsInv'
  <2>1. /\ \A s \in Streams \ {i} : puts'[s] = puts[s]
        /\ \A m \in Messages : puts'[i][m] \in Nat /\ puts'[i][m] <= attempt
    BY <1>5, RequestPuts
  <2>2. PutsBounded'
    BY <1>0, <1>5, <2>1 DEF PutsInv, PutsBounded
  <2>3. \A s \in Streams : s > i' => Untried(s)'
    BY <1>0, <1>5, <2>1 DEF PutsInv, Untried
  <2>4. \A s \in Streams : s < i' => Chance(s)'
    BY <1>0, <1>5, <2>1 DEF PutsInv, Chance, Batch, callVars
  <2> QED
    BY <1>0, <1>5, <2>2, <2>3, <2>4 DEF PutsInv
<1>6. ASSUME NEW F \in SUBSET Chunk, PutAnswered(F) PROVE PutsInv'
  <2>1. /\ pc = "put" /\ Request(Chunk, Chunk \ F) /\ Chunk \ F \in SUBSET Chunk
        /\ UNCHANGED <<callVars, i, attempt>>
    BY <1>6 DEF PutAnswered
  <2>2. /\ \A m \in Messages : puts'[i][m] \in Nat /\ puts'[i][m] <= attempt
        /\ \A m \in (1..start) \cup Chunk : puts'[i][m] > 0
        /\ puts'[i][1] = attempt
        /\ \A m \in Messages \ ((1..start) \cup Chunk) : puts'[i][m] <= attempt - 1
    BY <2>1, RequestPuts
  <2>3. CASE More
    <3>1. /\ pc' = pc /\ start' = start + MaxPutRecordsBatchSize
          /\ start \in Nat /\ MaxPutRecordsBatchSize \in Nat \ {0}
          /\ 1..start' = (1..start) \cup Chunk
      BY <1>0, <1>6, <2>3, ChunkProperties DEF PutAnswered
    <3>2. start' # 0 /\ start' \in Nat
      BY <3>1
    <3>3. \A m \in Messages : m <= start' <=> m \in (1..start) \cup Chunk
      BY <3>1, <3>2 DEF Messages
    <3>4. InAttempt'
      <4>1. ASSUME NEW m \in Messages
            PROVE  puts'[i][m] <= IF m <= start' THEN attempt ELSE attempt - 1
        BY <2>2, <3>3
      <4> HIDE DEF Messages
      <4> QED
        BY <2>1, <2>2, <3>1, <3>2, <4>1 DEF InAttempt
    <3> QED
      BY <1>5, <2>1, <3>1, <3>4
  <2>4. CASE ~More
    <3>1. pc' = "judge" /\ Batch' = (1..start) \cup Chunk
      BY <1>0, <1>6, <2>4, ChunkProperties DEF PutAnswered, Batch, callVars
    <3>2. Chance(i)'
      BY <2>1, <2>2, <3>1 DEF Chance
    <3> QED
      BY <1>5, <2>1, <3>1, <3>2
  <2> QED
    BY <2>3, <2>4
<1>7. ASSUME NEW S \in SUBSET Chunk, PutFails(S) PROVE PutsInv'
  <2>1. pc = "put" /\ Request(Chunk, S) /\ UNCHANGED <<callVars, i>>
    BY <1>7 DEF PutFails
  <2>2. /\ \A m \in Messages : puts'[i][m] \in Nat /\ puts'[i][m] <= attempt
        /\ puts'[i][1] = attempt
    BY <2>1, RequestPuts
  <2>3. CASE LastAttempt
    <3>1. pc' = "judge"
      BY <1>7, <2>3 DEF PutFails
    <3>2. Chance(i)'
      BY <2>1, <2>2, <2>3 DEF LastAttempt, Chance
    <3> QED
      BY <1>5, <2>1, <3>1, <3>2
  <2>4. CASE ~LastAttempt
    <3>1. pc' = "put" /\ attempt' = attempt + 1 /\ start' = 0
      BY <1>7, <2>1, <2>4 DEF PutFails, BeginAttempt
    <3>2. InAttempt'
      BY <1>0, <2>1, <2>2, <3>1 DEF InAttempt, Messages
    <3> QED
      BY <1>5, <2>1, <3>1, <3>2
  <2> QED
    BY <2>3, <2>4
<1>8. CASE Judge
  <2>1. pc = "judge" /\ UNCHANGED <<callVars, puts>>
    BY <1>8 DEF Judge
  <2>2. CASE pc' = "next" /\ i' = i + 1
    BY <1>0, <2>1, <2>2 DEF PutsInv, PutsBounded, Untried, Chance, Batch, Streams, callVars
  <2>3. CASE pc' = "ok" /\ i' = i
    BY <1>1, <2>1, <2>3
  <2> QED
    BY <1>8, <2>2, <2>3 DEF Judge, BatchFailed
<1>9. CASE UNCHANGED vars
  BY <1>9 DEF vars, callVars, PutsInv, PutsBounded, Untried, Chance, InAttempt, Batch
<1> QED
  BY <1>2, <1>3, <1>4, <1>6, <1>7, <1>8, <1>9 DEF Next

THEOREM PutsSafety == Spec => [](DeliveryInv /\ PutsInv)
<1>1. DeliveryInv /\ PutsInv /\ [Next]_vars => DeliveryInv' /\ PutsInv'
  BY DeliveryStep, PutsStep
<1> QED
  BY DeliveryInit, PutsInit, <1>1, PTL DEF Spec

\* No stream gets a record more often than there are attempts
\* (kinesis_sender.go:103, stream_dispatcher.go:64-79).
THEOREM CopiesAreBounded == Spec => []PutsBounded
<1>1. PutsInv => PutsBounded
  BY DEF PutsInv
<1> QED
  BY <1>1, PutsSafety, PTL

\* A batch is given up only after each stream was sent all of it in some attempt
\* or its first record in every attempt allowed (stream_dispatcher.go:66-79).
THEOREM EveryStreamIsTried == Spec => []EveryStreamHadItsChance
<1>1. ASSUME DeliveryInv, PutsInv PROVE EveryStreamHadItsChance
  <2>1. /\ numStreams \in Nat /\ numStreams <= MaxStreams /\ MaxStreams \in Nat
        /\ pc = "failed" => i = numStreams + 1
    BY <1>1, DeliveryAssumption DEF DeliveryInv, TypeOK, PutsInv
  <2> QED
    BY <1>1, <2>1 DEF PutsInv, EveryStreamHadItsChance, Chance, Streams
<1> QED
  BY <1>1, PutsSafety, PTL
-------------------------------------------------------------------------------
(***************************************************************************)
(* Progress.  Each action is looked at on its own: what it does to the     *)
(* stream, the phase, the attempt and the place in the batch.  That none   *)
(* goes beyond its end is the type invariant after the step.               *)
(***************************************************************************)
LEMMA PhaseOf ==
  /\ pc = "begin" => Phase = 0
  /\ pc = "next"  => Phase = 1
  /\ pc = "put"   => Phase = 2
  /\ pc = "judge" => Phase = 3
  /\ pc \in Final => Phase = 4
BY DEF Phase, Final

LEMMA PhaseAfter ==
  /\ pc' = "next"  => Phase' = 1
  /\ pc' = "put"   => Phase' = 2
  /\ pc' = "judge" => Phase' = 3
  /\ pc' \in Final => Phase' = 4
BY DEF Phase, Final

LEMMA AdvanceStep ==
  ASSUME DeliveryInv, Next
  PROVE  Advance
<1>0. i \in Nat /\ attempt \in Nat /\ start \in Nat /\ MaxPutRecordsBatchSize \in Nat \ {0}
  BY DeliveryAssumption DEF DeliveryInv, TypeOK
<1>1. ASSUME i' = i, Phase' > Phase PROVE Advance
  BY <1>1 DEF Advance
<1>2. CASE NoStreams \/ NoMessages \/ EnterLoop
  <2>1. pc = "begin" /\ i' = i /\ (pc' = "next" \/ pc' \in Final)
    BY <1>2 DEF NoStreams, NoMessages, EnterLoop, Final
  <2> QED
    BY <1>1, <2>1, PhaseOf, PhaseAfter
<1>3. CASE AllStreamsFailed \/ OnEventPanics \/ OnEvent
  <2>1. pc = "next" /\ i' = i /\ (pc' = "put" \/ pc' \in Final)
    BY <1>3 DEF AllStreamsFailed, OnEventPanics, OnEvent, Final
  <2> QED
    BY <1>1, <2>1, PhaseOf, PhaseAfter
<1>4. ASSUME NEW F \in SUBSET Chunk, PutAnswered(F) PROVE Advance
  <2>1. CASE More
    BY <1>0, <1>4, <2>1 DEF PutAnswered, Advance
  <2>2. CASE ~More
    <3>1. pc = "put" /\ i' = i /\ pc' = "judge"
      BY <1>4, <2>2 DEF PutAnswered
    <3> QED
      BY <1>1, <3>1, PhaseOf, PhaseAfter
  <2> QED
    BY <2>1, <2>2
<1>5. ASSUME NEW S \in SUBSET Chunk, PutFails(S) PROVE Advance
  <2>1. CASE LastAttempt
    <3>1. pc = "put" /\ i' = i /\ pc' = "judge"
      BY <1>5, <2>1 DEF PutFails
    <3> QED
      BY <1>1, <3>1, PhaseOf, PhaseAfter
  <2>2. CASE ~LastAttempt
    BY <1>0, <1>5, <2>2 DEF PutFails, Advance
  <2> QED
    BY <2>1, <2>2
<1>6. CASE Judge
  <2>1. CASE BatchFailed("send_error") \/ BatchFailed("some_records_failed")
    BY <1>0, <2>1 DEF BatchFailed, Advance
  <2>2. CASE pc' = "ok" /\ i' = i
    <3>1. pc = "judge" /\ pc' \in Final
      BY <1>6, <2>2 DEF Judge, Final
    <3> QED
      BY <1>1, <2>2, <3>1, PhaseOf, PhaseAfter
  <2> QED
    BY <1>6, <2>1, <2>2 DEF Judge
<1> QED
  BY <1>2, <1>3, <1>4, <1>5, <1>6 DEF Next

\* Every step of Submit goes on to the next stream, phase, attempt or chunk, and
\* none of them beyond its end: the safety half of SubmitEnds (batch.go:6-17,
\* kinesis.go:219-253, kinesis_sender.go:99-109, stream_dispatcher.go:64-82).
THEOREM SubmitAdvances == Spec => SubmitOnlyAdvances
<1>1. ASSUME DeliveryInv PROVE Ends
  <2>1. MaxRetries \in Nat /\ numStreams \in Nat /\ batchLen \in Nat
    BY <1>1, DeliveryAssumption DEF DeliveryInv, TypeOK
  <2> QED
    BY <1>1, <2>1 DEF DeliveryInv, TypeOK, Ends
<1>2. DeliveryInv /\ [Next]_vars => [Advance]_vars
  BY AdvanceStep
<1> QED
  BY <1>1, <1>2, DeliverySafety, PTL DEF Spec, SubmitOnlyAdvances
===============================================================================
