----------------------------- MODULE BatchDelivery -----------------------------
(***************************************************************************)
(* One call of StreamDispatcher.Submit (filter/stream_dispatcher.go) with  *)
(* all it calls: KinesisSender.OnEvent and its retry runner, and           *)
(* KinesisClient.PutRecords, which cuts the batch into requests.  Calls of *)
(* other worker goroutines share nothing with it but the counters, which   *)
(* are atomic, and the client's credentials, which have no part here.      *)
(*                                                                         *)
(* The messages of the batch are 1..batchLen, the streams 1..numStreams in *)
(* the order of the configuration.  json.Marshal does not fail for a       *)
(* wrp.Message, so OnEvent's items are its messages.                       *)
(***************************************************************************)
EXTENDS Naturals, FiniteSets

CONSTANTS
  MaxStreams,              \* a bound on the streams of a filter
  MaxBatchLen,             \* a bound on the length of a batch
  MaxPutRecordsBatchSize,  \* the most records one request may hold
  MaxRetries               \* MaxRetries of the sender's retry.Config

ASSUME DeliveryAssumption ==
  /\ MaxStreams \in Nat /\ MaxBatchLen \in Nat
  /\ MaxPutRecordsBatchSize \in Nat \ {0}
  /\ MaxRetries \in Nat

VARIABLES
  numStreams, batchLen, \* len(d.streams) and len(msgs)
  hasNil,     \* does the batch hold a nil message?
  pc,         \* where Submit is
  i,          \* the index of the stream tried, from 1
  attempt,    \* the attempt of OnEvent's retry runner, from 1
  start,      \* PutRecords' local start: how many items are behind it
  failedRecordCount, \* PutRecords' local of that name
  err,        \* did the last attempt of OnEvent return an error?
  stored,     \* per stream, the messages Kinesis has stored
  puts,       \* history: per stream and message, the requests that carried it
  dropped     \* the DroppedMessage counter, by reason

callVars == <<numStreams, batchLen, hasNil>>
vars == <<callVars, pc, i, attempt, start, failedRecordCount, err, stored, puts, dropped>>

Streams  == 1..MaxStreams
Messages == 1..MaxBatchLen
Batch    == 1..batchLen
Reasons  == {"no_streams", "panic", "send_error", "some_records_failed", "all_failed"}
Final    == {"ok", "failed", "panicked"}

TypeOK ==
  /\ numStreams \in 0..MaxStreams /\ batchLen \in 0..MaxBatchLen /\ hasNil \in BOOLEAN
  /\ pc \in {"begin", "next", "put", "judge"} \cup Final
  /\ i \in 1..(numStreams + 1) /\ attempt \in 1..(MaxRetries + 1)
  /\ start \in 0..batchLen     \* else the slice items[start:] is out of range
  /\ failedRecordCount \in Nat /\ err \in BOOLEAN
  /\ stored \in [Streams -> SUBSET Messages]
  /\ puts \in [Streams -> [Messages -> Nat]]
  /\ dropped \in [Reasons -> Nat]

Init ==
  /\ numStreams \in 0..MaxStreams /\ batchLen \in 0..MaxBatchLen
  /\ hasNil \in BOOLEAN /\ (hasNil => batchLen > 0)
  /\ pc = "begin" /\ i = 1 /\ attempt = 1 /\ start = 0
  /\ failedRecordCount = 0 /\ err = FALSE
  /\ stored = [s \in Streams |-> {}]
  /\ puts = [s \in Streams |-> [m \in Messages |-> 0]]
  /\ dropped = [r \in Reasons |-> 0]

Drop(reason, n) == dropped' = [dropped EXCEPT ![reason] = @ + n]

-------------------------------------------------------------------------------
(***************************************************************************)
(* Submit, up to its loop over the streams.                                *)
(***************************************************************************)
NoStreams ==
  /\ pc = "begin" /\ numStreams = 0
  /\ pc' = "failed"
  /\ Drop("no_streams", batchLen)
  /\ UNCHANGED <<callVars, i, attempt, start, failedRecordCount, err, stored, puts>>

NoMessages ==
  /\ pc = "begin" /\ numStreams > 0 /\ batchLen = 0
  /\ pc' = "ok"
  /\ UNCHANGED <<callVars, i, attempt, start, failedRecordCount, err, stored, puts,
                 dropped>>

EnterLoop ==
  /\ pc = "begin" /\ numStreams > 0 /\ batchLen > 0
  /\ pc' = "next"
  /\ UNCHANGED <<callVars, i, attempt, start, failedRecordCount, err, stored, puts,
                 dropped>>

-------------------------------------------------------------------------------
(***************************************************************************)
(* The head of the loop: no stream is left, or submitBatch calls OnEvent,  *)
(* which reads m.SessionID of every message before it sends anything.      *)
(***************************************************************************)
\* Mutant: the loop looks for one stream more than there are.
AllStreamsFailedLate ==
  /\ pc = "next" /\ i > numStreams + 1
  /\ pc' = "failed"
  /\ Drop("all_failed", batchLen)
  /\ UNCHANGED <<callVars, i, attempt, start, failedRecordCount, err, stored, puts>>

\* Mutant: the counter moves as it does for a stream.
AllStreamsFailedCountsOne ==
  /\ pc = "next" /\ i = numStreams + 1
  /\ pc' = "failed"
  /\ Drop("all_failed", 1)
  /\ UNCHANGED <<callVars, i, attempt, start, failedRecordCount, err, stored, puts>>

AllStreamsFailed ==
  /\ pc = "next" /\ i = numStreams + 1
  /\ pc' = "failed"
  /\ Drop("all_failed", batchLen)
  /\ UNCHANGED <<callVars, i, attempt, start, failedRecordCount, err, stored, puts>>

OnEventPanics ==
  /\ pc = "next" /\ i <= numStreams /\ hasNil
  /\ pc' = "panicked"
  /\ Drop("panic", batchLen)
  /\ UNCHANGED <<callVars, i, attempt, start, failedRecordCount, err, stored, puts>>

BeginAttempt == start' = 0 /\ failedRecordCount' = 0

OnEvent ==
  /\ pc = "next" /\ i <= numStreams /\ ~hasNil
  /\ pc' = "put"
  /\ attempt' = 1 /\ BeginAttempt
  /\ UNCHANGED <<callVars, i, err, stored, puts, dropped>>

-------------------------------------------------------------------------------
(***************************************************************************)
(* PutRecords: one request per chunk.                                      *)
(***************************************************************************)
\* Mutants of GetBatch's test: an empty request follows a full last one; the
\* end of the items is never noticed.
MoreAfterFull == batchLen - start >= MaxPutRecordsBatchSize
AlwaysMore == TRUE

\* GetBatch(start, MaxPutRecordsBatchSize, items): is there more, and what is
\* the next chunk?
More  == batchLen - start > MaxPutRecordsBatchSize
Chunk == IF More THEN (start + 1)..(start + MaxPutRecordsBatchSize)
                 ELSE (start + 1)..batchLen

\* Kinesis stores the records of S, among those of the request for chunk C.
Request(C, S) ==
  /\ stored' = [stored EXCEPT ![i] = @ \cup S]
  /\ puts' = [puts EXCEPT ![i] = [m \in Messages |-> IF m \in C THEN @[m] + 1 ELSE @[m]]]

\* Mutant: the count of the last request only.
CountLastOnly(F) == failedRecordCount' = Cardinality(F)

CountFailed(F) == failedRecordCount' = failedRecordCount + Cardinality(F)

\* The request is answered; the records of F were refused one by one.
\* The last answer ends the attempt without an error: it is not retried.
PutAnswered(F) ==
  /\ pc = "put" /\ F \subseteq Chunk
  /\ Request(Chunk, Chunk \ F)
  /\ CountFailed(F)
  /\ IF More THEN /\ start' = start + MaxPutRecordsBatchSize
                  /\ UNCHANGED <<pc, err>>
             ELSE /\ pc' = "judge" /\ err' = FALSE
                  /\ UNCHANGED start
  /\ UNCHANGED <<callVars, i, attempt, dropped>>

\* Mutant: one retry too few.
LastAttemptEarly == attempt >= MaxRetries

LastAttempt == attempt = MaxRetries + 1

\* The request fails.  Kinesis may have stored its records all the same, all
\* or some of them: the error may be a lost answer.  The attempt ends, what
\* was stored by its earlier requests stays, and the runner starts another
\* attempt from the first item or gives up.
PutFails(S) ==
  /\ pc = "put" /\ S \subseteq Chunk
  /\ Request(Chunk, S)
  /\ IF LastAttempt THEN /\ pc' = "judge" /\ err' = TRUE
                         /\ UNCHANGED <<attempt, start, failedRecordCount>>
                    ELSE /\ attempt' = attempt + 1 /\ BeginAttempt
                         /\ UNCHANGED <<pc, err>>
  /\ UNCHANGED <<callVars, i, dropped>>

-------------------------------------------------------------------------------
(***************************************************************************)
(* The rest of submitBatch, and the end of an iteration of Submit's loop.  *)
(***************************************************************************)
BatchFailed(reason) ==
  /\ pc' = "next" /\ i' = i + 1
  /\ Drop(reason, 1)

\* Mutant: the number of failed records is ignored.
JudgeErrorOnly ==
  /\ pc = "judge"
  /\ \/ err /\ BatchFailed("send_error")
     \/ ~err /\ pc' = "ok" /\ UNCHANGED <<i, dropped>>
  /\ UNCHANGED <<callVars, attempt, start, failedRecordCount, err, stored, puts>>

\* Mutant: the same stream is tried again.
JudgeStays ==
  /\ pc = "judge"
  /\ \/ (err \/ failedRecordCount > 0) /\ pc' = "next" /\ UNCHANGED <<i, dropped>>
     \/ ~err /\ failedRecordCount = 0 /\ pc' = "ok" /\ UNCHANGED <<i, dropped>>
  /\ UNCHANGED <<callVars, attempt, start, failedRecordCount, err, stored, puts>>

Judge ==
  /\ pc = "judge"
  /\ \/ err /\ BatchFailed("send_error")
     \/ ~err /\ failedRecordCount > 0 /\ BatchFailed("some_records_failed")
     \/ ~err /\ failedRecordCount = 0 /\ pc' = "ok" /\ UNCHANGED <<i, dropped>>
  /\ UNCHANGED <<callVars, attempt, start, failedRecordCount, err, stored, puts>>

Next ==
  \/ NoStreams \/ NoMessages \/ EnterLoop
  \/ AllStreamsFailed \/ OnEventPanics \/ OnEvent
  \/ \E F \in SUBSET Chunk : PutAnswered(F)
  \/ \E S \in SUBSET Chunk : PutFails(S)
  \/ Judge

Spec == Init /\ [][Next]_vars

\* The goroutine that runs Submit keeps running, requests are answered or fail.
FairSpec == Spec /\ WF_vars(Next)

-------------------------------------------------------------------------------
(***************************************************************************)
(* Invariants.                                                             *)
(***************************************************************************)
\* A batch Submit reports as sent (stream_dispatcher.go:75-77) is stored in
\* full in one stream, the one tried last, however its requests were cut,
\* refused in part, failed and retried.
OkMeansStored == pc = "ok" => batchLen = 0 \/ stored[i] = Batch

\* Every request holds between one record and the most Kinesis takes, also
\* when the batch is a multiple of that (batch.go:6-17, kinesis.go:219-222).
RequestsAreLegal ==
  pc = "put" => Chunk # {} /\ Cardinality(Chunk) <= MaxPutRecordsBatchSize

\* No record is sent to a stream more often than there are attempts: a failed
\* attempt repeats requests, failover and partial failures do not.
PutsBounded == \A s \in Streams, m \in Messages : puts[s][m] <= MaxRetries + 1

\* A batch is given up (stream_dispatcher.go:66-70) only after every stream had
\* its chance: each was sent all of it in some attempt, or its first record in
\* every attempt allowed.
EveryStreamHadItsChance ==
  pc = "failed" /\ batchLen > 0 =>
    \A s \in 1..numStreams : \/ puts[s][1] = MaxRetries + 1
                             \/ \A m \in Batch : puts[s][m] > 0

TotalDropped == dropped["no_streams"] + dropped["panic"] + dropped["send_error"]
                  + dropped["some_records_failed"] + dropped["all_failed"]

Lost == Batch \ UNION {stored[s] : s \in Streams}

\* When Submit is over the DroppedMessage counter accounts for every message
\* that no stream has.
NoSilentLoss == pc \in Final => TotalDropped >= Cardinality(Lost)

Phase == CASE pc = "begin" -> 0
           [] pc = "next"  -> 1
           [] pc = "put"   -> 2
           [] pc = "judge" -> 3
           [] OTHER        -> 4

\* The next stream, or the same and the next phase, or in its requests the next
\* attempt, or in that the next chunk.
Advance ==
  \/ i' > i
  \/ i' = i /\ Phase' > Phase
  \/ /\ i' = i /\ pc = "put" /\ pc' = "put"
     /\ attempt' > attempt \/ (attempt' = attempt /\ start' > start)

Ends == i <= numStreams + 1 /\ attempt <= MaxRetries + 1 /\ start <= batchLen

\* Chunks, retries and failover are loops within loops, ended by four variables
\* of three functions (batch.go:6-17, kinesis.go:219-253, kinesis_sender.go:99-109,
\* stream_dispatcher.go:64-82): every step goes on in this order, and none of
\* them goes beyond its end, so Submit has a bounded number of steps.
SubmitOnlyAdvances == [][Advance /\ Ends']_vars

-------------------------------------------------------------------------------
(***************************************************************************)
(* Refinement: the requests, answers and attempts at one stream are the    *)
(* partial stores of Delivery.                                             *)
(***************************************************************************)
Outcome == CASE pc = "ok"       -> "sent"
             [] pc = "failed"   -> "failed"
             [] pc = "panicked" -> "panicked"
             [] OTHER           -> "running"

Promise == INSTANCE Delivery WITH
             tried <- i - 1, outcome <- Outcome, counted <- TotalDropped

\* Submit tries the streams in order, ends with the batch in one of them in
\* full or with every stream tried and the whole batch counted, and touches
\* nothing afterwards (stream_dispatcher.go:39-105), though one stream takes
\* many requests and several attempts.
ImplementsDelivery == Promise!Spec

\* Submit ends: retries and failover are bounded.
SubmitEnds == <>(pc \in Final)
===============================================================================
