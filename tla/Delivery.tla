------------------------------- MODULE Delivery -------------------------------
(***************************************************************************)
(* What StreamDispatcher.Submit (filter/stream_dispatcher.go) promises the *)
(* queue that hands it a batch: the streams of the filter are tried one by *)
(* one in the order of the configuration; the batch is sent once a stream  *)
(* has all of it, and given up, with all its messages counted, once every  *)
(* stream has failed.  How a stream is tried (requests, refused records,   *)
(* retries, lost answers) is left open: it may end up with any part of the *)
(* batch, bit by bit or at once.                                           *)
(***************************************************************************)
EXTENDS Naturals

CONSTANTS MaxStreams, MaxBatchLen  \* bounds

VARIABLES
  numStreams, \* the filter's streams are 1..numStreams
  batchLen,   \* the messages of the batch are 1..batchLen
  hasNil,     \* is there a nil message among them?
  tried,      \* how many streams have failed
  stored,     \* per stream, the messages stored there
  outcome,    \* "running", "sent", "failed" or "panicked"
  counted     \* the DroppedMessage counter

vars == <<numStreams, batchLen, hasNil, tried, stored, outcome, counted>>
call == <<numStreams, batchLen, hasNil>>

Batch == 1..batchLen

Init ==
  /\ numStreams \in 0..MaxStreams /\ batchLen \in 0..MaxBatchLen
  /\ hasNil \in BOOLEAN /\ (hasNil => batchLen > 0)
  /\ tried = 0 /\ outcome = "running" /\ counted = 0
  /\ stored = [s \in 1..MaxStreams |-> {}]

Trying == outcome = "running" /\ tried < numStreams /\ ~hasNil

\* A stream stores some of the messages.
Store(S) ==
  /\ Trying
  /\ stored' = [stored EXCEPT ![tried + 1] = @ \cup S]
  /\ UNCHANGED <<call, tried, outcome, counted>>

\* It has failed, whatever it stored, and stores now; one is counted.
StreamFails(S) ==
  /\ Trying
  /\ stored' = [stored EXCEPT ![tried + 1] = @ \cup S]
  /\ tried' = tried + 1
  /\ counted' = counted + 1
  /\ UNCHANGED <<call, outcome>>

\* It has the batch.  An empty batch is sent without asking it.
Sent ==
  /\ Trying
  /\ stored' = [stored EXCEPT ![tried + 1] = @ \cup Batch]
  /\ outcome' = "sent"
  /\ UNCHANGED <<call, tried, counted>>

\* Every stream has failed, or there is none.
GiveUp ==
  /\ outcome = "running" /\ tried = numStreams
  /\ outcome' = "failed"
  /\ counted' = counted + batchLen
  /\ UNCHANGED <<call, tried, stored>>

\* A nil message panics before the first stream gets anything.
Panic ==
  /\ outcome = "running" /\ tried = 0 /\ numStreams > 0 /\ hasNil
  /\ outcome' = "panicked"
  /\ counted' = counted + batchLen
  /\ UNCHANGED <<call, tried, stored>>

Next ==
  \/ \E S \in SUBSET Batch : Store(S) \/ StreamFails(S)
  \/ Sent \/ GiveUp \/ Panic

Spec == Init /\ [][Next]_vars
===============================================================================
