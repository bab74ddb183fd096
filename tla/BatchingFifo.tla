----------------------------- MODULE BatchingFifo -----------------------------
(***************************************************************************)
(* What the queue of internal/queue promises whoever fills it and the      *)
(* Submitter it feeds, as long as nobody empties it: every message it      *)
(* takes is handed over once, in the order of arrival, in batches of at    *)
(* most MaxBatchSize, until its context ends: then nothing is handed over  *)
(* any more.  How batches are cut (batch size, ticker, empty queue), who   *)
(* submits them and when the buffer refuses messages is left open.         *)
(***************************************************************************)
EXTENDS Naturals, Sequences

CONSTANTS Msgs, MaxBatchSize

VARIABLES
  backlog,  \* messages taken and not yet handed over
  out,      \* messages handed over
  ended     \* has the context ended?

vars == <<backlog, out, ended>>

Init == backlog = <<>> /\ out = <<>> /\ ended = FALSE

Taken == {(out \o backlog)[i] : i \in DOMAIN (out \o backlog)}

Accept(m) ==
  /\ m \notin Taken
  /\ backlog' = Append(backlog, m)
  /\ UNCHANGED <<out, ended>>

HandOver(k) ==
  /\ ~ended /\ k <= Len(backlog)
  /\ out' = out \o SubSeq(backlog, 1, k)
  /\ backlog' = SubSeq(backlog, k + 1, Len(backlog))
  /\ UNCHANGED ended

Hand == \E k \in 1..MaxBatchSize : HandOver(k)

End == ~ended /\ ended' = TRUE /\ UNCHANGED <<backlog, out>>

Next == Hand \/ (\E m \in Msgs : Accept(m)) \/ End

Spec == Init /\ [][Next]_vars

\* Before the end the backlog never waits forever.
FairSpec == Spec /\ WF_vars(Hand)
===============================================================================
