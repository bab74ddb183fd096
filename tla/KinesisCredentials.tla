-------------------------- MODULE KinesisCredentials --------------------------
(***************************************************************************)
(* The assumed-role credentials of one KinesisClient                       *)
(* (internal/kinesis/kinesis.go), shared without a lock by the worker      *)
(* goroutines of a filter's queue: each calls refreshClient before every   *)
(* request and then sends with whatever client c.svc holds.                *)
(*                                                                         *)
(* The client has a role; without one refreshClient does nothing and the   *)
(* credentials are static.  A client is modelled by the time at which its  *)
(* credentials expire.  The fields credsExpireAt and svc are written and   *)
(* read without synchronisation: nothing orders the two writes for another *)
(* goroutine, so they take effect in either order.                         *)
(***************************************************************************)
EXTENDS Integers, FiniteSets

CONSTANTS
  Workers,   \* the goroutines that share the client
  Lifetime,  \* how long the credentials of an AssumeRole answer are valid
  Margin,    \* refreshClient's 3 minutes
  MaxDelay,  \* a bound on the time from refreshClient's call to the request
  Horizon    \* a bound on the clock

(***************************************************************************)
(* AssumeRole's default lifetime, 15 minutes, exceeds the margin.  A call  *)
(* takes less than half the margin: the HTTP client of getClient gives up  *)
(* after 10 seconds and the SDK after 3 attempts (kinesis.go:131-134).     *)
(***************************************************************************)
ASSUME CredentialsAssumption ==
  /\ Lifetime \in Nat /\ Margin \in Nat /\ MaxDelay \in Nat /\ Horizon \in Nat
  /\ Margin < Lifetime
  /\ 2 * MaxDelay <= Margin

VARIABLES
  now,            \* the time
  credsExpireAt,  \* c.credsExpireAt
  svc,            \* c.svc: when the credentials of its client expire
  pc,             \* control point of each worker
  since,          \* when the worker called refreshClient
  got,            \* the worker's locals k and credsExpireAt
  failed          \* did the worker's refresh fail?

vars == <<now, credsExpireAt, svc, pc, since, got, failed>>

\* got: the answer is there; nothing, one or both of the fields are written.
Points == {"idle", "check", "sts", "got", "gotWroteTime", "gotWroteSvc", "send"}

TypeOK ==
  /\ now \in 0..Horizon
  /\ credsExpireAt \in Nat /\ svc \in Nat
  /\ pc \in [Workers -> Points]
  /\ since \in [Workers -> Nat] /\ got \in [Workers -> Nat]
  /\ failed \in [Workers -> BOOLEAN]

\* New has called getClient once.
Init ==
  /\ now = 0
  /\ credsExpireAt = Lifetime /\ svc = Lifetime
  /\ pc = [w \in Workers |-> "idle"]
  /\ since = [w \in Workers |-> 0] /\ got = [w \in Workers |-> 0]
  /\ failed = [w \in Workers |-> FALSE]

Goto(w, point) == pc' = [pc EXCEPT ![w] = point]

-------------------------------------------------------------------------------
\* PutRecords calls refreshClient for its next request.
Begin(w) ==
  /\ pc[w] = "idle" /\ Goto(w, "check")
  /\ since' = [since EXCEPT ![w] = now]
  /\ failed' = [failed EXCEPT ![w] = FALSE]
  /\ UNCHANGED <<now, credsExpireAt, svc, got>>

\* Mutant: the credentials are renewed when they have expired, not before.
ExpiringNoMargin == credsExpireAt <= now

Expiring == credsExpireAt <= now + Margin

Check(w) ==
  /\ pc[w] = "check"
  /\ Goto(w, IF Expiring THEN "sts" ELSE "send")
  /\ UNCHANGED <<now, credsExpireAt, svc, since, got, failed>>

\* STS answers.
Retrieve(w) ==
  /\ pc[w] = "sts" /\ Goto(w, "got")
  /\ got' = [got EXCEPT ![w] = now + Lifetime]
  /\ UNCHANGED <<now, credsExpireAt, svc, since, failed>>

\* Mutants: the error is not looked at and getClient's zero results are saved;
\* the time is moved on although the client stays.
RetrieveFailsSaves(w) ==
  /\ pc[w] = "sts" /\ Goto(w, "got")
  /\ got' = [got EXCEPT ![w] = 0]
  /\ UNCHANGED <<now, credsExpireAt, svc, since, failed>>

RetrieveFailsMovesTime(w) ==
  /\ pc[w] = "sts" /\ Goto(w, "send")
  /\ failed' = [failed EXCEPT ![w] = TRUE]
  /\ credsExpireAt' = now + Lifetime
  /\ UNCHANGED <<now, svc, since, got>>

\* getClient fails; the old client stays.
RetrieveFails(w) ==
  /\ pc[w] = "sts" /\ Goto(w, "send")
  /\ failed' = [failed EXCEPT ![w] = TRUE]
  /\ UNCHANGED <<now, credsExpireAt, svc, since, got>>

SaveTime(w) ==
  /\ \/ pc[w] = "got" /\ Goto(w, "gotWroteTime")
     \/ pc[w] = "gotWroteSvc" /\ Goto(w, "send")
  /\ credsExpireAt' = got[w]
  /\ UNCHANGED <<now, svc, since, got, failed>>

SaveSvc(w) ==
  /\ \/ pc[w] = "got" /\ Goto(w, "gotWroteSvc")
     \/ pc[w] = "gotWroteTime" /\ Goto(w, "send")
  /\ svc' = got[w]
  /\ UNCHANGED <<now, credsExpireAt, since, got, failed>>

\* c.svc.PutRecords
Send(w) ==
  /\ pc[w] = "send" /\ Goto(w, "idle")
  /\ UNCHANGED <<now, credsExpireAt, svc, since, got, failed>>

\* Time passes; no worker takes longer than MaxDelay from call to request.
Tick ==
  /\ now < Horizon
  /\ \A w \in Workers : pc[w] = "idle" \/ now < since[w] + MaxDelay
  /\ now' = now + 1
  /\ UNCHANGED <<credsExpireAt, svc, pc, since, got, failed>>

refreshClient(w) == \/ Begin(w) \/ Check(w) \/ Retrieve(w) \/ RetrieveFails(w)
                    \/ SaveTime(w) \/ SaveSvc(w) \/ Send(w)

Next == Tick \/ \E w \in Workers : refreshClient(w)

Spec == Init /\ [][Next]_vars

-------------------------------------------------------------------------------
(***************************************************************************)
(* Properties.                                                             *)
(***************************************************************************)
\* Is a worker between the assignments to credsExpireAt and svc?
MidSave == \E w \in Workers : pc[w] = "gotWroteTime"

\* A request is about to be sent with credentials that have not expired, unless
\* the very refresh before it failed, or another worker has saved the time of a
\* new client and not yet the client (kinesis.go:323-337) -- however long the
\* client was idle and in whatever order two workers' assignments mix.
LiveUnlessMidSave ==
  \A w \in Workers : pc[w] = "send" /\ ~failed[w] /\ ~MidSave => svc > now

\* Two workers that refresh at once may leave one's time and the other's client
\* behind; the time is then ahead of the client by less than a call takes.
TimeIsClose == ~MidSave => credsExpireAt <= svc + MaxDelay

\* A worker that saves its client late does not undo another's refresh: the
\* client it puts in place is older by less than a call takes.
ClientNeverAges == [][svc' >= svc - MaxDelay]_vars
===============================================================================
