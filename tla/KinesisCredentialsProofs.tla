----------------------- MODULE KinesisCredentialsProofs -----------------------
(***************************************************************************)
(* The credentials of KinesisCredentials for any number of workers and any *)
(* lifetime, margin and delay allowed by its assumption.                   *)
(***************************************************************************)
EXTENDS KinesisCredentials, TLAPS

(***************************************************************************)
(* The inductive invariant.  A worker that is under way has not been so    *)
(* for longer than MaxDelay; what it got from STS is as fresh as its call; *)
(* a client in place is never older than what a worker that has put its    *)
(* own in place got, less a delay.                                         *)
(***************************************************************************)
HasGot(w) == pc[w] \in {"got", "gotWroteTime", "gotWroteSvc"}

ClockInv ==
  /\ credsExpireAt <= now + Lifetime /\ svc <= now + Lifetime
  /\ \A w \in Workers :
       /\ pc[w] # "idle" => since[w] <= now /\ now <= since[w] + MaxDelay
       /\ HasGot(w) => since[w] + Lifetime <= got[w] /\ got[w] <= now + Lifetime

FreshInv ==
  /\ TimeIsClose
  /\ \A w \in Workers :
       /\ pc[w] = "gotWroteSvc" => got[w] <= svc + MaxDelay
       /\ pc[w] = "send" /\ ~failed[w] /\ ~MidSave => since[w] + Margin < svc + MaxDelay

CredentialsInv == TypeOK /\ ClockInv /\ FreshInv

LEMMA CredentialsInit == Init => CredentialsInv
BY CredentialsAssumption
   DEF Init, CredentialsInv, TypeOK, ClockInv, FreshInv, TimeIsClose, MidSave, HasGot, Points

LEMMA Delays ==
  /\ Lifetime \in Nat /\ Margin \in Nat /\ MaxDelay \in Nat /\ Horizon \in Nat
  /\ Margin < Lifetime /\ 2 * MaxDelay <= Margin
BY CredentialsAssumption

\* The types of the steps a worker takes, one by one.
LEMMA TypeStep == TypeOK /\ [Next]_vars => TypeOK'
<1> SUFFICES ASSUME TypeOK, [Next]_vars PROVE TypeOK'
  OBVIOUS
<1> USE Delays DEF TypeOK
<1>1. CASE Tick
  BY <1>1 DEF Tick
<1>2. ASSUME NEW w \in Workers, NEW point \in Points, Goto(w, point)
      PROVE  pc' \in [Workers -> Points]
  BY <1>2 DEF Goto
<1>3. ASSUME NEW w \in Workers, refreshClient(w) PROVE TypeOK'
  <2>1. CASE Begin(w)
    BY <1>2, <2>1 DEF Begin, Points
  <2>2. CASE Check(w)
    <3>1. (IF Expiring THEN "sts" ELSE "send") \in Points
      BY DEF Points
    <3> QED
      BY <1>2, <2>2, <3>1 DEF Check
  <2>3. CASE Retrieve(w)
    <3>1. now + Lifetime \in Nat
      OBVIOUS
    <3> QED
      BY <1>2, <2>3, <3>1 DEF Retrieve, Points
  <2>4. CASE RetrieveFails(w)
    BY <1>2, <2>4 DEF RetrieveFails, Points
  <2>5. CASE SaveTime(w)
    BY <1>2, <2>5 DEF SaveTime, Points
  <2>6. CASE SaveSvc(w)
    BY <1>2, <2>6 DEF SaveSvc, Points
  <2>7. CASE Send(w)
    BY <1>2, <2>7 DEF Send, Points
  <2> QED
    BY <1>3, <2>1, <2>2, <2>3, <2>4, <2>5, <2>6, <2>7 DEF refreshClient
<1>4. CASE UNCHANGED vars
  BY <1>4 DEF vars
<1> QED
  BY <1>1, <1>3, <1>4 DEF Next

LEMMA ClockStep == CredentialsInv /\ [Next]_vars => ClockInv'
<1> SUFFICES ASSUME CredentialsInv, [Next]_vars PROVE ClockInv'
  OBVIOUS
<1>1. /\ now \in Nat /\ credsExpireAt \in Nat /\ svc \in Nat
      /\ \A w \in Workers : since[w] \in Nat /\ got[w] \in Nat
      /\ pc \in [Workers -> Points] /\ since \in [Workers -> Nat] /\ got \in [Workers -> Nat]
  BY Delays DEF CredentialsInv, TypeOK
<1>2. ClockInv
  BY DEF CredentialsInv
<1> USE Delays, <1>1, <1>2 DEF ClockInv, HasGot
<1>3. CASE Tick
  BY <1>3 DEF Tick
<1>4. ASSUME NEW w \in Workers, refreshClient(w) PROVE ClockInv'
  <2>1. CASE Begin(w)
    BY <2>1 DEF Begin, Goto
  <2>2. CASE Check(w)
    <3>1. /\ pc[w] = "check" /\ pc'[w] \in {"sts", "send"}
          /\ \A u \in Workers \ {w} : pc'[u] = pc[u]
          /\ UNCHANGED <<now, credsExpireAt, svc, since, got, failed>>
      BY <2>2 DEF Check, Goto
    <3> QED
      BY <3>1
  <2>3. CASE Retrieve(w)
    BY <2>3 DEF Retrieve, Goto
  <2>4. CASE RetrieveFails(w)
    BY <2>4 DEF RetrieveFails, Goto
  <2>5. CASE SaveTime(w)
    BY <2>5 DEF SaveTime, Goto
  <2>6. CASE SaveSvc(w)
    BY <2>6 DEF SaveSvc, Goto
  <2>7. CASE Send(w)
    BY <2>7 DEF Send, Goto
  <2> QED
    BY <1>4, <2>1, <2>2, <2>3, <2>4, <2>5, <2>6, <2>7 DEF refreshClient
<1>5. CASE UNCHANGED vars
  BY <1>5 DEF vars
<1> QED
  BY <1>3, <1>4, <1>5 DEF Next

\* A client put in place is as fresh as any that anybody got, less a delay, and
\* fresh enough for every worker on its way to a request.
LEMMA SavedIsFresh ==
  ASSUME CredentialsInv, NEW w \in Workers, HasGot(w), NEW u \in Workers
  PROVE  /\ HasGot(u) => got[u] <= got[w] + MaxDelay
         /\ credsExpireAt <= got[w] + MaxDelay
         /\ svc <= got[w] + MaxDelay
         /\ pc[u] # "idle" => since[u] + Margin < got[w] + MaxDelay
<1>1. /\ now \in Nat /\ credsExpireAt \in Nat /\ svc \in Nat
      /\ since[w] \in Nat /\ got[w] \in Nat /\ since[u] \in Nat /\ got[u] \in Nat
  BY Delays DEF CredentialsInv, TypeOK
<1> QED
  BY <1>1, Delays DEF CredentialsInv, ClockInv, HasGot

LEMMA FreshStep == CredentialsInv /\ [Next]_vars => FreshInv'
<1> SUFFICES ASSUME CredentialsInv, [Next]_vars PROVE FreshInv'
  OBVIOUS
<1>1. /\ now \in Nat /\ credsExpireAt \in Nat /\ svc \in Nat
      /\ \A w \in Workers : since[w] \in Nat /\ got[w] \in Nat
      /\ pc \in [Workers -> Points] /\ since \in [Workers -> Nat] /\ got \in [Workers -> Nat]
      /\ failed \in [Workers -> BOOLEAN]
  BY Delays DEF CredentialsInv, TypeOK
<1>2. FreshInv
  BY DEF CredentialsInv
<1> USE Delays, <1>1, <1>2 DEF FreshInv, TimeIsClose, MidSave
<1>3. CASE Tick
  BY <1>3 DEF Tick
<1>4. ASSUME NEW w \in Workers, refreshClient(w) PROVE FreshInv'
  <2>1. CASE Begin(w)
    BY <2>1 DEF Begin, Goto
  <2>2. CASE Check(w)
    <3>1. /\ pc[w] = "check" /\ pc'[w] = IF Expiring THEN "sts" ELSE "send"
          /\ \A u \in Workers \ {w} : pc'[u] = pc[u]
          /\ UNCHANGED <<now, credsExpireAt, svc, since, got, failed>>
      BY <2>2 DEF Check, Goto
    <3>2. since[w] <= now
      BY <3>1 DEF CredentialsInv, ClockInv
    <3> QED
      BY <3>1, <3>2 DEF Expiring
  <2>3. CASE Retrieve(w)
    BY <2>3 DEF Retrieve, Goto
  <2>4. CASE RetrieveFails(w)
    BY <2>4 DEF RetrieveFails, Goto
  <2>5. CASE SaveTime(w)
    BY <2>5 DEF SaveTime, Goto, CredentialsInv, ClockInv, HasGot
  <2>6. CASE SaveSvc(w)
    <3>1. HasGot(w)
      BY <2>6 DEF SaveSvc, HasGot
    <3>2. \A u \in Workers : /\ HasGot(u) => got[u] <= got[w] + MaxDelay
                             /\ pc[u] # "idle" => since[u] + Margin < got[w] + MaxDelay
      BY <3>1, SavedIsFresh
    <3>3. credsExpireAt <= got[w] + MaxDelay
      BY <3>1, SavedIsFresh
    <3> QED
      BY <2>6, <3>2, <3>3 DEF SaveSvc, Goto, HasGot
  <2>7. CASE Send(w)
    BY <2>7 DEF Send, Goto
  <2> QED
    BY <1>4, <2>1, <2>2, <2>3, <2>4, <2>5, <2>6, <2>7 DEF refreshClient
<1>5. CASE UNCHANGED vars
  BY <1>5 DEF vars
<1> QED
  BY <1>3, <1>4, <1>5 DEF Next

THEOREM CredentialsSafety == Spec => []CredentialsInv
<1>1. CredentialsInv /\ [Next]_vars => CredentialsInv'
  BY TypeStep, ClockStep, FreshStep DEF CredentialsInv
<1> QED
  BY CredentialsInit, <1>1, PTL DEF Spec

-------------------------------------------------------------------------------
\* Type correctness.
THEOREM TypeCorrect == Spec => []TypeOK
BY CredentialsSafety, PTL DEF CredentialsInv

\* Between refreshClient's test or renewal and the request (kinesis.go:224-231)
\* the credentials do not expire, unless another worker is between its two
\* assignments (kinesis.go:333-334).
THEOREM CredentialsAreLive == Spec => []LiveUnlessMidSave
<1>1. CredentialsInv => LiveUnlessMidSave
  <2> SUFFICES ASSUME CredentialsInv, NEW w \in Workers, pc[w] = "send", ~failed[w], ~MidSave
               PROVE  svc > now
    BY DEF LiveUnlessMidSave
  <2>1. now \in Nat /\ svc \in Nat /\ since[w] \in Nat
    BY Delays DEF CredentialsInv, TypeOK
  <2>2. now <= since[w] + MaxDelay /\ since[w] + Margin < svc + MaxDelay
    BY DEF CredentialsInv, ClockInv, FreshInv
  <2> QED
    BY <2>1, <2>2, Delays
<1> QED
  BY CredentialsSafety, <1>1, PTL

\* The saved time is ahead of the client's by one delay at most once the
\* assignments (kinesis.go:333-334) are made.
THEOREM SavedTimeIsClose == Spec => []TimeIsClose
BY CredentialsSafety, PTL DEF CredentialsInv, FreshInv

\* c.svc is never replaced by a client older by more than a delay.
THEOREM ClientsDoNotAge == Spec => ClientNeverAges
<1>1. CredentialsInv /\ [Next]_vars => [svc' >= svc - MaxDelay]_vars
  <2> SUFFICES ASSUME CredentialsInv, Next PROVE svc' >= svc - MaxDelay
    OBVIOUS
  <2>1. svc \in Nat /\ \A w \in Workers : got[w] \in Nat
    BY DEF CredentialsInv, TypeOK
  <2>2. ASSUME NEW w \in Workers, SaveSvc(w) PROVE svc' >= svc - MaxDelay
    <3>1. svc' = got[w] /\ HasGot(w)
      BY <2>2 DEF SaveSvc, HasGot
    <3>2. svc <= got[w] + MaxDelay
      BY <3>1, SavedIsFresh
    <3> QED
      BY <2>1, <3>1, <3>2, Delays
  <2>3. CASE svc' = svc
    BY <2>1, <2>3, Delays
  <2> QED
    BY <2>2, <2>3 DEF Next, Tick, refreshClient, Begin, Check, Retrieve, RetrieveFails,
       SaveTime, Send
<1> QED
  BY CredentialsSafety, <1>1, PTL DEF Spec, ClientNeverAges
===============================================================================
