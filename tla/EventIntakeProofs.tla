--------------------------- MODULE EventIntakeProofs ---------------------------
(***************************************************************************)
(* Admission and fan-out in EventIntake for any number of requests and     *)
(* filters, any limit, and with Shutdown at any moment.                    *)
(***************************************************************************)
EXTENDS EventIntake, FiniteSetTheorems, TLAPS

\* Next, action by action.
LEMMA NextActions ==
  ASSUME Next
  PROVE  \/ \E r \in Requests : \/ UnsupportedMediaType(r) \/ Refuse(r) \/ Admit(r)
                                \/ BadRequest(r) \/ HandleEvent(r) \/ Leave(r)
                                \/ RangeDone(r) \/ RangeFatal(r)
                                \/ AddItemCheck(r) \/ AddItemDrop(r)
                                \/ AddItemBind(r) \/ AddItemSend(r)
         \/ \E r \in Requests, f \in Filters : Mismatch(r, f) \/ Match(r, f)
         \/ \E f \in Filters : Start(f) \/ Receive(f) \/ ReceiveZero(f) \/ NilBatch(f)
         \/ ShutdownNext \/ ShutdownClose \/ ShutdownEmpty \/ WaitReturns \/ Delete
BY Zenon DEF Next, Arrive, ServeHTTP, Loop, Shutdown

(***************************************************************************)
(* The handlers on their way, and what a step does to their number.        *)
(***************************************************************************)
Handling == {r \in Requests : pc[r] \notin {"new", "answered"}}

AdmissionInv ==
  /\ incomingQueueDepth \in Nat
  /\ pc \in [Requests -> Points]
  /\ DepthIsExact
  /\ AdmissionBound

InAdmission == {r \in Requests : pc[r] \in Admitted}

\* The steps that neither begin nor end a handler.
Within ==
  /\ incomingQueueDepth' = incomingQueueDepth
  /\ pc' \in [Requests -> Points]
  /\ Handling' = Handling
  /\ InAdmission' \subseteq InAdmission

LEMMA WithinStep ==
  ASSUME pc \in [Requests -> Points], [Next]_vars
  PROVE  Within \/ \E r \in Requests : Refuse(r) \/ Admit(r) \/ Leave(r)
<1> DEFINE Moves(r, p, q) == /\ pc[r] = p /\ pc' = [pc EXCEPT ![r] = q]
                             /\ incomingQueueDepth' = incomingQueueDepth
<1>1. ASSUME NEW r \in Requests, NEW p \in Points, NEW q \in Points, Moves(r, p, q),
             p \in {"new", "answered"} <=> q \in {"new", "answered"},
             q \in Admitted => p \in Admitted
      PROVE  Within
  BY <1>1 DEF Within, Handling, InAdmission
<1>2. ASSUME UNCHANGED <<pc, incomingQueueDepth>> PROVE Within
  BY <1>2 DEF Within, Handling, InAdmission
<1>3. ASSUME NEW r \in Requests,
             UnsupportedMediaType(r) \/ BadRequest(r) \/ HandleEvent(r) \/ RangeDone(r)
      PROVE  Within
  BY <1>1, <1>3 DEF UnsupportedMediaType, BadRequest, HandleEvent, RangeDone, Answer, Goto,
     Points, Admitted
<1>4. ASSUME NEW r \in Requests,
             AddItemCheck(r) \/ AddItemDrop(r) \/ AddItemBind(r) \/ AddItemSend(r)
      PROVE  Within
  BY <1>1, <1>4 DEF AddItemCheck, AddItemDrop, AddItemBind, AddItemSend, Answer, Goto,
     Points, Admitted
<1>5. ASSUME NEW r \in Requests, NEW f \in Filters, Mismatch(r, f) \/ Match(r, f)
      PROVE  Within
  BY <1>1, <1>2, <1>5 DEF Mismatch, Match, NextFilter, Goto, Points, Admitted
<1>6. CASE ShutdownClose
  BY <1>6 DEF ShutdownClose, Close, WaitsFor, Within, Handling, InAdmission, Points, Admitted
<1>7. ASSUME \/ \E r \in Requests : RangeFatal(r)
             \/ \E f \in Filters : Start(f) \/ Receive(f) \/ ReceiveZero(f) \/ NilBatch(f)
             \/ ShutdownNext \/ ShutdownEmpty \/ WaitReturns \/ Delete
             \/ UNCHANGED vars
      PROVE  Within
  BY <1>2, <1>7 DEF RangeFatal, Start, Receive, ReceiveZero, NilBatch, ShutdownNext,
     ShutdownEmpty,
     WaitReturns, Delete, vars, handlerVars
<1> QED
  BY <1>3, <1>4, <1>5, <1>6, <1>7, NextActions

LEMMA AdmissionInit == Init => AdmissionInv
<1> SUFFICES ASSUME Init PROVE AdmissionInv
  OBVIOUS
<1>1. Handling = {} /\ InAdmission = {}
  BY DEF Init, Handling, InAdmission, Admitted
<1>2. Cardinality({}) = 0
  BY FS_EmptySet
<1>3. DepthIsExact /\ AdmissionBound
  <2>1. incomingQueueDepth = Cardinality(Handling)
    BY <1>1, <1>2 DEF Init
  <2>2. Cardinality(InAdmission) <= maxOutstanding
    BY <1>1, <1>2, IntakeAssumption
  <2> QED
    BY <2>1, <2>2 DEF DepthIsExact, AdmissionBound, Handling, InAdmission
<1>4. incomingQueueDepth \in Nat /\ pc \in [Requests -> Points]
  BY DEF Init, Points
<1> QED
  BY <1>3, <1>4 DEF AdmissionInv

LEMMA AdmissionStep == AdmissionInv /\ [Next]_vars => AdmissionInv'
<1> SUFFICES ASSUME AdmissionInv, [Next]_vars PROVE AdmissionInv'
  OBVIOUS
<1>1. /\ incomingQueueDepth = Cardinality(Handling) /\ incomingQueueDepth \in Nat
      /\ Cardinality(InAdmission) <= maxOutstanding /\ maxOutstanding \in Nat
      /\ pc \in [Requests -> Points]
  BY IntakeAssumption DEF AdmissionInv, DepthIsExact, AdmissionBound, Handling, InAdmission
<1>2. /\ IsFiniteSet(Handling) /\ IsFiniteSet(InAdmission)
      /\ Cardinality(InAdmission) \in Nat
  BY IntakeAssumption, FS_Subset, FS_CardinalityType DEF Handling, InAdmission
<1>3. SUFFICES /\ incomingQueueDepth' = Cardinality(Handling') /\ incomingQueueDepth' \in Nat
               /\ Cardinality(InAdmission') <= maxOutstanding
               /\ pc' \in [Requests -> Points]
  BY DEF AdmissionInv, DepthIsExact, AdmissionBound, Handling, InAdmission
<1>4. ASSUME InAdmission' \subseteq InAdmission
      PROVE  Cardinality(InAdmission') <= maxOutstanding
  <2>1. Cardinality(InAdmission') <= Cardinality(InAdmission) /\ IsFiniteSet(InAdmission')
    BY <1>2, <1>4, FS_Subset
  <2>2. Cardinality(InAdmission') \in Nat
    BY <2>1, FS_CardinalityType
  <2> QED
    BY <1>1, <1>2, <2>1, <2>2
<1>5. CASE Within
  BY <1>1, <1>4, <1>5 DEF Within
<1>6. ASSUME NEW r \in Requests, Refuse(r) \/ Admit(r)
      PROVE  /\ incomingQueueDepth' = Cardinality(Handling') /\ incomingQueueDepth' \in Nat
             /\ pc' \in [Requests -> Points]
             /\ IsFiniteSet(Handling')
  <2>1. /\ r \notin Handling /\ Handling' = Handling \cup {r}
        /\ pc' \in [Requests -> Points]
        /\ incomingQueueDepth' = incomingQueueDepth + 1
    BY <1>1, <1>6 DEF Refuse, Admit, Count, Answer, Goto, Points, Handling
  <2> QED
    BY <1>1, <1>2, <2>1, FS_AddElement
<1>7. ASSUME NEW r \in Requests, Refuse(r)
      PROVE  InAdmission' \subseteq InAdmission
  BY <1>1, <1>7 DEF Refuse, Count, Answer, Goto, InAdmission, Admitted
<1>8. ASSUME NEW r \in Requests, Admit(r)
      PROVE  Cardinality(InAdmission') <= maxOutstanding
  <2>1. IsFiniteSet(Handling') /\ Cardinality(Handling') <= maxOutstanding
    BY <1>6, <1>8 DEF Admit
  <2>2. InAdmission' \subseteq Handling'
    BY DEF InAdmission, Handling, Admitted
  <2>3. Cardinality(InAdmission') <= Cardinality(Handling') /\ IsFiniteSet(InAdmission')
    BY <2>1, <2>2, FS_Subset
  <2>4. Cardinality(InAdmission') \in Nat /\ Cardinality(Handling') \in Nat
    BY <2>1, <2>3, FS_CardinalityType
  <2> QED
    BY <1>1, <2>1, <2>3, <2>4
<1>9. ASSUME NEW r \in Requests, Leave(r)
      PROVE  /\ incomingQueueDepth' = Cardinality(Handling') /\ incomingQueueDepth' \in Nat
             /\ pc' \in [Requests -> Points]
             /\ InAdmission' \subseteq InAdmission
  <2>1. /\ r \in Handling /\ Handling' = Handling \ {r}
        /\ pc' \in [Requests -> Points]
        /\ incomingQueueDepth' = incomingQueueDepth - 1
        /\ InAdmission' \subseteq InAdmission
    BY <1>1, <1>9 DEF Leave, Goto, Points, Handling, InAdmission, Admitted
  <2>2. /\ Cardinality(Handling') = Cardinality(Handling) - 1
        /\ IsFiniteSet(Handling')
    BY <1>2, <2>1, FS_RemoveElement
  <2>3. Cardinality(Handling') \in Nat
    BY <2>2, FS_CardinalityType
  <2> QED
    BY <1>1, <2>1, <2>2, <2>3
<1> QED
  BY <1>1, <1>4, <1>5, <1>6, <1>7, <1>8, <1>9, WithinStep

THEOREM AdmissionSafety == Spec => []AdmissionInv
BY AdmissionInit, AdmissionStep, PTL DEF Spec

-------------------------------------------------------------------------------
\* incomingQueueDepth is the number of handlers on their way, whichever return
\* they take and whatever panic is recovered (request_handler.go:79-129).
THEOREM DepthCountsHandlers == Spec => []DepthIsExact
BY AdmissionSafety, PTL DEF AdmissionInv

\* The test after the addition (request_handler.go:79-88) admits at most
\* maxOutstanding requests at a time.
THEOREM AdmissionIsBounded == Spec => []AdmissionBound
BY AdmissionSafety, PTL DEF AdmissionInv

-------------------------------------------------------------------------------
(***************************************************************************)
(* Types, part by part, and where Shutdown is.                             *)
(***************************************************************************)
HandlerTypes ==
  /\ pc \in [Requests -> Points] /\ status \in [Requests -> Codes \cup {0}]
  /\ visited \in [Requests -> SUBSET Filters] /\ matched \in [Requests -> SUBSET Filters]
  /\ at \in [Requests -> Filters \cup {None}]
  /\ \A r \in Requests : pc[r] \in {"check", "bind", "sending"} => at[r] \in Filters

QueueTypes ==
  /\ buf \in [Filters -> Seq(Requests)]
  /\ closed \in [Filters -> BOOLEAN] /\ started \in [Filters -> BOOLEAN]
  /\ replaced \in [Filters -> BOOLEAN] /\ poisoned \in [Filters -> BOOLEAN]
  /\ taken \in [Filters -> SUBSET Requests] /\ refused \in [Filters -> SUBSET Requests]

StopTypes ==
  /\ filters \subseteq Filters /\ writing \in BOOLEAN /\ crash \in {"no", "nil", "map"}
  /\ stop \in {"idle", "close", "empty", "closeAgain", "wait", "delete", "done"}
  /\ victim \in Filters \cup {None} /\ (stop \notin {"idle", "done"} => victim \in Filters)

TypesInv == HandlerTypes /\ QueueTypes /\ StopTypes

LEMMA TypesInit == Init => TypesInv
<1> SUFFICES ASSUME Init PROVE TypesInv
  OBVIOUS
<1>1. HandlerTypes
  BY DEF Init, HandlerTypes, Points
<1>2. QueueTypes
  <2>1. <<>> \in Seq(Requests)
    OBVIOUS
  <2> QED
    BY <2>1 DEF Init, QueueTypes
<1>3. StopTypes
  BY DEF Init, StopTypes
<1> QED
  BY <1>1, <1>2, <1>3 DEF TypesInv

LEMMA HandlerTypesStep ==
  ASSUME HandlerTypes, [Next]_vars
  PROVE  HandlerTypes'
<1> USE DEF HandlerTypes
<1>1. ASSUME NEW r \in Requests,
             UnsupportedMediaType(r) \/ Refuse(r) \/ Admit(r) \/ BadRequest(r)
      PROVE  HandlerTypes'
  BY <1>1 DEF UnsupportedMediaType, Refuse, Admit, BadRequest, Count, Answer, Goto, Points,
     Codes
<1>2. ASSUME NEW r \in Requests, HandleEvent(r) \/ Leave(r) \/ RangeDone(r) \/ RangeFatal(r)
      PROVE  HandlerTypes'
  BY <1>2 DEF HandleEvent, Leave, RangeDone, RangeFatal, Answer, Goto, Points, Codes,
     handlerVars
<1>3. ASSUME NEW r \in Requests,
             AddItemCheck(r) \/ AddItemDrop(r) \/ AddItemBind(r) \/ AddItemSend(r)
      PROVE  HandlerTypes'
  BY <1>3 DEF AddItemCheck, AddItemDrop, AddItemBind, AddItemSend, Answer, Goto, Points, Codes
<1>4. ASSUME NEW r \in Requests, NEW f \in Filters, Mismatch(r, f) \/ Match(r, f)
      PROVE  HandlerTypes'
  BY <1>4 DEF Mismatch, Match, NextFilter, Goto, Points
<1>5. ASSUME \/ \E f \in Filters : Start(f) \/ Receive(f) \/ ReceiveZero(f) \/ NilBatch(f)
             \/ ShutdownNext \/ ShutdownEmpty \/ WaitReturns \/ Delete \/ UNCHANGED vars
      PROVE  HandlerTypes'
  BY <1>5 DEF Start, Receive, ReceiveZero, NilBatch, ShutdownNext, ShutdownEmpty, WaitReturns,
     Delete, vars, handlerVars
<1>6. CASE ShutdownClose
  BY <1>6 DEF ShutdownClose, Close, Points, Codes
<1> QED
  BY <1>1, <1>2, <1>3, <1>4, <1>5, <1>6, NextActions

LEMMA QueueTypesStep ==
  ASSUME QueueTypes, [Next]_vars
  PROVE  QueueTypes'
<1> USE DEF QueueTypes
<1>1. ASSUME UNCHANGED queueVars PROVE QueueTypes'
  BY <1>1 DEF queueVars, loopVars
<1>2. ASSUME NEW r \in Requests, AddItemDrop(r) \/ AddItemSend(r)
      PROVE  QueueTypes'
  <2>1. CASE AddItemDrop(r)
    BY <2>1 DEF AddItemDrop, loopVars
  <2>2. CASE AddItemSend(r)
    <3>1. \A f \in Filters : Append(buf[f], r) \in Seq(Requests)
      OBVIOUS
    <3>2. buf' = [buf EXCEPT ![at[r]] = Append(@, r)]
      BY <2>2 DEF AddItemSend
    <3>3. buf' \in [Filters -> Seq(Requests)]
      BY <3>1, <3>2
    <3> QED
      BY <2>2, <3>3 DEF AddItemSend, loopVars
  <2> QED
    BY <1>2, <2>1, <2>2
<1>3. ASSUME NEW f \in Filters, Receive(f)
      PROVE  QueueTypes'
  <2>1. Head(buf[f]) \in Requests /\ Tail(buf[f]) \in Seq(Requests)
    BY <1>3 DEF Receive
  <2> QED
    BY <1>3, <2>1 DEF Receive, loopVars
<1>4. ASSUME NEW f \in Filters, Start(f) \/ ReceiveZero(f)
      PROVE  QueueTypes'
  BY <1>4 DEF Start, ReceiveZero
<1>5. CASE ShutdownClose \/ ShutdownEmpty
  <2>1. CASE ShutdownClose
    BY <2>1 DEF ShutdownClose, Close, loopVars
  <2>2. CASE ShutdownEmpty
    <3>1. <<>> \in Seq(Requests)
      OBVIOUS
    <3>2. \A f \in Filters : Contents(f) \subseteq Requests
      BY DEF Contents
    <3> QED
      BY <2>2, <3>1, <3>2 DEF ShutdownEmpty
  <2> QED
    BY <1>5, <2>1, <2>2
<1>6. ASSUME \/ \E r \in Requests : \/ UnsupportedMediaType(r) \/ Refuse(r) \/ Admit(r)
                                    \/ BadRequest(r) \/ HandleEvent(r) \/ Leave(r)
                                    \/ RangeDone(r) \/ RangeFatal(r)
                                    \/ AddItemCheck(r) \/ AddItemBind(r)
             \/ \E r \in Requests, f \in Filters : Mismatch(r, f) \/ Match(r, f)
             \/ \E f \in Filters : NilBatch(f)
             \/ ShutdownNext \/ WaitReturns \/ Delete \/ UNCHANGED vars
      PROVE  UNCHANGED queueVars
  BY <1>6 DEF UnsupportedMediaType, Refuse, Admit, BadRequest, HandleEvent, Leave, RangeDone,
     RangeFatal, AddItemCheck, AddItemBind, Mismatch, Match, NextFilter, NilBatch,
     ShutdownNext, WaitReturns, Delete, vars
<1> QED
  BY <1>1, <1>2, <1>3, <1>4, <1>5, <1>6, NextActions

LEMMA StopTypesStep ==
  ASSUME StopTypes, [Next]_vars
  PROVE  StopTypes'
<1> USE DEF StopTypes
<1>1. CASE ShutdownNext \/ WaitReturns
  BY <1>1 DEF ShutdownNext, WaitReturns
<1>2. CASE ShutdownClose \/ ShutdownEmpty \/ Delete
  BY <1>2 DEF ShutdownClose, ShutdownEmpty, Delete
<1>3. ASSUME \/ \E r \in Requests : RangeFatal(r)
             \/ \E f \in Filters : NilBatch(f)
      PROVE  StopTypes'
  BY <1>3 DEF RangeFatal, NilBatch, stopVars
<1>4. ASSUME \/ \E r \in Requests : \/ UnsupportedMediaType(r) \/ Refuse(r) \/ Admit(r)
                                    \/ BadRequest(r) \/ HandleEvent(r) \/ Leave(r)
                                    \/ RangeDone(r)
                                    \/ AddItemCheck(r) \/ AddItemDrop(r)
                                    \/ AddItemBind(r) \/ AddItemSend(r)
             \/ \E r \in Requests, f \in Filters : Mismatch(r, f) \/ Match(r, f)
             \/ \E f \in Filters : Start(f) \/ Receive(f) \/ ReceiveZero(f)
             \/ UNCHANGED vars
      PROVE  UNCHANGED <<stopVars, crash>>
  BY <1>4 DEF UnsupportedMediaType, Refuse, Admit, BadRequest, HandleEvent, Leave, RangeDone,
     AddItemCheck, AddItemDrop, AddItemBind, AddItemSend, Mismatch, Match, NextFilter, Start,
     Receive, ReceiveZero, vars
<1>5. ASSUME UNCHANGED <<stopVars, crash>> PROVE StopTypes'
  BY <1>5 DEF stopVars
<1> QED
  BY <1>1, <1>2, <1>3, <1>4, <1>5, NextActions

LEMMA TypesStep == TypesInv /\ [Next]_vars => TypesInv'
BY HandlerTypesStep, QueueTypesStep, StopTypesStep DEF TypesInv

LEMMA TypesSafety == Spec => []TypesInv
BY TypesInit, TypesStep, PTL DEF Spec

\* Every variable keeps its type; the depth is never negative, though
\* handlers leave after a recovered panic as well (request_handler.go:79-129).
THEOREM TypeCorrect == Spec => []TypeOK
<1>1. AdmissionInv /\ TypesInv => TypeOK
  BY DEF AdmissionInv, TypesInv, HandlerTypes, QueueTypes, StopTypes, TypeOK
<1> QED
  BY <1>1, AdmissionSafety, TypesSafety, PTL

-------------------------------------------------------------------------------
(***************************************************************************)
(* What the loop over the filters has done for a request, as long as no    *)
(* Shutdown has begun.                                                     *)
(***************************************************************************)
OnItsWay(f, r) == at[r] = f /\ pc[r] \in {"check", "bind", "sending"}

FanOutInv ==
  NotShutDown =>
    /\ \A f \in Filters : ~closed[f]
    /\ \A r \in Requests : \A f \in matched[r] : Has(f, r) \/ OnItsWay(f, r)
    /\ \A r \in Requests : status[r] = 202 => /\ visited[r] = Filters
                                             /\ pc[r] \in {"leaving", "answered"}

\* Once Shutdown has begun it has begun for good: it never returns to a state
\* in which all filters are there.
LEMMA ShutdownIsForGood ==
  ASSUME TypesInv, [Next]_vars, NotShutDown'
  PROVE  NotShutDown /\ UNCHANGED <<filters, stop, closed>>
<1> USE DEF NotShutDown
<1>1. ASSUME UNCHANGED <<filters, stop, closed>>
      PROVE  NotShutDown /\ UNCHANGED <<filters, stop, closed>>
  BY <1>1
<1>2. CASE ShutdownNext \/ ShutdownClose \/ ShutdownEmpty \/ WaitReturns
  BY <1>2 DEF ShutdownNext, ShutdownClose, ShutdownEmpty, WaitReturns
<1>3. CASE Delete
  BY <1>3 DEF Delete, TypesInv, StopTypes
<1>4. ASSUME \/ \E r \in Requests : \/ UnsupportedMediaType(r) \/ Refuse(r) \/ Admit(r)
                                    \/ BadRequest(r) \/ HandleEvent(r) \/ Leave(r)
                                    \/ RangeDone(r) \/ RangeFatal(r)
                                    \/ AddItemCheck(r) \/ AddItemDrop(r)
                                    \/ AddItemBind(r) \/ AddItemSend(r)
             \/ \E r \in Requests, f \in Filters : Mismatch(r, f) \/ Match(r, f)
             \/ \E f \in Filters : Start(f) \/ Receive(f) \/ ReceiveZero(f) \/ NilBatch(f)
             \/ UNCHANGED vars
      PROVE  UNCHANGED <<filters, stop, closed>>
  BY <1>4 DEF UnsupportedMediaType, Refuse, Admit, BadRequest, HandleEvent, Leave, RangeDone,
     RangeFatal, AddItemCheck, AddItemDrop, AddItemBind, AddItemSend, Mismatch, Match,
     NextFilter, Start, Receive, ReceiveZero, NilBatch, vars, queueVars, stopVars
<1> QED
  BY <1>1, <1>2, <1>3, <1>4, NextActions

\* What a filter has of a message it does not lose again without a Shutdown.
LEMMA HasIsStable ==
  ASSUME TypesInv, [Next]_vars, NotShutDown', NEW f \in Filters, NEW r \in Requests, Has(f, r)
  PROVE  Has(f, r)'
<1> USE DEF Has, Contents
<1>1. ASSUME UNCHANGED <<buf, taken, refused>> PROVE Has(f, r)'
  BY <1>1
<1>2. ASSUME NEW s \in Requests, AddItemDrop(s) PROVE Has(f, r)'
  BY <1>2 DEF AddItemDrop, TypesInv, QueueTypes
<1>3. ASSUME NEW s \in Requests, AddItemSend(s) PROVE Has(f, r)'
  <2>1. buf[f] \in Seq(Requests) /\ buf'[f] \in {buf[f], Append(buf[f], s)}
    BY <1>3 DEF AddItemSend, TypesInv, QueueTypes
  <2>2. \A k \in DOMAIN buf[f] : k \in DOMAIN buf'[f] /\ buf'[f][k] = buf[f][k]
    BY <2>1
  <2> QED
    BY <1>3, <2>2 DEF AddItemSend
<1>4. ASSUME NEW g \in Filters, Receive(g) PROVE Has(f, r)'
  <2>1. CASE g # f
    BY <1>4, <2>1 DEF Receive, TypesInv, QueueTypes
  <2>2. CASE g = f
    <3>1. /\ buf[f] \in Seq(Requests) /\ buf[f] # <<>> /\ buf'[f] = Tail(buf[f])
          /\ taken'[f] = taken[f] \cup {Head(buf[f])} /\ refused'[f] = refused[f]
      BY <1>4, <2>2 DEF Receive, TypesInv, QueueTypes
    <3>2. ASSUME NEW k \in DOMAIN buf[f], buf[f][k] = r, k # 1
          PROVE  k - 1 \in DOMAIN buf'[f] /\ buf'[f][k - 1] = r
      BY <3>1, <3>2
    <3>3. ASSUME NEW k \in DOMAIN buf[f], buf[f][k] = r, k = 1
          PROVE  r \in taken'[f]
      BY <3>1, <3>3
    <3> QED
      BY <3>1, <3>2, <3>3
  <2> QED
    BY <2>1, <2>2
<1>5. ~ShutdownEmpty
  BY DEF ShutdownEmpty, NotShutDown
<1>6. ASSUME \/ \E s \in Requests : \/ UnsupportedMediaType(s) \/ Refuse(s) \/ Admit(s)
                                    \/ BadRequest(s) \/ HandleEvent(s) \/ Leave(s)
                                    \/ RangeDone(s) \/ RangeFatal(s)
                                    \/ AddItemCheck(s) \/ AddItemBind(s)
             \/ \E s \in Requests, g \in Filters : Mismatch(s, g) \/ Match(s, g)
             \/ \E g \in Filters : Start(g) \/ ReceiveZero(g) \/ NilBatch(g)
             \/ ShutdownNext \/ ShutdownClose \/ WaitReturns \/ Delete \/ UNCHANGED vars
      PROVE  UNCHANGED <<buf, taken, refused>>
  BY <1>6 DEF UnsupportedMediaType, Refuse, Admit, BadRequest, HandleEvent, Leave, RangeDone,
     RangeFatal, AddItemCheck, AddItemBind, Mismatch, Match, NextFilter, Start, ReceiveZero,
     NilBatch, ShutdownNext, ShutdownClose, WaitReturns, Delete, vars, queueVars
<1> QED
  BY <1>1, <1>2, <1>3, <1>4, <1>5, <1>6, NextActions

LEMMA FanOutStep == TypesInv /\ FanOutInv /\ [Next]_vars => FanOutInv'
<1> SUFFICES ASSUME TypesInv, FanOutInv, [Next]_vars, NotShutDown'
             PROVE  /\ \A f \in Filters : ~closed'[f]
                    /\ \A q \in Requests : \A f \in matched'[q] : Has(f, q)' \/ OnItsWay(f, q)'
                    /\ \A q \in Requests : status'[q] = 202 =>
                         visited'[q] = Filters /\ pc'[q] \in {"leaving", "answered"}
  BY DEF FanOutInv
<1>1. NotShutDown /\ UNCHANGED <<filters, stop, closed>>
  BY ShutdownIsForGood
<1>2. /\ \A f \in Filters : ~closed[f]
      /\ \A q \in Requests : \A f \in matched[q] : Has(f, q) \/ OnItsWay(f, q)
      /\ \A q \in Requests : status[q] = 202 =>
           visited[q] = Filters /\ pc[q] \in {"leaving", "answered"}
  BY <1>1 DEF FanOutInv
<1>3. \A q \in Requests : \A f \in matched[q] : f \in Filters
  BY DEF TypesInv, HandlerTypes
<1>4. \A q \in Requests : \A f \in Filters : Has(f, q) => Has(f, q)'
  BY HasIsStable
<1> DEFINE Safe(q) == \A f \in matched'[q] : Has(f, q)' \/ OnItsWay(f, q)'
           Fair(q) == status'[q] = 202 =>
                        visited'[q] = Filters /\ pc'[q] \in {"leaving", "answered"}
\* Requests the step does not concern.
<1>5. ASSUME NEW q \in Requests, pc'[q] = pc[q], status'[q] = status[q], at'[q] = at[q],
             matched'[q] = matched[q], visited'[q] = visited[q] \/ pc[q] = "range"
      PROVE  Safe(q) /\ Fair(q)
  BY <1>2, <1>3, <1>4, <1>5 DEF OnItsWay
<1> SUFFICES ASSUME NEW q \in Requests PROVE Safe(q) /\ Fair(q)
  BY <1>1, <1>2
<1>6. ASSUME NEW r \in Requests, r # q,
             \/ UnsupportedMediaType(r) \/ Refuse(r) \/ Admit(r) \/ BadRequest(r)
             \/ HandleEvent(r) \/ Leave(r) \/ RangeDone(r) \/ AddItemCheck(r) \/ AddItemDrop(r)
             \/ AddItemBind(r) \/ AddItemSend(r)
             \/ \E f \in Filters : Mismatch(r, f) \/ Match(r, f)
      PROVE  Safe(q) /\ Fair(q)
  <2>1. /\ pc'[q] = pc[q] /\ status'[q] = status[q] /\ at'[q] = at[q]
        /\ matched'[q] = matched[q] /\ visited'[q] = visited[q]
    BY <1>6 DEF TypesInv, HandlerTypes, UnsupportedMediaType, Refuse, Admit, BadRequest,
       HandleEvent, Leave, RangeDone, AddItemCheck, AddItemDrop, AddItemBind, AddItemSend,
       Mismatch, Match, NextFilter, Count, Answer, Goto
  <2> QED
    BY <1>5, <2>1
<1>7. CASE \/ UnsupportedMediaType(q) \/ Refuse(q) \/ Admit(q) \/ BadRequest(q)
           \/ HandleEvent(q) \/ Leave(q)
  <2>1. /\ pc[q] \in {"new", "reading", "leaving"} /\ matched'[q] = matched[q]
        /\ visited'[q] = visited[q]
    BY <1>7 DEF UnsupportedMediaType, Refuse, Admit, BadRequest, HandleEvent, Leave, Count
  <2>2. status'[q] = status[q] \/ (pc[q] # "leaving" /\ status'[q] # 202)
    BY <1>7 DEF UnsupportedMediaType, Refuse, Admit, BadRequest, HandleEvent, Leave, Count,
       Answer, TypesInv, HandlerTypes
  <2>3. pc[q] = "leaving" => pc'[q] = "answered"
    BY <1>7 DEF UnsupportedMediaType, Refuse, Admit, BadRequest, HandleEvent, Leave, Count,
       Goto, TypesInv, HandlerTypes
  <2> QED
    BY <1>2, <1>3, <1>4, <2>1, <2>2, <2>3 DEF OnItsWay
<1>8. CASE RangeDone(q)
  <2>1. pc[q] = "range" /\ filters \subseteq visited[q] /\ pc'[q] = "leaving"
        /\ matched'[q] = matched[q] /\ visited'[q] = visited[q]
    BY <1>8 DEF RangeDone, Answer, Goto, TypesInv, HandlerTypes
  <2>2. visited[q] = Filters
    BY <1>1, <2>1 DEF NotShutDown, TypesInv, HandlerTypes
  <2> QED
    BY <1>2, <1>3, <1>4, <2>1, <2>2 DEF OnItsWay
<1>9. CASE AddItemCheck(q)
  <2>1. /\ pc[q] = "check" /\ pc'[q] = "bind" /\ matched'[q] = matched[q] /\ at'[q] = at[q]
        /\ status'[q] = status[q]
    BY <1>9 DEF AddItemCheck, Goto, TypesInv, HandlerTypes
  <2> QED
    BY <1>2, <1>3, <1>4, <2>1 DEF OnItsWay
<1>10. CASE AddItemBind(q)
  <2>1. pc[q] = "bind" /\ matched'[q] = matched[q] /\ at'[q] = at[q]
    BY <1>10 DEF AddItemBind
  <2>2. CASE ~closed[at[q]]
    <3>1. pc'[q] = "sending" /\ status'[q] = status[q]
      BY <1>10, <2>2 DEF AddItemBind, Goto, TypesInv, HandlerTypes
    <3> QED
      BY <1>2, <1>3, <1>4, <2>1, <3>1 DEF OnItsWay
  <2>3. at[q] \in Filters
    BY <2>1 DEF TypesInv, HandlerTypes
  <2> QED
    BY <1>1, <1>2, <2>2, <2>3
<1>11. CASE AddItemDrop(q) \/ AddItemSend(q)
  <2>1. /\ pc[q] \in {"check", "sending"} /\ matched'[q] = matched[q]
        /\ status'[q] = status[q]
    BY <1>11 DEF AddItemDrop, AddItemSend
  <2>2. ASSUME NEW f \in Filters, at[q] = f PROVE Has(f, q)'
    <3>1. CASE AddItemDrop(q)
      BY <2>2, <3>1 DEF AddItemDrop, Has, TypesInv, QueueTypes
    <3>2. CASE AddItemSend(q)
      <4>1. buf[f] \in Seq(Requests) /\ buf'[f] = Append(buf[f], q)
        BY <2>2, <3>2 DEF AddItemSend, TypesInv, QueueTypes
      <4>2. Len(buf[f]) + 1 \in DOMAIN buf'[f] /\ buf'[f][Len(buf[f]) + 1] = q
        BY <4>1
      <4> QED
        BY <4>2 DEF Has, Contents
    <3> QED
      BY <1>11, <3>1, <3>2
  <2> QED
    BY <1>2, <1>3, <1>4, <2>1, <2>2 DEF OnItsWay
<1>12. ASSUME NEW f \in Filters, Mismatch(q, f) PROVE Safe(q) /\ Fair(q)
  BY <1>5, <1>12 DEF Mismatch, NextFilter
<1>13. ASSUME NEW f \in Filters, Match(q, f) PROVE Safe(q) /\ Fair(q)
  <2>1. /\ pc[q] = "range" /\ pc'[q] = "check" /\ at'[q] = f /\ status'[q] = status[q]
        /\ matched'[q] = matched[q] \cup {f}
    BY <1>13 DEF Match, NextFilter, Goto, TypesInv, HandlerTypes
  <2> QED
    BY <1>2, <1>3, <1>4, <2>1 DEF OnItsWay
<1>14. CASE \/ \E r \in Requests : RangeFatal(r)
            \/ \E f \in Filters : Start(f) \/ Receive(f) \/ ReceiveZero(f) \/ NilBatch(f)
            \/ ShutdownNext \/ ShutdownEmpty \/ WaitReturns \/ Delete \/ UNCHANGED vars
  <2>1. UNCHANGED handlerVars
    BY <1>14 DEF RangeFatal, Start, Receive, ReceiveZero, NilBatch, ShutdownNext, ShutdownEmpty,
       WaitReturns, Delete, vars
  <2> QED
    BY <1>5, <2>1 DEF handlerVars
<1>15. ~ShutdownClose
  BY <1>1 DEF NotShutDown, ShutdownClose
<1> QED
  BY <1>6, <1>7, <1>8, <1>9, <1>10, <1>11, <1>12, <1>13, <1>14, <1>15, NextActions

\* Before Shutdown begins, a request answered with 202 has reached every
\* filter's queue or drop counter that accepts it, whatever the other queues
\* did meanwhile (filter_manager.go:136-138).
THEOREM FanOutCompletes == Spec => []FanOutIsComplete
<1>1. Init => FanOutInv
  BY DEF Init, FanOutInv
<1>2. FanOutInv => FanOutIsComplete
  BY DEF FanOutInv, FanOutIsComplete, OnItsWay
<1> QED
  BY <1>1, <1>2, TypesSafety, FanOutStep, PTL DEF Spec

-------------------------------------------------------------------------------
(***************************************************************************)
(* OfferedOnce.  A handler is at a filter once only, since the range       *)
(* statement produces an entry once; until it leaves it the filter has     *)
(* nothing of its message.                                                 *)
(***************************************************************************)
Elements(s) == {s[k] : k \in DOMAIN s}
Distinct(s) == \A j, k \in DOMAIN s : s[j] = s[k] => j = k

LEMMA AppendDistinct ==
  ASSUME NEW s \in Seq(Requests), NEW r \in Requests, Distinct(s), r \notin Elements(s)
  PROVE  Distinct(Append(s, r)) /\ Elements(Append(s, r)) = Elements(s) \cup {r}
<1> DEFINE t == Append(s, r)
<1>1. /\ DOMAIN s = 1..Len(s) /\ DOMAIN t = 1..(Len(s) + 1) /\ Len(s) \in Nat
      /\ t[Len(s) + 1] = r /\ \A k \in 1..Len(s) : t[k] = s[k]
  OBVIOUS
<1>2. DOMAIN t = DOMAIN s \cup {Len(s) + 1}
  BY <1>1
<1> HIDE DEF t
<1>3. Elements(t) = Elements(s) \cup {r}
  BY <1>1, <1>2 DEF Elements
<1>4. Distinct(t)
  BY <1>1, <1>2 DEF Distinct, Elements
<1> QED
  BY <1>3, <1>4 DEF t

LEMMA TailDistinct ==
  ASSUME NEW s \in Seq(Requests), s # <<>>, Distinct(s)
  PROVE  /\ Distinct(Tail(s)) /\ Elements(Tail(s)) = Elements(s) \ {Head(s)}
         /\ Head(s) \in Elements(s)
<1> DEFINE t == Tail(s)
<1>1. /\ DOMAIN s = 1..Len(s) /\ DOMAIN t = 1..(Len(s) - 1) /\ Len(s) \in Nat \ {0}
      /\ Head(s) = s[1] /\ \A k \in 1..(Len(s) - 1) : t[k] = s[k + 1]
  OBVIOUS
<1> HIDE DEF t
<1>2. Distinct(t)
  BY <1>1 DEF Distinct
<1>3. ASSUME NEW x \in Elements(t) PROVE x \in Elements(s) \ {Head(s)}
  BY <1>1, <1>3 DEF Distinct, Elements
<1>4. ASSUME NEW x \in Elements(s) \ {Head(s)} PROVE x \in Elements(t)
  <2>1. PICK k \in DOMAIN s : x = s[k] /\ k # 1
    BY <1>1, <1>4 DEF Elements
  <2>2. k - 1 \in DOMAIN t /\ t[k - 1] = x
    BY <1>1, <2>1
  <2> QED
    BY <2>2 DEF Elements
<1>5. Head(s) \in Elements(s)
  BY <1>1 DEF Elements
<1> QED
  BY <1>2, <1>3, <1>4, <1>5 DEF t

\* OfferedOnce of one filter.
Once(f) ==
  /\ Distinct(buf[f])
  /\ Contents(f) \cap (taken[f] \cup refused[f]) = {}
  /\ taken[f] \cap refused[f] = {}

OnceInv ==
  /\ \A f \in Filters : Once(f)
  /\ \A r \in Requests : matched[r] \subseteq visited[r]
  /\ \A r \in Requests, f \in Filters : Has(f, r) => f \in matched[r]
  /\ \A r \in Requests, f \in Filters : OnItsWay(f, r) => f \in matched[r] /\ ~Has(f, r)

\* The steps by which a filter's share changes.
LEMMA SharesOfStep ==
  ASSUME [Next]_vars
  PROVE  \/ UNCHANGED <<buf, taken, refused>>
         \/ \E r \in Requests : AddItemDrop(r) \/ AddItemSend(r)
         \/ \E f \in Filters : Receive(f)
         \/ ShutdownEmpty
<1>1. ASSUME \/ \E s \in Requests : \/ UnsupportedMediaType(s) \/ Refuse(s) \/ Admit(s)
                                    \/ BadRequest(s) \/ HandleEvent(s) \/ Leave(s)
                                    \/ RangeDone(s) \/ RangeFatal(s)
                                    \/ AddItemCheck(s) \/ AddItemBind(s)
             \/ \E s \in Requests, g \in Filters : Mismatch(s, g) \/ Match(s, g)
             \/ \E g \in Filters : Start(g) \/ ReceiveZero(g) \/ NilBatch(g)
             \/ ShutdownNext \/ ShutdownClose \/ WaitReturns \/ Delete \/ UNCHANGED vars
      PROVE  UNCHANGED <<buf, taken, refused>>
  BY <1>1 DEF UnsupportedMediaType, Refuse, Admit, BadRequest, HandleEvent, Leave, RangeDone,
     RangeFatal, AddItemCheck, AddItemBind, Mismatch, Match, NextFilter, Start, ReceiveZero,
     NilBatch, ShutdownNext, ShutdownClose, WaitReturns, Delete, vars, queueVars
<1> QED
  BY <1>1, NextActions

\* A handler that leaves its share with a filter is on its way there, and its
\* message is new to the filter; nothing else changes what filters have.
LEMMA SharesStep ==
  ASSUME TypesInv, OnceInv, [Next]_vars, NEW f \in Filters
  PROVE  /\ Once(f)'
         /\ \A r \in Requests :
              Has(f, r)' => Has(f, r) \/ (OnItsWay(f, r) /\ ~OnItsWay(f, r)')
<1> DEFINE Grows(r) == Has(f, r)' => Has(f, r) \/ (OnItsWay(f, r) /\ ~OnItsWay(f, r)')
<1>0. /\ buf \in [Filters -> Seq(Requests)]
      /\ taken \in [Filters -> SUBSET Requests] /\ refused \in [Filters -> SUBSET Requests]
      /\ pc \in [Requests -> Points] /\ at \in [Requests -> Filters \cup {None}]
      /\ \A r \in Requests : pc[r] \in {"check", "bind", "sending"} => at[r] \in Filters
  BY DEF TypesInv, HandlerTypes, QueueTypes
<1>1. Once(f) /\ \A r \in Requests : OnItsWay(f, r) => ~Has(f, r)
  BY DEF OnceInv
<1>2. Contents(f) = Elements(buf[f]) /\ Contents(f)' = Elements(buf'[f])
  BY DEF Contents, Elements
<1>3. ASSUME UNCHANGED <<buf[f], taken[f], refused[f]>>
      PROVE  Once(f)' /\ \A r \in Requests : Grows(r)
  BY <1>1, <1>2, <1>3 DEF Once, Has
<1>4. ASSUME NEW r \in Requests, AddItemDrop(r)
      PROVE  Once(f)' /\ \A q \in Requests : Grows(q)
  <2>1. CASE at[r] # f
    BY <1>0, <1>3, <1>4, <2>1 DEF AddItemDrop
  <2>2. CASE at[r] = f
    <3>1. /\ refused'[f] = refused[f] \cup {r} /\ buf'[f] = buf[f] /\ taken'[f] = taken[f]
          /\ pc[r] = "check" /\ pc'[r] = "range"
      BY <1>0, <1>4, <2>2 DEF AddItemDrop, Goto
    <3>2. OnItsWay(f, r) /\ ~OnItsWay(f, r)'
      BY <2>2, <3>1 DEF OnItsWay
    <3> QED
      BY <1>1, <1>2, <3>1, <3>2 DEF Once, Has
  <2> QED
    BY <2>1, <2>2
<1>5. ASSUME NEW r \in Requests, AddItemSend(r)
      PROVE  Once(f)' /\ \A q \in Requests : Grows(q)
  <2>1. CASE at[r] # f
    BY <1>0, <1>3, <1>5, <2>1 DEF AddItemSend
  <2>2. CASE at[r] = f
    <3>1. /\ buf'[f] = Append(buf[f], r) /\ taken'[f] = taken[f] /\ refused'[f] = refused[f]
          /\ pc[r] = "sending" /\ pc'[r] = "range"
      BY <1>0, <1>5, <2>2 DEF AddItemSend, Goto
    <3>2. OnItsWay(f, r) /\ ~OnItsWay(f, r)'
      BY <2>2, <3>1 DEF OnItsWay
    <3>3. r \notin Elements(buf[f]) /\ r \notin taken[f] \cup refused[f] /\ Distinct(buf[f])
      BY <1>1, <1>2, <3>2 DEF Once, Has
    <3>4. Distinct(buf'[f]) /\ Elements(buf'[f]) = Elements(buf[f]) \cup {r}
      BY <1>0, <3>1, <3>3, AppendDistinct
    <3> QED
      BY <1>1, <1>2, <3>1, <3>2, <3>3, <3>4 DEF Once, Has
  <2> QED
    BY <2>1, <2>2
<1>6. ASSUME NEW g \in Filters, Receive(g)
      PROVE  Once(f)' /\ \A q \in Requests : Grows(q)
  <2>1. CASE g # f
    BY <1>0, <1>3, <1>6, <2>1 DEF Receive
  <2>2. CASE g = f
    <3>1. /\ buf[f] # <<>> /\ buf'[f] = Tail(buf[f]) /\ refused'[f] = refused[f]
          /\ taken'[f] = taken[f] \cup {Head(buf[f])}
      BY <1>0, <1>6, <2>2 DEF Receive
    <3>2. /\ Distinct(buf'[f]) /\ Elements(buf'[f]) = Elements(buf[f]) \ {Head(buf[f])}
          /\ Head(buf[f]) \in Elements(buf[f])
      BY <1>0, <1>1, <3>1, TailDistinct DEF Once
    <3> QED
      BY <1>1, <1>2, <3>1, <3>2 DEF Once, Has
  <2> QED
    BY <2>1, <2>2
<1>7. CASE ShutdownEmpty
  <2>1. CASE victim # f
    BY <1>0, <1>3, <1>7, <2>1 DEF ShutdownEmpty
  <2>2. CASE victim = f
    <3>1. /\ buf'[f] = <<>> /\ refused'[f] = refused[f] /\ taken'[f] = taken[f] \cup Contents(f)
      BY <1>0, <1>7, <2>2 DEF ShutdownEmpty
    <3>2. Distinct(buf'[f]) /\ Elements(buf'[f]) = {}
      BY <3>1 DEF Distinct, Elements
    <3> QED
      BY <1>1, <1>2, <3>1, <3>2 DEF Once, Has
  <2> QED
    BY <2>1, <2>2
<1> QED
  BY <1>3, <1>4, <1>5, <1>6, <1>7, SharesOfStep

\* The range statement produces a filter once, and a handler comes to it only
\* that way.
LEMMA WayStep ==
  ASSUME TypesInv, [Next]_vars, NEW q \in Requests, matched[q] \subseteq visited[q]
  PROVE  /\ matched[q] \subseteq matched'[q] /\ matched'[q] \subseteq visited'[q]
         /\ \A f \in Filters : OnItsWay(f, q)' =>
              \/ OnItsWay(f, q)
              \/ pc[q] = "range" /\ f \in matched'[q] \ visited[q]
<1>0. /\ pc \in [Requests -> Points] /\ at \in [Requests -> Filters \cup {None}]
      /\ visited \in [Requests -> SUBSET Filters] /\ matched \in [Requests -> SUBSET Filters]
  BY DEF TypesInv, HandlerTypes
<1> DEFINE P == /\ matched[q] \subseteq matched'[q] /\ matched'[q] \subseteq visited'[q]
                /\ \A f \in Filters : OnItsWay(f, q)' =>
                     \/ OnItsWay(f, q)
                     \/ pc[q] = "range" /\ f \in matched'[q] \ visited[q]
<1>1. ASSUME UNCHANGED <<matched[q], visited[q], at[q]>>,
             pc'[q] \in {pc[q], "reading", "range", "leaving", "answered"}
      PROVE  P
  BY <1>1 DEF OnItsWay
<1>2. ASSUME NEW r \in Requests,
             \/ UnsupportedMediaType(r) \/ Refuse(r) \/ Admit(r) \/ BadRequest(r)
             \/ HandleEvent(r) \/ Leave(r) \/ RangeDone(r)
      PROVE  P
  BY <1>0, <1>1, <1>2 DEF UnsupportedMediaType, Refuse, Admit, BadRequest, HandleEvent, Leave,
     RangeDone, Count, Answer, Goto
<1>3. ASSUME NEW r \in Requests, AddItemCheck(r) \/ AddItemBind(r) PROVE P
  BY <1>0, <1>3 DEF AddItemCheck, AddItemBind, Answer, Goto, OnItsWay
<1>4. ASSUME NEW r \in Requests, AddItemDrop(r) \/ AddItemSend(r) PROVE P
  BY <1>0, <1>4 DEF AddItemDrop, AddItemSend, Goto, OnItsWay
<1>5. ASSUME NEW r \in Requests, NEW f \in Filters, Mismatch(r, f) PROVE P
  BY <1>0, <1>5 DEF Mismatch, NextFilter, OnItsWay
<1>6. ASSUME NEW r \in Requests, NEW f \in Filters, Match(r, f) PROVE P
  BY <1>0, <1>6 DEF Match, NextFilter, Goto, OnItsWay
<1>7. CASE ShutdownClose
  BY <1>0, <1>1, <1>7 DEF ShutdownClose, Close
<1>8. CASE \/ \E r \in Requests : RangeFatal(r)
           \/ \E f \in Filters : Start(f) \/ Receive(f) \/ ReceiveZero(f) \/ NilBatch(f)
           \/ ShutdownNext \/ ShutdownEmpty \/ WaitReturns \/ Delete \/ UNCHANGED vars
  BY <1>1, <1>8 DEF RangeFatal, Start, Receive, ReceiveZero, NilBatch, ShutdownNext,
     ShutdownEmpty, WaitReturns, Delete, vars, handlerVars
<1> QED
  BY <1>2, <1>3, <1>4, <1>5, <1>6, <1>7, <1>8, NextActions

LEMMA OnceStep == TypesInv /\ OnceInv /\ [Next]_vars => OnceInv'
<1> SUFFICES ASSUME TypesInv, OnceInv, [Next]_vars PROVE OnceInv'
  OBVIOUS
<1>1. \A r \in Requests :
        /\ matched[r] \subseteq matched'[r] /\ matched'[r] \subseteq visited'[r]
        /\ \A f \in Filters : OnItsWay(f, r)' =>
             OnItsWay(f, r) \/ (pc[r] = "range" /\ f \in matched'[r] \ visited[r])
  BY WayStep DEF OnceInv
<1>2. \A f \in Filters :
        /\ Once(f)'
        /\ \A r \in Requests :
             Has(f, r)' => Has(f, r) \/ (OnItsWay(f, r) /\ ~OnItsWay(f, r)')
  BY SharesStep
<1>3. ASSUME NEW r \in Requests, NEW f \in Filters, Has(f, r)'
      PROVE  f \in matched'[r]
  BY <1>1, <1>2, <1>3 DEF OnceInv
<1>4. ASSUME NEW r \in Requests, NEW f \in Filters, OnItsWay(f, r)'
      PROVE  f \in matched'[r] /\ ~Has(f, r)'
  <2>1. CASE OnItsWay(f, r)
    BY <1>1, <1>2, <1>4, <2>1 DEF OnceInv
  <2>2. CASE pc[r] = "range" /\ f \in matched'[r] \ visited[r]
    <3>1. ~Has(f, r) /\ ~OnItsWay(f, r)
      BY <2>2 DEF OnceInv, OnItsWay
    <3> QED
      BY <1>2, <2>2, <3>1
  <2> QED
    BY <1>1, <1>4, <2>1, <2>2
<1> QED
  BY <1>1, <1>2, <1>3, <1>4 DEF OnceInv

\* A filter is offered a message once: no message is twice in a queue, comes
\* back after it was taken or discarded, or is accepted after it was refused,
\* also around Shutdown (filter_manager.go:136-138, queue.go:133-142).
THEOREM OfferedAtMostOnce == Spec => []OfferedOnce
<1>1. Init => OnceInv
  <2> SUFFICES ASSUME Init PROVE OnceInv
    OBVIOUS
  <2>1. \A f \in Filters : Contents(f) = {} /\ Distinct(buf[f])
    BY DEF Init, Contents, Distinct
  <2> QED
    BY <2>1 DEF Init, OnceInv, Once, Has, OnItsWay
<1>2. OnceInv => OfferedOnce
  BY DEF OnceInv, Once, Distinct, OfferedOnce
<1> QED
  BY <1>1, <1>2, TypesSafety, OnceStep, PTL DEF Spec
===============================================================================
