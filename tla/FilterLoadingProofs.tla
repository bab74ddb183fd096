-------------------------- MODULE FilterLoadingProofs --------------------------
(***************************************************************************)
(* Safety of FilterLoading for any configurations, any number of them and  *)
(* any defaults.                                                           *)
(***************************************************************************)
EXTENDS FilterLoading, TLAPS

(***************************************************************************)
(* The inductive invariant, in parts.                                      *)
(***************************************************************************)
\* The configurations are a sequence; the one being loaded is one of them.
ConfigsInv ==
  /\ configs \in Seq(Configs)
  /\ pc \in {"dest", "senders", "queue", "matchers"} => i \in Indices

\* A queue belongs to a configuration that is done with, or to the one whose
\* matchers are next or have ended the loading.
PlaceInv ==
  /\ \A k \in DOMAIN queues :
       /\ k \in Indices /\ configs[k].name # NoName
       /\ k < i \/ (k = i /\ pc \in {"matchers", "failed"})
  /\ pc = "matchers" => i \in DOMAIN queues

\* A name has the filter of the last configuration of that name that is done with.
NamesInv ==
  /\ \A n \in DOMAIN filters : configs[filters[n]].name = n /\ filters[n] < i
  /\ \A k \in DOMAIN queues :
       k < i => configs[k].name \in DOMAIN filters /\ k <= filters[configs[k].name]

\* What is compiled is what was configured, and all of it compiles.
MatchersInv ==
  \A k \in DOMAIN matchers :
    /\ matchers[k] = [events |-> Elements(configs[k].events),
                      devices |-> DeviceMatchers(configs[k].devices)]
    /\ Invalid \notin Elements(configs[k].events)
    /\ Compiles(configs[k].devices)

LoadingInv == TypeOK /\ ConfigsInv /\ PlaceInv /\ NamesInv /\ MatchersInv /\ SizesArePositive

LEMMA LoadingInit == Init => LoadingInv
<1> SUFFICES ASSUME Init PROVE LoadingInv
  OBVIOUS
<1>1. configs \in Seq(Configs) /\ Len(configs) \in Nat
  BY DEF Init
<1>2. /\ DOMAIN queues = {} /\ DOMAIN matchers = {} /\ DOMAIN filters = {}
      /\ i = 1 /\ pc = "checkRequired" /\ senders = <<>>
  BY DEF Init
<1>3. defaults \in Sizes /\ sizes \in Sizes
  BY LoadingAssumption DEF Init, Sizes
<1>4. TypeOK
  BY <1>1, <1>2, <1>3 DEF TypeOK
<1> QED
  BY <1>1, <1>2, <1>4 DEF LoadingInv, ConfigsInv, PlaceInv, NamesInv, MatchersInv,
     SizesArePositive

\* Steps that change neither a queue, a matcher, a filter nor the place.
LEMMA QuietStep ==
  ASSUME LoadingInv, UNCHANGED <<configs, defaults, i, queues, matchers, filters>>,
         sizes' \in Sizes, senders' \in Seq(Sender),
         \/ pc' = "failed"
         \/ pc \notin {"matchers", "failed"} /\ pc' \in {"next", "done"}
         \/ /\ pc \notin {"matchers", "failed"} /\ i \in Indices
            /\ pc' \in {"dest", "senders", "queue"}
  PROVE  LoadingInv'
<1> USE DEF LoadingInv
<1>1. TypeOK'
  BY DEF TypeOK, Indices
<1>2. ConfigsInv'
  BY DEF ConfigsInv, Indices
<1>3. PlaceInv'
  BY DEF PlaceInv, Indices
<1>4. NamesInv'
  BY DEF NamesInv
<1>5. MatchersInv'
  BY DEF MatchersInv
<1>6. SizesArePositive'
  BY DEF SizesArePositive
<1> QED
  BY <1>1, <1>2, <1>3, <1>4, <1>5, <1>6

\* configureQueue sizes the queue from the configuration or the defaults.
LEMMA SizedStep ==
  ASSUME LoadingInv, configureQueue
  PROVE  LoadingInv'
<1>1. i \in Indices /\ cfg \in Configs
  BY DEF LoadingInv, ConfigsInv, TypeOK, configureQueue, Indices, cfg
<1>2. sizes' \in Sizes
  BY <1>1, LoadingAssumption DEF LoadingInv, TypeOK, configureQueue, Sizes
<1>3. senders' \in Seq(Sender)
  BY DEF configureQueue
<1> QED
  BY <1>1, <1>2, <1>3, QuietStep DEF configureQueue

LEMMA QueueSizes ==
  ASSUME sizes \in Sizes
  PROVE  NewQueue.channel > 0 /\ NewQueue.batch > 0 /\ NewQueue.workers > 0
BY DEF NewQueue, Defaulted, DefaultChannelSize, DefaultBatchSize, DefaultWorkerPoolSize,
   Sizes, SizeFields

LEMMA StartStep ==
  ASSUME LoadingInv, StartQueue, pc' = "matchers"
  PROVE  LoadingInv'
<1>1. /\ pc = "queue" /\ cfg.name # NoName /\ queues' = With(queues, i, NewQueue)
      /\ UNCHANGED <<configs, defaults, i, sizes, senders, matchers, filters>>
  BY DEF StartQueue, Fail
<1>2. /\ configs \in Seq(Configs) /\ i \in Indices
      /\ i \notin DOMAIN queues
  BY <1>1 DEF LoadingInv, TypeOK, ConfigsInv, PlaceInv, Indices
<1>3. /\ DOMAIN queues' = DOMAIN queues \cup {i} /\ queues'[i] = NewQueue
      /\ \A k \in DOMAIN queues : queues'[k] = queues[k]
  BY <1>1, <1>2 DEF With
<1>4. TypeOK'
  BY <1>1, <1>2, <1>3 DEF LoadingInv, TypeOK, Indices
<1>5. ConfigsInv'
  BY <1>1, <1>2 DEF ConfigsInv, Indices
<1>6. PlaceInv'
  BY <1>1, <1>2, <1>3 DEF LoadingInv, PlaceInv, Indices, cfg
<1>7. NamesInv'
  BY <1>1, <1>2, <1>3 DEF LoadingInv, NamesInv, Indices
<1>8. MatchersInv'
  BY <1>1 DEF LoadingInv, MatchersInv
<1>9. SizesArePositive'
  BY <1>3, QueueSizes DEF LoadingInv, SizesArePositive, TypeOK
<1> QED
  BY <1>4, <1>5, <1>6, <1>7, <1>8, <1>9 DEF LoadingInv

LEMMA RegisterStep ==
  ASSUME LoadingInv, configureMatchers, pc' = "next"
  PROVE  LoadingInv'
<1> DEFINE m == [events |-> Elements(cfg.events), devices |-> DeviceMatchers(cfg.devices)]
<1>1. /\ pc = "matchers" /\ Invalid \notin Elements(cfg.events) /\ Compiles(cfg.devices)
      /\ matchers' = With(matchers, i, m) /\ filters' = With(filters, cfg.name, i)
      /\ i' = i + 1
      /\ UNCHANGED <<configs, defaults, sizes, senders, queues>>
  BY DEF configureMatchers, Fail, Register
<1>2. /\ configs \in Seq(Configs) /\ i \in Indices /\ i \in DOMAIN queues
      /\ cfg = configs[i] /\ cfg \in Configs /\ cfg.name # NoName /\ cfg.name \in Names
  <2>1. i \in Indices /\ i \in DOMAIN queues /\ configs \in Seq(Configs)
    BY <1>1 DEF LoadingInv, ConfigsInv, PlaceInv
  <2>2. cfg = configs[i] /\ cfg \in Configs
    BY <2>1 DEF Indices, cfg
  <2>3. configs[i].name # NoName
    BY <2>1 DEF LoadingInv, PlaceInv
  <2>4. cfg.name # NoName
    BY <2>2, <2>3
  <2>5. \A c \in Configs : c.name # NoName => c.name \in Names
    BY DEF Names
  <2>6. cfg.name \in Names
    BY <2>2, <2>4, <2>5
  <2> QED
    BY <2>1, <2>2, <2>4, <2>6
<1>3. i \in Nat /\ i' > i /\ Len(configs) \in Nat
  BY <1>1, <1>2 DEF Indices
<1>4. /\ DOMAIN matchers' = DOMAIN matchers \cup {i} /\ matchers'[i] = m
      /\ \A k \in DOMAIN matchers : k # i => matchers'[k] = matchers[k]
  BY <1>1 DEF With
<1>5. /\ DOMAIN filters' = DOMAIN filters \cup {cfg.name} /\ filters'[cfg.name] = i
      /\ \A n \in DOMAIN filters : n # cfg.name => filters'[n] = filters[n]
  BY <1>1 DEF With
<1>6. TypeOK'
  <2>1. /\ defaults' \in Sizes /\ sizes' \in Sizes /\ senders' \in Seq(Sender)
        /\ pc' = "next" /\ i' \in 1..(Len(configs') + 1)
    BY <1>1, <1>2, <1>3 DEF LoadingInv, TypeOK, Indices
  <2>2. DOMAIN queues' \subseteq Indices' /\ DOMAIN matchers' \subseteq DOMAIN queues'
    BY <1>1, <1>2, <1>4 DEF LoadingInv, TypeOK, Indices
  <2>3. DOMAIN filters' \subseteq Names
    BY <1>2, <1>5 DEF LoadingInv, TypeOK
  <2>4. \A n \in DOMAIN filters' : filters'[n] \in DOMAIN matchers'
    BY <1>4, <1>5 DEF LoadingInv, TypeOK
  <2> QED
    BY <2>1, <2>2, <2>3, <2>4 DEF TypeOK
<1>7. ConfigsInv'
  BY <1>1, <1>2 DEF ConfigsInv
<1>8. PlaceInv'
  BY <1>1, <1>2, <1>3 DEF LoadingInv, PlaceInv, Indices
<1>9. NamesInv'
  <2>1. \A n \in DOMAIN filters' : configs[filters'[n]].name = n /\ filters'[n] < i + 1
    <3>1. \A n \in DOMAIN filters : configs[filters[n]].name = n /\ filters[n] < i
      BY DEF LoadingInv, NamesInv
    <3>2. \A n \in DOMAIN filters : filters[n] \in Nat
      BY <1>2 DEF LoadingInv, TypeOK, Indices
    <3> QED
      BY <1>2, <1>3, <1>5, <3>1, <3>2
  <2>2. \A k \in DOMAIN queues : k \in Nat /\ k <= i
    BY <1>2 DEF LoadingInv, PlaceInv, Indices
  <2>3. \A k \in DOMAIN queues : /\ configs[k].name \in DOMAIN filters'
                                /\ k <= filters'[configs[k].name]
    BY <1>2, <1>3, <1>5, <2>2 DEF LoadingInv, NamesInv
  <2> QED
    BY <1>1, <2>1, <2>3 DEF NamesInv
<1>10. MatchersInv'
  BY <1>1, <1>2, <1>4 DEF LoadingInv, MatchersInv
<1>11. SizesArePositive'
  BY <1>1 DEF LoadingInv, SizesArePositive
<1> QED
  BY <1>6, <1>7, <1>8, <1>9, <1>10, <1>11 DEF LoadingInv

LEMMA LoadingStep == LoadingInv /\ [Next]_vars => LoadingInv'
<1> SUFFICES ASSUME LoadingInv, [Next]_vars PROVE LoadingInv'
  OBVIOUS
<1>0. sizes \in Sizes /\ senders \in Seq(Sender)
  BY DEF LoadingInv, TypeOK
<1>1. CASE checkRequired \/ LoadedAll
  BY <1>0, <1>1, QuietStep DEF checkRequired, LoadedAll, Fail
<1>2. CASE configureQueue
  BY <1>2, SizedStep
<1>3. CASE ParseDestType \/ SendersDone
  <2>1. i \in Indices
    BY <1>3 DEF LoadingInv, ConfigsInv, ParseDestType, SendersDone
  <2> QED
    BY <1>0, <1>3, <2>1, QuietStep DEF ParseDestType, SendersDone, Fail
<1>4. CASE GetSender
  <2>1. i \in Indices
    BY <1>4 DEF LoadingInv, ConfigsInv, GetSender
  <2>2. NewKinesisSender \in Sender
    BY DEF NewKinesisSender, factoryRetries, Retries, Sender
  <2>3. senders' \in Seq(Sender)
    BY <1>0, <1>4, <2>2 DEF GetSender
  <2> QED
    BY <1>0, <1>4, <2>1, <2>3, QuietStep DEF GetSender, Fail
<1>5. CASE StartQueue
  <2>1. CASE pc' = "matchers"
    BY <1>5, <2>1, StartStep
  <2>2. CASE pc' # "matchers"
    BY <1>0, <1>5, <2>2, QuietStep DEF StartQueue, Fail
  <2> QED
    BY <2>1, <2>2
<1>6. CASE configureMatchers
  <2>1. CASE pc' = "next"
    BY <1>6, <2>1, RegisterStep
  <2>2. CASE pc' # "next"
    BY <1>0, <1>6, <2>2, QuietStep DEF configureMatchers, Fail
  <2> QED
    BY <2>1, <2>2
<1>7. CASE UNCHANGED vars
  BY <1>7 DEF vars, LoadingInv, TypeOK, ConfigsInv, PlaceInv, NamesInv, MatchersInv,
     SizesArePositive, Indices
<1> QED
  BY <1>1, <1>2, <1>3, <1>4, <1>5, <1>6, <1>7 DEF Next

THEOREM LoadingSafety == Spec => []LoadingInv
BY LoadingInit, LoadingStep, PTL DEF Spec

-------------------------------------------------------------------------------
\* Every variable keeps its type; a filter is complete before it is in the map
\* (filter_manager.go:83-113).
THEOREM TypeCorrect == Spec => []TypeOK
BY LoadingSafety, PTL DEF LoadingInv

\* No queue is created with a size that is not positive, whatever is configured
\* (filter_factory.go:87-108, queue.go:88-96).
THEOREM SizesStayPositive == Spec => []SizesArePositive
BY LoadingSafety, PTL DEF LoadingInv

\* What the compiled matchers make of a message is what the configuration asks for.
LEMMA MatchersAreRight ==
  ASSUME NEW c \in Configs, NEW msg \in Messages,
         Invalid \notin Elements(c.events), Compiles(c.devices)
  PROVE  Accepts([events |-> Elements(c.events), devices |-> DeviceMatchers(c.devices)], msg)
           <=> Wants(c, msg)
<1> DEFINE m == [events |-> Elements(c.events), devices |-> DeviceMatchers(c.devices)]
           d == c.devices
<1>1. (\E p \in m.events : Matches(p, msg.event)) <=>
        (\E k \in DOMAIN c.events : Matches(c.events[k], msg.event))
  BY DEF Elements
<1>2. CASE d = <<>> \/ All \in Elements(d)
  <2>1. m.devices.any
    BY <1>2 DEF DeviceMatchers
  <2>2. d = <<>> \/ \E k \in DOMAIN d : d[k] = All
    BY <1>2 DEF Elements
  <2> QED
    BY <1>1, <2>1, <2>2 DEF Accepts, Wants
<1>3. CASE d # <<>> /\ All \notin Elements(d)
  <2>1. \A k \in DOMAIN d : d[k] # All /\ d[k] # Invalid
    <3>1. \A k \in DOMAIN d : d[k] # All
      BY <1>3 DEF Elements
    <3>2. d \in Seq(Patterns)
      BY LoadingAssumption
    <3>3. \A k \in DOMAIN d : \A j \in 1..k : j \in DOMAIN d
      BY <3>2
    <3> QED
      BY <3>1, <3>3 DEF Compiles
  <2>2. m.devices = [any |-> FALSE, of |-> Elements(d)]
    BY <1>3 DEF DeviceMatchers
  <2>3. (\E p \in m.devices.of : Matches(p, msg.source) \/ Matches(p, msg.event)) <=>
          (\E k \in DOMAIN d : {msg.source, msg.event} \cap d[k] # {})
    BY <2>1, <2>2 DEF Elements, Matches
  <2> QED
    BY <1>1, <1>3, <2>1, <2>2, <2>3 DEF Accepts, Wants
<1> QED
  BY <1>2, <1>3

\* A loaded filter accepts what its configuration asks for, whatever the order
\* of the device ids (filter_factory.go:129-169, filter.go:63-100).
THEOREM FiltersAcceptWhatIsWanted == Spec => []AcceptsWhatIsWanted
<1>1. ASSUME LoadingInv, NEW k \in DOMAIN matchers, NEW msg \in Messages
      PROVE  Accepts(matchers[k], msg) <=> Wants(configs[k], msg)
  <2>1. configs[k] \in Configs
    BY <1>1 DEF LoadingInv, TypeOK, ConfigsInv, Indices
  <2> QED
    BY <1>1, <2>1, MatchersAreRight DEF LoadingInv, MatchersInv
<1>2. LoadingInv => AcceptsWhatIsWanted
  BY <1>1 DEF AcceptsWhatIsWanted
<1> QED
  BY <1>2, LoadingSafety, PTL

\* A queue without a filter was replaced under its name, or its matchers ended
\* the loading or are still to come (filter_manager.go:100-110,
\* dispatcher_factory.go:111-123).
THEOREM StraysAreExplained == Spec => []StrayLoopsExplained
<1>1. ASSUME LoadingInv, NEW k \in DOMAIN queues \ {filters[n] : n \in DOMAIN filters},
             ~(k = i /\ pc \in {"matchers", "failed"})
      PROVE  \E j \in Indices : k < j /\ j < i /\ configs[j].name = configs[k].name
  <2> DEFINE n == configs[k].name
  <2>1. k \in Indices /\ k < i
    BY <1>1 DEF LoadingInv, PlaceInv
  <2>2. n \in DOMAIN filters /\ k <= filters[n] /\ filters[n] < i
        /\ configs[filters[n]].name = n
    BY <1>1, <2>1 DEF LoadingInv, NamesInv
  <2>3. filters[n] \in Indices /\ filters[n] # k
    BY <1>1, <2>2 DEF LoadingInv, TypeOK
  <2> QED
    BY <2>1, <2>2, <2>3 DEF Indices
<1>2. LoadingInv => StrayLoopsExplained
  BY <1>1 DEF StrayLoopsExplained
<1> QED
  BY <1>2, LoadingSafety, PTL
===============================================================================
