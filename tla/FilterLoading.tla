---------------------------- MODULE FilterLoading -----------------------------
(***************************************************************************)
(* What New of filter/filter_manager.go does with the configured filters:  *)
(* one after another, BaseFilterFactory.New sizes the queue, creates one   *)
(* sender per stream, creates the queue, starts its goroutine and compiles *)
(* the matchers; the filter is then entered in the map under its stream    *)
(* name.  The first error ends the loading.  What a loaded filter makes of *)
(* a message (BaseFilter.Queue) is the operator Accepts.                   *)
(*                                                                         *)
(* A regular expression is the set of texts it matches, the model value    *)
(* All for the text ".*", or the model value Invalid if it does not        *)
(* compile.  A stream's configuration is the set of its keys with a value; *)
(* the key "other" stands for any that is not read.                        *)
(***************************************************************************)
EXTENDS Integers, Sequences, FiniteSets

CONSTANTS
  Configs,            \* the filter configurations considered
  MaxFilters,         \* a bound on their number
  DefaultSizes,       \* the values the three default sizes take
  DeliveryRetries,    \* of the configuration
  Texts, All, Invalid,
  KinesisSpellings,   \* the strings ParseDestType accepts
  NoName              \* the empty stream name

\* Defaults of internal/queue/queue.go and internal/sender/kinesis_sender.go.
DefaultBatchSize == 10
DefaultChannelSize == 100
DefaultWorkerPoolSize == 10
Retries == 3

Names == {c.name : c \in Configs} \ {NoName}
SizeFields == {"queue", "batch", "workers"}
Patterns   == {All, Invalid} \cup SUBSET Texts

ASSUME LoadingAssumption ==
  /\ DefaultSizes \subseteq Int
  /\ \A c \in Configs : /\ c.sizes \in [SizeFields -> Int]
                        /\ c.events \in Seq(Patterns) /\ c.devices \in Seq(Patterns)

VARIABLES
  configs,   \* fm.filterConfig
  defaults,  \* the three default sizes of the manager
  i,         \* the configuration being loaded
  pc,        \* how far its New is; or "done", "failed"
  sizes,     \* the filter's queueSize, batchSize and maxWorkers
  senders,   \* the senders created for it so far
  queues,    \* by configuration: the queue whose goroutine has been started
  matchers,  \* by configuration: the compiled matchers
  filters    \* fm.filters: by name, the configuration of the filter

vars == <<configs, defaults, i, pc, sizes, senders, queues, matchers, filters>>

Sizes == [SizeFields -> Int]
Sender == [retries : Nat]
Indices == 1..Len(configs)

TypeOK ==
  /\ defaults \in Sizes /\ sizes \in Sizes
  /\ i \in 1..(Len(configs) + 1)
  /\ pc \in {"checkRequired", "next", "dest", "senders", "queue", "matchers", "done", "failed"}
  /\ senders \in Seq(Sender)
  /\ DOMAIN queues \subseteq Indices /\ DOMAIN matchers \subseteq DOMAIN queues
  /\ DOMAIN filters \subseteq Names /\ \A n \in DOMAIN filters : filters[n] \in DOMAIN matchers

Init ==
  /\ configs \in UNION {[1..n -> Configs] : n \in 0..MaxFilters}
  /\ defaults \in {[f \in SizeFields |-> d] : d \in DefaultSizes}
  /\ i = 1 /\ pc = "checkRequired"
  /\ sizes = [f \in SizeFields |-> 0] /\ senders = <<>>
  /\ queues = <<>> /\ matchers = <<>> /\ filters = <<>>

cfg == configs[i]

\* g, with x mapped to y.
With(g, x, y) == [z \in DOMAIN g \cup {x} |-> IF z = x THEN y ELSE g[z]]

Fail == pc' = "failed"

-------------------------------------------------------------------------------
\* BaseFilterManager.checkRequired: a default of zero counts as missing, a
\* negative one does not.
checkRequired ==
  /\ pc = "checkRequired"
  /\ IF \E f \in SizeFields : defaults[f] = 0 THEN Fail ELSE pc' = "next"
  /\ UNCHANGED <<configs, defaults, i, sizes, senders, queues, matchers, filters>>

LoadedAll ==
  /\ pc = "next" /\ i > Len(configs)
  /\ pc' = "done"
  /\ UNCHANGED <<configs, defaults, i, sizes, senders, queues, matchers, filters>>

\* The head of the loop and configureQueue.
configureQueue ==
  /\ pc = "next" /\ i <= Len(configs)
  /\ sizes' = [f \in SizeFields |-> IF cfg.sizes[f] <= 0 THEN defaults[f] ELSE cfg.sizes[f]]
  /\ senders' = <<>>
  /\ pc' = "dest"
  /\ UNCHANGED <<configs, defaults, i, queues, matchers, filters>>

ParseDestType ==
  /\ pc = "dest"
  /\ IF cfg.dest \in KinesisSpellings THEN pc' = "senders" ELSE Fail
  /\ UNCHANGED <<configs, defaults, i, sizes, senders, queues, matchers, filters>>

(***************************************************************************)
(* GetDispatcher: a sender for each stream.  The field retries of the      *)
(* dispatcher factory is passed, which FilterModule does not set;          *)
(* NewKinesisSender then takes its default.                                *)
(***************************************************************************)
factoryRetries == 0

NewKinesisSender == [retries |-> IF factoryRetries <= 0 THEN Retries ELSE factoryRetries]

\* GetSender refuses an empty configuration, the client one without region or
\* endpoint; loading the AWS configuration or assuming the role may fail as well.
Usable(stream) == {"region", "endpoint"} \subseteq stream

stream == cfg.streams[Len(senders) + 1]

GetSender ==
  /\ pc = "senders" /\ Len(senders) < Len(cfg.streams)
  /\ \/ Usable(stream) /\ senders' = Append(senders, NewKinesisSender) /\ UNCHANGED pc
     \/ Fail /\ UNCHANGED senders
  /\ UNCHANGED <<configs, defaults, i, sizes, queues, matchers, filters>>

SendersDone ==
  /\ pc = "senders" /\ Len(senders) = Len(cfg.streams)
  /\ pc' = "queue"
  /\ UNCHANGED <<configs, defaults, i, sizes, senders, queues, matchers, filters>>

\* Mutant: only zero is replaced.
DefaultedIfZero(size, default) == IF size = 0 THEN default ELSE size

Defaulted(size, default) == IF size <= 0 THEN default ELSE size

NewQueue ==
  [channel |-> Defaulted(sizes["queue"], DefaultChannelSize),
   batch   |-> Defaulted(sizes["batch"], DefaultBatchSize),
   workers |-> Defaulted(sizes["workers"], DefaultWorkerPoolSize),
   senders |-> senders]

\* Mutant: the queue's name is not checked.
StartNameless ==
  /\ pc = "queue"
  /\ queues' = With(queues, i, NewQueue) /\ pc' = "matchers"
  /\ UNCHANGED <<configs, defaults, i, sizes, senders, matchers, filters>>

\* GetQueue, then go queue.Start.
StartQueue ==
  /\ pc = "queue"
  /\ \/ cfg.name = NoName /\ Fail /\ UNCHANGED queues
     \/ cfg.name # NoName /\ queues' = With(queues, i, NewQueue) /\ pc' = "matchers"
  /\ UNCHANGED <<configs, defaults, i, sizes, senders, matchers, filters>>

-------------------------------------------------------------------------------
Elements(s) == {s[k] : k \in DOMAIN s}

\* Mutant: an empty list of device ids is kept as it is, not as nil.
KeepEmpty(devices) == [any |-> FALSE, of |-> Elements(devices)]

\* The device matchers: nil ("any") when the list is empty or holds ".*".
DeviceMatchers(devices) ==
  IF devices = <<>> \/ All \in Elements(devices)
    THEN [any |-> TRUE, of |-> {}]
    ELSE [any |-> FALSE, of |-> Elements(devices)]

\* The loop over the device ids ends at ".*": what follows is not compiled.
Compiles(devices) ==
  \A k \in DOMAIN devices : devices[k] = Invalid => \E j \in 1..k : devices[j] = All

\* The filter is complete and entered in fm.filters, over one of the same name.
Register ==
  /\ matchers' = With(matchers, i, [events |-> Elements(cfg.events),
                                    devices |-> DeviceMatchers(cfg.devices)])
  /\ filters' = With(filters, cfg.name, i)
  /\ i' = i + 1

\* Mutant: a filter whose matchers are wrong is passed over.
ConfigureMatchersPassOver ==
  /\ pc = "matchers"
  /\ \/ /\ cfg.events # <<>> /\ Invalid \notin Elements(cfg.events) /\ Compiles(cfg.devices)
        /\ Register
     \/ /\ cfg.events = <<>> \/ Invalid \in Elements(cfg.events) \/ ~Compiles(cfg.devices)
        /\ i' = i + 1 /\ UNCHANGED <<matchers, filters>>
  /\ pc' = "next"
  /\ UNCHANGED <<configs, defaults, sizes, senders, queues>>

configureMatchers ==
  /\ pc = "matchers"
  /\ \/ /\ cfg.events # <<>> /\ Invalid \notin Elements(cfg.events) /\ Compiles(cfg.devices)
        /\ Register /\ pc' = "next"
     \/ /\ cfg.events = <<>> \/ Invalid \in Elements(cfg.events) \/ ~Compiles(cfg.devices)
        /\ Fail /\ UNCHANGED <<i, matchers, filters>>
  /\ UNCHANGED <<configs, defaults, sizes, senders, queues>>

Next == \/ checkRequired \/ LoadedAll \/ configureQueue \/ ParseDestType
        \/ GetSender \/ SendersDone \/ StartQueue \/ configureMatchers

Spec == Init /\ [][Next]_vars

-------------------------------------------------------------------------------
(***************************************************************************)
(* BaseFilter.Queue.                                                       *)
(***************************************************************************)
Matches(pattern, text) == pattern = All \/ text \in pattern

Messages == [source : Texts, event : Texts]

Accepts(m, msg) ==
  /\ \E p \in m.events : Matches(p, msg.event)
  /\ \/ m.devices.any
     \/ \E p \in m.devices.of : Matches(p, msg.source) \/ Matches(p, msg.event)

-------------------------------------------------------------------------------
(***************************************************************************)
(* Properties.                                                             *)
(***************************************************************************)
\* What a configuration asks for, without the detours of the code.
Wants(c, msg) ==
  /\ \E k \in DOMAIN c.events : Matches(c.events[k], msg.event)
  /\ \/ c.devices = <<>>
     \/ \E k \in DOMAIN c.devices : c.devices[k] = All \/
          (c.devices[k] # Invalid /\ {msg.source, msg.event} \cap c.devices[k] # {})

\* A loaded filter accepts the messages its configuration asks for: one of its
\* events and one of its devices, no devices or ".*" meaning any
\* (filter_factory.go:129-169 and filter.go:63-100 together).
AcceptsWhatIsWanted ==
  \A k \in DOMAIN matchers, msg \in Messages :
    Accepts(matchers[k], msg) <=> Wants(configs[k], msg)

\* Every queue that is started satisfies EventQueue's QueueAssumption, through
\* all three levels of defaults, also when the configured defaults are negative
\* (filter_factory.go:87-108, queue.go:88-96).
SizesArePositive ==
  \A k \in DOMAIN queues :
    queues[k].channel > 0 /\ queues[k].batch > 0 /\ queues[k].workers > 0

\* A queue goroutine runs for no filter only if its configuration's matchers
\* are wrong, or are next, or a later configuration has the same name.
StrayLoopsExplained ==
  \A k \in DOMAIN queues \ {filters[n] : n \in DOMAIN filters} :
    \/ k = i /\ pc \in {"matchers", "failed"}
    \/ \E j \in Indices : k < j /\ j < i /\ configs[j].name = configs[k].name

-------------------------------------------------------------------------------
(***************************************************************************)
(* What the repository says and the code does not do.                      *)
(***************************************************************************)
\* filter_factory.go:31-32, on DeliveryRetries: "Number of delivery retries
\* before giving up".
RetriesAsConfigured ==
  \A k \in DOMAIN queues : \A s \in Elements(queues[k].senders) : s.retries = DeliveryRetries
===============================================================================
