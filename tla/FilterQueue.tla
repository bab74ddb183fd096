----------------------------- MODULE FilterQueue ------------------------------
(***************************************************************************)
(* A filter's queue as EventIntake sees it, and EventQueue under that      *)
(* view: the state of EventIntake with a single filter, every handler      *)
(* having been admitted and matched by it, and Shutdown being about to     *)
(* close its queue.                                                        *)
(***************************************************************************)
EXTENDS EventQueue

TheFilter == "filter"
NoFilter  == "none"
PerFilter(value) == [f \in {TheFilter} |-> value]

\* Where the AddItem call of m leaves its handler: at the queue, back in the
\* range over the filters, or on the way out after the recovered panic.
HandlerAt == [m \in Msgs |-> CASE stage[m] = "new"      -> "check"
                               [] stage[m] = "checked"  -> "bind"
                               [] stage[m] = "sending"  -> "sending"
                               [] stage[m] = "panicked" -> "leaving"
                               [] OTHER                 -> "range"]

StatusOf  == [m \in Msgs |-> IF stage[m] = "panicked" THEN 202 ELSE 0]
FilterOf  == [m \in Msgs |-> IF stage[m] \in {"queued", "dropped"} THEN NoFilter ELSE TheFilter]
FiltersOf == [m \in Msgs |-> {TheFilter}]
RefusedBy == {m \in Msgs : stage[m] = "dropped"}

\* What the channel took and does not hold any more.
LeftChannel == {accepted[k] : k \in 1..(Len(accepted) - Len(buf))}

NilReceived == nils > 0 \/ \E i \in DOMAIN batches : batches[i].nils > 0

ShutdownAt == CASE stop = "idle"             -> "close"
                [] stop \in {"count", "swap"} -> "empty"
                [] stop = "close"            -> "closeAgain"
                [] stop = "wait"             -> "wait"
                [] OTHER                     -> "delete"

Intake(mode) == INSTANCE EventIntake WITH
  Requests <- Msgs, Filters <- {TheFilter}, None <- NoFilter, ShutdownMode <- mode,
  maxOutstanding <- Cardinality(Msgs), incomingQueueDepth <- Cardinality(Msgs),
  pc <- HandlerAt, status <- StatusOf, at <- FilterOf,
  visited <- FiltersOf, matched <- FiltersOf,
  filters <- {TheFilter}, victim <- TheFilter, stop <- ShutdownAt, writing <- (stop = "done"),
  buf <- PerFilter(buf), closed <- PerFilter(closed), started <- PerFilter(pc # "unstarted"),
  replaced <- PerFilter(emptied), poisoned <- PerFilter(NilReceived),
  taken <- PerFilter(LeftChannel), refused <- PerFilter(RefusedBy),
  crash <- IF crashed THEN "nil" ELSE "no"

\* Whatever a queue does, with its batches, its semaphore, its ticker and both
\* channels of a Shutdown, it does to its producers what the queues of
\* EventIntake do: every step is one of EventIntake's handlers, loops or
\* Shutdown, or none of their business (queue.go:115-207,
\* stream_dispatcher.go:29-37).  The mode matters to the first Close only.
BehavesAsInIntake ==
  [][\E mode \in {"gentle", "abrupt"} : Intake(mode)!Next]_(Intake("gentle")!vars)
===============================================================================
