---------------------------- MODULE ScrapeTargets ---------------------------
(***************************************************************************)
(* Generated scrape targets (internal/collector/metrics): one goroutine    *)
(* lists the nodes on an interval, stops the scrapers of targets that are  *)
(* gone and starts one for each new target; every scraper is a goroutine   *)
(* that reports its outcomes to ScrapeHealth on its own.                   *)
(***************************************************************************)
EXTENDS ScrapeHealth

CONSTANTS Names,        \* node names
          Addresses,    \* node addresses
          MaxScrapers,  \* bound: scrapers ever started
          MaxChanges,   \* bound: changes to the nodes
          MaxFaults     \* bound: node listings that fail

\* A target is a name and a URL; targetIdentity is both.
Targets == [name : Names, url : Addresses]
None == [none |-> TRUE]
Ids == 1 .. MaxScrapers

VARIABLES
    nodes,      \* the nodes of the cluster, as the targets they make
    current,    \* dynamicProvider.current
    round,      \* where runDynamicTargets is
    added, removed,     \* the delta it works through
    cancelling, \* the scraper whose cancel function stopDynamicTarget holds
    started,    \* scrapers started so far
    scraper,    \* per scraper: its target, where it is, whether it has a filter
    cancelled,  \* scrapers whose context is done
    cancelOf,   \* dynamicCancel: the scraper to cancel, per target
    filters,    \* customFilters: the names with a filter
    kind,       \* the health of this kind of target
    stopping,   \* the collector's context is done
    changes, faults
dyn == <<current, round, added, removed, cancelling>>
run == <<started, scraper, cancelled>>
vars == <<nodes, current, round, added, removed, cancelling, started, scraper, cancelled, cancelOf, filters, kind,
          stopping, changes, faults>>

Init ==
    /\ nodes = {} /\ current = {} /\ round = "idle" /\ added = {} /\ removed = {} /\ cancelling = 0
    /\ started = 0 /\ scraper = [i \in Ids |-> [target |-> None, at |-> "none", filter |-> FALSE]] /\ cancelled = {}
    /\ cancelOf = [t \in Targets |-> 0] /\ filters = {}
    /\ kind = SetTargetCount(NewKind, 0)
    /\ stopping = FALSE /\ changes = 0 /\ faults = 0

\* A node joins, leaves or comes back at another address; names are unique.
NodesChange ==
    /\ changes < MaxChanges /\ changes' = changes + 1
    /\ \E n \in Names :
          LET others == {t \in nodes : t.name # n}
          IN  nodes' \in ({others} \cup {others \cup {[name |-> n, url |-> a]} : a \in Addresses}) \ {nodes}
    /\ UNCHANGED <<dyn, run, cancelOf, filters, kind, stopping, faults>>

-----------------------------------------------------------------------------
(* runDynamicTargets *)

\* (mutant) targets are told apart by name alone
DiffTargetsByName(prev, next) ==
    [added |-> {t \in next : \A p \in prev : p.name # t.name},
     removed |-> {p \in prev : \A t \in next : t.name # p.name}]

DiffTargets(prev, next) == [added |-> next \ prev, removed |-> prev \ next]

\* refresh lists the nodes and takes the new target set.
Refresh ==
    /\ round = "idle" /\ ~stopping
    /\ LET d == DiffTargets(current, nodes) IN added' = d.added /\ removed' = d.removed
    /\ current' = nodes /\ round' = "removing"
    /\ kind' = ClearDiscoveryFailure(kind)
    /\ UNCHANGED <<nodes, cancelling, run, cancelOf, filters, stopping, changes, faults>>

\* A listing that fails changes no target.
RefreshFails ==
    /\ round = "idle"
    /\ \/ stopping /\ UNCHANGED faults
       \/ faults < MaxFaults /\ faults' = faults + 1
    /\ kind' = RecordDiscoveryFailure(kind) /\ round' = "ticking"
    /\ UNCHANGED <<nodes, current, added, removed, cancelling, run, cancelOf, filters, stopping, changes>>

\* stopDynamicTarget: under the locks it takes the cancel function, then it
\* clears the health entry, and at last it cancels.
StopTarget(t) ==
    /\ round = "removing" /\ cancelling = 0 /\ t \in removed
    /\ removed' = removed \ {t}
    /\ cancelling' = cancelOf[t] /\ cancelOf' = [cancelOf EXCEPT ![t] = 0]
    /\ filters' = filters \ {t.name} /\ kind' = ClearTarget(kind, t.name)
    /\ UNCHANGED <<nodes, current, round, added, run, stopping, changes, faults>>

StopCancels ==
    /\ cancelling # 0 /\ cancelled' = cancelled \cup {cancelling} /\ cancelling' = 0
    /\ UNCHANGED <<nodes, current, round, added, removed, started, scraper, cancelOf, filters, kind, stopping, changes,
                   faults>>

\* startDynamicTarget, once everything gone is stopped.
StartTarget(t) ==
    /\ round = "removing" /\ removed = {} /\ cancelling = 0 /\ t \in added /\ started < MaxScrapers
    /\ added' = added \ {t} /\ started' = started + 1
    /\ cancelled' = (cancelled \cup (IF stopping THEN {started'} ELSE {})) \cup ({cancelOf[t]} \ {0})
    /\ cancelOf' = [cancelOf EXCEPT ![t] = started'] /\ filters' = filters \cup {t.name}
    /\ scraper' = [scraper EXCEPT ![started'] = [target |-> t, at |-> "jitter", filter |-> FALSE]]
    /\ UNCHANGED <<nodes, current, round, removed, cancelling, kind, stopping, changes, faults>>

RoundEnds ==
    /\ round = "removing" /\ removed = {} /\ added = {} /\ cancelling = 0
    /\ kind' = SetTargetCount(kind, Cardinality(current)) /\ round' = "ticking"
    /\ UNCHANGED <<nodes, current, added, removed, cancelling, run, cancelOf, filters, stopping, changes, faults>>

Ticks ==
    /\ round = "ticking" /\ ~stopping /\ round' = "idle"
    /\ UNCHANGED <<nodes, current, added, removed, cancelling, run, cancelOf, filters, kind, stopping, changes, faults>>

\* stopAllDynamicTargets, when the ticker's select sees the context done.
StopAll ==
    /\ round = "ticking" /\ stopping /\ round' = "returned"
    /\ cancelOf' = [t \in Targets |-> 0]
    /\ kind' = [kind EXCEPT !.failing = {f \in @ : \A t \in current : t.name # f.name},
                            !.samples = @ \ {t.name : t \in current}]
    /\ current' = {}
    /\ UNCHANGED <<nodes, added, removed, cancelling, run, filters, stopping, changes, faults>>

\* Collector.Stop: every scraper's context descends from the collector's.
Stop ==
    /\ ~stopping /\ stopping' = TRUE /\ cancelled' = cancelled \cup 1 .. started
    /\ UNCHANGED <<nodes, dyn, started, scraper, cancelOf, filters, kind, changes, faults>>

-----------------------------------------------------------------------------
(* runCustomTarget *)

Moves(i, to) == scraper' = [scraper EXCEPT ![i].at = to]

\* After the startup jitter the filter is looked up under the target's name.
Begins(i) ==
    /\ scraper[i].at = "jitter"
    /\ scraper' = [scraper EXCEPT ![i].at = "waiting", ![i].filter = scraper[i].target.name \in filters]
    /\ UNCHANGED <<nodes, dyn, started, cancelled, cancelOf, filters, kind, stopping, changes, faults>>

\* The ticker or the backoff; a done context ends the goroutine instead.
Scrapes(i) ==
    /\ scraper[i].at = "waiting" /\ i \notin cancelled /\ Moves(i, "scraping")
    /\ UNCHANGED <<nodes, dyn, started, cancelled, cancelOf, filters, kind, stopping, changes, faults>>

Exits(i) ==
    /\ scraper[i].at = "waiting" /\ i \in cancelled /\ Moves(i, "ended")
    /\ UNCHANGED <<nodes, dyn, started, cancelled, cancelOf, filters, kind, stopping, changes, faults>>

\* The scrape succeeds: its samples pass the budget and are published.
Succeeds(i) ==
    /\ scraper[i].at = "scraping" /\ Moves(i, "waiting")
    /\ kind' = RecordSuccess(kind, scraper[i].target.name, FALSE)
    /\ UNCHANGED <<nodes, dyn, started, cancelled, cancelOf, filters, stopping, changes, faults>>

\* It fails, at the node or because its context is done.
Fails(i) ==
    /\ scraper[i].at = "scraping" /\ Moves(i, "waiting")
    /\ kind' = RecordFailure(kind, scraper[i].target.name, "failing")
    /\ UNCHANGED <<nodes, dyn, started, cancelled, cancelOf, filters, stopping, changes, faults>>

Next ==
    \/ NodesChange \/ Refresh \/ RefreshFails \/ StopCancels \/ RoundEnds \/ Ticks \/ StopAll \/ Stop
    \/ \E t \in Targets : StopTarget(t) \/ StartTarget(t)
    \/ \E i \in Ids : Begins(i) \/ Scrapes(i) \/ Exits(i) \/ Succeeds(i) \/ Fails(i)

-----------------------------------------------------------------------------
(* Properties *)

Live == {i \in 1 .. started : i \notin cancelled}

\* Between two rounds the scrapers that run are those of the nodes the last
\* listing that worked returned, one for each at its present address, each
\* through its filter: a node that left or moved leaves no scraper behind, its
\* namesake keeps its filter, and a failed listing stops none.  Once the
\* collector is stopped none runs on.
ScrapersFollowNodes ==
    /\ round = "ticking" /\ ~stopping =>
           /\ {scraper[i].target : i \in Live} = current
           /\ \A i, j \in Live : i # j => scraper[i].target # scraper[j].target
           /\ kind.total = Cardinality(current)
           /\ \A i \in Live : scraper[i].at # "jitter" => scraper[i].filter
    /\ stopping => Live = {}

\* "A removed target never scrapes again, so nothing else will ever call
\* RecordSuccess to clear a failure it left behind": between two rounds, once
\* the scrapers that were cancelled have ended, no target is reported failing
\* that is not one of the targets.
NoStandingOutage ==
    round = "ticking" /\ ~stopping /\ (\A i \in cancelled : scraper[i].at = "ended") =>
        {f.name : f \in kind.failing} \subseteq {t.name : t \in current}
=============================================================================
