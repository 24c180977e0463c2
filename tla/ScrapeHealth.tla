---------------------------- MODULE ScrapeHealth ----------------------------
(***************************************************************************)
(* ScrapeHealth (internal/collector/metrics/health.go): what the heartbeat *)
(* says of one kind of scrape target.  Each operator is a method, run      *)
(* under the registry's mutex, on the kindState of its kind.               *)
(***************************************************************************)
EXTENDS Naturals, FiniteSets, Sequences

\* failing and samples are keyed by the target's name; succeeded stands for a
\* lastSuccess that is set.
NewKind == [total |-> 0, failing |-> {}, samples |-> {}, succeeded |-> FALSE, notInstalled |-> FALSE,
            discoveryFailed |-> FALSE, dropped |-> FALSE]

SetTargetCount(k, n) == [k EXCEPT !.total = n]

RecordSuccess(k, name, cut) ==
    [k EXCEPT !.failing = {f \in @ : f.name # name}, !.samples = @ \cup {name}, !.succeeded = TRUE,
              !.notInstalled = FALSE, !.dropped = @ \/ cut]

\* How classifyScrapeError files the error: nothing listens, or a bad answer.
RecordFailure(k, name, state) ==
    [k EXCEPT !.failing = {f \in @ : f.name # name} \cup {[name |-> name, state |-> state]}]

RecordDiscoveryFailure(k) == [k EXCEPT !.discoveryFailed = TRUE]

ClearDiscoveryFailure(k) == [k EXCEPT !.discoveryFailed = FALSE]

\* The cardinality drops are counted from the start of the process.
MarkNotInstalled(k) == [NewKind EXCEPT !.notInstalled = TRUE, !.dropped = k.dropped]

MarkInstalled(k) == [k EXCEPT !.notInstalled = FALSE]

ClearTarget(k, name) == [k EXCEPT !.failing = {f \in @ : f.name # name}, !.samples = @ \ {name}]

\* Snapshot's state.  Not being able to ask outranks an older answer.
Snapshot(k) ==
    CASE k.discoveryFailed -> "failing"
      [] k.notInstalled -> "not_installed"
      [] k.failing = {} -> "ok"
      [] \E f \in k.failing : f.state = "unreachable" -> "unreachable"
      [] OTHER -> "failing"

\* applySampleBudget over the samples per family, in name order: families are
\* kept whole, each if it still fits.
SampleBudget(costs, budget) ==
    LET spent[i \in 0 .. Len(costs)] ==
            IF i = 0 THEN 0 ELSE spent[i - 1] + (IF spent[i - 1] + costs[i] > budget THEN 0 ELSE costs[i])
        kept == {i \in DOMAIN costs : spent[i] # spent[i - 1]}
    IN  [samples |-> spent[Len(costs)], cut |-> kept # {i \in DOMAIN costs : costs[i] > 0}]
=============================================================================
