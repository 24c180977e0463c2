-------------------------- MODULE KubeStateTarget ---------------------------
(***************************************************************************)
(* runKubeStateTarget (internal/collector/metrics/kubestate.go): one loop  *)
(* that asks, now and then, whether the kube-state-metrics Service exists, *)
(* scrapes it while it does, and tells ScrapeHealth; the heartbeat reads   *)
(* the snapshot at any time.                                               *)
(***************************************************************************)
EXTENDS ScrapeHealth

CONSTANTS ProbeService, \* FALSE: an explicit URL is configured
          Scrapes,      \* what a scrape may return: samples per family
          Budget,       \* MaxSamplesPerScrape
          MaxTicks      \* bound: rounds of the loop

Ksm == "kube-state-metrics"

VARIABLES
    kind,           \* the health of this kind
    installed,      \* the loop's variable
    at,             \* "tick", "probe", "found", "marked", "scrape", "off"
    known,          \* what the last probe told: "never", "absent", "present", "unknown"
    outcome,        \* of the last scrape since the Service was last absent, and
    sent,           \* the samples it published
    ticks
vars == <<kind, installed, at, known, outcome, sent, ticks>>

\* Start seeds the kind; a target with an explicit URL is taken as present, and
\* one whose metric filter is rejected has no loop.
Init ==
    /\ at \in {"tick", "off"}
    /\ kind = SetTargetCount(NewKind, IF ProbeService \/ at = "off" THEN 0 ELSE 1)
    /\ installed = ~ProbeService /\ known = "never" /\ outcome = "none" /\ sent = 0 /\ ticks = 0

\* A round probes when the probe interval has passed.
Tick ==
    /\ at = "tick" /\ ticks < MaxTicks /\ ticks' = ticks + 1
    /\ \/ ProbeService /\ at' = "probe"
       \/ (~ProbeService \/ known # "never") /\ at' = "scrape"
    /\ UNCHANGED <<kind, installed, known, outcome, sent>>

\* The probe could not ask: the last verdict stands, and is marked.
ProbeFails ==
    /\ at = "probe" /\ at' = "scrape"
    /\ kind' = RecordDiscoveryFailure(kind) /\ known' = "unknown"
    /\ UNCHANGED <<installed, outcome, sent, ticks>>

ProbeFindsNone ==
    /\ at = "probe" /\ at' = "scrape" /\ installed' = FALSE
    /\ kind' = MarkNotInstalled(kind) /\ known' = "absent" /\ outcome' = "none" /\ sent' = 0
    /\ UNCHANGED ticks

\* (mutant) the target count is set and the verdict of absence left alone
ProbeFindsCounting ==
    /\ at = "probe" /\ at' = "scrape" /\ installed' = TRUE
    /\ kind' = SetTargetCount(ClearDiscoveryFailure(kind), 1) /\ known' = "present"
    /\ UNCHANGED <<outcome, sent, ticks>>

\* The Service is there: three calls, each of which a heartbeat may precede.
ProbeFinds ==
    /\ at = "probe" /\ at' = "found" /\ installed' = TRUE
    /\ kind' = ClearDiscoveryFailure(kind) /\ known' = "present"
    /\ UNCHANGED <<outcome, sent, ticks>>

ProbeMarks ==
    /\ at = "found" /\ at' = "marked"
    /\ kind' = MarkInstalled(kind)
    /\ UNCHANGED <<installed, known, outcome, sent, ticks>>

ProbeCounts ==
    /\ at = "marked" /\ at' = "scrape"
    /\ kind' = SetTargetCount(kind, 1)
    /\ UNCHANGED <<installed, known, outcome, sent, ticks>>

\* While the Service is absent no scrape is made.
NotScraped ==
    /\ at = "scrape" /\ ~installed /\ at' = "tick"
    /\ UNCHANGED <<kind, installed, known, outcome, sent, ticks>>

ScrapeSucceeds(costs) ==
    /\ at = "scrape" /\ installed /\ at' = "tick"
    /\ LET b == SampleBudget(costs, Budget)
       IN  kind' = RecordSuccess(kind, Ksm, b.cut) /\ sent' = b.samples
    /\ outcome' = "ok"
    /\ UNCHANGED <<installed, known, ticks>>

ScrapeFails(state) ==
    /\ at = "scrape" /\ installed /\ at' = "tick"
    /\ kind' = RecordFailure(kind, Ksm, state) /\ outcome' = state
    /\ UNCHANGED <<installed, known, sent, ticks>>

Next ==
    \/ Tick \/ ProbeFails \/ ProbeFindsNone \/ ProbeFinds \/ ProbeMarks \/ ProbeCounts \/ NotScraped
    \/ \E costs \in Scrapes : ScrapeSucceeds(costs)
    \/ \E state \in {"failing", "unreachable"} : ScrapeFails(state)

-----------------------------------------------------------------------------
(* Properties *)

\* What the heartbeat says sends the operator to the right place: "not
\* installed" only while the last answer to the probe was that the Service is
\* absent, "unreachable" and "ok" only as the last scrape of this installation
\* found it, "failing" when the probe cannot ask, and never more targets
\* failing than exist.  (Between ClearDiscoveryFailure and MarkInstalled an
\* older verdict of absence may show for a moment.)  No scrape publishes more
\* samples than the budget.
KubeStateTruthful ==
    LET s == Snapshot(kind)
    IN  /\ at # "found" =>
              /\ s = "not_installed" <=> known = "absent"
              /\ known = "unknown" => s = "failing"
              /\ s = "unreachable" => outcome = "unreachable"
              /\ s = "ok" => outcome \in {"ok", "none"}
        /\ Cardinality(kind.failing) <= kind.total
        /\ sent <= Budget
=============================================================================
