----------------------------- MODULE MCCluster ------------------------------
(***************************************************************************)
(* The components that watch the cluster and act on it, each on its own    *)
(* small instance: node jobs, console slots, log streams and their         *)
(* cursors, state watches and scrapers.  They share no state in the agent, *)
(* so a behaviour runs one of them (the part) and leaves the others in an  *)
(* initial state: the state spaces add up instead of multiplying.          *)
(***************************************************************************)
EXTENDS Integers, Sequences, FiniteSets

VARIABLES
    own, running, pc, req, ctx, table, left, todo, nodeCordoned, final, phase, unschedulable, pod, touched,
    faults,
    agent, consolePc, sessions, nodeSessions, over, toSweep, helper, landing, excused,
    pods, events, streams, actor, stream, stopping, changes,
    log, at, next, pending, record, last, timer, ending, saved, handled, unloaded, missed, cursorFaults,
    inner, resolved, watchPending, collector, runCtx, watches, alive, call, session, down, desired, unmet,
    pushes, watchFaults,
    version, seen, workCh, hand, stateReported, dropped, overtaken, stateRunning, stateFaults,
    nodes, current, round, added, removed, cancelling, started, scraper, cancelled, cancelOf, filters,
    kind, scrapeStopping, scrapeChanges, scrapeFaults,
    kubeKind, installed, kubeAt, known, outcome, kubeSent, ticks,
    now, limitRules, pushed, bucket, limitCall, passed, lines,
    part

nodeVars ==
    <<own, running, pc, req, ctx, table, left, todo, nodeCordoned, final, phase, unschedulable, pod, touched,
      faults>>
consoleVars == <<agent, consolePc, sessions, nodeSessions, over, toSweep, helper, landing, excused>>
logsVars == <<pods, events, streams, actor, stream, stopping, changes>>
cursorVars == <<log, at, next, pending, record, last, timer, ending, saved, handled, unloaded, missed, cursorFaults>>
watchVars ==
    <<inner, resolved, watchPending, collector, runCtx, watches, alive, call, session, down, desired,
      unmet, pushes, watchFaults>>
stateVars == <<version, seen, workCh, hand, stateReported, dropped, overtaken, stateRunning, stateFaults>>
scrapeVars ==
    <<nodes, current, round, added, removed, cancelling, started, scraper, cancelled, cancelOf, filters,
      kind, scrapeStopping, scrapeChanges, scrapeFaults>>
limitVars == <<now, limitRules, pushed, bucket, limitCall, passed, lines>>
kubeVars == <<kubeKind, installed, kubeAt, known, outcome, kubeSent, ticks>>
vars == <<part, nodeVars, consoleVars, logsVars, cursorVars, limitVars, watchVars, stateVars, scrapeVars, kubeVars>>

-----------------------------------------------------------------------------
(* Node jobs: the agent's own pod, and a name that pods of two kinds carry *)
(* in turn.  The first job is a drain; the second undoes the cordon, or is  *)
(* told BUSY.                                                              *)

Owned == [exempt |-> "no", controlled |-> TRUE, emptyDir |-> FALSE, finished |-> FALSE]
Bare == [exempt |-> "no", controlled |-> FALSE, emptyDir |-> TRUE, finished |-> FALSE]

Drain(f, e, d) == [node |-> "n1", verb |-> "drain", force |-> f, deleteEmptyDir |-> e, dryRun |-> d]
Uncordon == [node |-> "n1", verb |-> "uncordon", force |-> FALSE, deleteEmptyDir |-> FALSE, dryRun |-> FALSE]

JobRequests ==
    [j1 |-> {Drain(TRUE, TRUE, FALSE), Drain(FALSE, TRUE, FALSE), Drain(TRUE, FALSE, FALSE), Drain(TRUE, TRUE, TRUE)},
     j2 |-> {Uncordon}]

Node == INSTANCE NodeJobs WITH
    Jobs <- {"j1", "j2"}, Pods <- {1, 2}, Kinds <- <<{Owned}, {Owned, Bare}>>, AgentPod <- 1, OwnNames <- {0, 1}, Requests <- JobRequests,
    Policy <- [enabled |-> TRUE, nodes |-> {"n1"}, verbs |-> {"uncordon", "drain"}],
    MaxUid <- <<1, 2>>, MaxFaults <- 1

(* Consoles: two ids per kind that compete for one slot of each kind. *)
Console == INSTANCE ConsoleSlots WITH
    pc <- consolePc, PodIds <- {"p1", "p2"}, NodeIds <- {"n1", "n2"}, MaxPod <- 1, MaxNode <- 1, OwnNamespace <- TRUE

(* Log streams: two containers, one of which only the watch finds. *)
Logs == INSTANCE LogStreams WITH
    Keys <- {"a", "b"}, WatchOnly <- {"b"}, MaxStreams <- 2, MaxChanges <- 2, MaxEvents <- 1

(* The log cursor: three lines whose own time is up to a unit off. *)
Cursor == INSTANCE LogCursor WITH
    faults <- cursorFaults, MaxLines <- 3, TailLines <- 1, Overlap <- 1, Skews <- {-1, 0, 1}, MaxFaults <- 1

(* Demand watches: three pushes over two resources. *)
Watch == INSTANCE WatchConfig WITH
    pending <- watchPending, faults <- watchFaults, Resources <- {"pods", "jobs"}, MaxPushes <- 3, MaxFaults <- 2

(* State events: rules that overlap by namespace, kind and selector. *)
StateRules ==
    <<[ns |-> "n2", kind |-> "pods", sel |-> "any"], [ns |-> "", kind |-> "pods", sel |-> "app"],
      [ns |-> "n1", kind |-> "pods", sel |-> "any"], [ns |-> "n1", kind |-> "pods", sel |-> "db"],
      [ns |-> "n1", kind |-> "secrets", sel |-> "any"]>>

StateObjects ==
    {[ns |-> "n1", kind |-> "pods", labels |-> {"any", "app"}], [ns |-> "n1", kind |-> "secrets", labels |-> {"any"}]}

State == INSTANCE StateEvents WITH
    reported <- stateReported, running <- stateRunning, faults <- stateFaults,
    Rules <- StateRules, Objects <- StateObjects, SkipAdded <- {"secrets"}, Workers <- {"w1", "w2"}, BufferSize <- 3, MaxVersion <- [pods |-> 2, secrets |-> 3],
    MaxFaults <- 1

(* The ingest limiter: two streams, two callers and a table for one bucket. *)
Limit == INSTANCE IngestLimiter WITH
    call <- limitCall, rules <- limitRules, Keys <- {"k1", "k2"}, Callers <- {"c1", "c2"}, TTL <- 3, Lag <- 1,
    Pushes <- {[rate |-> 1, burst |-> 2], [rate |-> 2, burst |-> 3]},
    Sizes <- {1, 3}, MaxEntries <- 1, MaxTime <- 4, MaxLines <- 3, MaxRules <- 2

(* Scraping: two nodes that come, go and change their address.             *)

Scrape == INSTANCE ScrapeTargets WITH
    stopping <- scrapeStopping, changes <- scrapeChanges, faults <- scrapeFaults,
    Names <- {"n1", "n2"}, Addresses <- {"x", "y"}, MaxScrapers <- 2, MaxChanges <- 2, MaxFaults <- 1

(* kube-state-metrics: series of up to three families against a budget of four samples. *)
Kube == INSTANCE KubeStateTarget WITH
    kind <- kubeKind, at <- kubeAt, sent <- kubeSent, ProbeService <- TRUE,
    Scrapes <- {<<>>, <<1, 1>>, <<2, 3, 1>>, <<3, 2>>, <<5>>}, Budget <- 4, MaxTicks <- 6

-----------------------------------------------------------------------------
Parts == {"node", "console", "logs", "cursor", "limit", "watch", "state", "scrape", "kube"}

\* Only the part that runs starts from all of its initial states.
Init ==
    /\ part \in Parts
    /\ Node!Init /\ Console!Init /\ Logs!Init /\ Cursor!Init /\ Limit!Init
    /\ Watch!Init /\ State!Init /\ Scrape!Init /\ Kube!Init
    /\ own = 1 \/ (req["j1"] = Drain(TRUE, TRUE, FALSE) /\ pod[2].at = "gone")
    /\ part = "node" \/ (own = 1 /\ req["j1"] = Drain(TRUE, TRUE, FALSE) /\ pod[2] = [at |-> "here", uid |-> 1, kind |-> Bare, terminating |-> FALSE])
    /\ part = "logs" \/ pods = {}
    /\ part = "watch" \/ ~inner
    /\ part = "limit" \/ limitRules = Limit!Off
    /\ part = "kube" \/ kubeAt = "tick"

Next ==
    /\ UNCHANGED part
    /\ \/ part = "node" /\ Node!Next
             /\ UNCHANGED <<consoleVars, logsVars, cursorVars, limitVars, watchVars, stateVars, scrapeVars, kubeVars>>
       \/ part = "console" /\ Console!Next
             /\ UNCHANGED <<nodeVars, logsVars, cursorVars, limitVars, watchVars, stateVars, scrapeVars, kubeVars>>
       \/ part = "logs" /\ Logs!Next
             /\ UNCHANGED <<nodeVars, consoleVars, cursorVars, limitVars, watchVars, stateVars, scrapeVars, kubeVars>>
       \/ part = "cursor" /\ Cursor!Next
             /\ UNCHANGED <<nodeVars, consoleVars, logsVars, limitVars, watchVars, stateVars, scrapeVars, kubeVars>>
       \/ part = "limit" /\ Limit!Next
             /\ UNCHANGED <<nodeVars, consoleVars, logsVars, cursorVars, watchVars, stateVars, scrapeVars, kubeVars>>
       \/ part = "watch" /\ Watch!Next
             /\ UNCHANGED <<nodeVars, consoleVars, logsVars, cursorVars, limitVars, stateVars, scrapeVars, kubeVars>>
       \/ part = "state" /\ State!Next
             /\ UNCHANGED <<nodeVars, consoleVars, logsVars, cursorVars, limitVars, watchVars, scrapeVars, kubeVars>>
       \/ part = "scrape" /\ Scrape!Next
             /\ UNCHANGED <<nodeVars, consoleVars, logsVars, cursorVars, limitVars, watchVars, stateVars, kubeVars>>
       \/ part = "kube" /\ Kube!Next
             /\ UNCHANGED <<nodeVars, consoleVars, logsVars, cursorVars, limitVars, watchVars, stateVars, scrapeVars>>

Spec == Init /\ [][Next]_vars

-----------------------------------------------------------------------------
(* The properties, stated in the components' modules.                      *)

\* What a node job reports and does is what it was asked for.
JobsHonest == Node!JobsHonest

\* Node jobs implement JobLifecycle.
ImplementsLifecycle == Node!ImplementsLifecycle

\* Console slots, helper Pods and the boot sweep are accounted for.
ConsolesAccounted == Console!ConsolesAccounted

\* Every entry of the log collector's map is served by a goroutine.
EntriesServed == Logs!EntriesServed

\* No log line is skipped for good by the cursor.
NoLineSkipped == Cursor!NoLineSkipped

\* No log stream gets more lines through than its rate and burst allow.
RateKept == Limit!RateKept

\* The demand watches converge to the newest configuration pushed.
WatchesConverge == Watch!WatchesConverge

\* The newest state of every selected object is reported or its loss counted.
NewestReported == State!NewestReported

\* The scrapers follow the nodes, and kube-state-metrics is reported as it is.
ScrapingTruthful == Scrape!ScrapersFollowNodes /\ Kube!KubeStateTruthful
=============================================================================
