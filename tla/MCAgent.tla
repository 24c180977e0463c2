------------------------------ MODULE MCAgent -------------------------------
(***************************************************************************)
(* The components that serve the gateway and the process itself, each on   *)
(* its own small instance: managed configuration, boot and readiness, the  *)
(* answers to requests, and outbound messages.                             *)
(* A behaviour runs one of them (the part) and leaves the others in an     *)
(* initial state.                                                          *)
(***************************************************************************)
EXTENDS Integers, Sequences, FiniteSets

VARIABLES
    managed, applying, settled, policy, boot, built, reported, snapshot, heartbeat, reporter, nudge, swept,
    probed, catalog, lastGood, lastBad, stale, sent, configFaults,
    main, member, groupErr, stopped, asked, cause, queue, exit, failed,
    clock, connected, since, lastConnected, depth, readyBoot, synced, probe, answer,
    rules,
    pagesPolicy, request, decision, token, got, cut, used, tabled, want, swaps, pagesFaults,
    store, writeClock, writeAt, ask, dead, result, landed, wrote, slots, writeQueue, ends,
    ready, up, broken, throttled, sendCh, buffered, emitted, emitter, retained, aged, announce, gateway,
    outboundFailed, outboundSessions, others,
    part

configVars ==
    <<managed, applying, settled, policy, boot, built, reported, snapshot, heartbeat, reporter, nudge,
      swept, probed, catalog, lastGood, lastBad, stale, sent, configFaults>>
bootVars == <<main, member, groupErr, stopped, asked, cause, queue, exit, failed>>
readyVars == <<clock, connected, since, lastConnected, depth, readyBoot, synced, probe, answer>>
policyVars == <<rules>>
pagesVars == <<pagesPolicy, request, decision, token, got, cut, used, tabled, want, swaps, pagesFaults>>
writeVars == <<store, writeClock, writeAt, ask, dead, result, landed, wrote, slots, writeQueue, ends>>
outboundVars ==
    <<ready, up, broken, throttled, sendCh, buffered, emitted, emitter, retained, aged, announce, gateway,
      outboundFailed, outboundSessions, others>>
vars == <<part, configVars, bootVars, readyVars, policyVars, pagesVars, writeVars, outboundVars>>

-----------------------------------------------------------------------------
(* Managed configuration: sets that change one block, take it back, cannot *)
(* be applied, are empty, and disable everything.                          *)

Rule(id) == [id |-> id, ok |-> TRUE]
BadRule == [id |-> <<>>, ok |-> FALSE]

BuiltIn ==
    [logs |-> [enabled |-> TRUE, rules |-> <<Rule(<<>>)>>, local |-> 0],
     state |-> [enabled |-> TRUE, rules |-> <<Rule(<<>>)>>, local |-> 0],
     metrics |-> [enabled |-> TRUE, rules |-> <<>>, kube_metrics |-> FALSE, custom_endpoints |-> {}, targets |-> {}],
     query |-> [enabled |-> FALSE, rules |-> <<>>, local |-> 0],
     buffer |-> [batch_size |-> 1, local |-> 0]]

Blocks == INSTANCE ConfigBlocks
FromFile ==
    Blocks!Normalize([BuiltIn EXCEPT !.logs.local = 1, !.query.enabled = TRUE,
                                     !.metrics.custom_endpoints = {[ok |-> TRUE]}])

ConfigSets ==
    {[rev |-> 1, blocks |-> [state |-> [rules |-> <<Rule(<<"a", 0>>), Rule(<<>>)>>]]],
     [rev |-> 1, blocks |-> [logs |-> [rules |-> <<Rule(<<"b", 0>>)>>]]],
     [rev |-> 2, blocks |-> [query |-> [rules |-> <<Rule(<<"q", 0>>)>>], logs |-> [rules |-> <<>>]]],
     [rev |-> 3, blocks |-> <<>>],
     [rev |-> 4, blocks |-> [state |-> [enabled |-> FALSE, rules |-> <<BadRule>>]]],
     [rev |-> 5, blocks |-> [logs |-> [enabled |-> FALSE], state |-> [enabled |-> FALSE],
                             metrics |-> [enabled |-> FALSE]]]}

Config == INSTANCE ManagedConfig WITH
    faults <- configFaults, Default <- BuiltIn, File <- FromFile, Sets <- ConfigSets, MaxSets <- 3, MaxFaults <- 1

(* The process: two servers and two collectors; probes over five units of time. *)
Boot == INSTANCE AgentBoot WITH Servers <- {"health", "stream"}, Collectors <- {"logs", "state"}
Ready == INSTANCE Readiness WITH boot <- readyBoot, Grace <- 1, Capacity <- 1, MaxTime <- 4

(* Requests: policies of up to three rules, one table read in pages, and   *)
(* two writers of two objects.                                             *)

Decisions == INSTANCE QueryPolicy WITH Namespaces <- {"a"}, MaxRules <- 3

Row(n, l, b, r) == [name |-> n, label |-> l, bytes |-> b, row |-> r]
TableRows ==
    <<Row("a", "x", 1, "bare"), Row("b", "x", 2, "object"), Row("c", "y", 1, "garbled"),
      Row("d", "x", 1, "object"), Row("e", "y", 3, "object")>>
TablePolicies ==
    {{}, {[names |-> {}, labels |-> {"x", "y"}]},
     {[names |-> {"a", "c", "d", "e"}, labels |-> {"x", "y"}]}, {[names |-> {"a", "b", "c", "d"}, labels |-> {"x"}]}}

Pages == INSTANCE QueryPages WITH
    policy <- pagesPolicy, faults <- pagesFaults, Rows <- TableRows, Policies <- TablePolicies,
    Limits <- {0, 1, 4}, DefLimit <- 2, MaxLimit <- 3, MaxBytes <- 3, MaxSwaps <- 2, MaxFaults <- 2

WriteRules ==
    {[names |-> {"a"}, verbs |-> {"patch", "delete", "create"}], [names |-> {"a", "b"}, verbs |-> {"scale", "restart"}]}
Ask(verb, k, name, body) ==
    [verb |-> verb, kind |-> k, name |-> name, body |-> body, sameNs |-> TRUE, dry |-> FALSE, rv |-> TRUE, uid |-> FALSE]
WriteAsks ==
    {Ask("patch", "replace", "a", "a"), Ask("patch", "replace", "a", "b"), Ask("patch", "strategic", "a", "none"),
     [Ask("patch", "merge", "a", "none") EXCEPT !.rv = FALSE], Ask("patch", "merge", "a", "garbled"),
     [Ask("patch", "replace", "a", "none") EXCEPT !.dry = TRUE],
     [Ask("delete", "", "a", "none") EXCEPT !.rv = FALSE, !.uid = TRUE],
     Ask("scale", "", "b", "none"), [Ask("scale", "", "b", "b") EXCEPT !.sameNs = FALSE],
     [Ask("create", "", "a", "a") EXCEPT !.rv = FALSE],
     [Ask("restart", "workload", "b", "none") EXCEPT !.rv = FALSE, !.uid = TRUE]}

Write == INSTANCE Mutations WITH
    clock <- writeClock, at <- writeAt, queue <- writeQueue, Workers <- {"w1", "w2"}, Names <- {"a", "b"},
    Rules <- WriteRules, Asks <- WriteAsks, InFlight <- 1, Queued <- 1, MaxWrites <- 3, MaxEnds <- 1

(* Node job events over three sessions.                                    *)

Outgoing == INSTANCE Outbound WITH
    failed <- outboundFailed, sessions <- outboundSessions,
    Jobs <- {"j1"}, Cap <- 2, MaxEvents <- 3, MaxSessions <- 3, MaxOthers <- 1

-----------------------------------------------------------------------------
Parts == {"config", "boot", "ready", "policy", "pages", "write", "outbound"}

\* Only the part that runs starts from all of its initial states.
Init ==
    /\ part \in Parts
    /\ Config!Init /\ Boot!Init /\ Ready!Init /\ Decisions!Init /\ Pages!Init
    /\ Write!Init /\ Outgoing!Init
    /\ part = "pages" \/ (pagesPolicy = {} /\ want = "any")

Next ==
    /\ UNCHANGED part
    /\ \/ part = "config" /\ Config!Next
             /\ UNCHANGED <<bootVars, readyVars, policyVars, pagesVars, writeVars, outboundVars>>
       \/ part = "boot" /\ Boot!Next
             /\ UNCHANGED <<configVars, readyVars, policyVars, pagesVars, writeVars, outboundVars>>
       \/ part = "ready" /\ Ready!Next
             /\ UNCHANGED <<configVars, bootVars, policyVars, pagesVars, writeVars, outboundVars>>
       \/ part = "policy" /\ Decisions!Next
             /\ UNCHANGED <<configVars, bootVars, readyVars, pagesVars, writeVars, outboundVars>>
       \/ part = "pages" /\ Pages!Next
             /\ UNCHANGED <<configVars, bootVars, readyVars, policyVars, writeVars, outboundVars>>
       \/ part = "write" /\ Write!Next
             /\ UNCHANGED <<configVars, bootVars, readyVars, policyVars, pagesVars, outboundVars>>
       \/ part = "outbound" /\ Outgoing!Next
             /\ UNCHANGED <<configVars, bootVars, readyVars, policyVars, pagesVars, writeVars>>

Spec == Init /\ [][Next]_vars

-----------------------------------------------------------------------------
(* The properties, stated in the components' modules.                      *)

\* What the agent says of its managed configuration is true, and a built
\* collector runs with the configuration that is reported for it.
ConfigTruthful == Config!ReportTruthful /\ Config!InEffect

\* The capability catalog catches up with the query policy.
CatalogCurrent == Config!CatalogCurrent

\* What the process tells its supervisor is true: readiness while it runs and
\* the exit code when it ends.
ProcessTruthful == Boot!ExitTruthful /\ Ready!ReadinessTruthful

\* Usage metrics are readable only where the objects are listable.
UsageWithinListing == Decisions!UsageWithinListing

\* The pages of a listing are complete, or the listing says that it is not, but
\* for rows a Table page could not show.
PagesComplete == Pages!PagesComplete

\* Every write is the one that was asked for and permitted.
WritesAsAsked == Write!WritesAsAsked

\* The last event of every node job reaches the gateway.
JobNewsArrives == Outgoing!JobNewsArrives
=============================================================================
