----------------------------- MODULE MCWorkloads -----------------------------
(***************************************************************************)
(* Components that act on the cluster, each on its own small instance:     *)
(* node jobs, console slots and helper Pods, log streams and mutations.    *)
(* They share no state in the agent, so a behaviour runs one of them (the  *)
(* part) and leaves the others in their initial states: the state spaces   *)
(* add up instead of multiplying.                                          *)
(***************************************************************************)
EXTENDS Naturals, FiniteSets

VARIABLES
    part,
    own, running, pc, req, ctx, table, left, todo, nodeCordoned, final, phase, unschedulable, pod, touched, faults,
    agent, slotPc, sessions, nodeSessions, over, toSweep, helper, landing, excused,
    pods, events, streams, actor, stream, stopping, changes,
    store, clock, at, ask, dead, result, landed, wrote, slots, queue, ends

nodeVars == <<own, running, pc, req, ctx, table, left, todo, nodeCordoned, final, phase, unschedulable, pod, touched, faults>>
consoleVars == <<agent, slotPc, sessions, nodeSessions, over, toSweep, helper, landing, excused>>
logsVars == <<pods, events, streams, actor, stream, stopping, changes>>
writeVars == <<store, clock, at, ask, dead, result, landed, wrote, slots, queue, ends>>
vars == <<part, nodeVars, consoleVars, logsVars, writeVars>>

-----------------------------------------------------------------------------
(* Node jobs: the agent's own pod, and a name that pods of two kinds carry *)
(* in turn.  The first job is a drain; the second undoes the cordon, or is  *)
(* told BUSY.                                                              *)

Owned == [exempt |-> "no", controlled |-> TRUE, emptyDir |-> FALSE, finished |-> FALSE]
Bare == [exempt |-> "no", controlled |-> FALSE, emptyDir |-> TRUE, finished |-> FALSE]

Drain(f, e, d) == [node |-> "n1", verb |-> "drain", force |-> f, deleteEmptyDir |-> e, dryRun |-> d]
Uncordon == [node |-> "n1", verb |-> "uncordon", force |-> FALSE, deleteEmptyDir |-> FALSE, dryRun |-> FALSE]

JobRequests ==
    [j1 |-> {Drain(TRUE, TRUE, FALSE), Drain(FALSE, TRUE, FALSE), Drain(TRUE, FALSE, FALSE), Drain(TRUE, TRUE, TRUE)},
     j2 |-> {Uncordon}]

Node == INSTANCE NodeJobs WITH
    Jobs <- {"j1", "j2"}, Pods <- {1, 2}, Kinds <- <<{Owned}, {Bare}>>, AgentPod <- 1, OwnNames <- {1}, Requests <- JobRequests,
    Policy <- [enabled |-> TRUE, nodes |-> {"n1"}, verbs |-> {"uncordon", "drain"}],
    MaxUid <- <<1, 1>>, MaxFaults <- 2

-----------------------------------------------------------------------------
(* Consoles: one of each kind; helpers live in a namespace where nothing   *)
(* collects what a dead agent leaves.                                      *)

Console == INSTANCE ConsoleSlots WITH
    pc <- slotPc, PodIds <- {"p1"}, NodeIds <- {"n1"}, MaxPod <- 1, MaxNode <- 1, OwnNamespace <- FALSE

-----------------------------------------------------------------------------
(* Log streams: two containers, one of which only the watch finds.         *)

Logs == INSTANCE LogStreams WITH
    Keys <- {"a", "b"}, WatchOnly <- {"b"}, MaxStreams <- 1, MaxChanges <- 2, MaxEvents <- 1

-----------------------------------------------------------------------------
(* Mutations: three restarts, one slot and room for one more to wait.      *)

Write == INSTANCE Mutations WITH
    Workers <- {"w1", "w2", "w3"}, Names <- {"a"}, Rules <- {[names |-> {"a"}, verbs |-> {"restart"}]},
    Asks <- {[verb |-> "restart", kind |-> "workload", name |-> "a", body |-> "none", sameNs |-> TRUE, dry |-> FALSE,
              rv |-> FALSE, uid |-> FALSE]},
    InFlight <- 1, Queued <- 1, MaxWrites <- 2, MaxEnds <- 1

-----------------------------------------------------------------------------
Init ==
    /\ part \in {"node", "console", "logs", "write"}
    /\ Node!Init /\ Console!Init /\ Logs!Init /\ Write!Init
    /\ part = "node" \/ (req["j1"] = Drain(TRUE, TRUE, FALSE) /\ \A p \in {1, 2} : pod[p].at = "here" /\ ~pod[p].terminating)
    /\ part = "logs" \/ pods = {}

Next ==
    \/ part = "node" /\ Node!Next /\ UNCHANGED <<part, consoleVars, logsVars, writeVars>>
    \/ part = "console" /\ Console!Next /\ UNCHANGED <<part, nodeVars, logsVars, writeVars>>
    \/ part = "logs" /\ Logs!Next /\ UNCHANGED <<part, nodeVars, consoleVars, writeVars>>
    \/ part = "write" /\ Write!Next /\ UNCHANGED <<part, nodeVars, consoleVars, logsVars>>

\* The fairness of each component's own specification, for the part that runs.
FairSpec ==
    /\ Init /\ [][Next]_vars
    /\ \A j \in {"j1", "j2"} :
         /\ WF_nodeVars(part = "node" /\ pc[j] # "new" /\ Node!Step(j) /\ UNCHANGED own)
         /\ WF_nodeVars(part = "node" /\ Node!Deadline(j) /\ UNCHANGED own)
    /\ \A i \in {"p1", "n1"} : WF_consoleVars(part = "console" /\ Console!Goroutine(i))
    /\ WF_consoleVars(part = "console" /\ Console!PodEnds("n1"))
    /\ WF_consoleVars(part = "console" /\ Console!PodGone("n1"))
    /\ WF_logsVars(part = "logs" /\ Logs!ResyncReconciles)
    /\ WF_logsVars(part = "logs" /\ Logs!StopAllStreams)
    /\ \A a \in Logs!Actors : WF_logsVars(part = "logs" /\ Logs!StartStep(a))
    /\ \A p \in Logs!Permits :
         /\ WF_logsVars(part = "logs" /\ Logs!StreamStep(p))
         /\ WF_logsVars(part = "logs" /\ Logs!StreamDone(p) /\ Logs!StreamReturns(p))
    /\ \A w \in {"w1", "w2", "w3"} :
         /\ SF_writeVars(part = "write" /\ Write!TakesSlot(w))
         /\ WF_writeVars(part = "write" /\ Write!GivesUp(w))
         /\ WF_writeVars(part = "write" /\ (Write!Call(w) \/ Write!CallRefused(w) \/ Write!CallFails(w)))
         /\ WF_writeVars(part = "write" /\ Write!Release(w))
         /\ WF_writeVars(part = "write" /\ Write!ReleaseQueue(w))

-----------------------------------------------------------------------------
(* The properties, stated in the components' modules.                      *)

\* What a node job reports and does is what it was asked for.
JobsHonest == Node!JobsHonest

\* Node jobs implement JobLifecycle.
ImplementsLifecycle == Node!ImplementsLifecycle

\* Every node job that is started reports a terminal event.
EveryJobEnds == Node!EveryJobEnds

\* Console slots, helper Pods and the boot sweep are accounted for.
ConsolesAccounted == Console!ConsolesAccounted

\* Every console slot comes back and no helper Pod runs for ever.
SlotsAndHelpersEnd == Console!SlotsAndHelpersEnd

\* Every entry of the log collector's map is served by a goroutine.
EntriesServed == Logs!EntriesServed

\* Stopping the log collector ends every goroutine of it.
StopEnds == Logs!StopEnds

\* Every mutation is answered and leaves the gate.
EveryWriteAnswered == Write!EveryWriteAnswered
=============================================================================
