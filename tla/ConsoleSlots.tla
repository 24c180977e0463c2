---------------------------- MODULE ConsoleSlots ----------------------------
(***************************************************************************)
(* The console manager's slots and the node console's helper Pods:         *)
(* exec.Manager.Open and openNode (manager.go), the helper's life          *)
(* (nodeshell.go) and the boot sweep (cmd/agent/main.go).  What a session  *)
(* does between its start and its end is ConsoleStream; here it is only    *)
(* "running".  The API server, the kubelet and the garbage collector are   *)
(* external: a helper Pod is created, runs, fails, and is deleted with a   *)
(* grace period during which its name is still taken.                      *)
(***************************************************************************)
EXTENDS Integers, FiniteSets

CONSTANTS PodIds, NodeIds,      \* session ids the gateway opens, by target
          MaxPod, MaxNode,      \* exec.pod.max_sessions, exec.node.max_sessions
          OwnNamespace          \* helpers live in the agent's namespace (owned)

Ids == PodIds \cup NodeIds

VARIABLES
    agent,         \* "boot", "sweep", "up" or "down"
    pc,            \* what the goroutine of each session id is doing
    sessions,      \* keys of m.sessions
    nodeSessions,  \* m.nodeSessions
    over,          \* ids whose context ended (close, resume window, max session)
    toSweep,       \* helpers the boot sweep listed and still has to delete
    helper,        \* the Pod of each node session id, as the API server has it
    landing,       \* creates the API server may still commit after the caller gave up
    excused        \* helpers left behind by a fault, not by the code's own path

vars == <<agent, pc, sessions, nodeSessions, over, toSweep, helper, landing, excused>>
slots == <<sessions, nodeSessions>>
cluster == <<helper, landing, excused>>

None == "none"
Live(i) == helper[i] \in {"pending", "running", "terminating"}

-----------------------------------------------------------------------------
(* Open: the slot is reserved under the lock and the rest runs outside it. *)

OpenPods == Cardinality(sessions) - nodeSessions

OpenPod(i) ==
    /\ agent = "up" /\ pc[i] = "idle" /\ i \in PodIds
    /\ i \notin sessions
    /\ OpenPods < MaxPod
    /\ sessions' = sessions \cup {i}
    /\ pc' = [pc EXCEPT ![i] = "lookup"]
    /\ UNCHANGED <<agent, nodeSessions, over, toSweep, cluster>>

OpenNode(i) ==
    /\ agent = "up" /\ pc[i] = "idle" /\ i \in NodeIds
    /\ i \notin sessions
    /\ nodeSessions < MaxNode
    /\ nodeSessions' = nodeSessions + 1
    /\ sessions' = sessions \cup {i}
    /\ pc' = [pc EXCEPT ![i] = "lookup"]
    /\ UNCHANGED <<agent, over, toSweep, cluster>>

\* (mutant) a node session's slot is given back without the counter
ReleaseUncounted(i) ==
    /\ sessions' = sessions \ {i}
    /\ nodeSessions' = nodeSessions

Release(i) ==
    /\ sessions' = sessions \ {i}
    /\ nodeSessions' = nodeSessions - (IF i \in NodeIds THEN 1 ELSE 0)

\* The target is missing, the lookup timed out, the container is unknown, the
\* policy denies it or no executor can be built: the slot goes back at once.
OpenRefused(i) ==
    /\ pc[i] = "lookup"
    /\ Release(i)
    /\ pc' = [pc EXCEPT ![i] = "idle"]
    /\ UNCHANGED <<agent, over, toSweep, cluster>>

\* The placeholder is replaced and the session's goroutine starts: a pod
\* session streams, a node session prepares its helper first.
OpenStarts(i) ==
    /\ pc[i] = "lookup"
    /\ pc' = [pc EXCEPT ![i] = IF i \in NodeIds THEN "prepare" ELSE "running"]
    /\ UNCHANGED <<agent, slots, over, toSweep, cluster>>

\* Close, the resume window or max_session ends the session's context.
SessionOver(i) ==
    /\ pc[i] \in {"prepare", "await", "running"} /\ i \notin over
    /\ over' = over \cup {i}
    /\ UNCHANGED <<agent, pc, slots, toSweep, cluster>>

-----------------------------------------------------------------------------
(* prepare: create the helper and wait until it runs.                      *)

\* Create succeeds, or finds the name taken by a helper of the same id.
CreateHelper(i) ==
    /\ pc[i] = "prepare" /\ i \notin over
    /\ helper' = [helper EXCEPT ![i] = IF helper[i] = None THEN "pending" ELSE @]
    /\ excused' = IF helper[i] = None THEN excused \ {i} ELSE excused
    /\ pc' = [pc EXCEPT ![i] = "await"]
    /\ UNCHANGED <<agent, slots, over, toSweep, landing>>

\* The create is refused, or its context ends first: then the request may be on
\* its way to the API server.
CreateFails(i) ==
    /\ pc[i] = "prepare"
    /\ \/ UNCHANGED landing
       \/ i \in over /\ landing' = landing \cup {i}
    /\ pc' = [pc EXCEPT ![i] = "cleanup"]
    /\ UNCHANGED <<agent, slots, over, toSweep, helper, excused>>

\* (mutant) a helper that does not come up is left to the boot sweep
AwaitHelperLeaks(i) ==
    /\ pc[i] = "await"
    /\ \/ /\ helper[i] \in {"running", "terminating"} /\ i \notin over
          /\ pc' = [pc EXCEPT ![i] = "running"]
       \/ pc' = [pc EXCEPT ![i] = "release"]
    /\ UNCHANGED <<agent, slots, over, toSweep, cluster>>

\* A poll reads phase Running (a Pod being deleted still does), or gives up: the
\* Pod is gone or failed, the image cannot be pulled, the wait timed out, the
\* context ended.
AwaitHelper(i) ==
    /\ pc[i] = "await"
    /\ \/ /\ helper[i] \in {"running", "terminating"} /\ i \notin over
          /\ pc' = [pc EXCEPT ![i] = "running"]
       \/ pc' = [pc EXCEPT ![i] = "cleanup"]
    /\ UNCHANGED <<agent, slots, over, toSweep, cluster>>

\* s.run returns: the process exited, or its context ended.
RunReturns(i) ==
    /\ pc[i] = "running"
    /\ pc' = [pc EXCEPT ![i] = IF i \in NodeIds THEN "cleanup" ELSE "release"]
    /\ UNCHANGED <<agent, slots, over, toSweep, cluster>>

Deleted(i) == IF Live(i) THEN "terminating" ELSE None

\* helperCleanup, on a context of its own; NotFound is success.  A delete that
\* fails is logged and the helper left to its deadline.
HelperCleanup(i) ==
    /\ pc[i] = "cleanup"
    /\ \/ /\ helper' = [helper EXCEPT ![i] = Deleted(i)]
          /\ UNCHANGED excused
       \/ /\ excused' = excused \cup {i}
          /\ UNCHANGED helper
    /\ pc' = [pc EXCEPT ![i] = "release"]
    /\ UNCHANGED <<agent, slots, over, toSweep, landing>>

\* The deferred calls run last in, first out: the slot is released last.
SlotReleased(i) ==
    /\ pc[i] = "release"
    /\ Release(i)
    /\ over' = over \ {i}
    /\ pc' = [pc EXCEPT ![i] = "idle"]
    /\ UNCHANGED <<agent, toSweep, cluster>>

-----------------------------------------------------------------------------
(* The agent dies without running its defers, and boots again.             *)

Orphans == {i \in NodeIds : pc[i] # "idle"}

\* Creates in flight may land after the process is gone.  With its Pod replaced
\* the helpers it owned are garbage-collected.
Crash ==
    /\ agent # "down"
    /\ agent' = "down"
    /\ pc' = [i \in Ids |-> "idle"]
    /\ sessions' = {} /\ nodeSessions' = 0
    /\ over' = {} /\ toSweep' = {}
    /\ excused' = excused \cup Orphans
    /\ landing' \in {landing, landing \cup {i \in NodeIds : pc[i] = "prepare"}}
    /\ \E replaced \in BOOLEAN :
         helper' = IF replaced /\ OwnNamespace THEN [i \in NodeIds |-> Deleted(i)] ELSE helper

\* buildExecResponder: without its own Pod's identity there is no node console
\* and no sweep; a list that fails sweeps nothing.
Boot ==
    /\ agent = "down"
    /\ agent' = "boot"
    /\ UNCHANGED <<pc, slots, over, toSweep, cluster>>

SweepLists ==
    /\ agent = "boot"
    /\ \/ agent' = "sweep" /\ toSweep' = {i \in NodeIds : helper[i] # None}
       \/ agent' = "up" /\ UNCHANGED toSweep
    /\ UNCHANGED <<pc, slots, over, cluster>>

\* (mutant) consoles are opened while the sweep is still deleting
SweepDeletesLate(i) ==
    /\ i \in toSweep
    /\ \/ helper' = [helper EXCEPT ![i] = Deleted(i)]
       \/ UNCHANGED helper
    /\ toSweep' = toSweep \ {i}
    /\ agent' = "up"
    /\ UNCHANGED <<pc, slots, over, landing, excused>>

SweepDeletes(i) ==
    /\ agent = "sweep" /\ i \in toSweep
    /\ \/ helper' = [helper EXCEPT ![i] = Deleted(i)]
       \/ UNCHANGED helper
    /\ toSweep' = toSweep \ {i}
    /\ UNCHANGED <<agent, pc, slots, over, landing, excused>>

SweepEnds ==
    /\ agent = "sweep" /\ toSweep = {}
    /\ agent' = "up"
    /\ UNCHANGED <<pc, slots, over, toSweep, cluster>>

-----------------------------------------------------------------------------
(* The cluster (external).                                                 *)

Lands(i) ==
    /\ i \in landing
    /\ landing' = landing \ {i}
    /\ helper' = [helper EXCEPT ![i] = IF @ = None THEN "pending" ELSE @]
    /\ excused' = excused \cup {i}
    /\ UNCHANGED <<agent, pc, slots, over, toSweep>>

PodRuns(i) ==
    /\ helper[i] = "pending"
    /\ helper' = [helper EXCEPT ![i] = "running"]
    /\ UNCHANGED <<agent, pc, slots, over, toSweep, landing, excused>>

\* (mutant) a running helper has no deadline
PodEndsPending(i) ==
    /\ helper[i] = "pending"
    /\ helper' = [helper EXCEPT ![i] = "ended"]
    /\ UNCHANGED <<agent, pc, slots, over, toSweep, landing, excused>>

\* activeDeadlineSeconds, an eviction or a failed container ends the Pod; the
\* object stays.
PodEnds(i) ==
    /\ helper[i] \in {"pending", "running"}
    /\ helper' = [helper EXCEPT ![i] = "ended"]
    /\ UNCHANGED <<agent, pc, slots, over, toSweep, landing, excused>>

PodGone(i) ==
    /\ helper[i] = "terminating"
    /\ helper' = [helper EXCEPT ![i] = None]
    /\ UNCHANGED <<agent, pc, slots, over, toSweep, landing, excused>>

-----------------------------------------------------------------------------
Init ==
    /\ agent = "boot"
    /\ pc = [i \in Ids |-> "idle"]
    /\ sessions = {} /\ nodeSessions = 0
    /\ over = {} /\ toSweep = {}
    /\ helper = [i \in NodeIds |-> None]
    /\ landing = {} /\ excused = {}

Goroutine(i) ==
    \/ OpenRefused(i) \/ OpenStarts(i) \/ RunReturns(i) \/ SlotReleased(i)
    \/ CreateHelper(i) \/ CreateFails(i) \/ AwaitHelper(i) \/ HelperCleanup(i)

Next ==
    \/ \E i \in Ids : OpenPod(i) \/ OpenNode(i) \/ SessionOver(i) \/ Goroutine(i)
    \/ \E i \in NodeIds : Lands(i) \/ PodRuns(i) \/ PodEnds(i) \/ PodGone(i) \/ SweepDeletes(i)
    \/ Crash \/ Boot \/ SweepLists \/ SweepEnds

Spec == Init /\ [][Next]_vars

\* Every call of a session's goroutine is bounded by a timeout and the session
\* itself by max_session; a Pod past its deadline is stopped and a deleted one goes.
FairSpec ==
    /\ Spec
    /\ \A i \in Ids : WF_vars(Goroutine(i))
    /\ \A i \in NodeIds : WF_vars(PodEnds(i)) /\ WF_vars(PodGone(i))

-----------------------------------------------------------------------------
(* Correctness.                                                            *)

\* Slots and helpers are accounted for.  The map holds the sessions under way and
\* no others, the counter the node sessions among them, and neither kind ever
\* exceeds its own limit, whatever the other one does.  A privileged helper that
\* runs without its session is the work of a fault: the agent died, the delete
\* failed, or a create it had given up on landed late.  The boot sweep is over
\* before the first console opens, so it never deletes a helper of this process.
ConsolesAccounted ==
    /\ sessions = {i \in Ids : pc[i] # "idle"}
    /\ nodeSessions = Cardinality(sessions \cap NodeIds)
    /\ nodeSessions <= MaxNode
    /\ Cardinality(sessions \cap PodIds) <= MaxPod
    /\ \A i \in NodeIds : helper[i] \in {"pending", "running"} => (i \in sessions \/ i \in excused)
    /\ toSweep # {} => sessions = {}

\* Every slot comes back, and no helper runs for ever, the ones that a dying
\* agent left in a namespace where nothing collects them included.
SlotsAndHelpersEnd ==
    /\ \A i \in Ids : i \in sessions ~> i \notin sessions
    /\ \A i \in NodeIds : Live(i) ~> ~Live(i)
=============================================================================
