------------------------------ MODULE NodeJobs ------------------------------
(***************************************************************************)
(* The node-job engine of internal/nodeops: cordon, uncordon and drain as  *)
(* jobs that run one at a time, against a node whose pods come and go on   *)
(* their own.  Every API call is a step of its own, so the cluster may     *)
(* change, the job may be cancelled and the deadline may fire between any  *)
(* two calls; a call whose context has ended may still have taken effect.  *)
(***************************************************************************)
EXTENDS Naturals, FiniteSets

CONSTANTS
    Jobs,       \* job ids; the gateway never reuses one
    Pods,       \* pod names, numbered in the order a List answers
    Kinds,      \* Kinds[p]: what Classify may find out about a pod called p
    AgentPod,   \* the pod the agent runs in
    OwnNames,   \* what POD_NAME may hold: AgentPod, or Unset
    Requests,   \* Requests[j]: what the gateway may ask for under job id j
    Policy,     \* mutate.node compiled: [enabled, nodes, verbs]
    MaxUid,     \* bound: MaxUid[p] pods in a row may carry the name p
    MaxFaults   \* bound: API calls that fail for another reason than a PDB

None == "none"
TheNode == 0
Unset == 0
Verbs == {"cordon", "uncordon", "drain"}
PodKinds == [exempt : {"mirror", "daemonset", "no"},
             controlled : BOOLEAN, emptyDir : BOOLEAN, finished : BOOLEAN]

VARIABLES
    own,        \* opts.Own: the name the downward API gave, or Unset
    running,    \* e.running: the job in the slot, or None
    pc,         \* per job: the call its goroutine makes next
    req,        \* per job: its request
    ctx,        \* per job: "live", "canceled" or "deadline"
    table,      \* per job: s.pods, pod -> [state, uid, kind]; state "absent": no row
    left,       \* per job: EVICTING rows the tick's pods List no longer shows
    todo,       \* per job: rows the current pass has not visited
    nodeCordoned,  \* per job: s.nodeCordoned
    final,      \* per job: the terminal phase run() returned
    phase,      \* per job: the phase of the last event emitted
    unschedulable, \* the node's spec.unschedulable
    pod,        \* per name: [at, uid, kind, terminating], at "here", "away" or "gone"
    touched,    \* history: what each job changed in the cluster while it ran
    faults      \* bound: failed calls so far

jobVars == <<pc, req, ctx, table, left, todo, nodeCordoned, final, phase>>
cluster == <<unschedulable, pod>>
vars == <<own, running, jobVars, cluster, touched, faults>>

NoKind == [exempt |-> None, controlled |-> FALSE, emptyDir |-> FALSE, finished |-> FALSE]
NoRow == [state |-> "absent", uid |-> 0, kind |-> NoKind]
Gone(uid) == [at |-> "gone", uid |-> uid, kind |-> NoKind, terminating |-> FALSE]
Waiting == {"PENDING", "EVICTING", "BLOCKED"}
Rows(j) == {p \in Pods : table[j][p].state # "absent"}

Init ==
    /\ own \in OwnNames
    /\ running = None
    /\ pc = [j \in Jobs |-> "new"]
    /\ req \in {f \in [Jobs -> UNION {Requests[j] : j \in Jobs}] : \A j \in Jobs : f[j] \in Requests[j]}
    /\ ctx = [j \in Jobs |-> "live"]
    /\ table = [j \in Jobs |-> [p \in Pods |-> NoRow]]
    /\ left = [j \in Jobs |-> {}]
    /\ todo = [j \in Jobs |-> {}]
    /\ nodeCordoned = [j \in Jobs |-> FALSE]
    /\ final = [j \in Jobs |-> "NONE"]
    /\ phase = [j \in Jobs |-> "NONE"]
    /\ unschedulable = FALSE
    /\ pod \in [Pods -> {Gone(1)} \cup [at : {"here"}, uid : {1}, kind : UNION {Kinds[p] : p \in Pods}, terminating : BOOLEAN]]
    /\ \A p \in Pods : pod[p].kind \in Kinds[p] \cup {NoKind}
    /\ pod[AgentPod].at = "here" /\ ~pod[AgentPod].terminating
    /\ touched = [j \in Jobs |-> {}]
    /\ faults = 0

-----------------------------------------------------------------------------
(* Pure parts: the policy, the request's checks, the classification. *)

\* Disabled, then the node, then the verb: the first that refuses wins.
Decide(node, verb) ==
    CASE ~Policy.enabled            -> "disabled"
      [] node \notin Policy.nodes   -> "node"
      [] verb \notin Policy.verbs   -> "verb"
      [] OTHER                      -> "allowed"

\* The state Classify gives the pod that carries name p, in kubectl's order.
\* (mutant) the agent's own pod is not recognised
ClassifyOwn(p) ==
    CASE pod[p].kind.exempt # "no" -> "SKIPPED"
      [] pod[p].terminating -> "EVICTING"
      [] OTHER -> "PENDING"

Classify(p) ==
    CASE pod[p].kind.exempt # "no" \/ p = own -> "SKIPPED"
      [] pod[p].terminating -> "EVICTING"
      [] OTHER -> "PENDING"

\* Pods the request may not evict as it stands: those nothing would recreate,
\* then those whose emptyDir data would be lost.
Here == {p \in Pods : pod[p].at = "here"}
NeedsForce(r) ==
    {p \in Here : Classify(p) = "PENDING" /\ ~pod[p].kind.finished /\ ~pod[p].kind.controlled /\ ~r.force}
NeedsEmptyDir(r) ==
    {p \in Here \ NeedsForce(r) :
        Classify(p) = "PENDING" /\ ~pod[p].kind.finished /\ pod[p].kind.emptyDir /\ ~r.deleteEmptyDir}

-----------------------------------------------------------------------------
(* Steps of the job's goroutine. *)

Goto(j, l) == pc' = [pc EXCEPT ![j] = l]
Emit(j, p) == phase' = [phase EXCEPT ![j] = p]

\* run() returns its terminal event; the caller releases the slot first.
Return(j, p) ==
    /\ Goto(j, "release")
    /\ final' = [final EXCEPT ![j] = p]

\* endEarly: Cancel is the only source of Canceled, the deadline of the rest.
EndedBy(c) == IF c = "canceled" THEN "CANCELLED" ELSE "FAILED"

\* An API call under an ended context fails, and the job ends early; a call
\* that fails on its own account (within the bound) ends it in phase p.
Fault == faults < MaxFaults /\ faults' = faults + 1
CallFails(j, p) ==
    \/ ctx[j] # "live" /\ Return(j, EndedBy(ctx[j])) /\ UNCHANGED faults
    \/ ctx[j] = "live" /\ Fault /\ Return(j, p)

\* The context ends while a call is in flight: the call reports an error,
\* whether or not the server carried it out.
EndsDuringCall(j, c) ==
    /\ ctx[j] = "live"
    /\ c \in {"canceled", "deadline"}
    /\ ctx' = [ctx EXCEPT ![j] = c]

\* Start: verb, policy, slot; a refusal is emitted at once.
Start(j) ==
    /\ pc[j] = "new"
    /\ LET r == req[j]
           refuse == r.verb = "unknown" \/ Decide(r.node, r.verb) # "allowed" \/ running # None
       IN IF refuse
          THEN Goto(j, "done") /\ Emit(j, "REFUSED") /\ UNCHANGED running
          ELSE Goto(j, "get") /\ running' = j /\ UNCHANGED phase
    /\ UNCHANGED <<req, ctx, table, left, todo, nodeCordoned, final, cluster, touched, faults>>

Cancel(j) ==
    /\ running = j
    /\ ctx[j] = "live"
    /\ ctx' = [ctx EXCEPT ![j] = "canceled"]
    /\ UNCHANGED <<running, pc, req, table, left, todo, nodeCordoned, final, phase, cluster, touched, faults>>

Deadline(j) ==
    /\ pc[j] \notin {"new", "release", "emit", "done"}
    /\ ctx[j] = "live"
    /\ ctx' = [ctx EXCEPT ![j] = "deadline"]
    /\ UNCHANGED <<running, pc, req, table, left, todo, nodeCordoned, final, phase, cluster, touched, faults>>

\* run: the node must exist before anything is promised.
GetNode(j) ==
    /\ pc[j] = "get"
    /\ \/ /\ ctx[j] = "live"
          /\ IF req[j].verb = "drain" THEN Goto(j, "list") /\ UNCHANGED phase
                                      ELSE Goto(j, "read") /\ Emit(j, "ACCEPTED")
          /\ UNCHANGED <<final, faults>>
       \/ CallFails(j, "REFUSED") /\ UNCHANGED phase
    /\ UNCHANGED <<running, req, ctx, table, left, todo, nodeCordoned, cluster, touched>>

\* runDrain: list the node's pods, classify them, refuse or accept.
ListPods(j) ==
    /\ pc[j] = "list"
    /\ \/ /\ ctx[j] = "live"
          /\ table' = [table EXCEPT ![j] = [p \in Pods |->
                 IF p \in Here THEN [state |-> Classify(p), uid |-> pod[p].uid, kind |-> pod[p].kind] ELSE NoRow]]
          /\ IF NeedsForce(req[j]) # {} \/ NeedsEmptyDir(req[j]) # {}
             THEN Return(j, "REFUSED") /\ UNCHANGED phase
             ELSE Goto(j, "read") /\ Emit(j, "ACCEPTED") /\ UNCHANGED final
          /\ UNCHANGED faults
       \/ CallFails(j, "REFUSED") /\ UNCHANGED <<table, phase>>
    /\ UNCHANGED <<running, req, ctx, left, todo, nodeCordoned, cluster, touched>>

\* What follows a successful SetUnschedulable.
Cordoned(j) ==
    IF req[j].verb = "drain"
    THEN /\ nodeCordoned' = [nodeCordoned EXCEPT ![j] = ~req[j].dryRun]
         /\ Goto(j, "tick") /\ Emit(j, "RUNNING") /\ UNCHANGED final
    ELSE /\ nodeCordoned' = [nodeCordoned EXCEPT ![j] = req[j].verb = "cordon"]
         /\ Return(j, "SUCCEEDED") /\ UNCHANGED phase

\* SetUnschedulable reads the node first and patches only on a change.
ReadNode(j) ==
    /\ pc[j] = "read"
    /\ \/ /\ ctx[j] = "live" /\ UNCHANGED faults
          /\ IF unschedulable = (req[j].verb # "uncordon")
             THEN Cordoned(j)
             ELSE Goto(j, "patch") /\ UNCHANGED <<nodeCordoned, final, phase>>
       \/ CallFails(j, "FAILED") /\ UNCHANGED <<nodeCordoned, phase>>
    /\ UNCHANGED <<running, req, ctx, table, left, todo, cluster, touched>>

\* (mutant) the patch is sent for real on a dry run
PatchedAlways(j) ==
    /\ unschedulable' = (req[j].verb # "uncordon")
    /\ touched' = [touched EXCEPT ![j] = @ \cup {TheNode}]

\* The patch, sent with dryRun=All on a dry run.
Patched(j) ==
    IF req[j].verb = "drain" /\ req[j].dryRun
    THEN UNCHANGED <<unschedulable, touched>>
    ELSE /\ unschedulable' = (req[j].verb # "uncordon")
         /\ touched' = [touched EXCEPT ![j] = @ \cup {TheNode}]

PatchNode(j) ==
    /\ pc[j] = "patch"
    /\ \/ ctx[j] = "live" /\ Patched(j) /\ Cordoned(j) /\ UNCHANGED <<ctx, faults>>
       \/ CallFails(j, "FAILED") /\ UNCHANGED <<ctx, nodeCordoned, phase, unschedulable, touched>>
       \/ \E c \in {"canceled", "deadline"} :
            /\ EndsDuringCall(j, c) /\ Return(j, EndedBy(c))
            /\ Patched(j)
            /\ UNCHANGED <<faults, nodeCordoned, phase>>
    /\ UNCHANGED <<running, req, table, left, todo, pod>>

AnyEvicting(j) == \E p \in Pods : table[j][p].state = "EVICTING"

\* The top of the wait loop: one List when a row is EVICTING; a transient
\* failure leaves no list for this tick.
Tick(j) ==
    /\ pc[j] = "tick"
    /\ todo' = [todo EXCEPT ![j] = Rows(j)]
    /\ IF req[j].dryRun \/ ~AnyEvicting(j)
       THEN /\ left' = [left EXCEPT ![j] = {}]
            /\ Goto(j, "walk") /\ UNCHANGED <<final, faults>>
       ELSE \/ /\ ctx[j] = "live"
               /\ left' = [left EXCEPT ![j] = {p \in Pods :
                     /\ table[j][p].state = "EVICTING"
                     /\ p \notin Here \/ pod[p].uid # table[j][p].uid}]
               /\ Goto(j, "walk") /\ UNCHANGED <<final, faults>>
            \/ /\ left' = [left EXCEPT ![j] = {}]
               /\ \/ CallFails(j, "FAILED")
                  \/ ctx[j] = "live" /\ Fault /\ Goto(j, "walk") /\ UNCHANGED final
    /\ UNCHANGED <<running, req, ctx, table, nodeCordoned, phase, cluster, touched>>

SetRow(j, p, s) == table' = [table EXCEPT ![j][p].state = s]

\* The eviction takes effect: whatever pod carries the name is terminating,
\* wherever it runs -- the call names no UID.
Evicted(j, p) ==
    /\ pod' = [pod EXCEPT ![p].terminating = TRUE]
    /\ touched' = [touched EXCEPT ![j] = @ \cup {p}]

\* One PENDING or BLOCKED row: the eviction and its outcomes.
EvictRow(j, p) ==
    \/ /\ pod[p].at # "gone"
       /\ IF req[j].dryRun THEN SetRow(j, p, "GONE") /\ UNCHANGED <<pod, touched>>
                           ELSE SetRow(j, p, "EVICTING") /\ Evicted(j, p)
       /\ UNCHANGED <<ctx, pc, final, faults>>
    \/ /\ \E c \in {"canceled", "deadline"} : EndsDuringCall(j, c)
       /\ \/ UNCHANGED <<pod, touched>>
          \/ pod[p].at # "gone" /\ ~req[j].dryRun /\ Evicted(j, p)
       /\ UNCHANGED <<table, pc, final, faults>>
    \/ \* 429: a disruption budget forbids it now
       /\ pod[p].at # "gone"
       /\ SetRow(j, p, "BLOCKED")
       /\ UNCHANGED <<ctx, pod, touched, pc, final, faults>>
    \/ \* 404
       /\ pod[p].at = "gone"
       /\ SetRow(j, p, "GONE")
       /\ UNCHANGED <<ctx, pod, touched, pc, final, faults>>
    \/ \* 403 ends the job, anything else fails the row
       /\ Fault
       /\ \/ Return(j, "FAILED") /\ UNCHANGED table
          \/ SetRow(j, p, "FAILED") /\ UNCHANGED <<pc, final>>
       /\ UNCHANGED <<ctx, pod, touched>>

\* (mutant) the row is gone once it has been evicted
AwaitRowEvicted(j, p) ==
    /\ SetRow(j, p, "GONE")
    /\ UNCHANGED <<ctx, pod, touched, pc, final, faults>>

\* An EVICTING row is gone once a fresh list no longer shows its UID.
AwaitRow(j, p) ==
    /\ SetRow(j, p, IF req[j].dryRun \/ p \in left[j]
                    THEN "GONE" ELSE "EVICTING")
    /\ UNCHANGED <<ctx, pod, touched, pc, final, faults>>

\* One row of the pass, in table order.  A BLOCKED row is skipped
\* until its retry time, and always on a dry run; SKIPPED, GONE and FAILED
\* rows are left alone.
WalkRow(j, p) ==
    /\ pc[j] = "walk" /\ p \in todo[j] /\ ctx[j] = "live"
    /\ \A q \in todo[j] : p <= q
    /\ todo' = [todo EXCEPT ![j] = @ \ {p}]
    /\ \/ table[j][p].state = "PENDING" /\ EvictRow(j, p)
       \/ table[j][p].state = "BLOCKED" /\ ~req[j].dryRun /\ EvictRow(j, p)
       \/ table[j][p].state = "EVICTING" /\ AwaitRow(j, p)
       \/ /\ table[j][p].state \in {"BLOCKED", "SKIPPED", "GONE", "FAILED"}
          /\ UNCHANGED <<table, ctx, pod, touched, pc, final, faults>>
    /\ UNCHANGED <<running, req, left, nodeCordoned, phase, unschedulable>>

Remaining(j) ==
    {p \in Pods : table[j][p].state \in
        IF req[j].dryRun THEN Waiting \ {"BLOCKED"} ELSE Waiting}

\* (mutant) the end of a pass does not look at the context
PassDoneDeaf(j) ==
    /\ pc[j] = "walk"
    /\ todo[j] = {} \/ ctx[j] # "live"
    /\ todo' = [todo EXCEPT ![j] = {}]
    /\ IF Remaining(j) = {}
       THEN Return(j, "SUCCEEDED") /\ UNCHANGED phase
       ELSE Goto(j, "poll") /\ Emit(j, "RUNNING") /\ UNCHANGED final
    /\ left' = [left EXCEPT ![j] = {}]
    /\ UNCHANGED <<running, req, ctx, table, nodeCordoned, cluster, touched, faults>>

\* The end of a pass: the context, then what is left to wait for.
PassDone(j) ==
    /\ pc[j] = "walk"
    /\ todo[j] = {} \/ ctx[j] # "live"
    /\ todo' = [todo EXCEPT ![j] = {}]
    /\ IF ctx[j] # "live" THEN Return(j, EndedBy(ctx[j])) /\ UNCHANGED phase
       ELSE IF Remaining(j) = {}
       THEN /\ Return(j, IF \E p \in Pods : table[j][p].state = "FAILED"
                         THEN "FAILED" ELSE "SUCCEEDED")
            /\ UNCHANGED phase
       ELSE Goto(j, "poll") /\ Emit(j, "RUNNING") /\ UNCHANGED final
    /\ left' = [left EXCEPT ![j] = {}]
    /\ UNCHANGED <<running, req, ctx, table, nodeCordoned, cluster, touched, faults>>

\* select on the context and the poll timer.
Poll(j) ==
    /\ pc[j] = "poll"
    /\ \/ Goto(j, "tick") /\ UNCHANGED final
       \/ ctx[j] # "live" /\ Return(j, EndedBy(ctx[j]))
    /\ UNCHANGED <<running, req, ctx, table, left, todo, nodeCordoned, phase, cluster, touched, faults>>

\* (mutant) the terminal event is out while the slot is taken
ReleaseSlotLast(j) ==
    /\ pc[j] = "release"
    /\ Emit(j, final[j])
    /\ Goto(j, "emit")
    /\ UNCHANGED <<running, req, ctx, table, left, todo, nodeCordoned, final, cluster, touched, faults>>

\* The slot is free before the terminal event exists; run's locals are gone.
ReleaseSlot(j) ==
    /\ pc[j] = "release"
    /\ running' = None
    /\ Goto(j, "emit")
    /\ ctx' = [ctx EXCEPT ![j] = "live"]
    /\ table' = [table EXCEPT ![j] = [p \in Pods |-> NoRow]]
    /\ nodeCordoned' = [nodeCordoned EXCEPT ![j] = FALSE]
    /\ touched' = [touched EXCEPT ![j] = {}]
    /\ UNCHANGED <<req, left, todo, final, phase, cluster, faults>>

EmitFinal(j) ==
    /\ pc[j] = "emit"
    /\ Emit(j, final[j])
    /\ Goto(j, "done")
    /\ UNCHANGED <<running, req, ctx, table, left, todo, nodeCordoned, final, cluster, touched, faults>>

-----------------------------------------------------------------------------
(* The cluster, on its own account (kubelet, controllers, other users). *)

\* A pod goes: its termination ends, or somebody else deletes it.  The
\* agent's pod outlives every job it runs: when it goes, the process does.
PodGone(p) ==
    /\ pod[p].at # "gone" /\ p # AgentPod
    /\ pod' = [pod EXCEPT ![p] = Gone(@.uid)]
    /\ UNCHANGED <<running, jobVars, unschedulable, touched, faults>>

\* The name is used again, by a pod of any kind; the scheduler uses the node
\* only while it is schedulable, daemonset and mirror pods ignore that.
PodAppears(p, where, kind) ==
    /\ pod[p].at = "gone" /\ pod[p].uid < MaxUid[p]
    /\ where = "here" => ~unschedulable \/ kind.exempt \in {"daemonset", "mirror"}
    /\ pod' = [pod EXCEPT ![p] = [at |-> where, uid |-> @.uid + 1, kind |-> kind, terminating |-> FALSE]]
    /\ UNCHANGED <<running, jobVars, unschedulable, touched, faults>>

-----------------------------------------------------------------------------

Step(j) ==
    \/ Start(j) \/ GetNode(j) \/ ListPods(j) \/ ReadNode(j) \/ PatchNode(j)
    \/ Tick(j) \/ PassDone(j) \/ Poll(j) \/ ReleaseSlot(j) \/ EmitFinal(j)
    \/ \E p \in Pods : WalkRow(j, p)

ClusterStep ==
    \E p \in Pods :
        PodGone(p) \/ \E where \in {"here", "away"}, kind \in Kinds[p] : PodAppears(p, where, kind)

Next ==
    /\ \/ \E j \in Jobs : Step(j) \/ Cancel(j) \/ Deadline(j)
       \/ ClusterStep
    /\ UNCHANGED own

Spec == Init /\ [][Next]_vars

\* The goroutine of a started job keeps running and its deadline is real time.
FairSpec ==
    /\ Spec
    /\ \A j \in Jobs : WF_vars(pc[j] # "new" /\ Step(j) /\ UNCHANGED own) /\ WF_vars(Deadline(j) /\ UNCHANGED own)

-----------------------------------------------------------------------------

\* The jobs keep the promise of JobLifecycle: one job in the slot, progress in
\* order, one terminal event, and only after the slot was released -- "a caller
\* that starts the next job on seeing a terminal event is never told BUSY".
Lifecycle == INSTANCE JobLifecycle WITH
    stage <- [j \in Jobs |-> CASE pc[j] = "new" -> "new" [] pc[j] = "emit" -> "released"
                                [] pc[j] = "done" -> "over" [] OTHER -> "active"]
ImplementsLifecycle == Lifecycle!Spec

\* What a job says and does is what it was asked for.  A row the drain reports as
\* evicted is the pod it listed, and that pod has left the cluster for good,
\* although the list it is judged by is stale when the row is visited and a new
\* pod may carry the name.  No name is evicted but one under which the job listed
\* a pod that is no mirror or DaemonSet pod and whose loss the request accepts,
\* and not the agent's own where POD_NAME tells it.  (The eviction carries no UID:
\* a pod that has taken the name since goes with it, whatever it is; and an agent
\* that does not know its name evicts itself, as it warns at boot.)  A dry run and
\* a refused job leave the cluster as they found it, even when interrupted.
JobsHonest ==
    \A j \in Jobs :
        /\ \A p \in Pods : table[j][p].state = "GONE" /\ ~req[j].dryRun
              => pod[p].at = "gone" \/ pod[p].uid # table[j][p].uid
        /\ \A p \in touched[j] \cap Pods :
              LET listed == table[j][p].kind
              IN /\ p \in Rows(j) /\ p # own /\ listed.exempt = "no"
                 /\ ~listed.finished => /\ listed.controlled \/ req[j].force
                                        /\ ~listed.emptyDir \/ req[j].deleteEmptyDir
        /\ \/ req[j].verb = "drain" /\ req[j].dryRun
           \/ phase[j] = "REFUSED" \/ final[j] = "REFUSED"
           => touched[j] = {}

\* Every job that is started reports a terminal event, however long a
\* disruption budget blocks it and whatever the cluster does meanwhile.
EveryJobEnds == \A j \in Jobs : pc[j] # "new" ~> pc[j] = "done"

\* README: "A drain evicts every pod on it."  When a drain reports the node
\* drained, no pod it may evict is left on the node.
DrainedNodeEmpty ==
    \A j \in Jobs :
        pc[j] = "release" /\ final[j] = "SUCCEEDED" /\ req[j].verb = "drain" /\ ~req[j].dryRun
            => \A p \in Here : Classify(p) = "SKIPPED"
=============================================================================
