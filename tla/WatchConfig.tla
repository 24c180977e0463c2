---------------------------- MODULE WatchConfig ----------------------------
(***************************************************************************)
(* Demand-driven watches.  The gateway pushes the set of resources someone *)
(* is looking at; reconcileWatchConfig (internal/stream/manager.go) hands  *)
(* it to the reconcilerHolder (cmd/agent/main.go), which remembers it      *)
(* until the state collector has started, and reconcile                    *)
(* (internal/collector/state/reconciler.go) starts and stops informers     *)
(* until they match.  Sessions end, informers fail to start, and shutdown  *)
(* may overtake a reconcile that is still running.                         *)
(***************************************************************************)
EXTENDS Naturals, FiniteSets, TLC

CONSTANTS Resources,    \* the resources that may be watched
          MaxPushes,    \* watch configs the gateway pushes
          MaxFaults     \* failed starts and ended sessions

VARIABLES inner,        \* the build has a state collector
          resolved,     \* reconcilerHolder.resolved
          pending,      \* reconcilerHolder.pending, or None
          collector,    \* the state collector's phase
          runCtx,       \* Collector.runCtx: "nil", "live" or "cancelled"
          watches,      \* the keys of Collector.watches, or None for a nil map
          alive,        \* the demand informers that are running
          call,         \* the Reconcile in hand, under the holder's mutex
          session,      \* the session context is live
          down,         \* the run group's context is cancelled
          desired,      \* history: the last set pushed
          unmet,        \* history: that set's reconcile gave up or skipped one
          pushes, faults

vars == <<inner, resolved, pending, collector, runCtx, watches, alive, call, session, down,
          desired, unmet, pushes, faults>>

\* The absent set: a nil map, or no pending set.
None == {"none"}
Idle == [phase |-> "idle"]

Init ==
    /\ inner \in BOOLEAN
    /\ resolved = FALSE /\ pending = None
    /\ collector = "built" /\ runCtx = "nil" /\ watches = None /\ alive = {}
    /\ call = Idle /\ session = TRUE /\ down = FALSE
    /\ desired = {} /\ unmet = FALSE /\ pushes = 0 /\ faults = 0

-----------------------------------------------------------------------------
(* The holder *)

Begun(d, ctx) == [phase |-> "diff", want |-> d, ctx |-> ctx]

\* A watch config arrives on the receive loop, one at a time.  An unresolved
\* holder refuses and remembers it; a holder resolved to nothing ignores it.
Push(d) ==
    /\ session /\ call = Idle /\ pushes < MaxPushes
    /\ pushes' = pushes + 1 /\ desired' = d /\ unmet' = FALSE
    /\ \/ ~resolved /\ pending' = d /\ UNCHANGED call
       \/ resolved /\ ~inner /\ UNCHANGED <<pending, call>>
       \/ resolved /\ inner /\ call' = Begun(d, "session") /\ UNCHANGED pending
    /\ UNCHANGED <<inner, resolved, collector, runCtx, watches, alive, session, down, faults>>

\* (mutant) the holder is resolved as soon as the collector exists
ResolvedEarly ==
    /\ ~resolved /\ call = Idle
    /\ resolved' = TRUE /\ pending' = None
    /\ call' = (IF inner /\ pending # None THEN Begun(pending, "run") ELSE Idle)
    /\ UNCHANGED <<inner, collector, runCtx, watches, alive, session, down, desired, unmet, pushes, faults>>

\* Set: once the collector's Start has returned, or at once without one; the
\* set that was refused last is replayed under the same lock.
Resolved ==
    /\ ~resolved /\ call = Idle
    /\ ~inner \/ collector = "started"
    /\ resolved' = TRUE /\ pending' = None
    /\ call' = (IF inner /\ pending # None THEN Begun(pending, "run") ELSE Idle)
    /\ UNCHANGED <<inner, collector, runCtx, watches, alive, session, down, desired, unmet, pushes, faults>>

-----------------------------------------------------------------------------
(* reconcile *)

CtxDone == IF call.ctx = "session" THEN ~session ELSE down

\* Its context is cancelled, and the set it was given is not in force.
GivesUp == call' = Idle /\ unmet' = TRUE

\* reconcile's first half: the context is checked, and under watchMu the
\* collector's context is captured and what is not wanted is cancelled.
Diff ==
    /\ call.phase = "diff"
    /\ LET registered == IF watches = None THEN {} ELSE watches
           toStart == call.want \ registered
       IN  \/ /\ CtxDone /\ GivesUp
              /\ UNCHANGED <<watches, alive>>
           \/ /\ ~CtxDone
              /\ watches' = registered \cap call.want
              /\ alive' = alive \ (registered \ call.want)
              /\ IF toStart = {} THEN call' = Idle /\ UNCHANGED unmet
                 ELSE IF runCtx = "nil" THEN call' = Idle /\ UNCHANGED unmet  \* not started: refused
                 ELSE /\ call' = [phase |-> "start", todo |-> toStart, ctx |-> call.ctx]
                      /\ UNCHANGED unmet
    /\ UNCHANGED <<inner, resolved, pending, collector, runCtx, session, down, desired, pushes, faults>>

\* The informer lives as long as the captured context, so one started after
\* the collector was cancelled is already stopping.
StartDemandWatch(g) ==
    /\ call.phase = "start" /\ g \in call.todo /\ ~CtxDone
    /\ alive' = IF runCtx = "live" THEN alive \cup {g} ELSE alive
    /\ call' = [call EXCEPT !.phase = "register", !.todo = @ \ {g}] @@ [gvr |-> g]
    /\ UNCHANGED <<inner, resolved, pending, collector, runCtx, watches, session, down, desired, unmet,
                   pushes, faults>>

\* A resource whose informer cannot be built is logged and skipped.
StartFails(g) ==
    /\ call.phase = "start" /\ g \in call.todo /\ ~CtxDone /\ faults < MaxFaults
    /\ faults' = faults + 1
    /\ call' = [call EXCEPT !.todo = @ \ {g}] /\ unmet' = TRUE
    /\ UNCHANGED <<inner, resolved, pending, collector, runCtx, watches, alive, session, down, desired, pushes>>

Abandoned ==
    /\ call.phase = "start" /\ call.todo # {} /\ CtxDone
    /\ GivesUp
    /\ UNCHANGED <<inner, resolved, pending, collector, runCtx, watches, alive, session, down, desired,
                   pushes, faults>>

\* (mutant) the map that Stop cleared is made again
RegisterRemakes ==
    /\ call.phase = "register"
    /\ watches' = (IF watches = None THEN {} ELSE watches) \cup {call.gvr}
    /\ call' = [phase |-> "start", todo |-> call.todo, ctx |-> call.ctx]
    /\ UNCHANGED <<inner, resolved, pending, collector, runCtx, alive, session, down, desired, unmet, pushes, faults>>

\* startDemandWatch's second half, under watchMu: a nil map means Stop came
\* in between, and the informer is dropped.
Register ==
    /\ call.phase = "register"
    /\ \/ watches = None /\ alive' = alive \ {call.gvr} /\ UNCHANGED watches
       \/ watches # None /\ watches' = watches \cup {call.gvr} /\ UNCHANGED alive
    /\ call' = [phase |-> "start", todo |-> call.todo, ctx |-> call.ctx]
    /\ UNCHANGED <<inner, resolved, pending, collector, runCtx, session, down, desired, unmet, pushes, faults>>

Returns ==
    /\ call.phase = "start" /\ call.todo = {}
    /\ call' = Idle
    /\ UNCHANGED <<inner, resolved, pending, collector, runCtx, watches, alive, session, down, desired,
                   unmet, pushes, faults>>

-----------------------------------------------------------------------------
(* The collector's life, the session and the run group *)

\* Start sets runCtx before it waits for the static rules' caches.
Start ==
    /\ inner /\ collector = "built" /\ ~down
    /\ collector' = "starting" /\ runCtx' = "live"
    /\ UNCHANGED <<inner, resolved, pending, watches, alive, call, session, down, desired, unmet, pushes, faults>>

CachesSynced ==
    /\ collector = "starting" /\ ~down
    /\ collector' = "started"
    /\ UNCHANGED <<inner, resolved, pending, runCtx, watches, alive, call, session, down, desired, unmet,
                   pushes, faults>>

\* clearRunCtx: Start's failure and the end of Stop both run it.
ClearRunCtx == runCtx' = "nil" /\ watches' = None /\ alive' = {}

\* A collector that cannot start takes the run group down.
StartErrs ==
    /\ collector = "starting"
    /\ collector' = "failed" /\ ClearRunCtx
    /\ down' = TRUE /\ session' = FALSE
    /\ UNCHANGED <<inner, resolved, pending, call, desired, unmet, pushes, faults>>

\* The session ends and the next begins; a reconcile of the old one goes on
\* until it looks at its context, and the new session waits for it.
SessionEnds ==
    /\ session /\ faults < MaxFaults
    /\ faults' = faults + 1 /\ session' = FALSE
    /\ UNCHANGED <<inner, resolved, pending, collector, runCtx, watches, alive, call, down, desired, unmet, pushes>>

SessionBegins ==
    /\ ~session /\ ~down /\ call = Idle
    /\ session' = TRUE
    /\ UNCHANGED <<inner, resolved, pending, collector, runCtx, watches, alive, call, down, desired, unmet,
                   pushes, faults>>

\* The process is told to stop: every context derives from this one.
Shutdown ==
    /\ ~down
    /\ down' = TRUE /\ session' = FALSE
    /\ runCtx' = (IF runCtx = "live" THEN "cancelled" ELSE runCtx) /\ alive' = {}
    /\ UNCHANGED <<inner, resolved, pending, collector, watches, call, desired, unmet, pushes, faults>>

\* Stop runs once the group has returned; its workers gone it clears the run.
\* A reconcile on an abandoned receive loop may still be under way, one that
\* the collector's own goroutine replays may not.
Stop ==
    /\ down /\ collector = "started" /\ (call # Idle => call.ctx = "session")
    /\ collector' = "stopped" /\ ClearRunCtx
    /\ UNCHANGED <<inner, resolved, pending, call, session, down, desired, unmet, pushes, faults>>

-----------------------------------------------------------------------------
Next ==
    \/ \E d \in SUBSET Resources : Push(d)
    \/ Resolved \/ Diff \/ Abandoned \/ Register \/ Returns
    \/ \E g \in Resources : StartDemandWatch(g) \/ StartFails(g)
    \/ Start \/ CachesSynced \/ StartErrs
    \/ SessionEnds \/ SessionBegins \/ Shutdown \/ Stop

-----------------------------------------------------------------------------
(* Properties *)

\* The informers follow the screen: while the agent runs, with the collector
\* started, the holder resolved and no reconcile in hand, exactly the
\* resources of the last watch config are registered, and each registered
\* informer is running, also when that config came before the collectors
\* existed, or on a session that has ended since.  The exception is a config
\* whose own reconcile was abandoned with its session or could not build an
\* informer: nothing repeats it.  A stopped collector keeps no informer and no
\* entry that a later reconcile would take for one.
WatchesConverge ==
    /\ inner /\ collector = "started" /\ resolved /\ ~down /\ call = Idle /\ ~unmet =>
          (watches = desired \/ (desired = {} /\ watches = None)) /\ alive = desired
    /\ collector \in {"stopped", "failed"} /\ call = Idle => watches \in {None, {}} /\ alive = {}
=============================================================================
