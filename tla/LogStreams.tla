----------------------------- MODULE LogStreams -----------------------------
(***************************************************************************)
(* The log collector's set of streams (collector/logs: collector.go,       *)
(* discovery.go and the frame of runStream in stream.go).  Two goroutines  *)
(* reconcile the map of streams with the pods they see: the resync ticker, *)
(* which lists and prunes, and the pod watch, which handles one event at a *)
(* time.  Both reserve entries under streamsMu, release it, and then start *)
(* one goroutine per reservation, waiting for a semaphore permit each.     *)
(* What a stream reads is LogCursor; here it runs and ends.                *)
(***************************************************************************)
EXTENDS Integers, Sequences, FiniteSets

CONSTANTS Keys,         \* pod containers, each its own pod here
          WatchOnly,    \* those a rule's selector excludes: targetsForPod does not look at it
          MaxStreams,   \* max_concurrent_streams
          MaxChanges,   \* bound: pods that come or go, and failed lists
          MaxEvents     \* bound: undelivered watch events

VARIABLES
    pods,       \* containers that are eligible, loggable and match a rule
    events,     \* watch events not handled yet: <<key, present>>
    streams,    \* the map: handle per key
    actor,      \* what the two reconciling goroutines are doing
    stream,     \* the goroutine that holds each permit
    stopping,   \* "no", "cancelled" (c.cancel), "swept" (stopAllStreams)
    changes

vars == <<pods, events, streams, actor, stream, stopping, changes>>

Actors == {"resync", "watch"}
Permits == 1..MaxStreams

\* A handle: absent, a reservation whose cancel does nothing, or the cancel
\* function of the stream goroutine with this permit.
Absent == [is |-> "absent", permit |-> 0]
Starting == [is |-> "starting", permit |-> 0]
Tracks(p) == [is |-> "running", permit |-> p]

IdleActor == [pc |-> "idle", desired |-> {}, toStart |-> {}]
Free == [at |-> "free", key |-> "none", cancelled |-> FALSE]

-----------------------------------------------------------------------------
\* cancel() of the handles of these keys, applied to the stream goroutines.
Cancelled(keys) ==
    [p \in Permits |->
        [stream[p] EXCEPT !.cancelled = @ \/ \E k \in keys : streams[k] = Tracks(p)]]

\* The keys that get a reservation and a start.
Reserved(handles, desired) == {k \in desired : handles[k] = Absent}

\* reconcileStreams up to its Unlock: prune, then reserve what is missing.
Reconcile(a, desired, prune) ==
    LET gone == IF prune THEN {k \in Keys : streams[k] # Absent /\ k \notin desired} ELSE {}
        kept == [k \in Keys |-> IF k \in gone THEN Absent ELSE streams[k]]
        new == Reserved(kept, desired)
    IN /\ stream' = Cancelled(gone)
       /\ streams' = [k \in Keys |-> IF k \in new THEN Starting ELSE kept[k]]
       /\ actor' = [actor EXCEPT ![a] =
                      IF new = {} THEN IdleActor
                      ELSE [pc |-> "starting", desired |-> {}, toStart |-> new]]

\* resync: the lists are read one after another, then reconciled.  A list that
\* fails is skipped, and its pods are missing from desired.
ResyncLists ==
    /\ actor["resync"].pc = "idle" /\ stopping = "no"
    /\ \/ /\ actor' = [actor EXCEPT !["resync"] = [@ EXCEPT !.pc = "listed", !.desired = pods \ WatchOnly]]
          /\ UNCHANGED changes
       \/ /\ changes < MaxChanges
          /\ changes' = changes + 1
          /\ actor' = [actor EXCEPT !["resync"] = [@ EXCEPT !.pc = "listed"]]
    /\ UNCHANGED <<pods, events, streams, stream, stopping>>

ResyncReconciles ==
    /\ actor["resync"].pc = "listed"
    /\ Reconcile("resync", actor["resync"].desired, TRUE)
    /\ UNCHANGED <<pods, events, stopping, changes>>

\* handlePodEvent: a pod with targets is reconciled without pruning; a deleted
\* one, or one that is no longer eligible, loses its streams (removePodStreams).
WatchEvent ==
    /\ actor["watch"].pc = "idle" /\ stopping = "no" /\ events # <<>>
    /\ events' = Tail(events)
    /\ LET k == Head(events)[1] IN
       IF Head(events)[2]
       THEN Reconcile("watch", {k}, FALSE)
       ELSE /\ stream' = Cancelled({k})
            /\ streams' = [streams EXCEPT ![k] = Absent]
            /\ UNCHANGED actor
    /\ UNCHANGED <<pods, stopping, changes>>

\* The watch closes and is opened again: what was pending is not repeated.
WatchReopens ==
    /\ events # <<>>
    /\ events' = <<>>
    /\ UNCHANGED <<pods, streams, actor, stream, stopping, changes>>

Started(a, k) ==
    actor' = [actor EXCEPT ![a] =
                IF @.toStart = {k} THEN IdleActor ELSE [@ EXCEPT !.toStart = @ \ {k}]]

\* sem.Acquire succeeds and the stream's goroutine is started.
StartStream(a, k, p) ==
    /\ k \in actor[a].toStart
    /\ stream[p] = Free
    /\ stream' = [stream EXCEPT ![p] = [Free EXCEPT !.at = "spawned", !.key = k]]
    /\ Started(a, k)
    /\ UNCHANGED <<pods, events, streams, stopping, changes>>

\* sem.Acquire fails because the collector stops: abortReservation.
AbortReservation(a, k) ==
    /\ k \in actor[a].toStart /\ stopping # "no"
    /\ streams' = [streams EXCEPT ![k] = IF @ = Starting THEN Absent ELSE @]
    /\ Started(a, k)
    /\ UNCHANGED <<pods, events, stream, stopping, changes>>

-----------------------------------------------------------------------------
(* runStream.                                                              *)

\* It adopts whichever reservation it finds; otherwise it cancels the stream
\* that is registered and takes its place.
Registers(p) ==
    /\ stream[p].at = "spawned"
    /\ LET k == stream[p].key
           old == streams[k]
       IN /\ streams' = [streams EXCEPT ![k] = Tracks(p)]
          /\ stream' = [q \in Permits |->
                IF q = p THEN [stream[p] EXCEPT !.at = "running"]
                ELSE [stream[q] EXCEPT !.cancelled = @ \/ old = Tracks(q)]]
    /\ UNCHANGED <<pods, events, actor, stopping, changes>>

\* (mutant) the stream's context does not derive from the collector's
StreamDoneDetached(p) == stream[p].cancelled

\* streamCtx: cancelled through its handle or with the collector's context.
StreamDone(p) == stream[p].cancelled \/ stopping # "no"

\* The read loop returns: cancelled, not followed to its end, or a write that
\* timed out.  The joiner and the cursor are flushed before the entry is released.
StreamReturns(p) ==
    /\ stream[p].at = "running"
    /\ stream' = [stream EXCEPT ![p].at = "returned"]
    /\ UNCHANGED <<pods, events, streams, actor, stopping, changes>>

\* (mutant) the entry is left in the map
ReleaseStreamKept(p) ==
    /\ stream[p].at = "returned"
    /\ stream' = [stream EXCEPT ![p].at = "released"]
    /\ UNCHANGED <<pods, events, streams, actor, stopping, changes>>

\* releaseStream deletes by key, whoever the entry belongs to by now.
ReleaseStream(p) ==
    /\ stream[p].at = "returned"
    /\ streams' = [streams EXCEPT ![stream[p].key] = Absent]
    /\ stream' = [stream EXCEPT ![p].at = "released"]
    /\ UNCHANGED <<pods, events, actor, stopping, changes>>

ReleasePermit(p) ==
    /\ stream[p].at = "released"
    /\ stream' = [stream EXCEPT ![p] = Free]
    /\ UNCHANGED <<pods, events, streams, actor, stopping, changes>>

-----------------------------------------------------------------------------
(* Stop: cancel, then stopAllStreams, then wait for the goroutines.        *)

StopCancels ==
    /\ stopping = "no"
    /\ stopping' = "cancelled"
    /\ UNCHANGED <<pods, events, streams, actor, stream, changes>>

StopAllStreams ==
    /\ stopping = "cancelled"
    /\ stopping' = "swept"
    /\ stream' = Cancelled(Keys)
    /\ streams' = [k \in Keys |-> Absent]
    /\ UNCHANGED <<pods, events, actor, changes>>

(* The cluster (external): a pod appears or goes, and the watch is told.   *)
PodChanges(k) ==
    /\ changes < MaxChanges /\ stopping = "no" /\ Len(events) < MaxEvents
    /\ changes' = changes + 1
    /\ pods' = IF k \in pods THEN pods \ {k} ELSE pods \cup {k}
    /\ events' = Append(events, <<k, k \notin pods>>)
    /\ UNCHANGED <<streams, actor, stream, stopping>>

-----------------------------------------------------------------------------
Init ==
    /\ pods \in SUBSET Keys
    /\ events = <<>>
    /\ streams = [k \in Keys |-> Absent]
    /\ actor = [a \in Actors |-> IdleActor]
    /\ stream = [p \in Permits |-> Free]
    /\ stopping = "no" /\ changes = 0

StartStep(a) ==
    \E k \in Keys : AbortReservation(a, k) \/ \E p \in Permits : StartStream(a, k, p)

StreamStep(p) == Registers(p) \/ ReleaseStream(p) \/ ReleasePermit(p)

Next ==
    \/ ResyncLists \/ ResyncReconciles \/ WatchEvent \/ WatchReopens
    \/ \E a \in Actors : StartStep(a)
    \/ \E p \in Permits : StreamStep(p) \/ StreamReturns(p)
    \/ StopCancels \/ StopAllStreams
    \/ \E k \in Keys : PodChanges(k)

\* Goroutines are scheduled, and a stream whose context has ended returns.
Fairness ==
    /\ WF_vars(ResyncReconciles) /\ WF_vars(StopAllStreams)
    /\ \A a \in Actors : WF_vars(StartStep(a))
    /\ \A p \in Permits :
         /\ WF_vars(StreamStep(p))
         /\ WF_vars(StreamDone(p) /\ StreamReturns(p))

-----------------------------------------------------------------------------
\* A container is never kept from being collected by an entry nobody serves:
\* whatever the two reconcilers, late releases and cancelled reservations do, an
\* entry of the map has a goroutine that runs it or one that is about to start it.
EntriesServed ==
    \A k \in Keys : streams[k] # Absent =>
        \/ \E a \in Actors : k \in actor[a].toStart
        \/ \E p \in Permits : stream[p].key = k /\ stream[p].at \in {"spawned", "running", "returned"}

\* Stop returns: although both reconcilers may be waiting for a permit and
\* streams may start after stopAllStreams, every goroutine ends.
StopEnds ==
    (stopping = "cancelled") ~>
        (\A p \in Permits : stream[p] = Free) /\ (\A a \in Actors : actor[a] = IdleActor)

\* "reconcileStreams ... removes streams missing from desired": after a resync has
\* pruned, a stream that is not desired has been told to stop.
PrunedIsCancelled ==
    [][ResyncReconciles =>
        \A p \in Permits : stream[p].at = "running" /\ stream[p].key \notin actor["resync"].desired
            => stream'[p].cancelled]_vars
=============================================================================
