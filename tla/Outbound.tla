------------------------------ MODULE Outbound ------------------------------
(***************************************************************************)
(* Messages that do not come from the queue (internal/stream/manager.go):  *)
(* Send puts them into the send channel of a ready session or buffers them *)
(* in the durable queue, and the send loop writes the channel to the       *)
(* stream.  Node job events are snapshots; the manager also retains the    *)
(* last of each job and re-announces it on every new session, because a    *)
(* write into a stream that is already broken may still succeed.           *)
(***************************************************************************)
EXTENDS Naturals, Sequences, FiniteSets

CONSTANTS Jobs,         \* node jobs
          Cap,          \* room in sendCh
          MaxEvents,    \* bound: events per job
          MaxSessions,  \* bound: sessions
          MaxOthers     \* bound: other messages, e.g. query results

\* The event a job has emitted last is the number of its events; 0 is none.
Other == <<"other", 0>>

VARIABLES
    ready,      \* the manager's ready flag
    up,         \* the session's workers run
    broken,     \* the stream is dead; writes may still succeed
    throttled,  \* the gateway's backpressure
    sendCh,     \* messages <<job, event>> that wait for the send loop
    buffered,   \* node job events in the durable queue
    emitted,    \* events emitted, per job
    emitter,    \* where each job's emit closure is
    retained,   \* nodeJobLast: the event kept per job; 0 is none
    aged,       \* jobs whose retained event is past the retention
    announce,   \* events reannounceNodeJobs has still to send
    gateway,    \* the newest event the gateway has of each job
    failed,     \* jobs with a Send that returned an error in this session
    sessions, others
jobs == <<emitted, emitter, retained, aged>>
link == <<ready, up, broken, sessions>>
vars == <<ready, up, broken, throttled, sendCh, buffered, emitted, emitter, retained, aged, announce, gateway, failed,
          sessions, others>>

Init ==
    /\ ready = FALSE /\ up = FALSE /\ broken = FALSE /\ throttled = FALSE
    /\ sendCh = <<>> /\ buffered = {}
    /\ emitted = [j \in Jobs |-> 0] /\ emitter = [j \in Jobs |-> "idle"]
    /\ retained = [j \in Jobs |-> 0] /\ aged = {}
    /\ announce = {} /\ gateway = [j \in Jobs |-> 0] /\ failed = {} /\ sessions = 0 /\ others = 0

-----------------------------------------------------------------------------
(* Send *)

\* The second half of Send for a ready session: a full channel is an error.
Puts(m) == sendCh' = IF Len(sendCh) < Cap THEN Append(sendCh, m) ELSE sendCh

Fails(j) == failed' = IF Len(sendCh) < Cap THEN failed ELSE failed \cup {j}

\* A query result or the like; one that finds the channel full is dropped.
SendsOther ==
    /\ ready /\ ~throttled /\ others < MaxOthers /\ others' = others + 1 /\ Puts(Other)
    /\ UNCHANGED <<link, throttled, buffered, jobs, announce, gateway, failed>>

\* The emit closure of handleNodeJob retains the event (and sweeps) ...
Emits(j) ==
    /\ emitter[j] = "idle" /\ emitted[j] < MaxEvents /\ j \notin aged
    /\ emitted' = [emitted EXCEPT ![j] = @ + 1]
    /\ retained' = [i \in Jobs |-> IF i = j THEN emitted'[j] ELSE IF i \in aged THEN 0 ELSE retained[i]]
    /\ emitter' = [emitter EXCEPT ![j] = "sending"]
    /\ UNCHANGED <<link, throttled, sendCh, buffered, aged, announce, gateway, failed, others>>

\* ... then calls Send, which reads the ready flag once it is not throttled,
EmitReads(j) ==
    /\ emitter[j] = "sending" /\ ~throttled
    /\ emitter' = [emitter EXCEPT ![j] = IF ready THEN "to channel" ELSE "to queue"]
    /\ UNCHANGED <<link, throttled, sendCh, buffered, emitted, retained, aged, announce, gateway, failed, others>>

EmitTimesOut(j) ==
    /\ emitter[j] = "sending" /\ throttled
    /\ emitter' = [emitter EXCEPT ![j] = "idle"] /\ failed' = failed \cup {j}
    /\ UNCHANGED <<link, throttled, sendCh, buffered, emitted, retained, aged, announce, gateway, others>>

\* and acts on what it read.
EmitPuts(j) ==
    /\ emitter[j] = "to channel" /\ Puts(<<j, emitted[j]>>) /\ Fails(j)
    /\ emitter' = [emitter EXCEPT ![j] = "idle"]
    /\ UNCHANGED <<link, throttled, buffered, emitted, retained, aged, announce, gateway, others>>

EmitBuffers(j) ==
    /\ emitter[j] = "to queue" /\ buffered' = buffered \cup {<<j, emitted[j]>>}
    /\ emitter' = [emitter EXCEPT ![j] = "idle"]
    /\ UNCHANGED <<link, throttled, sendCh, emitted, retained, aged, announce, gateway, failed, others>>

\* The job is over and its event has been kept for nodeJobRetention.
Ages(j) ==
    /\ emitter[j] = "idle" /\ retained[j] # 0 /\ j \notin aged /\ aged' = aged \cup {j}
    /\ UNCHANGED <<link, throttled, sendCh, buffered, emitted, emitter, retained, announce, gateway, failed, others>>

-----------------------------------------------------------------------------
(* Run *)

\* (mutant) an event is announced once and then forgotten
SessionReadyForgets ==
    /\ ~ready /\ ~up /\ sessions < MaxSessions
    /\ ready' = TRUE /\ broken' = FALSE /\ sessions' = sessions + 1 /\ UNCHANGED up
    /\ retained' = [j \in Jobs |-> 0]
    /\ announce' = {<<j, retained[j]>> : j \in {i \in Jobs \ aged : retained[i] # 0}} /\ failed' = {}
    /\ UNCHANGED <<throttled, sendCh, buffered, emitted, emitter, aged, gateway, others>>

\* The handshake is accepted: ready is set, and the retained events that are
\* not past the retention are collected.
SessionReady ==
    /\ ~ready /\ ~up /\ sessions < MaxSessions
    /\ ready' = TRUE /\ broken' = FALSE /\ sessions' = sessions + 1 /\ UNCHANGED up
    /\ retained' = [j \in Jobs |-> IF j \in aged THEN 0 ELSE retained[j]]
    /\ announce' = {<<j, retained[j]>> : j \in {i \in Jobs \ aged : retained[i] # 0}} /\ failed' = {}
    /\ UNCHANGED <<throttled, sendCh, buffered, emitted, emitter, aged, gateway, others>>

\* reannounceNodeJobs sends one; the workers do not run yet.
Announces(m) ==
    /\ ready /\ ~up /\ m \in announce /\ announce' = announce \ {m}
    /\ \/ ~throttled /\ Puts(m) /\ Fails(m[1])
       \/ throttled /\ failed' = failed \cup {m[1]} /\ UNCHANGED sendCh
    /\ UNCHANGED <<link, throttled, buffered, jobs, gateway, others>>

WorkersStart ==
    /\ ready /\ ~up /\ announce = {} /\ up' = TRUE
    /\ UNCHANGED <<ready, broken, throttled, sendCh, buffered, jobs, announce, gateway, failed, sessions, others>>

\* sendLoop takes the next message and writes it.  What is written into a
\* broken stream is lost, whether the write fails or not.
SendLoop ==
    /\ up /\ ~throttled /\ sendCh # <<>> /\ sendCh' = Tail(sendCh)
    /\ LET m == Head(sendCh)
       IN  gateway' = IF broken \/ m = Other THEN gateway
                      ELSE [gateway EXCEPT ![m[1]] = IF m[2] > @ THEN m[2] ELSE @]
    /\ UNCHANGED <<link, throttled, buffered, jobs, announce, failed, others>>

\* The queue's drain delivers a buffered event, possibly an old one.
DrainDelivers(m) ==
    /\ up /\ ~broken /\ ~throttled /\ m \in buffered /\ buffered' = buffered \ {m}
    /\ gateway' = [gateway EXCEPT ![m[1]] = IF m[2] > @ THEN m[2] ELSE @]
    /\ UNCHANGED <<link, throttled, sendCh, jobs, announce, failed, others>>

StreamBreaks ==
    /\ ready /\ ~broken /\ broken' = TRUE
    /\ UNCHANGED <<ready, up, throttled, sendCh, buffered, jobs, announce, gateway, failed, sessions, others>>

\* A worker notices: abortSession, endSession, and at last ready is cleared.
SessionEnds ==
    /\ up /\ broken /\ up' = FALSE /\ announce' = {}
    /\ UNCHANGED <<ready, broken, throttled, sendCh, buffered, jobs, gateway, failed, sessions, others>>

ReadyCleared ==
    /\ ready /\ ~up /\ broken /\ announce = {} /\ ready' = FALSE
    /\ UNCHANGED <<up, broken, throttled, sendCh, buffered, jobs, announce, gateway, failed, sessions, others>>

Backpressure ==
    /\ up /\ throttled' = ~throttled
    /\ UNCHANGED <<link, sendCh, buffered, jobs, announce, gateway, failed, others>>

Next ==
    \/ SendsOther \/ SessionReady \/ WorkersStart \/ SendLoop \/ StreamBreaks \/ SessionEnds \/ ReadyCleared
    \/ Backpressure
    \/ \E j \in Jobs : Emits(j) \/ EmitReads(j) \/ EmitTimesOut(j) \/ EmitPuts(j) \/ EmitBuffers(j) \/ Ages(j)
    \/ \E m \in announce : Announces(m)
    \/ \E m \in buffered : DrainDelivers(m)

-----------------------------------------------------------------------------
(* Properties *)

\* A job's last word reaches the gateway: whenever a session's workers run on
\* a stream that works, the channel is drained and nothing of the job is on its
\* way, the gateway has its newest event, whichever of the earlier sessions
\* swallowed it and however emission, re-announcement and reconnection were
\* interleaved.  Excepted are a job with a Send that failed in this session
\* (the channel was full or the throttle outlasted it) and one whose event was
\* older than the retention when the session began.
JobNewsArrives ==
    \A j \in Jobs :
        /\ up /\ ~broken /\ sendCh = <<>>
        /\ emitter[j] = "idle" /\ (\A m \in buffered : m[1] # j) /\ j \notin failed \cup aged
        => gateway[j] = emitted[j]
=============================================================================
