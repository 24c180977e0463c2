-------------------------- MODULE DeliverySession --------------------------
(***************************************************************************)
(* The gateway session of internal/stream/manager.go: Run's reconnect loop *)
(* and the workers of one session (drainBufferedQueue, recvLoop,           *)
(* ackSettleLoop, heartbeatLoop) over the queue that they share.           *)
(*                                                                         *)
(* Every call into the queue is one critical section of q.mu, hence one    *)
(* step here; everything the workers do between two calls interleaves.     *)
(* The queue is reduced to where each item is and to its attempt count     *)
(* (BufferedQueue.tla is the queue itself); the gateway and the transport  *)
(* are external and modelled by what the manager sees of them.             *)
(***************************************************************************)
EXTENDS Integers, Sequences, FiniteSets

CONSTANTS
    Ids,          \* the items that may be enqueued
    Expirable,    \* those the drain may judge undeliverable (too old, disabled)
    MaxBatch,     \* the largest managed buffer.batch_size
    MaxAttempts,  \* maxDeliveryAttempts
    Slots,        \* the items the queue's memory holds
    AckCap,       \* the capacity of ackCh
    AckModes,     \* the HandshakeResponse.delivery_acks values gateways send
    MaxRung,      \* bound: the rung at which the backoff ladder is cut off
    MaxCuts,      \* bound: transport failures
    MaxErrors,    \* bound: disk errors the queue's calls meet
    CanStop       \* whether the process may be told to stop

ASSUME SessionAssumption ==
    /\ IsFiniteSet(Ids) /\ Expirable \subseteq Ids
    /\ MaxBatch \in Nat \ {0} /\ MaxAttempts \in Nat /\ Slots \in Nat /\ AckCap \in Nat \ {0}
    /\ AckModes \subseteq BOOLEAN
    /\ MaxRung \in Nat /\ MaxCuts \in Nat /\ MaxErrors \in Nat
    /\ CanStop \in BOOLEAN

VARIABLES
    queued, inflight, attempts,           \* the queue
    acked, dropped, unrecorded,           \* how the queue retired items
    discarded,                            \* those it dropped for its own reasons
    run, attempt, stalled, sessionErr,    \* Run's loop
    cancelled, deliveryAcks, batchSize,   \* the session and its settings
    drain,                                \* drainBufferedQueue's locals
    sweep,                                \* ids sweepInflight has collected
    ackCh,                                \* ids on their way to ackSettleLoop
    cut, wire, acks,                      \* the transport
    published,                            \* what the gateway has published
    judged, onSend, stalls,               \* history, see below
    ctxDone, cuts, errors

queueVars == <<queued, inflight, attempts, acked, dropped, unrecorded, discarded>>
runVars == <<run, attempt, stalled, stalls>>
sessionVars == <<sessionErr, cancelled, ctxDone>>
settings == <<deliveryAcks, batchSize>>
netVars == <<cut, wire, acks, published, cuts>>
history == <<judged, onSend>>
vars == <<queueVars, runVars, sessionVars, settings, netVars, history,
          drain, sweep, ackCh, errors>>

(* maxInflightBatches and maxAckAttempts.                                  *)
maxInflightBatches == 2
maxAckAttempts == 2

(* Where drainBufferedQueue is. "top" reads the batch size, "room" is      *)
(* waitForInflightRoom, "dequeue" DequeueBatch, "send" the loop over the   *)
(* batch; "untried" and "failed" are the two nacks after a failed Send,    *)
(* "settle", "redeliver" and "discard" are settleAcks; "off" is returned.  *)
DrainPoints == {"top", "room", "dequeue", "send", "untried", "failed",
                "settle", "redeliver", "discard", "off"}

(* want: the batch size read. todo: items not looked at yet. bad: the item *)
(* whose Send failed. sent, terminal: sentIDs and terminalIDs. tries:      *)
(* failed Ack calls. leaving: the Send failed, the session ends anyway.    *)
Idle(pc) == [pc |-> pc, want |-> 0, todo |-> {}, bad |-> {}, sent |-> {},
             terminal |-> {}, tries |-> 0, leaving |-> FALSE]

(* The variables keep their types and their bounds.                        *)
TypeOK ==
    /\ queued \subseteq Ids /\ inflight \subseteq Ids
    /\ attempts \in [Ids -> 0..(MaxAttempts + 1)]
    /\ acked \subseteq Ids /\ dropped \subseteq Ids /\ unrecorded \subseteq Ids
    /\ discarded \subseteq Ids
    /\ run \in {"dial", "up", "done"}
    /\ attempt \in 0..MaxRung /\ stalled \in BOOLEAN
    /\ sessionErr \in {"none", "stalled"}
    /\ cancelled \in BOOLEAN /\ deliveryAcks \in BOOLEAN
    /\ batchSize \in 1..MaxBatch
    /\ drain \in [pc : DrainPoints, want : 0..MaxBatch, todo : SUBSET Ids,
                  bad : SUBSET Ids, sent : SUBSET Ids, terminal : SUBSET Ids,
                  tries : 0..maxAckAttempts, leaving : BOOLEAN]
    /\ sweep \subseteq Ids
    /\ ackCh \in Seq(SUBSET Ids) /\ Len(ackCh) <= AckCap
    /\ cut \in BOOLEAN /\ wire \subseteq Ids /\ acks \subseteq Ids
    /\ published \subseteq Ids
    /\ judged \subseteq Ids /\ onSend \subseteq Ids /\ stalls \in 0..MaxRung
    /\ ctxDone \in BOOLEAN /\ cuts \in 0..MaxCuts /\ errors \in 0..MaxErrors

Init ==
    /\ queued = {} /\ inflight = {} /\ attempts = [i \in Ids |-> 0]
    /\ acked = {} /\ dropped = {} /\ unrecorded = {} /\ discarded = {}
    /\ run = "dial" /\ attempt = 0 /\ stalled = FALSE /\ stalls = 0
    /\ sessionErr = "none" /\ cancelled = FALSE /\ ctxDone = FALSE
    /\ deliveryAcks = FALSE /\ batchSize \in 1..MaxBatch
    /\ drain = Idle("off") /\ sweep = {} /\ ackCh = <<>>
    /\ cut = FALSE /\ wire = {} /\ acks = {} /\ published = {}
    /\ judged = {} /\ onSend = {} /\ cuts = 0 /\ errors = 0

Settled == acked \cup dropped \cup unrecorded

-----------------------------------------------------------------------------
(* The queue's operations. All of them skip ids that are not inflight.     *)

(* Ack; when it fails, the entries it could not record stay inflight.      *)
AckIds(ids) ==
    /\ inflight' = inflight \ ids
    /\ acked' = acked \cup (inflight \cap ids)
    /\ UNCHANGED <<queued, attempts, dropped, unrecorded, discarded>>

(* What a failing Ack may have retired before it gave up.                  *)
PartOf(ids) == SUBSET (inflight \cap ids) \ {inflight \cap ids}

(* Nack, NackDelivered ("failed", "delivered") charge an attempt and       *)
(* retire past the cap; NackUntried and NackInflight ("untried",           *)
(* "sessionEnd") charge nothing. What does not fit a full memory, and not  *)
(* the disk either if there is one, is dropped and counted.                *)
NackIds(ids, kind) ==
    LET hit == inflight \cap ids
        charged == IF kind \in {"failed", "delivered"} THEN hit ELSE {}
        over == {i \in charged : attempts[i] >= MaxAttempts}
    IN  \E kept \in SUBSET (hit \ over) :
        /\ kept # hit \ over => Cardinality(queued \cup kept) >= Slots
        /\ inflight' = inflight \ ids
        /\ attempts' = [i \in Ids |->
                          attempts[i] + (IF i \in charged THEN 1 ELSE 0)]
        /\ queued' = queued \cup kept
        /\ dropped' = dropped \cup (IF kind = "delivered" THEN {} ELSE over)
                               \cup ((hit \ over) \ kept)
        /\ discarded' = discarded \cup ((hit \ over) \ kept)
        /\ unrecorded' = unrecorded \cup (IF kind = "delivered" THEN over ELSE {})
        /\ UNCHANGED acked

DropIds(ids) ==
    /\ inflight' = inflight \ ids
    /\ dropped' = dropped \cup (inflight \cap ids)
    /\ UNCHANGED <<queued, attempts, acked, unrecorded, discarded>>

(* A full queue takes the item onto its disk, or without one drops the     *)
(* oldest to make room.                                                    *)
Enqueue(i) ==
    /\ i \notin queued \cup inflight \cup Settled
    /\ \E old \in SUBSET queued :
          /\ old # {} => Cardinality(queued) >= Slots /\ Cardinality(old) = 1
          /\ queued' = (queued \ old) \cup {i}
          /\ dropped' = dropped \cup old /\ discarded' = discarded \cup old
    /\ UNCHANGED <<inflight, attempts, acked, unrecorded, runVars,
                   sessionVars, settings, netVars, history, drain, sweep,
                   ackCh, errors>>

-----------------------------------------------------------------------------
(* Run.                                                                    *)

NextRung(n) == IF n < MaxRung THEN n + 1 ELSE n

(* (mutant) nothing is handed back.                                        *)
EndSessionKeeps ==
    /\ UNCHANGED queueVars
    /\ \E got \in SUBSET wire : published' = published \cup got
    /\ wire' = {} /\ acks' = {} /\ cut' = FALSE
    /\ sessionErr' = "none"
    /\ UNCHANGED <<settings, history, drain, sweep, ackCh, cuts, errors>>

(* endSession after the workers are gone: under delivery acks everything   *)
(* still inflight goes back, uncharged. What is on the wire may have       *)
(* reached the gateway, whose acks can no longer come back.                *)
EndSession ==
    /\ IF deliveryAcks THEN NackIds(inflight, "sessionEnd")
                       ELSE UNCHANGED queueVars
    /\ \E got \in SUBSET wire : published' = published \cup got
    /\ wire' = {} /\ acks' = {} /\ cut' = FALSE
    /\ sessionErr' = "none"
    /\ UNCHANGED <<settings, history, drain, sweep, ackCh, cuts, errors>>

(* (mutant) every handshake resets the ladder.                             *)
HandshakeResets(mode) ==
    /\ run = "dial" /\ ~ctxDone
    /\ run' = "up" /\ deliveryAcks' = mode /\ cancelled' = FALSE
    /\ attempt' = 0 /\ stalled' = FALSE
    /\ drain' = Idle("top")
    /\ UNCHANGED <<queueVars, stalls, sessionErr, ctxDone, batchSize, netVars,
                   history, sweep, ackCh, errors>>

(* An accepted handshake: the ladder is reset unless the session before    *)
(* stalled, and the five workers start.                                    *)
Handshake(mode) ==
    /\ run = "dial" /\ ~ctxDone
    /\ run' = "up" /\ deliveryAcks' = mode /\ cancelled' = FALSE
    /\ attempt' = IF stalled THEN attempt ELSE 0
    /\ stalled' = FALSE
    /\ drain' = Idle("top")
    /\ UNCHANGED <<queueVars, stalls, sessionErr, ctxDone, batchSize, netVars,
                   history, sweep, ackCh, errors>>

(* Dial, Connect or the handshake fails transiently and Run backs off.     *)
ConnectFails ==
    /\ run = "dial" /\ ~ctxDone
    /\ EndSession
    /\ attempt' = NextRung(attempt)
    /\ UNCHANGED <<run, stalled, stalls, cancelled, ctxDone>>

(* Dial, Connect or the handshake fails permanently: Run gives up.         *)
Rejected ==
    /\ run = "dial" /\ ~ctxDone /\ CanStop
    /\ EndSession
    /\ run' = "done"
    /\ UNCHANGED <<attempt, stalled, stalls, cancelled, ctxDone>>

(* The context is found cancelled at the head of the loop.                 *)
RunStops ==
    /\ run = "dial" /\ ctxDone
    /\ EndSession
    /\ run' = "done"
    /\ UNCHANGED <<attempt, stalled, stalls, cancelled, ctxDone>>

(* SIGTERM, or a Shutdown message, which main turns into the same thing.   *)
ContextCancelled ==
    /\ CanStop /\ ~ctxDone /\ run # "done"
    /\ ctxDone' = TRUE /\ cancelled' = TRUE
    /\ UNCHANGED <<queueVars, runVars, sessionErr, settings, netVars, history,
                   drain, sweep, ackCh, errors>>

(* waitSession returns, endSession waits for the workers, and Run decides  *)
(* from the session's error whether the ladder is climbed.                 *)
SessionOver ==
    /\ run = "up" /\ cancelled
    /\ drain.pc = "off" /\ sweep = {}
    /\ EndSession
    /\ run' = IF ctxDone THEN "done" ELSE "dial"
    /\ stalled' = (sessionErr = "stalled")
    /\ attempt' = IF sessionErr = "stalled" THEN NextRung(attempt) ELSE attempt
    /\ stalls' = IF sessionErr = "stalled" THEN NextRung(stalls) ELSE 0
    /\ UNCHANGED <<cancelled, ctxDone>>

(* A ConfigUpdate whose managed buffer block changes batch_size.           *)
SetBatchSize(n) ==
    /\ run = "up" /\ n # batchSize
    /\ batchSize' = n
    /\ UNCHANGED <<queueVars, runVars, sessionVars, deliveryAcks, netVars,
                   history, drain, sweep, ackCh, errors>>

-----------------------------------------------------------------------------
(* drainBufferedQueue.                                                     *)

DrainFrame == UNCHANGED <<runVars, ctxDone, settings, cut, acks, published,
                          cuts, sweep, ackCh>>

DrainTop ==
    /\ run = "up" /\ drain.pc = "top" /\ ~cancelled
    /\ drain' = [drain EXCEPT !.pc = IF deliveryAcks THEN "room" ELSE "dequeue",
                              !.want = batchSize]
    /\ UNCHANGED <<queueVars, sessionErr, cancelled, wire, history, errors>>
    /\ DrainFrame

(* (mutant) the batch about to be taken is not counted.                    *)
DrainRoomAny ==
    /\ run = "up" /\ drain.pc = "room"
    /\ Cardinality(inflight) <= maxInflightBatches * drain.want
    /\ drain' = [drain EXCEPT !.pc = "dequeue"]
    /\ UNCHANGED <<queueVars, sessionErr, cancelled, wire, history, errors>>
    /\ DrainFrame

(* waitForInflightRoom lets a batch through only if all of it would fit.   *)
DrainRoom ==
    /\ run = "up" /\ drain.pc = "room"
    /\ Cardinality(inflight) + drain.want <= maxInflightBatches * drain.want
    /\ drain' = [drain EXCEPT !.pc = "dequeue"]
    /\ UNCHANGED <<queueVars, sessionErr, cancelled, wire, history, errors>>
    /\ DrainFrame

(* DequeueBatch; on its way it may drop records it cannot read, and it     *)
(* waits on if nothing is left.                                            *)
DrainDequeue ==
    /\ run = "up" /\ drain.pc = "dequeue" /\ ~cancelled /\ queued # {}
    /\ \E gone \in SUBSET queued : \E batch \in SUBSET (queued \ gone) :
          /\ gone # {} => errors < MaxErrors
          /\ errors' = IF gone = {} THEN errors ELSE errors + 1
          /\ Cardinality(batch) <= drain.want
          /\ Cardinality(batch) = drain.want \/ batch = queued \ gone
          /\ queued' = queued \ (gone \cup batch) /\ inflight' = inflight \cup batch
          /\ dropped' = dropped \cup gone /\ discarded' = discarded \cup gone
          /\ drain' = IF batch = {} THEN drain
                      ELSE [drain EXCEPT !.pc = "send", !.todo = batch]
    /\ UNCHANGED <<attempts, acked, unrecorded, sessionErr, cancelled, wire, history>>
    /\ DrainFrame

(* (mutant) the wait for room does not watch the context.                  *)
DrainReturnsDeaf ==
    /\ run = "up" /\ drain.pc \in {"top", "dequeue"} /\ cancelled
    /\ drain' = Idle("off")
    /\ UNCHANGED <<queueVars, sessionErr, cancelled, wire, history, errors>>
    /\ DrainFrame

(* The context ends the loop, the wait for room or the wait for items.     *)
DrainReturns ==
    /\ run = "up" /\ drain.pc \in {"top", "room", "dequeue"} /\ cancelled
    /\ drain' = Idle("off")
    /\ UNCHANGED <<queueVars, sessionErr, cancelled, wire, history, errors>>
    /\ DrainFrame

(* Not parseable, disabled by the effective config, or outside the age     *)
(* rules: the item is not sent.                                            *)
DrainJudge(i) ==
    /\ run = "up" /\ drain.pc = "send" /\ i \in drain.todo \cap Expirable
    /\ drain' = [drain EXCEPT !.todo = @ \ {i}, !.terminal = @ \cup {i}]
    /\ judged' = judged \cup {i}
    /\ UNCHANGED <<queueVars, sessionErr, cancelled, wire, onSend, errors>>
    /\ DrainFrame

(* Send returns nil: the message is in a buffer, also of a dead stream.    *)
DrainSend(i) ==
    /\ run = "up" /\ drain.pc = "send" /\ i \in drain.todo
    /\ drain' = [drain EXCEPT !.todo = @ \ {i}, !.sent = @ \cup {i}]
    /\ wire' = wire \cup {i}
    /\ onSend' = IF deliveryAcks THEN onSend ELSE onSend \cup {i}
    /\ UNCHANGED <<queueVars, sessionErr, cancelled, judged, errors>>
    /\ DrainFrame

DrainSendFails(i) ==
    /\ run = "up" /\ drain.pc = "send" /\ i \in drain.todo /\ (cut \/ cancelled)
    /\ drain' = [drain EXCEPT !.pc = "untried", !.todo = @ \ {i}, !.bad = {i},
                              !.leaving = TRUE]
    /\ UNCHANGED <<queueVars, sessionErr, cancelled, wire, history, errors>>
    /\ DrainFrame

(* settleUntriedNacks, then settleNacks.                                   *)
DrainNackUntried ==
    /\ run = "up" /\ drain.pc = "untried"
    /\ NackIds(drain.todo, "untried")
    /\ drain' = [drain EXCEPT !.pc = "failed", !.todo = {}]
    /\ UNCHANGED <<sessionErr, cancelled, wire, history, errors>>
    /\ DrainFrame

DrainNackFailed ==
    /\ run = "up" /\ drain.pc = "failed"
    /\ NackIds(drain.bad, "failed")
    /\ drain' = [drain EXCEPT !.pc = "settle", !.bad = {}]
    /\ UNCHANGED <<sessionErr, cancelled, wire, history, errors>>
    /\ DrainFrame

DrainBatchDone ==
    /\ run = "up" /\ drain.pc = "send" /\ drain.todo = {}
    /\ drain' = [drain EXCEPT !.pc = "settle"]
    /\ UNCHANGED <<queueVars, sessionErr, cancelled, wire, history, errors>>
    /\ DrainFrame

(* (mutant) what was sent is settled in either mode.                       *)
SettleSentAlways == drain.sent

(* Under delivery acks the sent items wait for the gateway.                *)
SettleSent == IF deliveryAcks THEN {} ELSE drain.sent

(* settleAcks: Ack, retried; then the sent items are redelivered and the   *)
(* judged ones dropped, and the session ends as stalled.                   *)
DrainSettle ==
    /\ run = "up" /\ drain.pc = "settle"
    /\ AckIds(SettleSent \cup drain.terminal)
    /\ drain' = Idle(IF drain.leaving THEN "off" ELSE "top")
    /\ cancelled' = (cancelled \/ drain.leaving)
    /\ UNCHANGED <<sessionErr, wire, history, errors>>
    /\ DrainFrame

DrainSettleFails ==
    /\ run = "up" /\ drain.pc = "settle" /\ errors < MaxErrors
    /\ \E done \in PartOf(SettleSent \cup drain.terminal) : AckIds(done)
    /\ drain' = [drain EXCEPT
                   !.tries = @ + 1,
                   !.pc = IF drain.tries + 1 = maxAckAttempts
                          THEN "redeliver" ELSE "settle"]
    /\ errors' = errors + 1
    /\ UNCHANGED <<sessionErr, cancelled, wire, history>>
    /\ DrainFrame

DrainRedeliver ==
    /\ run = "up" /\ drain.pc = "redeliver"
    /\ NackIds(SettleSent, "delivered")
    /\ drain' = [drain EXCEPT !.pc = "discard"]
    /\ UNCHANGED <<sessionErr, cancelled, wire, history, errors>>
    /\ DrainFrame

(* After a failed Send the settle error is ignored: abortSession has no    *)
(* reason to record.                                                       *)
DrainDiscard ==
    /\ run = "up" /\ drain.pc = "discard"
    /\ DropIds(drain.terminal)
    /\ drain' = Idle("off")
    /\ cancelled' = TRUE
    /\ sessionErr' = IF drain.leaving THEN sessionErr ELSE "stalled"
    /\ UNCHANGED <<wire, history, errors>>
    /\ DrainFrame

-----------------------------------------------------------------------------
(* The other workers.                                                      *)

(* recvLoop, sendLoop or heartbeatLoop meets the broken stream.            *)
WorkerAborts ==
    /\ run = "up" /\ cut /\ ~cancelled
    /\ cancelled' = TRUE
    /\ UNCHANGED <<queueVars, runVars, sessionErr, ctxDone, settings, netVars,
                   history, drain, sweep, ackCh, errors>>

(* The gateway's Ack message: handed to the settle worker, or dropped when *)
(* that is behind.                                                         *)
RecvAck(ids) ==
    /\ run = "up" /\ ~cut /\ ids # {}
    /\ acks' = acks \ ids
    /\ ackCh' = IF deliveryAcks /\ Len(ackCh) < AckCap
                THEN Append(ackCh, ids) ELSE ackCh
    /\ UNCHANGED <<queueVars, runVars, sessionVars, settings, cut, wire,
                   published, cuts, history, drain, sweep, errors>>

(* ackSettleLoop with applyDeliveryAcks. The channel outlives the session, *)
(* so the ids may have been acked in an earlier one.                       *)
ApplyDeliveryAcks ==
    /\ run = "up" /\ ackCh # <<>>
    /\ ackCh' = Tail(ackCh)
    /\ AckIds(Head(ackCh))
    /\ UNCHANGED <<runVars, sessionVars, settings, netVars, history, drain,
                   sweep, errors>>

ApplyDeliveryAcksFails ==
    /\ run = "up" /\ ackCh # <<>> /\ errors < MaxErrors
    /\ ackCh' = Tail(ackCh)
    /\ \E done \in PartOf(Head(ackCh)) : AckIds(done)
    /\ errors' = errors + 1
    /\ UNCHANGED <<runVars, sessionVars, settings, netVars, history, drain,
                   sweep>>

(* The batch the drain is working on: the youngest of what is inflight.    *)
Held == drain.todo \cup drain.bad \cup drain.sent \cup drain.terminal

(* heartbeatLoop's sweepStaleInflight: sweepInflight collects the ids past *)
(* the deadline under the lock, releases it, and nacks them under the lock *)
(* taken again. The deadline may be past for any ids, the oldest first.    *)
SweepCollect(ids) ==
    /\ run = "up" /\ deliveryAcks /\ sweep = {}
    /\ ids # {} /\ ids \subseteq inflight
    /\ ids \cap Held # {} => inflight \ Held \subseteq ids
    /\ sweep' = ids
    /\ UNCHANGED <<queueVars, runVars, sessionVars, settings, netVars, history,
                   drain, ackCh, errors>>

(* (mutant) what was collected is not handed back.                         *)
SweepNackLost ==
    /\ run = "up" /\ sweep # {}
    /\ sweep' = {}
    /\ UNCHANGED <<queueVars, runVars, sessionVars, settings, netVars, history,
                   drain, ackCh, errors>>

SweepNack ==
    /\ run = "up" /\ sweep # {}
    /\ NackIds(sweep, "failed")
    /\ sweep' = {}
    /\ UNCHANGED <<runVars, sessionVars, settings, netVars, history, drain,
                   ackCh, errors>>

-----------------------------------------------------------------------------
(* The transport and the gateway.                                          *)

Cut ==
    /\ run = "up" /\ ~cut /\ cuts < MaxCuts
    /\ cut' = TRUE /\ cuts' = cuts + 1
    /\ UNCHANGED <<queueVars, runVars, sessionVars, settings, wire, acks,
                   published, history, drain, sweep, ackCh, errors>>

(* The gateway publishes a message and, if it said so in the handshake,    *)
(* acks it.                                                                *)
Publish(i) ==
    /\ run = "up" /\ ~cut /\ i \in wire
    /\ wire' = wire \ {i} /\ published' = published \cup {i}
    /\ acks' = IF deliveryAcks THEN acks \cup {i} ELSE acks
    /\ UNCHANGED <<queueVars, runVars, sessionVars, settings, cut, cuts,
                   history, drain, sweep, ackCh, errors>>

DrainStep ==
    \/ DrainTop \/ DrainRoom \/ DrainDequeue \/ DrainReturns
    \/ \E i \in Ids : DrainJudge(i) \/ DrainSend(i) \/ DrainSendFails(i)
    \/ DrainNackUntried \/ DrainNackFailed \/ DrainBatchDone
    \/ DrainSettle \/ DrainSettleFails \/ DrainRedeliver \/ DrainDiscard

Next ==
    \/ \E i \in Ids : Enqueue(i) \/ Publish(i)
    \/ \E mode \in AckModes : Handshake(mode)
    \/ ConnectFails \/ Rejected \/ RunStops \/ ContextCancelled \/ SessionOver
    \/ \E n \in 1..MaxBatch : SetBatchSize(n)
    \/ DrainStep \/ WorkerAborts
    \/ \E ids \in SUBSET acks : RecvAck(ids)
    \/ ApplyDeliveryAcks \/ ApplyDeliveryAcksFails
    \/ \E ids \in SUBSET inflight : SweepCollect(ids)
    \/ SweepNack \/ Cut

Spec == Init /\ [][Next]_vars

(* Each goroutine keeps running; a gateway that is reachable accepts,      *)
(* publishes and acks; in a session that lasts, an item left inflight      *)
(* passes the deadline.                                                    *)
FairSpec ==
    /\ Spec
    /\ WF_vars(DrainStep) /\ WF_vars(WorkerAborts)
    /\ WF_vars(SessionOver) /\ WF_vars(RunStops)
    /\ WF_vars(\E mode \in AckModes : Handshake(mode))
    /\ WF_vars(ApplyDeliveryAcks) /\ WF_vars(SweepNack)
    /\ \A i \in Ids :
          /\ WF_vars(Publish(i))
          /\ WF_vars(\E ids \in SUBSET acks : i \in ids /\ RecvAck(ids))
          /\ SF_vars(~cancelled /\ \E ids \in SUBSET inflight :
                        i \in ids /\ SweepCollect(ids))

-----------------------------------------------------------------------------
(* Between two sessions nothing is inflight: whatever a session took was   *)
(* settled or handed back, in both ack modes, though endSession sweeps in  *)
(* one of them only (endSession, settleAcks).                              *)
NothingStranded == run # "up" => inflight = {}

(* Items awaiting an ack never exceed maxInflightBatches batches of the    *)
(* size the drain read before it dequeued, nor of the largest size when    *)
(* buffer.batch_size changes under it (waitForInflightRoom).               *)
WindowBounded ==
    /\ Cardinality(inflight) <= maxInflightBatches * MaxBatch
    /\ run = "up" /\ drain.pc \notin {"top", "room", "off"}
          => Cardinality(inflight) <= maxInflightBatches * drain.want

(* At-least-once: whatever late acks, sweeps and failing settlements came  *)
(* in between, an item is acked only if the gateway published it, the      *)
(* drain judged it undeliverable, or it was sent to a gateway that does    *)
(* not ack. It is given up in another way only if it used up its attempts, *)
(* or the queue itself dropped it and said so: nowhere to put it (full     *)
(* memory and no room on disk) or a record it could not read.              *)
AtLeastOnce ==
    /\ acked \subseteq published \cup judged \cup onSend
    /\ \A i \in Settled : \/ i \in published \cup judged \cup onSend \cup discarded
                          \/ attempts[i] > MaxAttempts

(* The reconnect backoff grows with every session in a row that ends       *)
(* because its batch could not be settled: the handshake in between does   *)
(* not take it back to the shortest delay (Run, abortSessionErr).          *)
LadderClimbs == attempt >= stalls

(* An aborted session ends: no worker, also one waiting for room in the    *)
(* inflight window, keeps endSession waiting.                              *)
SessionEnds == (run = "up" /\ cancelled) ~> (run # "up")

(* Every buffered item is settled unless the process stops, though acks    *)
(* are lost with the stream or dropped on a full ackCh.                    *)
EventuallySettled ==
    \A i \in Ids : (i \in queued) ~> (i \in Settled \/ run = "done")

(* An attempt is charged only to an item that was handed to the wire: no   *)
(* step charges one the drain has yet to send (queue.go on NackUntried).   *)
ChargedWasTried ==
    [][\A i \in drain.todo : attempts'[i] = attempts[i]]_vars
=============================================================================
