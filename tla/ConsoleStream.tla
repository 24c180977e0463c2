--------------------------- MODULE ConsoleStream ---------------------------
(***************************************************************************)
(* One console session of the agent: the process behind it (session.go),   *)
(* the ring that keeps its recent output (ring.go) and the transport that  *)
(* carries it to the gateway over streams that break (attach.go).          *)
(*                                                                         *)
(* Goroutines: the session's run, one chunkWriter per output channel, the  *)
(* resume watchdog, the transport's serve/pump, and one receive loop per   *)
(* stream.  A receive loop blocked in WriteStdin outlives its stream.      *)
(* Every mutex section is one step; what happens between two sections is a *)
(* step of its own.  Time is not modelled: a timer that is armed may fire. *)
(* A frame is its sequence number and its size; a stdin chunk its number.  *)
(***************************************************************************)
EXTENDS Integers, Sequences, FiniteSets, SequencesExt

CONSTANTS Writers,      \* output channels in use: one with a tty, two without
          Sizes,        \* sizes of output chunks
          RingBytes,    \* bound of the ring, in the same unit
          OutputQueue,  \* capacity of the live channel
          MaxTraffic,   \* bound: chunks the session outputs and the user types, together
          MaxFaults,    \* bound: streams that end and attaches that fail
          CanRefuse,    \* prepare may refuse (a node console's helper)
          CanReject     \* the gateway may reject an attach or end a stream

ASSUME ConsoleAssumption ==
    /\ RingBytes \in Nat \ {0} /\ OutputQueue \in Nat \ {0}
    /\ Sizes \subseteq Nat \ {0} /\ IsFiniteSet(Writers)
    /\ MaxTraffic \in Nat /\ MaxFaults \in Nat
    /\ CanRefuse \in BOOLEAN /\ CanReject \in BOOLEAN

VARIABLES
    run,        \* pc of Session.run and of the goroutine around it
    ctx,        \* its context: "live", or "over" by cancel or max_session_sec
    cancelSet,  \* s.cancel has been stored
    exit,       \* s.exit: the process "exited", or the session was "ended" for another reason
    finishing,  \* finish between its lock and close(done): "cancel" or "plain", else "no"
    done,       \* s.done is closed
    expired,    \* the watchdog has seen the resume window pass
    copying,    \* the executor's copy loops may still call Write
    ring,       \* retained frames
    next,       \* seq of the next frame
    writer,     \* what each chunkWriter is doing
    out,        \* the live channel of the current attachment
    attached, detachedAt,
    transport,  \* pc of serve/pump
    replay,     \* frames Replay returned and pump still has to send
    stream,     \* "none", "up", "eof" or "cut"
    wire,       \* frames sent and not yet received by the gateway
    exitDeadline,
    ending,     \* how serve returned
    stdin,      \* chunks the gateway sent on this stream
    receiver,   \* chunk the stream's receive loop is writing, 0 in Recv
    stuck,      \* chunks held by receive loops of earlier streams
    input,      \* what the process read
    lastStdinSeq,
    got, exitGot, \* what the gateway received
    evicted,    \* frames a Replay could not return: the gap pump logs, and tells nobody
    gwNext,     \* next stdin chunk the gateway sends on this stream
    faults

session == <<run, ctx, cancelSet, exit, finishing, done, expired>>
output == <<copying, ring, next, writer, out>>
pumps == <<attached, detachedAt, transport, replay, stream, wire, exitDeadline, ending>>
stdins == <<stdin, receiver, stuck, input, lastStdinSeq>>
gateway == <<got, evicted, exitGot, gwNext, faults>>
vars == <<session, output, pumps, stdins, gateway>>

\* A chunkWriter between frames, or waiting with one on a live channel that is
\* current or has been retired.
Idle == [holds |-> 0, retired |-> FALSE]

-----------------------------------------------------------------------------
(* The ring and the live channel.                                          *)

RECURSIVE Bytes(_)
Bytes(frames) == IF frames = <<>> THEN 0 ELSE Head(frames).size + Bytes(Tail(frames))

\* Eviction from the front: the newest frame stays even when it alone is too big.
RECURSIVE Fit(_)
Fit(frames) == IF Bytes(frames) > RingBytes /\ Len(frames) > 1 THEN Fit(Tail(frames)) ELSE frames

Push(size) == Fit(Append(ring, [seq |-> next, size |-> size]))

Since(after) == SelectSeq(ring, LAMBDA f : f.seq > after)

\* The frames Replay cannot return: after .. oldest, both ends excluded.
Missing(after) ==
    IF ring = <<>> THEN (after + 1) .. (next - 1) ELSE (after + 1) .. (ring[1].seq - 1)

\* An empty channel is swapped in; whoever waits on the old one is let go.
RetireOutput ==
    /\ out' = <<>>
    /\ writer' = [w \in Writers |-> [writer[w] EXCEPT !.retired = writer[w] # Idle]]

-----------------------------------------------------------------------------
(* Session.finish, run and the watchdog.                                   *)

\* The first caller of finish sets exit and reads s.cancel under the lock; it
\* calls what it read, closes the pipe and done in FinishDone.
Finish(reason) ==
    IF exit = "none"
    THEN exit' = reason /\ finishing' = IF cancelSet THEN "cancel" ELSE "plain"
    ELSE UNCHANGED <<exit, finishing>>

FinishDone ==
    /\ finishing # "no"
    /\ finishing' = "no"
    /\ done' = TRUE
    /\ ctx' = IF finishing = "cancel" /\ ctx = "live" THEN "over" ELSE ctx
    /\ UNCHANGED <<run, cancelSet, exit, expired, output, pumps, stdins, gateway>>

\* run takes the lock: a session that was closed first is never dialled.
\* (mutant: looks at done instead of exit)
RunStartsLate ==
    /\ run = "new"
    /\ run' = IF done THEN "returned" ELSE "prepare"
    /\ cancelSet' = ~done
    /\ UNCHANGED <<ctx, exit, finishing, done, expired, output, pumps, stdins, gateway>>

RunStarts ==
    /\ run = "new"
    /\ run' = IF exit # "none" THEN "returned" ELSE "prepare"
    /\ cancelSet' = (exit = "none")
    /\ UNCHANGED <<ctx, exit, finishing, done, expired, output, pumps, stdins, gateway>>

Prepared ==
    /\ run = "prepare"
    /\ \A w \in Writers : writer[w] = Idle
    /\ run' = "stream"
    /\ copying' = TRUE
    /\ UNCHANGED <<ctx, cancelSet, exit, finishing, done, expired, ring, next, writer, out,
                   pumps, stdins, gateway>>

PrepareRefuses ==
    /\ run = "prepare"
    /\ CanRefuse \/ ctx # "live"
    /\ Finish("ended")
    /\ run' = "ending"
    /\ UNCHANGED <<ctx, cancelSet, done, expired, output, pumps, stdins, gateway>>

\* StreamWithContext returns.  A process that exits has had its output copied
\* to the end; an ended context or a broken connection leaves the copy loops behind.
StreamReturns ==
    /\ run = "stream"
    /\ \/ /\ \A w \in Writers : writer[w] = Idle
          /\ copying' = FALSE
          /\ Finish("exited")
       \/ /\ Finish("ended")
          /\ UNCHANGED copying
    /\ run' = "ending"
    /\ UNCHANGED <<ctx, cancelSet, done, expired, ring, next, writer, out, pumps, stdins, gateway>>

\* finish returns only when the once is over; then the slot is given back.
RunReturns ==
    /\ \/ run = "ending" /\ done
       \/ run = "returned"
    /\ run' = "released"
    /\ UNCHANGED <<ctx, cancelSet, exit, finishing, done, expired, output, pumps, stdins, gateway>>

MaxSession ==
    /\ run \in {"prepare", "stream"}
    /\ ctx = "live"
    /\ ctx' = "over"
    /\ UNCHANGED <<run, cancelSet, exit, finishing, done, expired, output, pumps, stdins, gateway>>

\* The watchdog runs from the start of run until done.  It looks under the lock
\* and closes after it: a stream may attach in between.
ResumeExpires ==
    /\ cancelSet /\ ~done /\ ~expired
    /\ ~attached /\ detachedAt
    /\ expired' = TRUE
    /\ UNCHANGED <<run, ctx, cancelSet, exit, finishing, done, output, pumps, stdins, gateway>>

WatchdogCloses ==
    /\ expired /\ exit = "none"
    /\ Finish("ended")
    /\ UNCHANGED <<run, ctx, cancelSet, done, expired, output, pumps, stdins, gateway>>

-----------------------------------------------------------------------------
(* chunkWriter.Write: the frame enters the ring and, when a transport is    *)
(* attached, waits for room on the live channel it saw under the lock.      *)

WritePush(w, size) ==
    /\ copying \/ (run = "prepare" /\ CanRefuse)
    /\ writer[w] = Idle
    /\ next + gwNext - 1 <= MaxTraffic
    /\ ring' = Push(size)
    /\ next' = next + 1
    /\ writer' = [writer EXCEPT ![w] = IF attached THEN [holds |-> next, retired |-> FALSE] ELSE Idle]
    /\ UNCHANGED <<copying, out, session, pumps, stdins, gateway>>

WriteSend(w) ==
    /\ writer[w] # Idle
    /\ \/ /\ ~writer[w].retired
          /\ Len(out) < OutputQueue
          /\ out' = Append(out, writer[w].holds)
       \/ /\ writer[w].retired
          /\ UNCHANGED out
    /\ writer' = [writer EXCEPT ![w] = Idle]
    /\ UNCHANGED <<copying, ring, next, session, pumps, stdins, gateway>>

\* ErrClosedPipe ends the copy loops.
WriteClosed(w) ==
    /\ writer[w] # Idle
    /\ done
    /\ writer' = [writer EXCEPT ![w] = Idle]
    /\ copying' = FALSE
    /\ UNCHANGED <<ring, next, out, session, pumps, stdins, gateway>>

\* The connection to the API server is torn down after the stream returned.
CopyEnds ==
    /\ copying /\ run \notin {"prepare", "stream"}
    /\ copying' = FALSE
    /\ UNCHANGED <<ring, next, writer, out, session, pumps, stdins, gateway>>

-----------------------------------------------------------------------------
(* Transport.serve.                                                        *)

Gone(how) == transport' = "returned" /\ ending' = how

\* The resume window starts before the first dial.
ServeStarts ==
    /\ transport = "opening"
    /\ attached' = FALSE /\ detachedAt' = TRUE
    /\ RetireOutput
    /\ transport' = "dial"
    /\ UNCHANGED <<session, copying, ring, next, replay, stream, wire, exitDeadline,
                   ending, stdins, gateway>>

\* Dial, attach frame and ack: the gateway answers with the highest seq it has,
\* and sends stdin from the resume_seq the attach frame carried.
AttachAccepted ==
    /\ transport = "dial"
    /\ stream' = "up" /\ wire' = <<>>
    /\ stdin' = <<>> /\ receiver' = 0
    /\ gwNext' = lastStdinSeq + 1
    /\ attached' = TRUE /\ detachedAt' = FALSE
    /\ transport' = "attached"
    /\ UNCHANGED <<session, output, replay, exitDeadline, ending, stuck, input, lastStdinSeq,
                   got, evicted, exitGot, faults>>

AttachRejected ==
    /\ transport = "dial" /\ CanReject
    /\ Finish("ended")
    /\ Gone("rejected")
    /\ UNCHANGED <<run, ctx, cancelSet, done, expired, output, attached, detachedAt, replay, stream, wire,
                   exitDeadline, stdins, gateway>>

\* A dial that fails is repeated; an exit that could not be delivered in its
\* window is given up.
AttachFails ==
    /\ transport = "dial"
    /\ faults < MaxFaults
    /\ faults' = faults + 1
    /\ exitDeadline' = (exitDeadline \/ done)
    /\ transport' = "sleep"
    /\ UNCHANGED <<session, output, attached, detachedAt, replay, stream, wire, ending, stdins,
                   got, evicted, exitGot, gwNext>>

GivesUp ==
    /\ transport = "dial" /\ exitDeadline
    /\ Gone("gave_up")
    /\ UNCHANGED <<session, output, attached, detachedAt, replay, stream, wire, exitDeadline,
                   stdins, gateway>>

\* A session that ends during the sleep cuts it short and starts the exit window.
Wakes ==
    /\ transport = "sleep"
    /\ transport' = "dial"
    /\ exitDeadline' \in (IF done THEN {TRUE, exitDeadline} ELSE {exitDeadline})
    /\ UNCHANGED <<session, output, attached, detachedAt, replay, stream, wire, ending, stdins,
                   gateway>>

\* replay_from_seq of the ack: the highest seq the gateway has received.
HighestSeen == Max({0} \cup Range(got))

\* (mutant) the live channel stays
ReplayKeepsLive ==
    /\ transport = "attached"
    /\ LET after == HighestSeen
       IN /\ replay' = [i \in 1..Len(Since(after)) |-> Since(after)[i].seq]
          /\ evicted' = evicted \cup Missing(after)
    /\ transport' = "replay"
    /\ UNCHANGED <<session, output, attached, detachedAt, stream, wire,
                   exitDeadline, ending, stdins, got, exitGot, gwNext, faults>>

\* Replay: the ring is read and the live channel retired under one lock.
Replay ==
    /\ transport = "attached"
    /\ LET after == HighestSeen
       IN /\ replay' = [i \in 1..Len(Since(after)) |-> Since(after)[i].seq]
          /\ evicted' = evicted \cup Missing(after)
    /\ RetireOutput
    /\ transport' = "replay"
    /\ UNCHANGED <<session, copying, ring, next, attached, detachedAt, stream, wire,
                   exitDeadline, ending, stdins, got, exitGot, gwNext, faults>>

\* A send on a stream that is gone is lost; whether it fails is the transport's luck.
Sent(frame) == wire' = IF stream = "up" THEN Append(wire, frame) ELSE wire

ReplaySend ==
    /\ transport = "replay"
    /\ IF replay = <<>>
       THEN transport' = "pump" /\ UNCHANGED <<replay, wire>>
       ELSE Sent(Head(replay)) /\ replay' = Tail(replay) /\ UNCHANGED transport
    /\ UNCHANGED <<session, output, attached, detachedAt, stream, exitDeadline, ending, stdins,
                   gateway>>

PumpSend ==
    /\ transport \in {"pump", "drain"} /\ out # <<>>
    /\ Sent(Head(out)) /\ out' = Tail(out)
    /\ UNCHANGED <<session, copying, ring, next, writer, attached, detachedAt, transport,
                   replay, stream, exitDeadline, ending, stdins, gateway>>

\* (mutant) only a process exit ends the pump
PumpDoneExited ==
    /\ transport = "pump" /\ done /\ exit = "exited"
    /\ transport' = "drain"
    /\ UNCHANGED <<session, output, attached, detachedAt, replay, stream, wire, exitDeadline,
                   ending, stdins, gateway>>

PumpDone ==
    /\ transport = "pump" /\ done
    /\ transport' = "drain"
    /\ UNCHANGED <<session, output, attached, detachedAt, replay, stream, wire, exitDeadline,
                   ending, stdins, gateway>>

\* (mutant) the exit overtakes the output
SendExitEarly ==
    /\ transport = "drain"
    /\ Sent(0)
    /\ transport' = "detach" /\ ending' = "exit_sent"
    /\ UNCHANGED <<session, output, attached, detachedAt, replay, stream, exitDeadline, stdins,
                   gateway>>

\* The live channel is empty: the exit goes out and serve returns.
SendExit ==
    /\ transport = "drain" /\ out = <<>>
    /\ Sent(0)
    /\ transport' = "detach" /\ ending' = "exit_sent"
    /\ UNCHANGED <<session, output, attached, detachedAt, replay, stream, exitDeadline, stdins,
                   gateway>>

\* A failed Send (frame, heartbeat or exit), or Recv's error when the receive loop
\* is there to report it: only the stream is over.
StreamLost ==
    /\ transport \in {"replay", "pump", "drain"}
    /\ stream \in {"cut", "eof"}
    /\ transport' = "detach"
    /\ UNCHANGED <<session, output, attached, detachedAt, replay, stream, wire, exitDeadline,
                   ending, stdins, gateway>>

\* io.EOF from Recv: the gateway closed its side.
GatewayClosed ==
    /\ transport = "pump" /\ stream = "eof"
    /\ receiver = 0 /\ stdin = <<>>
    /\ Finish("ended")
    /\ transport' = "detach" /\ ending' = "gateway_closed"
    /\ UNCHANGED <<run, ctx, cancelSet, done, expired, output, attached, detachedAt, replay, stream, wire,
                   exitDeadline, stdins, gateway>>

\* After pump: Detach, cancel the stream, and re-dial unless the session is over.
Detach ==
    /\ transport = "detach"
    /\ attached' = FALSE /\ detachedAt' = TRUE
    /\ RetireOutput
    /\ stream' = "none" /\ wire' = <<>>
    /\ stuck' = IF receiver = 0 THEN stuck ELSE Append(stuck, receiver)
    /\ stdin' = <<>> /\ receiver' = 0
    /\ transport' = IF ending = "none" THEN "dial" ELSE "returned"
    /\ UNCHANGED <<session, copying, ring, next, replay, exitDeadline, ending, input,
                   lastStdinSeq, gateway>>

-----------------------------------------------------------------------------
(* The stream's receive loop, stdin, and the gateway's side (external).    *)

\* (mutant) the chunk is noted before it is written
ReceiveNotes ==
    /\ stream # "none" /\ receiver = 0 /\ stdin # <<>>
    /\ transport \in {"pump", "drain"}
    /\ receiver' = IF done THEN 0 ELSE Head(stdin)
    /\ stdin' = Tail(stdin)
    /\ lastStdinSeq' = Head(stdin)
    /\ UNCHANGED <<session, output, pumps, stuck, input, gateway>>

Receive ==
    /\ stream # "none" /\ receiver = 0 /\ stdin # <<>>
    /\ transport \in {"pump", "drain"}
    /\ receiver' = IF done THEN 0 ELSE Head(stdin)
    /\ stdin' = Tail(stdin)
    /\ UNCHANGED <<session, output, pumps, stuck, input, lastStdinSeq, gateway>>

\* The process reads a chunk from the pipe: the write returns and is noted.
Applied(chunk) ==
    /\ input' = Append(input, chunk)
    /\ lastStdinSeq' = IF chunk > lastStdinSeq THEN chunk ELSE lastStdinSeq

ProcessReads ==
    /\ copying /\ ~done
    /\ \/ /\ receiver # 0
          /\ Applied(receiver)
          /\ receiver' = 0
          /\ UNCHANGED stuck
       \/ \E i \in 1..Len(stuck) :
            /\ Applied(stuck[i])
            /\ stuck' = RemoveAt(stuck, i)
            /\ UNCHANGED receiver
    /\ UNCHANGED <<session, output, pumps, stdin, gateway>>

\* finish closed the pipe: blocked writes return an error and are not noted.
PipeClosed ==
    /\ done /\ (receiver # 0 \/ stuck # <<>>)
    /\ receiver' = 0 /\ stuck' = <<>>
    /\ UNCHANGED <<session, output, pumps, stdin, input, lastStdinSeq, gateway>>

\* The gateway's close message ends the session but not the stream.
CloseReceived ==
    /\ stream = "up" /\ CanReject /\ receiver = 0 /\ stdin = <<>>
    /\ transport \in {"pump", "drain"} /\ exit = "none"
    /\ Finish("ended")
    /\ UNCHANGED <<run, ctx, cancelSet, done, expired, output, pumps, stdins, gateway>>

GatewayTypes ==
    /\ stream = "up" /\ next + gwNext - 1 <= MaxTraffic
    /\ stdin' = Append(stdin, gwNext)
    /\ gwNext' = gwNext + 1
    /\ UNCHANGED <<session, output, pumps, receiver, stuck, input, lastStdinSeq, got, evicted,
                   exitGot, faults>>

GatewayReceives ==
    /\ wire # <<>>
    /\ IF Head(wire) = 0
       THEN exitGot' = exit /\ UNCHANGED got
       ELSE got' = Append(got, Head(wire)) /\ UNCHANGED exitGot
    /\ wire' = Tail(wire)
    /\ UNCHANGED <<session, output, attached, detachedAt, transport, replay, stream, exitDeadline,
                   ending, stdins, evicted, gwNext, faults>>

\* The stream breaks: what is in flight in either direction is gone.
StreamCut ==
    /\ stream = "up" /\ faults < MaxFaults
    /\ faults' = faults + 1
    /\ stream' = "cut" /\ wire' = <<>>
    /\ stdin' = <<>>
    /\ UNCHANGED <<session, output, attached, detachedAt, transport, replay, exitDeadline, ending,
                   receiver, stuck, input, lastStdinSeq, got, evicted, exitGot, gwNext>>

GatewayEnds ==
    /\ stream = "up" /\ CanReject /\ faults < MaxFaults
    /\ faults' = faults + 1
    /\ stream' = "eof" /\ wire' = <<>>
    /\ UNCHANGED <<session, output, attached, detachedAt, transport, replay, exitDeadline, ending,
                   stdins, got, evicted, exitGot, gwNext>>

-----------------------------------------------------------------------------
Init ==
    /\ run = "new" /\ ctx = "live" /\ cancelSet = FALSE
    /\ exit = "none" /\ finishing = "no" /\ done = FALSE /\ expired = FALSE
    /\ copying = FALSE /\ ring = <<>> /\ next = 1
    /\ writer = [w \in Writers |-> Idle] /\ out = <<>>
    /\ attached = FALSE /\ detachedAt = FALSE
    /\ transport = "opening" /\ replay = <<>> /\ stream = "none" /\ wire = <<>>
    /\ exitDeadline = FALSE /\ ending = "none"
    /\ stdin = <<>> /\ receiver = 0 /\ stuck = <<>> /\ input = <<>> /\ lastStdinSeq = 0
    /\ got = <<>> /\ evicted = {} /\ exitGot = "none" /\ gwNext = 1 /\ faults = 0

RunStep == RunStarts \/ Prepared \/ PrepareRefuses \/ StreamReturns \/ RunReturns
WriterStep(w) == WriteSend(w) \/ WriteClosed(w)
ServeStep ==
    \/ ServeStarts \/ AttachAccepted \/ AttachRejected \/ AttachFails \/ GivesUp \/ Wakes
    \/ Replay \/ ReplaySend \/ PumpSend \/ PumpDone \/ SendExit
    \/ StreamLost \/ GatewayClosed \/ Detach
GatewayStep == GatewayTypes \/ GatewayReceives \/ StreamCut \/ GatewayEnds \/ CloseReceived

Next ==
    \/ RunStep \/ FinishDone \/ MaxSession \/ ResumeExpires \/ WatchdogCloses \/ CopyEnds
    \/ \E w \in Writers : WriterStep(w) \/ \E size \in Sizes : WritePush(w, size)
    \/ ServeStep
    \/ Receive \/ ProcessReads \/ PipeClosed
    \/ GatewayStep

Spec == Init /\ [][Next]_vars

\* The timers fire, the goroutines are scheduled, and an executor whose context
\* has ended returns.  The process, the user and the gateway owe nothing, except
\* that a dial is answered once the faults are used up.
FairSpec ==
    /\ Spec
    /\ WF_vars(MaxSession) /\ WF_vars(FinishDone)
    /\ WF_vars(RunStarts \/ RunReturns)
    /\ WF_vars(ctx # "live" /\ (PrepareRefuses \/ StreamReturns))
    /\ WF_vars(ServeStep)
    /\ \A w \in Writers : WF_vars(WriterStep(w))

-----------------------------------------------------------------------------
(* Correctness.                                                            *)

\* A session that has ended never leaves a stream running that nobody will
\* cancel: either finish saw run's cancel function or run saw the exit.
NoOrphanStream == (done /\ run \in {"prepare", "stream"}) => ctx # "live"

\* Over any number of re-attachments a console loses only what its ring could not
\* keep.  The gateway receives the output of a tty in order and once, and while
\* the session runs every frame it skipped is one a Replay found evicted; when it
\* is told that the process exited, it has all other output.  (The agent only logs
\* such a gap: the gateway is sent nothing but the jump in seq.)  In the other
\* direction resume_seq is a promise: everything up to it reached the process, and
\* no chunk did before every earlier one had; the unfinished write of a broken
\* stream may repeat a chunk.
ConsoleIntact ==
    /\ \A i, j \in 1..Len(got) : i < j => got[i] < got[j]
    /\ done \/ \A seq \in 1..HighestSeen : seq \in Range(got) \cup evicted
    /\ exitGot = "exited" => 1..(next - 1) \subseteq Range(got) \cup evicted
    /\ 1..lastStdinSeq \subseteq Range(input)
    /\ \A i \in 1..Len(input) : \A chunk \in 1..(input[i] - 1) : \E j \in 1..(i - 1) : input[j] = chunk

\* Whatever the process, the user and the network do, the session's slot comes
\* back, no writer stays blocked and the transport goes away.
EveryConsoleEnds ==
    <>[](run = "released" /\ transport = "returned" /\ \A w \in Writers : writer[w] = Idle)
=============================================================================
