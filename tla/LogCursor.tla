----------------------------- MODULE LogCursor ------------------------------
(***************************************************************************)
(* What one container's log stream reads, hands on and remembers           *)
(* (collector/logs: consumeStream and runStream in stream.go, joiner.go,   *)
(* cursor.go, and the checkpoint store).  A line is its position in the    *)
(* container's log.  The kubelet stamps it, and the parser may find a time *)
(* of its own in a JSON line: that one is what the cursor keeps.           *)
(***************************************************************************)
EXTENDS Integers, Sequences, FiniteSets

CONSTANTS MaxLines,     \* bound: lines the container writes
          TailLines,    \* tail_lines of the stream's rule
          Overlap,      \* reconnectSinceOverlap, in the same unit
          Skews,        \* how far a line's own time may be from the kubelet's
          MaxFaults     \* bound: broken streams, failed writes, crashes

VARIABLES
    log,        \* per line: the kubelet's stamp, the parsed time, whether it continues a record
    at,         \* "closed", "reading", "handling", "flushing" or "down"
    next,       \* the next line the open stream delivers
    pending,    \* lines of the record the joiner holds
    record,     \* lines of the record being handed to handleLogLine
    last,       \* cursor.lastProcessed, 0 when zero
    timer,      \* the debounced save is armed
    ending,     \* the stream's context has ended, or runStream returns anyway
    saved,      \* the checkpoint row, 0 when there is none
    handled,    \* lines written to the queue, rate-limited or counted as dropped
    unloaded,   \* this stream's Load failed
    missed,     \* lines an open without a cursor skipped: they lie before the tail
    faults

vars == <<log, at, next, pending, record, last, timer, ending, saved, handled, unloaded, missed, faults>>
cursor == <<last, timer, saved, unloaded>>

Lines == 1..MaxLines
Larger(a, b) == IF a > b THEN a ELSE b

\* The record's Timestamp is that of its first line.
Noted(lines) == log[CHOOSE i \in lines : \A j \in lines : i <= j].time

\* (mutant) the resume point is the cursor itself
SinceExact(time) == time

\* sinceForReconnect: the log API returns the lines stamped from here on.
Since(time) == time - Overlap

FirstSince(time) ==
    CHOOSE i \in 1..(Len(log) + 1) :
        /\ \A j \in 1..(i - 1) : log[j].stamp < time
        /\ i <= Len(log) => log[i].stamp >= time

-----------------------------------------------------------------------------
\* consumeStream opens the log: from lastProcessed - overlap, else the tail.
Open ==
    /\ at = "closed" /\ ~ending
    /\ at' = "reading"
    /\ IF last = 0
       THEN /\ next' = Larger(1, Len(log) - TailLines + 1)
            /\ missed' = missed \cup (1..(next' - 1) \ handled)
       ELSE /\ next' = FirstSince(Since(last))
            /\ UNCHANGED missed
    /\ UNCHANGED <<log, pending, record, cursor, ending, handled, faults>>

\* joiner.Add: a continuation line joins the record held, if it is recent and
\* there is room (hold, maxBytes); any other line completes it.
Read ==
    /\ at = "reading" /\ ~ending /\ next <= Len(log)
    /\ next' = next + 1
    /\ \/ /\ pending # {} /\ log[next].extends
          /\ pending' = pending \cup {next}
          /\ UNCHANGED <<record, at>>
       \/ /\ record' = pending /\ pending' = {next}
          /\ at' = IF pending = {} THEN "reading" ELSE "handling"
    /\ UNCHANGED <<log, cursor, ending, handled, missed, faults>>

\* handleLogLine returns nil: the record is in the queue, or the limiter dropped
\* and counted it.  markProcessed moves the cursor forward only.
Handle ==
    /\ at = "handling"
    /\ handled' = handled \cup record
    /\ last' = Larger(last, Noted(record))
    /\ timer' = (timer \/ Noted(record) > last)
    /\ record' = {} /\ at' = "reading"
    /\ UNCHANGED <<log, next, pending, ending, saved, unloaded, missed, faults>>

\* The queue refuses the record: it is counted as dropped and the loop goes on.
HandleFails ==
    /\ at = "handling" /\ faults < MaxFaults
    /\ faults' = faults + 1
    /\ handled' = handled \cup record
    /\ record' = {} /\ at' = "reading"
    /\ UNCHANGED <<log, next, pending, cursor, ending, missed>>

\* The write times out or its context ends: the record counts as dropped and the
\* read loop returns, for good (runStream) -- the next resync starts a new stream.
HandleTimesOut ==
    /\ at = "handling" /\ (ending \/ faults < MaxFaults)
    /\ faults' = IF ending THEN faults ELSE faults + 1
    /\ handled' = handled \cup record
    /\ record' = {} /\ at' = "flushing" /\ ending' = TRUE
    /\ UNCHANGED <<log, next, pending, cursor, missed>>

\* EOF, a read error, or the end of the context.
ReadEnds ==
    /\ at = "reading" /\ (ending \/ faults < MaxFaults)
    /\ faults' = IF ending THEN faults ELSE faults + 1
    /\ at' = "flushing"
    /\ UNCHANGED <<log, next, pending, record, cursor, ending, handled, missed>>

\* flushJoiner: the record held is written on a context of its own, or counted as
\* dropped; either way the cursor stays where it is.  A stream that only broke is
\* opened again; one that has ended closes its cursor.
FlushJoiner ==
    /\ at = "flushing"
    /\ handled' = handled \cup pending
    /\ pending' = {}
    /\ at' = IF ending THEN "closing" ELSE "closed"
    /\ UNCHANGED <<log, next, record, cursor, ending, missed, faults>>

\* Save keeps the larger time (the UPDATE's WHERE); a done context fails it.
Saved(ok) == saved' = IF ok THEN Larger(saved, last) ELSE saved

\* The debounce timer fires flush on its own goroutine.
TimerFires ==
    /\ timer /\ at # "down"
    /\ timer' = FALSE
    /\ \E ok \in BOOLEAN : Saved(ok)
    /\ UNCHANGED <<log, at, next, pending, record, last, ending, handled, unloaded, missed, faults>>

\* cursor.close: the last flush.  The stream's own context may have ended; after
\* a write that timed out it has not.
CursorCloses ==
    /\ at = "closing"
    /\ \E ok \in BOOLEAN : Saved(ok)
    /\ at' = "down" /\ timer' = FALSE
    /\ UNCHANGED <<log, next, pending, record, last, ending, handled, unloaded, missed, faults>>

\* Prune, removal or Stop ends the stream's context.
ContextEnds ==
    /\ at \notin {"down", "closing"} /\ ~ending /\ faults < MaxFaults
    /\ faults' = faults + 1
    /\ ending' = TRUE
    /\ at' = IF at = "closed" THEN "closing" ELSE at
    /\ UNCHANGED <<log, next, pending, record, cursor, handled, missed>>

\* The process dies: the joiner and the cursor are gone.
Crash ==
    /\ at # "down" /\ faults < MaxFaults
    /\ faults' = faults + 1
    /\ at' = "down"
    /\ pending' = {} /\ record' = {} /\ timer' = FALSE
    /\ UNCHANGED <<log, next, last, ending, saved, handled, unloaded, missed>>

\* (mutant) the checkpoint is not loaded
NewStreamForgets ==
    /\ at = "down"
    /\ at' = "closed" /\ ending' = FALSE
    /\ last' = 0 /\ unloaded' = FALSE
    /\ UNCHANGED <<log, next, pending, record, timer, saved, handled, missed, faults>>

\* A new stream for the container: newStreamCursor loads the checkpoint; a failed
\* load is counted and leaves it without one.
NewStream ==
    /\ at = "down"
    /\ at' = "closed" /\ ending' = FALSE
    /\ unloaded' \in BOOLEAN
    /\ last' = IF unloaded' THEN 0 ELSE saved
    /\ UNCHANGED <<log, next, pending, record, timer, saved, handled, missed, faults>>

\* ParseLine: the times a line stamped s may be given, the kubelet's own for
\* plain text and whatever its time field says for JSON.
ParsedTimes(s) == {s + skew : skew \in Skews} \cap (Nat \ {0})

\* The container writes a line (external).
Written ==
    /\ Len(log) < MaxLines
    /\ \E extends \in BOOLEAN, stamp \in IF log = <<>> THEN {1} ELSE {0, 1} :
         LET s == stamp + IF log = <<>> THEN 0 ELSE log[Len(log)].stamp
         IN \E time \in ParsedTimes(s) :
              log' = Append(log, [stamp |-> s, time |-> time, extends |-> extends])
    /\ UNCHANGED <<at, next, pending, record, cursor, ending, handled, missed, faults>>

Init ==
    /\ log = <<>> /\ at = "closed" /\ next = 1
    /\ pending = {} /\ record = {}
    /\ last = 0 /\ timer = FALSE /\ ending = FALSE /\ saved = 0
    /\ handled = {} /\ unloaded = FALSE /\ missed = {} /\ faults = 0

Next ==
    \/ Open \/ Read \/ Handle \/ HandleFails \/ HandleTimesOut \/ ReadEnds
    \/ FlushJoiner \/ TimerFires \/ CursorCloses \/ ContextEnds \/ Crash \/ NewStream
    \/ Written

-----------------------------------------------------------------------------
\* A stream that has a cursor skips no line.  A line that was neither handed on
\* nor counted as dropped is still to come: in the open stream, in the joiner, or
\* past the point the next stream reads from, be it this process's cursor or,
\* after a crash, the checkpoint; and a stream runs without a cursor only while
\* nothing was ever checkpointed, or after a Load that failed.  It holds while a
\* line's own time is at most Overlap ahead of the kubelet's.  Excepted, and lost
\* in silence, are the lines before the tail when a stream opens with no cursor
\* (missed): not only the first stream, but also one that reconnects before its
\* first record was marked, one after a crash or failed saves that left no
\* checkpoint, and one whose Load failed.
NoLineSkipped ==
    /\ at # "down" /\ saved > 0 /\ last = 0 => unloaded
    /\ \A i \in 1..Len(log) \ (handled \cup missed) :
        /\ at \in {"reading", "handling"} => i >= next \/ i \in pending \cup record
        /\ last > 0 => log[i].stamp >= Since(last)
        /\ saved > 0 => log[i].stamp >= Since(saved)
=============================================================================
