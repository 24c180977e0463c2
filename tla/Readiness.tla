----------------------------- MODULE Readiness -----------------------------
(***************************************************************************)
(* The readiness probe (internal/health): the server copies its checkers   *)
(* under its lock, asks them concurrently, and answers ok when all do.     *)
(* Boot adds checkers while the server already answers, and the stream's   *)
(* checker measures how long the stream has been gone by what earlier      *)
(* probes saw.                                                             *)
(***************************************************************************)
EXTENDS Naturals

CONSTANTS Grace,        \* streamDisconnectGrace
          Capacity,     \* the queue's capacity, in slots
          MaxTime       \* bound: clock

VARIABLES clock,
          connected,    \* Manager.Connected
          since,        \* history: when that last changed
          lastConnected,\* streamChecker.lastConnected
          depth,        \* Queue.Depth
          boot,         \* what serve has done: "registered", "announced"
          synced,       \* the state watcher's caches are synced
          probe,        \* the probe in hand: when it began, what was announced
                        \* then, the checkers still to answer, and whether all
                        \* that did were healthy; or None
          answer        \* the last answer, until a probe follows it, and what
                        \* was true when it was given; None when not ok

vars == <<clock, connected, since, lastConnected, depth, boot, synced, probe, answer>>

None == [none |-> TRUE]

Init ==
    /\ clock = 0 /\ connected = FALSE /\ since = 0 /\ lastConnected = 0
    /\ depth = 0 /\ boot = {} /\ synced = FALSE /\ probe = None /\ answer = None

Tick ==
    /\ clock < MaxTime
    /\ clock' = clock + 1
    /\ UNCHANGED <<connected, since, lastConnected, depth, boot, synced, probe, answer>>

ConnectionFlips ==
    /\ connected' = ~connected /\ since' = clock
    /\ UNCHANGED <<clock, lastConnected, depth, boot, synced, probe, answer>>

DepthChanges ==
    /\ depth' \in 0 .. Capacity
    /\ UNCHANGED <<clock, connected, since, lastConnected, boot, synced, probe, answer>>

\* (mutant) the collectors are announced before the state checker is known
BootGoesOnEarly ==
    /\ \/ boot = {} /\ boot' = {"announced"}
       \/ boot = {"announced"} /\ boot' = {"registered", "announced"}
    /\ UNCHANGED <<clock, connected, since, lastConnected, depth, synced, probe, answer>>

\* serve: the state watcher's checker is registered, then the collectors are
\* announced; neither waits for their Start.
BootGoesOn ==
    /\ \/ boot = {} /\ boot' = {"registered"}
       \/ boot = {"registered"} /\ boot' = {"registered", "announced"}
    /\ UNCHANGED <<clock, connected, since, lastConnected, depth, synced, probe, answer>>

CachesSync ==
    /\ boot # {} /\ ~synced
    /\ synced' = TRUE
    /\ UNCHANGED <<clock, connected, since, lastConnected, depth, boot, probe, answer>>

-----------------------------------------------------------------------------
\* snapshotCheckers: four are registered before the server starts.
ProbeBegins ==
    /\ probe = None
    /\ probe' = [began |-> clock, late |-> "announced" \in boot, ok |-> TRUE,
                 asked |-> {"k8s", "queue", "stream", "collectors"}
                               \cup (IF "registered" \in boot THEN {"state"} ELSE {})]
    /\ answer' = None
    /\ UNCHANGED <<clock, connected, since, lastConnected, depth, boot, synced>>

\* (mutant) the time is noted whether or not the stream is up
SeenAlways == clock

\* streamChecker.Check notes the time whenever it finds the stream up.
Seen == IF connected THEN clock ELSE lastConnected

\* queueChecker.Check: above nine tenths of the capacity, rounded down; the
\* drop rate is not limited (serve passes 0).
QueueHealthy == depth <= (Capacity * 9) \div 10

StreamHealthy == connected \/ clock - Seen <= Grace

\* Whether checker c is content.
Healthy(c) ==
    CASE c = "k8s" -> TRUE
      [] c = "queue" -> QueueHealthy
      [] c = "stream" -> StreamHealthy
      [] c = "collectors" -> "announced" \in boot
      [] c = "state" -> synced

\* runChecks: the checkers answer in any order, each after any time; the call to
\* the API server fails or is timed out when it likes, the others never wait.
Checks(c) ==
    /\ probe # None /\ c \in probe.asked
    /\ \E fails \in IF c = "k8s" THEN BOOLEAN ELSE {FALSE} :
          probe' = [probe EXCEPT !.asked = @ \ {c}, !.ok = @ /\ Healthy(c) /\ ~fails]
    /\ lastConnected' = (IF c = "stream" THEN Seen ELSE lastConnected)
    /\ UNCHANGED <<clock, connected, since, depth, boot, synced, answer>>

\* handleReadiness, once every checker has answered.
ProbeAnswers ==
    /\ probe # None /\ probe.asked = {}
    /\ answer' = IF ~probe.ok THEN None
                 ELSE [late |-> probe.late, synced |-> synced, took |-> clock - probe.began,
                       gone |-> IF connected THEN 0 ELSE clock - since]
    /\ probe' = None
    /\ UNCHANGED <<clock, connected, since, lastConnected, depth, boot, synced>>

Next ==
    \/ Tick \/ ConnectionFlips \/ DepthChanges \/ BootGoesOn \/ CachesSync
    \/ ProbeBegins \/ ProbeAnswers
    \/ \E c \in {"k8s", "queue", "stream", "collectors", "state"} : Checks(c)

-----------------------------------------------------------------------------
\* An ok can be believed: when the probe came in after the collectors were
\* announced the state watcher's caches are synced, although boot registers
\* the watcher's checker, announces and syncs in steps a probe's copy of the
\* checkers and their answers may fall between; and the stream has not been
\* gone for longer than the grace period and what the probe took, whatever
\* earlier probes happened to see.  The converse does not hold: a stream that
\* comes back only between probes is reported as gone all the while.
ReadinessTruthful ==
    answer # None =>
        /\ answer.late => answer.synced
        /\ answer.gone <= Grace + answer.took
=============================================================================
