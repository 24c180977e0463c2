----------------------------- MODULE AgentBoot -----------------------------
(***************************************************************************)
(* The life of the process (cmd/agent/main.go): what run and serve set up, *)
(* the run group of servers, stream manager and collectors, the ways it    *)
(* ends, and the exit code.  An error group keeps the first error, cancels *)
(* its context on it, and Wait returns when every member has returned.     *)
(***************************************************************************)
EXTENDS Naturals, FiniteSets

CONSTANTS Servers,      \* the members that serve until the context ends
          Collectors    \* what buildCollectors returns

\* The member that turns a gateway's Shutdown message into stop().
Signal == "signal"
Members == Servers \cup {Signal} \cup Collectors

VARIABLES main,         \* where serve is
          member,       \* Members -> "off", "starting", "running", "done"
          groupErr,     \* the group's first error: "nil", "ctx" or "failure"
          stopped,      \* why parentCtx is cancelled: "no", "told", "unwind"
          asked,        \* the gateway has sent Shutdown
          cause,        \* why the collectors were not built
          queue,        \* "none", "open" or "closed"
          exit,         \* the exit code, or 2 before there is one
          failed        \* history: "no", "late" (after a cancellation), "first",
                        \* or "lapsed": a call of the boot timed out

vars == <<main, member, groupErr, stopped, asked, cause, queue, exit, failed>>

Init ==
    /\ main = "early" /\ member = [m \in Members |-> "off"]
    /\ groupErr = "nil" /\ stopped = "no" /\ asked = FALSE /\ cause = "nil"
    /\ queue = "none" /\ exit = 2 /\ failed = "no"

\* The group's context.
CtxDone == stopped # "no" \/ groupErr # "nil"

\* What a failure now makes of the history.
Failing == IF failed = "no" THEN IF CtxDone THEN "late" ELSE "first" ELSE failed

\* isContextClosed: no error, a cancellation, or a deadline that passed,
\* whether or not it was the deadline of a context that is being cancelled.
Closed(err) == err \in {"nil", "ctx", "lapse"}

\* run's verdict on what serve returned: a closed context is a clean stop.
ExitCode(err) == IF Closed(err) THEN 0 ELSE 1

\* A member returns err; the group keeps the first error.
Return(m, err) ==
    /\ member' = [member EXCEPT ![m] = "done"]
    /\ groupErr' = IF groupErr = "nil" THEN err ELSE groupErr

-----------------------------------------------------------------------------
(* serve before the group: the kubernetes client, the queue, the policies,  *)
(* the responders and the stream manager.                                   *)

OpensQueue ==
    /\ main = "early" /\ queue = "none"
    /\ queue' = "open"
    /\ UNCHANGED <<main, member, groupErr, stopped, asked, cause, exit, failed>>

\* Any step fails; once there is a queue it is closed first.
EarlyFails ==
    /\ main = "early"
    /\ exit' = ExitCode("failure") /\ failed' = Failing
    /\ queue' = (IF queue = "open" THEN "closed" ELSE queue)
    /\ main' = "exited"
    /\ UNCHANGED <<member, groupErr, stopped, asked, cause>>

\* kube.Ready and EnsureClusterID, which come before the queue, ask the API
\* server: the call returns its context's error when a signal interrupts it,
\* and a deadline's when the server cannot be reached in time.
ApiCallFails ==
    /\ main = "early" /\ queue = "none"
    /\ \/ stopped # "no" /\ exit' = ExitCode("ctx") /\ UNCHANGED failed
       \/ exit' = ExitCode("lapse") /\ failed' = "lapsed"
    /\ main' = "exited"
    /\ UNCHANGED <<member, groupErr, stopped, asked, cause, queue>>

GroupStarts ==
    /\ main = "early" /\ queue = "open"
    /\ main' = "waiting"
    /\ member' = [m \in Members |-> IF m \in Collectors THEN "off" ELSE "running"]
    /\ UNCHANGED <<groupErr, stopped, asked, cause, queue, exit, failed>>

-----------------------------------------------------------------------------
(* startCollectors, and what follows it *)

\* The boot wait ends; a process that is stopping builds nothing.
WaitEnds ==
    /\ main = "waiting"
    /\ \/ CtxDone /\ main' = "unwinding" /\ cause' = "ctx"
       \/ ~CtxDone /\ main' = "building" /\ UNCHANGED cause
    /\ UNCHANGED <<member, groupErr, stopped, asked, queue, exit, failed>>

BuildFails ==
    /\ main = "building"
    /\ main' = "unwinding" /\ cause' = "failure"
    /\ failed' = Failing
    /\ UNCHANGED <<member, groupErr, stopped, asked, queue, exit>>

\* The collectors join the group, whether or not it has been cancelled since.
BuildDone ==
    /\ main = "building"
    /\ main' = "running"
    /\ member' = [m \in Members |-> IF m \in Collectors THEN "starting" ELSE member[m]]
    /\ UNCHANGED <<groupErr, stopped, asked, cause, queue, exit, failed>>

\* unwindBootFailure begins with stop().
UnwindStops ==
    /\ main = "unwinding" /\ stopped = "no"
    /\ stopped' = "unwind"
    /\ UNCHANGED <<main, member, groupErr, asked, cause, queue, exit, failed>>

GroupDone == \A m \in Members : member[m] \in {"off", "done"}

\* (mutant) the boot failure is what is returned, whatever the group says
UnwindsCause ==
    /\ main = "unwinding" /\ stopped # "no" /\ GroupDone
    /\ queue' = "closed" /\ main' = "exited"
    /\ exit' = ExitCode(cause)
    /\ UNCHANGED <<member, groupErr, stopped, asked, cause, failed>>

\* The group's error wins when it is one.
Unwinds ==
    /\ main = "unwinding" /\ stopped # "no" /\ GroupDone
    /\ queue' = "closed" /\ main' = "exited"
    /\ exit' = ExitCode(IF Closed(groupErr) THEN cause ELSE groupErr)
    /\ UNCHANGED <<member, groupErr, stopped, asked, cause, failed>>

\* g.Wait returns.
WaitReturns ==
    /\ main = "running" /\ GroupDone
    /\ main' = "stopping"
    /\ UNCHANGED <<member, groupErr, stopped, asked, cause, queue, exit, failed>>

\* stopCollectors stops them all, last first, and only logs what goes wrong;
\* then the queue is closed.
Stops ==
    /\ main = "stopping"
    /\ queue' = "closed" /\ main' = "exited"
    /\ exit' = ExitCode(groupErr)
    /\ UNCHANGED <<member, groupErr, stopped, asked, cause, failed>>

-----------------------------------------------------------------------------
(* The members *)

\* A server cannot bind or the gateway refuses the agent for good.
ServerFails(m) ==
    /\ member[m] = "running"
    /\ Return(m, "failure")
    /\ failed' = Failing
    /\ UNCHANGED <<main, stopped, asked, cause, queue, exit>>

\* A context error is dropped on the way out of a server.
ServerEnds(m) ==
    /\ member[m] = "running" /\ CtxDone
    /\ Return(m, "nil")
    /\ UNCHANGED <<main, stopped, asked, cause, queue, exit, failed>>

ShutdownAsked ==
    /\ ~asked /\ main \in {"waiting", "building", "running"}
    /\ asked' = TRUE
    /\ UNCHANGED <<main, member, groupErr, stopped, cause, queue, exit, failed>>

\* (mutant) a Shutdown ends the group without the cancel a signal uses
SignalEndsQuietly ==
    /\ member[Signal] = "running"
    /\ \/ asked /\ Return(Signal, "failure") /\ UNCHANGED stopped
       \/ CtxDone /\ Return(Signal, "ctx") /\ UNCHANGED stopped
    /\ UNCHANGED <<main, asked, cause, queue, exit, failed>>

SignalEnds ==
    /\ member[Signal] = "running"
    /\ \/ asked /\ stopped' = (IF stopped = "no" THEN "told" ELSE stopped) /\ Return(Signal, "nil")
       \/ CtxDone /\ Return(Signal, "ctx") /\ UNCHANGED stopped
    /\ UNCHANGED <<main, asked, cause, queue, exit, failed>>

CollectorStarts(c) ==
    /\ member[c] = "starting"
    /\ member' = [member EXCEPT ![c] = "running"]
    /\ UNCHANGED <<main, groupErr, stopped, asked, cause, queue, exit, failed>>

\* Start fails, or a cancelled context cut its cache sync short.
CollectorFails(c) ==
    /\ member[c] = "starting"
    /\ \/ Return(c, "failure") /\ failed' = Failing
       \/ CtxDone /\ Return(c, "ctx") /\ UNCHANGED failed
    /\ UNCHANGED <<main, stopped, asked, cause, queue, exit>>

CollectorEnds(c) ==
    /\ member[c] = "running" /\ CtxDone
    /\ Return(c, "ctx")
    /\ UNCHANGED <<main, stopped, asked, cause, queue, exit, failed>>

\* SIGINT or SIGTERM.
Sigterm ==
    /\ stopped = "no" /\ exit = 2
    /\ stopped' = "told"
    /\ UNCHANGED <<main, member, groupErr, asked, cause, queue, exit, failed>>

Next ==
    \/ OpensQueue \/ EarlyFails \/ ApiCallFails \/ GroupStarts
    \/ WaitEnds \/ BuildFails \/ BuildDone \/ UnwindStops \/ Unwinds \/ WaitReturns \/ Stops
    \/ \E m \in Servers : ServerFails(m) \/ ServerEnds(m)
    \/ ShutdownAsked \/ SignalEnds \/ Sigterm
    \/ \E c \in Collectors : CollectorStarts(c) \/ CollectorFails(c) \/ CollectorEnds(c)

-----------------------------------------------------------------------------
\* What the exit code tells, on every path out of serve: a failure that came
\* before anything was cancelled exits 1 even when boot itself came back with
\* the context error that failure caused, and a run that was only told to
\* stop, by a signal or by the gateway, exits 0.  One failure exits 0 although
\* nobody asked for a stop, and no other does: a call of the boot to the API
\* server that timed out, whose error isContextClosed takes for a clean stop.
\* No path leaves the queue's log open or any member of the group running.
ExitTruthful ==
    exit # 2 =>
        /\ failed = "first" => exit = 1
        /\ failed \in {"no", "lapsed"} => exit = 0
        /\ exit = 0 => failed = "lapsed" \/ stopped = "told"
        /\ queue # "open" /\ GroupDone
=============================================================================
