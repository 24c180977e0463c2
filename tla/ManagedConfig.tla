--------------------------- MODULE ManagedConfig ---------------------------
(***************************************************************************)
(* The platform manages parts of the agent's configuration.  A complete    *)
(* set of blocks arrives with a handshake or as a push; applyManaged       *)
(* (internal/stream/manager.go) overlays it on the file's configuration,   *)
(* lets the live query policy swap, stores the outcome, and the heartbeat  *)
(* reports it.  Meanwhile boot (cmd/agent/main.go) waits for the first     *)
(* handshake, builds the collectors from the effective configuration and   *)
(* reports back which one it used, and the capability reporter             *)
(* (internal/capability/reporter.go) publishes a catalog that has to       *)
(* follow the policy.                                                      *)
(***************************************************************************)
EXTENDS ConfigBlocks

CONSTANTS Default,      \* the built-in configuration
          File,         \* the configuration on disk, normalised and valid
          Sets,         \* the sets the platform may send: [rev, blocks]
          MaxSets,      \* how many of them it sends
          MaxFaults     \* failures of discovery or of a catalog's publication

VARIABLES managed,      \* streamManager.managed
          applying,     \* the set between the policy's swap and the store
          settled,      \* configSettled is closed
          policy,       \* policy.Holder.current
          boot,         \* where startCollectors is
          built,        \* the configuration the collectors are built from
          reported,     \* the configuration SetCollectorConfig recorded
          snapshot,     \* the managed state a heartbeat in the making holds
          heartbeat,    \* the last heartbeat sent
          reporter,     \* where the capability reporter's goroutine is
          nudge,        \* the one-slot channel RequestSweep sends on
          swept,        \* sweepState.ran
          probed,       \* the policy the sweep in hand has read
          catalog,      \* the policy of the last catalog published
          lastGood, lastBad,   \* history: the last accepted set; the last set was refused
          stale,        \* history: a sweep failed since the last catalog
          sent, faults  \* bounds

managedVars == <<managed, applying, settled, policy, lastGood, lastBad, sent>>
bootVars == <<boot, built, reported>>
heartbeatVars == <<snapshot, heartbeat>>
reporterVars == <<reporter, swept, probed, catalog, stale, faults>>
vars == <<managedVars, bootVars, heartbeatVars, reporterVars, nudge>>

None == [none |-> TRUE]

Policy(c) == [enabled |-> c.query.enabled, rules |-> QueryRules(c)]

\* managed starts as a nil pointer: EffectiveConfig is the file's.
NoState == [cfg |-> File, rev |-> 0, err |-> FALSE, identity |-> None]

Init ==
    /\ managed = NoState /\ applying = None /\ settled = FALSE
    /\ policy = Policy(File)
    /\ boot = "waiting" /\ built = None /\ reported = None
    /\ snapshot = None /\ heartbeat = None
    /\ reporter = "absent" /\ nudge = FALSE /\ swept = FALSE
    /\ probed = None /\ catalog = None
    /\ lastGood = [rev |-> 0, blocks |-> <<>>] /\ lastBad = FALSE
    /\ stale = FALSE /\ sent = 0 /\ faults = 0

-----------------------------------------------------------------------------
(* applyManaged *)

\* (mutant) the skip check forgets to ask whether the last attempt succeeded
UnchangedIgnoringErr(s) == managed.rev = s.rev /\ managed.identity = s.blocks

\* The gateway sent the set that is already in force.
SetUnchanged(s) == ~managed.err /\ managed.rev = s.rev /\ managed.identity = s.blocks

\* The set goes as far as the hook: skipped, refused, or swapped in.  The
\* policy changes here, the managed state only in Stored.
Taken(s) ==
    /\ sent < MaxSets /\ applying = None
    /\ sent' = sent + 1
    /\ \/ /\ SetUnchanged(s)
          /\ lastBad' = FALSE
          /\ UNCHANGED <<managed, applying, policy, lastGood>>
       \/ /\ ~SetUnchanged(s)
          /\ LET c == Overlaid(File, s.blocks)
             IN  IF Applies(Default, File, s.blocks) /\ Compiles(c)
                 THEN /\ applying' = [set |-> s, cfg |-> c, nudged |-> FALSE]
                      /\ policy' = Policy(c)
                      /\ UNCHANGED <<managed, lastGood, lastBad>>
                 ELSE /\ managed' = [managed EXCEPT !.err = TRUE]
                      /\ lastBad' = TRUE
                      /\ UNCHANGED <<applying, policy, lastGood>>

\* (mutant) the nudge channel has no buffer: a sweep in hand loses it
SweepNudgedUnbuffered ==
    /\ applying # None /\ ~applying.nudged
    /\ applying' = [applying EXCEPT !.nudged = TRUE]
    /\ nudge' = (nudge \/ reporter = "idle")
    /\ UNCHANGED <<managed, settled, policy, lastGood, lastBad, sent, bootVars, heartbeatVars, reporterVars>>

\* The hook's RequestSweep: one slot, and nothing before the holder is set.
SweepNudged ==
    /\ applying # None /\ ~applying.nudged
    /\ applying' = [applying EXCEPT !.nudged = TRUE]
    /\ nudge' = (nudge \/ reporter # "absent")
    /\ UNCHANGED <<managed, settled, policy, lastGood, lastBad, sent, bootVars, heartbeatVars, reporterVars>>

\* (mutant) a set is overlaid on what the last one left
StoredKeeping ==
    /\ applying # None /\ applying.nudged
    /\ managed' = [cfg |-> [k \in ManagedBlockKeys |->
                               IF k \in DOMAIN applying.set.blocks THEN applying.cfg[k] ELSE managed.cfg[k]],
                   rev |-> applying.set.rev, err |-> FALSE, identity |-> applying.set.blocks]
    /\ lastGood' = applying.set /\ lastBad' = FALSE
    /\ applying' = None
    /\ settled' = TRUE
    /\ UNCHANGED <<policy, sent, bootVars, heartbeatVars, reporterVars, nudge>>

\* The managed state is stored whole, and boot may stop waiting.
Stored ==
    /\ applying # None /\ applying.nudged
    /\ managed' = [cfg |-> applying.cfg, rev |-> applying.set.rev, err |-> FALSE,
                   identity |-> applying.set.blocks]
    /\ lastGood' = applying.set /\ lastBad' = FALSE
    /\ applying' = None
    /\ settled' = TRUE
    /\ UNCHANGED <<policy, sent, bootVars, heartbeatVars, reporterVars, nudge>>

\* applyHandshakeConfig: the deferred settleConfig runs whatever the handshake
\* carried, and after the set's store when it carried one.
HandshakeBare ==
    /\ applying = None /\ ~settled
    /\ settled' = TRUE
    /\ UNCHANGED <<managed, applying, policy, lastGood, lastBad, sent, bootVars, heartbeatVars,
                   reporterVars, nudge>>

HandshakeSet(s) ==
    /\ Taken(s)
    /\ settled' = (settled \/ applying' = None)
    /\ UNCHANGED <<bootVars, heartbeatVars, reporterVars, nudge>>

\* A push comes after a handshake.
PushedSet(s) ==
    /\ settled
    /\ Taken(s)
    /\ UNCHANGED <<settled, bootVars, heartbeatVars, reporterVars, nudge>>

-----------------------------------------------------------------------------
(* startCollectors *)

\* waitForManagedConfig ends on the handshake or on its budget; EffectiveConfig
\* is read once, and the collectors are built from it.
BuildBegins ==
    /\ boot = "waiting"            \* settled, or the budget ran out
    /\ boot' = "building" /\ built' = managed.cfg
    /\ UNCHANGED <<reported, managedVars, heartbeatVars, reporterVars, nudge>>

\* (mutant) the report reads the effective configuration again
BuildReportsLate ==
    /\ boot = "building"
    /\ boot' = "built" /\ reported' = managed.cfg
    /\ UNCHANGED <<built, managedVars, heartbeatVars, reporterVars, nudge>>

\* The collectors exist, and only now is their configuration recorded.
BuildReports ==
    /\ boot = "building"
    /\ boot' = "built" /\ reported' = built
    /\ UNCHANGED <<built, managedVars, heartbeatVars, reporterVars, nudge>>

\* A build that fails ends the process (unwindBootFailure) and reports nothing.
BuildFails ==
    /\ boot = "building"
    /\ boot' = "failed" /\ built' = None
    /\ UNCHANGED <<reported, managedVars, heartbeatVars, reporterVars, nudge>>

\* serve resolves the sweeper's holder, then starts the reporter with the rest.
ReporterWired ==
    /\ boot = "built" /\ reporter = "absent" /\ built.state.enabled
    /\ reporter' = "wired"
    /\ UNCHANGED <<swept, probed, catalog, stale, faults, managedVars, bootVars, heartbeatVars, nudge>>

-----------------------------------------------------------------------------
(* buildHeartbeat *)

\* One load of the managed state serves the whole heartbeat.
HeartbeatLoads ==
    /\ snapshot = None
    /\ snapshot' = managed
    /\ UNCHANGED <<heartbeat, managedVars, bootVars, reporterVars, nudge>>

\* restartRequiredFor: nothing is stale before boot has reported.
RestartRequiredFor(st) == reported # None /\ RestartRequiredBlocks(reported, st.cfg) # {}

HeartbeatSent ==
    /\ snapshot # None
    /\ heartbeat' = [rev |-> snapshot.rev, err |-> snapshot.err,
                     restart |-> RestartRequiredFor(snapshot), reported |-> reported # None]
    /\ snapshot' = None
    /\ UNCHANGED <<managedVars, bootVars, reporterVars, nudge>>

-----------------------------------------------------------------------------
(* The capability reporter *)

\* refresh: discovery answers and the sweep is due, for the first time or by
\* force.  needsSweep's other reasons (a new fingerprint, the hourly interval)
\* begin the same sweep.
SweepBegins ==
    /\ \/ reporter = "wired" /\ UNCHANGED nudge
       \/ reporter = "idle" /\ nudge /\ nudge' = FALSE
       \/ reporter = "idle" /\ ~swept /\ UNCHANGED nudge
    /\ reporter' = "sweeping"
    /\ UNCHANGED <<swept, probed, catalog, stale, faults, managedVars, bootVars, heartbeatVars>>

\* applyPolicy asks the holder for the verdicts after the probes have returned.
SweepReadsPolicy ==
    /\ reporter = "sweeping"
    /\ reporter' = "publishing" /\ probed' = policy
    /\ UNCHANGED <<swept, catalog, stale, faults, managedVars, bootVars, heartbeatVars, nudge>>

SweepPublishes ==
    /\ reporter = "publishing"
    /\ reporter' = "idle" /\ swept' = TRUE
    /\ catalog' = probed /\ probed' = None /\ stale' = FALSE
    /\ UNCHANGED <<faults, managedVars, bootVars, heartbeatVars, nudge>>

\* Discovery or the queue refuses: the nudge that asked for it is spent.
SweepFails ==
    /\ reporter \in {"sweeping", "publishing"} /\ faults < MaxFaults
    /\ reporter' = "idle" /\ probed' = None /\ stale' = TRUE /\ faults' = faults + 1
    /\ UNCHANGED <<swept, catalog, managedVars, bootVars, heartbeatVars, nudge>>

-----------------------------------------------------------------------------
Next ==
    \/ \E s \in Sets : HandshakeSet(s) \/ PushedSet(s)
    \/ HandshakeBare \/ SweepNudged \/ Stored
    \/ BuildBegins \/ BuildReports \/ BuildFails \/ ReporterWired
    \/ HeartbeatLoads \/ HeartbeatSent
    \/ SweepBegins \/ SweepReadsPolicy \/ SweepPublishes \/ SweepFails

-----------------------------------------------------------------------------
(* Properties *)

\* Whenever no set is half applied, what the agent would report is what it
\* runs: the error is shown exactly when the last set was refused, the
\* revision, the effective configuration and the live query policy are those
\* of the last accepted set, whatever was refused, repeated or relabelled in
\* between, and a block the platform has released has its file value back.
ReportTruthful ==
    applying = None =>
        /\ managed.err = lastBad
        /\ managed.rev = lastGood.rev
        /\ managed.cfg = (IF lastGood.rev = 0 THEN File ELSE Overlaid(File, lastGood.blocks))
        /\ policy = Policy(managed.cfg)

\* A heartbeat that reports a revision and asks for no restart, once the
\* collectors are built, is right: the collectors run the values that revision
\* gave to every block they read at construction.  It holds although boot
\* reads the effective configuration, builds and reports in three steps that
\* sets and heartbeats may fall between.
InEffect ==
    heartbeat # None /\ heartbeat.reported /\ ~heartbeat.restart =>
        \E s \in Sets \cup {[rev |-> 0, blocks |-> <<>>]} :
            /\ s.rev = heartbeat.rev
            /\ \A k \in CollectBlocks : built[k] = Overlaid(File, s.blocks)[k]

\* The explorer's catalog follows the policy: with the reporter at rest, no
\* nudge pending, no set half applied and no failed sweep since, the catalog last published shows
\* the verdicts of the policy in force, although a swap may fall at any point
\* of a sweep and before the reporter exists.
CatalogCurrent ==
    reporter = "idle" /\ ~nudge /\ ~stale /\ applying = None => catalog = policy
=============================================================================
