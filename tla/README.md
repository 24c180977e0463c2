# A TLA+ model of the kubexa agent

The agent runs in a Kubernetes cluster, collects logs, metrics and object state,
buffers them, and ships them to a gateway over one bidirectional gRPC stream. The
gateway sends back acknowledgements, configuration, and requests: queries,
writes, node jobs, consoles. This directory models the parts of it whose
correctness depends on the order in which things happen, checks them with TLC on
small instances, and proves the central ones with TLAPS for all instances.

Everything here is read from the Go source under `src/`; `PROJECT.json` maps each
definition to its lines.

## 1. The system and its parts

| part | source | modules |
|---|---|---|
| Spill log | `internal/queue/disk.go`, `ref.go` | `DiskStore`, `EntrySequences` |
| Buffered queue | `internal/queue/queue.go` | `BufferedQueue` over `QueueState`, `QueueIntake`, `QueueReturn`, `QueueLife`; `QueueCustody`, `ItemCustody` |
| Gateway stream manager | `internal/stream` | `DeliverySession`, `Outbound`, `ManagedConfig`, `WatchConfig` |
| Node jobs | `internal/nodeops` | `NodeJobs`, `JobLifecycle` |
| Consoles | `internal/exec` | `ConsoleStream`, `ConsoleSlots` |
| Log collector | `internal/collector/logs` | `LogStreams`, `LogCursor` |
| State collector | `internal/collector/state` | `WatchConfig`, `StateEvents` |
| Metrics collector | `internal/collector/metrics` | `ScrapeHealth`, `ScrapeTargets`, `KubeStateTarget` |
| Capability reporter | `internal/capability` | `ManagedConfig` |
| Mutation executor | `internal/mutate` | `Mutations` |
| Query executor | `internal/query` | `QueryPages`, `QueryPolicy` |
| Ingest rules | `internal/ingestrules` | `IngestLimiter` |
| Configuration | `pkg/config` | `ConfigBlocks`, `QueryPolicy` |
| Health server | `internal/health` | `Readiness` |
| Agent process | `cmd/agent/main.go` | `AgentBoot`, and the holders in `WatchConfig`, `ManagedConfig`, `ConsoleSlots`, `Readiness` |

How they interact. Collectors call `Enqueue` (directly, or through the manager's
`Send` when no stream is ready). The manager's drain loop takes batches with
`DequeueBatch`, sends them, and settles them with `Ack`, `Nack*` or `Drop`; when
the gateway acknowledges deliveries, the settling happens later, on another
worker, possibly in another session. The queue keeps each item in exactly one of
its tiers and, with spilling enabled, survives the death of the process. Requests
from the gateway start work that may outlive the session they came in: a node job
and a console do, a write does not. Configuration arrives in a handshake or as a
push, and is applied to parts that exist already and to parts that boot has yet to
build.

What is hard about it. A log that is compacted while references into it are
outstanding, partial writes, crashes between two durable writes, enqueuers and the
consumer sleeping on one condition variable, acknowledgements that arrive late or
never, sessions that end in the middle of all this; goroutines that look at a map,
release its lock, and act on what they saw; timers, cancellations and API calls
that race each other, against a cluster that other clients change. `PROJECT.json`
lists the main ones under `hazards`, each at the line where it bites.

## 2. What is modelled

In every module an action is what happens under one lock or between two blocking
calls, so whatever the code does not serialise interleaves. Data is cut down to
what the properties tell apart. Time is left out where only the order of events
matters (an armed timer may fire) and is a small counter where lengths matter
(`IngestLimiter`, `Readiness`, the stamps in `LogCursor`). Variables commented as
history record what the code counts, reports or forgets; no guard reads them.
Operators commented `(mutant)` are faulty variants of the definition that follows
them; no specification uses them.

### `EntrySequences`, `DiskStore`: the write-ahead log

`DiskStore` is `diskStore`: `files` maps a segment number to a header flag and a
sequence of records; `segment`, `segmentNum`, `segmentSize`, `totalBytes` and
`storeClosed` are the fields of the same names. A record is an item or an ack;
every record has size 1, so a byte offset becomes a position, and a torn record
takes a position that cannot be read. The actions are operators used by the queue:

* `WriteOK` and `WriteFail` are `appendRecord` with its rotation, cap check,
  write and fsync. A failing write can leave nothing, part of the header, part of
  the body, or a whole record that was not synced (`WriteFaults`); in each case
  `segmentSize` is left where it was, as in the code. A record cut inside its body
  (`"cut"`, `Cuts`) can be completed by the bytes appended behind it; what reads back
  then has its id and any attempt count. A failing rotation can leave
  the file without its header, and leaves no open segment.
* `RemoveOK`, `RemoveFail` are `removeSegment`; `CloseStore` is `close`;
  `OpenStore` is `newDiskStore`; `Recoveries` is `recover` with `replaySegment`:
  a segment without its header is skipped, a tear ends the replay of its segment,
  later records of an id replace earlier ones, acks cancel items.
* `CrashImages` are the directories a death during an append can leave behind.

### `BufferedQueue`: the queue

`QueueState` has the variables and what the operations share, `QueueIntake` has
`Enqueue` and `DequeueBatch`, `QueueReturn` has `Ack`, `Drop`, the nacks and
compaction, `QueueLife` has `Close`, `New` and the death of the process.
`BufferedQueue` puts them together and states the properties.

Every operation of the queue holds `q.mu` throughout. The variable `op` names the
operation that holds it and what is left of its work; each loop iteration that
touches the log is a step of its own, since that is where the process can die
between two durable writes, and only that operation or a crash can move while
`op` is not idle. Data is abstracted as follows: an item is its id, payloads and
timestamps are left out, sizes are "fits in memory" or not (`BigIds`), and
capacities are slot counts (`MemSlots`, `DiskSlots`, `DiskMax`, `SegmentMax`).
`arrived`, `acked`, `dropped`, `unrecorded`, `refused`, `lost`, `flushFailed` are
history variables: they record what the code counts in a metric or reports to its
caller and no guard of the code depends on them.

| actions | code |
|---|---|
| `EnqueueMemory`, `EnqueueSpilling`, `EvictOldest`, `EvictFails`, `EnqueueAfterEviction`, `SpillEnqueue`, `EnqueueDropOldest`, `EnqueueRefused`, `WaitCancelled` | `Enqueue`, `makeMemoryRoomUnlocked`, `evictOldestMemoryUnlocked`, `spillEnqueueUnlocked`, `dropOldestUnlocked`, `waitForCapacity` |
| `DequeueBatch`, `PullDisk`, `PullMemory`, `DropUnreadable`, `PullEnd` | `DequeueBatch`, `dequeueOneUnlocked`, `readRefUnlocked` |
| `Ack`, `AckOne`, `AckFails`, `Drop`, `DropOne`, `SkipId`, `SettleEnd` | `Ack`, `Drop`, `retireInflightUnlocked` |
| `Nack`, `NackRetire`, `NackCollect`, `NackRefs`, `RequeueMemory`, `RequeueSpill`, `RequeueDrop` | `nack`, `enqueueFrontUnlocked`; the id lists are arbitrary, so `sweepInflight`, which collects them in an earlier critical section, is one of the callers |
| `CompactRemove`, `CompactEnd` | `compactUnlocked`, the tail of every settling operation |
| `Close`, `CloseFlush`, `CloseDrop`, `CloseFails`, `CloseEnd` | `Close` |
| `Crash`, `New`, `BootSettle`, `NewCrash` | the death of the process and `New` |

### `ItemCustody`: what the queue promises

For each item, who is responsible for it (new, buffered, stored, taken, on loan,
settled, lost) and which changes of custody there are, including what a death of
the process may and may not take. `QueueCustody` defines the refinement mapping
`CustodyOfIds`; the run `queue_lives` checks `ImplementsCustody` and the theorem
`QueueImplementsCustody` proves it.

### `DeliverySession`: a session of the stream manager

`Run`'s reconnect loop with its rung of the backoff ladder (`run`, `attempt`,
`stalled`), and the workers of a session over an abstract queue (where each item
is, and its attempts): `drainBufferedQueue` (`drain`: `DrainTop`, `DrainRoom` for
`waitForInflightRoom`, `DrainDequeue`, sending, the two nacks after a failed
send, `settleAcks` with its retries and its terminal drop), `ackSettleLoop` and its
bounded channel, the deadline sweep in its two critical sections, `endSession`'s
nacks, pushes of a new batch size, and both delivery modes a gateway may choose.
The queue holds `Slots` items: an enqueue or a nack that finds no room, and a dequeue
that meets an unreadable record, may drop one and count it (`discarded`). It may and
need not, since whether the disk has room is not part of this module. The throttle
wait and a `Send` that the transport holds up are left out; both end with the
session's context.
The gateway publishes, acknowledges late, twice or never, and the transport breaks.

### `Outbound`: what is sent besides the queue

`Send` decides by the ready flag between the send channel and the durable queue,
the send loop writes into a stream that may be dead already, backpressure holds it
back, and node job events are retained per job and re-announced on each new session
by `reannounceNodeJobs`, which copies them, releases the lock and sends.

### `ManagedConfig`, `ConfigBlocks`: configuration from the platform

`ConfigBlocks` holds the functions of `pkg/config`: which keys a block may carry,
`normalize`, `Validate`, the overlay on the file, and which blocks are read live.
`ManagedConfig` is `applyManaged` (unchanged sets, refused sets, the swap of the
query policy, the store), boot waiting for the first handshake, building the
collectors and reporting what it built from, heartbeats put together from a
snapshot, and the capability reporter's sweeps with its one-slot nudge.

### `WatchConfig`, `StateEvents`: object state

`WatchConfig` follows a pushed set of resources from `reconcileWatchConfig` through
`reconcilerHolder`, which keeps it until the collector has started, to `reconcile`,
which diffs, starts informers one by one, registers each under the lock or stops it
again, while sessions end, informers fail and `Stop` runs. `StateEvents` has the
informers that the static rules get (an informer of one namespace or of all, filtered by
selector; the first rule for a namespace and kind gets it), their callbacks, of which
secrets have none for additions, the non-blocking channel, and workers.

### `LogStreams`, `LogCursor`, `IngestLimiter`: logs

`LogStreams`: the map of streams, the resync that lists and prunes, the watch that
adds, reservations, semaphore permits, streams that end at any time and release by
key, and `Stop`. `LogCursor`: one stream's reads from the resume point, the joiner,
hand-over, the debounced checkpoint and the final flush, with broken streams, failed
saves and crashes. `IngestLimiter`: `Allow` and `Evict`, rules that are pushed at any
time or switched off, and callers whose rules and clock readings reach the lock late and
out of order.

### `ScrapeHealth`, `ScrapeTargets`, `KubeStateTarget`: metrics

`ScrapeHealth` has one operator per method of the health registry, with the sample
budget. `ScrapeTargets` diffs the targets against the nodes, starts and stops a
scraper each, and records results. `KubeStateTarget` is the loop that looks for
kube-state-metrics now and then and scrapes it meanwhile; what it tells the registry
after a probe is three calls, and a heartbeat may read between them.

### `NodeJobs`, `JobLifecycle`: cordon, uncordon, drain

`NodeJobs`: the slot, the policy, `SetUnschedulable`, the drain's listing,
classification and passes (evictions, budgets, retries, the list that tells what is
gone), `Cancel`, the deadline, and a cluster in which pods end, are replaced under
the same name, by a pod of another kind too, and are scheduled until the node is
cordoned. The agent knows its own pod by `POD_NAME`, or does not know it. `JobLifecycle` is what a
job promises: one at a time, progress in order, one terminal event, sent after the
slot is free. `Lifecycle` is the refinement mapping.

### `ConsoleStream`, `ConsoleSlots`: consoles

`ConsoleStream` is one session: `run` and its cancel function, `finish`, the ring and
the live channel, chunk writers, `Attach`, `Detach`, `Replay`, the pump, a receive
loop per stream (one blocked in `WriteStdin` outlives its stream), the resume window,
the exit. `ConsoleSlots` is the manager around it: slots per kind, the helper Pod of
a node console from creation to deletion, the death of the agent, the boot sweep.

### `Mutations`, `QueryPages`, `QueryPolicy`: requests

`Mutations` is `Execute`: checks, `Decide`, the gate's two channels, the call of each
verb with its preconditions and `enforceTarget`, dry runs, timeouts and sessions that
end, the code `mapAPIError` gives an API error, against an API server with versions and
uids that others write to. `QueryPages`
follows one pager through pages of both views, each decided by the policy of its
time; a Table's row may come with its object, without one, or with one that does not
decode. `QueryPolicy` enumerates the owner's rule lists and compares `QueryRules`,
`Decide` and `AllowsAny` on them.

### `AgentBoot`, `Readiness`: the process

`AgentBoot`: what boot sets up, the run group, a failure or a signal at any point,
`unwindBootFailure`, the gateway's shutdown, closing the queue, the exit code.
`Readiness`: a probe that copies the checkers and asks them concurrently while boot adds
more, an API call that fails or times out whenever it likes, and `streamChecker`, which
knows the connection only from probes.

## 3. What the runs check

`MCWorkloads`, `MCCluster` and `MCAgent` put independent components into one run. The
components of such a run share no state, so a behaviour picks one (`part`) and runs
it; the state spaces add up. The queue and one console run as they are: the `.cfg` alone
fixes the instance. Deadlock checking is off throughout: a closed queue, a finished job
or a bound that is used up is a legitimate end.

| run | instance | shows |
|---|---|---|
| `queue_lives` | 3 items, one memory slot, one disk slot, segments of 2, sound disk: batches of 2, nacks that use up attempts, two process deaths at any step | `QueueSound` (`ClaimsExact`, `OnePlace`, `NoLostWakeup`); `RefsIntact`: recovered references read back the item they name; `SettledStaysSettled`; `ImplementsCustody` |
| `queue_faults` | the same tiers with batches of 1, an item that never fits memory and a log that fills up: one I/O error of any kind and one crash that may tear a record or a header | `ClaimsExact`; `OnePlace`; `RefsBacked`; `NoSilentLoss` |
| `queue_memory` | no disk: two memory slots, an item that never fits, every nack kind, a restart | `MemoryOnlySound` (`NoSilentLoss`, `NoLostWakeup`); `UnchargedNackRetiresNothing` |
| `queue_liveness` | one memory slot and one disk slot for three items | `EventuallySettled` |
| `session_safety` | 3 items (one expirable), two slots, batches up to 2, one cut, two failing acks, both ack modes | `NothingStranded` between sessions; `WindowBounded`; `AtLeastOnce`; `LadderClimbs` |
| `session_liveness` | 2 items, two cuts, the process may stop | `SessionEnds`; `EventuallySettled` |
| `console_stream` | 2 output frames through a ring and a channel of one, one stdin chunk, two faults | `NoOrphanStream`; `ConsoleIntact`; `EveryConsoleEnds` |
| `workloads` | two jobs, a console of each kind, two containers and one permit, three restarts for one slot and one place to wait | `EveryJobEnds`, `SlotsAndHelpersEnd`, `StopEnds`, `EveryWriteAnswered` |
| `cluster` | a drain and an uncordon, two consoles of each kind, two containers, three log lines, three watch pushes, five state rules, two nodes, six kube-state rounds, two metered streams under changing rules | `JobsHonest`, `ImplementsLifecycle`, `ConsolesAccounted`, `EntriesServed`, `NoLineSkipped`, `RateKept`, `WatchesConverge`, `NewestReported`, `ScrapingTruthful` |
| `agent` | six managed sets of which three are sent, two servers and two collectors, five units of probing, every list of three owner rules, five rows in pages, two writers of two objects, three events over three sessions | `ConfigTruthful`, `CatalogCurrent`, `ProcessTruthful`, `UsageWithinListing`, `PagesComplete`, `WritesAsAsked`, `JobNewsArrives` |
| `torn_tail`, `standing_outage` | expected violations, see below | |

Each property is stated and explained in its component's module; those of `MCCluster`
and `MCAgent` name it from there, some as the conjunction of two. For each property
`PROJECT.json` lists one or more faulty variants of the code under which it fails.

Properties with exceptions. Some hold only up to a loss the code accepts, and say so:
`AtLeastOnce` excepts items past their attempts and those the queue dropped and counted;
`UnchargedNackRetiresNothing` is false where a write can be cut inside a record, because
the attempt count read back is then foreign bytes, and is checked without a disk and
proved for every disk that cuts none; `ConsoleIntact` excepts output that the ring had
evicted when a replay began (`ring.go:48` calls it "a gap the receiver
should be told about"; `attach.go:215` only logs it, so the receiver sees a jump in `seq`);
`WatchesConverge` excepts a set whose reconcile was abandoned with its session (nothing
repeats it until the next push); `NewestReported` excepts objects with a counted drop,
objects that two workers held at once, and rules that share an informer, and of a secret
speaks of its changes other than additions;
`JobsHonest` speaks of the pod the drain listed under a name, since an eviction carries no
UID, and of the agent's own pod only where `POD_NAME` names it;
`ProcessTruthful` excepts an API call of the boot that times out: it exits 0 although
nobody asked for a stop, since `isContextClosed` takes `DeadlineExceeded` for one
(`main.go:369`); `PagesComplete` excepts rows of a Table page whose object is missing or
does not decode, which `filterTable` drops without marking the page;
`WritesAsAsked` lets a scale and a restart land on whatever is there, as they name no
version;
`CatalogCurrent` excepts a failed sweep, which spends the nudge; `JobNewsArrives`
excepts a job whose `Send` failed or whose event outlived the retention;
`ConsolesAccounted` excuses helpers left by a crash, a failed delete or a late create;
`NoLineSkipped` excepts the lines before the tail wherever a stream opens without a
cursor (the first one, one that breaks before its first record was marked, one after a
crash without a checkpoint or a `Load` that failed), and assumes that a line's own time is
at most the overlap ahead of the kubelet's; `RateKept` takes the largest rate and burst of
the rules in force so far, assumes that a burst refills within the eviction time, and
speaks of metered streams only; `UsageWithinListing` excepts wildcard rules, which answer for usage
themselves.

Why the bounds are enough. In the queue three items and one memory slot make each tier
overflow into the next and a batch mix both; segments of two records make rotation
happen inside one operation; two deaths are needed for defects in which one process
writes what only the process after the next reads. In a session, two batches fill the
window of two, and one cut gives a session before and one after it, which is what late
acks need. A ring and a channel of one frame make eviction, overflow and replay happen
with two frames, and two faults give three attachments. Two pods under one name, a
second address of a node, a second console of a kind, a third watch push and a third
session are each the first instance in which a successor can be taken for its
predecessor, which is what those components can get wrong.

Fairness, and why the code justifies it.

* Queue: weak for the lock holder and for `New`; strong for `DequeueBatch`, for each
  enqueuer's retry and for the ack of each delivered item, since the mutex may be taken
  by others in between. Nothing is assumed of nacks, `Close` or crashes.
* Session: weak for each worker's next step, for `Run`'s, for the gateway's publishing
  and for reading an ack that has arrived; strong for the heartbeat's sweep reaching an
  item that is inflight, because it runs on a ticker for as long as the session lives
  and collects everything older than the deadline.
* Console: weak for the goroutines and for the session's maximum length, a timer; a
  stream whose context has ended returns, as the executor's contract says. Nothing is
  assumed of the gateway or the user.
* Node jobs: weak for the job's goroutine and for its deadline. Nothing is assumed of
  the cluster, so a budget may block for ever.
* Console slots: weak for the sessions' goroutines, and for the kubelet ending a helper
  at its `activeDeadlineSeconds` and removing a deleted Pod.
* Log streams: weak for the goroutines; a stream whose context has ended returns.
* Writes: weak for the worker's steps (a call is bounded by its timeout); strong for
  taking a slot, since a Go channel serves its waiters in order.

### Disagreements between comments and code

The two runs expected to be violated state what a comment says and exhibit a behaviour
of the code that contradicts it; `findings` in `PROJECT.json` quotes the lines.

* `torn_tail`: "Items that are not acked will be re-delivered after restart". A torn
  tail is appended behind by the next process and ends the replay of the one after.
* `standing_outage`: clearing a removed target's health is there so that it does not
  report "as a standing outage for the rest of the process's life". The entry is cleared
  before the scraper is cancelled, and a scrape in progress writes it again.

Further statements are kept in the modules as definitions that TLC refutes; no run is
spent on them:

* `NackToFront` (`BufferedQueue`; `queue.go:79`): refilling the channel reverses the
  rest, so another item can come between two nacked ones.
* `DeliveredIntact` (`BufferedQueue`; `queue.go:928`): after a failed write the offsets
  drift, and a drifted reference can read a half-written record of the same id.
* `OvershootRetired` (`BufferedQueue`; `disk.go:252`): with a disk cap of at most one
  segment nothing is ever retired.
* `ChargedWasTried` (`DeliverySession`; `queue.go:89`): the deadline sweep charges items
  of a batch that the drain holds and has not sent.
* `DrainedNodeEmpty` (`NodeJobs`; the repository's README): pods are listed before the
  cordon, so one that is scheduled in between stays while the drain succeeds.
* `PrunedIsCancelled` (`LogStreams`; `collector.go:344`): a prune that meets a
  reservation cancels nothing, and a late release by key frees a successor's entry.

And these were met while modelling; the model has the behaviour:

* a segment whose header was not written is appended to and skipped by every replay;
* `Close` of the queue returns on a flush error before it closes the store and wakes
  waiters, though its comment says it releases resources;
* items awaiting an ack are not counted against the slot capacity;
* dropping unreadable references makes room without waking a parked enqueuer;
* without spill, `Enqueue` on a full memory drops the oldest item where the interface's
  comment says it blocks.

## 4. What is proved

### The queue

TLAPS checks the theorems of `BufferedQueueProofs` for every set of ids, every
capacity, every set of faults and any number of crashes allowed by the assumptions
`StoreAssumption` and `QueueAssumption`, which only say that the constants have the
types the code gives them. Over any disk:

| theorem | statement |
|---|---|
| `TypeCorrectness` | `Spec => []TypeOK` |
| `ClaimsAreExact` | `Spec => []ClaimsExact`: the count kept for a segment is the number of items holding a reference into it, and no release underflows |
| `ReferencesAreBacked` | `Spec => []RefsBacked`: compaction never removes a segment that a live reference points into |
| `ItemsHaveOnePlace` | `Spec => []OnePlace` |
| `NoWakeupIsLost` | `Spec => []NoLostWakeup`: a parked consumer has nothing to dequeue |
| `QueueIsSound` | `Spec => []QueueSound`, the three above that `queue_lives` checks together |
| `UnchargedNacksRetireNothing` | `~Cuts` gives `Spec => UnchargedNackRetiresNothing`: on a disk whose faults leave no record cut inside its body |
| `CompactionIsPrefixOnly` | `Spec => PrefixOnly` |

What the log contains depends on the disk, and those theorems say how far:

| theorem | statement |
|---|---|
| `ReferencesStayIntact` | `Spec => [](SoundDisk => RefsIntact)` |
| `SettledIsFinal` | `Spec => [](SoundDisk => SettledStaysSettled)` |
| `NothingIsLostSilently` | `Spec => [](OneTear => NoSilentLoss)` |
| `MemoryOnlyIsSound` | `Spec => [](~Spill => MemoryOnlySound)` |
| `QueueImplementsCustody` | `Spec /\ [](SoundDisk /\ ~flushFailed) => ImplementsCustody` |

`SoundDisk`: no file operation has failed, and no crash may have torn a record (there
was none, or crashes fall between two writes, or there is no log). These are the disks
of the run `queue_lives`; after a failed write the offsets drift and both `RefsIntact`
and `SettledStaysSettled` are false of the code. `OneTear` allows failures of any kind
and, where crashes may tear a record, one crash: that is the instance of `queue_faults`.
A second one makes `NoSilentLoss` false of the code, which is what `torn_tail` shows.
`flushFailed` says that a `Close` gave up its flush and abandoned an item in its hands.

The invariants, in `QueueInvariants` and `LogInvariants`:

* `Inv` (theorem `Invariance`): `PlaceInv` (types, `OnePlace`, `OpShape`: what the running
  operation may hold in each phase, and everything the queue knows has arrived) and
  `LogInv` (well-formed files, exact claims, every held segment present, the cursor at or
  below every file). None of the properties is inductive alone: exact claims need items to
  have one place, since a second reference to the same id would be overwritten in the
  inflight map; backing needs exact claims, since compaction looks at counts and not at
  references; and both need to know what a half-finished nack has in its hands.
* `ControlInv` (`ControlInvariance`): who may sleep in which phase. A nack has items in its
  hands while the consumer sleeps, and a `DequeueBatch` on its way to sleep still compacts,
  so `NoLostWakeup` is not inductive.
* `SoundInv` (`SoundInvariance`): while the disk is sound every file parses, an id is
  written once and acked in its own segment or a later one, the counters are at the end of
  the last file, each reference is at the record of its item, and the outstanding items of
  the directory are the items the running queue has references to. That an ack is never
  in an earlier segment than its item is why removing a prefix revives nothing.
* `AccountInv` (`AccountInvariance`): what arrived is somewhere, and the log of a process
  that died without a failed write can be replayed but for its last record.

`Counting`, a conjunct of `Inv`, is not about the queue: it states the facts about finite
sets that the steps use, so that they are derived from `FiniteSetTheorems` once
(`CountingHolds`) and need not be in the scope of the other proof modules.

The argument for the last two invariants has a step in between. All that an action can
do to items is one of five flows (`ItemFlow` in `QueueInvariants`): items stay in memory
or are settled from it, one goes from memory to the log, one in the log is settled, the
oldest segment is removed, or `Close` abandons one. Each action is shown to be a flow;
each flow, a crash and a start are shown to preserve `SoundInv` and `AccountInv` and to be
a step of `ItemCustody`.

* `DiskStoreProofs`: sequences of entries, and what every store operation does to the
  directory: which segments exist and which record is where.
* `QueueStateProofs`: the counting argument for claims, and the kinds of steps that several
  actions share.
* `QueueIntakeProofs`, `QueueReturnProofs`, `QueueLifeProofs`: for each action of the module
  of that name, that it preserves `Inv`, preserves `ControlInv`, and is a flow.
* `QueueLogProofs`: what the flows do to the log and to custody.
* `BufferedQueueProofs`: the inductions and the theorems.

A leaf names the prover that finds it (`Zenon` for first-order reasoning, the others go
to the SMT solver): a module has hundreds of leaves, and the SMT translation is the
expensive part.

### The session

`DeliverySessionProofs` proves, for every set of items, batch size, attempt cap, ack
channel capacity, backoff ladder and number of cuts and errors (`SessionAssumption`),
what the run `session_safety` checks on three items:

* `NothingIsStranded`, `WindowIsBounded`, `DeliveryIsAtLeastOnce`, `LadderIsClimbed`:
  `Spec => []P` for `NothingStranded`, `WindowBounded`, `AtLeastOnce`, `LadderClimbs`.
  What the queue may drop for want of room is part of it, for every number of slots.

Its inductive invariant (`Inv`, theorem `SessionInvariance`) adds four things to the
properties. `Places`: an item is queued, inflight or settled, and only a settled one is
past the attempt cap. `Shape`: what `drainBufferedQueue` has in its hands at each point.
`Stranding`: without delivery acks, nothing is inflight but what the drain still
holds, which is why `endSession` may skip its nack in that mode. `Evidence`: an ack on
its way, in the network or in the channel, is for a published item, and what the drain is
about to settle it judged or sent. The window needs that a batch is only taken with at
most one batch inflight, of the size the drain read before it waited. There is one lemma
per action; the settling ones share what ack, drop and nack do to the places of items.

### Only model-checked

Liveness (`EventuallySettled`, `SessionEnds` and the other eventualities): it rests on
fairness and `ENABLED`, which are outside this prover. What `recover` computes as such: the
replay is used in the proofs through what it yields on a log that parses up to its last
record, not as a function of arbitrary files. The refinement of `JobLifecycle`, and every
component other than the queue, its log and the delivery session; what they sum up or
fold over sequences would need induction over data, which the prover cannot apply.

## 5. Not modelled

Within modelled components: metrics and log lines; byte sizes behind slot counts; the
lengths of backoffs, deadlines and tickers (each may fire at any time it is armed); in
the stream manager the version negotiation and the forwarding of ingest rules; in the
log collector which pods a rule selects, the error budget, which is a sum over
wall-clock time, the owner lookup and line parsing; in the metrics collector the scrapers
of fixed targets and of the metrics API, which loop without shared state, and text
parsing; in the query executor `get`, a single call; in the mutation executor a merge
payload that decodes to no map. The queue is composed with the
session only through the abstraction in `DeliverySession`: the product of the two is out
of TLC's reach, and `ItemCustody`, which the queue is shown to implement, is the
interface between them.

Not at all: the exec policy (first match over name patterns), TLS, interceptors and the
dialer, the client-go wrappers and their retries (a call that fails after them is a
failing call in the modules that make it), YAML loading and the texts of validation
errors, logging, metrics and profiling servers, build information, generated code, the
development gateway and the schema generator. They are sequential and stateless, or pure
input and output.
