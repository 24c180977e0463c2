----------------------------- MODULE QueueState -----------------------------
(***************************************************************************)
(* The state of the two-tier queue between the collectors and the gateway  *)
(* stream: bufferedQueue in internal/queue/queue.go, over the log of       *)
(* DiskStore.                                                              *)
(*                                                                         *)
(* Every operation holds q.mu from its first to its last step.  Here op is *)
(* the operation that holds the lock and what is left of it; each loop     *)
(* iteration that touches the log is one step, because that is where the   *)
(* process can die between two durable writes.  While op is not idle only  *)
(* that operation or a crash can move.                                     *)
(***************************************************************************)
EXTENDS DiskStore, EntrySequences

CONSTANTS
  Spill,        \* TRUE iff buffer.spill_dir is set (q.disk # nil)
  MemSlots,     \* items memory holds (memorySlotCapacity and max_memory_bytes)
  DiskSlots,    \* references the disk tier may queue (diskSlotCapacity)
  BigIds,       \* items larger than max_memory_bytes: they never fit memory
  NackKinds,    \* the nackKinds the callers use in this instance
  BatchSize,    \* n of DequeueBatch, and the longest id list of a settlement
  MaxCrashes    \* process deaths in one behaviour

ASSUME QueueAssumption ==
  /\ Spill \in BOOLEAN
  /\ MemSlots \in Nat \ {0} /\ DiskSlots \in Nat \ {0}
  /\ BigIds \subseteq Ids
  /\ NackKinds \subseteq {"failed", "delivered", "uncharged"}
  /\ BatchSize \in Nat \ {0}
  /\ MaxCrashes \in Nat

VARIABLES
  up,         \* the process is running
  mem,        \* memCh
  diskRefs,   \* q.diskRefs
  inflight,   \* q.inflight: id -> entry
  claims,     \* q.refsPerSegment; a key is present iff its count is positive
  lowest,     \* q.lowestSegment
  closed,     \* q.closed
  op,         \* the operation holding q.mu
  retrying,   \* Enqueue calls about to run their loop again
  parked,     \* Enqueue calls in waitForCapacity
  waiting,    \* the consumer is in waitForCapacity
  underflows, \* q.refUnderflows
  arrived,    \* items handed to Enqueue so far
  acked,      \* items settled by Ack
  dropped,    \* items counted in dropped_total
  unrecorded, \* items counted as delivered but unrecorded
  refused,    \* items whose Enqueue returned an error to the caller
  lost,       \* items that were only in memory when the process died
  flushFailed,\* some Close returned early from its flush
  crashes     \* process deaths so far

claimVars == <<claims, underflows>>
waitVars == <<retrying, parked, waiting>>
bootVars == <<up, lost, crashes>>
vars == <<storeVars, mem, diskRefs, inflight, claimVars, lowest, closed, op, waitVars,
          arrived, acked, dropped, unrecorded, refused, flushFailed, bootVars>>

-----------------------------------------------------------------------------

\* An item outside the log has no segment.
NoSeg == -1
Entry(i, a, loc) == [id |-> i, att |-> a, seg |-> loc.seg, pos |-> loc.pos]
InMemory == [seg |-> NoSeg, pos |-> 0]
OnDisk(e) == e.seg # NoSeg

\* nackKind.  nackUntried and nackSessionEnd differ in a metric only: both
\* are "uncharged".
Kinds == {"failed", "delivered", "uncharged"}
Operation(k, ids, mems, kind, flag) ==
  [k |-> k, ids |-> ids, refs |-> <<>>, mems |-> mems, kind |-> kind, flag |-> flag]
Start(k, ids) == Operation(k, ids, <<>>, "failed", FALSE)
Idle == Start("idle", <<>>)

Free == up /\ op = Idle
Doing(k) == up /\ op.k = k

CanAcceptInMemory(i) == i \notin BigIds /\ Len(mem) < MemSlots
DiskRefsFull == Len(diskRefs) >= DiskSlots

\* signalWaitersLocked: every parked call runs its loop again.
Broadcast == waiting' = FALSE /\ parked' = {} /\ retrying' = retrying \cup parked
\* (mutant) the new item wakes nobody
BroadcastExceptQuiet(i) == retrying' = retrying \ {i} /\ UNCHANGED <<parked, waiting>>
BroadcastExcept(i) == waiting' = FALSE /\ parked' = {} /\ retrying' = (retrying \cup parked) \ {i}

Claimed(n) == IF n \in DOMAIN claims THEN claims[n] ELSE 0
AddClaim(n) == [m \in DOMAIN claims \cup {n} |-> IF m = n THEN Claimed(n) + 1 ELSE claims[m]]
\* releaseDiskRefUnlocked: a key whose count reaches zero is deleted.
LessClaim(n) ==
  IF Claimed(n) > 1 THEN [claims EXCEPT ![n] = @ - 1]
  ELSE [m \in DOMAIN claims \ {n} |-> claims[m]]
Release(n) ==
  /\ claims' = LessClaim(n)
  /\ underflows' = IF Claimed(n) = 0 THEN underflows + 1 ELSE underflows

\* The reference AddDiskRef queues, for the record WriteOK puts at Location.
AddDiskRef(e) ==
  /\ diskRefs' = Append(diskRefs, Entry(e.id, e.att, Location))
  /\ claims' = AddClaim(Location.seg)
  /\ UNCHANGED underflows

InflightWith(e) == [i \in DOMAIN inflight \cup {e.id} |-> IF i = e.id THEN e ELSE inflight[i]]
InflightWithout(i) == [j \in DOMAIN inflight \ {i} |-> inflight[j]]

SpillRecord(e) == ItemRecord(e.id, e.att)
Spills(e) == ~DiskRefsFull /\ WriteOK(SpillRecord(e)) /\ AddDiskRef(e)
SpillFails(e) ==
  /\ \/ DiskRefsFull /\ UNCHANGED storeVars
     \/ ~DiskRefsFull /\ WriteFail(SpillRecord(e))
  /\ UNCHANGED <<diskRefs, claimVars>>

\* (mutant) nothing is written
SettleDroppedRefForgotten(i) == i \in Ids /\ UNCHANGED storeVars
\* settleDroppedRefUnlocked: an ack record, best effort.
SettleDroppedRef(i) == WriteOK(AckRecord(i)) \/ WriteFail(AckRecord(i))

Return == op' = Idle
\* (mutant) no broadcast
FinishAndWakeQuiet == op' = Start("compact", <<>>) /\ UNCHANGED waitVars
\* The tail of Ack, nack and Drop: compact, and wake every waiter.
FinishAndWake == op' = Start("compact", <<>>) /\ Broadcast

-----------------------------------------------------------------------------
(***************************************************************************)
(* What is left of the operation that holds the lock.                      *)
(***************************************************************************)

Pulling == Doing("dequeue") /\ Len(op.ids) < BatchSize

Settling(k) == Doing(k) /\ op.ids # <<>>
NextIds == [op EXCEPT !.ids = Tail(@)]

\* (mutant) every nack charges an attempt
ChargesAlways(kind) == kind \in Kinds
Charges(kind) == kind \in {"failed", "delivered"}
Nacked(e) == IF Charges(op.kind) THEN [e EXCEPT !.att = @ + 1] ELSE e
Retires(e) == Nacked(e).att > MaxAttempts

Requeuing == Doing("requeue") /\ op.mems # <<>>
Requeued == op' = [op EXCEPT !.mems = Front(@)]

Flushing == Doing("close") /\ mem # <<>>

-----------------------------------------------------------------------------
(***************************************************************************)
(* Where the items are.                                                    *)
(***************************************************************************)

MemoryInflight == {i \in DOMAIN inflight : ~OnDisk(inflight[i])}
DiskInflight == DOMAIN inflight \ MemoryInflight

EnqueuedId == IF op.k = "enqueue" THEN {op.ids[1]} ELSE {}
Callers == retrying \cup parked \cup EnqueuedId
VolatileIds == EntryIds(mem) \cup EntryIds(op.mems) \cup MemoryInflight \cup Callers

\* The references something can still release: queued, inflight, being nacked.
LiveRefs == Range(diskRefs) \cup {inflight[i] : i \in DiskInflight} \cup Range(op.refs)
Held == {<<r.id, r.seg>> : r \in LiveRefs}

\* The ids the process is still responsible for.
LoggedIds == {r.id : r \in LiveRefs} \cup (IF op.k = "boot" THEN Range(op.ids) ELSE {})
HeldIds == VolatileIds \cup LoggedIds

Settled == acked \cup dropped \cup unrecorded \cup refused

\* The record the running operation is in the middle of appending, if any.
RetiringRecord(i) == {AckRecord(j) : j \in {i} \cap (DOMAIN inflight \ MemoryInflight)}
Appending ==
  CASE op.k \in {"enqueue", "close"} /\ mem # <<>> /\ ~DiskRefsFull
         -> IF op.k = "enqueue" /\ CanAcceptInMemory(op.ids[1]) THEN {}
            ELSE {SpillRecord(Head(mem))}
    [] op.k = "enqueue" /\ mem = <<>> /\ ~DiskRefsFull /\ ~CanAcceptInMemory(op.ids[1])
         -> {ItemRecord(op.ids[1], 0)}
    [] Requeuing /\ Spill /\ ~DiskRefsFull /\ ~CanAcceptInMemory(Last(op.mems).id)
         -> {SpillRecord(Last(op.mems))}
    [] Settling("ack") \/ Settling("drop") -> RetiringRecord(Head(op.ids))
    [] Settling("nack") /\ Head(op.ids) \in DOMAIN inflight /\ Retires(inflight[Head(op.ids)])
         -> RetiringRecord(Head(op.ids))
    [] Settling("boot") -> {AckRecord(Head(op.ids))}
    [] Pulling /\ diskRefs # <<>> /\ ~Readable(Head(diskRefs)) -> {AckRecord(Head(diskRefs).id)}
    [] OTHER -> {}

Directories == {files} \cup (UNION {CrashImages(rec, CrashFaults) : rec \in Appending})

-----------------------------------------------------------------------------
(***************************************************************************)
(* What the state looks like, the claim counts and the places.             *)
(***************************************************************************)

Entries == [id : Ids, att : Attempts, seg : Nat \cup {NoSeg}, pos : Nat]
MemoryEntries == {e \in Entries : e.seg = NoSeg}
Refs == {e \in Entries : e.seg # NoSeg}

OpKinds == {"idle", "enqueue", "dequeue", "ack", "drop", "nack", "requeue", "compact", "close", "boot"}
Ops == [k : OpKinds, ids : Seq(Ids), refs : Seq(Refs), mems : Seq(MemoryEntries),
        kind : Kinds, flag : BOOLEAN]

\* Type invariant: memory holds items, diskRefs holds references, the log
\* holds records, and the operation under the lock is one of the queue's.
TypeOK ==
  /\ StoreTypeOK
  /\ mem \in Seq(MemoryEntries) /\ diskRefs \in Seq(Refs)
  /\ DOMAIN inflight \subseteq Ids
  /\ \A i \in DOMAIN inflight : inflight[i] \in Entries /\ inflight[i].id = i
  /\ DOMAIN claims \subseteq Nat /\ \A n \in DOMAIN claims : claims[n] \in Nat \ {0}
  /\ underflows \in Nat /\ lowest \in Nat /\ closed \in BOOLEAN
  /\ op \in Ops
  /\ retrying \subseteq Ids /\ parked \subseteq Ids /\ waiting \in BOOLEAN
  /\ arrived \subseteq Ids /\ acked \subseteq Ids /\ dropped \subseteq Ids
  /\ unrecorded \subseteq Ids /\ refused \subseteq Ids /\ lost \subseteq Ids
  /\ flushFailed \in BOOLEAN /\ up \in BOOLEAN /\ crashes \in Nat

\* The items with a live reference into a segment.
Holders(n) == {i \in Ids : <<i, n>> \in Held}
\* The claim count of a segment is the number of items with a live reference
\* into it, in every interleaving of spills, dequeues, nacks, retirements and
\* failed writes, and no claim is ever released twice (the underflow branch of
\* releaseDiskRefUnlocked is unreachable).
ClaimsExact ==
  /\ underflows = 0
  /\ \A n \in DOMAIN claims : claims[n] = Cardinality(Holders(n))
  /\ \A r \in LiveRefs : r.seg \in DOMAIN claims

\* An id is in one place: memory, the reference slice, the inflight map, the
\* hands of a nack, or those of a caller still inside Enqueue.  Two copies would
\* be delivered twice, and a dequeue would overwrite the claim of the first.
OnePlace ==
  /\ DistinctIds(mem) /\ DistinctIds(diskRefs) /\ DistinctIds(op.refs) /\ DistinctIds(op.mems)
  /\ EntryIds(mem) \cap (EntryIds(diskRefs) \cup DOMAIN inflight \cup EntryIds(op.refs)
                           \cup EntryIds(op.mems) \cup Callers) = {}
  /\ EntryIds(diskRefs) \cap (DOMAIN inflight \cup EntryIds(op.refs) \cup EntryIds(op.mems)
                                \cup Callers) = {}
  /\ DOMAIN inflight \cap (EntryIds(op.refs) \cup EntryIds(op.mems) \cup Callers) = {}
  /\ EntryIds(op.refs) \cap (EntryIds(op.mems) \cup Callers) = {}
  /\ EntryIds(op.mems) \cap Callers = {}
  /\ retrying \cap parked = {} /\ EnqueuedId \cap (retrying \cup parked) = {}

-----------------------------------------------------------------------------

Init ==
  /\ files = <<>> /\ segmentNum = 0 /\ segment = FALSE /\ segmentSize = 0 /\ totalBytes = 0
  /\ storeClosed = FALSE /\ faults = 0
  /\ mem = <<>> /\ diskRefs = <<>> /\ inflight = <<>> /\ claims = <<>> /\ underflows = 0
  /\ lowest = 0 /\ closed = FALSE /\ op = Idle
  /\ retrying = {} /\ parked = {} /\ waiting = FALSE
  /\ arrived = {} /\ acked = {} /\ dropped = {} /\ unrecorded = {} /\ refused = {}
  /\ flushFailed = FALSE
  /\ up = FALSE /\ lost = {} /\ crashes = 0
=============================================================================
