--------------------------- MODULE BufferedQueue ----------------------------
(***************************************************************************)
(* The two-tier queue between the collectors and the gateway stream:       *)
(* bufferedQueue in internal/queue/queue.go, over the log of DiskStore.  Its *)
(* operations are in the modules this one extends.                         *)
(***************************************************************************)
EXTENDS QueueIntake, QueueReturn, QueueLife, QueueCustody

Next == EnqueueStep \/ DequeueStep \/ SettleStep \/ CompactStep \/ CloseStep \/ LifeStep

Spec == Init /\ [][Next]_vars

\* What the code's scheduling justifies.  A goroutine that holds q.mu runs on;
\* sync.Mutex starves no goroutine that wants it, so a drain loop and an Enqueue
\* that loops get the lock again and again; the gateway acks what it is sent
\* often enough (that one is the environment's).
LockStep == op # Idle /\ Next /\ up'
RetryStep(i) ==
  i \in retrying /\ (EnqueueMemory(i) \/ EnqueueSpilling(i) \/ EnqueueDropOldest(i))
AckOf(i) == i \in DOMAIN inflight /\ Ack /\ op'.ids = <<i>>

FairSpec ==
  /\ Spec
  /\ WF_vars(New) /\ WF_vars(LockStep) /\ SF_vars(DequeueBatch)
  /\ \A i \in Ids : SF_vars(RetryStep(i)) /\ SF_vars(AckOf(i))

-----------------------------------------------------------------------------
(***************************************************************************)
(* Properties.                                                             *)
(***************************************************************************)

\* compactUnlocked never unlinks a segment that a queued or an inflight
\* reference still needs, and never the one being written.
RefsBacked ==
  up /\ Spill => /\ \A r \in LiveRefs : r.seg \in DOMAIN files /\ lowest <= r.seg
                 /\ segmentNum \in DOMAIN files

\* A reference locates its own item's record: DropUnreadable (readRefUnlocked's
\* "unreadable" drop) is not reached as long as no write fails.
RefsIntact == \A r \in LiveRefs : Intact(r)

\* Nothing disappears: an item handed to Enqueue is held, settled (acked,
\* counted in a metric, or refused to its caller), was only in memory when the
\* process died, or is replayed by the next start.  Excepted are a Close that
\* gave up its flush, and the log of a process that had a failed write and then
\* died: what it wrote behind the tear is not replayed.
NoSilentLoss ==
  ~flushFailed /\ (faults = 0 \/ crashes = 0) => arrived \subseteq HeldIds \cup Settled \cup lost
                                     \cup (IF up THEN {} ELSE PendingIds)

\* An item that was acked, dropped, retired or refused never comes back, in
\* this process or after any number of restarts: an ack record is removed
\* only together with the item record it settles.
SettledStaysSettled == Settled \cap (HeldIds \cup PendingIds) = {}

\* A consumer parked in DequeueBatch has nothing to dequeue: every operation
\* that makes an item available broadcasts.
NoLostWakeup == waiting /\ op = Idle => mem = <<>> /\ (diskRefs = <<>> \/ storeClosed)

\* The accounts between the tiers, the inflight map and the log are exact, no
\* item is in two places, and nobody sleeps through a wakeup.
QueueSound == ClaimsExact /\ OnePlace /\ NoLostWakeup

\* Without a disk (Enqueue drops the oldest, a restart recovers nothing) every
\* item is still accounted for, and nobody sleeps through a wakeup.
MemoryOnlySound == NoSilentLoss /\ NoLostWakeup

\* A nack that charges no attempt (untried items, a session that ended) never
\* retires an item, as long as its count is its own (a cut record reads back with
\* any count): only charged failures reach the attempt cap.
UnchargedNackRetiresNothing ==
  [][Settling("nack") /\ op.kind = "uncharged" => UNCHANGED <<dropped, unrecorded>>]_vars

\* Compaction is prefix-only: a segment file goes away only while it is the
\* oldest file, is not being written, and every live reference is above it.
PrefixOnly ==
  [][\A n \in DOMAIN files \ DOMAIN files' :
       /\ \A m \in DOMAIN files : n <= m
       /\ n < segmentNum
       /\ \A r \in LiveRefs : r.seg > n]_vars

\* Every operation gives q.mu back: the eviction, dequeue, requeue, flush and
\* compaction loops all end, whatever the tiers hold.
LockReleased == (op # Idle) ~> (op = Idle)

\* Every item handed to Enqueue is settled in the end, unless the queue is
\* closed: a parked Enqueue is woken when acks make room, the log never stays
\* full of settled records, and no item is starved by the ones nacked to the
\* front.
EventuallySettled == \A i \in Ids : (i \in arrived) ~> (i \in Settled \/ closed)

-----------------------------------------------------------------------------
(***************************************************************************)
(* What comments of the repository say and the code does not do.           *)
(***************************************************************************)

\* Queue.Nack, queue.go:79: "returns items back to the front of the queue";
\* manager.go:1782 relies on the batch's own order being restored.  When a nack
\* has put its last memory item back, the nacked items lead memory in the
\* order they were given (those that fit).
NackToFront ==
  Doing("requeue") /\ op.mems = <<>> /\ Range(op.ids) \subseteq EntryIds(mem)
    => \A k \in DOMAIN op.ids : mem[k].id = op.ids[k]

\* Queue.Ack, queue.go:76: "Items that are not acked will be re-delivered after
\* restart (if disk spill enabled)".  While the process runs, every item is held
\* or settled, unless it was only in memory when an earlier process died.
UnackedRedelivered == up => arrived \subseteq HeldIds \cup Settled \cup lost

\* readRefUnlocked: a reference that drifted is "an unreadable record: counted,
\* dropped, and never delivered".  Every item out for delivery carries its own
\* payload.
DeliveredIntact == \A i \in DiskInflight : Intact(inflight[i])

\* appendRecord: acks exceed the byte cap "only until compaction retires the
\* acked prefix".  Once nothing in the log is live, the log is within its cap.
OvershootRetired == up /\ op = Idle /\ LiveRefs = {} => totalBytes <= DiskMax
=============================================================================
