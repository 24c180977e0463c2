---------------------------- MODULE QueueIntake -----------------------------
(***************************************************************************)
(* Enqueue and DequeueBatch of bufferedQueue, internal/queue/queue.go.     *)
(***************************************************************************)
EXTENDS QueueState

-----------------------------------------------------------------------------
(***************************************************************************)
(* Enqueue.                                                                *)
(***************************************************************************)

\* A new call (EnqueuedAt is taken in call order), or one looping again.
Calls(i) == i \in retrying \/ (i \in Ids \ arrived /\ \A j \in Ids \ arrived : i <= j)
Takes(i) == arrived' = arrived \cup {i}

EnqueueMemory(i) ==
  /\ Free /\ ~closed /\ Calls(i) /\ CanAcceptInMemory(i)
  /\ Takes(i)
  /\ mem' = Append(mem, Entry(i, 0, InMemory))
  /\ BroadcastExcept(i)
  /\ UNCHANGED <<storeVars, diskRefs, inflight, claimVars, lowest, closed, op, acked, dropped,
                 unrecorded, refused, flushFailed, bootVars>>

\* The disk case takes the lock; the steps below are its body.
EnqueueSpilling(i) ==
  /\ Free /\ ~closed /\ Calls(i) /\ Spill /\ ~CanAcceptInMemory(i)
  /\ Takes(i)
  /\ op' = Start("enqueue", <<i>>)
  /\ retrying' = retrying \ {i}
  /\ UNCHANGED <<storeVars, mem, diskRefs, inflight, claimVars, lowest, closed, parked, waiting,
                 acked, dropped, unrecorded, refused, flushFailed, bootVars>>

\* evictOldestMemoryUnlocked inside makeMemoryRoomUnlocked.
EvictOldest ==
  /\ Doing("enqueue") /\ ~CanAcceptInMemory(op.ids[1]) /\ mem # <<>>
  /\ Spills(Head(mem))
  /\ mem' = Tail(mem)
  /\ UNCHANGED <<inflight, lowest, closed, op, waitVars, arrived, acked, dropped, unrecorded,
                 refused, flushFailed, bootVars>>

\* The evicted item goes to the back of memory and the caller gets the error.
EvictFails ==
  /\ Doing("enqueue") /\ ~CanAcceptInMemory(op.ids[1]) /\ mem # <<>>
  /\ SpillFails(Head(mem))
  /\ mem' = Append(Tail(mem), Head(mem))
  /\ refused' = refused \cup {op.ids[1]}
  /\ Return
  /\ UNCHANGED <<inflight, lowest, closed, waitVars, arrived, acked, dropped, unrecorded,
                 flushFailed, bootVars>>

EnqueueAfterEviction ==
  /\ Doing("enqueue") /\ CanAcceptInMemory(op.ids[1])
  /\ mem' = Append(mem, Entry(op.ids[1], 0, InMemory))
  /\ Broadcast
  /\ Return
  /\ UNCHANGED <<storeVars, diskRefs, inflight, claimVars, lowest, closed, arrived, acked, dropped,
                 unrecorded, refused, flushFailed, bootVars>>

\* Memory is empty and the item still does not fit: straight to the log.
SpillEnqueue ==
  LET e == Entry(op.ids[1], 0, InMemory)
  IN  /\ Doing("enqueue") /\ ~CanAcceptInMemory(op.ids[1]) /\ mem = <<>>
      /\ Return
      /\ \/ Spills(e) /\ Broadcast /\ UNCHANGED refused
         \/ /\ SpillFails(e)
            /\ \/ /\ DiskRefsFull \/ DiskFull(SpillRecord(e))
                  /\ parked' = parked \cup {e.id}
                  /\ UNCHANGED <<retrying, waiting, refused>>
               \/ /\ ~DiskRefsFull /\ ~DiskFull(SpillRecord(e))
                  /\ refused' = refused \cup {e.id}
                  /\ UNCHANGED waitVars
      /\ UNCHANGED <<mem, inflight, lowest, closed, arrived, acked, dropped, unrecorded,
                     flushFailed, bootVars>>

\* (mutant) the dropped item is not counted
EnqueueDropOldestUncounted(i) ==
  /\ Free /\ ~closed /\ Calls(i) /\ ~Spill /\ ~CanAcceptInMemory(i)
  /\ Takes(i)
  /\ LET rest == SubSeq(mem, 2, Len(mem))
     IN  \/ i \notin BigIds /\ mem' = Append(rest, Entry(i, 0, InMemory)) /\ BroadcastExcept(i)
         \/ /\ i \in BigIds /\ mem' = rest
            /\ retrying' = retrying \cup {i} /\ UNCHANGED <<parked, waiting>>
  /\ UNCHANGED <<storeVars, diskRefs, inflight, claimVars, lowest, closed, op, acked, dropped, unrecorded,
                 refused, flushFailed, bootVars>>

\* No disk: drop the oldest; an item that can never fit loops for ever.
EnqueueDropOldest(i) ==
  /\ Free /\ ~closed /\ Calls(i) /\ ~Spill /\ ~CanAcceptInMemory(i)
  /\ Takes(i)
  /\ dropped' = dropped \cup {mem[k].id : k \in DOMAIN mem \cap {1}}
  /\ LET rest == SubSeq(mem, 2, Len(mem))
     IN  \/ i \notin BigIds /\ mem' = Append(rest, Entry(i, 0, InMemory)) /\ BroadcastExcept(i)
         \/ /\ i \in BigIds /\ mem' = rest
            /\ retrying' = retrying \cup {i} /\ UNCHANGED <<parked, waiting>>
  /\ UNCHANGED <<storeVars, diskRefs, inflight, claimVars, lowest, closed, op, acked, unrecorded,
                 refused, flushFailed, bootVars>>

\* A closed queue, or the caller's context ending: the caller gets the error.
\* A parked caller is woken by a broadcast that wakes everybody.
EnqueueRefused(i) ==
  /\ Free
  /\ \/ /\ i \in retrying \/ (Calls(i) /\ closed)
        /\ retrying' = retrying \ {i} /\ UNCHANGED <<parked, waiting>>
     \/ i \in parked /\ BroadcastExcept(i)
  /\ Takes(i)
  /\ refused' = refused \cup {i}
  /\ UNCHANGED <<storeVars, mem, diskRefs, inflight, claimVars, lowest, closed, op, acked, dropped,
                 unrecorded, flushFailed, bootVars>>

-----------------------------------------------------------------------------
(***************************************************************************)
(* DequeueBatch.  A pulled item is put in inflight at once: the code does  *)
(* so after the compaction, under the same lock, and compaction does not   *)
(* look at inflight.                                                       *)
(***************************************************************************)

Finished == closed /\ mem = <<>> /\ (diskRefs = <<>> \/ storeClosed)

DequeueBatch ==
  /\ Free /\ ~waiting /\ ~Finished
  /\ op' = Start("dequeue", <<>>)
  /\ UNCHANGED <<storeVars, mem, diskRefs, inflight, claimVars, lowest, closed, waitVars, arrived,
                 acked, dropped, unrecorded, refused, flushFailed, bootVars>>

\* (mutant) the claim is released on dequeue, not on ack
PullDiskReleasing ==
  /\ Pulling /\ diskRefs # <<>> /\ ~storeClosed /\ Readable(Head(diskRefs))
  /\ diskRefs' = Tail(diskRefs)
  /\ Release(Head(diskRefs).seg)
  /\ inflight' = InflightWith(Head(diskRefs))
  /\ op' = [op EXCEPT !.ids = Append(@, Head(diskRefs).id), !.flag = FALSE]
  /\ UNCHANGED <<storeVars, mem, lowest, closed, waitVars, arrived, acked, dropped,
                 unrecorded, refused, flushFailed, bootVars>>

\* (mutant) the record is settled at the delivery, not at the ack
PullDiskSettling ==
  /\ Pulling /\ diskRefs # <<>> /\ ~storeClosed /\ Readable(Head(diskRefs))
  /\ diskRefs' = Tail(diskRefs)
  /\ inflight' = InflightWith(Head(diskRefs))
  /\ WriteOK(AckRecord(Head(diskRefs).id))
  /\ op' = [op EXCEPT !.ids = Append(@, Head(diskRefs).id), !.flag = FALSE]
  /\ UNCHANGED <<mem, claimVars, lowest, closed, waitVars, arrived, acked, dropped, unrecorded,
                 refused, flushFailed, bootVars>>

PullDisk ==
  /\ Pulling /\ diskRefs # <<>> /\ ~storeClosed /\ Readable(Head(diskRefs))
  /\ diskRefs' = Tail(diskRefs)
  /\ inflight' = InflightWith(Head(diskRefs))
  /\ op' = [op EXCEPT !.ids = Append(@, Head(diskRefs).id), !.flag = FALSE]
  /\ UNCHANGED <<storeVars, mem, claimVars, lowest, closed, waitVars, arrived, acked, dropped,
                 unrecorded, refused, flushFailed, bootVars>>

\* readRefUnlocked drops a record it cannot read and the loop goes on.
DropUnreadable ==
  /\ Pulling /\ diskRefs # <<>> /\ ~storeClosed /\ ~Readable(Head(diskRefs))
  /\ diskRefs' = Tail(diskRefs)
  /\ Release(Head(diskRefs).seg)
  /\ SettleDroppedRef(Head(diskRefs).id)
  /\ dropped' = dropped \cup {Head(diskRefs).id}
  /\ op' = [op EXCEPT !.flag = TRUE]
  /\ UNCHANGED <<mem, inflight, lowest, closed, waitVars, arrived, acked, unrecorded, refused,
                 flushFailed, bootVars>>

PullMemory ==
  /\ Pulling /\ diskRefs = <<>> /\ mem # <<>>
  /\ mem' = Tail(mem)
  /\ inflight' = InflightWith(Head(mem))
  /\ op' = [op EXCEPT !.ids = Append(@, Head(mem).id), !.flag = FALSE]
  /\ UNCHANGED <<storeVars, diskRefs, claimVars, lowest, closed, waitVars, arrived, acked, dropped,
                 unrecorded, refused, flushFailed, bootVars>>

\* The batch is full, nothing is left, the store is closed under a pending
\* reference, or the context ended between two pulls of a nonempty batch.
PullEnd ==
  /\ Doing("dequeue")
  /\ \/ Len(op.ids) = BatchSize
     \/ diskRefs = <<>> /\ mem = <<>>
     \/ diskRefs # <<>> /\ storeClosed
     \/ op.ids # <<>> /\ ~op.flag
  /\ op' = Operation("compact", <<>>, <<>>, "failed", op.ids = <<>>)
  /\ UNCHANGED <<storeVars, mem, diskRefs, inflight, claimVars, lowest, closed, waitVars, arrived,
                 acked, dropped, unrecorded, refused, flushFailed, bootVars>>

\* The parked consumer's context ends: its goroutine broadcasts.
WaitCancelled ==
  /\ Free /\ waiting
  /\ Broadcast
  /\ UNCHANGED <<storeVars, mem, diskRefs, inflight, claimVars, lowest, closed, op, arrived, acked,
                 dropped, unrecorded, refused, flushFailed, bootVars>>

EnqueueStep ==
  \/ \E i \in Ids : \/ EnqueueMemory(i) \/ EnqueueSpilling(i)
                     \/ EnqueueDropOldest(i) \/ EnqueueRefused(i)
  \/ EvictOldest \/ EvictFails \/ EnqueueAfterEviction \/ SpillEnqueue
DequeueStep == DequeueBatch \/ PullDisk \/ DropUnreadable \/ PullMemory \/ PullEnd \/ WaitCancelled
=============================================================================
