---------------------------- MODULE QueueReturn -----------------------------
(***************************************************************************)
(* Compaction, and Ack, Drop and the nack family of bufferedQueue,         *)
(* internal/queue/queue.go.                                                *)
(***************************************************************************)
EXTENDS QueueState

-----------------------------------------------------------------------------
(***************************************************************************)
(* compactUnlocked: the last step of DequeueBatch, Ack, nack and Drop.     *)
(***************************************************************************)

Compactable == Spill /\ lowest < segmentNum /\ Claimed(lowest) = 0

CompactRemove ==
  /\ Doing("compact") /\ Compactable
  /\ RemoveOK(lowest)
  /\ lowest' = lowest + 1
  /\ UNCHANGED <<mem, diskRefs, inflight, claimVars, closed, op, waitVars, arrived, acked, dropped,
                 unrecorded, refused, flushFailed, bootVars>>

\* DequeueBatch parks if it pulled nothing.
CompactEnd ==
  /\ Doing("compact")
  /\ \/ ~Compactable /\ UNCHANGED storeVars
     \/ Compactable /\ RemoveFail(lowest)
  /\ waiting' = (waiting \/ op.flag)
  /\ Return
  /\ UNCHANGED <<mem, diskRefs, inflight, claimVars, lowest, closed, retrying, parked, arrived,
                 acked, dropped, unrecorded, refused, flushFailed, bootVars>>

-----------------------------------------------------------------------------
(***************************************************************************)
(* Ack, Drop, and the nack family.  Their id lists are arbitrary: acks     *)
(* arrive late, and sweepInflight collects its ids in an earlier critical  *)
(* section than the one that nacks them.                                   *)
(***************************************************************************)

IdLists == {ids \in UNION {[1..n -> arrived] : n \in 1..BatchSize} :
              \A j, k \in DOMAIN ids : ids[j] = ids[k] => j = k}

Settle(k, kind) ==
  /\ Free /\ ~closed
  /\ \E ids \in IdLists : op' = Operation(k, ids, <<>>, kind, FALSE)
  /\ UNCHANGED <<storeVars, mem, diskRefs, inflight, claimVars, lowest, closed, waitVars, arrived,
                 acked, dropped, unrecorded, refused, flushFailed, bootVars>>

Ack == Settle("ack", "failed")
Drop == Settle("drop", "failed")
Nack == \E kind \in NackKinds : Settle("nack", kind)

\* An id that is not inflight is skipped.
SkipId ==
  /\ Settling("ack") \/ Settling("drop") \/ Settling("nack")
  /\ Head(op.ids) \notin DOMAIN inflight
  /\ op' = NextIds
  /\ UNCHANGED <<storeVars, mem, diskRefs, inflight, claimVars, lowest, closed, waitVars, arrived,
                 acked, dropped, unrecorded, refused, flushFailed, bootVars>>

AckOne ==
  /\ Settling("ack") /\ Head(op.ids) \in DOMAIN inflight
  /\ LET e == inflight[Head(op.ids)]
     IN  IF OnDisk(e) THEN WriteOK(AckRecord(e.id)) /\ Release(e.seg)
         ELSE UNCHANGED <<storeVars, claimVars>>
  /\ inflight' = InflightWithout(Head(op.ids))
  /\ acked' = acked \cup {Head(op.ids)}
  /\ op' = NextIds
  /\ UNCHANGED <<mem, diskRefs, lowest, closed, waitVars, arrived, dropped, unrecorded, refused,
                 flushFailed, bootVars>>

\* The ack could not be persisted: the entry stays and the rest is not tried.
AckFails ==
  /\ Settling("ack") /\ Head(op.ids) \in DOMAIN inflight
  /\ OnDisk(inflight[Head(op.ids)])
  /\ WriteFail(AckRecord(Head(op.ids)))
  /\ FinishAndWake
  /\ UNCHANGED <<mem, diskRefs, inflight, claimVars, lowest, closed, arrived, acked, dropped,
                 unrecorded, refused, flushFailed, bootVars>>

\* retireInflightUnlocked for an entry that has left inflight.
RetireInflight(e, delivered) ==
  /\ IF OnDisk(e) THEN Release(e.seg) /\ SettleDroppedRef(e.id)
     ELSE UNCHANGED <<claimVars, storeVars>>
  /\ unrecorded' = IF delivered THEN unrecorded \cup {e.id} ELSE unrecorded
  /\ dropped' = IF delivered THEN dropped ELSE dropped \cup {e.id}

DropOne ==
  /\ Settling("drop") /\ Head(op.ids) \in DOMAIN inflight
  /\ RetireInflight(inflight[Head(op.ids)], FALSE)
  /\ inflight' = InflightWithout(Head(op.ids))
  /\ op' = NextIds
  /\ UNCHANGED <<mem, diskRefs, lowest, closed, waitVars, arrived, acked, refused, flushFailed,
                 bootVars>>

NackRetire ==
  /\ Settling("nack") /\ Head(op.ids) \in DOMAIN inflight
  /\ Retires(inflight[Head(op.ids)])
  /\ RetireInflight(inflight[Head(op.ids)], op.kind = "delivered")
  /\ inflight' = InflightWithout(Head(op.ids))
  /\ op' = NextIds
  /\ UNCHANGED <<mem, diskRefs, lowest, closed, waitVars, arrived, acked, refused, flushFailed,
                 bootVars>>

\* (mutant) the entry stays in inflight
NackCollectKept ==
  /\ Settling("nack") /\ Head(op.ids) \in DOMAIN inflight
  /\ ~Retires(inflight[Head(op.ids)])
  /\ LET e == Nacked(inflight[Head(op.ids)])
     IN  op' = IF OnDisk(e) THEN [NextIds EXCEPT !.refs = Append(@, e)]
               ELSE [NextIds EXCEPT !.mems = Append(@, e)]
  /\ UNCHANGED <<storeVars, mem, diskRefs, inflight, claimVars, lowest, closed, waitVars, arrived, acked,
                 dropped, unrecorded, refused, flushFailed, bootVars>>

\* Collected in frontRefs or frontMemory.
NackCollect ==
  /\ Settling("nack") /\ Head(op.ids) \in DOMAIN inflight
  /\ ~Retires(inflight[Head(op.ids)])
  /\ LET e == Nacked(inflight[Head(op.ids)])
     IN  op' = IF OnDisk(e) THEN [NextIds EXCEPT !.refs = Append(@, e)]
               ELSE [NextIds EXCEPT !.mems = Append(@, e)]
  /\ inflight' = InflightWithout(Head(op.ids))
  /\ UNCHANGED <<storeVars, mem, diskRefs, claimVars, lowest, closed, waitVars, arrived, acked,
                 dropped, unrecorded, refused, flushFailed, bootVars>>

\* The references go to the front in their own order, claims still held.
NackRefs ==
  /\ Doing("nack") /\ op.ids = <<>>
  /\ diskRefs' = op.refs \o diskRefs
  /\ op' = Operation("requeue", IdsOf(op.mems), op.mems, "failed", FALSE)
  /\ UNCHANGED <<storeVars, mem, inflight, claimVars, lowest, closed, waitVars, arrived, acked,
                 dropped, unrecorded, refused, flushFailed, bootVars>>

\* enqueueFrontUnlocked drains memCh and puts the rest back last to first.
EnqueueFront(e) == <<e>> \o Reverse(mem)

RequeueMemory ==
  /\ Requeuing /\ CanAcceptInMemory(Last(op.mems).id)
  /\ mem' = EnqueueFront(Last(op.mems))
  /\ Requeued
  /\ UNCHANGED <<storeVars, diskRefs, inflight, claimVars, lowest, closed, waitVars, arrived, acked,
                 dropped, unrecorded, refused, flushFailed, bootVars>>

RequeueSpill ==
  /\ Requeuing /\ ~CanAcceptInMemory(Last(op.mems).id) /\ Spill
  /\ Spills(Last(op.mems))
  /\ Requeued
  /\ UNCHANGED <<mem, inflight, lowest, closed, waitVars, arrived, acked, dropped, unrecorded,
                 refused, flushFailed, bootVars>>

\* (mutant) the drop is not counted
RequeueDropUncounted ==
  /\ Requeuing /\ ~CanAcceptInMemory(Last(op.mems).id)
  /\ IF Spill THEN SpillFails(Last(op.mems)) ELSE UNCHANGED <<storeVars, diskRefs, claimVars>>
  /\ Requeued
  /\ UNCHANGED <<mem, inflight, lowest, closed, waitVars, arrived, acked, dropped, unrecorded, refused,
                 flushFailed, bootVars>>

\* Nowhere left to put it.
RequeueDrop ==
  /\ Requeuing /\ ~CanAcceptInMemory(Last(op.mems).id)
  /\ IF Spill THEN SpillFails(Last(op.mems)) ELSE UNCHANGED <<storeVars, diskRefs, claimVars>>
  /\ dropped' = dropped \cup {Last(op.mems).id}
  /\ Requeued
  /\ UNCHANGED <<mem, inflight, lowest, closed, waitVars, arrived, acked, unrecorded, refused,
                 flushFailed, bootVars>>

SettleEnd ==
  /\ \/ (Doing("ack") \/ Doing("drop")) /\ op.ids = <<>>
     \/ Doing("requeue") /\ op.mems = <<>>
  /\ FinishAndWake
  /\ UNCHANGED <<storeVars, mem, diskRefs, inflight, claimVars, lowest, closed, arrived, acked,
                 dropped, unrecorded, refused, flushFailed, bootVars>>

SettleStep ==
  \/ Ack \/ Drop \/ Nack \/ SkipId \/ AckOne \/ AckFails \/ DropOne
  \/ NackRetire \/ NackCollect \/ NackRefs \/ RequeueMemory \/ RequeueSpill \/ RequeueDrop
  \/ SettleEnd
CompactStep == CompactRemove \/ CompactEnd
=============================================================================
