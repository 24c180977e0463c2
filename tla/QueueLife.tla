----------------------------- MODULE QueueLife ------------------------------
(***************************************************************************)
(* Close and New of bufferedQueue, internal/queue/queue.go, and what the   *)
(* death of the process leaves.                                            *)
(***************************************************************************)
EXTENDS QueueState

-----------------------------------------------------------------------------
(***************************************************************************)
(* Close.                                                                  *)
(***************************************************************************)

Close ==
  /\ Free /\ ~closed
  /\ closed' = TRUE
  /\ \/ Spill /\ op' = Start("close", <<>>) /\ UNCHANGED waitVars
     \/ ~Spill /\ Broadcast /\ UNCHANGED op
  /\ UNCHANGED <<storeVars, mem, diskRefs, inflight, claimVars, lowest, arrived, acked, dropped,
                 unrecorded, refused, flushFailed, bootVars>>

CloseFlush ==
  /\ Flushing
  /\ Spills(Head(mem))
  /\ mem' = Tail(mem)
  /\ UNCHANGED <<inflight, lowest, closed, op, waitVars, arrived, acked, dropped, unrecorded,
                 refused, flushFailed, bootVars>>

CloseDrop ==
  /\ Flushing /\ DiskRefsFull
  /\ mem' = Tail(mem)
  /\ dropped' = dropped \cup {Head(mem).id}
  /\ UNCHANGED <<storeVars, diskRefs, inflight, claimVars, lowest, closed, op, waitVars, arrived,
                 acked, unrecorded, refused, flushFailed, bootVars>>

\* The append fails and Close returns: the item it had taken is in no tier,
\* the rest stays in memory, the store stays open, nobody is woken.
CloseFails ==
  /\ Flushing /\ ~DiskRefsFull
  /\ WriteFail(SpillRecord(Head(mem)))
  /\ mem' = Tail(mem)
  /\ flushFailed' = TRUE
  /\ Return
  /\ UNCHANGED <<diskRefs, inflight, claimVars, lowest, closed, waitVars, arrived, acked, dropped,
                 unrecorded, refused, bootVars>>

\* Closing the segment file may fail, and Close then returns without a wake-up.
CloseEnd ==
  /\ Doing("close") /\ mem = <<>>
  /\ CloseStore
  /\ \/ Broadcast /\ UNCHANGED faults
     \/ "close" \in WriteFaults /\ segment /\ Fault /\ UNCHANGED waitVars
  /\ Return
  /\ UNCHANGED <<files, segmentNum, segmentSize, totalBytes, mem, diskRefs, inflight, claimVars,
                 lowest, closed, arrived, acked, dropped, unrecorded, refused, flushFailed, bootVars>>

-----------------------------------------------------------------------------
(***************************************************************************)
(* The process dies (or exits, after Close) and New runs again.            *)
(***************************************************************************)

Crash ==
  /\ up /\ crashes < MaxCrashes
  /\ up' = FALSE /\ crashes' = crashes + 1
  /\ lost' = lost \cup VolatileIds
  /\ files' \in Directories
  /\ mem' = <<>> /\ diskRefs' = <<>> /\ inflight' = <<>> /\ claims' = <<>> /\ op' = Idle
  /\ retrying' = {} /\ parked' = {} /\ waiting' = FALSE /\ closed' = FALSE /\ underflows' = 0
  /\ segmentNum' = 0 /\ segment' = FALSE /\ segmentSize' = 0 /\ totalBytes' = 0
  /\ storeClosed' = FALSE /\ lowest' = 0
  /\ UNCHANGED <<faults, arrived, acked, dropped, unrecorded, refused, flushFailed>>

Kept(refs) == IF Len(refs) <= DiskSlots THEN refs ELSE SubSeq(refs, 1, DiskSlots)
PastCap(refs) == SubSeq(refs, DiskSlots + 1, Len(refs))
\* One claim per reference; recovered references have distinct ids.
ClaimsOf(refs) ==
  [n \in {r.seg : r \in Range(refs)} |->
     Cardinality({i \in Ids : \E r \in Range(refs) : r.id = i /\ r.seg = n})]

\* (mutant) the cursor starts at the active segment
SeedLowestActive == lowest' = segmentNum'
\* The compaction cursor starts at the oldest segment on disk.
SeedLowest == lowest' \in DOMAIN files' /\ \A m \in DOMAIN files' : lowest' <= m

\* New: replay the log, keep the oldest references up to the cap, seed the
\* compaction cursor from the directory, then settle the dropped tail.
New ==
  /\ ~up /\ up' = TRUE
  /\ IF Spill
     THEN /\ OpenStore
          /\ SeedLowest
          /\ \E s \in Recoveries :
               LET refs == [k \in DOMAIN s |-> RefAt(s[k])]
               IN  /\ diskRefs' = Kept(refs)
                   /\ claims' = ClaimsOf(Kept(refs))
                   /\ op' = IF Len(refs) <= DiskSlots THEN Idle
                            ELSE Start("boot", IdsOf(PastCap(refs)))
     ELSE UNCHANGED <<storeVars, lowest, diskRefs, claims, op>>
  /\ UNCHANGED <<mem, inflight, underflows, closed, waitVars, arrived, acked, dropped, unrecorded,
                 refused, flushFailed, lost, crashes>>

\* A reference past the cap is acked so that it does not come back, and counted.
BootSettle ==
  /\ Settling("boot")
  /\ SettleDroppedRef(Head(op.ids))
  /\ dropped' = dropped \cup {Head(op.ids)}
  /\ op' = IF Len(op.ids) = 1 THEN Idle ELSE NextIds
  /\ UNCHANGED <<mem, diskRefs, inflight, claimVars, lowest, closed, waitVars, arrived, acked,
                 unrecorded, refused, flushFailed, bootVars>>

\* The process dies between creating a segment file and writing its header.
NewCrash ==
  /\ ~up /\ Spill /\ "header" \in CrashFaults /\ crashes < MaxCrashes
  /\ crashes' = crashes + 1
  /\ \E n \in SegmentNums : Creates(n) /\ files' = WithFile(files, n, HeaderlessSegment)
  /\ UNCHANGED <<segmentNum, segment, segmentSize, totalBytes, storeClosed, faults, mem, diskRefs,
                 inflight, claimVars, lowest, closed, op, waitVars, arrived, acked, dropped,
                 unrecorded, refused, flushFailed, up, lost>>

CloseStep == Close \/ CloseFlush \/ CloseDrop \/ CloseFails \/ CloseEnd
LifeStep == Crash \/ New \/ BootSettle \/ NewCrash
=============================================================================
