--------------------------- MODULE QueueInvariants --------------------------
(***************************************************************************)
(* The inductive invariants of the queue, and the few ways in which a step *)
(* moves items between memory, the log and the settled ones.               *)
(***************************************************************************)
EXTENDS QueueState, LogContents

-----------------------------------------------------------------------------
(***************************************************************************)
(* Claims and places: what Inv says.                                       *)
(***************************************************************************)

ClaimsOK == DOMAIN claims \subseteq Nat /\ (\A n \in DOMAIN claims : claims[n] \in Nat \ {0})

\* ClaimsExact in terms of Held alone.
Counts ==
  /\ underflows = 0
  /\ \A n \in DOMAIN claims : claims[n] = Cardinality(Holders(n))
  /\ \A h \in Held : h[2] \in DOMAIN claims
Pairs(s) == {<<r.id, r.seg>> : r \in Range(s)}
OutPairs(f) == {<<i, f[i].seg>> : i \in {j \in DOMAIN f : f[j].seg # NoSeg}}
HeldOf(d, f, b) == Pairs(d) \cup OutPairs(f) \cup Pairs(b)

QueueTypes ==
  /\ mem \in Seq(MemoryEntries) /\ diskRefs \in Seq(Refs)
  /\ DOMAIN inflight \subseteq Ids
  /\ \A i \in DOMAIN inflight : inflight[i] \in Entries /\ inflight[i].id = i
  /\ underflows \in Nat /\ lowest \in Nat /\ closed \in BOOLEAN
  /\ op \in Ops
  /\ retrying \subseteq Ids /\ parked \subseteq Ids /\ waiting \in BOOLEAN
  /\ arrived \subseteq Ids /\ acked \subseteq Ids /\ dropped \subseteq Ids
  /\ unrecorded \subseteq Ids /\ refused \subseteq Ids /\ lost \subseteq Ids
  /\ flushFailed \in BOOLEAN /\ up \in BOOLEAN /\ crashes \in Nat

\* Only a nack holds references, only a nack and its requeue hold memory items,
\* and a process that is down holds nothing.
OpShape ==
  /\ op.k # "nack" => op.refs = <<>>
  /\ op.k \notin {"nack", "requeue"} => op.mems = <<>>
  /\ op.k = "enqueue" => op.ids # <<>>
  /\ ~up => /\ mem = <<>> /\ diskRefs = <<>> /\ DOMAIN inflight = {} /\ op = Idle
            /\ retrying = {} /\ parked = {}

\* An id the queue knows was handed to Enqueue.
Placed ==
  EntryIds(mem) \cup EntryIds(diskRefs) \cup DOMAIN inflight \cup EntryIds(op.refs)
    \cup EntryIds(op.mems) \cup retrying \cup parked \cup Range(op.ids)
PlaceInv == QueueTypes /\ OnePlace /\ OpShape /\ Placed \subseteq arrived

\* Every held segment is on disk, and so is the one being written.
Backed ==
  /\ \A h \in Held : h[2] \in DOMAIN files
  /\ up /\ Spill => segmentNum \in DOMAIN files /\ \A m \in DOMAIN files : lowest <= m
LogInv == StoreInv /\ ClaimsOK /\ Counts /\ Backed /\ IdsIn(files) \subseteq arrived

\* The inductive invariant.
Inv == PlaceInv /\ LogInv

-----------------------------------------------------------------------------
(***************************************************************************)
(* Who may sleep, and what an entry has been charged.                      *)
(***************************************************************************)

\* Nothing a parked consumer could be given.
Quiet == mem = <<>> /\ (diskRefs = <<>> \/ storeClosed)

\* A nack may hold items while the consumer sleeps: it broadcasts at its end.
\* A DequeueBatch on its way to sleep is a compaction with its flag set.
Sleeping == (waiting /\ op.k \notin {"nack", "requeue"}) \/ (op.k = "compact" /\ op.flag)

\* The store is closed by the last step of Close: after that nothing is put in
\* memory, and only DequeueBatch runs.
ControlInv ==
  /\ Sleeping => Quiet
  /\ storeClosed => closed /\ op.k \in {"idle", "dequeue", "compact"} /\ mem = <<>>
  /\ op.k = "close" => closed
  /\ ~up => ~waiting

-----------------------------------------------------------------------------
(***************************************************************************)
(* What a step does to the items.                                          *)
(***************************************************************************)

\* Where the live references say the records of their items are.
Spot(r) == <<r.id, r.seg, r.pos>>
Spots == {Spot(r) : r \in LiveRefs}
OutRefs == {inflight[i] : i \in DiskInflight}
BootIds == IF op.k = "boot" THEN Range(op.ids) ELSE {}

\* A step of a running process.
Running == up /\ UNCHANGED <<up, lost, crashes>>

\* The log is left alone, closed, or damaged by a failed write.
LogKept ==
  \/ faults' > faults /\ (segment \/ Spill) /\ DOMAIN files \subseteq DOMAIN files'
  \/ /\ UNCHANGED <<files, segmentNum, segmentSize, faults>>
     /\ UNCHANGED <<segment, storeClosed>> \/ (segment' = FALSE /\ storeClosed' = TRUE)

\* The ids I arrive (or call again), the ids J of memory are settled.
MemoryFlow(I, J) ==
  /\ Running /\ flushFailed' = flushFailed /\ LogKept
  /\ I \subseteq VolatileIds \cup (Ids \ arrived) /\ J \subseteq VolatileIds \cup I
  /\ VolatileIds' = (VolatileIds \cup I) \ J
  /\ Settled' = Settled \cup J /\ arrived' = arrived \cup I
  /\ Spots' = Spots /\ BootIds' = BootIds
  /\ arrived' = arrived \/ inflight' = inflight

\* The item i goes from memory to the log.
SpillFlow(i, a) ==
  /\ Running /\ flushFailed' = flushFailed
  /\ i \in VolatileIds /\ a \in Attempts /\ WriteOK(ItemRecord(i, a))
  /\ VolatileIds' = VolatileIds \ {i}
  /\ Settled' = Settled /\ arrived' = arrived
  /\ Spots' = Spots \cup {<<i, Location.seg, Location.pos>>} /\ BootIds' = BootIds
  /\ i \notin DOMAIN inflight'

\* The item i of the log is settled.
SettleFlow(i) ==
  /\ Running /\ flushFailed' = flushFailed
  /\ i \in LoggedIds /\ ~storeClosed
  /\ WriteOK(AckRecord(i)) \/ WriteFail(AckRecord(i))
  /\ VolatileIds' = VolatileIds
  /\ Settled' = Settled \cup {i} /\ arrived' = arrived
  /\ Spots' = {s \in Spots : s[1] # i} /\ BootIds' = BootIds \ {i}

\* The oldest segment is removed.
CompactFlow ==
  /\ Running /\ flushFailed' = flushFailed
  /\ Claimed(lowest) = 0 /\ Spill /\ RemoveOK(lowest)
  /\ VolatileIds' = VolatileIds /\ Settled' = Settled /\ arrived' = arrived
  /\ Spots' = Spots /\ BootIds = {} /\ BootIds' = {}

\* Close gives up its flush: the item i is nowhere.
AbandonFlow(i) ==
  /\ Running /\ flushFailed' = TRUE /\ LogKept
  /\ VolatileIds' = VolatileIds \ {i}
  /\ Settled' = Settled /\ arrived' = arrived
  /\ Spots' = Spots /\ BootIds' = BootIds

\* How an operation may move items.
ItemFlow ==
  \/ \E I, J \in SUBSET Ids : MemoryFlow(I, J)
  \/ \E i \in Ids, a \in Attempts : SpillFlow(i, a)
  \/ \E i \in Ids : SettleFlow(i) \/ AbandonFlow(i)
  \/ CompactFlow

\* The ids New still has to settle are not in the queue, and nothing else runs.
BootShape ==
  BootIds # {} =>
    /\ \A j, k \in DOMAIN op.ids : op.ids[j] = op.ids[k] => j = k
    /\ Range(op.ids) \cap EntryIds(diskRefs) = {}
    /\ VolatileIds = {} /\ DOMAIN inflight = {}
=============================================================================
