-------------------------- MODULE QueueLifeProofs ---------------------------
(***************************************************************************)
(* Close, a crash and a start: each step preserves the invariant of the    *)
(* queue, moves the items in one of the known ways, and finds nobody       *)
(* asleep that could be served.                                            *)
(***************************************************************************)
EXTENDS QueueLife, QueueStateProofs

-----------------------------------------------------------------------------
(***************************************************************************)
(* The invariant.                                                          *)
(***************************************************************************)

\* One iteration of the flush in Close: the same move from memory to the log.
LEMMA CloseFlushInv ==
  ASSUME Inv, CloseFlush
  PROVE  Inv'
  BY Zenon, HeadSpilled DEF CloseFlush, Flushing, Doing

\* Close marking the queue closed.
LEMMA CloseInv ==
  ASSUME Inv, Close
  PROVE  Inv'
<1> up /\ op = Idle /\ closed' \in BOOLEAN /\ "close" \in OpKinds /\ <<>> \in Seq(Ids)
  BY DEF Close, Free, OpKinds
<1>1. op' = Start("close", <<>>) \/ op' = op
  BY Zenon DEF Close
<1>2. op' \in Ops /\ op'.k \in {"close", "idle"} /\ op'.refs = <<>> /\ op'.mems = <<>> /\ op'.ids = <<>>
      /\ op.refs = <<>> /\ op.mems = <<>>
  <2> op \in Ops /\ op.k = "idle" /\ op.refs = <<>> /\ op.mems = <<>> /\ op.ids = <<>>
    BY Zenon, StartedOps
  <2>1. CASE op' = op
    BY Zenon, <2>1
  <2>2. CASE op' = Start("close", <<>>)
    BY Zenon, <2>2, StartedOps
  <2> QED
    BY Zenon, <1>1, <2>1, <2>2
<1>3. /\ waiting' \in BOOLEAN
      /\ retrying' \cup parked' \subseteq retrying \cup parked /\ retrying' \cap parked' = {}
  <2>1. CASE UNCHANGED waitVars
    BY Zenon, <2>1, SameWaiters
  <2>2. CASE Broadcast
    BY Zenon, <2>2, Woken
  <2> QED
    BY Zenon, <2>1, <2>2 DEF Close
<1> QED
  BY Zenon, <1>2, <1>3, ControlStep, EmptyEntries DEF Close

\* The oldest memory item leaves the queue.
LEMMA HeadLeaves ==
  ASSUME Inv, up, op.k = "close", mem # <<>>, mem' = Tail(mem), LogInv', diskRefs' = diskRefs,
         underflows' = underflows, dropped' \subseteq dropped \cup {Head(mem).id}, flushFailed' \in BOOLEAN,
         op' = op \/ op' = Idle,
         UNCHANGED <<inflight, lowest, closed, waitVars, arrived, acked, unrecorded, refused, bootVars>>
  PROVE  Inv'
<1> /\ mem' \in Seq(MemoryEntries) /\ EntryIds(mem') \subseteq EntryIds(mem) /\ DistinctIds(mem')
    /\ Head(mem).id \in Ids
  BY Zenon, HeadOfMem
<1> /\ op' \in Ops /\ op'.k \in {"close", "idle"} /\ op'.refs = <<>> /\ op'.mems = <<>>
    /\ Range(op'.ids) \subseteq arrived /\ EnqueuedId' = {}
  <2>1. op \in Ops /\ op.refs = <<>> /\ op.mems = <<>> /\ Range(op.ids) \subseteq arrived
    BY Zenon DEF Inv, PlaceInv, QueueTypes, OpShape, Placed
  <2>2. CASE op' = op
    BY Zenon, <2>1, <2>2 DEF EnqueuedId
  <2>3. CASE op' = Idle
    BY Zenon, <2>3, StartedOps, EmptyEntries DEF EnqueuedId
  <2> QED
    BY Zenon, <2>2, <2>3
<1>1. QueueTypes'
  BY Zenon DEF Inv, PlaceInv, QueueTypes, waitVars, bootVars
<1>2. OnePlace' /\ Placed' \subseteq arrived'
  <2>1. retrying' = retrying /\ parked' = parked /\ retrying \cap parked = {} /\ DistinctIds(diskRefs)
    BY Zenon DEF waitVars, Inv, PlaceInv, OnePlace
  <2> QED
    BY Zenon, <2>1, ShrinkStep, EmptyEntries
<1>3. OpShape'
  BY Zenon DEF OpShape, bootVars
<1> QED
  BY Zenon, <1>1, <1>2, <1>3 DEF Inv, PlaceInv

\* Close dropping an item the reference slice has no room for.
LEMMA CloseDropInv ==
  ASSUME Inv, CloseDrop
  PROVE  Inv'
<1>1. Held' = Held
  BY Zenon, HeldTypes, HeldIsNext DEF CloseDrop, Inv, PlaceInv, QueueTypes
<1>2. LogInv'
  BY Zenon, <1>1, CalmStep DEF CloseDrop, bootVars
<1>3. flushFailed' \in BOOLEAN
  BY Zenon DEF CloseDrop, Inv, PlaceInv, QueueTypes
<1> QED
  BY Zenon, <1>2, <1>3, HeadLeaves DEF CloseDrop, Flushing, Doing, claimVars

\* Close giving up its flush after a failed write.
LEMMA CloseFailsInv ==
  ASSUME Inv, CloseFails
  PROVE  Inv'
<1> /\ up /\ op.k = "close" /\ mem # <<>> /\ mem' = Tail(mem) /\ flushFailed' = TRUE /\ op' = Idle
    /\ WriteFail(SpillRecord(Head(mem)))
    /\ UNCHANGED <<diskRefs, inflight, claimVars, lowest, closed, waitVars, arrived, acked, dropped,
                   unrecorded, refused, bootVars>>
  BY Zenon DEF CloseFails, Flushing, Doing, Return
<1> Head(mem) \in Entries /\ Head(mem).id \in arrived
  BY Zenon, HeadOfMem DEF MemoryEntries
<1>1. StoreInv' /\ Grown(Head(mem).id)
  BY Zenon, WriteFailStep, RecordTypesOK DEF Inv, LogInv
<1>2. op'.refs = <<>> /\ op.refs = <<>>
  BY Zenon, StartedOps DEF Inv, PlaceInv, OpShape
<1>3. Held' = Held
  BY Zenon, <1>2, HeldTypes, HeldIsNext DEF Inv, PlaceInv, QueueTypes
<1>4. LogInv'
  BY Zenon, <1>1, <1>3, AppendStep DEF bootVars
<1> QED
  BY Zenon, <1>4, HeadLeaves DEF claimVars

\* Close closing the store.
LEMMA CloseEndInv ==
  ASSUME Inv, CloseEnd
  PROVE  Inv'
<1> /\ up /\ op.k = "close" /\ op' = Idle /\ CloseStore
    /\ (Broadcast /\ UNCHANGED faults) \/ (Fault /\ UNCHANGED waitVars)
    /\ UNCHANGED <<files, segmentNum, segmentSize, totalBytes, mem, diskRefs, inflight, claimVars,
                   lowest, closed, arrived, acked, dropped, unrecorded, refused, flushFailed, bootVars>>
  BY Zenon DEF CloseEnd, Doing, Return
<1> /\ op' \in Ops /\ op'.k = "idle" /\ op'.refs = <<>> /\ op'.mems = <<>> /\ Range(op'.ids) = {}
    /\ op.refs = <<>> /\ op.mems = <<>>
  BY Zenon, StartedOps, EmptyEntries DEF Inv, PlaceInv, OpShape
<1> /\ waiting' \in BOOLEAN
    /\ retrying' \cup parked' \subseteq retrying \cup parked /\ retrying' \cap parked' = {}
  <2>1. CASE Broadcast
    BY Zenon, <2>1, Woken
  <2>2. CASE UNCHANGED waitVars
    BY Zenon, <2>2, SameWaiters
  <2> QED
    BY Zenon, <2>1, <2>2
<1>1. StoreInv' /\ files' = files /\ segmentNum' = segmentNum
  <2> StoreTypeOK /\ IsFiniteSet(DOMAIN files)
    BY Zenon DEF Inv, LogInv, StoreInv
  <2>1. faults' \in Nat
    BY DEF StoreTypeOK, Fault
  <2> segment' = FALSE /\ storeClosed' = TRUE
    BY Zenon DEF CloseStore
  <2>2. StoreTypeOK'
    BY Zenon, <2>1 DEF StoreTypeOK
  <2> QED
    BY Zenon, <2>2 DEF Inv, LogInv, StoreInv
<1> OnePlace' /\ OpShape' /\ Placed' \subseteq arrived' /\ Held' = Held
  BY Zenon, OpStep DEF bootVars
<1>2. QueueTypes'
  BY Zenon DEF Inv, PlaceInv, QueueTypes, claimVars, bootVars
<1>3. LogInv'
  BY Zenon, <1>1, SameFilesStep DEF bootVars
<1> QED
  BY Zenon, <1>2, <1>3 DEF Inv, PlaceInv

\* A process death: nothing volatile is left, whatever the crash left in the
\* directory is a directory of segments.
LEMMA CrashInv ==
  ASSUME Inv, Crash
  PROVE  Inv'
<1> /\ up /\ up' = FALSE /\ crashes' = crashes + 1 /\ lost' = lost \cup VolatileIds /\ files' \in Directories
    /\ mem' = <<>> /\ diskRefs' = <<>> /\ inflight' = <<>> /\ claims' = <<>> /\ op' = Idle
    /\ retrying' = {} /\ parked' = {} /\ waiting' = FALSE /\ closed' = FALSE /\ underflows' = 0
    /\ segmentNum' = 0 /\ segment' = FALSE /\ segmentSize' = 0 /\ totalBytes' = 0
    /\ storeClosed' = FALSE /\ lowest' = 0
    /\ UNCHANGED <<faults, arrived, acked, dropped, unrecorded, refused, flushFailed>>
  BY Zenon DEF Crash
<1> StoreInv /\ FilesOK(files) /\ IdsIn(files) \subseteq arrived /\ faults \in Nat
  BY Zenon, StoreInvFiles DEF Inv, LogInv, StoreInv, StoreTypeOK
<1> FilesOK(files') /\ IdsIn(files') \subseteq arrived
  <2>1. CASE files' = files
    BY Zenon, <2>1
  <2>2. CASE files' # files
    <3>1. PICK rec \in Appending : files' \in CrashImages(rec, CrashFaults)
      BY Zenon, <2>2 DEF Directories
    <3> rec \in Records /\ rec.id \in arrived
      BY Zenon, AppendingOK
    <3>2. FilesOK(files') /\ IdsIn(files') \subseteq IdsIn(files) \cup {rec.id}
      BY Zenon, <3>1, CrashImageOK
    <3> QED
      BY Zenon, <3>2
  <2> QED
    BY Zenon, <2>1, <2>2
<1>1. StoreInv'
  BY Zenon DEF FilesOK, StoreInv, StoreTypeOK
<1> /\ op' \in Ops /\ op'.k = "idle" /\ op'.ids = <<>> /\ op'.refs = <<>> /\ op'.mems = <<>>
    /\ EnqueuedId' = {} /\ DOMAIN inflight' = {}
  BY StartedOps DEF EnqueuedId
<1>2. VolatileIds \subseteq Ids
  <2>1. EntryIds(mem) \subseteq arrived /\ EntryIds(op.mems) \subseteq arrived /\ DOMAIN inflight \subseteq arrived
        /\ retrying \subseteq arrived /\ parked \subseteq arrived /\ arrived \subseteq Ids
    BY Zenon DEF Inv, PlaceInv, Placed, QueueTypes
  <2>2. EnqueuedId \subseteq Ids
    BY Zenon, EnqueuedItem DEF EnqueuedId
  <2> QED
    BY Zenon, <2>1, <2>2 DEF VolatileIds, MemoryInflight, Callers
<1>3. QueueTypes'
  <2>1. mem' \in Seq(MemoryEntries) /\ diskRefs' \in Seq(Refs)
    OBVIOUS
  <2>2. up' \in BOOLEAN /\ waiting' \in BOOLEAN /\ closed' \in BOOLEAN /\ flushFailed' \in BOOLEAN
    BY Zenon DEF Inv, PlaceInv, QueueTypes
  <2>3. /\ underflows' \in Nat /\ lowest' \in Nat /\ crashes' \in Nat
        /\ retrying' \subseteq Ids /\ parked' \subseteq Ids /\ lost' \subseteq Ids
        /\ arrived' \subseteq Ids /\ acked' \subseteq Ids /\ dropped' \subseteq Ids
        /\ unrecorded' \subseteq Ids /\ refused' \subseteq Ids
    BY <1>2 DEF Inv, PlaceInv, QueueTypes
  <2> QED
    BY Zenon, <2>1, <2>2, <2>3 DEF QueueTypes
<1>4. OnePlace' /\ OpShape' /\ Placed' \subseteq arrived'
  <2>1. OnePlace'
    BY Zenon, EmptyEntries DEF OnePlace, Callers
  <2>2. OpShape'
    BY Zenon DEF OpShape
  <2>3. Placed' = {}
    BY Zenon, EmptyEntries DEF Placed
  <2> QED
    BY Zenon, <2>1, <2>2, <2>3
<1> Held' = {}
  <2>1. Held' = HeldOf(diskRefs', inflight', op'.refs)
    BY Zenon, HeldIsNext
  <2>2. OutPairs(inflight') = {}
    BY Zenon DEF OutPairs
  <2> QED
    BY Zenon, <2>1, <2>2, PairsEmpty DEF HeldOf
<1>5. ClaimsOK' /\ Counts'
  <2>1. DOMAIN claims' = {}
    BY Zenon
  <2> QED
    BY Zenon, <2>1 DEF ClaimsOK, Counts
<1>6. Backed'
  BY Zenon DEF Backed
<1> QED
  BY Zenon, <1>1, <1>3, <1>4, <1>5, <1>6 DEF Inv, PlaceInv, LogInv

\* A death inside New, between creating a segment file and writing its header.
LEMMA NewCrashInv ==
  ASSUME Inv, NewCrash
  PROVE  Inv'
<1> /\ ~up /\ crashes' = crashes + 1
    /\ UNCHANGED <<segmentNum, segment, segmentSize, totalBytes, storeClosed, faults, mem, diskRefs,
                   inflight, claimVars, lowest, closed, op, waitVars, arrived, acked, dropped,
                   unrecorded, refused, flushFailed, up, lost>>
  BY Zenon DEF NewCrash
<1>1. PICK n \in SegmentNums : Creates(n) /\ files' = WithFile(files, n, HeaderlessSegment)
  BY Zenon DEF NewCrash
<1> StoreInv /\ FilesOK(files) /\ Counting /\ IdsIn(files) \subseteq arrived
  BY Zenon, StoreInvFiles DEF Inv, LogInv
<1>2. n \in Nat /\ HeaderlessSegment \in {EmptySegment, HeaderlessSegment}
  BY DEF SegmentNums, FilesOK
<1> /\ FilesOK(files') /\ DOMAIN files' = DOMAIN files \cup {n} /\ IdsIn(files') \subseteq arrived
  BY Zenon, <1>1, <1>2, AddFile
<1>3. StoreInv'
  BY Zenon DEF StoreInv, StoreTypeOK, FilesOK
<1>4. QueueTypes' /\ OnePlace' /\ OpShape' /\ Placed' \subseteq arrived'
  <2>1. QueueTypes'
    BY DEF Inv, PlaceInv, QueueTypes, claimVars, waitVars
  <2>2. OnePlace' /\ OpShape' /\ Placed' \subseteq arrived'
    BY Zenon DEF Inv, PlaceInv, OnePlace, OpShape, Placed, Callers, EnqueuedId, waitVars
  <2> QED
    BY Zenon, <2>1, <2>2
<1> Held' = Held
  BY Zenon, HeldTypes, HeldIsNext DEF Inv, PlaceInv, QueueTypes
<1>5. ClaimsOK' /\ Counts'
  BY Zenon, CountsKept DEF Inv, LogInv
<1>6. Backed'
  BY Zenon DEF Inv, LogInv, Backed
<1> QED
  BY Zenon, <1>3, <1>4, <1>5, <1>6 DEF Inv, PlaceInv, LogInv

\* New settling one reference past the cap.
LEMMA BootSettleInv ==
  ASSUME Inv, BootSettle
  PROVE  Inv'
<1> /\ up /\ op.k = "boot" /\ op.ids # <<>> /\ SettleDroppedRef(Head(op.ids))
    /\ dropped' = dropped \cup {Head(op.ids)} /\ (op' = Idle \/ op' = NextIds)
    /\ UNCHANGED <<mem, diskRefs, inflight, claimVars, lowest, closed, waitVars, arrived, acked,
                   unrecorded, refused, flushFailed, bootVars>>
  BY Zenon DEF BootSettle, Settling, Doing
<1> Head(op.ids) \in Ids /\ Head(op.ids) \in arrived /\ op.refs = <<>> /\ op.mems = <<>>
  BY Zenon, NextIdsOp DEF Inv, PlaceInv, OpShape
<1> /\ op' \in Ops /\ op'.k \in {"boot", "idle"} /\ op'.refs = <<>> /\ op'.mems = <<>>
    /\ Range(op'.ids) \subseteq arrived
  <2>1. CASE op' = Idle
    BY Zenon, <2>1, StartedOps, EmptyEntries
  <2>2. CASE op' = NextIds
    BY Zenon, <2>2, NextIdsOp
  <2> QED
    BY Zenon, <2>1, <2>2
<1>1. StoreInv' /\ Grown(Head(op.ids))
  BY Zenon, WriteOKStep, WriteFailStep, RecordTypesOK DEF SettleDroppedRef, Inv, LogInv
<1> OnePlace' /\ OpShape' /\ Placed' \subseteq arrived' /\ Held' = Held
  BY Zenon, SameWaiters, OpStep DEF bootVars
<1>2. QueueTypes'
  BY Zenon DEF Inv, PlaceInv, QueueTypes, claimVars, waitVars, bootVars
<1>3. LogInv'
  BY Zenon, <1>1, AppendStep DEF bootVars
<1> QED
  BY Zenon, <1>2, <1>3 DEF Inv, PlaceInv

\* New counts one claim per recovered reference.
LEMMA CountsSeeded ==
  ASSUME Counting, NEW d, \A r \in Range(d) : r.id \in Ids /\ r.seg \in Nat,
         Held' = Pairs(d), claims' = ClaimsOf(d), underflows' = 0
  PROVE  ClaimsOK' /\ Counts'
<1> DEFINE H(n) == {i \in Ids : \E r \in Range(d) : r.id = i /\ r.seg = n}
<1> DOMAIN claims' = {r.seg : r \in Range(d)} /\ \A n \in DOMAIN claims' : claims'[n] = Cardinality(H(n))
  BY Zenon DEF ClaimsOf
<1> \A n : IsFiniteSet(H(n)) /\ Cardinality(H(n)) \in Nat
  <2> TAKE n
  <2>1. H(n) \in SUBSET Ids
    BY Zenon
  <2> QED
    BY Zenon, <2>1, StoreAssumption DEF Counting
<1>1. ASSUME NEW n \in DOMAIN claims' PROVE Cardinality(H(n)) # 0
  <2>1. PICK r \in Range(d) : r.seg = n
    BY Zenon
  <2>2. r.id \in H(n)
    BY Zenon, <2>1
  <2> QED
    BY Zenon, <2>2 DEF Counting
<1>2. \A n : Holders(n)' = H(n)
  <2> TAKE n
  <2>1. Holders(n)' = {i \in Ids : <<i, n>> \in Pairs(d)}
    BY Zenon DEF Holders
  <2>2. \A i : <<i, n>> \in Pairs(d) <=> \E r \in Range(d) : r.id = i /\ r.seg = n
    BY Zenon DEF Pairs
  <2> QED
    BY Zenon, <2>1, <2>2
<1> HIDE DEF H
<1>3. ClaimsOK'
  <2>1. DOMAIN claims' \subseteq Nat
    BY Zenon
  <2>2. \A n \in DOMAIN claims' : claims'[n] \in Nat \ {0}
    BY Zenon, <1>1
  <2> QED
    BY Zenon, <2>1, <2>2 DEF ClaimsOK
<1>4. \A h \in Held' : h[2] \in DOMAIN claims'
  <2>1. \A h \in Pairs(d) : \E r \in Range(d) : h[2] = r.seg
    BY DEF Pairs
  <2> QED
    BY Zenon, <2>1
<1>5. Counts'
  BY Zenon, <1>2, <1>4 DEF Counts
<1> QED
  BY Zenon, <1>3, <1>5

\* New: the recovered references have distinct ids, lie in existing segments at
\* or above the cursor, and get one claim each.
LEMMA NewInv ==
  ASSUME Inv, New
  PROVE  Inv'
<1> /\ ~up /\ up' = TRUE
    /\ UNCHANGED <<mem, inflight, underflows, closed, waitVars, arrived, acked, dropped, unrecorded,
                   refused, flushFailed, lost, crashes>>
  BY Zenon DEF New
<1> /\ mem = <<>> /\ diskRefs = <<>> /\ DOMAIN inflight = {} /\ op = Idle /\ retrying = {} /\ parked = {}
    /\ underflows = 0
  BY Zenon DEF Inv, PlaceInv, OpShape, LogInv, Counts
<1> op \in Ops /\ op.k = "idle" /\ op.ids = <<>> /\ op.refs = <<>> /\ op.mems = <<>>
  BY Zenon, StartedOps
<1>1. CASE ~Spill
  <2> UNCHANGED <<storeVars, lowest, diskRefs, claims, op>>
    BY Zenon, <1>1 DEF New
  <2>1. QueueTypes'
    BY Zenon DEF Inv, PlaceInv, QueueTypes, waitVars
  <2>2. OnePlace' /\ Placed' \subseteq arrived'
    BY Zenon DEF Inv, PlaceInv, OnePlace, Placed, Callers, EnqueuedId, waitVars
  <2>3. OpShape'
    BY Zenon DEF OpShape
  <2> Held' = Held
    BY Zenon, HeldTypes, HeldIsNext DEF Inv, PlaceInv, QueueTypes
  <2>4. StoreInv' /\ ClaimsOK' /\ Counts'
    BY Zenon, SameStore, CountsKept DEF Inv, LogInv, claimVars
  <2>5. Backed' /\ IdsIn(files') \subseteq arrived'
    BY Zenon, <1>1 DEF Inv, LogInv, Backed, storeVars
  <2> QED
    BY Zenon, <2>1, <2>2, <2>3, <2>4, <2>5 DEF Inv, PlaceInv, LogInv
<1>2. CASE Spill
  <2> OpenStore /\ SeedLowest
    BY Zenon, <1>2 DEF New
  <2>1. PICK s \in Recoveries :
          LET rs == [k \in DOMAIN s |-> RefAt(s[k])]
          IN  /\ diskRefs' = Kept(rs)
              /\ claims' = ClaimsOf(Kept(rs))
              /\ op' = IF Len(rs) <= DiskSlots THEN Idle ELSE Start("boot", IdsOf(PastCap(rs)))
    BY Zenon, <1>2 DEF New
  <2> DEFINE refs == [k \in DOMAIN s |-> RefAt(s[k])]
  <2> StoreInv /\ FilesOK(files) /\ Counting /\ IdsIn(files) \subseteq arrived
    BY Zenon, StoreInvFiles DEF Inv, LogInv
  <2> /\ refs \in Seq([id : Ids, att : Attempts, seg : Nat, pos : Nat]) /\ DistinctIds(refs)
      /\ EntryIds(refs) \subseteq IdsIn(files) /\ \A k \in DOMAIN refs : refs[k].seg \in DOMAIN files
    BY Zenon, RecoveryOK
  <2> /\ diskRefs' = Kept(refs) /\ claims' = ClaimsOf(diskRefs')
      /\ op' = IF Len(refs) <= DiskSlots THEN Idle ELSE Start("boot", IdsOf(PastCap(refs)))
    BY Zenon, <2>1
  <2> HIDE DEF refs
  <2> refs \in Seq(Refs) /\ \A r \in Range(refs) : r.seg \in DOMAIN files
    <3>1. refs \in Seq(Refs)
      BY Zenon, RecoveredRefs
    <3> QED
      BY Zenon, <3>1 DEF Range
  <2> Len(refs) \in Nat /\ DiskSlots \in Nat /\ DiskSlots # 0
    BY QueueAssumption
  <2> /\ diskRefs' \in Seq(Refs) /\ DistinctIds(diskRefs') /\ EntryIds(diskRefs') \subseteq EntryIds(refs)
      /\ Range(diskRefs') \subseteq Range(refs)
    <3>1. CASE Len(refs) <= DiskSlots
      BY Zenon, <3>1 DEF Kept
    <3>2. CASE ~(Len(refs) <= DiskSlots)
      <4> diskRefs' = SubSeq(refs, 1, DiskSlots) /\ DiskSlots <= Len(refs)
        BY <3>2 DEF Kept
      <4>1. 1 \in Nat \ {0}
        OBVIOUS
      <4>2. /\ SubSeq(refs, 1, DiskSlots) \in Seq(Refs)
            /\ EntryIds(SubSeq(refs, 1, DiskSlots)) \subseteq EntryIds(refs)
            /\ Range(SubSeq(refs, 1, DiskSlots)) \subseteq Range(refs)
            /\ DistinctIds(SubSeq(refs, 1, DiskSlots))
        BY Zenon, <4>1, SubEntries
      <4> QED
        BY Zenon, <4>2
    <3> QED
      BY Zenon, <3>1, <3>2
  <2> /\ op' \in Ops /\ op'.k \in {"idle", "boot"} /\ op'.refs = <<>> /\ op'.mems = <<>>
      /\ Range(op'.ids) \subseteq arrived /\ EnqueuedId' = {}
    <3>1. CASE op' = Idle
      BY Zenon, <3>1, EmptyEntries DEF EnqueuedId
    <3>2. CASE op' = Start("boot", IdsOf(PastCap(refs)))
      <4> PastCap(refs) \in Seq(Refs) /\ EntryIds(PastCap(refs)) \subseteq EntryIds(refs)
        BY SubEntries DEF PastCap
      <4>1. \A e \in Refs : e.id \in Ids
        BY Zenon DEF Refs, Entries
      <4> /\ IdsOf(PastCap(refs)) \in Seq(Ids)
          /\ Range(IdsOf(PastCap(refs))) = EntryIds(PastCap(refs)) /\ "boot" \in OpKinds
        BY Zenon, <4>1, IdSequence DEF OpKinds
      <4>2. op' \in Ops /\ op'.k = "boot" /\ op'.refs = <<>> /\ op'.mems = <<>> /\ op'.ids = IdsOf(PastCap(refs))
        BY SMTT(60), <3>2, StartedOps
      <4> QED
        BY Zenon, <4>2 DEF EnqueuedId
    <3> QED
      BY Zenon, <3>1, <3>2
  <2> /\ StoreInv' /\ segmentNum' \in DOMAIN files' /\ DOMAIN files \subseteq DOMAIN files'
      /\ IdsIn(files') \subseteq arrived'
    BY Zenon, OpenStep
  <2> lowest' \in Nat /\ \A m \in DOMAIN files' : lowest' <= m
    BY Zenon DEF SeedLowest, StoreInv, StoreTypeOK
  <2>2. QueueTypes'
    BY Zenon DEF Inv, PlaceInv, QueueTypes, waitVars
  <2>3. OnePlace'
    <3>1. mem' = <<>> /\ DOMAIN inflight' = {} /\ retrying' = {} /\ parked' = {}
      BY Zenon DEF waitVars
    <3> QED
      BY Zenon, <3>1, EmptyEntries DEF OnePlace, Callers
  <2>4. OpShape'
    BY Zenon DEF OpShape
  <2>5. Placed' \subseteq arrived'
    <3>1. mem' = <<>> /\ DOMAIN inflight' = {} /\ retrying' = {} /\ parked' = {} /\ arrived' = arrived
      BY Zenon DEF waitVars
    <3> QED
      BY SMTT(60), <3>1, EmptyEntries DEF Placed
  <2> Held' = Pairs(diskRefs')
    <3>1. DOMAIN inflight' = {}
      BY Zenon
    <3>2. Held' = HeldOf(diskRefs', inflight', op'.refs) /\ OutPairs(inflight') = {}
      BY Zenon, <3>1, HeldIsNext DEF OutPairs
    <3> QED
      BY Zenon, <3>2, PairsEmpty DEF HeldOf
  <2>6. ClaimsOK' /\ Counts'
    <3>1. \A r \in Range(diskRefs') : r.id \in Ids /\ r.seg \in Nat
      <4>1. \A r \in Range(diskRefs') : r \in Refs
        BY DEF Range
      <4> QED
        BY Zenon, <4>1 DEF Refs, Entries, NoSeg
    <3>2. underflows' = 0
      BY Zenon
    <3> QED
      BY Zenon, <3>1, <3>2, CountsSeeded
  <2>7. \A h \in Held' : h[2] \in DOMAIN files'
    <3>1. \A h \in Pairs(diskRefs') : \E r \in Range(diskRefs') : h[2] = r.seg
      BY DEF Pairs
    <3> QED
      BY Zenon, <3>1
  <2>8. Backed'
    BY Zenon, <2>7 DEF Backed
  <2> QED
    BY Zenon, <2>2, <2>3, <2>4, <2>5, <2>6, <2>8 DEF Inv, PlaceInv, LogInv
<1> QED
  BY Zenon, <1>1, <1>2

\* Every step of Close, a crash and a start preserve the invariant.
LEMMA LifeInv ==
  ASSUME Inv, CloseStep \/ LifeStep
  PROVE  Inv'
<1>1. CASE CloseStep
  BY Zenon, <1>1, CloseInv, CloseFlushInv, CloseDropInv, CloseFailsInv, CloseEndInv DEF CloseStep
<1>2. CASE LifeStep
  BY Zenon, <1>2, CrashInv, NewInv, BootSettleInv, NewCrashInv DEF LifeStep
<1> QED
  BY Zenon, <1>1, <1>2

\* Before the first start the queue holds nothing.
LEMMA InitInv ==
  ASSUME Counting, Init
  PROVE  Inv
<1> /\ op \in Ops /\ op.k = "idle" /\ op.ids = <<>> /\ op.refs = <<>> /\ op.mems = <<>>
    /\ EnqueuedId = {} /\ DOMAIN inflight = {} /\ DOMAIN claims = {} /\ DOMAIN files = {}
  BY StartedOps DEF Init, EnqueuedId
<1>1. QueueTypes
  <2>1. mem \in Seq(MemoryEntries) /\ diskRefs \in Seq(Refs)
    BY Zenon, StartedOps DEF Init
  <2>2. underflows \in Nat /\ lowest \in Nat /\ crashes \in Nat
    BY SMT DEF Init
  <2> QED
    BY Zenon, <2>1, <2>2 DEF Init, QueueTypes
<1>2. OnePlace
  BY Zenon, EmptyEntries DEF Init, OnePlace, Callers
<1>3. OpShape
  BY Zenon DEF Init, OpShape
<1>4. Placed \subseteq arrived
  BY Zenon, EmptyEntries DEF Init, Placed
<1> Held = {}
  <2>1. OutPairs(inflight) = {}
    BY Zenon DEF OutPairs
  <2> QED
    BY Zenon, <2>1, HeldIs, PairsEmpty DEF Init, HeldOf
<1>5. StoreInv
  BY Zenon DEF Counting, Init, StoreInv, StoreTypeOK
<1>6. ClaimsOK /\ Counts
  BY Zenon DEF Init, ClaimsOK, Counts
<1>7. Backed /\ IdsIn(files) \subseteq arrived
  BY Zenon DEF Init, Backed, IdsIn
<1> QED
  BY Zenon, <1>1, <1>2, <1>3, <1>4, <1>5, <1>6, <1>7 DEF Inv, PlaceInv, LogInv

\* The invariant is a state predicate: a stuttering step keeps it.
LEMMA StutterInv ==
  ASSUME Inv, UNCHANGED vars
  PROVE  Inv'
<1>1. QueueTypes'
  BY Zenon DEF Inv, PlaceInv, QueueTypes, vars, claimVars, waitVars, bootVars
<1>2. OnePlace' /\ OpShape' /\ Placed' \subseteq arrived'
  BY Zenon DEF Inv, PlaceInv, OnePlace, OpShape, Placed, Callers, EnqueuedId, vars, waitVars, bootVars
<1>3. Held' = Held
  BY Zenon, HeldTypes, HeldIsNext DEF Inv, PlaceInv, QueueTypes, vars
<1>4. LogInv'
  BY Zenon, <1>3, CalmStep DEF vars, bootVars
<1> QED
  BY Zenon, <1>1, <1>2, <1>4 DEF Inv, PlaceInv

-----------------------------------------------------------------------------
(***************************************************************************)
(* The items.                                                              *)
(***************************************************************************)

LEMMA CloseLossFlow ==
  ASSUME Inv, CloseDrop \/ CloseFails
  PROVE  /\ Head(mem).id \in Ids
         /\ MemoryFlow({}, {Head(mem).id}) \/ AbandonFlow(Head(mem).id)
<1> DEFINE e == Head(mem)
<1> /\ op.k = "close" /\ up /\ mem # <<>> /\ mem' = Tail(mem) /\ Running
    /\ UNCHANGED <<diskRefs, inflight, retrying, parked, arrived, acked, unrecorded, refused>>
  BY Zenon DEF CloseDrop, CloseFails, Flushing, Doing, Running, waitVars, bootVars
<1> /\ e.id \in Ids /\ EntryIds(mem) = EntryIds(mem') \cup {e.id} /\ e.id \notin EntryIds(mem')
    /\ e.id \notin DOMAIN inflight /\ e.id \notin EntryIds(op.mems) /\ e.id \notin Callers
  BY Zenon, HeadOfMem
<1>1. op = op' \/ op' = Idle
  BY Zenon DEF CloseDrop, CloseFails, Return
<1> /\ op.mems = <<>> /\ op'.mems = <<>> /\ op.refs = <<>> /\ op'.refs = <<>>
    /\ op'.k \in {"close", "idle"} /\ StoreInv
  BY <1>1 DEF Inv, PlaceInv, LogInv, OpShape, Idle, Start, Operation
<1> EnqueuedId = {} /\ EnqueuedId' = {} /\ BootIds = {} /\ BootIds' = {}
  BY Zenon DEF EnqueuedId, BootIds
<1> OutRefs' = OutRefs /\ MemoryInflight' = MemoryInflight /\ e.id \notin MemoryInflight
  BY Zenon DEF OutRefs, DiskInflight, MemoryInflight
<1>2. LiveRefs' = LiveRefs
  BY Zenon, LiveRefsAre
<1> VolatileIds' = VolatileIds \ {e.id} /\ e.id \in VolatileIds /\ Spots' = Spots
  BY <1>2, EmptyEntries DEF VolatileIds, Callers, Spots
<1>3. CASE CloseDrop
  <2>1. UNCHANGED <<storeVars, flushFailed>> /\ dropped' = dropped \cup {e.id}
    BY Zenon, <1>3 DEF CloseDrop
  <2> HIDE DEF e
  <2>2. MemoryFlow({}, {e.id})
    BY Zenon, <2>1, LogKeptBy DEF MemoryFlow, Settled
  <2> QED
    BY Zenon, <2>2 DEF e
<1>4. CASE CloseFails
  <2>1. flushFailed' = TRUE /\ dropped' = dropped /\ WriteFail(SpillRecord(e))
    BY Zenon, <1>4 DEF CloseFails
  <2> HIDE DEF e
  <2>2. AbandonFlow(e.id)
    BY Zenon, <2>1, LogKeptBy DEF AbandonFlow, Settled
  <2> QED
    BY Zenon, <2>2 DEF e
<1> QED
  BY Zenon, <1>3, <1>4

\* Close takes the lock or gives it back: nothing moves.
LEMMA CloseCalm ==
  ASSUME Inv, Close \/ CloseEnd
  PROVE  MemoryFlow({}, {})
<1> /\ op = Idle \/ op.k = "close"
    /\ Broadcast \/ UNCHANGED waitVars
    /\ Running
    /\ UNCHANGED <<mem, diskRefs, inflight, arrived, acked, dropped, unrecorded, refused, flushFailed>>
  BY Zenon DEF Close, CloseEnd, Free, Doing, Running, bootVars
<1>1. op' = op \/ op' = Idle \/ op' = Operation("close", <<>>, <<>>, "failed", FALSE)
  BY Zenon DEF Close, CloseEnd, Return, Start
<1>2. LogKept
  <2>1. StoreInv
    BY Zenon DEF Inv, LogInv
  <2>2. CASE Close
    BY Zenon, <2>1, <2>2, LogKeptBy DEF Close
  <2>3. CASE CloseEnd
    <3>1. CASE UNCHANGED faults
      BY Zenon, <2>3, <3>1 DEF CloseEnd, CloseStore, LogKept
    <3>2. CASE segment /\ Fault
      <4>1. faults' > faults
        <5>1. faults \in Nat /\ faults' = faults + 1
          BY Zenon, <2>1, <3>2 DEF Fault, StoreInv, StoreTypeOK
        <5> QED
          BY <5>1
      <4> QED
        BY Zenon, <2>3, <3>2, <4>1 DEF CloseEnd, LogKept
    <3> QED
      BY Zenon, <2>3, <3>1, <3>2 DEF CloseEnd
  <2> QED
    BY Zenon, <2>2, <2>3
<1> QED
  BY Zenon, <1>1, <1>2, LockFlow

\* Every step of Close is a flow.
LEMMA CloseFlow ==
  ASSUME Inv, CloseStep
  PROVE  ItemFlow
<1>1. CASE CloseFlush
  <2>1. up /\ mem # <<>> /\ SpillFlow(Head(mem).id, Head(mem).att)
    BY Zenon, <1>1, HeadSpilledFlow DEF CloseFlush, Flushing, Doing
  <2> QED
    BY Zenon, <2>1, MovingIds, FlowsAre
<1>2. CASE CloseDrop \/ CloseFails
  BY Zenon, <1>2, CloseLossFlow, FlowsAre
<1> QED
  BY Zenon, <1>1, <1>2, CloseCalm, FlowsAre DEF CloseStep

\* New settles a reference past the cap.
LEMMA BootSettleFlow ==
  ASSUME Inv, ControlInv, BootShape, BootSettle
  PROVE  /\ Head(op.ids) \in Ids /\ SettleFlow(Head(op.ids)) /\ BootShape'
<1> DEFINE i == Head(op.ids)
<1> /\ op.k = "boot" /\ up /\ op.ids # <<>> /\ SettleDroppedRef(i) /\ dropped' = dropped \cup {i} /\ Running
    /\ op' = (IF Len(op.ids) = 1 THEN Idle ELSE NextIds)
    /\ UNCHANGED <<mem, diskRefs, inflight, retrying, parked, arrived, acked, unrecorded, refused, flushFailed>>
  BY Zenon DEF BootSettle, Settling, Doing, Running, waitVars, bootVars
<1> /\ op.refs = <<>> /\ op.mems = <<>> /\ op'.refs = <<>> /\ op'.mems = <<>> /\ i \in Ids
    /\ op.ids \in Seq(Ids) /\ op'.k \in {"idle", "boot"}
    /\ op'.k = "boot" => Len(op.ids) # 1 /\ op'.ids = Tail(op.ids)
  BY Zenon, NextIdsOp, StartedOps DEF Inv, PlaceInv, OpShape, QueueTypes, Ops
<1>1. ~storeClosed
  BY Zenon DEF ControlInv
<1> /\ Len(op.ids) \in Nat \ {0} /\ DOMAIN op.ids = 1..Len(op.ids) /\ i = op.ids[1]
    /\ Len(Tail(op.ids)) = Len(op.ids) - 1 /\ DOMAIN Tail(op.ids) = 1..(Len(op.ids) - 1)
    /\ \A k \in 1..(Len(op.ids) - 1) : Tail(op.ids)[k] = op.ids[k + 1]
  <2>1. op.ids # <<>>
    BY Zenon
  <2> QED
    BY <2>1
<1> /\ \A j, k \in DOMAIN op.ids : op.ids[j] = op.ids[k] => j = k
    /\ Range(op.ids) \cap EntryIds(diskRefs) = {} /\ VolatileIds = {} /\ DOMAIN inflight = {} /\ i \in BootIds
  <2>1. i \in BootIds
    BY DEF BootIds, Range
  <2> QED
    BY Zenon, <2>1 DEF BootShape
<1> DEFINE t == Tail(op.ids)
<1> /\ Range(op.ids) = Range(t) \cup {i} /\ i \notin Range(t)
    /\ \A j, k \in DOMAIN t : t[j] = t[k] => j = k
  <2>1. Range(op.ids) = Range(t) \cup {i}
    <3>1. op.ids # <<>>
      BY Zenon
    <3> QED
      BY Zenon, <3>1, TailEntries
  <2>2. i \notin Range(t)
    BY SMTT(60) DEF Range
  <2>3. ASSUME NEW j \in DOMAIN t, NEW k \in DOMAIN t, t[j] = t[k] PROVE j = k
    <3> op.ids[j + 1] = op.ids[k + 1] /\ j + 1 \in DOMAIN op.ids /\ k + 1 \in DOMAIN op.ids /\ j \in Int /\ k \in Int
      BY SMTT(60), <2>3
    <3>1. j + 1 = k + 1
      BY Zenon
    <3> QED
      BY <3>1
  <2> QED
    BY Zenon, <2>1, <2>2, <2>3
<1>2. BootIds' = BootIds \ {i}
  <2>1. CASE op'.k = "boot"
    BY Zenon, <2>1 DEF BootIds
  <2>2. CASE op'.k = "idle"
    <3>1. Len(op.ids) = 1
      BY ZenonT(60), <2>2, NextIdsOp
    <3>2. Range(op.ids) = {i}
      BY <3>1 DEF Range
    <3> QED
      BY Zenon, <2>2, <3>2 DEF BootIds
  <2> QED
    BY Zenon, <2>1, <2>2
<1> i \notin EntryIds(diskRefs)
  BY Zenon DEF BootIds
<1> EnqueuedId = {} /\ EnqueuedId' = {} /\ OutRefs' = OutRefs /\ OutRefs = {} /\ MemoryInflight' = MemoryInflight
    /\ DOMAIN inflight = {}
  BY DEF EnqueuedId, OutRefs, DiskInflight, MemoryInflight
<1> VolatileIds' = VolatileIds /\ LiveRefs' = LiveRefs /\ LiveRefs = Range(diskRefs)
  BY Zenon, LiveRefsAre, EmptyEntries DEF VolatileIds, Callers
<1> HIDE DEF i, t
<1>3. Spots' = {s \in Spots : s[1] # i}
  <2>1. \A r \in Range(diskRefs) : r.id \in EntryIds(diskRefs)
    BY Zenon DEF Range, EntryIds
  <2>2. \A s \in Spots : s[1] # i
    BY <2>1 DEF Spots, Spot
  <2>3. Spots' = Spots
    BY Zenon DEF Spots
  <2> QED
    BY Zenon, <2>2, <2>3
<1>4. SettleFlow(i)
  BY Zenon, <1>1, <1>2, <1>3 DEF SettleFlow, LoggedIds, BootIds, Settled, SettleDroppedRef
<1>5. BootShape'
  <2>1. ASSUME op'.k = "boot" PROVE op'.ids = t
    BY Zenon, <2>1 DEF t
  <2> QED
    BY ZenonT(60), <2>1 DEF BootShape, BootIds
<1> QED
  BY Zenon, <1>4, <1>5 DEF i

-----------------------------------------------------------------------------
(***************************************************************************)
(* The waiting consumer and the closed store.                              *)
(***************************************************************************)

\* Close flushes memory before it closes the store; a restart finds nobody asleep.
LEMMA CloseControl ==
  ASSUME Inv, ControlInv, CloseStep \/ LifeStep
  PROVE  ControlInv'
<1> USE FreshOp, WritesKeepClosed DEF ControlInv, Sleeping, Quiet, Free, Doing, waitVars, bootVars
<1>1. CASE Close
  BY SMTT(60), <1>1 DEF Close, Broadcast
<1>2. CASE CloseFlush \/ CloseDrop
  BY SMTT(60), <1>2 DEF CloseFlush, CloseDrop, Flushing
<1>3. CASE CloseFails
  BY <1>3 DEF CloseFails, Flushing, Return
<1>4. CASE CloseEnd
  BY Zenon, <1>4 DEF CloseEnd, CloseStore, Return, Broadcast
<1>5. CASE Crash
  BY Zenon, <1>5 DEF Crash
<1>6. CASE New
  <2> ~up /\ mem = <<>> /\ mem' = <<>> /\ waiting' = FALSE /\ up' = TRUE /\ closed' = closed
      /\ op = Idle /\ waiting \in BOOLEAN
    BY Zenon, <1>6 DEF New, Inv, PlaceInv, OpShape, QueueTypes
  <2>1. CASE ~Spill
    BY <1>6, <2>1 DEF New, storeVars
  <2>2. CASE Spill
    <3>1. storeClosed' = FALSE
      BY Zenon, <1>6, <2>2 DEF New, OpenStore, OpenAt
    <3>2. op'.k \in {"idle", "boot"}
      <4>1. \E ids : op' = Idle \/ op' = Start("boot", ids)
        BY Zenon, <1>6, <2>2 DEF New
      <4> QED
        BY <4>1, FreshOp
    <3> QED
      BY Zenon, <3>1, <3>2
  <2> QED
    BY Zenon, <2>1, <2>2
<1>7. CASE BootSettle
  <2> /\ op.k = "boot" /\ op.ids # <<>> /\ (op' = Idle \/ op' = NextIds) /\ storeClosed' = storeClosed
      /\ UNCHANGED <<mem, diskRefs, closed, waiting, up>>
    BY Zenon, <1>7 DEF BootSettle, Settling
  <2>1. op'.k \in {"idle", "boot"}
    BY Zenon, NextIdsOp
  <2> QED
    BY Zenon, <2>1
<1>8. CASE NewCrash
  BY Zenon, <1>8 DEF NewCrash
<1> QED
  BY Zenon, <1>1, <1>2, <1>3, <1>4, <1>5, <1>6, <1>7, <1>8 DEF CloseStep, LifeStep

\* Only a call that holds the lock moves.
LEMMA CloseHolder ==
  ASSUME CloseStep
  PROVE  up /\ op.k \in {"idle", "close"}
<1>1. up /\ (op = Idle \/ op.k = "close")
  BY Zenon DEF CloseStep, Close, CloseFlush, CloseDrop, CloseFails, CloseEnd, Flushing, Free, Doing
<1> QED
  BY Zenon, <1>1, FreshOp
=============================================================================
