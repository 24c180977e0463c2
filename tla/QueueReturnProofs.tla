------------------------- MODULE QueueReturnProofs --------------------------
(***************************************************************************)
(* Ack, Drop, nack, requeue and compaction: each step preserves the        *)
(* invariant of the queue, moves the items in one of the known ways, and   *)
(* lets no consumer sleep that could be served.                            *)
(***************************************************************************)
EXTENDS QueueReturn, QueueStateProofs

-----------------------------------------------------------------------------
(***************************************************************************)
(* The invariant.                                                          *)
(***************************************************************************)

\* Ack, Drop and nack taking the lock with a list of distinct ids.
LEMMA SettleInv ==
  ASSUME Inv, NEW k \in {"ack", "drop", "nack"}, NEW kind \in Kinds, Settle(k, kind)
  PROVE  Inv'
<1>1. PICK ids \in IdLists : op' = Operation(k, ids, <<>>, kind, FALSE)
  BY Zenon DEF Settle
<1> op = Idle /\ up /\ closed' \in BOOLEAN /\ k \in OpKinds /\ FALSE \in BOOLEAN
    /\ <<>> \in Seq(MemoryEntries) /\ k # "enqueue"
  BY DEF Settle, Free, OpKinds, Inv, PlaceInv, QueueTypes
<1> ids \in Seq(Ids) /\ Range(ids) \subseteq arrived
  <2> PICK m \in 1..BatchSize : ids \in [1..m -> arrived]
    BY Zenon DEF IdLists
  <2>1. m \in Nat /\ ids \in [1..m -> Ids]
    BY QueueAssumption DEF Inv, PlaceInv, QueueTypes
  <2> QED
    BY <2>1 DEF Range
<1>2. /\ op' \in Ops /\ op'.k = k /\ op'.ids = ids /\ op'.refs = <<>> /\ op'.mems = <<>>
      /\ op.refs = <<>> /\ op.mems = <<>>
  <2>1. <<>> \in Seq(Refs)
    OBVIOUS
  <2>2. op' \in Ops /\ op'.k = k /\ op'.ids = ids /\ op'.refs = <<>> /\ op'.mems = <<>>
    BY Zenon, <1>1, <2>1 DEF Operation, Ops
  <2> QED
    BY Zenon, <2>2, StartedOps
<1> QED
  BY Zenon, <1>2, ControlStep, SameWaiters DEF Settle

\* A settlement skipping an id that is not inflight.
LEMMA SkipIdInv ==
  ASSUME Inv, SkipId
  PROVE  Inv'
<1> up /\ op.ids # <<>> /\ op.k \in {"ack", "drop", "nack"} /\ op' = NextIds /\ closed' \in BOOLEAN
  BY Zenon DEF SkipId, Settling, Doing, Inv, PlaceInv, QueueTypes
<1>1. op' \in Ops /\ op'.k = op.k /\ op'.refs = op.refs /\ op'.mems = op.mems /\ Range(op'.ids) \subseteq arrived
  BY Zenon, NextIdsOp
<1> QED
  BY Zenon, <1>1, ControlStep, SameWaiters DEF SkipId, Inv, PlaceInv, OpShape

\* The end of a settlement: compaction follows, waiters are woken.
LEMMA SettleEndInv ==
  ASSUME Inv, SettleEnd
  PROVE  Inv'
<1> up /\ op.k # "nack" /\ op.mems = <<>> /\ FinishAndWake /\ closed' \in BOOLEAN
  BY Zenon DEF SettleEnd, Doing, Inv, PlaceInv, QueueTypes, OpShape
<1>1. op' \in Ops /\ op'.k = "compact" /\ op'.refs = <<>> /\ op'.mems = <<>> /\ Range(op'.ids) = {}
      /\ op.refs = <<>> /\ Broadcast
  BY Zenon, CompactOp DEF FinishAndWake, Inv, PlaceInv, OpShape
<1> QED
  BY Zenon, <1>1, ControlStep, Woken DEF SettleEnd

\* The head of the id list is settled for good.
LEMMA RetiredStep ==
  ASSUME Inv, up, op.k \in {"ack", "drop", "nack"}, op.ids # <<>>, NEW i \in DOMAIN inflight, i = Head(op.ids),
         \/ /\ OnDisk(inflight[i]) /\ Release(inflight[i].seg)
            /\ WriteOK(AckRecord(i)) \/ WriteFail(AckRecord(i))
         \/ ~OnDisk(inflight[i]) /\ UNCHANGED <<storeVars, claimVars>>,
         inflight' = InflightWithout(i), op' = NextIds,
         acked' \subseteq acked \cup {i}, dropped' \subseteq dropped \cup {i},
         unrecorded' \subseteq unrecorded \cup {i},
         UNCHANGED <<mem, diskRefs, lowest, closed, waitVars, arrived, refused, flushFailed, bootVars>>
  PROVE  Inv'
<1> /\ op' \in Ops /\ op'.k = op.k /\ op'.refs = op.refs /\ op'.mems = op.mems
    /\ Range(op'.ids) \subseteq arrived /\ i \in Ids
  BY Zenon, NextIdsOp
<1> LogInv' /\ DOMAIN inflight' = DOMAIN inflight \ {i} /\ \A j \in DOMAIN inflight' : inflight'[j] = inflight[j]
  BY Zenon, LeaveStep DEF bootVars
<1>1. QueueTypes'
  <2>1. underflows' \in Nat
    BY Zenon DEF LogInv, Counts
  <2> QED
    BY Zenon, <2>1 DEF Inv, PlaceInv, QueueTypes, waitVars, bootVars
<1>2. OnePlace' /\ Placed' \subseteq arrived'
  <2>1. retrying' = retrying /\ parked' = parked /\ retrying \cap parked = {}
    BY Zenon DEF waitVars, Inv, PlaceInv, OnePlace
  <2>2. EnqueuedId' = {}
    BY Zenon DEF EnqueuedId
  <2>3. DistinctIds(mem) /\ DistinctIds(diskRefs) /\ DistinctIds(op.refs) /\ DistinctIds(op.mems)
    BY Zenon DEF Inv, PlaceInv, OnePlace
  <2> QED
    BY Zenon, <2>1, <2>2, <2>3, ShrinkStep
<1>3. OpShape'
  BY Zenon DEF Inv, PlaceInv, OpShape, bootVars
<1> QED
  BY Zenon, <1>1, <1>2, <1>3 DEF Inv, PlaceInv

\* Ack of one inflight item: its claim goes with its entry, after the ack
\* record is written.
LEMMA AckOneInv ==
  ASSUME Inv, AckOne
  PROVE  Inv'
<1> DEFINE i == Head(op.ids)
<1> /\ up /\ op.k = "ack" /\ op.ids # <<>> /\ i \in DOMAIN inflight /\ inflight' = InflightWithout(i)
    /\ op' = NextIds /\ acked' = acked \cup {i}
    /\ IF OnDisk(inflight[i]) THEN WriteOK(AckRecord(inflight[i].id)) /\ Release(inflight[i].seg)
       ELSE UNCHANGED <<storeVars, claimVars>>
    /\ UNCHANGED <<mem, diskRefs, lowest, closed, waitVars, arrived, dropped, unrecorded, refused,
                   flushFailed, bootVars>>
  BY Zenon DEF AckOne, Settling, Doing
<1>1. inflight[i].id = i
  BY Zenon, InflightEntry
<1> HIDE DEF i
<1> QED
  BY Zenon, <1>1, RetiredStep DEF i

\* retireInflightUnlocked, from Drop and from nack.
LEMMA RetireInflightInv ==
  ASSUME Inv, up, op.k \in {"drop", "nack"}, op.ids # <<>>, Head(op.ids) \in DOMAIN inflight, NEW b \in BOOLEAN,
         RetireInflight(inflight[Head(op.ids)], b), inflight' = InflightWithout(Head(op.ids)), op' = NextIds,
         UNCHANGED <<mem, diskRefs, lowest, closed, waitVars, arrived, acked, refused, flushFailed, bootVars>>
  PROVE  Inv'
<1> DEFINE i == Head(op.ids)
<1> i \in DOMAIN inflight /\ inflight[i].id = i
  BY Zenon, InflightEntry
<1>1. /\ IF OnDisk(inflight[i]) THEN Release(inflight[i].seg) /\ (WriteOK(AckRecord(i)) \/ WriteFail(AckRecord(i)))
         ELSE UNCHANGED <<storeVars, claimVars>>
      /\ dropped' \subseteq dropped \cup {i} /\ unrecorded' \subseteq unrecorded \cup {i}
  BY Zenon DEF RetireInflight, SettleDroppedRef
<1>2. inflight' = InflightWithout(i) /\ acked' \subseteq acked \cup {i}
  BY Zenon
<1> HIDE DEF i
<1> QED
  BY Zenon, <1>1, <1>2, RetiredStep DEF i

\* Drop of one inflight item.
LEMMA DropOneInv ==
  ASSUME Inv, DropOne
  PROVE  Inv'
  BY Zenon, RetireInflightInv DEF DropOne, Settling, Doing

\* nack retiring an item past the attempt cap.
LEMMA NackRetireInv ==
  ASSUME Inv, NackRetire
  PROVE  Inv'
<1>1. (op.kind = "delivered") \in BOOLEAN
  BY Zenon
<1> QED
  BY Zenon, <1>1, RetireInflightInv DEF NackRetire, Settling, Doing

\* Ack whose record could not be written: entry and claim both stay.
LEMMA AckFailsInv ==
  ASSUME Inv, AckFails
  PROVE  Inv'
<1> /\ up /\ op.k = "ack" /\ op.ids # <<>> /\ WriteFail(AckRecord(Head(op.ids))) /\ FinishAndWake
    /\ UNCHANGED <<mem, diskRefs, inflight, claimVars, lowest, closed, arrived, acked, dropped,
                   unrecorded, refused, flushFailed, bootVars>>
  BY Zenon DEF AckFails, Settling, Doing
<1> Head(op.ids) \in Ids /\ Head(op.ids) \in arrived
  BY Zenon, NextIdsOp
<1>1. StoreInv' /\ Grown(Head(op.ids))
  BY Zenon, WriteFailStep, RecordTypesOK DEF Inv, LogInv
<1> /\ op' \in Ops /\ op'.k = "compact" /\ op'.refs = <<>> /\ op'.mems = <<>> /\ Range(op'.ids) = {}
    /\ op.refs = <<>> /\ op.mems = <<>> /\ Broadcast
  BY Zenon, CompactOp DEF FinishAndWake, Inv, PlaceInv, OpShape
<1> OnePlace' /\ OpShape' /\ Placed' \subseteq arrived' /\ Held' = Held
  BY Zenon, OpStep, Woken DEF bootVars
<1>2. QueueTypes'
  BY Zenon, Woken DEF Inv, PlaceInv, QueueTypes, claimVars, bootVars
<1>3. LogInv'
  BY Zenon, <1>1, AppendStep DEF bootVars
<1> QED
  BY Zenon, <1>2, <1>3 DEF Inv, PlaceInv

\* nack taking an entry out of inflight: it is in the hands of the operation,
\* claim held.
LEMMA NackCollectInv ==
  ASSUME Inv, NackCollect
  PROVE  Inv'
<1> DEFINE i == Head(op.ids)
           e == Nacked(inflight[i])
<1> /\ up /\ op.k = "nack" /\ op.ids # <<>> /\ i \in DOMAIN inflight /\ inflight' = InflightWithout(i)
    /\ op' = IF OnDisk(e) THEN [NextIds EXCEPT !.refs = Append(@, e)]
             ELSE [NextIds EXCEPT !.mems = Append(@, e)]
    /\ UNCHANGED <<storeVars, mem, diskRefs, claimVars, lowest, closed, waitVars, arrived, acked,
                   dropped, unrecorded, refused, flushFailed, bootVars>>
  BY Zenon DEF NackCollect, Settling, Doing
<1>1. inflight[i] \in Entries /\ inflight[i].id = i
  BY Zenon, InflightEntry
<1> e \in Entries /\ e.id = i /\ e.seg = inflight[i].seg
  BY Zenon, <1>1, NackedEntry DEF NackCollect
<1> /\ NextIds \in Ops /\ NextIds.k = "nack" /\ NextIds.refs = op.refs /\ NextIds.mems = op.mems
    /\ Range(NextIds.ids) \subseteq arrived /\ i \in arrived
  BY Zenon, NextIdsOp
<1> HIDE DEF i, e
<1> /\ op.refs \in Seq(Refs) /\ op.mems \in Seq(MemoryEntries) /\ DistinctIds(op.refs) /\ DistinctIds(op.mems)
    /\ i \notin EntryIds(op.refs) /\ i \notin EntryIds(op.mems) /\ i \notin EntryIds(mem)
    /\ i \notin EntryIds(diskRefs) /\ i \notin Callers
  BY Zenon DEF Inv, PlaceInv, QueueTypes, Ops, OnePlace
<1> /\ op' \in Ops /\ op'.k = "nack" /\ Range(op'.ids) \subseteq arrived
    /\ \/ /\ e.seg # NoSeg /\ op'.mems = op.mems /\ EntryIds(op'.refs) = EntryIds(op.refs) \cup {i}
          /\ DistinctIds(op'.refs) /\ Pairs(op'.refs) = Pairs(op.refs) \cup {<<i, e.seg>>}
       \/ /\ e.seg = NoSeg /\ op'.refs = op.refs /\ EntryIds(op'.mems) = EntryIds(op.mems) \cup {i}
          /\ DistinctIds(op'.mems)
  <2>1. CASE OnDisk(e)
    <3> e \in Refs /\ e.seg # NoSeg
      BY Zenon, <2>1 DEF OnDisk, Refs
    <3> DEFINE t == Append(op.refs, e)
    <3>1. /\ t \in Seq(Refs) /\ EntryIds(t) = EntryIds(op.refs) \cup {e.id}
          /\ DistinctIds(op.refs) /\ e.id \notin EntryIds(op.refs) => DistinctIds(t)
          /\ Pairs(t) = Pairs(op.refs) \cup {<<e.id, e.seg>>}
      BY Zenon, RefAppended
    <3>2. /\ t \in Seq(Refs) /\ EntryIds(t) = EntryIds(op.refs) \cup {i} /\ DistinctIds(t)
          /\ Pairs(t) = Pairs(op.refs) \cup {<<i, e.seg>>}
      BY Zenon, <3>1
    <3>3. /\ op' \in Ops /\ op'.k = "nack" /\ op'.ids = NextIds.ids /\ op'.mems = op.mems
          /\ op'.refs = Append(op.refs, e)
      <4>1. op' = [NextIds EXCEPT !.refs = Append(op.refs, e)]
        BY Zenon, <2>1
      <4> QED
        BY Zenon, <3>2, <4>1 DEF Ops
    <3> QED
      BY Zenon, <3>2, <3>3
  <2>2. CASE ~OnDisk(e)
    <3> e \in MemoryEntries /\ e.seg = NoSeg
      BY Zenon, <2>2 DEF OnDisk, MemoryEntries
    <3> /\ Append(op.mems, e) \in Seq(MemoryEntries) /\ DistinctIds(Append(op.mems, e))
        /\ EntryIds(Append(op.mems, e)) = EntryIds(op.mems) \cup {i}
      BY AppendEntries
    <3>1. /\ op' \in Ops /\ op'.k = "nack" /\ op'.ids = NextIds.ids /\ op'.refs = op.refs
          /\ op'.mems = Append(op.mems, e)
      <4>1. op' = [NextIds EXCEPT !.mems = Append(op.mems, e)]
        BY Zenon, <2>2
      <4> QED
        BY Zenon, <4>1 DEF Ops
    <3> QED
      BY Zenon, <3>1
  <2> QED
    BY Zenon, <2>1, <2>2
<1> /\ DOMAIN inflight' = DOMAIN inflight \ {i} /\ DOMAIN inflight' \subseteq Ids
    /\ \A j \in DOMAIN inflight' : inflight'[j] \in Entries /\ inflight'[j].id = j
  BY Zenon DEF InflightWithout, Inv, PlaceInv, QueueTypes
<1>2. QueueTypes'
  BY Zenon DEF Inv, PlaceInv, QueueTypes, claimVars, waitVars, bootVars
<1> EnqueuedId = {} /\ EnqueuedId' = {} /\ retrying' = retrying /\ parked' = parked
  BY Zenon DEF EnqueuedId, waitVars
<1>3. OnePlace'
  BY DEF Inv, PlaceInv, OnePlace, Callers
<1>4. OpShape'
  BY Zenon DEF OpShape, bootVars
<1>5. Placed' \subseteq arrived'
  BY DEF Inv, PlaceInv, Placed
<1>6. Held' = Held
  <2>1. Held = HeldOf(diskRefs, inflight, op.refs) /\ Held' = HeldOf(diskRefs', inflight', op'.refs)
    BY Zenon, HeldTypes, HeldIsNext DEF Inv, PlaceInv
  <2>2. /\ OutPairs(inflight') = OutPairs(inflight) \ {<<i, e.seg>>}
        /\ (e.seg # NoSeg => <<i, e.seg>> \in OutPairs(inflight))
        /\ (e.seg = NoSeg => <<i, e.seg>> \notin OutPairs(inflight))
    BY SMTT(60), OutPairsWithout DEF OutPairs
  <2> QED
    BY SMTT(60), <2>1, <2>2 DEF HeldOf
<1>7. LogInv'
  BY Zenon, <1>6, CalmStep DEF bootVars
<1> QED
  BY Zenon, <1>2, <1>3, <1>4, <1>5, <1>7 DEF Inv, PlaceInv

\* nack putting the collected references at the front, claims still held.
LEMMA NackRefsInv ==
  ASSUME Inv, NackRefs
  PROVE  Inv'
<1> /\ up /\ op.k = "nack" /\ diskRefs' = op.refs \o diskRefs
    /\ op' = Operation("requeue", IdsOf(op.mems), op.mems, "failed", FALSE)
    /\ UNCHANGED <<storeVars, mem, inflight, claimVars, lowest, closed, waitVars, arrived, acked,
                   dropped, unrecorded, refused, flushFailed, bootVars>>
  BY Zenon DEF NackRefs, Doing
<1> /\ op.refs \in Seq(Refs) /\ diskRefs \in Seq(Refs) /\ op.mems \in Seq(MemoryEntries)
    /\ DistinctIds(op.refs) /\ DistinctIds(diskRefs) /\ DistinctIds(op.mems)
    /\ EntryIds(op.refs) \cap EntryIds(diskRefs) = {} /\ EntryIds(op.mems) \subseteq arrived
  BY Zenon DEF Inv, PlaceInv, QueueTypes, Ops, OnePlace, Placed
<1> /\ diskRefs' \in Seq(Refs) /\ EntryIds(diskRefs') = EntryIds(op.refs) \cup EntryIds(diskRefs)
    /\ Range(diskRefs') = Range(op.refs) \cup Range(diskRefs) /\ DistinctIds(diskRefs')
  BY ConcatEntries
<1> IdsOf(op.mems) \in Seq(Ids) /\ Range(IdsOf(op.mems)) = EntryIds(op.mems)
  <2>1. \A e \in MemoryEntries : e.id \in Ids
    BY Zenon DEF MemoryEntries, Entries
  <2> QED
    BY SMTT(60), <2>1, IdSequence
<1> op' \in Ops /\ op'.k = "requeue" /\ op'.ids = IdsOf(op.mems) /\ op'.refs = <<>> /\ op'.mems = op.mems
  <2>1. "requeue" \in OpKinds /\ "failed" \in Kinds /\ <<>> \in Seq(Refs)
    BY DEF OpKinds, Kinds
  <2> QED
    BY Zenon, <2>1 DEF Operation, Ops
<1>1. QueueTypes'
  BY Zenon DEF Inv, PlaceInv, QueueTypes, claimVars, waitVars, bootVars
<1> EnqueuedId = {} /\ EnqueuedId' = {} /\ retrying' = retrying /\ parked' = parked
  BY Zenon DEF EnqueuedId, waitVars
<1>2. OnePlace'
  BY ZenonT(60), EmptyEntries DEF Inv, PlaceInv, OnePlace, Callers
<1>3. OpShape'
  BY Zenon DEF OpShape, bootVars
<1>4. Placed' \subseteq arrived'
  BY Zenon, EmptyEntries DEF Inv, PlaceInv, Placed
<1>5. Held' = Held
  <2>1. Held = HeldOf(diskRefs, inflight, op.refs) /\ Held' = HeldOf(diskRefs', inflight', op'.refs)
    BY Zenon, HeldTypes, HeldIsNext DEF Inv, PlaceInv, QueueTypes
  <2>2. Pairs(diskRefs') = Pairs(op.refs) \cup Pairs(diskRefs)
    BY Zenon, PairsJoined
  <2> QED
    BY Zenon, <2>1, <2>2, PairsEmpty DEF HeldOf
<1>6. LogInv'
  BY Zenon, <1>5, CalmStep DEF bootVars
<1> QED
  BY Zenon, <1>1, <1>2, <1>3, <1>4, <1>6 DEF Inv, PlaceInv

\* enqueueFrontUnlocked putting one nacked item back into memory.
LEMMA RequeueMemoryInv ==
  ASSUME Inv, RequeueMemory
  PROVE  Inv'
<1> DEFINE e == Last(op.mems)
<1> /\ mem' = <<e>> \o Reverse(mem)
    /\ UNCHANGED <<storeVars, diskRefs, inflight, claimVars, lowest, closed, waitVars, arrived, acked,
                   dropped, unrecorded, refused, flushFailed, bootVars>>
  BY Zenon DEF RequeueMemory, EnqueueFront
<1> /\ up /\ op.refs = <<>> /\ e \in MemoryEntries /\ e.id \in arrived
    /\ op' \in Ops /\ op'.k = "requeue" /\ op'.ids = op.ids /\ op'.refs = <<>>
    /\ EntryIds(op.mems) = EntryIds(op'.mems) \cup {e.id}
    /\ DistinctIds(op'.mems) /\ e.id \notin EntryIds(op'.mems) /\ e.id \notin EntryIds(mem)
    /\ e.id \notin EntryIds(diskRefs) /\ e.id \notin DOMAIN inflight /\ e.id \notin Callers
    /\ EnqueuedId = {} /\ EnqueuedId' = {}
  BY Zenon, LastOfMems DEF RequeueMemory
<1> HIDE DEF e
<1> mem' \in Seq(MemoryEntries) /\ EntryIds(mem') = EntryIds(mem) \cup {e.id} /\ DistinctIds(mem')
  <2>1. mem \in Seq(MemoryEntries) /\ DistinctIds(mem)
    BY Zenon DEF Inv, PlaceInv, QueueTypes, OnePlace
  <2> QED
    BY Zenon, <2>1, MemReturned
<1>1. QueueTypes'
  BY Zenon DEF Inv, PlaceInv, QueueTypes, claimVars, waitVars, bootVars
<1>2. OnePlace'
  BY EmptyEntries DEF Inv, PlaceInv, OnePlace, Callers, waitVars
<1>3. OpShape'
  BY Zenon DEF OpShape, bootVars
<1>4. Placed' \subseteq arrived'
  BY Zenon DEF Inv, PlaceInv, Placed, waitVars
<1>5. Held' = Held
  BY Zenon, HeldTypes, HeldIsNext DEF Inv, PlaceInv, QueueTypes
<1>6. LogInv'
  BY Zenon, <1>5, CalmStep DEF bootVars
<1> QED
  BY Zenon, <1>1, <1>2, <1>3, <1>4, <1>6 DEF Inv, PlaceInv

\* A nacked memory item that no longer fits is spilled: a new reference and a
\* new claim.
LEMMA RequeueSpillInv ==
  ASSUME Inv, RequeueSpill
  PROVE  Inv'
<1> DEFINE e == Last(op.mems)
<1> /\ Spills(e)
    /\ UNCHANGED <<mem, inflight, lowest, closed, waitVars, arrived, acked, dropped, unrecorded,
                   refused, flushFailed, bootVars>>
  BY Zenon DEF RequeueSpill
<1> /\ up /\ op.refs = <<>> /\ e \in MemoryEntries /\ e.id \in arrived
    /\ op' \in Ops /\ op'.k = "requeue" /\ op'.ids = op.ids /\ op'.refs = op.refs
    /\ EntryIds(op.mems) = EntryIds(op'.mems) \cup {e.id} /\ e.id \notin EntryIds(op.refs)
    /\ DistinctIds(op'.mems) /\ e.id \notin EntryIds(op'.mems) /\ e.id \notin EntryIds(mem)
    /\ e.id \notin EntryIds(diskRefs) /\ e.id \notin DOMAIN inflight /\ e.id \notin Callers
    /\ EnqueuedId = {} /\ EnqueuedId' = {}
  BY Zenon, LastOfMems DEF RequeueSpill
<1> HIDE DEF e
<1> /\ LogInv' /\ diskRefs' \in Seq(Refs) /\ underflows' = underflows
    /\ EntryIds(diskRefs') = EntryIds(diskRefs) \cup {e.id} /\ DistinctIds(diskRefs')
  BY Zenon, SpillStep DEF bootVars
<1>1. QueueTypes'
  BY ZenonT(60) DEF Inv, PlaceInv, QueueTypes, waitVars, bootVars
<1>2. OnePlace'
  BY EmptyEntries DEF Inv, PlaceInv, OnePlace, Callers, waitVars
<1>3. OpShape'
  BY Zenon DEF OpShape, bootVars
<1>4. Placed' \subseteq arrived'
  BY Zenon DEF Inv, PlaceInv, Placed, waitVars
<1> QED
  BY Zenon, <1>1, <1>2, <1>3, <1>4 DEF Inv, PlaceInv

\* A nacked memory item with nowhere to go is dropped.
LEMMA RequeueDropInv ==
  ASSUME Inv, RequeueDrop
  PROVE  Inv'
<1> DEFINE e == Last(op.mems)
<1> /\ SpillFails(e) \/ UNCHANGED <<storeVars, diskRefs, claimVars>>
    /\ dropped' = dropped \cup {e.id}
    /\ UNCHANGED <<mem, inflight, lowest, closed, waitVars, arrived, acked, unrecorded, refused,
                   flushFailed, bootVars>>
  BY Zenon DEF RequeueDrop
<1> /\ up /\ op.refs = <<>> /\ e \in MemoryEntries /\ e.id \in arrived /\ e.id \in Ids
    /\ op' \in Ops /\ op'.k = "requeue" /\ op'.ids = op.ids /\ op'.refs = op.refs
    /\ EntryIds(op.mems) = EntryIds(op'.mems) \cup {e.id} /\ DistinctIds(op'.mems)
    /\ EnqueuedId = {} /\ EnqueuedId' = {}
  BY Zenon, LastOfMems DEF RequeueDrop
<1> HIDE DEF e
<1> LogInv' /\ diskRefs' = diskRefs /\ underflows' = underflows
  <2>1. CASE SpillFails(e)
    BY Zenon, <2>1, SpillFailsStep DEF bootVars
  <2>2. CASE UNCHANGED <<storeVars, diskRefs, claimVars>>
    <3>1. Held' = Held
      BY Zenon, <2>2, HeldTypes, HeldIsNext DEF Inv, PlaceInv, QueueTypes
    <3> QED
      BY Zenon, <2>2, <3>1, CalmStep DEF bootVars, claimVars
  <2> QED
    BY Zenon, <2>1, <2>2
<1>1. QueueTypes'
  BY Zenon DEF Inv, PlaceInv, QueueTypes, waitVars, bootVars
<1>2. OnePlace' /\ Placed' \subseteq arrived'
  <2>1. retrying' = retrying /\ parked' = parked /\ retrying \cap parked = {}
    BY Zenon DEF waitVars, Inv, PlaceInv, OnePlace
  <2>2. DistinctIds(mem) /\ DistinctIds(diskRefs) /\ DistinctIds(op.refs) /\ Range(op'.ids) \subseteq arrived
    BY Zenon DEF Inv, PlaceInv, OnePlace, Placed
  <2> QED
    BY Zenon, <2>1, <2>2, ShrinkStep
<1>3. OpShape'
  BY Zenon DEF OpShape, bootVars
<1> QED
  BY Zenon, <1>1, <1>2, <1>3 DEF Inv, PlaceInv

\* compactUnlocked removing the lowest segment: no live reference is in it,
\* because its claim count is exact and zero.
LEMMA CompactRemoveInv ==
  ASSUME Inv, CompactRemove
  PROVE  Inv'
<1> /\ up /\ op.k = "compact" /\ lowest < segmentNum /\ Claimed(lowest) = 0 /\ RemoveOK(lowest)
    /\ lowest' = lowest + 1
    /\ UNCHANGED <<mem, diskRefs, inflight, claimVars, closed, op, waitVars, arrived, acked, dropped,
                   unrecorded, refused, flushFailed, bootVars>>
  BY Zenon DEF CompactRemove, Compactable, Doing
<1> lowest \in Nat /\ LogInv /\ StoreInv /\ QueueTypes /\ segmentNum \in Nat /\ DOMAIN files \subseteq Nat
  BY Zenon DEF Inv, PlaceInv, QueueTypes, LogInv, StoreInv, StoreTypeOK
<1> StoreInv' /\ DOMAIN files' = DOMAIN files \ {lowest} /\ IdsIn(files') \subseteq IdsIn(files)
  BY Zenon, RemoveStep
<1>1. segmentNum' = segmentNum
  BY Zenon DEF RemoveOK
<1>2. OnePlace' /\ Placed' \subseteq arrived' /\ OpShape'
  BY Zenon DEF Inv, PlaceInv, OnePlace, Placed, OpShape, Callers, EnqueuedId, waitVars, bootVars
<1>3. QueueTypes'
  BY DEF QueueTypes, claimVars, waitVars, bootVars
<1> Held' = Held
  BY Zenon, HeldTypes, HeldIsNext DEF QueueTypes
<1>4. ClaimsOK' /\ Counts'
  BY Zenon, CountsKept DEF LogInv
<1>5. \A h \in Held : h[2] # lowest
  BY Zenon, UnclaimedNotHeld
<1>6. Backed'
  <2>1. \A h \in Held' : h[2] \in DOMAIN files'
    BY Zenon, <1>5 DEF LogInv, Backed
  <2>2. ASSUME Spill
        PROVE  segmentNum' \in DOMAIN files' /\ \A m \in DOMAIN files' : lowest' <= m
    BY <1>1, <2>2 DEF LogInv, Backed
  <2> QED
    BY Zenon, <2>1, <2>2 DEF Backed
<1>7. IdsIn(files') \subseteq arrived'
  BY Zenon DEF LogInv
<1> QED
  BY Zenon, <1>2, <1>3, <1>4, <1>6, <1>7 DEF Inv, PlaceInv, LogInv

\* The end of compactUnlocked, a failed removal included.
LEMMA CompactEndInv ==
  ASSUME Inv, CompactEnd
  PROVE  Inv'
<1> /\ up /\ op.k = "compact" /\ op' = Idle /\ waiting' = (waiting \/ op.flag)
    /\ UNCHANGED storeVars \/ RemoveFail(lowest)
    /\ UNCHANGED <<mem, diskRefs, inflight, claimVars, lowest, closed, retrying, parked, arrived,
                   acked, dropped, unrecorded, refused, flushFailed, bootVars>>
  BY Zenon DEF CompactEnd, Doing, Return
<1> /\ op' \in Ops /\ op'.k = "idle" /\ op'.refs = <<>> /\ op'.mems = <<>> /\ Range(op'.ids) = {}
    /\ op.refs = <<>> /\ op.mems = <<>>
  BY ZenonT(60), StartedOps, EmptyEntries DEF Inv, PlaceInv, OpShape
<1>1. waiting' \in BOOLEAN
  BY Zenon DEF Inv, PlaceInv, QueueTypes, Ops
<1>2. StoreInv' /\ files' = files /\ segmentNum' = segmentNum
  <2> lowest \in Nat /\ StoreInv
    BY Zenon DEF Inv, PlaceInv, QueueTypes, LogInv
  <2>1. CASE UNCHANGED storeVars
    BY Zenon, <2>1, SameStore DEF storeVars
  <2>2. CASE RemoveFail(lowest)
    BY Zenon, <2>2, RemoveStep
  <2> QED
    BY Zenon, <2>1, <2>2
<1> OnePlace' /\ OpShape' /\ Placed' \subseteq arrived' /\ Held' = Held
  <2>1. retrying' \cup parked' \subseteq retrying \cup parked /\ retrying' \cap parked' = {}
    BY Zenon DEF Inv, PlaceInv, OnePlace
  <2> QED
    BY Zenon, <2>1, OpStep DEF bootVars
<1>3. QueueTypes'
  BY Zenon, <1>1 DEF Inv, PlaceInv, QueueTypes, claimVars, bootVars
<1>4. LogInv'
  BY Zenon, <1>2, SameFilesStep DEF bootVars
<1> QED
  BY Zenon, <1>3, <1>4 DEF Inv, PlaceInv

\* Every step of a settlement and of compaction preserves the invariant.
LEMMA ReturnInv ==
  ASSUME Inv, SettleStep \/ CompactStep
  PROVE  Inv'
<1>1. CASE Ack \/ Drop \/ Nack
  <2>1. "failed" \in Kinds /\ NackKinds \subseteq Kinds
    BY Zenon, QueueAssumption DEF Kinds
  <2> QED
    BY Zenon, <1>1, <2>1, SettleInv DEF Ack, Drop, Nack
<1>2. CASE SettleStep /\ ~(Ack \/ Drop \/ Nack)
  BY Zenon, <1>2, SkipIdInv, AckOneInv, AckFailsInv, DropOneInv, NackRetireInv, NackCollectInv, NackRefsInv,
     RequeueMemoryInv, RequeueSpillInv, RequeueDropInv, SettleEndInv DEF SettleStep
<1>3. CASE CompactStep
  BY Zenon, <1>3, CompactRemoveInv, CompactEndInv DEF CompactStep
<1> QED
  BY Zenon, <1>1, <1>2, <1>3

-----------------------------------------------------------------------------
(***************************************************************************)
(* The items.                                                              *)
(***************************************************************************)

\* An inflight item leaves the queue: settled in memory, or in the log.
LEMMA RetiredFlow ==
  ASSUME Inv, ~storeClosed, op.k \in {"ack", "drop", "nack"}, op.ids # <<>>, Head(op.ids) \in DOMAIN inflight,
         Running, NEW e, e = inflight[Head(op.ids)],
         inflight' = InflightWithout(Head(op.ids)), op' = NextIds,
         OnDisk(e) => WriteOK(AckRecord(e.id)) \/ WriteFail(AckRecord(e.id)),
         ~OnDisk(e) => UNCHANGED storeVars,
         UNCHANGED <<mem, diskRefs, retrying, parked, arrived, refused, flushFailed>>,
         acked' \cup dropped' \cup unrecorded' = acked \cup dropped \cup unrecorded \cup {e.id}
  PROVE  (OnDisk(e) /\ SettleFlow(e.id)) \/ (~OnDisk(e) /\ MemoryFlow({}, {e.id}))
<1> e.id = Head(op.ids) /\ e.id \in DOMAIN inflight /\ e = inflight[e.id] /\ inflight' = InflightWithout(e.id)
  BY Zenon, InflightEntry
<1> op'.k = op.k /\ op'.refs = op.refs /\ op'.mems = op.mems /\ StoreInv
  BY Zenon, NextIdsOp DEF Inv, LogInv
<1> EnqueuedId = {} /\ EnqueuedId' = {} /\ BootIds = {} /\ BootIds' = {}
  BY Zenon DEF EnqueuedId, BootIds
<1> Settled' = Settled \cup {e.id}
  BY Zenon DEF Settled
<1> /\ OnDisk(e) => /\ OutRefs = OutRefs' \cup {e} /\ \A r \in OutRefs' : r.id # e.id
                    /\ MemoryInflight' = MemoryInflight
    /\ ~OnDisk(e) => /\ OutRefs' = OutRefs /\ MemoryInflight' = MemoryInflight \ {e.id}
                     /\ e.id \in MemoryInflight
  BY Zenon, PutBack
<1> e.id \notin EntryIds(mem) /\ e.id \notin EntryIds(diskRefs) /\ e.id \notin EntryIds(op.refs)
    /\ e.id \notin EntryIds(op.mems) /\ e.id \notin Callers
  BY Zenon DEF Inv, PlaceInv, OnePlace
<1>1. CASE OnDisk(e)
  <2>1. LiveRefs = LiveRefs' \cup {e}
    BY Zenon, <1>1, LiveRefsAre
  <2>2. \A r \in LiveRefs' : r.id # e.id
    <3>1. /\ \A r \in Range(diskRefs) : r.id \in EntryIds(diskRefs)
          /\ \A r \in Range(op.refs) : r.id \in EntryIds(op.refs)
      BY Zenon DEF Range, EntryIds
    <3> QED
      BY Zenon, <1>1, <3>1, LiveRefsAre
  <2>3. Spots' = {s \in Spots : s[1] # e.id} /\ e.id \in LoggedIds
    BY <2>1, <2>2, SpotsLess DEF LoggedIds
  <2>4. VolatileIds' = VolatileIds
    BY Zenon, <1>1 DEF VolatileIds, Callers
  <2> QED
    BY Zenon, <1>1, <2>3, <2>4 DEF SettleFlow
<1>2. CASE ~OnDisk(e)
  <2>1. LiveRefs' = LiveRefs
    BY ZenonT(60), <1>2, LiveRefsAre
  <2>2. VolatileIds' = VolatileIds \ {e.id} /\ e.id \in VolatileIds
    BY <1>2 DEF VolatileIds, Callers
  <2>3. LogKept /\ Spots' = Spots
    BY Zenon, <1>2, <2>1, LogKeptBy DEF Spots
  <2> QED
    BY Zenon, <1>2, <2>2, <2>3 DEF MemoryFlow
<1> QED
  BY Zenon, <1>1, <1>2

\* Ack, Drop and the last nack.
LEMMA SettleOneFlow ==
  ASSUME Inv, ControlInv, AckOne \/ DropOne \/ NackRetire
  PROVE  \E i \in Ids : SettleFlow(i) \/ MemoryFlow({}, {i})
<1> DEFINE e == inflight[Head(op.ids)]
<1> /\ op.k \in {"ack", "drop", "nack"} /\ op.ids # <<>> /\ Head(op.ids) \in DOMAIN inflight /\ Running
    /\ inflight' = InflightWithout(Head(op.ids)) /\ op' = NextIds
    /\ UNCHANGED <<mem, diskRefs, retrying, parked, arrived, refused, flushFailed>>
  BY Zenon DEF AckOne, DropOne, NackRetire, Settling, Doing, Running, waitVars, bootVars
<1>1. ~storeClosed
  BY Zenon DEF ControlInv
<1> e.id = Head(op.ids) /\ e.id \in Ids
  BY Zenon, InflightEntry, NextIdsOp
<1>2. /\ OnDisk(e) => WriteOK(AckRecord(e.id)) \/ WriteFail(AckRecord(e.id))
      /\ ~OnDisk(e) => UNCHANGED storeVars
  BY Zenon DEF AckOne, DropOne, NackRetire, RetireInflight, SettleDroppedRef
<1>3. acked' \cup dropped' \cup unrecorded' = acked \cup dropped \cup unrecorded \cup {e.id}
  BY Zenon DEF AckOne, DropOne, NackRetire, RetireInflight
<1>4. e = inflight[Head(op.ids)]
  BY Zenon
<1> HIDE DEF e
<1>5. SettleFlow(e.id) \/ MemoryFlow({}, {e.id})
  BY Zenon, <1>1, <1>2, <1>3, <1>4, RetiredFlow
<1> QED
  BY Zenon, <1>5

\* A nacked item is collected: its reference keeps its spot.
LEMMA NackCollectFlow ==
  ASSUME Inv, NackCollect
  PROVE  MemoryFlow({}, {})
<1> DEFINE i == Head(op.ids)
           e == inflight[i]
           f == Nacked(e)
<1> /\ op.k = "nack" /\ op.ids # <<>> /\ i \in DOMAIN inflight /\ Running /\ inflight' = InflightWithout(i)
    /\ op' = IF OnDisk(f) THEN [NextIds EXCEPT !.refs = Append(@, f)] ELSE [NextIds EXCEPT !.mems = Append(@, f)]
    /\ UNCHANGED <<storeVars, mem, diskRefs, retrying, parked, arrived, acked, dropped, unrecorded, refused, flushFailed>>
  BY Zenon DEF NackCollect, Settling, Doing, Running, waitVars, bootVars
<1> e \in Entries /\ e.id = i
  BY Zenon, InflightEntry
<1> f \in Entries /\ f.id = i /\ f.seg = e.seg /\ f.pos = e.pos
  BY Zenon, NackedEntry DEF NackCollect
<1> NextIds \in Ops /\ NextIds.k = "nack" /\ NextIds.refs = op.refs /\ NextIds.mems = op.mems
    /\ op.refs \in Seq(Refs) /\ op.mems \in Seq(MemoryEntries) /\ StoreInv
  BY Zenon, NextIdsOp DEF Inv, LogInv, PlaceInv, QueueTypes, Ops
<1> Spot(f) = Spot(e) /\ (OnDisk(f) <=> OnDisk(e))
  BY Zenon DEF Spot, OnDisk
<1> /\ OnDisk(f) => f \in Refs /\ op'.refs = Append(op.refs, f) /\ op'.mems = op.mems
    /\ ~OnDisk(f) => f \in MemoryEntries /\ op'.refs = op.refs /\ op'.mems = Append(op.mems, f)
    /\ op'.k = "nack"
  BY Zenon DEF Ops, Refs, MemoryEntries, OnDisk
<1> /\ OnDisk(e) => OutRefs = OutRefs' \cup {e} /\ MemoryInflight' = MemoryInflight
    /\ ~OnDisk(e) => OutRefs' = OutRefs /\ MemoryInflight' = MemoryInflight \ {i} /\ i \in MemoryInflight
  BY Zenon, PutBack
<1> HIDE DEF i, e, f
<1> EnqueuedId = {} /\ EnqueuedId' = {} /\ BootIds = {} /\ BootIds' = {} /\ Settled' = Settled /\ LogKept
  BY Zenon, LogKeptBy DEF EnqueuedId, BootIds, Settled
<1>1. CASE OnDisk(f)
  <2>1. Range(op'.refs) = Range(op.refs) \cup {f}
    <3>1. f \in Refs /\ op.refs \in Seq(Refs) /\ op'.refs = Append(op.refs, f)
      BY Zenon, <1>1
    <3> QED
      BY <3>1, AppendEntries
  <2> DEFINE R == Range(diskRefs) \cup OutRefs' \cup Range(op.refs)
  <2>2. LiveRefs = R \cup {e} /\ LiveRefs' = R \cup {f}
    BY Zenon, <1>1, <2>1, LiveRefsAre
  <2> HIDE DEF R
  <2>3. Spots' = Spots
    BY Zenon, <2>2 DEF Spots
  <2>4. VolatileIds' = VolatileIds
    BY Zenon, <1>1 DEF VolatileIds, Callers
  <2> QED
    BY Zenon, <2>3, <2>4 DEF MemoryFlow
<1>2. CASE ~OnDisk(f)
  <2>1. EntryIds(op'.mems) = EntryIds(op.mems) \cup {i}
    <3>1. f \in MemoryEntries /\ op.mems \in Seq(MemoryEntries) /\ op'.mems = Append(op.mems, f)
      BY Zenon, <1>2
    <3> QED
      BY <3>1, AppendEntries
  <2>2. LiveRefs' = LiveRefs
    BY Zenon, <1>2, LiveRefsAre
  <2>3. VolatileIds' = VolatileIds
    BY Zenon, <1>2, <2>1 DEF VolatileIds, Callers
  <2> QED
    BY Zenon, <2>2, <2>3 DEF MemoryFlow, Spots
<1> QED
  BY Zenon, <1>1, <1>2

\* The collected references go to the front of the queue.
LEMMA NackRefsFlow ==
  ASSUME Inv, NackRefs
  PROVE  MemoryFlow({}, {})
<1> /\ op.k = "nack" /\ Running /\ diskRefs' = op.refs \o diskRefs
    /\ op' = Operation("requeue", IdsOf(op.mems), op.mems, "failed", FALSE)
    /\ UNCHANGED <<storeVars, mem, inflight, retrying, parked, arrived, acked, dropped, unrecorded, refused, flushFailed>>
  BY Zenon DEF NackRefs, Doing, Running, waitVars, bootVars
<1> op'.k = "requeue" /\ op'.refs = <<>> /\ op'.mems = op.mems
  BY Zenon DEF Operation
<1> op.refs \in Seq(Refs) /\ diskRefs \in Seq(Refs) /\ StoreInv
  BY Zenon DEF Inv, LogInv, PlaceInv, QueueTypes, Ops
<1>1. Range(diskRefs') = Range(op.refs) \cup Range(diskRefs)
  <2>1. diskRefs' = op.refs \o diskRefs
    BY Zenon
  <2> QED
    BY <2>1, ConcatEntries
<1> OutRefs' = OutRefs /\ MemoryInflight' = MemoryInflight
  BY Zenon DEF OutRefs, DiskInflight, MemoryInflight
<1>2. LiveRefs' = LiveRefs
  BY Zenon, <1>1, LiveRefsAre, EmptyEntries
<1> EnqueuedId = {} /\ EnqueuedId' = {} /\ BootIds = {} /\ BootIds' = {} /\ Settled' = Settled /\ LogKept
  BY Zenon, LogKeptBy DEF EnqueuedId, BootIds, Settled
<1>3. VolatileIds' = VolatileIds
  BY Zenon DEF VolatileIds, Callers
<1> QED
  BY Zenon, <1>2, <1>3 DEF MemoryFlow, Spots

\* The collected memory items go back to memory, to the log, or nowhere.
LEMMA RequeueFlow ==
  ASSUME Inv, RequeueMemory \/ RequeueSpill \/ RequeueDrop
  PROVE  LET e == Last(op.mems)
         IN  /\ e.id \in Ids /\ e.att \in Attempts
             /\ MemoryFlow({}, {}) \/ SpillFlow(e.id, e.att) \/ MemoryFlow({}, {e.id})
<1> DEFINE e == Last(op.mems)
<1> /\ Requeuing /\ Requeued /\ UNCHANGED <<inflight, waitVars, arrived, acked, unrecorded, refused, flushFailed, bootVars>>
  BY Zenon DEF RequeueMemory, RequeueSpill, RequeueDrop
<1> /\ up /\ op.k = "requeue" /\ op.refs = <<>> /\ op'.k = "requeue" /\ op'.refs = <<>>
    /\ e \in MemoryEntries /\ e.id \in Ids
    /\ EntryIds(op.mems) = EntryIds(op'.mems) \cup {e.id} /\ e.id \notin EntryIds(op'.mems)
    /\ e.id \notin EntryIds(mem) /\ e.id \notin DOMAIN inflight
  BY Zenon, LastOfMems
<1> e.id \notin Callers
  BY Zenon DEF Inv, PlaceInv, OnePlace
<1> StoreInv /\ mem \in Seq(MemoryEntries) /\ e.att \in Attempts
  BY Zenon DEF Inv, PlaceInv, LogInv, QueueTypes, MemoryEntries, Entries
<1> Running /\ UNCHANGED <<retrying, parked>>
  BY Zenon DEF Running, bootVars, waitVars
<1> EnqueuedId = {} /\ EnqueuedId' = {} /\ BootIds = {} /\ BootIds' = {}
  BY Zenon DEF EnqueuedId, BootIds
<1> OutRefs' = OutRefs /\ MemoryInflight' = MemoryInflight /\ e.id \notin MemoryInflight
  BY Zenon DEF OutRefs, DiskInflight, MemoryInflight
<1>1. CASE RequeueMemory
  <2> mem' = <<e>> \o Reverse(mem) /\ UNCHANGED <<storeVars, diskRefs, dropped>>
    BY Zenon, <1>1 DEF RequeueMemory, EnqueueFront
  <2> HIDE DEF e
  <2>1. EntryIds(mem') = EntryIds(mem) \cup {e.id}
    BY Zenon, MemReturned
  <2>2. VolatileIds' = VolatileIds
    BY Zenon, <2>1 DEF VolatileIds, Callers
  <2>3. LiveRefs' = LiveRefs
    BY Zenon, LiveRefsAre
  <2>4. MemoryFlow({}, {})
    BY Zenon, <2>2, <2>3, LogKeptBy DEF MemoryFlow, Settled, Spots
  <2> QED
    BY Zenon, <2>4 DEF e
<1>2. CASE RequeueSpill
  <2> Spills(e) /\ UNCHANGED <<mem, dropped>>
    BY Zenon, <1>2 DEF RequeueSpill
  <2>1. op'.refs = op.refs /\ inflight' = inflight
    BY Zenon
  <2> HIDE DEF e
  <2>2. Spots' = Spots \cup {<<e.id, Location.seg, Location.pos>>} /\ WriteOK(ItemRecord(e.id, e.att))
    BY Zenon, <2>1, SpillSpots
  <2>3. VolatileIds' = VolatileIds \ {e.id} /\ e.id \in VolatileIds
    BY ZenonT(60) DEF VolatileIds, Callers
  <2>4. SpillFlow(e.id, e.att)
    BY Zenon, <2>2, <2>3 DEF SpillFlow, Settled
  <2> QED
    BY Zenon, <2>4 DEF e
<1>3. CASE RequeueDrop
  <2> /\ mem' = mem /\ diskRefs' = diskRefs /\ dropped' = dropped \cup {e.id}
      /\ SpillFails(e) \/ UNCHANGED storeVars
    BY Zenon, <1>3 DEF RequeueDrop, SpillFails
  <2> HIDE DEF e
  <2>1. VolatileIds' = VolatileIds \ {e.id} /\ e.id \in VolatileIds
    BY ZenonT(60) DEF VolatileIds, Callers
  <2>2. LiveRefs' = LiveRefs /\ LogKept
    BY Zenon, LiveRefsAre, LogKeptBy
  <2>3. MemoryFlow({}, {e.id})
    BY Zenon, <2>1, <2>2 DEF MemoryFlow, Settled, Spots
  <2> QED
    BY Zenon, <2>3 DEF e
<1> QED
  BY Zenon, <1>1, <1>2, <1>3

\* The flows of compaction, Close and New.
LEMMA CompactRemoveFlow ==
  ASSUME CompactRemove
  PROVE  CompactFlow
<1> /\ op.k = "compact" /\ Running /\ Claimed(lowest) = 0 /\ Spill /\ RemoveOK(lowest)
    /\ UNCHANGED <<mem, diskRefs, inflight, op, waitVars, arrived, acked, dropped, unrecorded, refused, flushFailed>>
  BY Zenon DEF CompactRemove, Doing, Compactable, Running, bootVars
<1>1. VolatileIds' = VolatileIds /\ Settled' = Settled
  BY Zenon DEF VolatileIds, Callers, EnqueuedId, MemoryInflight, Settled, waitVars
<1>2. Spots' = Spots
  BY DEF Spots, LiveRefs, DiskInflight, MemoryInflight
<1> QED
  BY Zenon, <1>1, <1>2 DEF CompactFlow, BootIds

\* Ack, Drop and nack take the lock, skip an id, or are done, and compaction
\* stops: nothing moves.
LEMMA SettleCalm ==
  ASSUME Inv, SkipId \/ AckFails \/ SettleEnd \/ CompactEnd \/ Ack \/ Drop \/ Nack
  PROVE  MemoryFlow({}, {})
<1> DEFINE Still == Running /\ UNCHANGED <<mem, diskRefs, inflight, arrived, acked, dropped, unrecorded, refused, flushFailed>>
<1> StoreInv
  BY Zenon DEF Inv, LogInv
<1>1. CASE Ack \/ Drop \/ Nack
  <2>1. ASSUME NEW k, NEW kind, k \notin {"enqueue", "boot"}, Settle(k, kind) PROVE MemoryFlow({}, {})
    <3>1. op = Idle /\ UNCHANGED storeVars /\ UNCHANGED waitVars /\ Still
      BY Zenon, <2>1 DEF Settle, Free, Running, bootVars
    <3>2. \E ids : op' = Operation(k, ids, <<>>, kind, FALSE)
      BY Zenon, <2>1 DEF Settle
    <3>3. LogKept
      BY Zenon, <3>1, LogKeptBy
    <3> QED
      BY Zenon, <2>1, <3>1, <3>2, <3>3, LockFlow
  <2> QED
    BY Zenon, <1>1, <2>1 DEF Ack, Drop, Nack
<1>2. CASE AckFails \/ SettleEnd
  <2>1. /\ op.k \in {"ack", "drop"} \/ (op.k = "requeue" /\ op.mems = <<>>)
        /\ op' = Start("compact", <<>>) /\ Broadcast /\ Still
    BY Zenon, <1>2 DEF AckFails, SettleEnd, Settling, Doing, FinishAndWake, Running, bootVars
  <2>2. LogKept
    BY Zenon, <1>2, LogKeptBy DEF AckFails, SettleEnd
  <2> QED
    BY Zenon, <2>1, <2>2, LockFlow
<1>3. CASE CompactEnd
  <2>1. op.k = "compact" /\ op' = Idle /\ UNCHANGED <<retrying, parked>> /\ Still
    BY Zenon, <1>3 DEF CompactEnd, Doing, Return, Running, bootVars
  <2>2. LogKept
    BY Zenon, <1>3, LogKeptBy DEF CompactEnd, Compactable
  <2> QED
    BY Zenon, <2>1, <2>2, LockFlow
<1>4. CASE SkipId
  <2> /\ op.k \in {"ack", "drop", "nack"} /\ op.ids # <<>> /\ op' = NextIds
      /\ UNCHANGED storeVars /\ UNCHANGED waitVars /\ Still
    BY Zenon, <1>4 DEF SkipId, Settling, Doing, Running, bootVars
  <2>1. op'.k = op.k /\ op'.refs = op.refs /\ op'.mems = op.mems
    BY Zenon, NextIdsOp
  <2>2. EnqueuedId = {} /\ EnqueuedId' = {} /\ BootIds = {} /\ BootIds' = {}
    BY Zenon, <2>1 DEF EnqueuedId, BootIds
  <2>3. retrying' \cup parked' = retrying \cup parked /\ LogKept
    BY Zenon, LogKeptBy DEF waitVars
  <2> QED
    BY Zenon, <2>1, <2>2, <2>3, CalmFlow
<1> QED
  BY Zenon, <1>1, <1>2, <1>3, <1>4

\* Every step of a settlement and of compaction is a flow.
LEMMA ReturnFlow ==
  ASSUME Inv, ControlInv, SettleStep \/ CompactStep
  PROVE  ItemFlow
<1>1. CASE AckOne \/ DropOne \/ NackRetire
  BY Zenon, <1>1, SettleOneFlow, FlowsAre
<1>2. CASE RequeueMemory \/ RequeueSpill \/ RequeueDrop
  BY Zenon, <1>2, RequeueFlow, FlowsAre
<1>3. CASE CompactRemove
  BY Zenon, <1>3, CompactRemoveFlow, FlowsAre
<1> QED
  BY Zenon, <1>1, <1>2, <1>3, SettleCalm, NackCollectFlow, NackRefsFlow, FlowsAre DEF SettleStep, CompactStep

-----------------------------------------------------------------------------
(***************************************************************************)
(* The waiting consumer and the closed store.                              *)
(***************************************************************************)

\* A settlement broadcasts at its end, after the nacked items are back.
LEMMA SettleControl ==
  ASSUME Inv, ControlInv, SettleStep
  PROVE  ControlInv'
<1> USE FreshOp, WritesKeepClosed DEF ControlInv, Sleeping, Quiet, Free, Doing, waitVars, bootVars
<1>1. op \in Ops
  BY Zenon DEF Inv, PlaceInv, QueueTypes
<1>2. ASSUME NEW k \in {"ack", "drop", "nack"}, NEW kind, Settle(k, kind) PROVE ControlInv'
  <2>1. PICK ids : op' = Operation(k, ids, <<>>, kind, FALSE)
    BY Zenon, <1>2 DEF Settle
  <2> op'.k = k /\ op.k = "idle" /\ ~closed /\ UNCHANGED <<storeVars, mem, diskRefs, closed, waiting, up>> /\ up
    BY Zenon, <1>2, <2>1 DEF Settle, Operation
  <2>2. storeClosed' = storeClosed
    BY Zenon
  <2> QED
    BY Zenon, <2>2
<1>3. CASE SkipId \/ AckOne \/ DropOne \/ NackRetire
  <2>1. /\ op.k \in {"ack", "drop", "nack"} /\ op.ids # <<>> /\ op' = NextIds
        /\ UNCHANGED <<mem, diskRefs, closed, waiting, up>>
    BY Zenon, <1>3 DEF SkipId, AckOne, DropOne, NackRetire, Settling
  <2>2. storeClosed' = storeClosed
    BY Zenon, <1>3 DEF SkipId, AckOne, DropOne, NackRetire, RetireInflight
  <2> QED
    BY Zenon, <2>1, <2>2, NextIdsOp
<1>4. CASE NackCollect
  <2> /\ op.k = "nack" /\ op.ids # <<>> /\ NextIds \in Ops /\ NextIds.k = "nack"
      /\ UNCHANGED <<mem, diskRefs, closed, waiting, up>>
    BY Zenon, <1>4, NextIdsOp DEF NackCollect, Settling
  <2>1. \A x : [NextIds EXCEPT !.refs = x].k = NextIds.k /\ [NextIds EXCEPT !.mems = x].k = NextIds.k
    BY Zenon DEF Ops
  <2>2. op'.k = "nack" /\ storeClosed' = storeClosed
    BY Zenon, <1>4, <2>1 DEF NackCollect
  <2> QED
    BY Zenon, <2>2
<1>5. CASE NackRefs
  <2> op.k = "nack" /\ op'.k = "requeue" /\ up /\ UNCHANGED <<storeVars, mem, closed, waiting, up>>
    BY Zenon, <1>5 DEF NackRefs, Operation
  <2>1. storeClosed' = storeClosed
    BY Zenon
  <2> QED
    BY Zenon, <2>1
<1>6. CASE RequeueMemory \/ RequeueSpill \/ RequeueDrop
  <2> Requeuing /\ Requeued /\ UNCHANGED <<closed, waiting, up>>
    BY Zenon, <1>6 DEF RequeueMemory, RequeueSpill, RequeueDrop
  <2>1. op.k = "requeue" /\ op'.k = "requeue" /\ up
    BY Zenon, LastOfMems
  <2>2. storeClosed' = storeClosed
    BY Zenon, <1>6 DEF RequeueMemory, RequeueSpill, RequeueDrop
  <2> QED
    BY Zenon, <2>1, <2>2
<1>7. CASE SettleEnd \/ AckFails
  <2>1. /\ op'.k = "compact" /\ ~op'.flag /\ waiting' = FALSE /\ storeClosed' = storeClosed
        /\ up /\ op.k \in {"ack", "drop", "requeue"} /\ UNCHANGED up
    BY <1>7 DEF SettleEnd, AckFails, FinishAndWake, Broadcast, Settling
  <2> QED
    BY ZenonT(60), <2>1
<1> QED
  BY Zenon, <1>2, <1>3, <1>4, <1>5, <1>6, <1>7 DEF SettleStep, Ack, Drop, Nack

\* Compaction is the last step of an operation: a consumer that pulled
\* nothing goes to sleep.
LEMMA CompactControl ==
  ASSUME Inv, ControlInv, CompactStep
  PROVE  ControlInv'
<1> USE FreshOp, WritesKeepClosed DEF ControlInv, Sleeping, Quiet, Free, Doing, waitVars, bootVars
<1> op \in Ops /\ op.flag \in BOOLEAN /\ waiting \in BOOLEAN
  BY ZenonT(60) DEF Inv, PlaceInv, QueueTypes, Ops
<1>1. CASE CompactRemove
  BY <1>1 DEF CompactRemove
<1>2. CASE CompactEnd
  <2>1. /\ op.k = "compact" /\ op'.k = "idle" /\ (waiting' => waiting \/ op.flag)
        /\ up /\ UNCHANGED <<mem, diskRefs, closed, up>>
    BY Zenon, <1>2 DEF CompactEnd, Return
  <2>2. storeClosed' = storeClosed
    BY Zenon, <1>2 DEF CompactEnd
  <2> QED
    BY Zenon, <2>1, <2>2
<1> QED
  BY Zenon, <1>1, <1>2 DEF CompactStep

\* Only a call that holds the lock moves.
LEMMA ReturnHolder ==
  ASSUME SettleStep \/ CompactStep
  PROVE  up /\ op.k \in {"idle", "ack", "drop", "nack", "requeue", "compact"}
<1>1. ASSUME CompactStep PROVE up /\ op.k = "compact"
  BY Zenon, <1>1 DEF CompactStep, CompactRemove, CompactEnd, Doing
<1>2. ASSUME Ack \/ Drop \/ Nack PROVE up /\ op = Idle
  BY Zenon, <1>2 DEF Ack, Drop, Nack, Settle, Free
<1>3. ASSUME SkipId \/ AckOne \/ AckFails \/ DropOne PROVE up /\ (op.k = "ack" \/ op.k = "drop" \/ op.k = "nack")
  BY Zenon, <1>3 DEF SkipId, AckOne, AckFails, DropOne, Settling, Doing
<1>4. ASSUME NackRetire \/ NackCollect \/ NackRefs PROVE up /\ op.k = "nack"
  BY Zenon, <1>4 DEF NackRetire, NackCollect, NackRefs, Settling, Doing
<1>5. ASSUME RequeueMemory \/ RequeueSpill \/ RequeueDrop PROVE up /\ op.k = "requeue"
  BY Zenon, <1>5 DEF RequeueMemory, RequeueSpill, RequeueDrop, Requeuing, Doing
<1>6. ASSUME SettleEnd PROVE up /\ (op.k = "ack" \/ op.k = "drop" \/ op.k = "requeue")
  BY Zenon, <1>6 DEF SettleEnd, Doing
<1> QED
  BY Zenon, <1>1, <1>2, <1>3, <1>4, <1>5, <1>6, FreshOp DEF SettleStep

\* A nack that charges nothing retires nothing, when no count is foreign bytes.
LEMMA UnchargedNackStep ==
  ASSUME ~Cuts, Inv, SettleStep, Settling("nack"), op.kind = "uncharged"
  PROVE  UNCHANGED <<dropped, unrecorded>>
<1> op.k = "nack" /\ op # Idle /\ op.ids # <<>>
  BY Zenon, FreshOp DEF Settling, Doing
<1>1. CASE SkipId \/ NackCollect
  BY Zenon, <1>1 DEF SkipId, NackCollect
<1>2. ~NackRetire
  <2>1. SUFFICES ASSUME NackRetire PROVE FALSE
    BY Zenon
  <2> Head(op.ids) \in DOMAIN inflight /\ Retires(inflight[Head(op.ids)])
    BY Zenon, <2>1 DEF NackRetire
  <2>2. inflight[Head(op.ids)].att \in Attempts
    BY Zenon, InflightEntry DEF Entries
  <2> QED
    BY <2>2, StoreAssumption DEF Attempts, Retires, Nacked, Charges
<1>3. ~(Ack \/ Drop \/ Nack)
  BY Zenon DEF Ack, Drop, Nack, Settle, Free
<1>4. ~(AckOne \/ AckFails \/ DropOne \/ SettleEnd)
  BY Zenon DEF AckOne, AckFails, DropOne, SettleEnd, Settling, Doing
<1>5. ~(NackRefs \/ RequeueMemory \/ RequeueSpill \/ RequeueDrop)
  BY Zenon DEF NackRefs, RequeueMemory, RequeueSpill, RequeueDrop, Requeuing, Doing
<1> QED
  BY Zenon, <1>1, <1>2, <1>3, <1>4, <1>5 DEF SettleStep
=============================================================================
