--------------------------- MODULE QueueLogProofs ---------------------------
(***************************************************************************)
(* What the log holds. As long as no file operation has failed and no      *)
(* crash has torn a record, the log and the queue agree: the outstanding   *)
(* items of the directory are the items the queue has references to, each  *)
(* where its reference says.                                               *)
(***************************************************************************)
EXTENDS LogInvariants, QueueStateProofs, QueueCustody

\* New takes over what the log has pending.
LEMMA NewFlow ==
  ASSUME Inv, New
  PROVE  /\ ~up /\ up' /\ VolatileIds' = {} /\ DOMAIN inflight' = {}
         /\ UNCHANGED <<arrived, lost, crashes, flushFailed>> /\ Settled' = Settled /\ BootShape'
         /\ Spill => /\ OpenStore /\ LoggedIds' = PendingIds
                     /\ Spots' \subseteq {<<IdAt(r), r[1], r[2]>> : r \in Pending}
         /\ ~Spill => UNCHANGED storeVars /\ LoggedIds' = {} /\ Spots' = {}
<1> /\ ~up /\ up' /\ mem' = <<>> /\ DOMAIN inflight' = {} /\ retrying' = {} /\ parked' = {}
    /\ UNCHANGED <<arrived, lost, crashes, flushFailed>> /\ Settled' = Settled
    /\ diskRefs = <<>> /\ op = Idle
  BY Zenon DEF New, Inv, PlaceInv, OpShape, waitVars, Settled
<1> OutRefs' = {} /\ MemoryInflight' = {}
  BY Zenon DEF OutRefs, DiskInflight, MemoryInflight
<1> /\ LiveRefs' = Range(diskRefs') \cup OutRefs' \cup Range(op'.refs)
    /\ \A r : Spot(r)[1] = r.id
    /\ LoggedIds' = {r.id : r \in LiveRefs'} \cup BootIds'
    /\ Spots' = {Spot(r) : r \in LiveRefs'}
  BY Zenon, LiveRefsAre DEF Spot, LoggedIds, BootIds, Spots
<1>1. CASE ~Spill
  <2> UNCHANGED <<storeVars, diskRefs, op>>
    BY Zenon, <1>1 DEF New
  <2> op'.k = "idle" /\ op'.refs = <<>> /\ op'.mems = <<>>
    BY Zenon DEF Idle, Start, Operation
  <2> BootIds' = {} /\ EnqueuedId' = {} /\ BootShape'
    BY Zenon DEF BootIds, EnqueuedId, BootShape
  <2>1. VolatileIds' = {} /\ LiveRefs' = {}
    BY Zenon, EmptyEntries DEF VolatileIds, Callers
  <2> QED
    BY Zenon, <1>1, <2>1
<1>2. CASE Spill
  <2> OpenStore
    BY Zenon, <1>2 DEF New
  <2>1. PICK s \in Recoveries :
          LET rs == [k \in DOMAIN s |-> RefAt(s[k])]
          IN  /\ diskRefs' = Kept(rs)
              /\ op' = IF Len(rs) <= DiskSlots THEN Idle ELSE Start("boot", IdsOf(PastCap(rs)))
    BY Zenon, <1>2 DEF New
  <2> DEFINE refs == [k \in DOMAIN s |-> RefAt(s[k])]
             N == Len(refs)
             past == PastCap(refs)
  <2> refs \in Seq(Refs) /\ DistinctIds(refs)
    <3>1. FilesOK(files) /\ Counting
      BY Zenon, StoreInvFiles DEF Inv, LogInv
    <3>2. refs \in Seq([id : Ids, att : Attempts, seg : Nat, pos : Nat]) /\ DistinctIds(refs)
      BY Zenon, <3>1, RecoveryOK
    <3> QED
      BY Zenon, <3>2, RecoveredRefs
  <2> Range(s) = Pending /\ DOMAIN refs = DOMAIN s /\ \A k \in DOMAIN s : refs[k] = RefAt(s[k])
    BY Zenon DEF Recoveries
  <2> /\ EntryIds(refs) = PendingIds
      /\ \A r \in Range(refs) : Spot(r) \in {<<IdAt(q), q[1], q[2]>> : q \in Pending}
    <3>1. \A q : RefAt(q).id = IdAt(q) /\ RefAt(q).seg = q[1] /\ RefAt(q).pos = q[2]
      BY Zenon DEF RefAt
    <3>2. \A k \in DOMAIN s : s[k] \in Pending
      BY Zenon DEF Range
    <3>3. \A q \in Pending : \E k \in DOMAIN s : s[k] = q
      BY Zenon DEF Range
    <3> HIDE DEF refs
    <3>4. \A k \in DOMAIN refs : refs[k].id \in PendingIds
      BY Zenon, <3>1, <3>2 DEF PendingIds
    <3>5. ASSUME NEW q \in Pending PROVE IdAt(q) \in EntryIds(refs)
      <4>1. PICK k \in DOMAIN s : s[k] = q
        BY Zenon, <3>3
      <4>2. refs[k].id = IdAt(q) /\ k \in DOMAIN refs
        BY Zenon, <3>1, <4>1
      <4> QED
        BY Zenon, <4>2 DEF EntryIds
    <3>6. EntryIds(refs) = PendingIds
      BY Zenon, <3>4, <3>5 DEF EntryIds, PendingIds
    <3>7. \A k \in DOMAIN refs : Spot(refs[k]) = <<IdAt(s[k]), s[k][1], s[k][2]>>
      BY SMTT(60), <3>1 DEF Spot
    <3>8. ASSUME NEW r \in Range(refs) PROVE Spot(r) \in {<<IdAt(q), q[1], q[2]>> : q \in Pending}
      <4>1. PICK k \in DOMAIN refs : r = refs[k]
        BY Zenon DEF Range
      <4> QED
        BY Zenon, <3>2, <3>7, <4>1
    <3> QED
      BY Zenon, <3>6, <3>8
  <2> /\ diskRefs' = Kept(refs)
      /\ op' = IF N <= DiskSlots THEN Idle ELSE Start("boot", IdsOf(past))
    BY Zenon, <2>1
  <2> N \in Nat /\ DOMAIN refs = 1..N /\ DiskSlots \in Nat \ {0}
    BY QueueAssumption
  <2> HIDE DEF refs
  <2> op'.refs = <<>> /\ op'.mems = <<>> /\ op'.k \in {"idle", "boot"}
    BY Zenon DEF Idle, Start, Operation
  <2>2. EnqueuedId' = {}
    BY Zenon DEF EnqueuedId
  <2> VolatileIds' = {} /\ LiveRefs' = Range(diskRefs')
    BY Zenon, <2>2, EmptyEntries DEF VolatileIds, Callers
  <2> {r.id : r \in Range(diskRefs')} = EntryIds(diskRefs')
    BY DEF Range, EntryIds
  <2>3. CASE N <= DiskSlots
    <3> diskRefs' = refs /\ op'.k = "idle"
      BY Zenon, <2>3 DEF Kept, Idle, Start, Operation
    <3>1. BootIds' = {} /\ BootShape'
      BY Zenon DEF BootIds, BootShape
    <3> QED
      BY Zenon, <1>2, <3>1
  <2>4. CASE N > DiskSlots
    <3> DEFINE kept == SubSeq(refs, 1, DiskSlots)
    <3> diskRefs' = kept /\ op'.k = "boot" /\ op'.ids = IdsOf(past)
      BY <2>4 DEF Kept, Idle, Start, Operation
    <3>1. /\ past \in Seq(Refs) /\ DistinctIds(past) /\ Range(kept) \subseteq Range(refs)
          /\ EntryIds(refs) = EntryIds(kept) \cup EntryIds(past) /\ EntryIds(kept) \cap EntryIds(past) = {}
      <4>1. DiskSlots \in Nat /\ DiskSlots < Len(refs)
        BY <2>4
      <4> QED
        BY Zenon, <4>1, SplitEntries DEF PastCap
    <3> HIDE DEF kept, past
    <3>2. Range(IdsOf(past)) = EntryIds(past)
      BY Zenon DEF Range, IdsOf, EntryIds
    <3>3. BootIds' = EntryIds(past)
      BY Zenon, <3>2 DEF BootIds
    <3>4. \A j, k \in DOMAIN IdsOf(past) : IdsOf(past)[j] = IdsOf(past)[k] => j = k
      BY Zenon, <3>1 DEF DistinctIds, IdsOf
    <3>5. Range(op'.ids) \cap EntryIds(diskRefs') = {}
      BY Zenon, <3>1, <3>2
    <3>6. BootShape'
      BY Zenon, <3>4, <3>5 DEF BootShape
    <3>7. LoggedIds' = PendingIds
      BY Zenon, <3>1, <3>3
    <3>8. Spots' \subseteq {<<IdAt(r), r[1], r[2]>> : r \in Pending}
      BY ZenonT(60), <3>1
    <3> QED
      BY Zenon, <1>2, <3>6, <3>7, <3>8
  <2> QED
    BY SMTT(60), <2>3, <2>4
<1> QED
  BY Zenon, <1>1, <1>2

-----------------------------------------------------------------------------
(***************************************************************************)
(* Each flow keeps the log sound.                                          *)
(***************************************************************************)

\* Memory and log are disjoint, and all of it has arrived.
LEMMA Disjoint ==
  ASSUME Inv, BootShape
  PROVE  /\ VolatileIds \cap LoggedIds = {} /\ VolatileIds \cup LoggedIds \subseteq arrived /\ arrived \subseteq Ids
         /\ LoggedIds = {s[1] : s \in Spots} \cup BootIds
         /\ Written(files) \cup Retired(files) \subseteq arrived
         /\ StoreInv /\ FilesOK(files) /\ faults \in Nat /\ crashes \in Nat
<1> StoreInv /\ FilesOK(files) /\ faults \in Nat /\ crashes \in Nat /\ arrived \subseteq Ids /\ IdsIn(files) \subseteq arrived
  BY Zenon, StoreInvFiles DEF Inv, LogInv, PlaceInv, QueueTypes, StoreInv, StoreTypeOK
<1>1. LoggedIds = {s[1] : s \in Spots} \cup BootIds
  <2>1. \A r : Spot(r)[1] = r.id
    BY Zenon DEF Spot
  <2> QED
    BY Zenon, <2>1 DEF LoggedIds, Spots, BootIds
<1> \A r \in LiveRefs : r.id \in EntryIds(diskRefs) \/ r.id \in DiskInflight \/ r.id \in EntryIds(op.refs)
  <2>1. \A r \in Range(diskRefs) : r.id \in EntryIds(diskRefs)
    BY Zenon DEF Range, EntryIds
  <2>2. \A r \in Range(op.refs) : r.id \in EntryIds(op.refs)
    BY Zenon DEF Range, EntryIds
  <2>3. \A i \in DiskInflight : inflight[i].id = i
    BY Zenon DEF Inv, PlaceInv, QueueTypes, DiskInflight
  <2> QED
    BY <2>1, <2>2, <2>3 DEF LiveRefs
<1> DiskInflight \subseteq DOMAIN inflight /\ MemoryInflight \subseteq DOMAIN inflight
    /\ DiskInflight \cap MemoryInflight = {}
  BY Zenon DEF DiskInflight, MemoryInflight
<1>2. Callers \subseteq arrived
  <2>1. ASSUME op.k = "enqueue" PROVE op.ids[1] \in Range(op.ids)
    <3>1. op.ids \in Seq(Ids) /\ op.ids # <<>>
      BY Zenon, <2>1 DEF Inv, PlaceInv, OpShape, QueueTypes, Ops
    <3>2. 1 \in DOMAIN op.ids
      BY <3>1
    <3> QED
      BY Zenon, <3>2 DEF Range
  <2> QED
    BY Zenon, <2>1 DEF Callers, EnqueuedId, Inv, PlaceInv, Placed
<1>3. VolatileIds \subseteq arrived
  BY Zenon, <1>2 DEF VolatileIds, Inv, PlaceInv, Placed
<1>4. LoggedIds \subseteq arrived
  BY Zenon DEF LoggedIds, Inv, PlaceInv, Placed
<1>5. \A r \in LiveRefs : r.id \notin VolatileIds
  BY Zenon DEF VolatileIds, Inv, PlaceInv, OnePlace
<1>6. VolatileIds \cap LoggedIds = {}
  BY Zenon, <1>5 DEF LoggedIds, BootShape, BootIds
<1>7. Written(files) \cup Retired(files) \subseteq arrived
  <2>1. \A i, n, p : ItemAt(files, i, n, p) => i \in IdsIn(files)
    BY Zenon, CellTypes DEF ItemAt
  <2>2. \A i, n : AckAt(files, i, n) => i \in IdsIn(files)
    BY Zenon, CellTypes DEF AckAt
  <2> QED
    BY Zenon, <2>1, <2>2 DEF Written, Retired
<1> QED
  BY Zenon, <1>1, <1>3, <1>4, <1>6, <1>7

\* The reference slots of the next state.
LEMMA LoggedNext == LoggedIds' = {s[1] : s \in Spots'} \cup BootIds'
<1>1. \A r : Spot(r)[1] = r.id
  BY Zenon DEF Spot
<1> QED
  BY <1>1 DEF LoggedIds, Spots, BootIds

\* A step that leaves the log alone, lets the ids I arrive and settles the ids J.
LEMMA MemorySound ==
  ASSUME Inv, SoundInv, Running, LogKept, Spots' = Spots, BootIds' = BootIds, NEW I, NEW J,
         I \subseteq VolatileIds \cup (Ids \ arrived), J \subseteq VolatileIds \cup I,
         VolatileIds' \subseteq (VolatileIds \cup I) \ J, Settled' = Settled \cup J, arrived' = arrived \cup I
  PROVE  Basics' /\ (SoundDisk' => SoundLog')
<1> /\ VolatileIds \cap LoggedIds = {} /\ VolatileIds \cup LoggedIds \subseteq arrived /\ faults \in Nat
    /\ Written(files) \cup Retired(files) \subseteq arrived
  BY Zenon, Disjoint DEF SoundInv
<1> up /\ up' = up /\ lost' = lost /\ crashes' = crashes
  BY Zenon DEF Running
<1> Settled \subseteq arrived /\ lost \subseteq arrived /\ (~Spill => DOMAIN files = {} /\ ~segment)
  BY Zenon DEF SoundInv, Basics
<1>1. Basics'
  <2>1. (Settled \cup lost \subseteq arrived)'
    BY Zenon
  <2>2. ~Spill => DOMAIN files' = {} /\ ~segment'
    BY Zenon DEF LogKept
  <2> QED
    BY Zenon, <2>1, <2>2 DEF Basics
<1>2. ASSUME SoundDisk' PROVE SoundLog'
  <2> /\ UNCHANGED <<files, segmentNum, segmentSize, faults>>
      /\ UNCHANGED <<segment, storeClosed>> \/ (segment' = FALSE /\ storeClosed' = TRUE)
    BY <1>2 DEF LogKept, SoundDisk
  <2> SoundLog
    BY Zenon, <1>2 DEF SoundDisk, SoundInv
  <2>1. Clean(files') /\ Ordered(files')
    BY Zenon DEF SoundLog
  <2>2. LogEnd'
    BY DEF SoundLog, LogEnd, AtEnd
  <2>3. LoggedIds' = LoggedIds
    <3>1. LoggedIds = {s[1] : s \in Spots} \cup BootIds
      BY Zenon, Disjoint DEF SoundInv
    <3> QED
      BY Zenon, <3>1, LoggedNext
  <2>4. RefsFit'
    BY Zenon, <2>3 DEF SoundLog, RefsFit
  <2>5. Outstanding(files) = LoggedIds
    BY Zenon DEF SoundLog, RefsFit
  <2> /\ Retired(files) \subseteq Settled /\ Settled \cap (VolatileIds \cup Outstanding(files)) = {}
      /\ lost \cap (VolatileIds \cup Settled \cup Written(files)) = {}
    BY Zenon DEF SoundLog, Ended
  <2>6. Settled' \cap (VolatileIds' \cup Outstanding(files)) = {}
    BY Zenon, <2>5
  <2>7. lost \cap (VolatileIds' \cup Settled' \cup Written(files)) = {}
    BY Zenon
  <2>8. Ended'
    BY Zenon, <2>6, <2>7 DEF Ended
  <2> QED
    BY Zenon, <2>1, <2>2, <2>4, <2>8 DEF SoundLog
<1> QED
  BY Zenon, <1>1, <1>2

\* An item goes from memory to the log.
LEMMA SpillSound ==
  ASSUME Inv, SoundInv, NEW i, NEW a, SpillFlow(i, a)
  PROVE  Basics' /\ (SoundDisk' => SoundLog')
<1> /\ VolatileIds \cap LoggedIds = {} /\ VolatileIds \cup LoggedIds \subseteq arrived /\ arrived \subseteq Ids
    /\ Written(files) \cup Retired(files) \subseteq arrived /\ StoreInv
    /\ LoggedIds = {s[1] : s \in Spots} \cup BootIds
  BY Zenon, Disjoint DEF SoundInv
<1> /\ up /\ up' = up /\ lost' = lost /\ crashes' = crashes /\ i \in VolatileIds /\ i \in Ids
    /\ VolatileIds' = VolatileIds \ {i} /\ Settled' = Settled /\ arrived' = arrived /\ a \in Attempts
    /\ WriteOK(ItemRecord(i, a))
    /\ Spots' = Spots \cup {<<i, Location.seg, Location.pos>>} /\ BootIds' = BootIds
  BY Zenon DEF SpillFlow, Running
<1> segment /\ segment' = segment /\ storeClosed' = storeClosed /\ faults' = faults
  BY Zenon DEF WriteOK, Refuses
<1>1. Basics'
  BY Zenon DEF SoundInv, Basics
<1>2. ASSUME SoundDisk' PROVE SoundLog'
  <2> SoundLog
    BY Zenon, <1>2 DEF SoundDisk, SoundInv
  <2>1. ItemRecord(i, a) \in Records /\ ItemRecord(i, a).t = "item"
    BY Zenon DEF ItemRecord, Records, RecordTypes
  <2> AtEnd /\ Clean(files) /\ Ordered(files) /\ LoggedIds = Outstanding(files)
      /\ \A s \in Spots : ItemAt(files, s[1], s[2], s[3])
    BY Zenon DEF SoundLog, LogEnd, RefsFit
  <2> /\ Adds(files, files', Location.seg, Location.pos, ItemRecord(i, a))
      /\ AtEnd' /\ segment' = TRUE /\ Clean(files')
    BY <2>1, WriteAdds, Zenon
  <2> /\ Retired(files) \subseteq Settled /\ Settled \cap (VolatileIds \cup Outstanding(files)) = {}
      /\ lost \cap (VolatileIds \cup Settled \cup Written(files)) = {}
    BY Zenon DEF SoundLog, Ended
  <2> i \notin Written(files) /\ i \notin Retired(files)
    BY Zenon DEF Outstanding
  <2> /\ Ordered(files') /\ Written(files') = Written(files) \cup {i} /\ Retired(files') = Retired(files)
      /\ ItemAt(files', i, Location.seg, Location.pos)
      /\ \A j, n, p : ItemAt(files, j, n, p) => ItemAt(files', j, n, p)
    BY ItemAdded, Zenon
  <2>2. LogEnd'
    BY Zenon DEF LogEnd
  <2> Outstanding(files') = Outstanding(files) \cup {i}
    BY Zenon DEF Outstanding
  <2>3. LoggedIds' = LoggedIds \cup {i}
    <3>1. <<i, Location.seg, Location.pos>>[1] = i
      BY Zenon
    <3>2. {s[1] : s \in Spots'} = {s[1] : s \in Spots} \cup {i}
      BY <3>1, Zenon
    <3> QED
      BY Zenon, <3>2, LoggedNext
  <2>4. \A s \in Spots' : ItemAt(files', s[1], s[2], s[3])
    OBVIOUS
  <2>5. RefsFit'
    BY Zenon, <2>3, <2>4 DEF RefsFit
  <2>6. Ended'
    BY DEF Ended
  <2> QED
    BY Zenon, <2>2, <2>5, <2>6 DEF SoundLog
<1> QED
  BY Zenon, <1>1, <1>2

\* An item of the log is settled.
LEMMA SettleSound ==
  ASSUME Inv, SoundInv, NEW i \in Ids, SettleFlow(i)
  PROVE  /\ Basics' /\ (SoundDisk' => SoundLog')
         /\ LoggedIds' = LoggedIds \ {i} /\ (faults' = 0 => faults = 0)
<1> /\ VolatileIds \cap LoggedIds = {} /\ VolatileIds \cup LoggedIds \subseteq arrived
    /\ StoreInv /\ LoggedIds = {s[1] : s \in Spots} \cup BootIds /\ faults \in Nat
  BY Zenon, Disjoint DEF SoundInv
<1> /\ up /\ up' = up /\ lost' = lost /\ crashes' = crashes /\ i \in LoggedIds /\ ~storeClosed
    /\ VolatileIds' = VolatileIds /\ Settled' = Settled \cup {i} /\ arrived' = arrived
    /\ WriteOK(AckRecord(i)) \/ WriteFail(AckRecord(i))
    /\ Spots' = {s \in Spots : s[1] # i} /\ BootIds' = BootIds \ {i}
  BY Zenon DEF SettleFlow, Running
<1> AckRecord(i) \in Records /\ AckRecord(i).t = "ack"
  BY Zenon, RecordTypesOK DEF AckRecord
<1> /\ faults' = 0 /\ segment => WriteOK(AckRecord(i)) /\ faults = 0
    /\ ~segment => UNCHANGED storeVars
  BY DEF WriteFail, WriteOK, Refuses, WriteFault, RotateFault, Fault, DiskFull
<1> faults' = 0 => faults = 0
  BY Zenon DEF storeVars
<1> LoggedIds' = LoggedIds \ {i}
  <2>1. {s[1] : s \in Spots'} = {s[1] : s \in Spots} \ {i}
    BY Zenon
  <2> QED
    BY Zenon, <2>1, LoggedNext
<1>1. Basics'
  <2>1. (Settled \cup lost \subseteq arrived)'
    BY Zenon DEF SoundInv, Basics
  <2>2. ~Spill => DOMAIN files' = {} /\ ~segment'
    BY Zenon DEF SoundInv, Basics, storeVars
  <2> QED
    BY Zenon, <2>1, <2>2 DEF Basics
<1>2. ASSUME SoundDisk' PROVE SoundLog'
  <2> SoundLog
    BY Zenon, <1>2 DEF SoundDisk, SoundInv
  <2> /\ AtEnd /\ Clean(files) /\ Ordered(files) /\ LoggedIds = Outstanding(files)
      /\ (Spill => segment \/ storeClosed)
      /\ \A s \in Spots : ItemAt(files, s[1], s[2], s[3])
    BY Zenon DEF SoundLog, LogEnd, RefsFit
  <2> i \in Written(files)
    BY Zenon DEF Outstanding
  <2>1. segment
    <3>1. DOMAIN files # {}
      BY Zenon DEF Written, ItemAt, Cell
    <3> QED
      BY Zenon, <3>1 DEF SoundInv, Basics
  <2>2. WriteOK(AckRecord(i))
    BY Zenon, <1>2, <2>1 DEF SoundDisk
  <2> /\ Adds(files, files', Location.seg, Location.pos, AckRecord(i))
      /\ AtEnd' /\ segment' = TRUE /\ Clean(files') /\ \A m \in DOMAIN files : m <= Location.seg
    BY <2>2, WriteAdds, Zenon
  <2> /\ Ordered(files') /\ Written(files') = Written(files) /\ Retired(files') = Retired(files) \cup {i}
      /\ \A j, n, p : ItemAt(files', j, n, p) <=> ItemAt(files, j, n, p)
    BY AckAdded, Zenon
  <2>3. /\ Retired(files) \subseteq Settled /\ Settled \cap (VolatileIds \cup Outstanding(files)) = {}
        /\ lost \cap (VolatileIds \cup Settled \cup Written(files)) = {}
    BY Zenon DEF SoundLog, Ended
  <2> Outstanding(files') = Outstanding(files) \ {i}
    BY Zenon DEF Outstanding
  <2>4. RefsFit'
    <3>1. \A s \in Spots' : ItemAt(files', s[1], s[2], s[3])
      BY Zenon
    <3> QED
      BY Zenon, <3>1 DEF RefsFit
  <2>5. Ended'
    BY <2>3 DEF Ended
  <2>6. LogEnd'
    BY Zenon DEF LogEnd
  <2> QED
    BY Zenon, <2>4, <2>5, <2>6 DEF SoundLog
<1> QED
  BY Zenon, <1>1, <1>2

\* The oldest segment goes: what it holds is retired, because nothing refers
\* to it any more.
LEMMA CompactSound ==
  ASSUME Inv, SoundInv, CompactFlow
  PROVE  /\ Basics' /\ (SoundDisk' => SoundLog')
         /\ LoggedIds' = LoggedIds /\ faults' = faults
<1> /\ FilesOK(files) /\ StoreInv /\ LoggedIds = {s[1] : s \in Spots} \cup BootIds
  BY Zenon, Disjoint DEF SoundInv
<1> /\ up /\ up' = up /\ lost' = lost /\ crashes' = crashes /\ Spill /\ Claimed(lowest) = 0
    /\ VolatileIds' = VolatileIds /\ Settled' = Settled /\ arrived' = arrived
    /\ Spots' = Spots /\ BootIds = {} /\ BootIds' = {}
  BY Zenon DEF CompactFlow, Running
<1> /\ ~storeClosed /\ lowest < segmentNum /\ files' = Without(files, lowest)
    /\ UNCHANGED <<segmentNum, segment, segmentSize, storeClosed, faults>>
  BY Zenon DEF CompactFlow, RemoveOK
<1> lowest \in Nat /\ segmentNum \in Nat /\ \A m \in DOMAIN files : lowest <= m
  BY Zenon DEF Inv, PlaceInv, QueueTypes, LogInv, Backed, StoreInv, StoreTypeOK
<1> /\ DOMAIN files' = DOMAIN files \ {lowest} /\ \A m \in DOMAIN files' : files'[m] = files[m]
    /\ Drops(files, files', lowest)
  BY Zenon, RemoveCells DEF Without, Drops
<1> LoggedIds' = LoggedIds
  BY Zenon, LoggedNext
<1>1. Basics'
  BY Zenon DEF SoundInv, Basics
<1>2. ASSUME SoundDisk' PROVE SoundLog'
  <2> SoundLog
    BY Zenon, <1>2 DEF SoundDisk, SoundInv
  <2> /\ AtEnd /\ Clean(files) /\ Ordered(files) /\ LoggedIds = Outstanding(files)
      /\ (Spill => segment \/ storeClosed)
      /\ \A s \in Spots : ItemAt(files, s[1], s[2], s[3])
    BY Zenon DEF SoundLog, LogEnd, RefsFit
  <2>1. ASSUME NEW i, NEW p, ItemAt(files, i, lowest, p) PROVE i \in Retired(files)
    <3>1. i \in Written(files)
      <4>1. i \in Ids
        BY SMTT(60), <2>1, Disjoint, CellTypes DEF SoundInv, ItemAt, Inv, LogInv, PlaceInv, QueueTypes
      <4> QED
        BY ZenonT(60), <2>1, <4>1 DEF Written
    <3>2. ASSUME i \in LoggedIds PROVE FALSE
      <4>1. PICK s \in Spots : s[1] = i
        BY <3>2
      <4>2. PICK r \in LiveRefs : s = Spot(r)
        BY Zenon DEF Spots
      <4>3. s[1] = r.id /\ s[2] = r.seg
        BY Zenon, <4>2 DEF Spot
      <4>4. s[2] = lowest
        BY Zenon, <2>1, <4>1 DEF Ordered
      <4>5. <<r.id, lowest>> \in Held
        BY Zenon, <4>3, <4>4 DEF Held
      <4> QED
        BY ZenonT(60), <4>5, UnclaimedNotHeld DEF Inv
    <3> QED
      BY Zenon, <3>1, <3>2 DEF Outstanding
  <2> /\ Ordered(files') /\ Outstanding(files') = Outstanding(files)
      /\ Written(files') \subseteq Written(files) /\ Retired(files') \subseteq Retired(files)
      /\ \A i, n, p : ItemAt(files, i, n, p) /\ i \notin Retired(files) => ItemAt(files', i, n, p)
    BY <2>1, FileDropped, Zenon
  <2>2. Clean(files')
    BY Zenon DEF Clean, Drops
  <2>3. LogEnd'
    BY DEF LogEnd, AtEnd
  <2>4. RefsFit'
    <3>1. \A s \in Spots : s[1] \notin Retired(files)
      BY Zenon DEF Outstanding
    <3>2. \A s \in Spots' : ItemAt(files', s[1], s[2], s[3])
      BY Zenon, <3>1
    <3> QED
      BY Zenon, <3>2 DEF RefsFit
  <2>5. Ended'
    BY Zenon DEF SoundLog, Ended
  <2> QED
    BY Zenon, <2>2, <2>3, <2>4, <2>5 DEF SoundLog
<1> QED
  BY Zenon, <1>1, <1>2

\* What a dead process still has: nothing.
LEMMA DeadFlow ==
  ASSUME Crash
  PROVE  /\ up /\ ~up' /\ VolatileIds' = {} /\ LoggedIds' = {} /\ Spots' = {} /\ DOMAIN inflight' = {}
         /\ crashes < MaxCrashes /\ crashes' = crashes + 1 /\ lost' = lost \cup VolatileIds /\ ~segment'
         /\ UNCHANGED <<faults, arrived, flushFailed>> /\ Settled' = Settled /\ files' \in Directories
<1> /\ mem' = <<>> /\ diskRefs' = <<>> /\ inflight' = <<>> /\ op' = Idle /\ retrying' = {} /\ parked' = {}
  BY Zenon DEF Crash
<1> Idle.k = "idle" /\ Idle.refs = <<>> /\ Idle.mems = <<>>
  BY Zenon DEF Idle, Start, Operation
<1> DOMAIN inflight' = {} /\ Range(<<>>) = {} /\ EntryIds(<<>>) = {}
  BY DEF Range, EntryIds
<1>1. VolatileIds' = {}
  BY Zenon DEF VolatileIds, Callers, EnqueuedId, MemoryInflight
<1>2. LiveRefs' = {} /\ BootIds' = {}
  BY Zenon DEF LiveRefs, DiskInflight, BootIds
<1>3. LoggedIds' = {} /\ Spots' = {}
  BY Zenon, <1>2 DEF LoggedIds, BootIds, Spots
<1> QED
  BY Zenon, <1>1, <1>3 DEF Crash, Settled

\* What a crash leaves of the log.
LEMMA CrashFiles ==
  ASSUME Inv, up, NEW fs \in Directories
  PROVE  /\ CrashFaults = {} \/ ~segment => fs = files
         /\ AtEnd /\ Clean(files) /\ Ordered(files)
              => Legible(fs) /\ Ordered(fs) /\ Written(fs) = Written(files) /\ Retired(fs) = Retired(files)
<1>1. CASE fs = files
  BY Zenon, <1>1 DEF Clean, Legible
<1>2. CASE fs # files
  <2>1. PICK rec \in Appending : fs \in CrashImages(rec, CrashFaults)
    BY Zenon, <1>2 DEF Directories
  <2>2. rec \in Records /\ StoreInv
    BY Zenon, AppendingOK DEF Inv, LogInv
  <2>3. CrashFaults = {} \/ ~segment => CrashImages(rec, CrashFaults) = {files}
    BY Zenon DEF CrashImages, Refuses
  <2> QED
    BY SMTT(60), <1>2, <2>1, <2>2, <2>3, CrashLegible
<1> QED
  BY Zenon, <1>1, <1>2

LEMMA CrashSound ==
  ASSUME Inv, SoundInv, Crash
  PROVE  Basics' /\ (SoundDisk' => SoundLog')
<1> /\ VolatileIds \cap LoggedIds = {} /\ VolatileIds \cup LoggedIds \subseteq arrived /\ crashes \in Nat
  BY Zenon, Disjoint DEF SoundInv
<1> /\ up /\ ~up' /\ VolatileIds' = {} /\ LoggedIds' = {} /\ Spots' = {}
    /\ crashes' = crashes + 1 /\ lost' = lost \cup VolatileIds /\ ~segment'
    /\ UNCHANGED <<faults, arrived>> /\ Settled' = Settled /\ files' \in Directories
  BY Zenon, DeadFlow
<1> CrashFaults = {} \/ ~segment => files' = files
  BY Zenon, CrashFiles
<1>1. Basics'
  <2>1. (Settled \cup lost \subseteq arrived)'
    BY Zenon DEF SoundInv, Basics
  <2>2. ~Spill => DOMAIN files' = {}
    BY Zenon DEF SoundInv, Basics
  <2>3. crashes' # 0
    OBVIOUS
  <2> QED
    BY Zenon, <2>1, <2>2, <2>3 DEF Basics
<1>2. ASSUME SoundDisk' PROVE SoundLog'
  <2>1. (CrashFaults = {} \/ ~segment) /\ faults = 0
    BY <1>2 DEF SoundDisk, SoundInv, Basics
  <2> files' = files /\ SoundLog
    BY <1>2, <2>1 DEF SoundDisk, SoundInv
  <2> /\ LoggedIds = Outstanding(files) /\ Retired(files) \subseteq Settled
      /\ Settled \cap (VolatileIds \cup Outstanding(files)) = {}
      /\ lost \cap (VolatileIds \cup Settled \cup Written(files)) = {}
    BY Zenon DEF SoundLog, RefsFit, Ended
  <2>2. VolatileIds \cap (Settled \cup Written(files)) = {}
    BY Zenon DEF Outstanding
  <2>3. Ended'
    BY Zenon, <2>2 DEF Ended
  <2>4. LogEnd' /\ RefsFit'
    BY Zenon DEF LogEnd, AtEnd, RefsFit
  <2> QED
    BY Zenon, <2>3, <2>4 DEF SoundLog
<1> QED
  BY Zenon, <1>1, <1>2

\* The next process replays what the log has outstanding.
LEMMA ReplayedFlow ==
  ASSUME Inv, Basics, New, Legible(files), Ordered(files)
  PROVE  /\ LoggedIds' = Outstanding(files) /\ Outstanding(files') = Outstanding(files)
         /\ Written(files') = Written(files) /\ Retired(files') = Retired(files) /\ Ordered(files')
         /\ \A s \in Spots' : ItemAt(files', s[1], s[2], s[3])
<1> FilesOK(files) /\ StoreInv
  BY Zenon, StoreInvFiles DEF Inv, LogInv, StoreInv
<1>1. CASE Spill
  <2> OpenStore /\ LoggedIds' = PendingIds /\ Spots' \subseteq {<<IdAt(r), r[1], r[2]>> : r \in Pending}
    BY Zenon, <1>1, NewFlow
  <2> /\ PendingIds = Outstanding(files)
      /\ \A r \in Pending : ItemAt(files, IdAt(r), r[1], r[2])
    BY Zenon, ReplayFinds
  <2>1. \A m, p, r : Cell(files', m, p, r) <=> Cell(files, m, p, r)
    BY Zenon, OpenCells
  <2> /\ \A i, n, p : ItemAt(files', i, n, p) <=> ItemAt(files, i, n, p)
      /\ Written(files') = Written(files) /\ Retired(files') = Retired(files)
      /\ Ordered(files')
    <3> DEFINE gs == files'
    <3>1. /\ \A n, p, r : Cell(files, n, p, r) => Cell(gs, n, p, r)
          /\ \A n, p, r : Cell(gs, n, p, r) => Cell(files, n, p, r) \/ r.t \notin {"item", "ack"}
      BY Zenon, <2>1
    <3> HIDE DEF gs
    <3>2. /\ \A i, n, p : ItemAt(gs, i, n, p) <=> ItemAt(files, i, n, p)
          /\ Written(gs) = Written(files) /\ Retired(gs) = Retired(files)
          /\ Ordered(files) => Ordered(gs)
      BY Zenon, <3>1, SameItems
    <3> QED
      BY Zenon, <3>2 DEF gs
  <2>2. \A s \in Spots' : ItemAt(files', s[1], s[2], s[3])
    OBVIOUS
  <2> QED
    BY Zenon, <2>2 DEF Outstanding
<1>2. CASE ~Spill
  <2> files' = files /\ LoggedIds' = {} /\ Spots' = {} /\ DOMAIN files = {}
    BY Zenon, <1>2, NewFlow DEF Basics, storeVars
  <2>1. Outstanding(files) = {}
    BY Zenon DEF Outstanding, Written, ItemAt, Cell
  <2> QED
    BY Zenon, <2>1
<1> QED
  BY Zenon, <1>1, <1>2

LEMMA NewSound ==
  ASSUME Inv, SoundInv, New
  PROVE  /\ Basics' /\ (SoundDisk' => SoundLog') /\ faults' = faults
<1> /\ ~up /\ up' /\ VolatileIds' = {} /\ UNCHANGED <<arrived, lost, crashes>> /\ Settled' = Settled
    /\ (Spill => OpenStore) /\ (~Spill => UNCHANGED storeVars)
  BY Zenon, NewFlow
<1>1. StoreInv
  BY Zenon DEF Inv, LogInv
<1> Spill => /\ \A m, p, r : Cell(files', m, p, r) <=> Cell(files, m, p, r)
             /\ segment' = TRUE /\ storeClosed' = FALSE /\ faults' = faults /\ AtEnd'
             /\ \A m \in DOMAIN files' : m \in DOMAIN files \/ files'[m] = EmptySegment
             /\ \A m \in DOMAIN files : files'[m] = files[m]
  BY Zenon, <1>1, OpenCells DEF AtEnd
<1> faults' = faults
  BY Zenon DEF storeVars
<1>2. Basics'
  BY DEF SoundInv, Basics, storeVars
<1>3. ASSUME SoundDisk' PROVE SoundLog'
  <2> SoundLog
    BY Zenon, <1>3 DEF SoundDisk, SoundInv
  <2> Clean(files) /\ Legible(files) /\ Ordered(files) /\ AtEnd
    BY Zenon DEF SoundLog, LogEnd, Clean, Legible
  <2> /\ LoggedIds' = Outstanding(files) /\ Outstanding(files') = Outstanding(files)
      /\ Written(files') = Written(files) /\ Retired(files') = Retired(files) /\ Ordered(files')
      /\ \A s \in Spots' : ItemAt(files', s[1], s[2], s[3])
    BY Zenon, ReplayedFlow DEF SoundInv
  <2>1. Clean(files')
    <3>1. Spill => \A m \in DOMAIN files' : files'[m].hdr
      BY DEF Clean, EmptySegment
    <3>2. Spill => Clean(files')
      BY Zenon, <3>1 DEF Clean
    <3> QED
      BY Zenon, <3>2 DEF storeVars
  <2>2. LogEnd'
    BY DEF LogEnd, AtEnd, storeVars
  <2>3. RefsFit'
    BY Zenon DEF RefsFit
  <2>4. Ended'
    BY Zenon DEF SoundLog, Ended
  <2> QED
    BY Zenon, <2>1, <2>2, <2>3, <2>4 DEF SoundLog
<1> QED
  BY Zenon, <1>2, <1>3

LEMMA NewCrashSound ==
  ASSUME Inv, SoundInv, NewCrash
  PROVE  Basics' /\ ~SoundDisk'
<1>1. /\ crashes' = crashes + 1 /\ crashes \in Nat /\ Spill /\ CrashFaults # {}
      /\ UNCHANGED <<arrived, lost>> /\ Settled' = Settled
  BY Zenon DEF NewCrash, Inv, PlaceInv, QueueTypes, Settled
<1> QED
  BY <1>1 DEF SoundInv, Basics, SoundDisk

\* One step of the queue.
LEMMA SoundStep ==
  ASSUME Inv, SoundInv, Flow, New \/ BootShape'
  PROVE  SoundInv'
<1>1. BootShape'
  BY Zenon, NewFlow DEF SoundInv
<1>2. ASSUME NEW I, NEW J, MemoryFlow(I, J) PROVE Basics' /\ (SoundDisk' => SoundLog')
  BY Zenon, <1>2, MemorySound DEF MemoryFlow
<1>3. ASSUME NEW i, AbandonFlow(i) PROVE Basics' /\ (SoundDisk' => SoundLog')
  <2>1. /\ Running /\ LogKept /\ VolatileIds' \subseteq (VolatileIds \cup {}) \ {}
        /\ Settled' = Settled \cup {} /\ arrived' = arrived \cup {} /\ Spots' = Spots /\ BootIds' = BootIds
    BY Zenon, <1>3 DEF AbandonFlow
  <2> QED
    BY Zenon, <2>1, MemorySound
<1> QED
  BY Zenon, <1>1, <1>2, <1>3, SpillSound, SettleSound, CompactSound, CrashSound, NewSound, NewCrashSound DEF SoundInv, Flow, ItemFlow

\* A dead process holds nothing.
LEMMA DeadHolds ==
  ASSUME Inv, ~up
  PROVE  VolatileIds = {} /\ LoggedIds = {}
<1> mem = <<>> /\ diskRefs = <<>> /\ DOMAIN inflight = {} /\ op = Idle /\ retrying = {} /\ parked = {}
  BY Zenon DEF Inv, PlaceInv, OpShape
<1> Idle.k = "idle" /\ Idle.refs = <<>> /\ Idle.mems = <<>>
  BY Zenon DEF Idle, Start, Operation
<1> Range(<<>>) = {} /\ EntryIds(<<>>) = {}
  BY DEF Range, EntryIds
<1>1. VolatileIds = {}
  BY Zenon DEF VolatileIds, Callers, EnqueuedId, MemoryInflight
<1>2. LiveRefs = {}
  BY Zenon DEF LiveRefs, DiskInflight
<1> QED
  BY Zenon, <1>1, <1>2 DEF LoggedIds

LEMMA Stuttering ==
  ASSUME UNCHANGED vars
  PROVE  /\ VolatileIds' = VolatileIds /\ LoggedIds' = LoggedIds /\ Spots' = Spots /\ Settled' = Settled
         /\ BootShape => BootShape'
<1> /\ UNCHANGED <<mem, diskRefs, inflight, op, retrying, parked>> /\ Settled' = Settled
  BY Zenon DEF vars, waitVars, Settled
<1>1. VolatileIds' = VolatileIds
  BY Zenon DEF VolatileIds, Callers, EnqueuedId, MemoryInflight
<1>2. LiveRefs' = LiveRefs
  BY Zenon DEF LiveRefs, DiskInflight, MemoryInflight
<1>3. LoggedIds' = LoggedIds /\ Spots' = Spots
  BY Zenon, <1>2 DEF LoggedIds, Spots
<1> QED
  BY Zenon, <1>1, <1>3 DEF BootShape, BootIds

\* SoundInv is inductive: the first state, and a stuttering step.
LEMMA SoundInit ==
  ASSUME Init
  PROVE  SoundInv
<1> /\ files = <<>> /\ ~segment /\ faults = 0 /\ ~up /\ mem = <<>> /\ diskRefs = <<>> /\ inflight = <<>>
    /\ op = Idle /\ retrying = {} /\ parked = {} /\ lost = {} /\ Settled = {}
  BY Zenon DEF Init, Settled
<1> Idle.k = "idle" /\ Idle.refs = <<>> /\ Idle.mems = <<>>
  BY Zenon DEF Idle, Start, Operation
<1> DOMAIN inflight = {} /\ Range(<<>>) = {} /\ EntryIds(<<>>) = {} /\ DOMAIN files = {}
  BY DEF Range, EntryIds
<1>1. VolatileIds = {}
  BY Zenon DEF VolatileIds, Callers, EnqueuedId, MemoryInflight
<1>2. LiveRefs = {} /\ Spots = {}
  BY Zenon DEF LiveRefs, DiskInflight, Spots
<1>3. \A n, p, r : ~Cell(files, n, p, r)
  BY Zenon DEF Cell
<1> Written(files) = {} /\ Retired(files) = {} /\ Clean(files) /\ Ordered(files)
  BY Zenon, <1>3 DEF Written, Retired, ItemAt, AckAt, Clean, Ordered
<1>4. BootShape /\ Basics
  BY Zenon DEF BootShape, BootIds, Basics
<1>5. LogEnd /\ RefsFit
  BY Zenon, <1>2 DEF LogEnd, AtEnd, RefsFit
<1>6. Ended
  BY Zenon, <1>1 DEF Ended, Outstanding
<1> QED
  BY Zenon, <1>4, <1>5, <1>6 DEF SoundInv, SoundLog

LEMMA SoundStutter ==
  ASSUME SoundInv, UNCHANGED vars
  PROVE  SoundInv'
  BY Zenon, Stuttering
     DEF SoundInv, SoundLog, Basics, LogEnd, AtEnd, RefsFit, Ended, SoundDisk, vars, storeVars, bootVars

-----------------------------------------------------------------------------
(***************************************************************************)
(* Nothing that arrived is unaccounted for.                                *)
(***************************************************************************)

\* While the process runs, an item that leaves memory or the log is settled.
LEMMA RunningAccount ==
  ASSUME AccountInv, Running, flushFailed' = flushFailed, faults' = 0 => faults = 0,
         NEW I, arrived' = arrived \cup I,
         VolatileIds \cup LoggedIds \cup Settled \cup I \subseteq VolatileIds' \cup LoggedIds' \cup Settled'
  PROVE  AccountInv'
  BY Zenon DEF AccountInv, Accounted, Running, OneTear

LEMMA CrashAccount ==
  ASSUME Inv, SoundInv, AccountInv, Crash
  PROVE  AccountInv'
<1> crashes \in Nat
  BY Zenon DEF Inv, PlaceInv, QueueTypes
<1> /\ up /\ ~up' /\ VolatileIds' = {} /\ LoggedIds' = {} /\ crashes' = crashes + 1
    /\ lost' = lost \cup VolatileIds /\ UNCHANGED <<faults, arrived, flushFailed>> /\ Settled' = Settled
    /\ files' \in Directories
  BY Zenon, DeadFlow
<1> SUFFICES ASSUME OneTear', faults = 0
             PROVE  Legible(files') /\ Ordered(files') /\ Accounted'
  BY DEF AccountInv, Accounted
<1> SoundLog /\ OneTear
  BY DEF OneTear, SoundDisk, SoundInv
<1> AtEnd /\ Clean(files) /\ Ordered(files) /\ LoggedIds = Outstanding(files)
  BY Zenon DEF SoundLog, LogEnd, RefsFit
<1> Legible(files') /\ Ordered(files') /\ Written(files') = Written(files) /\ Retired(files') = Retired(files)
  BY Zenon, CrashFiles
<1>1. Outstanding(files') = LoggedIds
  BY Zenon DEF Outstanding
<1>2. Accounted'
  BY Zenon, <1>1 DEF AccountInv, Accounted
<1> QED
  BY Zenon, <1>2

LEMMA NewAccount ==
  ASSUME Inv, SoundInv, AccountInv, New
  PROVE  AccountInv'
<1> /\ ~up /\ up' /\ VolatileIds' = {} /\ Settled' = Settled /\ faults' = faults
    /\ UNCHANGED <<arrived, lost, crashes, flushFailed>>
  BY Zenon, NewFlow, NewSound
<1> SUFFICES ASSUME OneTear', faults = 0 \/ crashes = 0, ~flushFailed
             PROVE  arrived' \subseteq LoggedIds' \cup Settled' \cup lost'
  BY Zenon DEF AccountInv, Accounted
<1> faults = 0 /\ OneTear /\ Basics
  BY Zenon DEF SoundInv, Basics, OneTear
<1> Legible(files) /\ Ordered(files) /\ Accounted
  BY Zenon DEF AccountInv
<1>1. LoggedIds' = Outstanding(files)
  BY Zenon, ReplayedFlow
<1>2. VolatileIds = {} /\ LoggedIds = {}
  BY Zenon, DeadHolds
<1> QED
  BY Zenon, <1>1, <1>2 DEF Accounted

LEMMA NewCrashAccount ==
  ASSUME Inv, SoundInv, AccountInv, NewCrash
  PROVE  AccountInv'
<1> /\ ~up /\ UNCHANGED <<up, faults, arrived, lost, flushFailed>> /\ Settled' = Settled /\ crashes' = crashes + 1
    /\ UNCHANGED <<mem, diskRefs, inflight, op, retrying, parked>> /\ crashes \in Nat
  BY ZenonT(60) DEF NewCrash, Settled, waitVars, Inv, PlaceInv, QueueTypes
<1>1. VolatileIds' = VolatileIds /\ LoggedIds' = LoggedIds
  BY DEF VolatileIds, Callers, EnqueuedId, MemoryInflight, LoggedIds, LiveRefs, DiskInflight
<1> SUFFICES ASSUME OneTear', faults = 0
             PROVE  Legible(files') /\ Ordered(files') /\ Outstanding(files') = Outstanding(files)
  BY <1>1 DEF AccountInv, Accounted, OneTear
<1> Legible(files) /\ Ordered(files)
  BY DEF AccountInv, OneTear
<1> PICK n \in SegmentNums : Creates(n) /\ files' = WithFile(files, n, HeaderlessSegment)
  BY Zenon DEF NewCrash
<1> FilesOK(files) /\ n \in Nat
  BY SMTT(60), StoreInvFiles DEF Inv, LogInv, StoreInv, SegmentNums, FilesOK
<1> n \notin DOMAIN files
  BY DEF Creates, IsLatest, FilesOK
<1> \A m, p, r : Cell(files', m, p, r) <=> Cell(files, m, p, r)
  BY Zenon, FileCells
<1>2. /\ DOMAIN files' = DOMAIN files \cup {n} /\ Len(files'[n].recs) = 0
      /\ \A m \in DOMAIN files : files'[m] = files[m]
  BY Zenon DEF WithFile, HeaderlessSegment
<1>3. Legible(files')
  BY <1>2 DEF Legible, Cell
<1>4. Written(files') = Written(files) /\ Retired(files') = Retired(files) /\ Ordered(files')
  <2> DEFINE gs == files'
  <2>1. /\ \A m, p, r : Cell(files, m, p, r) => Cell(gs, m, p, r)
        /\ \A m, p, r : Cell(gs, m, p, r) => Cell(files, m, p, r) \/ r.t \notin {"item", "ack"}
    BY Zenon
  <2> HIDE DEF gs
  <2>2. Written(gs) = Written(files) /\ Retired(gs) = Retired(files) /\ (Ordered(files) => Ordered(gs))
    BY Zenon, <2>1, SameItems
  <2> QED
    BY Zenon, <2>2 DEF gs
<1> QED
  BY Zenon, <1>3, <1>4 DEF Outstanding

LEMMA AccountStep ==
  ASSUME Inv, SoundInv, AccountInv, Flow
  PROVE  AccountInv'
<1> faults \in Nat /\ LoggedIds = {s[1] : s \in Spots} \cup BootIds
  BY Zenon, Disjoint DEF SoundInv
<1>1. LogKept => (faults' = 0 => faults = 0)
  BY DEF LogKept
<1> Spots \subseteq Spots' /\ BootIds' = BootIds => LoggedIds \subseteq LoggedIds'
  BY Zenon, LoggedNext
<1>2. ASSUME NEW I, NEW J, MemoryFlow(I, J) PROVE AccountInv'
  BY Zenon, <1>1, <1>2, RunningAccount DEF MemoryFlow
<1>3. ASSUME NEW i, NEW a, SpillFlow(i, a) PROVE AccountInv'
  <2>1. i \in LoggedIds'
    <3>1. <<i, Location.seg, Location.pos>> \in Spots' /\ <<i, Location.seg, Location.pos>>[1] = i
      BY Zenon, <1>3 DEF SpillFlow
    <3> QED
      BY Zenon, <3>1, LoggedNext
  <2>2. /\ Running /\ flushFailed' = flushFailed /\ VolatileIds' = VolatileIds \ {i} /\ Settled' = Settled
        /\ arrived' = arrived \cup {} /\ LoggedIds \subseteq LoggedIds' /\ faults' = faults
    BY Zenon, <1>3 DEF SpillFlow, WriteOK
  <2> QED
    BY Zenon, <2>1, <2>2, RunningAccount
<1>4. ASSUME NEW i \in Ids, SettleFlow(i) PROVE AccountInv'
  <2>1. LoggedIds' = LoggedIds \ {i} /\ (faults' = 0 => faults = 0)
    BY Zenon, <1>4, SettleSound
  <2>2. /\ Running /\ flushFailed' = flushFailed /\ VolatileIds' = VolatileIds /\ Settled' = Settled \cup {i}
        /\ arrived' = arrived \cup {}
    BY Zenon, <1>4 DEF SettleFlow
  <2> QED
    BY Zenon, <2>1, <2>2, RunningAccount
<1>5. ASSUME CompactFlow PROVE AccountInv'
  <2>1. LoggedIds' = LoggedIds /\ faults' = faults
    BY Zenon, <1>5, CompactSound
  <2>2. /\ Running /\ flushFailed' = flushFailed /\ VolatileIds' = VolatileIds /\ Settled' = Settled
        /\ arrived' = arrived \cup {}
    BY Zenon, <1>5 DEF CompactFlow
  <2> QED
    BY Zenon, <2>1, <2>2, RunningAccount
<1>6. ASSUME NEW i, AbandonFlow(i) PROVE AccountInv'
  BY Zenon, <1>6 DEF AbandonFlow, Running, AccountInv, Accounted
<1> QED
  BY Zenon, <1>2, <1>3, <1>4, <1>5, <1>6, CrashAccount, NewAccount, NewCrashAccount DEF Flow, ItemFlow

\* AccountInv: the first state, and a stuttering step.
LEMMA AccountInit ==
  ASSUME Init
  PROVE  AccountInv
<1>1. DOMAIN files = {} /\ arrived = {}
  BY DEF Init
<1> QED
  BY Zenon, <1>1 DEF AccountInv, Accounted, Legible, Ordered, ItemAt, Cell

LEMMA AccountStutter ==
  ASSUME AccountInv, UNCHANGED vars
  PROVE  AccountInv'
  BY Zenon, Stuttering DEF AccountInv, Accounted, OneTear, vars, storeVars, bootVars

-----------------------------------------------------------------------------
(***************************************************************************)
(* Segments are removed by compaction only.                                *)
(***************************************************************************)

\* Only compaction removes a file.
LEMMA FilesKept ==
  ASSUME Inv, Flow, ~CompactFlow
  PROVE  DOMAIN files \subseteq DOMAIN files'
<1> StoreInv /\ Attempts # {}
  BY Zenon, AttemptsOK DEF Inv, LogInv
<1>1. LogKept => DOMAIN files \subseteq DOMAIN files'
  BY Zenon DEF LogKept
<1>2. ASSUME NEW rec \in Records, WriteOK(rec) \/ WriteFail(rec) PROVE DOMAIN files \subseteq DOMAIN files'
  BY Zenon, <1>2, WriteOKStep, WriteFailStep DEF Grown
<1>3. ASSUME NEW i \in Ids, NEW a \in Attempts, SpillFlow(i, a) PROVE DOMAIN files \subseteq DOMAIN files'
  <2>1. ItemRecord(i, a) \in Records
    BY Zenon DEF ItemRecord, Records, RecordTypes
  <2> QED
    BY Zenon, <1>2, <1>3, <2>1 DEF SpillFlow
<1>4. ASSUME NEW i \in Ids, SettleFlow(i) PROVE DOMAIN files \subseteq DOMAIN files'
  <2>1. AckRecord(i) \in Records
    BY Zenon, AttemptsOK DEF AckRecord, Records, RecordTypes
  <2> QED
    BY Zenon, <1>2, <1>4, <2>1 DEF SettleFlow
<1>5. CASE Crash
  <2>1. files' \in Directories /\ up
    BY Zenon, <1>5 DEF Crash
  <2>2. ASSUME NEW rec \in Appending, files' \in CrashImages(rec, CrashFaults)
        PROVE  DOMAIN files \subseteq DOMAIN files'
    <3>1. rec \in Records
      BY Zenon, <2>1, AppendingOK
    <3> QED
      BY Zenon, <2>2, <3>1, CrashImageOK
  <2> QED
    BY Zenon, <2>1, <2>2 DEF Directories
<1>6. CASE New
  BY Zenon, <1>6, OpenStep DEF New, storeVars
<1>7. CASE NewCrash
  BY Zenon, <1>7 DEF NewCrash, WithFile
<1> QED
  BY Zenon, <1>1, <1>3, <1>4, <1>5, <1>6, <1>7 DEF Flow, ItemFlow, MemoryFlow, AbandonFlow

\* A removed segment is the oldest, not the active one, and nothing refers to it.
LEMMA RemovalStep ==
  ASSUME Inv, Flow, NEW n \in DOMAIN files \ DOMAIN files'
  PROVE  (\A m \in DOMAIN files : n <= m) /\ n < segmentNum /\ (\A r \in LiveRefs : r.seg > n)
<1> CompactFlow
  BY Zenon, FilesKept
<1> up /\ Spill /\ Claimed(lowest) = 0 /\ RemoveOK(lowest)
  BY Zenon DEF CompactFlow, Running
<1> lowest \in Nat /\ LogInv /\ StoreInv /\ DOMAIN files \subseteq Nat
  BY Zenon DEF Inv, PlaceInv, QueueTypes, LogInv, StoreInv, StoreTypeOK
<1>1. DOMAIN files' = DOMAIN files \ {lowest} /\ lowest < segmentNum
  BY Zenon, RemoveStep
<1>2. n = lowest
  BY Zenon, <1>1
<1>3. \A m \in DOMAIN files : lowest <= m
  BY Zenon DEF LogInv, Backed
<1>4. ASSUME NEW r \in LiveRefs PROVE r.seg > lowest
  <2>1. r.seg \in DOMAIN files /\ r.seg # lowest
    BY Zenon, LiveRefHeld
  <2> QED
    BY SMTT(60), <1>3, <2>1
<1> QED
  BY Zenon, <1>1, <1>2, <1>3, <1>4

-----------------------------------------------------------------------------
(***************************************************************************)
(* The custody of an item.                                                 *)
(***************************************************************************)

\* With a sound disk, the places an item can be in are apart.
LEMMA ItemsApart ==
  ASSUME Inv, SoundInv, AccountInv, SoundDisk, ~flushFailed
  PROVE  Apart
<1> /\ Clean(files) /\ Ordered(files) /\ (up => LoggedIds = Outstanding(files))
    /\ Settled \cap (VolatileIds \cup Outstanding(files)) = {}
    /\ lost \cap (VolatileIds \cup Settled \cup Written(files)) = {} /\ Settled \cup lost \subseteq arrived
  BY Zenon DEF SoundInv, SoundLog, RefsFit, Ended, Basics
<1>1. LogIds = Outstanding(files)
  <2>1. Legible(files) /\ FilesOK(files)
    BY Zenon, StoreInvFiles DEF Clean, Legible, Inv, LogInv, StoreInv
  <2> QED
    BY Zenon, <2>1, ReplayFinds DEF LogIds
<1>2. /\ VolatileIds \cap LoggedIds = {} /\ VolatileIds \subseteq arrived /\ Written(files) \subseteq arrived
  BY Zenon, Disjoint DEF SoundInv
<1>3. DOMAIN inflight \subseteq arrived /\ (~up => DOMAIN inflight = {})
  BY Zenon DEF Inv, PlaceInv, Placed, OpShape
<1>4. arrived \subseteq VolatileIds \cup LoggedIds \cup Settled \cup lost \cup (IF up THEN {} ELSE Outstanding(files))
  BY DEF AccountInv, Accounted, SoundDisk, OneTear
<1> HIDE DEF LogIds
<1>5. Outstanding(files) \subseteq Written(files)
  BY Zenon DEF Outstanding
<1> QED
  BY Zenon, <1>1, <1>2, <1>3, <1>4, <1>5, DeadHolds DEF Apart

\* Every flow of a running queue but the abandoned one is such a move.
LEMMA FlowMoves ==
  ASSUME Inv, SoundInv, Flow, up, up', SoundDisk', flushFailed' = FALSE
  PROVE  Moves
<1> VolatileIds \cap LoggedIds = {} /\ LoggedIds = {s[1] : s \in Spots} \cup BootIds
  BY Zenon, Disjoint DEF SoundInv
<1> LoggedIds' = {s[1] : s \in Spots'} \cup BootIds'
  BY Zenon, LoggedNext
<1>1. ASSUME NEW I, NEW J, MemoryFlow(I, J) PROVE Moves
  <2>1. /\ Running /\ Settled' = Settled \cup J /\ arrived' = arrived \cup I /\ Spots' = Spots /\ BootIds' = BootIds
        /\ arrived' = arrived \/ inflight' = inflight
    BY Zenon, <1>1 DEF MemoryFlow
  <2> QED
    BY Zenon, <2>1 DEF Moves
<1>2. ASSUME NEW i, NEW a, SpillFlow(i, a) PROVE Moves
  <2>1. /\ Running /\ Settled' = Settled /\ arrived' = arrived
        /\ Spots' = Spots \cup {<<i, Location.seg, Location.pos>>} /\ BootIds' = BootIds /\ i \notin DOMAIN inflight'
    BY Zenon, <1>2 DEF SpillFlow
  <2>2. \A j : j \in LoggedIds' <=> j \in LoggedIds \/ j = i
    <3> DEFINE x == <<i, Location.seg, Location.pos>>
    <3>1. x[1] = i
      BY Zenon
    <3> HIDE DEF x
    <3>2. Spots' = Spots \cup {x}
      BY Zenon, <2>1 DEF x
    <3> QED
      BY Zenon, <2>1, <3>1, <3>2
  <2> QED
    BY Zenon, <2>1, <2>2 DEF Moves
<1>3. ASSUME NEW i \in Ids, SettleFlow(i) PROVE Moves
  <2>1. Running /\ Settled' = Settled \cup {i} /\ arrived' = arrived
    BY Zenon, <1>3 DEF SettleFlow
  <2>2. LoggedIds' = LoggedIds \ {i}
    BY Zenon, <1>3, SettleSound
  <2> QED
    BY Zenon, <2>1, <2>2 DEF Moves
<1>4. CASE CompactFlow
  <2>1. Running /\ Settled' = Settled /\ arrived' = arrived
    BY Zenon, <1>4 DEF CompactFlow
  <2>2. LoggedIds' = LoggedIds
    BY Zenon, <1>4, CompactSound
  <2> QED
    BY Zenon, <2>1, <2>2 DEF Moves
<1>5. ~(Crash \/ New \/ \E i \in Ids : AbandonFlow(i))
  BY Zenon, DeadFlow, NewFlow DEF AbandonFlow
<1>6. ~NewCrash
  BY Zenon, NewCrashSound
<1> QED
  BY Zenon, <1>1, <1>2, <1>3, <1>4, <1>5, <1>6 DEF Flow, ItemFlow

\* A move takes every item where ItemCustody lets it go.
LEMMA MovedItem ==
  ASSUME Apart, Apart', Moves, NEW i \in Ids
  PROVE  /\ CustodyOf(i)' \in Custody!Custodies
         /\ CustodyOf(i)' = CustodyOf(i) \/ CustodyOf(i)' \in Custody!Onward(CustodyOf(i))
<1> DEFINE v == i \in VolatileIds  g == i \in LogIds  s == i \in Settled  l == i \in lost
           a == i \in arrived      d == i \in DOMAIN inflight
<1>1. /\ ~(v /\ g) /\ ~(s /\ (v \/ g)) /\ ~(l /\ (v \/ g \/ s)) /\ (a <=> v \/ g \/ s \/ l) /\ (d => a)
      /\ (~(v /\ g) /\ ~(s /\ (v \/ g)) /\ ~(l /\ (v \/ g \/ s)) /\ (a <=> v \/ g \/ s \/ l) /\ (d => a))'
  BY Zenon DEF Apart
<1>2. (l' <=> l) /\ (s => s') /\ (g => g' \/ s') /\ ~(v /\ g' /\ d') /\ (a => a') /\ ((a' <=> a) \/ (d' <=> d))
  BY Zenon DEF Moves, Running, LogIds
<1>3. CustodyOf(i) = IF v THEN IF d THEN "taken" ELSE "buffered" ELSE IF g THEN IF d THEN "on loan" ELSE "stored"
                     ELSE IF s THEN "settled" ELSE IF l THEN "lost" ELSE IF a THEN "gone" ELSE "new"
  BY Zenon DEF CustodyOf, LogIds
<1>4. CustodyOf(i)' = IF v' THEN IF d' THEN "taken" ELSE "buffered" ELSE IF g' THEN IF d' THEN "on loan" ELSE "stored"
                      ELSE IF s' THEN "settled" ELSE IF l' THEN "lost" ELSE IF a' THEN "gone" ELSE "new"
  BY Zenon DEF CustodyOf, LogIds
<1>5. CustodyOf(i)' \in Custody!Custodies
  BY Zenon, <1>1, <1>4 DEF Custody!Custodies
<1>6. CustodyOf(i)' = CustodyOf(i) \/ CustodyOf(i)' \in Custody!Onward(CustodyOf(i))
  <2>1. CASE v
    BY Zenon, <2>1, <1>1, <1>2, <1>3, <1>4 DEF Custody!Onward
  <2>2. CASE g
    BY Zenon, <2>2, <1>1, <1>2, <1>3, <1>4 DEF Custody!Onward
  <2>3. CASE s \/ l
    BY Zenon, <2>3, <1>1, <1>2, <1>3, <1>4
  <2>4. CASE ~a
    BY Zenon, <2>4, <1>1, <1>2, <1>3, <1>4 DEF Custody!Onward
  <2> QED
    BY Zenon, <1>1, <2>1, <2>2, <2>3, <2>4
<1> QED
  BY Zenon, <1>5, <1>6

\* Once the places are apart, the log has what is nowhere else.
LEMMA TheRest ==
  ASSUME Apart, Apart', arrived' = arrived, Settled' = Settled,
         VolatileIds' \cup lost' = VolatileIds \cup lost
  PROVE  LogIds' = LogIds
  BY ZenonT(60) DEF Apart

\* The death of the process takes what was in memory.
LEMMA CustodyDies ==
  ASSUME Apart, Apart', Crash
  PROVE  Custody!Die
<1> /\ up /\ ~up' /\ VolatileIds' = {} /\ DOMAIN inflight' = {} /\ lost' = lost \cup VolatileIds
    /\ arrived' = arrived /\ Settled' = Settled
  BY Zenon, DeadFlow
<1>1. LogIds' = LogIds
  BY Zenon, TheRest
<1>2. up' = FALSE
  BY Zenon DEF Crash
<1>3. ASSUME NEW i \in Ids PROVE CustodyOf(i)' = Custody!AfterDeath(CustodyOf(i))
  <2>1. CustodyOf(i)' = IF i \in LogIds THEN "stored" ELSE IF i \in Settled THEN "settled"
                        ELSE IF i \in lost \cup VolatileIds THEN "lost" ELSE IF i \in arrived THEN "gone" ELSE "new"
    BY Zenon, <1>1 DEF CustodyOf, LogIds
  <2>2. CustodyOf(i) = IF i \in VolatileIds THEN IF i \in DOMAIN inflight THEN "taken" ELSE "buffered"
                       ELSE IF i \in LogIds THEN IF i \in DOMAIN inflight THEN "on loan" ELSE "stored"
                       ELSE IF i \in Settled THEN "settled" ELSE IF i \in lost THEN "lost"
                       ELSE IF i \in arrived THEN "gone" ELSE "new"
    BY Zenon DEF CustodyOf, LogIds
  <2> QED
    BY Zenon, <2>1, <2>2 DEF Custody!AfterDeath, Apart
<1> QED
  BY Zenon, <1>2, <1>3 DEF Custody!Die, CustodyOfIds

\* A process that starts finds the log as the last one left it.
LEMMA CustodyStarts ==
  ASSUME Inv, Apart, Apart', New
  PROVE  Custody!Start
<1> /\ ~up /\ up' /\ VolatileIds' = {} /\ DOMAIN inflight' = {} /\ lost' = lost
    /\ arrived' = arrived /\ Settled' = Settled
  BY Zenon, NewFlow
<1> VolatileIds = {} /\ DOMAIN inflight = {}
  BY Zenon DEF Apart
<1>1. LogIds' = LogIds
  BY Zenon, TheRest
<1>2. up' = TRUE
  BY Zenon DEF New
<1>3. ASSUME NEW i \in Ids PROVE CustodyOf(i)' = CustodyOf(i)
  BY Zenon, <1>1 DEF CustodyOf, LogIds
<1> QED
  BY Zenon, <1>2, <1>3 DEF Custody!Start, CustodyOfIds

\* Every step of the queue is a step of ItemCustody or leaves it alone.
LEMMA CustodyStep ==
  ASSUME Inv, SoundInv, Apart, Apart', Flow, SoundDisk', flushFailed' = FALSE
  PROVE  Custody!Next
<1>1. CASE up /\ up'
  <2>1. Moves
    BY Zenon, <1>1, FlowMoves
  <2>2. up' = up
    BY Zenon, <2>1 DEF Moves, Running
  <2>3. ASSUME NEW i \in Ids
        PROVE  /\ CustodyOf(i)' \in Custody!Custodies
               /\ CustodyOf(i)' = CustodyOf(i) \/ CustodyOf(i)' \in Custody!Onward(CustodyOf(i))
    BY Zenon, <2>1, MovedItem
  <2> QED
    BY Zenon, <1>1, <2>2, <2>3 DEF Custody!Next, Custody!Move, CustodyOfIds
<1>2. CASE ~(up /\ up')
  <2>1. Crash \/ New
    BY SMTT(60), <1>2, NewCrashSound DEF Flow, ItemFlow, MemoryFlow, SpillFlow, SettleFlow, AbandonFlow, CompactFlow, Running
  <2> QED
    BY ZenonT(60), <2>1, CustodyDies, CustodyStarts DEF Custody!Next
<1> QED
  BY Zenon, <1>1, <1>2

\* A step that changes nothing leaves every item where it is.
LEMMA CustodyStutter ==
  ASSUME Apart, Apart', UNCHANGED vars
  PROVE  UNCHANGED <<CustodyOfIds, up>>
<1> VolatileIds' = VolatileIds /\ Settled' = Settled
  BY Zenon, Stuttering
<1> UNCHANGED <<up, arrived, inflight, lost>>
  BY Zenon DEF vars, bootVars
<1>1. LogIds' = LogIds
  BY Zenon, TheRest
<1>2. ASSUME NEW i \in Ids PROVE CustodyOf(i)' = CustodyOf(i)
  BY Zenon, <1>1 DEF CustodyOf, LogIds
<1> QED
  BY Zenon, <1>2 DEF CustodyOfIds

\* The queue starts with every item new.
LEMMA CustodyInit ==
  ASSUME Init, Apart
  PROVE  Custody!Init
<1> up = FALSE /\ arrived = {}
  BY Zenon DEF Init
<1>1. ASSUME NEW i \in Ids PROVE CustodyOf(i) = "new"
  BY Zenon DEF CustodyOf, Apart, LogIds
<1> QED
  BY Zenon, <1>1 DEF Custody!Init, CustodyOfIds
=============================================================================
