-------------------------- MODULE QueueStateProofs --------------------------
(***************************************************************************)
(* What the invariant of the queue says of an entry, a reference, a claim  *)
(* count or an operation record, and the steps the actions share.          *)
(***************************************************************************)
EXTENDS QueueInvariants, DiskStoreProofs, TLAPS

-----------------------------------------------------------------------------
(***************************************************************************)
(* Entries, operation records, and the heads and tails of the sequences.   *)
(***************************************************************************)

\* Records written for entries are records.
LEMMA RecordTypesOK ==
  /\ \A i \in Ids : AckRecord(i) \in Records /\ AckRecord(i).id = i
  /\ \A e \in Entries : SpillRecord(e) \in Records /\ SpillRecord(e).id = e.id
  BY Zenon, AttemptsOK DEF AckRecord, SpillRecord, ItemRecord, Records, RecordTypes, Entries

\* The entry of a new item, and a nacked one that is not retired.
LEMMA NewEntry ==
  ASSUME NEW i \in Ids
  PROVE  LET e == Entry(i, 0, InMemory) IN e \in MemoryEntries /\ e.id = i /\ e.att = 0
  BY Zenon, AttemptsOK DEF Entry, InMemory, MemoryEntries, Entries

LEMMA NackedEntry ==
  ASSUME NEW e \in Entries, ~Retires(e)
  PROVE  Nacked(e) \in Entries /\ Nacked(e).id = e.id /\ Nacked(e).seg = e.seg /\ Nacked(e).pos = e.pos
<1>1. e.att \in Attempts
  BY Zenon DEF Entries
<1>2. Charges(op.kind) => e.att + 1 \in Attempts
  BY <1>1, StoreAssumption DEF Retires, Nacked, Entries, Attempts
<1> QED
  BY Zenon, <1>2 DEF Nacked, Entries

\* The operations an action starts.
LEMMA StartedOps ==
  /\ \A k \in OpKinds, ids \in Seq(Ids) :
       /\ Start(k, ids) \in Ops /\ Start(k, ids).k = k /\ Start(k, ids).ids = ids
       /\ Start(k, ids).refs = <<>> /\ Start(k, ids).mems = <<>>
  /\ Idle \in Ops /\ Idle.k = "idle" /\ Idle.ids = <<>> /\ Idle.refs = <<>> /\ Idle.mems = <<>>
  /\ \A S : <<>> \in Seq(S)
<1>3. \A S : <<>> \in Seq(S)
  OBVIOUS
<1>4. "idle" \in OpKinds /\ "failed" \in Kinds
  BY Zenon DEF OpKinds, Kinds
<1>1. ASSUME NEW k \in OpKinds, NEW ids \in Seq(Ids)
      PROVE  /\ Start(k, ids) \in Ops /\ Start(k, ids).k = k /\ Start(k, ids).ids = ids
             /\ Start(k, ids).refs = <<>> /\ Start(k, ids).mems = <<>>
  <2>1. <<>> \in Seq(MemoryEntries) /\ FALSE \in BOOLEAN
    OBVIOUS
  <2> QED
    BY <1>4, <2>1 DEF Start, Operation, Ops
<1>2. Idle \in Ops /\ Idle.k = "idle" /\ Idle.ids = <<>> /\ Idle.refs = <<>> /\ Idle.mems = <<>>
  <2>1. "idle" \in OpKinds /\ <<>> \in Seq(Ids) /\ Idle = Start("idle", <<>>)
    BY <1>4 DEF Idle
  <2> QED
    BY ZenonT(60), <1>1, <2>1
<1> QED
  BY Zenon, <1>1, <1>2, <1>3

\* Dropping the first id of a settlement keeps the operation well formed.
LEMMA NextIdsOp ==
  ASSUME Inv, op.ids # <<>>
  PROVE  /\ NextIds \in Ops /\ NextIds.k = op.k /\ NextIds.refs = op.refs /\ NextIds.mems = op.mems
         /\ NextIds.ids = Tail(op.ids) /\ NextIds.kind = op.kind
         /\ Range(NextIds.ids) \subseteq arrived
         /\ Head(op.ids) \in Ids /\ Head(op.ids) \in arrived
<1> op \in Ops /\ op.ids \in Seq(Ids) /\ Range(op.ids) \subseteq arrived
  BY Zenon DEF Inv, PlaceInv, QueueTypes, Ops, Placed
<1> Head(op.ids) \in Ids /\ Tail(op.ids) \in Seq(Ids) /\ Range(op.ids) = Range(Tail(op.ids)) \cup {Head(op.ids)}
  BY Zenon, TailEntries
<1>1. /\ NextIds \in Ops /\ NextIds.k = op.k /\ NextIds.refs = op.refs /\ NextIds.mems = op.mems
      /\ NextIds.ids = Tail(op.ids) /\ NextIds.kind = op.kind
  BY Zenon DEF NextIds, Ops
<1> QED
  BY Zenon, <1>1

\* What an operation is when it starts.
LEMMA FreshOp ==
  /\ Idle.k = "idle" /\ \A ids : Start("compact", ids).k = "compact" /\ ~Start("compact", ids).flag
  /\ \A k, ids, mems, kind, flag :
       Operation(k, ids, mems, kind, flag).k = k /\ Operation(k, ids, mems, kind, flag).flag = flag
  /\ \A k, ids : Start(k, ids).k = k
  BY Zenon DEF Idle, Start, Operation

\* The oldest item in memory is a memory item, and nowhere else.
LEMMA HeadOfMem ==
  ASSUME Inv, mem # <<>>
  PROVE  /\ Head(mem) \in MemoryEntries /\ Tail(mem) \in Seq(MemoryEntries)
         /\ Head(mem).id \in Ids /\ Head(mem).id \in arrived
         /\ EntryIds(mem) = EntryIds(Tail(mem)) \cup {Head(mem).id}
         /\ DistinctIds(Tail(mem)) /\ Head(mem).id \notin EntryIds(Tail(mem))
         /\ Head(mem).id \notin EntryIds(diskRefs) /\ Head(mem).id \notin DOMAIN inflight
         /\ Head(mem).id \notin EntryIds(op.refs) /\ Head(mem).id \notin EntryIds(op.mems)
         /\ Head(mem).id \notin Callers
<1>1. mem \in Seq(MemoryEntries) /\ DistinctIds(mem)
  BY Zenon DEF Inv, PlaceInv, QueueTypes, OnePlace
<1> /\ Head(mem) \in MemoryEntries /\ Tail(mem) \in Seq(MemoryEntries)
    /\ EntryIds(mem) = EntryIds(Tail(mem)) \cup {Head(mem).id}
    /\ DistinctIds(Tail(mem)) /\ Head(mem).id \notin EntryIds(Tail(mem))
  BY Zenon, <1>1, TailEntries
<1>2. Head(mem).id \in Ids
  BY Zenon DEF MemoryEntries, Entries
<1> QED
  BY Zenon, <1>2 DEF Inv, PlaceInv, OnePlace, Placed

\* What a recovery reads back from the log is a reference.
LEMMA RecoveredRefs ==
  ASSUME NEW s \in Seq([id : Ids, att : Attempts, seg : Nat, pos : Nat])
  PROVE  s \in Seq(Refs)
<1>1. [id : Ids, att : Attempts, seg : Nat, pos : Nat] \subseteq Refs
  BY DEF Refs, Entries, NoSeg
<1> QED
  BY Zenon, <1>1, WiderSequence

\* The oldest entry goes to the back of the memory queue.
LEMMA HeadToBack ==
  ASSUME Inv, mem # <<>>, mem' = Append(Tail(mem), Head(mem))
  PROVE  mem' \in Seq(MemoryEntries) /\ EntryIds(mem') = EntryIds(mem) /\ DistinctIds(mem')
<1> DEFINE e == Head(mem)
           t == Tail(mem)
<1>1. /\ e \in MemoryEntries /\ t \in Seq(MemoryEntries) /\ DistinctIds(t) /\ e.id \notin EntryIds(t)
      /\ EntryIds(mem) = EntryIds(t) \cup {e.id} /\ mem' = Append(t, e)
  BY Zenon, HeadOfMem
<1> HIDE DEF e, t
<1>2. /\ Append(t, e) \in Seq(MemoryEntries) /\ EntryIds(Append(t, e)) = EntryIds(t) \cup {e.id}
      /\ DistinctIds(Append(t, e))
  BY SMTT(60), <1>1, AppendEntries
<1> QED
  BY Zenon, <1>1, <1>2

\* The item of the Enqueue that holds the lock is nowhere else.
LEMMA EnqueuedItem ==
  ASSUME Inv, op.k = "enqueue"
  PROVE  /\ op.ids[1] \in Ids /\ op.ids[1] \in arrived /\ EnqueuedId = {op.ids[1]}
         /\ op.refs = <<>> /\ op.mems = <<>>
         /\ op.ids[1] \notin EntryIds(mem) /\ op.ids[1] \notin EntryIds(diskRefs)
         /\ op.ids[1] \notin DOMAIN inflight /\ op.ids[1] \notin retrying /\ op.ids[1] \notin parked
<1> op.ids \in Seq(Ids) /\ op.ids # <<>>
  BY Zenon DEF Inv, PlaceInv, OpShape, QueueTypes, Ops
<1>1. Len(op.ids) \in Nat /\ Len(op.ids) # 0 /\ DOMAIN op.ids = 1..Len(op.ids)
  OBVIOUS
<1>2. op.ids[1] \in Ids /\ op.ids[1] \in Range(op.ids)
  <2>1. 1 \in 1..Len(op.ids) /\ 1 \in DOMAIN op.ids
    BY <1>1
  <2> QED
    BY <2>1 DEF Range
<1>3. EnqueuedId = {op.ids[1]}
  BY Zenon DEF EnqueuedId
<1> QED
  BY Zenon, <1>2, <1>3 DEF Inv, PlaceInv, OpShape, OnePlace, Placed, Callers

\* The pairs of a slice that gains, or has lost, one reference.
LEMMA PairsAdded ==
  ASSUME NEW s, NEW t, NEW e, Range(t) = Range(s) \cup {e}
  PROVE  Pairs(t) = Pairs(s) \cup {<<e.id, e.seg>>}
<1>1. ASSUME NEW r \in Range(t) PROVE <<r.id, r.seg>> \in Pairs(s) \cup {<<e.id, e.seg>>}
  BY Zenon DEF Pairs
<1>2. ASSUME NEW r \in Range(s) PROVE <<r.id, r.seg>> \in Pairs(t)
  BY Zenon DEF Pairs
<1>3. <<e.id, e.seg>> \in Pairs(t)
  BY Zenon DEF Pairs
<1> QED
  BY Zenon, <1>1, <1>2, <1>3 DEF Pairs

\* A reference is appended.
LEMMA RefAppended ==
  ASSUME NEW s \in Seq(Refs), NEW r \in Refs, NEW t, t = Append(s, r)
  PROVE  /\ t \in Seq(Refs) /\ EntryIds(t) = EntryIds(s) \cup {r.id}
         /\ DistinctIds(s) /\ r.id \notin EntryIds(s) => DistinctIds(t)
         /\ Pairs(t) = Pairs(s) \cup {<<r.id, r.seg>>}
<1>1. /\ t \in Seq(Refs) /\ EntryIds(t) = EntryIds(s) \cup {r.id} /\ Range(t) = Range(s) \cup {r}
      /\ DistinctIds(s) /\ r.id \notin EntryIds(s) => DistinctIds(t)
  BY SMTT(60), AppendEntries
<1>2. Pairs(t) = Pairs(s) \cup {<<r.id, r.seg>>}
  BY SMTT(60), <1>1, PairsAdded
<1> QED
  BY Zenon, <1>1, <1>2

\* An item of memory is put before the others, which are turned round.
LEMMA MemReturned ==
  ASSUME NEW s \in Seq(MemoryEntries), NEW e \in MemoryEntries, NEW t, t = <<e>> \o Reverse(s)
  PROVE  /\ t \in Seq(MemoryEntries) /\ EntryIds(t) = EntryIds(s) \cup {e.id}
         /\ DistinctIds(s) /\ e.id \notin EntryIds(s) => DistinctIds(t)
  BY SMTT(60), ReturnedEntries

\* The oldest reference is a reference, and its item is nowhere else.
LEMMA HeadOfRefs ==
  ASSUME Inv, diskRefs # <<>>
  PROVE  /\ Head(diskRefs) \in Refs /\ Tail(diskRefs) \in Seq(Refs)
         /\ Head(diskRefs).id \in Ids /\ Head(diskRefs).id \in arrived /\ Head(diskRefs).seg \in Nat
         /\ Head(diskRefs).seg # NoSeg
         /\ EntryIds(diskRefs) = EntryIds(Tail(diskRefs)) \cup {Head(diskRefs).id}
         /\ Pairs(diskRefs) = Pairs(Tail(diskRefs)) \cup {<<Head(diskRefs).id, Head(diskRefs).seg>>}
         /\ DistinctIds(Tail(diskRefs)) /\ Head(diskRefs).id \notin EntryIds(Tail(diskRefs))
         /\ Head(diskRefs).id \notin EntryIds(mem) /\ Head(diskRefs).id \notin DOMAIN inflight
         /\ Head(diskRefs).id \notin EntryIds(op.refs) /\ Head(diskRefs).id \notin EntryIds(op.mems)
         /\ Head(diskRefs).id \notin Callers
<1>1. diskRefs \in Seq(Refs) /\ DistinctIds(diskRefs)
  BY Zenon DEF Inv, PlaceInv, QueueTypes, OnePlace
<1> /\ Head(diskRefs) \in Refs /\ Tail(diskRefs) \in Seq(Refs)
    /\ EntryIds(diskRefs) = EntryIds(Tail(diskRefs)) \cup {Head(diskRefs).id}
    /\ Range(diskRefs) = Range(Tail(diskRefs)) \cup {Head(diskRefs)}
    /\ DistinctIds(Tail(diskRefs)) /\ Head(diskRefs).id \notin EntryIds(Tail(diskRefs))
  BY Zenon, <1>1, TailEntries
<1>2. Head(diskRefs).id \in Ids /\ Head(diskRefs).seg \in Nat /\ Head(diskRefs).seg # NoSeg
  BY Zenon DEF Refs, Entries
<1>3. Pairs(diskRefs) = Pairs(Tail(diskRefs)) \cup {<<Head(diskRefs).id, Head(diskRefs).seg>>}
  BY SMTT(60), PairsAdded
<1> QED
  BY Zenon, <1>2, <1>3 DEF Inv, PlaceInv, OnePlace, Placed

\* What a pull does to the operation.
LEMMA PulledOp ==
  ASSUME Inv, op.k = "dequeue", NEW i \in Ids, i \in arrived,
         op' = [op EXCEPT !.ids = Append(@, i), !.flag = FALSE]
  PROVE  /\ op' \in Ops /\ op'.k = "dequeue" /\ op'.refs = <<>> /\ op'.mems = <<>>
         /\ Range(op'.ids) \subseteq arrived /\ op.refs = <<>> /\ op.mems = <<>>
         /\ EnqueuedId = {} /\ EnqueuedId' = {}
<1> op \in Ops /\ op.ids \in Seq(Ids) /\ Range(op.ids) \subseteq arrived /\ op.refs = <<>> /\ op.mems = <<>>
  BY Zenon DEF Inv, PlaceInv, QueueTypes, Ops, OpShape, Placed
<1> Append(op.ids, i) \in Seq(Ids) /\ Range(Append(op.ids, i)) = Range(op.ids) \cup {i}
  BY AppendEntries
<1> op' \in Ops /\ op'.k = "dequeue" /\ op'.refs = op.refs /\ op'.mems = op.mems
    /\ op'.ids = Append(op.ids, i)
  BY Zenon DEF Ops
<1>1. EnqueuedId = {} /\ EnqueuedId' = {}
  BY Zenon DEF EnqueuedId
<1> QED
  BY Zenon, <1>1

\* An entry of the inflight map is filed under its own id.
LEMMA InflightEntry ==
  ASSUME Inv, NEW i \in DOMAIN inflight
  PROVE  inflight[i] \in Entries /\ inflight[i].id = i
  BY Zenon DEF Inv, PlaceInv, QueueTypes

\* The last collected memory item leaves the hands of the nack.
LEMMA LastOfMems ==
  ASSUME Inv, Requeuing, Requeued
  PROVE  /\ up /\ op.k = "requeue" /\ op.refs = <<>>
         /\ Last(op.mems) \in MemoryEntries /\ Last(op.mems).id \in Ids /\ Last(op.mems).id \in arrived
         /\ op' \in Ops /\ op'.k = "requeue" /\ op'.ids = op.ids /\ op'.refs = <<>>
         /\ EntryIds(op.mems) = EntryIds(op'.mems) \cup {Last(op.mems).id}
         /\ DistinctIds(op'.mems) /\ Last(op.mems).id \notin EntryIds(op'.mems)
         /\ Last(op.mems).id \notin EntryIds(mem) /\ Last(op.mems).id \notin EntryIds(diskRefs)
         /\ Last(op.mems).id \notin DOMAIN inflight /\ Last(op.mems).id \notin EntryIds(op.refs)
         /\ Last(op.mems).id \notin Callers
         /\ EnqueuedId = {} /\ EnqueuedId' = {}
<1> /\ up /\ op.k = "requeue" /\ op.refs = <<>> /\ op.mems # <<>> /\ op \in Ops
    /\ op.mems \in Seq(MemoryEntries) /\ DistinctIds(op.mems)
  BY Zenon DEF Requeuing, Doing, Inv, PlaceInv, QueueTypes, Ops, OpShape, OnePlace
<1> /\ Last(op.mems) \in MemoryEntries /\ Front(op.mems) \in Seq(MemoryEntries)
    /\ EntryIds(op.mems) = EntryIds(Front(op.mems)) \cup {Last(op.mems).id}
    /\ DistinctIds(Front(op.mems)) /\ Last(op.mems).id \notin EntryIds(Front(op.mems))
  BY Zenon, FrontEntries
<1>1. Last(op.mems).id \in Ids
  BY Zenon DEF MemoryEntries, Entries
<1> op' \in Ops /\ op'.k = op.k /\ op'.ids = op.ids /\ op'.refs = op.refs /\ op'.mems = Front(op.mems)
  BY Zenon DEF Requeued, Ops
<1>2. EnqueuedId = {} /\ EnqueuedId' = {}
  BY Zenon DEF EnqueuedId
<1>3. /\ Last(op.mems).id \notin EntryIds(mem) /\ Last(op.mems).id \notin EntryIds(diskRefs)
      /\ Last(op.mems).id \notin DOMAIN inflight /\ Last(op.mems).id \notin EntryIds(op.refs)
      /\ Last(op.mems).id \notin Callers /\ Last(op.mems).id \in arrived
  BY Zenon DEF Inv, PlaceInv, OnePlace, Placed
<1> QED
  BY Zenon, <1>1, <1>2, <1>3

\* No live reference points into a segment without claims.
LEMMA UnclaimedNotHeld ==
  ASSUME LogInv, NEW n, Claimed(n) = 0
  PROVE  \A h \in Held : h[2] # n
<1>1. n \notin DOMAIN claims
  BY Zenon DEF LogInv, ClaimsOK, Claimed
<1> QED
  BY Zenon, <1>1 DEF LogInv, Counts

\* A live reference is a held pair.
LEMMA LiveRefHeld ==
  ASSUME LogInv, NEW r \in LiveRefs
  PROVE  /\ r.seg \in DOMAIN files /\ r.seg \in DOMAIN claims
         /\ \A n : Claimed(n) = 0 => r.seg # n
<1> <<r.id, r.seg>> \in Held
  BY Zenon DEF Held
<1>1. <<r.id, r.seg>>[2] \in DOMAIN files /\ <<r.id, r.seg>>[2] \in DOMAIN claims
  BY Zenon DEF LogInv, Backed, Counts
<1>2. \A n : Claimed(n) = 0 => <<r.id, r.seg>>[2] # n
  BY Zenon, UnclaimedNotHeld
<1> QED
  BY Zenon, <1>1, <1>2

\* The references the queue answers for.
LEMMA LiveRefsAre ==
  /\ LiveRefs = Range(diskRefs) \cup OutRefs \cup Range(op.refs)
  /\ LiveRefs' = Range(diskRefs') \cup OutRefs' \cup Range(op'.refs)
  BY Zenon DEF LiveRefs, OutRefs

\* The record an operation is in the middle of appending is one of its items'.
LEMMA AppendingOK ==
  ASSUME Inv, up, NEW rec \in Appending
  PROVE  rec \in Records /\ rec.id \in arrived
<1>1. \/ mem # <<>> /\ rec = SpillRecord(Head(mem))
      \/ op.k = "enqueue" /\ rec = ItemRecord(op.ids[1], 0)
      \/ op.mems # <<>> /\ rec = SpillRecord(Last(op.mems))
      \/ op.ids # <<>> /\ rec = AckRecord(Head(op.ids))
      \/ diskRefs # <<>> /\ rec = AckRecord(Head(diskRefs).id)
  BY Zenon DEF Appending, RetiringRecord, Requeuing, Settling, Pulling
<1>2. CASE mem # <<>> /\ rec = SpillRecord(Head(mem))
  BY Zenon, <1>2, HeadOfMem, RecordTypesOK DEF MemoryEntries
<1>3. CASE op.k = "enqueue" /\ rec = ItemRecord(op.ids[1], 0)
  BY Zenon, <1>3, EnqueuedItem, AttemptsOK DEF ItemRecord, Records, RecordTypes
<1>4. CASE op.mems # <<>> /\ rec = SpillRecord(Last(op.mems))
  <2>1. op.mems \in Seq(MemoryEntries) /\ EntryIds(op.mems) \subseteq arrived
    BY Zenon DEF Inv, PlaceInv, QueueTypes, Ops, Placed
  <2>2. Last(op.mems) \in Entries /\ Last(op.mems).id \in arrived
    <3>1. /\ Last(op.mems) \in MemoryEntries
          /\ EntryIds(op.mems) = EntryIds(Front(op.mems)) \cup {Last(op.mems).id}
      BY Zenon, <1>4, <2>1, FrontEntries
    <3> QED
      BY Zenon, <2>1, <3>1 DEF MemoryEntries
  <2> QED
    BY Zenon, <1>4, <2>2, RecordTypesOK
<1>5. CASE op.ids # <<>> /\ rec = AckRecord(Head(op.ids))
  BY Zenon, <1>5, NextIdsOp, RecordTypesOK
<1>6. CASE diskRefs # <<>> /\ rec = AckRecord(Head(diskRefs).id)
  BY Zenon, <1>6, HeadOfRefs, RecordTypesOK
<1> QED
  BY Zenon, <1>1, <1>2, <1>3, <1>4, <1>5, <1>6

-----------------------------------------------------------------------------
(***************************************************************************)
(* The claim counts. What happens to them follows from what happens to     *)
(* Held, the relation item -> segment of the live references.              *)
(***************************************************************************)

\* ClaimsExact, with the count expressed over pairs of id and segment.
LEMMA ClaimsExactIsCounts == ClaimsExact <=> Counts
<1>1. ASSUME \A r \in LiveRefs : r.seg \in DOMAIN claims, NEW h \in Held
      PROVE  h[2] \in DOMAIN claims
  <2>1. PICK r \in LiveRefs : h = <<r.id, r.seg>>
    BY Zenon DEF Held
  <2> QED
    BY Zenon, <1>1, <2>1
<1>2. ASSUME \A h \in Held : h[2] \in DOMAIN claims, NEW r \in LiveRefs
      PROVE  r.seg \in DOMAIN claims
  <2>1. <<r.id, r.seg>> \in Held
    BY Zenon DEF Held
  <2>2. <<r.id, r.seg>>[2] \in DOMAIN claims
    BY Zenon, <1>2, <2>1
  <2> QED
    BY Zenon, <2>2
<1> QED
  BY Zenon, <1>1, <1>2 DEF ClaimsExact, Counts

\* The holders of a segment are finitely many.
LEMMA HoldersFinite ==
  ASSUME Counting
  PROVE  \A n : IsFiniteSet(Holders(n)) /\ Cardinality(Holders(n)) \in Nat
<1> TAKE n
<1>1. Holders(n) \in SUBSET Ids
  BY Zenon DEF Holders
<1> QED
  BY Zenon, <1>1, StoreAssumption DEF Counting

\* References that move between the slices and the inflight map keep their claims.
LEMMA CountsKept ==
  ASSUME ClaimsOK, Counts, Held' = Held, UNCHANGED claimVars
  PROVE  ClaimsOK' /\ Counts'
<1>1. claims' = claims /\ underflows' = underflows /\ \A n : Holders(n)' = Holders(n)
  BY Zenon DEF claimVars, Holders
<1> QED
  BY Zenon, <1>1 DEF ClaimsOK, Counts

\* addDiskRefUnlocked: a new reference, one more claim.
LEMMA CountsAdded ==
  ASSUME Counting, ClaimsOK, Counts, NEW i \in Ids, NEW n \in Nat,
         \A m : <<i, m>> \notin Held,
         Held' = Held \cup {<<i, n>>},
         claims' = AddClaim(n), underflows' = underflows
  PROVE  ClaimsOK' /\ Counts'
<1>1. Holders(n)' = Holders(n) \cup {i} /\ i \notin Holders(n)
  BY Zenon DEF Holders
<1>2. \A m : m # n => Holders(m)' = Holders(m)
  BY Zenon DEF Holders
<1>3. Cardinality(Holders(n)') = Cardinality(Holders(n)) + 1
  <2>1. IsFiniteSet(Holders(n))
    BY Zenon, HoldersFinite
  <2>2. Cardinality(Holders(n) \cup {i}) = Cardinality(Holders(n)) + 1
    BY Zenon, <1>1, <2>1 DEF Counting
  <2> QED
    BY Zenon, <1>1, <2>2
<1> Claimed(n) = Cardinality(Holders(n))
  <2>1. CASE n \in DOMAIN claims
    BY Zenon, <2>1 DEF Claimed, Counts
  <2>2. CASE n \notin DOMAIN claims
    <3>1. Holders(n) = {}
      BY Zenon, <2>2 DEF Counts, Holders
    <3> QED
      BY Zenon, <2>2, <3>1 DEF Counting, Claimed
  <2> QED
    BY Zenon, <2>1, <2>2
<1> /\ DOMAIN claims' = DOMAIN claims \cup {n}
    /\ claims'[n] = Claimed(n) + 1
    /\ \A m \in DOMAIN claims : m # n => claims'[m] = claims[m]
  BY Zenon DEF AddClaim
<1>4. ClaimsOK'
  BY HoldersFinite DEF ClaimsOK
<1>5. \A m \in DOMAIN claims' : claims'[m] = Cardinality(Holders(m)')
  BY Zenon, <1>2, <1>3 DEF Counts
<1>6. \A h \in Held' : h[2] \in DOMAIN claims'
  BY DEF Counts
<1> QED
  BY Zenon, <1>4, <1>5, <1>6 DEF Counts

\* releaseDiskRefUnlocked: the reference goes, and so does one claim; the
\* count was positive, so nothing underflows.
LEMMA CountsReleased ==
  ASSUME Counting, ClaimsOK, Counts, NEW i \in Ids, NEW n \in Nat,
         Held \subseteq Ids \X Nat, <<i, n>> \in Held,
         Held' = Held \ {<<i, n>>},
         Release(n)
  PROVE  ClaimsOK' /\ Counts'
<1> Holders(n)' = Holders(n) \ {i} /\ i \in Holders(n)
  BY Zenon DEF Holders
<1> \A m : m # n => Holders(m)' = Holders(m)
  BY Zenon DEF Holders
<1> Cardinality(Holders(n)') = Cardinality(Holders(n)) - 1
  BY ZenonT(60), HoldersFinite DEF Counting
<1> n \in DOMAIN claims /\ Claimed(n) = claims[n] /\ claims[n] = Cardinality(Holders(n))
  BY Zenon DEF Counts, Claimed
<1> claims[n] \in Nat \ {0}
  BY Zenon DEF ClaimsOK
<1> underflows' = 0
  BY Zenon DEF Release, Counts
<1>1. CASE Claimed(n) > 1
  <2>1. claims' = [claims EXCEPT ![n] = @ - 1]
    BY Zenon, <1>1 DEF Release, LessClaim
  <2> DOMAIN claims' = DOMAIN claims /\ claims'[n] = claims[n] - 1
      /\ \A m \in DOMAIN claims : m # n => claims'[m] = claims[m]
    BY Zenon, <2>1
  <2>2. ClaimsOK'
    BY <1>1 DEF ClaimsOK
  <2>3. \A m \in DOMAIN claims' : claims'[m] = Cardinality(Holders(m)')
    BY Zenon DEF Counts
  <2>4. \A h \in Held' : h[2] \in DOMAIN claims'
    BY Zenon DEF Counts
  <2> QED
    BY Zenon, <2>2, <2>3, <2>4 DEF Counts
<1>2. CASE ~(Claimed(n) > 1)
  <2>1. claims' = [m \in DOMAIN claims \ {n} |-> claims[m]]
    BY Zenon, <1>2 DEF Release, LessClaim
  <2> DOMAIN claims' = DOMAIN claims \ {n} /\ \A m \in DOMAIN claims \ {n} : claims'[m] = claims[m]
    BY Zenon, <2>1
  <2>2. Holders(n)' = {}
    <3>1. Cardinality(Holders(n)') = 0
      BY <1>2
    <3>2. IsFiniteSet(Holders(n)')
      BY Zenon, HoldersFinite DEF Counting
    <3> QED
      BY Zenon, <3>1, <3>2 DEF Counting
  <2>3. ClaimsOK'
    BY Zenon DEF ClaimsOK
  <2>4. \A m \in DOMAIN claims' : claims'[m] = Cardinality(Holders(m)')
    BY Zenon DEF Counts
  <2>5. \A h \in Held' : h[2] \in DOMAIN claims'
    <3> SUFFICES ASSUME NEW h \in Held' PROVE h[2] \in DOMAIN claims'
      BY Zenon
    <3> h \in Held /\ h[2] \in DOMAIN claims
      BY Zenon DEF Counts
    <3>1. h[1] \in Ids /\ h = <<h[1], h[2]>>
      OBVIOUS
    <3>2. h[2] # n
      BY <2>2, <3>1 DEF Holders
    <3> QED
      BY Zenon, <3>2
  <2> QED
    BY Zenon, <2>3, <2>4, <2>5 DEF Counts
<1> QED
  BY Zenon, <1>1, <1>2

\* The held pairs are those of the reference slice, of inflight and of a
\* running nack.
LEMMA HeldIs ==
  ASSUME \A i \in DOMAIN inflight : inflight[i].id = i
  PROVE  Held = HeldOf(diskRefs, inflight, op.refs)
<1>1. {<<r.id, r.seg>> : r \in {inflight[i] : i \in DiskInflight}} = OutPairs(inflight)
  BY Zenon DEF OutPairs, DiskInflight, MemoryInflight, OnDisk
<1> QED
  BY Zenon, <1>1 DEF Held, HeldOf, LiveRefs, Pairs

\* The same in the next state.
LEMMA HeldIsNext ==
  ASSUME \A i \in DOMAIN inflight' : inflight'[i].id = i
  PROVE  Held' = HeldOf(diskRefs', inflight', op'.refs)
<1>1. {<<r.id, r.seg>> : r \in {inflight'[i] : i \in DiskInflight'}} = OutPairs(inflight')
  BY Zenon DEF OutPairs, DiskInflight, MemoryInflight, OnDisk
<1> QED
  BY Zenon, <1>1 DEF Held, HeldOf, LiveRefs, Pairs

\* A pair of a slice is one of its ids.
LEMMA PairIds == \A s, i, n : <<i, n>> \in Pairs(s) => i \in EntryIds(s)
  BY Zenon DEF Pairs, EntryIds, Range

\* The pairs of two joined sequences of references.
LEMMA PairsJoined ==
  ASSUME NEW s, NEW t, NEW u, Range(u) = Range(s) \cup Range(t)
  PROVE  Pairs(u) = Pairs(s) \cup Pairs(t)
  BY Zenon DEF Pairs

\* An empty sequence holds no pair.
LEMMA PairsEmpty == Pairs(<<>>) = {}
  BY DEF Pairs, Range

\* Dequeue puts an entry in the inflight map; a settlement takes it out.
LEMMA OutPairsWith ==
  ASSUME NEW e, e.id \notin DOMAIN inflight
  PROVE  OutPairs(InflightWith(e)) =
           OutPairs(inflight) \cup (IF e.seg = NoSeg THEN {} ELSE {<<e.id, e.seg>>})
<1> DEFINE g == InflightWith(e)
<1>1. DOMAIN g = DOMAIN inflight \cup {e.id} /\ g[e.id] = e
      /\ \A i \in DOMAIN inflight : g[i] = inflight[i]
  BY Zenon DEF InflightWith
<1> HIDE DEF g
<1>2. OutPairs(g) = OutPairs(inflight) \cup (IF e.seg = NoSeg THEN {} ELSE {<<e.id, e.seg>>})
  BY <1>1 DEF OutPairs
<1> QED
  BY Zenon, <1>2 DEF g

\* Deleting an id from inflight takes away its pair and no other.
LEMMA OutPairsWithout ==
  ASSUME NEW i \in DOMAIN inflight
  PROVE  OutPairs(InflightWithout(i)) = OutPairs(inflight) \ {<<i, inflight[i].seg>>}
         /\ (inflight[i].seg # NoSeg => <<i, inflight[i].seg>> \in OutPairs(inflight))
         /\ \A j, n : <<j, n>> \in OutPairs(inflight) => j \in DOMAIN inflight
<1> DEFINE g == InflightWithout(i)
<1>1. DOMAIN g = DOMAIN inflight \ {i} /\ \A j \in DOMAIN g : g[j] = inflight[j]
  BY Zenon DEF InflightWithout
<1> HIDE DEF g
<1>2. OutPairs(g) = OutPairs(inflight) \ {<<i, inflight[i].seg>>}
  BY <1>1 DEF OutPairs
<1> QED
  BY Zenon, <1>2 DEF g, OutPairs

-----------------------------------------------------------------------------
(***************************************************************************)
(* The steps the actions share.                                            *)
(***************************************************************************)

\* A held pair is an id of a slice or of the map, with its segment.
LEMMA HeldTypes ==
  ASSUME QueueTypes
  PROVE  /\ Held = HeldOf(diskRefs, inflight, op.refs)
         /\ Held \subseteq Ids \X Nat
         /\ \A i, n : <<i, n>> \in Held =>
              i \in EntryIds(diskRefs) \/ i \in DOMAIN inflight \/ i \in EntryIds(op.refs)
<1> Held = HeldOf(diskRefs, inflight, op.refs)
  BY Zenon, HeldIs DEF QueueTypes
<1>1. ASSUME NEW s \in Seq(Refs) PROVE Pairs(s) \subseteq Ids \X Nat
  <2>1. \A r \in Range(s) : r \in Refs
    BY DEF Range
  <2>2. \A r \in Refs : r.id \in Ids /\ r.seg \in Nat
    BY Zenon DEF Refs, Entries, NoSeg
  <2> QED
    BY <2>1, <2>2 DEF Pairs
<1>2. OutPairs(inflight) \subseteq Ids \X Nat
  BY DEF OutPairs, QueueTypes, Entries
<1>3. diskRefs \in Seq(Refs) /\ op.refs \in Seq(Refs)
  BY Zenon DEF QueueTypes, Ops
<1>4. Held \subseteq Ids \X Nat
  BY Zenon, <1>1, <1>2, <1>3 DEF HeldOf
<1>5. \A i, n : <<i, n>> \in OutPairs(inflight) => i \in DOMAIN inflight
  BY Zenon DEF OutPairs
<1> QED
  BY Zenon, <1>4, <1>5, PairIds DEF HeldOf

\* A step that grows the directory keeps every held segment on disk.
LEMMA BackedStep ==
  ASSUME LogInv, StoreInv', lowest \in Nat, NEW i, Grown(i), UNCHANGED <<lowest, up>>,
         \A h \in Held' : h \in Held \/ h[2] \in DOMAIN files'
  PROVE  Backed'
<1>1. \A h \in Held' : h[2] \in DOMAIN files'
  BY Zenon DEF LogInv, Backed, Grown
<1>2. ASSUME up, Spill PROVE segmentNum' \in DOMAIN files' /\ \A m \in DOMAIN files' : lowest <= m
  <2> segmentNum \in DOMAIN files /\ \A m \in DOMAIN files : lowest <= m
    BY Zenon, <1>2 DEF LogInv, Backed
  <2>1. segmentNum \in Nat /\ \A m \in DOMAIN files' : m \in Nat
    BY Zenon DEF LogInv, StoreInv, StoreTypeOK
  <2>2. \A m \in DOMAIN files' : m \in DOMAIN files \/ m > segmentNum
    BY Zenon DEF Grown
  <2>3. \A m \in DOMAIN files' : lowest <= m
    BY <2>1, <2>2
  <2> QED
    BY Zenon, <2>3 DEF Grown
<1> QED
  BY Zenon, <1>1, <1>2 DEF Backed

\* The log is not touched and no reference moves.
LEMMA CalmStep ==
  ASSUME Inv, UNCHANGED <<storeVars, claimVars, lowest, up>>, arrived \subseteq arrived',
         Held' = Held
  PROVE  LogInv'
<1>1. StoreInv'
  BY Zenon DEF Inv, LogInv, StoreInv, StoreTypeOK, storeVars
<1>2. ClaimsOK' /\ Counts'
  BY Zenon, CountsKept DEF Inv, LogInv
<1>3. Backed'
  BY Zenon DEF Inv, LogInv, Backed, storeVars
<1>4. IdsIn(files') \subseteq arrived'
  BY Zenon DEF Inv, LogInv, storeVars
<1> QED
  BY Zenon, <1>1, <1>2, <1>3, <1>4 DEF LogInv

\* A step of the queue that does not touch the store keeps the store's invariant.
LEMMA SameStore ==
  ASSUME StoreInv, UNCHANGED storeVars
  PROVE  StoreInv' /\ \A i : Grown(i)
  BY Zenon DEF StoreInv, StoreTypeOK, storeVars, Grown

\* The references stay where they are while something is appended.
LEMMA AppendStep ==
  ASSUME Inv, StoreInv', NEW i \in arrived, Grown(i), UNCHANGED <<claimVars, lowest, up, arrived>>,
         Held' = Held
  PROVE  LogInv'
<1>1. ClaimsOK' /\ Counts'
  BY Zenon, CountsKept DEF Inv, LogInv
<1>2. Backed'
  BY Zenon, BackedStep DEF Inv, LogInv, PlaceInv, QueueTypes
<1>3. IdsIn(files') \subseteq arrived'
  BY Zenon DEF Inv, LogInv, Grown
<1> QED
  BY Zenon, <1>1, <1>2, <1>3 DEF LogInv

\* spillMemoryUnlocked and its like succeed: one reference more.
LEMMA SpillStep ==
  ASSUME Inv, NEW e \in MemoryEntries, e.id \in arrived,
         e.id \notin EntryIds(diskRefs), e.id \notin DOMAIN inflight, e.id \notin EntryIds(op.refs),
         Spills(e), inflight' = inflight, op'.refs = op.refs, UNCHANGED <<lowest, up, arrived>>
  PROVE  /\ LogInv' /\ diskRefs' \in Seq(Refs)
         /\ EntryIds(diskRefs') = EntryIds(diskRefs) \cup {e.id} /\ DistinctIds(diskRefs')
         /\ underflows' = underflows
<1> DEFINE r == Entry(e.id, e.att, Location)
<1> QueueTypes /\ StoreInv /\ e \in Entries /\ e.id \in Ids
  BY Zenon DEF Inv, PlaceInv, LogInv, MemoryEntries, Entries
<1> StoreInv' /\ Grown(e.id) /\ Location.seg \in DOMAIN files' /\ Location \in [seg : Nat, pos : Nat]
  BY Zenon, WriteOKStep, RecordTypesOK DEF Spills
<1> r \in Refs /\ r.id = e.id /\ r.seg = Location.seg /\ r.seg \in Nat
  BY DEF Entry, Refs, Entries, NoSeg
<1> diskRefs' = Append(diskRefs, r) /\ claims' = AddClaim(r.seg) /\ underflows' = underflows
  BY Zenon DEF Spills, AddDiskRef
<1> HIDE DEF r
<1>1. diskRefs \in Seq(Refs) /\ DistinctIds(diskRefs)
  BY Zenon DEF Inv, PlaceInv, QueueTypes, OnePlace
<1> /\ diskRefs' \in Seq(Refs) /\ EntryIds(diskRefs') = EntryIds(diskRefs) \cup {e.id}
    /\ Pairs(diskRefs') = Pairs(diskRefs) \cup {<<e.id, r.seg>>} /\ DistinctIds(diskRefs')
  <2>1. /\ diskRefs' \in Seq(Refs) /\ EntryIds(diskRefs') = EntryIds(diskRefs) \cup {r.id}
        /\ DistinctIds(diskRefs) /\ r.id \notin EntryIds(diskRefs) => DistinctIds(diskRefs')
        /\ Pairs(diskRefs') = Pairs(diskRefs) \cup {<<r.id, r.seg>>}
    BY Zenon, <1>1, RefAppended
  <2> QED
    BY Zenon, <1>1, <2>1
<1> Held' = Held \cup {<<e.id, r.seg>>}
  <2>1. \A i \in DOMAIN inflight' : inflight'[i].id = i
    BY Zenon DEF QueueTypes
  <2> QED
    BY Zenon, <2>1, HeldTypes, HeldIsNext DEF HeldOf
<1>2. \A m : <<e.id, m>> \notin Held
  BY Zenon, HeldTypes
<1>3. ClaimsOK' /\ Counts'
  BY Zenon, <1>2, CountsAdded, StoreInvFiles DEF Inv, LogInv
<1>4. \A h \in Held' : h \in Held \/ h[2] \in DOMAIN files'
  OBVIOUS
<1>5. Backed'
  BY Zenon, <1>4, BackedStep DEF Inv, QueueTypes
<1>6. IdsIn(files') \subseteq arrived'
  BY Zenon DEF Inv, LogInv, Grown
<1> QED
  BY Zenon, <1>3, <1>5, <1>6 DEF LogInv

\* The spill fails: nothing changes but the log.
LEMMA SpillFailsStep ==
  ASSUME Inv, NEW e \in MemoryEntries, e.id \in arrived,
         SpillFails(e), inflight' = inflight, op'.refs = op.refs, UNCHANGED <<lowest, up, arrived>>
  PROVE  LogInv' /\ diskRefs' = diskRefs /\ underflows' = underflows
<1> StoreInv /\ e \in Entries /\ QueueTypes
  BY Zenon DEF Inv, PlaceInv, LogInv, MemoryEntries
<1> UNCHANGED <<diskRefs, claimVars>> /\ (UNCHANGED storeVars \/ WriteFail(SpillRecord(e)))
  BY Zenon DEF SpillFails
<1>1. StoreInv' /\ Grown(e.id)
  BY Zenon, SameStore, WriteFailStep, RecordTypesOK
<1>2. Held' = Held
  BY Zenon, HeldTypes, HeldIsNext DEF QueueTypes
<1> QED
  BY Zenon, <1>1, <1>2, AppendStep DEF claimVars

\* Ack, retirement and drop: an entry leaves the inflight map, and its claim
\* goes with it.
LEMMA LeaveStep ==
  ASSUME Inv, NEW i \in DOMAIN inflight,
         \/ /\ OnDisk(inflight[i]) /\ Release(inflight[i].seg)
            /\ WriteOK(AckRecord(i)) \/ WriteFail(AckRecord(i))
         \/ ~OnDisk(inflight[i]) /\ UNCHANGED <<storeVars, claimVars>>,
         inflight' = InflightWithout(i), diskRefs' = diskRefs, op'.refs = op.refs,
         UNCHANGED <<lowest, up, arrived>>
  PROVE  LogInv' /\ DOMAIN inflight' = DOMAIN inflight \ {i}
         /\ \A j \in DOMAIN inflight' : inflight'[j] = inflight[j]
<1> QueueTypes /\ StoreInv /\ LogInv /\ i \in Ids /\ i \in arrived /\ inflight[i] \in Entries
  BY Zenon DEF Inv, PlaceInv, LogInv, QueueTypes, Placed
<1> DOMAIN inflight' = DOMAIN inflight \ {i} /\ \A j \in DOMAIN inflight' : inflight'[j] = inflight[j]
  BY Zenon DEF InflightWithout
<1>1. \A j \in DOMAIN inflight' : inflight'[j].id = j
  BY Zenon DEF QueueTypes
<1>2. Held' = HeldOf(diskRefs, InflightWithout(i), op.refs) /\ Held = HeldOf(diskRefs, inflight, op.refs)
  BY Zenon, <1>1, HeldTypes, HeldIsNext
<1>3. i \notin EntryIds(diskRefs) /\ i \notin EntryIds(op.refs)
  BY Zenon DEF Inv, PlaceInv, OnePlace
<1> Held' = Held \ {<<i, inflight[i].seg>>}
      /\ (inflight[i].seg # NoSeg => <<i, inflight[i].seg>> \in Held)
  BY <1>2, <1>3, OutPairsWithout, PairIds DEF HeldOf
<1> StoreInv' /\ Grown(i)
  BY Zenon, SameStore, WriteOKStep, WriteFailStep, RecordTypesOK
<1>4. ClaimsOK' /\ Counts'
  <2>1. CASE OnDisk(inflight[i]) /\ Release(inflight[i].seg)
    <3>1. inflight[i].seg \in Nat /\ inflight[i].seg # NoSeg
      BY Zenon, <2>1 DEF OnDisk, Entries
    <3> QED
      BY Zenon, <2>1, <3>1, HeldTypes, CountsReleased, StoreInvFiles DEF LogInv
  <2>2. CASE ~OnDisk(inflight[i]) /\ UNCHANGED claimVars
    <3>1. <<i, NoSeg>> \notin Held
      BY HeldTypes DEF NoSeg
    <3>2. Held' = Held
      BY Zenon, <2>2, <3>1 DEF OnDisk
    <3> QED
      BY Zenon, <2>2, <3>2, CountsKept DEF LogInv
  <2> QED
    BY Zenon, <2>1, <2>2
<1>5. \A h \in Held' : h \in Held
  BY Zenon
<1>6. Backed'
  BY Zenon, <1>5, BackedStep DEF QueueTypes
<1>7. IdsIn(files') \subseteq arrived'
  BY Zenon DEF LogInv, Grown
<1> QED
  BY Zenon, <1>4, <1>6, <1>7 DEF LogInv

\* The ids in every place are fewer, or the same.
LEMMA ShrinkStep ==
  ASSUME Inv,
         EntryIds(mem') \subseteq EntryIds(mem), DistinctIds(mem'),
         EntryIds(diskRefs') \subseteq EntryIds(diskRefs), DistinctIds(diskRefs'),
         DOMAIN inflight' \subseteq DOMAIN inflight,
         EntryIds(op'.refs) \subseteq EntryIds(op.refs), DistinctIds(op'.refs),
         EntryIds(op'.mems) \subseteq EntryIds(op.mems), DistinctIds(op'.mems),
         retrying' \cup parked' \subseteq retrying \cup parked, retrying' \cap parked' = {},
         EnqueuedId' \subseteq EnqueuedId,
         Range(op'.ids) \subseteq arrived', arrived \subseteq arrived'
  PROVE  OnePlace' /\ Placed' \subseteq arrived'
<1>1. OnePlace'
  BY Zenon DEF Inv, PlaceInv, OnePlace, Callers
<1>2. Placed' \subseteq arrived'
  BY Zenon DEF Inv, PlaceInv, Placed
<1> QED
  BY Zenon, <1>1, <1>2

\* Only the operation and the waiters change.
LEMMA OpStep ==
  ASSUME Inv, up, UNCHANGED <<mem, diskRefs, inflight, up>>,
         op' \in Ops, op'.refs = op.refs, op'.mems = op.mems, op'.k # "enqueue",
         op'.k # "nack" => op'.refs = <<>>, op'.k \notin {"nack", "requeue"} => op'.mems = <<>>,
         retrying' \cup parked' \subseteq retrying \cup parked, retrying' \cap parked' = {},
         Range(op'.ids) \subseteq arrived', arrived \subseteq arrived'
  PROVE  OnePlace' /\ OpShape' /\ Placed' \subseteq arrived' /\ Held' = Held
<1>1. EnqueuedId' = {}
  BY Zenon DEF EnqueuedId
<1>2. DistinctIds(mem) /\ DistinctIds(diskRefs) /\ DistinctIds(op.refs) /\ DistinctIds(op.mems)
  BY Zenon DEF Inv, PlaceInv, OnePlace
<1>3. OnePlace' /\ Placed' \subseteq arrived'
  BY Zenon, <1>1, <1>2, ShrinkStep
<1>4. OpShape'
  BY Zenon DEF OpShape
<1>5. Held' = Held
  BY Zenon, HeldTypes, HeldIsNext DEF Inv, PlaceInv, QueueTypes
<1> QED
  BY Zenon, <1>3, <1>4, <1>5

\* The files and the references stay; the counters of the store may move.
LEMMA SameFilesStep ==
  ASSUME Inv, StoreInv', files' = files, segmentNum' = segmentNum,
         UNCHANGED <<claimVars, lowest, up, arrived>>, Held' = Held
  PROVE  LogInv'
<1>1. ClaimsOK' /\ Counts'
  BY Zenon, CountsKept DEF Inv, LogInv
<1> QED
  BY Zenon, <1>1 DEF Inv, LogInv, Backed

\* A broadcast empties the parked set into the retrying one.
LEMMA Woken ==
  ASSUME Inv, Broadcast
  PROVE  /\ retrying' = retrying \cup parked /\ parked' = {} /\ waiting' = FALSE
         /\ retrying' \cup parked' \subseteq retrying \cup parked /\ retrying' \cap parked' = {}
         /\ retrying' \subseteq Ids /\ parked' \subseteq Ids /\ waiting' \in BOOLEAN
  BY Zenon DEF Inv, PlaceInv, QueueTypes, Broadcast

\* The oldest item moves from memory to the log: an eviction, or the flush of
\* Close.
LEMMA HeadSpilled ==
  ASSUME Inv, up, mem # <<>>, Spills(Head(mem)), mem' = Tail(mem),
         UNCHANGED <<inflight, lowest, closed, op, waitVars, arrived, acked, dropped, unrecorded,
                     refused, flushFailed, bootVars>>
  PROVE  Inv'
<1> DEFINE e == Head(mem)
<1> /\ e \in MemoryEntries /\ e.id \in arrived
    /\ e.id \notin EntryIds(diskRefs) /\ e.id \notin DOMAIN inflight
    /\ e.id \notin EntryIds(op.refs) /\ e.id \notin EntryIds(op.mems) /\ e.id \notin Callers
    /\ EntryIds(mem) = EntryIds(mem') \cup {e.id} /\ e.id \notin EntryIds(mem')
    /\ mem' \in Seq(MemoryEntries) /\ DistinctIds(mem')
  BY Zenon, HeadOfMem
<1>1. Spills(e)
  BY Zenon
<1> HIDE DEF e
<1> /\ LogInv' /\ diskRefs' \in Seq(Refs) /\ underflows' = underflows
    /\ EntryIds(diskRefs') = EntryIds(diskRefs) \cup {e.id} /\ DistinctIds(diskRefs')
  BY Zenon, <1>1, SpillStep DEF bootVars
<1>2. QueueTypes'
  BY Zenon DEF Inv, PlaceInv, QueueTypes, waitVars, bootVars
<1>3. OnePlace'
  <2>1. /\ Callers' = Callers /\ EnqueuedId' = EnqueuedId /\ op' = op /\ inflight' = inflight
        /\ retrying' = retrying /\ parked' = parked
    BY Zenon DEF Callers, EnqueuedId, waitVars
  <2> OnePlace
    BY Zenon DEF Inv, PlaceInv
  <2>2. EntryIds(mem') \cap (EntryIds(diskRefs') \cup DOMAIN inflight \cup EntryIds(op.refs)
                               \cup EntryIds(op.mems) \cup Callers) = {}
    BY Zenon DEF OnePlace
  <2>3. EntryIds(diskRefs') \cap (DOMAIN inflight \cup EntryIds(op.refs) \cup EntryIds(op.mems)
                                    \cup Callers) = {}
    BY Zenon DEF OnePlace
  <2> QED
    BY Zenon, <2>1, <2>2, <2>3 DEF OnePlace
<1>4. OpShape' /\ Placed' \subseteq arrived'
  BY DEF Inv, PlaceInv, OpShape, Placed, waitVars, bootVars
<1> QED
  BY Zenon, <1>2, <1>3, <1>4 DEF Inv, PlaceInv

\* A step that moves the operation under the lock and the waiters, no item and
\* no record.
LEMMA ControlStep ==
  ASSUME Inv, up, closed' \in BOOLEAN, waiting' \in BOOLEAN,
         UNCHANGED <<storeVars, mem, diskRefs, inflight, claimVars, lowest, arrived, acked, dropped,
                     unrecorded, refused, flushFailed, bootVars>>,
         op' \in Ops, op'.refs = op.refs, op'.mems = op.mems, op'.k # "enqueue",
         op'.k # "nack" => op'.refs = <<>>, op'.k \notin {"nack", "requeue"} => op'.mems = <<>>,
         Range(op'.ids) \subseteq arrived,
         retrying' \cup parked' \subseteq retrying \cup parked, retrying' \cap parked' = {}
  PROVE  Inv'
<1> OnePlace' /\ OpShape' /\ Placed' \subseteq arrived' /\ Held' = Held
  BY Zenon, OpStep DEF bootVars
<1>1. QueueTypes'
  BY Zenon DEF Inv, PlaceInv, QueueTypes, claimVars, bootVars
<1>2. LogInv'
  BY Zenon, CalmStep DEF bootVars
<1> QED
  BY Zenon, <1>1, <1>2 DEF Inv, PlaceInv

\* Nobody is woken.
LEMMA SameWaiters ==
  ASSUME Inv, UNCHANGED waitVars
  PROVE  /\ waiting' \in BOOLEAN
         /\ retrying' \cup parked' \subseteq retrying \cup parked /\ retrying' \cap parked' = {}
  BY Zenon DEF Inv, PlaceInv, QueueTypes, OnePlace, waitVars

\* The operation that follows a settlement.
LEMMA CompactOp ==
  ASSUME op' = Start("compact", <<>>)
  PROVE  op' \in Ops /\ op'.k = "compact" /\ op'.refs = <<>> /\ op'.mems = <<>> /\ Range(op'.ids) = {}
<1>1. "compact" \in OpKinds /\ <<>> \in Seq(Ids)
  BY DEF OpKinds
<1> QED
  BY Zenon, <1>1, StartedOps, EmptyEntries

-----------------------------------------------------------------------------
(***************************************************************************)
(* What a write leaves alone.                                              *)
(***************************************************************************)

\* A write leaves the store open or closed as it was.
LEMMA WritesKeepClosed ==
  /\ \A rec : WriteOK(rec) \/ WriteFail(rec) => storeClosed' = storeClosed
  /\ \A e : Spills(e) \/ SpillFails(e) => storeClosed' = storeClosed
  /\ \A i : SettleDroppedRef(i) => storeClosed' = storeClosed
  /\ \A n : RemoveOK(n) \/ RemoveFail(n) => storeClosed' = storeClosed
  /\ UNCHANGED storeVars => storeClosed' = storeClosed
<1>1. \A rec : WriteOK(rec) \/ WriteFail(rec) => storeClosed' = storeClosed
  BY Zenon DEF WriteOK, WriteFail, WriteFault, RotateFault, storeVars
<1>2. UNCHANGED storeVars => storeClosed' = storeClosed
  BY Zenon DEF storeVars
<1> QED
  BY Zenon, <1>1, <1>2 DEF Spills, SpillFails, SettleDroppedRef, RemoveOK, RemoveFail

\* A failed write leaves the log alone or counts as a fault, and removes no file.
LEMMA LogKeptBy ==
  ASSUME StoreInv
  PROVE  /\ UNCHANGED storeVars => LogKept
         /\ \A rec : WriteFail(rec) => LogKept
         /\ \A e : SpillFails(e) => LogKept
         /\ \A n : Spill /\ RemoveFail(n) => LogKept
<1>1. faults \in Nat
  BY Zenon DEF StoreInv, StoreTypeOK
<1> UNCHANGED storeVars => LogKept
  BY Zenon DEF storeVars, LogKept
<1>2. Fault /\ (segment \/ Spill) /\ DOMAIN files \subseteq DOMAIN files' => LogKept
  BY <1>1 DEF Fault, LogKept
<1>3. \A fs, n, f : DOMAIN fs \subseteq DOMAIN WithFile(fs, n, f)
  BY Zenon DEF WithFile
<1>4. \A fs, n, r : DOMAIN fs \subseteq DOMAIN Put(fs, n, r)
  BY Zenon, <1>3 DEF Put
<1>5. DOMAIN files \subseteq DOMAIN TargetFiles
  BY Zenon, <1>3 DEF TargetFiles
<1>6. ASSUME NEW rec, WriteFault(rec) PROVE LogKept
  <2>1. segment /\ Fault /\ (files' = TargetFiles \/ \E r : files' = Put(TargetFiles, TargetNum, r))
    BY Zenon, <1>6 DEF WriteFault, Refuses
  <2>2. DOMAIN files \subseteq DOMAIN files'
    BY Zenon, <1>4, <1>5, <2>1
  <2> QED
    BY Zenon, <1>2, <2>1, <2>2
<1>7. ASSUME NEW rec, RotateFault(rec) PROVE LogKept
  <2>1. segment /\ Fault /\ (files' = files \/ files' = WithFile(files, segmentNum + 1, HeaderlessSegment))
    BY Zenon, <1>7 DEF RotateFault, Refuses
  <2>2. DOMAIN files \subseteq DOMAIN files'
    BY Zenon, <1>3, <2>1
  <2> QED
    BY Zenon, <1>2, <2>1, <2>2
<1>8. \A rec : WriteFail(rec) => LogKept
  BY Zenon, <1>6, <1>7 DEF WriteFail
<1>9. ASSUME NEW n, Spill, RemoveFail(n) PROVE LogKept
  BY Zenon, <1>2, <1>9 DEF RemoveFail
<1> QED
  BY Zenon, <1>8, <1>9 DEF SpillFails

-----------------------------------------------------------------------------
(***************************************************************************)
(* What the shared steps do to the items.                                  *)
(***************************************************************************)

\* What dequeueing an entry changes.
LEMMA TakenOut ==
  ASSUME NEW e, e.id \notin DOMAIN inflight, inflight' = InflightWith(e)
  PROVE  /\ OnDisk(e) => OutRefs' = OutRefs \cup {e} /\ MemoryInflight' = MemoryInflight
         /\ ~OnDisk(e) => OutRefs' = OutRefs /\ MemoryInflight' = MemoryInflight \cup {e.id}
<1>1. /\ DOMAIN inflight' = DOMAIN inflight \cup {e.id} /\ inflight'[e.id] = e
      /\ \A i \in DOMAIN inflight : inflight'[i] = inflight[i]
  BY Zenon DEF InflightWith
<1> QED
  BY <1>1 DEF OutRefs, DiskInflight, MemoryInflight

\* What an entry that leaves the inflight map changes.
LEMMA PutBack ==
  ASSUME Inv, NEW i \in DOMAIN inflight, inflight' = InflightWithout(i)
  PROVE  /\ OnDisk(inflight[i]) => /\ OutRefs = OutRefs' \cup {inflight[i]} /\ \A r \in OutRefs' : r.id # i
                                   /\ MemoryInflight' = MemoryInflight
         /\ ~OnDisk(inflight[i]) => /\ OutRefs' = OutRefs /\ MemoryInflight' = MemoryInflight \ {i}
                                    /\ i \in MemoryInflight
         /\ i \notin DOMAIN inflight'
<1>1. DOMAIN inflight' = DOMAIN inflight \ {i} /\ \A j \in DOMAIN inflight' : inflight'[j] = inflight[j]
  BY Zenon DEF InflightWithout
<1>2. \A j \in DOMAIN inflight : inflight[j].id = j
  BY Zenon DEF Inv, PlaceInv, QueueTypes
<1> QED
  BY <1>1, <1>2 DEF OutRefs, DiskInflight, MemoryInflight

\* Nothing moves.
LEMMA CalmFlow ==
  ASSUME Running, UNCHANGED <<mem, diskRefs, inflight, arrived, acked, dropped, unrecorded, refused, flushFailed>>,
         LogKept, op'.refs = op.refs, op'.mems = op.mems, EnqueuedId' = EnqueuedId,
         retrying' \cup parked' = retrying \cup parked, BootIds' = BootIds
  PROVE  MemoryFlow({}, {})
<1>1. VolatileIds' = VolatileIds /\ Settled' = Settled
  BY Zenon DEF VolatileIds, Callers, MemoryInflight, Settled
<1>2. Spots' = Spots
  BY Zenon DEF Spots, LiveRefs, DiskInflight, MemoryInflight
<1> QED
  BY Zenon, <1>1, <1>2 DEF MemoryFlow

\* The reference AddDiskRef queues lies where WriteOK put the record.
LEMMA SpillSpots ==
  ASSUME Inv, NEW e \in MemoryEntries, Spills(e), inflight' = inflight, op'.refs = op.refs
  PROVE  /\ Spots' = Spots \cup {<<e.id, Location.seg, Location.pos>>}
         /\ WriteOK(ItemRecord(e.id, e.att)) /\ e.att \in Attempts /\ e.id \in Ids
<1> DEFINE r == Entry(e.id, e.att, Location)
<1> StoreInv /\ e \in Entries /\ e.id \in Ids /\ e.att \in Attempts /\ diskRefs \in Seq(Refs)
  BY Zenon DEF Inv, PlaceInv, QueueTypes, LogInv, MemoryEntries, Entries
<1> Location \in [seg : Nat, pos : Nat] /\ WriteOK(ItemRecord(e.id, e.att))
  BY DEF StoreInv, StoreTypeOK, Spills, SpillRecord, Location, TargetNum, TargetSize
<1> r \in Refs /\ Spot(r) = <<e.id, Location.seg, Location.pos>> /\ diskRefs' = Append(diskRefs, r)
  BY DEF Spot, Entry, Refs, Entries, NoSeg, Spills, AddDiskRef
<1> HIDE DEF r
<1>1. Range(diskRefs') = Range(diskRefs) \cup {r}
  BY AppendEntries
<1>2. LiveRefs' = LiveRefs \cup {r}
  BY Zenon, <1>1 DEF LiveRefs, DiskInflight, MemoryInflight
<1>3. Spots' = Spots \cup {Spot(r)}
  BY Zenon, <1>2 DEF Spots
<1> QED
  BY Zenon, <1>3

\* An eviction and an iteration of the flush.
LEMMA HeadSpilledFlow ==
  ASSUME Inv, up, mem # <<>>, Spills(Head(mem)), mem' = Tail(mem),
         UNCHANGED <<inflight, op, waitVars, arrived, acked, dropped, unrecorded, refused, flushFailed, bootVars>>
  PROVE  SpillFlow(Head(mem).id, Head(mem).att)
<1> DEFINE e == Head(mem)
<1> /\ e \in MemoryEntries /\ EntryIds(mem) = EntryIds(mem') \cup {e.id} /\ e.id \notin EntryIds(mem')
    /\ e.id \notin DOMAIN inflight /\ e.id \notin EntryIds(op.mems) /\ e.id \notin Callers
  BY Zenon, HeadOfMem
<1>1. Spills(e) /\ inflight' = inflight /\ op'.refs = op.refs
  BY Zenon
<1> HIDE DEF e
<1>2. /\ Spots' = Spots \cup {<<e.id, Location.seg, Location.pos>>}
      /\ WriteOK(ItemRecord(e.id, e.att)) /\ e.att \in Attempts
  BY Zenon, <1>1, SpillSpots
<1>3. VolatileIds' = VolatileIds \ {e.id} /\ e.id \in VolatileIds
  BY DEF VolatileIds, Callers, MemoryInflight, EnqueuedId, waitVars
<1>4. Settled' = Settled /\ BootIds' = BootIds
  BY Zenon DEF Settled, BootIds
<1>5. SpillFlow(e.id, e.att)
  BY Zenon, <1>2, <1>3, <1>4 DEF SpillFlow, Running, bootVars
<1> QED
  BY Zenon, <1>5 DEF e

\* A live reference goes away with the item it stands for.
LEMMA SpotsLess ==
  ASSUME NEW e, LiveRefs = LiveRefs' \cup {e}, \A r \in LiveRefs' : r.id # e.id
  PROVE  Spots' = {s \in Spots : s[1] # e.id}
<1>1. \A r : Spot(r)[1] = r.id
  BY Zenon DEF Spot
<1> QED
  BY Zenon, <1>1 DEF Spots

\* A step of an operation that holds no item, and takes none: nothing moves.
LEMMA LockFlow ==
  ASSUME Inv, Running, LogKept,
         UNCHANGED <<mem, diskRefs, inflight, arrived, acked, dropped, unrecorded, refused, flushFailed>>,
         Broadcast \/ UNCHANGED waitVars \/ UNCHANGED <<retrying, parked>>,
         \/ op = Idle \/ op.k \in {"dequeue", "ack", "drop", "compact", "close"}
         \/ op.k = "requeue" /\ op.mems = <<>>,
         \/ op' = op \/ op' = Idle \/ op' = Start("compact", <<>>)
         \/ \E k, ids, kind, flag : k \notin {"enqueue", "boot"} /\ op' = Operation(k, ids, <<>>, kind, flag)
  PROVE  MemoryFlow({}, {})
<1>1. op.k \notin {"enqueue", "boot"} /\ op.refs = <<>> /\ op.mems = <<>>
  BY Zenon, FreshOp DEF Inv, PlaceInv, OpShape
<1>2. op'.k \notin {"enqueue", "boot"} /\ op'.refs = <<>> /\ op'.mems = <<>>
  BY <1>1 DEF Idle, Start, Operation
<1>3. retrying' \cup parked' = retrying \cup parked
  BY Zenon DEF Broadcast, waitVars
<1>4. EnqueuedId = {} /\ EnqueuedId' = {} /\ BootIds = {} /\ BootIds' = {}
  BY Zenon, <1>1, <1>2 DEF EnqueuedId, BootIds
<1> QED
  BY Zenon, <1>1, <1>2, <1>3, <1>4, CalmFlow

\* The flows an action can be shown to be.
LEMMA FlowsAre ==
  /\ MemoryFlow({}, {}) \/ CompactFlow => ItemFlow
  /\ \A i \in Ids : MemoryFlow({i}, {}) \/ MemoryFlow({i}, {i}) \/ MemoryFlow({}, {i}) => ItemFlow
  /\ \A i \in Ids, J \in SUBSET Ids : MemoryFlow({i}, J) => ItemFlow
  /\ \A i \in Ids, a \in Attempts : SpillFlow(i, a) => ItemFlow
  /\ \A i \in Ids : SettleFlow(i) \/ AbandonFlow(i) => ItemFlow
<1>1. {} \in SUBSET Ids /\ \A i \in Ids : {i} \in SUBSET Ids
  BY Zenon
<1> QED
  BY Zenon, <1>1 DEF ItemFlow

\* What the head of memory and the caller are.
LEMMA MovingIds ==
  ASSUME Inv
  PROVE  /\ mem # <<>> => Head(mem).id \in Ids /\ Head(mem).att \in Attempts
         /\ op.k = "enqueue" => op.ids[1] \in Ids
<1>1. mem # <<>> => Head(mem).id \in Ids /\ Head(mem).att \in Attempts
  BY Zenon, HeadOfMem DEF MemoryEntries, Entries
<1>2. ASSUME op.k = "enqueue" PROVE op.ids[1] \in Ids
  <2>1. op.ids \in Seq(Ids) /\ op.ids # <<>>
    BY Zenon, <1>2 DEF Inv, PlaceInv, OpShape, QueueTypes, Ops
  <2> QED
    BY <2>1
<1> QED
  BY Zenon, <1>1, <1>2

\* Nothing is left to boot before, so nothing is after.
LEMMA NoBoot ==
  ASSUME ItemFlow, op.k # "boot"
  PROVE  BootShape'
<1>1. BootIds = {}
  BY Zenon DEF BootIds
<1>2. BootIds' = {}
  BY Zenon, <1>1 DEF ItemFlow, MemoryFlow, SpillFlow, SettleFlow, CompactFlow, AbandonFlow
<1> QED
  BY Zenon, <1>2 DEF BootShape
=============================================================================
