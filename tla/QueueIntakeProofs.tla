------------------------- MODULE QueueIntakeProofs --------------------------
(***************************************************************************)
(* Enqueue and DequeueBatch: each step preserves the invariant of the      *)
(* queue, moves the items in one of the known ways, and lets no consumer   *)
(* sleep that could be served.                                             *)
(***************************************************************************)
EXTENDS QueueIntake, QueueStateProofs

-----------------------------------------------------------------------------
(***************************************************************************)
(* The invariant.                                                          *)
(***************************************************************************)

\* Enqueue into a memory slot: the id leaves the callers and enters memory,
\* nothing else moves.
LEMMA EnqueueMemoryInv ==
  ASSUME Inv, NEW i \in Ids, EnqueueMemory(i)
  PROVE  Inv'
<1> DEFINE e == Entry(i, 0, InMemory)
<1>1. e \in MemoryEntries /\ e.id = i
  BY Zenon, NewEntry
<1>2. i \in retrying \/ i \notin arrived
  BY Zenon DEF EnqueueMemory, Calls
<1>3. i \notin EntryIds(mem)
  BY Zenon, <1>2 DEF Inv, PlaceInv, OnePlace, Placed, Callers
<1>4. mem \in Seq(MemoryEntries) /\ DistinctIds(mem)
  BY Zenon DEF Inv, PlaceInv, QueueTypes, OnePlace
<1>5. mem' = Append(mem, e)
  BY Zenon DEF EnqueueMemory
<1> HIDE DEF e
<1>6. mem' \in Seq(MemoryEntries) /\ EntryIds(mem') = EntryIds(mem) \cup {i} /\ DistinctIds(mem')
  BY <1>1, <1>3, <1>4, <1>5, AppendEntries
<1>7. PlaceInv'
  <2> USE <1>2, <1>6 DEF Inv, PlaceInv, EnqueueMemory, BroadcastExcept, Takes, Free, claimVars, bootVars
  <2>1. QueueTypes'
    BY Zenon DEF QueueTypes
  <2>2. OnePlace'
    <3>1. op' = op /\ EnqueuedId = {} /\ EnqueuedId' = {}
      BY Zenon, StartedOps DEF EnqueuedId
    <3>2. retrying' = (retrying \cup parked) \ {i} /\ parked' = {} /\ inflight' = inflight
          /\ diskRefs' = diskRefs
      BY Zenon
    <3>3. /\ i \notin EntryIds(diskRefs) /\ i \notin DOMAIN inflight /\ i \notin EntryIds(op.refs)
          /\ i \notin EntryIds(op.mems)
      BY Zenon DEF OnePlace, Placed, Callers
    <3> QED
      BY SMTT(60), <3>1, <3>2, <3>3, <1>6 DEF OnePlace, Callers
  <2>3. OpShape'
    BY Zenon DEF OpShape
  <2>4. Placed' \subseteq arrived'
    BY Zenon DEF Placed
  <2> QED
    BY Zenon, <2>1, <2>2, <2>3, <2>4
<1>8. Held' = Held
  BY Zenon, HeldTypes, HeldIsNext DEF Inv, PlaceInv, QueueTypes, EnqueueMemory
<1>9. LogInv'
  BY Zenon, <1>8, CalmStep DEF EnqueueMemory, Takes, bootVars
<1> QED
  BY Zenon, <1>7, <1>9 DEF Inv

\* Enqueue taking the lock for the disk case: the id moves from the loop to the
\* operation.
LEMMA EnqueueSpillingInv ==
  ASSUME Inv, NEW i \in Ids, EnqueueSpilling(i)
  PROVE  Inv'
<1>1. i \in retrying \/ i \notin arrived
  BY Zenon DEF EnqueueSpilling, Calls
<1> <<i>> \in Seq(Ids) /\ <<i>> # <<>> /\ Range(<<i>>) = {i} /\ <<i>>[1] = i
  BY DEF Range
<1> op' \in Ops /\ op'.k = "enqueue" /\ op'.ids = <<i>> /\ op'.refs = <<>> /\ op'.mems = <<>>
  <2>1. op' = Start("enqueue", <<i>>) /\ "enqueue" \in OpKinds
    BY Zenon DEF EnqueueSpilling, OpKinds
  <2> QED
    BY Zenon, <2>1, StartedOps
<1> /\ UNCHANGED <<storeVars, mem, diskRefs, inflight, claimVars, lowest, up, parked>>
    /\ retrying' = retrying \ {i} /\ arrived' = arrived \cup {i} /\ up /\ op = Idle
  BY Zenon DEF EnqueueSpilling, Free, Takes, bootVars
<1> op.refs = <<>> /\ op.mems = <<>> /\ EnqueuedId = {} /\ EnqueuedId' = {i}
  BY Zenon, StartedOps DEF EnqueuedId
<1>2. QueueTypes'
  BY Zenon DEF Inv, PlaceInv, QueueTypes, EnqueueSpilling, claimVars, bootVars
<1>3. /\ i \notin EntryIds(mem) /\ i \notin EntryIds(diskRefs) /\ i \notin DOMAIN inflight
      /\ i \notin parked
  BY Zenon, <1>1 DEF Inv, PlaceInv, OnePlace, Placed, Callers
<1>4. OnePlace'
  BY SMTT(60), <1>3, EmptyEntries DEF Inv, PlaceInv, OnePlace, Callers
<1>5. OpShape' /\ Placed' \subseteq arrived'
  BY Zenon, EmptyEntries DEF Inv, PlaceInv, OpShape, Placed
<1>6. Held' = Held
  BY Zenon, HeldTypes, HeldIsNext DEF Inv, PlaceInv, QueueTypes
<1>7. LogInv'
  BY Zenon, <1>6, CalmStep
<1> QED
  BY Zenon, <1>2, <1>4, <1>5, <1>7 DEF Inv, PlaceInv

\* Enqueue returning an error: the id leaves the callers and is in no tier.
LEMMA EnqueueRefusedInv ==
  ASSUME Inv, NEW i \in Ids, EnqueueRefused(i)
  PROVE  Inv'
<1> /\ UNCHANGED <<storeVars, mem, diskRefs, inflight, claimVars, lowest, up, op>>
    /\ arrived' = arrived \cup {i} /\ up /\ op = Idle
  BY Zenon DEF EnqueueRefused, Free, Takes, bootVars
<1> retrying' \cup parked' \subseteq retrying \cup parked /\ retrying' \cap parked' = {}
    /\ waiting' \in BOOLEAN
  BY Zenon DEF EnqueueRefused, BroadcastExcept, Inv, PlaceInv, OnePlace, QueueTypes
<1>1. QueueTypes'
  BY Zenon DEF Inv, PlaceInv, QueueTypes, EnqueueRefused, claimVars, bootVars
<1> OnePlace' /\ OpShape' /\ Placed' \subseteq arrived' /\ Held' = Held
  <2>1. op' \in Ops /\ op'.k = "idle" /\ op'.refs = <<>> /\ op'.mems = <<>> /\ Range(op'.ids) = {}
    BY Zenon, StartedOps, EmptyEntries
  <2> QED
    BY Zenon, <2>1, OpStep
<1>2. LogInv'
  BY Zenon, CalmStep
<1> QED
  BY Zenon, <1>1, <1>2 DEF Inv, PlaceInv

\* evictOldestMemoryUnlocked: the oldest item becomes a reference with a claim.
LEMMA EvictOldestInv ==
  ASSUME Inv, EvictOldest
  PROVE  Inv'
  BY Zenon, HeadSpilled DEF EvictOldest, Doing

\* An eviction whose write fails puts the item back and leaves every claim as
\* it was.
LEMMA EvictFailsInv ==
  ASSUME Inv, EvictFails
  PROVE  Inv'
<1> /\ up /\ mem # <<>> /\ SpillFails(Head(mem)) /\ mem' = Append(Tail(mem), Head(mem)) /\ op' = Idle
    /\ op.k = "enqueue" /\ refused' = refused \cup {op.ids[1]}
    /\ UNCHANGED <<inflight, lowest, closed, waitVars, arrived, acked, dropped, unrecorded,
                   flushFailed, bootVars>>
  BY Zenon DEF EvictFails, Doing, Return
<1> /\ Head(mem) \in MemoryEntries /\ Tail(mem) \in Seq(MemoryEntries) /\ Head(mem).id \in arrived
    /\ EntryIds(mem) = EntryIds(Tail(mem)) \cup {Head(mem).id}
    /\ DistinctIds(Tail(mem)) /\ Head(mem).id \notin EntryIds(Tail(mem))
  BY Zenon, HeadOfMem
<1> mem' \in Seq(MemoryEntries) /\ EntryIds(mem') = EntryIds(mem) /\ DistinctIds(mem')
  BY Zenon, HeadToBack
<1> /\ op' \in Ops /\ op'.k = "idle" /\ op'.ids = <<>> /\ op'.refs = <<>> /\ op'.mems = <<>>
    /\ op.refs = <<>> /\ op.mems = <<>>
  BY Zenon, StartedOps DEF Inv, PlaceInv, OpShape
<1> LogInv' /\ diskRefs' = diskRefs /\ underflows' = underflows
  BY Zenon, SpillFailsStep DEF bootVars
<1>1. op.ids[1] \in Ids
  BY Zenon, EnqueuedItem
<1>2. QueueTypes'
  BY Zenon, <1>1 DEF Inv, PlaceInv, QueueTypes, waitVars, bootVars
<1>3. OnePlace' /\ Placed' \subseteq arrived'
  <2>1. EnqueuedId' = {}
    BY Zenon DEF EnqueuedId
  <2>2. retrying' = retrying /\ parked' = parked /\ retrying \cap parked = {}
    BY Zenon DEF waitVars, Inv, PlaceInv, OnePlace
  <2> QED
    BY Zenon, <2>1, <2>2, ShrinkStep, EmptyEntries DEF Inv, PlaceInv, OnePlace
<1>4. OpShape'
  BY Zenon DEF OpShape, bootVars
<1> QED
  BY Zenon, <1>2, <1>3, <1>4 DEF Inv, PlaceInv

\* Enqueue into the slot that the eviction freed.
LEMMA EnqueueAfterEvictionInv ==
  ASSUME Inv, EnqueueAfterEviction
  PROVE  Inv'
<1> DEFINE i == op.ids[1]
           e == Entry(i, 0, InMemory)
<1> /\ up /\ op.k = "enqueue" /\ mem' = Append(mem, e) /\ op' = Idle /\ Broadcast
    /\ UNCHANGED <<storeVars, diskRefs, inflight, claimVars, lowest, closed, arrived, acked, dropped,
                   unrecorded, refused, flushFailed, bootVars>>
  BY Zenon DEF EnqueueAfterEviction, Doing, Return
<1> /\ i \in Ids /\ i \in arrived /\ op.refs = <<>> /\ op.mems = <<>>
    /\ i \notin EntryIds(mem) /\ i \notin EntryIds(diskRefs) /\ i \notin DOMAIN inflight
    /\ i \notin retrying /\ i \notin parked
  BY Zenon, EnqueuedItem
<1>1. e \in MemoryEntries /\ e.id = i
  BY Zenon, NewEntry
<1> HIDE DEF e, i
<1> mem' \in Seq(MemoryEntries) /\ EntryIds(mem') = EntryIds(mem) \cup {i} /\ DistinctIds(mem')
  BY <1>1, AppendEntries DEF Inv, PlaceInv, QueueTypes, OnePlace
<1> op' \in Ops /\ op'.k = "idle" /\ op'.ids = <<>> /\ op'.refs = <<>> /\ op'.mems = <<>>
  BY Zenon, StartedOps
<1>2. QueueTypes'
  BY Zenon, Woken DEF Inv, PlaceInv, QueueTypes, claimVars, bootVars
<1>3. OnePlace'
  <2>1. EnqueuedId' = {}
    BY Zenon DEF EnqueuedId
  <2>2. retrying' = retrying \cup parked /\ parked' = {}
    BY Zenon, Woken
  <2> QED
    BY SMTT(60), <2>1, <2>2, EmptyEntries DEF Inv, PlaceInv, OnePlace, Callers
<1>4. OpShape' /\ Placed' \subseteq arrived'
  <2>1. OpShape'
    BY Zenon DEF OpShape, bootVars
  <2> retrying' = retrying \cup parked /\ parked' = {}
    BY Woken
  <2>2. Placed' \subseteq arrived'
    <3> Placed \subseteq arrived /\ arrived' = arrived /\ diskRefs' = diskRefs /\ inflight' = inflight
      BY Zenon DEF Inv, PlaceInv
    <3>1. EntryIds(op'.refs) = {} /\ EntryIds(op'.mems) = {} /\ Range(op'.ids) = {}
      BY Zenon, EmptyEntries
    <3>2. Placed' = EntryIds(mem') \cup EntryIds(diskRefs) \cup DOMAIN inflight \cup retrying'
      BY Zenon, <3>1 DEF Placed
    <3> QED
      BY Zenon, <3>2 DEF Placed
  <2> QED
    BY Zenon, <2>1, <2>2
<1>5. Held' = Held
  BY Zenon, HeldTypes, HeldIsNext DEF Inv, PlaceInv, QueueTypes
<1>6. LogInv'
  BY Zenon, <1>5, CalmStep DEF bootVars
<1> QED
  BY Zenon, <1>2, <1>3, <1>4, <1>6 DEF Inv, PlaceInv

\* An item that never fits memory goes to the log, parks its caller, or is
\* refused.
LEMMA SpillEnqueueInv ==
  ASSUME Inv, SpillEnqueue
  PROVE  Inv'
<1> DEFINE i == op.ids[1]
           e == Entry(i, 0, InMemory)
<1> /\ up /\ op.k = "enqueue" /\ op' = Idle
    /\ UNCHANGED <<mem, inflight, lowest, closed, arrived, acked, dropped, unrecorded,
                   flushFailed, bootVars>>
    /\ \/ Spills(e) /\ Broadcast /\ UNCHANGED refused
       \/ SpillFails(e) /\ parked' = parked \cup {e.id} /\ UNCHANGED <<retrying, waiting, refused>>
       \/ SpillFails(e) /\ refused' = refused \cup {e.id} /\ UNCHANGED waitVars
  BY Zenon DEF SpillEnqueue, Doing, Return
<1> /\ i \in Ids /\ i \in arrived /\ op.refs = <<>> /\ op.mems = <<>>
    /\ i \notin EntryIds(mem) /\ i \notin EntryIds(diskRefs) /\ i \notin DOMAIN inflight
    /\ i \notin retrying /\ i \notin parked
  BY Zenon, EnqueuedItem
<1> e \in MemoryEntries /\ e.id = i
  BY Zenon, NewEntry
<1> HIDE DEF e, i
<1> op' \in Ops /\ op'.k = "idle" /\ op'.ids = <<>> /\ op'.refs = <<>> /\ op'.mems = <<>> /\ EnqueuedId' = {}
  BY Zenon, StartedOps DEF EnqueuedId
<1> OpShape'
  BY Zenon DEF OpShape, bootVars
<1>1. CASE Spills(e) /\ Broadcast /\ UNCHANGED refused
  <2> /\ LogInv' /\ diskRefs' \in Seq(Refs) /\ underflows' = underflows
      /\ EntryIds(diskRefs') = EntryIds(diskRefs) \cup {i} /\ DistinctIds(diskRefs')
    BY Zenon, <1>1, SpillStep, EmptyEntries DEF bootVars
  <2>1. QueueTypes'
    BY Zenon, <1>1, Woken DEF Inv, PlaceInv, QueueTypes, bootVars
  <2> retrying' = retrying \cup parked /\ parked' = {}
    BY Zenon, <1>1, Woken
  <2>2. OnePlace'
    BY SMTT(60), EmptyEntries DEF Inv, PlaceInv, OnePlace, Callers
  <2>3. Placed' \subseteq arrived'
    BY EmptyEntries DEF Inv, PlaceInv, Placed
  <2> QED
    BY Zenon, <2>1, <2>2, <2>3 DEF Inv, PlaceInv
<1>2. CASE SpillFails(e)
           /\ \/ parked' = parked \cup {e.id} /\ UNCHANGED <<retrying, waiting, refused>>
              \/ refused' = refused \cup {e.id} /\ UNCHANGED waitVars
  <2> LogInv' /\ diskRefs' = diskRefs /\ underflows' = underflows
    BY Zenon, <1>2, SpillFailsStep DEF bootVars
  <2> retrying' = retrying /\ waiting' = waiting /\ (parked' = parked \/ parked' = parked \cup {i})
    BY Zenon, <1>2 DEF waitVars
  <2>1. QueueTypes'
    BY ZenonT(60), <1>2 DEF Inv, PlaceInv, QueueTypes, bootVars
  <2>2. OnePlace'
    BY EmptyEntries DEF Inv, PlaceInv, OnePlace, Callers
  <2>3. Placed' \subseteq arrived'
    BY SMTT(60), EmptyEntries DEF Inv, PlaceInv, Placed
  <2> QED
    BY Zenon, <2>1, <2>2, <2>3 DEF Inv, PlaceInv
<1> QED
  BY Zenon, <1>1, <1>2

\* dropOldest: without a disk the oldest item makes room for the new one.
LEMMA EnqueueDropOldestInv ==
  ASSUME Inv, NEW i \in Ids, EnqueueDropOldest(i)
  PROVE  Inv'
<1> DEFINE e == Entry(i, 0, InMemory)
           rest == SubSeq(mem, 2, Len(mem))
<1> /\ up /\ op = Idle /\ op' = op /\ arrived' = arrived \cup {i} /\ (i \in retrying \/ i \notin arrived)
    /\ UNCHANGED <<storeVars, diskRefs, inflight, claimVars, lowest, closed, acked, unrecorded,
                   refused, flushFailed, bootVars>>
    /\ \/ mem' = Append(rest, e) /\ BroadcastExcept(i)
       \/ mem' = rest /\ retrying' = retrying \cup {i} /\ UNCHANGED <<parked, waiting>>
  BY Zenon DEF EnqueueDropOldest, Free, Takes, Calls
<1>1. e \in MemoryEntries /\ e.id = i
  BY Zenon, NewEntry
<1> mem \in Seq(MemoryEntries) /\ DistinctIds(mem)
  BY Zenon DEF Inv, PlaceInv, QueueTypes, OnePlace
<1> rest \in Seq(MemoryEntries) /\ EntryIds(rest) \subseteq EntryIds(mem) /\ DistinctIds(rest)
  <2>1. Len(mem) \in Nat
    OBVIOUS
  <2> QED
    BY <2>1, SubEntries
<1>2. dropped' \subseteq Ids
  <2>1. \A k \in DOMAIN mem : mem[k].id \in Ids
    BY DEF MemoryEntries, Entries
  <2> QED
    BY <2>1 DEF EnqueueDropOldest, Inv, PlaceInv, QueueTypes
<1> HIDE DEF e, rest
<1> /\ i \notin EntryIds(mem) /\ i \notin EntryIds(diskRefs) /\ i \notin DOMAIN inflight
    /\ i \notin EntryIds(op.refs) /\ i \notin EntryIds(op.mems) /\ i \notin parked
  BY Zenon DEF Inv, PlaceInv, OnePlace, Placed, Callers
<1> /\ mem' \in Seq(MemoryEntries) /\ EntryIds(mem') \subseteq EntryIds(mem) \cup {i} /\ DistinctIds(mem')
    /\ \/ parked' = {} /\ waiting' = FALSE /\ retrying' = (retrying \cup parked) \ {i}
       \/ /\ EntryIds(mem') \subseteq EntryIds(mem) /\ retrying' = retrying \cup {i}
          /\ parked' = parked /\ waiting' = waiting
  <2>1. CASE mem' = Append(rest, e) /\ BroadcastExcept(i)
    <3>1. Append(rest, e) \in Seq(MemoryEntries) /\ EntryIds(Append(rest, e)) = EntryIds(rest) \cup {i}
          /\ DistinctIds(Append(rest, e))
      BY <1>1, AppendEntries
    <3> QED
      BY Zenon, <2>1, <3>1 DEF BroadcastExcept
  <2>2. CASE mem' = rest /\ retrying' = retrying \cup {i} /\ UNCHANGED <<parked, waiting>>
    BY Zenon, <2>2
  <2> QED
    BY Zenon, <2>1, <2>2
<1>3. QueueTypes'
  BY Zenon, <1>2 DEF Inv, PlaceInv, QueueTypes, claimVars, bootVars
<1>4. OnePlace'
  <2> EnqueuedId = {} /\ EnqueuedId' = {}
    BY Zenon, StartedOps DEF EnqueuedId
  <2> OnePlace /\ diskRefs' = diskRefs /\ inflight' = inflight /\ op' = op
    BY Zenon DEF Inv, PlaceInv
  <2> /\ Callers' \subseteq Callers \cup {i} /\ retrying' \cap parked' = {}
      /\ EntryIds(mem') \cap Callers' = {}
    BY DEF OnePlace, Callers
  <2>1. EntryIds(mem') \cap (EntryIds(diskRefs) \cup DOMAIN inflight \cup EntryIds(op.refs)
                               \cup EntryIds(op.mems)) = {}
    BY SMTT(60) DEF OnePlace
  <2>2. (EntryIds(diskRefs) \cup DOMAIN inflight \cup EntryIds(op.refs) \cup EntryIds(op.mems))
          \cap Callers' = {}
    BY SMTT(60) DEF OnePlace
  <2> QED
    BY Zenon, <2>1, <2>2 DEF OnePlace
<1>5. OpShape' /\ Placed' \subseteq arrived'
  BY DEF Inv, PlaceInv, OpShape, Placed, bootVars
<1>6. Held' = Held
  BY Zenon, HeldTypes, HeldIsNext DEF Inv, PlaceInv, QueueTypes
<1>7. LogInv'
  BY Zenon, <1>6, CalmStep DEF bootVars
<1> QED
  BY Zenon, <1>3, <1>4, <1>5, <1>7 DEF Inv, PlaceInv

\* DequeueBatch taking the lock.
LEMMA DequeueBatchInv ==
  ASSUME Inv, DequeueBatch
  PROVE  Inv'
<1> op' = Start("dequeue", <<>>) /\ "dequeue" \in OpKinds /\ op = Idle /\ up /\ closed' \in BOOLEAN
  BY Zenon DEF DequeueBatch, Free, OpKinds, Inv, PlaceInv, QueueTypes
<1>1. /\ op' \in Ops /\ op'.k = "dequeue" /\ op'.ids = <<>> /\ op'.refs = <<>> /\ op'.mems = <<>>
      /\ op.refs = <<>> /\ op.mems = <<>>
  BY Zenon, StartedOps
<1> QED
  BY Zenon, <1>1, ControlStep, SameWaiters, EmptyEntries DEF DequeueBatch

\* The end of the pull loop of DequeueBatch.
LEMMA PullEndInv ==
  ASSUME Inv, PullEnd
  PROVE  Inv'
<1> DEFINE b == (op.ids = <<>>)
<1> /\ op' = Operation("compact", <<>>, <<>>, "failed", b) /\ "compact" \in OpKinds /\ "failed" \in Kinds
    /\ b \in BOOLEAN /\ <<>> \in Seq(Ids) /\ <<>> \in Seq(MemoryEntries)
    /\ up /\ op.k = "dequeue" /\ closed' \in BOOLEAN
  BY DEF PullEnd, Doing, OpKinds, Kinds, Inv, PlaceInv, QueueTypes
<1> HIDE DEF b
<1>1. /\ op' \in Ops /\ op'.k = "compact" /\ op'.ids = <<>> /\ op'.refs = <<>> /\ op'.mems = <<>>
      /\ op.refs = <<>> /\ op.mems = <<>>
  <2>1. <<>> \in Seq(Refs)
    OBVIOUS
  <2>2. op' \in Ops /\ op'.k = "compact" /\ op'.ids = <<>> /\ op'.refs = <<>> /\ op'.mems = <<>>
    BY Zenon, <2>1 DEF Operation, Ops
  <2> QED
    BY Zenon, <2>2 DEF Inv, PlaceInv, OpShape
<1> QED
  BY ZenonT(60), <1>1, ControlStep, SameWaiters, EmptyEntries DEF PullEnd

\* A parked consumer whose context ends.
LEMMA WaitCancelledInv ==
  ASSUME Inv, WaitCancelled
  PROVE  Inv'
<1> op' = op /\ op = Idle /\ up /\ closed' \in BOOLEAN /\ Broadcast
  BY Zenon DEF WaitCancelled, Free, Inv, PlaceInv, QueueTypes
<1>1. op' \in Ops /\ op'.k = "idle" /\ op'.ids = <<>> /\ op'.refs = <<>> /\ op'.mems = <<>>
  BY Zenon, StartedOps
<1> QED
  BY Zenon, <1>1, ControlStep, Woken, EmptyEntries DEF WaitCancelled

\* The new entry in the inflight map.
LEMMA PulledEntry ==
  ASSUME Inv, NEW e \in Entries, inflight' = InflightWith(e)
  PROVE  /\ DOMAIN inflight' = DOMAIN inflight \cup {e.id}
         /\ DOMAIN inflight' \subseteq Ids
         /\ \A i \in DOMAIN inflight' : inflight'[i] \in Entries /\ inflight'[i].id = i
<1>1. DOMAIN inflight \subseteq Ids /\ \A i \in DOMAIN inflight : inflight[i] \in Entries /\ inflight[i].id = i
  BY Zenon DEF Inv, PlaceInv, QueueTypes
<1>2. e.id \in Ids
  BY Zenon DEF Entries
<1> QED
  BY Zenon, <1>1, <1>2 DEF InflightWith

\* DequeueBatch moving a reference to inflight: its claim stays.
LEMMA PullDiskInv ==
  ASSUME Inv, PullDisk
  PROVE  Inv'
<1> DEFINE e == Head(diskRefs)
<1> /\ up /\ op.k = "dequeue" /\ diskRefs # <<>> /\ inflight' = InflightWith(e)
    /\ op' = [op EXCEPT !.ids = Append(@, e.id), !.flag = FALSE]
    /\ UNCHANGED <<storeVars, mem, claimVars, lowest, closed, waitVars, arrived, acked, dropped,
                   unrecorded, refused, flushFailed, bootVars>>
  BY Zenon DEF PullDisk, Pulling, Doing
<1> /\ e \in Entries /\ diskRefs' \in Seq(Refs) /\ e.id \in Ids /\ e.id \in arrived
    /\ EntryIds(diskRefs) = EntryIds(diskRefs') \cup {e.id} /\ e.seg # NoSeg
    /\ Pairs(diskRefs) = Pairs(diskRefs') \cup {<<e.id, e.seg>>}
    /\ DistinctIds(diskRefs') /\ e.id \notin EntryIds(diskRefs')
    /\ e.id \notin EntryIds(mem) /\ e.id \notin DOMAIN inflight /\ e.id \notin Callers
  BY Zenon, HeadOfRefs DEF PullDisk, Refs
<1> HIDE DEF e
<1> /\ op' \in Ops /\ op'.k = "dequeue" /\ op'.refs = <<>> /\ op'.mems = <<>>
    /\ Range(op'.ids) \subseteq arrived /\ op.refs = <<>> /\ op.mems = <<>>
    /\ EnqueuedId = {} /\ EnqueuedId' = {}
  BY Zenon, PulledOp
<1> /\ DOMAIN inflight' = DOMAIN inflight \cup {e.id} /\ DOMAIN inflight' \subseteq Ids
    /\ \A i \in DOMAIN inflight' : inflight'[i] \in Entries /\ inflight'[i].id = i
  BY Zenon, PulledEntry
<1>1. QueueTypes'
  BY Zenon DEF Inv, PlaceInv, QueueTypes, claimVars, waitVars, bootVars
<1>2. OnePlace'
  BY DEF Inv, PlaceInv, OnePlace, Callers, waitVars
<1>3. OpShape'
  BY Zenon DEF OpShape, bootVars
<1>4. Placed' \subseteq arrived'
  BY Zenon, EmptyEntries DEF Inv, PlaceInv, Placed, waitVars
<1>5. Held' = Held
  <2>1. Held = HeldOf(diskRefs, inflight, op.refs) /\ Held' = HeldOf(diskRefs', inflight', op'.refs)
    BY Zenon, HeldTypes, HeldIsNext DEF Inv, PlaceInv
  <2>2. OutPairs(inflight') = OutPairs(inflight) \cup {<<e.id, e.seg>>}
    BY Zenon, OutPairsWith
  <2> QED
    BY Zenon, <2>1, <2>2 DEF HeldOf
<1>6. LogInv'
  BY Zenon, <1>5, CalmStep DEF bootVars
<1> QED
  BY Zenon, <1>1, <1>2, <1>3, <1>4, <1>6 DEF Inv, PlaceInv

\* DequeueBatch moving a memory item to inflight.
LEMMA PullMemoryInv ==
  ASSUME Inv, PullMemory
  PROVE  Inv'
<1> DEFINE e == Head(mem)
<1> /\ up /\ op.k = "dequeue" /\ mem # <<>> /\ inflight' = InflightWith(e)
    /\ op' = [op EXCEPT !.ids = Append(@, e.id), !.flag = FALSE]
    /\ UNCHANGED <<storeVars, diskRefs, claimVars, lowest, closed, waitVars, arrived, acked, dropped,
                   unrecorded, refused, flushFailed, bootVars>>
  BY Zenon DEF PullMemory, Pulling, Doing
<1> /\ e \in Entries /\ mem' \in Seq(MemoryEntries) /\ e.id \in Ids /\ e.id \in arrived
    /\ EntryIds(mem) = EntryIds(mem') \cup {e.id} /\ e.seg = NoSeg
    /\ DistinctIds(mem') /\ e.id \notin EntryIds(mem')
    /\ e.id \notin EntryIds(diskRefs) /\ e.id \notin DOMAIN inflight /\ e.id \notin Callers
  BY Zenon, HeadOfMem DEF PullMemory, MemoryEntries
<1> HIDE DEF e
<1> /\ op' \in Ops /\ op'.k = "dequeue" /\ op'.refs = <<>> /\ op'.mems = <<>>
    /\ Range(op'.ids) \subseteq arrived /\ op.refs = <<>> /\ op.mems = <<>>
    /\ EnqueuedId = {} /\ EnqueuedId' = {}
  BY Zenon, PulledOp
<1> /\ DOMAIN inflight' = DOMAIN inflight \cup {e.id} /\ DOMAIN inflight' \subseteq Ids
    /\ \A i \in DOMAIN inflight' : inflight'[i] \in Entries /\ inflight'[i].id = i
  BY Zenon, PulledEntry
<1>1. QueueTypes'
  BY Zenon DEF Inv, PlaceInv, QueueTypes, claimVars, waitVars, bootVars
<1>2. OnePlace'
  BY DEF Inv, PlaceInv, OnePlace, Callers, waitVars
<1>3. OpShape'
  BY Zenon DEF OpShape, bootVars
<1>4. Placed' \subseteq arrived'
  BY Zenon, EmptyEntries DEF Inv, PlaceInv, Placed, waitVars
<1>5. Held' = Held
  <2>1. Held = HeldOf(diskRefs, inflight, op.refs) /\ Held' = HeldOf(diskRefs', inflight', op'.refs)
    BY Zenon, HeldTypes, HeldIsNext DEF Inv, PlaceInv
  <2>2. OutPairs(inflight') = OutPairs(inflight)
    BY Zenon, OutPairsWith
  <2> QED
    BY Zenon, <2>1, <2>2 DEF HeldOf
<1>6. LogInv'
  BY Zenon, <1>5, CalmStep DEF bootVars
<1> QED
  BY Zenon, <1>1, <1>2, <1>3, <1>4, <1>6 DEF Inv, PlaceInv

\* readRefUnlocked dropping a reference: reference and claim go together.
LEMMA DropUnreadableInv ==
  ASSUME Inv, DropUnreadable
  PROVE  Inv'
<1> DEFINE e == Head(diskRefs)
<1> /\ up /\ op.k = "dequeue" /\ diskRefs # <<>> /\ Release(e.seg) /\ SettleDroppedRef(e.id)
    /\ op' = [op EXCEPT !.flag = TRUE] /\ dropped' = dropped \cup {e.id}
    /\ UNCHANGED <<mem, inflight, lowest, closed, waitVars, arrived, acked, unrecorded, refused,
                   flushFailed, bootVars>>
  BY Zenon DEF DropUnreadable, Pulling, Doing
<1> /\ diskRefs' \in Seq(Refs) /\ e.id \in Ids /\ e.id \in arrived /\ e.seg \in Nat
    /\ EntryIds(diskRefs) = EntryIds(diskRefs') \cup {e.id}
    /\ Pairs(diskRefs) = Pairs(diskRefs') \cup {<<e.id, e.seg>>}
    /\ DistinctIds(diskRefs') /\ e.id \notin EntryIds(diskRefs')
    /\ e.id \notin DOMAIN inflight /\ e.id \notin EntryIds(op.refs)
  BY Zenon, HeadOfRefs DEF DropUnreadable
<1> HIDE DEF e
<1> /\ op' \in Ops /\ op'.k = "dequeue" /\ op'.ids = op.ids /\ op'.refs = <<>> /\ op'.mems = <<>>
    /\ op.refs = <<>> /\ op.mems = <<>> /\ EnqueuedId' = {}
  <2> op \in Ops /\ op.refs = <<>> /\ op.mems = <<>>
    BY Zenon DEF Inv, PlaceInv, QueueTypes, OpShape
  <2>1. op' \in Ops /\ op'.k = "dequeue" /\ op'.ids = op.ids /\ op'.refs = op.refs /\ op'.mems = op.mems
    BY Zenon DEF Ops
  <2> QED
    BY Zenon, <2>1 DEF EnqueuedId
<1> StoreInv' /\ Grown(e.id)
  BY Zenon, WriteOKStep, WriteFailStep, RecordTypesOK DEF SettleDroppedRef, Inv, LogInv
<1> Held' = Held \ {<<e.id, e.seg>>} /\ <<e.id, e.seg>> \in Held
  <2>1. Held = HeldOf(diskRefs, inflight, op.refs) /\ Held' = HeldOf(diskRefs', inflight', op'.refs)
    BY Zenon, HeldTypes, HeldIsNext DEF Inv, PlaceInv, QueueTypes
  <2>2. \A n : <<e.id, n>> \notin OutPairs(inflight)
    BY Zenon DEF OutPairs
  <2>3. \A n : <<e.id, n>> \notin Pairs(diskRefs') /\ <<e.id, n>> \notin Pairs(op.refs)
    BY Zenon, PairIds
  <2> QED
    BY SMTT(60), <2>1, <2>2, <2>3 DEF HeldOf
<1> ClaimsOK' /\ Counts'
  BY Zenon, HeldTypes, CountsReleased, StoreInvFiles DEF Inv, PlaceInv, LogInv
<1>1. \A h \in Held' : h \in Held
  BY Zenon
<1>2. Backed'
  BY Zenon, <1>1, BackedStep DEF Inv, PlaceInv, QueueTypes, bootVars
<1>3. IdsIn(files') \subseteq arrived'
  BY Zenon DEF Inv, LogInv, Grown
<1>4. QueueTypes'
  BY Zenon DEF Inv, PlaceInv, QueueTypes, Counts, waitVars, bootVars
<1>5. OnePlace' /\ Placed' \subseteq arrived'
  <2>1. retrying' = retrying /\ parked' = parked /\ retrying \cap parked = {}
    BY Zenon DEF waitVars, Inv, PlaceInv, OnePlace
  <2>2. Range(op'.ids) \subseteq arrived'
    BY Zenon DEF Inv, PlaceInv, Placed
  <2> QED
    BY ZenonT(60), <2>1, <2>2, ShrinkStep, EmptyEntries DEF Inv, PlaceInv, OnePlace
<1>6. OpShape'
  BY Zenon DEF OpShape, bootVars
<1> QED
  BY Zenon, <1>2, <1>3, <1>4, <1>5, <1>6 DEF Inv, PlaceInv, LogInv

\* Every step of Enqueue and DequeueBatch preserves the invariant.
LEMMA IntakeInv ==
  ASSUME Inv, EnqueueStep \/ DequeueStep
  PROVE  Inv'
<1>1. CASE EnqueueStep
  BY Zenon, <1>1, EnqueueMemoryInv, EnqueueSpillingInv, EnqueueDropOldestInv, EnqueueRefusedInv, EvictOldestInv,
     EvictFailsInv, EnqueueAfterEvictionInv, SpillEnqueueInv DEF EnqueueStep
<1>2. CASE DequeueStep
  BY Zenon, <1>2, DequeueBatchInv, PullDiskInv, DropUnreadableInv, PullMemoryInv, PullEndInv, WaitCancelledInv
     DEF DequeueStep
<1> QED
  BY Zenon, <1>1, <1>2

-----------------------------------------------------------------------------
(***************************************************************************)
(* The items.                                                              *)
(***************************************************************************)

\* The flows of Enqueue.
LEMMA EnqueueMemoryFlow ==
  ASSUME Inv, NEW i \in Ids, EnqueueMemory(i)
  PROVE  MemoryFlow({i}, {})
<1> DEFINE e == Entry(i, 0, InMemory)
<1>1. e \in MemoryEntries /\ e.id = i
  BY NewEntry
<1> /\ (i \in retrying \/ i \in Ids \ arrived) /\ up /\ op = Idle /\ mem' = Append(mem, e)
    /\ arrived' = arrived \cup {i} /\ retrying' = (retrying \cup parked) \ {i} /\ parked' = {}
    /\ UNCHANGED <<storeVars, diskRefs, inflight, op, acked, dropped, unrecorded, refused, flushFailed, up, lost, crashes>>
  BY Zenon DEF EnqueueMemory, Calls, Free, Takes, BroadcastExcept, bootVars
<1> mem \in Seq(MemoryEntries) /\ LogKept
  BY ZenonT(60), LogKeptBy DEF Inv, PlaceInv, QueueTypes, LogInv
<1> HIDE DEF e
<1>2. EntryIds(mem') = EntryIds(mem) \cup {i}
  BY <1>1, AppendEntries
<1>3. VolatileIds' = VolatileIds \cup {i}
  BY Zenon, <1>2 DEF VolatileIds, Callers, MemoryInflight, EnqueuedId
<1>4. Spots' = Spots /\ BootIds' = BootIds /\ Settled' = Settled
  BY DEF Spots, LiveRefs, DiskInflight, MemoryInflight, BootIds, Settled
<1> QED
  BY Zenon, <1>3, <1>4 DEF MemoryFlow, Running, VolatileIds, Callers

LEMMA EnqueueSpillingFlow ==
  ASSUME Inv, NEW i \in Ids, EnqueueSpilling(i)
  PROVE  MemoryFlow({i}, {})
<1> /\ (i \in retrying \/ i \in Ids \ arrived) /\ up /\ op = Idle /\ op' = Start("enqueue", <<i>>)
    /\ arrived' = arrived \cup {i} /\ retrying' = retrying \ {i} /\ parked' = parked
    /\ UNCHANGED <<storeVars, mem, diskRefs, inflight, acked, dropped, unrecorded, refused, flushFailed, up, lost, crashes>>
  BY Zenon DEF EnqueueSpilling, Calls, Free, Takes, bootVars
<1> /\ op.k = "idle" /\ op'.k = "enqueue" /\ op'.ids[1] = i
    /\ op.refs = <<>> /\ op'.refs = <<>> /\ op.mems = <<>> /\ op'.mems = <<>>
  BY Zenon DEF Idle, Start, Operation
<1> EnqueuedId = {} /\ EnqueuedId' = {i} /\ BootIds = {} /\ BootIds' = {}
  BY Zenon DEF EnqueuedId, BootIds
<1>1. VolatileIds' = VolatileIds \cup {i}
  BY Zenon DEF VolatileIds, Callers, MemoryInflight
<1>2. Spots' = Spots /\ Settled' = Settled /\ LogKept
  BY LogKeptBy DEF Spots, LiveRefs, DiskInflight, MemoryInflight, Settled, Inv, LogInv
<1> QED
  BY Zenon, <1>1, <1>2 DEF MemoryFlow, Running, VolatileIds, Callers

LEMMA EnqueueRefusedFlow ==
  ASSUME Inv, NEW i \in Ids, EnqueueRefused(i)
  PROVE  MemoryFlow({i}, {i})
<1> /\ i \in retrying \cup parked \cup (Ids \ arrived) /\ up /\ op = Idle /\ arrived' = arrived \cup {i}
    /\ retrying' \cup parked' \cup {i} = retrying \cup parked \cup {i} /\ refused' = refused \cup {i}
    /\ UNCHANGED <<storeVars, mem, diskRefs, inflight, op, acked, dropped, unrecorded, flushFailed, up, lost, crashes>>
  BY Zenon DEF EnqueueRefused, Calls, Free, Takes, BroadcastExcept, bootVars
<1>1. i \notin retrying' /\ i \notin parked'
  BY Zenon DEF EnqueueRefused, Calls, BroadcastExcept, Inv, PlaceInv, OnePlace, Placed
<1> EnqueuedId = {} /\ EnqueuedId' = {} /\ BootIds = {} /\ BootIds' = {} /\ op.mems = <<>>
  BY Zenon DEF EnqueuedId, BootIds, Idle, Start, Operation
<1>2. i \notin EntryIds(mem) /\ i \notin MemoryInflight
  BY Zenon DEF Inv, PlaceInv, OnePlace, Placed, Callers, MemoryInflight
<1>3. VolatileIds' = (VolatileIds \cup {i}) \ {i}
  BY ZenonT(60), <1>1, <1>2, EmptyEntries DEF VolatileIds, Callers, MemoryInflight
<1>4. Spots' = Spots /\ Settled' = Settled \cup {i} /\ LogKept
  BY LogKeptBy DEF Spots, LiveRefs, DiskInflight, MemoryInflight, Settled, Inv, LogInv
<1> QED
  BY Zenon, <1>3, <1>4 DEF MemoryFlow, Running, VolatileIds, Callers

LEMMA EvictFailsFlow ==
  ASSUME Inv, EvictFails
  PROVE  MemoryFlow({}, {op.ids[1]})
<1> /\ up /\ mem # <<>> /\ SpillFails(Head(mem)) /\ mem' = Append(Tail(mem), Head(mem)) /\ op' = Idle
    /\ op.k = "enqueue" /\ refused' = refused \cup {op.ids[1]}
    /\ UNCHANGED <<inflight, diskRefs, waitVars, arrived, acked, dropped, unrecorded, flushFailed, bootVars>>
  BY Zenon DEF EvictFails, Doing, Return, SpillFails
<1>1. EntryIds(mem') = EntryIds(mem)
  BY Zenon, HeadToBack
<1> /\ EnqueuedId = {op.ids[1]} /\ op.refs = <<>> /\ op.mems = <<>> /\ op.ids[1] \notin EntryIds(mem)
    /\ op.ids[1] \notin DOMAIN inflight /\ op.ids[1] \notin retrying /\ op.ids[1] \notin parked
  BY Zenon, EnqueuedItem
<1> op'.refs = <<>> /\ op'.mems = <<>> /\ EnqueuedId' = {} /\ BootIds = {} /\ BootIds' = {}
  BY Zenon DEF EnqueuedId, BootIds, Idle, Start, Operation
<1>2. VolatileIds' = VolatileIds \ {op.ids[1]} /\ op.ids[1] \in VolatileIds
  BY Zenon, <1>1, EmptyEntries DEF VolatileIds, Callers, MemoryInflight, waitVars
<1>3. Spots' = Spots /\ Settled' = Settled \cup {op.ids[1]} /\ LogKept
  BY ZenonT(60), LogKeptBy DEF Spots, LiveRefs, DiskInflight, MemoryInflight, Settled, Inv, LogInv
<1> QED
  BY Zenon, <1>2, <1>3 DEF MemoryFlow, Running, bootVars

LEMMA EnqueueAfterEvictionFlow ==
  ASSUME Inv, EnqueueAfterEviction
  PROVE  MemoryFlow({}, {})
<1> DEFINE i == op.ids[1]
           e == Entry(i, 0, InMemory)
<1> /\ up /\ op.k = "enqueue" /\ mem' = Append(mem, e) /\ op' = Idle
    /\ retrying' = retrying \cup parked /\ parked' = {}
    /\ UNCHANGED <<storeVars, diskRefs, inflight, arrived, acked, dropped, unrecorded, refused, flushFailed, bootVars>>
  BY Zenon DEF EnqueueAfterEviction, Doing, Return, Broadcast
<1> i \in Ids /\ EnqueuedId = {i} /\ op.refs = <<>> /\ op.mems = <<>>
  BY Zenon, EnqueuedItem
<1>1. e \in MemoryEntries /\ e.id = i /\ mem \in Seq(MemoryEntries)
  BY ZenonT(60), NewEntry DEF Inv, PlaceInv, QueueTypes
<1> HIDE DEF e, i
<1>2. EntryIds(mem') = EntryIds(mem) \cup {i}
  BY <1>1, AppendEntries
<1> op'.refs = <<>> /\ op'.mems = <<>> /\ EnqueuedId' = {} /\ BootIds = {} /\ BootIds' = {}
  BY Zenon DEF EnqueuedId, BootIds, Idle, Start, Operation
<1>3. VolatileIds' = VolatileIds
  BY Zenon, <1>2, EmptyEntries DEF VolatileIds, Callers, MemoryInflight
<1>4. Spots' = Spots /\ Settled' = Settled /\ LogKept
  BY ZenonT(60), LogKeptBy DEF Spots, LiveRefs, DiskInflight, MemoryInflight, Settled, Inv, LogInv
<1> QED
  BY Zenon, <1>3, <1>4 DEF MemoryFlow, Running, bootVars

LEMMA SpillEnqueueFlow ==
  ASSUME Inv, SpillEnqueue
  PROVE  \/ SpillFlow(op.ids[1], 0)
         \/ MemoryFlow({}, {})
         \/ MemoryFlow({}, {op.ids[1]})
<1> DEFINE i == op.ids[1]
           e == Entry(i, 0, InMemory)
<1> /\ up /\ op.k = "enqueue" /\ op' = Idle
    /\ UNCHANGED <<mem, inflight, arrived, acked, dropped, unrecorded, flushFailed, bootVars>>
    /\ \/ Spills(e) /\ Broadcast /\ UNCHANGED refused
       \/ SpillFails(e) /\ parked' = parked \cup {e.id} /\ UNCHANGED <<retrying, refused>>
       \/ SpillFails(e) /\ refused' = refused \cup {e.id} /\ UNCHANGED <<retrying, parked>>
  BY Zenon DEF SpillEnqueue, Doing, Return, waitVars
<1> /\ i \in Ids /\ EnqueuedId = {i} /\ op.refs = <<>> /\ op.mems = <<>>
    /\ i \notin EntryIds(mem) /\ i \notin DOMAIN inflight /\ i \notin retrying /\ i \notin parked
  BY Zenon, EnqueuedItem
<1> e \in MemoryEntries /\ e.id = i /\ e.att = 0
  BY Zenon, NewEntry
<1> HIDE DEF e, i
<1> op'.refs = <<>> /\ op'.mems = <<>> /\ EnqueuedId' = {} /\ BootIds = {} /\ BootIds' = {}
  BY Zenon DEF EnqueuedId, BootIds, Idle, Start, Operation
<1>1. CASE Spills(e) /\ Broadcast /\ UNCHANGED refused
  <2>1. /\ Spots' = Spots \cup {<<e.id, Location.seg, Location.pos>>}
        /\ WriteOK(ItemRecord(e.id, e.att)) /\ e.att \in Attempts
    BY ZenonT(60), <1>1, SpillSpots
  <2>2. VolatileIds' = VolatileIds \ {i} /\ i \in VolatileIds /\ Settled' = Settled
    BY <1>1, EmptyEntries DEF VolatileIds, Callers, MemoryInflight, Broadcast, Settled
  <2>3. SpillFlow(i, 0)
    BY ZenonT(60), <2>1, <2>2 DEF SpillFlow, Running, bootVars
  <2> QED
    BY Zenon, <2>3 DEF i
<1>2. ASSUME SpillFails(e) PROVE Spots' = Spots /\ LogKept
  BY SMTT(60), <1>2, LogKeptBy DEF Spots, LiveRefs, DiskInflight, MemoryInflight, SpillFails, Inv, LogInv
<1>3. CASE SpillFails(e) /\ parked' = parked \cup {e.id} /\ UNCHANGED <<retrying, refused>>
  <2>1. VolatileIds' = VolatileIds /\ Settled' = Settled
    BY Zenon, <1>3, EmptyEntries DEF VolatileIds, Callers, MemoryInflight, Settled
  <2>2. MemoryFlow({}, {})
    BY Zenon, <1>2, <1>3, <2>1 DEF MemoryFlow, Running, bootVars
  <2> QED
    BY Zenon, <2>2
<1>4. CASE SpillFails(e) /\ refused' = refused \cup {e.id} /\ UNCHANGED <<retrying, parked>>
  <2>1. VolatileIds' = VolatileIds \ {i} /\ i \in VolatileIds /\ Settled' = Settled \cup {i}
    BY Zenon, <1>4, EmptyEntries DEF VolatileIds, Callers, MemoryInflight, Settled
  <2>2. MemoryFlow({}, {i})
    BY Zenon, <1>2, <1>4, <2>1 DEF MemoryFlow, Running, bootVars
  <2> QED
    BY Zenon, <2>2 DEF i
<1> QED
  BY Zenon, <1>1, <1>3, <1>4

LEMMA EnqueueDropOldestFlow ==
  ASSUME Inv, NEW i \in Ids, EnqueueDropOldest(i)
  PROVE  MemoryFlow({i}, {mem[k].id : k \in DOMAIN mem \cap {1}})
<1> DEFINE e == Entry(i, 0, InMemory)
           rest == SubSeq(mem, 2, Len(mem))
           J == {mem[k].id : k \in DOMAIN mem \cap {1}}
<1> /\ up /\ op = Idle /\ op' = op /\ arrived' = arrived \cup {i} /\ (i \in retrying \/ i \in Ids \ arrived)
    /\ dropped' = dropped \cup J
    /\ UNCHANGED <<storeVars, diskRefs, inflight, acked, unrecorded, refused, flushFailed, bootVars>>
    /\ \/ mem' = Append(rest, e) /\ BroadcastExcept(i)
       \/ mem' = rest /\ retrying' = retrying \cup {i} /\ UNCHANGED parked
  BY Zenon DEF EnqueueDropOldest, Free, Takes, Calls
<1>1. e \in MemoryEntries /\ e.id = i
  BY Zenon, NewEntry
<1> mem \in Seq(MemoryEntries) /\ DistinctIds(mem)
  BY Zenon DEF Inv, PlaceInv, QueueTypes, OnePlace
<1> rest \in Seq(MemoryEntries) /\ EntryIds(rest) = EntryIds(mem) \ J /\ J \subseteq EntryIds(mem)
  <2>1. CASE mem = <<>>
    <3> Len(mem) = 0 /\ DOMAIN mem = {}
      BY <2>1
    <3>1. 2 \in Nat \ {0} /\ 0 \in Nat /\ 0 <= Len(mem)
      OBVIOUS
    <3>2. rest \in Seq(MemoryEntries) /\ EntryIds(rest) \subseteq EntryIds(mem)
      BY Zenon, <3>1, SubEntries
    <3> QED
      BY ZenonT(60), <2>1, <3>2, EmptyEntries
  <2>2. CASE mem # <<>>
    <3>1. rest = Tail(mem)
      BY <2>2
    <3>2. J = {Head(mem).id}
      BY SMTT(60), <2>2
    <3> HIDE DEF J, rest
    <3> QED
      BY Zenon, <2>2, <3>1, <3>2, HeadOfMem
  <2> QED
    BY Zenon, <2>1, <2>2
<1> HIDE DEF e, rest, J
<1> /\ i \notin EntryIds(mem) /\ i \notin DOMAIN inflight /\ i \notin parked
  BY Zenon DEF Inv, PlaceInv, OnePlace, Placed, Callers
<1> EnqueuedId = {} /\ EnqueuedId' = {} /\ BootIds' = BootIds /\ op.mems = <<>>
  BY Zenon DEF EnqueuedId, BootIds, Idle, Start, Operation
<1> J \cap (MemoryInflight \cup retrying \cup parked) = {}
  BY Zenon DEF Inv, PlaceInv, OnePlace, Callers, MemoryInflight
<1>2. VolatileIds' = (VolatileIds \cup {i}) \ J
  <2>1. CASE mem' = Append(rest, e) /\ BroadcastExcept(i)
    <3>1. EntryIds(mem') = EntryIds(rest) \cup {i}
      BY <1>1, <2>1, AppendEntries
    <3> QED
      BY ZenonT(60), <2>1, <3>1, EmptyEntries DEF VolatileIds, Callers, MemoryInflight, BroadcastExcept
  <2>2. CASE mem' = rest /\ retrying' = retrying \cup {i} /\ UNCHANGED parked
    BY ZenonT(60), <2>2, EmptyEntries DEF VolatileIds, Callers, MemoryInflight
  <2> QED
    BY Zenon, <2>1, <2>2
<1>3. Spots' = Spots /\ Settled' = Settled \cup J /\ LogKept
  BY LogKeptBy DEF Spots, LiveRefs, DiskInflight, MemoryInflight, Settled, Inv, LogInv
<1>4. MemoryFlow({i}, J)
  BY Zenon, <1>2, <1>3 DEF MemoryFlow, Running, VolatileIds, Callers, bootVars
<1> QED
  BY Zenon, <1>4 DEF J

\* DequeueBatch moves an item to the inflight map.
LEMMA PullFlow ==
  ASSUME Inv, PullDisk \/ PullMemory
  PROVE  MemoryFlow({}, {})
<1> StoreInv /\ mem \in Seq(MemoryEntries) /\ diskRefs \in Seq(Refs)
  BY Zenon DEF Inv, PlaceInv, LogInv, QueueTypes
<1> /\ op.k = "dequeue" /\ Running
    /\ UNCHANGED <<storeVars, retrying, parked, arrived, acked, dropped, unrecorded, refused, flushFailed>>
  BY Zenon DEF PullDisk, PullMemory, Pulling, Doing, Running, bootVars, waitVars
<1> LogKept /\ Settled' = Settled
  BY Zenon, LogKeptBy DEF Settled
<1>1. CASE PullDisk
  <2> DEFINE e == Head(diskRefs)
  <2> /\ diskRefs # <<>> /\ diskRefs' = Tail(diskRefs) /\ inflight' = InflightWith(e) /\ mem' = mem
      /\ op' = [op EXCEPT !.ids = Append(@, e.id), !.flag = FALSE]
    BY Zenon, <1>1 DEF PullDisk
  <2> e.id \in Ids /\ e.id \in arrived /\ e.id \notin DOMAIN inflight /\ OnDisk(e)
    BY Zenon, HeadOfRefs DEF OnDisk
  <2>1. Range(diskRefs) = Range(diskRefs') \cup {e}
    <3>1. diskRefs # <<>>
      BY Zenon
    <3> QED
      BY Zenon, <3>1, TailEntries
  <2> HIDE DEF e
  <2> /\ op'.k = "dequeue" /\ op'.refs = <<>> /\ op'.mems = <<>> /\ op.refs = <<>> /\ op.mems = <<>>
      /\ EnqueuedId = {} /\ EnqueuedId' = {}
    BY Zenon, PulledOp
  <2> OutRefs' = OutRefs \cup {e} /\ MemoryInflight' = MemoryInflight
    BY Zenon, TakenOut
  <2>2. LiveRefs' = LiveRefs
    BY Zenon, <2>1, LiveRefsAre
  <2>3. Spots' = Spots /\ BootIds = {} /\ BootIds' = {}
    BY Zenon, <2>2 DEF Spots, BootIds
  <2>4. VolatileIds' = VolatileIds
    BY Zenon DEF VolatileIds, Callers
  <2> QED
    BY Zenon, <2>3, <2>4 DEF MemoryFlow
<1>2. CASE PullMemory
  <2> DEFINE e == Head(mem)
  <2> /\ mem # <<>> /\ diskRefs' = diskRefs /\ inflight' = InflightWith(e) /\ mem' = Tail(mem)
      /\ op' = [op EXCEPT !.ids = Append(@, e.id), !.flag = FALSE]
    BY Zenon, <1>2 DEF PullMemory
  <2> e.id \in Ids /\ e.id \in arrived /\ e.id \notin DOMAIN inflight /\ EntryIds(mem) = EntryIds(mem') \cup {e.id}
      /\ e \in MemoryEntries
    BY Zenon, HeadOfMem
  <2> HIDE DEF e
  <2>1. ~OnDisk(e)
    BY Zenon DEF OnDisk, MemoryEntries
  <2> /\ op'.k = "dequeue" /\ op'.refs = <<>> /\ op'.mems = <<>> /\ op.refs = <<>> /\ op.mems = <<>>
      /\ EnqueuedId = {} /\ EnqueuedId' = {}
    BY Zenon, PulledOp
  <2> OutRefs' = OutRefs /\ MemoryInflight' = MemoryInflight \cup {e.id}
    BY Zenon, <2>1, TakenOut
  <2>2. LiveRefs' = LiveRefs
    BY Zenon, LiveRefsAre
  <2>3. Spots' = Spots /\ BootIds = {} /\ BootIds' = {}
    BY Zenon, <2>2 DEF Spots, BootIds
  <2>4. VolatileIds' = VolatileIds
    BY Zenon DEF VolatileIds, Callers
  <2> QED
    BY Zenon, <2>3, <2>4 DEF MemoryFlow
<1> QED
  BY Zenon, <1>1, <1>2

\* readRefUnlocked drops a reference it cannot read.
LEMMA DropUnreadableFlow ==
  ASSUME Inv, DropUnreadable
  PROVE  SettleFlow(Head(diskRefs).id)
<1> DEFINE e == Head(diskRefs)
<1> /\ op.k = "dequeue" /\ diskRefs # <<>> /\ ~storeClosed /\ diskRefs' = Tail(diskRefs)
    /\ SettleDroppedRef(e.id) /\ dropped' = dropped \cup {e.id} /\ op' = [op EXCEPT !.flag = TRUE] /\ Running
    /\ UNCHANGED <<mem, inflight, retrying, parked, arrived, acked, unrecorded, refused, flushFailed>>
  BY Zenon DEF DropUnreadable, Pulling, Doing, Running, bootVars, waitVars
<1> diskRefs \in Seq(Refs) /\ op \in Ops /\ op.refs = <<>> /\ op.mems = <<>>
  BY Zenon DEF Inv, PlaceInv, QueueTypes, OpShape
<1>1. EntryIds(diskRefs) = EntryIds(diskRefs') \cup {e.id} /\ e.id \notin EntryIds(diskRefs')
      /\ e.id \notin DOMAIN inflight
  BY Zenon, HeadOfRefs
<1>2. Range(diskRefs) = Range(diskRefs') \cup {e}
  <2>1. diskRefs # <<>>
    BY Zenon
  <2> QED
    BY Zenon, <2>1, TailEntries
<1> op'.k = "dequeue" /\ op'.refs = <<>> /\ op'.mems = <<>>
  BY Zenon DEF Ops
<1> HIDE DEF e
<1> EnqueuedId = {} /\ EnqueuedId' = {} /\ BootIds = {} /\ BootIds' = {}
  BY Zenon DEF EnqueuedId, BootIds
<1>3. LiveRefs = LiveRefs' \cup {e}
  BY Zenon, <1>2 DEF LiveRefs, DiskInflight, MemoryInflight
<1>4. \A r \in LiveRefs' : r.id # e.id
  <2>1. \A r \in Range(diskRefs') : r.id \in EntryIds(diskRefs')
    BY Zenon DEF Range, EntryIds
  <2>2. \A i \in DOMAIN inflight : inflight[i].id = i
    BY Zenon DEF Inv, PlaceInv, QueueTypes
  <2> QED
    BY SMTT(60), <1>1, <2>1, <2>2, EmptyEntries DEF LiveRefs, DiskInflight, MemoryInflight
<1>5. Spots' = {s \in Spots : s[1] # e.id} /\ e.id \in LoggedIds
  BY Zenon, <1>3, <1>4, SpotsLess DEF LoggedIds
<1>6. VolatileIds' = VolatileIds /\ Settled' = Settled \cup {e.id}
  BY Zenon DEF VolatileIds, Callers, MemoryInflight, Settled
<1>7. SettleFlow(e.id)
  BY Zenon, <1>5, <1>6 DEF SettleFlow, SettleDroppedRef
<1> QED
  BY Zenon, <1>7 DEF e

\* DequeueBatch takes the lock, gives it back, or is called off: nothing moves.
LEMMA DequeueCalm ==
  ASSUME Inv, DequeueBatch \/ PullEnd \/ WaitCancelled
  PROVE  MemoryFlow({}, {})
<1> /\ (op = Idle \/ op.k = "dequeue") /\ UNCHANGED storeVars /\ Running
    /\ Broadcast \/ UNCHANGED waitVars \/ UNCHANGED <<retrying, parked>>
    /\ UNCHANGED <<mem, diskRefs, inflight, arrived, acked, dropped, unrecorded, refused, flushFailed>>
  BY Zenon DEF DequeueBatch, PullEnd, WaitCancelled, Free, Doing, Running, bootVars
<1>1. \/ op' = op
      \/ \E k, ids, kind, flag : k \notin {"enqueue", "boot"} /\ op' = Operation(k, ids, <<>>, kind, flag)
  <2>1. op' = op \/ \E flag : \/ op' = Operation("dequeue", <<>>, <<>>, "failed", flag)
                            \/ op' = Operation("compact", <<>>, <<>>, "failed", flag)
    BY Zenon DEF DequeueBatch, PullEnd, WaitCancelled, Start
  <2> QED
    BY Zenon, <2>1
<1>2. LogKept
  BY Zenon, LogKeptBy DEF Inv, LogInv
<1> QED
  BY Zenon, <1>1, <1>2, LockFlow

\* Every step of Enqueue and DequeueBatch is a flow, of the lock's holder.
LEMMA IntakeFlow ==
  ASSUME Inv, EnqueueStep \/ DequeueStep
  PROVE  ItemFlow
<1>1. ASSUME NEW i \in Ids, EnqueueMemory(i) \/ EnqueueSpilling(i) \/ EnqueueRefused(i) PROVE ItemFlow
  BY Zenon, <1>1, EnqueueMemoryFlow, EnqueueSpillingFlow, EnqueueRefusedFlow, FlowsAre
<1>2. ASSUME NEW i \in Ids, EnqueueDropOldest(i) PROVE ItemFlow
  <2>1. mem \in Seq(MemoryEntries)
    BY Zenon DEF Inv, PlaceInv, QueueTypes
  <2>2. \A k \in DOMAIN mem : mem[k] \in MemoryEntries
    BY <2>1
  <2>3. {mem[k].id : k \in DOMAIN mem \cap {1}} \in SUBSET Ids
    BY Zenon, <2>2 DEF MemoryEntries, Entries
  <2> QED
    BY Zenon, <1>2, <2>3, EnqueueDropOldestFlow, FlowsAre
<1>3. CASE EvictOldest
  <2>1. up /\ mem # <<>> /\ SpillFlow(Head(mem).id, Head(mem).att)
    BY Zenon, <1>3, HeadSpilledFlow DEF EvictOldest, Doing
  <2> QED
    BY Zenon, <2>1, MovingIds, FlowsAre
<1>4. CASE EvictFails \/ EnqueueAfterEviction
  <2>1. op.ids[1] \in Ids
    BY Zenon, <1>4, MovingIds DEF EvictFails, EnqueueAfterEviction, Doing
  <2> QED
    BY Zenon, <1>4, <2>1, EvictFailsFlow, EnqueueAfterEvictionFlow, FlowsAre
<1>5. CASE SpillEnqueue
  <2>1. op.ids[1] \in Ids /\ 0 \in Attempts
    BY Zenon, <1>5, MovingIds, AttemptsOK DEF SpillEnqueue, Doing
  <2> QED
    BY Zenon, <1>5, <2>1, SpillEnqueueFlow, FlowsAre
<1>6. CASE DropUnreadable
  <2>1. diskRefs # <<>>
    BY Zenon, <1>6 DEF DropUnreadable
  <2>2. Head(diskRefs).id \in Ids /\ SettleFlow(Head(diskRefs).id)
    BY Zenon, <1>6, <2>1, DropUnreadableFlow, HeadOfRefs
  <2> QED
    BY Zenon, <2>2, FlowsAre
<1>7. CASE DequeueStep /\ ~DropUnreadable
  BY Zenon, <1>7, DequeueCalm, PullFlow, FlowsAre DEF DequeueStep
<1> QED
  BY Zenon, <1>1, <1>2, <1>3, <1>4, <1>5, <1>6, <1>7 DEF EnqueueStep

-----------------------------------------------------------------------------
(***************************************************************************)
(* The waiting consumer and the closed store.                              *)
(***************************************************************************)

\* A step of Enqueue wakes the consumer when it makes an item available.
LEMMA EnqueueControl ==
  ASSUME Inv, ControlInv, EnqueueStep
  PROVE  ControlInv'
<1> USE FreshOp, WritesKeepClosed DEF ControlInv, Sleeping, Quiet, Free, Doing, waitVars, bootVars
<1>1. ASSUME NEW i, EnqueueMemory(i) PROVE ControlInv'
  BY SMTT(60), <1>1 DEF EnqueueMemory, BroadcastExcept
<1>2. ASSUME NEW i, EnqueueSpilling(i) PROVE ControlInv'
  BY SMTT(60), <1>2 DEF EnqueueSpilling
<1>3. ASSUME NEW i, EnqueueDropOldest(i) PROVE ControlInv'
  BY SMTT(60), <1>3 DEF EnqueueDropOldest, BroadcastExcept
<1>4. ASSUME NEW i, EnqueueRefused(i) PROVE ControlInv'
  BY SMTT(60), <1>4 DEF EnqueueRefused, BroadcastExcept
<1>5. CASE EvictOldest
  BY SMTT(60), <1>5 DEF EvictOldest
<1>6. CASE EvictFails
  BY SMTT(60), <1>6 DEF EvictFails, Return
<1>7. CASE EnqueueAfterEviction
  <2>1. op.k = "enqueue" /\ op'.k = "idle" /\ ~waiting' /\ storeClosed' = storeClosed
    BY ZenonT(60), <1>7 DEF EnqueueAfterEviction, Return, Broadcast
  <2> QED
    BY Zenon, <2>1
<1>8. CASE SpillEnqueue
  <2>1. up /\ op.k = "enqueue" /\ op'.k = "idle" /\ UNCHANGED <<mem, up>>
    BY Zenon, <1>8 DEF SpillEnqueue, Return
  <2>2. storeClosed' = storeClosed
    BY Zenon, <1>8 DEF SpillEnqueue
  <2>3. ~waiting' \/ UNCHANGED <<waiting, diskRefs>>
    BY Zenon, <1>8 DEF SpillEnqueue, Broadcast, SpillFails
  <2>4. ~storeClosed
    BY Zenon, <2>1
  <2>5. Sleeping' => Quiet'
    <3>1. SUFFICES ASSUME Sleeping' PROVE Quiet'
      BY Zenon
    <3>2. waiting'
      BY Zenon, <3>1, <2>1
    <3>3. UNCHANGED <<waiting, diskRefs>>
      BY Zenon, <3>2, <2>3
    <3>4. Quiet
      BY Zenon, <3>2, <3>3, <2>1
    <3> QED
      BY Zenon, <3>3, <3>4, <2>1, <2>2
  <2> QED
    BY ZenonT(60), <2>1, <2>2, <2>4, <2>5
<1> QED
  BY Zenon, <1>1, <1>2, <1>3, <1>4, <1>5, <1>6, <1>7, <1>8 DEF EnqueueStep

\* DequeueBatch parks only when it found nothing.
LEMMA DequeueControl ==
  ASSUME Inv, ControlInv, DequeueStep
  PROVE  ControlInv'
<1> USE FreshOp, WritesKeepClosed DEF ControlInv, Sleeping, Quiet, Free, Doing, waitVars, bootVars
<1> op \in Ops /\ op.flag \in BOOLEAN /\ waiting \in BOOLEAN
  BY Zenon DEF Inv, PlaceInv, QueueTypes, Ops
<1>1. CASE DequeueBatch
  BY <1>1 DEF DequeueBatch
<1>2. CASE PullDisk \/ PullMemory \/ DropUnreadable
  <2> /\ op.k = "dequeue" /\ UNCHANGED <<closed, waiting, up>>
      /\ (diskRefs = <<>> /\ mem # <<>>) \/ (diskRefs # <<>> /\ ~storeClosed /\ mem' = mem)
    BY Zenon, <1>2 DEF PullDisk, PullMemory, DropUnreadable, Pulling
  <2>1. storeClosed' = storeClosed
    BY Zenon, <1>2 DEF PullDisk, PullMemory, DropUnreadable
  <2>2. op'.k = "dequeue"
    <3>1. CASE DropUnreadable
      <4>1. op' = [op EXCEPT !.flag = TRUE]
        BY Zenon, <3>1 DEF DropUnreadable
      <4> QED
        BY Zenon, <4>1 DEF Ops
    <3>2. CASE PullDisk \/ PullMemory
      <4>1. PICK x : op' = [op EXCEPT !.ids = x, !.flag = FALSE]
        BY Zenon, <3>2 DEF PullDisk, PullMemory
      <4> QED
        BY Zenon, <4>1 DEF Ops
    <3> QED
      BY Zenon, <1>2, <3>1, <3>2
  <2> QED
    BY Zenon, <2>1, <2>2
<1>3. CASE PullEnd
  <2> /\ op.k = "dequeue" /\ op'.k = "compact" /\ op'.flag = (op.ids = <<>>)
      /\ UNCHANGED <<mem, diskRefs, storeVars, closed, waiting, up>>
    BY <1>3 DEF PullEnd
  <2>1. op'.flag => Quiet
    BY ZenonT(60), <1>3, QueueAssumption DEF PullEnd
  <2> QED
    BY SMTT(60), <2>1
<1>4. CASE WaitCancelled
  BY <1>4 DEF WaitCancelled, Broadcast
<1> QED
  BY Zenon, <1>1, <1>2, <1>3, <1>4 DEF DequeueStep

\* Only a call that holds the lock moves.
LEMMA IntakeHolder ==
  ASSUME EnqueueStep \/ DequeueStep
  PROVE  up /\ op.k \in {"idle", "enqueue", "dequeue"}
<1>1. ASSUME EnqueueStep PROVE up /\ (op = Idle \/ op.k = "enqueue")
  BY Zenon, <1>1 DEF EnqueueStep, EnqueueMemory, EnqueueSpilling, EnqueueDropOldest, EnqueueRefused, EvictOldest,
     EvictFails, EnqueueAfterEviction, SpillEnqueue, Free, Doing
<1>2. ASSUME DequeueStep PROVE up /\ (op = Idle \/ op.k = "dequeue")
  BY Zenon, <1>2 DEF DequeueStep, DequeueBatch, PullDisk, DropUnreadable, PullMemory, PullEnd, WaitCancelled,
     Pulling, Free, Doing
<1> QED
  BY Zenon, <1>1, <1>2, FreshOp
=============================================================================
