------------------------ MODULE BufferedQueueProofs -------------------------
(***************************************************************************)
(* The theorems about the queue, for every capacity, every fault and every *)
(* number of restarts.  The steps are in the modules this one extends;     *)
(* here they are put together.                                             *)
(***************************************************************************)
EXTENDS BufferedQueue, QueueIntakeProofs, QueueReturnProofs, QueueLifeProofs, QueueLogProofs, FiniteSetTheorems

\* refreshTotalBytes yields a number.
LEMMA TotalBytesNat ==
  ASSUME NEW fs, FilesOK(fs)
  PROVE  TotalBytes(fs) \in Nat
<1> DEFINE Cells(n) == {n} \X (1..Len(fs[n].recs))
           All == {Cells(n) : n \in DOMAIN fs}
           f == [n \in DOMAIN fs |-> Cells(n)]
<1>1. \A n \in DOMAIN fs : IsFiniteSet(Cells(n))
  <2> TAKE n \in DOMAIN fs
  <2>1. Len(fs[n].recs) \in Nat
    BY DEF FilesOK, Segments
  <2>2. IsFiniteSet(1..Len(fs[n].recs))
    BY SMTT(60), <2>1, FS_Interval
  <2>3. IsFiniteSet({n})
    BY Zenon, FS_Singleton
  <2> QED
    BY Zenon, <2>2, <2>3, FS_Product
<1> HIDE DEF Cells
<1>2. f \in Surjection(DOMAIN fs, All)
  BY Zenon DEF Surjection
<1>3. IsFiniteSet(All)
  BY Zenon, <1>2, FS_Surjection DEF FilesOK
<1>4. \A T \in All : IsFiniteSet(T)
  BY Zenon, <1>1
<1>5. IsFiniteSet(UNION All)
  BY Zenon, <1>3, <1>4, FS_UNION
<1> QED
  BY Zenon, <1>5, FS_CardinalityType DEF TotalBytes, Cells

\* The facts about finite sets that the invariant carries along.
LEMMA CountingHolds == Counting
<1>1. /\ IsFiniteSet({}) /\ Cardinality({}) = 0
      /\ \A S, T : IsFiniteSet(T) /\ S \subseteq T => IsFiniteSet(S)
  BY Zenon, FS_EmptySet, FS_Subset
<1>2. ASSUME NEW S, NEW x, IsFiniteSet(S)
      PROVE  /\ Cardinality(S) \in Nat /\ (Cardinality(S) = 0 => S = {})
             /\ IsFiniteSet(S \cup {x}) /\ (x \notin S => Cardinality(S \cup {x}) = Cardinality(S) + 1)
             /\ IsFiniteSet(S \ {x}) /\ (x \in S => Cardinality(S \ {x}) = Cardinality(S) - 1)
  BY Zenon, <1>2, FS_EmptySet, FS_CardinalityType, FS_AddElement, FS_RemoveElement
<1> QED
  BY Zenon, <1>1, <1>2, TotalBytesNat DEF Counting

-----------------------------------------------------------------------------
(***************************************************************************)
(* The first state, a stuttering step, and every step of the queue.        *)
(***************************************************************************)

\* Every step of the queue keeps the invariant.
LEMMA NextInv ==
  ASSUME Inv, [Next]_vars
  PROVE  Inv'
  BY ZenonT(60), IntakeInv, ReturnInv, LifeInv, StutterInv DEF Next

\* ControlInv is inductive.
LEMMA ControlInit ==
  ASSUME Init
  PROVE  ControlInv
  BY ZenonT(60), FreshOp DEF Init, ControlInv, Sleeping

LEMMA ControlNext ==
  ASSUME Inv, ControlInv, [Next]_vars
  PROVE  ControlInv'
<1>1. CASE UNCHANGED vars
  BY Zenon, <1>1 DEF ControlInv, Sleeping, Quiet, vars, storeVars, waitVars, bootVars
<1> QED
  BY Zenon, <1>1, EnqueueControl, DequeueControl, SettleControl, CompactControl, CloseControl DEF Next

\* While a nack that charges nothing runs, nothing is retired.
LEMMA UnchargedStep ==
  ASSUME ~Cuts, Inv, Next, Settling("nack"), op.kind = "uncharged"
  PROVE  UNCHANGED <<dropped, unrecorded>>
<1> op.k = "nack" /\ up
  BY Zenon DEF Settling, Doing
<1>1. ~(EnqueueStep \/ DequeueStep \/ CloseStep)
  BY Zenon, IntakeHolder, CloseHolder
<1>2. ~CompactStep
  BY Zenon DEF CompactStep, CompactRemove, CompactEnd, Doing
<1>3. CASE Crash
  BY Zenon, <1>3 DEF Crash
<1>4. ~(New \/ NewCrash \/ BootSettle)
  BY Zenon DEF New, NewCrash, BootSettle, Settling, Doing
<1> QED
  BY ZenonT(60), <1>1, <1>2, <1>3, <1>4, UnchargedNackStep DEF Next, LifeStep

\* Every step is one of the flows, and only New finds something to boot.
LEMMA StepFlow ==
  ASSUME Inv, ControlInv, BootShape, Next
  PROVE  Flow /\ (New \/ BootShape')
<1>1. CASE EnqueueStep \/ DequeueStep \/ SettleStep \/ CompactStep \/ CloseStep
  <2>1. ItemFlow
    BY ZenonT(60), <1>1, IntakeFlow, ReturnFlow, CloseFlow
  <2>2. op.k # "boot"
    BY Zenon, <1>1, IntakeHolder, ReturnHolder, CloseHolder
  <2> QED
    BY Zenon, <2>1, <2>2, NoBoot DEF Flow
<1>2. CASE BootSettle
  BY Zenon, <1>2, BootSettleFlow, FlowsAre DEF Flow
<1>3. CASE Crash \/ NewCrash
  <2>1. op' = Idle
    BY ZenonT(60), <1>3 DEF Crash, NewCrash, Inv, PlaceInv, OpShape
  <2> QED
    BY ZenonT(60), <1>3, <2>1, FreshOp DEF Flow, BootShape, BootIds
<1>4. CASE New
  BY ZenonT(60), <1>4 DEF Flow
<1> QED
  BY SMTT(60), <1>1, <1>2, <1>3, <1>4 DEF Next, LifeStep

\* What the sound log says about a reference,
LEMMA SoundRefs ==
  ASSUME SoundInv, SoundDisk
  PROVE  RefsIntact
<1> SUFFICES ASSUME NEW r \in LiveRefs PROVE Intact(r)
  BY Zenon DEF RefsIntact
<1>1. ItemAt(files, Spot(r)[1], Spot(r)[2], Spot(r)[3])
  BY Zenon DEF SoundInv, SoundLog, RefsFit, Spots
<1>2. Spot(r)[1] = r.id /\ Spot(r)[2] = r.seg /\ Spot(r)[3] = r.pos
  BY ZenonT(60) DEF Spot
<1>3. ItemAt(files, r.id, r.seg, r.pos)
  BY Zenon, <1>1, <1>2
<1> QED
  BY Zenon, <1>3 DEF ItemAt, Cell, Intact, Readable, ReadsAsItem, RecordAt

\* about what is settled,
LEMMA SoundSettled ==
  ASSUME Inv, SoundInv, SoundDisk
  PROVE  SettledStaysSettled
<1> /\ Clean(files) /\ Ordered(files) /\ (up => LoggedIds = Outstanding(files))
    /\ Settled \cap (VolatileIds \cup Outstanding(files)) = {}
  BY Zenon DEF SoundInv, SoundLog, RefsFit, Ended
<1>1. PendingIds = Outstanding(files)
  <2>1. Legible(files) /\ FilesOK(files)
    BY ZenonT(60), StoreInvFiles DEF Clean, Legible, Inv, LogInv, StoreInv
  <2> QED
    BY ZenonT(60), <2>1, ReplayFinds
<1> QED
  BY ZenonT(60), <1>1, DeadHolds DEF SettledStaysSettled, HeldIds

\* and about what arrived.
LEMMA NoneLost ==
  ASSUME Inv, SoundInv, AccountInv, OneTear
  PROVE  NoSilentLoss
<1> SUFFICES ASSUME ~flushFailed, faults = 0 \/ crashes = 0
             PROVE  arrived \subseteq HeldIds \cup Settled \cup lost \cup (IF up THEN {} ELSE PendingIds)
  BY Zenon DEF NoSilentLoss
<1>1. arrived \subseteq VolatileIds \cup LoggedIds \cup Settled \cup lost
                          \cup (IF up THEN {} ELSE Outstanding(files))
  BY Zenon DEF AccountInv, Accounted
<1>2. ASSUME ~up PROVE PendingIds = Outstanding(files)
  <2>1. faults = 0
    BY ZenonT(60), <1>2 DEF SoundInv, Basics
  <2>2. Legible(files) /\ Ordered(files)
    BY SMTT(60), <1>2, <2>1 DEF AccountInv
  <2>3. FilesOK(files)
    BY ZenonT(60), StoreInvFiles DEF Inv, LogInv, StoreInv
  <2> QED
    BY ZenonT(60), <2>2, <2>3, ReplayFinds
<1> QED
  BY Zenon, <1>1, <1>2 DEF HeldIds

-----------------------------------------------------------------------------
(***************************************************************************)
(* The theorems.                                                           *)
(***************************************************************************)

\* The inductive invariant holds in every reachable state, whatever the
\* capacities, the number of items, the I/O failures and the crashes.
THEOREM Invariance == Spec => []Inv
<1>1. Init => Inv
  BY ZenonT(60), InitInv, CountingHolds
<1>2. Inv /\ [Next]_vars => Inv'
  BY Zenon, NextInv
<1> QED
  BY <1>1, <1>2, PTL DEF Spec

\* Type correctness of the queue and of its log.
THEOREM TypeCorrectness == Spec => []TypeOK
<1>1. Inv => TypeOK
  BY Zenon DEF Inv, PlaceInv, LogInv, QueueTypes, StoreInv, ClaimsOK, TypeOK
<1> QED
  BY <1>1, Invariance, PTL

\* The claim counts are exact and no claim is released twice.
THEOREM ClaimsAreExact == Spec => []ClaimsExact
<1>1. Inv => ClaimsExact
  BY ZenonT(60), ClaimsExactIsCounts DEF Inv, LogInv
<1> QED
  BY <1>1, Invariance, PTL

\* No segment that a live reference needs, and not the active one, is ever
\* missing from the directory.
THEOREM ReferencesAreBacked == Spec => []RefsBacked
<1>1. Inv => RefsBacked
  BY ZenonT(60), LiveRefHeld DEF Inv, LogInv, Backed, RefsBacked
<1> QED
  BY <1>1, Invariance, PTL

\* No item is ever in two places of one process.
THEOREM ItemsHaveOnePlace == Spec => []OnePlace
<1>1. Inv => OnePlace
  BY Zenon DEF Inv, PlaceInv
<1> QED
  BY <1>1, Invariance, PTL

\* ControlInv holds in every reachable state.
THEOREM ControlInvariance == Spec => []ControlInv
<1>1. Init => ControlInv
  BY Zenon, ControlInit
<1>2. Inv /\ ControlInv /\ [Next]_vars => ControlInv'
  BY ZenonT(60), ControlNext
<1> QED
  BY <1>1, <1>2, Invariance, PTL DEF Spec

\* A parked consumer has nothing to dequeue: no operation that makes an item
\* available forgets to broadcast.
THEOREM NoWakeupIsLost == Spec => []NoLostWakeup
<1>1. ControlInv => NoLostWakeup
  BY ZenonT(60), FreshOp DEF ControlInv, Sleeping, Quiet, NoLostWakeup
<1> QED
  BY <1>1, ControlInvariance, PTL

\* What a run over a sound disk checks of the accounts holds over any disk.
THEOREM QueueIsSound == Spec => []QueueSound
<1>1. ClaimsExact /\ OnePlace /\ NoLostWakeup => QueueSound
  BY Zenon DEF QueueSound
<1> QED
  BY <1>1, ClaimsAreExact, ItemsHaveOnePlace, NoWakeupIsLost, PTL

\* A nack that charges no attempt never retires an item, however many failed
\* deliveries, requeues, spills, failed writes and restarts went before it, as
\* long as none of them can cut an append inside a payload (the count that is
\* recovered for such a record is foreign bytes).
THEOREM UnchargedNacksRetireNothing ==
  ASSUME ~Cuts
  PROVE  Spec => UnchargedNackRetiresNothing
<1> DEFINE Harmless == Settling("nack") /\ op.kind = "uncharged" => UNCHANGED <<dropped, unrecorded>>
<1>1. ASSUME Inv, [Next]_vars PROVE [Harmless]_vars
  BY Zenon, <1>1, UnchargedStep
<1> HIDE DEF Harmless
<1>2. Spec => [][Harmless]_vars
  BY <1>1, Invariance, PTL DEF Spec
<1> QED
  BY ZenonT(60), <1>2 DEF UnchargedNackRetiresNothing, Harmless

\* The log agrees with the queue as long as the disk is sound.
THEOREM SoundInvariance == Spec => []SoundInv
<1>1. Init => SoundInv
  BY SMTT(60), SoundInit
<1>2. Inv /\ ControlInv /\ SoundInv /\ [Next]_vars => SoundInv'
  <2>1. ASSUME Inv, ControlInv, SoundInv, Next PROVE SoundInv'
    <3>1. Flow /\ (New \/ BootShape')
      BY ZenonT(60), <2>1, StepFlow DEF SoundInv
    <3> QED
      BY Zenon, <2>1, <3>1, SoundStep
  <2> QED
    BY Zenon, <2>1, SoundStutter
<1> QED
  BY <1>1, <1>2, Invariance, ControlInvariance, PTL DEF Spec

\* Compaction is prefix-only, and nothing else removes a segment.
THEOREM CompactionIsPrefixOnly == Spec => PrefixOnly
<1> DEFINE Removal == \A n \in DOMAIN files \ DOMAIN files' :
                        /\ \A m \in DOMAIN files : n <= m
                        /\ n < segmentNum
                        /\ \A r \in LiveRefs : r.seg > n
<1>1. ASSUME Inv, ControlInv, SoundInv, [Next]_vars PROVE [Removal]_vars
  <2>1. ASSUME Next PROVE Removal
    <3>1. Flow
      BY ZenonT(60), <1>1, <2>1, StepFlow DEF SoundInv
    <3> QED
      BY ZenonT(60), <1>1, <3>1, RemovalStep
  <2> QED
    BY ZenonT(60), <1>1, <2>1
<1> HIDE DEF Removal
<1>2. Spec => [][Removal]_vars
  BY <1>1, Invariance, ControlInvariance, SoundInvariance, PTL DEF Spec
<1> QED
  BY Zenon, <1>2 DEF PrefixOnly, Removal

\* A reference locates the record of its own item as long as the disk is
\* sound: no dequeue and no nack finds an unreadable record.
THEOREM ReferencesStayIntact == Spec => [](SoundDisk => RefsIntact)
<1>1. SoundInv => (SoundDisk => RefsIntact)
  BY Zenon, SoundRefs
<1> QED
  BY <1>1, SoundInvariance, PTL

\* What was acked, dropped, retired or refused does not come back, in this
\* process or after any number of restarts, as long as the disk is sound: an
\* ack record goes only together with the item it settles.
THEOREM SettledIsFinal == Spec => [](SoundDisk => SettledStaysSettled)
<1>1. Inv /\ SoundInv => (SoundDisk => SettledStaysSettled)
  BY ZenonT(60), SoundSettled
<1> QED
  BY <1>1, Invariance, SoundInvariance, PTL

\* What arrived is somewhere, through the first torn record.
THEOREM AccountInvariance == Spec => []AccountInv
<1>1. Init => AccountInv
  BY AccountInit
<1>2. Inv /\ ControlInv /\ SoundInv /\ AccountInv /\ [Next]_vars => AccountInv'
  <2>1. ASSUME Inv, ControlInv, SoundInv, AccountInv, Next PROVE AccountInv'
    <3>1. Flow
      BY ZenonT(60), <2>1, StepFlow DEF SoundInv
    <3> QED
      BY Zenon, <2>1, <3>1, AccountStep
  <2> QED
    BY Zenon, <2>1, AccountStutter
<1> QED
  BY <1>1, <1>2, Invariance, ControlInvariance, SoundInvariance, PTL DEF Spec

\* Nothing that was handed to Enqueue disappears without being counted, for
\* any number of crashes when a crash falls between two writes (or there is no
\* log), and through the first crash when it may tear a record.
THEOREM NothingIsLostSilently == Spec => [](OneTear => NoSilentLoss)
<1>1. Inv /\ SoundInv /\ AccountInv => (OneTear => NoSilentLoss)
  BY ZenonT(60), NoneLost
<1> QED
  BY <1>1, Invariance, SoundInvariance, AccountInvariance, PTL

\* A queue without a disk accounts for every item through any number of
\* restarts, and nobody sleeps through a wakeup.
THEOREM MemoryOnlyIsSound == Spec => [](~Spill => MemoryOnlySound)
<1>1. (OneTear => NoSilentLoss) /\ NoLostWakeup => (~Spill => MemoryOnlySound)
  BY Zenon DEF OneTear, MemoryOnlySound
<1> QED
  BY <1>1, NothingIsLostSilently, NoWakeupIsLost, PTL

\* The queue implements ItemCustody as long as the disk is sound and Close
\* abandons nothing: what reached the log is in the log until it is settled,
\* through any number of restarts, the death of a process takes what was only
\* in memory and nothing else, and settled is final.
THEOREM QueueImplementsCustody == Spec /\ [](SoundDisk /\ ~flushFailed) => ImplementsCustody
<1> DEFINE Whole == Inv /\ ControlInv /\ SoundInv /\ Apart /\ SoundDisk /\ flushFailed = FALSE
<1>1. Inv /\ ControlInv /\ SoundInv /\ AccountInv /\ SoundDisk /\ ~flushFailed => Whole
  <2>1. Inv => flushFailed \in BOOLEAN
    BY Zenon DEF Inv, PlaceInv, QueueTypes
  <2> QED
    BY ZenonT(60), <2>1, ItemsApart
<1>2. Init /\ Whole => Custody!Init
  BY ZenonT(60), CustodyInit
<1>3. Whole /\ Whole' /\ [Next]_vars => [Custody!Next]_<<CustodyOfIds, up>>
  <2>1. ASSUME Whole, Whole', Next PROVE Custody!Next
    <3>1. Flow
      BY Zenon, <2>1, StepFlow DEF SoundInv
    <3> QED
      BY ZenonT(60), <2>1, <3>1, CustodyStep
  <2>2. ASSUME Whole, Whole', UNCHANGED vars PROVE UNCHANGED <<CustodyOfIds, up>>
    BY ZenonT(60), <2>2, CustodyStutter
  <2> QED
    BY ZenonT(60), <2>1, <2>2
<1> HIDE DEF Whole
<1> QED
  BY <1>1, <1>2, <1>3, Invariance, ControlInvariance, SoundInvariance, AccountInvariance, PTL
     DEF Spec, ImplementsCustody, Custody!Spec
=============================================================================
