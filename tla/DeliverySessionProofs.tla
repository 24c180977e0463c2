----------------------- MODULE DeliverySessionProofs -----------------------
(***************************************************************************)
(* The session's safety properties for every set of items, batch size,     *)
(* attempt cap, channel capacity and any number of failures.               *)
(***************************************************************************)
EXTENDS DeliverySession, FiniteSetTheorems, SequenceTheorems, TLAPS

\* An item is queued, inflight or settled, and only a settled one is past the cap.
Places ==
  /\ queued \cap inflight = {} /\ (queued \cup inflight) \cap Settled = {}
  /\ \A i \in Ids : attempts[i] > MaxAttempts => i \in Settled

\* What drainBufferedQueue holds at each point.
Shape ==
  /\ run # "up" => drain.pc = "off"
  /\ drain.pc \in {"top", "room", "dequeue", "off"} => Held = {}
  /\ drain.pc \in {"failed", "settle", "redeliver", "discard"} => drain.todo = {}
  /\ drain.pc \in {"send", "settle", "redeliver", "discard"} => drain.bad = {}
  /\ drain.pc \notin {"top", "off"} => drain.want # 0
  /\ drain.pc = "settle" => drain.tries < maxAckAttempts
  /\ drain.pc \in {"top", "room", "dequeue", "send", "untried", "failed"} => drain.tries = 0

\* Without delivery acks only the batch at hand is inflight.
Stranding ==
  /\ NothingStranded
  /\ run = "up" /\ ~deliveryAcks =>
        /\ inflight \subseteq Held
        /\ drain.pc = "discard" => inflight \subseteq drain.terminal

\* The drain dequeues only into a window with room for a whole batch.
Window ==
  /\ WindowBounded
  /\ drain.pc = "dequeue" => Cardinality(inflight) <= drain.want

\* Every ack on its way is for a published item, and what the drain is about to
\* settle it has judged or sent.
Evidence ==
  /\ AtLeastOnce
  /\ acks \subseteq published
  /\ \A k \in 1..Len(ackCh) : ackCh[k] \subseteq published
  /\ drain.terminal \subseteq judged
  /\ run = "up" /\ ~deliveryAcks => drain.sent \subseteq onSend

\* Between sessions, consecutive stalls are remembered by the flag.
Ladder == LadderClimbs /\ (run # "up" /\ ~stalled => stalls = 0)

Inv == TypeOK /\ Places /\ Shape /\ Stranding /\ Window /\ Evidence /\ Ladder

-----------------------------------------------------------------------------
(* What the queue's operations do.                                         *)

QueueTypes ==
  /\ queued \subseteq Ids /\ inflight \subseteq Ids
  /\ attempts \in [Ids -> 0..(MaxAttempts + 1)]
  /\ acked \subseteq Ids /\ dropped \subseteq Ids /\ unrecorded \subseteq Ids /\ discarded \subseteq Ids

\* What the queue never takes back.
Kept ==
  /\ QueueTypes' /\ Places'
  /\ Settled \subseteq Settled' /\ discarded \subseteq discarded'
  /\ \A i \in Ids : attempts'[i] >= attempts[i]

\* The effect every settling operation has on the places of items.
Settles(ids) == Kept /\ inflight' = inflight \ ids

\* Ack retires what it finds inflight and moves nothing else.
LEMMA AckStep ==
  ASSUME QueueTypes, Places, NEW ids, AckIds(ids)
  PROVE  Settles(ids) /\ Settled' \subseteq Settled \cup ids /\ acked' \subseteq acked \cup ids
<1>1. /\ QueueTypes' /\ attempts' = attempts /\ inflight' = inflight \ ids
      /\ discarded' = discarded /\ acked' \subseteq acked \cup ids
  BY Zenon DEF AckIds, QueueTypes
<1>2. Settled' = Settled \cup (inflight \cap ids)
  BY Zenon DEF AckIds, Settled
<1>3. Places'
  BY Zenon, <1>1, <1>2 DEF AckIds, Places
<1> QED
  BY <1>1, <1>2, <1>3 DEF Settles, Kept, QueueTypes

\* Drop does the same, under another name in the history.
LEMMA DropStep ==
  ASSUME QueueTypes, Places, NEW ids, DropIds(ids)
  PROVE  Settles(ids) /\ Settled' \subseteq Settled \cup ids /\ acked' = acked
<1>1. /\ QueueTypes' /\ attempts' = attempts /\ inflight' = inflight \ ids
      /\ discarded' = discarded /\ acked' = acked
  BY Zenon DEF DropIds, QueueTypes
<1>2. Settled' = Settled \cup (inflight \cap ids)
  BY Zenon DEF DropIds, Settled
<1>3. Places'
  BY <1>1, <1>2 DEF DropIds, Places
<1> QED
  BY <1>1, <1>2, <1>3 DEF Settles, Kept, QueueTypes

\* The nacks requeue what they find inflight, but for what is past the cap and
\* what has no room.
LEMMA NackStep ==
  ASSUME QueueTypes, Places, NEW ids, NEW kind, NackIds(ids, kind)
  PROVE  Settles(ids) /\ acked' = acked /\ \A i \in Settled' \ Settled : attempts'[i] > MaxAttempts \/ i \in discarded'
<1> DEFINE hit == inflight \cap ids
           charged == IF kind \in {"failed", "delivered"} THEN hit ELSE {}
           over == {i \in charged : attempts[i] >= MaxAttempts}
<1>0. PICK kept \in SUBSET (hit \ over) :
      /\ inflight' = inflight \ ids /\ queued' = queued \cup kept
      /\ attempts' = [i \in Ids |-> attempts[i] + (IF i \in charged THEN 1 ELSE 0)]
      /\ acked' = acked
      /\ dropped' = dropped \cup (IF kind = "delivered" THEN {} ELSE over) \cup ((hit \ over) \ kept)
      /\ discarded' = discarded \cup ((hit \ over) \ kept)
      /\ unrecorded' = unrecorded \cup (IF kind = "delivered" THEN over ELSE {})
  BY Zenon DEF NackIds
<1> DEFINE none == (hit \ over) \ kept
<1>1. /\ inflight' = inflight \ ids /\ queued' = queued \cup kept /\ acked' = acked
      /\ attempts' = [i \in Ids |-> attempts[i] + (IF i \in charged THEN 1 ELSE 0)]
      /\ discarded' = discarded \cup none /\ kept \subseteq hit \ over /\ none \subseteq hit \ over
      /\ dropped' \cup unrecorded' = dropped \cup unrecorded \cup over \cup none /\ kept \cap none = {}
  BY Zenon, <1>0
<1>2. Settled' = Settled \cup over \cup none
  BY Zenon, <1>1 DEF Settled
<1>3. over \subseteq charged /\ charged \subseteq hit /\ hit \subseteq Ids
  BY Zenon DEF QueueTypes
<1>4. \A i \in Ids : i \in charged => attempts[i] \in 0..MaxAttempts
  BY <1>3, SessionAssumption DEF QueueTypes, Places
<1>5. \A i \in Ids : /\ attempts'[i] \in 0..(MaxAttempts + 1) /\ attempts'[i] >= attempts[i]
                     /\ attempts'[i] > MaxAttempts => attempts[i] > MaxAttempts \/ i \in over
                     /\ i \in over => attempts'[i] > MaxAttempts
  <2> HIDE DEF charged
  <2> QED BY <1>1, <1>4, SessionAssumption DEF QueueTypes
<1> HIDE DEF hit, charged, over, none
<1>6. QueueTypes'
  BY Zenon, <1>0, <1>1, <1>3, <1>5 DEF QueueTypes
<1>7. Places'
  BY Zenon, <1>1, <1>2, <1>3, <1>5 DEF Places, hit
<1> QED
  BY Zenon, <1>1, <1>2, <1>3, <1>5, <1>6, <1>7 DEF Settles, Kept

-----------------------------------------------------------------------------
(* Each action preserves the invariant.                                    *)

\* What drain and ackCh range over.
Drains ==
  [pc : DrainPoints, want : 0..MaxBatch, todo : SUBSET Ids, bad : SUBSET Ids, sent : SUBSET Ids,
   terminal : SUBSET Ids, tries : 0..maxAckAttempts, leaving : BOOLEAN]
AckChans == {c \in Seq(SUBSET Ids) : Len(c) <= AckCap}

RestTypes ==
  /\ run \in {"dial", "up", "done"}
  /\ attempt \in 0..MaxRung /\ stalled \in BOOLEAN
  /\ sessionErr \in {"none", "stalled"}
  /\ cancelled \in BOOLEAN /\ deliveryAcks \in BOOLEAN
  /\ batchSize \in 1..MaxBatch
  /\ drain \in Drains /\ sweep \subseteq Ids /\ ackCh \in AckChans
  /\ cut \in BOOLEAN /\ wire \subseteq Ids /\ acks \subseteq Ids
  /\ published \subseteq Ids
  /\ judged \subseteq Ids /\ onSend \subseteq Ids /\ stalls \in 0..MaxRung
  /\ ctxDone \in BOOLEAN /\ cuts \in 0..MaxCuts /\ errors \in 0..MaxErrors

\* The type invariant in two parts: what the queue owns, and the rest.
LEMMA TypesSplit == TypeOK <=> QueueTypes /\ RestTypes
  BY Zenon DEF TypeOK, QueueTypes, RestTypes, Drains, AckChans

\* The same after a step: the two parts give the type invariant of the next state.
LEMMA TypesJoin ==
  ASSUME QueueTypes', RestTypes'
  PROVE  TypeOK'
<1> USE DEF Drains, AckChans
<1>1. drain' \in Drains /\ ackCh' \in AckChans
  BY Zenon DEF RestTypes
<1> QED
  BY Zenon, <1>1 DEF TypeOK, QueueTypes, RestTypes

\* What the drain holds, and that it may be put to rest.
LEMMA DrainTyped ==
  ASSUME Inv
  PROVE  drain \in Drains /\ drain.want \in Nat /\ \A p \in DrainPoints : Idle(p) \in Drains
<1>1. drain \in Drains
  BY Zenon, TypesSplit DEF Inv, RestTypes
<1>2. drain.want \in Nat
  BY <1>1, SessionAssumption DEF Drains
<1>3. 0 \in 0..MaxBatch /\ 0 \in 0..maxAckAttempts /\ {} \in SUBSET Ids /\ FALSE \in BOOLEAN
  BY SessionAssumption DEF maxAckAttempts
<1>4. \A p \in DrainPoints : Idle(p) \in Drains
  BY Zenon, <1>3 DEF Drains, Idle
<1> QED
  BY Zenon, <1>1, <1>2, <1>4

\* The channel to the settle worker, when something is put in or taken out.
LEMMA AcksTyped ==
  ASSUME Inv
  PROVE  /\ \A ids \in SUBSET Ids : Len(ackCh) < AckCap => Append(ackCh, ids) \in AckChans
         /\ ackCh # <<>> => /\ Tail(ackCh) \in AckChans
                            /\ 1 \in 1..Len(ackCh) /\ Head(ackCh) = ackCh[1]
                            /\ \A k \in 1..Len(Tail(ackCh)) : Tail(ackCh)[k] = ackCh[k + 1] /\ k + 1 \in 1..Len(ackCh)
<1>1. ackCh \in Seq(SUBSET Ids) /\ Len(ackCh) <= AckCap /\ AckCap \in Nat
  BY Zenon, TypesSplit, SessionAssumption DEF Inv, RestTypes, AckChans
<1>2. ASSUME NEW ids \in SUBSET Ids, Len(ackCh) < AckCap PROVE Append(ackCh, ids) \in AckChans
  <2>1. Append(ackCh, ids) \in Seq(SUBSET Ids) /\ Len(Append(ackCh, ids)) = Len(ackCh) + 1 /\ Len(ackCh) \in Nat
    BY <1>1
  <2> QED
    BY <1>1, <1>2, <2>1 DEF AckChans
<1>3. ASSUME ackCh # <<>>
      PROVE  /\ Tail(ackCh) \in Seq(SUBSET Ids) /\ Len(ackCh) \in Nat \ {0} /\ Len(Tail(ackCh)) = Len(ackCh) - 1
             /\ Head(ackCh) = ackCh[1] /\ \A k \in 1..Len(Tail(ackCh)) : Tail(ackCh)[k] = ackCh[k + 1]
  BY <1>1, <1>3
<1>4. ASSUME ackCh # <<>>
      PROVE  Tail(ackCh) \in AckChans /\ 1 \in 1..Len(ackCh) /\ \A k \in 1..Len(Tail(ackCh)) : k + 1 \in 1..Len(ackCh)
  BY <1>1, <1>3, <1>4 DEF AckChans
<1> QED
  BY Zenon, <1>2, <1>3, <1>4

\* Fewer items inflight are no more in number.
LEMMA Fewer ==
  ASSUME QueueTypes
  PROVE  /\ Cardinality(inflight) \in Nat
         /\ inflight' \subseteq inflight => /\ Cardinality(inflight') \in Nat
                                         /\ Cardinality(inflight') <= Cardinality(inflight)
<1>1. IsFiniteSet(inflight)
  BY Zenon, SessionAssumption, FS_Subset DEF QueueTypes
<1> QED
  BY Zenon, <1>1, FS_Subset, FS_CardinalityType

\* What is settled, and how.
SameSettled == Settled' = Settled /\ acked' = acked /\ discarded' = discarded

\* A step that leaves the queue alone.
LEMMA QueueSame ==
  ASSUME Inv, UNCHANGED queueVars
  PROVE  /\ QueueTypes' /\ Places' /\ SameSettled
         /\ inflight' = inflight /\ attempts' = attempts
  <1> USE DEF queueVars
  <1>1. QueueTypes'
    BY Zenon, TypesSplit DEF Inv, QueueTypes
  <1> QED
    BY Zenon, <1>1 DEF Inv, Places, Settled, SameSettled

\* SetBatchSize preserves the invariant.
LEMMA SetBatchSizeInv ==
  ASSUME Inv, NEW n \in 1..MaxBatch, SetBatchSize(n)
  PROVE  Inv'
<1>1. QueueTypes' /\ Places' /\ SameSettled /\ inflight' = inflight /\ attempts' = attempts
  BY Zenon, QueueSame DEF SetBatchSize, queueVars
<1> USE DEF SetBatchSize, queueVars, runVars, sessionVars, settings, netVars, history
<1>2. RestTypes'
  BY Zenon, TypesSplit, SessionAssumption DEF Inv, RestTypes
<1>3. Shape'
  BY Zenon DEF Inv, Shape, Held, Idle, maxAckAttempts
<1>4. Stranding'
  BY Zenon, <1>1 DEF Inv, Shape, Stranding, NothingStranded, Held, Idle
<1>5. Window'
  BY Zenon, <1>1 DEF Inv, Shape, Stranding, Window, WindowBounded, maxInflightBatches, Idle
<1>6. Evidence'
  BY Zenon, <1>1 DEF Inv, Evidence, AtLeastOnce, Idle, SameSettled
<1>7. Ladder'
  BY Zenon DEF Inv, Ladder, LadderClimbs
<1> QED
  BY Zenon, <1>1, <1>2, <1>3, <1>4, <1>5, <1>6, <1>7, TypesJoin DEF Inv

\* DrainTop preserves the invariant.
LEMMA DrainTopInv ==
  ASSUME Inv, DrainTop
  PROVE  Inv'
<1>1. QueueTypes' /\ Places' /\ SameSettled /\ inflight' = inflight /\ attempts' = attempts
  BY Zenon, QueueSame DEF DrainTop, queueVars
<1> USE DEF DrainTop, DrainFrame, queueVars, runVars, sessionVars, settings, netVars, history
<1>2. RestTypes'
  <2>1. PICK p \in {"room", "dequeue"} : drain' = [drain EXCEPT !.pc = p, !.want = batchSize]
    <3>1. CASE deliveryAcks
      BY Zenon, <3>1
    <3>2. CASE ~deliveryAcks
      BY Zenon, <3>2
    <3> QED
      BY Zenon, <3>1, <3>2
  <2>2. batchSize \in 0..MaxBatch /\ p \in DrainPoints
    BY TypesSplit, SessionAssumption DEF Inv, RestTypes, DrainPoints
  <2>3. drain' \in Drains
    BY Zenon, <2>1, <2>2, DrainTyped DEF Drains
  <2> HIDE DEF DrainTop
  <2> QED
    BY Zenon, <2>3, TypesSplit DEF DrainTop, DrainFrame, Inv, RestTypes
<1>3. Shape'
  <2>1. PICK p \in {"room", "dequeue"} : drain' = [drain EXCEPT !.pc = p, !.want = batchSize]
    <3>1. CASE deliveryAcks
      BY <3>1
    <3>2. CASE ~deliveryAcks
      BY <3>2
    <3> QED
      BY <3>1, <3>2
  <2>2. drain \in Drains /\ batchSize \in 1..MaxBatch
    BY Zenon, TypesSplit DEF Inv, RestTypes
  <2>3. /\ drain'.pc = p /\ drain'.want = batchSize /\ drain'.tries = drain.tries
        /\ drain'.todo = drain.todo /\ drain'.bad = drain.bad
        /\ drain'.sent = drain.sent /\ drain'.terminal = drain.terminal
    BY Zenon, <2>1, <2>2 DEF Drains
  <2>4. drain.pc = "top" /\ Held = {} /\ drain.tries = 0 /\ batchSize # 0 /\ run' = "up"
    BY <2>2 DEF Inv, Shape
  <2> HIDE DEF DrainTop
  <2> QED
    BY Zenon, <2>3, <2>4 DEF Shape, Held
<1>4. Stranding'
  BY Zenon, <1>1 DEF Inv, Shape, Stranding, NothingStranded, Held, Idle
<1>5. Window'
  <2>1. CASE deliveryAcks
    BY Zenon, <1>1, <2>1 DEF Inv, TypeOK, Window, WindowBounded
  <2>2. CASE ~deliveryAcks
    <3>1. inflight = {}
      BY Zenon, <2>2 DEF Inv, Shape, Stranding
    <3>2. Cardinality(inflight) = 0
      BY Zenon, <3>1, FS_EmptySet
    <3> QED
      BY <1>1, <2>2, <3>2 DEF Inv, TypeOK, Window, WindowBounded, maxInflightBatches
  <2> QED
    BY Zenon, <2>1, <2>2 DEF Inv, TypeOK
<1>6. Evidence'
  BY <1>1 DEF Inv, Evidence, AtLeastOnce, Idle, SameSettled
<1>7. Ladder'
  BY Zenon DEF Inv, Ladder, LadderClimbs
<1> QED
  BY Zenon, <1>1, <1>2, <1>3, <1>4, <1>5, <1>6, <1>7, TypesJoin DEF Inv

\* DrainRoom preserves the invariant.
LEMMA DrainRoomInv ==
  ASSUME Inv, DrainRoom
  PROVE  Inv'
<1>1. QueueTypes' /\ Places' /\ SameSettled /\ inflight' = inflight /\ attempts' = attempts
  BY Zenon, QueueSame DEF DrainRoom, queueVars
<1> USE DEF DrainRoom, DrainFrame, queueVars, runVars, sessionVars, settings, netVars, history
<1>2. RestTypes'
  <2>1. drain' \in Drains
    BY Zenon, DrainTyped DEF Drains, DrainPoints
  <2> QED
    BY Zenon, <2>1, TypesSplit DEF Inv, RestTypes
<1>3. Shape'
  BY DEF Inv, Shape, Held, Idle, maxAckAttempts
<1>4. Stranding'
  BY Zenon, <1>1 DEF Inv, Shape, Stranding, NothingStranded, Held, Idle
<1>5. Window'
  <2>1. Cardinality(inflight) \in Nat /\ drain.want \in Nat
    BY Fewer, TypesSplit DEF Inv, TypeOK
  <2> QED
    BY <1>1, <2>1 DEF Inv, TypeOK, Window, WindowBounded, maxInflightBatches
<1>6. Evidence'
  BY <1>1 DEF Inv, Evidence, AtLeastOnce, Idle, SameSettled
<1>7. Ladder'
  BY Zenon DEF Inv, Ladder, LadderClimbs
<1> QED
  BY Zenon, <1>1, <1>2, <1>3, <1>4, <1>5, <1>6, <1>7, TypesJoin DEF Inv

\* DrainReturns preserves the invariant.
LEMMA DrainReturnsInv ==
  ASSUME Inv, DrainReturns
  PROVE  Inv'
<1>1. QueueTypes' /\ Places' /\ SameSettled /\ inflight' = inflight /\ attempts' = attempts
  BY Zenon, QueueSame DEF DrainReturns, queueVars
<1> USE DEF DrainReturns, DrainFrame, queueVars, runVars, sessionVars, settings, netVars, history
<1>2. RestTypes'
  <2>1. drain' \in Drains
    BY Zenon, DrainTyped DEF DrainPoints
  <2> QED
    BY Zenon, <2>1, TypesSplit DEF Inv, RestTypes
<1>3. Shape'
  BY Zenon DEF Inv, Shape, Held, Idle, maxAckAttempts
<1>4. Stranding'
  BY Zenon, <1>1 DEF Inv, Shape, Stranding, NothingStranded, Held, Idle
<1>5. Window'
  BY Zenon, <1>1 DEF Inv, Shape, Stranding, Window, WindowBounded, maxInflightBatches, Idle
<1>6. Evidence'
  BY Zenon, <1>1 DEF Inv, Evidence, AtLeastOnce, Idle, SameSettled
<1>7. Ladder'
  BY Zenon DEF Inv, Ladder, LadderClimbs
<1> QED
  BY Zenon, <1>1, <1>2, <1>3, <1>4, <1>5, <1>6, <1>7, TypesJoin DEF Inv

\* DrainJudge preserves the invariant.
LEMMA DrainJudgeInv ==
  ASSUME Inv, NEW i \in Ids, DrainJudge(i)
  PROVE  Inv'
<1>1. QueueTypes' /\ Places' /\ SameSettled /\ inflight' = inflight /\ attempts' = attempts
  BY Zenon, QueueSame DEF DrainJudge, queueVars
<1> USE DEF DrainJudge, DrainFrame, queueVars, runVars, sessionVars, settings, netVars, history
<1>2. RestTypes'
  <2>1. drain' \in Drains
    BY ZenonT(60), DrainTyped DEF Drains, DrainPoints
  <2> QED
    BY Zenon, <2>1, TypesSplit DEF Inv, RestTypes
<1>3. Shape'
  BY DEF Inv, Shape, Held, Idle, maxAckAttempts
<1>4. Stranding'
  BY <1>1 DEF Inv, Shape, Stranding, NothingStranded, Held, Idle
<1>5. Window'
  BY <1>1 DEF Inv, Shape, Stranding, Window, WindowBounded, maxInflightBatches, Idle
<1>6. Evidence'
  BY <1>1 DEF Inv, Evidence, AtLeastOnce, Idle, SameSettled
<1>7. Ladder'
  BY Zenon DEF Inv, Ladder, LadderClimbs
<1> QED
  BY Zenon, <1>1, <1>2, <1>3, <1>4, <1>5, <1>6, <1>7, TypesJoin DEF Inv

\* DrainSend preserves the invariant.
LEMMA DrainSendInv ==
  ASSUME Inv, NEW i \in Ids, DrainSend(i)
  PROVE  Inv'
<1>1. QueueTypes' /\ Places' /\ SameSettled /\ inflight' = inflight /\ attempts' = attempts
  BY Zenon, QueueSame DEF DrainSend, queueVars
<1> USE DEF DrainSend, DrainFrame, queueVars, runVars, sessionVars, settings, netVars, history
<1>2. RestTypes'
  <2>1. drain' \in Drains
    BY ZenonT(60), DrainTyped DEF Drains, DrainPoints
  <2> QED
    BY Zenon, <2>1, TypesSplit DEF Inv, RestTypes
<1>3. Shape'
  BY DEF Inv, Shape, Held, Idle, maxAckAttempts
<1>4. Stranding'
  BY <1>1 DEF Inv, Shape, Stranding, NothingStranded, Held, Idle
<1>5. Window'
  BY <1>1 DEF Inv, Shape, Stranding, Window, WindowBounded, maxInflightBatches, Idle
<1>6. Evidence'
  BY <1>1 DEF Inv, Evidence, AtLeastOnce, Idle, SameSettled
<1>7. Ladder'
  BY Zenon DEF Inv, Ladder, LadderClimbs
<1> QED
  BY Zenon, <1>1, <1>2, <1>3, <1>4, <1>5, <1>6, <1>7, TypesJoin DEF Inv

\* DrainSendFails preserves the invariant.
LEMMA DrainSendFailsInv ==
  ASSUME Inv, NEW i \in Ids, DrainSendFails(i)
  PROVE  Inv'
<1>1. QueueTypes' /\ Places' /\ SameSettled /\ inflight' = inflight /\ attempts' = attempts
  BY Zenon, QueueSame DEF DrainSendFails, queueVars
<1> USE DEF DrainSendFails, DrainFrame, queueVars, runVars, sessionVars, settings, netVars, history
<1>2. RestTypes'
  <2>1. drain' \in Drains
    BY ZenonT(60), DrainTyped DEF Drains, DrainPoints
  <2> QED
    BY Zenon, <2>1, TypesSplit DEF Inv, RestTypes
<1>3. Shape'
  BY DEF Inv, Shape, Held, Idle, maxAckAttempts
<1>4. Stranding'
  BY <1>1 DEF Inv, Shape, Stranding, NothingStranded, Held, Idle
<1>5. Window'
  BY <1>1 DEF Inv, Shape, Stranding, Window, WindowBounded, maxInflightBatches, Idle
<1>6. Evidence'
  BY <1>1 DEF Inv, Evidence, AtLeastOnce, Idle, SameSettled
<1>7. Ladder'
  BY Zenon DEF Inv, Ladder, LadderClimbs
<1> QED
  BY Zenon, <1>1, <1>2, <1>3, <1>4, <1>5, <1>6, <1>7, TypesJoin DEF Inv

\* DrainBatchDone preserves the invariant.
LEMMA DrainBatchDoneInv ==
  ASSUME Inv, DrainBatchDone
  PROVE  Inv'
<1>1. QueueTypes' /\ Places' /\ SameSettled /\ inflight' = inflight /\ attempts' = attempts
  BY Zenon, QueueSame DEF DrainBatchDone, queueVars
<1> USE DEF DrainBatchDone, DrainFrame, queueVars, runVars, sessionVars, settings, netVars, history
<1>2. RestTypes'
  <2>1. drain' \in Drains
    BY Zenon, DrainTyped DEF Drains, DrainPoints
  <2> QED
    BY Zenon, <2>1, TypesSplit DEF Inv, RestTypes
<1>3. Shape'
  BY DEF Inv, Shape, Held, Idle, maxAckAttempts
<1>4. Stranding'
  BY <1>1 DEF Inv, Shape, Stranding, NothingStranded, Held, Idle
<1>5. Window'
  BY <1>1 DEF Inv, Shape, Stranding, Window, WindowBounded, maxInflightBatches, Idle
<1>6. Evidence'
  BY <1>1 DEF Inv, Evidence, AtLeastOnce, Idle, SameSettled
<1>7. Ladder'
  BY Zenon DEF Inv, Ladder, LadderClimbs
<1> QED
  BY Zenon, <1>1, <1>2, <1>3, <1>4, <1>5, <1>6, <1>7, TypesJoin DEF Inv

\* WorkerAborts preserves the invariant.
LEMMA WorkerAbortsInv ==
  ASSUME Inv, WorkerAborts
  PROVE  Inv'
<1>1. QueueTypes' /\ Places' /\ SameSettled /\ inflight' = inflight /\ attempts' = attempts
  BY Zenon, QueueSame DEF WorkerAborts, queueVars
<1> USE DEF WorkerAborts, queueVars, runVars, sessionVars, settings, netVars, history
<1>2. RestTypes'
  BY Zenon, TypesSplit, SessionAssumption DEF Inv, RestTypes
<1>3. Shape'
  BY Zenon DEF Inv, Shape, Held, Idle, maxAckAttempts
<1>4. Stranding'
  BY Zenon, <1>1 DEF Inv, Shape, Stranding, NothingStranded, Held, Idle
<1>5. Window'
  BY Zenon, <1>1 DEF Inv, Shape, Stranding, Window, WindowBounded, maxInflightBatches, Idle
<1>6. Evidence'
  BY Zenon, <1>1 DEF Inv, Evidence, AtLeastOnce, Idle, SameSettled
<1>7. Ladder'
  BY Zenon DEF Inv, Ladder, LadderClimbs
<1> QED
  BY Zenon, <1>1, <1>2, <1>3, <1>4, <1>5, <1>6, <1>7, TypesJoin DEF Inv

\* ContextCancelled preserves the invariant.
LEMMA ContextCancelledInv ==
  ASSUME Inv, ContextCancelled
  PROVE  Inv'
<1>1. QueueTypes' /\ Places' /\ SameSettled /\ inflight' = inflight /\ attempts' = attempts
  BY Zenon, QueueSame DEF ContextCancelled, queueVars
<1> USE DEF ContextCancelled, queueVars, runVars, sessionVars, settings, netVars, history
<1>2. RestTypes'
  BY Zenon, TypesSplit, SessionAssumption DEF Inv, RestTypes
<1>3. Shape'
  BY Zenon DEF Inv, Shape, Held, Idle, maxAckAttempts
<1>4. Stranding'
  BY Zenon, <1>1 DEF Inv, Shape, Stranding, NothingStranded, Held, Idle
<1>5. Window'
  BY Zenon, <1>1 DEF Inv, Shape, Stranding, Window, WindowBounded, maxInflightBatches, Idle
<1>6. Evidence'
  BY Zenon, <1>1 DEF Inv, Evidence, AtLeastOnce, Idle, SameSettled
<1>7. Ladder'
  BY Zenon DEF Inv, Ladder, LadderClimbs
<1> QED
  BY Zenon, <1>1, <1>2, <1>3, <1>4, <1>5, <1>6, <1>7, TypesJoin DEF Inv

\* Handshake preserves the invariant.
LEMMA HandshakeInv ==
  ASSUME Inv, NEW mode \in AckModes, Handshake(mode)
  PROVE  Inv'
<1>1. QueueTypes' /\ Places' /\ SameSettled /\ inflight' = inflight /\ attempts' = attempts
  BY Zenon, QueueSame DEF Handshake, queueVars
<1> USE DEF Handshake, queueVars, runVars, sessionVars, settings, netVars, history
<1>2. RestTypes'
  <2>1. attempt' \in 0..MaxRung
    BY TypesSplit, SessionAssumption DEF Inv, RestTypes
  <2>2. mode \in BOOLEAN
    BY Zenon, SessionAssumption
  <2>3. drain' \in Drains
    BY Zenon, DrainTyped DEF DrainPoints
  <2> QED
    BY Zenon, <2>1, <2>2, <2>3, TypesSplit DEF Inv, RestTypes
<1>3. Shape'
  BY Zenon DEF Inv, Shape, Held, Idle, maxAckAttempts
<1>4. Stranding'
  BY Zenon, <1>1 DEF Inv, Shape, Stranding, NothingStranded, Held, Idle
<1>5. Window'
  BY Zenon, <1>1 DEF Inv, Shape, Stranding, Window, WindowBounded, maxInflightBatches, Idle
<1>6. Evidence'
  BY Zenon, <1>1 DEF Inv, Evidence, AtLeastOnce, Idle, SameSettled
<1>7. Ladder'
  BY DEF Inv, Ladder, LadderClimbs
<1> QED
  BY Zenon, <1>1, <1>2, <1>3, <1>4, <1>5, <1>6, <1>7, TypesJoin DEF Inv

\* SweepCollect preserves the invariant.
LEMMA SweepCollectInv ==
  ASSUME Inv, NEW ids \in SUBSET inflight, SweepCollect(ids)
  PROVE  Inv'
<1>1. QueueTypes' /\ Places' /\ SameSettled /\ inflight' = inflight /\ attempts' = attempts
  BY Zenon, QueueSame DEF SweepCollect, queueVars
<1> USE DEF SweepCollect, queueVars, runVars, sessionVars, settings, netVars, history
<1>2. RestTypes'
  BY Zenon, TypesSplit, SessionAssumption DEF Inv, RestTypes, QueueTypes
<1>3. Shape'
  BY Zenon DEF Inv, Shape, Held, Idle, maxAckAttempts
<1>4. Stranding'
  BY Zenon, <1>1 DEF Inv, Shape, Stranding, NothingStranded, Held, Idle
<1>5. Window'
  BY Zenon, <1>1 DEF Inv, Shape, Stranding, Window, WindowBounded, maxInflightBatches, Idle
<1>6. Evidence'
  BY Zenon, <1>1 DEF Inv, Evidence, AtLeastOnce, Idle, SameSettled
<1>7. Ladder'
  BY Zenon DEF Inv, Ladder, LadderClimbs
<1> QED
  BY Zenon, <1>1, <1>2, <1>3, <1>4, <1>5, <1>6, <1>7, TypesJoin DEF Inv

\* Cut preserves the invariant.
LEMMA CutInv ==
  ASSUME Inv, Cut
  PROVE  Inv'
<1>1. QueueTypes' /\ Places' /\ SameSettled /\ inflight' = inflight /\ attempts' = attempts
  BY Zenon, QueueSame DEF Cut, queueVars
<1> USE DEF Cut, queueVars, runVars, sessionVars, settings, netVars, history
<1>2. RestTypes'
  BY TypesSplit, SessionAssumption DEF Inv, RestTypes
<1>3. Shape'
  BY Zenon DEF Inv, Shape, Held, Idle, maxAckAttempts
<1>4. Stranding'
  BY Zenon, <1>1 DEF Inv, Shape, Stranding, NothingStranded, Held, Idle
<1>5. Window'
  BY Zenon, <1>1 DEF Inv, Shape, Stranding, Window, WindowBounded, maxInflightBatches, Idle
<1>6. Evidence'
  BY Zenon, <1>1 DEF Inv, Evidence, AtLeastOnce, Idle, SameSettled
<1>7. Ladder'
  BY Zenon DEF Inv, Ladder, LadderClimbs
<1> QED
  BY Zenon, <1>1, <1>2, <1>3, <1>4, <1>5, <1>6, <1>7, TypesJoin DEF Inv

\* Publish preserves the invariant.
LEMMA PublishInv ==
  ASSUME Inv, NEW i \in Ids, Publish(i)
  PROVE  Inv'
<1>1. QueueTypes' /\ Places' /\ SameSettled /\ inflight' = inflight /\ attempts' = attempts
  BY Zenon, QueueSame DEF Publish, queueVars
<1> USE DEF Publish, queueVars, runVars, sessionVars, settings, netVars, history
<1>2. RestTypes'
  BY Zenon, TypesSplit, SessionAssumption DEF Inv, RestTypes
<1>3. Shape'
  BY Zenon DEF Inv, Shape, Held, Idle, maxAckAttempts
<1>4. Stranding'
  BY Zenon, <1>1 DEF Inv, Shape, Stranding, NothingStranded, Held, Idle
<1>5. Window'
  BY Zenon, <1>1 DEF Inv, Shape, Stranding, Window, WindowBounded, maxInflightBatches, Idle
<1>6. Evidence'
  BY Zenon, <1>1 DEF Inv, Evidence, AtLeastOnce, Idle, SameSettled
<1>7. Ladder'
  BY Zenon DEF Inv, Ladder, LadderClimbs
<1> QED
  BY Zenon, <1>1, <1>2, <1>3, <1>4, <1>5, <1>6, <1>7, TypesJoin DEF Inv

\* RecvAck preserves the invariant.
LEMMA RecvAckInv ==
  ASSUME Inv, NEW ids \in SUBSET acks, RecvAck(ids)
  PROVE  Inv'
<1>1. QueueTypes' /\ Places' /\ SameSettled /\ inflight' = inflight /\ attempts' = attempts
  BY Zenon, QueueSame DEF RecvAck, queueVars
<1> USE DEF RecvAck, queueVars, runVars, sessionVars, settings, netVars, history
<1>2. RestTypes'
  <2>1. ids \in SUBSET Ids /\ ackCh \in AckChans
    BY Zenon, TypesSplit DEF Inv, RestTypes
  <2>2. ackCh' \in AckChans
    BY Zenon, <2>1, AcksTyped
  <2> QED
    BY Zenon, <2>2, TypesSplit DEF Inv, RestTypes
<1>3. Shape'
  BY Zenon DEF Inv, Shape, Held, Idle, maxAckAttempts
<1>4. Stranding'
  BY Zenon, <1>1 DEF Inv, Shape, Stranding, NothingStranded, Held, Idle
<1>5. Window'
  BY Zenon, <1>1 DEF Inv, Shape, Stranding, Window, WindowBounded, maxInflightBatches, Idle
<1>6. Evidence'
  <2>1. ackCh \in Seq(SUBSET Ids) /\ ids \subseteq published
    BY Zenon, TypesSplit DEF Inv, RestTypes, AckChans, Evidence
  <2>2. ASSUME NEW k \in 1..Len(ackCh') PROVE ackCh'[k] \subseteq published
    <3>1. CASE ackCh' = ackCh
      BY Zenon, <3>1 DEF Inv, Evidence
    <3>2. CASE ackCh' = Append(ackCh, ids)
      <4>1. (k \in 1..Len(ackCh) /\ ackCh'[k] = ackCh[k]) \/ ackCh'[k] = ids
        BY <2>1, <3>2
      <4> QED
        BY Zenon, <2>1, <4>1 DEF Inv, Evidence
    <3> QED
      BY Zenon, <3>1, <3>2
  <2>3. AtLeastOnce' /\ acks' \subseteq published' /\ published' = published
    BY Zenon, <1>1 DEF Inv, Evidence, AtLeastOnce, SameSettled
  <2> HIDE DEF RecvAck
  <2> QED
    BY Zenon, <2>2, <2>3 DEF RecvAck, Inv, Evidence
<1>7. Ladder'
  BY Zenon DEF Inv, Ladder, LadderClimbs
<1> QED
  BY Zenon, <1>1, <1>2, <1>3, <1>4, <1>5, <1>6, <1>7, TypesJoin DEF Inv

-----------------------------------------------------------------------------
(* The steps that settle items or hand them back.                          *)

\* What was settled for a good reason stays so.
LEMMA EvidentStep ==
  ASSUME Inv, Kept,
         published \subseteq published', judged \subseteq judged', onSend \subseteq onSend',
         acked' \subseteq acked \cup published \cup judged \cup onSend,
         \A i \in Settled' \ Settled :
            i \in published \cup judged \cup onSend \cup discarded' \/ attempts'[i] > MaxAttempts
  PROVE  AtLeastOnce'
<1>1. Settled \subseteq Ids
  BY Zenon DEF Inv, TypeOK, Settled
<1>2. MaxAttempts \in Int /\ \A i \in Ids : attempts[i] \in Int /\ attempts'[i] \in Int
  BY TypesSplit, SessionAssumption DEF Inv, Kept, QueueTypes
<1>a. acked' \subseteq published' \cup judged' \cup onSend'
  BY Zenon DEF Inv, Evidence, AtLeastOnce
<1>3. SUFFICES ASSUME NEW i \in Settled'
               PROVE  i \in published' \cup judged' \cup onSend' \cup discarded' \/ attempts'[i] > MaxAttempts
  BY Zenon, <1>a DEF AtLeastOnce
<1>4. CASE i \in Settled
  <2>1. i \in Ids /\ attempts'[i] >= attempts[i]
    BY Zenon, <1>1, <1>4 DEF Kept
  <2>2. i \in published \cup judged \cup onSend \cup discarded \/ attempts[i] > MaxAttempts
    BY Zenon, <1>4 DEF Inv, Evidence, AtLeastOnce
  <2>3. CASE attempts[i] > MaxAttempts
    BY <1>2, <2>1, <2>3
  <2> QED
    BY Zenon, <2>2, <2>3 DEF Kept
<1>5. CASE i \notin Settled
  BY Zenon, <1>5
<1> QED
  BY Zenon, <1>4, <1>5

LEMMA StillEvident ==
  ASSUME Inv, NEW ids, Settles(ids),
         published \subseteq published', judged \subseteq judged', onSend \subseteq onSend',
         acked' \subseteq acked \cup published \cup judged \cup onSend,
         \A i \in Settled' \ Settled :
            i \in published \cup judged \cup onSend \cup discarded' \/ attempts'[i] > MaxAttempts
  PROVE  AtLeastOnce'
  BY Zenon, EvidentStep DEF Settles

\* A smaller window is still bounded.
LEMMA WindowKept ==
  ASSUME Inv, NEW ids, Settles(ids), RestTypes',
         \/ drain'.pc \in {"top", "room", "off"}
         \/ /\ drain.pc \notin {"top", "room", "off"} /\ run = "up"
            /\ drain'.want = drain.want /\ drain'.pc # "dequeue"
         \/ run' = run /\ drain' = drain
  PROVE  Window'
<1>1. /\ Cardinality(inflight) \in Nat /\ Cardinality(inflight') \in Nat
      /\ Cardinality(inflight') <= Cardinality(inflight)
  BY Zenon, Fewer, TypesSplit DEF Inv, Settles, Kept
<1>2. drain.want \in Nat /\ drain'.want \in Nat /\ MaxBatch \in Nat
  BY DrainTyped, SessionAssumption DEF RestTypes, Drains
<1> QED
  BY <1>1, <1>2 DEF Inv, Window, WindowBounded, maxInflightBatches

\* DrainNackUntried preserves the invariant.
LEMMA DrainNackUntriedInv ==
  ASSUME Inv, DrainNackUntried
  PROVE  Inv'
<1>1. Settles(drain.todo) /\ acked' = acked /\ \A i \in Settled' \ Settled : attempts'[i] > MaxAttempts \/ i \in discarded'
  BY Zenon, NackStep, TypesSplit DEF Inv, DrainNackUntried
<1> USE DEF DrainNackUntried, DrainFrame, queueVars, runVars, sessionVars, settings, netVars, history
<1>2. RestTypes'
  <2>1. drain' \in Drains
    BY Zenon, DrainTyped DEF Drains, DrainPoints
  <2> QED
    BY Zenon, <2>1, TypesSplit DEF Inv, RestTypes
<1>3. Shape'
  BY DEF Inv, Shape, Held, Idle, maxAckAttempts
<1>4. Stranding'
  BY <1>1 DEF Settles, SettleSent, Inv, Shape, Stranding, NothingStranded, Held, Idle
<1>5. Window'
  BY <1>1, <1>2, WindowKept DEF Idle
<1>6. Evidence'
  <2>1. AtLeastOnce'
    BY Zenon, <1>1, StillEvident
  <2> QED
    BY <2>1 DEF Inv, Evidence, Idle
<1>7. Ladder'
  BY Zenon DEF Inv, Ladder, LadderClimbs
<1> QED
  BY Zenon, <1>1, <1>2, <1>3, <1>4, <1>5, <1>6, <1>7, TypesJoin DEF Inv, Settles, Kept

\* DrainNackFailed preserves the invariant.
LEMMA DrainNackFailedInv ==
  ASSUME Inv, DrainNackFailed
  PROVE  Inv'
<1>1. Settles(drain.bad) /\ acked' = acked /\ \A i \in Settled' \ Settled : attempts'[i] > MaxAttempts \/ i \in discarded'
  BY Zenon, NackStep, TypesSplit DEF Inv, DrainNackFailed
<1> USE DEF DrainNackFailed, DrainFrame, queueVars, runVars, sessionVars, settings, netVars, history
<1>2. RestTypes'
  <2>1. drain' \in Drains
    BY Zenon, DrainTyped DEF Drains, DrainPoints
  <2> QED
    BY Zenon, <2>1, TypesSplit DEF Inv, RestTypes
<1>3. Shape'
  BY DEF Inv, Shape, Held, Idle, maxAckAttempts
<1>4. Stranding'
  BY <1>1 DEF Settles, SettleSent, Inv, Shape, Stranding, NothingStranded, Held, Idle
<1>5. Window'
  BY <1>1, <1>2, WindowKept DEF Idle
<1>6. Evidence'
  <2>1. AtLeastOnce'
    BY Zenon, <1>1, StillEvident
  <2> QED
    BY <2>1 DEF Inv, Evidence, Idle
<1>7. Ladder'
  BY Zenon DEF Inv, Ladder, LadderClimbs
<1> QED
  BY Zenon, <1>1, <1>2, <1>3, <1>4, <1>5, <1>6, <1>7, TypesJoin DEF Inv, Settles, Kept

\* DrainSettle preserves the invariant.
LEMMA DrainSettleInv ==
  ASSUME Inv, DrainSettle
  PROVE  Inv'
<1>1. /\ Settles(SettleSent \cup drain.terminal) /\ Settled' \subseteq Settled \cup (SettleSent \cup drain.terminal)
      /\ acked' \subseteq acked \cup (SettleSent \cup drain.terminal)
  BY Zenon, AckStep, TypesSplit DEF Inv, DrainSettle
<1> USE DEF DrainSettle, DrainFrame, queueVars, runVars, sessionVars, settings, netVars, history
<1>2. RestTypes'
  <2>1. PICK p \in {"off", "top"} : drain' = Idle(p)
    BY Zenon
  <2>2. drain' \in Drains
    BY Zenon, <2>1, DrainTyped DEF DrainPoints
  <2>3. cancelled' \in BOOLEAN
    BY Zenon
  <2> QED
    BY Zenon, <2>2, <2>3, TypesSplit DEF Inv, RestTypes
<1>3. Shape'
  BY Zenon DEF Inv, Shape, Held, Idle, maxAckAttempts
<1>4. Stranding'
  BY Zenon, <1>1 DEF Settles, SettleSent, Inv, Shape, Stranding, NothingStranded, Held, Idle
<1>5. Window'
  BY Zenon, <1>1, <1>2, WindowKept DEF Idle
<1>6. Evidence'
  <2>1. AtLeastOnce'
    BY Zenon, <1>1, StillEvident DEF Inv, Evidence, SettleSent
  <2> QED
    BY Zenon, <2>1 DEF Inv, Evidence, Idle
<1>7. Ladder'
  BY Zenon DEF Inv, Ladder, LadderClimbs
<1> QED
  BY Zenon, <1>1, <1>2, <1>3, <1>4, <1>5, <1>6, <1>7, TypesJoin DEF Inv, Settles, Kept

\* DrainRedeliver preserves the invariant.
LEMMA DrainRedeliverInv ==
  ASSUME Inv, DrainRedeliver
  PROVE  Inv'
<1>1. Settles(SettleSent) /\ acked' = acked /\ \A i \in Settled' \ Settled : attempts'[i] > MaxAttempts \/ i \in discarded'
  BY Zenon, NackStep, TypesSplit DEF Inv, DrainRedeliver
<1> USE DEF DrainRedeliver, DrainFrame, queueVars, runVars, sessionVars, settings, netVars, history
<1>2. RestTypes'
  <2>1. drain' \in Drains
    BY Zenon, DrainTyped DEF Drains, DrainPoints
  <2> QED
    BY Zenon, <2>1, TypesSplit DEF Inv, RestTypes
<1>3. Shape'
  BY DEF Inv, Shape, Held, Idle, maxAckAttempts
<1>4. Stranding'
  BY <1>1 DEF Settles, SettleSent, Inv, Shape, Stranding, NothingStranded, Held, Idle
<1>5. Window'
  BY <1>1, <1>2, WindowKept DEF Idle
<1>6. Evidence'
  <2>1. AtLeastOnce'
    BY Zenon, <1>1, StillEvident
  <2> QED
    BY <2>1 DEF Inv, Evidence, Idle
<1>7. Ladder'
  BY Zenon DEF Inv, Ladder, LadderClimbs
<1> QED
  BY Zenon, <1>1, <1>2, <1>3, <1>4, <1>5, <1>6, <1>7, TypesJoin DEF Inv, Settles, Kept

\* DrainDiscard preserves the invariant.
LEMMA DrainDiscardInv ==
  ASSUME Inv, DrainDiscard
  PROVE  Inv'
<1>1. Settles(drain.terminal) /\ Settled' \subseteq Settled \cup (drain.terminal) /\ acked' = acked
  BY Zenon, DropStep, TypesSplit DEF Inv, DrainDiscard
<1> USE DEF DrainDiscard, DrainFrame, queueVars, runVars, sessionVars, settings, netVars, history
<1>2. RestTypes'
  <2>1. sessionErr' \in {"none", "stalled"}
    BY Zenon, TypesSplit DEF Inv, RestTypes
  <2>2. drain' \in Drains
    BY Zenon, DrainTyped DEF DrainPoints
  <2> QED
    BY Zenon, <2>1, <2>2, TypesSplit DEF Inv, RestTypes
<1>3. Shape'
  BY Zenon DEF Inv, Shape, Held, Idle, maxAckAttempts
<1>4. Stranding'
  BY Zenon, <1>1 DEF Settles, SettleSent, Inv, Shape, Stranding, NothingStranded, Held, Idle
<1>5. Window'
  BY Zenon, <1>1, <1>2, WindowKept DEF Idle
<1>6. Evidence'
  <2>1. AtLeastOnce'
    BY Zenon, <1>1, StillEvident DEF Inv, Evidence
  <2> QED
    BY Zenon, <2>1 DEF Inv, Evidence, Idle
<1>7. Ladder'
  BY Zenon DEF Inv, Ladder, LadderClimbs
<1> QED
  BY Zenon, <1>1, <1>2, <1>3, <1>4, <1>5, <1>6, <1>7, TypesJoin DEF Inv, Settles, Kept

\* ApplyDeliveryAcks preserves the invariant.
LEMMA ApplyDeliveryAcksInv ==
  ASSUME Inv, ApplyDeliveryAcks
  PROVE  Inv'
<1>1. /\ Settles(Head(ackCh)) /\ Settled' \subseteq Settled \cup (Head(ackCh))
      /\ acked' \subseteq acked \cup (Head(ackCh))
  BY Zenon, AckStep, TypesSplit DEF Inv, ApplyDeliveryAcks
<1> USE DEF ApplyDeliveryAcks, queueVars, runVars, sessionVars, settings, netVars, history
<1>2. RestTypes'
  <2>1. ackCh' \in AckChans
    BY Zenon, AcksTyped
  <2> QED
    BY Zenon, <2>1, TypesSplit, SessionAssumption DEF Inv, RestTypes
<1>3. Shape'
  BY Zenon DEF Inv, Shape, Held, Idle, maxAckAttempts
<1>4. Stranding'
  BY Zenon, <1>1 DEF Settles, SettleSent, Inv, Shape, Stranding, NothingStranded, Held, Idle
<1>5. Window'
  BY Zenon, <1>1, <1>2, WindowKept DEF Idle
<1>6. Evidence'
  <2>1. /\ 1 \in 1..Len(ackCh) /\ Head(ackCh) = ackCh[1]
        /\ \A k \in 1..Len(Tail(ackCh)) : Tail(ackCh)[k] = ackCh[k + 1] /\ k + 1 \in 1..Len(ackCh)
    BY Zenon, AcksTyped
  <2>2. Head(ackCh) \subseteq published
    BY Zenon, <2>1 DEF Inv, Evidence
  <2>3. AtLeastOnce'
    BY Zenon, <1>1, <2>2, StillEvident
  <2>4. \A k \in 1..Len(ackCh') : ackCh'[k] \subseteq published
    BY Zenon, <2>1 DEF Inv, Evidence
  <2> QED
    BY Zenon, <2>3, <2>4 DEF Inv, Evidence
<1>7. Ladder'
  BY Zenon DEF Inv, Ladder, LadderClimbs
<1> QED
  BY Zenon, <1>1, <1>2, <1>3, <1>4, <1>5, <1>6, <1>7, TypesJoin DEF Inv, Settles, Kept

\* SweepNack preserves the invariant.
LEMMA SweepNackInv ==
  ASSUME Inv, SweepNack
  PROVE  Inv'
<1>1. Settles(sweep) /\ acked' = acked /\ \A i \in Settled' \ Settled : attempts'[i] > MaxAttempts \/ i \in discarded'
  BY Zenon, NackStep, TypesSplit DEF Inv, SweepNack
<1> USE DEF SweepNack, queueVars, runVars, sessionVars, settings, netVars, history
<1>2. RestTypes'
  BY Zenon, TypesSplit, SessionAssumption DEF Inv, RestTypes
<1>3. Shape'
  BY Zenon DEF Inv, Shape, Held, Idle, maxAckAttempts
<1>4. Stranding'
  BY Zenon, <1>1 DEF Settles, SettleSent, Inv, Shape, Stranding, NothingStranded, Held, Idle
<1>5. Window'
  BY Zenon, <1>1, <1>2, WindowKept DEF Idle
<1>6. Evidence'
  <2>1. AtLeastOnce'
    BY Zenon, <1>1, StillEvident
  <2> QED
    BY Zenon, <2>1 DEF Inv, Evidence, Idle
<1>7. Ladder'
  BY Zenon DEF Inv, Ladder, LadderClimbs
<1> QED
  BY Zenon, <1>1, <1>2, <1>3, <1>4, <1>5, <1>6, <1>7, TypesJoin DEF Inv, Settles, Kept

\* Ack fails: part of what was to be settled is, and the session goes on or ends.
LEMMA DrainSettleFailsInv ==
  ASSUME Inv, DrainSettleFails
  PROVE  Inv'
<1> PICK done \in PartOf(SettleSent \cup drain.terminal) : AckIds(done)
  BY Zenon DEF DrainSettleFails
<1>1. /\ Settles(done) /\ Settled' \subseteq Settled \cup done /\ acked' \subseteq acked \cup done
      /\ done \subseteq SettleSent \cup drain.terminal
  BY Zenon, AckStep, TypesSplit DEF Inv, PartOf
<1>a. PICK p \in {"redeliver", "settle"} :
         /\ drain' = [drain EXCEPT !.tries = @ + 1, !.pc = p]
         /\ p = "settle" => drain.tries + 1 # maxAckAttempts
  BY Zenon DEF DrainSettleFails
<1>b. drain \in Drains
  BY Zenon, DrainTyped
<1>c. /\ drain'.pc = p /\ drain'.want = drain.want /\ drain'.tries = drain.tries + 1
      /\ drain'.todo = drain.todo /\ drain'.bad = drain.bad
      /\ drain'.sent = drain.sent /\ drain'.terminal = drain.terminal /\ drain'.leaving = drain.leaving
  BY Zenon, <1>a, <1>b DEF Drains
<1>d. drain.pc = "settle" /\ drain.tries < maxAckAttempts /\ drain.tries \in Nat
  BY <1>b DEF DrainSettleFails, Inv, Shape, Drains, maxAckAttempts
<1> USE DEF DrainFrame, queueVars, runVars, sessionVars, settings, netVars, history
<1>2. RestTypes'
  <2>1. drain' \in Drains
    <3>1. p \in DrainPoints
      BY Zenon DEF DrainPoints
    <3>2. drain.tries + 1 \in 0..maxAckAttempts
      BY <1>d DEF maxAckAttempts
    <3> QED
      BY Zenon, <1>a, <1>b, <3>1, <3>2 DEF Drains
  <2>2. errors' \in 0..MaxErrors
    BY SMTT(60), TypesSplit, SessionAssumption DEF DrainSettleFails, Inv, RestTypes
  <2> QED
    BY Zenon, <2>1, <2>2, TypesSplit DEF DrainSettleFails, Inv, RestTypes
<1>3. Shape'
  BY <1>a, <1>c, <1>d DEF DrainSettleFails, Inv, Shape, Held, maxAckAttempts
<1>4. Stranding'
  BY Zenon, <1>1, <1>c DEF DrainSettleFails, Settles, Inv, Stranding, NothingStranded, Held
<1>5. Window'
  BY Zenon, <1>1, <1>2, <1>c, <1>d, WindowKept DEF DrainSettleFails
<1>6. Evidence'
  <2>1. AtLeastOnce'
    BY Zenon, <1>1, StillEvident DEF DrainSettleFails, Inv, Evidence, SettleSent
  <2> QED
    BY Zenon, <2>1, <1>c DEF DrainSettleFails, Inv, Evidence
<1>7. Ladder'
  BY Zenon DEF DrainSettleFails, Inv, Ladder, LadderClimbs
<1> QED
  BY Zenon, <1>1, <1>2, <1>3, <1>4, <1>5, <1>6, <1>7, TypesJoin DEF Inv, Settles, Kept

\* The same for the acks a gateway sent.
LEMMA ApplyDeliveryAcksFailsInv ==
  ASSUME Inv, ApplyDeliveryAcksFails
  PROVE  Inv'
<1> PICK done \in PartOf(Head(ackCh)) : AckIds(done)
  BY Zenon DEF ApplyDeliveryAcksFails
<1>1. /\ Settles(done) /\ Settled' \subseteq Settled \cup done /\ done \subseteq Head(ackCh)
      /\ acked' \subseteq acked \cup done
  BY Zenon, AckStep, TypesSplit DEF Inv, PartOf
<1> USE DEF ApplyDeliveryAcksFails, queueVars, runVars, sessionVars, settings, netVars, history
<1>2. RestTypes'
  <2>1. ackCh' \in AckChans
    BY Zenon, AcksTyped
  <2> QED
    BY SMTT(60), <2>1, TypesSplit, SessionAssumption DEF Inv, RestTypes
<1>3. Shape'
  BY Zenon DEF Inv, Shape, Held
<1>4. Stranding'
  BY Zenon, <1>1 DEF Settles, Inv, Stranding, NothingStranded, Held
<1>5. Window'
  BY Zenon, <1>1, <1>2, WindowKept
<1>6. Evidence'
  <2>1. /\ 1 \in 1..Len(ackCh) /\ Head(ackCh) = ackCh[1]
        /\ \A k \in 1..Len(Tail(ackCh)) : Tail(ackCh)[k] = ackCh[k + 1] /\ k + 1 \in 1..Len(ackCh)
    BY Zenon, AcksTyped
  <2>2. Head(ackCh) \subseteq published
    BY Zenon, <2>1 DEF Inv, Evidence
  <2>3. AtLeastOnce'
    BY Zenon, <1>1, <2>2, StillEvident
  <2>4. \A k \in 1..Len(ackCh') : ackCh'[k] \subseteq published
    BY Zenon, <2>1 DEF Inv, Evidence
  <2> QED
    BY Zenon, <2>3, <2>4 DEF Inv, Evidence
<1>7. Ladder'
  BY Zenon DEF Inv, Ladder, LadderClimbs
<1> QED
  BY Zenon, <1>1, <1>2, <1>3, <1>4, <1>5, <1>6, <1>7, TypesJoin DEF Inv, Settles, Kept

-----------------------------------------------------------------------------
(* The steps that add items and take them.                                 *)

\* A new item is queued and nowhere else; one it displaces is dropped.
LEMMA EnqueueInv ==
  ASSUME Inv, NEW i \in Ids, Enqueue(i)
  PROVE  Inv'
<1> PICK old \in SUBSET queued :
      /\ queued' = (queued \ old) \cup {i}
      /\ dropped' = dropped \cup old /\ discarded' = discarded \cup old
  BY Zenon DEF Enqueue
<1>0. i \notin queued \cup inflight \cup Settled
  BY Zenon DEF Enqueue
<1> USE DEF Enqueue, runVars, sessionVars, settings, netVars, history
<1>1. /\ QueueTypes' /\ Places' /\ Settled' = Settled \cup old /\ acked' = acked
      /\ inflight' = inflight /\ attempts' = attempts
  <2>1. QueueTypes'
    BY Zenon, TypesSplit DEF Inv, QueueTypes
  <2>2. Settled' = Settled \cup old /\ inflight' = inflight /\ attempts' = attempts /\ acked' = acked
    BY Zenon DEF Settled
  <2>3. queued' = (queued \ old) \cup {i} /\ old \subseteq queued
    BY Zenon
  <2> HIDE DEF Enqueue
  <2> QED
    BY Zenon, <1>0, <2>1, <2>2, <2>3 DEF Inv, Places
<1>2. RestTypes'
  BY Zenon, TypesSplit DEF Inv, RestTypes
<1>3. AtLeastOnce'
  <2>1. Kept
    <3>1. \A j \in Ids : attempts'[j] >= attempts[j]
      BY <1>1, TypesSplit, SessionAssumption DEF Inv, QueueTypes
    <3> QED
      BY Zenon, <1>1, <3>1 DEF Kept
  <2> QED
    BY Zenon, <1>1, <2>1, EvidentStep
<1>4. Shape' /\ Stranding' /\ Window' /\ Evidence' /\ Ladder'
  BY Zenon, <1>1, <1>3 DEF Inv, Shape, Held, Stranding, NothingStranded, Window, WindowBounded, Evidence,
              Ladder, LadderClimbs
<1> QED
  BY Zenon, <1>1, <1>2, <1>4, TypesJoin DEF Inv

\* The window has room for a whole batch when one is taken.
LEMMA DrainDequeueInv ==
  ASSUME Inv, DrainDequeue
  PROVE  Inv'
<1>a. PICK gone \in SUBSET queued : \E batch \in SUBSET (queued \ gone) :
      /\ gone # {} => errors < MaxErrors
      /\ errors' = IF gone = {} THEN errors ELSE errors + 1
      /\ Cardinality(batch) <= drain.want
      /\ queued' = queued \ (gone \cup batch) /\ inflight' = inflight \cup batch
      /\ dropped' = dropped \cup gone /\ discarded' = discarded \cup gone
      /\ drain' = IF batch = {} THEN drain ELSE [drain EXCEPT !.pc = "send", !.todo = batch]
  BY Zenon DEF DrainDequeue
<1>b. PICK batch \in SUBSET (queued \ gone) :
      /\ gone # {} => errors < MaxErrors
      /\ errors' = IF gone = {} THEN errors ELSE errors + 1
      /\ Cardinality(batch) <= drain.want
      /\ queued' = queued \ (gone \cup batch) /\ inflight' = inflight \cup batch
      /\ dropped' = dropped \cup gone /\ discarded' = discarded \cup gone
      /\ drain' = IF batch = {} THEN drain ELSE [drain EXCEPT !.pc = "send", !.todo = batch]
  BY Zenon, <1>a
<1>1. /\ run = "up" /\ drain.pc = "dequeue" /\ DrainFrame
      /\ UNCHANGED <<attempts, acked, unrecorded, sessionErr, cancelled, wire, history>>
  BY Zenon DEF DrainDequeue
<1>2. QueueTypes' /\ Places' /\ Settled' = Settled \cup gone
  <2>1. QueueTypes'
    BY Zenon, <1>b, <1>1, TypesSplit DEF Inv, QueueTypes
  <2>2. Settled' = Settled \cup gone
    BY Zenon, <1>b, <1>1 DEF Settled
  <2> QED
    BY Zenon, <1>b, <1>1, <2>1, <2>2 DEF Inv, Places
<1>3. /\ drain \in Drains
      /\ batch \in SUBSET Ids
  BY Zenon, DrainTyped, TypesSplit DEF Inv, QueueTypes
<1>0. Held = {}
  BY Zenon, <1>1 DEF Inv, Shape
<1>4. /\ drain'.todo = batch /\ drain'.want = drain.want /\ drain'.tries = drain.tries
      /\ drain'.bad = drain.bad /\ drain'.sent = drain.sent /\ drain'.terminal = drain.terminal
      /\ drain'.pc = "send" \/ (drain'.pc = "dequeue" /\ batch = {})
  <2>1. CASE batch = {}
    BY Zenon, <1>b, <1>0, <1>1, <2>1 DEF Held
  <2>2. CASE batch # {}
    <3>1. drain' = [drain EXCEPT !.pc = "send", !.todo = batch]
      BY Zenon, <1>b, <2>2
    <3> QED
      BY Zenon, <1>3, <3>1 DEF Drains
  <2> QED
    BY Zenon, <2>1, <2>2
<1>5. RestTypes'
  <2>1. drain' \in Drains
    <3>1. [drain EXCEPT !.pc = "send", !.todo = batch] \in Drains
      BY Zenon, <1>3 DEF Drains, DrainPoints
    <3> QED
      BY Zenon, <1>b, <1>3, <3>1
  <2>2. errors' \in 0..MaxErrors
    <3>1. errors \in 0..MaxErrors
      BY Zenon, TypesSplit DEF Inv, RestTypes
    <3> QED
      BY <1>b, <3>1, SessionAssumption
  <2> QED
    BY Zenon, <1>1, <2>1, <2>2, TypesSplit DEF Inv, RestTypes, DrainFrame, runVars, settings, history
<1>6. Held' = batch
  BY Zenon, <1>0, <1>4 DEF Held
<1>7. Shape'
  <2>1. /\ run' = run /\ drain.want # 0 /\ drain.tries = 0
        /\ drain.todo = {} /\ drain.bad = {} /\ (drain'.pc = "dequeue" => Held' = {})
    BY Zenon, <1>0, <1>1, <1>4, <1>6 DEF Inv, Shape, Held, DrainFrame, runVars
  <2>2. CASE drain'.pc = "send"
    BY <1>1, <1>4, <2>1, <2>2 DEF Shape
  <2>3. CASE drain'.pc = "dequeue"
    BY <1>1, <1>4, <2>1, <2>3 DEF Shape
  <2> QED
    BY Zenon, <1>4, <2>2, <2>3
<1>8. Stranding'
  <2>1. drain'.pc # "discard"
    BY <1>4
  <2> QED
    BY Zenon, <1>b, <1>0, <1>1, <1>6, <2>1 DEF Inv, Stranding, NothingStranded, DrainFrame, runVars, settings
<1>9. Window'
  <2>1. IsFiniteSet(inflight) /\ IsFiniteSet(batch)
    BY Zenon, <1>3, SessionAssumption, FS_Subset, TypesSplit DEF Inv, QueueTypes
  <2>2. /\ Cardinality(inflight) \in Nat /\ Cardinality(batch) \in Nat
        /\ Cardinality(inflight \cap batch) \in Nat
        /\ Cardinality(inflight \cup batch) = Cardinality(inflight) + Cardinality(batch) - Cardinality(inflight \cap batch)
    BY Zenon, <2>1, FS_Union, FS_CardinalityType, FS_Intersection
  <2>3. Cardinality(inflight) <= drain.want
    BY Zenon, <1>1 DEF Inv, Window
  <2>4. drain.want \in Nat /\ drain.want <= MaxBatch /\ MaxBatch \in Nat
    BY <1>3, SessionAssumption DEF Drains
  <2>a. inflight' = inflight \cup batch /\ Cardinality(batch) <= drain.want
    BY Zenon, <1>b
  <2>5. Cardinality(inflight') <= maxInflightBatches * drain.want
    BY <2>a, <2>2, <2>3, <2>4 DEF maxInflightBatches
  <2>6. Cardinality(inflight') \in Int
    BY <2>a, <2>2
  <2>7. batch = {} => inflight' = inflight
    BY Zenon, <2>a
  <2>8. drain'.pc = "dequeue" => Cardinality(inflight') <= drain.want
    BY <1>4, <2>3, <2>7
  <2> QED
    BY <1>4, <2>4, <2>5, <2>6, <2>8 DEF Window, WindowBounded, maxInflightBatches
<1>10. Evidence'
  <2>1. Kept
    <3>1. \A i \in Ids : attempts'[i] >= attempts[i]
      BY <1>1, TypesSplit, SessionAssumption DEF Inv, QueueTypes
    <3> QED
      BY Zenon, <1>b, <1>2, <3>1 DEF Kept
  <2>2. AtLeastOnce'
    BY Zenon, <1>b, <1>1, <1>2, <2>1, EvidentStep DEF DrainFrame, history
  <2> QED
    BY Zenon, <1>1, <1>4, <2>2 DEF Inv, Evidence, DrainFrame, runVars, settings, history
<1>11. Ladder'
  BY Zenon, <1>1 DEF Inv, Ladder, LadderClimbs, DrainFrame, runVars
<1> QED
  BY Zenon, <1>2, <1>5, <1>7, <1>8, <1>9, <1>10, <1>11, TypesJoin DEF Inv

-----------------------------------------------------------------------------
(* The ends of sessions.                                                   *)

\* endSession leaves nothing inflight: in one mode it hands everything back, in
\* the other nothing was left.
LEMMA EndSessionStep ==
  ASSUME Inv, EndSession, run # "up" \/ drain.pc = "off"
  PROVE  /\ Settles(inflight) /\ inflight' = {}
         /\ acked' = acked /\ \A i \in Settled' \ Settled : attempts'[i] > MaxAttempts \/ i \in discarded'
         /\ published \subseteq published' /\ published' \subseteq Ids
<1>1. CASE deliveryAcks
  <2>1. NackIds(inflight, "sessionEnd")
    BY Zenon, <1>1 DEF EndSession
  <2>2. Settles(inflight) /\ acked' = acked /\ \A i \in Settled' \ Settled : attempts'[i] > MaxAttempts \/ i \in discarded'
    BY Zenon, <2>1, NackStep, TypesSplit DEF Inv
  <2> QED
    BY Zenon, <2>2 DEF EndSession, Settles, Kept, Inv, TypeOK
<1>2. CASE ~deliveryAcks
  <2>1. UNCHANGED queueVars
    BY Zenon, <1>2 DEF EndSession
  <2>2. inflight = {}
    BY Zenon, <1>2 DEF Inv, Shape, Stranding, NothingStranded
  <2>3. /\ QueueTypes' /\ Places' /\ SameSettled /\ inflight' = inflight /\ attempts' = attempts
    BY Zenon, <2>1, QueueSame
  <2>4. \A i \in Ids : attempts'[i] >= attempts[i]
    BY <2>3, TypesSplit, SessionAssumption DEF Inv, QueueTypes
  <2> QED
    BY Zenon, <2>2, <2>3, <2>4 DEF EndSession, Settles, Kept, SameSettled, Inv, TypeOK
<1> QED
  BY Zenon, <1>1, <1>2

\* Every way a session ends preserves the invariant.
LEMMA SessionEndInv ==
  ASSUME Inv, EndSession, run # "up" \/ drain.pc = "off", run' \in {"dial", "done"},
         attempt' \in 0..MaxRung, stalls' \in 0..MaxRung, stalled' \in BOOLEAN, UNCHANGED <<cancelled, ctxDone>>,
         attempt' >= stalls', ~stalled' => stalls' = 0
  PROVE  Inv'
<1>1. /\ Settles(inflight) /\ inflight' = {}
      /\ acked' = acked /\ \A i \in Settled' \ Settled : attempts'[i] > MaxAttempts \/ i \in discarded'
      /\ published \subseteq published' /\ published' \subseteq Ids
  BY Zenon, EndSessionStep
<1>2. drain' = drain /\ drain.pc = "off" /\ ackCh' = ackCh /\ acks' = {}
  BY Zenon DEF EndSession, Inv, Shape
<1>3. RestTypes'
  BY Zenon, <1>1, TypesSplit DEF EndSession, Inv, RestTypes, settings, history
<1>4. Shape'
  BY Zenon, <1>2 DEF Inv, Shape, Held
<1>5. Stranding'
  BY Zenon, <1>1 DEF Stranding, NothingStranded
<1>6. Window'
  BY Zenon, <1>1, <1>2, <1>3, WindowKept
<1>7. Evidence'
  <2>1. AtLeastOnce'
    BY Zenon, <1>1, StillEvident DEF EndSession, history
  <2> QED
    BY Zenon, <1>1, <1>2, <2>1 DEF EndSession, history, Inv, Evidence
<1>8. Ladder'
  BY Zenon DEF Ladder, LadderClimbs
<1> QED
  BY Zenon, <1>1, <1>3, <1>4, <1>5, <1>6, <1>7, <1>8, TypesJoin DEF Inv, Settles, Kept

\* A failed dial climbs one rung.
LEMMA ConnectFailsInv ==
  ASSUME Inv, ConnectFails
  PROVE  Inv'
<1>1. attempt' = NextRung(attempt) /\ stalls' = stalls /\ stalled' = stalled /\ run' = "dial" /\ run = "dial"
  BY Zenon DEF ConnectFails
<1>2. attempt \in 0..MaxRung /\ stalls \in 0..MaxRung /\ stalls <= attempt /\ stalled \in BOOLEAN
      /\ (~stalled => stalls = 0)
  BY Zenon, <1>1, TypesSplit DEF Inv, RestTypes, Ladder, LadderClimbs
<1>3. attempt' \in 0..MaxRung /\ attempt' >= stalls'
  BY <1>1, <1>2, SessionAssumption DEF NextRung
<1> QED
  BY <1>1, <1>2, <1>3, SessionEndInv DEF ConnectFails

\* Run returns: the rejection is final, or the context is done.
LEMMA RunEndsInv ==
  ASSUME Inv, Rejected \/ RunStops
  PROVE  Inv'
<1>1. /\ EndSession /\ attempt' = attempt /\ stalls' = stalls /\ stalled' = stalled
      /\ run' = "done" /\ run = "dial" /\ UNCHANGED <<cancelled, ctxDone>>
  BY Zenon DEF Rejected, RunStops
<1>2. attempt \in 0..MaxRung /\ stalls \in 0..MaxRung /\ attempt >= stalls /\ stalled \in BOOLEAN
      /\ (~stalled => stalls = 0)
  BY Zenon, <1>1, TypesSplit DEF Inv, RestTypes, Ladder, LadderClimbs
<1> QED
  BY Zenon, <1>1, <1>2, SessionEndInv

\* A session that stalled climbs a rung on both counts; any other forgets its stalls.
LEMMA SessionOverInv ==
  ASSUME Inv, SessionOver
  PROVE  Inv'
<1>1. attempt \in 0..MaxRung /\ stalls \in 0..MaxRung /\ stalls <= attempt
  BY Zenon, TypesSplit DEF Inv, RestTypes, Ladder, LadderClimbs
<1>2. EndSession /\ drain.pc = "off" /\ run' \in {"dial", "done"} /\ UNCHANGED <<cancelled, ctxDone>>
  BY Zenon DEF SessionOver
<1>3. CASE sessionErr = "stalled"
  <2>1. stalled' = TRUE /\ attempt' = NextRung(attempt) /\ stalls' = NextRung(stalls)
    BY Zenon, <1>3 DEF SessionOver
  <2>2. attempt' \in 0..MaxRung /\ stalls' \in 0..MaxRung /\ attempt' >= stalls'
    BY <1>1, <2>1, SessionAssumption DEF NextRung
  <2> QED
    BY Zenon, <1>2, <2>1, <2>2, SessionEndInv
<1>4. CASE sessionErr # "stalled"
  <2>1. stalled' = FALSE /\ attempt' = attempt /\ stalls' = 0
    BY Zenon, <1>4 DEF SessionOver
  <2>2. attempt' \in 0..MaxRung /\ stalls' \in 0..MaxRung /\ attempt' >= stalls'
    BY <1>1, <2>1, SessionAssumption
  <2> QED
    BY Zenon, <1>2, <2>1, <2>2, SessionEndInv
<1> QED
  BY Zenon, <1>3, <1>4

-----------------------------------------------------------------------------
(* The invariant and what follows from it.                                 *)

\* The invariant holds at the start.
LEMMA InitInv == Init => Inv
<1> SUFFICES ASSUME Init PROVE Inv
  BY Zenon
<1> USE DEF Init
<1>1. TypeOK
  <2>1. drain \in Drains
    <3>1. 0 \in 0..MaxBatch /\ 0 \in 0..maxAckAttempts
      BY SessionAssumption DEF maxAckAttempts
    <3>2. "off" \in DrainPoints
      BY Zenon DEF DrainPoints
    <3> QED
      BY Zenon, <3>1, <3>2 DEF Idle, Drains
  <2>2. ackCh \in Seq(SUBSET Ids) /\ Len(ackCh) <= AckCap
    BY SessionAssumption
  <2>3. attempts \in [Ids -> 0..(MaxAttempts + 1)]
    BY SessionAssumption
  <2>4. attempt \in 0..MaxRung /\ stalls \in 0..MaxRung /\ cuts \in 0..MaxCuts /\ errors \in 0..MaxErrors
    BY SessionAssumption
  <2>5. /\ stalled \in BOOLEAN /\ cancelled \in BOOLEAN /\ deliveryAcks \in BOOLEAN
        /\ cut \in BOOLEAN /\ ctxDone \in BOOLEAN
    BY Zenon
  <2> QED
    BY Zenon, <2>1, <2>2, <2>3, <2>4, <2>5 DEF TypeOK, Drains
<1>2. Places
  BY SessionAssumption DEF Places, Settled
<1>3. Shape /\ Stranding
  BY Zenon DEF Shape, Held, Idle, Stranding, NothingStranded
<1>4. Window
  <2>1. Cardinality(inflight) = 0
    BY Zenon, FS_EmptySet
  <2> QED
    BY <2>1, SessionAssumption DEF Window, WindowBounded, Idle, maxInflightBatches
<1>5. Evidence
  <2>1. AtLeastOnce
    BY Zenon DEF AtLeastOnce, Settled
  <2>2. 1..Len(ackCh) = {}
    OBVIOUS
  <2>3. drain.terminal = {} /\ drain.sent = {}
    BY Zenon DEF Idle
  <2> QED
    BY Zenon, <2>1, <2>2, <2>3 DEF Evidence
<1>6. Ladder
  BY DEF Ladder, LadderClimbs
<1> QED
  BY Zenon, <1>1, <1>2, <1>3, <1>4, <1>5, <1>6 DEF Inv

\* Every step preserves the invariant.
LEMMA NextInv == Inv /\ [Next]_vars => Inv'
<1> SUFFICES ASSUME Inv, [Next]_vars PROVE Inv'
  BY Zenon
<1>1. CASE \E i \in Ids : Enqueue(i) \/ Publish(i)
  BY Zenon, <1>1, EnqueueInv, PublishInv
<1>2. CASE \E mode \in AckModes : Handshake(mode)
  BY Zenon, <1>2, HandshakeInv
<1>3. CASE ConnectFails \/ Rejected \/ RunStops \/ ContextCancelled \/ SessionOver
  BY Zenon, <1>3, ConnectFailsInv, RunEndsInv, ContextCancelledInv, SessionOverInv
<1>4. CASE \E n \in 1..MaxBatch : SetBatchSize(n)
  BY Zenon, <1>4, SetBatchSizeInv
<1>5. CASE DrainStep
  <2>1. CASE DrainTop \/ DrainRoom \/ DrainDequeue \/ DrainReturns
    BY Zenon, <2>1, DrainTopInv, DrainRoomInv, DrainDequeueInv, DrainReturnsInv
  <2>2. CASE \E i \in Ids : DrainJudge(i) \/ DrainSend(i) \/ DrainSendFails(i)
    BY Zenon, <2>2, DrainJudgeInv, DrainSendInv, DrainSendFailsInv
  <2>3. CASE DrainNackUntried \/ DrainNackFailed \/ DrainBatchDone
    BY Zenon, <2>3, DrainNackUntriedInv, DrainNackFailedInv, DrainBatchDoneInv
  <2>4. CASE DrainSettle \/ DrainSettleFails \/ DrainRedeliver \/ DrainDiscard
    BY Zenon, <2>4, DrainSettleInv, DrainSettleFailsInv, DrainRedeliverInv, DrainDiscardInv
  <2> QED
    BY Zenon, <1>5, <2>1, <2>2, <2>3, <2>4 DEF DrainStep
<1>6. CASE WorkerAborts \/ SweepNack \/ Cut
  BY Zenon, <1>6, WorkerAbortsInv, SweepNackInv, CutInv
<1>7. CASE \E ids \in SUBSET acks : RecvAck(ids)
  BY Zenon, <1>7, RecvAckInv
<1>8. CASE ApplyDeliveryAcks \/ ApplyDeliveryAcksFails
  BY Zenon, <1>8, ApplyDeliveryAcksInv, ApplyDeliveryAcksFailsInv
<1>9. CASE \E ids \in SUBSET inflight : SweepCollect(ids)
  BY <1>9, SweepCollectInv
<1>10. CASE UNCHANGED vars
  <2> USE DEF vars, queueVars, runVars, sessionVars, settings, netVars, history
  <2>1. QueueTypes' /\ Places' /\ SameSettled /\ inflight' = inflight /\ attempts' = attempts
    BY Zenon, <1>10, QueueSame
  <2>2. RestTypes'
    BY Zenon, <1>10, TypesSplit DEF Inv, RestTypes
  <2>3. Shape' /\ Stranding'
    BY Zenon, <1>10 DEF Inv, Shape, Held, Stranding, NothingStranded
  <2>4. Window' /\ Ladder'
    BY Zenon, <1>10 DEF Inv, Window, WindowBounded, Ladder, LadderClimbs
  <2>5. Evidence'
    BY Zenon, <1>10, <2>1 DEF Inv, Evidence, AtLeastOnce, SameSettled
  <2> QED
    BY Zenon, <2>1, <2>2, <2>3, <2>4, <2>5, TypesJoin DEF Inv
<1> QED
  BY Zenon, <1>1, <1>2, <1>3, <1>4, <1>5, <1>6, <1>7, <1>8, <1>9, <1>10 DEF Next

\* The invariant holds in every session, for any items, sizes and failures.
THEOREM SessionInvariance == Spec => []Inv
  BY InitInv, NextInv, PTL DEF Spec

\* Whatever a session took from the queue is settled or handed back when it
\* ends: endSession leaves nothing inflight, in both delivery modes.
THEOREM NothingIsStranded == Spec => []NothingStranded
<1>1. Inv => NothingStranded
  BY Zenon DEF Inv, Stranding
<1> QED
  BY <1>1, SessionInvariance, PTL

\* waitForInflightRoom keeps the unacknowledged items within two batches, also
\* when the batch size changes under the drain.
THEOREM WindowIsBounded == Spec => []WindowBounded
<1>1. Inv => WindowBounded
  BY Zenon DEF Inv, Window
<1> QED
  BY <1>1, SessionInvariance, PTL

\* Only what was published, judged undeliverable or sent to a gateway that does
\* not ack is acked, and nothing else is given up but what was tried too often
\* and what the queue itself dropped: no room for it, or an unreadable record.
THEOREM DeliveryIsAtLeastOnce == Spec => []AtLeastOnce
<1>1. Inv => AtLeastOnce
  BY Zenon DEF Inv, Evidence
<1> QED
  BY <1>1, SessionInvariance, PTL

\* Sessions that stall in a row climb the backoff ladder.
THEOREM LadderIsClimbed == Spec => []LadderClimbs
<1>1. Inv => LadderClimbs
  BY Zenon DEF Inv, Ladder
<1> QED
  BY <1>1, SessionInvariance, PTL
====
