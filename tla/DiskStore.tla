------------------------------ MODULE DiskStore ------------------------------
(***************************************************************************)
(* The write-ahead log behind the queue's disk tier: diskStore in          *)
(* internal/queue/disk.go.                                                 *)
(*                                                                         *)
(* Every record has length one, so an offset is a record count: a record   *)
(* is looked up at the position segmentSize predicted for it, while the    *)
(* O_APPEND file puts it at its real end.  The two agree as long as no     *)
(* write failed half way, which is what makes failed writes interesting.   *)
(*                                                                         *)
(* A record is [t, id, att] with t one of                                  *)
(*   item  an item record, with the Attempts it was spilled with           *)
(*   ack   an ack record                                                   *)
(*   torn  bytes of a record that stop a replay                            *)
(*   cut   an item record whose id and lengths were written but whose      *)
(*         payload was not: the next bytes of the file complete it, so it  *)
(*         then reads back as that item with somebody else's payload,      *)
(*         EnqueuedAt and Attempts                                         *)
(***************************************************************************)
EXTENDS Integers, Sequences, FiniteSets, Functions

CONSTANTS
  Ids,          \* item ids: numbers, in the order of EnqueuedAt
  SegmentMax,   \* records in a segment (segmentMaxBytes)
  DiskMax,      \* records on disk (maxBytes, the byte cap)
  MaxAttempts,  \* maxDeliveryAttempts: what the queue lets a record carry
  WriteFaults,  \* the ways in which a file operation may fail
  CrashFaults,  \* what a crash may leave half done
  MaxFaults     \* how many of them fail in one behaviour

\* The kinds of I/O failure the model knows.
FaultKinds == {"clean", "torn", "cut", "fsync", "rotate", "header", "unlink", "close"}

ASSUME StoreAssumption ==
  /\ Ids \subseteq Nat \ {0} /\ IsFiniteSet(Ids)
  /\ SegmentMax \in Nat \ {0} /\ DiskMax \in Nat \ {0} /\ MaxAttempts \in Nat
  /\ WriteFaults \subseteq FaultKinds /\ CrashFaults \subseteq FaultKinds /\ MaxFaults \in Nat

VARIABLES
  files,        \* spill directory: segment number -> [hdr, recs]
  segmentNum,   \* the segment being appended to
  segment,      \* TRUE iff ds.segment # nil
  segmentSize,  \* the offset the next record is believed to land at
  totalBytes,   \* what the byte cap is checked against
  storeClosed,  \* ds.closed
  faults        \* I/O failures so far

storeVars == <<files, segmentNum, segment, segmentSize, totalBytes, storeClosed, faults>>

RecordTypes == {"item", "ack", "torn", "cut"}
\* The counts a record can carry.  The queue writes none above its cap; foreign
\* bytes read as any, and MaxAttempts + 1 stands for all that are past it.
Cuts == "cut" \in WriteFaults \cup CrashFaults
Attempts == 0..(IF Cuts THEN MaxAttempts + 1 ELSE MaxAttempts)
Records == [t : RecordTypes, id : Ids, att : Attempts]

ItemRecord(i, a) == [t |-> "item", id |-> i, att |-> a]
AckRecord(i) == [t |-> "ack", id |-> i, att |-> 0]
Torn(rec) == [rec EXCEPT !.t = "torn"]
\* a is what readItemHeader will make of the bytes behind the tear.
Cut(rec, a) == [rec EXCEPT !.t = "cut", !.att = a]

EmptySegment == [hdr |-> TRUE, recs |-> <<>>]
HeaderlessSegment == [hdr |-> FALSE, recs |-> <<>>]

WithFile(fs, n, f) == [m \in DOMAIN fs \cup {n} |-> IF m = n THEN f ELSE fs[m]]
Without(fs, n) == [m \in DOMAIN fs \ {n} |-> fs[m]]
Put(fs, n, rec) == WithFile(fs, n, [fs[n] EXCEPT !.recs = Append(@, rec)])

Segments == [hdr : BOOLEAN, recs : Seq(Records)]
StoreTypeOK ==
  /\ DOMAIN files \subseteq Nat /\ \A n \in DOMAIN files : files[n] \in Segments
  /\ segmentNum \in Nat /\ segment \in BOOLEAN /\ segmentSize \in Nat /\ totalBytes \in Nat
  /\ storeClosed \in BOOLEAN /\ faults \in Nat

\* refreshTotalBytes: the bytes in the directory.
TotalBytes(fs) == Cardinality(UNION {{n} \X (1..Len(fs[n].recs)) : n \in DOMAIN fs})

-----------------------------------------------------------------------------
(***************************************************************************)
(* appendRecord.  WriteOK(rec) appends rec and fsyncs it; the caller takes *)
(* its location from Location.  WriteFail(rec) is every return with an     *)
(* error.                                                                  *)
(***************************************************************************)

\* The byte cap gates item records only: an ack is what makes room.
DiskFull(rec) == rec.t = "item" /\ totalBytes + 1 > DiskMax

\* The returns before anything is written.
Refuses(rec) == storeClosed \/ DiskFull(rec) \/ ~segment

Rotates == segmentSize + 1 > SegmentMax
TargetNum == IF Rotates THEN segmentNum + 1 ELSE segmentNum
TargetSize == IF Rotates THEN 0 ELSE segmentSize
TargetFiles == IF Rotates THEN WithFile(files, segmentNum + 1, EmptySegment) ELSE files

\* (mutant) the location is taken before the rotation
LocationBeforeRotation == [seg |-> segmentNum, pos |-> segmentSize + 1]
Location == [seg |-> TargetNum, pos |-> TargetSize + 1]

WriteOK(rec) ==
  /\ ~Refuses(rec)
  /\ files' = Put(TargetFiles, TargetNum, rec)
  /\ segmentNum' = TargetNum
  /\ segmentSize' = TargetSize + 1
  /\ totalBytes' = totalBytes + 1
  /\ UNCHANGED <<segment, storeClosed, faults>>

\* What a failed header write, body write or fsync leaves in the file.
Leftovers(rec) ==
  (IF "torn" \in WriteFaults THEN {Torn(rec)} ELSE {})
    \cup (IF "cut" \in WriteFaults /\ rec.t = "item" THEN {Cut(rec, a) : a \in Attempts} ELSE {})
    \cup (IF "fsync" \in WriteFaults THEN {rec} ELSE {})

Fault == faults < MaxFaults /\ faults' = faults + 1

\* A write or fsync fails: the counters do not move, whatever the file got.
WriteFault(rec) ==
  /\ ~Refuses(rec)
  /\ Fault
  /\ \/ "clean" \in WriteFaults /\ files' = TargetFiles
     \/ \E left \in Leftovers(rec) : files' = Put(TargetFiles, TargetNum, left)
  /\ segmentNum' = TargetNum
  /\ segmentSize' = TargetSize
  /\ UNCHANGED <<segment, totalBytes, storeClosed>>

\* createSegment fails during a rotation: the old file is already closed and
\* ds.segment stays nil, with or without a headerless file left behind.
RotateFault(rec) ==
  /\ ~Refuses(rec)
  /\ Rotates
  /\ Fault
  /\ \/ "rotate" \in WriteFaults /\ files' = files
     \/ "header" \in WriteFaults /\ files' = WithFile(files, segmentNum + 1, HeaderlessSegment)
  /\ segment' = FALSE
  /\ UNCHANGED <<segmentNum, segmentSize, totalBytes, storeClosed>>

WriteFail(rec) ==
  \/ Refuses(rec) /\ UNCHANGED storeVars
  \/ WriteFault(rec)
  \/ RotateFault(rec)

-----------------------------------------------------------------------------
(***************************************************************************)
(* readItem, and the ID check its only caller adds.                        *)
(***************************************************************************)

RecordAt(ref) == files[ref.seg].recs[ref.pos]

\* A record the reader takes for an item: a cut one needs bytes after it.
ReadsAsItem(n, p) ==
  LET recs == files[n].recs
  IN  p \in 1..Len(recs) /\ (recs[p].t = "item" \/ (recs[p].t = "cut" /\ p < Len(recs)))

Readable(ref) ==
  /\ ref.seg \in DOMAIN files
  /\ ReadsAsItem(ref.seg, ref.pos)
  /\ RecordAt(ref).id = ref.id

\* The payload that comes back is the item's own.
Intact(ref) == Readable(ref) /\ RecordAt(ref).t = "item"

-----------------------------------------------------------------------------
(***************************************************************************)
(* removeSegment.                                                          *)
(***************************************************************************)

RemoveOK(n) ==
  /\ ~storeClosed /\ n < segmentNum
  /\ files' = Without(files, n)
  /\ totalBytes' = IF n \in DOMAIN files
                   THEN IF totalBytes < Len(files[n].recs) THEN 0
                        ELSE totalBytes - Len(files[n].recs)
                   ELSE TotalBytes(files)
  /\ UNCHANGED <<segmentNum, segment, segmentSize, storeClosed, faults>>

RemoveFail(n) ==
  \/ (storeClosed \/ n >= segmentNum) /\ UNCHANGED storeVars
  \/ /\ ~storeClosed /\ n < segmentNum
     /\ "unlink" \in WriteFaults /\ Fault
     /\ UNCHANGED <<files, segmentNum, segment, segmentSize, totalBytes, storeClosed>>

CloseStore == storeClosed' = TRUE /\ segment' = FALSE

-----------------------------------------------------------------------------
(***************************************************************************)
(* recover and replaySegment.  A segment without a header is skipped, and  *)
(* a replay stops at the first record it cannot parse.  An id is pending   *)
(* iff some item record of it and no ack record of it was replayed; its    *)
(* reference is the last such item record.                                 *)
(***************************************************************************)

Parses(n, p) == files[n].recs[p].t \in {"item", "ack"}

Replayed(n) ==
  IF ~files[n].hdr THEN {}
  ELSE {p \in 1..Len(files[n].recs) :
          /\ \A q \in 1..(p - 1) : Parses(n, q)
          /\ Parses(n, p) \/ ReadsAsItem(n, p)}

ReplayedAt == UNION {{n} \X Replayed(n) : n \in DOMAIN files}
ReplayedItems == {r \in ReplayedAt : files[r[1]].recs[r[2]].t # "ack"}
ReplayedAcks == {files[r[1]].recs[r[2]].id : r \in ReplayedAt \ ReplayedItems}

Later(r, s) == r[1] > s[1] \/ (r[1] = s[1] /\ r[2] > s[2])
IdAt(r) == files[r[1]].recs[r[2]].id

Pending == {r \in ReplayedItems :
              /\ IdAt(r) \notin ReplayedAcks
              /\ \A s \in ReplayedItems : IdAt(s) = IdAt(r) => ~Later(s, r)}
PendingIds == {IdAt(r) : r \in Pending}

\* The recovered references, one per pending id, oldest EnqueuedAt first.  That
\* of a cut record is foreign bytes too: it sorts anywhere.
RefAt(r) == [id |-> IdAt(r), att |-> files[r[1]].recs[r[2]].att, seg |-> r[1], pos |-> r[2]]
IsCut(r) == files[r[1]].recs[r[2]].t = "cut"
OldestFirst(s) ==
  \A j, k \in DOMAIN s : j < k =>
    \/ IdAt(s[j]) < IdAt(s[k])
    \/ IdAt(s[j]) # IdAt(s[k]) /\ (IsCut(s[j]) \/ IsCut(s[k]))
Recoveries ==
  LET P == Pending
  IN  {s \in [1..Cardinality(PendingIds) -> P] : Range(s) = P /\ OldestFirst(s)}

\* openLatestSegment: appending resumes in the last file as it is, unless it
\* is full or there is none.
IsLatest(n) == n \in DOMAIN files /\ \A m \in DOMAIN files : m <= n
Creates(n) ==
  \/ DOMAIN files = {} /\ n = 0
  \/ \E m \in DOMAIN files : IsLatest(m) /\ Len(files[m].recs) >= SegmentMax /\ n = m + 1
Reopens(n) == IsLatest(n) /\ Len(files[n].recs) < SegmentMax
SegmentNums == DOMAIN files \cup {m + 1 : m \in DOMAIN files} \cup {0}

OpenAt(n, fs) ==
  /\ files' = fs
  /\ segmentNum' = n
  /\ segment' = TRUE
  /\ segmentSize' = Len(fs[n].recs)
  /\ totalBytes' = TotalBytes(fs)
  /\ storeClosed' = FALSE
  /\ UNCHANGED faults

OpenStore ==
  \E n \in SegmentNums :
    \/ Creates(n) /\ OpenAt(n, WithFile(files, n, EmptySegment))
    \/ Reopens(n) /\ OpenAt(n, files)

\* What a crash in the middle of appending rec can leave in the directory.
CrashImages(rec, kinds) ==
  {files}
    \cup (IF "torn" \in kinds /\ ~Refuses(rec)
          THEN {Put(TargetFiles, TargetNum, Torn(rec))} ELSE {})
    \cup (IF "cut" \in kinds /\ ~Refuses(rec) /\ rec.t = "item"
          THEN {Put(TargetFiles, TargetNum, Cut(rec, a)) : a \in Attempts} ELSE {})
    \cup (IF "header" \in kinds /\ ~Refuses(rec) /\ Rotates
          THEN {WithFile(files, segmentNum + 1, HeaderlessSegment)} ELSE {})
=============================================================================
