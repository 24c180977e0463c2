----------------------------- MODULE LogContents ----------------------------
(***************************************************************************)
(* What a directory of segments contains: the relation of its records, the *)
(* items it says are written, retired and outstanding, and what a sound    *)
(* directory looks like.                                                   *)
(***************************************************************************)
EXTENDS DiskStore

\* A directory is a finite set of numbered segments of records.
FilesOK(fs) == DOMAIN fs \subseteq Nat /\ IsFiniteSet(DOMAIN fs) /\ \A n \in DOMAIN fs : fs[n] \in Segments

\* The ids with a record, whole or torn, in a directory.
IdsIn(fs) == {i \in Ids : \E n \in DOMAIN fs : \E p \in DOMAIN fs[n].recs : fs[n].recs[p].id = i}

\* What the proofs use of finite sets and of the counts taken of them.
Counting ==
  /\ IsFiniteSet({}) /\ Cardinality({}) = 0
  /\ \A S, T : IsFiniteSet(T) /\ S \subseteq T => IsFiniteSet(S)
  /\ \A S, x : IsFiniteSet(S) =>
       /\ Cardinality(S) \in Nat /\ (Cardinality(S) = 0 => S = {})
       /\ IsFiniteSet(S \cup {x}) /\ (x \notin S => Cardinality(S \cup {x}) = Cardinality(S) + 1)
       /\ IsFiniteSet(S \ {x}) /\ (x \in S => Cardinality(S \ {x}) = Cardinality(S) - 1)
  /\ \A fs : FilesOK(fs) => TotalBytes(fs) \in Nat

\* The invariant of the store: an open segment is in the directory.
StoreInv ==
  /\ Counting /\ StoreTypeOK /\ IsFiniteSet(DOMAIN files)
  /\ segment => segmentNum \in DOMAIN files

\* How a write changes the directory: it grows above the current segment.
Grown(i) ==
  /\ DOMAIN files \subseteq DOMAIN files'
  /\ \A m \in DOMAIN files' : m \in DOMAIN files \/ m > segmentNum
  /\ segmentNum \in DOMAIN files => segmentNum' \in DOMAIN files'
  /\ IdsIn(files') \subseteq IdsIn(files) \cup {i}
  /\ segment' => segment

-----------------------------------------------------------------------------
(***************************************************************************)
(* The directory as a relation: which record is where.                     *)
(***************************************************************************)

Cell(fs, n, p, r) == n \in DOMAIN fs /\ p \in 1..Len(fs[n].recs) /\ r = fs[n].recs[p]
ItemAt(fs, i, n, p) == \E r : Cell(fs, n, p, r) /\ r.t = "item" /\ r.id = i
AckAt(fs, i, n) == \E p, r : Cell(fs, n, p, r) /\ r.t = "ack" /\ r.id = i
Written(fs) == {i \in Ids : \E n, p : ItemAt(fs, i, n, p)}
Retired(fs) == {i \in Ids : \E n : AckAt(fs, i, n)}
Outstanding(fs) == Written(fs) \ Retired(fs)

\* Every file has its header and every record parses.
Clean(fs) ==
  /\ \A n \in DOMAIN fs : fs[n].hdr
  /\ \A n, p, r : Cell(fs, n, p, r) => r.t \in {"item", "ack"}

\* The same, but for what a crash can leave: an empty file, or a last record
\* that does not parse.
Legible(fs) ==
  /\ \A n \in DOMAIN fs : fs[n].hdr \/ Len(fs[n].recs) = 0
  /\ \A n, p, r : Cell(fs, n, p, r) => r.t \in {"item", "ack"} \/ p = Len(fs[n].recs)

\* An item is written once, and acked in its own segment or a later one.
Ordered(fs) ==
  /\ \A i, n, p, m, q : ItemAt(fs, i, n, p) /\ ItemAt(fs, i, m, q) => n = m /\ p = q
  /\ \A i, n, p, m : ItemAt(fs, i, n, p) /\ AckAt(fs, i, m) => n <= m

\* The counters agree with the directory.
AtEnd ==
  segment => /\ segmentNum \in DOMAIN files /\ segmentSize = Len(files[segmentNum].recs)
             /\ \A m \in DOMAIN files : m <= segmentNum

\* The directory gs is fs with the record rec at position P of segment N.
Adds(fs, gs, N, P, rec) ==
  \A n, p, r : Cell(gs, n, p, r) <=> Cell(fs, n, p, r) \/ (n = N /\ p = P /\ r = rec)

\* The directory gs is fs without segment N.
Drops(fs, gs, N) == \A n, p, r : Cell(gs, n, p, r) <=> n # N /\ Cell(fs, n, p, r)
=============================================================================
