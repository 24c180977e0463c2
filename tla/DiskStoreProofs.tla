-------------------------- MODULE DiskStoreProofs ---------------------------
(***************************************************************************)
(* What the operations of the log do to its directory: which segments      *)
(* exist, that the counters stay numbers, whose records are in it and      *)
(* where.  Before that, facts about sequences of entries.                  *)
(***************************************************************************)
EXTENDS LogContents, EntrySequences, TLAPS

-----------------------------------------------------------------------------
(***************************************************************************)
(* The ids and the elements of sequences: appended, shortened at either    *)
(* end, concatenated and reversed.                                         *)
(***************************************************************************)

\* The empty sequence holds nothing.
LEMMA EmptyEntries == EntryIds(<<>>) = {} /\ Range(<<>>) = {} /\ DistinctIds(<<>>)
  BY DEF EntryIds, Range, DistinctIds

\* What Append, as in memCh <- item, adds.
LEMMA AppendEntries ==
  ASSUME NEW S, NEW s \in Seq(S), NEW e \in S
  PROVE  /\ Append(s, e) \in Seq(S)
         /\ EntryIds(Append(s, e)) = EntryIds(s) \cup {e.id}
         /\ Range(Append(s, e)) = Range(s) \cup {e}
         /\ DistinctIds(s) /\ e.id \notin EntryIds(s) => DistinctIds(Append(s, e))
<1> DEFINE t == Append(s, e)
<1> /\ t \in Seq(S) /\ Len(t) = Len(s) + 1 /\ DOMAIN t = 1..(Len(s) + 1)
    /\ DOMAIN s = 1..Len(s) /\ Len(s) \in Nat
    /\ \A k \in 1..Len(s) : t[k] = s[k]
    /\ t[Len(s) + 1] = e
  OBVIOUS
<1> HIDE DEF t
<1> \A k \in DOMAIN t : k \in DOMAIN s \/ k = Len(s) + 1
  OBVIOUS
<1>1. EntryIds(t) = EntryIds(s) \cup {e.id}
  BY DEF EntryIds
<1>2. Range(t) = Range(s) \cup {e}
  BY DEF Range
<1>3. DistinctIds(s) /\ e.id \notin EntryIds(s) => DistinctIds(t)
  BY DEF EntryIds, DistinctIds
<1> QED
  BY Zenon, <1>1, <1>2, <1>3 DEF t

\* What taking the head, as in <-memCh or diskRefs[1:], removes.
LEMMA TailEntries ==
  ASSUME NEW S, NEW s \in Seq(S), s # <<>>
  PROVE  /\ Head(s) \in S /\ Tail(s) \in Seq(S)
         /\ EntryIds(s) = EntryIds(Tail(s)) \cup {Head(s).id}
         /\ Range(s) = Range(Tail(s)) \cup {Head(s)}
         /\ DistinctIds(s) => DistinctIds(Tail(s)) /\ Head(s).id \notin EntryIds(Tail(s))
<1> DEFINE t == Tail(s)
<1>1. /\ t \in Seq(S) /\ DOMAIN t = 1..(Len(s) - 1)
      /\ DOMAIN s = 1..Len(s) /\ Len(s) \in Nat \ {0}
      /\ \A k \in DOMAIN t : t[k] = s[k + 1]
      /\ Head(s) = s[1] /\ Head(s) \in S
  OBVIOUS
<1> HIDE DEF t
<1>2. \A k \in DOMAIN s : k = 1 \/ (k - 1 \in DOMAIN t /\ t[k - 1] = s[k])
  BY <1>1
<1>3. \A k \in DOMAIN t : k + 1 \in DOMAIN s /\ k + 1 # 1 /\ t[k] = s[k + 1]
  BY <1>1
<1>4. EntryIds(s) = EntryIds(t) \cup {Head(s).id}
  <2>1. \A i \in EntryIds(s) : i \in EntryIds(t) \/ i = Head(s).id
    BY <1>1, <1>2 DEF EntryIds
  <2>2. \A i \in EntryIds(t) : i \in EntryIds(s)
    BY Zenon, <1>3 DEF EntryIds
  <2>3. Head(s).id \in EntryIds(s)
    BY <1>1 DEF EntryIds
  <2> QED
    BY Zenon, <2>1, <2>2, <2>3
<1>5. Range(s) = Range(t) \cup {Head(s)}
  BY <1>1, <1>2, <1>3 DEF Range
<1>6. ASSUME DistinctIds(s) PROVE DistinctIds(t) /\ Head(s).id \notin EntryIds(t)
  <2>1. ASSUME NEW j \in DOMAIN t, NEW k \in DOMAIN t, t[j].id = t[k].id PROVE j = k
    <3>1. j + 1 = k + 1
      BY <1>3, <1>6, <2>1 DEF DistinctIds
    <3> QED
      BY <1>1, <3>1
  <2>2. \A k \in DOMAIN t : t[k].id # s[1].id
    BY SMTT(60), <1>1, <1>3, <1>6 DEF DistinctIds
  <2> QED
    BY Zenon, <1>1, <2>1, <2>2 DEF DistinctIds, EntryIds
<1> QED
  BY Zenon, <1>1, <1>4, <1>5, <1>6 DEF t

\* The same at the other end: the last of frontMemory goes first.
LEMMA FrontEntries ==
  ASSUME NEW S, NEW s \in Seq(S), s # <<>>
  PROVE  /\ Last(s) \in S /\ Front(s) \in Seq(S)
         /\ EntryIds(s) = EntryIds(Front(s)) \cup {Last(s).id}
         /\ Range(s) = Range(Front(s)) \cup {Last(s)}
         /\ DistinctIds(s) => DistinctIds(Front(s)) /\ Last(s).id \notin EntryIds(Front(s))
<1> DEFINE t == Front(s)
<1> DOMAIN s = 1..Len(s) /\ Len(s) \in Nat \ {0} /\ \A k \in 1..Len(s) : s[k] \in S
  OBVIOUS
<1>1. \A k \in 1..(Len(s) - 1) : s[k] \in S
  OBVIOUS
<1> /\ t \in Seq(S) /\ Len(t) = Len(s) - 1
    /\ \A k \in 1..(Len(s) - 1) : t[k] = s[1 + k - 1]
  BY <1>1 DEF Front
<1> HIDE DEF t
<1> DOMAIN t = 1..(Len(s) - 1) /\ \A k \in DOMAIN t : t[k] = s[k]
  OBVIOUS
<1> \A k \in DOMAIN s : k = Len(s) \/ k \in DOMAIN t
  OBVIOUS
<1>2. EntryIds(s) = EntryIds(t) \cup {Last(s).id}
  BY DEF EntryIds, Last
<1>3. DistinctIds(s) => DistinctIds(t) /\ Last(s).id \notin EntryIds(t)
  BY DEF EntryIds, DistinctIds, Last
<1>4. Range(s) = Range(t) \cup {Last(s)}
  BY DEF Range, Last
<1> QED
  BY <1>2, <1>3, <1>4 DEF t, Last

\* Concatenation, as in append(frontRefs, q.diskRefs...).
LEMMA ConcatEntries ==
  ASSUME NEW S, NEW s \in Seq(S), NEW t \in Seq(S)
  PROVE  /\ s \o t \in Seq(S)
         /\ EntryIds(s \o t) = EntryIds(s) \cup EntryIds(t)
         /\ Range(s \o t) = Range(s) \cup Range(t)
         /\ DistinctIds(s) /\ DistinctIds(t) /\ EntryIds(s) \cap EntryIds(t) = {}
              => DistinctIds(s \o t)
<1> DEFINE u == s \o t
<1> /\ u \in Seq(S) /\ DOMAIN u = 1..(Len(s) + Len(t))
    /\ DOMAIN s = 1..Len(s) /\ DOMAIN t = 1..Len(t) /\ Len(s) \in Nat /\ Len(t) \in Nat
    /\ \A k \in DOMAIN u : u[k] = IF k <= Len(s) THEN s[k] ELSE t[k - Len(s)]
  OBVIOUS
<1> HIDE DEF u
<1> \A k \in DOMAIN u : (k \in DOMAIN s /\ u[k] = s[k])
                        \/ (k - Len(s) \in DOMAIN t /\ u[k] = t[k - Len(s)])
  OBVIOUS
<1> \A k \in DOMAIN s : k \in DOMAIN u /\ u[k] = s[k]
  OBVIOUS
<1> \A k \in DOMAIN t : k + Len(s) \in DOMAIN u /\ u[k + Len(s)] = t[k]
  <2> SUFFICES ASSUME NEW k \in DOMAIN t
               PROVE  k + Len(s) \in DOMAIN u /\ u[k + Len(s)] = t[k]
    BY Zenon
  <2>1. k \in Int /\ k >= 1 /\ k <= Len(t)
    OBVIOUS
  <2>2. k + Len(s) \in DOMAIN u /\ ~(k + Len(s) <= Len(s)) /\ (k + Len(s)) - Len(s) = k
    BY <2>1
  <2> QED
    BY Zenon, <2>2
<1>1. EntryIds(u) = EntryIds(s) \cup EntryIds(t)
  <2>1. ASSUME NEW x \in EntryIds(u) PROVE x \in EntryIds(s) \cup EntryIds(t)
    BY DEF EntryIds
  <2>2. ASSUME NEW x \in EntryIds(s) \cup EntryIds(t) PROVE x \in EntryIds(u)
    BY DEF EntryIds
  <2> QED
    BY Zenon, <2>1, <2>2
<1>2. Range(u) = Range(s) \cup Range(t)
  BY DEF Range
<1>3. DistinctIds(s) /\ DistinctIds(t) /\ EntryIds(s) \cap EntryIds(t) = {} => DistinctIds(u)
  <2> SUFFICES ASSUME DistinctIds(s), DistinctIds(t), EntryIds(s) \cap EntryIds(t) = {},
                      NEW j \in DOMAIN u, NEW k \in DOMAIN u, u[j].id = u[k].id
               PROVE  j = k
    BY Zenon DEF DistinctIds
  <2>1. ASSUME NEW p \in DOMAIN s, NEW q \in DOMAIN t PROVE s[p].id # t[q].id
    <3>1. s[p].id \in EntryIds(s) /\ t[q].id \in EntryIds(t)
      BY Zenon DEF EntryIds
    <3> QED
      BY Zenon, <3>1
  <2>2. j \in Int /\ k \in Int /\ Len(s) \in Int
    OBVIOUS
  <2>3. CASE j \in DOMAIN s /\ k \in DOMAIN s /\ u[j] = s[j] /\ u[k] = s[k]
    BY Zenon, <2>3 DEF DistinctIds
  <2>4. CASE /\ j - Len(s) \in DOMAIN t /\ k - Len(s) \in DOMAIN t
             /\ u[j] = t[j - Len(s)] /\ u[k] = t[k - Len(s)]
    <3>1. \A a, b \in DOMAIN t : t[a].id = t[b].id => a = b
      BY Zenon DEF DistinctIds
    <3>2. j - Len(s) = k - Len(s)
      BY Zenon, <2>4, <3>1
    <3> QED
      BY <2>2, <3>2
  <2>5. CASE j \in DOMAIN s /\ k - Len(s) \in DOMAIN t /\ u[j] = s[j] /\ u[k] = t[k - Len(s)]
    BY <2>1, <2>5
  <2>6. CASE k \in DOMAIN s /\ j - Len(s) \in DOMAIN t /\ u[k] = s[k] /\ u[j] = t[j - Len(s)]
    BY Zenon, <2>1, <2>6
  <2>7. /\ (j \in DOMAIN s /\ u[j] = s[j]) \/ (j - Len(s) \in DOMAIN t /\ u[j] = t[j - Len(s)])
        /\ (k \in DOMAIN s /\ u[k] = s[k]) \/ (k - Len(s) \in DOMAIN t /\ u[k] = t[k - Len(s)])
    BY Zenon
  <2> QED
    BY Zenon, <2>3, <2>4, <2>5, <2>6, <2>7
<1> QED
  BY Zenon, <1>1, <1>2, <1>3 DEF u

\* enqueueFrontUnlocked's reversal of the rest moves entries, nothing else.
LEMMA ReverseEntries ==
  ASSUME NEW S, NEW s \in Seq(S)
  PROVE  /\ Reverse(s) \in Seq(S)
         /\ EntryIds(Reverse(s)) = EntryIds(s) /\ Range(Reverse(s)) = Range(s)
         /\ DistinctIds(s) => DistinctIds(Reverse(s))
<1> DEFINE t == Reverse(s)
<1> DOMAIN s = 1..Len(s) /\ Len(s) \in Nat /\ \A k \in 1..Len(s) : s[k] \in S
  OBVIOUS
<1> DOMAIN t = 1..Len(s) /\ \A k \in 1..Len(s) : t[k] = s[(Len(s) - k) + 1]
  BY Zenon DEF Reverse
<1> \A k \in 1..Len(s) : (Len(s) - k) + 1 \in 1..Len(s)
  OBVIOUS
<1>1. t \in [1..Len(s) -> S]
  BY Zenon DEF Reverse
<1>2. t \in Seq(S)
  BY <1>1
<1> HIDE DEF t
<1> \A k \in 1..Len(s) : s[k] = t[(Len(s) - k) + 1]
  OBVIOUS
<1>3. EntryIds(t) = EntryIds(s)
  <2>1. \A i \in EntryIds(t) : i \in EntryIds(s)
    BY DEF EntryIds
  <2>2. \A i \in EntryIds(s) : i \in EntryIds(t)
    BY DEF EntryIds
  <2> QED
    BY Zenon, <2>1, <2>2
<1>4. DistinctIds(s) => DistinctIds(t)
  BY DEF DistinctIds
<1>5. Range(t) = Range(s)
  <2>1. Range(t) \subseteq Range(s)
    BY DEF Range
  <2>2. Range(s) \subseteq Range(t)
    BY DEF Range
  <2> QED
    BY Zenon, <2>1, <2>2
<1> QED
  BY Zenon, <1>2, <1>3, <1>4, <1>5 DEF t

\* A sequence over a set is one over any larger set.
LEMMA WiderSequence ==
  ASSUME NEW S, NEW T, S \subseteq T, NEW s \in Seq(S)
  PROVE  s \in Seq(T) /\ \A k \in DOMAIN s : s[k] \in T
  OBVIOUS

\* Part of a sequence has some of its entries.
LEMMA SubEntries ==
  ASSUME NEW S, NEW s \in Seq(S), NEW a \in Nat \ {0}, NEW b \in Nat, b <= Len(s)
  PROVE  /\ SubSeq(s, a, b) \in Seq(S)
         /\ EntryIds(SubSeq(s, a, b)) \subseteq EntryIds(s)
         /\ Range(SubSeq(s, a, b)) \subseteq Range(s)
         /\ DistinctIds(s) => DistinctIds(SubSeq(s, a, b))
<1> DEFINE t == SubSeq(s, a, b)
<1>1. Len(s) \in Nat /\ DOMAIN s = 1..Len(s)
  OBVIOUS
<1>2. /\ t \in Seq(S) /\ Len(t) = (IF a <= b THEN b - a + 1 ELSE 0)
      /\ \A k \in 1..Len(t) : t[k] = s[a + k - 1]
  BY SMTT(60), <1>1
<1>3. Len(t) \in Nat /\ DOMAIN t = 1..Len(t)
  BY <1>2
<1> HIDE DEF t
<1>4. \A k \in DOMAIN t : a + k - 1 \in DOMAIN s /\ t[k] = s[a + k - 1]
  BY SMTT(60), <1>1, <1>2, <1>3
<1>5. EntryIds(t) \subseteq EntryIds(s) /\ Range(t) \subseteq Range(s)
  BY Zenon, <1>4 DEF EntryIds, Range
<1>6. DistinctIds(s) => DistinctIds(t)
  BY SMTT(60), <1>1, <1>3, <1>4 DEF DistinctIds
<1> QED
  BY Zenon, <1>2, <1>5, <1>6 DEF t

\* The ids of a sequence of entries, in order.
LEMMA IdSequence ==
  ASSUME NEW S, NEW T, NEW s \in Seq(S), \A e \in S : e.id \in T
  PROVE  IdsOf(s) \in Seq(T) /\ Range(IdsOf(s)) = EntryIds(s) /\ Len(IdsOf(s)) = Len(s)
<1> Len(s) \in Nat /\ DOMAIN s = 1..Len(s) /\ \A k \in DOMAIN s : s[k] \in S
  OBVIOUS
<1>1. IdsOf(s) \in [1..Len(s) -> T]
  BY Zenon DEF IdsOf
<1>2. IdsOf(s) \in Seq(T) /\ Len(IdsOf(s)) = Len(s)
  BY <1>1
<1>3. Range(IdsOf(s)) = EntryIds(s)
  BY Zenon DEF Range, IdsOf, EntryIds
<1> QED
  BY Zenon, <1>2, <1>3

\* An entry is put before the others, which are turned round.
LEMMA ReturnedEntries ==
  ASSUME NEW S, NEW s \in Seq(S), NEW e \in S
  PROVE  /\ <<e>> \o Reverse(s) \in Seq(S)
         /\ EntryIds(<<e>> \o Reverse(s)) = EntryIds(s) \cup {e.id}
         /\ DistinctIds(s) /\ e.id \notin EntryIds(s) => DistinctIds(<<e>> \o Reverse(s))
<1> DEFINE h == <<e>>
           t == Reverse(s)
<1>1. h \in Seq(S) /\ EntryIds(h) = {e.id} /\ DistinctIds(h)
  BY DEF EntryIds, DistinctIds
<1>2. t \in Seq(S) /\ EntryIds(t) = EntryIds(s) /\ (DistinctIds(s) => DistinctIds(t))
  BY Zenon, ReverseEntries
<1> HIDE DEF h, t
<1>3. /\ h \o t \in Seq(S) /\ EntryIds(h \o t) = EntryIds(h) \cup EntryIds(t)
      /\ DistinctIds(h) /\ DistinctIds(t) /\ EntryIds(h) \cap EntryIds(t) = {} => DistinctIds(h \o t)
  BY SMTT(60), <1>1, <1>2, ConcatEntries
<1>4. e.id \notin EntryIds(s) => EntryIds(h) \cap EntryIds(t) = {}
  BY Zenon, <1>1, <1>2
<1>5. EntryIds(h) \cup EntryIds(t) = EntryIds(s) \cup {e.id}
  BY Zenon, <1>1, <1>2
<1> QED
  BY Zenon, <1>1, <1>2, <1>3, <1>4, <1>5 DEF h, t

\* A sequence is cut in two: every entry is in one of the parts.
LEMMA SplitEntries ==
  ASSUME NEW S, NEW s \in Seq(S), DistinctIds(s), NEW n \in Nat, n < Len(s)
  PROVE  LET kept == SubSeq(s, 1, n)
             past == SubSeq(s, n + 1, Len(s))
         IN  /\ kept \in Seq(S) /\ past \in Seq(S) /\ DistinctIds(past) /\ Range(kept) \subseteq Range(s)
             /\ EntryIds(s) = EntryIds(kept) \cup EntryIds(past) /\ EntryIds(kept) \cap EntryIds(past) = {}
<1> DEFINE N == Len(s)
           kept == SubSeq(s, 1, n)
           past == SubSeq(s, n + 1, Len(s))
<1>1. N \in Nat /\ n <= N /\ N <= N /\ 1 \in Nat \ {0} /\ n + 1 \in Nat \ {0} /\ DOMAIN s = 1..N
  OBVIOUS
<1>2. /\ kept \in Seq(S) /\ Range(kept) \subseteq Range(s) /\ EntryIds(kept) \subseteq EntryIds(s)
      /\ past \in Seq(S) /\ DistinctIds(past) /\ EntryIds(past) \subseteq EntryIds(s)
  BY Zenon, <1>1, SubEntries
<1>3. DOMAIN kept = 1..n /\ \A k \in 1..n : kept[k] = s[k]
  OBVIOUS
<1>4. DOMAIN past = 1..(N - n) /\ \A k \in 1..(N - n) : past[k] = s[n + k]
  OBVIOUS
<1> HIDE DEF kept, past
<1>5. \A k \in DOMAIN s : k \in 1..n \/ (k - n \in 1..(N - n) /\ n + (k - n) = k)
  BY <1>1
<1>6. ASSUME NEW k \in DOMAIN s PROVE s[k].id \in EntryIds(kept) \cup EntryIds(past)
  <2>1. CASE k \in 1..n
    BY Zenon, <2>1, <1>3 DEF EntryIds
  <2>2. CASE k - n \in 1..(N - n) /\ n + (k - n) = k
    <3>1. past[k - n] = s[k] /\ k - n \in DOMAIN past
      BY Zenon, <2>2, <1>4
    <3> QED
      BY Zenon, <3>1 DEF EntryIds
  <2> QED
    BY Zenon, <1>5, <2>1, <2>2
<1>7. ASSUME NEW j \in DOMAIN kept, NEW k \in DOMAIN past, kept[j].id = past[k].id PROVE FALSE
  <2>1. j \in DOMAIN s /\ n + k \in DOMAIN s /\ j # n + k
    BY <1>1, <1>3, <1>4
  <2>2. s[j].id = s[n + k].id
    BY Zenon, <1>3, <1>4, <1>7
  <2> QED
    BY Zenon, <2>1, <2>2 DEF DistinctIds
<1>8. EntryIds(s) \subseteq EntryIds(kept) \cup EntryIds(past)
  BY Zenon, <1>6 DEF EntryIds
<1>9. EntryIds(kept) \cap EntryIds(past) = {}
  BY Zenon, <1>7 DEF EntryIds
<1>10. EntryIds(s) = EntryIds(kept) \cup EntryIds(past)
  BY Zenon, <1>2, <1>8
<1> QED
  BY Zenon, <1>2, <1>9, <1>10 DEF kept, past

-----------------------------------------------------------------------------
(***************************************************************************)
(* The directory and its counters.                                         *)
(***************************************************************************)

\* The attempts an entry or a record may carry.
LEMMA AttemptsOK == 0 \in Attempts /\ Attempts \subseteq Nat
  BY StoreAssumption DEF Attempts

\* What StoreInv says of the directory alone.
LEMMA StoreInvFiles == StoreInv => FilesOK(files) /\ Counting
  BY Zenon DEF StoreInv, StoreTypeOK, FilesOK

\* createSegment adds an empty file.
LEMMA AddFile ==
  ASSUME Counting, NEW fs, FilesOK(fs), NEW n \in Nat, NEW f \in {EmptySegment, HeaderlessSegment}
  PROVE  /\ FilesOK(WithFile(fs, n, f))
         /\ DOMAIN WithFile(fs, n, f) = DOMAIN fs \cup {n}
         /\ WithFile(fs, n, f)[n] = f
         /\ IdsIn(WithFile(fs, n, f)) \subseteq IdsIn(fs)
<1> DEFINE g == WithFile(fs, n, f)
<1> DOMAIN g = DOMAIN fs \cup {n} /\ g[n] = f /\ \A m \in DOMAIN fs : m # n => g[m] = fs[m]
  BY Zenon DEF WithFile
<1> f.recs = <<>> /\ f \in Segments
  <2> <<>> \in Seq(Records)
    OBVIOUS
  <2>1. CASE f = EmptySegment
    BY Zenon, <2>1 DEF EmptySegment, Segments
  <2>2. CASE f = HeaderlessSegment
    BY Zenon, <2>2 DEF HeaderlessSegment, Segments
  <2> QED
    BY Zenon, <2>1, <2>2
<1>1. IsFiniteSet(DOMAIN g)
  BY Zenon DEF Counting, FilesOK
<1>2. FilesOK(g)
  BY Zenon, <1>1 DEF FilesOK
<1>3. IdsIn(g) \subseteq IdsIn(fs)
  <2> SUFFICES ASSUME NEW i \in Ids, NEW m \in DOMAIN g, NEW p \in DOMAIN g[m].recs, g[m].recs[p].id = i
               PROVE  i \in IdsIn(fs)
    BY Zenon DEF IdsIn
  <2>1. m # n
    OBVIOUS
  <2> QED
    BY Zenon, <2>1 DEF IdsIn
<1> QED
  BY Zenon, <1>2, <1>3

\* Appending a record to a file of the directory.
LEMMA PutRecord ==
  ASSUME NEW fs, FilesOK(fs), NEW n \in DOMAIN fs, NEW rec \in Records
  PROVE  /\ FilesOK(Put(fs, n, rec))
         /\ DOMAIN Put(fs, n, rec) = DOMAIN fs
         /\ IdsIn(Put(fs, n, rec)) \subseteq IdsIn(fs) \cup {rec.id}
<1> DEFINE g == Put(fs, n, rec)
           s == fs[n].recs
<1> fs[n] \in Segments /\ s \in Seq(Records)
  BY Zenon DEF FilesOK, Segments
<1> /\ Append(s, rec) \in Seq(Records) /\ DOMAIN s = 1..Len(s) /\ Len(s) \in Nat
    /\ DOMAIN Append(s, rec) = 1..(Len(s) + 1)
    /\ \A k \in 1..Len(s) : Append(s, rec)[k] = s[k]
    /\ Append(s, rec)[Len(s) + 1] = rec
  OBVIOUS
<1> /\ DOMAIN g = DOMAIN fs
    /\ g[n] = [fs[n] EXCEPT !.recs = Append(s, rec)]
    /\ \A m \in DOMAIN fs : m # n => g[m] = fs[m]
  BY Zenon DEF Put, WithFile
<1> g[n] \in Segments /\ g[n].recs = Append(s, rec)
  BY Zenon DEF Segments
<1>1. FilesOK(g)
  BY Zenon DEF FilesOK
<1>2. IdsIn(g) \subseteq IdsIn(fs) \cup {rec.id}
  <2> SUFFICES ASSUME NEW i \in Ids, NEW m \in DOMAIN g, NEW p \in DOMAIN g[m].recs, g[m].recs[p].id = i
               PROVE  i \in IdsIn(fs) \/ i = rec.id
    BY Zenon DEF IdsIn
  <2>1. CASE m # n
    BY Zenon, <2>1 DEF IdsIn
  <2>2. CASE m = n
    <3> p \in 1..(Len(s) + 1) /\ Append(s, rec)[p].id = i
      BY Zenon, <2>2
    <3>1. CASE p \in 1..Len(s)
      BY <3>1 DEF IdsIn
    <3> QED
      BY <3>1
  <2> QED
    BY Zenon, <2>1, <2>2
<1> QED
  BY Zenon, <1>1, <1>2

\* The rotation appendRecord performs before it writes.
LEMMA TargetFilesOK ==
  ASSUME StoreInv, segment
  PROVE  /\ FilesOK(TargetFiles) /\ TargetNum \in DOMAIN TargetFiles
         /\ DOMAIN files \subseteq DOMAIN TargetFiles
         /\ \A m \in DOMAIN TargetFiles : m \in DOMAIN files \/ m > segmentNum
         /\ IdsIn(TargetFiles) \subseteq IdsIn(files)
         /\ TargetNum \in Nat /\ TargetSize \in Nat /\ segmentNum <= TargetNum
<1> FilesOK(files) /\ Counting /\ segmentNum \in DOMAIN files /\ segmentNum \in Nat /\ segmentSize \in Nat
  BY Zenon, StoreInvFiles DEF StoreInv, StoreTypeOK
<1>1. CASE Rotates
  <2> TargetFiles = WithFile(files, segmentNum + 1, EmptySegment) /\ TargetNum = segmentNum + 1
      /\ TargetSize = 0
    BY Zenon, <1>1 DEF TargetFiles, TargetNum, TargetSize
  <2> segmentNum + 1 \in Nat /\ segmentNum + 1 > segmentNum
    OBVIOUS
  <2>1. /\ FilesOK(TargetFiles) /\ DOMAIN TargetFiles = DOMAIN files \cup {segmentNum + 1}
        /\ IdsIn(TargetFiles) \subseteq IdsIn(files)
    BY Zenon, AddFile
  <2> QED
    BY <2>1
<1>2. CASE ~Rotates
  BY <1>2 DEF TargetFiles, TargetNum, TargetSize
<1> QED
  BY Zenon, <1>1, <1>2

\* appendRecord succeeds: the new record's segment is in the directory.
LEMMA WriteOKStep ==
  ASSUME StoreInv, NEW rec \in Records, WriteOK(rec)
  PROVE  StoreInv' /\ Grown(rec.id) /\ Location.seg \in DOMAIN files'
         /\ Location \in [seg : Nat, pos : Nat]
<1> segment /\ segment' = segment /\ segmentNum' = TargetNum
    /\ files' = Put(TargetFiles, TargetNum, rec)
    /\ segmentSize' = TargetSize + 1 /\ totalBytes' = totalBytes + 1
    /\ storeClosed' = storeClosed /\ faults' = faults
  BY Zenon DEF WriteOK, Refuses
<1> /\ FilesOK(files') /\ DOMAIN files' = DOMAIN TargetFiles
    /\ IdsIn(files') \subseteq IdsIn(files) \cup {rec.id}
  BY Zenon, TargetFilesOK, PutRecord
<1>1. totalBytes \in Nat /\ storeClosed \in BOOLEAN /\ faults \in Nat /\ segment \in BOOLEAN
  BY Zenon DEF StoreInv, StoreTypeOK
<1>2. StoreInv'
  BY <1>1, TargetFilesOK DEF StoreInv, StoreTypeOK, FilesOK
<1>3. Grown(rec.id)
  BY Zenon, TargetFilesOK DEF Grown
<1> QED
  BY <1>2, <1>3, TargetFilesOK DEF Location

\* appendRecord fails, whichever way: the store is still consistent.
LEMMA WriteFailStep ==
  ASSUME StoreInv, NEW rec \in Records, WriteFail(rec)
  PROVE  StoreInv' /\ Grown(rec.id)
<1>1. CASE UNCHANGED storeVars
  BY Zenon, <1>1 DEF storeVars, StoreInv, StoreTypeOK, Grown
<1>2. CASE WriteFault(rec)
  <2> segment /\ segment' = segment /\ segmentNum' = TargetNum /\ segmentSize' = TargetSize
      /\ totalBytes' = totalBytes /\ storeClosed' = storeClosed /\ faults' = faults + 1
    BY Zenon, <1>2 DEF WriteFault, Refuses, Fault
  <2>1. \A left \in Leftovers(rec) : left \in Records /\ left.id = rec.id
    BY Zenon DEF Leftovers, Torn, Cut, Records, RecordTypes
  <2> /\ FilesOK(files') /\ DOMAIN files' = DOMAIN TargetFiles
      /\ IdsIn(files') \subseteq IdsIn(files) \cup {rec.id}
    <3>1. CASE files' = TargetFiles
      BY Zenon, <3>1, TargetFilesOK
    <3>2. ASSUME NEW left \in Leftovers(rec), files' = Put(TargetFiles, TargetNum, left)
          PROVE  /\ FilesOK(files') /\ DOMAIN files' = DOMAIN TargetFiles
                 /\ IdsIn(files') \subseteq IdsIn(files) \cup {rec.id}
      BY Zenon, <2>1, <3>2, TargetFilesOK, PutRecord
    <3> QED
      BY Zenon, <1>2, <3>1, <3>2 DEF WriteFault
  <2>2. totalBytes \in Nat /\ storeClosed \in BOOLEAN /\ faults \in Nat /\ segment \in BOOLEAN
    BY Zenon DEF StoreInv, StoreTypeOK
  <2>3. StoreInv'
    BY <2>2, TargetFilesOK DEF StoreInv, StoreTypeOK, FilesOK
  <2> QED
    BY Zenon, <2>3, TargetFilesOK DEF Grown
<1>3. CASE RotateFault(rec)
  <2> /\ segment' = FALSE /\ faults' = faults + 1
      /\ UNCHANGED <<segmentNum, segmentSize, totalBytes, storeClosed>>
      /\ files' = files \/ files' = WithFile(files, segmentNum + 1, HeaderlessSegment)
    BY Zenon, <1>3 DEF RotateFault, Fault
  <2> FilesOK(files) /\ Counting /\ segmentNum + 1 \in Nat /\ segmentNum + 1 > segmentNum
    BY StoreInvFiles DEF StoreInv, StoreTypeOK
  <2> /\ FilesOK(files')
      /\ DOMAIN files' = DOMAIN files \/ DOMAIN files' = DOMAIN files \cup {segmentNum + 1}
      /\ IdsIn(files') \subseteq IdsIn(files)
    <3>1. HeaderlessSegment \in {EmptySegment, HeaderlessSegment}
      BY Zenon
    <3>2. CASE files' = files
      BY Zenon, <3>2
    <3>3. CASE files' = WithFile(files, segmentNum + 1, HeaderlessSegment)
      BY Zenon, <3>1, <3>3, AddFile
    <3> QED
      BY Zenon, <3>2, <3>3
  <2>1. StoreInv'
    <3>1. /\ segmentNum \in Nat /\ segmentSize \in Nat /\ totalBytes \in Nat
          /\ storeClosed \in BOOLEAN /\ faults + 1 \in Nat
      BY DEF StoreInv, StoreTypeOK
    <3> QED
      BY Zenon, <3>1 DEF StoreInv, StoreTypeOK, FilesOK
  <2> QED
    BY Zenon, <2>1 DEF Grown
<1> QED
  BY Zenon, <1>1, <1>2, <1>3 DEF WriteFail

\* removeSegment and its refusals.
LEMMA RemoveStep ==
  ASSUME StoreInv, NEW n \in Nat
  PROVE  /\ RemoveOK(n) => StoreInv' /\ DOMAIN files' = DOMAIN files \ {n} /\ n < segmentNum
                             /\ IdsIn(files') \subseteq IdsIn(files)
         /\ RemoveFail(n) => StoreInv' /\ files' = files /\ segmentNum' = segmentNum
<1>1. ASSUME RemoveOK(n)
      PROVE  StoreInv' /\ DOMAIN files' = DOMAIN files \ {n} /\ n < segmentNum
               /\ IdsIn(files') \subseteq IdsIn(files)
  <2> /\ files' = Without(files, n) /\ n < segmentNum
      /\ UNCHANGED <<segmentNum, segment, segmentSize, storeClosed, faults>>
    BY Zenon, <1>1 DEF RemoveOK
  <2> DOMAIN files' = DOMAIN files \ {n} /\ \A m \in DOMAIN files' : files'[m] = files[m]
    BY Zenon DEF Without
  <2>1. totalBytes' \in Nat
    <3>1. totalBytes \in Nat /\ (n \in DOMAIN files => Len(files[n].recs) \in Nat)
      BY DEF StoreInv, StoreTypeOK, Segments
    <3>2. TotalBytes(files) \in Nat
      BY Zenon, StoreInvFiles DEF Counting
    <3> QED
      BY <1>1, <3>1, <3>2 DEF RemoveOK
  <2>2. IsFiniteSet(DOMAIN files')
    BY Zenon DEF StoreInv, Counting
  <2>3. n \in Int /\ segmentNum \in Nat
    BY DEF StoreInv, StoreTypeOK
  <2>4. StoreInv'
    BY <2>1, <2>2, <2>3 DEF StoreInv, StoreTypeOK
  <2>5. IdsIn(files') \subseteq IdsIn(files)
    BY DEF IdsIn
  <2> QED
    BY Zenon, <2>4, <2>5
<1>2. ASSUME RemoveFail(n)
      PROVE  StoreInv' /\ files' = files /\ segmentNum' = segmentNum
  <2> /\ UNCHANGED <<files, segmentNum, segment, segmentSize, totalBytes, storeClosed>>
      /\ faults' = faults \/ faults' = faults + 1
    BY Zenon, <1>2 DEF RemoveFail, Fault, storeVars
  <2>1. faults' \in Nat
    BY DEF StoreInv, StoreTypeOK
  <2> QED
    BY Zenon, <2>1 DEF StoreInv, StoreTypeOK
<1> QED
  BY Zenon, <1>1, <1>2

\* openLatestSegment at boot: the directory keeps its segments.
LEMMA OpenStep ==
  ASSUME StoreInv, OpenStore
  PROVE  /\ StoreInv' /\ segmentNum' \in DOMAIN files'
         /\ DOMAIN files \subseteq DOMAIN files' /\ IdsIn(files') \subseteq IdsIn(files)
<1> PICK n \in SegmentNums : \/ Creates(n) /\ OpenAt(n, WithFile(files, n, EmptySegment))
                             \/ Reopens(n) /\ OpenAt(n, files)
  BY Zenon DEF OpenStore
<1> FilesOK(files) /\ Counting /\ n \in Nat
  BY StoreInvFiles DEF SegmentNums, FilesOK
<1> /\ FilesOK(files') /\ n \in DOMAIN files' /\ DOMAIN files \subseteq DOMAIN files'
    /\ IdsIn(files') \subseteq IdsIn(files)
  <2>1. CASE files' = WithFile(files, n, EmptySegment)
    <3>1. EmptySegment \in {EmptySegment, HeaderlessSegment}
      BY Zenon
    <3> DEFINE g == WithFile(files, n, EmptySegment)
    <3>2. FilesOK(g) /\ DOMAIN g = DOMAIN files \cup {n} /\ IdsIn(g) \subseteq IdsIn(files)
      BY Zenon, <3>1, AddFile
    <3> HIDE DEF g
    <3>3. files' = g
      BY Zenon, <2>1 DEF g
    <3> QED
      BY Zenon, <3>2, <3>3
  <2>2. CASE Reopens(n) /\ files' = files
    BY Zenon, <2>2 DEF Reopens, IsLatest
  <2> QED
    BY Zenon, <2>1, <2>2 DEF OpenAt
<1> /\ segmentNum' = n /\ segment' = TRUE /\ segmentSize' = Len(files'[n].recs)
    /\ totalBytes' = TotalBytes(files') /\ storeClosed' = FALSE /\ faults' = faults
  BY Zenon DEF OpenAt
<1>1. segmentSize' \in Nat /\ totalBytes' \in Nat /\ faults' \in Nat
  BY DEF Counting, FilesOK, Segments, StoreInv, StoreTypeOK
<1>2. StoreInv'
  BY Zenon, <1>1 DEF StoreInv, StoreTypeOK, FilesOK
<1> QED
  BY Zenon, <1>2

\* A crash in the middle of an append leaves a directory.
LEMMA CrashImageOK ==
  ASSUME StoreInv, NEW rec \in Records, NEW kinds, NEW fs \in CrashImages(rec, kinds)
  PROVE  /\ FilesOK(fs) /\ DOMAIN files \subseteq DOMAIN fs
         /\ IdsIn(fs) \subseteq IdsIn(files) \cup {rec.id}
<1> FilesOK(files) /\ Counting /\ segmentNum + 1 \in Nat
  BY StoreInvFiles DEF StoreInv, StoreTypeOK
<1>1. Torn(rec) \in Records /\ Torn(rec).id = rec.id /\ \A a \in Attempts : Cut(rec, a) \in Records /\ Cut(rec, a).id = rec.id
  BY Zenon DEF Torn, Cut, Records, RecordTypes
<1>2. CASE fs = files
  BY Zenon, <1>2
<1>3. CASE segment /\ (fs = Put(TargetFiles, TargetNum, Torn(rec)) \/ \E a \in Attempts : fs = Put(TargetFiles, TargetNum, Cut(rec, a)))
  BY <1>1, <1>3, TargetFilesOK, PutRecord
<1>4. CASE fs = WithFile(files, segmentNum + 1, HeaderlessSegment)
  <2>1. HeaderlessSegment \in {EmptySegment, HeaderlessSegment}
    BY Zenon
  <2> QED
    BY Zenon, <1>4, <2>1, AddFile
<1>5. \/ fs = files \/ fs = WithFile(files, segmentNum + 1, HeaderlessSegment)
      \/ segment /\ (fs = Put(TargetFiles, TargetNum, Torn(rec)) \/ \E a \in Attempts : fs = Put(TargetFiles, TargetNum, Cut(rec, a)))
  BY Zenon DEF CrashImages, Refuses
<1> QED
  BY Zenon, <1>2, <1>3, <1>4, <1>5

\* recover: every recovered reference locates a record of its own id, and no
\* id is recovered twice.
LEMMA RecoveryOK ==
  ASSUME Counting, FilesOK(files), NEW s \in Recoveries
  PROVE  LET refs == [k \in DOMAIN s |-> RefAt(s[k])]
         IN  /\ refs \in Seq([id : Ids, att : Attempts, seg : Nat, pos : Nat])
             /\ DistinctIds(refs)
             /\ EntryIds(refs) \subseteq IdsIn(files)
             /\ \A k \in DOMAIN refs : refs[k].seg \in DOMAIN files
<1> DEFINE refs == [k \in DOMAIN s |-> RefAt(s[k])]
           N == Cardinality(PendingIds)
           R == [id : Ids, att : Attempts, seg : Nat, pos : Nat]
<1>1. \A r \in Pending : /\ r[1] \in DOMAIN files /\ r[2] \in DOMAIN files[r[1]].recs
                          /\ files[r[1]].recs[r[2]] \in Records /\ r[1] \in Nat /\ r[2] \in Nat
  <2> SUFFICES ASSUME NEW r \in Pending
               PROVE  /\ r[1] \in DOMAIN files /\ r[2] \in DOMAIN files[r[1]].recs
                      /\ files[r[1]].recs[r[2]] \in Records /\ r[1] \in Nat /\ r[2] \in Nat
    BY Zenon
  <2>1. r \in ReplayedAt
    BY Zenon DEF Pending, ReplayedItems
  <2>2. PICK n \in DOMAIN files : r \in {n} \X Replayed(n)
    BY Zenon, <2>1 DEF ReplayedAt
  <2>3. r[1] = n /\ r[2] \in 1..Len(files[n].recs)
    <3>1. r[1] = n /\ r[2] \in Replayed(n)
      BY Zenon, <2>2
    <3> QED
      BY Zenon, <3>1 DEF Replayed
  <2>4. files[n].recs \in Seq(Records) /\ n \in Nat
    BY Zenon DEF FilesOK, Segments
  <2> QED
    BY <2>3, <2>4
<1>2. \A r \in Pending : RefAt(r) \in R /\ RefAt(r).id = IdAt(r) /\ RefAt(r).seg = r[1]
                          /\ IdAt(r) \in IdsIn(files) /\ IdAt(r) \in Ids
  BY Zenon, <1>1 DEF RefAt, IdAt, Records, IdsIn
<1>3. N \in Nat
  <2>1. PendingIds \in SUBSET Ids
    BY Zenon, <1>2 DEF PendingIds
  <2> QED
    BY Zenon, <2>1, StoreAssumption DEF Counting
<1>4. s \in [1..N -> Pending] /\ OldestFirst(s)
  BY Zenon DEF Recoveries
<1>5. \A k \in 1..N : s[k] \in Pending
  BY Zenon, <1>4
<1>6. DOMAIN refs = 1..N /\ \A k \in 1..N : refs[k] = RefAt(s[k])
  BY Zenon, <1>4
<1> HIDE DEF refs, N, R
<1>7. refs \in Seq(R)
  <2>1. refs \in [1..N -> R]
    BY Zenon, <1>2, <1>4, <1>5 DEF refs
  <2> QED
    BY <1>3, <2>1
<1>8. DistinctIds(refs)
  <2> SUFFICES ASSUME NEW j \in 1..N, NEW k \in 1..N, refs[j].id = refs[k].id
               PROVE  j = k
    BY Zenon, <1>6 DEF DistinctIds
  <2>1. IdAt(s[j]) = IdAt(s[k]) /\ IdAt(s[j]) \in Nat /\ IdAt(s[k]) \in Nat
    BY Zenon, <1>2, <1>5, <1>6, StoreAssumption
  <2>2. ~(j < k) /\ ~(k < j)
    BY <1>4, <2>1 DEF OldestFirst
  <2> QED
    BY <1>3, <2>2
<1>9. EntryIds(refs) \subseteq IdsIn(files)
  BY <1>2, <1>5, <1>6 DEF EntryIds
<1>10. \A k \in DOMAIN refs : refs[k].seg \in DOMAIN files
  BY <1>1, <1>2, <1>5, <1>6
<1> QED
  BY Zenon, <1>7, <1>8, <1>9, <1>10 DEF refs, R

-----------------------------------------------------------------------------
(***************************************************************************)
(* The records of the directory.                                           *)
(***************************************************************************)

\* A new file has no record; it replaces none if its number is new.
LEMMA FileCells ==
  ASSUME NEW fs, FilesOK(fs), NEW n \in Nat, NEW f \in {EmptySegment, HeaderlessSegment}
  PROVE  /\ \A m, p, r : Cell(WithFile(fs, n, f), m, p, r) => m # n /\ Cell(fs, m, p, r)
         /\ n \notin DOMAIN fs => \A m, p, r : Cell(fs, m, p, r) => Cell(WithFile(fs, n, f), m, p, r)
<1> DEFINE g == WithFile(fs, n, f)
<1> DOMAIN g = DOMAIN fs \cup {n} /\ g[n] = f /\ \A m \in DOMAIN fs : m # n => g[m] = fs[m]
  BY Zenon DEF WithFile
<1>1. Len(f.recs) = 0
  BY DEF EmptySegment, HeaderlessSegment
<1> HIDE DEF g
<1>2. \A m, p, r : Cell(g, m, p, r) => m # n /\ Cell(fs, m, p, r)
  BY <1>1 DEF Cell
<1>3. n \notin DOMAIN fs => \A m, p, r : Cell(fs, m, p, r) => Cell(g, m, p, r)
  BY Zenon DEF Cell
<1> QED
  BY Zenon, <1>2, <1>3 DEF g

\* An append adds one record, at the end of its file.
LEMMA PutCells ==
  ASSUME NEW fs, FilesOK(fs), NEW n \in DOMAIN fs, NEW rec \in Records
  PROVE  /\ \A m, p, r : Cell(Put(fs, n, rec), m, p, r) <=>
              Cell(fs, m, p, r) \/ (m = n /\ p = Len(fs[n].recs) + 1 /\ r = rec)
         /\ Len(Put(fs, n, rec)[n].recs) = Len(fs[n].recs) + 1
         /\ \A m \in DOMAIN fs : Put(fs, n, rec)[m].hdr = fs[m].hdr
         /\ \A m \in DOMAIN fs : m # n => Put(fs, n, rec)[m] = fs[m]
<1> DEFINE g == Put(fs, n, rec)
           s == fs[n].recs
<1> fs[n] \in Segments /\ s \in Seq(Records)
  BY DEF FilesOK, Segments
<1> /\ Len(Append(s, rec)) = Len(s) + 1 /\ Len(s) \in Nat
    /\ \A k \in 1..Len(s) : Append(s, rec)[k] = s[k]
    /\ Append(s, rec)[Len(s) + 1] = rec
  OBVIOUS
<1> /\ DOMAIN g = DOMAIN fs
    /\ g[n] = [fs[n] EXCEPT !.recs = Append(s, rec)]
    /\ \A m \in DOMAIN fs : m # n => g[m] = fs[m]
  BY Zenon DEF Put, WithFile
<1> g[n].hdr = fs[n].hdr /\ g[n].recs = Append(s, rec)
  BY Zenon DEF Segments
<1> HIDE DEF g
<1>1. ASSUME NEW m, NEW p, NEW r
      PROVE  Cell(g, m, p, r) <=> Cell(fs, m, p, r) \/ (m = n /\ p = Len(s) + 1 /\ r = rec)
  <2>1. CASE m # n
    BY Zenon, <2>1 DEF Cell
  <2>2. CASE m = n
    <3>1. \A k : k \in 1..(Len(s) + 1) <=> k \in 1..Len(s) \/ k = Len(s) + 1
      OBVIOUS
    <3>2. Cell(g, n, p, r) <=> p \in 1..(Len(s) + 1) /\ r = Append(s, rec)[p]
      BY Zenon DEF Cell
    <3>3. Cell(fs, n, p, r) <=> p \in 1..Len(s) /\ r = s[p]
      BY Zenon DEF Cell
    <3> HIDE DEF s
    <3> QED
      BY Zenon, <2>2, <3>1, <3>2, <3>3
  <2> QED
    BY Zenon, <2>1, <2>2
<1> QED
  BY Zenon, <1>1 DEF g

\* A record that is in a cell is a record.
LEMMA CellTypes ==
  ASSUME NEW fs, FilesOK(fs), NEW n, NEW p, NEW r, Cell(fs, n, p, r)
  PROVE  n \in Nat /\ p \in Nat \ {0} /\ r \in Records /\ r.id \in IdsIn(fs)
<1> fs[n].recs \in Seq(Records) /\ n \in Nat
  BY Zenon DEF Cell, FilesOK, Segments
<1>1. Len(fs[n].recs) \in Nat /\ DOMAIN fs[n].recs = 1..Len(fs[n].recs)
  OBVIOUS
<1> r \in Records /\ p \in Nat \ {0} /\ p \in DOMAIN fs[n].recs
  BY <1>1 DEF Cell
<1>2. r.id \in Ids
  BY Zenon DEF Records
<1> QED
  BY Zenon, <1>2 DEF Cell, IdsIn

\* The rotation adds no record, and a file whose number is above the others.
LEMMA TargetCells ==
  ASSUME StoreInv, segment
  PROVE  /\ \A m, p, r : Cell(TargetFiles, m, p, r) => Cell(files, m, p, r)
         /\ (\A m \in DOMAIN files : m <= segmentNum)
              => /\ \A m, p, r : Cell(files, m, p, r) => Cell(TargetFiles, m, p, r)
                 /\ \A m \in DOMAIN TargetFiles : m <= TargetNum
                 /\ \A m \in DOMAIN TargetFiles : m \in DOMAIN files \/ TargetFiles[m] = EmptySegment
                 /\ \A m \in DOMAIN files : TargetFiles[m] = files[m]
                 /\ segmentSize = Len(files[segmentNum].recs) => TargetSize = Len(TargetFiles[TargetNum].recs)
<1> FilesOK(files) /\ segmentNum \in Nat /\ DOMAIN files \subseteq Nat
  BY Zenon, StoreInvFiles DEF StoreInv, StoreTypeOK
<1>1. CASE Rotates
  <2> TargetFiles = WithFile(files, segmentNum + 1, EmptySegment) /\ TargetNum = segmentNum + 1
      /\ TargetSize = 0 /\ segmentNum + 1 \in Nat
    BY <1>1 DEF TargetFiles, TargetNum, TargetSize
  <2>1. ASSUME \A m \in DOMAIN files : m <= segmentNum PROVE segmentNum + 1 \notin DOMAIN files
    BY <2>1
  <2> EmptySegment \in {EmptySegment, HeaderlessSegment} /\ Len(EmptySegment.recs) = 0
    BY Zenon DEF EmptySegment
  <2>2. /\ \A m, p, r : Cell(TargetFiles, m, p, r) => Cell(files, m, p, r)
        /\ segmentNum + 1 \notin DOMAIN files =>
             \A m, p, r : Cell(files, m, p, r) => Cell(TargetFiles, m, p, r)
    BY Zenon, FileCells
  <2> /\ DOMAIN TargetFiles = DOMAIN files \cup {segmentNum + 1}
      /\ TargetFiles[segmentNum + 1] = EmptySegment
      /\ \A m \in DOMAIN files : m # segmentNum + 1 => TargetFiles[m] = files[m]
    BY Zenon DEF WithFile
  <2>3. ASSUME \A m \in DOMAIN files : m <= segmentNum PROVE \A m \in DOMAIN TargetFiles : m <= TargetNum
    BY <2>3
  <2> QED
    BY Zenon, <2>1, <2>2, <2>3
<1>2. CASE ~Rotates
  BY Zenon, <1>2 DEF TargetFiles, TargetNum, TargetSize
<1> QED
  BY Zenon, <1>1, <1>2

\* removeSegment takes the records of one file; openLatestSegment none.
LEMMA RemoveCells ==
  ASSUME NEW n, files' = Without(files, n)
  PROVE  \A m, p, r : Cell(files', m, p, r) <=> m # n /\ Cell(files, m, p, r)
<1>1. DOMAIN files' = DOMAIN files \ {n} /\ \A m \in DOMAIN files' : files'[m] = files[m]
  BY Zenon DEF Without
<1> QED
  BY Zenon, <1>1 DEF Cell

\* What openLatestSegment leaves.
LEMMA OpenCells ==
  ASSUME StoreInv, OpenStore
  PROVE  /\ \A m, p, r : Cell(files', m, p, r) <=> Cell(files, m, p, r)
         /\ segment' = TRUE /\ storeClosed' = FALSE /\ faults' = faults
         /\ segmentNum' \in DOMAIN files' /\ segmentSize' = Len(files'[segmentNum'].recs)
         /\ \A m \in DOMAIN files' : m <= segmentNum'
         /\ \A m \in DOMAIN files' : m \in DOMAIN files \/ files'[m] = EmptySegment
         /\ \A m \in DOMAIN files : files'[m] = files[m]
<1> PICK n \in SegmentNums : \/ Creates(n) /\ OpenAt(n, WithFile(files, n, EmptySegment))
                             \/ Reopens(n) /\ OpenAt(n, files)
  BY DEF OpenStore
<1> n \in Nat /\ FilesOK(files) /\ EmptySegment \in {EmptySegment, HeaderlessSegment} /\ DOMAIN files \subseteq Nat
  BY StoreInvFiles DEF SegmentNums, FilesOK
<1> segment' = TRUE /\ storeClosed' = FALSE /\ faults' = faults /\ segmentNum' = n
  BY Zenon DEF OpenAt
<1>1. CASE Creates(n) /\ OpenAt(n, WithFile(files, n, EmptySegment))
  <2> files' = WithFile(files, n, EmptySegment) /\ segmentSize' = Len(files'[n].recs)
    BY Zenon, <1>1 DEF OpenAt
  <2> n \notin DOMAIN files /\ \A m \in DOMAIN files : m <= n
    BY <1>1 DEF Creates, IsLatest
  <2> DOMAIN files' = DOMAIN files \cup {n} /\ files'[n] = EmptySegment /\ \A m \in DOMAIN files : files'[m] = files[m]
    BY Zenon DEF WithFile
  <2>1. \A m, p, r : Cell(files', m, p, r) <=> Cell(files, m, p, r)
    BY Zenon, FileCells
  <2>2. \A m \in DOMAIN files' : m <= n
    OBVIOUS
  <2> QED
    BY Zenon, <2>1, <2>2
<1>2. CASE Reopens(n) /\ OpenAt(n, files)
  BY Zenon, <1>2 DEF OpenAt, Reopens, IsLatest
<1> QED
  BY Zenon, <1>1, <1>2

\* Directories that differ in records that are neither items nor acks.
LEMMA SameItems ==
  ASSUME NEW fs, NEW gs,
         \A n, p, r : Cell(fs, n, p, r) => Cell(gs, n, p, r),
         \A n, p, r : Cell(gs, n, p, r) => Cell(fs, n, p, r) \/ r.t \notin {"item", "ack"}
  PROVE  /\ \A i, n, p : ItemAt(gs, i, n, p) <=> ItemAt(fs, i, n, p)
         /\ Written(gs) = Written(fs) /\ Retired(gs) = Retired(fs)
         /\ Ordered(fs) => Ordered(gs)
<1> \A i, n, p : ItemAt(gs, i, n, p) <=> ItemAt(fs, i, n, p)
  BY Zenon DEF ItemAt
<1> \A i, n : AckAt(gs, i, n) <=> AckAt(fs, i, n)
  BY Zenon DEF AckAt
<1>1. Written(gs) = Written(fs) /\ Retired(gs) = Retired(fs)
  BY Zenon DEF Written, Retired
<1>2. Ordered(fs) => Ordered(gs)
  BY DEF Ordered
<1> QED
  BY Zenon, <1>1, <1>2

\* One item record more, of an item the log does not know.
LEMMA ItemAdded ==
  ASSUME NEW fs, NEW gs, NEW i \in Ids, NEW a, NEW N, NEW P, Ordered(fs),
         Adds(fs, gs, N, P, ItemRecord(i, a)),
         i \notin Written(fs), i \notin Retired(fs)
  PROVE  /\ Ordered(gs) /\ Written(gs) = Written(fs) \cup {i} /\ Retired(gs) = Retired(fs)
         /\ ItemAt(gs, i, N, P) /\ \A j, n, p : ItemAt(fs, j, n, p) => ItemAt(gs, j, n, p)
<1> ItemRecord(i, a).t = "item" /\ ItemRecord(i, a).id = i
  BY Zenon DEF ItemRecord
<1> \A j, n, p : ItemAt(gs, j, n, p) <=> ItemAt(fs, j, n, p) \/ (j = i /\ n = N /\ p = P)
  BY Zenon DEF ItemAt, Adds
<1> \A j, n : AckAt(gs, j, n) <=> AckAt(fs, j, n)
  BY Zenon DEF AckAt, Adds
<1>1. \A n, p : ~ItemAt(fs, i, n, p)
  BY Zenon DEF Written
<1>2. \A n : ~AckAt(fs, i, n)
  BY Zenon DEF Retired
<1>3. Written(gs) = Written(fs) \cup {i} /\ Retired(gs) = Retired(fs)
  BY Zenon DEF Written, Retired
<1>4. Ordered(gs)
  BY <1>1, <1>2 DEF Ordered
<1> QED
  BY Zenon, <1>3, <1>4

\* One ack record more, in the last file.
LEMMA AckAdded ==
  ASSUME NEW fs, NEW gs, NEW i \in Ids, NEW N, NEW P, Ordered(fs), \A m \in DOMAIN fs : m <= N,
         Adds(fs, gs, N, P, AckRecord(i))
  PROVE  /\ Ordered(gs) /\ Written(gs) = Written(fs) /\ Retired(gs) = Retired(fs) \cup {i}
         /\ \A j, n, p : ItemAt(gs, j, n, p) <=> ItemAt(fs, j, n, p)
<1> AckRecord(i).t = "ack" /\ AckRecord(i).id = i
  BY Zenon DEF AckRecord
<1> \A j, n, p : ItemAt(gs, j, n, p) <=> ItemAt(fs, j, n, p)
  BY Zenon DEF ItemAt, Adds
<1> \A j, n : AckAt(gs, j, n) <=> AckAt(fs, j, n) \/ (j = i /\ n = N)
  BY Zenon DEF AckAt, Adds
<1>1. \A j, n, p : ItemAt(fs, j, n, p) => n \in DOMAIN fs
  BY Zenon DEF ItemAt, Cell
<1>2. Written(gs) = Written(fs) /\ Retired(gs) = Retired(fs) \cup {i}
  BY Zenon DEF Written, Retired
<1>3. Ordered(gs)
  BY <1>1 DEF Ordered
<1> QED
  BY Zenon, <1>2, <1>3

\* The oldest file goes, with retired items only: an ack that goes with it
\* retires nothing that stays.
LEMMA FileDropped ==
  ASSUME NEW fs, NEW gs, NEW L \in Nat, FilesOK(fs), Ordered(fs), \A m \in DOMAIN fs : L <= m,
         Drops(fs, gs, L),
         \A i, p : ItemAt(fs, i, L, p) => i \in Retired(fs)
  PROVE  /\ Ordered(gs) /\ Outstanding(gs) = Outstanding(fs)
         /\ Written(gs) \subseteq Written(fs) /\ Retired(gs) \subseteq Retired(fs)
         /\ \A i, n, p : ItemAt(fs, i, n, p) /\ i \notin Retired(fs) => ItemAt(gs, i, n, p)
<1> \A i, n, p : ItemAt(gs, i, n, p) <=> n # L /\ ItemAt(fs, i, n, p)
  BY Zenon DEF ItemAt, Drops
<1> \A i, n : AckAt(gs, i, n) <=> n # L /\ AckAt(fs, i, n)
  BY Zenon DEF AckAt, Drops
<1>1. \A i, n, p : ItemAt(fs, i, n, p) => n \in Nat /\ L <= n
  BY Zenon DEF ItemAt, Cell, FilesOK
<1>2. Written(gs) \subseteq Written(fs) /\ Retired(gs) \subseteq Retired(fs)
  BY Zenon DEF Written, Retired
<1>3. Ordered(gs)
  BY DEF Ordered
<1> \A i, n, p : ItemAt(fs, i, n, p) /\ i \notin Retired(fs) => ItemAt(gs, i, n, p)
  BY Zenon
<1>4. \A i, n, p, m : ItemAt(gs, i, n, p) /\ AckAt(fs, i, m) => m # L
  BY <1>1 DEF Ordered
<1>5. \A i \in Written(gs) : i \in Retired(fs) => i \in Retired(gs)
  BY Zenon, <1>4 DEF Written, Retired
<1>6. \A i \in Outstanding(fs) : i \in Written(gs)
  BY Zenon DEF Outstanding, Written
<1> QED
  BY Zenon, <1>2, <1>3, <1>5, <1>6 DEF Outstanding

\* A write that succeeds in a clean log puts its record where Location says.
LEMMA WriteAdds ==
  ASSUME StoreInv, AtEnd, NEW rec \in Records, WriteOK(rec)
  PROVE  /\ Adds(files, files', Location.seg, Location.pos, rec)
         /\ AtEnd' /\ segment' = TRUE /\ \A m \in DOMAIN files : m <= Location.seg
         /\ Clean(files) /\ rec.t \in {"item", "ack"} => Clean(files')
<1> /\ segment /\ segment' = segment /\ segmentNum' = TargetNum /\ segmentSize' = TargetSize + 1
    /\ files' = Put(TargetFiles, TargetNum, rec)
  BY Zenon DEF WriteOK, Refuses
<1> /\ FilesOK(TargetFiles) /\ TargetNum \in DOMAIN TargetFiles /\ DOMAIN files \subseteq DOMAIN TargetFiles
    /\ TargetNum \in Nat /\ TargetSize \in Nat
  BY Zenon, TargetFilesOK
<1> /\ \A m, p, r : Cell(TargetFiles, m, p, r) <=> Cell(files, m, p, r)
    /\ \A m \in DOMAIN TargetFiles : m <= TargetNum
    /\ \A m \in DOMAIN TargetFiles : m \in DOMAIN files \/ TargetFiles[m] = EmptySegment
    /\ \A m \in DOMAIN files : TargetFiles[m] = files[m]
    /\ TargetSize = Len(TargetFiles[TargetNum].recs)
  BY Zenon, TargetCells DEF AtEnd
<1> /\ \A m, p, r : Cell(files', m, p, r) <=>
          Cell(TargetFiles, m, p, r) \/ (m = TargetNum /\ p = Len(TargetFiles[TargetNum].recs) + 1 /\ r = rec)
    /\ Len(files'[TargetNum].recs) = Len(TargetFiles[TargetNum].recs) + 1
    /\ \A m \in DOMAIN TargetFiles : files'[m].hdr = TargetFiles[m].hdr
  BY PutCells
<1> DOMAIN files' = DOMAIN TargetFiles
  BY Zenon DEF Put, WithFile
<1> Location.seg = TargetNum /\ Location.pos = TargetSize + 1
  BY Zenon DEF Location
<1> \A n, p, r : Cell(files', n, p, r) <=>
      Cell(files, n, p, r) \/ (n = Location.seg /\ p = Location.pos /\ r = rec)
  OBVIOUS
<1>1. AtEnd'
  BY Zenon DEF AtEnd
<1>2. ASSUME Clean(files), rec.t \in {"item", "ack"} PROVE Clean(files')
  <2>1. \A m \in DOMAIN files' : files'[m].hdr
    BY <1>2 DEF Clean, EmptySegment
  <2> QED
    BY Zenon, <1>2, <2>1 DEF Clean
<1> QED
  BY Zenon, <1>1, <1>2 DEF Adds

\* A crash in the middle of an append leaves a log that is still legible.
LEMMA CrashLegible ==
  ASSUME StoreInv, AtEnd, Clean(files), Ordered(files), NEW rec \in Records, NEW kinds,
         NEW fs \in CrashImages(rec, kinds)
  PROVE  Legible(fs) /\ Ordered(fs) /\ Written(fs) = Written(files) /\ Retired(fs) = Retired(files)
<1> FilesOK(files) /\ segmentNum + 1 \in Nat /\ HeaderlessSegment \in {EmptySegment, HeaderlessSegment}
  BY StoreInvFiles DEF StoreInv, StoreTypeOK
<1>1. Legible(files)
  BY Zenon DEF Clean, Legible
<1>2. CASE fs = files
  BY Zenon, <1>1, <1>2
<1>3. CASE segment /\ fs = WithFile(files, segmentNum + 1, HeaderlessSegment)
  <2>0. segmentNum + 1 \notin DOMAIN files
    <3>1. \A m \in DOMAIN files : m <= segmentNum /\ m \in Nat
      BY Zenon, <1>3 DEF AtEnd, FilesOK
    <3> QED
      BY <3>1 DEF StoreInv, StoreTypeOK
  <2>4. \A m, p, r : Cell(fs, m, p, r) <=> Cell(files, m, p, r)
    BY Zenon, <1>3, <2>0, FileCells
  <2>2. /\ DOMAIN fs = DOMAIN files \cup {segmentNum + 1} /\ fs[segmentNum + 1] = HeaderlessSegment
        /\ \A m \in DOMAIN files : fs[m] = files[m]
    BY Zenon, <1>3, <2>0 DEF WithFile
  <2>3. Legible(fs)
    <3>1. \A m \in DOMAIN fs : fs[m].hdr \/ Len(fs[m].recs) = 0
      BY <2>2 DEF Clean, HeaderlessSegment
    <3>2. ASSUME NEW m, NEW p, NEW r, Cell(fs, m, p, r) PROVE r.t \in {"item", "ack"}
      <4>1. Cell(files, m, p, r)
        BY Zenon, <2>4, <3>2
      <4> QED
        BY Zenon, <4>1 DEF Clean
    <3> QED
      BY Zenon, <3>1, <3>2 DEF Legible
  <2> QED
    BY Zenon, <2>3, <2>4, SameItems
<1>4. ASSUME segment, NEW left \in Records, left.t \in {"torn", "cut"}, fs = Put(TargetFiles, TargetNum, left)
      PROVE  Legible(fs) /\ Ordered(fs) /\ Written(fs) = Written(files) /\ Retired(fs) = Retired(files)
  <2> FilesOK(TargetFiles) /\ TargetNum \in DOMAIN TargetFiles
    BY Zenon, <1>4, TargetFilesOK
  <2> /\ \A m, p, r : Cell(TargetFiles, m, p, r) <=> Cell(files, m, p, r)
      /\ \A m \in DOMAIN TargetFiles : m \in DOMAIN files \/ TargetFiles[m] = EmptySegment
      /\ \A m \in DOMAIN files : TargetFiles[m] = files[m]
    BY Zenon, <1>4, TargetCells DEF AtEnd
  <2> /\ \A m, p, r : Cell(fs, m, p, r) <=>
            Cell(TargetFiles, m, p, r) \/ (m = TargetNum /\ p = Len(TargetFiles[TargetNum].recs) + 1 /\ r = left)
      /\ Len(fs[TargetNum].recs) = Len(TargetFiles[TargetNum].recs) + 1
      /\ \A m \in DOMAIN TargetFiles : fs[m].hdr = TargetFiles[m].hdr
    BY <1>4, PutCells
  <2>1. DOMAIN fs = DOMAIN TargetFiles
    BY Zenon, <1>4 DEF Put, WithFile
  <2>2. \A m \in DOMAIN fs : fs[m].hdr
    BY <2>1 DEF Clean, EmptySegment
  <2>3. \A n, p, r : Cell(fs, n, p, r) => r.t \in {"item", "ack"} \/ p = Len(fs[n].recs)
    BY Zenon DEF Clean
  <2>4. \A n, p, r : Cell(fs, n, p, r) => Cell(files, n, p, r) \/ r.t \notin {"item", "ack"}
    BY Zenon, <1>4
  <2>5. \A n, p, r : Cell(files, n, p, r) => Cell(fs, n, p, r)
    BY Zenon
  <2> QED
    BY Zenon, <2>2, <2>3, <2>4, <2>5, SameItems DEF Legible
<1>5. /\ Torn(rec) \in Records /\ Torn(rec).t = "torn" /\ \A a \in Attempts : Cut(rec, a) \in Records /\ Cut(rec, a).t = "cut"
  BY Zenon DEF Torn, Cut, Records, RecordTypes
<1>6. \/ fs = files \/ (segment /\ fs = WithFile(files, segmentNum + 1, HeaderlessSegment))
      \/ segment /\ (fs = Put(TargetFiles, TargetNum, Torn(rec)) \/ \E a \in Attempts : fs = Put(TargetFiles, TargetNum, Cut(rec, a)))
  BY Zenon DEF CrashImages, Refuses
<1> QED
  BY Zenon, <1>2, <1>3, <1>4, <1>5, <1>6

\* A replay of a legible log finds the outstanding items, each at its record.
LEMMA ReplayFinds ==
  ASSUME FilesOK(files), Legible(files), Ordered(files)
  PROVE  /\ PendingIds = Outstanding(files)
         /\ \A r \in Pending : ItemAt(files, IdAt(r), r[1], r[2]) /\ IdAt(r) \notin Retired(files)
<1>1. ASSUME NEW n \in DOMAIN files
      PROVE  /\ n \in Nat /\ files[n].recs \in Seq(Records) /\ Len(files[n].recs) \in Nat
             /\ \A p \in 1..Len(files[n].recs) : Cell(files, n, p, files[n].recs[p]) /\ files[n].recs[p].id \in Ids
  <2> files[n] \in Segments /\ n \in Nat
    BY Zenon DEF FilesOK
  <2> files[n].recs \in Seq(Records)
    BY Zenon DEF Segments
  <2>1. \A p \in 1..Len(files[n].recs) : files[n].recs[p] \in Records
    OBVIOUS
  <2> QED
    BY <2>1 DEF Cell, Records
<1>2. ASSUME NEW n \in DOMAIN files, NEW p
      PROVE  p \in Replayed(n) <=> p \in 1..Len(files[n].recs) /\ Parses(n, p)
  <2>1. CASE Len(files[n].recs) = 0
    BY <1>1, <2>1 DEF Replayed
  <2>2. CASE files[n].hdr
    <3>1. ASSUME NEW q \in 1..Len(files[n].recs) PROVE Parses(n, q) \/ q = Len(files[n].recs)
      BY Zenon, <1>1 DEF Legible, Parses
    <3>2. ASSUME p \in 1..Len(files[n].recs), Parses(n, p) PROVE \A q \in 1..(p - 1) : Parses(n, q)
      BY <1>1, <3>1, <3>2
    <3>3. ASSUME p \in 1..Len(files[n].recs), ReadsAsItem(n, p) PROVE Parses(n, p)
      BY <1>1, <3>1, <3>3 DEF ReadsAsItem, Parses
    <3> QED
      BY Zenon, <2>2, <3>2, <3>3 DEF Replayed
  <2> QED
    BY Zenon, <2>1, <2>2 DEF Legible
<1> \A r : r \in ReplayedItems <=> \E n \in DOMAIN files : \E p \in 1..Len(files[n].recs) :
      r = <<n, p>> /\ files[n].recs[p].t = "item"
  <2>1. ASSUME NEW r \in ReplayedItems
        PROVE  \E n \in DOMAIN files : \E p \in 1..Len(files[n].recs) : r = <<n, p>> /\ files[n].recs[p].t = "item"
    <3>1. PICK n \in DOMAIN files : r \in {n} \X Replayed(n)
      BY Zenon DEF ReplayedItems, ReplayedAt
    <3> r = <<n, r[2]>> /\ r[2] \in Replayed(n) /\ r[1] = n
      BY <3>1
    <3>2. files[n].recs[r[2]].t # "ack"
      BY Zenon DEF ReplayedItems
    <3> QED
      BY Zenon, <1>2, <3>2 DEF Parses
  <2>2. ASSUME NEW n \in DOMAIN files, NEW p \in 1..Len(files[n].recs), files[n].recs[p].t = "item"
        PROVE  <<n, p>> \in ReplayedItems
    BY <1>2, <2>2 DEF ReplayedItems, ReplayedAt, Parses
  <2> QED
    BY Zenon, <2>1, <2>2
<1>3. \A i \in Ids : i \in ReplayedAcks <=> i \in Retired(files)
  <2>1. ASSUME NEW i \in ReplayedAcks PROVE \E n : AckAt(files, i, n)
    <3> PICK r \in ReplayedAt \ ReplayedItems : i = files[r[1]].recs[r[2]].id
      BY Zenon DEF ReplayedAcks
    <3>1. PICK n \in DOMAIN files : r \in {n} \X Replayed(n)
      BY Zenon DEF ReplayedAt
    <3> r = <<n, r[2]>> /\ r[2] \in Replayed(n) /\ r[1] = n
      BY <3>1
    <3> files[n].recs[r[2]].t = "ack" /\ r[2] \in 1..Len(files[n].recs)
      BY Zenon, <1>2 DEF ReplayedItems
    <3>2. Cell(files, n, r[2], files[n].recs[r[2]])
      BY Zenon, <1>1
    <3> QED
      BY Zenon, <3>2 DEF AckAt
  <2>2. ASSUME NEW i \in Ids, NEW n, AckAt(files, i, n) PROVE i \in ReplayedAcks
    <3>1. PICK p, r : Cell(files, n, p, r) /\ r.t = "ack" /\ r.id = i
      BY Zenon, <2>2 DEF AckAt
    <3> n \in DOMAIN files /\ p \in 1..Len(files[n].recs) /\ files[n].recs[p].t = "ack" /\ files[n].recs[p].id = i
      BY Zenon, <3>1 DEF Cell
    <3>2. p \in Replayed(n)
      BY Zenon, <1>2 DEF Parses
    <3>3. <<n, p>> \in ReplayedAt /\ <<n, p>> \notin ReplayedItems
      BY <3>2 DEF ReplayedAt, ReplayedItems
    <3> QED
      BY <3>3 DEF ReplayedAcks
  <2> QED
    BY Zenon, <2>1, <2>2 DEF Retired
<1>4. ASSUME NEW r \in ReplayedItems
      PROVE  ItemAt(files, IdAt(r), r[1], r[2]) /\ IdAt(r) \in Ids /\ r = <<r[1], r[2]>> /\ r[1] \in Nat /\ r[2] \in Nat
  <2>1. PICK n \in DOMAIN files : \E p \in 1..Len(files[n].recs) : r = <<n, p>> /\ files[n].recs[p].t = "item"
    BY Zenon
  <2> PICK p \in 1..Len(files[n].recs) : r = <<n, p>> /\ files[n].recs[p].t = "item"
    BY Zenon, <2>1
  <2>2. IdAt(r) = files[n].recs[p].id /\ r[1] = n /\ r[2] = p
    BY Zenon DEF IdAt
  <2> QED
    BY <1>1, <2>2 DEF ItemAt
<1>5. ASSUME NEW r \in ReplayedItems, NEW q \in ReplayedItems, IdAt(q) = IdAt(r) PROVE ~Later(q, r)
  <2>1. q[1] = r[1] /\ q[2] = r[2] /\ r[1] \in Nat /\ r[2] \in Nat
    BY <1>4, <1>5 DEF Ordered
  <2> QED
    BY <2>1 DEF Later
<1> \A r : r \in Pending <=> r \in ReplayedItems /\ IdAt(r) \notin Retired(files)
  BY Zenon, <1>3, <1>4, <1>5 DEF Pending
<1>6. ASSUME NEW i \in Ids, NEW n, NEW p, ItemAt(files, i, n, p) PROVE <<n, p>> \in ReplayedItems /\ IdAt(<<n, p>>) = i
  <2>1. PICK r : Cell(files, n, p, r) /\ r.t = "item" /\ r.id = i
    BY Zenon, <1>6 DEF ItemAt
  <2>2. n \in DOMAIN files /\ p \in 1..Len(files[n].recs) /\ files[n].recs[p].t = "item" /\ files[n].recs[p].id = i
    BY Zenon, <2>1 DEF Cell
  <2>3. <<n, p>> \in ReplayedItems
    BY Zenon, <2>2
  <2> QED
    BY Zenon, <2>2, <2>3 DEF IdAt
<1>7. \A i : i \in PendingIds <=> i \in Outstanding(files)
  <2>1. ASSUME NEW i \in PendingIds PROVE i \in Outstanding(files)
    BY <1>4 DEF PendingIds, Outstanding, Written
  <2>2. ASSUME NEW i \in Outstanding(files) PROVE i \in PendingIds
    BY Zenon, <1>6 DEF PendingIds, Outstanding, Written
  <2> QED
    BY Zenon, <2>1, <2>2
<1> QED
  BY Zenon, <1>4, <1>7
=============================================================================
