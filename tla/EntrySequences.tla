---------------------------- MODULE EntrySequences ----------------------------
(***************************************************************************)
(* The sequences of entries the queue keeps: memCh, diskRefs, and the      *)
(* slices a nack collects.  An entry is a record with an id.               *)
(***************************************************************************)
EXTENDS Integers, Sequences, Functions

\* The three operators of SequencesExt that are used here, without the rest of
\* that module: every proof obligation carries all definitions in scope.
Front(s) == SubSeq(s, 1, Len(s) - 1)
Last(s) == s[Len(s)]
Reverse(s) == [k \in 1..Len(s) |-> s[Len(s) - k + 1]]

EntryIds(s) == {s[k].id : k \in DOMAIN s}
IdsOf(s) == [k \in DOMAIN s |-> s[k].id]
DistinctIds(s) == \A j, k \in DOMAIN s : s[j].id = s[k].id => j = k
=============================================================================
