---------------------------- MODULE LogInvariants ---------------------------
(***************************************************************************)
(* The inductive invariants that tie the queue to its log, and what they   *)
(* say of the custody of an item.                                          *)
(***************************************************************************)
EXTENDS QueueInvariants, QueueLife

\* What a step may do to the items.
Flow == ItemFlow \/ Crash \/ New \/ NewCrash

-----------------------------------------------------------------------------
(***************************************************************************)
(* What the log must contain.                                              *)
(***************************************************************************)

\* No file operation has failed and no crash has torn a record.
SoundDisk == faults = 0 /\ (crashes = 0 \/ CrashFaults = {} \/ ~Spill)

\* Appending resumes where the directory ends.
LogEnd == AtEnd /\ (up /\ Spill => segment \/ storeClosed)

\* A reference points at the record of its item, and a running queue has a
\* reference to every outstanding item.
RefsFit ==
  /\ \A s \in Spots : ItemAt(files, s[1], s[2], s[3])
  /\ up => LoggedIds = Outstanding(files)

\* What is settled is nowhere else, and neither is what died with the memory.
Ended ==
  /\ Retired(files) \subseteq Settled
  /\ Settled \cap (VolatileIds \cup Outstanding(files)) = {}
  /\ lost \cap (VolatileIds \cup Settled \cup Written(files)) = {}
SoundLog == Clean(files) /\ Ordered(files) /\ LogEnd /\ RefsFit /\ Ended

\* Facts that hold whatever the disk does.
Basics ==
  /\ Settled \cup lost \subseteq arrived
  /\ ~Spill => DOMAIN files = {} /\ ~segment
  /\ ~up /\ crashes = 0 => faults = 0

\* The inductive invariant.
SoundInv == BootShape /\ Basics /\ (SoundDisk => SoundLog)

\* At most one crash has torn a record.
OneTear == crashes <= 1 \/ CrashFaults = {} \/ ~Spill

\* NoSilentLoss, with the directory's own account of what is outstanding.
Accounted ==
  ~flushFailed /\ (faults = 0 \/ crashes = 0)
    => arrived \subseteq VolatileIds \cup LoggedIds \cup Settled \cup lost \cup (IF up THEN {} ELSE Outstanding(files))

\* The inductive invariant: the log of a dead process can be replayed.
AccountInv == OneTear => (~up /\ faults = 0 => Legible(files) /\ Ordered(files)) /\ Accounted

-----------------------------------------------------------------------------
\* The items the log answers for, replayed or not.
LogIds == IF up THEN LoggedIds ELSE PendingIds

\* What arrived is in memory, in the log, settled or lost, and in one of them.
Apart ==
  /\ VolatileIds \cap LogIds = {} /\ Settled \cap (VolatileIds \cup LogIds) = {}
  /\ lost \cap (VolatileIds \cup LogIds \cup Settled) = {}
  /\ arrived = VolatileIds \cup LogIds \cup Settled \cup lost
  /\ DOMAIN inflight \subseteq arrived /\ (~up => VolatileIds = {} /\ DOMAIN inflight = {})

\* How a running queue moves items: what is logged stays or is settled, what
\* reaches the log is not out, and what arrives is not out.
Moves ==
  /\ Running /\ Settled \subseteq Settled' /\ LoggedIds \subseteq LoggedIds' \cup Settled'
  /\ VolatileIds \cap LoggedIds' \cap DOMAIN inflight' = {}
  /\ arrived \subseteq arrived' /\ (arrived' = arrived \/ inflight' = inflight)
=============================================================================
