---------------------------- MODULE QueueCustody ----------------------------
(***************************************************************************)
(* The abstract custody of an item, as a function of the queue's state.    *)
(***************************************************************************)
EXTENDS QueueState

CustodyOf(i) ==
  LET out == i \in DOMAIN inflight
  IN  IF i \in VolatileIds THEN IF out THEN "taken" ELSE "buffered"
      ELSE IF i \in (IF up THEN LoggedIds ELSE PendingIds) THEN IF out THEN "on loan" ELSE "stored"
      ELSE IF i \in Settled THEN "settled"
      ELSE IF i \in lost THEN "lost"
      ELSE IF i \in arrived THEN "gone" ELSE "new"
CustodyOfIds == [i \in Ids |-> CustodyOf(i)]

Custody == INSTANCE ItemCustody WITH custody <- CustodyOfIds, alive <- up

\* The queue implements ItemCustody when writes do not fail and a crash
\* falls between two writes: an item that reached the log is in the log until
\* it is settled, through any number of restarts, and settled is final.
ImplementsCustody == Custody!Spec
=============================================================================
