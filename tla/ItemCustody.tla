----------------------------- MODULE ItemCustody -----------------------------
(***************************************************************************)
(* What the queue promises about each item, whatever it does inside: who   *)
(* has custody of it, and which changes of custody there are.              *)
(*                                                                         *)
(*   new       not handed to Enqueue yet                                   *)
(*   buffered  in memory                                                   *)
(*   stored    in the log: it survives the death of the process            *)
(*   taken     dequeued from memory, not settled                           *)
(*   on loan   dequeued from the log, not settled; the log still has it    *)
(*   settled   acked, counted as dropped, or refused to its producer       *)
(*   lost      it was only in memory when the process died                 *)
(*                                                                         *)
(* Interface comments: internal/queue/queue.go, type Queue.                *)
(***************************************************************************)
CONSTANT Ids

VARIABLES custody, alive

Custodies == {"new", "buffered", "stored", "taken", "on loan", "settled", "lost"}

\* Where a running queue may move an item.
Onward(c) ==
  IF c \in {"new", "taken"} THEN {"buffered", "stored", "settled"}
  ELSE IF c = "buffered" THEN {"stored", "taken", "settled"}
  ELSE IF c \in {"stored", "on loan"} THEN {"stored", "on loan", "settled"} ELSE {}

\* The death of the process takes what was only in memory and nothing else.
AfterDeath(c) ==
  IF c \in {"buffered", "taken"} THEN "lost" ELSE IF c = "on loan" THEN "stored" ELSE c

Init == custody = [i \in Ids |-> "new"] /\ alive = FALSE

Start == ~alive /\ alive' = TRUE /\ UNCHANGED custody
Move ==
  /\ alive /\ UNCHANGED alive
  /\ custody' \in [Ids -> Custodies]
  /\ \A i \in Ids : custody'[i] = custody[i] \/ custody'[i] \in Onward(custody[i])
Die == alive /\ alive' = FALSE /\ custody' = [i \in Ids |-> AfterDeath(custody[i])]

Next == Start \/ Move \/ Die

Spec == Init /\ [][Next]_<<custody, alive>>
=============================================================================
