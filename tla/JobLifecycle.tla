---------------------------- MODULE JobLifecycle ----------------------------
(***************************************************************************)
(* What a node job promises the gateway, with no cluster in it.  A job is  *)
(* refused outright, or takes the agent's only slot, reports its progress  *)
(* in order, gives the slot back and only then concludes.  It concludes    *)
(* once.                                                                   *)
(***************************************************************************)

CONSTANTS Jobs

VARIABLES
    stage,  \* per job: "new", "active", "released", "over"
    phase   \* per job: the phase of the last event emitted, "NONE" before one

vars == <<stage, phase>>

Open == {"NONE", "ACCEPTED", "RUNNING"}
Terminal == {"SUCCEEDED", "FAILED", "CANCELLED", "REFUSED"}

Init ==
    /\ stage = [j \in Jobs |-> "new"]
    /\ phase = [j \in Jobs |-> "NONE"]

\* Turned away at the door: unknown verb, policy, or the slot is taken.
Refuse(j) ==
    /\ stage[j] = "new"
    /\ stage' = [stage EXCEPT ![j] = "over"]
    /\ phase' = [phase EXCEPT ![j] = "REFUSED"]

\* The slot is free only if no job is active.
Take(j) ==
    /\ stage[j] = "new"
    /\ \A k \in Jobs : stage[k] # "active"
    /\ stage' = [stage EXCEPT ![j] = "active"]
    /\ UNCHANGED phase

\* Progress never goes backwards: accepted once, then running.
Report(j) ==
    /\ stage[j] = "active"
    /\ \E p \in {"ACCEPTED", "RUNNING"} :
         /\ p = "ACCEPTED" => phase[j] = "NONE"
         /\ p = "RUNNING" => phase[j] \in {"ACCEPTED", "RUNNING"}
         /\ phase' = [phase EXCEPT ![j] = p]
    /\ UNCHANGED stage

Release(j) ==
    /\ stage[j] = "active"
    /\ stage' = [stage EXCEPT ![j] = "released"]
    /\ UNCHANGED phase

\* A job is refused only before it was accepted, and succeeds only after.
Conclude(j) ==
    /\ stage[j] = "released"
    /\ \E p \in Terminal :
         /\ p = "REFUSED" => phase[j] = "NONE"
         /\ p = "SUCCEEDED" => phase[j] # "NONE"
         /\ phase' = [phase EXCEPT ![j] = p]
    /\ stage' = [stage EXCEPT ![j] = "over"]

Next ==
    \E j \in Jobs : Refuse(j) \/ Take(j) \/ Report(j) \/ Release(j) \/ Conclude(j)

Spec == Init /\ [][Next]_vars
=============================================================================
