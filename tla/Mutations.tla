----------------------------- MODULE Mutations -----------------------------
(***************************************************************************)
(* Writes asked for by the gateway (internal/mutate).  handleMutation      *)
(* gives each request a goroutine of its own under the session's context;  *)
(* Execute checks the request, asks the policy, passes the gate and makes  *)
(* one call to the API server, bounded by the clamped timeout.  Other      *)
(* clients write the same objects meanwhile.                               *)
(***************************************************************************)
EXTENDS Naturals, FiniteSets

CONSTANTS Workers,      \* goroutines of handleMutation, one request each
          Names,        \* the objects of one resource, namespace and name
          Rules,        \* the policy: records [names, verbs]
          Asks,         \* the requests: body is the name in the payload, None when
                        \* it has none, Garbled when it does not decode; sameNs
                        \* whether it leaves the namespace to the request; rv
                        \* and uid say whether they are sent along
          InFlight,     \* slots of the gate
          Queued,       \* requests that may wait for one
          MaxWrites,    \* bound: resource versions the API server hands out
          MaxEnds       \* bound: sessions that end

Verbs == {"patch", "delete", "restart", "scale", "create"}
None == "none"
Garbled == "garbled"
NoAsk == [verb |-> None, kind |-> "", name |-> None, body |-> None, sameNs |-> TRUE, rv |-> 0, uid |-> 0,
          dry |-> FALSE]
Absent == [uid |-> 0, rv |-> 0]

VARIABLES
    store,      \* the API server: the object under each name
    clock,      \* its resource versions so far
    at,         \* where each worker is
    ask,        \* the request it works on
    dead,       \* its session ended: ctx is done
    result,     \* what its answer says, None before it: see Says
    landed,     \* the object its write replaced; {} when it wrote nothing
    wrote,      \* the name it wrote to
    slots, queue,   \* the gate's channels: tokens in them
    ends
gate == <<slots, queue>>
cluster == <<store, clock>>
vars == <<store, clock, at, ask, dead, result, landed, wrote, slots, queue, ends>>

Init ==
    /\ store = [n \in Names |-> [uid |-> 1, rv |-> 1]] /\ clock = 1
    /\ at = [w \in Workers |-> "free"] /\ ask = [w \in Workers |-> NoAsk]
    /\ dead = [w \in Workers |-> FALSE] /\ result = [w \in Workers |-> None]
    /\ landed = [w \in Workers |-> {}] /\ wrote = [w \in Workers |-> None]
    /\ slots = 0 /\ queue = 0 /\ ends = 0

-----------------------------------------------------------------------------
(* Requests *)

\* A request's author has just read the object it names, and sends along the
\* version and the uid it saw, or leaves them out.
Sees(t) == [verb |-> t.verb, kind |-> t.kind, name |-> t.name, body |-> t.body, sameNs |-> t.sameNs, dry |-> t.dry,
            rv |-> IF t.rv THEN store[t.name].rv ELSE 0, uid |-> IF t.uid THEN store[t.name].uid ELSE 0]

\* The name the policy is asked about: a create's is in its body.
Named(a) == IF a.verb = "create" THEN a.body ELSE a.name

Decide(verb, name) == \E r \in Rules : name \in r.names /\ verb \in r.verbs

\* What execute refuses before the gate.
Refused(a) ==
    \/ a.verb \notin Verbs
    \/ a.verb = "create" /\ (a.body \in {None, Garbled} \/ ~a.sameNs)
    \/ ~Decide(a.verb, Named(a))
    \/ a.verb = "patch" /\ a.rv = 0
    \/ a.verb = "restart" /\ a.kind # "workload"

\* handleMutation and execute up to gate.acquire's first select.
Begins(w, a) ==
    /\ at[w] = "free"
    /\ ask' = [ask EXCEPT ![w] = a]
    /\ IF Refused(a) \/ queue = InFlight + Queued
       THEN /\ result' = [result EXCEPT ![w] = "refused"] /\ at' = [at EXCEPT ![w] = "done"]
            /\ UNCHANGED queue
       ELSE /\ queue' = queue + 1 /\ at' = [at EXCEPT ![w] = "waiting"]
            /\ UNCHANGED result
    /\ UNCHANGED <<cluster, dead, landed, wrote, slots, ends>>

TakesSlot(w) ==
    /\ at[w] = "waiting" /\ slots < InFlight
    /\ slots' = slots + 1 /\ at' = [at EXCEPT ![w] = "running"]
    /\ UNCHANGED <<cluster, ask, dead, result, landed, wrote, queue, ends>>

\* The session ended first: the place in the queue is given back.
GivesUp(w) ==
    /\ at[w] = "waiting" /\ dead[w]
    /\ queue' = queue - 1 /\ at' = [at EXCEPT ![w] = "done"]
    /\ result' = [result EXCEPT ![w] = "refused"]
    /\ UNCHANGED <<cluster, ask, dead, landed, wrote, slots, ends>>

-----------------------------------------------------------------------------
(* The call *)

TakesBody(a) == a.verb = "scale" \/ (a.verb = "patch" /\ a.kind = "replace")

\* (mutant) the body's own name stands
EnforceTargetTrusts(a) == {a}

\* A body may not name another object or namespace than the one the policy was
\* asked about; {} is refused, else the body is pinned to the request's target.
EnforceTarget(a) == IF a.body \in {None, a.name} /\ a.sameNs THEN {[a EXCEPT !.body = a.name]} ELSE {}

\* What patch, delete, restart, scale and create send, {} for a request they
\* refuse themselves.  (A merge payload that decodes to no map is not modelled.)
Sent(a) ==
    CASE a.verb \in {"patch", "scale"} /\ a.body = Garbled -> {}
      [] a.verb = "patch" /\ a.kind \notin {"replace", "merge", "strategic"} -> {}
      [] TakesBody(a) -> EnforceTarget(a)
      [] OTHER -> {a}

\* Update and Create address the object by the name in the body.
Target(a) == IF TakesBody(a) \/ a.verb = "create" THEN a.body ELSE a.name

\* A patch sends the version its author read and a delete the version and the
\* uid it was given; a scale and a restart send neither.
Stale(a, o) ==
    \/ a.verb \in {"patch", "delete"} /\ a.rv \notin {0, o.rv}
    \/ a.verb = "delete" /\ a.uid \notin {0, o.uid}

\* The error the API server answers a call with, None when it writes.
Verdict(a, o) ==
    CASE a.verb = "create" /\ o # Absent -> "alreadyExists"
      [] a.verb # "create" /\ o = Absent -> "notFound"
      [] Stale(a, o) -> "conflict"
      [] OTHER -> None

\* (mutant) the deadline counts as the API server saying "not now"
MapAPIErrorRetries(e) ==
    CASE e = "conflict" -> "CONFLICT"
      [] e = "notFound" -> "NOT_FOUND"
      [] e = "forbidden" -> "RBAC_DENIED"
      [] e = "invalid" -> "INVALID"
      [] e = "entityTooLarge" -> "TOO_LARGE"
      [] e \in {"tooManyRequests", "unavailable", "deadline", "timeout"} -> "RESOURCE_EXHAUSTED"
      [] OTHER -> "INTERNAL"

\* mapAPIError.  A cancelled context, a lost connection and an object that
\* already exists have no code of their own.
MapAPIError(e) ==
    CASE e = "conflict" -> "CONFLICT"
      [] e = "notFound" -> "NOT_FOUND"
      [] e = "forbidden" -> "RBAC_DENIED"
      [] e = "invalid" -> "INVALID"
      [] e = "entityTooLarge" -> "TOO_LARGE"
      [] e \in {"tooManyRequests", "unavailable"} -> "RESOURCE_EXHAUSTED"
      [] e \in {"deadline", "timeout"} -> "TIMEOUT"
      [] OTHER -> "INTERNAL"

\* Errors that hide an outcome, and those of a call that was turned away.
Lost(w) == {"deadline", "timeout", "connectionLost"} \cup (IF dead[w] THEN {"canceled"} ELSE {})
TurnedAway == {"forbidden", "invalid", "entityTooLarge", "tooManyRequests", "unavailable"}

\* payloadResult: the object written may not marshal or be too large to return.
PayloadResult(a) == IF a.verb = "delete" THEN {"OK"} ELSE {"OK", "INTERNAL", "TOO_LARGE"}

\* What a code tells the gateway: that the write was made, that nothing was
\* ("refused", safe to correct and retry), or neither ("unknown").
Says(code) ==
    CASE code = "OK" -> "ok"
      [] code \in {"TIMEOUT", "TOO_LARGE", "INTERNAL"} -> "unknown"
      [] OTHER -> "refused"

Written(a, o) ==
    CASE a.verb = "delete" -> Absent
      [] a.verb = "create" -> [uid |-> clock + 1, rv |-> clock + 1]
      [] OTHER -> [o EXCEPT !.rv = clock + 1]

Answered(w, code) == at' = [at EXCEPT ![w] = "leaving"] /\ result' = [result EXCEPT ![w] = Says(code)]

\* (mutant) the request goes out without the dry run option
CallRuns(w) ==
    /\ at[w] = "running" /\ clock < MaxWrites
    /\ \E a \in Sent(ask[w]) :
          /\ Verdict(a, store[Target(a)]) = None
          /\ store' = [store EXCEPT ![Target(a)] = Written(a, store[Target(a)])] /\ clock' = clock + 1
          /\ landed' = [landed EXCEPT ![w] = {store[Target(a)]}]
          /\ wrote' = [wrote EXCEPT ![w] = Target(a)]
          /\ \E code \in PayloadResult(a) \cup {MapAPIError(e) : e \in Lost(w)} : Answered(w, code)
    /\ UNCHANGED <<ask, dead, gate, ends>>

\* The API server takes the call and, unless it is a dry run, writes; its
\* answer may be lost on the way back.
Call(w) ==
    /\ at[w] = "running" /\ clock < MaxWrites
    /\ \E a \in Sent(ask[w]) :
          /\ Verdict(a, store[Target(a)]) = None
          /\ IF a.dry THEN UNCHANGED <<store, clock, landed, wrote>>
             ELSE /\ store' = [store EXCEPT ![Target(a)] = Written(a, store[Target(a)])] /\ clock' = clock + 1
                  /\ landed' = [landed EXCEPT ![w] = {store[Target(a)]}]
                  /\ wrote' = [wrote EXCEPT ![w] = Target(a)]
          /\ \E code \in PayloadResult(a) \cup {MapAPIError(e) : e \in Lost(w)} : Answered(w, code)
    /\ UNCHANGED <<ask, dead, gate, ends>>

\* The request is refused by its own verb's checks or by the API server.
CallRefused(w) ==
    /\ at[w] = "running"
    /\ \/ Sent(ask[w]) = {} /\ Answered(w, "INVALID")
       \/ \E a \in Sent(ask[w]) :
             LET v == IF Target(a) \in Names THEN Verdict(a, store[Target(a)]) ELSE "notFound"
             IN  v # None /\ Answered(w, MapAPIError(v))
    /\ UNCHANGED <<cluster, ask, dead, landed, wrote, gate, ends>>

\* RBAC, admission, load shedding, or a call that never arrived.
CallFails(w) ==
    /\ at[w] = "running"
    /\ Sent(ask[w]) # {}
    /\ \E e \in TurnedAway \cup Lost(w) : Answered(w, MapAPIError(e))
    /\ UNCHANGED <<cluster, ask, dead, landed, wrote, gate, ends>>

\* (mutant) only a successful call gives its slot back
ReleaseOnSuccess(w) ==
    /\ at[w] = "leaving"
    /\ slots' = IF result[w] = "ok" THEN slots - 1 ELSE slots
    /\ at' = [at EXCEPT ![w] = "left"]
    /\ UNCHANGED <<cluster, ask, dead, result, landed, wrote, queue, ends>>

\* The deferred release: the slot, then the place in the queue.
Release(w) ==
    /\ at[w] = "leaving" /\ slots' = slots - 1 /\ at' = [at EXCEPT ![w] = "left"]
    /\ UNCHANGED <<cluster, ask, dead, result, landed, wrote, queue, ends>>

ReleaseQueue(w) ==
    /\ at[w] = "left" /\ queue' = queue - 1 /\ at' = [at EXCEPT ![w] = "done"]
    /\ UNCHANGED <<cluster, ask, dead, result, landed, wrote, slots, ends>>

-----------------------------------------------------------------------------
(* The rest of the world *)

\* The session ends: the context of every request it carried is done.  What
\* is running is not waited for.
SessionEnds ==
    /\ ends < MaxEnds /\ ends' = ends + 1
    /\ dead' = [w \in Workers |-> dead[w] \/ at[w] # "free"]
    /\ UNCHANGED <<cluster, at, ask, result, landed, wrote, gate>>

\* Another client of the API server.
OthersWrite(n) ==
    /\ clock < MaxWrites /\ clock' = clock + 1
    /\ store' = [store EXCEPT ![n] = IF @ = Absent THEN [uid |-> clock + 1, rv |-> clock + 1]
                                     ELSE [@ EXCEPT !.rv = clock + 1]]
    /\ UNCHANGED <<at, ask, dead, result, landed, wrote, gate, ends>>

Next ==
    \/ \E w \in Workers :
          \/ \E t \in Asks : Begins(w, Sees(t))
          \/ TakesSlot(w) \/ GivesUp(w) \/ Call(w) \/ CallRefused(w) \/ CallFails(w)
          \/ Release(w) \/ ReleaseQueue(w)
    \/ SessionEnds
    \/ \E n \in Names : OthersWrite(n)

\* The goroutines run.  A call ends at the latest at its deadline, and the
\* gate's channels serve the senders that wait on them in turn.
Fairness ==
    \A w \in Workers :
        /\ SF_vars(TakesSlot(w)) /\ WF_vars(GivesUp(w))
        /\ WF_vars(Call(w) \/ CallRefused(w) \/ CallFails(w))
        /\ WF_vars(Release(w)) /\ WF_vars(ReleaseQueue(w))

-----------------------------------------------------------------------------
(* Properties *)

\* No write is lost under another and none is made that was not asked for:
\* what reached an object was permitted for that very object, a patch replaced
\* the version its author had read and a delete the object its author named,
\* whoever wrote in between (a scale and a restart name no version and land on
\* whatever is there), while a dry run changed nothing.  An answer of success
\* means the write was made, and a code that reads as a refusal, the one that
\* invites a retry included, that it was not, although the deadline or the end
\* of the session may hide the outcome of a write.
WritesAsAsked ==
    \A w \in Workers :
        /\ \A o \in landed[w] :
              /\ Decide(ask[w].verb, wrote[w]) /\ ~ask[w].dry
              /\ ask[w].verb = "patch" => o.rv = ask[w].rv
              /\ ask[w].verb = "delete" => ask[w].uid \in {0, o.uid} /\ ask[w].rv \in {0, o.rv}
              /\ result[w] # "refused"
        /\ result[w] = "ok" /\ ~ask[w].dry => landed[w] # {}

\* Every request gets an answer from Execute and leaves the gate, whatever the
\* API server does with the calls before it, whether or not its session is
\* still there and also when the gate is full; and once nobody is inside, the
\* gate has all of its slots and places back.
EveryWriteAnswered ==
    /\ \A w \in Workers : at[w] # "free" ~> at[w] = "done" /\ result[w] # None
    /\ []((\A w \in Workers : at[w] \in {"free", "done"}) => slots = 0 /\ queue = 0)
=============================================================================
