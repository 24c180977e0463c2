---------------------------- MODULE StateEvents ----------------------------
(***************************************************************************)
(* The state watcher (internal/collector/state): the rules of the config   *)
(* become informers, an informer's callbacks put events in a bounded       *)
(* channel without ever blocking, and several workers take them out, turn  *)
(* them into messages and write those to the queue.                        *)
(***************************************************************************)
EXTENDS Naturals, Sequences, FiniteSetsExt

CONSTANTS Rules,        \* sequence of [ns, kind, sel]; ns "" is every namespace
          Objects,      \* set of [ns, kind, labels, name]
          SkipAdded,    \* kinds whose Descriptor says SkipAdded
          Workers, BufferSize,
          MaxVersion,   \* bound: changes per object of each kind
          MaxFaults     \* failed writes

VARIABLES version,      \* per object: its changes so far, each "added" or "other"
          seen,         \* how far each informer has told of each object
          workCh,       \* Collector.workCh
          hand,         \* what each worker is processing, or <<>>
          reported,     \* the version of the object's last message in the queue
          dropped,      \* objects with an event counted as dropped
          overtaken,    \* history: objects two workers held at once
          running, faults

vars == <<version, seen, workCh, hand, reported, dropped, overtaken, running, faults>>

\* (mutant) the second rule of a resource is dropped whatever its namespace
InformersByKind ==
    {i \in DOMAIN Rules : \A j \in 1 .. i - 1 : Rules[j].kind # Rules[i].kind}

\* startInformers: one informer per namespace and resource; a later rule on
\* the same pair adds none, whatever its selectors.
Informers ==
    {i \in DOMAIN Rules : \A j \in 1 .. i - 1 : <<Rules[j].ns, Rules[j].kind>> # <<Rules[i].ns, Rules[i].kind>>}

\* What the informer of rule r lists and watches.
Selects(r, o) == r.kind = o.kind /\ r.ns \in {"", o.ns} /\ r.sel \in o.labels

Init ==
    /\ version = [o \in Objects |-> <<>>]
    /\ seen = [i \in Informers |-> [o \in Objects |-> 0]]
    /\ reported = [o \in Objects |-> 0]
    /\ workCh = <<>> /\ hand = [w \in Workers |-> <<>>]
    /\ dropped = {} /\ overtaken = {} /\ running = TRUE /\ faults = 0

-----------------------------------------------------------------------------
\* (mutant) a full channel loses the event and counts nothing
EmitUncounted(o, v) ==
    /\ workCh' = IF Len(workCh) < BufferSize THEN Append(workCh, <<o, v>>) ELSE workCh
    /\ UNCHANGED dropped

\* emit: a full channel drops the event and counts it.
Emit(o, v) ==
    \/ /\ Len(workCh) < BufferSize
       /\ workCh' = Append(workCh, <<o, v>>)
       /\ UNCHANGED dropped
    \/ /\ Len(workCh) >= BufferSize
       /\ dropped' = dropped \cup {o}
       /\ UNCHANGED workCh

\* The cluster: an object that is not there, at first or after a change that
\* was its removal, is added.
Changes(o) ==
    /\ running /\ Len(version[o]) < MaxVersion[o.kind]
    /\ \E change \in {"added", "other"} :
          /\ IF version[o] = <<>> THEN change = "added"
             ELSE change = "added" => version[o][Len(version[o])] = "other"
          /\ version' = [version EXCEPT ![o] = Append(@, change)]
    /\ UNCHANGED <<seen, workCh, hand, reported, dropped, overtaken, running, faults>>

\* handlersFor: no handler is told of the additions of a kind that skips them.
HasHandler(o, n) == version[o][n] # "added" \/ o.kind \notin SkipAdded

\* onAdd, onUpdate, onDelete: each informer tells of an object's changes in
\* order and on a goroutine of its own; an object two rules select is told
\* twice.
CallsBack(i, o) ==
    /\ running /\ Selects(Rules[i], o) /\ seen[i][o] < Len(version[o])
    /\ seen' = [seen EXCEPT ![i][o] = @ + 1]
    /\ IF HasHandler(o, seen[i][o] + 1) THEN Emit(o, seen[i][o] + 1)
                                       ELSE UNCHANGED <<workCh, dropped>>
    /\ UNCHANGED <<version, hand, reported, overtaken, running, faults>>

Takes(w) ==
    /\ running /\ hand[w] = <<>> /\ workCh # <<>>
    /\ hand' = [hand EXCEPT ![w] = Head(workCh)]
    /\ workCh' = Tail(workCh)
    /\ overtaken' = IF \E x \in Workers \ {w} : hand[x] # <<>> /\ hand[x][1] = Head(workCh)[1]
                    THEN overtaken \cup {Head(workCh)[1]} ELSE overtaken
    /\ UNCHANGED <<version, seen, reported, dropped, running, faults>>

\* processItem: the sanitised object is written to the queue.
Writes(w) ==
    /\ hand[w] # <<>>
    /\ reported' = [reported EXCEPT ![hand[w][1]] = hand[w][2]]
    /\ hand' = [hand EXCEPT ![w] = <<>>]
    /\ UNCHANGED <<version, seen, workCh, dropped, overtaken, running, faults>>

\* The object cannot be encoded, or the queue refuses or times out.
WriteFails(w) ==
    /\ hand[w] # <<>> /\ (faults < MaxFaults \/ ~running)
    /\ faults' = IF running THEN faults + 1 ELSE faults
    /\ dropped' = dropped \cup {hand[w][1]}
    /\ hand' = [hand EXCEPT ![w] = <<>>]
    /\ UNCHANGED <<version, seen, workCh, reported, overtaken, running>>

\* Stop: the workers leave, and what the channel holds stays in it.
Stop ==
    /\ running
    /\ running' = FALSE
    /\ UNCHANGED <<version, seen, workCh, hand, reported, dropped, overtaken, faults>>

Next ==
    \/ \E o \in Objects : Changes(o) \/ \E i \in Informers : CallsBack(i, o)
    \/ \E w \in Workers : Takes(w) \/ Writes(w) \/ WriteFails(w)
    \/ Stop

-----------------------------------------------------------------------------
\* An object that a rule selects is what its last message says, once the
\* pipeline is empty: the newest state reaches the queue unless an event of
\* the object was counted as dropped, two workers held the object at once
\* (nothing then orders their writes), or the rule shares its namespace and
\* resource with an earlier one and got no informer of its own.  Of a kind that
\* skips additions (secrets), the newest state is that of its last change that
\* was none: one that was only added is not reported at all.
NewestReported ==
    /\ running /\ workCh = <<>>
    /\ \A w \in Workers : hand[w] = <<>>
    /\ \A i \in Informers : \A o \in Objects : Selects(Rules[i], o) => seen[i][o] = Len(version[o])
    =>
        \A o \in Objects \ (dropped \cup overtaken) :
            (\E i \in DOMAIN Rules :
                /\ Selects(Rules[i], o)
                /\ \A j \in 1 .. i - 1 : Rules[j].ns # Rules[i].ns \/ Rules[j].kind # Rules[i].kind)
            => reported[o] = Max({0} \cup {n \in 1..Len(version[o]) :
                                        o.kind \in SkipAdded => version[o][n] # "added"})
=============================================================================
