--------------------------- MODULE IngestLimiter ----------------------------
(***************************************************************************)
(* The per-stream byte budget of the log path (internal/ingestrules): one  *)
(* token bucket per stream key, filled by elapsed time, forgotten when it  *)
(* was not used for a while, and not made at all once the table is full.   *)
(* Goroutines read the rules and the clock before they take the limiter's  *)
(* lock, the gateway pushes other rules, and the collector's loop evicts   *)
(* on a ticker.                                                            *)
(***************************************************************************)
EXTENDS Naturals, Integers, Sequences, FiniteSets

CONSTANTS Keys,         \* stream keys
          Callers,      \* goroutines that handle lines
          Sizes,        \* bytes of a line
          Pushes,       \* rules the gateway may push: records [rate, burst]
          TTL,          \* BucketTTL
          Lag,          \* bound: time from a reading of the clock to the lock
          MaxEntries,   \* MaxLimiterEntries
          MaxTime, MaxLines,    \* bounds: the clock, and lines handled
          MaxRules      \* bound: different rules in force

None == [none |-> TRUE]
Off == [rate |-> 0, burst |-> 0]
NoCall == [key |-> "", n |-> 0, at |-> 0, rules |-> Off]

VARIABLES
    now,        \* the clock
    rules,      \* Store: the rules in force
    pushed,     \* the rules in force so far, which a caller may still hold
    bucket,     \* buckets: [tokens, last, used] or None, per key
    call,       \* per caller: the line it handles, the rules and time it read
    passed,     \* per key, the lines a bucket let through: [n, at], at its clock
    lines
vars == <<now, rules, pushed, bucket, call, passed, lines>>

Init ==
    /\ now = 0 /\ rules \in Pushes \cup {Off} /\ pushed = {rules} /\ bucket = [k \in Keys |-> None]
    /\ call = [c \in Callers |-> NoCall] /\ passed = [k \in Keys |-> <<>>] /\ lines = 0

Tick ==
    /\ now < MaxTime /\ now' = now + 1
    /\ \A c \in Callers : call[c] # NoCall => now - call[c].at < Lag
    /\ UNCHANGED <<rules, pushed, bucket, call, passed, lines>>

\* Store.Set.
SetRules ==
    /\ Cardinality(pushed) < MaxRules
    /\ rules' \in Pushes \cup {Off} /\ pushed' = pushed \cup {rules'}
    /\ UNCHANGED <<now, bucket, call, passed, lines>>

\* handleLogLine reads the rules, looks the workload up, reads the clock and
\* calls Allow: the rules are those in force now or at some time before ...
Calls(c, k, n, r) ==
    /\ call[c] = NoCall /\ lines < MaxLines /\ lines' = lines + 1
    /\ call' = [call EXCEPT ![c] = [key |-> k, n |-> n, at |-> now, rules |-> r]]
    /\ UNCHANGED <<now, rules, pushed, bucket, passed>>

Tracked == {k \in Keys : bucket[k] # None}

\* (mutant) a bucket takes in whatever has elapsed
RefillUncapped(b, at, r) ==
    IF at > b.last THEN [b EXCEPT !.tokens = @ + r.rate * (at - b.last), !.last = at, !.used = at]
    ELSE [b EXCEPT !.used = at]

\* Elapsed time fills the bucket up to the burst; an older reading does not.
Refill(b, at, r) ==
    LET filled == b.tokens + r.rate * (at - b.last)
    IN  IF at > b.last
        THEN [b EXCEPT !.tokens = IF filled > r.burst THEN r.burst ELSE filled, !.last = at, !.used = at]
        ELSE [b EXCEPT !.used = at]

\* ... and Allow works under the lock.  Without a rate and a burst every line
\* passes unmetered, and with the table full one of a new key.
Allow(c) ==
    /\ call[c] # NoCall /\ call' = [call EXCEPT ![c] = NoCall]
    /\ LET k == call[c].key
           n == call[c].n
           r == call[c].rules
           old == IF bucket[k] = None THEN [tokens |-> r.burst, last |-> call[c].at, used |-> call[c].at] ELSE bucket[k]
           b == Refill(old, call[c].at, r)
       IN  IF r.rate <= 0 \/ r.burst <= 0 \/ (bucket[k] = None /\ Cardinality(Tracked) >= MaxEntries)
           THEN UNCHANGED <<bucket, passed>>
           ELSE IF b.tokens < n
           THEN bucket' = [bucket EXCEPT ![k] = b] /\ UNCHANGED passed
           ELSE /\ bucket' = [bucket EXCEPT ![k] = [b EXCEPT !.tokens = @ - n]]
                /\ passed' = [passed EXCEPT ![k] = Append(@, [n |-> n, at |-> b.last])]
    /\ UNCHANGED <<now, rules, pushed, lines>>

\* Evict(now - TTL): buckets last used before that.
Evict ==
    /\ \E k \in Tracked : bucket[k].used < now - TTL
    /\ bucket' = [k \in Keys |-> IF k \in Tracked /\ bucket[k].used < now - TTL THEN None ELSE bucket[k]]
    /\ UNCHANGED <<now, rules, pushed, call, passed, lines>>

Next ==
    \/ Tick \/ SetRules \/ Evict
    \/ \E c \in Callers :
          \/ \E k \in Keys, n \in Sizes, r \in pushed : Calls(c, k, n, r)
          \/ Allow(c)

-----------------------------------------------------------------------------
(* Properties *)

\* In no stretch of time, by its bucket's clock, does a metered stream pass
\* more than the largest burst and the largest rate times the stretch of the
\* rules in force so far, however the rules and clock readings of its lines
\* overtake each other on the way to the lock, and although its bucket is
\* forgotten and made anew at full burst: a bucket unused for TTL would have
\* been full, as long as no burst is more than what its rate fills in TTL.
\* The table stays bounded.
RateKept ==
    /\ \A k \in Keys : \A i, j \in DOMAIN passed[k] : i <= j =>
          LET sum[l \in i .. j] == passed[k][l].n + (IF l = i THEN 0 ELSE sum[l - 1])
          IN  \E r, s \in pushed : sum[j] <= r.burst + s.rate * (passed[k][j].at - passed[k][i].at)
    /\ Cardinality(Tracked) <= MaxEntries
=============================================================================
