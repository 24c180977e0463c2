----------------------------- MODULE QueryPages -----------------------------
(***************************************************************************)
(* A live list answered page by page (internal/query).  The gateway's      *)
(* pager follows continue_token; each page is its own request: the policy  *)
(* decides when it arrives, it waits at the gate, the API server cuts the  *)
(* page, and the agent drops the rows the deciding rule does not name and  *)
(* the rows past its byte limit.  The policy may be swapped meanwhile.     *)
(***************************************************************************)
EXTENDS Naturals, Sequences, FiniteSets

CONSTANTS Rows,         \* the objects in key order: records [name, label, bytes,
                        \* row], row being what a Table's row holds of the object:
                        \* "object", "bare" (nothing) or "garbled"
          Policies,     \* policies that may be in force: {} or one rule
                        \* {[names, labels]}; names, the name patterns, and
                        \* labels are sets; no patterns match every name
          Limits,       \* page sizes a pager asks for; 0 leaves it to the agent
          DefLimit, MaxLimit, MaxBytes,
          MaxSwaps, MaxFaults

\* Page tokens are positions in the key order: 0 starts, End is past the last.
End == Len(Rows)
NoRequest == [view |-> "", limit |-> 0, from |-> 0]

VARIABLES
    policy,         \* Holder: the policy in force
    request,        \* the page being asked for, NoRequest between pages
    decision,       \* the rule the policy chose for it; {} before
    token,          \* where the pager goes on
    got,            \* the rows it has, in order
    cut,            \* some page said it was truncated
    used,           \* rules its pages were taken under
    tabled,         \* history: rows of its Table pages, with the page's rule
    want,           \* the labels it selects
    swaps, faults
pager == <<token, got, cut, used, tabled, want>>
vars == <<policy, request, decision, token, got, cut, used, tabled, want, swaps, faults>>

Init ==
    /\ policy \in Policies /\ request = NoRequest /\ decision = {}
    /\ token = 0 /\ got = <<>> /\ cut = FALSE /\ used = {} /\ tabled = {}
    /\ want \in {r.label : r \in {Rows[i] : i \in DOMAIN Rows}} \cup {"any"}
    /\ swaps = 0 /\ faults = 0

Swap ==
    /\ swaps < MaxSwaps /\ swaps' = swaps + 1
    /\ policy' \in Policies \ {policy}
    /\ UNCHANGED <<request, decision, pager, faults>>

-----------------------------------------------------------------------------
(* The pages the API server cuts *)

\* andSelector: the rule's labels and the request's.
Selected(rule, i) == Rows[i].label \in rule.labels /\ (want = "any" \/ Rows[i].label = want)

\* The rows of one page, and the position the continue token names.
PageRows(rule, from, limit) ==
    LET hits == {i \in from + 1 .. End : Selected(rule, i)}
    IN  {i \in hits : Cardinality({j \in hits : j < i}) < limit}

NextToken(rule, from, limit) ==
    LET page == PageRows(rule, from, limit)
        rest == {i \in from + 1 .. End : Selected(rule, i)} \ page
    IN  IF rest = {} THEN End ELSE CHOOSE t \in page : \A i \in page : i <= t

\* policy.MatchesName.
MatchesName(rule, i) == rule.names = {} \/ Rows[i].name \in rule.names

Bytes(page) == LET upTo[i \in 0 .. End] == IF i = 0 THEN 0 ELSE upTo[i - 1] + (IF i \in page THEN Rows[i].bytes ELSE 0)
               IN  upTo[End]

ClampLimit(limit) == IF limit = 0 THEN DefLimit ELSE IF limit > MaxLimit THEN MaxLimit ELSE limit

-----------------------------------------------------------------------------
(* execute *)

\* The pager asks for a page, and execute asks the policy once.
Asks(view, limit) ==
    /\ request = NoRequest /\ token < End /\ policy # {}
    /\ request' = [view |-> view, limit |-> limit, from |-> token]
    /\ decision' = policy
    /\ UNCHANGED <<policy, pager, swaps, faults>>

\* The policy in force denies it: the API server is not asked.
Denied ==
    /\ request = NoRequest /\ token < End /\ policy = {} /\ faults < MaxFaults
    /\ faults' = faults + 1
    /\ UNCHANGED <<policy, request, decision, pager, swaps>>

\* The gate is full, the session ends, the call fails: the pager asks again.
Fails ==
    /\ request # NoRequest /\ faults < MaxFaults /\ faults' = faults + 1
    /\ request' = NoRequest /\ decision' = {}
    /\ UNCHANGED <<policy, pager, swaps>>

\* The token's resource version was compacted: QUERY_ERROR_EXPIRED, and the
\* pager starts over.
Expires ==
    /\ request # NoRequest /\ request.from # 0 /\ faults < MaxFaults /\ faults' = faults + 1
    /\ request' = NoRequest /\ decision' = {}
    /\ token' = 0 /\ got' = <<>> /\ cut' = FALSE /\ used' = {} /\ tabled' = {}
    /\ UNCHANGED <<policy, want, swaps>>

\* The rows of a set of positions, in order.
InOrder(page) ==
    LET inPage(i) == i \in page
    IN  SelectSeq([i \in 1 .. End |-> i], inPage)

Answers(rule, kept, truncated) ==
    /\ got' = got \o InOrder(kept) /\ cut' = (cut \/ truncated) /\ used' = used \cup {rule}
    /\ token' = NextToken(rule, request.from, ClampLimit(request.limit))
    /\ request' = NoRequest /\ decision' = {}
    /\ UNCHANGED <<policy, want, swaps, faults>>

\* (mutant) rows past the byte limit are dropped without a word
ListSilent ==
    /\ request # NoRequest /\ request.view = "full"
    /\ \E rule \in decision :
          LET page == {i \in PageRows(rule, request.from, ClampLimit(request.limit)) : MatchesName(rule, i)}
          IN  /\ Answers(rule, {i \in page : Bytes({j \in page : j <= i}) <= MaxBytes}, FALSE)
              /\ UNCHANGED tabled

\* list: rows the rule names, up to the first that exceeds the byte limit.
\* The token still points past the whole page.
List ==
    /\ request # NoRequest /\ request.view = "full"
    /\ \E rule \in decision :
          LET page == {i \in PageRows(rule, request.from, ClampLimit(request.limit)) : MatchesName(rule, i)}
              fits == {i \in page : Bytes({j \in page : j <= i}) <= MaxBytes}
          IN  Answers(rule, fits, fits # page) /\ UNCHANGED tabled

\* filterTable keeps a row without an object when no name has to match, drops
\* one whose object does not decode, and judges the others by their names.
KeepsRow(rule, i) ==
    CASE Rows[i].row = "bare" -> rule.names = {}
      [] Rows[i].row = "garbled" -> FALSE
      [] OTHER -> MatchesName(rule, i)

\* (mutant) the rows are judged by the policy now in force
ListTableAsksAgain ==
    /\ request # NoRequest /\ request.view = "table"
    /\ \E rule \in decision :
          LET page == PageRows(rule, request.from, ClampLimit(request.limit))
          IN  IF Bytes(page) > MaxBytes
              THEN request' = NoRequest /\ decision' = {} /\ UNCHANGED <<policy, pager, swaps, faults>>
              ELSE /\ Answers(rule, {i \in page : \E now \in policy : KeepsRow(now, i)}, FALSE)
                   /\ tabled' = tabled \cup (page \X {rule})

\* listTable and filterTable: a page whose body is too large is refused whole
\* (the pager asks for a smaller one), else its rows are filtered; a page that
\* lost rows says nothing of it.
ListTable ==
    /\ request # NoRequest /\ request.view = "table"
    /\ \E rule \in decision :
          LET page == PageRows(rule, request.from, ClampLimit(request.limit))
          IN  IF Bytes(page) > MaxBytes
              THEN request' = NoRequest /\ decision' = {} /\ UNCHANGED <<policy, pager, swaps, faults>>
              ELSE /\ Answers(rule, {i \in page : KeepsRow(rule, i)}, FALSE)
                   /\ tabled' = tabled \cup (page \X {rule})

Next ==
    \/ Swap
    \/ \E view \in {"full", "table"}, limit \in Limits : Asks(view, limit)
    \/ Denied \/ Fails \/ Expires \/ List \/ ListTable

-----------------------------------------------------------------------------
(* Properties *)

Permits(rule, i) == Selected(rule, i) /\ MatchesName(rule, i)

\* Rows a Table page held with an object that does not decode, or with none
\* under a rule that names patterns: filterTable drops them and the page is
\* not marked.
Unreadable ==
    {i \in 1 .. End : \E rule \in used :
        /\ <<i, rule>> \in tabled
        /\ Rows[i].row = "garbled" \/ (Rows[i].row = "bare" /\ rule.names # {})}

\* A pager that follows the tokens to the end without a page marked truncated
\* has every row that each of the rules its pages were decided by permits, but
\* for the rows a Table page could not show it, which go missing without a
\* trace; it has each once and in key order, and at no time a row that none of
\* the rules permits: through swaps of the policy between pages and between a
\* decision and its call, limits over the maximum, expired tokens, pages
\* refused as too large and both views mixed.
PagesComplete ==
    LET have == {got[k] : k \in DOMAIN got}
    IN  /\ \A k, l \in DOMAIN got : k < l => got[k] < got[l]
        /\ \A i \in have : \E rule \in used : Permits(rule, i)
        /\ token = End /\ ~cut =>
              {i \in 1 .. End : \A rule \in used : Permits(rule, i)} \subseteq have \cup Unreadable
=============================================================================
