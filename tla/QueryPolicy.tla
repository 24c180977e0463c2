---------------------------- MODULE QueryPolicy ----------------------------
(***************************************************************************)
(* The live query policy: the effective rules QueryRules                   *)
(* (pkg/config/query.go) derives from the owner's, with the metrics        *)
(* mirrors and the namespace discovery rule behind them, and Decide        *)
(* (internal/query/policy), where the first rule that matches answers.     *)
(* The owner's rule list grows one rule at a time.                         *)
(***************************************************************************)
EXTENDS Naturals, Sequences, FiniteSets

CONSTANTS Namespaces,   \* the namespaces of the cluster
          MaxRules      \* bound: rules the owner writes

\* A rule: the namespace it names or "" for all, what it lists ("*" is every
\* resource), its verbs, and the selectors that narrow its answers, each the
\* rule's own and told apart by the rule's place in the list.  Name patterns
\* narrow the rows of a list as a label selector does.
OwnerResources == {"pods", "nodes", "*"}
Verbs == {{"list"}, {"get"}, {"list", "get"}}
Selectors == SUBSET {"labels", "fields"}

VARIABLES rules         \* the owner's rules, in order
vars == <<rules>>

Init == rules = <<>>

AddRule ==
    /\ Len(rules) < MaxRules
    /\ \E ns \in Namespaces \cup {""}, res \in OwnerResources, vs \in Verbs, sels \in Selectors :
          rules' = Append(rules, [ns |-> ns, resource |-> res, verbs |-> vs,
                                  sel |-> {<<s, Len(rules) + 1>> : s \in sels}])

Next == AddRule

-----------------------------------------------------------------------------
(* QueryRules *)

Usage(resource) == IF resource = "pods" THEN "usage of pods" ELSE "usage of nodes"

RuleTargets(r, resource) == r.resource \in {resource, "*"}

HasFields(r) == \E s \in r.sel : s[1] = "fields"

PermitsListing(r) == "list" \in r.verbs

\* A rule with a field selector that lists the resource: Decide takes it for
\* the objects, so no later rule may be mirrored.
Blocked(rs, i, resource) ==
    \E j \in 1 .. i : PermitsListing(rs[j]) /\ HasFields(rs[j]) /\ RuleTargets(rs[j], resource)

Mirror(r, resource) == [r EXCEPT !.resource = Usage(resource), !.verbs = {"list"}]

\* (mutant) a field selector keeps only its own rule from being mirrored
MetricsUsageRulesUnblocked(rs) ==
    LET mirrors(i) ==
            IF ~PermitsListing(rs[i]) \/ HasFields(rs[i]) \/ rs[i].resource \notin {"pods", "nodes"}
            THEN <<>> ELSE <<Mirror(rs[i], rs[i].resource)>>
        upTo[i \in 0 .. Len(rs)] == IF i = 0 THEN <<>> ELSE upTo[i - 1] \o mirrors(i)
    IN  upTo[Len(rs)]

\* metricsUsageRules: every rule that lists pods or nodes grants their usage,
\* unless it is a wildcard (which does so itself), has a field selector, or
\* comes behind one that has.
MetricsUsageRules(rs) ==
    LET mirrors(i) ==
            IF \/ ~PermitsListing(rs[i]) \/ HasFields(rs[i]) \/ rs[i].resource \notin {"pods", "nodes"}
               \/ Blocked(rs, i, rs[i].resource)
            THEN <<>> ELSE <<Mirror(rs[i], rs[i].resource)>>
        upTo[i \in 0 .. Len(rs)] == IF i = 0 THEN <<>> ELSE upTo[i - 1] \o mirrors(i)
    IN  upTo[Len(rs)]

NamespaceDiscovery == [ns |-> "", resource |-> "namespaces", verbs |-> {"list", "get"}, sel |-> {}]

WithNamespaceDiscovery(rs) ==
    IF \E i \in DOMAIN rs : RuleTargets(rs[i], "namespaces") THEN rs ELSE Append(rs, NamespaceDiscovery)

QueryRules(rs) == WithNamespaceDiscovery(rs \o MetricsUsageRules(rs))

-----------------------------------------------------------------------------
(* Policy *)

\* A request without a namespace is granted only by a rule without one.
MatchesNamespace(r, ns) == r.ns = "" \/ r.ns = ns

\* The rules that could answer; the first of them does.  A list carries no
\* name, so name patterns filter its rows instead.
Matching(rs, resource, verb, ns) ==
    {i \in DOMAIN rs : RuleTargets(rs[i], resource) /\ MatchesNamespace(rs[i], ns) /\ verb \in rs[i].verbs}

Decide(rs, resource, verb, ns) ==
    LET m == Matching(rs, resource, verb, ns)
    IN  IF m = {} THEN 0 ELSE CHOOSE i \in m : \A j \in m : i <= j

\* AllowsAnyList and AllowsAnyGet: the catalog's coarser answer.
AllowsAny(rs, resource, verb) == \E i \in DOMAIN rs : RuleTargets(rs[i], resource) /\ verb \in rs[i].verbs

-----------------------------------------------------------------------------
(* Properties *)

\* The cpu and memory columns show no object that the listing they decorate
\* does not show: whenever a request for the usage of pods or nodes is
\* answered by a mirror, the same request for the objects is granted too, and
\* under no selector that does not also narrow the usage, however the owner's
\* rules overlap, name namespaces, leave verbs out or carry field selectors.
\* (A wildcard rule answers for the usage itself and may be wider than an
\* earlier rule for the objects.)  And the catalog never hides what Decide
\* would grant.
UsageWithinListing ==
    LET eff == QueryRules(rules)
    IN  \A ns \in Namespaces \cup {""}, resource \in {"pods", "nodes"} :
            LET u == Decide(eff, Usage(resource), "list", ns)
                p == Decide(eff, resource, "list", ns)
            IN  /\ u # 0 /\ eff[u].resource # "*" => p # 0 /\ eff[p].sel \subseteq eff[u].sel
                /\ u # 0 => AllowsAny(eff, Usage(resource), "list")
                /\ p # 0 => AllowsAny(eff, resource, "list")
=============================================================================
