---------------------------- MODULE ConfigBlocks ----------------------------
(***************************************************************************)
(* The blocks of the agent's configuration that the platform may manage    *)
(* (pkg/config/blocks.go), with the normalisation and the validation they  *)
(* go through (collect.go, config.go, query.go).                           *)
(*                                                                         *)
(* A configuration maps each block key to a record.  A rule is             *)
(*    [id |-> ..., ok |-> BOOLEAN]                                         *)
(* where id is <<>> when the author wrote none, and ok stands for every    *)
(* check the rule's own text goes through (resources that parse, a tail    *)
(* that is not negative).  A managed block's body is a record with the     *)
(* keys its author wrote; the key "local" stands for the settings of a     *)
(* block the platform may not write (checkpoint_dir, redact_secrets), and  *)
(* those of metrics that decide what is valid have keys of their own.      *)
(***************************************************************************)
EXTENDS Integers, Sequences, TLC

ManagedBlockKeys == {"logs", "state", "metrics", "query", "buffer"}

\* The keys of a body the platform may write.
AllowedKeys(key) == IF key = "buffer" THEN {"batch_size"} ELSE {"enabled", "rules"}

\* EffectLive: every consumer reads the block again on each use.  The others
\* are read, wholly or in part, when the collectors are built.
LiveBlocks == {"query", "buffer"}

CollectBlocks == {"logs", "state", "metrics"}

\* normalize of a rule: the index names a rule that has no id.
NamedRule(key, i, r) == IF r.id = <<>> THEN [r EXCEPT !.id = <<key, i - 1>>] ELSE r

\* A collect block without rules that gets the default rule.  Metrics has other
\* sources, and an old switch that asks for the rule whether enabled or not.
LacksRules(key, b) ==
    /\ b.rules = <<>>
    /\ IF key = "metrics" THEN b.kube_metrics \/ (b.enabled /\ b.custom_endpoints = {}) ELSE b.enabled

\* normalize of a collect block: every rule gets an id.
NormalizeBlock(key, b) ==
    LET rules == IF LacksRules(key, b) THEN <<[id |-> <<>>, ok |-> TRUE]>> ELSE b.rules
    IN  [b EXCEPT !.rules = [i \in DOMAIN rules |-> NamedRule(key, i, rules[i])]]

Normalize(c) == [k \in CollectBlocks |-> NormalizeBlock(k, c[k])] @@ c

DistinctIds(rules) == \A i, j \in DOMAIN rules : rules[i].id = rules[j].id => i = j

ValidRules(rules) == DistinctIds(rules) /\ \A i \in DOMAIN rules : rules[i].ok

\* validate of collect.logs and collect.state; a disabled block is not looked at.
ValidLogsOrState(b) == b.enabled => b.rules # <<>> /\ ValidRules(b.rules)

\* validate of collect.metrics: custom endpoints, cAdvisor and
\* kube-state-metrics (the targets) do without rules, and are checked too.
ValidMetrics(b) ==
    b.enabled => /\ b.rules # <<>> \/ b.custom_endpoints \cup b.targets # {}
                 /\ ValidRules(b.rules)
                 /\ \A t \in b.custom_endpoints \cup b.targets : t.ok

ValidCollect(key, b) == IF key = "metrics" THEN ValidMetrics(b) ELSE ValidLogsOrState(b)

\* validateQuery: the rules the policy inherits from collect.state when
\* query.rules is empty are checked for wildcards only, not for what they name.
ValidQuery(c) == \A i \in DOMAIN c.query.rules : c.query.rules[i].ok

ValidBuffer(b) == b.batch_size > 0

\* Config.Validate, on the collection settings.
ValidConfig(c) ==
    /\ ValidBuffer(c.buffer)
    /\ \E k \in CollectBlocks : c[k].enabled
    /\ \A k \in CollectBlocks : ValidCollect(k, c[k])
    /\ ValidQuery(c)

\* Decoding a body over a block: the keys it names replace the block's own.
Overlay(c, key, body) == [c EXCEPT ![key] = body @@ @]

\* ValidateBlock: on its own, over the built-in defaults.
ValidateBlock(default, key, body) ==
    LET c == Normalize(Overlay(default, key, body))
    IN  /\ DOMAIN body \subseteq AllowedKeys(key)
        /\ "rules" \in DOMAIN body => body.rules # <<>>
        /\ CASE key \in CollectBlocks -> ValidCollect(key, c[key])
             [] key = "query"         -> ValidQuery(c)
             [] key = "buffer"        -> ValidBuffer(c.buffer)

\* Every block of the set over the file's configuration, and nothing kept of an
\* earlier set.
Overlaid(base, blocks) ==
    Normalize([k \in ManagedBlockKeys |-> IF k \in DOMAIN blocks THEN blocks[k] @@ base[k] ELSE base[k]])

\* ApplyBlocks refuses the whole set for one bad block.
Applies(default, base, blocks) ==
    /\ DOMAIN blocks \subseteq ManagedBlockKeys
    /\ \A k \in DOMAIN blocks : ValidateBlock(default, k, blocks[k])
    /\ ValidConfig(Overlaid(base, blocks))

\* RestartRequiredBlocks: what differs in a block that is not live.
RestartRequiredBlocks(built, effective) ==
    {k \in ManagedBlockKeys \ LiveBlocks : Normalize(built)[k] # Normalize(effective)[k]}

\* Config.QueryRules: without rules of its own the query policy inherits those
\* of collect.state, whether or not state collection is enabled.
QueryRules(c) == IF c.query.rules # <<>> THEN c.query.rules ELSE c.state.rules

\* policy.Compile
Compiles(c) == ValidQuery(c) /\ \A i \in DOMAIN QueryRules(c) : QueryRules(c)[i].ok
=============================================================================
