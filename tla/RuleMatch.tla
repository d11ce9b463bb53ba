------------------------------ MODULE RuleMatch ------------------------------
(***************************************************************************)
(* How a routing or DNS rule is matched (route/rule: rule_abstract.go,     *)
(* match_state.go, rule_item_rule_set.go, rule_dns.go).                    *)
(*                                                                         *)
(* The code never merges the rules of a rule set into the rule that        *)
(* includes it.  It carries the set of groups that are already matched (a  *)
(* ruleMatchState) into every nested rule, collects the states that come   *)
(* back in a bit set (a ruleMatchStateSet), and filters them by the groups *)
(* the outer rule needs.  One behaviour of this module is the evaluation   *)
(* of one rule, in the two ways the DNS router evaluates it: in full, and  *)
(* before the lookup, when ip_cidr items are ignored.  Every turn of the   *)
(* loops over nested rules is a step; next to the collected states the     *)
(* model keeps what the documented reading, merging the rules, gives.      *)
(*                                                                         *)
(* Abstracted: an item is absent, matching or not; ip_cidr items know      *)
(* which of the two addresses of the connection they contain.  A nested    *)
(* rule is a default rule or a logical rule of default rules.              *)
(***************************************************************************)
EXTENDS Naturals, Sequences, FiniteSets

CONSTANTS
    Groups,         \* the groups of items that are ORed; both addresses are among them
    Outer,          \* the rules to evaluate
    Nested,         \* the rules their rule sets, or the logical rule, hold
    MaxNested       \* bound: how many of them one evaluation meets

Addresses == {"sourceAddress", "destinationAddress"}
Kinds == {"full", "pre"}

ASSUME GroupsAssumption == Addresses \subseteq Groups
ASSUME BoundAssumption == MaxNested \in Nat

VARIABLES
    rule,           \* the rule under evaluation
    stage,          \* "rules": looping over nested rules; "done"
    left,           \* nested rules that may still come
    states,         \* [Kinds -> set of ruleMatchStates] collected so far
    matched,        \* [Kinds -> BOOLEAN] the result, once done
    merged,         \* history: what the documented reading gives so far
    seen            \* history: marks of the nested rules seen (see Marks)

vars == <<rule, stage, left, states, matched, merged, seen>>

(***************************************************************************)
(* A default rule: its items by group, its ip_cidr items (present or not,  *)
(* and the addresses they contain), the other fields, inversion, and       *)
(* whether it includes rule sets, perhaps with                             *)
(* rule_set_ip_cidr_match_source.                                          *)
(***************************************************************************)
Field == {"absent", "no", "yes"}

DefaultRule == [items : [Groups -> Field], ipcidr : BOOLEAN, within : SUBSET Addresses,
                others : Field, invert : BOOLEAN, sets : BOOLEAN, source : BOOLEAN]

(* allItems is not empty: rules without conditions are refused. *)
IsValid(r) == r.sets \/ r.ipcidr \/ r.others # "absent" \/ \E g \in Groups : r.items[g] # "absent"

(* A rule of any shape: "one" is the default rule rules[1]; "and" and "or" *)
(* are logical rules of default rules without rule sets.  The rules of a   *)
(* logical rule to evaluate are met one by one (LogicalRule).              *)
IsRule(n) ==
    /\ n.mode \in {"one", "and", "or"} /\ n.invert \in BOOLEAN
    /\ n.mode = "one" => ~n.invert /\ n.rules \in [{1} -> DefaultRule]

ASSUME OuterAssumption == \A r \in Outer : IsRule(r)
ASSUME NestedAssumption ==
    \A n \in Nested :
        IsRule(n) /\ \A i \in DOMAIN n.rules : n.rules[i] \in DefaultRule /\ ~n.rules[i].sets

(* The metadata flags that steer matching; ResetRuleCache runs before any  *)
(* rule, and before every rule nested in a logical one.                    *)
Metadata(k) == [ignore |-> k = "pre", source |-> FALSE]
ResetRuleCache(m) == [m EXCEPT !.source = FALSE]
RuleSetMetadata(r, m) == [m EXCEPT !.source = r.source]

CountsAs(r, m, g) ==
    /\ r.ipcidr
    /\ ~m.ignore
    /\ g = IF m.source THEN "sourceAddress" ELSE "destinationAddress"

Required(r, m) == {g \in Groups : r.items[g] # "absent" \/ CountsAs(r, m, g)}
Found(r, m) ==
    {g \in Groups : r.items[g] = "yes" \/ (CountsAs(r, m, g) /\ g \in r.within)}

(***************************************************************************)
(* match_state.go                                                          *)
(***************************************************************************)
Combine(a, b) == {s \cup t : s \in a, t \in b}
Merge(a, b) == a \cup b

(* All the sets of a loop, combined on top of a base or merged. *)
MergeAll(parts) == UNION {parts[i] : i \in DOMAIN parts}
CombineAll(base, parts) ==
    {base \cup UNION {c[i] : i \in DOMAIN parts} :
        c \in {d \in [DOMAIN parts -> MergeAll(parts)] : \A i \in DOMAIN parts : d[i] \in parts[i]}}

(***************************************************************************)
(* abstractDefaultRule.matchStatesWithBase, in three parts: the state      *)
(* handed to the rule sets, the deferral of inverted ip_cidr items, and    *)
(* what follows the rule sets.                                             *)
(***************************************************************************)
(* Mutant: an inverted rule inherits. *)
BaseInherits(r, m, inherited) == inherited \cup Found(r, m)

BaseState(r, m, inherited) ==
    (IF r.invert THEN {} ELSE inherited) \cup Found(r, m)

InvertedFailure(r, inherited) == IF r.invert THEN {inherited} ELSE {}

DidMatch(r, m) == Required(r, m) # {} \/ r.others # "absent" \/ r.sets

(* Mutant: no inverted rule waits for the answer. *)
NeverDefers(r, m, kept) == FALSE
Defers(r, m, kept) == m.ignore /\ kept = {{}} /\ ~DidMatch(r, m) /\ r.ipcidr

Conclude(r, m, inherited, collected) ==
    LET kept == {s \in collected : Required(r, m) \subseteq s}
    IN  IF r.others = "no" \/ kept = {} THEN InvertedFailure(r, inherited)
        ELSE IF ~r.invert THEN kept
        ELSE IF Defers(r, m, kept) THEN {inherited} ELSE {}

DefaultStates(r, m, inherited) ==
    Conclude(r, m, inherited, {BaseState(r, m, inherited)})

(***************************************************************************)
(* abstractLogicalRule.matchStatesWithBase.  A nested rule is              *)
(* [mode, invert, rules]; "one" stands for a default rule, rules[1].       *)
(***************************************************************************)
LogicalStates(n, m, base) ==
    LET evaluation == IF n.invert THEN {} ELSE base
        parts == [i \in DOMAIN n.rules |->
                    DefaultStates(n.rules[i], ResetRuleCache(m), evaluation)]
        collected == IF n.mode = "and" THEN CombineAll(evaluation, parts) ELSE MergeAll(parts)
    IN  IF ~n.invert THEN collected
        ELSE IF collected = {} THEN {base} ELSE {}

NestedStates(n, m, base) ==
    IF n.mode = "one" THEN DefaultStates(n.rules[1], m, base) ELSE LogicalStates(n, m, base)

(***************************************************************************)
(* The documented reading.  A clause gives a group's value in one rule;    *)
(* merging rules ORs the items of a group.                                 *)
(***************************************************************************)
Clause(r, m) ==
    [g \in Groups |-> IF g \in Found(r, m) THEN "yes"
                      ELSE IF r.items[g] # "absent" \/ CountsAs(r, m, g) THEN "no"
                      ELSE "absent"]
Satisfied(clauses) ==
    \A g \in Groups : (\E c \in clauses : c[g] = "no") => \E c \in clauses : c[g] = "yes"
Passed(c) == [g \in Groups |-> IF c[g] = "no" THEN "absent" ELSE c[g]]

(* What a rule says alone; an inverted rule all of whose conditions are    *)
(* deferred to the answer counts as true before the lookup.                *)
OnlyDeferred(r, m) ==
    m.ignore /\ r.ipcidr /\ r.others = "absent" /\ \A g \in Groups : r.items[g] = "absent"
Positive(r, m) == r.others # "no" /\ Satisfied({Clause(r, m)})
Alone(r, m) == IF r.invert THEN OnlyDeferred(r, m) \/ ~Positive(r, m) ELSE Positive(r, m)

(* The clauses a nested default rule adds when merged: none if inverted. *)
Adds(r, m) == IF r.invert THEN {} ELSE {Clause(r, m)}
Agrees(r, m, outer) ==
    IF r.invert THEN Alone(r, m) ELSE r.others # "no" /\ Satisfied({Passed(outer), Clause(r, m)})

NestedHolds(n, m, outer) ==
    LET each(i) == Agrees(n.rules[i], m, outer)
        alone(i) == Alone(n.rules[i], m)
        adds(I) == UNION {Adds(n.rules[i], m) : i \in I}
        all == DOMAIN n.rules
    IN  IF n.invert
        THEN /\ Satisfied({outer})
             /\ IF n.mode = "and" THEN \E i \in all : ~alone(i) ELSE \A i \in all : ~alone(i)
        ELSE IF n.mode = "and"
        THEN (\A i \in all : each(i)) /\ Satisfied({outer} \cup adds(all))
        ELSE \E i \in all : each(i) /\ Satisfied({outer} \cup adds({i}))

(***************************************************************************)
(* The evaluation.                                                         *)
(***************************************************************************)
IsLogical == rule.mode # "one"
Top == rule.rules[1]

(* What the properties must know of the nested rules: that there was one;  *)
(* an ip_cidr item; an inverted rule with an ip_cidr item among other      *)
(* conditions; an ip_cidr item in a logical rule; address items that do    *)
(* not match.                                                              *)
HasCIDR(n) == \E i \in DOMAIN n.rules : n.rules[i].ipcidr
Mixed(r) == r.invert /\ r.ipcidr /\ ~OnlyDeferred(r, Metadata("pre"))
Unmatched(r) == \E g \in Addresses : r.items[g] = "no"
Marks(n) ==
    {x \in {"rule", "ipcidr", "mixed", "logical", "unmatched"} :
        /\ x \in {"ipcidr", "logical"} => HasCIDR(n)
        /\ x = "mixed" => \/ n.invert /\ HasCIDR(n)
                          \/ \E i \in DOMAIN n.rules : Mixed(n.rules[i])
        /\ x = "logical" => n.mode # "one"
        /\ x = "unmatched" => \E i \in DOMAIN n.rules : Unmatched(n.rules[i])}

Init ==
    /\ rule \in Outer
    /\ stage = "rules"
    /\ left = MaxNested
    /\ states = [k \in Kinds |->
                    IF rule.mode = "and" THEN {{}}
                    ELSE IF rule.mode = "or" \/ Top.sets THEN {}
                    ELSE {BaseState(Top, Metadata(k), {})}]
    /\ matched = [k \in Kinds |-> FALSE]
    /\ merged = [k \in Kinds |->
                    IF rule.mode = "and" THEN TRUE
                    ELSE IF rule.mode = "or" \/ Top.sets THEN FALSE
                    ELSE Satisfied({Clause(Top, Metadata(k))})]
    /\ seen = {}

(* RuleSetItem.matchStatesWithBase and the loop of LocalRuleSet and        *)
(* RemoteRuleSet: one more rule of the included rule sets.                 *)
RuleSetRule(n) ==
    /\ stage = "rules" /\ ~IsLogical /\ Top.sets /\ Top.others # "no"
    /\ left > 0 /\ left' = left - 1
    /\ states' = [k \in Kinds |->
            Merge(states[k], NestedStates(n, RuleSetMetadata(Top, Metadata(k)),
                                          BaseState(Top, Metadata(k), {})))]
    /\ merged' = [k \in Kinds |->
            merged[k] \/ NestedHolds(n, RuleSetMetadata(Top, Metadata(k)), Clause(Top, Metadata(k)))]
    /\ seen' = seen \cup Marks(n)
    /\ UNCHANGED <<rule, stage, matched>>

(* One more rule of a logical rule at the top. *)
LogicalRule(n) ==
    /\ stage = "rules" /\ IsLogical /\ n.mode = "one"
    /\ left > 0 /\ left' = left - 1
    /\ states' = [k \in Kinds |->
            LET part == DefaultStates(n.rules[1], ResetRuleCache(Metadata(k)), {})
            IN  IF rule.mode = "and" THEN Combine(states[k], part) ELSE Merge(states[k], part)]
    /\ merged' = [k \in Kinds |->
            IF rule.mode = "and" THEN merged[k] /\ Alone(n.rules[1], Metadata(k))
                                 ELSE merged[k] \/ Alone(n.rules[1], Metadata(k))]
    /\ seen' = seen \cup Marks(n)
    /\ UNCHANGED <<rule, stage, matched>>

LogicalAnswer(collected) == IF rule.invert THEN collected = {} ELSE collected # {}

(* Match, LegacyPreMatch and MatchAddressLimit: the set is not empty. *)
Finish ==
    /\ stage = "rules"
    /\ IsLogical => "rule" \in seen
    /\ stage' = "done"
    /\ matched' = [k \in Kinds |->
            IF IsLogical THEN LogicalAnswer(states[k])
            ELSE Conclude(Top, Metadata(k), {}, states[k]) # {}]
    /\ UNCHANGED <<rule, left, states, merged, seen>>

Next == (\E n \in Nested : RuleSetRule(n) \/ LogicalRule(n)) \/ Finish

Spec == Init /\ [][Next]_vars

(***************************************************************************)
(* The DNS router in legacy mode (dns/router.go): rules whose result       *)
(* depends on the answer are checked again on it.                          *)
(***************************************************************************)
(* Mutant: rule sets are not asked for their ip_cidr items. *)
LimitOfItems == IF IsLogical THEN "ipcidr" \in seen ELSE Top.ipcidr

WithAddressLimit ==
    IF IsLogical THEN "ipcidr" \in seen
    ELSE Top.ipcidr \/ (Top.sets /\ ~Top.source /\ "ipcidr" \in seen)

Applied == matched["pre"] /\ (WithAddressLimit => matched["full"])

-----------------------------------------------------------------------------
(* The collected states are sets of groups, and each extends the state     *)
(* the including rule handed to its rule sets.                             *)
TypeOK ==
    /\ stage \in {"rules", "done"} /\ left \in 0 .. MaxNested
    /\ states \in [Kinds -> SUBSET SUBSET Groups]
    /\ ~IsLogical => \A k \in Kinds : \A s \in states[k] : BaseState(Top, Metadata(k), {}) \subseteq s

(* A rule with rule sets matches exactly when one of their rules, merged   *)
(* into it group by group, does: the states matchStatesWithBase carries    *)
(* through nested rules compute the documented reading, in full and before *)
(* the lookup.  An inverted rule of ip_cidr items only is deferred.  The   *)
(* exception: a logical rule forgets rule_set_ip_cidr_match_source, and    *)
(* reads its ip_cidr items as destination items.                           *)
MergedMatches ==
    stage = "done" /\ ~IsLogical /\ ~(Top.source /\ "logical" \in seen) =>
        \A k \in Kinds :
            LET positive == Top.others # "no" /\ merged[k]
            IN  matched[k] <=> IF Top.invert
                               THEN ~positive \/ (~Top.sets /\ OnlyDeferred(Top, Metadata(k)))
                               ELSE positive

(* A logical rule matches as its rules do one by one, although the code    *)
(* combines sets of states: no combination of matching rules is lost and   *)
(* none is made up, in full and before the lookup.                         *)
LogicalMatches ==
    stage = "done" /\ IsLogical =>
        \A k \in Kinds : matched[k] <=> IF rule.invert THEN ~merged[k] ELSE merged[k]

(* Both: the states a rule carries compute the documented reading.  (And   *)
(* all variables keep their types.)                                        *)
RuleMatches == TypeOK /\ MergedMatches /\ LogicalMatches

(* LegacyPreMatch admits every rule that would match once the answer is    *)
(* known, or the router never looks at it again.  It fails to only for a   *)
(* rule with ip_cidr items that also has an address item that does not     *)
(* match, or an inversion over more than the ip_cidr items.                *)
PreMatchDefers ==
    stage = "done" /\ matched["full"] /\ ~matched["pre"] =>
        LET top == IF IsLogical THEN {} ELSE {Top}
        IN  /\ "ipcidr" \in seen \/ \E r \in top : r.ipcidr
            /\ \/ "unmatched" \in seen \/ \E r \in top : Unmatched(r)
               \/ "mixed" \in seen \/ rule.invert
               \/ \E r \in top : r.invert /\ (r.sets \/ Mixed(r))

(* In legacy mode a rule that answers a query matches it in full: whatever *)
(* LegacyPreMatch ignored is checked on the answer, because                *)
(* WithAddressLimit reports it.  The exception is a rule set with ip_cidr  *)
(* items under rule_set_ip_cidr_match_source: ignored before the lookup,   *)
(* and not reported.                                                       *)
AppliedMatches ==
    stage = "done" /\ Applied =>
        matched["full"] \/ (~IsLogical /\ Top.source /\ "ipcidr" \in seen)

(* What the documentation promises of the legacy address filter: a rule    *)
(* whose ip_cidr items do not match the answer is skipped.  It fails for a *)
(* rule that also has a domain item.                                       *)
FilterSkips ==
    stage = "done" /\ ~IsLogical /\ ~Top.sets /\ ~Top.invert /\ Top.ipcidr
        /\ "destinationAddress" \notin Top.within => ~Applied
=============================================================================
