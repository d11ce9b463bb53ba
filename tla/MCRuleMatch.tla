---------------------------- MODULE MCRuleMatch ----------------------------
(* RuleMatch on all rules over three groups, and on nested rules of any    *)
(* shape: every default rule of the same size, and logical rules of two    *)
(* rules with one condition each.                                          *)
EXTENDS RuleMatch

MCGroups == Addresses \cup {"destinationPort"}

Rules(sets, sources) ==
    {r \in [items : [MCGroups -> Field], ipcidr : BOOLEAN, within : SUBSET Addresses,
            others : Field, invert : BOOLEAN, sets : sets, source : sources] :
        IsValid(r) /\ (r.ipcidr \/ r.within = {}) /\ (r.sets \/ ~r.source)}

Conditions(r) ==
    Cardinality({g \in MCGroups : r.items[g] # "absent"})
        + Cardinality({x \in {"ipcidr"} : r.ipcidr}) + Cardinality({x \in {"o"} : r.others # "absent"})

One(r) == [mode |-> "one", invert |-> FALSE, rules |-> <<r>>]

MCOuter ==
    {One(r) : r \in {x \in Rules(BOOLEAN, BOOLEAN) : Conditions(x) <= 2 /\ x.within \subseteq {"destinationAddress"}}}
        \cup [mode : {"and", "or"}, invert : BOOLEAN, rules : {<<>>}]

Plain == {r \in Rules({FALSE}, {FALSE}) : Conditions(r) <= 2}
Small ==
    {r \in Plain : Conditions(r) = 1 /\ r.items["sourceAddress"] = "absent" /\ r.within \in {{}, Addresses}}
MCNested ==
    {One(r) : r \in Plain}
        \cup [mode : {"and", "or"}, invert : BOOLEAN,
              rules : {<<q, r>> : q \in {x \in Small : ~x.invert}, r \in Small}]
=============================================================================
