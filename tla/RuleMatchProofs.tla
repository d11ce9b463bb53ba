--------------------------- MODULE RuleMatchProofs ---------------------------
(***************************************************************************)
(* For any groups and any rules: the states carried through nested rules   *)
(* compute the merged reading.  The inductive invariant says what the      *)
(* collected states stand for: a rule matches the merged reading so far    *)
(* exactly when a collected state holds all the groups the rule needs, and *)
(* a logical rule's collection is empty exactly when its reading is false. *)
(*                                                                         *)
(* A nested rule returns at most one state per default rule in it, which   *)
(* is what it inherits and what it contributes: Returns and Contributes    *)
(* say when and which.  The last part is about matching before a DNS       *)
(* lookup, when ip_cidr items are ignored.                                 *)
(***************************************************************************)
EXTENDS RuleMatch, TLAPS

Flags == [ignore : BOOLEAN, source : BOOLEAN]

(* Clauses only restate which groups a rule needs and which it matches. *)
LEMMA Clauses ==
    ASSUME NEW r \in DefaultRule, NEW m \in Flags
    PROVE  /\ Found(r, m) \subseteq Required(r, m)
           /\ Required(r, m) \subseteq Groups
           /\ \A g \in Groups : /\ Clause(r, m)[g] = "yes" <=> g \in Found(r, m)
                                /\ Clause(r, m)[g] = "no" <=> g \in Required(r, m) \ Found(r, m)
BY Zenon DEF DefaultRule, Flags, Found, Required, Clause, CountsAs, Field

(* A rule alone is satisfied when it matches every group it needs. *)
LEMMA SatisfiedAlone ==
    ASSUME NEW r \in DefaultRule, NEW m \in Flags
    PROVE  Satisfied({Clause(r, m)}) <=> Required(r, m) \subseteq Found(r, m)
<1>1. Satisfied({Clause(r, m)}) <=>
        \A g \in Groups : Clause(r, m)[g] = "no" => Clause(r, m)[g] = "yes"
    BY Zenon DEF Satisfied
<1>2. QED BY <1>1, Clauses, Zenon

(* A nested rule that inherits what the outer rule matched is satisfied    *)
(* when both match together every group the nested rule needs.             *)
LEMMA SatisfiedInherited ==
    ASSUME NEW r \in DefaultRule, NEW m \in Flags, NEW q \in DefaultRule, NEW p \in Flags
    PROVE  Satisfied({Passed(Clause(r, m)), Clause(q, p)}) <=>
                Required(q, p) \subseteq Found(r, m) \cup Found(q, p)
<1> DEFINE c == Passed(Clause(r, m))
<1>1. Satisfied({c, Clause(q, p)}) <=>
        \A g \in Groups : (c[g] = "no" \/ Clause(q, p)[g] = "no") =>
                          (c[g] = "yes" \/ Clause(q, p)[g] = "yes")
    BY Zenon DEF Satisfied
<1>2. \A g \in Groups : c[g] # "no" /\ (c[g] = "yes" <=> Clause(r, m)[g] = "yes")
    BY Zenon DEF Passed
<1> HIDE DEF c
<1>3. QED BY <1>1, <1>2, Clauses, Zenon DEF c

(* An inverted rule is deferred by the code exactly when all it has are    *)
(* ip_cidr items.                                                          *)
LEMMA DeferredRule ==
    ASSUME NEW q \in DefaultRule, NEW p \in Flags, ~q.sets,
           Required(q, p) \subseteq Found(q, p)
    PROVE  Defers(q, p, {Found(q, p)}) <=> OnlyDeferred(q, p)
<1>1. OnlyDeferred(q, p) => Required(q, p) = {}
    BY Zenon DEF OnlyDeferred, Required, CountsAs
<1>2. OnlyDeferred(q, p) => Defers(q, p, {Found(q, p)})
    <2>1. Required(q, p) = {} => {Found(q, p)} = {{}}
        BY Clauses, Zenon
    <2>2. QED BY <1>1, <2>1, Zenon DEF OnlyDeferred, Defers, DidMatch
<1>3. Defers(q, p, {Found(q, p)}) => OnlyDeferred(q, p)
    BY Zenon DEF Defers, DidMatch, OnlyDeferred, Required, DefaultRule, Field
<1>4. QED BY <1>2, <1>3, Zenon

(* A rule that is not inverted adds what it matches to what it inherits,   *)
(* if that covers its needs.                                               *)
LEMMA PlainStates ==
    ASSUME NEW q \in DefaultRule, NEW p \in Flags, NEW base, ~q.invert
    PROVE  DefaultStates(q, p, base) =
                IF q.others # "no" /\ Required(q, p) \subseteq base \cup Found(q, p)
                THEN {base \cup Found(q, p)} ELSE {}
BY Zenon DEF DefaultStates, Conclude, BaseState, InvertedFailure

(* An inverted rule gives back what it inherits, if it is true alone. *)
LEMMA InvertedStates ==
    ASSUME NEW q \in DefaultRule, NEW p \in Flags, NEW base, q.invert, ~q.sets
    PROVE  DefaultStates(q, p, base) = IF Alone(q, p) THEN {base} ELSE {}
<1> DEFINE kept == {s \in {Found(q, p)} : Required(q, p) \subseteq s}
<1>1. BaseState(q, p, base) = Found(q, p)
    BY Zenon DEF BaseState
<1>2. DefaultStates(q, p, base) =
        IF q.others = "no" \/ kept = {} THEN {base}
        ELSE IF Defers(q, p, kept) THEN {base} ELSE {}
    BY <1>1, Zenon DEF DefaultStates, Conclude, InvertedFailure
<1>3. Positive(q, p) <=> q.others # "no" /\ Required(q, p) \subseteq Found(q, p)
    BY SatisfiedAlone, Zenon DEF Positive
<1>4. Alone(q, p) <=> OnlyDeferred(q, p) \/ ~Positive(q, p)
    BY Zenon DEF Alone
<1>5. CASE Required(q, p) \subseteq Found(q, p)
    <2>1. kept = {Found(q, p)}
        BY <1>5, Zenon
    <2>2. Defers(q, p, kept) <=> OnlyDeferred(q, p)
        BY <1>5, <2>1, DeferredRule, Zenon
    <2>3. kept # {}
        BY <2>1, Zenon
    <2>4. OnlyDeferred(q, p) => q.others # "no"
        BY Zenon DEF OnlyDeferred
    <2> HIDE DEF kept
    <2>5. QED BY <1>2, <1>3, <1>4, <1>5, <2>2, <2>3, <2>4, Zenon
<1>6. CASE ~(Required(q, p) \subseteq Found(q, p))
    <2>1. kept = {}
        BY <1>6, Zenon
    <2> HIDE DEF kept
    <2>2. QED BY <1>2, <1>3, <1>4, <1>6, <2>1, Zenon
<1>7. QED BY <1>5, <1>6, Zenon

(***************************************************************************)
(* A rule returns at most one state: what it inherits and what it          *)
(* contributes.                                                            *)
(***************************************************************************)
Contributes(q, p) == IF q.invert THEN {} ELSE Found(q, p)
Returns(q, p, base) ==
    IF q.invert THEN Alone(q, p)
    ELSE q.others # "no" /\ Required(q, p) \subseteq base \cup Found(q, p)

LEMMA PartStates ==
    ASSUME NEW q \in DefaultRule, NEW p \in Flags, NEW base, ~q.sets
    PROVE  DefaultStates(q, p, base) =
                IF Returns(q, p, base) THEN {base \cup Contributes(q, p)} ELSE {}
<1>1. CASE q.invert
    <2>1. base \cup {} = base
        BY Zenon
    <2>2. QED BY <1>1, <2>1, InvertedStates, Zenon DEF Returns, Contributes
<1>2. CASE ~q.invert
    BY <1>2, PlainStates, Zenon DEF Returns, Contributes
<1>3. QED BY <1>1, <1>2, Zenon

(* A rule that inherits nothing returns a state exactly when it is true    *)
(* alone; one that inherits what the including rule matched, exactly when  *)
(* it agrees with that rule.                                               *)
LEMMA AloneReturns ==
    ASSUME NEW q \in DefaultRule, NEW p \in Flags
    PROVE  Returns(q, p, {}) <=> Alone(q, p)
<1>1. Required(q, p) \subseteq {} \cup Found(q, p) <=> Required(q, p) \subseteq Found(q, p)
    BY Zenon
<1>2. QED BY <1>1, SatisfiedAlone, Zenon DEF Returns, Alone, Positive

LEMMA LogicalPart ==
    ASSUME NEW q \in DefaultRule, NEW p \in Flags, ~q.sets
    PROVE  DefaultStates(q, p, {}) # {} <=> Alone(q, p)
BY PartStates, AloneReturns

LEMMA AgreesReturns ==
    ASSUME NEW r \in DefaultRule, NEW m \in Flags, NEW q \in DefaultRule, NEW p \in Flags
    PROVE  Agrees(q, p, Clause(r, m)) <=> Returns(q, p, Found(r, m))
BY SatisfiedInherited, Zenon DEF Agrees, Returns

(* Rules that agree with the including rule, merged into it, are satisfied *)
(* when they contribute every group that rule still needs.                 *)
AllAdd(n, p, I) == UNION {Adds(n.rules[i], p) : i \in I}
AllContribute(n, p, I) == UNION {Contributes(n.rules[i], p) : i \in I}

LEMMA SatisfiedMerged ==
    ASSUME NEW r \in DefaultRule, NEW m \in Flags, NEW p \in Flags, NEW n, NEW I,
           \A i \in I : n.rules[i] \in DefaultRule /\ Returns(n.rules[i], p, Found(r, m))
    PROVE  Satisfied({Clause(r, m)} \cup AllAdd(n, p, I)) <=>
                Required(r, m) \subseteq Found(r, m) \cup AllContribute(n, p, I)
<1> DEFINE clauses == {Clause(r, m)} \cup AllAdd(n, p, I)
           all == Found(r, m) \cup AllContribute(n, p, I)
<1>1. \A g \in Groups : (\E c \in clauses : c[g] = "yes") <=> g \in all
    <2> SUFFICES ASSUME NEW g \in Groups
                 PROVE  (\E c \in clauses : c[g] = "yes") <=> g \in all
        BY Zenon
    <2>1. (\E c \in clauses : c[g] = "yes") <=>
            Clause(r, m)[g] = "yes" \/ \E i \in I : ~n.rules[i].invert /\ Clause(n.rules[i], p)[g] = "yes"
        BY Zenon DEF Adds, AllAdd
    <2>2. g \in all <=> g \in Found(r, m) \/ \E i \in I : ~n.rules[i].invert /\ g \in Found(n.rules[i], p)
        BY Zenon DEF Contributes, AllContribute
    <2>3. \A i \in I : Clause(n.rules[i], p)[g] = "yes" <=> g \in Found(n.rules[i], p)
        BY Clauses, Zenon
    <2>4. Clause(r, m)[g] = "yes" <=> g \in Found(r, m)
        BY Clauses, Zenon
    <2> HIDE DEF clauses, all
    <2>5. QED BY <2>1, <2>2, <2>3, <2>4, Zenon
<1>2. \A g \in Groups : (\E c \in clauses : c[g] = "no") <=>
            \/ g \in Required(r, m) \ Found(r, m)
            \/ \E i \in I : ~n.rules[i].invert /\ g \in Required(n.rules[i], p) \ Found(n.rules[i], p)
    <2> SUFFICES ASSUME NEW g \in Groups
                 PROVE  (\E c \in clauses : c[g] = "no") <=>
                            \/ g \in Required(r, m) \ Found(r, m)
                            \/ \E i \in I : ~n.rules[i].invert
                                            /\ g \in Required(n.rules[i], p) \ Found(n.rules[i], p)
        BY Zenon
    <2>1. (\E c \in clauses : c[g] = "no") <=>
            Clause(r, m)[g] = "no" \/ \E i \in I : ~n.rules[i].invert /\ Clause(n.rules[i], p)[g] = "no"
        BY Zenon DEF Adds, AllAdd
    <2>2. \A i \in I : Clause(n.rules[i], p)[g] = "no" <=> g \in Required(n.rules[i], p) \ Found(n.rules[i], p)
        BY Clauses, Zenon
    <2>3. Clause(r, m)[g] = "no" <=> g \in Required(r, m) \ Found(r, m)
        BY Clauses, Zenon
    <2> HIDE DEF clauses
    <2>4. QED BY <2>1, <2>2, <2>3, Zenon
<1>3. \A i \in I, g \in Groups : ~n.rules[i].invert /\ g \in Required(n.rules[i], p) \ Found(n.rules[i], p)
            => g \in Found(r, m)
    BY Zenon DEF Returns
<1>4. Found(r, m) \subseteq all /\ Required(r, m) \subseteq Groups
    BY Clauses, Zenon
<1>5. Satisfied(clauses) <=>
        \A g \in Groups : (\E c \in clauses : c[g] = "no") => \E c \in clauses : c[g] = "yes"
    BY Zenon DEF Satisfied
<1> HIDE DEF clauses, all
<1>6. Satisfied(clauses) <=> Required(r, m) \subseteq all
    BY <1>1, <1>2, <1>3, <1>4, <1>5, Zenon
<1>7. QED BY <1>6, Zenon DEF clauses, all

(* Combining sets of one state each. *)
Image(f, I) == {f[i] : i \in I}
Ones(D, R, f) == [i \in D |-> IF i \in R THEN {f[i]} ELSE {}]

LEMMA CombineOnes ==
    ASSUME NEW D, NEW base, NEW R, NEW f, R \subseteq D
    PROVE  /\ R = D => CombineAll(base, Ones(D, R, f)) = {base \cup UNION Image(f, D)}
           /\ R # D => CombineAll(base, Ones(D, R, f)) = {}
           /\ MergeAll(Ones(D, R, f)) = Image(f, R)
<1> DEFINE parts == [i \in D |-> IF i \in R THEN {f[i]} ELSE {}]
<1> DEFINE choices == {d \in [D -> MergeAll(parts)] : \A i \in D : d[i] \in parts[i]}
<1>1. DOMAIN parts = D
    BY Zenon
<1>2. CombineAll(base, parts) = {base \cup UNION {c[i] : i \in D} : c \in choices}
    BY <1>1 DEF CombineAll
<1>3. MergeAll(parts) = Image(f, R)
    BY <1>1, Zenon DEF MergeAll, Image
<1>4. ASSUME R = D PROVE CombineAll(base, parts) = {base \cup UNION Image(f, D)}
    <2> DEFINE e == [i \in D |-> f[i]]
    <2>1. e \in choices
        BY <1>3, <1>4, Zenon DEF Image
    <2>2. \A c \in choices : c = e
        <3> SUFFICES ASSUME NEW c \in choices PROVE c = e
            BY Zenon
        <3>1. c \in [D -> MergeAll(parts)] /\ \A i \in D : c[i] = f[i]
            BY <1>4, Zenon
        <3>2. QED BY <3>1, Zenon
    <2>3. UNION {e[i] : i \in D} = UNION Image(f, D)
        BY Zenon DEF Image
    <2> HIDE DEF choices, e, parts
    <2>4. QED BY <1>2, <2>1, <2>2, <2>3
<1>5. ASSUME R # D PROVE CombineAll(base, parts) = {}
    <2>1. PICK i \in D : i \notin R
        BY <1>5, Zenon
    <2>2. choices = {}
        BY <2>1, Zenon
    <2> HIDE DEF choices, parts
    <2>3. QED BY <1>2, <2>2, Zenon
<1>6. Ones(D, R, f) = parts
    BY Zenon DEF Ones
<1> HIDE DEF parts
<1>7. QED BY <1>3, <1>4, <1>5, <1>6, Zenon

(***************************************************************************)
(* Nested rules, of any shape.                                             *)
(***************************************************************************)
Returning(n, p, base) == {i \in DOMAIN n.rules : Returns(n.rules[i], p, base)}
With(n, p, base, i) == base \cup Contributes(n.rules[i], p)

LEMMA NestedRules ==
    ASSUME NEW n \in Nested
    PROVE  /\ n.mode \in {"one", "and", "or"} /\ n.invert \in BOOLEAN
           /\ n.mode = "one" => ~n.invert /\ DOMAIN n.rules = {1}
           /\ \A i \in DOMAIN n.rules : n.rules[i] \in DefaultRule /\ ~n.rules[i].sets
BY NestedAssumption, Zenon DEF IsRule

(* A logical rule collects the states of the rules that return one. *)
LEMMA LogicalCollects ==
    ASSUME NEW n \in Nested, n.mode # "one", NEW p \in Flags, ResetRuleCache(p) \in Flags, NEW base
    PROVE  LET q == ResetRuleCache(p)
               D == DOMAIN n.rules
               alone == Returning(n, q, {})
               R == Returning(n, q, base)
               all == n.mode = "and"
           IN  /\ n.invert => LogicalStates(n, p, base) =
                        IF (all /\ alone = D) \/ (~all /\ alone # {}) THEN {} ELSE {base}
               /\ ~n.invert /\ all /\ R = D =>
                        LogicalStates(n, p, base) = {base \cup UNION {With(n, q, base, i) : i \in D}}
               /\ ~n.invert /\ all /\ R # D => LogicalStates(n, p, base) = {}
               /\ ~n.invert /\ ~all => LogicalStates(n, p, base) = {With(n, q, base, i) : i \in R}
<1> DEFINE q == ResetRuleCache(p)
           D == DOMAIN n.rules
           ev == IF n.invert THEN {} ELSE base
           R == Returning(n, q, ev)
           f == [i \in D |-> With(n, q, ev, i)]
           parts == [i \in D |-> DefaultStates(n.rules[i], q, ev)]
<1>1. R \subseteq D
    BY Zenon DEF Returning
<1>2. \A i \in D : DefaultStates(n.rules[i], q, ev) = IF i \in R THEN {f[i]} ELSE {}
    <2> SUFFICES ASSUME NEW i \in D
                 PROVE  DefaultStates(n.rules[i], q, ev) = IF i \in R THEN {f[i]} ELSE {}
        BY Zenon
    <2>1. n.rules[i] \in DefaultRule /\ ~n.rules[i].sets
        BY NestedRules, Zenon
    <2>2. DefaultStates(n.rules[i], q, ev) =
            IF Returns(n.rules[i], q, ev) THEN {ev \cup Contributes(n.rules[i], q)} ELSE {}
        BY <2>1, PartStates, Zenon
    <2>3. QED BY <2>2, Zenon DEF Returning, With
<1>3. parts = Ones(D, R, f)
    BY <1>2, Zenon DEF Ones
<1>4. LogicalStates(n, p, base) =
        LET collected == IF n.mode = "and" THEN CombineAll(ev, parts) ELSE MergeAll(parts)
        IN  IF ~n.invert THEN collected ELSE IF collected = {} THEN {base} ELSE {}
    BY Zenon DEF LogicalStates
<1> HIDE DEF parts, q, R, D, ev, f
<1>5. /\ R = D => CombineAll(ev, parts) = {ev \cup UNION Image(f, D)}
      /\ R # D => CombineAll(ev, parts) = {}
      /\ MergeAll(parts) = Image(f, R)
    <2>1. R = D => CombineAll(ev, Ones(D, R, f)) = {ev \cup UNION Image(f, D)}
      BY <1>1, CombineOnes, Zenon
    <2>2. R # D => CombineAll(ev, Ones(D, R, f)) = {}
      BY <1>1, CombineOnes
    <2>3. MergeAll(Ones(D, R, f)) = Image(f, R)
      BY <1>1, CombineOnes, ZenonT(60)
    <2>4. QED BY <1>3, <2>1, <2>2, <2>3, Zenon
<1>6. Image(f, R) = {} <=> R = {}
    BY Zenon DEF Image
<1>7. CASE n.invert
    <2>1. ev = {}
        BY <1>7, Zenon DEF ev
    <2>2. LogicalStates(n, p, base) =
            IF (n.mode = "and" /\ R = D) \/ (n.mode # "and" /\ R # {}) THEN {} ELSE {base}
        BY <1>4, <1>5, <1>6, <1>7, Zenon
    <2>3. QED BY <1>7, <2>1, <2>2, Zenon DEF R, q, D
<1>8. CASE ~n.invert
    <2>1. ev = base
        BY <1>8, Zenon DEF ev
    <2>2. \A i \in D : f[i] = With(n, q, base, i)
        BY <2>1, Zenon DEF f
    <2>3. Image(f, D) = {With(n, q, base, i) : i \in D}
        BY <2>2, Zenon DEF Image
    <2>4. Image(f, R) = {With(n, q, base, i) : i \in R}
        BY <1>1, <2>2, Zenon DEF Image
    <2>5. /\ n.mode = "and" /\ R = D =>
                LogicalStates(n, p, base) = {base \cup UNION {With(n, q, base, i) : i \in D}}
          /\ n.mode = "and" /\ R # D => LogicalStates(n, p, base) = {}
          /\ n.mode # "and" => LogicalStates(n, p, base) = {With(n, q, base, i) : i \in R}
        BY <1>4, <1>5, <1>8, <2>1, <2>3, <2>4, Zenon
    <2>6. QED BY <1>8, <2>1, <2>5, Zenon DEF R, q, D
<1>9. QED BY <1>7, <1>8, Zenon

(* The flags a nested rule is read with: a logical rule drops those that   *)
(* the including rule set up.                                              *)
ReadAs(n, p) == IF n.mode = "one" THEN p ELSE ResetRuleCache(p)

LEMMA ReadAsFlags ==
    ASSUME NEW n, NEW p \in Flags
    PROVE  ResetRuleCache(p) \in Flags /\ ReadAs(n, p) \in Flags
BY Zenon DEF Flags, ResetRuleCache, ReadAs

(* The documented reading of a nested rule, in terms of which of its rules *)
(* return a state.                                                         *)
LEMMA NestedMeans ==
    ASSUME NEW r \in DefaultRule, NEW m \in Flags, NEW n \in Nested, NEW q \in Flags
    PROVE  LET D == DOMAIN n.rules
               alone == Returning(n, q, {})
               R == Returning(n, q, Found(r, m))
           IN  NestedHolds(n, q, Clause(r, m)) <=>
                IF n.invert
                THEN /\ Required(r, m) \subseteq Found(r, m)
                     /\ IF n.mode = "and" THEN alone # D ELSE alone = {}
                ELSE IF n.mode = "and"
                THEN R = D /\ Required(r, m) \subseteq Found(r, m) \cup AllContribute(n, q, D)
                ELSE \E i \in R : Required(r, m) \subseteq With(n, q, Found(r, m), i)
<1> DEFINE base == Found(r, m)
           c == Clause(r, m)
           D == DOMAIN n.rules
           R == Returning(n, q, base)
           alone == Returning(n, q, {})
<1>1. \A i \in D : n.rules[i] \in DefaultRule /\ ~n.rules[i].sets
    BY NestedRules, Zenon
<1>2. R \subseteq D /\ \A i \in D : i \in R <=> Agrees(n.rules[i], q, c)
    <2>1. \A i \in D : Agrees(n.rules[i], q, c) <=> Returns(n.rules[i], q, base)
        BY <1>1, AgreesReturns, Zenon
    <2> HIDE DEF c, base
    <2>2. QED BY <2>1, Zenon DEF Returning
<1>3. alone \subseteq D /\ \A i \in D : i \in alone <=> Alone(n.rules[i], q)
    <2>1. \A i \in D : Alone(n.rules[i], q) <=> Returns(n.rules[i], q, {})
        BY <1>1, AloneReturns, Zenon
    <2>2. QED BY <2>1, Zenon DEF Returning
<1>4. \A I \in SUBSET R : Satisfied({c} \cup AllAdd(n, q, I)) <=>
                Required(r, m) \subseteq base \cup AllContribute(n, q, I)
    <2> SUFFICES ASSUME NEW I \in SUBSET R
                 PROVE  Satisfied({c} \cup AllAdd(n, q, I)) <=>
                            Required(r, m) \subseteq base \cup AllContribute(n, q, I)
        BY Zenon
    <2>1. \A i \in I : n.rules[i] \in DefaultRule /\ Returns(n.rules[i], q, Found(r, m))
        BY <1>1, Zenon DEF Returning
    <2> HIDE DEF R
    <2>2. QED BY <2>1, SatisfiedMerged, Zenon
<1>5. Satisfied({c}) <=> Required(r, m) \subseteq base
    BY SatisfiedAlone, Zenon
<1> HIDE DEF base, c
<1>6. (\E i \in D : ~Alone(n.rules[i], q)) <=> alone # D
    BY <1>3, Zenon
<1>7. (\A i \in D : ~Alone(n.rules[i], q)) <=> alone = {}
    BY <1>3, Zenon
<1>8. (\A i \in D : Agrees(n.rules[i], q, c)) <=> R = D
    BY <1>2, Zenon
<1>9. R = D => (Satisfied({c} \cup AllAdd(n, q, D)) <=>
                Required(r, m) \subseteq base \cup AllContribute(n, q, D))
    BY <1>4, Zenon
<1>10. ASSUME NEW i \in R
      PROVE  Satisfied({c} \cup AllAdd(n, q, {i})) <=> Required(r, m) \subseteq With(n, q, base, i)
    <2>1. AllContribute(n, q, {i}) = Contributes(n.rules[i], q)
        BY Zenon DEF AllContribute
    <2>2. QED BY <1>4, <2>1, Zenon DEF With
<1> HIDE DEF R, alone, D
<1>11. (\E i \in D : Agrees(n.rules[i], q, c) /\ Satisfied({c} \cup AllAdd(n, q, {i}))) <=>
            \E i \in R : Required(r, m) \subseteq With(n, q, base, i)
    BY <1>2, <1>10, Zenon
<1>12. NestedHolds(n, q, c) <=>
        IF n.invert
        THEN /\ Required(r, m) \subseteq base
             /\ IF n.mode = "and" THEN alone # D ELSE alone = {}
        ELSE IF n.mode = "and"
        THEN R = D /\ Required(r, m) \subseteq base \cup AllContribute(n, q, D)
        ELSE \E i \in R : Required(r, m) \subseteq With(n, q, base, i)
    BY <1>5, <1>6, <1>7, <1>8, <1>9, <1>11, Zenon DEF NestedHolds, D, AllAdd
<1>13. QED BY <1>12, Zenon DEF R, D, alone, base, c

(* One rule of a rule set: it returns a state that covers the needs of the *)
(* including rule exactly when its documented reading, merged into that    *)
(* rule, holds.                                                            *)
LEMMA RuleSetPart ==
    ASSUME NEW r \in DefaultRule, NEW m \in Flags, NEW n \in Nested, NEW p \in Flags
    PROVE  (\E s \in NestedStates(n, p, Found(r, m)) : Required(r, m) \subseteq s) <=>
                NestedHolds(n, ReadAs(n, p), Clause(r, m))
<1> DEFINE q == ReadAs(n, p)
           base == Found(r, m)
           c == Clause(r, m)
           D == DOMAIN n.rules
           R == Returning(n, q, base)
           alone == Returning(n, q, {})
<1>1. q \in Flags /\ ResetRuleCache(p) \in Flags
    BY ReadAsFlags, Zenon
<1>2. \A i \in D : n.rules[i] \in DefaultRule /\ ~n.rules[i].sets
    BY NestedRules, Zenon
<1>3. R \subseteq D
    BY Zenon DEF Returning
<1> HIDE DEF q
<1>4. NestedHolds(n, q, c) <=>
        IF n.invert
        THEN /\ Required(r, m) \subseteq base
             /\ IF n.mode = "and" THEN alone # D ELSE alone = {}
        ELSE IF n.mode = "and"
        THEN R = D /\ Required(r, m) \subseteq base \cup AllContribute(n, q, D)
        ELSE \E i \in R : Required(r, m) \subseteq With(n, q, base, i)
    BY <1>1, NestedMeans, Zenon
<1> HIDE DEF base, c
<1>5. CASE n.mode = "one"
    <2>1. ~n.invert /\ D = {1} /\ q = p
        BY <1>5, NestedRules, Zenon DEF q, ReadAs
    <2>2. NestedStates(n, p, base) =
            IF Returns(n.rules[1], q, base) THEN {With(n, q, base, 1)} ELSE {}
        BY <1>1, <1>2, <1>5, <2>1, PartStates, Zenon DEF NestedStates, With
    <2>3. Returns(n.rules[1], q, base) <=> 1 \in R
        BY <2>1, Zenon DEF Returning
    <2>4. (\E s \in NestedStates(n, p, base) : Required(r, m) \subseteq s) <=>
            \E i \in R : Required(r, m) \subseteq With(n, q, base, i)
        BY <1>3, <2>1, <2>2, <2>3
    <2>5. QED BY <1>4, <1>5, <2>1, <2>4, Zenon DEF q, base, c
<1>6. CASE n.mode # "one"
    <2>1. q = ResetRuleCache(p) /\ NestedStates(n, p, base) = LogicalStates(n, p, base)
        BY <1>6, Zenon DEF q, ReadAs, NestedStates
    <2>2. /\ n.invert => LogicalStates(n, p, base) =
                IF (n.mode = "and" /\ alone = D) \/ (n.mode # "and" /\ alone # {}) THEN {} ELSE {base}
          /\ ~n.invert /\ n.mode = "and" /\ R = D =>
                LogicalStates(n, p, base) = {base \cup UNION {With(n, q, base, i) : i \in D}}
          /\ ~n.invert /\ n.mode = "and" /\ R # D => LogicalStates(n, p, base) = {}
          /\ ~n.invert /\ n.mode # "and" => LogicalStates(n, p, base) = {With(n, q, base, i) : i \in R}
        BY <1>1, <1>6, <2>1, LogicalCollects
    <2>3. base \cup UNION {With(n, q, base, i) : i \in D} = base \cup AllContribute(n, q, D)
        BY DEF With, AllContribute
    <2>4. n.invert \in BOOLEAN
        BY NestedRules, Zenon
    <2> HIDE DEF R, alone, D
    <2>5. CASE n.invert
        BY <1>4, <2>1, <2>2, <2>5, Zenon DEF q, base, c
    <2>6. CASE ~n.invert /\ n.mode = "and"
        BY <1>4, <2>1, <2>2, <2>3, <2>6, Zenon DEF q, base, c
    <2>7. CASE ~n.invert /\ n.mode # "and"
        BY <1>4, <2>1, <2>2, <2>7 DEF q, base, c
    <2>8. QED BY <2>4, <2>5, <2>6, <2>7, Zenon
<1>7. QED BY <1>5, <1>6, Zenon

(***************************************************************************)
(* What ip_cidr items change.                                              *)
(***************************************************************************)
(* A rule without them is read the same way whatever the flags. *)
LEMMA CIDRFree ==
    ASSUME NEW q \in DefaultRule, ~q.ipcidr, NEW m \in Flags, NEW p \in Flags, NEW base, NEW c
    PROVE  /\ Required(q, m) = Required(q, p) /\ Found(q, m) = Found(q, p)
           /\ Clause(q, m) = Clause(q, p)
           /\ ~OnlyDeferred(q, m) /\ ~OnlyDeferred(q, p)
           /\ Alone(q, m) <=> Alone(q, p)
           /\ Agrees(q, m, c) <=> Agrees(q, p, c)
           /\ Adds(q, m) = Adds(q, p)
           /\ Returns(q, m, base) <=> Returns(q, p, base)
           /\ Contributes(q, m) = Contributes(q, p)
<1>1. \A g \in Groups : ~CountsAs(q, m, g) /\ ~CountsAs(q, p, g)
    BY Zenon DEF CountsAs
<1>2. Required(q, m) = Required(q, p) /\ Found(q, m) = Found(q, p)
    BY <1>1, Zenon DEF Required, Found
<1>3. Clause(q, m) = Clause(q, p)
    BY <1>1, <1>2, Zenon DEF Clause
<1>4. ~OnlyDeferred(q, m) /\ ~OnlyDeferred(q, p)
    BY Zenon DEF OnlyDeferred
<1>5. Alone(q, m) <=> Alone(q, p)
    BY <1>3, <1>4, Zenon DEF Alone, Positive
<1>6. QED BY <1>2, <1>3, <1>4, <1>5, Zenon DEF Agrees, Adds, Returns, Contributes

LEMMA NestedCIDRFree ==
    ASSUME NEW n \in Nested, ~HasCIDR(n), NEW m \in Flags, NEW p \in Flags, NEW c
    PROVE  NestedHolds(n, m, c) <=> NestedHolds(n, p, c)
<1> DEFINE D == DOMAIN n.rules
<1>1. \A i \in D : n.rules[i] \in DefaultRule /\ ~n.rules[i].ipcidr
    BY NestedRules, Zenon DEF HasCIDR
<1>2. \A i \in D : /\ Alone(n.rules[i], m) <=> Alone(n.rules[i], p)
                   /\ Agrees(n.rules[i], m, c) <=> Agrees(n.rules[i], p, c)
                   /\ Adds(n.rules[i], m) = Adds(n.rules[i], p)
    BY <1>1, CIDRFree, Zenon
<1>3. \A i \in D : UNION {Adds(n.rules[j], m) : j \in {i}} = UNION {Adds(n.rules[j], p) : j \in {i}}
    BY <1>2, Zenon
<1>4. UNION {Adds(n.rules[i], m) : i \in D} = UNION {Adds(n.rules[i], p) : i \in D}
    BY <1>2, Zenon
<1>5. QED BY <1>2, <1>3, <1>4, Zenon DEF NestedHolds

(* The nested states as well. *)
LEMMA StatesCIDRFree ==
    ASSUME NEW n \in Nested, ~HasCIDR(n), NEW m \in Flags, NEW p \in Flags, NEW base
    PROVE  NestedStates(n, m, base) = NestedStates(n, p, base)
<1> DEFINE D == DOMAIN n.rules
           ev == IF n.invert THEN {} ELSE base
<1>1. \A i \in D : n.rules[i] \in DefaultRule /\ ~n.rules[i].ipcidr /\ ~n.rules[i].sets
    BY NestedRules, Zenon DEF HasCIDR
<1>2. \A x \in Flags, y \in Flags : \A i \in D : \A b :
            DefaultStates(n.rules[i], x, b) = DefaultStates(n.rules[i], y, b)
    <2> SUFFICES ASSUME NEW x \in Flags, NEW y \in Flags, NEW i \in D, NEW b
                 PROVE  DefaultStates(n.rules[i], x, b) = DefaultStates(n.rules[i], y, b)
        BY Zenon
    <2>1. /\ Returns(n.rules[i], x, b) <=> Returns(n.rules[i], y, b)
          /\ Contributes(n.rules[i], x) = Contributes(n.rules[i], y)
        BY <1>1, CIDRFree, Zenon
    <2>2. QED BY <1>1, <2>1, PartStates, Zenon
<1>3. CASE n.mode = "one"
    BY <1>2, <1>3, NestedRules DEF NestedStates
<1>4. CASE n.mode # "one"
    <2>1. ResetRuleCache(m) \in Flags /\ ResetRuleCache(p) \in Flags
        BY ReadAsFlags, Zenon
    <2>2. [i \in D |-> DefaultStates(n.rules[i], ResetRuleCache(m), ev)] =
            [i \in D |-> DefaultStates(n.rules[i], ResetRuleCache(p), ev)]
        BY <1>2, <2>1
    <2>3. QED BY <1>4, <2>2, Zenon DEF NestedStates, LogicalStates
<1>5. QED BY <1>3, <1>4, Zenon

(* Before the lookup a rule needs no more, and has found all that it needs *)
(* of the addresses, unless an address item of it does not match.          *)
LEMMA EarlyRule ==
    ASSUME NEW q \in DefaultRule, ~Unmatched(q),
           NEW m \in Flags, NEW e \in Flags, ~m.ignore, e.ignore
    PROVE  /\ Required(q, e) \subseteq Required(q, m)
           /\ \A g \in Addresses : g \in Required(q, e) => g \in Found(q, e)
           /\ \A g \in Groups \ Addresses : g \in Found(q, m) <=> g \in Found(q, e)
<1>1. \A g \in Groups : ~CountsAs(q, e, g)
    BY Zenon DEF CountsAs
<1>2. \A g \in Groups \ Addresses : ~CountsAs(q, m, g)
    BY Zenon DEF CountsAs, Addresses
<1>3. \A g \in Addresses : g \in Required(q, e) => g \in Found(q, e)
    BY <1>1, Zenon DEF Required, Found, Unmatched, DefaultRule, Field
<1>4. QED BY <1>1, <1>2, <1>3, Zenon DEF Required, Found

LEMMA EarlyAlone ==
    ASSUME NEW q \in DefaultRule, ~Unmatched(q), ~Mixed(q),
           NEW m \in Flags, NEW e \in Flags, ~m.ignore, e.ignore, Alone(q, m)
    PROVE  Alone(q, e)
<1>1. CASE q.invert /\ ~q.ipcidr
    BY <1>1, CIDRFree, Zenon
<1>2. CASE q.invert /\ q.ipcidr
    BY <1>2, Zenon DEF Mixed, OnlyDeferred, Metadata, Alone
<1>3. CASE ~q.invert
    <2>1. q.others # "no" /\ Required(q, m) \subseteq Found(q, m)
        BY <1>3, SatisfiedAlone, Zenon DEF Alone, Positive
    <2>2. Required(q, e) \subseteq Groups
        BY Clauses, Zenon
    <2>3. Required(q, e) \subseteq Found(q, e)
        BY <2>1, <2>2, EarlyRule, Zenon
    <2>4. QED BY <1>3, <2>1, <2>3, SatisfiedAlone, Zenon DEF Alone, Positive
<1>4. q.invert \in BOOLEAN /\ q.ipcidr \in BOOLEAN
    BY Zenon DEF DefaultRule
<1>5. QED BY <1>1, <1>2, <1>3, <1>4, Zenon

(* A nested rule that agrees with the including rule on the answer agrees  *)
(* with it before the lookup.                                              *)
LEMMA EarlyReturns ==
    ASSUME NEW r \in DefaultRule, ~Unmatched(r), NEW q \in DefaultRule, ~Unmatched(q), ~Mixed(q),
           NEW mr \in Flags, NEW er \in Flags, ~mr.ignore, er.ignore,
           NEW m \in Flags, NEW e \in Flags, ~m.ignore, e.ignore,
           Returns(q, m, Found(r, mr))
    PROVE  Returns(q, e, Found(r, er))
<1>1. CASE q.invert
    BY <1>1, EarlyAlone, Zenon DEF Returns
<1>2. CASE ~q.invert
    <2>1. q.others # "no" /\ Required(q, m) \subseteq Found(r, mr) \cup Found(q, m)
        BY <1>2, Zenon DEF Returns
    <2>2. Required(q, e) \subseteq Groups
        BY Clauses, Zenon
    <2>3. /\ Required(q, e) \subseteq Required(q, m)
          /\ \A g \in Addresses : g \in Required(q, e) => g \in Found(q, e)
          /\ \A g \in Groups \ Addresses : g \in Found(q, m) <=> g \in Found(q, e)
        BY EarlyRule, Zenon
    <2>4. \A g \in Groups \ Addresses : g \in Found(r, mr) <=> g \in Found(r, er)
        BY EarlyRule, Zenon
    <2>5. Required(q, e) \subseteq Found(r, er) \cup Found(q, e)
        BY <2>1, <2>2, <2>3, <2>4, Zenon
    <2>6. QED BY <1>2, <2>1, <2>5, Zenon DEF Returns
<1>3. QED BY <1>1, <1>2, Zenon

LEMMA EarlyNested ==
    ASSUME NEW r \in DefaultRule, ~Unmatched(r), NEW n \in Nested,
           "unmatched" \notin Marks(n), "mixed" \notin Marks(n),
           NEW mr \in Flags, NEW er \in Flags, ~mr.ignore, er.ignore,
           NEW m \in Flags, NEW e \in Flags, ~m.ignore, e.ignore,
           NestedHolds(n, m, Clause(r, mr))
    PROVE  NestedHolds(n, e, Clause(r, er))
<1> DEFINE D == DOMAIN n.rules
           R == Returning(n, m, Found(r, mr))
           E == Returning(n, e, Found(r, er))
           base == Found(r, mr)
           early == Found(r, er)
<1>1. \A i \in D : n.rules[i] \in DefaultRule /\ ~n.rules[i].sets
    BY NestedRules, Zenon
<1>2. \A i \in D : ~Unmatched(n.rules[i]) /\ ~Mixed(n.rules[i])
    BY Zenon DEF Marks
<1>3. n.invert => \A i \in D : ~n.rules[i].ipcidr
    BY Zenon DEF Marks, HasCIDR
<1>4. R \subseteq E /\ R \subseteq D /\ E \subseteq D
    BY <1>1, <1>2, EarlyReturns, Zenon DEF Returning
<1>5. /\ Required(r, er) \subseteq Required(r, mr)
      /\ \A g \in Addresses : g \in Required(r, er) => g \in early
      /\ \A g \in Groups \ Addresses : g \in base <=> g \in early
    BY EarlyRule, Zenon
<1>6. Required(r, er) \subseteq Groups
    BY Clauses, Zenon
<1>7. \A i \in D, g \in Groups \ Addresses :
            g \in Contributes(n.rules[i], m) <=> g \in Contributes(n.rules[i], e)
    <2>1. \A i \in D, g \in Groups \ Addresses :
            g \in Found(n.rules[i], m) <=> g \in Found(n.rules[i], e)
        BY <1>1, <1>2, EarlyRule, Zenon
    <2>2. QED BY <2>1, Zenon DEF Contributes
<1>8. /\ NestedHolds(n, m, Clause(r, mr)) <=>
            IF n.invert
            THEN /\ Required(r, mr) \subseteq base
                 /\ IF n.mode = "and" THEN Returning(n, m, {}) # D ELSE Returning(n, m, {}) = {}
            ELSE IF n.mode = "and"
            THEN R = D /\ Required(r, mr) \subseteq base \cup AllContribute(n, m, D)
            ELSE \E i \in R : Required(r, mr) \subseteq With(n, m, base, i)
      /\ NestedHolds(n, e, Clause(r, er)) <=>
            IF n.invert
            THEN /\ Required(r, er) \subseteq early
                 /\ IF n.mode = "and" THEN Returning(n, e, {}) # D ELSE Returning(n, e, {}) = {}
            ELSE IF n.mode = "and"
            THEN E = D /\ Required(r, er) \subseteq early \cup AllContribute(n, e, D)
            ELSE \E i \in E : Required(r, er) \subseteq With(n, e, early, i)
    BY NestedMeans, Zenon
<1> HIDE DEF base, early, R, E
<1>9. CASE n.invert
    <2>1. \A i \in D : Returns(n.rules[i], m, {}) <=> Returns(n.rules[i], e, {})
        BY <1>1, <1>3, <1>9, CIDRFree, Zenon
    <2>2. Returning(n, m, {}) = Returning(n, e, {})
        BY <2>1, Zenon DEF Returning
    <2>3. Required(r, mr) \subseteq base => Required(r, er) \subseteq early
        BY <1>5, <1>6, Zenon
    <2>4. QED BY <1>8, <1>9, <2>2, <2>3, Zenon
<1>10. CASE ~n.invert /\ n.mode = "and"
    <2>1. R = D /\ Required(r, mr) \subseteq base \cup AllContribute(n, m, D)
        BY <1>8, <1>10, Zenon
    <2>2. E = D
        BY <1>4, <2>1, Zenon
    <2>3. \A g \in Groups \ Addresses : g \in AllContribute(n, m, D) <=> g \in AllContribute(n, e, D)
        BY <1>7, Zenon DEF AllContribute
    <2>4. Required(r, er) \subseteq early \cup AllContribute(n, e, D)
        BY <1>5, <1>6, <2>1, <2>3, Zenon
    <2>5. QED BY <1>8, <1>10, <2>2, <2>4, Zenon
<1>11. CASE ~n.invert /\ n.mode # "and"
    <2>1. PICK i \in R : Required(r, mr) \subseteq With(n, m, base, i)
        BY <1>8, <1>11, Zenon
    <2>2. i \in E /\ i \in D
        BY <1>4, Zenon
    <2>3. Required(r, er) \subseteq With(n, e, early, i)
        BY <1>5, <1>6, <1>7, <2>1, <2>2, Zenon DEF With
    <2>4. QED BY <1>8, <1>11, <2>2, <2>3, Zenon
<1>12. QED BY <1>9, <1>10, <1>11, NestedRules, Zenon

(***************************************************************************)
(* The invariant.                                                          *)
(***************************************************************************)
Covered(k) == \E s \in states[k] : Required(Top, Metadata(k)) \subseteq s

(* What the collected states stand for, while a rule with rule sets is     *)
(* evaluated, and what the result is.                                      *)
MergedInv ==
    /\ rule \in Outer
    /\ ~IsLogical => \A k \in Kinds :
        /\ ~(Top.source /\ "logical" \in seen) => (merged[k] <=> Covered(k))
        /\ ~Top.sets => states[k] = {Found(Top, Metadata(k))}
    /\ MergedMatches

(* The same for a logical rule. *)
LogicalInv ==
    /\ IsLogical => \A k \in Kinds : merged[k] <=> states[k] # {}
    /\ LogicalMatches

LEMMA MetadataFlags ==
    \A k \in Kinds : /\ Metadata(k) \in Flags
                     /\ ResetRuleCache(Metadata(k)) = Metadata(k)
                     /\ \A r \in DefaultRule : RuleSetMetadata(r, Metadata(k)) \in Flags
<1> SUFFICES ASSUME NEW k \in Kinds
             PROVE  /\ Metadata(k) \in Flags
                    /\ ResetRuleCache(Metadata(k)) = Metadata(k)
                    /\ \A r \in DefaultRule : RuleSetMetadata(r, Metadata(k)) \in Flags
    BY Zenon
<1>1. Metadata(k) \in Flags
    BY Zenon DEF Metadata, Flags
<1>2. ResetRuleCache(Metadata(k)) = Metadata(k)
    <2>1. ASSUME NEW m \in Flags, m.source = FALSE PROVE ResetRuleCache(m) = m
        BY <2>1, Zenon DEF Flags, ResetRuleCache
    <2>2. Metadata(k).source = FALSE
        BY Zenon DEF Metadata
    <2>3. QED BY <1>1, <2>1, <2>2, Zenon
<1>3. ASSUME NEW r \in DefaultRule PROVE RuleSetMetadata(r, Metadata(k)) \in Flags
    <2>1. r.source \in BOOLEAN
        BY Zenon DEF DefaultRule
    <2>2. QED BY <1>1, <2>1, Zenon DEF Flags, RuleSetMetadata
<1>4. QED BY <1>1, <1>2, <1>3, Zenon

LEMMA TopIsDefault ==
    ASSUME rule \in Outer, ~IsLogical
    PROVE  Top \in DefaultRule /\ ~rule.invert /\ rule.mode = "one"
BY OuterAssumption, Zenon DEF IsRule, IsLogical, Top

LEMMA BaseOfTop ==
    ASSUME NEW r \in DefaultRule, NEW m \in Flags
    PROVE  BaseState(r, m, {}) = Found(r, m)
BY Zenon DEF BaseState

(* What Finish decides for a default rule, given what the collected states *)
(* stand for.                                                              *)
LEMMA ConcludeTop ==
    ASSUME NEW r \in DefaultRule, NEW m \in Flags, NEW S,
           ~r.sets => S = {Found(r, m)}
    PROVE  LET positive == r.others # "no" /\ \E s \in S : Required(r, m) \subseteq s
           IN  Conclude(r, m, {}, S) # {} <=>
                   IF r.invert THEN ~positive \/ (~r.sets /\ OnlyDeferred(r, m)) ELSE positive
<1> DEFINE kept == {s \in S : Required(r, m) \subseteq s}
           covered == \E s \in S : Required(r, m) \subseteq s
<1>1. covered <=> kept # {}
    BY Zenon
<1>2. Conclude(r, m, {}, S) =
        IF r.others = "no" \/ kept = {} THEN (IF r.invert THEN {{}} ELSE {})
        ELSE IF ~r.invert THEN kept
        ELSE IF Defers(r, m, kept) THEN {{}} ELSE {}
    BY Zenon DEF Conclude, InvertedFailure
<1>3. r.sets => ~Defers(r, m, kept)
    BY Zenon DEF Defers, DidMatch
<1>4. ASSUME ~r.sets, covered PROVE Defers(r, m, kept) <=> OnlyDeferred(r, m)
    <2>1. S = {Found(r, m)} /\ Required(r, m) \subseteq Found(r, m)
        BY <1>4, Zenon
    <2>2. kept = {Found(r, m)}
        BY <2>1, Zenon
    <2>3. QED BY <1>4, <2>1, <2>2, DeferredRule
<1>5. OnlyDeferred(r, m) => r.others # "no"
    BY Zenon DEF OnlyDeferred
<1> HIDE DEF kept, covered
<1>6. Conclude(r, m, {}, S) # {} <=>
        IF r.invert THEN ~(r.others # "no" /\ covered) \/ (~r.sets /\ OnlyDeferred(r, m))
                    ELSE r.others # "no" /\ covered
    BY <1>1, <1>2, <1>3, <1>4, <1>5, Zenon
<1>7. QED BY <1>6, Zenon DEF covered

(* Combining keeps a state exactly when both sides have one. *)
LEMMA NotEmpty ==
    \A S, T : /\ Combine(S, T) # {} <=> S # {} /\ T # {}
              /\ Merge(S, T) # {} <=> S # {} \/ T # {}
<1> SUFFICES ASSUME NEW S, NEW T
             PROVE  /\ Combine(S, T) # {} <=> S # {} /\ T # {}
                    /\ Merge(S, T) # {} <=> S # {} \/ T # {}
    BY Zenon
<1>1. ASSUME S # {}, T # {} PROVE Combine(S, T) # {}
    <2>1. PICK s \in S : TRUE
        BY <1>1, Zenon
    <2>2. PICK t \in T : TRUE
        BY <1>1, Zenon
    <2>3. s \cup t \in Combine(S, T)
        BY <2>1, <2>2 DEF Combine
    <2>4. QED BY <2>3, Zenon
<1>2. Combine(S, T) # {} => S # {} /\ T # {}
    BY DEF Combine
<1>3. Merge(S, T) # {} <=> S # {} \/ T # {}
    BY Zenon DEF Merge
<1>4. QED BY <1>1, <1>2, <1>3, Zenon

(* A step of the loop over the rules of a logical rule. *)
LEMMA LogicalStep == LogicalInv /\ [Next]_vars => LogicalInv'
<1> SUFFICES ASSUME LogicalInv, [Next]_vars PROVE LogicalInv'
    BY Zenon
<1>1. ASSUME NEW n \in Nested, RuleSetRule(n) PROVE LogicalInv'
    BY <1>1, Zenon DEF RuleSetRule, LogicalInv, LogicalMatches, IsLogical
<1>2. ASSUME NEW n \in Nested, LogicalRule(n) PROVE LogicalInv'
    <2> DEFINE part(k) == DefaultStates(n.rules[1], Metadata(k), {})
    <2>1. n.rules[1] \in DefaultRule /\ ~n.rules[1].sets
        BY <1>2, NestedRules, Zenon DEF LogicalRule
    <2>2. \A k \in Kinds : part(k) # {} <=> Alone(n.rules[1], Metadata(k))
        BY <2>1, LogicalPart, MetadataFlags, Zenon
    <2>3. \A k \in Kinds : states'[k] = IF rule.mode = "and" THEN Combine(states[k], part(k))
                                                            ELSE Merge(states[k], part(k))
        BY <1>2, MetadataFlags, Zenon DEF LogicalRule
    <2>4. \A k \in Kinds : merged'[k] <=>
            IF rule.mode = "and" THEN merged[k] /\ Alone(n.rules[1], Metadata(k))
                                 ELSE merged[k] \/ Alone(n.rules[1], Metadata(k))
        BY <1>2, Zenon DEF LogicalRule
    <2>5. \A S, T : /\ Combine(S, T) # {} <=> S # {} /\ T # {}
                    /\ Merge(S, T) # {} <=> S # {} \/ T # {}
        BY NotEmpty, Zenon
    <2>6. \A k \in Kinds : merged[k] <=> states[k] # {}
        BY <1>2, Zenon DEF LogicalRule, LogicalInv
    <2> HIDE DEF part
    <2>7. \A k \in Kinds : merged'[k] <=> states'[k] # {}
        BY <2>2, <2>3, <2>4, <2>5, <2>6
    <2>8. QED BY <1>2, <2>7, Zenon DEF LogicalRule, LogicalInv, LogicalMatches
<1>3. CASE Finish
    <2>1. CASE IsLogical
        <3>1. \A k \in Kinds : matched'[k] <=> IF rule.invert THEN states[k] = {} ELSE states[k] # {}
            BY <1>3, <2>1, Zenon DEF Finish, LogicalAnswer
        <3>2. QED BY <1>3, <2>1, <3>1, Zenon DEF Finish, LogicalInv, LogicalMatches, IsLogical
    <2>2. CASE ~IsLogical
        BY <1>3, <2>2, Zenon DEF Finish, LogicalInv, LogicalMatches, IsLogical
    <2>3. QED BY <2>1, <2>2, Zenon
<1>4. CASE UNCHANGED vars
    BY <1>4, Zenon DEF vars, LogicalInv, LogicalMatches, IsLogical
<1>5. QED BY <1>1, <1>2, <1>3, <1>4, Zenon DEF Next

(* What one more rule of the rule sets adds to the collected states. *)
LEMMA RuleSetStep ==
    ASSUME NEW n \in Nested, RuleSetRule(n), rule \in Outer, NEW k \in Kinds
    PROVE  LET p == RuleSetMetadata(Top, Metadata(k))
           IN  /\ ~IsLogical /\ Top \in DefaultRule /\ Top.sets /\ Metadata(k) \in Flags /\ p \in Flags
               /\ states'[k] = states[k] \cup NestedStates(n, p, Found(Top, Metadata(k)))
               /\ Covered(k)' <=> Covered(k) \/ NestedHolds(n, ReadAs(n, p), Clause(Top, Metadata(k)))
               /\ merged'[k] <=> merged[k] \/ NestedHolds(n, p, Clause(Top, Metadata(k)))
<1> DEFINE m == Metadata(k)
           p == RuleSetMetadata(Top, Metadata(k))
           part == NestedStates(n, p, Found(Top, m))
           needs == Required(Top, m)
<1>1. ~IsLogical /\ Top \in DefaultRule /\ Top.sets /\ m \in Flags /\ p \in Flags
    BY TopIsDefault, MetadataFlags, Zenon DEF RuleSetRule
<1>2. states'[k] = states[k] \cup part
    BY <1>1, BaseOfTop, Zenon DEF RuleSetRule, Merge
<1>3. merged'[k] <=> merged[k] \/ NestedHolds(n, p, Clause(Top, m))
    BY Zenon DEF RuleSetRule
<1>4. Top' = Top
    BY Zenon DEF RuleSetRule, Top
<1>5. Covered(k)' <=> \E s \in states'[k] : needs \subseteq s
    BY <1>4, Zenon DEF Covered
<1>6. Covered(k) <=> \E s \in states[k] : needs \subseteq s
    BY Zenon DEF Covered
<1>7. (\E s \in part : needs \subseteq s) <=> NestedHolds(n, ReadAs(n, p), Clause(Top, m))
    BY <1>1, RuleSetPart, Zenon
<1> HIDE DEF m, p, part, needs
<1>8. Covered(k)' <=> Covered(k) \/ NestedHolds(n, ReadAs(n, p), Clause(Top, m))
    BY <1>2, <1>5, <1>6, <1>7, Zenon
<1>9. QED BY <1>1, <1>2, <1>3, <1>8, Zenon DEF m, p, part

(* A step of the loop over the rules of rule sets. *)
LEMMA MergedStep == MergedInv /\ [Next]_vars => MergedInv'
<1> SUFFICES ASSUME MergedInv, [Next]_vars PROVE MergedInv'
    BY Zenon
<1>1. ASSUME NEW n \in Nested, RuleSetRule(n) PROVE MergedInv'
    <2>1. rule \in Outer /\ ~IsLogical /\ Top \in DefaultRule /\ Top.sets
        BY <1>1, TopIsDefault, Zenon DEF RuleSetRule, MergedInv
    <2>2. rule' = rule /\ Top' = Top /\ stage' # "done" /\ seen' = seen \cup Marks(n)
        BY <1>1, Zenon DEF RuleSetRule, Top
    <2>3. ASSUME NEW k \in Kinds, ~(Top.source /\ "logical" \in seen')
          PROVE  merged'[k] <=> Covered(k)'
        <3> DEFINE p == RuleSetMetadata(Top, Metadata(k))
        <3>1. /\ Metadata(k) \in Flags /\ p \in Flags
              /\ Covered(k)' <=> Covered(k) \/ NestedHolds(n, ReadAs(n, p), Clause(Top, Metadata(k)))
              /\ merged'[k] <=> merged[k] \/ NestedHolds(n, p, Clause(Top, Metadata(k)))
            BY <1>1, <2>1, RuleSetStep, Zenon
        <3>2. merged[k] <=> Covered(k)
            BY <2>1, <2>2, <2>3, Zenon DEF MergedInv
        <3>3. CASE ~Top.source
            <4>1. p.source = FALSE
                BY <2>1, <3>3, Zenon DEF RuleSetMetadata, Metadata, DefaultRule
            <4>2. ResetRuleCache(p) = p
                <5>1. ASSUME NEW m \in Flags, m.source = FALSE PROVE ResetRuleCache(m) = m
                    BY <5>1, Zenon DEF Flags, ResetRuleCache
                <5>2. QED BY <3>1, <4>1, <5>1, Zenon
            <4>3. QED BY <3>1, <3>2, <4>2, Zenon DEF ReadAs
        <3>4. CASE n.mode = "one"
            BY <3>1, <3>2, <3>4, Zenon DEF ReadAs
        <3>5. CASE Top.source /\ n.mode # "one"
            <4>1. ~HasCIDR(n)
                BY <2>2, <2>3, <3>5, Zenon DEF Marks
            <4>2. ReadAs(n, p) \in Flags
                BY <3>1, ReadAsFlags, Zenon
            <4>3. NestedHolds(n, ReadAs(n, p), Clause(Top, Metadata(k))) <=>
                    NestedHolds(n, p, Clause(Top, Metadata(k)))
                BY <3>1, <4>1, <4>2, NestedCIDRFree, Zenon
            <4>4. QED BY <3>1, <3>2, <4>3, Zenon
        <3>6. QED BY <3>3, <3>4, <3>5, Zenon
    <2>4. QED BY <2>1, <2>2, <2>3, Zenon DEF MergedInv, MergedMatches, IsLogical
<1>2. ASSUME NEW n \in Nested, LogicalRule(n) PROVE MergedInv'
    BY <1>2, Zenon DEF LogicalRule, MergedInv, MergedMatches, IsLogical
<1>3. CASE Finish
    <2>1. CASE IsLogical
        BY <1>3, <2>1, Zenon DEF Finish, MergedInv, MergedMatches, IsLogical
    <2>2. CASE ~IsLogical
        <3>1. Top \in DefaultRule
            BY <2>2, TopIsDefault, Zenon DEF MergedInv
        <3>2. ASSUME NEW k \in Kinds, ~(Top.source /\ "logical" \in seen)
              PROVE  LET positive == Top.others # "no" /\ merged[k]
                     IN  matched'[k] <=> IF Top.invert
                            THEN ~positive \/ (~Top.sets /\ OnlyDeferred(Top, Metadata(k)))
                            ELSE positive
            <4>1. matched'[k] <=> Conclude(Top, Metadata(k), {}, states[k]) # {}
                BY <1>3, <2>2, Zenon DEF Finish
            <4>2. Metadata(k) \in Flags /\ (~Top.sets => states[k] = {Found(Top, Metadata(k))})
                BY <2>2, MetadataFlags, Zenon DEF MergedInv
            <4>3. merged[k] <=> \E s \in states[k] : Required(Top, Metadata(k)) \subseteq s
                BY <2>2, <3>2, Zenon DEF MergedInv, Covered
            <4>4. QED BY <3>1, <4>1, <4>2, <4>3, ConcludeTop, Zenon
        <3>3. rule' = rule /\ merged' = merged /\ states' = states /\ seen' = seen
            BY <1>3, Zenon DEF Finish
        <3>4. MergedMatches'
            BY <3>2, <3>3, Zenon DEF MergedMatches, Top
        <3>5. QED BY <3>3, <3>4, Zenon DEF MergedInv, IsLogical, Top, Covered
    <2>3. QED BY <2>1, <2>2, Zenon
<1>4. CASE UNCHANGED vars
    BY <1>4, Zenon DEF vars, MergedInv, MergedMatches, IsLogical, Top, Covered
<1>5. QED BY <1>1, <1>2, <1>3, <1>4, Zenon DEF Next

LEMMA MergedInit == Init => MergedInv
<1> SUFFICES ASSUME Init PROVE MergedInv
    BY Zenon
<1>1. rule \in Outer /\ stage = "rules"
    BY Zenon DEF Init
<1>2. ASSUME ~IsLogical, NEW k \in Kinds
      PROVE  /\ merged[k] <=> Covered(k)
             /\ ~Top.sets => states[k] = {Found(Top, Metadata(k))}
    <2>1. Top \in DefaultRule /\ rule.mode = "one"
        BY <1>1, <1>2, TopIsDefault, Zenon
    <2>2. Metadata(k) \in Flags
        BY MetadataFlags, Zenon
    <2>3. states[k] = IF Top.sets THEN {} ELSE {Found(Top, Metadata(k))}
        BY <2>1, <2>2, BaseOfTop, Zenon DEF Init
    <2>4. merged[k] <=> IF Top.sets THEN FALSE ELSE Satisfied({Clause(Top, Metadata(k))})
        BY <2>1, Zenon DEF Init
    <2>5. Satisfied({Clause(Top, Metadata(k))}) <=>
            Required(Top, Metadata(k)) \subseteq Found(Top, Metadata(k))
        BY <2>1, <2>2, SatisfiedAlone, Zenon
    <2>6. QED BY <2>3, <2>4, <2>5, Zenon DEF Covered
<1>3. QED BY <1>1, <1>2, Zenon DEF MergedInv, MergedMatches

LEMMA LogicalInit == Init => LogicalInv
<1> SUFFICES ASSUME Init PROVE LogicalInv
    BY Zenon
<1>1. ASSUME IsLogical, NEW k \in Kinds PROVE merged[k] <=> states[k] # {}
    <2>1. rule.mode \in {"and", "or"}
        BY <1>1, OuterAssumption, Zenon DEF Init, IsRule, IsLogical
    <2>2. QED BY <2>1, Zenon DEF Init
<1>2. QED BY <1>1, Zenon DEF Init, LogicalInv, LogicalMatches

(* For any groups, rules and rule sets, of default and logical rules,      *)
(* inverted or not: a rule matches exactly when it does with one rule of   *)
(* its rule sets merged into it (abstractDefaultRule.matchStatesWithBase   *)
(* and the rule sets it calls), in full and before the lookup.             *)
THEOREM MergedCorrect == Spec => []MergedMatches
<1>1. Init => MergedInv
    BY MergedInit, Zenon
<1>2. MergedInv /\ [Next]_vars => MergedInv'
    BY MergedStep, Zenon
<1>3. MergedInv => MergedMatches
    BY Zenon DEF MergedInv
<1>4. QED BY <1>1, <1>2, <1>3, PTL DEF Spec

(* For any groups and rules: a logical rule matches as the conjunction or  *)
(* disjunction of its rules (abstractLogicalRule.matchStatesWithBase),     *)
(* negated if inverted.                                                    *)
THEOREM LogicalCorrect == Spec => []LogicalMatches
<1>1. Init => LogicalInv
    BY LogicalInit, Zenon
<1>2. LogicalInv /\ [Next]_vars => LogicalInv'
    BY LogicalStep, Zenon
<1>3. LogicalInv => LogicalMatches
    BY Zenon DEF LogicalInv
<1>4. QED BY <1>1, <1>2, <1>3, PTL DEF Spec

(***************************************************************************)
(* Types.                                                                  *)
(***************************************************************************)
(* Nested rules hand back states that extend the one they were handed. *)
LEMMA NestedExtends ==
    ASSUME NEW n \in Nested, NEW p \in Flags, NEW base \in SUBSET Groups,
           NEW s \in NestedStates(n, p, base)
    PROVE  s \in SUBSET Groups /\ base \subseteq s
<1> DEFINE q == ReadAs(n, p)
           D == DOMAIN n.rules
<1>1. q \in Flags /\ ResetRuleCache(p) \in Flags
    BY ReadAsFlags, Zenon
<1>2. \A i \in D : n.rules[i] \in DefaultRule /\ ~n.rules[i].sets
    BY NestedRules, Zenon
<1>3. \A i \in D : Contributes(n.rules[i], q) \subseteq Groups
    <2>1. \A i \in D : Found(n.rules[i], q) \subseteq Groups
        BY Zenon DEF Found
    <2>2. QED BY <2>1, Zenon DEF Contributes
<1>4. \A i \in D : With(n, q, base, i) \subseteq Groups /\ base \subseteq With(n, q, base, i)
    BY <1>3, Zenon DEF With
<1> HIDE DEF q
<1>5. CASE n.mode = "one"
    <2>1. 1 \in D /\ q = p
        BY <1>5, NestedRules, Zenon DEF q, ReadAs
    <2>2. s = With(n, q, base, 1)
        BY <1>1, <1>2, <1>5, <2>1, PartStates, Zenon DEF NestedStates, With
    <2>3. QED BY <1>4, <2>1, <2>2, Zenon
<1>6. CASE n.mode # "one"
    <2> DEFINE union == base \cup UNION {With(n, q, base, i) : i \in D}
    <2>1. q = ResetRuleCache(p) /\ NestedStates(n, p, base) = LogicalStates(n, p, base)
        BY <1>6, Zenon DEF q, ReadAs, NestedStates
    <2>2. s = base \/ s = union \/ \E i \in D : s = With(n, q, base, i)
        <3>1. /\ n.invert => LogicalStates(n, p, base) \subseteq {base}
              /\ ~n.invert /\ n.mode = "and" => LogicalStates(n, p, base) \subseteq {union}
              /\ ~n.invert /\ n.mode # "and" =>
                    LogicalStates(n, p, base) = {With(n, q, base, i) : i \in Returning(n, q, base)}
            BY <1>1, <1>6, <2>1, LogicalCollects
        <3>2. Returning(n, q, base) \subseteq D
            BY Zenon DEF Returning
        <3> HIDE DEF D, union
        <3>3. QED BY <2>1, <3>1, <3>2, NestedRules
    <2>3. base \subseteq union /\ union \subseteq Groups
        BY <1>4, Zenon
    <2> HIDE DEF union
    <2>4. QED BY <1>4, <2>2, <2>3, Zenon
<1>7. QED BY <1>5, <1>6, Zenon

TypeInv == rule \in Outer /\ TypeOK

LEMMA TypeInit == Init => TypeInv
<1> SUFFICES ASSUME Init PROVE TypeInv
    BY Zenon
<1>1. rule \in Outer /\ stage = "rules" /\ left = MaxNested
    BY Zenon DEF Init
<1>2. ASSUME NEW k \in Kinds
      PROVE  /\ states[k] \in SUBSET SUBSET Groups
             /\ ~IsLogical => \A s \in states[k] : BaseState(Top, Metadata(k), {}) \subseteq s
    <2>1. CASE IsLogical
        BY <2>1, <1>1, OuterAssumption, Zenon DEF Init, IsLogical, IsRule
    <2>2. CASE ~IsLogical
        <3>1. Top \in DefaultRule /\ rule.mode = "one" /\ Metadata(k) \in Flags
            BY <1>1, <2>2, TopIsDefault, MetadataFlags, Zenon
        <3>2. BaseState(Top, Metadata(k), {}) \subseteq Groups
            BY <3>1, BaseOfTop, Clauses, Zenon DEF Found
        <3>3. states[k] = IF Top.sets THEN {} ELSE {BaseState(Top, Metadata(k), {})}
            BY <3>1, Zenon DEF Init
        <3>4. QED BY <3>2, <3>3, Zenon
    <2>3. QED BY <2>1, <2>2, Zenon
<1>3. states = [k \in Kinds |-> states[k]]
    BY Zenon DEF Init
<1>4. states \in [Kinds -> SUBSET SUBSET Groups]
    BY <1>2, <1>3, Zenon
<1>5. QED BY <1>1, <1>2, <1>4, BoundAssumption DEF TypeInv, TypeOK

LEMMA TypeStep == TypeInv /\ [Next]_vars => TypeInv'
<1> SUFFICES ASSUME TypeInv, [Next]_vars PROVE TypeInv'
    BY Zenon
<1>1. ASSUME NEW n \in Nested, RuleSetRule(n) PROVE TypeInv'
    <2>1. /\ rule' = rule /\ Top' = Top /\ stage' = stage
          /\ left > 0 /\ left' = left - 1 /\ ~IsLogical
        BY <1>1, Zenon DEF RuleSetRule, Top
    <2>2. ASSUME NEW k \in Kinds
          PROVE  /\ states'[k] \in SUBSET SUBSET Groups
                 /\ \A s \in states'[k] : BaseState(Top, Metadata(k), {}) \subseteq s
        <3> DEFINE p == RuleSetMetadata(Top, Metadata(k))
                   base == Found(Top, Metadata(k))
        <3>1. /\ Top \in DefaultRule /\ Metadata(k) \in Flags /\ p \in Flags
              /\ states'[k] = states[k] \cup NestedStates(n, p, base)
            BY <1>1, RuleSetStep, Zenon DEF TypeInv
        <3>2. base \in SUBSET Groups /\ BaseState(Top, Metadata(k), {}) = base
            BY <3>1, BaseOfTop, Zenon DEF Found
        <3> HIDE DEF base, p
        <3>3. \A s \in NestedStates(n, p, base) : s \in SUBSET Groups /\ base \subseteq s
            BY <3>1, <3>2, NestedExtends
        <3>4. /\ states[k] \in SUBSET SUBSET Groups
              /\ \A s \in states[k] : BaseState(Top, Metadata(k), {}) \subseteq s
            BY <2>1, Zenon DEF TypeInv, TypeOK
        <3>5. QED BY <3>1, <3>2, <3>3, <3>4, Zenon
    <2>3. states' = [k \in Kinds |-> states'[k]]
        BY <1>1, Zenon DEF RuleSetRule
    <2>4. states' \in [Kinds -> SUBSET SUBSET Groups]
        BY <2>2, <2>3, Zenon
    <2>5. stage \in {"rules", "done"} /\ left' \in 0 .. MaxNested
        BY <2>1, BoundAssumption DEF TypeInv, TypeOK
    <2>6. QED BY <2>1, <2>2, <2>4, <2>5, Zenon DEF TypeInv, TypeOK
<1>2. ASSUME NEW n \in Nested, LogicalRule(n) PROVE TypeInv'
    <2>1. /\ rule' = rule /\ stage' = stage /\ IsLogical /\ IsLogical'
          /\ left > 0 /\ left' = left - 1
        BY <1>2, Zenon DEF LogicalRule, IsLogical
    <2>2. n.rules[1] \in DefaultRule /\ ~n.rules[1].sets
        BY <1>2, NestedRules, Zenon DEF LogicalRule
    <2>3. ASSUME NEW k \in Kinds PROVE states'[k] \in SUBSET SUBSET Groups
        <3> DEFINE part == DefaultStates(n.rules[1], Metadata(k), {})
        <3>1. Metadata(k) \in Flags /\ ResetRuleCache(Metadata(k)) = Metadata(k)
            BY MetadataFlags, Zenon
        <3>2. Contributes(n.rules[1], Metadata(k)) \subseteq Groups
            BY Zenon DEF Contributes, Found
        <3>3. part \in SUBSET SUBSET Groups
            BY <2>2, <3>1, <3>2, PartStates
        <3>4. states'[k] = Combine(states[k], part) \/ states'[k] = Merge(states[k], part)
            BY <1>2, <3>1, Zenon DEF LogicalRule
        <3>5. states[k] \in SUBSET SUBSET Groups
            BY Zenon DEF TypeInv, TypeOK
        <3> HIDE DEF part
        <3>6. QED BY <3>3, <3>4, <3>5 DEF Combine, Merge
    <2>4. states' = [k \in Kinds |-> states'[k]]
        BY <1>2, Zenon DEF LogicalRule
    <2>5. states' \in [Kinds -> SUBSET SUBSET Groups]
        BY <2>3, <2>4, Zenon
    <2>6. stage \in {"rules", "done"} /\ left' \in 0 .. MaxNested
        BY <2>1, BoundAssumption DEF TypeInv, TypeOK
    <2>7. QED BY <2>1, <2>5, <2>6, Zenon DEF TypeInv, TypeOK
<1>3. CASE Finish
    BY <1>3, Zenon DEF Finish, TypeInv, TypeOK, IsLogical, Top
<1>4. CASE UNCHANGED vars
    BY <1>4, Zenon DEF vars, TypeInv, TypeOK, IsLogical, Top
<1>5. QED BY <1>1, <1>2, <1>3, <1>4, Zenon DEF Next

(* All of it: whatever the rule, default or logical, the states it carries *)
(* are sets of groups that extend what they started from, and what they    *)
(* say of the rule is its documented reading.                              *)
THEOREM RuleCorrect == Spec => []RuleMatches
<1>1. Spec => []TypeInv
    BY TypeInit, TypeStep, PTL DEF Spec
<1>2. TypeInv /\ MergedMatches /\ LogicalMatches => RuleMatches
    BY Zenon DEF TypeInv, RuleMatches
<1>3. QED BY <1>1, <1>2, MergedCorrect, LogicalCorrect, PTL

(***************************************************************************)
(* Matching before the lookup.                                             *)
(***************************************************************************)
(* No ip_cidr item, in the rule or in the nested rules seen. *)
NoCIDR == "ipcidr" \notin seen /\ (~IsLogical => ~Top.ipcidr)

(* No address item that fails, and no inversion over more than ip_cidr. *)
Plainly == /\ "unmatched" \notin seen /\ "mixed" \notin seen
           /\ ~IsLogical => ~Unmatched(Top)

(* The inductive invariant: without ip_cidr items the lookup changes no    *)
(* state; and what the rule reads as on the answer it also reads as before *)
(* the lookup, unless an item or an inversion stands against it.           *)
EarlyInv ==
    /\ rule \in Outer
    /\ ~IsLogical => (seen # {} => Top.sets) /\ \A k \in Kinds :
            ~Top.sets => states[k] = {Found(Top, Metadata(k))}
    /\ NoCIDR => states["full"] = states["pre"]
    /\ Plainly /\ ~IsLogical => (Covered("full") => Covered("pre"))
    /\ Plainly /\ IsLogical => (states["full"] # {} => states["pre"] # {})
    /\ PreMatchDefers /\ AppliedMatches

LEMMA KindFlags ==
    /\ Metadata("full") \in Flags /\ Metadata("full").ignore = FALSE
    /\ Metadata("pre") \in Flags /\ Metadata("pre").ignore = TRUE
    /\ "full" \in Kinds /\ "pre" \in Kinds
BY Zenon DEF Metadata, Flags, Kinds

LEMMA EarlyInit == Init => EarlyInv
<1> SUFFICES ASSUME Init PROVE EarlyInv
    BY Zenon
<1>1. rule \in Outer /\ stage = "rules" /\ seen = {}
    BY Zenon DEF Init
<1>2. CASE IsLogical
    <2>1. states["full"] = states["pre"]
        BY <1>1, <1>2, KindFlags, OuterAssumption, Zenon DEF Init, IsLogical, IsRule
    <2>2. QED BY <1>1, <1>2, <2>1, Zenon DEF EarlyInv, PreMatchDefers, AppliedMatches
<1>3. CASE ~IsLogical
    <2>1. Top \in DefaultRule /\ rule.mode = "one"
        BY <1>1, <1>3, TopIsDefault, Zenon
    <2>2. \A k \in Kinds : states[k] = IF Top.sets THEN {} ELSE {Found(Top, Metadata(k))}
        BY <2>1, MetadataFlags, BaseOfTop, Zenon DEF Init
    <2>3. states["full"] = (IF Top.sets THEN {} ELSE {Found(Top, Metadata("full"))})
          /\ states["pre"] = (IF Top.sets THEN {} ELSE {Found(Top, Metadata("pre"))})
        BY <2>2, KindFlags, Zenon
    <2>4. NoCIDR => states["full"] = states["pre"]
        <3>1. ~Top.ipcidr => Found(Top, Metadata("full")) = Found(Top, Metadata("pre"))
            BY <2>1, KindFlags, CIDRFree, Zenon
        <3>2. QED BY <1>3, <2>3, <3>1, Zenon DEF NoCIDR
    <2>5. Plainly => (Covered("full") => Covered("pre"))
        <3> SUFFICES ASSUME ~Unmatched(Top), Covered("full") PROVE Covered("pre")
            BY <1>3, Zenon DEF Plainly
        <3>1. ~Top.sets /\ Required(Top, Metadata("full")) \subseteq Found(Top, Metadata("full"))
            BY <2>3, Zenon DEF Covered
        <3>2. Required(Top, Metadata("pre")) \subseteq Groups
            BY <2>1, KindFlags, Clauses, Zenon
        <3>3. Required(Top, Metadata("pre")) \subseteq Found(Top, Metadata("pre"))
            BY <2>1, <3>1, <3>2, KindFlags, EarlyRule, Zenon
        <3>4. QED BY <2>3, <3>1, <3>3, Zenon DEF Covered
    <2>6. QED BY <1>1, <1>3, <2>2, <2>4, <2>5, Zenon DEF EarlyInv, PreMatchDefers, AppliedMatches
<1>4. QED BY <1>2, <1>3, Zenon

(* One more rule of the rule sets. *)
LEMMA EarlyRuleSet ==
    ASSUME EarlyInv, NEW n \in Nested, RuleSetRule(n)
    PROVE  EarlyInv'
<1> DEFINE f == Metadata("full")
           e == Metadata("pre")
           pf == RuleSetMetadata(Top, f)
           pe == RuleSetMetadata(Top, e)
<1>1. /\ rule \in Outer /\ rule' = rule /\ Top' = Top /\ stage' # "done" /\ seen' = seen \cup Marks(n)
      /\ ~IsLogical /\ ~IsLogical' /\ Top.sets
    BY Zenon DEF RuleSetRule, Top, IsLogical, EarlyInv
<1>2. /\ Top \in DefaultRule /\ f \in Flags /\ e \in Flags /\ pf \in Flags /\ pe \in Flags
      /\ states'["full"] = states["full"] \cup NestedStates(n, pf, Found(Top, f))
      /\ Covered("full")' <=> Covered("full") \/ NestedHolds(n, ReadAs(n, pf), Clause(Top, f))
      /\ states'["pre"] = states["pre"] \cup NestedStates(n, pe, Found(Top, e))
      /\ Covered("pre")' <=> Covered("pre") \/ NestedHolds(n, ReadAs(n, pe), Clause(Top, e))
    BY <1>1, KindFlags, RuleSetStep, Zenon
<1>3. /\ ReadAs(n, pf) \in Flags /\ ReadAs(n, pf).ignore = FALSE
      /\ ReadAs(n, pe) \in Flags /\ ReadAs(n, pe).ignore = TRUE
    <2>1. ASSUME NEW m \in Flags, NEW b \in BOOLEAN
          PROVE  /\ [m EXCEPT !.source = b] \in Flags
                 /\ [m EXCEPT !.source = b].ignore = m.ignore
        BY Zenon DEF Flags
    <2>2. Top.source \in BOOLEAN
        BY <1>2, Zenon DEF DefaultRule
    <2>3. pf.ignore = FALSE /\ pe.ignore = TRUE
        BY <1>2, <2>1, <2>2, KindFlags, Zenon DEF RuleSetMetadata
    <2>4. ResetRuleCache(pf).ignore = FALSE /\ ResetRuleCache(pe).ignore = TRUE
        BY <1>2, <2>1, <2>3, Zenon DEF ResetRuleCache
    <2>5. ReadAs(n, pf) \in Flags /\ ReadAs(n, pe) \in Flags
        BY <1>2, ReadAsFlags, Zenon
    <2>6. QED BY <2>3, <2>4, <2>5, Zenon DEF ReadAs
<1>4. ASSUME NoCIDR' PROVE states'["full"] = states'["pre"]
    <2>1. NoCIDR /\ ~Top.ipcidr /\ ~HasCIDR(n)
        BY <1>1, <1>4, Zenon DEF NoCIDR, Marks
    <2>2. Found(Top, f) = Found(Top, e)
        BY <1>2, <2>1, CIDRFree, Zenon
    <2>3. NestedStates(n, pf, Found(Top, f)) = NestedStates(n, pe, Found(Top, f))
        BY <1>2, <2>1, StatesCIDRFree
    <2>4. states["full"] = states["pre"]
        BY <2>1, Zenon DEF EarlyInv
    <2>5. QED BY <1>2, <2>2, <2>3, <2>4, Zenon
<1>5. ASSUME Plainly', Covered("full")' PROVE Covered("pre")'
    <2>1. Plainly /\ ~Unmatched(Top) /\ "unmatched" \notin Marks(n) /\ "mixed" \notin Marks(n)
        BY <1>1, <1>5, Zenon DEF Plainly
    <2>2. Covered("full") => Covered("pre")
        BY <1>1, <2>1, Zenon DEF EarlyInv
    <2>3. NestedHolds(n, ReadAs(n, pf), Clause(Top, f)) => NestedHolds(n, ReadAs(n, pe), Clause(Top, e))
        <3>1. f.ignore = FALSE /\ e.ignore = TRUE
            BY KindFlags, Zenon
        <3> HIDE DEF f, e, pf, pe
        <3>2. QED BY <1>2, <1>3, <2>1, <3>1, EarlyNested, Zenon
    <2>4. QED BY <1>2, <1>5, <2>2, <2>3, Zenon
<1>6. QED BY <1>1, <1>4, <1>5, Zenon DEF EarlyInv, PreMatchDefers, AppliedMatches

(* One more rule of a logical rule. *)
LEMMA EarlyLogical ==
    ASSUME EarlyInv, NEW n \in Nested, LogicalRule(n)
    PROVE  EarlyInv'
<1> DEFINE f == Metadata("full")
           e == Metadata("pre")
           q == n.rules[1]
           pf == DefaultStates(q, f, {})
           pe == DefaultStates(q, e, {})
<1>1. /\ rule \in Outer /\ rule' = rule /\ stage' # "done" /\ seen' = seen \cup Marks(n)
      /\ IsLogical /\ IsLogical'
    BY Zenon DEF LogicalRule, IsLogical, EarlyInv
<1>2. q \in DefaultRule /\ ~q.sets /\ 1 \in DOMAIN n.rules /\ n.mode = "one"
    BY NestedRules, Zenon DEF LogicalRule
<1>3. ResetRuleCache(f) = f /\ ResetRuleCache(e) = e /\ f \in Flags /\ e \in Flags
    BY KindFlags, MetadataFlags, Zenon
<1>4. /\ states'["full"] = IF rule.mode = "and" THEN Combine(states["full"], pf) ELSE Merge(states["full"], pf)
      /\ states'["pre"] = IF rule.mode = "and" THEN Combine(states["pre"], pe) ELSE Merge(states["pre"], pe)
    BY <1>3, KindFlags, Zenon DEF LogicalRule
<1>5. ASSUME NoCIDR' PROVE states'["full"] = states'["pre"]
    <2>1. NoCIDR /\ ~HasCIDR(n)
        BY <1>1, <1>5, Zenon DEF NoCIDR, Marks
    <2>2. NestedStates(n, f, {}) = NestedStates(n, e, {})
        BY <1>3, <2>1, StatesCIDRFree, ZenonT(60)
    <2>3. pf = pe
        BY <1>2, <2>2, Zenon DEF NestedStates
    <2>4. states["full"] = states["pre"]
        BY <2>1, Zenon DEF EarlyInv
    <2>5. QED BY <1>4, <2>3, <2>4, Zenon
<1>6. ASSUME Plainly', states'["full"] # {} PROVE states'["pre"] # {}
    <2>1. Plainly /\ "unmatched" \notin Marks(n) /\ "mixed" \notin Marks(n)
        BY <1>1, <1>6, Zenon DEF Plainly
    <2>2. ~Unmatched(q) /\ ~Mixed(q)
        BY <1>2, <2>1, Zenon DEF Marks
    <2>3. states["full"] # {} => states["pre"] # {}
        BY <1>1, <2>1, Zenon DEF EarlyInv
    <2>4. (pf # {} <=> Alone(q, f)) /\ (pe # {} <=> Alone(q, e))
        BY <1>2, <1>3, LogicalPart, Zenon
    <2>5. Alone(q, f) => Alone(q, e)
        BY <1>2, <1>3, <2>2, KindFlags, EarlyAlone, Zenon
    <2> HIDE DEF pf, pe, q, f, e
    <2>6. \A S, T : /\ Combine(S, T) # {} <=> S # {} /\ T # {}
                    /\ Merge(S, T) # {} <=> S # {} \/ T # {}
        BY NotEmpty, Zenon
    <2>7. QED BY <1>4, <1>6, <2>3, <2>4, <2>5, <2>6
<1>7. QED BY <1>1, <1>5, <1>6, Zenon DEF EarlyInv, PreMatchDefers, AppliedMatches

(* The result of a logical rule. *)
LEMMA EarlyFinishLogical ==
    ASSUME EarlyInv, Finish, IsLogical
    PROVE  PreMatchDefers' /\ AppliedMatches'
<1>1. rule' = rule /\ IsLogical' /\ seen' = seen
    BY Zenon DEF Finish, IsLogical
<1>2. /\ matched'["full"] <=> IF rule.invert THEN states["full"] = {} ELSE states["full"] # {}
      /\ matched'["pre"] <=> IF rule.invert THEN states["pre"] = {} ELSE states["pre"] # {}
    BY KindFlags, Zenon DEF Finish, LogicalAnswer
<1>3. "ipcidr" \notin seen => states["full"] = states["pre"]
    BY Zenon DEF EarlyInv, NoCIDR
<1>4. PreMatchDefers'
    <2>1. "unmatched" \notin seen /\ "mixed" \notin seen =>
            (states["full"] # {} => states["pre"] # {})
        BY Zenon DEF EarlyInv, Plainly
    <2>2. QED BY <1>1, <1>2, <1>3, <2>1, Zenon DEF PreMatchDefers
<1>5. AppliedMatches'
    BY <1>1, <1>2, <1>3, Zenon DEF AppliedMatches, Applied, WithAddressLimit
<1>6. QED BY <1>4, <1>5, Zenon

(* The result of a default rule. *)
LEMMA EarlyFinishDefault ==
    ASSUME EarlyInv, Finish, ~IsLogical
    PROVE  PreMatchDefers' /\ AppliedMatches'
<1> DEFINE f == Metadata("full")
           e == Metadata("pre")
<1>1. /\ rule' = rule /\ Top' = Top /\ ~IsLogical' /\ seen' = seen
      /\ Top \in DefaultRule /\ (seen # {} => Top.sets)
    BY TopIsDefault, Zenon DEF Finish, IsLogical, Top, EarlyInv
<1>2. ASSUME NEW k \in Kinds
      PROVE  LET positive == Top.others # "no" /\ Covered(k)
             IN  matched'[k] <=> IF Top.invert
                    THEN ~positive \/ (~Top.sets /\ OnlyDeferred(Top, Metadata(k)))
                    ELSE positive
    <2>1. matched'[k] <=> Conclude(Top, Metadata(k), {}, states[k]) # {}
        BY Zenon DEF Finish
    <2>2. Metadata(k) \in Flags /\ (~Top.sets => states[k] = {Found(Top, Metadata(k))})
        BY MetadataFlags, Zenon DEF EarlyInv
    <2>3. QED BY <1>1, <2>1, <2>2, ConcludeTop, Zenon DEF Covered
<1>3. /\ matched'["full"] <=> IF Top.invert
                THEN ~(Top.others # "no" /\ Covered("full")) \/ (~Top.sets /\ OnlyDeferred(Top, f))
                ELSE Top.others # "no" /\ Covered("full")
      /\ matched'["pre"] <=> IF Top.invert
                THEN ~(Top.others # "no" /\ Covered("pre")) \/ (~Top.sets /\ OnlyDeferred(Top, e))
                ELSE Top.others # "no" /\ Covered("pre")
    BY <1>2, KindFlags, Zenon
<1>4. ASSUME "ipcidr" \notin seen, ~Top.ipcidr PROVE matched'["full"] <=> matched'["pre"]
    <2>1. states["full"] = states["pre"]
        BY <1>4, Zenon DEF EarlyInv, NoCIDR
    <2>2. Required(Top, f) = Required(Top, e) /\ ~OnlyDeferred(Top, f) /\ ~OnlyDeferred(Top, e)
        BY <1>1, <1>4, KindFlags, CIDRFree, Zenon
    <2>3. Covered("full") <=> Covered("pre")
        BY <2>1, <2>2, Zenon DEF Covered
    <2>4. QED BY <1>3, <2>2, <2>3, Zenon
<1>5. PreMatchDefers'
    <2> SUFFICES ASSUME matched'["full"], ~matched'["pre"]
                 PROVE  /\ "ipcidr" \in seen \/ Top.ipcidr
                        /\ \/ "unmatched" \in seen \/ Unmatched(Top)
                           \/ "mixed" \in seen
                           \/ Top.invert /\ (Top.sets \/ Mixed(Top))
        BY <1>1, Zenon DEF PreMatchDefers
    <2>1. "ipcidr" \in seen \/ Top.ipcidr
        BY <1>4, Zenon
    <2>2. ASSUME "unmatched" \notin seen, ~Unmatched(Top), "mixed" \notin seen
          PROVE  Top.invert /\ (Top.sets \/ Mixed(Top))
        <3>1. Covered("full") => Covered("pre")
            BY <2>2, Zenon DEF EarlyInv, Plainly
        <3>2. Top.invert
            BY <1>3, <3>1, Zenon
        <3>3. ASSUME ~Top.sets PROVE Mixed(Top)
            <4>1. Top.ipcidr
                BY <1>1, <1>4, <3>3, Zenon
            <4>2. ~OnlyDeferred(Top, e)
                BY <1>3, <3>2, <3>3, Zenon
            <4>3. QED BY <3>2, <4>1, <4>2, Zenon DEF Mixed
        <3>4. QED BY <3>2, <3>3, Zenon
    <2>3. QED BY <2>1, <2>2, Zenon
<1>6. AppliedMatches'
    BY <1>1, <1>4, Zenon DEF AppliedMatches, Applied, WithAddressLimit
<1>7. QED BY <1>5, <1>6, Zenon

LEMMA EarlyStep == EarlyInv /\ [Next]_vars => EarlyInv'
<1> SUFFICES ASSUME EarlyInv, [Next]_vars PROVE EarlyInv'
    BY Zenon
<1>1. ASSUME NEW n \in Nested, RuleSetRule(n) PROVE EarlyInv'
    BY <1>1, EarlyRuleSet, Zenon
<1>2. ASSUME NEW n \in Nested, LogicalRule(n) PROVE EarlyInv'
    BY <1>2, EarlyLogical, Zenon
<1>3. CASE Finish
    <2>1. PreMatchDefers' /\ AppliedMatches'
        BY <1>3, EarlyFinishLogical, EarlyFinishDefault, Zenon
    <2>2. rule' = rule /\ seen' = seen /\ states' = states
        BY <1>3, Zenon DEF Finish
    <2>3. QED BY <2>1, <2>2, Zenon DEF EarlyInv, IsLogical, Top, Covered, NoCIDR, Plainly
<1>4. CASE UNCHANGED vars
    <2>1. rule' = rule /\ seen' = seen /\ states' = states /\ matched' = matched /\ stage' = stage
        BY <1>4, Zenon DEF vars
    <2>2. PreMatchDefers' /\ AppliedMatches'
        BY <2>1, Zenon DEF EarlyInv, PreMatchDefers, AppliedMatches, Applied, WithAddressLimit, IsLogical, Top
    <2>3. QED BY <2>1, <2>2, Zenon DEF EarlyInv, IsLogical, Top, Covered, NoCIDR, Plainly
<1>5. QED BY <1>1, <1>2, <1>3, <1>4, Zenon DEF Next

(* For any groups, rules and rule sets: LegacyPreMatch refuses a rule that *)
(* matches in full only for the two reasons PreMatchDefers names.          *)
THEOREM PreMatchCorrect == Spec => []PreMatchDefers
<1>1. EarlyInv => PreMatchDefers
    BY Zenon DEF EarlyInv
<1>2. QED BY <1>1, EarlyInit, EarlyStep, PTL DEF Spec

(* For any groups, rules and rule sets: a rule that answers a query in     *)
(* legacy mode matches it in full, because WithAddressLimit reports every  *)
(* ip_cidr item that LegacyPreMatch ignored; the exception is the one      *)
(* AppliedMatches names.                                                   *)
THEOREM AppliedCorrect == Spec => []AppliedMatches
<1>1. EarlyInv => AppliedMatches
    BY Zenon DEF EarlyInv
<1>2. QED BY <1>1, EarlyInit, EarlyStep, PTL DEF Spec
=============================================================================
