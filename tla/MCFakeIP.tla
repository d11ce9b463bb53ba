------------------------------ MODULE MCFakeIP ------------------------------
(* Instances of FakeIP: a configuration with both families and one with    *)
(* IPv4 only, in ranges of two and of one usable addresses.                *)
EXTENDS FakeIP, TLC

CONSTANTS x, y, z, p, q

Span(first, last) == [first |-> first, last |-> last]
MCConfigs == {[f \in Families |-> IF f = "4" THEN Span(1, 5) ELSE Span(20, 23)],
              [f \in Families |-> IF f = "4" THEN Span(10, 14) ELSE Span(1, 0)]}
MCDomains == {x, y, z}
MCCallers == {p, q}
Symmetry == Permutations(MCDomains) \cup Permutations(MCCallers)
=============================================================================
