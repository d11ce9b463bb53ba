CONSTANTS
    Groups <- MCGroups
    Outer <- MCOuter
    Nested <- MCNested
    MaxNested = 2
SPECIFICATION Spec
INVARIANTS
    PreMatchDefers
    RuleMatches
    
CHECK_DEADLOCK FALSE
