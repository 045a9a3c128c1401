CONSTANTS
    Rules = {r1, r2}
    InternalRules = {r1}
    MaxSwaps = 2
SPECIFICATION Spec
INVARIANTS
    ShownRulesExact
    CountBounded
    OneResponse
