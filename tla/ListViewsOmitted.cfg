CONSTANTS
    Rules = {r1, r2}
    InternalRules = {}
    Clusters = {c1}
    MaxSwaps = 1
SPECIFICATION Spec
INVARIANT MissingContentOmitted
