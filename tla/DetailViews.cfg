CONSTANTS
    Rules = {r1, r2}
    InternalRules = {r2}
    Clusters = {c1, c2}
    ManagedClusters = {c2}
    MaxSwaps = 1
SPECIFICATION Spec
INVARIANTS
    DetailListsExact
    CountedHitsExact
    ContentSent
    FailuresAnswered
