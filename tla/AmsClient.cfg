SPECIFICATION Spec
CONSTANTS
    Clusters = {c1, c2}
    ConfPageSize = 0
    DefaultPageSize = 2
    MaxMatches = 3
    MaxChanges = 2
INVARIANTS TypeOK ListingExact AnsweredAboutOwnCluster
PROPERTY ListingEnds
