CONSTANTS
    Handlers = {h1, h2}
    MaxPolls = 3
SPECIFICATION FairGroupsSpec
INVARIANTS
    GroupsTypeOK
    LastValidKept
    ConsistentWithinPoll
PROPERTY RequestsAnswered
