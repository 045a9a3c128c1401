CONSTANTS
    Clients = {c1, c2}
    Justifications = {j1, j2}
    NoAck = NoAck
    RequestIDs = {i1, i2}
    Rules = {r1, r2}
    MaxBody = 2
    MaxScans = 3
    MaxChanges = 2
    Requests = {q1, q2}
    MaxPages = 2
SPECIFICATION AllSpec
INVARIANTS
    AcksTypeOK
    ReplyExplained
    StatusTellsEffect
    HandlersKnow
    TypeOK
    StoredRequestsListed
    PostAnswersEachID
    ReportMatchesUserData
    FailureDecidesStatus
    PipelineTypeOK
    ForwardedOnlyIfAllowed
    AnsweredUnlessInfoPanics
