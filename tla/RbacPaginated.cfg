SPECIFICATION PipelineSpec
CONSTANTS
    Requests = {q1}
    MaxPages = 2
INVARIANT PaginationFollowed
