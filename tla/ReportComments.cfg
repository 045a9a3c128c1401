CONSTANTS
    Rules = {r1, r2}
    InternalRules = {r1}
    MaxSwaps = 1
SPECIFICATION MonitorSpec
INVARIANT SomeReportCommentHolds
