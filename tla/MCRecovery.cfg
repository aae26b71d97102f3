SPECIFICATION Spec
CONSTANTS
    user = user
    agent = agent
    None = None
    MaxMarks = 3
    MaxRecords = 7
    MaxStops = 1
    MaxCuts = 1
    MaxTears = 0
INVARIANTS LogReplaysTheBuffer AgreedIsApproved
CHECK_DEADLOCK FALSE
