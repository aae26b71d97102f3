SPECIFICATION Spec
CONSTANTS
    user = user
    agent = agent
    None = None
    MaxMarks = 3
    MaxRecords = 8
    MaxStops = 1
    MaxCuts = 0
    MaxTears = 0
PROPERTIES SaveAsksFirst
CHECK_DEADLOCK FALSE
