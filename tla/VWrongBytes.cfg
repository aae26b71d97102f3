SPECIFICATION Spec
CONSTANTS
    h = h
    a1 = a1
    file = file
    x = x
    y = y
    nl = nl
    NL = nl
    Original = file
    Humans <- MCHumans
    Agents <- MCAgents
    Differs <- MCAgents
    BaseText <- MCBase
    Texts <- MCTexts
    MaxCut = 2
    MaxEdits = 2
    MaxGroups = 6
    MaxHunks = 1
    MaxStrokes = 0
    Moves = {"erase", "undo", "redo", "diff", "decide", "revert"}
INVARIANTS RecordsWhatItRemoves
CHECK_DEADLOCK FALSE
