SPECIFICATION Spec
CONSTANTS
    h = h
    a1 = a1
    file = file
    x = x
    y = y
    nl = nl
    NL = nl
    Original = file
    Humans <- MCHumans
    Agents <- MCAgents
    Differs <- MCDiffers
    BaseText <- MCBase
    Texts <- MCTexts
    MaxCut = 2
    MaxEdits = 2
    MaxGroups = 4
    MaxHunks = 2
    MaxStrokes = 0
    Moves = {"type", "erase", "diff", "decide", "clear", "revert", "save", "restart"}
INVARIANTS OneAuthorPerSet ProposedByAgents
PROPERTIES SaveWritesWhatWasShown ClearKeepsAgreedText TypingRespectsLeases RestartIsInvisible
CHECK_DEADLOCK FALSE
