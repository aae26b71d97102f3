SPECIFICATION Spec
CONSTANTS
    h = h
    a1 = a1
    file = file
    x = x
    y = y
    nl = nl
    NL = nl
    Original = file
    Humans <- MCHumans
    Agents <- MCAgents
    Differs <- MCAgents
    BaseText <- MCBase
    Texts <- MCTexts
    MaxCut = 2
    MaxEdits = 3
    MaxGroups = 3
    MaxHunks = 1
    MaxStrokes = 0
    Moves = {"type", "erase", "diff", "decide"}
INVARIANTS ExcludedTextIsGone AgreedTextIsKept AnchoredInOrder
CHECK_DEADLOCK FALSE
