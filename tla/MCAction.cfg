SPECIFICATION Spec
CONSTANTS
    h = h
    a1 = a1
    file = file
    x = x
    y = y
    nl = nl
    NL = nl
    Original = file
    Humans <- MCHumans
    Agents <- MCAgents
    Differs <- MCAgents
    BaseText <- MCBase
    Texts <- MCTexts
    MaxCut = 2
    MaxEdits = 3
    MaxGroups = 5
    MaxHunks = 1
    MaxStrokes = 2
    Moves = {"type", "erase", "paste", "action", "undo", "redo", "diff"}
INVARIANTS CanTakeBack
PROPERTIES AllOrNothing
CHECK_DEADLOCK FALSE
