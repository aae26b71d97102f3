SPECIFICATION Spec
CONSTANTS
    x = x
    y = y
    o = o
    p = p
    l1 = l1
    l2 = l2
    Mine <- MCBoth
    Theirs <- MCTheirs
    Unsaved <- MCUnsaved
    Loops <- MCLoops
    Erasable = {}
    MaxUpsets = 0
PROPERTIES UnforwardedIsKept
CHECK_DEADLOCK FALSE
