SPECIFICATION FairSpec
CONSTANTS
    x = x
    y = y
    o = o
    p = p
    l1 = l1
    l2 = l2
    Mine <- MCMine
    Theirs <- MCTheirs
    Unsaved <- MCUnsaved
    Loops <- MCLoops
    Erasable <- MCErasable
    MaxUpsets = 2
INVARIANTS TypeOK ForwardsOnlyOwnEdits
PROPERTIES ReaderConverges NoticedEditsSettle NeverStuckBusy
CHECK_DEADLOCK FALSE
