SPECIFICATION FairSpec
CONSTANTS
    c1 = c1
    c2 = c2
    k1 = k1
    none = none
    NoCall = none
    Calls <- MCCalls
    Watchers <- MCWatchers
    RevealHistory = 1
    MaxChanges = 2
    MaxFaults = 1
INVARIANTS NoLostWakeup ViewCoversGen KeptRevealsArrive
PROPERTIES QueueKeepsPromise ChangeReachesEveryone EveryCallReturns
CHECK_DEADLOCK FALSE
