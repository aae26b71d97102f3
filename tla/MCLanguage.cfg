SPECIFICATION FairSpec
CONSTANTS
    a = a
    b = b
    Texts <- MCTexts
    Opened <- MCOpened
    MaxRestarts = 2
    MaxAsks = 2
    MaxSaves = 2
    MaxVersion = 1
    MaxUpsets = 1
INVARIANTS AnswersFit SavesAreAnsweredOnce
PROPERTIES LateSaveRespectsTheUser LoneSaveSettles ServerCatchesUp
