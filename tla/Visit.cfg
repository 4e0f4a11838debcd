SPECIFICATION FairSpec
CONSTANTS
    t1 = t1
    t2 = t2
    Tabs = {t1, t2}
    MaxTrouble = 2
INVARIANTS TypeOK EntryKept DoneIsCompleted
PROPERTIES EndedIsShown LobbyIsResolved
CHECK_DEADLOCK FALSE
