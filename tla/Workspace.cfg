SPECIFICATION FairSpec
CONSTANTS
    p = p
    Shared = Shared
    Participants = {p}
    Edited <- EntryAndGroup
    MaxTrouble = 1
INVARIANTS TypeOK RecordMatchesPad StopSparesText EntryFirst
PROPERTIES EveryPadCaptured Drains LockEnds
