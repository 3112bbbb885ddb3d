SPECIFICATION Spec
CONSTANTS
    Workers = 1
    MaxPerUpdate = 1
    ExpireUpdates = 1
    MaxSent = 7
    MaxProgress = 1
INVARIANTS
    TypeOK
    ArrivalOrder
    OneCharacter
    LoadsWhatWasSaved
PROPERTY NothingIsStuck
CHECK_DEADLOCK TRUE
