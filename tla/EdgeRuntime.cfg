SPECIFICATION FairSpec
CONSTANTS
    Keys = {"a", "b"}
    MayDelete = TRUE
    LocalCap = 2
    CreatorCap = 1
    MaxUpdates = 3
    MaxRequests = 1
    MaxSpawned = 4
INVARIANTS TypeOK ActorFollowsRow
PROPERTIES Drains
CHECK_DEADLOCK FALSE
