SPECIFICATION Spec
CONSTANTS
    Keys = {"a", "b"}
    MayDelete = TRUE
    LocalCap = 2
    CreatorCap = 1
    MaxUpdates = 3
    MaxRequests = 1
    MaxSpawned = 4
INVARIANT OneActor
CHECK_DEADLOCK FALSE
