\* The remote DPU actors after the managed DPU actor has spawned its bridges.
SPECIFICATION FairSpec
CONSTANTS
    V4 = {"a4", "b4"}
    NoPort = 0
    Slot = 0
    Keys = {"dpu0"}
    Mine = "dpu0"
    Ids = {"r1"}
    Addresses = {"a4", "b4", "b6", "c6"}
    Loopbacks = {{"a4"}}
    DpuRows <- Rows
    RemoteRows <- Remotes
    MaxEvents = 1
PROPERTIES RemoteActors
CHECK_DEADLOCK FALSE
