\* The DPU network of one NPU followed by hamgrd, through exits and changes.
SPECIFICATION FairSpec
CONSTANTS
    V4 = {"a4", "b4"}
    NoPort = 0
    Slot = 0
    Keys = {"dpu0", "dpu1"}
    Mine = "dpu0"
    Ids = {"r1"}
    Addresses = {"a4", "a6", "b4", "b6", "c6"}
    Loopbacks = {{"a4", "a6"}, {"a6"}}
    DpuRows <- Rows
    RemoteRows <- Remotes
    MaxEvents = 2
INVARIANTS TypeOK SessionsCurrent PeersMutual
PROPERTIES EventuallyMonitored
CHECK_DEADLOCK FALSE
