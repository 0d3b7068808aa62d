\* The message tables of two actors, the internal table and the table bridge.
SPECIFICATION MCSpec
CONSTANTS
    Keys = {a, b}
    DropTime = 2
    MaxId = 2
    MaxInFlight = 2
    MaxFaults = 1
    TableKeys = {k1, k2}
    RowNames = {r1, r2}
    Values = {empty, v1}
    Empty = empty
    NoRow = noRow
    Bridges = {"b", "c"}
    RowKeys = {"k", "l"}
    Fields = {"f", "g"}
    MaxChanges = 3
INVARIANTS
    TypeOK
    UnackedHasSent
    InternalTypeOK
    NoDirtyWrite
    BridgeTypeOK
    ViewCurrent
PROPERTIES
    AckSticky
    RegressionNeedsResend
    Settles
    DeliversAtLeastOnce
    RewrittenRestored
    CommitComplete
CHECK_DEADLOCK FALSE
