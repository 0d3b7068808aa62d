SPECIFICATION FairSpec
CONSTANTS
    Types = {"activate_role", "brainsplit_recover"}
    Flags = {"activate_role"}
    Roles = {"active"}
    MaxOps = 3
    MaxDpu = 2
    MaxRestarts = 1
    MaxDbErrors = 2
INVARIANTS TypeOK RequestApproved NoPanic
PROPERTIES LeavesListRequested ApprovedLeavesList NewOperationListed
CHECK_DEADLOCK FALSE
