\* The list of pending operations across a restart of hamgrd.
SPECIFICATION Spec
CONSTANTS
    Types = {"activate_role", "brainsplit_recover"}
    Flags = {"activate_role"}
    Roles = {"active"}
    MaxOps = 3
    MaxDpu = 2
    MaxRestarts = 1
    MaxDbErrors = 0
PROPERTIES NotifiedOnce
CHECK_DEADLOCK FALSE
