SPECIFICATION Spec
CONSTANTS
    d1 = d1
    d2 = d2
    v1 = v1
    v2 = v2
    Dpus = {d1, d2}
    Managed = d1
    VDpus = {v1, v2}
    Mains <- SecondMoves
    SetIds <- OneOrder
    Preferred <- SecondFirst
    MaxChanges = 1
    MayDelete = TRUE
INVARIANTS
    TypeOK
    Consistent
    DeletedUnregistered
CHECK_DEADLOCK FALSE
