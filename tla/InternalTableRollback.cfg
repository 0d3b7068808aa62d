CONSTANTS
    TableKeys = {k1, k2}
    RowNames = {r1, r2}
    Values = {empty, v1}
    Empty = empty
    NoRow = noRow
SPECIFICATION InternalSpec
SYMMETRY Symm
PROPERTIES
    RollbackRestores
