SPECIFICATION Spec
CONSTANTS
    Null = Null
    Columns = {"a", "b"}
    Values = {0, 1}
    MaxParts = 2
    Lengths = {0, 1, 2, 3, 4}
    Keys = {0, 1, 2}
    PageSizes = {0, 1, 2, 3}
    Pages = 2
    Times = {0, 1, 2, 3, 4, 5, 6}
    Widths = {1, 2, 3}
    Names = {"orders", "users"}
    PoolSizes = {0, 1, 2, 3}
    Absent = Absent
    DefaultMax = 2
INVARIANTS
    ViewKeepsWhatFiltersMean
    PagesTile
    WindowsTile
    AcceptedIsBuilt
CHECK_DEADLOCK FALSE
