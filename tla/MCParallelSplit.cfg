CONSTANTS
    Threads = {t1, t2}
    Groups <- SomeGroups
    MaxTasks = {2}
    HardMaxTasks = 4
    Align = 2
    K = 2
    MinWork = 2
    MaxInvocations = 2
    None = None
SPECIFICATION Spec
SYMMETRY Symmetry
INVARIANTS
    RowsOnce
    BindingsKept
PROPERTY OkIsExactlyOnce
