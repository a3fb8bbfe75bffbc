CONSTANTS
    Threads = {t1, t2}
    Handles = {1}
    Adapters = {a1}
    MaxCreates = 2
SPECIFICATION Spec
INVARIANTS
    AdapterOutlivesDecode
