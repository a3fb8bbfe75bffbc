CONSTANTS
    s1 = s1
    s2 = s2
    Seqs = {s1, s2}
    Full = {s1}
    Batches <- SomeBatches
    Vocab = 2
    Schema <- SomeSchema
    NumLayers = 2
    ContextCap = 4
    Budget <- SomeBudget
    Orders = {1, 2}
    MaxChunk = 2
    PrefixMax = 1
    Argmax <- SomeArgmax
SPECIFICATION Spec
INVARIANTS
    TextIsTold
    WalkIsOfContent
    HistoryFits
PROPERTY JumpIsDecode
