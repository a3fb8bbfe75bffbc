CONSTANTS
    Vocab = 2
    Schema <- SomeSchema
    NumLayers = 2
    Limit = 6
    PageRows = 2
    MaxRows = 3
    MaxDraft = 4
    Pick <- SomePick
SPECIFICATION Spec
INVARIANTS
    RowsAgree
    PagesFit
PROPERTIES
    DraftRowsRestored
    OneRowAtATime
