CONSTANTS
    Vocab = 2
    Schema <- SomeSchema
    NumLayers = 2
    Limit = 4
    PageRows = 2
    MaxRows = 2
    MaxDraft = 2
    Pick <- SomePick
SPECIFICATION Spec
PROPERTY JumpRestsAtDepth
