SPECIFICATION Spec
CONSTANTS
    p1 = p1
    v1 = v1
    v2 = v2
    k1 = k1
    Prompts = {p1}
    Values = {v1, v2}
    Clients = {k1}
    MaxSeq = 4
    None = None
SYMMETRY Symmetry
INVARIANTS
    EpochTellsTheTruth
    RequestTellsTheContext
    PromptsAreMessages
    NewestAssistantOnly
PROPERTIES
    NothingIsForgotten
