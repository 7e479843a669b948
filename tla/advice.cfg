SPECIFICATION AdviceSpec
CONSTANTS
    Addresses = {seller, peer}
    Objectives = {service, stranded}
    Ttl = 1
    QwenTtl = 1
    MaxAsks = 2
    LastTick = 4
INVARIANTS
    NothingTooOld
    PanelShowsItsAddress
PROPERTIES
    EveryQuestionEnds
CHECK_DEADLOCK FALSE
