SPECIFICATION FairSpec
CONSTANTS
    Requests = {loader, socket, other}
    Observed = {loader}
    Vetted = {loader, socket}
    MaxBlocks = 2
INVARIANTS
    ChainInv
    ClearedBeforeProceeding
    VetoStands
PROPERTIES
    OneAnswerPerBlock
    EveryResponseProceeds
CHECK_DEADLOCK FALSE
