SPECIFICATION FairSpec
CONSTANTS
    Setups <- AllSetups
    Blocks <- AllBlocks
    w1 = w1
    w2 = w2
    w3 = w3
    MaxReorgs = 5
    MaxReorgDepth = 3
    MaxHistorySize = 3
    MaxU256 = 3
    Genesis <- EmptyState
    Execute <- ExecuteBlock
    NoBlock = NoBlock
    A1 = A1
    A2 = A2
    Root = Root
CHECK_DEADLOCK FALSE
INVARIANTS TypeOK Mirror HistoryShape StateIsReplay LinkedWhenAlone
PROPERTIES ImplementsReorgEngine RootNotAhead EverythingProcessed
