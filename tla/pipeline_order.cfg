SPECIFICATION Spec
CONSTANTS
    Setups <- InOrder
    Blocks <- Siblings
    w1 = w1
    w2 = w2
    w3 = w3
    MaxReorgs = 5
    MaxReorgDepth = 4
    MaxHistorySize = 4
    MaxU256 = 3
    Genesis <- EmptyState
    Execute <- ExecuteBlock
    NoBlock = NoBlock
    A1 = A1
    A2 = A2
    Root = Root
CHECK_DEADLOCK FALSE
INVARIANT AppliedInOrder
