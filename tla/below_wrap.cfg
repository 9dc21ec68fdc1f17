SPECIFICATION Spec
CONSTANTS
    MaxReorgDepth = 4
    MaxHistorySize = 4
    MaxReorgs = 2
    MaxU256 = 3
    A1 = A1
    A2 = A2
    Root = Root
    NumberBytes = 2
    HashBytes = 4
    CountBytes = 1
    AddressBytes = 3
    NoBlock = NoBlock
    Genesis <- EmptyState
    Execute <- ExecuteBlock
    Blocks <- LowTree

INVARIANTS TypeOK Linked RingHoldsChain CrossesUnchanged NothingToSpend
PROPERTY ReorgsAreRecorded
