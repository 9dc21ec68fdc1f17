SPECIFICATION Spec
CONSTANTS
    MaxReorgDepth = 3
    MaxHistorySize = 3
    MaxReorgs = 3
    MaxU256 = 3
    A1 = A1
    A2 = A2
    Root = Root
    NumberBytes = 2
    HashBytes = 4
    CountBytes = 1
    AddressBytes = 3
    NoBlock = NoBlock
    Genesis <- EmptyState
    Execute <- ExecuteBlock
    Blocks <- HighTree

INVARIANTS Mirror HistoryShape StateIsReplay RootIsReplay
