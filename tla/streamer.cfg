SPECIFICATION FairSpec
CONSTANTS
    MaxAttempts = 2
    Cap = 1
    MaxHeads = 3
CHECK_DEADLOCK FALSE
INVARIANTS TypeOK DeliveredInOrder BodyFitsHead ClosedOnlyByStop
PROPERTIES ImplementsBlockSource Reconnects StopEndsStream
