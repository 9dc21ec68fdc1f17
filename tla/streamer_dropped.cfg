SPECIFICATION Spec
CONSTANTS
    MaxAttempts = 2
    Cap = 1
    MaxHeads = 3
CHECK_DEADLOCK FALSE
INVARIANT NoAnnouncementDropped
