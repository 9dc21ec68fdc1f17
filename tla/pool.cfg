SPECIFICATION FairSpec
CONSTANTS
    Workers = {w1, w2}
    Submitters = {forwarder, tester}
    Handlers = {tester}
    Cancellable = TRUE
    MaxSubmits = 5
CHECK_DEADLOCK FALSE
INVARIANTS TypeOK WaitsOnlyWhenFull NothingLost DrainedWhenGraceful
PROPERTIES AcceptedIsFinished StopReturns SubmitReturns
