SPECIFICATION FairSpec
CONSTANTS
    Workers = {w1}
    Handlers = {h1, h2}
    Forwarder = Forwarder
    LoadTestEnabled = TRUE
    MaxSubmits = 3
CHECK_DEADLOCK FALSE
INVARIANTS CleanExitDrains TestsEndFirst AloneReportsOwn CrashOnlyInShutdown
PROPERTY SignalEndsProgram
