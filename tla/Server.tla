-------------------------------- MODULE Server --------------------------------
(***************************************************************************)
(* The program as cmd/server/main.go wires it around the worker pool: main *)
(* starts the pool and the streamer, waits for a signal, logs the final    *)
(* state and runs the registered shutdown functions in reverse order (MCP  *)
(* server, metrics collector, worker pool, streamer); one goroutine        *)
(* forwards the streamer's blocks to the pool; request handlers of the MCP *)
(* server run load tests.  How the streamer gets its blocks is module      *)
(* Streamer, what becomes of them in the engine is module Pipeline.        *)
(***************************************************************************)
EXTENDS Integers, Sequences, FiniteSets

CONSTANTS
    Workers, Handlers, MaxSubmits,  \* as in module WorkerPool
    Forwarder,                      \* the goroutine that forwards blocks
    LoadTestEnabled                 \* cfg.LoadTestEnabled

ASSUME PoolAssumption ==
    /\ IsFiniteSet(Workers) /\ Cardinality(Workers) \in 1 .. 256
    /\ MaxSubmits \in Nat
ASSUME ForwarderAssumption == Forwarder \notin Handlers
ASSUME LoadTestAssumption == LoadTestEnabled \in BOOLEAN

VARIABLES
    started, blocks, closed, stopped, parked, stuck, worker, ctxDone, stop,
    panicCount, processedBlocks, crashed, submits, accepted, finished,  \* as in WorkerPool
    metrics, test,  \* as in LoadTester
    main,      \* where main is
    streamer   \* "off", "streaming" or "stopped"

\* Start is given context.Background(), which is never cancelled.
Pool == INSTANCE WorkerPool WITH Submitters <- Handlers \cup {Forwarder}, Cancellable <- FALSE
Tester == INSTANCE LoadTester

testing == Tester!Running

poolVars == <<started, blocks, closed, stopped, parked, stuck, worker, ctxDone, stop,
              panicCount, processedBlocks, crashed, submits, accepted, finished>>
testVars == <<metrics, test>>
serverVars == <<testVars, main, streamer>>
vars == <<poolVars, serverVars>>

Exited == main \in {"fatal", "exit0", "exit1"}

Init ==
    /\ Pool!Init
    /\ Tester!Init
    /\ main = "startPool" /\ streamer = "off"
-------------------------------------------------------------------------------
(***************************************************************************)
(* main, up to the signal.  The MCP server is listening from the start.    *)
(***************************************************************************)
StartPool ==
    /\ main = "startPool"
    /\ Pool!Start
    /\ main' = "startStreamer"
    /\ UNCHANGED <<streamer, testVars>>

\* Start returns when connectWithRetry does; load tests need no connection.
StartStreamer ==
    /\ main = "startStreamer"
    /\ \/ streamer' = "streaming" /\ main' = "wait"
       \/ streamer' = "off" /\ main' = IF LoadTestEnabled THEN "wait" ELSE "fatal"
    /\ UNCHANGED <<poolVars, testVars>>

\* WaitForShutdown returns; main reads and logs the state, which changes nothing.
Signal ==
    /\ main = "wait"
    /\ main' = "stopMcp"
    /\ UNCHANGED <<poolVars, streamer, testVars>>

(***************************************************************************)
(* Manager.Shutdown: the functions in turn, up to the first error.         *)
(***************************************************************************)
Proceed(ok, to) == main' = IF ok THEN to ELSE "exit1"

\* Mutants of StopMCP: running handlers are abandoned; they are waited for
\* without a timeout.
StopMCPAtOnce ==
    /\ main = "stopMcp"
    /\ Proceed(TRUE, "stopMetrics")
    /\ UNCHANGED <<poolVars, streamer, testVars>>
StopMCPForever ==
    /\ main = "stopMcp" /\ testing = {}
    /\ Proceed(TRUE, "stopMetrics")
    /\ UNCHANGED <<poolVars, streamer, testVars>>

\* http.Server.Shutdown takes no more requests and waits for the handlers
\* that are running, for 5 seconds.
StopMCP ==
    /\ main = "stopMcp"
    /\ Proceed(testing = {}, "stopMetrics")
    /\ UNCHANGED <<poolVars, streamer, testVars>>

\* A scrape that takes longer than what is left of the 30 seconds is an error.
StopMetrics ==
    /\ main = "stopMetrics"
    /\ \E ok \in BOOLEAN : Proceed(ok, "stopPool")
    /\ UNCHANGED <<poolVars, streamer, testVars>>

\* Mutant of StopPool: the error of a timeout is swallowed.
StopPoolSwallows ==
    /\ main = "stopPool"
    /\ \/ (Pool!CloseStopCh \/ Pool!CloseBlocks) /\ UNCHANGED main
       \/ (Pool!StopGraceful \/ Pool!StopTimeout) /\ Proceed(TRUE, "stopStreamer")
    /\ UNCHANGED <<streamer, testVars>>

StopPool ==
    /\ main = "stopPool"
    /\ \/ (Pool!CloseStopCh \/ Pool!CloseBlocks) /\ UNCHANGED main
       \/ Pool!StopGraceful /\ Proceed(TRUE, "stopStreamer")
       \/ Pool!StopTimeout /\ Proceed(FALSE, "stopStreamer")
    /\ UNCHANGED <<streamer, testVars>>

\* Closing the connection may fail.
StopStreamer ==
    /\ main = "stopStreamer"
    /\ streamer' = "stopped"
    /\ \E ok \in BOOLEAN : Proceed(ok, "exit0")
    /\ UNCHANGED <<poolVars, testVars>>

Main == StartPool \/ StartStreamer \/ StopMCP \/ StopMetrics \/ StopPool \/ StopStreamer
-------------------------------------------------------------------------------
(***************************************************************************)
(* The goroutine that forwards, and load tests.  A panic ends the request  *)
(* it happens in.                                                          *)
(***************************************************************************)
Forward ==
    /\ streamer # "off"
    /\ Pool!Submit(Forwarder)
    /\ UNCHANGED serverVars

Listening == main \in {"startPool", "startStreamer", "wait"}

RunLoadTest(h) ==
    /\ LoadTestEnabled /\ Listening
    /\ Tester!Begin(h)
    /\ UNCHANGED <<poolVars, main, streamer>>

TestSubmits(h) ==
    /\ \/ /\ Pool!SubmitRejected(h) \/ Pool!SubmitSends(h) \/ Pool!SubmitParks(h)
          /\ Tester!Submit(h, submits')
       \/ /\ Pool!SubmitPanics(h)
          /\ Tester!SubmitPanics(h)
    /\ UNCHANGED <<main, streamer>>

SubmitReturns(h) ==
    /\ h \notin Pool!Waiting
    /\ Tester!SubmitReturns(h, test[h].block \in accepted)
    /\ UNCHANGED <<poolVars, main, streamer>>

TestStep(h) ==
    /\ Tester!Internal(h)
    /\ UNCHANGED <<poolVars, main, streamer>>

WorkerStep(w) == Pool!WorkerStep(w) /\ UNCHANGED serverVars

Next ==
    /\ ~crashed /\ ~Exited
    /\ \/ Main
       \/ Signal
       \/ Forward
       \/ \E h \in Handlers :
              RunLoadTest(h) \/ TestSubmits(h) \/ SubmitReturns(h) \/ TestStep(h)
       \/ \E w \in Workers : WorkerStep(w)

Spec == Init /\ [][Next]_vars

(***************************************************************************)
(* Fairness: main and the workers run when they can.  Nothing makes a      *)
(* signal arrive, a block arrive or a load test end.                       *)
(***************************************************************************)
Alive(A) == ~crashed /\ ~Exited /\ A
FairSpec ==
    /\ Spec
    /\ WF_vars(Alive(Main))
    /\ \A w \in Workers : WF_vars(Alive(WorkerStep(w)))
-------------------------------------------------------------------------------
(***************************************************************************)
(* Properties.                                                             *)
(***************************************************************************)
ShuttingDown == main \in {"stopMcp", "stopMetrics", "stopPool", "stopStreamer"}

\* The variables of main and of the handlers have their types.
TypeOK ==
    /\ main \in {"startPool", "startStreamer", "wait", "stopMcp", "stopMetrics",
                 "stopPool", "stopStreamer", "fatal", "exit0", "exit1"}
    /\ streamer \in {"off", "streaming", "stopped"}
    /\ Tester!TypeOK

\* An exit with status 0 loses no block that Submit took, from the streamer
\* or from a load test.
CleanExitDrains == main = "exit0" => accepted = finished

\* Once the MCP server has stopped no load test runs, so that none submits
\* to a pool that is being stopped, whatever the forwarder does.
TestsEndFirst ==
    main \in {"stopMetrics", "stopPool", "stopStreamer", "exit0"} => testing = {}

(***************************************************************************)
(* A load test that no other overlapped reports its own blocks, whether    *)
(* the pool took them at once, later or not at all.                        *)
(***************************************************************************)
AloneReportsOwn == Tester!AloneReportsOwn

(***************************************************************************)
(* The process dies of a panic only while the pool is being stopped: then  *)
(* the forwarder may send to the closed channel.  A panic in ProcessBlock  *)
(* or in a load test never ends it.                                        *)
(***************************************************************************)
CrashOnlyInShutdown == crashed => main \in {"stopPool", "stopStreamer"} /\ stopped

\* A signal is followed by an exit.
SignalEndsProgram == ShuttingDown ~> (Exited \/ crashed)
===============================================================================
