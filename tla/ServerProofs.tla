----------------------------- MODULE ServerProofs -----------------------------
(***************************************************************************)
(* Theorems about Server: what the pool promises it promises in the        *)
(* program too, the order of the shutdown keeps load tests out of a pool   *)
(* that is being stopped, and a load test that was alone reports its own   *)
(* blocks; for any numbers of workers, handlers and blocks.                *)
(***************************************************************************)
EXTENDS Server, TLAPS

\* The pool as in Server, with what is proved about it.
PP == INSTANCE WorkerPoolProofs WITH Submitters <- Handlers \cup {Forwarder}, Cancellable <- FALSE

\* What the pool assumes of its constants, Server does.
LEMMA PoolConstants ==
    PP!WorkersAssumption /\ PP!SubmittersAssumption /\ PP!CancelAssumption /\ PP!SubmitsAssumption
<1>1. PP!WorkersAssumption
  BY PoolAssumption DEF IsFiniteSet, PP!IsFiniteSet, Cardinality, PP!Cardinality
<1>2. PP!SubmittersAssumption /\ PP!CancelAssumption
  OBVIOUS
<1>3. PP!SubmitsAssumption
  BY PoolAssumption
<1> QED
  BY <1>1, <1>2, <1>3
-------------------------------------------------------------------------------
(***************************************************************************)
(* Every step of the program is one of the pool, or leaves it alone.       *)
(***************************************************************************)
LEMMA SameCap == Pool!Cap = PP!Cap
BY DEF Pool!Cap, PP!Cap, Pool!Cardinality, PP!Cardinality, Pool!IsFiniteSet, PP!IsFiniteSet

LEMMA SubmitIsPools ==
    ASSUME NEW s
    PROVE  /\ Pool!Call(s) <=> PP!Call(s)
           /\ Pool!SubmitRejected(s) <=> PP!SubmitRejected(s)
           /\ Pool!SubmitSends(s) <=> PP!SubmitSends(s)
           /\ Pool!SubmitPanics(s) <=> PP!SubmitPanics(s)
           /\ Pool!SubmitParks(s) <=> PP!SubmitParks(s)
           /\ Pool!Submit(s) <=> PP!Submit(s)
<1>1. Pool!Call(s) <=> PP!Call(s)
  BY Zenon DEF Pool!Call, PP!Call, Pool!workerVars, PP!workerVars, Pool!Waiting, PP!Waiting
<1>2. Pool!SubmitRejected(s) <=> PP!SubmitRejected(s)
  BY <1>1, Zenon DEF Pool!SubmitRejected, PP!SubmitRejected
<1>3. Pool!SubmitSends(s) <=> PP!SubmitSends(s)
  BY <1>1, SameCap, Zenon DEF Pool!SubmitSends, PP!SubmitSends
<1>4. Pool!SubmitPanics(s) <=> PP!SubmitPanics(s)
  BY <1>1, Zenon DEF Pool!SubmitPanics, PP!SubmitPanics
<1>5. Pool!SubmitParks(s) <=> PP!SubmitParks(s)
  BY <1>1, SameCap, Zenon DEF Pool!SubmitParks, PP!SubmitParks
<1> QED
  BY <1>1, <1>2, <1>3, <1>4, <1>5 DEF Pool!Submit, PP!Submit

LEMMA WorkerIsPools ==
    ASSUME NEW w
    PROVE  Pool!WorkerStep(w) <=> PP!WorkerStep(w)
<1> USE DEF Pool!At, PP!At, Pool!Holds, PP!Holds, Pool!chanVars, PP!chanVars
<1>1. Pool!WorkerStarts(w) <=> PP!WorkerStarts(w)
  BY Zenon DEF Pool!WorkerStarts, PP!WorkerStarts
<1>2. Pool!Receive(w) <=> PP!Receive(w)
  BY Zenon DEF Pool!Receive, PP!Receive
<1>3. Pool!CheckContext(w) <=> PP!CheckContext(w)
  BY Zenon DEF Pool!CheckContext, PP!CheckContext
<1>4. Pool!Process(w) <=> PP!Process(w)
  BY Zenon DEF Pool!Process, PP!Process
<1>5. Pool!WorkerLeaves(w) <=> PP!WorkerLeaves(w)
  BY Zenon DEF Pool!WorkerLeaves, PP!WorkerLeaves
<1> QED
  BY <1>1, <1>2, <1>3, <1>4, <1>5 DEF Pool!WorkerStep, PP!WorkerStep

LEMMA ControlIsPools ==
    /\ Pool!Init <=> PP!Init
    /\ Pool!Start <=> PP!Start
    /\ Pool!CloseStopCh <=> PP!CloseStopCh
    /\ Pool!CloseBlocks <=> PP!CloseBlocks
    /\ Pool!StopGraceful <=> PP!StopGraceful
    /\ Pool!StopTimeout <=> PP!StopTimeout
<1> USE DEF Pool!At, PP!At, Pool!chanVars, PP!chanVars, Pool!workerVars, PP!workerVars
<1>1. Pool!Init <=> PP!Init
  BY Zenon DEF Pool!Init, PP!Init
<1>2. Pool!Start <=> PP!Start
  BY Zenon DEF Pool!Start, PP!Start
<1>3. Pool!CloseStopCh <=> PP!CloseStopCh
  BY Zenon DEF Pool!CloseStopCh, PP!CloseStopCh
<1>4. Pool!CloseBlocks <=> PP!CloseBlocks
  BY Zenon DEF Pool!CloseBlocks, PP!CloseBlocks
<1>5. Pool!StopGraceful <=> PP!StopGraceful
  BY Zenon DEF Pool!StopGraceful, PP!StopGraceful, Pool!AllGone, PP!AllGone
<1>6. Pool!StopTimeout <=> PP!StopTimeout
  BY Zenon DEF Pool!StopTimeout, PP!StopTimeout
<1> QED
  BY <1>1, <1>2, <1>3, <1>4, <1>5, <1>6

\* The pool's counter and channels as Server's list of the pool's variables.
LEMMA SamePoolVars == UNCHANGED poolVars => UNCHANGED PP!vars
BY DEF poolVars, PP!vars, PP!chanVars, PP!workerVars

LEMMA StepIsPools == [Next]_vars => [PP!Next]_PP!vars
<1> SUFFICES ASSUME [Next]_vars PROVE PP!Next \/ UNCHANGED PP!vars
  OBVIOUS
<1>1. CASE UNCHANGED vars \/ UNCHANGED poolVars
  BY <1>1, SamePoolVars DEF vars
<1>2. ASSUME ~crashed,
             \/ PP!Start \/ PP!StopStep
             \/ \E s \in Handlers \cup {Forwarder} : PP!Submit(s)
             \/ \E w \in Workers : PP!WorkerStep(w)
      PROVE  PP!Next
  BY <1>2 DEF PP!Next
<1>3. CASE Main /\ ~crashed
  <2>1. CASE StartPool
    BY <1>2, <1>3, <2>1, ControlIsPools DEF StartPool
  <2>2. CASE StopPool
    BY <1>2, <1>3, <2>2, ControlIsPools DEF StopPool, PP!StopStep
  <2> QED
    BY <1>1, <1>3, <2>1, <2>2 DEF Main, StartStreamer, StopMCP, StopMetrics, StopStreamer
<1>4. CASE Signal
  BY <1>1, <1>4 DEF Signal
<1>5. CASE Forward /\ ~crashed
  BY <1>2, <1>5, SubmitIsPools DEF Forward
<1>6. ASSUME NEW h \in Handlers, RunLoadTest(h) \/ SubmitReturns(h) \/ TestStep(h)
      PROVE  UNCHANGED poolVars
  BY <1>6 DEF RunLoadTest, SubmitReturns, TestStep
<1>7. ASSUME NEW h \in Handlers, TestSubmits(h), ~crashed PROVE PP!Next
  <2>1. PP!Submit(h)
    BY <1>7, SubmitIsPools DEF TestSubmits, PP!Submit
  <2> QED
    BY <1>2, <1>7, <2>1
<1>8. ASSUME NEW w \in Workers, WorkerStep(w), ~crashed PROVE PP!Next
  BY <1>2, <1>8, WorkerIsPools DEF WorkerStep
<1> QED
  BY <1>1, <1>3, <1>4, <1>5, <1>6, <1>7, <1>8 DEF Next

(***************************************************************************)
(* The program uses the pool as module WorkerPool says it may be used:     *)
(* what holds of the pool on its own holds of it in the program.           *)
(***************************************************************************)
THEOREM ServerRunsPool == Spec => PP!Spec
<1>1. Init => PP!Init
  BY ControlIsPools DEF Init
<1> QED
  BY <1>1, StepIsPools, PTL DEF Spec, PP!Spec

LEMMA ServerPoolInv == Spec => []PP!PoolInv
<1>1. PP!Init => PP!PoolInv
  BY PoolConstants, PP!InitPool
<1>2. PP!PoolInv /\ [PP!Next]_PP!vars => PP!PoolInv'
  BY PoolConstants, PP!NextPool
<1> QED
  BY <1>1, <1>2, ServerRunsPool, PTL DEF PP!Spec
-------------------------------------------------------------------------------
(***************************************************************************)
(* The inductive invariant.                                                *)
(***************************************************************************)
MetricsType == [latencies : Nat, stopped : BOOLEAN]
TestType == [pc : {"idle", "loop", "submit", "report", "return"}, block : Int,
             blocksProcessed : Int, result : MetricsType, overlapped : BOOLEAN]
TestsOK == test \in [Handlers -> TestType] /\ metrics \in MetricsType

\* A test that has met no other is the only one, and the metrics are its own.
Own(t, m) ==
    /\ t.pc \in {"loop", "submit"} => m.latencies = t.blocksProcessed /\ ~m.stopped
    /\ t.pc = "report" => m.latencies = t.blocksProcessed /\ m.stopped
    /\ t.pc = "return" => t.result.latencies = t.blocksProcessed /\ t.result.stopped
AloneOwns ==
    \A h \in Handlers : test[h].pc # "idle" /\ ~test[h].overlapped =>
        /\ \A g \in Handlers : test[g].pc # "idle" => g = h
        /\ Own(test[h], metrics)

\* How far the pool is stopped shows where main is.
MainOK ==
    /\ main \in {"startPool", "startStreamer", "wait", "stopMcp", "stopMetrics",
                 "stopPool", "stopStreamer", "fatal", "exit0", "exit1"}
    /\ streamer \in {"off", "streaming", "stopped"}
    /\ stop # "notCalled" => main \in {"stopPool", "stopStreamer", "exit0", "exit1"}
    /\ main \in {"stopStreamer", "exit0"} => stop = "graceful"
    /\ ~ctxDone

ServerInv == TestsOK /\ AloneOwns /\ MainOK /\ TestsEndFirst /\ CrashOnlyInShutdown

LEMMA ServerInvImplies ==
    ServerInv /\ PP!PoolInv =>
        TypeOK /\ CleanExitDrains /\ TestsEndFirst /\ AloneReportsOwn /\ CrashOnlyInShutdown
<1> SUFFICES ASSUME ServerInv, PP!PoolInv
             PROVE  TypeOK /\ CleanExitDrains /\ AloneReportsOwn
  BY DEF ServerInv
<1>1. TypeOK
  <2>1. metrics.stopped \in BOOLEAN
    BY Zenon DEF ServerInv, TestsOK, MetricsType
  <2>2. \A h \in Handlers : test[h].pc \in {"idle", "loop", "submit", "report", "return"}
    BY DEF ServerInv, TestsOK, TestType
  <2> QED
    BY <2>1, <2>2, Zenon DEF ServerInv, MainOK, TypeOK, Tester!TypeOK
<1>2. CleanExitDrains
  <2>1. PP!DrainedWhenGraceful
    BY PoolConstants, PP!PoolInvImplies
  <2> QED
    BY <2>1 DEF ServerInv, MainOK, CleanExitDrains, PP!DrainedWhenGraceful
<1>3. AloneReportsOwn
  <2>1. ASSUME NEW h \in Handlers, test[h].pc = "return", ~test[h].overlapped
        PROVE  test[h].result = [latencies |-> test[h].blocksProcessed, stopped |-> TRUE]
    <3>1. test[h].result \in MetricsType
      BY DEF ServerInv, TestsOK, TestType
    <3>2. test[h].result.latencies = test[h].blocksProcessed /\ test[h].result.stopped
      BY <2>1 DEF ServerInv, AloneOwns, Own
    <3> QED
      BY <3>1, <3>2 DEF MetricsType
  <2> QED
    BY <2>1 DEF AloneReportsOwn, Tester!AloneReportsOwn
<1> QED
  BY <1>1, <1>2, <1>3

LEMMA InitServer == Init => ServerInv
<1> SUFFICES ASSUME Init PROVE ServerInv
  OBVIOUS
<1>1. /\ main = "startPool" /\ streamer = "off" /\ stop = "notCalled"
      /\ metrics = Tester!NewLoadTestMetrics /\ test = [h \in Handlers |-> Tester!NoTest]
  BY DEF Init, Pool!Init, Tester!Init
<1>2. ~ctxDone /\ ~crashed
  BY Zenon DEF Init, Pool!Init
<1>3. TestsOK
  BY <1>1 DEF TestsOK, TestType, MetricsType, Tester!NoTest, Tester!NewLoadTestMetrics
<1>4. AloneOwns
  BY <1>1 DEF AloneOwns, Tester!NoTest
<1> QED
  BY <1>1, <1>2, <1>3, <1>4 DEF ServerInv, MainOK, TestsEndFirst, CrashOnlyInShutdown
-------------------------------------------------------------------------------
(***************************************************************************)
(* Load tests.                                                             *)
(***************************************************************************)
\* A test begins: it and all that are under way now overlap, unless there is none.
LEMMA TestBegins ==
    ASSUME TestsOK, AloneOwns, NEW h \in Handlers, Tester!Begin(h)
    PROVE  TestsOK' /\ AloneOwns'
<1> DEFINE met == Tester!Running # {}
           begun == [Tester!NoTest EXCEPT !.pc = "loop", !.overlapped = met]
<1>1. /\ metrics' = [latencies |-> 0, stopped |-> FALSE]
      /\ test' = [g \in Handlers |->
                     IF g = h THEN begun
                     ELSE IF g \in Tester!Running THEN [test[g] EXCEPT !.overlapped = TRUE]
                     ELSE test[g]]
  BY DEF Tester!Begin, Tester!Begins, Tester!NewLoadTestMetrics
<1>2. /\ begun.pc = "loop" /\ begun.block = 0 /\ begun.blocksProcessed = 0
      /\ begun.result = Tester!NewLoadTestMetrics
      /\ begun.overlapped = met
      /\ begun \in TestType
  <2>1. met \in BOOLEAN
    OBVIOUS
  <2>2. Tester!NewLoadTestMetrics \in MetricsType
    BY DEF Tester!NewLoadTestMetrics, MetricsType
  <2> HIDE DEF met
  <2>3. /\ Tester!NoTest \in TestType
        /\ Tester!NoTest.block = 0 /\ Tester!NoTest.blocksProcessed = 0
        /\ Tester!NoTest.result = Tester!NewLoadTestMetrics
    BY <2>2 DEF Tester!NoTest, TestType
  <2>4. begun \in TestType /\ begun.overlapped = met
    BY <2>1, <2>3 DEF TestType
  <2>5. /\ begun.pc = "loop" /\ begun.block = Tester!NoTest.block
        /\ begun.blocksProcessed = Tester!NoTest.blocksProcessed
        /\ begun.result = Tester!NoTest.result
    BY <2>3 DEF TestType
  <2> QED
    BY <2>3, <2>4, <2>5
<1>3. \A g \in Handlers : test[g] \in TestType
                          /\ [test[g] EXCEPT !.overlapped = TRUE] \in TestType
                          /\ [test[g] EXCEPT !.overlapped = TRUE].overlapped
                          /\ [test[g] EXCEPT !.overlapped = TRUE].pc = test[g].pc
  BY DEF TestsOK, TestType
<1> HIDE DEF begun
<1>4. TestsOK'
  BY <1>1, <1>2, <1>3 DEF TestsOK, MetricsType
<1>5. ASSUME NEW g \in Handlers, test'[g].pc # "idle", ~test'[g].overlapped
      PROVE  g = h /\ Tester!Running = {}
  BY <1>1, <1>2, <1>3, <1>5 DEF Tester!Running
<1>6. ASSUME Tester!Running = {}, NEW g \in Handlers, test'[g].pc # "idle" PROVE g = h
  BY <1>1, <1>6 DEF Tester!Running
<1>7. test'[h].blocksProcessed = 0 /\ test'[h].pc = "loop"
  BY <1>1, <1>2
<1>8. AloneOwns'
  BY <1>1, <1>5, <1>6, <1>7 DEF AloneOwns, Own
<1> QED
  BY <1>4, <1>8

\* The call of one handler goes on or ends, and so does no other.
LEMMA TestMoves ==
    ASSUME TestsOK, AloneOwns, NEW h \in Handlers, test[h].pc # "idle",
           NEW t \in TestType, test' = [test EXCEPT ![h] = t], metrics' \in MetricsType,
           t.pc # "idle" /\ ~t.overlapped =>
               ~test[h].overlapped /\ (Own(test[h], metrics) => Own(t, metrics'))
    PROVE  TestsOK' /\ AloneOwns' /\ Tester!Running' \subseteq Tester!Running
<1>1. TestsOK' /\ test'[h] = t /\ \A g \in Handlers : g # h => test'[g] = test[g]
  BY DEF TestsOK
<1>2. Tester!Running' \subseteq Tester!Running
  BY <1>1 DEF Tester!Running
<1>3. ASSUME NEW g \in Handlers, test'[g].pc # "idle", ~test'[g].overlapped
      PROVE  g = h /\ ~test[h].overlapped
  BY <1>1, <1>3 DEF AloneOwns
<1>4. AloneOwns'
  BY <1>1, <1>3 DEF AloneOwns
<1> QED
  BY <1>1, <1>2, <1>4

LEMMA NoTestType == Tester!NoTest \in TestType /\ Tester!NoTest.pc = "idle"
BY DEF Tester!NoTest, Tester!NewLoadTestMetrics, TestType, MetricsType

LEMMA TestEnds ==
    ASSUME TestsOK, AloneOwns, NEW h \in Handlers,
           Tester!SubmitPanics(h) \/ Tester!TimesOut(h) \/ Tester!Return(h)
    PROVE  TestsOK' /\ AloneOwns' /\ Tester!Running' \subseteq Tester!Running
<1>1. test[h].pc # "idle" /\ test' = [test EXCEPT ![h] = Tester!NoTest] /\ UNCHANGED metrics
  BY DEF Tester!SubmitPanics, Tester!TimesOut, Tester!Return
<1>2. metrics' \in MetricsType
  BY <1>1 DEF TestsOK
<1> QED
  BY <1>1, <1>2, NoTestType, TestMoves

LEMMA TestGoesOn ==
    ASSUME TestsOK, AloneOwns, NEW h \in Handlers,
           \/ \E n \in Int : Tester!Submit(h, n)
           \/ \E ok \in BOOLEAN : Tester!SubmitReturns(h, ok)
           \/ Tester!Stop(h) \/ Tester!Report(h)
    PROVE  TestsOK' /\ AloneOwns' /\ Tester!Running' \subseteq Tester!Running
<1>0. test[h] \in TestType /\ metrics \in MetricsType /\ test \in [Handlers -> TestType]
  BY DEF TestsOK
<1>1. ASSUME NEW n \in Int, Tester!Submit(h, n)
      PROVE  TestsOK' /\ AloneOwns' /\ Tester!Running' \subseteq Tester!Running
  <2> DEFINE t == [test[h] EXCEPT !.pc = "submit", !.block = n]
  <2>1. test[h].pc = "loop" /\ test' = [test EXCEPT ![h] = t] /\ metrics' = metrics
    BY <1>0, <1>1 DEF Tester!Submit
  <2>2. /\ t \in TestType /\ t.pc = "submit" /\ t.overlapped = test[h].overlapped
        /\ t.blocksProcessed = test[h].blocksProcessed
    BY <1>0 DEF TestType
  <2> HIDE DEF t
  <2>3. Own(test[h], metrics) => Own(t, metrics')
    BY <2>1, <2>2 DEF Own
  <2> QED
    BY <1>0, <2>1, <2>2, <2>3, TestMoves
<1>2. ASSUME NEW ok \in BOOLEAN, Tester!SubmitReturns(h, ok)
      PROVE  TestsOK' /\ AloneOwns' /\ Tester!Running' \subseteq Tester!Running
  <2> DEFINE k == IF ok THEN test[h].blocksProcessed + 1 ELSE test[h].blocksProcessed
             t == [test[h] EXCEPT !.pc = "loop", !.block = 0, !.blocksProcessed = k]
  <2>1. test[h].pc = "submit" /\ test' = [test EXCEPT ![h] = t]
    BY <1>0, <1>2 DEF Tester!SubmitReturns
  <2>2. k \in Int
    BY <1>0 DEF TestType
  <2>3. /\ t \in TestType /\ t.pc = "loop" /\ t.overlapped = test[h].overlapped
        /\ t.blocksProcessed = k
    <3> HIDE DEF k
    <3>1. t \in TestType
      <4>1. ASSUME NEW r \in TestType, NEW n \in Int, NEW m \in Int
            PROVE  [r EXCEPT !.pc = "loop", !.block = n, !.blocksProcessed = m] \in TestType
        BY DEF TestType
      <4>2. 0 \in Int
        OBVIOUS
      <4> QED
        BY <1>0, <2>2, <4>1, <4>2, Zenon
    <3>2. t.pc = "loop" /\ t.blocksProcessed = k
      BY <1>0 DEF TestType
    <3>3. t.overlapped = test[h].overlapped
      BY <1>0, Zenon DEF TestType
    <3> QED
      BY <3>1, <3>2, <3>3
  <2> HIDE DEF t
  <2>4. /\ metrics' \in MetricsType
        /\ ~test[h].overlapped => /\ metrics'.latencies = metrics.latencies + (IF ok THEN 1 ELSE 0)
                                  /\ metrics'.stopped = metrics.stopped
    <3>1. CASE ok /\ metrics' = [metrics EXCEPT !.latencies = @ + 1]
      BY <1>0, <3>1 DEF MetricsType
    <3>2. CASE (~ok \/ test[h].overlapped) /\ metrics' = metrics
      BY <1>0, <3>2 DEF MetricsType
    <3> QED
      BY <1>2, <3>1, <3>2 DEF Tester!SubmitReturns
  <2>5. ~test[h].overlapped /\ Own(test[h], metrics) => Own(t, metrics')
    BY <1>0, <2>1, <2>3, <2>4 DEF Own, MetricsType
  <2> QED
    BY <2>1, <2>3, <2>4, <2>5, TestMoves
<1>3. ASSUME Tester!Stop(h)
      PROVE  TestsOK' /\ AloneOwns' /\ Tester!Running' \subseteq Tester!Running
  <2> DEFINE t == [test[h] EXCEPT !.pc = "report"]
  <2>1. /\ test[h].pc = "loop" /\ test' = [test EXCEPT ![h] = t]
        /\ metrics' = [metrics EXCEPT !.stopped = TRUE]
    BY <1>0, <1>3 DEF Tester!Stop, Tester!Goto
  <2>2. /\ t \in TestType /\ t.pc = "report" /\ t.overlapped = test[h].overlapped
        /\ t.blocksProcessed = test[h].blocksProcessed
    BY <1>0 DEF TestType
  <2> HIDE DEF t
  <2>3. metrics' \in MetricsType
    BY <1>0, <2>1 DEF MetricsType
  <2>4. metrics'.latencies = metrics.latencies /\ metrics'.stopped
    BY <1>0, <2>1 DEF MetricsType
  <2>5. Own(test[h], metrics) => Own(t, metrics')
    BY <2>1, <2>2, <2>4 DEF Own
  <2> QED
    BY <2>1, <2>2, <2>3, <2>5, TestMoves
<1>4. ASSUME Tester!Report(h)
      PROVE  TestsOK' /\ AloneOwns' /\ Tester!Running' \subseteq Tester!Running
  <2> DEFINE t == [test[h] EXCEPT !.pc = "return", !.result = metrics]
  <2>1. test[h].pc = "report" /\ test' = [test EXCEPT ![h] = t] /\ metrics' = metrics
    BY <1>0, <1>4 DEF Tester!Report
  <2>2. /\ t \in TestType /\ t.pc = "return" /\ t.overlapped = test[h].overlapped
        /\ t.blocksProcessed = test[h].blocksProcessed /\ t.result = metrics
    BY <1>0 DEF TestType
  <2> HIDE DEF t
  <2>3. Own(test[h], metrics) => Own(t, metrics')
    BY <2>1, <2>2 DEF Own
  <2> QED
    BY <1>0, <2>1, <2>2, <2>3, TestMoves
<1> QED
  BY <1>1, <1>2, <1>3, <1>4

LEMMA TestsKept ==
    ASSUME TestsOK, AloneOwns, UNCHANGED testVars
    PROVE  TestsOK' /\ AloneOwns' /\ testing' = testing
<1>1. UNCHANGED <<metrics, test>>
  BY DEF testVars
<1> QED
  BY <1>1 DEF TestsOK, AloneOwns, testing, Tester!Running
-------------------------------------------------------------------------------
(***************************************************************************)
(* main, and what the rest leaves of its invariant.                        *)
(***************************************************************************)
ControlOK == MainOK /\ TestsEndFirst /\ CrashOnlyInShutdown

LEMMA ControlKept ==
    ASSUME ControlOK, UNCHANGED <<main, streamer, stop, stopped, ctxDone, crashed>>,
           testing' \subseteq testing
    PROVE  ControlOK'
<1>1. MainOK' /\ CrashOnlyInShutdown'
  BY Zenon DEF ControlOK, MainOK, CrashOnlyInShutdown
<1>2. TestsEndFirst'
  BY DEF ControlOK, TestsEndFirst
<1> QED
  BY <1>1, <1>2 DEF ControlOK

\* What the steps of the pool leave alone.
LEMMA SubmitLeavesMain ==
    ASSUME NEW s, PP!Submit(s)
    PROVE  /\ UNCHANGED <<stop, stopped, closed, ctxDone>>
           /\ s \in Handlers /\ ~crashed => ~crashed'
           /\ crashed' => crashed \/ closed
<1>1. UNCHANGED <<stop, stopped, closed, ctxDone>>
  BY Zenon DEF PP!Submit, PP!SubmitRejected, PP!SubmitSends, PP!SubmitPanics, PP!SubmitParks, PP!Call
<1>2. (closed /\ crashed' = (s \notin Handlers)) \/ UNCHANGED crashed
  BY DEF PP!Submit, PP!SubmitRejected, PP!SubmitSends, PP!SubmitPanics, PP!SubmitParks
<1>3. CASE closed /\ crashed' = (s \notin Handlers)
  BY <1>1, <1>3
<1>4. CASE UNCHANGED crashed
  BY <1>1, <1>4, Zenon
<1> QED
  BY <1>2, <1>3, <1>4

LEMMA WorkerLeavesMain ==
    ASSUME NEW w, PP!WorkerStep(w)
    PROVE  UNCHANGED <<stop, stopped, ctxDone, crashed>>
BY DEF PP!WorkerStep, PP!WorkerStarts, PP!Receive, PP!CheckContext, PP!Process,
   PP!WorkerLeaves, PP!chanVars

LEMMA MainStep ==
    ASSUME ServerInv, PP!PoolInv, Main \/ Signal, ~crashed
    PROVE  ServerInv'
<1> USE DEF Proceed
<1>1. TestsOK' /\ AloneOwns' /\ testing' = testing
  BY TestsKept DEF ServerInv, Main, Signal, StartPool, StartStreamer, StopMCP, StopMetrics,
     StopPool, StopStreamer
<1>2. /\ MainOK /\ TestsEndFirst
      /\ stop \in {"notCalled", "stopChClosed", "waiting", "graceful", "timeout"}
  BY PP!TypeParts DEF ServerInv, PP!PoolInv, PP!TypeOK
<1>3. ~crashed' /\ ~ctxDone'
  <2>1. UNCHANGED <<crashed, ctxDone>>
    BY DEF Main, Signal, StartPool, StartStreamer, StopMCP, StopMetrics, StopPool, StopStreamer,
       Pool!Start, Pool!CloseStopCh, Pool!CloseBlocks, Pool!StopGraceful, Pool!StopTimeout, poolVars
  <2> QED
    BY <1>2, <2>1, Zenon DEF MainOK
<1>4. /\ main' \in {"startPool", "startStreamer", "wait", "stopMcp", "stopMetrics",
                    "stopPool", "stopStreamer", "fatal", "exit0", "exit1"}
      /\ streamer' \in {"off", "streaming", "stopped"}
      /\ stop' # "notCalled" => main' \in {"stopPool", "stopStreamer", "exit0", "exit1"}
      /\ main' \in {"stopStreamer", "exit0"} => stop' = "graceful"
      /\ main' \in {"stopMetrics", "stopPool", "stopStreamer", "exit0"} => testing = {}
  <2>1. CASE StartPool
    BY <1>2, <2>1 DEF StartPool, MainOK, Pool!Start
  <2>2. CASE StartStreamer
    BY <1>2, <2>2 DEF StartStreamer, MainOK, poolVars
  <2>3. CASE StopMCP
    BY <1>2, <2>3 DEF StopMCP, MainOK, poolVars
  <2>4. CASE StopMetrics
    BY <1>2, <2>4 DEF StopMetrics, MainOK, TestsEndFirst, poolVars
  <2>5. CASE StopPool
    BY <1>2, <2>5 DEF StopPool, MainOK, TestsEndFirst, Pool!CloseStopCh, Pool!CloseBlocks,
       Pool!StopGraceful, Pool!StopTimeout
  <2>6. CASE StopStreamer
    BY <1>2, <2>6 DEF StopStreamer, MainOK, TestsEndFirst, poolVars
  <2>7. CASE Signal
    BY <1>2, <2>7 DEF Signal, MainOK, poolVars
  <2> QED
    BY <2>1, <2>2, <2>3, <2>4, <2>5, <2>6, <2>7 DEF Main
<1>5. MainOK'
  BY <1>3, <1>4, Zenon DEF MainOK
<1>6. TestsEndFirst'
  BY <1>1, <1>4 DEF TestsEndFirst
<1>7. CrashOnlyInShutdown'
  BY <1>3, Zenon DEF CrashOnlyInShutdown
<1> QED
  BY <1>1, <1>5, <1>6, <1>7 DEF ServerInv

LEMMA ForwardStep ==
    ASSUME ServerInv, PP!PoolInv, Forward, ~crashed, ~Exited
    PROVE  ServerInv'
<1>1. UNCHANGED <<testVars, main, streamer>> /\ PP!Submit(Forwarder)
  BY SubmitIsPools DEF Forward, serverVars
<1>2. TestsOK' /\ AloneOwns' /\ testing' = testing
  BY <1>1, TestsKept DEF ServerInv
<1>3. UNCHANGED <<stop, stopped, closed, ctxDone>> /\ (crashed' => closed)
  BY <1>1, SubmitLeavesMain
<1>4. closed => stop # "notCalled" /\ stopped
  BY DEF PP!PoolInv, PP!StopOrder
<1>5. MainOK'
  BY <1>1, <1>3, Zenon DEF ServerInv, MainOK
<1>6. TestsEndFirst'
  BY <1>1, <1>2 DEF ServerInv, TestsEndFirst
<1>7. closed => main \in {"stopPool", "stopStreamer"}
  BY <1>4 DEF ServerInv, MainOK, Exited
<1>8. CrashOnlyInShutdown'
  BY <1>1, <1>3, <1>4, <1>7, Zenon DEF CrashOnlyInShutdown
<1> QED
  BY <1>2, <1>5, <1>6, <1>8 DEF ServerInv

LEMMA HandlerStep ==
    ASSUME ServerInv, PP!PoolInv, ~crashed, NEW h \in Handlers,
           RunLoadTest(h) \/ TestSubmits(h) \/ SubmitReturns(h) \/ TestStep(h)
    PROVE  ServerInv'
<1>1. TestsOK /\ AloneOwns /\ ControlOK
  BY DEF ServerInv, ControlOK
<1>2. ASSUME UNCHANGED <<main, streamer, stop, stopped, ctxDone, crashed>>,
             TestsOK', AloneOwns', Tester!Running' \subseteq Tester!Running
      PROVE  ServerInv'
  BY <1>1, <1>2, ControlKept DEF ServerInv, ControlOK, testing
<1>3. CASE RunLoadTest(h)
  <2>1. UNCHANGED <<main, streamer, stop, stopped, ctxDone, crashed>> /\ Listening
    BY <1>3 DEF RunLoadTest, poolVars
  <2>2. TestsOK' /\ AloneOwns'
    BY <1>1, <1>3, TestBegins DEF RunLoadTest
  <2>3. TestsEndFirst'
    BY <2>1 DEF TestsEndFirst, Listening
  <2>4. MainOK' /\ CrashOnlyInShutdown'
    BY <1>1, <2>1, Zenon DEF ControlOK, MainOK, CrashOnlyInShutdown
  <2> QED
    BY <2>2, <2>3, <2>4 DEF ServerInv
<1>4. CASE TestSubmits(h)
  <2>1. PP!Submit(h) /\ UNCHANGED <<main, streamer>>
    BY <1>4, SubmitIsPools DEF TestSubmits, PP!Submit
  <2>2. UNCHANGED <<stop, stopped, ctxDone>> /\ ~crashed'
    BY <2>1, SubmitLeavesMain
  <2>3. submits' \in Int
    BY <2>1, PP!TypeParts DEF PP!PoolInv, PP!TypeOK, PP!Submit, PP!SubmitRejected, PP!SubmitSends,
       PP!SubmitPanics, PP!SubmitParks, PP!Call
  <2>4. TestsOK' /\ AloneOwns' /\ Tester!Running' \subseteq Tester!Running
    BY <1>1, <1>4, <2>3, TestGoesOn, TestEnds DEF TestSubmits
  <2>5. MainOK' /\ CrashOnlyInShutdown'
    BY <1>1, <2>1, <2>2, Zenon DEF ControlOK, MainOK, CrashOnlyInShutdown
  <2>6. TestsEndFirst'
    BY <1>1, <2>1, <2>4 DEF ControlOK, TestsEndFirst, testing
  <2> QED
    BY <2>4, <2>5, <2>6 DEF ServerInv
<1>5. CASE SubmitReturns(h) \/ TestStep(h)
  <2>1. UNCHANGED <<main, streamer, stop, stopped, ctxDone, crashed>>
    BY <1>5 DEF SubmitReturns, TestStep, poolVars
  <2>2. TestsOK' /\ AloneOwns' /\ Tester!Running' \subseteq Tester!Running
    <3>1. CASE SubmitReturns(h)
      <4>1. (test[h].block \in accepted) \in BOOLEAN
        OBVIOUS
      <4>2. \E ok \in BOOLEAN : Tester!SubmitReturns(h, ok)
        BY <3>1, <4>1, Zenon DEF SubmitReturns
      <4> QED
        BY <1>1, <4>2, TestGoesOn
    <3>2. CASE TestStep(h)
      BY <1>1, <3>2, TestGoesOn, TestEnds DEF TestStep, Tester!Internal
    <3> QED
      BY <1>5, <3>1, <3>2
  <2> QED
    BY <1>2, <2>1, <2>2
<1> QED
  BY <1>3, <1>4, <1>5

LEMMA NextServer == ServerInv /\ PP!PoolInv /\ [Next]_vars => ServerInv'
<1> SUFFICES ASSUME ServerInv, PP!PoolInv, [Next]_vars PROVE ServerInv'
  OBVIOUS
<1>1. CASE UNCHANGED vars \/ \E w \in Workers : WorkerStep(w)
  <2>1. UNCHANGED <<testVars, main, streamer, stop, stopped, ctxDone, crashed>>
    <3>1. CASE UNCHANGED vars
      BY <3>1 DEF vars, poolVars, serverVars
    <3>2. ASSUME NEW w \in Workers, WorkerStep(w)
          PROVE  UNCHANGED <<testVars, main, streamer, stop, stopped, ctxDone, crashed>>
      BY <3>2, WorkerIsPools, WorkerLeavesMain DEF WorkerStep, serverVars
    <3> QED
      BY <1>1, <3>1, <3>2
  <2>2. TestsOK' /\ AloneOwns' /\ testing' = testing
    BY <2>1, TestsKept DEF ServerInv
  <2>3. ControlOK'
    BY <2>1, <2>2, ControlKept DEF ServerInv, ControlOK
  <2> QED
    BY <2>2, <2>3 DEF ServerInv, ControlOK
<1>2. CASE ~crashed /\ ~Exited /\ (Main \/ Signal \/ Forward)
  BY <1>2, MainStep, ForwardStep
<1>3. ASSUME ~crashed, NEW h \in Handlers,
             RunLoadTest(h) \/ TestSubmits(h) \/ SubmitReturns(h) \/ TestStep(h)
      PROVE  ServerInv'
  BY <1>3, HandlerStep
<1> QED
  BY <1>1, <1>2, <1>3 DEF Next

LEMMA ServerInvariant == Spec => [](ServerInv /\ PP!PoolInv)
BY InitServer, NextServer, ServerPoolInv, PTL DEF Spec
-------------------------------------------------------------------------------
(***************************************************************************)
(* The variables of main, of the streamer and of the tests keep their      *)
(* types.                                                                  *)
(***************************************************************************)
THEOREM ServerTypeCorrect == Spec => []TypeOK
BY ServerInvariant, ServerInvImplies, PTL

(***************************************************************************)
(* A program that exits with status 0 has put every block that Submit took *)
(* through ProcessBlock, however the signal, the forwarder and the load    *)
(* tests interleave.                                                       *)
(***************************************************************************)
THEOREM CleanExitCorrect == Spec => []CleanExitDrains
BY ServerInvariant, ServerInvImplies, PTL

(***************************************************************************)
(* Shutdown stops the pool only after every load test has ended.           *)
(***************************************************************************)
THEOREM TestsEndFirstCorrect == Spec => []TestsEndFirst
BY ServerInvariant, ServerInvImplies, PTL

(***************************************************************************)
(* A load test that overlapped with no other reports its own blocks, of    *)
(* whatever tests came before it.                                          *)
(***************************************************************************)
THEOREM AloneReportsCorrect == Spec => []AloneReportsOwn
BY ServerInvariant, ServerInvImplies, PTL

(***************************************************************************)
(* A panic ends the process only during the shutdown, once stopCh is       *)
(* closed.                                                                 *)
(***************************************************************************)
THEOREM CrashCorrect == Spec => []CrashOnlyInShutdown
BY ServerInvariant, ServerInvImplies, PTL
===============================================================================
