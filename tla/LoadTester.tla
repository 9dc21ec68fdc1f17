------------------------------ MODULE LoadTester ------------------------------
(***************************************************************************)
(* The load tester (internal/loadtest/tester.go and metrics.go).  There is *)
(* one LoadTester, every request run_load_test calls its Run, and nothing  *)
(* keeps two calls apart: they share lt.metrics, which is replaced when a  *)
(* test begins and looked up anew whenever something is recorded in it or  *)
(* read from it.  Of the latencies recorded only the number is kept.       *)
(* Collections and memory in use are sampled by Start and by Stop, and     *)
(* reported as differences: all that is kept of them is whether Stop has   *)
(* taken the second sample.                                                *)
(***************************************************************************)
EXTENDS Integers

CONSTANT Handlers   \* the request handlers that run load tests

VARIABLES
    metrics,    \* what lt.metrics points to
    test        \* the call of RunLoadTest in each handler

vars == <<metrics, test>>

NewLoadTestMetrics == [latencies |-> 0, stopped |-> FALSE]

\* Where the call is, the block it has handed to Submit, how many Submit
\* has taken, and the metrics its result is made from; for the property, whether
\* another test ran at the same time.
NoTest == [pc |-> "idle", block |-> 0, blocksProcessed |-> 0, result |-> NewLoadTestMetrics,
           overlapped |-> FALSE]

Running == {h \in Handlers : test[h].pc # "idle"}

Init ==
    /\ metrics = NewLoadTestMetrics
    /\ test = [h \in Handlers |-> NoTest]
-------------------------------------------------------------------------------
Goto(h, pc) == test' = [test EXCEPT ![h].pc = pc]

\* The call begins, and every test under way now overlaps with it.
Begins(h) ==
    /\ test[h].pc = "idle"
    /\ test' = [g \in Handlers |->
                   IF g = h THEN [NoTest EXCEPT !.pc = "loop", !.overlapped = Running # {}]
                   ELSE IF g \in Running THEN [test[g] EXCEPT !.overlapped = TRUE]
                   ELSE test[g]]

\* Mutant of Begin: the metrics are made once.
BeginKeepsMetrics(h) ==
    /\ Begins(h)
    /\ UNCHANGED metrics

\* New metrics take the first sample.  (Start may find those of another test
\* that begins at the same time, and sample twice.)
Begin(h) ==
    /\ Begins(h)
    /\ metrics' = NewLoadTestMetrics

\* A tick of the loop: block n is generated and handed to Submit.
Submit(h, n) ==
    /\ test[h].pc = "loop"
    /\ test' = [test EXCEPT ![h].pc = "submit", ![h].block = n]
    /\ UNCHANGED metrics

\* Submit returns nil or an error.  Only the former is measured, in metrics
\* that another test may have replaced since they were looked up.
SubmitReturns(h, ok) ==
    /\ test[h].pc = "submit"
    /\ test' = [test EXCEPT ![h].pc = "loop", ![h].block = 0,
                            ![h].blocksProcessed = IF ok THEN @ + 1 ELSE @]
    /\ \/ /\ ok
          /\ metrics' = [metrics EXCEPT !.latencies = @ + 1]
       \/ /\ ~ok \/ test[h].overlapped
          /\ UNCHANGED metrics

\* A panic in Submit ends the request.
SubmitPanics(h) ==
    /\ test[h].pc = "loop"
    /\ test' = [test EXCEPT ![h] = NoTest]
    /\ UNCHANGED metrics

\* The context's deadline, ten seconds after the end of the test: no result.
TimesOut(h) ==
    /\ test[h].pc = "loop"
    /\ test' = [test EXCEPT ![h] = NoTest]
    /\ UNCHANGED metrics

\* The time is over: the metrics are stopped, then read.  (Between two of the
\* reads they may be replaced too; of such a test nothing is claimed.)
Stop(h) ==
    /\ test[h].pc = "loop"
    /\ Goto(h, "report")
    /\ metrics' = [metrics EXCEPT !.stopped = TRUE]
Report(h) ==
    /\ test[h].pc = "report"
    /\ test' = [test EXCEPT ![h].pc = "return", ![h].result = metrics]
    /\ UNCHANGED metrics
Return(h) ==
    /\ test[h].pc = "return"
    /\ test' = [test EXCEPT ![h] = NoTest]
    /\ UNCHANGED metrics

\* The steps of a test that concern nobody else.
Internal(h) == TimesOut(h) \/ Stop(h) \/ Report(h) \/ Return(h)
-------------------------------------------------------------------------------
(***************************************************************************)
(* Properties.                                                             *)
(***************************************************************************)

\* The variables have their types.
TypeOK ==
    /\ metrics.stopped \in BOOLEAN
    /\ \A h \in Handlers :
          test[h].pc \in {"idle", "loop", "submit", "report", "return"}

(***************************************************************************)
(* A load test during which no other ran reports as many latencies as the  *)
(* pool took blocks from it, and differences that have both                *)
(* their ends, whatever tests came before it and however they ended.  (Of  *)
(* tests that overlap nothing of the kind holds: they share the metrics,   *)
(* and may report those of a test that has only begun, where a count of    *)
(* collections is zero less the count at the start, without a sign.)       *)
(***************************************************************************)
AloneReportsOwn ==
    \A h \in Handlers : test[h].pc = "return" /\ ~test[h].overlapped =>
        test[h].result = [latencies |-> test[h].blocksProcessed, stopped |-> TRUE]
===============================================================================
