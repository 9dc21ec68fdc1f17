------------------------------ MODULE WorkerPool ------------------------------
(***************************************************************************)
(* The worker pool (internal/worker/pool.go): a bounded channel of blocks, *)
(* the goroutines that range over it, the goroutines that call Submit, and *)
(* the one that calls Stop.  What ProcessBlock does with a block is left   *)
(* open: it returns nil, returns an error, or panics.                      *)
(*                                                                         *)
(* A Go select looks at its channels under their locks, so it is one step. *)
(* It takes any case that is ready; if none is, the goroutine is parked on *)
(* all of them, and whoever makes one ready completes that case for it.    *)
(***************************************************************************)
EXTENDS Integers, Sequences, FiniteSets

CONSTANTS
    Workers,      \* the goroutines Start creates
    Submitters,   \* the goroutines that call Submit: forwarder, load tests
    Handlers,     \* those of them that run in a request handler of the MCP
                  \* server: it is up before Start runs, and recovers panics
    Cancellable,  \* whether the context given to Start can be cancelled
    MaxSubmits    \* bound: calls of Submit in a behaviour

ASSUME WorkersAssumption == IsFiniteSet(Workers) /\ Cardinality(Workers) \in 1 .. 256
ASSUME SubmittersAssumption == Handlers \subseteq Submitters
ASSUME CancelAssumption == Cancellable \in BOOLEAN
ASSUME SubmitsAssumption == MaxSubmits \in Nat

VARIABLES
    started,    \* Start has returned
    blocks,     \* contents of Pool.blocks, a channel of capacity Cap
    closed,     \* Pool.blocks is closed
    stopped,    \* Pool.stopCh is closed
    parked,     \* submitters parked in Submit, in order, with their blocks
    stuck,      \* submitters parked on the nil channel Pool.blocks is before Start
    worker,     \* what each worker is doing
    ctxDone,    \* the context given to Start is cancelled
    stop,       \* progress of the goroutine that calls Stop
    panicCount, processedBlocks,  \* the pool's counters
    crashed,    \* a goroutine without recover has panicked: the process is gone
    submits,    \* number of calls of Submit so far; call n carries block n
    accepted,   \* history variable: blocks for which Submit returned nil
    finished    \* history variable: blocks ProcessBlock has returned from

chanVars == <<blocks, closed, stopped, parked, stuck>>
workerVars == <<worker, panicCount, processedBlocks, finished>>
vars == <<started, chanVars, workerVars, ctxDone, stop, crashed, submits, accepted>>

Cap == 2 * Cardinality(Workers)

\* A worker is not yet running, at the head of its range loop, about to look
\* at its context, in ProcessBlock, or gone.
At(pc) == [pc |-> pc, block |-> 0]
Holds(pc, b) == [pc |-> pc, block |-> b]

ActiveWorkers == Cardinality({w \in Workers : worker[w].pc \notin {"new", "gone"}})
QueueDepth == Len(blocks)

Init ==
    /\ started = FALSE
    /\ blocks = <<>> /\ closed = FALSE /\ stopped = FALSE
    /\ parked = <<>> /\ stuck = {}
    /\ worker = [w \in Workers |-> At("new")]
    /\ ctxDone = FALSE /\ stop = "notCalled" /\ crashed = FALSE
    /\ panicCount = 0 /\ processedBlocks = 0
    /\ submits = 0 /\ accepted = {} /\ finished = {}
-------------------------------------------------------------------------------
Start ==
    /\ ~started
    /\ started' = TRUE
    /\ UNCHANGED <<chanVars, workerVars, ctxDone, stop, crashed, submits, accepted>>

\* The first lines of worker: the goroutine runs and counts itself active.
WorkerStarts(w) ==
    /\ started /\ worker[w].pc = "new"
    /\ worker' = [worker EXCEPT ![w] = At("range")]
    /\ UNCHANGED <<started, chanVars, panicCount, processedBlocks, finished,
                   ctxDone, stop, crashed, submits, accepted>>

(***************************************************************************)
(* Submit.                                                                 *)
(***************************************************************************)
Waiting == {parked[i].submitter : i \in DOMAIN parked} \cup stuck

Call(s) ==
    /\ submits < MaxSubmits
    /\ s \notin Waiting
    /\ started \/ s \in Handlers
    /\ submits' = submits + 1
    /\ UNCHANGED <<started, workerVars, ctxDone, stop, closed, stopped>>

SubmitRejected(s) ==
    /\ Call(s)
    /\ stopped
    /\ UNCHANGED <<blocks, parked, stuck, crashed, accepted>>

\* Mutant of SubmitSends: the channel is unbounded.
SubmitUnbounded(s) ==
    /\ Call(s)
    /\ started /\ ~closed
    /\ blocks' = Append(blocks, submits')
    /\ accepted' = accepted \cup {submits'}
    /\ UNCHANGED <<parked, stuck, crashed>>

SubmitSends(s) ==
    /\ Call(s)
    /\ started /\ ~closed /\ Len(blocks) < Cap
    /\ blocks' = Append(blocks, submits')
    /\ accepted' = accepted \cup {submits'}
    /\ UNCHANGED <<parked, stuck, crashed>>

\* A send on a closed channel is always ready, and it panics.
SubmitPanics(s) ==
    /\ Call(s)
    /\ closed
    /\ crashed' = (s \notin Handlers)
    /\ UNCHANGED <<blocks, parked, stuck, accepted>>

SubmitParks(s) ==
    /\ Call(s)
    /\ ~stopped
    /\ \/ /\ started /\ Len(blocks) = Cap
          /\ parked' = Append(parked, [submitter |-> s, block |-> submits'])
          /\ UNCHANGED stuck
       \/ /\ ~started
          /\ stuck' = stuck \cup {s}
          /\ UNCHANGED parked
    /\ UNCHANGED <<blocks, crashed, accepted>>

(***************************************************************************)
(* worker.  A receive makes room, and completes the send of the submitter  *)
(* that has been parked longest.                                           *)
(***************************************************************************)
Receive(w) ==
    /\ worker[w].pc = "range"
    /\ blocks # <<>>
    /\ worker' = [worker EXCEPT ![w] = Holds("check", Head(blocks))]
    /\ IF parked = <<>>
       THEN /\ blocks' = Tail(blocks)
            /\ UNCHANGED <<parked, accepted>>
       ELSE /\ blocks' = Append(Tail(blocks), Head(parked).block)
            /\ accepted' = accepted \cup {Head(parked).block}
            /\ parked' = Tail(parked)
    /\ UNCHANGED <<started, closed, stopped, stuck, panicCount, processedBlocks, finished,
                   ctxDone, stop, crashed, submits>>

\* The select on ctx.Done: go on to processBlockSafe, or drop the block and leave.
CheckContext(w) ==
    /\ worker[w].pc = "check"
    /\ worker' = [worker EXCEPT ![w] =
                     IF ctxDone THEN At("gone") ELSE Holds("process", worker[w].block)]
    /\ UNCHANGED <<started, chanVars, panicCount, processedBlocks, finished,
                   ctxDone, stop, crashed, submits, accepted>>

\* Mutant of Process: a panic ends the worker.
PanicEndsWorker(w) ==
    /\ worker[w].pc = "process"
    /\ finished' = finished \cup {worker[w].block}
    /\ \/ /\ worker' = [worker EXCEPT ![w] = At("range")]
          /\ processedBlocks' = processedBlocks + 1 /\ UNCHANGED panicCount
       \/ /\ worker' = [worker EXCEPT ![w] = At("gone")]
          /\ panicCount' = panicCount + 1 /\ UNCHANGED processedBlocks
    /\ UNCHANGED <<started, chanVars, ctxDone, stop, crashed, submits, accepted>>

\* Mutant of Process: a panic is not recovered.
PanicEndsProcess(w) ==
    /\ worker[w].pc = "process"
    /\ worker' = [worker EXCEPT ![w] = At("range")]
    /\ finished' = finished \cup {worker[w].block}
    /\ \/ processedBlocks' = processedBlocks + 1 /\ UNCHANGED <<panicCount, crashed>>
       \/ panicCount' = panicCount + 1 /\ crashed' = TRUE /\ UNCHANGED processedBlocks
    /\ UNCHANGED <<started, chanVars, ctxDone, stop, submits, accepted>>

\* processBlockSafe: after a panic too the worker goes back to its loop.
Process(w) ==
    /\ worker[w].pc = "process"
    /\ worker' = [worker EXCEPT ![w] = At("range")]
    /\ finished' = finished \cup {worker[w].block}
    /\ \/ processedBlocks' = processedBlocks + 1 /\ UNCHANGED panicCount
       \/ panicCount' = panicCount + 1 /\ UNCHANGED processedBlocks
       \/ UNCHANGED <<panicCount, processedBlocks>>
    /\ UNCHANGED <<started, chanVars, ctxDone, stop, crashed, submits, accepted>>

\* Mutant of WorkerLeaves: the loop ends when the channel is empty.
LeavesWhenEmpty(w) ==
    /\ worker[w].pc = "range"
    /\ blocks = <<>>
    /\ worker' = [worker EXCEPT ![w] = At("gone")]
    /\ UNCHANGED <<started, chanVars, panicCount, processedBlocks, finished,
                   ctxDone, stop, crashed, submits, accepted>>

\* The range loop ends when the channel is closed and empty.
WorkerLeaves(w) ==
    /\ worker[w].pc = "range"
    /\ closed /\ blocks = <<>>
    /\ worker' = [worker EXCEPT ![w] = At("gone")]
    /\ UNCHANGED <<started, chanVars, panicCount, processedBlocks, finished,
                   ctxDone, stop, crashed, submits, accepted>>

WorkerStep(w) ==
    WorkerStarts(w) \/ Receive(w) \/ CheckContext(w) \/ Process(w) \/ WorkerLeaves(w)

Cancel ==
    /\ Cancellable /\ started /\ ~ctxDone
    /\ ctxDone' = TRUE
    /\ UNCHANGED <<started, chanVars, workerVars, stop, crashed, submits, accepted>>

(***************************************************************************)
(* Stop.  Closing stopCh completes the select of every parked submitter.   *)
(***************************************************************************)
\* Mutant of CloseStopCh: the select of Submit has no case for stopCh.
StopUnheard ==
    /\ started /\ stop = "notCalled"
    /\ stop' = "stopChClosed"
    /\ stopped' = TRUE
    /\ UNCHANGED <<started, blocks, closed, parked, stuck, workerVars, ctxDone, crashed,
                   submits, accepted>>

CloseStopCh ==
    /\ started /\ stop = "notCalled"
    /\ stop' = "stopChClosed"
    /\ stopped' = TRUE
    /\ parked' = <<>> /\ stuck' = {}
    /\ UNCHANGED <<started, blocks, closed, workerVars, ctxDone, crashed, submits, accepted>>

\* Mutant of AllGone: a worker is counted once its goroutine runs.
StartedAreGone == \A w \in Workers : worker[w].pc \in {"new", "gone"}

\* wg counts every worker from before its goroutine runs until it is gone.
AllGone == \A w \in Workers : worker[w].pc = "gone"

\* Mutant of CloseBlocks: the channel is closed after the workers are gone.
WaitThenClose ==
    /\ stop = "stopChClosed" /\ AllGone
    /\ stop' = "waiting"
    /\ closed' = TRUE
    /\ UNCHANGED <<started, blocks, stopped, parked, stuck, workerVars, ctxDone, crashed,
                   submits, accepted>>

CloseBlocks ==
    /\ stop = "stopChClosed"
    /\ stop' = "waiting"
    /\ closed' = TRUE
    /\ UNCHANGED <<started, blocks, stopped, parked, stuck, workerVars, ctxDone, crashed,
                   submits, accepted>>

StopGraceful ==
    /\ stop = "waiting" /\ AllGone
    /\ stop' = "graceful"
    /\ UNCHANGED <<started, chanVars, workerVars, ctxDone, crashed, submits, accepted>>

StopTimeout ==
    /\ stop = "waiting"
    /\ stop' = "timeout"
    /\ UNCHANGED <<started, chanVars, workerVars, ctxDone, crashed, submits, accepted>>

StopStep == CloseStopCh \/ CloseBlocks \/ StopGraceful \/ StopTimeout
-------------------------------------------------------------------------------
Submit(s) == SubmitRejected(s) \/ SubmitSends(s) \/ SubmitPanics(s) \/ SubmitParks(s)

Next ==
    /\ ~crashed
    /\ \/ Start
       \/ Cancel
       \/ StopStep
       \/ \E s \in Submitters : Submit(s)
       \/ \E w \in Workers : WorkerStep(w)

Spec == Init /\ [][Next]_vars

(***************************************************************************)
(* Fairness: the Go scheduler runs every goroutine that can run, and       *)
(* ProcessBlock, which neither loops nor waits for another block, returns. *)
(* Nothing makes anyone call Submit or Stop.                               *)
(***************************************************************************)
Running(A) == ~crashed /\ A
Fairness ==
    /\ WF_vars(Running(Start))
    /\ WF_vars(Running(CloseBlocks))
    /\ WF_vars(Running(StopGraceful \/ StopTimeout))
    /\ \A w \in Workers : WF_vars(Running(WorkerStep(w)))

FairSpec == Spec /\ Fairness
-------------------------------------------------------------------------------
(***************************************************************************)
(* Properties.                                                             *)
(***************************************************************************)
InHand == {worker[w].block : w \in {v \in Workers : worker[v].pc \in {"check", "process"}}}
Queued == {blocks[i] : i \in DOMAIN blocks}

\* Every variable has its type, and the channel never holds more than Cap.
TypeOK ==
    /\ started \in BOOLEAN /\ closed \in BOOLEAN /\ stopped \in BOOLEAN
    /\ ctxDone \in BOOLEAN /\ crashed \in BOOLEAN
    /\ blocks \in Seq(1 .. MaxSubmits) /\ Len(blocks) <= Cap
    /\ parked \in Seq([submitter : Submitters, block : 1 .. MaxSubmits])
    /\ stuck \subseteq Submitters
    /\ worker \in [Workers -> [pc : {"new", "range", "check", "process", "gone"},
                               block : 0 .. MaxSubmits]]
    /\ stop \in {"notCalled", "stopChClosed", "waiting", "graceful", "timeout"}
    /\ panicCount \in Nat /\ processedBlocks \in Nat
    /\ submits \in 0 .. MaxSubmits
    /\ accepted \subseteq 1 .. MaxSubmits /\ finished \subseteq 1 .. MaxSubmits

(***************************************************************************)
(* Backpressure: a call of Submit that found the channel waits only while  *)
(* the channel is full and the pool is running.                            *)
(***************************************************************************)
WaitsOnlyWhenFull == parked # <<>> => started /\ ~stopped /\ Len(blocks) = Cap

(***************************************************************************)
(* Graceful stop: when Stop returns nil and the context was not cancelled, *)
(* every block for which Submit returned nil has been through              *)
(* ProcessBlock, those sent while Stop was under way and those whose       *)
(* predecessors panicked included.                                         *)
(***************************************************************************)
DrainedWhenGraceful == stop = "graceful" /\ ~ctxDone => accepted = finished

(***************************************************************************)
(* What makes it so: unless the context is cancelled an accepted block is  *)
(* finished, queued or in hand, and the workers leave an empty channel.    *)
(***************************************************************************)
NothingLost ==
    ~ctxDone => /\ accepted = finished \cup Queued \cup InHand
                /\ AllGone => closed /\ blocks = <<>>

\* Every accepted block goes through ProcessBlock sooner or later, unless the
\* context is cancelled or the process dies.
AcceptedIsFinished ==
    \A n \in 1 .. MaxSubmits : (n \in accepted) ~> (n \in finished \/ ctxDone \/ crashed)

\* Stop returns, in one way or the other, cancelled or not.
StopReturns == (stop # "notCalled") ~> (stop \in {"graceful", "timeout"} \/ crashed)

\* A call of Submit that waits for room is let go on, unless the context is
\* cancelled or the process dies.
SubmitReturns ==
    \A s \in Submitters :
        (\E i \in DOMAIN parked : parked[i].submitter = s)
            ~> (s \notin Waiting \/ ctxDone \/ crashed)
===============================================================================
