# TLA+ models of the hybrid runtime blockchain engine

The program follows an Ethereum node over a WebSocket, applies each block to an
account map kept by a Rust core, and undoes blocks when the chain reorganises. A
Go process does everything around the core: streaming, a pool of workers, reorg
detection, shutdown, metrics and a JSON-RPC introspection server.

These modules model the parts of the program that decide what the state is and
whether the process comes to an end. TLC checks them on small instances, and TLAPS
proves their safety properties and refinements for every instance.

## 1. The system

### Parts, their state and their operations

| Part | Source | State | Operations |
|---|---|---|---|
| State engine | `rust-core/src/state.rs` | account map, block number, state root, history of at most 10 snapshots | `apply_block`, `rollback_to`, `calculate_state_root` |
| FFI boundary | `internal/ffi/` , `rust-core/src/ffi.rs` | `lastBlockNumber` on the Go side, a mutex on both sides | `InitEngine`, `ApplyBlock`, `RollbackTo`, `GetStateRoot`, `GetStats` |
| Serialization | `internal/ffi/serialization.go`, `rust-core/src/ffi.rs` | - | `SerializeBlock`, `DeserializeBlock`, `deserialize_block` |
| Ring buffer | `internal/reorg/engine.go` | 10 slots, index, size | `Add`, `Get`, `Latest`, `Truncate` |
| Reorg engine | `internal/reorg/engine.go` | the buffer, the recorded reorgs (under a mutex) | `ProcessBlock`, `DetectReorg`, `findForkPoint`, `HandleReorg` |
| Worker pool | `internal/worker/pool.go` | bounded channel, stop channel, wait group, counters | `Start`, `Submit`, `Stop`, `worker`, `processBlockSafe` |
| Streamer | `internal/streamer/streamer.go` | connection, stop channel, context, channel of blocks | `Start`, `Stop`, `connectWithRetry`, `streamWithReconnect`, `streamBlocks`, `fetchFullBlock` |
| Main, shutdown manager | `cmd/server/main.go`, `internal/shutdown/` | registered functions | wiring, forwarder goroutine, `Shutdown` |
| MCP server | `internal/mcp/` | rate counters per method, handlers | `handleRequest`, `Allow`, `Validate`, `Stop`, eleven tools |
| Load tester | `internal/loadtest/` | one metrics object for all tests | `RunLoadTest` |
| Metrics collector | `internal/metrics/` | gauges, histograms | HTTP endpoints, periodic collection, `Stop` |
| Configuration, logging | `internal/config`, `internal/logging` | - | read once; output only |

### How they interact

```
 node --ws--> Streamer --chan(100)--> forwarder --Submit--> chan(2*workers) --> workers
                                                   ^                               |
 MCP request --> handler --> LoadTester ---Submit--+                    ReorgEngine.ProcessBlock
                                                                                   |
                                                   ring buffer (no lock)  <--------+--> FFI (mutex) --> Rust core
```

A block passes through two channels and then through `ProcessBlock`, which is
called by every worker at once. `ReorgEngine.mu` covers the list of recorded
reorgs only; the ring buffer has no lock; every call into Rust holds `FFI.mu`.

### What is hard

- *Concurrency.* Several workers in `ProcessBlock`; a channel that is closed while
  others send on it; a connection that is replaced while `Stop` closes it; requests
  on the same rate counter; load tests on the same metrics; readers who ask for the
  root and the block number in two calls.
- *Partial failure.* A transaction fails in the middle of a block; the replay after
  a rollback fails; one shutdown function fails; a panic in a worker.
- *Delivery.* Lost connections, skipped and repeated blocks, two kinds of messages
  read from one socket, requests that all have the same id, deadlines, a node that
  reorganises between an announcement and the answer to the request it causes.
- *Bounds.* The ring buffer and the history wrap; the channels fill up; windows of
  the rate limiter end.
- *Two copies of one fact.* The block number in Go and in Rust; the chain in the
  ring buffer and in the history of the core; the bounds of a parameter in the
  validator and in the tool; the layout of a block in the encoder and two decoders.

`PROJECT.json` lists these hazards with the line at which each one bites.

### What makes each part correct

- Core and FFI: the state is a function of the accepted blocks; the two block
  numbers agree; the history is bounded and has no gaps; a block is executed as it
  was given to the encoder.
- Reorg engine: the accepted blocks form a chain; the ring buffer reflects it; a
  block is replaced only by a recorded reorg.
- Pool: nothing that was accepted is lost; a caller waits only when the channel is
  full; `Stop` returns, and when it says that it was graceful it has drained.
- Streamer: blocks go out in order and once, with transactions of their own height; a
  lost connection is replaced; `Stop` ends it.
- Program: a signal leads to an exit; exit status 0 means that nothing was lost; a
  panic does not end the process.
- MCP server: a bound on bursts; no refusal without cause; validator and tools agree; a
  root is not reported with the number of an older block.
- Load tester: a test reports its own blocks.

## 2. Modules

| Module | Models | Kind |
|---|---|---|
| `StateEngine` | `state.rs`, `Block.Hash` of `types.go` | operators on an engine value |
| `Ledger` | accounts and transactions (`types.rs`, `apply_transaction`) | operators; defines `Execute` |
| `FFI` | `ffi.go`, `validation.go` | operators on an FFI value |
| `Serialization` | `serialization.go`, `deserialize_block` | operators on sequences of bytes |
| `RingBuffer` | `RingBuffer` of `engine.go` | operators on a buffer value |
| `ReorgDetection` | `DetectReorg`, `findForkPoint` | operators; composes `FFI` and `RingBuffer` |
| `ReorgEngine` | `ProcessBlock`, one call at a time | state machine |
| `BlockContents` | `ReorgEngine` with `Ledger` and `Serialization` | what the engine shows of the contents of blocks |
| `Pipeline` | `ProcessBlock`, called by several workers, and a reader of the state | state machine; implements `ReorgEngine` when there is one worker |
| `WorkerPool` | `pool.go` | state machine |
| `LoadTester` | `tester.go`, `metrics.go` | actions on the metrics and the tests |
| `Server` | `main.go`, `shutdown.go`, the `Stop`s, load tests | state machine over instances of `WorkerPool` and `LoadTester` |
| `BlockSource` | what the streamer promises to its consumer | abstract state machine |
| `Streamer` | `streamer.go` and the node | state machine; implements `BlockSource` |
| `RateLimiter` | `rate_limiter.go` | actions on counters and requests |
| `McpServer` | `handleRequest`, `input_validator.go`, the parameters of `tools.go` | state machine; extends `RateLimiter` |
| `StateEngineProofs` | lemmas about `StateEngine`, `FFI`, `RingBuffer`, `ReorgDetection` | proofs |
| `ReorgEngineProofs`, `BlockContentsProofs`, `PipelineProofs`, `WorkerPoolProofs`, `ServerProofs`, `StreamerProofs`, `McpServerProofs` | theorems about the module of that name | proofs |
| `BlockTrees`, `MCReorg`, `MCPipeline`, `MCMcpServer` | block trees, streams, parameters, symmetry | model checking |

### StateEngine, Ledger, FFI

An engine is a record with the fields of the Rust struct. `apply_block` and
`rollback_to` return the engine they leave behind and whether they succeeded, and
keep every early return: a block out of sequence changes nothing; otherwise the
snapshot is pushed *before* the transactions run, and when one of them fails the
function returns with the earlier ones applied and the snapshot in place
(`state.rs` 92-128). `rollback_to` restores the *oldest* snapshot of its target,
cuts the history after it and keeps it (160-178), so that the next block pushes a
second one of the same number.

Executing transactions is the constant operator `Execute`. The theorems hold for
every `Execute`, except those of `BlockContentsProofs`; the runs use `Ledger`, which follows `apply_transaction`: debit
and nonce of the sender first, then the credit, each with its own error.
`MaxU256` is the largest balance. A new program funds no account, so a
transfer of zero runs and any other fails; the block trees use both, and `NothingToSpend`
(`BlockContents`) states it.

Hashes are injective: the block hash is the tuple `Block.Hash` covers (number,
parent, time, and *not* the transactions), the state root a tagged copy of the
account map. A new engine reports 32 zero bytes, which is the root of no map.

`FFI.ApplyBlock` validates (number after the last one unless that is zero; sizes)
and moves `lastBlockNumber` if Rust succeeded. A block of which the sizes are
wrong has `fits = FALSE`. `GetStateRoot` and `GetStats` only read, each under the lock
of its own call. A block that fits arrives in the core as it was sent; that this is so
is what `Serialization` is for.

### Serialization

A byte of a field is a pair: the value it belongs to and its place in it, most
significant first. So a field is read back only from all its bytes in their order, and
an offset that is wrong by one yields garbage. The encoder lays out header and
transactions field by field; the two decoders read them by the same offsets and differ
in one thing. The Rust one refuses transaction data that ends before the length it
announces; the Go one (`bytes.Reader.Read` fills what it can) refuses it only if nothing at
all is left. `deserializeTransaction` is the body of the loop over transactions and
`ReadTransactions` the loop, from `Start` behind the header. The widths of the fields are parameters, 2, 4, 1 and 3 in the runs instead
of 8, 32, 4 and 20. A field holds any value: numbers of transactions and lengths of data are
taken to fit their four bytes, which the limits of the validator (1 MB of data for a
transaction, 10 MB for a block) see to.

### RingBuffer, ReorgDetection, ReorgEngine

`RingBuffer` keeps slots, index and size with the arithmetic of the code; in
particular `Truncate(k)` moves the index to slot `k`, wherever the oldest block is.

`ReorgEngine` has one action per way through `ProcessBlock`: `Undetected` (no
buffered parent, or too deep), `Sequential` (accepted or refused), `RollbackFailed`,
`ReplayFailed` (rolled back, new block refused, buffer left as it was) and
`Reorganised`. The environment gives it any block of the constant set `Blocks` at
any time: blocks may come again, be skipped and belong to any branch. This covers
everything a streamer with reconnections can produce.

Two history variables say what the core has accepted: `chain`, the blocks, and
`replayed`, the state of a reference node after each of them. They do not influence
anything.

### Pipeline

The same code cut into the steps between which another worker may run: each FFI
call is one step (it holds `FFI.mu`), and each load and each store of a field of the ring
buffer is one. What a worker has loaded is in its local state: what it asks `Get` for (`idx`), the size that
was compared (`size`) and a register (`reg`).
The accesses of workers race, and where an expression names a field twice with nothing in
between, the compiled code may load it again or keep the first value: `AddNext` and `Position` allow both.
`ReadSize` to `ReadSlot` are `Size`, `Latest` and `Get`, which the code calls three times: for the newest block,
for each block of the scan, and for the tip in `HandleReorg`; `LatestIs`, `ScanMeets` and `TipIs`
say what becomes of the block that was found.

The comparison and the increment of `size` in `Add` are separate loads (`AddCheck`, `AddGrow`), so workers
can push `size` past the buffer (section 5). `Get` then computes a wrong slot or a negative one, and the
latter panics: the pool recovers and the block in hand is dropped (the early return in `Position`). The index is stored modulo
the size of the buffer by `Add` and by `Truncate`, and is a slot at all times.

In a pool of one, `before` records the shared state
when the worker is not in `ProcessBlock`; it is the refinement mapping to `ReorgEngine`.

A behaviour starts from one of `Setups`: a pool, a stream of blocks, and whether somebody
reads the state meanwhile. The reader (`ReadState`) stands for the tool `get_state_root`,
the endpoint `/debug/state` and main after a signal, which all ask for the root first
and then, in another call, for the statistics.

### WorkerPool, Server

A Go `select` is one step. If no case is ready the goroutine is parked, and the
step that makes a case ready completes it: a receive completes the send of the
submitter that has waited longest, closing `stopCh` lets all of them go. A send on a
closed channel panics; in a request handler `net/http` recovers it, in the
forwarder goroutine it ends the process (`crashed`). Before `Start` the channel is
nil and a send on it waits for `stopCh` alone. `ProcessBlock` may return nil, return
an error or panic; after a panic the worker goes back to its loop. `Stop` closes the two channels in two
steps, then waits for the workers or gives up.

`Server` instantiates `WorkerPool` and adds main: the order in which parts are
started (the MCP server is listening before the pool is started), the signal, and
`Manager.Shutdown`, which runs the functions in reverse order of registration and
returns at the first error. It composes `LoadTester` with the pool: a submission of a
test is a step of both, and `SubmitReturns` hands the test what the pool made of its block.

### LoadTester

There is one `LoadTester` and every request `run_load_test` runs in it. `metrics` is what
`lt.metrics` points to: replaced by every test that begins and looked up again for every
latency, for `Stop` and for the result. `test` holds the calls of `RunLoadTest`. Of the
latencies the number is kept, of the two samples of collections and memory whether the
second has been taken. A test ends at its time, at the deadline of its context or
by a panic in `Submit`, which `net/http` recovers.

### Streamer

`pc` is the place of the streaming goroutine; `conn` is `open`, `failed` (all reads
fail; so does every read after a read deadline) or `closed`. `wire` holds the
messages on their way. The node is external: its chain grows or is cut back and goes on
(`height`), it announces heads to subscribers, answers a request for a block with the
one it has at that height *now*, or with an error or null, and the connection may be
lost at any time. A block that goes out is a pair of serials: the announcement its header
is from (`head`) and the announcement of the block its transactions are from (`body`), or
none. `Stop` runs in three steps concurrently with the goroutine, including the
window between a successful dial and the store of the new connection.

`BlockSource` says what of this a consumer sees: the node's heads, the blocks sent
and whether the channel is closed. It delivers any later head at any time, with the
transactions of any block the node has had at that height since, or none. The streamer implements
it with `closed <- blocksClosed`, the other variables having the same names. Gaps,
repeated numbers and branches are what `ReorgEngine` is then given: its environment
is any sequence of blocks.

### RateLimiter, McpServer

`Lookup` is the part of `Allow` under the lock of the map, `Decide` the part under
the lock of the counter; time may pass and other requests may run between them.
`McpServer` adds what follows in `handleRequest`: `Validate`, the lookup of the handler, and
the tool's own reading of its parameters (`ToolParams`). `Answers` is the set of
answers a request may get, with the numbers the tool works with. JSON numbers are
floating-point, so they are given in halves: 0.5 and 10000.5 lie between what the
validator compares and what the tool truncates.

## 3. Runs

| Run | Module | Result | Question |
|---|---|---|---|
| `below_wrap` | MCReorg | pass | While the buffer has not wrapped: is the accepted chain linked, does the buffer hold it, is every replacement recorded, does every block survive its encoding, does money ever appear? |
| `past_wrap` | MCReorg | pass | Past the wrap of buffer and history: do block numbers, history, state and root stay right? |
| `wrap_linked` | MCReorg | violation of `Linked` | Is the chain still linked past the wrap? No. |
| `partial` | MCReorg | violation of `RootIsReplay` | Is the root a function of the accepted blocks when a block fails half way? No. |
| `node_hashes` | MCReorg | violation of `ChildIsSequential` | Does the engine recognise the child of a block from a real node? No. |
| `pipeline` | MCPipeline | pass | Do the small steps of one worker implement `ReorgEngine`, and is its chain linked between calls? What survives two or three workers that race in the ring buffer? What does a reader get? Does every call return? |
| `pipeline_order` | MCPipeline | violation of `AppliedInOrder` | Do two workers apply consecutive blocks completely? No. |
| `pool` | WorkerPool | pass | Backpressure, draining and termination with panics, a cancellation and a `Stop` at any time. |
| `server` | Server | pass | What does exit status 0 promise, does every signal lead to an exit, when can a panic end the process, what does a load test report? |
| `streamer` | Streamer | pass | Does the streamer implement `BlockSource`, reconnect and stop, under lost connections, timeouts and reorgs of the node? |
| `streamer_dropped` | Streamer | violation of `NoAnnouncementDropped` | Does every announcement that is read go out? No. |
| `mcp` | MCMcpServer | pass | How many calls get through, is every refusal deserved, do validator and tools agree? |

### Bounds, and why they are enough

- `below_wrap`: `MaxReorgDepth = MaxHistorySize = 4`, a tree of height 4 with two
  branches of two blocks, two blocks that fail in the core, one the validator
  refuses and one with two transactions, at most two recorded reorgs. For the encoding,
  blocks with none, one and two transactions, with and without data, and every proper prefix of
  their bytes. Two branches are what it takes to leave a
  branch and come back; the failing blocks reach the replay that fails after
  the rollback.
- `past_wrap`, `wrap_linked`: sizes 3 and a chain of 7 with a branch at every height,
  so buffer and history wrap twice, and three reorgs, so that duplicate snapshots pile up in a
  history of three. Every failing block in `past_wrap` fails at its first
  transaction; `partial` has one that fails at its second.
- `node_hashes`: three blocks of one chain; two are enough.
- `pipeline`: a buffer of three. One worker on every sequence of up to five blocks from a set of seven (two
  branches, a failing block, a branch on the second block), repetitions and gaps included, so that a chain fills
  the buffer and a reorg truncates it. Two workers on every sequence of three blocks of two branches that begins with the first,
  on four longer ones, and on one of five blocks that wraps the buffer and reorganises it then; three
  workers on three short streams; and two with a reader. Two is the least number that
  races, three lets one block overtake two others. The stream of five is what it takes for `size` to
  exceed the buffer and for a `Get` to panic then. `pipeline_order`: three consecutive blocks.
- `pool`: two workers make a channel of capacity 4; five submissions fill it and
  park one caller. `server`: one worker, capacity 2, three submissions by the forwarder and two
  handlers: before the worker has taken a block, two fill the channel and the third
  parks its caller. Two handlers are what it takes for load tests to overlap, and each
  may run one test after another.
- `streamer`: a channel of one block, two dial attempts, three heads: enough to fill
  the channel, to exhaust the attempts, to announce a head during a fetch before
  and after a reconnection, and to have a block replaced by a sibling while it is
  being fetched.
- `mcp`: limit 2 and a window of two ticks over four, so that two windows and the
  seam between them are covered; two requests may be between `Lookup` and `Decide`. The
  requests name one tool or two, of each kind of parameters, or an unregistered one; the parameters
  are at and next to every bound, of a wrong type, missing, and under both names at
  once.

`MaxReorgs`, `MaxSubmits`, `MaxHeads` and `MaxTime` bound behaviours; the code has no
such bounds. `CHECK_DEADLOCK FALSE` is given where the system, or a bounded
behaviour of it, may stop: the streams of Pipeline end, programs exit, the clock
stops.

### Fairness

- `Pipeline`: weak fairness of `Next`. Nothing in `ProcessBlock` waits for anything but a
  mutex that its holder gives back, and its only loop, the scan of the buffer, counts down, so that any
  worker's progress is progress of all.
- `WorkerPool`, `Server`: weak fairness of each worker, of main and of `Stop` once
  called: the Go scheduler runs what can run, `ProcessBlock` returns, and the
  timeouts of `Stop` and of the shutdown functions fire. Nobody is required
  to call `Submit` or `Stop`, to send a signal, or to end a load test.
- `Streamer`: weak fairness of the goroutine, whose dials and fetches have
  deadlines, of `Stop` once called, and of the forwarder (`Submit` returns, run
  `pool`). About the outside world: a node that is asked answers, and a node that is
  dialled again and again is reached some time. `Reconnects` needs the latter;
  `StopEndsStream` needs the former in one case, in which `Stop` closes the
  old connection just before the new one is stored and the goroutine sits in
  `ReadMessage` until something arrives.

### Liveness and crashes

The liveness properties of `WorkerPool` and `Server` allow for `crashed`: the forwarder may
panic in `Submit` (section 5), and then the process has ended without draining.
`CrashOnlyInShutdown` says that this is the only way a panic ends it, and that it can only
happen once `Stop` has closed the channel.

## 4. Proofs

TLAPS proves every safety property of the passing runs, for every value
of the constants that the named assumptions allow, and both refinements. Each component has an inductive invariant, which TLC has
checked as an invariant of the component's run before it was proved (those of `BlockContentsProofs`
are the checked properties themselves, said of a set of account maps).

| Module | About | Theorems | Inductive invariant |
|---|---|---|---|
| `StateEngineProofs` | the operators of core, FFI and buffer | lemmas only | - |
| `ReorgEngineProofs` | `ReorgEngine` | `TypeCorrect`, `MirrorCorrect`, `HistoryCorrect`, `StateCorrect`*, `RootCorrect`*, `RecordedCorrect`, `LinkedCorrect`*, `RingHoldsChainCorrect`* | `IInv`, `StatesInv(S)` with `ReplayInv`, `LinkedInv` |
| `BlockContentsProofs` | `BlockContents` | `CrossesCorrect`, `NothingToSpendCorrect`, `LedgerStateCorrect`* | `StatesInv(Penniless)` with `FreeChain` |
| `PipelineProofs` | `Pipeline` | `PipelineTypeCorrect`, `PipelineMirrorCorrect`, `PipelineHistoryCorrect`, `PipelineStateCorrect`*, `RootNotAheadCorrect`, `OneWorkerRefines`, `OneWorkerLinked`* | `PipeInv`, `StatesInv(S)` with `ReplayInv`, `SoloInv` |
| `WorkerPoolProofs` | `WorkerPool` | `PoolTypeCorrect`, `WaitsCorrect`, `NothingLostCorrect`, `DrainedCorrect` | `PoolInv` |
| `ServerProofs` | `Server` | `ServerRunsPool`, `ServerTypeCorrect`, `CleanExitCorrect`, `TestsEndFirstCorrect`, `AloneReportsCorrect`, `CrashCorrect` | `ServerInv` with `PoolInv` |
| `StreamerProofs` | `Streamer` | `StreamerTypeCorrect`, `ClosedCorrect`, `OrderCorrect`, `BodyCorrect`, `StreamerRefines` | `StreamInv` |
| `McpServerProofs` | `McpServer` | `LimiterTypeCorrect`, `BurstCorrect`, `RefusedCorrect`, `CheckedCorrect` | `LimiterInv` |

A star marks a theorem with a hypothesis that the program does not guarantee; it stands in the
theorem and not in an `ASSUME`:

- `FailuresLeaveNoTrace(S)`: in the states of some set `S` a block that fails leaves the state as
  it found it. `S` holds the state of a new engine, and blocks do not lead out of it. (Asked of *all* values
  a state might have, this would be false of the ledger itself, which takes money from whoever has it before the credit
  overflows.)
- `FailsAtOnce`: a block that moves money does so in its first transaction. It is what `FailuresLeaveNoTrace`
  comes down to for the ledger, and what the blocks of `past_wrap` satisfy.
- `BelowWrap` and `WellNumbered`: no block number above `MaxReorgDepth`; a block is numbered one
  above its parent.

`RunsLedger`, the hypothesis of `NothingToSpendCorrect`, only says that the parameters `Execute` and `Genesis` are those of
`Ledger`, as in all runs.

### Assumptions on the constants

Blocks have positive numbers (`BlocksAssumption`: the streamer drops block zero); buffer and history
hold at least one entry (`DepthAssumption`, `HistoryAssumption`; 10 in the code); nil is not a block
(`NoBlockAssumption`). A pool has 1 to 256 workers (`WorkersAssumption`, `PoolAssumption`: the range the configuration
allows), in `Pipeline` any number. There is at least one dial attempt (`AttemptsAssumption`), limit and window of
the rate limiter are positive (`LimitAssumption`), and a JSON number is a number
(`ParametersAssumption`). `SetupsAssumption` makes `MaxReorgs` no bound: no stream of `Pipeline` is
longer. `SubmitsAssumption`, `HeadsAssumption` and `TimeAssumption` say that the bounds on behaviours are natural
numbers; since they may be any, the theorems bound nothing. `Execute` is any operator.
In `BlockContents` the widths of fields are positive (`WidthsAssumption`) and transactions are records of
four fields with a sequence for data and a natural number for value (`TransactionsAssumption`: the
Go struct); the largest balance is a natural number (`U256Assumption`).

### The core, one call at a time

**`StateEngineProofs`** holds the lemmas on FFI, core and buffer as values, in the order of the code: `PushedHistory` and
`CutHistory` for the two changes to the history, `ApplyBlockWellFormed` and `RollbackWellFormed` for the
FFI calls, `RollbackThenApply` for the body of `HandleReorg`, `ForkPointType` for what a scan finds, and
`ApplyBlockMatches` and `RollbackMatches` for the account maps. They do not mention a
variable, and the modules on `ReorgEngine` and `Pipeline` both cite them.

**`ReorgEngineProofs`.** `TypeCorrect`, `MirrorCorrect` and `HistoryCorrect` follow from
`IInv`: the ring buffer is well typed, the FFI is well formed
(`WellFormed`: both numbers agree, the history is bounded, sorted, has no gaps and ends
at the current block or the one before), the accepted blocks are numbered from one
on, and the core's number is their count. None of the three properties is inductive
alone: that a rollback leaves `Len(chain)` equal to the block number needs the fork point to
be at most that number, which needs the snapshot that was found to be one of a
history that ends at the tip; and that a cut leaves a history in shape needs the number of
every entry to be bounded by its successor's.

`StateCorrect` and `RootCorrect` say that state and root are those of a replay of the
accepted chain from genesis. The invariant `ReplayInv` says it of the engine *and of
every snapshot*, each against the replayed state of its own block number. They assume
`FailuresLeaveNoTrace(S)`, and `StatesInv(S)` says that engine and snapshots stay in `S`. The code
does not provide that (run `partial`); the theorems say that nothing else is
missing. In particular duplicate snapshots, failed replays and a full history
do no harm.

`RecordedCorrect` is the action property `ReorgsAreRecorded`. It needs no hypothesis, so it holds
past the wrap, where `Linked` fails: the record of a reorg is right even when the
block was put on a wrong branch. The depth is read from the buffer and the blocks abandoned are
the core's; that the two agree whenever the newest buffered block has the tip's number follows
from the fork point being at most `Len(chain)`.

`LinkedCorrect` and `RingHoldsChainCorrect` assume `BelowWrap` and `WellNumbered`. The invariant `LinkedInv` says that slot `i` holds block `i + 1` of some
chain linked by parent hashes, of which the accepted chain is a prefix; the rest are blocks of a branch that a failed
replay has left. Without `BelowWrap` the theorem is false (run `wrap_linked`).

### The contents of blocks

**`BlockContentsProofs`** is about the two loops over the transactions of a block, the one that runs
them and the one that reads them from bytes. The provers cannot instantiate an induction rule with a
predicate, so induction is stated of sets: `SetInduction` (from `NatOrdered`, that the natural numbers are well
ordered) says that a set with zero and all successors is `Nat`, and an invariant of a loop is
proved for the set of rounds at which it holds. That the functions the loops define recursively exist
is shown in the same way (`FlattenRec`, `ReadRec`, `RunRec`).

*Ledger.* `Penniless` is the set of account maps in which all balances are zero. A transaction
leads out of it neither when it runs nor when it fails (`PennilessTransaction`), so a block does not
(`PennilessBlock`), however many transactions it has, and a block that moves money fails. With that
`NothingToSpendCorrect` is a matter of `StatesInv(Penniless)` and of what `ProcessBlock` accepts
(`NextFree`), rollbacks to any snapshot included. `LedgerNoTrace` shows that `FailuresLeaveNoTrace(Penniless)`
holds of the ledger when blocks that fail do so at once. So the hypothesis of `StateCorrect` is one that an actual
ledger meets, and `LedgerStateCorrect` is what follows.

*Serialization.* `At(data, o, s)` says that the bytes `s` stand in `data` behind offset `o`. `FieldAt`
reads one field; `TransactionAt` and `BlockAt` give the offset of every field of a transaction and of the header;
`FlattenAt` gives the offset of every transaction, the sum of the lengths before it. `ReadOne`
is the body of the decoder's loop at such an offset: either the whole transaction is there and is read,
or the strict decoder fails. It is stated of data that begins as the encoder's does (`Begins`), which covers
the bytes themselves and all their prefixes. `ReadAll` is the loop: by induction the transactions before
round `k` have been read, and the offset is that of transaction `k + 1`, unless the data ended before it.
`CrossesCorrect` follows with the header (`DecodeBlock`), for every block and so for every accepted one. It has
no hypothesis besides the assumptions on the constants.

### Any number of workers

**`PipelineProofs`.** `PipeInv` says of the core what `IInv` says, and of the buffer only that each
field keeps its type, since loads and stores of several workers interleave in it: slots hold blocks or nil,
the index is a slot, the size is a number and, as in the code, no more than that (`PipelineTypeCorrect`). For the
index this needs `Sound`: a worker at a place where its register is used as a slot has one in it, wherever the
value was loaded. A worker that is about to
roll back or to apply therefore knows nothing of the core: that the numbers and the history
survive is because each FFI call checks again, which is what the value-level lemmas state for
*any* fork point and *any* block. `RootNotAheadCorrect` needs `QueryOK`: since the reader asked for the
root, unless the core went back, the chain is no shorter, and if it is no longer the root is still the same. For that `RootsAgree`
is needed: two snapshots of one number have one root, and it is the root of the engine if the number is,
so that rolling back to the current block changes nothing.

`OneWorkerRefines` is the refinement of `ReorgEngine` by a pool of one. `Solo` says, for each of the
21 places of a worker, what the engine is now in terms of the block in hand and of the engine when it
was taken; for instance at `truncateIndex` the core has accepted the block after a rollback to
the fork point `DetectReorg` found, the size of the buffer is that of `Truncate` and its index is still the old one. While it
reads, `Sought` says what the worker knows already of the newest block and the fork point, and `Asking` which position it asks
for: that of the newest block or, in the scan, one above which the parent is not, so that the scan stops where
`findForkPoint` does (`ScanFinds`, `FoundAlone`). Steps that
stay in `ProcessBlock` keep `Solo` and are stutters (`DetectingGoesOn`, `CallingGoesOn`, `TruncateGoesOn`,
`AddGoesOn`); steps that leave it complete one of the five actions of `ReorgEngine` (`Returns`). That
a field loaded again has not changed, and that the size is within the buffer between calls (`RingOK`), is part of it. `EventsOK`
counts blocks against events, so that the bound in `Reorganised` is never met. With more
workers `before` does not change and nothing is claimed.

`OneWorkerLinked` carries `LinkedCorrect` and `RingHoldsChainCorrect` over to the small steps: `Between` is the module
`ReorgEngineProofs`, theorems included, with the mapping of the refinement, and `SameEngine` says that its specification
is the one `OneWorkerRefines` implements. Whenever the worker is not in `ProcessBlock`, `before` is the
engine (`SoloInv`), and what holds of the one holds of the other.

### Pool and program

**`WorkerPoolProofs`.** That a graceful `Stop` has drained needs the accepted blocks to
be accounted for (`Accounted`: finished, in the channel or in a worker's hands) and every
worker that has left to have seen a closed and empty channel. The channel stays
empty only because nobody is parked once it is closed, which is where
`WaitsOnlyWhenFull` and the order in which `Stop` closes the channels (`StopOrder`)
come in. `NothingLost` and `DrainedWhenGraceful` say nothing after a
cancellation: a worker that finds its context cancelled drops the block in its hand.
The program itself never cancels that context (`MainOK` of `ServerProofs`).

**`ServerProofs`.** `ServerRunsPool` says that `Server` implements `WorkerPool`: whatever main, the forwarder and
the load tests do is a step of the pool or leaves it alone. So `PoolInv` is an invariant of the
program, and `CleanExitCorrect` follows from `DrainedWhenGraceful` once it is known that exit status 0
implies a graceful stop (`MainOK`). `AloneReportsCorrect` needs `AloneOwns`: a test that has met no other is the only
one, and the shared metrics are its own, at each place of `RunLoadTest`.

### Streamer

**`StreamerProofs`.** `StreamInv` follows a head from the wire to the consumer. `HeadsOK`: announcements on the wire are
in order and later than the one in hand, which is later than all that went out; this gives `OrderCorrect`. `AnswersOK`: on a connection
that works there is at most one answer with a block, the goroutine is in the fetch that asked for it, and its block is as high as the head
in hand and not older; this gives `BodyCorrect` although all requests have the same id, and
it holds because a fetch that gives up leaves a connection on which every read fails. `StreamerRefines`: sending to the channel
is a step `Deliver` of `BlockSource`, a new head of the node is `Announce`, the end of the goroutine is
`Close`, and everything about connections is a stutter.

### MCP server

**`McpServerProofs`.** `LimiterInv` says how a counter accounts for the calls it let through (`Accounts`): the last `count` of them fell
in its window, all earlier ones before it, and all but `Limit` of those a whole window before
it. The last part is what makes twice the limit a bound (`BurstCorrect`) when a window begins late. `RefusedCorrect`
needs that a counter is created once and never lost, so that a request holding it between `Lookup` and `Decide` looks at the
current one. `CheckedCorrect` compares, tool by tool, the bounds that the validator checks on a number in halves with those
that the tool checks on its integer part.

### Checked by TLC only

Liveness and everything that needs fairness: `EverythingProcessed`, `AcceptedIsFinished`, `StopReturns`, `SubmitReturns`,
`SignalEndsProgram`, `Reconnects`, `StopEndsStream`. TLAPS does not reason about `ENABLED`. Conversely, the type
invariants of `Server` and `McpServer` are proved and in no run. The
properties of the violation runs are false, and so not proved either.

## 5. Where code and documentation part

With a run (`findings` in `PROJECT.json`):

1. `Truncate(int(forkPoint))` (`engine.go:218`) keeps the wrong slots once the buffer has
   wrapped, and a block is later executed on a block that is not its parent
   (`wrap_linked`).
2. A block that fails after its first transaction changes the root of later blocks
   (`state.rs:118`, `partial`): they are not those of a core that was given the accepted blocks only
   (`docs/requirements.md:83`), nor those it has after rolling back past the failed block and
   applying the accepted ones again (`docs/requirements.md:85`).
3. With several workers a block that overtakes its parent is refused and nobody
   retries it (`engine.go:133`, `pipeline_order`).
4. `fetchFullBlock` reads announcements and throws them away (`streamer.go:395`,
   `streamer_dropped`).
5. `Block.Hash` (`types.go:93`) is a SHA-256 of number, parent hash and time, and is compared
   with the parent hash the node sent, a Keccak-256 of the parent's header. Of a chain from a
   real node, and of the blocks a load test generates, only the first is
   accepted (`node_hashes`). The other runs of the engine use blocks that name their parents by
   `Block.Hash`, as the repository's tests do: they say how the engine handles a chain it recognises.

Met while modelling, without a run of their own:

- Rollback keeps the snapshot of its target and the next block pushes another
  (`state.rs:175`), so after reorgs the history holds fewer than
  `MAX_HISTORY_SIZE` distinct blocks; `README.md:167` says "the last 10
  state snapshots (matching max reorg depth)".
- With two workers `Linked` fails even below the wrap: the branch is
  checked against the buffer and the number against the core, at different times.
- `RingBuffer.Add` compares `size` with `MaxReorgDepth` and increments it in separate loads (`engine.go:63-64`), so
  with several workers `size` may exceed the ten slots; `Get` (`engine.go:75`) may then compute a negative
  slot and panic, which the pool recovers, and the block in hand is dropped. `engine.go:43` calls it a "fixed-size circular
  buffer". What holds is that the index stays a slot (`TypeOK` of `Pipeline`).
- `Submit` may panic after `Stop` has closed the channel: its `select` finds both the
  closed `stopCh` and the closed `blocks` ready (`pool.go:75-82`). The comment at
  `pool.go:89` says that `stopCh` is closed first "so Submit() returns an error immediately".
- A load test that arrives before `Start` waits on a nil channel until `Stop`
  (`main.go:98` before `main.go:116`).
- `Shutdown` returns at the first error (`shutdown.go:62`), although its comment
  (`shutdown.go:48`) says that it "executes all registered shutdown functions"; after an MCP server with a
  long load test has timed out, the pool is not drained. Module `Server` has this path: it
  ends with exit status 1.
- Reverse order stops the streamer last (`main.go:61`), while `docs/requirements.md:242`
  has it stop accepting blocks when shutdown begins.
- The final state is logged before the pool is drained (`main.go:153`), while
  `docs/requirements.md:245` says "when shutdown completes".
- The full block is asked for by number (`streamer.go:346`), so after a reorg of the node
  a header may go out with the transactions of its sibling. `BodyFitsHead` and
  `BlockSource` are what holds: they are of a block of the same height and no older.
- The core takes no first block but number 1 (`state.rs:94`), so that nothing of a stream that starts at
  the head of a live chain is accepted.
- No account is ever funded outside tests (`StateEngine::new`, `state.rs`), so that of a real chain the core
  executes no block that moves money (`NothingToSpend`).
- Every number of a reader may be newer than its root, and after a rollback older
  (`tools.go:328`; `RootNotAhead` is what holds).
- Load tests that overlap share their metrics (`tester.go:67`), and may report a
  difference with a sample that was never taken; `docs/requirements.md:218` has a load
  test measure its own latency and throughput. `run_load_test` itself returns a message only (`tools.go:499`), while
  `docs/requirements.md:194` has it return latencies and throughput, and it does so after the
  10 seconds of the server's `WriteTimeout` (`mcp/server.go:74`) have passed.
- The Go decoder takes data that is cut inside the data of a transaction for a block and fills up with
  zeros (`serialization.go:202`); only tests use it.
- `free_buffer` rebuilds a vector with a capacity equal to its length (`rust-core/src/ffi.rs:202`),
  while the one that `get_stats` gave away may have had a larger one.
- The validator allows limits that the tools then cut (1000 against 100, 10000 against
  1000).
- A reorg deeper than the buffer is an error for its block (`engine.go:174`); processing goes on, while
  `docs/requirements.md:61` says "halt processing".
- `validate_determinism` is a placeholder (`tools.go:410`), and nothing calls `RecordReorg`,
  `RecordBlockProcessed`, `RecordRustApplyBlock` and `RecordWorkerPanic` of the collector or feeds the
  latency trackers of the tools.
- A connection that fails is dialled up to five times, and then, after a pause, five times more, without
  end (`streamer.go:176-197`), while `docs/requirements.md:35` says "retry connection with exponential backoff up to 5
  attempts" and `docs/design.md:964` likewise. Only the first connection, in `Start`, is given up after five
  attempts. `Reconnects` and `ClosedOnlyByStop` are about what the code does.
- If `Stop` closes the connection just before a new one is stored, `isConnected` stays
  true (`streamer.go:119`).
- The limiter counts in fixed windows, so up to twice the limit gets through in one minute
  around a seam (`BurstBound` is the bound that holds); `docs/requirements.md:196` says a "maximum
  10 requests per minute per tool".
- A comment at `pool.go:141-143` says that a worker exits after a panic and is
  restarted; it goes on with its loop.
- After a failed replay the newest buffered block is one of the branch that was left,
  and the depth recorded by the next reorg counts from it.

## 6. What is not modelled

- U256 arithmetic byte by byte: balances are bounded numbers.
- The tools and endpoints that read Go runtime statistics or latency trackers, the gauges and
  histograms of the collector: output only, and in part never fed. Of the tools that read the
  engine, `get_state_root` is in `Pipeline`; the others read one value.
- What is in a generated block, the percentiles of a load test, and its report (`report.go`),
  which only tests produce.
- Configuration (read and checked once, before anything else runs) and logging.
- `RateLimiter.Reset`, which only tests call.
- The hand-over of buffers between Rust and Go: nothing of it outlives a call.
- Parsing of JSON and hexadecimal numbers.
- Time, except as nondeterminism (every timeout may fire) and in `RateLimiter`.

A composition of `Streamer` and `ReorgEngine` would show nothing that the parts do not: the
environment of `ReorgEngine` is any sequence of blocks, which includes whatever
`BlockSource` can deliver.

## 7. Plan

Done, in this order: core and FFI; ring buffer, detection and `ReorgEngine`; its
proofs; `Pipeline` with its refinement; `WorkerPool`; `Server`; `Streamer`;
`RateLimiter`; the proofs about `WorkerPool`; `Serialization`; `BlockSource` and the contents
of blocks in `Streamer`; the reader in `Pipeline`; `LoadTester`; `McpServer`.

Then the proofs about `Streamer`, `Pipeline` with its refinement of `ReorgEngine`, `Server` on those of
the pool, `McpServer` with the rate limiter, and `ReorgsAreRecorded`.

Last, `Linked` carried over to a pool of one worker, and `BlockContents` with its proofs: the encoding
for all widths and blocks, and what the ledger's transactions can and cannot do.

Not done, and what it would take: the properties of termination of `WorkerPool` and `Streamer` for every
instance, which need a prover that handles `ENABLED`; balances as bytes with carry and borrow instead of bounded numbers.
