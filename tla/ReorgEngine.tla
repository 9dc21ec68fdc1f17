----------------------------- MODULE ReorgEngine ------------------------------
(***************************************************************************)
(* The reorg engine (internal/reorg/engine.go) over the FFI and the Rust   *)
(* core, driven by one worker: ProcessBlock runs from its first line to    *)
(* its last before the next block is taken (WORKER_COUNT=1).  Module       *)
(* Pipeline drops that restriction.                                        *)
(*                                                                         *)
(* The environment hands over any block of Blocks at any time: a streamer  *)
(* that reconnects may repeat blocks or skip some, and the node announces  *)
(* blocks of competing branches in whatever order it adopts them.          *)
(***************************************************************************)
EXTENDS ReorgDetection

CONSTANT MaxReorgs   \* bound: reorgs recorded in a behaviour

VARIABLES
    ringBuffer,   \* ReorgEngine.ringBuffer
    ffi,          \* ReorgEngine.ffi
    reorgEvents,  \* ReorgEngine.reorgEvents; reorgCount is its length
    chain,        \* history variable: the blocks whose application the core
                  \* has accepted and not rolled back, oldest first
    replayed      \* history variable: replayed[i] is the state of a node that
                  \* started from Genesis and executed chain[1], ..., chain[i]

vars == <<ringBuffer, ffi, reorgEvents, chain, replayed>>

Engine == ffi.engine

ReplayedState(n) == IF n = 0 THEN Genesis ELSE replayed[n]
-------------------------------------------------------------------------------
Init ==
    /\ ringBuffer = NewRingBuffer
    /\ ffi = NewFFI
    /\ reorgEvents = <<>>
    /\ chain = <<>>
    /\ replayed = <<>>

\* The history variables when the core keeps the first n blocks of the chain,
\* and when it accepts block b on top of them.
KeepFirst(n) ==
    /\ chain' = SubSeq(chain, 1, n)
    /\ replayed' = SubSeq(replayed, 1, n)
Accept(n, b) ==
    /\ chain' = Append(SubSeq(chain, 1, n), b)
    /\ replayed' = Append(SubSeq(replayed, 1, n), Execute(ReplayedState(n), b).state)

\* ProcessBlock: the parent is nowhere in the buffer; the block is dropped.
Undetected(b) ==
    /\ DetectReorg(ringBuffer, b).outcome = "error"
    /\ UNCHANGED <<ringBuffer, ffi, reorgEvents, chain, replayed>>

\* ProcessBlock: the block extends the newest one, or the buffer is empty.
Sequential(b) ==
    LET applied == ApplyBlock(ffi, b)
    IN  /\ DetectReorg(ringBuffer, b).outcome = "sequential"
        /\ ffi' = applied.ffi
        /\ UNCHANGED reorgEvents
        /\ \/ /\ applied.ok
              /\ ringBuffer' = Add(ringBuffer, b)
              /\ Accept(Len(chain), b)
           \/ /\ ~applied.ok
              /\ UNCHANGED <<ringBuffer, chain, replayed>>

\* ProcessBlock -> HandleReorg: the core has no snapshot of the fork point.
RollbackFailed(b) ==
    LET found == DetectReorg(ringBuffer, b)
    IN  /\ found.outcome = "reorg"
        /\ ~RollbackTo(ffi, found.fork).ok
        /\ UNCHANGED <<ringBuffer, ffi, reorgEvents, chain, replayed>>

\* ProcessBlock -> HandleReorg: rolled back, then the new block is refused.
\* The error returns before the ring buffer is brought in line.
ReplayFailed(b) ==
    LET found    == DetectReorg(ringBuffer, b)
        rollback == RollbackTo(ffi, found.fork)
        applied  == ApplyBlock(rollback.ffi, b)
    IN  /\ found.outcome = "reorg"
        /\ rollback.ok
        /\ ~applied.ok
        /\ ffi' = applied.ffi
        /\ KeepFirst(found.fork)
        /\ UNCHANGED <<ringBuffer, reorgEvents>>

\* ProcessBlock -> HandleReorg: rolled back, applied, buffered and recorded.
Reorganised(b) ==
    LET found    == DetectReorg(ringBuffer, b)
        rollback == RollbackTo(ffi, found.fork)
        applied  == ApplyBlock(rollback.ffi, b)
    IN  /\ found.outcome = "reorg"
        /\ rollback.ok
        /\ applied.ok
        /\ Len(reorgEvents) < MaxReorgs
        /\ ffi' = applied.ffi
        /\ ringBuffer' = Add(Truncate(ringBuffer, found.fork), b)
        /\ reorgEvents' = Append(reorgEvents,
                [fork  |-> found.fork,
                 depth |-> RecordedDepth(Latest(ringBuffer), found.fork)])
        /\ Accept(found.fork, b)

ProcessBlock(b) ==
    \/ Undetected(b)
    \/ Sequential(b)
    \/ RollbackFailed(b)
    \/ ReplayFailed(b)
    \/ Reorganised(b)

Next == \E b \in Blocks : ProcessBlock(b)

Spec == Init /\ [][Next]_vars
-------------------------------------------------------------------------------
(***************************************************************************)
(* Properties.                                                             *)
(***************************************************************************)

\* Every variable has its type; account maps are left untyped.
CoreTypeOK ==
    /\ ffi.lastBlockNumber \in Nat
    /\ Engine.block_number \in Nat
    /\ IsSeq(Engine.history)
    /\ \A i \in DOMAIN Engine.history : Engine.history[i].block_number \in Nat
    /\ chain \in Seq(Blocks)
    /\ IsSeq(replayed)
    /\ Len(replayed) = Len(chain)
TypeOK ==
    /\ ringBuffer.blocks \in [0 .. MaxReorgDepth - 1 -> Blocks \cup {NoBlock}]
    /\ ringBuffer.index \in 0 .. MaxReorgDepth - 1
    /\ ringBuffer.size \in 0 .. MaxReorgDepth
    /\ CoreTypeOK

(***************************************************************************)
(* The Go side's lastBlockNumber and the core's block_number, which are    *)
(* kept on the two sides of the boundary and updated by separate code, are *)
(* both the number of the last block accepted, through any sequence of     *)
(* rejected blocks, failed rollbacks and failed replays.                   *)
(***************************************************************************)
Mirror ==
    /\ ffi.lastBlockNumber = Engine.block_number
    /\ Engine.block_number = Len(chain)
    /\ \A i \in DOMAIN chain : chain[i].number = i

(***************************************************************************)
(* The snapshot history never exceeds its bound, covers a contiguous range *)
(* of block numbers ending at the current or the previous block, and has   *)
(* at least one entry once a block was accepted, whatever is rejected and  *)
(* rolled back in between.                                                 *)
(***************************************************************************)
HistoryShape == WellShaped(Engine.history, Engine.block_number)

(***************************************************************************)
(* Every accepted block names the accepted block before it as its parent:  *)
(* the core never executes a block on top of another branch.               *)
(***************************************************************************)
Linked == \A i \in 2 .. Len(chain) : chain[i].parent = Hash(chain[i - 1])

(***************************************************************************)
(* The ring buffer holds the accepted chain, oldest block first, possibly  *)
(* followed by blocks of a branch the core has already left.               *)
(***************************************************************************)
RingHoldsChain ==
    /\ Len(chain) <= ringBuffer.size
    /\ \A i \in DOMAIN chain : Get(ringBuffer, i - 1) = chain[i]

(***************************************************************************)
(* The account state of the core is that of a node that executed the       *)
(* accepted chain from genesis and saw nothing else: no rejected block, no *)
(* abandoned branch and no rollback leaves a trace.                        *)
(***************************************************************************)
StateIsReplay == Engine.state = ReplayedState(Len(chain))

(***************************************************************************)
(* The state root that the core reports is that of a node that executed    *)
(* the accepted chain from genesis: two engines that accepted the same     *)
(* blocks report the same root, whatever else each was given.              *)
(***************************************************************************)
RootIsReplay ==
    Engine.block_number > 0 =>
        Engine.state_root = calculate_state_root(ReplayedState(Len(chain)))

(***************************************************************************)
(* A step that records no reorg extends the accepted chain, leaves it      *)
(* alone or, when a replay fails, only shortens it: a block never replaces *)
(* another unrecorded.  A step that records one does so once, with the     *)
(* fork point the core went back to and, if the newest buffered block was  *)
(* the tip of the chain, with the number of blocks abandoned as the depth. *)
(***************************************************************************)
IsPrefixOf(s, t) == Len(s) <= Len(t) /\ SubSeq(t, 1, Len(s)) = s
InLine == ringBuffer.size > 0 /\ Latest(ringBuffer).number = Len(chain)
ReorgsAreRecorded ==
    [][LET fork  == Len(chain') - 1
           event == reorgEvents'[Len(reorgEvents')]
       IN  IF reorgEvents' = reorgEvents
           THEN IsPrefixOf(chain, chain') \/ IsPrefixOf(chain', chain)
           ELSE /\ reorgEvents' = Append(reorgEvents, event)
                /\ event.fork = fork /\ IsPrefixOf(SubSeq(chain', 1, fork), chain)
                /\ InLine => event.depth = Len(chain) - fork]_vars
===============================================================================
