------------------------------- MODULE Pipeline -------------------------------
(***************************************************************************)
(* The reorg engine driven by the goroutines of the worker pool, as main   *)
(* wires it (WORKER_COUNT is 4 by default).  ReorgEngine.mu covers the     *)
(* recorded events only: ProcessBlock runs concurrently with itself, and   *)
(* nothing orders its accesses to the ring buffer.  Each FFI call holds    *)
(* FFI.mu and is one step, and so is each load and each store of a field   *)
(* of the ring buffer.                                                     *)
(***************************************************************************)
EXTENDS ReorgDetection

CONSTANTS
    Setups,     \* what a behaviour may start from: the goroutines that call
                \* ProcessBlock (pool), the blocks submitted (stream), and
                \* whether someone asks for the state (asked)
    MaxReorgs   \* bound on the reorgs of module ReorgEngine

\* The bound on reorgs is none: no stream is longer.
ASSUME SetupsAssumption ==
    /\ MaxReorgs \in Nat
    /\ \A s \in Setups : s.stream \in Seq(Blocks) /\ Len(s.stream) <= MaxReorgs

VARIABLES
    inbox,        \* Pool.blocks: the blocks submitted and not yet taken
    goroutine,    \* the workers' local state
    ringBuffer, ffi, reorgEvents, chain, replayed,   \* as in ReorgEngine
    query,        \* the goroutine that reads the state
    before        \* history variable: with one worker, the last five when last
                  \* it was not in ProcessBlock

shared == <<ringBuffer, ffi, reorgEvents, chain, replayed>>
vars == <<inbox, goroutine, shared, query, before>>

Workers == DOMAIN goroutine

\* Where a worker is, its block, what it knows of the buffer (newest block,
\* fork point, recorded depth), what it asks Get for and the size it compared
\* that with, and a register.
Idle == [pc |-> "idle", block |-> NoBlock, prev |-> NoBlock, fork |-> 0, depth |-> 0,
         idx |-> 0, size |-> 0, reg |-> 0]

\* Where the reader is, what it has read, and, for the property, the height at
\* which it read the root and whether the core was rolled back since.
NotAsked == [pc |-> "none"]
Asked == [pc |-> "root", root |-> ZeroRoot, number |-> 0, height |-> 0, rolledBack |-> FALSE]

\* The engine as module ReorgEngine sees it, now and between calls.
Now == INSTANCE ReorgEngine
Atomic == INSTANCE ReorgEngine WITH
              ringBuffer <- before.ringBuffer, ffi <- before.ffi,
              reorgEvents <- before.reorgEvents, chain <- before.chain,
              replayed <- before.replayed

Shared == [ringBuffer |-> ringBuffer, ffi |-> ffi, reorgEvents |-> reorgEvents,
           chain |-> chain, replayed |-> replayed]

Init ==
    /\ Now!Init
    /\ \E s \in Setups : /\ inbox = s.stream /\ goroutine = [w \in s.pool |-> Idle]
                         /\ query = IF s.asked THEN Asked ELSE NotAsked
    /\ before = Shared
-------------------------------------------------------------------------------
\* Worker w is at pc; it goes on to another place, with what it has learnt.
At(w, pc) == goroutine[w].pc = pc
Goto(w, pc) == goroutine' = [goroutine EXCEPT ![w].pc = pc]
Learn(w, pc, field, value) ==
    goroutine' = [goroutine EXCEPT ![w].pc = pc, ![w][field] = value]
Return(w) == goroutine' = [goroutine EXCEPT ![w] = Idle]

\* What a load, and a store of a field of the ring buffer, leaves alone.
Loads == UNCHANGED <<inbox, shared>>
Stores == UNCHANGED <<inbox, ffi, reorgEvents, chain, replayed>>

Take(w) ==
    /\ At(w, "idle") /\ inbox # <<>>
    /\ Learn(w, "size", "block", Head(inbox))
    /\ inbox' = Tail(inbox)
    /\ UNCHANGED shared

(***************************************************************************)
(* DetectReorg asks for the newest block; if that is not the parent, it    *)
(* asks for one after another from the newest back; HandleReorg asks for   *)
(* the newest once more.  What each does with the block it found, or nil:  *)
(***************************************************************************)
LatestIs(w, found) ==
    LET b == goroutine[w].block
    IN  /\ goroutine[w].prev = NoBlock
        /\ IF found = NoBlock \/ (found # NoBlock /\ b.parent = Hash(found))
           THEN Goto(w, "apply")
           ELSE Learn(w, "size", "prev", found)

\* Mutant of ScanMeets: a block whose parent is not buffered is tried again.
ScanRetries(w, found) ==
    LET g == goroutine[w]
    IN  /\ g.prev # NoBlock /\ g.fork = 0
        /\ IF found = NoBlock \/ (found # NoBlock /\ g.block.parent # Hash(found))
           THEN IF g.idx = 0 THEN Goto(w, "size") ELSE Learn(w, "check", "idx", g.idx - 1)
           ELSE Learn(w, "size", "fork", found.number)

ScanMeets(w, found) ==
    LET g == goroutine[w]
    IN  /\ g.prev # NoBlock /\ g.fork = 0
        /\ IF found = NoBlock \/ (found # NoBlock /\ g.block.parent # Hash(found))
           THEN IF g.idx = 0 THEN Return(w) ELSE Learn(w, "check", "idx", g.idx - 1)
           ELSE IF g.prev.number - found.number > MaxReorgDepth THEN Return(w)
           ELSE Learn(w, "size", "fork", found.number)

TipIs(w, found) ==
    /\ goroutine[w].fork # 0
    /\ Learn(w, "rollback", "depth", RecordedDepth(found, goroutine[w].fork))

Found(w, found) == LatestIs(w, found) \/ ScanMeets(w, found) \/ TipIs(w, found)

(***************************************************************************)
(* Size and Get: the size, for where to begin; the size again, for the     *)
(* bound; the index; the size once more, unless the compiler keeps the     *)
(* value compared; the slot.  (DetectReorg and Latest compare the size     *)
(* with 0 before they load it to begin with: a zero in any of these loads  *)
(* means that there is no block, so one of them stands for all.)  When     *)
(* size has come to exceed the buffer (see AddSize), Go's remainder may be *)
(* negative: the access panics, and the pool recovers.                     *)
(***************************************************************************)
ReadSize(w) ==
    /\ At(w, "size") /\ Loads
    /\ IF ringBuffer.size > 0 THEN Learn(w, "check", "idx", ringBuffer.size - 1)
       ELSE IF goroutine[w].prev # NoBlock /\ goroutine[w].fork = 0 THEN Return(w)
       ELSE Found(w, NoBlock)
CheckBound(w) ==
    /\ At(w, "check") /\ Loads
    /\ IF goroutine[w].idx >= ringBuffer.size THEN Found(w, NoBlock)
       ELSE Learn(w, "index", "size", ringBuffer.size)
ReadIndex(w) ==
    /\ At(w, "index") /\ Loads
    /\ Learn(w, "position", "reg", ringBuffer.index)
Position(w) ==
    LET g == goroutine[w]
    IN  /\ At(w, "position") /\ Loads
        /\ \E n \in {g.size, ringBuffer.size} :
              LET slot == Slot([index |-> g.reg, size |-> n], g.idx)
              IN  IF g.reg - n + g.idx + MaxReorgDepth < 0 /\ slot # 0 THEN Return(w)
                  ELSE Learn(w, "slot", "reg", slot)
ReadSlot(w) ==
    /\ At(w, "slot") /\ Loads
    /\ Found(w, ringBuffer.blocks[goroutine[w].reg])

\* The history variables when the core accepts b, and when it rolls back to n.
Accepted(b) ==
    /\ chain' = Append(chain, b)
    /\ replayed' = Append(replayed, Execute(Now!ReplayedState(Len(chain)), b).state)
RolledBack(n) ==
    /\ chain' = SubSeq(chain, 1, n)
    /\ replayed' = SubSeq(replayed, 1, n)

\* Mutant of Apply: the error of the replay is ignored.
ApplyIgnoresError(w) ==
    LET b       == goroutine[w].block
        applied == ApplyBlock(ffi, b)
    IN  /\ At(w, "apply") \/ At(w, "replay")
        /\ ffi' = applied.ffi
        /\ Goto(w, IF At(w, "apply") THEN "add" ELSE "truncate")
        /\ IF applied.ok THEN Accepted(b) ELSE UNCHANGED <<chain, replayed>>
        /\ UNCHANGED <<inbox, ringBuffer, reorgEvents>>

\* ApplyBlock, for a sequential block and, in HandleReorg, after the rollback.
Apply(w) ==
    LET b       == goroutine[w].block
        applied == ApplyBlock(ffi, b)
    IN  /\ At(w, "apply") \/ At(w, "replay")
        /\ ffi' = applied.ffi
        /\ IF applied.ok
           THEN /\ Goto(w, IF At(w, "apply") THEN "add" ELSE "truncate")
                /\ Accepted(b)
           ELSE /\ Return(w)
                /\ UNCHANGED <<chain, replayed>>
        /\ UNCHANGED <<inbox, ringBuffer, reorgEvents>>

Rollback(w) ==
    LET fork     == goroutine[w].fork
        rollback == RollbackTo(ffi, fork)
    IN  /\ At(w, "rollback")
        /\ ffi' = rollback.ffi
        /\ IF rollback.ok
           THEN /\ Goto(w, "replay")
                /\ RolledBack(fork)
           ELSE /\ Return(w)
                /\ UNCHANGED <<chain, replayed>>
        /\ UNCHANGED <<inbox, ringBuffer, reorgEvents>>

\* RingBuffer.Truncate: the size is loaded for the comparison and again if it
\* is the smaller, then size and index are stored.
TruncateCheck(w) ==
    /\ At(w, "truncate") /\ Loads
    /\ IF goroutine[w].fork > ringBuffer.size THEN Goto(w, "truncateAll")
       ELSE Learn(w, "truncateSize", "reg", goroutine[w].fork)
TruncateAll(w) ==
    /\ At(w, "truncateAll") /\ Loads
    /\ Learn(w, "truncateSize", "reg", ringBuffer.size)
TruncateSize(w) ==
    /\ At(w, "truncateSize") /\ Stores
    /\ Goto(w, "truncateIndex")
    /\ ringBuffer' = [ringBuffer EXCEPT !.size = goroutine[w].reg]
\* Mutant of TruncateIndex: the index is left where it is.
TruncateKeepsIndex(w) ==
    /\ At(w, "truncateIndex") /\ Loads
    /\ Goto(w, "add")
TruncateIndex(w) ==
    /\ At(w, "truncateIndex") /\ Stores
    /\ Goto(w, "add")
    /\ ringBuffer' = [ringBuffer EXCEPT !.index = goroutine[w].reg % MaxReorgDepth]

(***************************************************************************)
(* RingBuffer.Add: index is loaded and the slot stored; index is loaded    *)
(* again, unless the compiler keeps the value, and stored; size is loaded  *)
(* for the comparison, loaded again and stored.  So a size that was found  *)
(* too small may have grown when it is incremented, and end up larger than *)
(* the buffer.                                                             *)
(***************************************************************************)
AddLoad(w) ==
    /\ At(w, "add") /\ Loads
    /\ Learn(w, "addSlot", "reg", ringBuffer.index)
AddSlot(w) ==
    /\ At(w, "addSlot") /\ Stores
    /\ Goto(w, "addNext")
    /\ ringBuffer' = [ringBuffer EXCEPT !.blocks[goroutine[w].reg] = goroutine[w].block]
AddNext(w) ==
    /\ At(w, "addNext") /\ Loads
    /\ \E i \in {goroutine[w].reg, ringBuffer.index} : Learn(w, "addIndex", "reg", i)
\* Mutant of AddIndex: the index does not wrap.
AddIndexNoWrap(w) ==
    /\ At(w, "addIndex") /\ Stores
    /\ Goto(w, "addCheck")
    /\ ringBuffer' = [ringBuffer EXCEPT !.index = goroutine[w].reg + 1]
AddIndex(w) ==
    /\ At(w, "addIndex") /\ Stores
    /\ Goto(w, "addCheck")
    /\ ringBuffer' = [ringBuffer EXCEPT !.index = (goroutine[w].reg + 1) % MaxReorgDepth]
Added(w) == IF goroutine[w].fork = 0 THEN Return(w) ELSE Goto(w, "record")
AddCheck(w) ==
    /\ At(w, "addCheck") /\ Loads
    /\ IF ringBuffer.size < MaxReorgDepth THEN Goto(w, "addGrow") ELSE Added(w)
AddGrow(w) ==
    /\ At(w, "addGrow") /\ Loads
    /\ Learn(w, "addSize", "reg", ringBuffer.size)
AddSize(w) ==
    /\ At(w, "addSize") /\ Stores
    /\ Added(w)
    /\ ringBuffer' = [ringBuffer EXCEPT !.size = goroutine[w].reg + 1]

\* The event, under ReorgEngine.mu.
Record(w) ==
    /\ At(w, "record")
    /\ Return(w)
    /\ reorgEvents' = Append(reorgEvents,
           [fork |-> goroutine[w].fork, depth |-> goroutine[w].depth])
    /\ UNCHANGED <<inbox, ringBuffer, ffi, chain, replayed>>

Step(w) ==
    \/ Take(w) \/ ReadSize(w) \/ CheckBound(w) \/ ReadIndex(w) \/ Position(w) \/ ReadSlot(w)
    \/ Rollback(w) \/ Apply(w)
    \/ TruncateCheck(w) \/ TruncateAll(w) \/ TruncateSize(w) \/ TruncateIndex(w)
    \/ AddLoad(w) \/ AddSlot(w) \/ AddNext(w) \/ AddIndex(w)
    \/ AddCheck(w) \/ AddGrow(w) \/ AddSize(w) \/ Record(w)

(***************************************************************************)
(* A reader of the state: the tool get_state_root, the endpoint            *)
(* /debug/state and, after a signal, main.  It asks for the root and then, *)
(* in a second call, for the block number.                                 *)
(***************************************************************************)
\* Mutant of ReadState: the number is asked for first.
ReadNumberFirst ==
    /\ \/ /\ query.pc = "root"
          /\ query' = [query EXCEPT !.pc = "stats", !.number = GetStats(ffi).BlockNumber]
       \/ /\ query.pc = "stats"
          /\ query' = [query EXCEPT !.pc = "answered", !.root = GetStateRoot(ffi),
                                    !.height = Len(chain)]
    /\ UNCHANGED <<inbox, goroutine, shared>>

ReadState ==
    /\ \/ /\ query.pc = "root"
          /\ query' = [query EXCEPT !.pc = "stats", !.root = GetStateRoot(ffi),
                                    !.height = Len(chain)]
       \/ /\ query.pc = "stats"
          /\ query' = [query EXCEPT !.pc = "answered", !.number = GetStats(ffi).BlockNumber]
    /\ UNCHANGED <<inbox, goroutine, shared>>

Quiet == \A w \in Workers : goroutine[w].pc = "idle"
Alone == \A v, w \in Workers : v = w

Next ==
    /\ \/ /\ \E w \in Workers : Step(w)
          /\ query' = IF query.pc = "stats" /\ Len(chain') < Len(chain)
                      THEN [query EXCEPT !.rolledBack = TRUE] ELSE query
       \/ ReadState
    /\ before' = IF Alone /\ Quiet' THEN Shared' ELSE before

Spec == Init /\ [][Next]_vars

\* The Go scheduler runs every worker that can run, and nothing ProcessBlock
\* does waits for anything but a mutex.
FairSpec == Spec /\ WF_vars(Next)
-------------------------------------------------------------------------------
(***************************************************************************)
(* Properties.                                                             *)
(***************************************************************************)
NothingLeft == inbox = <<>> /\ Quiet

\* Every variable has its type.  The buffer's index is a slot of it at all
\* times, so that Add cannot panic when the core has executed the block; its
\* size is any number (see AddSize).
TypeOK ==
    /\ ringBuffer.blocks \in [0 .. MaxReorgDepth - 1 -> Blocks \cup {NoBlock}]
    /\ ringBuffer.index \in 0 .. MaxReorgDepth - 1 /\ ringBuffer.size \in Nat
    /\ Now!CoreTypeOK
    /\ inbox \in Seq(Blocks)
    /\ \A w \in Workers :
          /\ goroutine[w].pc \in {"idle", "size", "check", "index", "position", "slot",
                "rollback", "apply", "replay",
                "truncate", "truncateAll", "truncateSize", "truncateIndex",
                "add", "addSlot", "addNext", "addIndex", "addCheck", "addGrow", "addSize", "record"}
          /\ goroutine[w].block \in Blocks \cup {NoBlock}

(***************************************************************************)
(* However the workers interleave, the Go copy of the block number is the  *)
(* core's and counts the accepted blocks.                                  *)
(***************************************************************************)
Mirror == Now!Mirror

(***************************************************************************)
(* However the workers interleave, the snapshots are bounded, contiguous   *)
(* and end at the tip.                                                     *)
(***************************************************************************)
HistoryShape == Now!HistoryShape

(***************************************************************************)
(* However the workers interleave, the core's accounts are those of a node *)
(* that executed the accepted chain and nothing else.                      *)
(***************************************************************************)
StateIsReplay == Now!StateIsReplay

(***************************************************************************)
(* A pool of one worker implements module ReorgEngine: seen between calls  *)
(* of ProcessBlock, its small steps are the single steps of that module.   *)
(* (In a larger pool nothing is seen and nothing is claimed.)              *)
(***************************************************************************)
ImplementsReorgEngine == Atomic!Spec

(***************************************************************************)
(* Between the calls of a pool of one, the accepted blocks are linked by   *)
(* their parent hashes and the buffer holds them, as long as it has not    *)
(* wrapped.  (With two workers the branch is checked against the buffer    *)
(* and the number against the core, at different times.)                   *)
(***************************************************************************)
LinkedWhenAlone == Alone /\ Quiet => Now!Linked /\ Now!RingHoldsChain

(***************************************************************************)
(* When all the blocks of a stream have been through ProcessBlock, the     *)
(* accepted chain is that stream.  (For streams of consecutive blocks.)    *)
(***************************************************************************)
AppliedInOrder == NothingLeft => chain \in {s.stream : s \in Setups}

(***************************************************************************)
(* Root and number are read in two calls, and blocks are applied and       *)
(* undone between them.  Unless a rollback came in between, the number is  *)
(* never behind the root, and if no block came in between either, the root *)
(* is that of the number's block.                                          *)
(***************************************************************************)
RootNotAhead ==
    [][query.pc = "stats" /\ query'.pc = "answered" /\ ~query.rolledBack =>
           \/ query'.number > query'.height
           \/ query'.number = query'.height /\ query'.root = GetStateRoot(ffi)]_vars

\* Every block submitted is taken and ProcessBlock returns from it.
EverythingProcessed == <>NothingLeft
===============================================================================
