---------------------------- MODULE ReorgDetection ----------------------------
(***************************************************************************)
(* How the reorg engine (internal/reorg/engine.go) tells a fork from the   *)
(* next block of the chain: a function of the ring buffer and the block.   *)
(***************************************************************************)
EXTENDS FFI, RingBuffer

ASSUME NoBlockAssumption == NoBlock \notin Blocks

\* Positions of the buffered blocks that are the parent block b names.
ParentPositions(rb, b) ==
    {i \in 0 .. rb.size - 1 : Get(rb, i) # NoBlock /\ Hash(Get(rb, i)) = b.parent}

\* findForkPoint scans from the newest block back.
findForkPoint(rb, b) ==
    Get(rb, CHOOSE i \in ParentPositions(rb, b) :
                \A j \in ParentPositions(rb, b) : j <= i).number

\* Mutant of DetectReorg: a block with the next number is taken to extend
\* the newest one.
DetectByNumber(rb, b) ==
    LET prev == Latest(rb)
        fork == findForkPoint(rb, b)
    IN  IF prev = NoBlock \/ (prev # NoBlock /\ b.number = prev.number + 1)
        THEN [outcome |-> "sequential", fork |-> 0]
        ELSE IF ParentPositions(rb, b) = {} \/ prev.number - fork > MaxReorgDepth
        THEN [outcome |-> "error", fork |-> 0]
        ELSE [outcome |-> "reorg", fork |-> fork]

(***************************************************************************)
(* DetectReorg.  The depth is a uint64 difference converted to int, so it  *)
(* is negative, and accepted, when the fork point is above the newest      *)
(* block held.                                                             *)
(***************************************************************************)
DetectReorg(rb, b) ==
    LET prev == Latest(rb)
        fork == findForkPoint(rb, b)
    IN  IF prev = NoBlock \/ (prev # NoBlock /\ b.parent = Hash(prev))
        THEN [outcome |-> "sequential", fork |-> 0]
        ELSE IF ParentPositions(rb, b) = {} \/ prev.number - fork > MaxReorgDepth
        THEN [outcome |-> "error", fork |-> 0]
        ELSE [outcome |-> "reorg", fork |-> fork]

\* Mutant of RecordedDepth: the fork point is counted as abandoned.
DepthWithForkPoint(prev, fork) ==
    IF prev # NoBlock /\ prev.number > fork THEN prev.number - fork + 1 ELSE 0

\* The depth HandleReorg records, from the newest block it found buffered.
RecordedDepth(prev, fork) ==
    IF prev # NoBlock /\ prev.number > fork THEN prev.number - fork ELSE 0
===============================================================================
