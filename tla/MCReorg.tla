------------------------------- MODULE MCReorg --------------------------------
(***************************************************************************)
(* Block trees for model checking ReorgEngine.                             *)
(***************************************************************************)
EXTENDS BlockContents, BlockTrees

\* A tree no higher than the ring buffer is long (MaxReorgDepth = 4): two
\* branches at 1 and 2 that execute, one block that fails outright on block
\* 1, one on block 2, one the validator finds too large, and one with two
\* transactions.
LowTree ==
    {Main[n] : n \in 1 .. 4} \cup {Fork[1, 1], Fork[1, 2], Fork[2, 1], Fork[2, 2]}
        \cup {Child(Main[1], 2, <<Fails>>), Child(Main[2], 2, <<Fails>>),
              [Child(Main[2], 3, <<>>) EXCEPT !.fits = FALSE],
              Child(Main[3], 3, <<Runs(A2), Runs(A1)>>)}

\* A chain longer than the ring buffer (MaxReorgDepth = 3) with a branch at
\* every height and two blocks that fail outright.
HighTree ==
    {Main[n] : n \in 1 .. 7} \cup {Fork[n, 1] : n \in 1 .. 6} \cup {Fork[5, 2]}
        \cup {Child(Main[1], 2, <<Fails>>), Child(Main[5], 2, <<Fails>>)}

\* A block whose first transaction runs and whose second fails.
PartialTree == {Main[1], Main[2], Child(Main[1], 2, <<Runs(A2), Fails>>)}

(***************************************************************************)
(* Blocks as a node announces them (external): a child names its parent by *)
(* the node's own hash, Keccak-256 of the whole header, and the streamer   *)
(* stores that in ParentHash.                                              *)
(***************************************************************************)
NodeHash(b) == <<"keccak", b>>
NodeChild(p) == [Child(p, 0, <<Runs(A1)>>) EXCEPT !.parent = NodeHash(p)]
NodeChain == {First, NodeChild(First), NodeChild(NodeChild(First))}
-------------------------------------------------------------------------------
(***************************************************************************)
(* A block that follows, for the node, the newest block held is not taken  *)
(* for a reorg.                                                            *)
(***************************************************************************)
ChildIsSequential ==
    \A b \in Blocks :
        ringBuffer.size > 0 /\ b.parent = NodeHash(Latest(ringBuffer))
            => DetectReorg(ringBuffer, b).outcome = "sequential"
===============================================================================
