------------------------------ MODULE MCPipeline ------------------------------
(***************************************************************************)
(* Pools and streams of blocks for model checking Pipeline.                *)
(***************************************************************************)
EXTENDS Pipeline, BlockTrees

CONSTANTS w1, w2, w3

Each(pool, streams) == {[pool |-> pool, stream |-> s, asked |-> FALSE] : s \in streams}
Observed(setups) == {[s EXCEPT !.asked = TRUE] : s \in setups}

\* A chain of consecutive blocks, in order.
InOrder == Each({w1, w2}, {[i \in 1 .. 3 |-> Main[i]]})

\* Two branches from block 1, and streams that go from one to the other.
Siblings == {Main[1], Main[2], Main[3], Fork[1, 1], Fork[1, 2]}
Short == {<<Main[1], Main[2], Fork[1, 1]>>, <<Main[1], Fork[1, 1], Main[2]>>}
Long == {<<Main[1], Main[2], Fork[1, 1], Main[3]>>,
         <<Main[1], Main[2], Fork[1, 1], Fork[1, 2]>>,
         <<Main[1], Main[2], Main[3], Fork[1, 1]>>,
         <<Main[1], Fork[1, 1], Main[2], Main[2]>>}

\* One worker on every sequence of up to five blocks, repeated, skipped and
\* failing ones included.
AnyBlocks == Siblings \cup {Child(Main[1], 2, <<Fails>>), Fork[2, 1]}
OneWorker == Each({w1}, UNION {[1 .. n -> AnyBlocks] : n \in 1 .. 5})

\* Two workers on every stream of three blocks of the two branches, on longer
\* ones and on one that wraps the buffer (MaxReorgDepth = 3) and reorganises
\* it then, three workers on short streams, and two with a reader.
Racing == Each({w1, w2}, {<<Main[1]>> \o s : s \in [1 .. 2 -> Siblings]} \cup Long
                             \cup {<<Main[1], Main[2], Main[3], Main[4], Fork[3, 1]>>})
              \cup Each({w1, w2, w3}, Short \cup {<<Main[1], Main[2], Main[3]>>})
              \cup Observed(Each({w1, w2}, Short))

AllBlocks == AnyBlocks \cup {Main[4], Fork[3, 1]}
AllSetups == OneWorker \cup Racing
===============================================================================
