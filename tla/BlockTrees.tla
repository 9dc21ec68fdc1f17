------------------------------ MODULE BlockTrees ------------------------------
(***************************************************************************)
(* Blocks for model checking, with the ledger of module Ledger.  The       *)
(* program funds no account (its engine starts from the empty map), so a   *)
(* transfer of zero runs and one of more than zero fails.                  *)
(***************************************************************************)
EXTENDS StateEngine, Ledger

CONSTANTS
    A1, A2,   \* two addresses
    Root      \* the parent hash of the first block

\* A transaction that runs, and moves the nonce of its sender.  The ledger
\* does not look at its data.
Runs(a) ==
    [from |-> a, to |-> A2, value |-> 0, data |-> IF a = A1 THEN <<>> ELSE <<<<7, 1>>, <<9, 1>>>>]
\* A transaction that fails: the sender has nothing to send.
Fails == [from |-> A2, to |-> A1, value |-> 1, data |-> <<>>]

First == [number |-> 1, parent |-> Root, time |-> 0, txs |-> <<Runs(A1)>>, fits |-> TRUE]

\* A child of block p, told from its siblings by its timestamp.
Child(p, time, txs) ==
    [number |-> p.number + 1, parent |-> Hash(p), time |-> time, txs |-> txs, fits |-> TRUE]

\* The chain of n blocks that starts with First, then k more blocks with
\* another timestamp on top of it.
Main[n \in Nat] == IF n <= 1 THEN First ELSE Child(Main[n - 1], 0, <<Runs(A1)>>)
Fork[n \in Nat, k \in Nat] ==
    IF k = 1 THEN Child(Main[n], 1, <<Runs(A2)>>) ELSE Child(Fork[n, k - 1], 1, <<>>)
===============================================================================
