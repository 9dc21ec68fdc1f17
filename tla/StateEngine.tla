----------------------------- MODULE StateEngine -----------------------------
(***************************************************************************)
(* The Rust state engine (rust-core/src/state.rs) and the block type       *)
(* (internal/ffi/types.go, rust-core/src/types.rs).                        *)
(*                                                                         *)
(* An engine is a value, and apply_block and rollback_to are operators     *)
(* that return the engine they leave behind together with their result:    *)
(* every call runs under the ENGINE mutex and under the Go-side FFI mutex, *)
(* so it is one step of whoever makes it.  Executing the transactions of a *)
(* block is the parameter Execute; module Ledger gives its definition.     *)
(***************************************************************************)
EXTENDS Integers, Sequences

CONSTANTS
    Blocks,          \* the blocks that may ever be handed to the engine
    Genesis,         \* the account map of a new engine (empty in the program)
    MaxHistorySize,  \* state.rs MAX_HISTORY_SIZE, 10 in the code
    Execute(_, _)    \* Execute(state, block) = [ok, state]: run its transactions

\* The streamer drops block number zero (validateBlock) and the load tester
\* numbers its blocks from one.
ASSUME BlocksAssumption == \A b \in Blocks : b.number \in Nat \ {0}
ASSUME HistoryAssumption == MaxHistorySize \in Nat \ {0}

(***************************************************************************)
(* Block.Hash() covers number, parent hash and timestamp and nothing else: *)
(* the transactions are not part of it.  SHA-256 is taken to be            *)
(* collision free, so the hash is the tuple of what goes into it.          *)
(***************************************************************************)
Hash(b) == <<b.number, b.parent, b.time>>

(***************************************************************************)
(* The state root is a Blake3 hash of the sorted accounts, so it is        *)
(* the account map itself up to renaming; a new engine has 32 zero bytes   *)
(* instead, which is the root of no map, not even of the empty one.        *)
(***************************************************************************)
ZeroRoot == <<>>
calculate_state_root(state) == <<state>>

NewEngine ==
    [state |-> Genesis, block_number |-> 0, state_root |-> ZeroRoot, history |-> <<>>]

Snapshot(e) ==
    [block_number |-> e.block_number, state |-> e.state, state_root |-> e.state_root]

\* The history with one more snapshot, the oldest dropped when it is full.
Pushed(history, s) ==
    IF Len(history) < MaxHistorySize
    THEN Append(history, s)
    ELSE Append(Tail(history), s)

\* Mutant of apply_block: the snapshot is taken after the transactions ran.
ApplyThenSnapshot(e, b) ==
    LET run   == Execute(e.state, b)
        saved == Pushed(e.history, [Snapshot(e) EXCEPT !.state = run.state])
    IN  IF b.number # e.block_number + 1
        THEN [ok |-> FALSE, engine |-> e]
        ELSE IF run.ok
        THEN [ok |-> TRUE,
              engine |-> [state        |-> run.state,
                          block_number |-> b.number,
                          state_root   |-> calculate_state_root(run.state),
                          history      |-> saved]]
        ELSE [ok |-> FALSE,
              engine |-> [e EXCEPT !.state = run.state, !.history = saved]]

(***************************************************************************)
(* A block out of sequence changes nothing.  Otherwise the snapshot is     *)
(* pushed before the transactions run, and a failing transaction returns   *)
(* at once: what the earlier ones did to the state stays, and so does the  *)
(* snapshot, while block number and root are those of the previous block.  *)
(***************************************************************************)
apply_block(e, b) ==
    LET run   == Execute(e.state, b)
        saved == Pushed(e.history, Snapshot(e))
    IN  IF b.number # e.block_number + 1
        THEN [ok |-> FALSE, engine |-> e]
        ELSE IF run.ok
        THEN [ok |-> TRUE,
              engine |-> [state        |-> run.state,
                          block_number |-> b.number,
                          state_root   |-> calculate_state_root(run.state),
                          history      |-> saved]]
        ELSE [ok |-> FALSE,
              engine |-> [state        |-> run.state,
                          block_number |-> e.block_number,
                          state_root   |-> e.state_root,
                          history      |-> saved]]

\* The index of the oldest snapshot of block n, if there is one.
HasSnapshot(e, n) == \E i \in DOMAIN e.history : e.history[i].block_number = n
SnapshotIndex(e, n) ==
    CHOOSE i \in DOMAIN e.history :
        /\ e.history[i].block_number = n
        /\ \A j \in 1 .. i - 1 : e.history[j].block_number # n

\* Mutants of rollback_to: the snapshots above the target are kept, and the
\* root of the abandoned branch is kept.
RollbackKeepsHistory(e, n) ==
    LET s == e.history[SnapshotIndex(e, n)]
    IN  IF HasSnapshot(e, n)
        THEN [ok |-> TRUE,
              engine |-> [e EXCEPT !.state = s.state, !.block_number = s.block_number,
                                   !.state_root = s.state_root]]
        ELSE [ok |-> FALSE, engine |-> e]
RollbackKeepsRoot(e, n) ==
    LET i == SnapshotIndex(e, n)
    IN  IF HasSnapshot(e, n)
        THEN [ok |-> TRUE,
              engine |-> [e EXCEPT !.state = e.history[i].state, !.block_number = n,
                                   !.history = SubSeq(e.history, 1, i)]]
        ELSE [ok |-> FALSE, engine |-> e]

(***************************************************************************)
(* rollback_to restores the oldest snapshot of the target and keeps that   *)
(* snapshot in the history; the next block pushes another one of the same  *)
(* number.                                                                 *)
(***************************************************************************)
rollback_to(e, n) ==
    LET i == SnapshotIndex(e, n)
        s == e.history[i]
    IN  IF HasSnapshot(e, n)
        THEN [ok |-> TRUE,
              engine |-> [state        |-> s.state,
                          block_number |-> s.block_number,
                          state_root   |-> s.state_root,
                          history      |-> SubSeq(e.history, 1, i)]]
        ELSE [ok |-> FALSE, engine |-> e]
-------------------------------------------------------------------------------
\* A sequence, of whatever elements.
IsSeq(s) == s \in Seq({s[i] : i \in DOMAIN s})

\* A history of snapshots that is bounded, in order and without gaps, and
\* that ends at block n or the one before.
WellShaped(h, n) ==
    /\ Len(h) <= MaxHistorySize
    /\ \A i, j \in DOMAIN h : i <= j => h[i].block_number <= h[j].block_number
    /\ \A i \in 1 .. Len(h) - 1 : h[i + 1].block_number <= h[i].block_number + 1
    /\ h # <<>> => h[Len(h)].block_number \in {n - 1, n}
    /\ n > 0 => h # <<>>
==============================================================================
