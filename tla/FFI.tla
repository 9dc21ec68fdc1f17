--------------------------------- MODULE FFI ----------------------------------
(***************************************************************************)
(* The Go side of the foreign function interface (internal/ffi/ffi.go and  *)
(* validation.go).  An FFI value holds the Rust engine behind the boundary *)
(* and lastBlockNumber, the Go copy of the engine's block number.  Each    *)
(* operation holds FFI.mu from its first line to its last, so it is one    *)
(* step, and it returns the FFI it leaves together with its result.        *)
(***************************************************************************)
EXTENDS StateEngine

\* NewFFI followed by InitEngine, as main does before anything else runs.
NewFFI == [lastBlockNumber |-> 0, engine |-> NewEngine]

(***************************************************************************)
(* What stops a block before it reaches Rust: a number that does not       *)
(* follow the last one (not checked while the last one is zero), or        *)
(* transaction data or a serialised block over the size limit.             *)
(***************************************************************************)
ValidateBlock(b, lastBlockNumber) ==
    /\ lastBlockNumber > 0 => b.number = lastBlockNumber + 1
    /\ b.fits

ApplyBlock(f, b) ==
    LET r == apply_block(f.engine, b)
    IN  IF ~ValidateBlock(b, f.lastBlockNumber)
        THEN [ok |-> FALSE, ffi |-> f]
        ELSE [ok  |-> r.ok,
              ffi |-> [lastBlockNumber |-> IF r.ok THEN b.number ELSE f.lastBlockNumber,
                       engine          |-> r.engine]]

\* Mutant of RollbackTo: the Go copy of the block number stays behind.
RollbackForgetsNumber(f, n) ==
    LET r == rollback_to(f.engine, n)
    IN  [ok |-> r.ok, ffi |-> [f EXCEPT !.engine = r.engine]]

\* RollbackTo hands the target to Rust unvalidated.
RollbackTo(f, n) ==
    LET r == rollback_to(f.engine, n)
    IN  [ok  |-> r.ok,
         ffi |-> [lastBlockNumber |-> IF r.ok THEN n ELSE f.lastBlockNumber,
                  engine          |-> r.engine]]

\* The two calls that only read.  Each takes the lock for itself.
GetStateRoot(f) == f.engine.state_root
GetStats(f) ==
    [BlockNumber |-> f.engine.block_number, HistoryLength |-> Len(f.engine.history)]
===============================================================================
