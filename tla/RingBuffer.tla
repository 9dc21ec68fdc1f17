------------------------------ MODULE RingBuffer ------------------------------
(***************************************************************************)
(* RingBuffer of internal/reorg/engine.go: a fixed array of slots, the     *)
(* slot the next block goes to, and the number of blocks held.  Operators  *)
(* only; modules ReorgEngine and Pipeline hold a buffer in a variable.     *)
(***************************************************************************)
EXTENDS Integers

CONSTANTS
    MaxReorgDepth,   \* engine.go MaxReorgDepth, 10 in the code
    NoBlock          \* a nil slot

ASSUME DepthAssumption == MaxReorgDepth \in Nat \ {0}

NewRingBuffer ==
    [blocks |-> [i \in 0 .. MaxReorgDepth - 1 |-> NoBlock], index |-> 0, size |-> 0]

\* Mutant of Add: the index does not wrap.
AddNoWrap(rb, b) ==
    [blocks |-> [rb.blocks EXCEPT ![rb.index] = b],
     index  |-> rb.index + 1,
     size   |-> IF rb.size < MaxReorgDepth THEN rb.size + 1 ELSE rb.size]

\* Add: the slot under index is overwritten, then index and size move on.
Add(rb, b) ==
    [blocks |-> [rb.blocks EXCEPT ![rb.index] = b],
     index  |-> (rb.index + 1) % MaxReorgDepth,
     size   |-> IF rb.size < MaxReorgDepth THEN rb.size + 1 ELSE rb.size]

\* Get(i): 0 is the oldest block held and size - 1 the newest.
Slot(rb, i) == (rb.index - rb.size + i + MaxReorgDepth) % MaxReorgDepth
Get(rb, i) == IF i < 0 \/ i >= rb.size THEN NoBlock ELSE rb.blocks[Slot(rb, i)]

Latest(rb) == IF rb.size = 0 THEN NoBlock ELSE Get(rb, rb.size - 1)

\* Mutant of Truncate: the fork point itself is dropped too.
TruncateOneMore(rb, keepSize) ==
    LET keep == IF keepSize < 1 THEN 0
                ELSE IF keepSize > rb.size THEN rb.size ELSE keepSize - 1
    IN  [blocks |-> rb.blocks, index |-> keep % MaxReorgDepth, size |-> keep]

\* Truncate moves index to the slot keepSize, whatever slot the oldest block
\* is in: the oldest blocks are kept only if the oldest is in slot 0.
Truncate(rb, keepSize) ==
    LET keep == IF keepSize < 0 THEN 0
                ELSE IF keepSize > rb.size THEN rb.size ELSE keepSize
    IN  [blocks |-> rb.blocks, index |-> keep % MaxReorgDepth, size |-> keep]

\* The blocks a reader can get at.
Held(rb) == {Get(rb, i) : i \in 0 .. rb.size - 1}
===============================================================================
