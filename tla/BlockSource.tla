------------------------------ MODULE BlockSource -----------------------------
(***************************************************************************)
(* What the streamer promises to the rest of the program: a channel of     *)
(* blocks, each made from the header of a head the node announced and the  *)
(* transactions of a block.  Heads may be missing; the others come in the  *)
(* order of announcement and once.  The transactions are those of a block  *)
(* that the node had at that height, then or later, or none.  Nothing is   *)
(* sent to the channel once it is closed.                                  *)
(***************************************************************************)
EXTENDS Integers, Sequences

CONSTANT NoHead   \* in the place of a head: no transactions

VARIABLES
    height,     \* height[s] is the block number of the head announced s-th
    delivered,  \* the blocks sent so far: [head, body], both by their serials
    closed      \* the channel is closed

vars == <<height, delivered, closed>>

Init == height = <<>> /\ delivered = <<>> /\ closed = FALSE

\* The node's chain grows by one, or is cut somewhere and goes on from there.
Tip == IF height = <<>> THEN 0 ELSE height[Len(height)]
Announce ==
    /\ \E n \in 1 .. Tip + 1 : height' = Append(height, n)
    /\ UNCHANGED <<delivered, closed>>

Last == IF delivered = <<>> THEN 0 ELSE delivered[Len(delivered)].head
Deliver ==
    /\ ~closed
    /\ \E s \in Last + 1 .. Len(height) :
          \E t \in {NoHead} \cup {u \in s .. Len(height) : height[u] = height[s]} :
              delivered' = Append(delivered, [head |-> s, body |-> t])
    /\ UNCHANGED <<height, closed>>

Close ==
    /\ closed' = TRUE
    /\ UNCHANGED <<height, delivered>>

Next == Announce \/ Deliver \/ Close

Spec == Init /\ [][Next]_vars
===============================================================================
