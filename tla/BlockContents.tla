---------------------------- MODULE BlockContents -----------------------------
(***************************************************************************)
(* What of the engine depends on the contents of blocks: ReorgEngine with  *)
(* the transactions that Ledger executes and the bytes in which blocks     *)
(* cross the FFI.  (ReorgEngine itself takes Execute for a parameter and   *)
(* hands blocks over as they are.)                                         *)
(***************************************************************************)
EXTENDS ReorgEngine, Ledger, Serialization

ASSUME WidthsAssumption ==
    {NumberBytes, HashBytes, CountBytes, AddressBytes} \subseteq Nat \ {0}

\* Transaction of types.go: four fields, of which the data is a slice and the
\* value an unsigned number.
IsTransaction(tx) ==
    /\ tx = [from |-> tx.from, to |-> tx.to, value |-> tx.value, data |-> tx.data]
    /\ tx.value \in Nat
    /\ IsSeq(tx.data)

ASSUME TransactionsAssumption ==
    \A b \in Blocks : IsSeq(b.txs) /\ \A i \in DOMAIN b.txs : IsTransaction(b.txs[i])
-------------------------------------------------------------------------------
(***************************************************************************)
(* Properties.                                                             *)
(***************************************************************************)

\* Both decoders read back from the Go encoder's bytes what went in, and the
\* Rust decoder takes no part of those bytes for a block.
Crosses(b) ==
    LET sent == [number |-> b.number, parent |-> b.parent, time |-> b.time, txs |-> b.txs]
        data == SerializeBlock(b)
    IN  /\ deserialize_block(data) = Ok(sent)
        /\ DeserializeBlock(data) = Ok(sent)
        /\ \A n \in 0 .. Len(data) - 1 : ~deserialize_block(SubSeq(data, 1, n)).ok

(***************************************************************************)
(* The core executes the block the engine was given: every block that is   *)
(* accepted survives its encoding, whatever the number of transactions and *)
(* the length of their data.                                               *)
(***************************************************************************)
CrossesUnchanged == \A i \in DOMAIN chain : Crosses(chain[i])

(***************************************************************************)
(* InitEngine funds nobody and no transaction creates money, so that no    *)
(* account, now or in a snapshot, ever holds any, and a block with a       *)
(* transaction that moves some is never accepted.                          *)
(***************************************************************************)
IsPenniless(state) == \A a \in DOMAIN state : state[a].balance = 0
NothingToSpend ==
    /\ IsPenniless(Engine.state)
    /\ \A i \in DOMAIN Engine.history : IsPenniless(Engine.history[i].state)
    /\ \A i \in DOMAIN chain : \A j \in DOMAIN chain[i].txs : chain[i].txs[j].value = 0
===============================================================================
