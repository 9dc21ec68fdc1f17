----------------------------- MODULE Serialization ----------------------------
(***************************************************************************)
(* The bytes a block crosses the FFI as: the Go encoder and decoder        *)
(* (internal/ffi/serialization.go) and the Rust decoder (deserialize_block *)
(* of rust-core/src/ffi.rs).                                               *)
(*                                                                         *)
(* A byte of a field is the value it belongs to and its place in it, most  *)
(* significant first, so that a field reads back only from all its bytes   *)
(* in their order.  The widths are parameters; 8, 32, 4 and 20 in the code.*)
(***************************************************************************)
EXTENDS Integers, SequencesExt

CONSTANTS
    NumberBytes,    \* block number and timestamp
    HashBytes,      \* parent hash and transaction value
    CountBytes,     \* transaction count and data length
    AddressBytes    \* sender and receiver

Bytes(v, n) == [i \in 1 .. n |-> <<v, i>>]

\* The field of n bytes that begins behind offset, if they are its bytes.
Field(data, offset, n) ==
    IF \A i \in 1 .. n : data[offset + i][2] = i THEN data[offset + 1][1] ELSE "garbage"

HeaderBytes == 1 + NumberBytes + HashBytes + NumberBytes + CountBytes
FixedBytes == AddressBytes + AddressBytes + HashBytes + CountBytes

serializeTransaction(tx) ==
    Bytes(tx.from, AddressBytes) \o Bytes(tx.to, AddressBytes) \o Bytes(tx.value, HashBytes)
        \o Bytes(Len(tx.data), CountBytes) \o tx.data

SerializeBlock(b) ==
    Bytes(1, 1) \o Bytes(b.number, NumberBytes) \o Bytes(b.parent, HashBytes)
        \o Bytes(b.time, NumberBytes) \o Bytes(Len(b.txs), CountBytes)
        \o FlattenSeq([i \in DOMAIN b.txs |-> serializeTransaction(b.txs[i])])
-------------------------------------------------------------------------------
Error == [ok |-> FALSE]
Ok(block) == [ok |-> TRUE, block |-> block]

\* n bytes of transaction data, with zeros for those that are missing.
Payload(data, offset, n) ==
    [i \in 1 .. n |-> IF offset + i <= Len(data) THEN data[offset + i] ELSE <<0, 1>>]

(***************************************************************************)
(* Both decoders read field after field and do not look at what is left    *)
(* over.  They differ in the data of a transaction.  The core is strict:   *)
(* it refuses data that ends before the length it announces.  bytes.Reader *)
(* fills what it can and fails only when nothing at all is left.           *)
(***************************************************************************)
Start == [ok |-> TRUE, offset |-> HeaderBytes, txs |-> <<>>]

\* One more transaction: the loop's body, with what was read before.
deserializeTransaction(data, before, strict) ==
    LET at   == before.offset
        n    == Field(data, at + FixedBytes - CountBytes, CountBytes)
        left == Len(data) - at - FixedBytes
    IN  IF ~before.ok THEN before
        ELSE IF left < 0 THEN [before EXCEPT !.ok = FALSE]
        ELSE IF ~(n <= left \/ (~strict /\ left > 0)) THEN [before EXCEPT !.ok = FALSE]
        ELSE [ok     |-> TRUE,
              offset |-> at + FixedBytes + n,
              txs    |-> Append(before.txs,
                  [from  |-> Field(data, at, AddressBytes),
                   to    |-> Field(data, at + AddressBytes, AddressBytes),
                   value |-> Field(data, at + AddressBytes + AddressBytes, HashBytes),
                   data  |-> Payload(data, at + FixedBytes, n)])]

ReadTransactions(data, count, strict) ==
    LET read[k \in 0 .. count] ==
            IF k = 0 THEN Start ELSE deserializeTransaction(data, read[k - 1], strict)
    IN  read[count]

Decode(data, strict) ==
    LET count == Field(data, HeaderBytes - CountBytes, CountBytes)
        read  == ReadTransactions(data, count, strict)
    IN  IF Len(data) < HeaderBytes THEN Error
        ELSE IF Field(data, 0, 1) # 1 THEN Error
        ELSE IF ~read.ok THEN Error
        ELSE Ok([number |-> Field(data, 1, NumberBytes),
                 parent |-> Field(data, 1 + NumberBytes, HashBytes),
                 time   |-> Field(data, 1 + NumberBytes + HashBytes, NumberBytes),
                 txs    |-> read.txs])

\* Mutant of deserialize_block: what is missing is filled with zeros.
LenientDecode(data) == Decode(data, FALSE)

deserialize_block(data) == Decode(data, TRUE)
DeserializeBlock(data) == Decode(data, FALSE)
===============================================================================
