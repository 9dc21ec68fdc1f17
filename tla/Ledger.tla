-------------------------------- MODULE Ledger --------------------------------
(***************************************************************************)
(* Accounts and transactions (rust-core/src/types.rs, apply_transaction of *)
(* state.rs): the definition of Execute that the models of the state       *)
(* engine run with.                                                        *)
(***************************************************************************)
EXTENDS Integers, Sequences

CONSTANT MaxU256   \* the largest U256 value, 2^256 - 1 in the code

ASSUME U256Assumption == MaxU256 \in Nat

DefaultAccount == [balance |-> 0, nonce |-> 0]

\* The state is a map from the addresses ever touched to their accounts.
EmptyState == [a \in {} |-> DefaultAccount]

get_account(state, a) == IF a \in DOMAIN state THEN state[a] ELSE DefaultAccount

set_account(state, a, account) ==
    [x \in DOMAIN state \cup {a} |-> IF x = a THEN account ELSE state[x]]

\* Mutant of Underflows: the borrow out of the most significant byte is dropped.
BorrowDropped(a, b) == FALSE

\* U256: checked_sub and checked_add return None in these cases.
Underflows(a, b) == a - b < 0
Overflows(a, b) == a + b > MaxU256

(***************************************************************************)
(* apply_transaction: the sender is debited, and its nonce moves, before   *)
(* the receiver is read, so a transfer to oneself is neutral; a credit     *)
(* that would overflow fails after the debit has been stored.              *)
(***************************************************************************)
apply_transaction(state, tx) ==
    LET sender   == get_account(state, tx.from)
        debited  == set_account(state, tx.from,
                        [balance |-> sender.balance - tx.value,
                         nonce   |-> sender.nonce + 1])
        receiver == get_account(debited, tx.to)
    IN  IF Underflows(sender.balance, tx.value)
        THEN [ok |-> FALSE, state |-> state]
        ELSE IF Overflows(receiver.balance, tx.value)
        THEN [ok |-> FALSE, state |-> debited]
        ELSE [ok |-> TRUE,
              state |-> set_account(debited, tx.to,
                            [receiver EXCEPT !.balance = @ + tx.value])]

\* The transactions of a block in order, up to the first that fails.
ExecuteBlock(state, b) ==
    LET run[i \in 0 .. Len(b.txs)] ==
            IF i = 0 THEN [ok |-> TRUE, state |-> state]
            ELSE IF run[i - 1].ok THEN apply_transaction(run[i - 1].state, b.txs[i])
            ELSE run[i - 1]
    IN  run[Len(b.txs)]
===============================================================================
