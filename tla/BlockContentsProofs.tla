------------------------- MODULE BlockContentsProofs --------------------------
(***************************************************************************)
(* Theorems about what blocks contain: the ledger that executes their      *)
(* transactions and the bytes they cross the FFI as, for any number of     *)
(* transactions with data of any length and for all widths of the fields.  *)
(*                                                                         *)
(* Both are loops, modelled as recursive functions.  An invariant P of a   *)
(* loop is proved for the set of its rounds that satisfy it: that set      *)
(* holds zero and every successor, so it is Nat (SetInduction).            *)
(***************************************************************************)
EXTENDS BlockContents, ReorgEngineProofs

-------------------------------------------------------------------------------
(***************************************************************************)
(* Induction over the natural numbers, from their being well ordered.      *)
(***************************************************************************)
LEMMA NatOrdered == \A T \in SUBSET Nat : T # {} => \E x \in T : \A y \in T : x <= y
<1> DEFINE R == OpToRel(<, Nat)
<1>1. IsWellFoundedOn(R, Nat)
  BY NatLessThanWellFounded, Zenon
<1>2. ASSUME NEW x \in Nat, NEW y \in Nat, ~(<<y, x>> \in R) PROVE x <= y
  BY <1>2 DEF OpToRel
<1> HIDE DEF R
<1>3. SUFFICES ASSUME NEW T \in SUBSET Nat, T # {} PROVE \E x \in T : \A y \in T : x <= y
  OBVIOUS
<1>4. \E x \in T : \A y \in T : ~(<<y, x>> \in R)
  BY <1>1, <1>3, WFMin, Zenon
<1> QED
  BY <1>4, <1>2, <1>3

LEMMA SetInduction == \A T \in SUBSET Nat : 0 \in T /\ (\A n \in T : n + 1 \in T) => T = Nat
<1> SUFFICES ASSUME NEW T \in SUBSET Nat, 0 \in T, \A n \in T : n + 1 \in T, T # Nat
             PROVE  FALSE
  OBVIOUS
<1>1. PICK x \in Nat \ T : \A y \in Nat \ T : x <= y
  BY NatOrdered
<1>2. x # 0 /\ x - 1 \in Nat /\ x - 1 \in T
  BY <1>1
<1> QED
  BY <1>1, <1>2
-------------------------------------------------------------------------------
(***************************************************************************)
(* The functions that FlattenSeq, ReadTransactions and ExecuteBlock define *)
(* by recursion exist: each is extended by one argument at a time.         *)
(***************************************************************************)
LEMMA FlattenRec ==
    ASSUME NEW s, Len(s) \in Nat \ {0}
    PROVE  \E f : /\ f[1] = s[1]
                  /\ \A i \in 2 .. Len(s) : f[i] = f[i - 1] \o s[i]
                  /\ FlattenSeq(s) = f[Len(s)]
<1> DEFINE St(v, i) == v \o s[i]
           D(f, n) == f = [i \in 1 .. n |-> IF i = 1 THEN s[i] ELSE St(f[i - 1], i)]
           T == {n \in Nat : \E f : D(f, n)}
           F == CHOOSE f : f = [i \in 1 .. Len(s) |-> IF i = 1 THEN s[i] ELSE f[i - 1] \o s[i]]
<1>1. FlattenSeq(s) = F[Len(s)]
  BY Zenon DEF FlattenSeq
<1>2. (\E f : D(f, Len(s))) => D(F, Len(s))
  BY Zenon
<1> HIDE DEF St, F
<1>4. 0 \in T
  <2>1. D([i \in 1 .. 0 |-> 0], 0)
    OBVIOUS
  <2> QED
    BY <2>1
<1>5. ASSUME NEW n \in T PROVE n + 1 \in T
  <2>1. n \in Nat /\ n + 1 \in Nat
    OBVIOUS
  <2>2. PICK f : D(f, n)
    OBVIOUS
  <2> DEFINE x == IF n + 1 = 1 THEN s[n + 1] ELSE St(f[n], n + 1)
             g == [i \in 1 .. n + 1 |-> IF i <= n THEN f[i] ELSE x]
  <2>3. \A i \in 1 .. n : g[i] = f[i] /\ f[i] = IF i = 1 THEN s[i] ELSE St(f[i - 1], i)
    BY <2>1, <2>2
  <2>4. g[n + 1] = x
    BY <2>1
  <2>5. g = [i \in 1 .. n + 1 |-> g[i]]
    OBVIOUS
  <2> HIDE DEF g
  <2>6. \A i \in 1 .. n + 1 : g[i] = IF i = 1 THEN s[i] ELSE St(g[i - 1], i)
    <3> TAKE i \in 1 .. n + 1
    <3>1. CASE i \in 1 .. n
      BY <3>1, <2>1, <2>3
    <3>2. CASE i = n + 1
      BY <3>2, <2>1, <2>3, <2>4
    <3> QED
      BY <3>1, <3>2, <2>1
  <2>7. D(g, n + 1)
    BY <2>5, <2>6
  <2> QED
    BY <2>1, <2>7
<1>6. T = Nat
  <2> HIDE DEF T
  <2>1. T \subseteq Nat
    BY DEF T
  <2> QED
    BY <1>4, <1>5, <2>1, SetInduction
<1>7. D(F, Len(s))
  BY <1>2, <1>6
<1>8. F[1] = s[1] /\ \A i \in 2 .. Len(s) : F[i] = St(F[i - 1], i)
  BY <1>7
<1> QED
  BY <1>1, <1>8 DEF St

LEMMA ReadRec ==
    ASSUME NEW data, NEW count \in Nat, NEW strict
    PROVE  \E r : /\ r[0] = Start
                  /\ \A k \in 1 .. count :
                         r[k] = deserializeTransaction(data, r[k - 1], strict)
                  /\ ReadTransactions(data, count, strict) = r[count]
<1> DEFINE St(v) == deserializeTransaction(data, v, strict)
           D(f, n) == f = [k \in 0 .. n |-> IF k = 0 THEN Start ELSE St(f[k - 1])]
           T == {n \in Nat : \E f : D(f, n)}
           F == CHOOSE f : f = [k \in 0 .. count |-> IF k = 0 THEN Start
                                   ELSE deserializeTransaction(data, f[k - 1], strict)]
<1>1. ReadTransactions(data, count, strict) = F[count]
  BY Zenon DEF ReadTransactions
<1>2. (\E f : D(f, count)) => D(F, count)
  BY Zenon
<1> HIDE DEF St, F
<1>4. 0 \in T
  <2>1. D([i \in 0 .. 0 |-> Start], 0)
    OBVIOUS
  <2> QED
    BY <2>1
<1>5. ASSUME NEW n \in T PROVE n + 1 \in T
  <2>1. n \in Nat /\ n + 1 \in Nat
    OBVIOUS
  <2>2. PICK f : D(f, n)
    OBVIOUS
  <2> DEFINE x == St(f[n])
             g == [i \in 0 .. n + 1 |-> IF i <= n THEN f[i] ELSE x]
  <2>3. \A i \in 0 .. n : g[i] = f[i] /\ f[i] = IF i = 0 THEN Start ELSE St(f[i - 1])
    BY <2>1, <2>2
  <2>4. g[n + 1] = x
    BY <2>1
  <2>5. g = [i \in 0 .. n + 1 |-> g[i]]
    OBVIOUS
  <2> HIDE DEF g
  <2>6. \A i \in 0 .. n + 1 : g[i] = IF i = 0 THEN Start ELSE St(g[i - 1])
    <3> TAKE i \in 0 .. n + 1
    <3>1. CASE i \in 0 .. n
      BY <3>1, <2>1, <2>3
    <3>2. CASE i = n + 1
      BY <3>2, <2>1, <2>3, <2>4
    <3> QED
      BY <3>1, <3>2, <2>1
  <2>7. D(g, n + 1)
    BY <2>5, <2>6
  <2> QED
    BY <2>1, <2>7
<1>6. T = Nat
  <2> HIDE DEF T
  <2>1. T \subseteq Nat
    BY DEF T
  <2> QED
    BY <1>4, <1>5, <2>1, SetInduction
<1>7. D(F, count)
  BY <1>2, <1>6
<1>8. F[0] = Start /\ \A k \in 1 .. count : F[k] = St(F[k - 1])
  BY <1>7
<1> QED
  BY <1>1, <1>8 DEF St

LEMMA RunRec ==
    ASSUME NEW s, NEW b, Len(b.txs) \in Nat
    PROVE  \E r : /\ r[0] = [ok |-> TRUE, state |-> s]
                  /\ \A i \in 1 .. Len(b.txs) :
                         r[i] = IF r[i - 1].ok
                                THEN apply_transaction(r[i - 1].state, b.txs[i])
                                ELSE r[i - 1]
                  /\ ExecuteBlock(s, b) = r[Len(b.txs)]
<1> DEFINE Begin == [ok |-> TRUE, state |-> s]
           St(v, i) == IF v.ok THEN apply_transaction(v.state, b.txs[i]) ELSE v
           D(f, n) == f = [k \in 0 .. n |-> IF k = 0 THEN Begin ELSE St(f[k - 1], k)]
           T == {n \in Nat : \E f : D(f, n)}
           F == CHOOSE f : f = [i \in 0 .. Len(b.txs) |-> IF i = 0 THEN [ok |-> TRUE, state |-> s]
                                ELSE IF f[i - 1].ok
                                THEN apply_transaction(f[i - 1].state, b.txs[i])
                                ELSE f[i - 1]]
<1>1. ExecuteBlock(s, b) = F[Len(b.txs)]
  BY Zenon DEF ExecuteBlock
<1>2. (\E f : D(f, Len(b.txs))) => D(F, Len(b.txs))
  BY Zenon
<1> HIDE DEF Begin, St, F
<1>4. 0 \in T
  <2>1. D([i \in 0 .. 0 |-> Begin], 0)
    OBVIOUS
  <2> QED
    BY <2>1
<1>5. ASSUME NEW n \in T PROVE n + 1 \in T
  <2>1. n \in Nat /\ n + 1 \in Nat
    OBVIOUS
  <2>2. PICK f : D(f, n)
    OBVIOUS
  <2> DEFINE x == St(f[n], n + 1)
             g == [i \in 0 .. n + 1 |-> IF i <= n THEN f[i] ELSE x]
  <2>3. \A i \in 0 .. n : g[i] = f[i] /\ f[i] = IF i = 0 THEN Begin ELSE St(f[i - 1], i)
    BY <2>1, <2>2
  <2>4. g[n + 1] = x
    BY <2>1
  <2>5. g = [i \in 0 .. n + 1 |-> g[i]]
    OBVIOUS
  <2> HIDE DEF g
  <2>6. \A i \in 0 .. n + 1 : g[i] = IF i = 0 THEN Begin ELSE St(g[i - 1], i)
    <3> TAKE i \in 0 .. n + 1
    <3>1. CASE i \in 0 .. n
      BY <3>1, <2>1, <2>3
    <3>2. CASE i = n + 1
      BY <3>2, <2>1, <2>3, <2>4
    <3> QED
      BY <3>1, <3>2, <2>1
  <2>7. D(g, n + 1)
    BY <2>5, <2>6
  <2> QED
    BY <2>1, <2>7
<1>6. T = Nat
  <2> HIDE DEF T
  <2>1. T \subseteq Nat
    BY DEF T
  <2> QED
    BY <1>4, <1>5, <2>1, SetInduction
<1>7. D(F, Len(b.txs))
  BY <1>2, <1>6
<1>8. F[0] = Begin /\ \A k \in 1 .. Len(b.txs) : F[k] = St(F[k - 1], k)
  <2>1. ASSUME NEW f, NEW n \in Nat, D(f, n)
        PROVE  f[0] = Begin /\ \A k \in 1 .. n : f[k] = St(f[k - 1], k)
    BY <2>1
  <2> HIDE DEF D
  <2> QED
    BY <1>7, <2>1
<1> QED
  BY <1>1, <1>8, Zenon DEF St, Begin
-------------------------------------------------------------------------------
(***************************************************************************)
(* The ledger.                                                             *)
(***************************************************************************)
\* Execute is the ledger's, and the engine starts with no accounts.
RunsLedger ==
    /\ Genesis = EmptyState
    /\ \A s : \A b \in Blocks : Execute(s, b) = ExecuteBlock(s, b)

AddressesOf(b) == UNION {{b.txs[i].from, b.txs[i].to} : i \in DOMAIN b.txs}
Addresses == UNION {AddressesOf(b) : b \in Blocks}

\* The account maps in which nobody has money.
Penniless == UNION {[D -> [balance : {0}, nonce : Nat]] : D \in SUBSET Addresses}

LEMMA PennilessMap ==
    ASSUME NEW s \in Penniless
    PROVE  /\ DOMAIN s \subseteq Addresses
           /\ s \in [DOMAIN s -> [balance : {0}, nonce : Nat]]
BY DEF Penniless

LEMMA PennilessSet ==
    ASSUME NEW s \in Penniless, NEW a \in Addresses,
           NEW account \in [balance : {0}, nonce : Nat]
    PROVE  set_account(s, a, account) \in Penniless
<1> DEFINE D == DOMAIN s \cup {a}
<1>1. /\ DOMAIN s \subseteq Addresses
      /\ s \in [DOMAIN s -> [balance : {0}, nonce : Nat]]
  BY PennilessMap
<1>2. D \in SUBSET Addresses
  BY <1>1
<1>3. set_account(s, a, account) \in [D -> [balance : {0}, nonce : Nat]]
  BY <1>1 DEF set_account
<1> HIDE DEF D
<1> QED
  BY <1>2, <1>3 DEF Penniless

LEMMA PennilessGet ==
    ASSUME NEW s \in Penniless, NEW a
    PROVE  get_account(s, a) \in [balance : {0}, nonce : Nat]
BY PennilessMap DEF get_account, DefaultAccount

\* A transaction that moves money fails before it changes anything.
LEMMA PennilessTransaction ==
    ASSUME NEW s \in Penniless, NEW tx, tx.from \in Addresses, tx.to \in Addresses,
           tx.value \in Nat
    PROVE  LET r == apply_transaction(s, tx)
           IN  /\ r.state \in Penniless
               /\ r.ok <=> tx.value = 0
               /\ ~r.ok => r = [ok |-> FALSE, state |-> s]
<1> DEFINE sender   == get_account(s, tx.from)
           account  == [balance |-> sender.balance - tx.value, nonce |-> sender.nonce + 1]
           debited  == set_account(s, tx.from, account)
           receiver == get_account(debited, tx.to)
           credited == [receiver EXCEPT !.balance = @ + tx.value]
           r == apply_transaction(s, tx)
<1>1. sender.balance = 0 /\ sender.nonce \in Nat
  BY PennilessGet
<1>2. r = IF Underflows(sender.balance, tx.value)
          THEN [ok |-> FALSE, state |-> s]
          ELSE IF Overflows(receiver.balance, tx.value)
          THEN [ok |-> FALSE, state |-> debited]
          ELSE [ok |-> TRUE, state |-> set_account(debited, tx.to, credited)]
  BY DEF apply_transaction
<1> HIDE DEF r, sender, debited
<1>3. CASE tx.value # 0
  <2>1. Underflows(sender.balance, tx.value)
    BY <1>1, <1>3 DEF Underflows
  <2>2. r = [ok |-> FALSE, state |-> s]
    BY <1>2, <2>1
  <2> QED
    BY <1>3, <2>2 DEF r
<1>4. CASE tx.value = 0
  <2>1. ~Underflows(sender.balance, tx.value)
    BY <1>1, <1>4 DEF Underflows
  <2>2. account \in [balance : {0}, nonce : Nat]
    BY <1>1, <1>4
  <2>3. debited \in Penniless
    BY <2>2, PennilessSet DEF debited
  <2>4. receiver \in [balance : {0}, nonce : Nat]
    BY <2>3, PennilessGet
  <2> HIDE DEF receiver
  <2>5. ~Overflows(receiver.balance, tx.value)
    BY <1>4, <2>4, U256Assumption DEF Overflows
  <2>6. credited \in [balance : {0}, nonce : Nat]
    BY <1>4, <2>4
  <2> HIDE DEF credited
  <2>7. set_account(debited, tx.to, credited) \in Penniless
    BY <2>3, <2>6, PennilessSet
  <2>8. r = [ok |-> TRUE, state |-> set_account(debited, tx.to, credited)]
    BY <1>2, <2>1, <2>5
  <2> QED
    BY <1>4, <2>7, <2>8 DEF r
<1> QED
  BY <1>3, <1>4

\* A block is accepted if none of its transactions moves money, and one that
\* is refused for its first transaction changes nothing.
LEMMA PennilessBlock ==
    ASSUME NEW s \in Penniless, NEW b \in Blocks
    PROVE  LET r == ExecuteBlock(s, b)
           IN  /\ r.state \in Penniless
               /\ r.ok <=> \A j \in DOMAIN b.txs : b.txs[j].value = 0
               /\ b.txs # <<>> /\ b.txs[1].value # 0 => r.state = s
<1> DEFINE m == Len(b.txs)
<1>1. m \in Nat /\ DOMAIN b.txs = 1 .. m /\ (b.txs = <<>> <=> m = 0)
  BY TransactionsAssumption, IsSeqLen
<1>2. \A i \in 1 .. m : /\ b.txs[i].from \in Addresses /\ b.txs[i].to \in Addresses
                        /\ b.txs[i].value \in Nat
  <2> TAKE i \in 1 .. m
  <2>1. i \in DOMAIN b.txs
    BY <1>1
  <2>2. b.txs[i].value \in Nat
    BY <2>1, TransactionsAssumption DEF IsTransaction
  <2>3. b.txs[i].from \in Addresses /\ b.txs[i].to \in Addresses
    <3>1. b.txs[i].from \in AddressesOf(b) /\ b.txs[i].to \in AddressesOf(b)
      BY <2>1 DEF AddressesOf
    <3> QED
      BY <3>1 DEF Addresses
  <2> QED
    BY <2>2, <2>3
<1>4. PICK r : /\ r[0] = [ok |-> TRUE, state |-> s]
               /\ \A i \in 1 .. m : r[i] = IF r[i - 1].ok
                                           THEN apply_transaction(r[i - 1].state, b.txs[i])
                                           ELSE r[i - 1]
               /\ ExecuteBlock(s, b) = r[m]
  BY <1>1, RunRec
<1> HIDE DEF m
<1> DEFINE P(i) == /\ r[i].state \in Penniless
                   /\ r[i].ok <=> \A j \in 1 .. i : b.txs[j].value = 0
                   /\ i > 0 /\ b.txs[1].value # 0 => r[i] = [ok |-> FALSE, state |-> s]
           T == {i \in Nat : i <= m => P(i)}
<1>5. 0 \in T
  BY <1>4
<1>6. ASSUME NEW i \in T PROVE i + 1 \in T
  <2>1. i \in Nat /\ i + 1 \in Nat
    OBVIOUS
  <2> SUFFICES ASSUME i + 1 <= m PROVE P(i + 1)
    BY <2>1
  <2>2. P(i) /\ i + 1 \in 1 .. m /\ i + 1 - 1 = i
    BY <1>1, <1>6, <2>1
  <2>3. r[i + 1] = IF r[i].ok THEN apply_transaction(r[i].state, b.txs[i + 1]) ELSE r[i]
    BY <1>4, <2>2
  <2>4. \A j : j \in 1 .. i + 1 <=> j \in 1 .. i \/ j = i + 1
    BY <2>1
  <2>5. CASE ~r[i].ok
    <3>1. r[i + 1] = r[i]
      BY <2>3, <2>5
    <3>2. i # 0
      BY <1>4, <2>5
    <3> QED
      BY <2>1, <2>2, <2>4, <2>5, <3>1, <3>2
  <2>6. CASE r[i].ok
    <3> DEFINE tx == b.txs[i + 1]
               q == apply_transaction(r[i].state, tx)
    <3>1. /\ q.state \in Penniless
          /\ q.ok <=> tx.value = 0
          /\ ~q.ok => q = [ok |-> FALSE, state |-> r[i].state]
      BY <1>2, <2>2, PennilessTransaction
    <3>2. r[i + 1] = q
      BY <2>3, <2>6
    <3>3. \A j \in 1 .. i : b.txs[j].value = 0
      BY <2>2, <2>6
    <3> HIDE DEF q
    <3>4. b.txs[1].value # 0 => i = 0
      BY <2>1, <3>3
    <3>5. b.txs[1].value # 0 => r[i + 1] = [ok |-> FALSE, state |-> s]
      BY <1>4, <3>1, <3>2, <3>4
    <3> QED
      BY <2>4, <3>1, <3>2, <3>3, <3>5
  <2> QED
    BY <2>5, <2>6
<1>7. T = Nat
  <2> HIDE DEF T
  <2>1. T \subseteq Nat
    BY DEF T
  <2> QED
    BY <1>5, <1>6, <2>1, SetInduction
<1>8. m \in T /\ m <= m
  <2> HIDE DEF T
  <2> QED
    BY <1>1, <1>7
<1>9. P(m)
  BY <1>8, Zenon
<1>10. b.txs # <<>> => m > 0
  BY <1>1
<1> HIDE DEF T
<1> QED
  BY <1>1, <1>4, <1>9, <1>10

LEMMA PennilessClosed ==
    ASSUME RunsLedger
    PROVE  Closed(Penniless)
<1>1. EmptyState \in [{} -> [balance : {0}, nonce : Nat]]
  BY DEF EmptyState
<1>2. EmptyState \in Penniless
  BY <1>1 DEF Penniless
<1> QED
  BY <1>2, PennilessBlock DEF Closed, RunsLedger

\* No accepted block moves money.
Free(b) == \A j \in DOMAIN b.txs : b.txs[j].value = 0
FreeChain == \A i \in DOMAIN chain : Free(chain[i])

LEMMA AcceptedFree ==
    ASSUME RunsLedger, NEW f, StatesIn(f.engine, Penniless), NEW b \in Blocks, ApplyBlock(f, b).ok
    PROVE  Free(b)
<1>1. Execute(f.engine.state, b).ok
  BY DEF ApplyBlock, apply_block
<1>2. ExecuteBlock(f.engine.state, b).ok /\ f.engine.state \in Penniless
  BY <1>1 DEF RunsLedger, StatesIn
<1> QED
  BY <1>2, PennilessBlock DEF Free

LEMMA NextFree ==
    ASSUME RunsLedger
    PROVE  IInv /\ StatesInv(Penniless) /\ FreeChain /\ [Next]_vars => FreeChain'
<1> SUFFICES ASSUME IInv, StatesInv(Penniless), FreeChain, [Next]_vars PROVE FreeChain'
  OBVIOUS
<1>0. /\ WellFormed(ffi) /\ ChainOK /\ StatesIn(ffi.engine, Penniless)
      /\ ffi.engine.block_number = Len(chain) /\ Len(chain) \in Nat
      /\ DOMAIN chain = 1 .. Len(chain)
  <2>1. /\ WellFormed(ffi) /\ ChainOK /\ StatesIn(ffi.engine, Penniless)
        /\ ffi.engine.block_number = Len(chain)
    BY DEF IInv, Engine, StatesInv
  <2> QED
    BY <2>1, LenProperties DEF ChainOK, ChainShape
<1>1. ASSUME NEW n \in 0 .. Len(chain), KeepFirst(n) PROVE FreeChain'
  <2>1. /\ ChainOK' /\ Len(chain') = n
        /\ \A i \in 1 .. n : chain'[i] = chain[i]
    BY <1>0, <1>1, KeepFirstChain
  <2>2. DOMAIN chain' = 1 .. n
    BY <2>1, LenProperties DEF ChainOK, ChainShape
  <2> QED
    BY <1>0, <2>1, <2>2 DEF FreeChain
<1>2. ASSUME NEW n \in 0 .. Len(chain), NEW b \in Blocks, b.number = n + 1, Free(b), Accept(n, b)
      PROVE  FreeChain'
  <2>1. /\ ChainOK' /\ Len(chain') = n + 1
        /\ \A i \in 1 .. n : chain'[i] = chain[i]
        /\ chain'[n + 1] = b
    BY <1>0, <1>2, AcceptChain
  <2>2. DOMAIN chain' = 1 .. n + 1
    BY <2>1, LenProperties DEF ChainOK, ChainShape
  <2>3. \A i \in 1 .. n + 1 : i \in 1 .. n \/ i = n + 1
    OBVIOUS
  <2> QED
    BY <1>0, <1>2, <2>1, <2>2, <2>3 DEF FreeChain
<1>3. CASE UNCHANGED chain
  BY <1>3 DEF FreeChain
<1>4. ASSUME NEW b \in Blocks, Sequential(b) PROVE FreeChain'
  <2>1. CASE ApplyBlock(ffi, b).ok
    <3>1. Accept(Len(chain), b)
      BY <1>4, <2>1 DEF Sequential
    <3>2. b.number = Len(chain) + 1 /\ Free(b)
      BY <1>0, <2>1, ApplyBlockWellFormed, AcceptedFree
    <3> QED
      BY <1>0, <1>2, <3>1, <3>2
  <2>2. CASE ~ApplyBlock(ffi, b).ok
    BY <1>3, <1>4, <2>2 DEF Sequential
  <2> QED
    BY <2>1, <2>2
<1>5. ASSUME NEW b \in Blocks, ReplayFailed(b) \/ Reorganised(b) PROVE FreeChain'
  <2> DEFINE n == DetectReorg(ringBuffer, b).fork
             g == RollbackTo(ffi, n).ffi
  <2>1. /\ RollbackTo(ffi, n).ok
        /\ (~ApplyBlock(g, b).ok /\ KeepFirst(n)) \/ (ApplyBlock(g, b).ok /\ Accept(n, b))
    BY <1>5 DEF ReplayFailed, Reorganised
  <2> HIDE DEF n
  <2>2. n \in 0 .. Len(chain) /\ (ApplyBlock(g, b).ok => b.number = n + 1)
    BY <1>0, <2>1, RollbackThenApply
  <2>3. StatesIn(g.engine, Penniless)
    BY <1>0, RollbackStates
  <2> HIDE DEF g
  <2>4. ApplyBlock(g, b).ok => Free(b)
    BY <2>3, AcceptedFree
  <2> QED
    BY <1>1, <1>2, <2>1, <2>2, <2>4
<1> QED
  BY <1>3, <1>4, <1>5 DEF Next, ProcessBlock, Undetected, RollbackFailed, vars

LEMMA SpendImplies == StatesInv(Penniless) /\ FreeChain => NothingToSpend
<1> SUFFICES ASSUME StatesInv(Penniless), FreeChain PROVE NothingToSpend
  OBVIOUS
<1>1. \A s \in Penniless : IsPenniless(s)
  BY PennilessMap DEF IsPenniless
<1> QED
  BY <1>1 DEF StatesInv, StatesIn, FreeChain, Free, NothingToSpend

(***************************************************************************)
(* With the ledger of state.rs and the empty map that InitEngine starts    *)
(* from, no account ever has a balance, in the state or in a snapshot, and *)
(* apply_block accepts only blocks whose transactions all move nothing,    *)
(* through every reorg, rejected block and failed replay.                  *)
(***************************************************************************)
THEOREM NothingToSpendCorrect ==
    ASSUME RunsLedger
    PROVE  Spec => []NothingToSpend
<1>1. /\ Init => StatesInv(Penniless) /\ FreeChain
      /\ IInv /\ StatesInv(Penniless) /\ [Next]_vars => StatesInv(Penniless)'
      /\ IInv /\ StatesInv(Penniless) /\ FreeChain /\ [Next]_vars => FreeChain'
  <2>1. Init => FreeChain
    BY DEF Init, FreeChain
  <2> QED
    BY <2>1, PennilessClosed, InitStates, NextStates, NextFree
<1> QED
  BY InitIInv, NextIInv, <1>1, SpendImplies, PTL DEF Spec

\* A block with a transaction that moves money has one first: the failing
\* transaction is not preceded by any that ran.
FailsAtOnce == \A b \in Blocks : Free(b) \/ b.txs[1].value # 0

LEMMA LedgerNoTrace ==
    ASSUME RunsLedger, FailsAtOnce
    PROVE  FailuresLeaveNoTrace(Penniless)
<1>1. ASSUME NEW s \in Penniless, NEW b \in Blocks, ~ExecuteBlock(s, b).ok
      PROVE  ExecuteBlock(s, b).state = s
  <2>1. ~Free(b)
    BY <1>1, PennilessBlock DEF Free
  <2>2. b.txs # <<>> /\ b.txs[1].value # 0
    BY <2>1 DEF FailsAtOnce, Free
  <2> QED
    BY <2>2, PennilessBlock
<1> QED
  BY <1>1, PennilessClosed DEF RunsLedger, FailuresLeaveNoTrace

(***************************************************************************)
(* With the ledger of state.rs, and blocks that fail with their first      *)
(* transaction or not at all, the core's accounts and the root it reports  *)
(* are at all times those of a node that executed the accepted chain from  *)
(* genesis.  A block that fails later breaks this (run partial).           *)
(***************************************************************************)
THEOREM LedgerStateCorrect ==
    ASSUME RunsLedger, FailsAtOnce
    PROVE  Spec => [](StateIsReplay /\ RootIsReplay)
<1>1. (Spec => []StateIsReplay) /\ (Spec => []RootIsReplay)
  BY LedgerNoTrace, StateCorrect, RootCorrect
<1> QED
  BY <1>1, PTL
-------------------------------------------------------------------------------
(***************************************************************************)
(* Serialization.  At(data, o, s): the bytes s stand in data behind o.     *)
(***************************************************************************)
At(data, o, s) == \A i \in 1 .. Len(s) : data[o + i] = s[i]

LEMMA IsSeqConcat ==
    ASSUME NEW s, NEW t, IsSeq(s), IsSeq(t)
    PROVE  /\ IsSeq(s \o t)
           /\ Len(s \o t) = Len(s) + Len(t)
           /\ \A i \in 1 .. Len(s) : (s \o t)[i] = s[i]
           /\ \A i \in 1 .. Len(t) : (s \o t)[Len(s) + i] = t[i]
<1> DEFINE S == {s[i] : i \in DOMAIN s}
           T == {t[i] : i \in DOMAIN t}
           U == S \cup T
<1>1. s \in Seq(S) /\ t \in Seq(T)
  BY DEF IsSeq
<1> HIDE DEF S, T
<1>2. s \in Seq(U) /\ t \in Seq(U)
  BY <1>1, SeqMonotonic
<1> HIDE DEF U
<1>3. Len(s) \in Nat /\ Len(t) \in Nat
  BY <1>2
<1>4. s \o t \in Seq(U) /\ Len(s \o t) = Len(s) + Len(t)
  BY <1>2, ConcatProperties
<1>5. \A i \in 1 .. Len(s) + Len(t) :
         (s \o t)[i] = IF i <= Len(s) THEN s[i] ELSE t[i - Len(s)]
  BY <1>2, ConcatProperties
<1>6. \A i \in 1 .. Len(t) : (s \o t)[Len(s) + i] = t[i]
  BY <1>3, <1>5
<1>7. \A i \in 1 .. Len(s) : (s \o t)[i] = s[i]
  BY <1>3, <1>5
<1>8. IsSeq(s \o t)
  BY <1>4, IsSeqIntro
<1> QED
  BY <1>4, <1>6, <1>7, <1>8

LEMMA ConcatLen ==
    ASSUME NEW s, NEW t, IsSeq(s), IsSeq(t)
    PROVE  IsSeq(s \o t) /\ Len(s \o t) = Len(s) + Len(t)
BY IsSeqConcat

LEMMA ConcatAt ==
    ASSUME NEW s, NEW t, IsSeq(s), IsSeq(t), NEW data, NEW o \in Nat, At(data, o, s \o t)
    PROVE  At(data, o, s) /\ At(data, o + Len(s), t)
<1> DEFINE u == s \o t
<1>1. /\ Len(u) = Len(s) + Len(t)
      /\ \A i \in 1 .. Len(s) : u[i] = s[i]
      /\ \A i \in 1 .. Len(t) : u[Len(s) + i] = t[i]
      /\ Len(s) \in Nat /\ Len(t) \in Nat
  BY IsSeqConcat, IsSeqLen
<1>2. \A i \in 1 .. Len(u) : data[o + i] = u[i]
  BY DEF At
<1> HIDE DEF u
<1>3. \A i \in 1 .. Len(s) : data[o + i] = s[i]
  BY <1>1, <1>2
<1>4. ASSUME NEW i \in 1 .. Len(t) PROVE data[o + Len(s) + i] = t[i]
  <2>1. Len(s) + i \in 1 .. Len(u) /\ o + (Len(s) + i) = o + Len(s) + i
    BY <1>1
  <2> QED
    BY <1>1, <1>2, <2>1
<1> QED
  BY <1>3, <1>4 DEF At

LEMMA BytesSeq ==
    ASSUME NEW v, NEW n \in Nat
    PROVE  /\ IsSeq(Bytes(v, n))
           /\ Len(Bytes(v, n)) = n
           /\ \A i \in 1 .. n : Bytes(v, n)[i] = <<v, i>>
<1> DEFINE s == Bytes(v, n)
           S == {<<v, i>> : i \in 1 .. n}
<1>1. s \in [1 .. n -> S]
  BY DEF Bytes
<1>2. \A i \in 1 .. n : s[i] = <<v, i>>
  BY DEF Bytes
<1> HIDE DEF s, S
<1>3. s \in Seq(S) /\ Len(s) = n
  BY <1>1
<1> QED
  BY <1>2, <1>3, IsSeqIntro DEF s

\* A field reads back where its bytes stand.
LEMMA FieldAt ==
    ASSUME NEW data, NEW o \in Nat, NEW v, NEW n \in Nat \ {0}, At(data, o, Bytes(v, n))
    PROVE  Field(data, o, n) = v
<1>1. \A i \in 1 .. n : data[o + i] = <<v, i>>
  BY BytesSeq DEF At
<1>2. \A i \in 1 .. n : data[o + i][2] = i
  BY <1>1
<1>3. data[o + 1][1] = v
  BY <1>1
<1> QED
  BY <1>2, <1>3 DEF Field

\* Input e agrees with d as far as it goes, and so do the fields within it.
Begins(e, d) == IsSeq(e) /\ \A i \in 1 .. Len(e) : e[i] = d[i]

LEMMA FieldShared ==
    ASSUME NEW d, NEW e, Begins(e, d), NEW o \in Nat, NEW n \in Nat \ {0}, o + n <= Len(e)
    PROVE  Field(e, o, n) = Field(d, o, n)
<1>1. Len(e) \in Nat
  BY IsSeqLen DEF Begins
<1>2. \A i \in 1 .. n : e[o + i] = d[o + i]
  BY <1>1 DEF Begins
<1>3. e[o + 1] = d[o + 1]
  BY <1>2
<1> QED
  BY <1>2, <1>3 DEF Field

LEMMA Widths ==
    /\ NumberBytes \in Nat \ {0} /\ HashBytes \in Nat \ {0}
    /\ CountBytes \in Nat \ {0} /\ AddressBytes \in Nat \ {0}
    /\ HeaderBytes \in Nat /\ FixedBytes \in Nat
BY WidthsAssumption DEF HeaderBytes, FixedBytes

LEMMA IsSeqEqual ==
    ASSUME NEW s, NEW t, IsSeq(s), IsSeq(t), Len(s) = Len(t), \A i \in 1 .. Len(t) : s[i] = t[i]
    PROVE  s = t
<1> DEFINE S == {s[i] : i \in DOMAIN s}
           T == {t[i] : i \in DOMAIN t}
           U == S \cup T
<1>1. s \in Seq(S) /\ t \in Seq(T)
  BY DEF IsSeq
<1> HIDE DEF S, T
<1>2. s \in Seq(U) /\ t \in Seq(U)
  BY <1>1, SeqMonotonic
<1> HIDE DEF U
<1> QED
  BY <1>2, SeqEqual

\* Where the fields of a transaction stand.
LEMMA TransactionAt ==
    ASSUME NEW tx, IsSeq(tx.data)
    PROVE  LET s == serializeTransaction(tx)
           IN  /\ IsSeq(s)
               /\ Len(s) = FixedBytes + Len(tx.data)
               /\ \A data : \A o \in Nat : At(data, o, s) =>
                      /\ Field(data, o, AddressBytes) = tx.from
                      /\ Field(data, o + AddressBytes, AddressBytes) = tx.to
                      /\ Field(data, o + AddressBytes + AddressBytes, HashBytes) = tx.value
                      /\ Field(data, o + FixedBytes - CountBytes, CountBytes) = Len(tx.data)
                      /\ At(data, o + FixedBytes, tx.data)
<1> DEFINE A == Bytes(tx.from, AddressBytes)
           B == Bytes(tx.to, AddressBytes)
           C == Bytes(tx.value, HashBytes)
           D == Bytes(Len(tx.data), CountBytes)
           s == serializeTransaction(tx)
<1>1. /\ IsSeq(A) /\ Len(A) = AddressBytes /\ IsSeq(B) /\ Len(B) = AddressBytes
      /\ IsSeq(C) /\ Len(C) = HashBytes /\ IsSeq(D) /\ Len(D) = CountBytes
      /\ Len(tx.data) \in Nat
  BY Widths, BytesSeq, IsSeqLen
<1>2. s = A \o B \o C \o D \o tx.data
  BY DEF serializeTransaction
<1>3. \A data : \A o \in Nat :
         /\ At(data, o, A) => Field(data, o, AddressBytes) = tx.from
         /\ At(data, o, B) => Field(data, o, AddressBytes) = tx.to
         /\ At(data, o, C) => Field(data, o, HashBytes) = tx.value
         /\ At(data, o, D) => Field(data, o, CountBytes) = Len(tx.data)
  BY Widths, FieldAt
<1> HIDE DEF A, B, C, D, s
<1> DEFINE s2 == A \o B
           s3 == s2 \o C
           s4 == s3 \o D
<1>4. IsSeq(s2) /\ Len(s2) = AddressBytes + AddressBytes
  BY <1>1, IsSeqConcat
<1> HIDE DEF s2
<1>5. IsSeq(s3) /\ Len(s3) = AddressBytes + AddressBytes + HashBytes
  BY <1>1, <1>4, IsSeqConcat
<1> HIDE DEF s3
<1>6. IsSeq(s4) /\ Len(s4) = FixedBytes
  BY <1>1, <1>5, IsSeqConcat DEF FixedBytes
<1> HIDE DEF s4
<1>7. s = s4 \o tx.data
  BY <1>2 DEF s2, s3, s4
<1>8. IsSeq(s) /\ Len(s) = FixedBytes + Len(tx.data)
  BY <1>6, <1>7, IsSeqConcat
<1>9. ASSUME NEW data, NEW o \in Nat, At(data, o, s)
      PROVE  /\ Field(data, o, AddressBytes) = tx.from
             /\ Field(data, o + AddressBytes, AddressBytes) = tx.to
             /\ Field(data, o + AddressBytes + AddressBytes, HashBytes) = tx.value
             /\ Field(data, o + FixedBytes - CountBytes, CountBytes) = Len(tx.data)
             /\ At(data, o + FixedBytes, tx.data)
  <2>1. At(data, o, s4) /\ At(data, o + FixedBytes, tx.data)
    BY <1>6, <1>7, <1>9, ConcatAt
  <2>2. At(data, o, s3) /\ At(data, o + Len(s3), D)
    BY <1>1, <1>5, <2>1, ConcatAt DEF s4
  <2>3. At(data, o, s2) /\ At(data, o + Len(s2), C)
    BY <1>1, <1>4, <2>2, ConcatAt DEF s3
  <2>4. At(data, o, A) /\ At(data, o + AddressBytes, B)
    BY <1>1, <2>3, ConcatAt DEF s2
  <2>5. /\ o + Len(s3) = o + FixedBytes - CountBytes
        /\ o + Len(s2) = o + AddressBytes + AddressBytes
        /\ o + Len(s3) \in Nat /\ o + Len(s2) \in Nat /\ o + AddressBytes \in Nat
    BY <1>4, <1>5, Widths DEF FixedBytes
  <2> QED
    BY <1>3, <2>1, <2>2, <2>3, <2>4, <2>5
<1> QED
  BY <1>8, <1>9 DEF s

\* What FlattenSeq puts where.
LEMMA FlattenAt ==
    ASSUME NEW s, IsSeq(s), \A i \in DOMAIN s : IsSeq(s[i])
    PROVE  \E off : /\ off[0] = 0
                    /\ \A k \in 1 .. Len(s) : off[k] = off[k - 1] + Len(s[k])
                    /\ \A k \in 0 .. Len(s) : off[k] \in Nat /\ off[k] <= off[Len(s)]
                    /\ IsSeq(FlattenSeq(s)) /\ Len(FlattenSeq(s)) = off[Len(s)]
                    /\ \A data : \A o \in Nat : At(data, o, FlattenSeq(s)) =>
                           \A k \in 1 .. Len(s) : At(data, o + off[k - 1], s[k])
<1>1. /\ Len(s) \in Nat /\ DOMAIN s = 1 .. Len(s)
      /\ \A k \in 1 .. Len(s) : IsSeq(s[k]) /\ Len(s[k]) \in Nat
  BY IsSeqLen
<1>2. CASE Len(s) = 0
  <2> DEFINE off == [k \in {0} |-> 0]
  <2>1. FlattenSeq(s) = s
    BY <1>2, Zenon DEF FlattenSeq
  <2>2. off[0] = 0
    OBVIOUS
  <2> HIDE DEF off
  <2>3. \A k \in 0 .. Len(s) : k = 0
    BY <1>2
  <2>4. \A k \in 1 .. Len(s) : FALSE
    BY <1>2
  <2>5. \A k \in 0 .. Len(s) : off[k] \in Nat /\ off[k] <= off[Len(s)]
    BY <1>2, <2>2, <2>3
  <2> QED
    BY <1>2, <2>1, <2>2, <2>4, <2>5
<1>3. CASE Len(s) # 0
  <2>1. PICK f : /\ f[1] = s[1]
                 /\ \A i \in 2 .. Len(s) : f[i] = f[i - 1] \o s[i]
                 /\ FlattenSeq(s) = f[Len(s)]
    BY <1>1, <1>3, FlattenRec
  <2> DEFINE off == [k \in 0 .. Len(s) |-> IF k = 0 THEN 0 ELSE Len(f[k])]
             Placed(k) == \A data : \A o \in Nat : At(data, o, f[k]) =>
                              \A j \in 1 .. k : At(data, o + off[j - 1], s[j])
             P(k) == /\ IsSeq(f[k])
                     /\ off[k] = off[k - 1] + Len(s[k])
                     /\ \A j \in 0 .. k : off[j] \in Nat /\ off[j] <= off[k]
                     /\ Placed(k)
             T == {k \in Nat : k + 1 <= Len(s) => P(k + 1)}
  <2>2. off[0] = 0 /\ \A k \in 1 .. Len(s) : off[k] = Len(f[k])
    BY <1>1
  <2> HIDE DEF off
  <2>3. 0 \in T
    <3>1. /\ off[1] = Len(f[1]) /\ off[1] = off[0] + Len(s[1]) /\ off[1] \in Nat
          /\ IsSeq(f[1])
      BY <1>1, <1>3, <2>1, <2>2
    <3>2. \A j \in 0 .. 1 : off[j] \in Nat /\ off[j] <= off[1]
      BY <2>2, <3>1
    <3>3. Placed(1)
      <4> SUFFICES ASSUME NEW data, NEW o \in Nat, At(data, o, f[1]), NEW j \in 1 .. 1
                   PROVE  At(data, o + off[j - 1], s[j])
        OBVIOUS
      <4>1. j = 1 /\ o + off[j - 1] = o
        BY <2>2
      <4> QED
        BY <2>1, <4>1
    <3>4. P(0 + 1)
      BY <3>1, <3>2, <3>3
    <3> HIDE DEF P
    <3> QED
      BY <3>4
  <2>4. ASSUME NEW n \in T PROVE n + 1 \in T
    <3>1. n \in Nat /\ n + 1 \in Nat /\ (n + 1 <= Len(s) => P(n + 1))
      <4> HIDE DEF P
      <4> QED
        OBVIOUS
    <3> DEFINE k == n + 1
    <3> SUFFICES ASSUME k + 1 <= Len(s) PROVE P(k + 1)
      <4> HIDE DEF P
      <4> QED
        BY <3>1
    <3>2. k \in Nat \ {0} /\ k + 1 \in 2 .. Len(s) /\ k + 1 - 1 = k /\ k \in 1 .. Len(s)
      BY <1>1, <3>1
    <3>3. P(k)
      BY <1>1, <3>1, <3>2
    <3> HIDE DEF k
    <3> DEFINE g == f[k]
               t == s[k + 1]
    <3>4. f[k + 1] = g \o t /\ IsSeq(g) /\ IsSeq(t)
      <4>1. f[k + 1] = f[k] \o s[k + 1]
        <5>1. PICK i : i = k + 1
          OBVIOUS
        <5>2. i \in 2 .. Len(s) /\ i - 1 = k
          BY <3>2, <5>1
        <5>3. f[i] = f[i - 1] \o s[i]
          BY <2>1, <5>2, Zenon
        <5> QED
          BY <5>1, <5>2, <5>3, Zenon
      <4>2. IsSeq(g)
        BY <3>3, Zenon
      <4>3. k + 1 \in 1 .. Len(s)
        BY <1>1, <3>2
      <4>4. IsSeq(t)
        BY <1>1, <4>3, Zenon
      <4> QED
        BY <3>2, <4>1, <4>2, <4>4, Zenon
    <3>5. off[k] = Len(f[k]) /\ off[k + 1] = Len(f[k + 1])
      <4>1. k + 1 \in 1 .. Len(s)
        BY <1>1, <3>2
      <4> QED
        BY <2>2, <3>2, <4>1, Zenon
    <3> HIDE DEF t
    <3>6. /\ IsSeq(f[k + 1]) /\ off[k + 1] = off[k] + Len(t)
          /\ off[k] \in Nat /\ Len(t) \in Nat /\ off[k + 1] \in Nat
      <4> HIDE DEF g
      <4>1. /\ IsSeq(g \o t) /\ Len(g \o t) = Len(g) + Len(t)
            /\ Len(g) \in Nat /\ Len(t) \in Nat
        BY <3>4, IsSeqConcat, IsSeqLen
      <4>2. off[k] = Len(g) /\ off[k + 1] = Len(g \o t)
        BY <3>4, <3>5, Zenon DEF g
      <4> QED
        BY <3>4, <4>1, <4>2
    <3> HIDE DEF g
    <3>7. \A j \in 0 .. k + 1 : off[j] \in Nat /\ off[j] <= off[k + 1]
      <4> TAKE j \in 0 .. k + 1
      <4>1. j \in 0 .. k \/ j = k + 1
        BY <3>2
      <4>2. \A i \in 0 .. k : off[i] \in Nat /\ off[i] <= off[k]
        BY <3>3
      <4> QED
        BY <3>6, <4>1, <4>2
    <3>8. Placed(k + 1)
      <4> SUFFICES ASSUME NEW data, NEW o \in Nat, At(data, o, f[k + 1]),
                          NEW j \in 1 .. k + 1
                   PROVE  At(data, o + off[j - 1], s[j])
        OBVIOUS
      <4>1. At(data, o, g) /\ At(data, o + Len(g), t)
        BY <3>4, ConcatAt
      <4>2. j \in 1 .. k \/ j = k + 1
        BY <3>2
      <4>3. Placed(k)
        BY <3>3
      <4>4. CASE j \in 1 .. k
        BY <4>1, <4>3, <4>4 DEF g
      <4>5. CASE j = k + 1
        BY <3>2, <3>5, <4>1, <4>5 DEF g, t
      <4> QED
        BY <4>2, <4>4, <4>5
    <3> HIDE DEF Placed
    <3> QED
      BY <3>2, <3>4, <3>6, <3>7, <3>8 DEF t
  <2> HIDE DEF P
  <2>5. T = Nat
    <3> HIDE DEF T
    <3>1. T \subseteq Nat
      BY DEF T
    <3> QED
      BY <2>3, <2>4, <3>1, SetInduction
  <2>6. \A k \in 1 .. Len(s) : P(k)
    <3>1. \A n \in Nat : n + 1 <= Len(s) => P(n + 1)
      BY <2>5
    <3> HIDE DEF T
    <3> SUFFICES ASSUME NEW k \in 1 .. Len(s) PROVE P(k)
      OBVIOUS
    <3>2. k - 1 \in Nat /\ (k - 1) + 1 = k /\ k <= Len(s)
      BY <1>1
    <3> QED
      BY <3>1, <3>2
  <2>7. Len(s) \in 1 .. Len(s)
    BY <1>1, <1>3
  <2>8. P(Len(s))
    BY <2>6, <2>7
  <2>9. \A k \in 1 .. Len(s) : off[k] = off[k - 1] + Len(s[k])
    BY <2>6 DEF P
  <2>10. /\ \A k \in 0 .. Len(s) : off[k] \in Nat /\ off[k] <= off[Len(s)]
         /\ IsSeq(FlattenSeq(s)) /\ Len(FlattenSeq(s)) = off[Len(s)]
    BY <2>1, <2>2, <2>7, <2>8 DEF P
  <2>11. \A data : \A o \in Nat : At(data, o, FlattenSeq(s)) =>
            \A k \in 1 .. Len(s) : At(data, o + off[k - 1], s[k])
    BY <2>1, <2>8 DEF P
  <2> QED
    BY <2>2, <2>9, <2>10, <2>11
<1> QED
  BY <1>2, <1>3

\* Where the fields of a block stand.
Framed(b, body) ==
    Bytes(1, 1) \o Bytes(b.number, NumberBytes) \o Bytes(b.parent, HashBytes)
        \o Bytes(b.time, NumberBytes) \o Bytes(Len(b.txs), CountBytes) \o body

LEMMA BlockAt ==
    ASSUME NEW b, NEW body, IsSeq(body), NEW d, d = Framed(b, body)
    PROVE  /\ IsSeq(d) /\ Len(d) = HeaderBytes + Len(body)
           /\ Field(d, 0, 1) = 1
           /\ Field(d, 1, NumberBytes) = b.number
           /\ Field(d, 1 + NumberBytes, HashBytes) = b.parent
           /\ Field(d, 1 + NumberBytes + HashBytes, NumberBytes) = b.time
           /\ Field(d, HeaderBytes - CountBytes, CountBytes) = Len(b.txs)
           /\ At(d, HeaderBytes, body)
<1> DEFINE A == Bytes(1, 1)
           B == Bytes(b.number, NumberBytes)
           C == Bytes(b.parent, HashBytes)
           D == Bytes(b.time, NumberBytes)
           E == Bytes(Len(b.txs), CountBytes)
<1>1. /\ IsSeq(A) /\ Len(A) = 1 /\ IsSeq(B) /\ Len(B) = NumberBytes
      /\ IsSeq(C) /\ Len(C) = HashBytes /\ IsSeq(D) /\ Len(D) = NumberBytes
      /\ IsSeq(E) /\ Len(E) = CountBytes
  BY Widths, BytesSeq
<1>2. d = A \o B \o C \o D \o E \o body
  BY Zenon DEF Framed
<1>3. \A o \in Nat :
         /\ At(d, o, A) => Field(d, o, 1) = 1
         /\ At(d, o, B) => Field(d, o, NumberBytes) = b.number
         /\ At(d, o, C) => Field(d, o, HashBytes) = b.parent
         /\ At(d, o, D) => Field(d, o, NumberBytes) = b.time
         /\ At(d, o, E) => Field(d, o, CountBytes) = Len(b.txs)
  BY Widths, FieldAt
<1> HIDE DEF A, B, C, D, E
<1> DEFINE s2 == A \o B
           s3 == s2 \o C
           s4 == s3 \o D
           s5 == s4 \o E
<1>4. IsSeq(s2) /\ Len(s2) = 1 + NumberBytes
  BY <1>1, ConcatLen
<1> HIDE DEF s2
<1>5. IsSeq(s3) /\ Len(s3) = 1 + NumberBytes + HashBytes
  BY <1>1, <1>4, ConcatLen
<1> HIDE DEF s3
<1>6. IsSeq(s4) /\ Len(s4) = 1 + NumberBytes + HashBytes + NumberBytes
  BY <1>1, <1>5, ConcatLen
<1> HIDE DEF s4
<1>7. IsSeq(s5) /\ Len(s5) = HeaderBytes
  BY <1>1, <1>6, ConcatLen DEF HeaderBytes
<1> HIDE DEF s5
<1>8. d = s5 \o body
  BY <1>2, Zenon DEF s2, s3, s4, s5
<1>9. IsSeq(d) /\ Len(d) = HeaderBytes + Len(body)
  BY <1>7, <1>8, ConcatLen
<1>10. At(d, 0, s5) /\ At(d, HeaderBytes, body)
  <2>1. At(d, 0, s5 \o body)
    <3>1. \A i \in 1 .. Len(d) : d[0 + i] = d[i]
      BY <1>9, IsSeqLen
    <3> QED
      BY <1>8, <3>1 DEF At
  <2>2. At(d, 0, s5) /\ At(d, 0 + Len(s5), body)
    BY <1>7, <2>1, ConcatAt
  <2>3. 0 + Len(s5) = HeaderBytes
    BY <1>7, Widths
  <2> QED
    BY <2>2, <2>3
<1>11. At(d, 0, s4) /\ At(d, 0 + Len(s4), E)
  BY <1>1, <1>6, <1>10, ConcatAt DEF s5
<1>12. At(d, 0, s3) /\ At(d, 0 + Len(s3), D)
  BY <1>1, <1>5, <1>11, ConcatAt DEF s4
<1>13. At(d, 0, s2) /\ At(d, 0 + Len(s2), C)
  BY <1>1, <1>4, <1>12, ConcatAt DEF s3
<1>14. At(d, 0, A) /\ At(d, 0 + Len(A), B)
  BY <1>1, <1>13, ConcatAt DEF s2
<1>15. /\ 0 + Len(s4) = HeaderBytes - CountBytes /\ 0 + Len(s4) \in Nat
       /\ 0 + Len(s3) = 1 + NumberBytes + HashBytes /\ 0 + Len(s3) \in Nat
       /\ 0 + Len(s2) = 1 + NumberBytes /\ 0 + Len(s2) \in Nat
       /\ 0 + Len(A) = 1
  BY <1>1, <1>4, <1>5, <1>6, Widths DEF HeaderBytes
<1> QED
  BY <1>3, <1>9, <1>10, <1>11, <1>12, <1>13, <1>14, <1>15

\* Reading one transaction from input e that agrees with d as far as it goes:
\* the strict decoder takes it if and only if it is there to its last byte,
\* and what it takes is the transaction that was written.
LEMMA ReadOne ==
    ASSUME NEW tx, IsTransaction(tx), NEW d, NEW e, Begins(e, d),
           NEW o \in Nat, At(d, o, serializeTransaction(tx)), NEW txs,
           NEW strict \in BOOLEAN, strict \/ o + FixedBytes + Len(tx.data) <= Len(e)
    PROVE  LET r == deserializeTransaction(e, [ok |-> TRUE, offset |-> o, txs |-> txs], strict)
               end == o + FixedBytes + Len(tx.data)
           IN  /\ r.ok <=> end <= Len(e)
               /\ r.ok => r = [ok |-> TRUE, offset |-> end, txs |-> Append(txs, tx)]
<1> DEFINE before == [ok |-> TRUE, offset |-> o, txs |-> txs]
           r == deserializeTransaction(e, before, strict)
           end == o + FixedBytes + Len(tx.data)
           n == Field(e, o + FixedBytes - CountBytes, CountBytes)
           left == Len(e) - o - FixedBytes
           one == [from  |-> Field(e, o, AddressBytes),
                   to    |-> Field(e, o + AddressBytes, AddressBytes),
                   value |-> Field(e, o + AddressBytes + AddressBytes, HashBytes),
                   data  |-> Payload(e, o + FixedBytes, n)]
           took == [ok |-> TRUE, offset |-> o + FixedBytes + n, txs |-> Append(txs, one)]
<1>1. /\ Len(e) \in Nat /\ Len(tx.data) \in Nat /\ IsSeq(tx.data)
      /\ DOMAIN tx.data = 1 .. Len(tx.data)
  BY IsSeqLen DEF IsTransaction, Begins
<1>2. /\ left < 0 => r.ok = FALSE
      /\ left >= 0 /\ ~(n <= left \/ (~strict /\ left > 0)) => r.ok = FALSE
      /\ left >= 0 /\ (n <= left \/ (~strict /\ left > 0)) => r = took
  <2>1. before.ok = TRUE /\ before.offset = o /\ before.txs = txs
    OBVIOUS
  <2>2. [before EXCEPT !.ok = FALSE].ok = FALSE
    OBVIOUS
  <2>3. r = IF ~before.ok THEN before
            ELSE IF Len(e) - before.offset - FixedBytes < 0 THEN [before EXCEPT !.ok = FALSE]
            ELSE IF ~(Field(e, before.offset + FixedBytes - CountBytes, CountBytes)
                          <= Len(e) - before.offset - FixedBytes
                      \/ (~strict /\ Len(e) - before.offset - FixedBytes > 0))
                 THEN [before EXCEPT !.ok = FALSE]
            ELSE [ok     |-> TRUE,
                  offset |-> before.offset + FixedBytes
                      + Field(e, before.offset + FixedBytes - CountBytes, CountBytes),
                  txs    |-> Append(before.txs,
                      [from  |-> Field(e, before.offset, AddressBytes),
                       to    |-> Field(e, before.offset + AddressBytes, AddressBytes),
                       value |-> Field(e, before.offset + AddressBytes + AddressBytes, HashBytes),
                       data  |-> Payload(e, before.offset + FixedBytes,
                           Field(e, before.offset + FixedBytes - CountBytes, CountBytes))])]
    BY Zenon DEF deserializeTransaction
  <2>4. left \in Int
    BY <1>1, Widths
  <2>5. left >= 0 <=> ~(left < 0)
    BY <2>4
  <2> HIDE DEF r, before
  <2>6. r = IF left < 0 THEN [before EXCEPT !.ok = FALSE]
            ELSE IF ~(n <= left \/ (~strict /\ left > 0)) THEN [before EXCEPT !.ok = FALSE]
            ELSE took
    BY <2>1, <2>3, Zenon
  <2> HIDE DEF n, left, took
  <2> QED
    BY <2>2, <2>5, <2>6, Zenon
<1>3. /\ Field(d, o, AddressBytes) = tx.from
      /\ Field(d, o + AddressBytes, AddressBytes) = tx.to
      /\ Field(d, o + AddressBytes + AddressBytes, HashBytes) = tx.value
      /\ Field(d, o + FixedBytes - CountBytes, CountBytes) = Len(tx.data)
      /\ At(d, o + FixedBytes, tx.data)
  BY <1>1, TransactionAt
<1> HIDE DEF r, before
<1>4. CASE left < 0
  <2>1. ~(end <= Len(e))
    <3>1. \A a, c, l, m \in Nat : m - a - c < 0 => ~(a + c + l <= m)
      OBVIOUS
    <3> QED
      BY <1>1, <1>4, <3>1, Widths, Zenon
  <2> HIDE DEF left, end
  <2> QED
    BY <1>2, <1>4, <2>1 DEF r, before, end
<1>5. CASE left >= 0
  <2>1. /\ o + AddressBytes <= Len(e) /\ o + AddressBytes + AddressBytes <= Len(e)
        /\ o + AddressBytes + AddressBytes + HashBytes <= Len(e)
        /\ o + FixedBytes - CountBytes + CountBytes <= Len(e)
        /\ o + AddressBytes \in Nat /\ o + AddressBytes + AddressBytes \in Nat
        /\ o + FixedBytes - CountBytes \in Nat
    BY <1>1, <1>5, Widths DEF FixedBytes
  <2>2. /\ Field(e, o, AddressBytes) = tx.from
        /\ Field(e, o + AddressBytes, AddressBytes) = tx.to
        /\ Field(e, o + AddressBytes + AddressBytes, HashBytes) = tx.value
        /\ n = Len(tx.data)
    <3>2. /\ Field(e, o, AddressBytes) = Field(d, o, AddressBytes)
          /\ Field(e, o + AddressBytes, AddressBytes) = Field(d, o + AddressBytes, AddressBytes)
      BY <2>1, Widths, FieldShared
    <3>3. Field(e, o + AddressBytes + AddressBytes, HashBytes)
            = Field(d, o + AddressBytes + AddressBytes, HashBytes)
      BY <2>1, Widths, FieldShared
    <3>4. n = Field(d, o + FixedBytes - CountBytes, CountBytes)
      BY <2>1, Widths, FieldShared
    <3> QED
      BY <1>3, <3>2, <3>3, <3>4, Zenon
  <2>3. end <= Len(e) <=> n <= left
    <3>1. \A a, c, l, m \in Nat : a + c + l <= m <=> l <= m - a - c
      OBVIOUS
    <3>2. n \in Nat /\ end = o + FixedBytes + n
      BY <1>1, <2>2
    <3> HIDE DEF n, end
    <3> QED
      BY <1>1, <3>1, <3>2, Widths, Zenon
  <2>4. CASE ~(n <= left)
    <3>1. strict /\ ~(end <= Len(e))
      BY <2>3, <2>4
    <3>2. r.ok = FALSE
      BY <1>2, <1>5, <2>4, <3>1, Zenon
    <3> QED
      BY <3>1, <3>2 DEF r, before
  <2>5. CASE n <= left
    <3>1. r = took
      BY <1>2, <1>5, <2>5, Zenon
    <3>2. Payload(e, o + FixedBytes, n) = tx.data
      <4>1. \A i \in 1 .. Len(tx.data) :
               o + FixedBytes + i <= Len(e) /\ e[o + FixedBytes + i] = tx.data[i]
        <5> TAKE i \in 1 .. Len(tx.data)
        <5>1. o + FixedBytes + i \in 1 .. Len(e)
          <6>1. \A a, c, l, m \in Nat : \A x \in 1 .. l :
                   a + c + l <= m => a + c + x \in 1 .. m
            OBVIOUS
          <6>2. end <= Len(e)
            BY <2>3, <2>5, Zenon
          <6> QED
            BY <1>1, <6>1, <6>2, Widths, Zenon
        <5>2. d[o + FixedBytes + i] = tx.data[i]
          BY <1>3 DEF At
        <5> QED
          BY <5>1, <5>2 DEF Begins
      <4>2. tx.data = [i \in 1 .. Len(tx.data) |-> tx.data[i]]
        BY <1>1 DEF IsSeq
      <4> QED
        BY <2>2, <4>1, <4>2 DEF Payload
    <3>3. one = tx
      BY <2>2, <3>2 DEF IsTransaction
    <3>4. took = [ok |-> TRUE, offset |-> end, txs |-> Append(txs, tx)]
      BY <2>2, <3>3
    <3>5. r.ok
      BY <3>1
    <3> HIDE DEF took
    <3> QED
      BY <2>3, <2>5, <3>1, <3>4, <3>5 DEF r, before
  <2> QED
    BY <2>4, <2>5
<1> QED
  <2>1. left \in Int
    BY <1>1, Widths
  <2>2. left < 0 \/ left >= 0
    BY <2>1
  <2> QED
    BY <1>4, <1>5, <2>2

TransactionBytes(b) == [i \in DOMAIN b.txs |-> serializeTransaction(b.txs[i])]

\* The bytes of a block: the header, then transaction after transaction.
LEMMA BlockLayout ==
    ASSUME NEW b \in Blocks
    PROVE  LET d == SerializeBlock(b)
           IN  \E off :
                   /\ off[0] = HeaderBytes
                   /\ \A k \in 1 .. Len(b.txs) :
                          off[k] = off[k - 1] + FixedBytes + Len(b.txs[k].data)
                   /\ \A k \in 0 .. Len(b.txs) : off[k] \in Nat /\ off[k] <= Len(d)
                   /\ IsSeq(d) /\ Len(d) = off[Len(b.txs)]
                   /\ IsSeq(FlattenSeq(TransactionBytes(b)))
                   /\ \A k \in 1 .. Len(b.txs) :
                          At(d, off[k - 1], serializeTransaction(b.txs[k]))
<1> DEFINE d == SerializeBlock(b)
           m == Len(b.txs)
           s == TransactionBytes(b)
           body == FlattenSeq(s)
<1>1. m \in Nat /\ DOMAIN b.txs = 1 .. m
  BY TransactionsAssumption, IsSeqLen
<1>2. \A k \in 1 .. m : IsSeq(b.txs[k].data)
  BY <1>1, TransactionsAssumption DEF IsTransaction
<1>3. \A k \in 1 .. m :
         /\ s[k] = serializeTransaction(b.txs[k])
         /\ IsSeq(s[k]) /\ Len(s[k]) = FixedBytes + Len(b.txs[k].data)
         /\ Len(b.txs[k].data) \in Nat
  <2> TAKE k \in 1 .. m
  <2>1. s[k] = serializeTransaction(b.txs[k])
    BY <1>1 DEF TransactionBytes
  <2> HIDE DEF s
  <2> QED
    BY <1>2, <2>1, TransactionAt, IsSeqLen
<1>4. d = Framed(b, body)
  BY Zenon DEF SerializeBlock, Framed, TransactionBytes
<1>5. DOMAIN s = 1 .. m
  BY <1>1 DEF TransactionBytes
<1> HIDE DEF s, m
<1>6. IsSeq(s) /\ Len(s) = m
  <2> DEFINE S == {s[i] : i \in 1 .. m}
  <2>1. s \in [1 .. m -> S]
    <3>1. s = [i \in 1 .. m |-> s[i]]
      BY <1>1 DEF s, m, TransactionBytes
    <3> QED
      BY <3>1
  <2> HIDE DEF S
  <2>2. s \in Seq(S) /\ Len(s) = m
    BY <1>1, <2>1
  <2> QED
    BY <2>2, IsSeqIntro
<1>7. PICK p : /\ p[0] = 0
               /\ \A k \in 1 .. m : p[k] = p[k - 1] + Len(s[k])
               /\ \A k \in 0 .. m : p[k] \in Nat /\ p[k] <= p[m]
               /\ IsSeq(body) /\ Len(body) = p[m]
               /\ \A data : \A o \in Nat : At(data, o, body) =>
                      \A k \in 1 .. m : At(data, o + p[k - 1], s[k])
  <2>1. \A i \in DOMAIN s : IsSeq(s[i])
    BY <1>3, <1>5
  <2> HIDE DEF body
  <2> QED
    BY <1>6, <2>1, FlattenAt DEF body
<1> HIDE DEF body, d
<1>8. IsSeq(d) /\ Len(d) = HeaderBytes + Len(body) /\ At(d, HeaderBytes, body)
  BY <1>4, <1>7, BlockAt
<1> DEFINE off == [k \in 0 .. m |-> HeaderBytes + p[k]]
<1>9. \A k \in 0 .. m : off[k] = HeaderBytes + p[k] /\ p[k] \in Nat /\ p[k] <= p[m]
  BY <1>7
<1> HIDE DEF off
<1>10. off[0] = HeaderBytes
  BY <1>1, <1>7, <1>9, Widths
<1>11. Len(d) = off[m]
  BY <1>1, <1>7, <1>8, <1>9
<1>12. \A k \in 0 .. m : off[k] \in Nat /\ off[k] <= Len(d)
  BY <1>1, <1>9, <1>11, Widths
<1>13. ASSUME NEW k \in 1 .. m
       PROVE  /\ off[k] = off[k - 1] + FixedBytes + Len(b.txs[k].data)
              /\ At(d, off[k - 1], serializeTransaction(b.txs[k]))
  <2>1. k \in 0 .. m /\ k - 1 \in 0 .. m
    BY <1>1
  <2>2. /\ off[k] = HeaderBytes + p[k] /\ off[k - 1] = HeaderBytes + p[k - 1]
        /\ p[k - 1] \in Nat /\ p[k] = p[k - 1] + Len(s[k])
        /\ Len(s[k]) = FixedBytes + Len(b.txs[k].data)
        /\ Len(b.txs[k].data) \in Nat
    BY <1>3, <1>7, <1>9, <2>1
  <2>3. At(d, HeaderBytes + p[k - 1], s[k])
    BY <1>7, <1>8, Widths
  <2>4. s[k] = serializeTransaction(b.txs[k])
    BY <1>3
  <2>5. off[k] = off[k - 1] + FixedBytes + Len(b.txs[k].data)
    <3>1. PICK x \in Nat, l \in Nat : x = p[k - 1] /\ l = Len(b.txs[k].data)
      BY <2>2
    <3>2. off[k] = HeaderBytes + (x + (FixedBytes + l)) /\ off[k - 1] = HeaderBytes + x
      BY <2>2, <3>1, Zenon
    <3>3. off[k] = off[k - 1] + FixedBytes + l
      BY <3>2, Widths
    <3> QED
      BY <3>1, <3>3, Zenon
  <2> QED
    BY <2>2, <2>3, <2>4, <2>5, Zenon
<1> QED
  BY <1>7, <1>8, <1>10, <1>11, <1>12, <1>13 DEF d, m, body, s

\* What the loop over the transactions reads from an input that begins like
\* the bytes of block b and holds the whole header.
LEMMA ReadAll ==
    ASSUME NEW b \in Blocks, NEW e, Begins(e, SerializeBlock(b)),
           HeaderBytes <= Len(e), Len(e) <= Len(SerializeBlock(b)),
           NEW strict \in BOOLEAN, strict \/ Len(e) = Len(SerializeBlock(b))
    PROVE  LET r == ReadTransactions(e, Len(b.txs), strict)
           IN  /\ r.ok <=> Len(e) = Len(SerializeBlock(b))
               /\ r.ok => r.txs = b.txs
<1> DEFINE d == SerializeBlock(b)
           m == Len(b.txs)
<1>1. m \in Nat /\ IsSeq(b.txs) /\ DOMAIN b.txs = 1 .. m
  BY TransactionsAssumption, IsSeqLen
<1>2. \A k \in 1 .. m : IsTransaction(b.txs[k])
  BY <1>1, TransactionsAssumption
<1>3. PICK off :
         /\ off[0] = HeaderBytes
         /\ \A k \in 1 .. m : off[k] = off[k - 1] + FixedBytes + Len(b.txs[k].data)
         /\ \A k \in 0 .. m : off[k] \in Nat /\ off[k] <= Len(d)
         /\ IsSeq(d) /\ Len(d) = off[m] /\ IsSeq(FlattenSeq(TransactionBytes(b)))
         /\ \A k \in 1 .. m : At(d, off[k - 1], serializeTransaction(b.txs[k]))
  BY BlockLayout
<1>4. PICK r : /\ r[0] = Start
               /\ \A k \in 1 .. m : r[k] = deserializeTransaction(e, r[k - 1], strict)
               /\ ReadTransactions(e, m, strict) = r[m]
  BY <1>1, ReadRec, SMTT(30)
<1>5. Len(e) \in Nat /\ Len(d) \in Nat /\ Begins(e, d) /\ Len(e) <= Len(d)
      /\ (strict \/ Len(e) = Len(d))
  BY <1>3, IsSeqLen DEF Begins
<1> HIDE DEF d, m
<1> DEFINE Read(k, txs) == r[k] = [ok |-> TRUE, offset |-> off[k], txs |-> txs]
           Copied(k, txs) == /\ IsSeq(txs) /\ Len(txs) = k
                             /\ \A j \in 1 .. k : txs[j] = b.txs[j]
           P(k) == /\ r[k].ok <=> off[k] <= Len(e)
                   /\ r[k].ok => \E txs : Read(k, txs) /\ Copied(k, txs)
           T == {k \in Nat : k <= m => P(k)}
<1>6. 0 \in T
  <2>1. r[0] = [ok |-> TRUE, offset |-> HeaderBytes, txs |-> <<>>] /\ r[0].ok
    BY <1>4 DEF Start
  <2>2. Read(0, <<>>)
    BY <1>3, <2>1
  <2>3. IsSeq(<<>>) /\ Len(<<>>) = 0
    BY EmptySeq, IsSeqIntro
  <2>4. Copied(0, <<>>)
    BY <2>3
  <2>5. off[0] <= Len(e)
    BY <1>3
  <2> HIDE DEF Read, Copied
  <2>6. P(0)
    BY <2>1, <2>2, <2>4, <2>5
  <2> HIDE DEF P
  <2> QED
    BY <2>6
<1>7. ASSUME NEW n \in T PROVE n + 1 \in T
  <2>1. n \in Nat /\ n + 1 \in Nat /\ (n <= m => P(n))
    <3> HIDE DEF P
    <3> QED
      OBVIOUS
  <2> SUFFICES ASSUME n + 1 <= m PROVE P(n + 1)
    <3> HIDE DEF P
    <3> QED
      BY <2>1
  <2>2. PICK k : k = n + 1
    OBVIOUS
  <2>3. k \in 1 .. m /\ k - 1 = n /\ n <= m /\ n \in 0 .. m /\ k \in 0 .. m
    BY <1>1, <2>1, <2>2
  <2> DEFINE tx == b.txs[k]
  <2>4. /\ r[k] = deserializeTransaction(e, r[n], strict)
        /\ off[k] = off[n] + FixedBytes + Len(tx.data)
        /\ At(d, off[n], serializeTransaction(tx))
        /\ IsTransaction(tx)
    BY <1>2, <1>3, <1>4, <2>3
  <2>5. off[n] \in Nat /\ off[k] \in Nat /\ off[n] <= off[k] /\ off[k] <= Len(d)
    <3>1. Len(tx.data) \in Nat
      BY <2>4, IsSeqLen DEF IsTransaction
    <3>2. off[n] \in Nat /\ off[k] \in Nat /\ off[k] <= Len(d)
      BY <1>3, <2>3
    <3> HIDE DEF tx
    <3> QED
      BY <2>4, <3>1, <3>2, Widths
  <2>6. P(n)
    BY <2>1, <2>3
  <2>7. CASE ~r[n].ok
    <3>1. r[k] = r[n]
      BY <2>4, <2>7, Zenon DEF deserializeTransaction
    <3>2. ~(off[n] <= Len(e))
      BY <2>6, <2>7
    <3>3. ~(off[k] <= Len(e))
      BY <1>5, <2>5, <3>2
    <3> QED
      BY <2>2, <2>7, <3>1, <3>3
  <2>8. CASE r[n].ok
    <3>1. PICK txs : Read(n, txs) /\ Copied(n, txs)
      BY <2>6, <2>8
    <3>2. strict \/ off[k] <= Len(e)
      BY <1>5, <2>5
    <3>3. /\ r[k].ok <=> off[k] <= Len(e)
          /\ r[k].ok => r[k] = [ok |-> TRUE, offset |-> off[k], txs |-> Append(txs, tx)]
      <4> DEFINE v == [ok |-> TRUE, offset |-> off[n], txs |-> txs]
                 q == deserializeTransaction(e, v, strict)
                 z == off[n] + FixedBytes + Len(tx.data)
      <4>1. r[k] = q /\ off[k] = z
        BY <2>4, <3>1
      <4>2. /\ q.ok <=> z <= Len(e)
            /\ q.ok => q = [ok |-> TRUE, offset |-> z, txs |-> Append(txs, tx)]
        <5>1. strict \/ z <= Len(e)
          BY <3>2, <4>1, Zenon
        <5>2. /\ Begins(e, d) /\ IsTransaction(tx) /\ off[n] \in Nat
              /\ At(d, off[n], serializeTransaction(tx))
          BY <1>5, <2>4, <2>5, Zenon
        <5> HIDE DEF tx
        <5> QED
          BY <5>1, <5>2, ReadOne
      <4> HIDE DEF q, z, tx
      <4> QED
        BY <4>1, <4>2, Zenon
    <3>4. Copied(k, Append(txs, tx))
      <4> HIDE DEF tx
      <4>1. IsSeq(txs) /\ Len(txs) = n /\ \A j \in 1 .. n : txs[j] = b.txs[j]
        BY <3>1
      <4>2. /\ IsSeq(Append(txs, tx)) /\ Len(Append(txs, tx)) = n + 1
            /\ \A j \in 1 .. n : Append(txs, tx)[j] = txs[j]
            /\ Append(txs, tx)[n + 1] = tx
        BY <4>1, IsSeqAppend
      <4>3. \A j \in 1 .. k : j \in 1 .. n \/ j = n + 1
        BY <2>1, <2>2
      <4>4. \A j \in 1 .. k : Append(txs, tx)[j] = b.txs[j]
        BY <2>2, <4>1, <4>2, <4>3 DEF tx
      <4> QED
        BY <2>2, <4>2, <4>4
    <3> HIDE DEF Copied, tx
    <3> QED
      BY <2>2, <3>3, <3>4
  <2> QED
    BY <2>7, <2>8
<1> HIDE DEF P
<1>8. T = Nat
  <2> HIDE DEF T
  <2>1. T \subseteq Nat
    BY DEF T
  <2> QED
    BY <1>6, <1>7, <2>1, SetInduction
<1>9. P(m)
  <2>1. \A k \in Nat : k <= m => P(k)
    BY <1>8
  <2> HIDE DEF T
  <2>2. m <= m
    BY <1>1
  <2> QED
    BY <1>1, <2>1, <2>2
<1>10. r[m].ok <=> Len(e) = Len(d)
  BY <1>3, <1>5, <1>9 DEF P
<1>11. ASSUME r[m].ok PROVE r[m].txs = b.txs
  <2>1. PICK txs : Read(m, txs) /\ Copied(m, txs)
    BY <1>9, <1>11 DEF P
  <2>2. r[m].txs = txs
    BY <2>1
  <2>3. txs = b.txs
    <3>1. /\ IsSeq(txs) /\ Len(txs) = Len(b.txs) /\ IsSeq(b.txs)
          /\ \A j \in 1 .. Len(b.txs) : txs[j] = b.txs[j]
      BY <1>1, <2>1 DEF m
    <3> QED
      BY <3>1, IsSeqEqual
  <2> QED
    BY <2>2, <2>3
<1> QED
  BY <1>4, <1>10, <1>11 DEF d, m

\* Both decoders on an input that begins like the bytes of block b.
LEMMA DecodeBlock ==
    ASSUME NEW b \in Blocks, NEW e, Begins(e, SerializeBlock(b)),
           Len(e) <= Len(SerializeBlock(b)),
           NEW strict \in BOOLEAN, strict \/ Len(e) = Len(SerializeBlock(b))
    PROVE  Decode(e, strict) =
               IF Len(e) = Len(SerializeBlock(b))
               THEN Ok([number |-> b.number, parent |-> b.parent, time |-> b.time, txs |-> b.txs])
               ELSE Error
<1> DEFINE d == SerializeBlock(b)
           read == ReadTransactions(e, Field(e, HeaderBytes - CountBytes, CountBytes), strict)
           block == [number |-> Field(e, 1, NumberBytes),
                     parent |-> Field(e, 1 + NumberBytes, HashBytes),
                     time   |-> Field(e, 1 + NumberBytes + HashBytes, NumberBytes),
                     txs    |-> read.txs]
<1>1. Decode(e, strict) =
         IF Len(e) < HeaderBytes THEN Error
         ELSE IF Field(e, 0, 1) # 1 THEN Error
         ELSE IF ~read.ok THEN Error
         ELSE Ok(block)
  BY Zenon DEF Decode
<1>2. /\ Len(e) \in Nat /\ Len(d) \in Nat /\ HeaderBytes <= Len(d)
      /\ Field(d, 0, 1) = 1
      /\ Field(d, 1, NumberBytes) = b.number
      /\ Field(d, 1 + NumberBytes, HashBytes) = b.parent
      /\ Field(d, 1 + NumberBytes + HashBytes, NumberBytes) = b.time
      /\ Field(d, HeaderBytes - CountBytes, CountBytes) = Len(b.txs)
  <2> DEFINE body == FlattenSeq(TransactionBytes(b))
  <2>1. d = Framed(b, body)
    BY Zenon DEF SerializeBlock, Framed, TransactionBytes
  <2>2. IsSeq(body)
    BY BlockLayout
  <2> HIDE DEF body, d
  <2>3. /\ IsSeq(d) /\ Len(d) = HeaderBytes + Len(body) /\ Len(body) \in Nat
    BY <2>1, <2>2, BlockAt, IsSeqLen
  <2>4. Len(e) \in Nat /\ Len(d) \in Nat /\ HeaderBytes <= Len(d)
    BY <2>3, Widths, IsSeqLen DEF Begins
  <2> QED
    BY <2>1, <2>2, <2>4, BlockAt
<1> HIDE DEF d
<1>3. CASE Len(e) < HeaderBytes
  <2>1. Len(e) # Len(d)
    BY <1>2, <1>3, Widths
  <2> QED
    BY <1>1, <1>3, <2>1 DEF d
<1>4. CASE ~(Len(e) < HeaderBytes)
  <2>1. /\ HeaderBytes <= Len(e)
        /\ 0 + 1 <= Len(e) /\ 1 + NumberBytes <= Len(e) /\ 1 + NumberBytes + HashBytes <= Len(e)
        /\ 1 + NumberBytes + HashBytes + NumberBytes <= Len(e)
        /\ HeaderBytes - CountBytes + CountBytes <= Len(e)
        /\ 1 + NumberBytes \in Nat /\ 1 + NumberBytes + HashBytes \in Nat
        /\ HeaderBytes - CountBytes \in Nat
    BY <1>2, <1>4, Widths DEF HeaderBytes
  <2>2. Begins(e, d)
    BY DEF d
  <2>3. /\ Field(e, 0, 1) = 1
        /\ Field(e, 1, NumberBytes) = b.number
        /\ Field(e, 1 + NumberBytes, HashBytes) = b.parent
        /\ Field(e, 1 + NumberBytes + HashBytes, NumberBytes) = b.time
        /\ Field(e, HeaderBytes - CountBytes, CountBytes) = Len(b.txs)
    <3>1. Field(e, 0, 1) = 1 /\ Field(e, 1, NumberBytes) = b.number
      BY <1>2, <2>1, <2>2, Widths, FieldShared
    <3>2. Field(e, 1 + NumberBytes, HashBytes) = b.parent
      BY <1>2, <2>1, <2>2, Widths, FieldShared
    <3>3. Field(e, 1 + NumberBytes + HashBytes, NumberBytes) = b.time
      BY <1>2, <2>1, <2>2, Widths, FieldShared
    <3>4. Field(e, HeaderBytes - CountBytes, CountBytes) = Len(b.txs)
      BY <1>2, <2>1, <2>2, Widths, FieldShared
    <3> QED
      BY <3>1, <3>2, <3>3, <3>4
  <2>4. read = ReadTransactions(e, Len(b.txs), strict)
    BY <2>3
  <2>5. /\ read.ok <=> Len(e) = Len(d)
        /\ read.ok => read.txs = b.txs
    BY <2>1, <2>4, ReadAll DEF d
  <2>6. read.ok => block = [number |-> b.number, parent |-> b.parent,
                            time |-> b.time, txs |-> b.txs]
    <3> HIDE DEF read
    <3> QED
      BY <2>3, <2>5
  <2> HIDE DEF read, block
  <2> QED
    BY <1>1, <1>4, <2>3, <2>5, <2>6, Zenon DEF d
<1> QED
  BY <1>3, <1>4

LEMMA BlockCrosses ==
    ASSUME NEW b \in Blocks
    PROVE  Crosses(b)
<1> DEFINE d == SerializeBlock(b)
           sent == [number |-> b.number, parent |-> b.parent, time |-> b.time, txs |-> b.txs]
<1>1. IsSeq(d) /\ Len(d) \in Nat
  BY BlockLayout, IsSeqLen
<1>2. ASSUME NEW strict \in BOOLEAN PROVE Decode(d, strict) = Ok(sent)
  <2>1. Begins(d, d) /\ Len(d) <= Len(d)
    BY <1>1 DEF Begins
  <2> QED
    BY <2>1, DecodeBlock
<1>3. ASSUME NEW n \in 0 .. Len(d) - 1 PROVE ~Decode(SubSeq(d, 1, n), TRUE).ok
  <2> DEFINE e == SubSeq(d, 1, n)
  <2>1. n \in 0 .. Len(d)
    BY <1>1
  <2>2. /\ IsSeq(e) /\ Len(e) = n
        /\ \A i \in 1 .. n : e[i] = d[i]
    <3> HIDE DEF d
    <3> QED
      BY <1>1, <2>1, IsSeqSubSeq
  <2> HIDE DEF e
  <2>3. Begins(e, d) /\ Len(e) <= Len(d) /\ Len(e) # Len(d)
    <3> HIDE DEF d
    <3> QED
      BY <1>1, <2>2 DEF Begins
  <2>4. Decode(e, TRUE) = Error
    BY <2>3, DecodeBlock
  <2>5. ~Error.ok
    BY DEF Error
  <2>6. ~Decode(e, TRUE).ok
    BY <2>4, <2>5, Zenon
  <2> QED
    BY <2>6 DEF e
<1> QED
  BY <1>2, <1>3, Zenon DEF Crosses, deserialize_block, DeserializeBlock

(***************************************************************************)
(* For every block, with any number of transactions of any length, and for *)
(* all widths of the fields: both decoders read back what SerializeBlock   *)
(* wrote, and deserialize_block refuses every shorter beginning of it.  So *)
(* the core executes what the engine was given.                            *)
(***************************************************************************)
THEOREM CrossesCorrect == Spec => []CrossesUnchanged
<1>1. TypeOK => CrossesUnchanged
  <2> SUFFICES ASSUME TypeOK, NEW i \in DOMAIN chain PROVE Crosses(chain[i])
    BY DEF CrossesUnchanged
  <2>1. chain[i] \in Blocks
    BY DEF TypeOK, CoreTypeOK
  <2> QED
    BY <2>1, BlockCrosses
<1> QED
  BY <1>1, TypeCorrect, PTL
===============================================================================
