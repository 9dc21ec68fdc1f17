-------------------------- MODULE StateEngineProofs ---------------------------
(***************************************************************************)
(* What the operations of the core, of the FFI and of the ring buffer keep *)
(* true, for every buffer and history size and every definition of         *)
(* Execute.  The lemmas are about values and not about a state machine:    *)
(* ReorgEngineProofs uses them for one worker, PipelineProofs for a pool.  *)
(***************************************************************************)
EXTENDS ReorgDetection, SequenceTheorems, WellFoundedInduction, TLAPS

-------------------------------------------------------------------------------
(***************************************************************************)
(* Sequences of untyped elements.                                          *)
(***************************************************************************)
LEMMA IsSeqIntro ==
    ASSUME NEW S, NEW s \in Seq(S)
    PROVE  IsSeq(s)
BY DEF IsSeq

LEMMA IsSeqLen ==
    ASSUME NEW s, IsSeq(s)
    PROVE  /\ Len(s) \in Nat
           /\ DOMAIN s = 1 .. Len(s)
           /\ s = <<>> <=> Len(s) = 0
<1> DEFINE S == {s[i] : i \in DOMAIN s}
<1>1. s \in Seq(S)
  BY DEF IsSeq
<1> HIDE DEF S
<1> QED
  BY <1>1, LenProperties, EmptySeq

LEMMA IsSeqAppend ==
    ASSUME NEW s, IsSeq(s), NEW e
    PROVE  /\ IsSeq(Append(s, e))
           /\ Len(Append(s, e)) = Len(s) + 1
           /\ \A i \in 1 .. Len(s) : Append(s, e)[i] = s[i]
           /\ Append(s, e)[Len(s) + 1] = e
<1> DEFINE T == {s[i] : i \in DOMAIN s}
           S == T \cup {e}
<1>1. s \in Seq(S)
  <2>1. s \in Seq(T)
    BY DEF IsSeq
  <2> HIDE DEF T
  <2> QED
    BY <2>1, SeqMonotonic
<1>2. e \in S
  OBVIOUS
<1> HIDE DEF S
<1>3. Append(s, e) \in Seq(S)
  BY <1>1, <1>2
<1>4. IsSeq(Append(s, e))
  BY <1>3, IsSeqIntro
<1> QED
  BY <1>1, <1>2, <1>4, AppendProperties

LEMMA IsSeqTail ==
    ASSUME NEW s, IsSeq(s), s # <<>>
    PROVE  /\ IsSeq(Tail(s))
           /\ Len(Tail(s)) = Len(s) - 1
           /\ \A i \in 1 .. Len(s) - 1 : Tail(s)[i] = s[i + 1]
<1> DEFINE S == {s[i] : i \in DOMAIN s}
<1>1. s \in Seq(S)
  BY DEF IsSeq
<1> HIDE DEF S
<1>2. /\ Tail(s) \in Seq(S)
      /\ Len(Tail(s)) = Len(s) - 1
      /\ \A i \in 1 .. Len(Tail(s)) : Tail(s)[i] = s[i + 1]
  BY <1>1, HeadTailProperties
<1>3. IsSeq(Tail(s))
  BY <1>2, IsSeqIntro
<1> QED
  BY <1>2, <1>3

LEMMA IsSeqSubSeq ==
    ASSUME NEW s, IsSeq(s), NEW n \in 0 .. Len(s)
    PROVE  /\ IsSeq(SubSeq(s, 1, n))
           /\ Len(SubSeq(s, 1, n)) = n
           /\ \A i \in 1 .. n : SubSeq(s, 1, n)[i] = s[i]
<1> DEFINE S == {s[i] : i \in DOMAIN s}
<1>1. s \in Seq(S)
  BY DEF IsSeq
<1> HIDE DEF S
<1>2. /\ n \in Int /\ n \in Nat
      /\ \A i \in 1 .. n : s[i] \in S
  BY <1>1, LenProperties
<1>3. /\ SubSeq(s, 1, n) \in Seq(S)
      /\ Len(SubSeq(s, 1, n)) = n
      /\ \A i \in 1 .. n : SubSeq(s, 1, n)[i] = s[i]
  BY <1>2, SubSeqProperties
<1>4. IsSeq(SubSeq(s, 1, n))
  BY <1>3, IsSeqIntro
<1> QED
  BY <1>3, <1>4

\* A nonempty set of natural numbers has a least element.
LEMMA LeastElement ==
    ASSUME NEW T, T \subseteq Nat, T # {}
    PROVE  \E x \in T : \A y \in T : x <= y
<1> DEFINE R == OpToRel(<, Nat)
<1>1. IsWellFoundedOn(R, Nat)
  BY NatLessThanWellFounded
<1> HIDE DEF R
<1>2. PICK x \in T : \A y \in T : ~(<<y, x>> \in R)
  BY <1>1, WFMin
<1>3. \A y \in T : ~(y < x)
  <2> SUFFICES ASSUME NEW y \in T PROVE ~(y < x)
    OBVIOUS
  <2>1. <<y, x>> \in Nat \X Nat /\ ~(<<y, x>> \in R)
    BY <1>2
  <2> QED
    BY <2>1 DEF R, OpToRel
<1> QED
  BY <1>3
-------------------------------------------------------------------------------
(***************************************************************************)
(* The operations of the state engine and of the FFI preserve WellFormed,  *)
(* and move the block number as they should.                               *)
(***************************************************************************)
HistoryOK(h, n) ==
    /\ IsSeq(h)
    /\ \A i \in DOMAIN h : h[i].block_number \in Nat
    /\ WellShaped(h, n)

WellFormed(f) ==
    /\ f.lastBlockNumber \in Nat
    /\ f.engine.block_number = f.lastBlockNumber
    /\ HistoryOK(f.engine.history, f.engine.block_number)

LEMMA NewFFIWellFormed == WellFormed(NewFFI) /\ NewFFI.engine.block_number = 0
<1>1. Len(<<>>) = 0 /\ DOMAIN <<>> = {} /\ IsSeq(<<>>)
  <2>1. <<>> \in Seq(Blocks)
    BY EmptySeq
  <2>2. IsSeq(<<>>)
    BY <2>1, IsSeqIntro
  <2> QED
    BY <2>1, <2>2
<1> QED
  BY <1>1, HistoryAssumption DEF NewFFI, NewEngine, WellFormed, HistoryOK, WellShaped

\* Pushing a snapshot of the current block n: what apply_block does first.
LEMMA PushedHistory ==
    ASSUME NEW n \in Nat, NEW h, HistoryOK(h, n), NEW s, s.block_number = n
    PROVE  /\ HistoryOK(Pushed(h, s), n)
           /\ HistoryOK(Pushed(h, s), n + 1)
           /\ \A i \in DOMAIN Pushed(h, s) :
                  \/ Pushed(h, s)[i] = s
                  \/ \E j \in DOMAIN h : Pushed(h, s)[i] = h[j]
<1> DEFINE p == Pushed(h, s)
<1>1. /\ IsSeq(h) /\ Len(h) \in Nat /\ DOMAIN h = 1 .. Len(h)
      /\ h = <<>> <=> Len(h) = 0
      /\ MaxHistorySize \in Nat \ {0}
  BY IsSeqLen, HistoryAssumption DEF HistoryOK
<1>0. /\ Len(h) <= MaxHistorySize
      /\ \A i, j \in DOMAIN h : i <= j => h[i].block_number <= h[j].block_number
      /\ \A i \in 1 .. Len(h) - 1 : h[i + 1].block_number <= h[i].block_number + 1
      /\ h # <<>> => h[Len(h)].block_number \in {n - 1, n}
      /\ \A i \in DOMAIN h : h[i].block_number \in Nat
  BY DEF HistoryOK, WellShaped
\* d blocks are dropped from the front: none, or the oldest.
<1>2. \E d \in {0, 1} :
         /\ IsSeq(p)
         /\ Len(p) = Len(h) - d + 1
         /\ Len(p) <= MaxHistorySize
         /\ \A i \in 1 .. Len(p) - 1 : p[i] = h[i + d]
         /\ p[Len(p)] = s
         /\ d <= Len(h)
  <2>1. CASE Len(h) < MaxHistorySize
    <3>1. p = Append(h, s)
      BY <2>1 DEF Pushed
    <3>2. /\ IsSeq(p) /\ Len(p) = Len(h) + 1
          /\ \A i \in 1 .. Len(h) : p[i] = h[i]
          /\ p[Len(h) + 1] = s
      BY <1>1, <3>1, IsSeqAppend
    <3> HIDE DEF p
    <3> WITNESS 0 \in {0, 1}
    <3> QED
      BY <1>1, <2>1, <3>2
  <2>2. CASE ~(Len(h) < MaxHistorySize)
    <3>1. p = Append(Tail(h), s)
      BY <2>2 DEF Pushed
    <3>0. Len(h) = MaxHistorySize /\ h # <<>>
      <4>1. Len(h) <= MaxHistorySize
        BY <1>0
      <4> HIDE DEF p
      <4>3. Len(h) \in Nat /\ MaxHistorySize \in Nat \ {0}
        BY <1>1
      <4>4. Len(h) = MaxHistorySize
        BY <2>2, <4>1, <4>3
      <4>2. Len(h) # 0
        BY <4>3, <4>4
      <4> QED
        BY <1>1, <4>2, <4>4
    <3>2. /\ IsSeq(Tail(h)) /\ Len(Tail(h)) = Len(h) - 1
          /\ \A i \in 1 .. Len(h) - 1 : Tail(h)[i] = h[i + 1]
      BY <1>1, <3>0, IsSeqTail
    <3>3. /\ IsSeq(p) /\ Len(p) = Len(Tail(h)) + 1
          /\ \A i \in 1 .. Len(Tail(h)) : p[i] = Tail(h)[i]
          /\ p[Len(Tail(h)) + 1] = s
      BY <3>1, <3>2, IsSeqAppend
    <3> HIDE DEF p
    <3> WITNESS 1 \in {0, 1}
    <3> QED
      BY <1>1, <3>0, <3>2, <3>3
  <2> QED
    BY <2>1, <2>2
<1> HIDE DEF p
<1>3. PICK d \in {0, 1} :
         /\ IsSeq(p)
         /\ Len(p) = Len(h) - d + 1
         /\ Len(p) <= MaxHistorySize
         /\ \A i \in 1 .. Len(p) - 1 : p[i] = h[i + d]
         /\ p[Len(p)] = s
         /\ d <= Len(h)
  BY <1>2
<1>4. /\ Len(p) \in Nat \ {0} /\ DOMAIN p = 1 .. Len(p)
      /\ p # <<>>
  BY <1>1, <1>3, IsSeqLen
<1>5. \A i \in 1 .. Len(p) - 1 : i + d \in DOMAIN h
  BY <1>1, <1>3, <1>4
<1>6. \A i \in DOMAIN p : p[i] = s \/ \E j \in DOMAIN h : p[i] = h[j]
  BY <1>3, <1>4, <1>5
<1>7. \A i \in DOMAIN p : p[i].block_number \in Nat
  BY <1>0, <1>6
\* No snapshot is newer than the current block.
<1>8. \A j \in DOMAIN h : h[j].block_number <= n
  BY <1>0, <1>1
<1>9. \A i, j \in DOMAIN p : i <= j => p[i].block_number <= p[j].block_number
  <2> SUFFICES ASSUME NEW i \in DOMAIN p, NEW j \in DOMAIN p, i <= j
               PROVE  p[i].block_number <= p[j].block_number
    OBVIOUS
  <2>1. CASE j = Len(p)
    BY <1>3, <1>6, <1>8, <2>1
  <2>2. CASE j < Len(p)
    <3>1. i \in 1 .. Len(p) - 1 /\ j \in 1 .. Len(p) - 1
      BY <1>4, <2>2
    <3>2. i + d \in DOMAIN h /\ j + d \in DOMAIN h
      BY <1>5, <3>1
    <3>4. i + d <= j + d
      BY <1>4
    <3>3. h[i + d].block_number <= h[j + d].block_number
      BY <1>0, <3>2, <3>4
    <3> QED
      BY <1>3, <3>1, <3>3
  <2> QED
    BY <1>4, <2>1, <2>2
<1>10. \A i \in 1 .. Len(p) - 1 : p[i + 1].block_number <= p[i].block_number + 1
  <2> SUFFICES ASSUME NEW i \in 1 .. Len(p) - 1
               PROVE  p[i + 1].block_number <= p[i].block_number + 1
    OBVIOUS
  <2>0. Len(p) - 1 \in Nat /\ i \in Nat
    BY <1>4
  <2>1. CASE i = Len(p) - 1
    <3>1. i + d = Len(h) /\ h # <<>> /\ p[i] = h[Len(h)] /\ p[i + 1] = s
      BY <1>1, <1>3, <1>4, <2>1
    <3> QED
      BY <1>0, <1>1, <3>1
  <2>2. CASE i < Len(p) - 1
    <3>1. /\ i + 1 \in 1 .. Len(p) - 1
          /\ i + d \in 1 .. Len(h) - 1
          /\ p[i] = h[i + d] /\ p[i + 1] = h[(i + 1) + d] /\ (i + 1) + d = (i + d) + 1
      BY <1>1, <1>3, <1>4, <1>5, <2>2
    <3> QED
      BY <1>0, <1>1, <3>1
  <2> QED
    BY <2>0, <2>1, <2>2
<1> QED
  BY <1>3, <1>4, <1>6, <1>7, <1>9, <1>10 DEF HistoryOK, WellShaped, p

\* A block is accepted only if it is the next one; refused or accepted, the
\* two block numbers still agree and the history keeps its shape.
LEMMA ApplyBlockWellFormed ==
    ASSUME NEW f, WellFormed(f), NEW b \in Blocks
    PROVE  LET r == ApplyBlock(f, b)
           IN  /\ WellFormed(r.ffi)
               /\ r.ok => /\ b.number = f.engine.block_number + 1
                          /\ r.ffi.engine.block_number = f.engine.block_number + 1
               /\ ~r.ok => r.ffi.engine.block_number = f.engine.block_number
<1> DEFINE e == f.engine
           n == e.block_number
           saved == Pushed(e.history, Snapshot(e))
           run == Execute(e.state, b)
           r == ApplyBlock(f, b)
<1>1. n \in Nat /\ f.lastBlockNumber = n /\ HistoryOK(e.history, n)
  BY DEF WellFormed
<1>2. Snapshot(e).block_number = n
  BY DEF Snapshot
<1>3. HistoryOK(saved, n) /\ HistoryOK(saved, n + 1)
  <2> HIDE DEF n
  <2> QED
    BY <1>1, <1>2, PushedHistory
<1>4. CASE ~ValidateBlock(b, f.lastBlockNumber) \/ b.number # n + 1
  <2>1. r.ffi.engine = e /\ r.ffi.lastBlockNumber = f.lastBlockNumber /\ r.ok = FALSE
    BY <1>4 DEF ApplyBlock, apply_block
  <2> QED
    BY <1>1, <2>1 DEF WellFormed
<1>5. CASE ValidateBlock(b, f.lastBlockNumber) /\ b.number = n + 1 /\ run.ok
  <2>1. /\ r.ok = TRUE /\ r.ffi.lastBlockNumber = b.number
        /\ r.ffi.engine.block_number = b.number
        /\ r.ffi.engine.history = saved
    BY <1>5 DEF ApplyBlock, apply_block
  <2> HIDE DEF n, saved, r
  <2>2. WellFormed(r.ffi)
    BY <1>1, <1>3, <1>5, <2>1 DEF WellFormed
  <2> QED
    BY <1>5, <2>1, <2>2 DEF n, r
<1>6. CASE ValidateBlock(b, f.lastBlockNumber) /\ b.number = n + 1 /\ ~run.ok
  <2>1. /\ r.ok = FALSE /\ r.ffi.lastBlockNumber = f.lastBlockNumber
        /\ r.ffi.engine.block_number = n
        /\ r.ffi.engine.history = saved
    BY <1>6 DEF ApplyBlock, apply_block
  <2> HIDE DEF n, saved, r
  <2>2. WellFormed(r.ffi)
    BY <1>1, <1>3, <1>6, <2>1 DEF WellFormed
  <2> QED
    BY <1>6, <2>1, <2>2 DEF n, r
<1> QED
  BY <1>4, <1>5, <1>6

\* A history cut after its i-th snapshot, the engine back at that block.
LEMMA CutHistory ==
    ASSUME NEW n \in Nat, NEW h, HistoryOK(h, n), NEW i \in DOMAIN h
    PROVE  /\ HistoryOK(SubSeq(h, 1, i), h[i].block_number)
           /\ h[i].block_number \in Nat
           /\ h[i].block_number <= n
           /\ DOMAIN SubSeq(h, 1, i) = 1 .. i
           /\ \A j \in 1 .. i : j \in DOMAIN h /\ SubSeq(h, 1, i)[j] = h[j]
<1> DEFINE c == SubSeq(h, 1, i)
<1>1. /\ IsSeq(h) /\ Len(h) \in Nat /\ DOMAIN h = 1 .. Len(h)
      /\ h = <<>> <=> Len(h) = 0
  BY IsSeqLen DEF HistoryOK
<1>2. /\ Len(h) <= MaxHistorySize
      /\ \A k, j \in DOMAIN h : k <= j => h[k].block_number <= h[j].block_number
      /\ \A k \in 1 .. Len(h) - 1 : h[k + 1].block_number <= h[k].block_number + 1
      /\ h # <<>> => h[Len(h)].block_number \in {n - 1, n}
      /\ \A k \in DOMAIN h : h[k].block_number \in Nat
  BY DEF HistoryOK, WellShaped
<1>3. i \in 1 .. Len(h) /\ i \in 0 .. Len(h) /\ h # <<>>
  BY <1>1
<1>4. /\ IsSeq(c) /\ Len(c) = i
      /\ \A j \in 1 .. i : c[j] = h[j]
  BY <1>1, <1>3, IsSeqSubSeq
<1> HIDE DEF c
<1>5. DOMAIN c = 1 .. i /\ c # <<>>
  <2>1. DOMAIN c = 1 .. Len(c) /\ (c = <<>> <=> Len(c) = 0)
    BY <1>4, IsSeqLen
  <2> QED
    BY <1>3, <1>4, <2>1
<1>6. \A j \in 1 .. i : j \in DOMAIN h
  BY <1>1, <1>3
<1>7. h[i].block_number \in Nat /\ h[i].block_number <= n
  <2>1. Len(h) \in DOMAIN h /\ i <= Len(h)
    BY <1>1, <1>3
  <2>2. h[i].block_number <= h[Len(h)].block_number
    BY <1>2, <2>1
  <2> QED
    BY <1>2, <1>3, <2>1, <2>2
<1>8. Len(c) <= MaxHistorySize
  BY <1>1, <1>2, <1>3, <1>4, HistoryAssumption
<1>9. \A k, j \in DOMAIN c : k <= j => c[k].block_number <= c[j].block_number
  BY <1>2, <1>4, <1>5, <1>6
<1>10. \A k \in 1 .. Len(c) - 1 : c[k + 1].block_number <= c[k].block_number + 1
  <2> SUFFICES ASSUME NEW k \in 1 .. i - 1
               PROVE  c[k + 1].block_number <= c[k].block_number + 1
    BY <1>4
  <2>1. k \in 1 .. i /\ k + 1 \in 1 .. i /\ k \in 1 .. Len(h) - 1
    BY <1>1, <1>3
  <2> QED
    BY <1>2, <1>4, <2>1
<1>11. c[Len(c)].block_number = h[i].block_number
  BY <1>3, <1>4
<1>12. \A j \in DOMAIN c : c[j].block_number \in Nat
  BY <1>2, <1>4, <1>5, <1>6
<1>13. WellShaped(c, h[i].block_number)
  BY <1>5, <1>8, <1>9, <1>10, <1>11 DEF WellShaped
<1> QED
  BY <1>4, <1>5, <1>6, <1>7, <1>12, <1>13 DEF HistoryOK, c

\* SnapshotIndex finds a snapshot of the block asked for if there is one.
LEMMA SnapshotFound ==
    ASSUME NEW e, NEW n, IsSeq(e.history), HasSnapshot(e, n)
    PROVE  LET i == SnapshotIndex(e, n)
           IN  i \in DOMAIN e.history /\ e.history[i].block_number = n
<1> DEFINE T == {m \in DOMAIN e.history : e.history[m].block_number = n}
<1>1. DOMAIN e.history = 1 .. Len(e.history) /\ Len(e.history) \in Nat
  BY IsSeqLen
<1>2. PICK m \in T : \A j \in T : m <= j
  <2>1. T \subseteq Nat /\ T # {}
    BY <1>1 DEF HasSnapshot
  <2> HIDE DEF T
  <2> QED
    BY <2>1, LeastElement
<1>3. \A j \in 1 .. m - 1 : e.history[j].block_number # n
  <2> SUFFICES ASSUME NEW j \in 1 .. m - 1 PROVE e.history[j].block_number # n
    OBVIOUS
  <2>1. j \in DOMAIN e.history /\ ~(m <= j)
    BY <1>1, <1>2
  <2> QED
    BY <1>2, <2>1
<1> QED
  BY <1>2, <1>3 DEF SnapshotIndex

\* A rollback that succeeds takes both block numbers to the target, which is
\* no higher than the current block; one that fails changes nothing.
LEMMA RollbackWellFormed ==
    ASSUME NEW f, WellFormed(f), NEW n
    PROVE  LET r == RollbackTo(f, n)
           IN  /\ WellFormed(r.ffi)
               /\ r.ok => /\ n \in 0 .. f.engine.block_number
                          /\ r.ffi.engine.block_number = n
               /\ ~r.ok => r.ffi.engine.block_number = f.engine.block_number
<1> DEFINE e == f.engine
           i == SnapshotIndex(e, n)
           r == RollbackTo(f, n)
<1>1. /\ e.block_number \in Nat /\ f.lastBlockNumber = e.block_number
      /\ HistoryOK(e.history, e.block_number)
  BY DEF WellFormed
<1>2. CASE ~HasSnapshot(e, n)
  <2>1. r.ffi.engine = e /\ r.ffi.lastBlockNumber = f.lastBlockNumber /\ r.ok = FALSE
    BY <1>2 DEF RollbackTo, rollback_to
  <2> QED
    BY <1>1, <2>1 DEF WellFormed
<1>3. CASE HasSnapshot(e, n)
  <2>1. i \in DOMAIN e.history /\ e.history[i].block_number = n
    BY <1>1, <1>3, SnapshotFound DEF HistoryOK
  <2>2. /\ r.ok = TRUE /\ r.ffi.lastBlockNumber = n
        /\ r.ffi.engine.block_number = e.history[i].block_number
        /\ r.ffi.engine.history = SubSeq(e.history, 1, i)
    BY <1>3 DEF RollbackTo, rollback_to
  <2>3. /\ HistoryOK(SubSeq(e.history, 1, i), n)
        /\ n \in Nat /\ n <= e.block_number
    <3> HIDE DEF i, e
    <3> QED
      BY <1>1, <2>1, CutHistory
  <2> HIDE DEF i, e, r
  <2>4. n \in 0 .. e.block_number
    BY <1>1, <2>3
  <2>5. WellFormed(r.ffi)
    BY <2>1, <2>2, <2>3 DEF WellFormed
  <2> QED
    BY <2>1, <2>2, <2>4, <2>5 DEF e, r
<1> QED
  BY <1>2, <1>3

\* The ring buffer keeps its type.
RingOK(rb) ==
    /\ rb.blocks \in [0 .. MaxReorgDepth - 1 -> Blocks \cup {NoBlock}]
    /\ rb.index \in 0 .. MaxReorgDepth - 1
    /\ rb.size \in 0 .. MaxReorgDepth

LEMMA NewRingOK == RingOK(NewRingBuffer)
BY DepthAssumption DEF RingOK, NewRingBuffer

LEMMA AddOK ==
    ASSUME NEW rb, RingOK(rb), NEW b \in Blocks
    PROVE  RingOK(Add(rb, b))
BY DepthAssumption DEF RingOK, Add

LEMMA TruncateOK ==
    ASSUME NEW rb, RingOK(rb), NEW n \in Nat
    PROVE  RingOK(Truncate(rb, n))
BY DepthAssumption DEF RingOK, Truncate
\* The two calls HandleReorg makes, one after the other.
LEMMA RollbackThenApply ==
    ASSUME NEW f, WellFormed(f), NEW n, NEW b \in Blocks, RollbackTo(f, n).ok
    PROVE  LET r == ApplyBlock(RollbackTo(f, n).ffi, b)
           IN  /\ WellFormed(r.ffi)
               /\ n \in 0 .. f.engine.block_number
               /\ r.ok => b.number = n + 1 /\ r.ffi.engine.block_number = n + 1
               /\ ~r.ok => r.ffi.engine.block_number = n
<1> DEFINE g == RollbackTo(f, n).ffi
<1>1. WellFormed(g) /\ n \in 0 .. f.engine.block_number /\ g.engine.block_number = n
  BY RollbackWellFormed
<1> HIDE DEF g
<1>2. /\ WellFormed(ApplyBlock(g, b).ffi)
      /\ ApplyBlock(g, b).ok => /\ b.number = n + 1
                                /\ ApplyBlock(g, b).ffi.engine.block_number = n + 1
      /\ ~ApplyBlock(g, b).ok => ApplyBlock(g, b).ffi.engine.block_number = n
  BY <1>1, ApplyBlockWellFormed
<1> QED
  BY <1>1, <1>2 DEF g

\* What is read from the buffer is a block or nil.
LEMMA GetType ==
    ASSUME NEW rb, RingOK(rb), NEW i \in Int
    PROVE  /\ Get(rb, i) \in Blocks \cup {NoBlock}
           /\ Latest(rb) \in Blocks \cup {NoBlock}
<1>1. ASSUME NEW k \in Int PROVE Get(rb, k) \in Blocks \cup {NoBlock}
  <2>1. rb.index - rb.size + k + MaxReorgDepth \in Int
    BY DepthAssumption DEF RingOK
  <2>2. Slot(rb, k) \in 0 .. MaxReorgDepth - 1
    BY <2>1, DepthAssumption DEF Slot
  <2> QED
    BY <2>2 DEF Get, RingOK
<1>2. rb.size - 1 \in Int
  BY DepthAssumption DEF RingOK
<1> QED
  BY <1>1, <1>2 DEF Latest

\* The fork point is the number of a buffered block.
LEMMA ForkPointType ==
    ASSUME NEW rb, RingOK(rb), NEW b, ParentPositions(rb, b) # {}
    PROVE  findForkPoint(rb, b) \in Nat \ {0}
<1> DEFINE P == ParentPositions(rb, b)
           T == {rb.size - 1 - i : i \in P}
<1>1. rb.size \in Nat
  BY DepthAssumption DEF RingOK
<1>2. P \subseteq 0 .. rb.size - 1 /\ \A i \in P : Get(rb, i) # NoBlock
  BY DEF ParentPositions
<1> HIDE DEF P
<1>3. T \subseteq Nat /\ T # {}
  BY <1>1, <1>2 DEF P
<1>4. PICK x \in T : \A y \in T : x <= y
  <2> HIDE DEF T
  <2> QED
    BY <1>3, LeastElement
<1>5. PICK i \in P : x = rb.size - 1 - i
  BY <1>4
<1>6. ASSUME NEW j \in P PROVE j <= i
  <2>1. rb.size - 1 - j \in T
    OBVIOUS
  <2>2. rb.size - 1 - i <= rb.size - 1 - j
    BY <1>4, <1>5, <2>1
  <2> QED
    BY <1>1, <1>2, <2>2
<1>7. (CHOOSE k \in P : \A j \in P : j <= k) \in P
  BY <1>6
<1>8. \A k \in P : Get(rb, k).number \in Nat \ {0}
  BY <1>1, <1>2, GetType, BlocksAssumption
<1> QED
  BY <1>7, <1>8 DEF findForkPoint, P

-------------------------------------------------------------------------------
(***************************************************************************)
(* The accepted chain and the states of its replay grow and are cut        *)
(* together.                                                               *)
(***************************************************************************)
ChainShape(c, r) ==
    /\ c \in Seq(Blocks)
    /\ IsSeq(r)
    /\ Len(r) = Len(c)
    /\ \A i \in DOMAIN c : c[i].number = i

LEMMA EmptyChain == ChainShape(<<>>, <<>>)
<1>1. <<>> \in Seq(Blocks) /\ IsSeq(<<>>)
  BY EmptySeq, IsSeqIntro
<1> QED
  BY <1>1 DEF ChainShape

LEMMA CutChain ==
    ASSUME NEW c, NEW r, ChainShape(c, r), NEW n \in 0 .. Len(c)
    PROVE  /\ ChainShape(SubSeq(c, 1, n), SubSeq(r, 1, n))
           /\ Len(SubSeq(c, 1, n)) = n
           /\ \A i \in 1 .. n : SubSeq(c, 1, n)[i] = c[i] /\ SubSeq(r, 1, n)[i] = r[i]
<1>1. /\ c \in Seq(Blocks) /\ IsSeq(c) /\ IsSeq(r)
      /\ DOMAIN c = 1 .. Len(c) /\ Len(c) \in Nat
      /\ n \in 0 .. Len(r) /\ n \in 0 .. Len(c)
      /\ \A i \in DOMAIN c : c[i].number = i
  BY IsSeqIntro, LenProperties DEF ChainShape
<1> DEFINE d == SubSeq(c, 1, n)
           t == SubSeq(r, 1, n)
<1>2. Len(d) = n /\ \A i \in 1 .. n : d[i] = c[i]
  BY <1>1, IsSeqSubSeq
<1>3. IsSeq(t) /\ Len(t) = n /\ \A i \in 1 .. n : t[i] = r[i]
  BY <1>1, IsSeqSubSeq
<1>4. d \in Seq(Blocks)
  <2>1. \A i \in 1 .. n : c[i] \in Blocks
    BY <1>1
  <2>2. n \in Int
    BY <1>1
  <2> QED
    BY <2>1, <2>2, SubSeqProperties
<1> HIDE DEF d, t
<1>5. DOMAIN d = 1 .. n
  BY <1>2, <1>4, LenProperties
<1>6. \A i \in DOMAIN d : d[i].number = i
  BY <1>1, <1>2, <1>5
<1>7. ChainShape(d, t)
  BY <1>2, <1>3, <1>4, <1>6 DEF ChainShape
<1> QED
  BY <1>2, <1>3, <1>7 DEF d, t

\* Chain d with states t is chain c with states r and one block more.
Grown(c, r, d, t, b, s) ==
    /\ Len(d) = Len(c) + 1
    /\ \A i \in 1 .. Len(c) : d[i] = c[i] /\ t[i] = r[i]
    /\ d[Len(c) + 1] = b /\ t[Len(c) + 1] = s

LEMMA GrowChain ==
    ASSUME NEW c, NEW r, ChainShape(c, r), NEW b \in Blocks, b.number = Len(c) + 1, NEW s
    PROVE  /\ ChainShape(Append(c, b), Append(r, s))
           /\ Grown(c, r, Append(c, b), Append(r, s), b, s)
<1> DEFINE d == Append(c, b)
           t == Append(r, s)
<1>1. /\ c \in Seq(Blocks) /\ IsSeq(r) /\ Len(r) = Len(c) /\ Len(c) \in Nat
      /\ DOMAIN c = 1 .. Len(c) /\ \A i \in DOMAIN c : c[i].number = i
  BY LenProperties DEF ChainShape
<1>2. /\ d \in Seq(Blocks) /\ Len(d) = Len(c) + 1
      /\ \A i \in 1 .. Len(c) : d[i] = c[i]
      /\ d[Len(c) + 1] = b
  BY <1>1, AppendProperties
<1>3. /\ IsSeq(t) /\ Len(t) = Len(c) + 1
      /\ \A i \in 1 .. Len(c) : t[i] = r[i]
      /\ t[Len(c) + 1] = s
  BY <1>1, IsSeqAppend
<1> HIDE DEF d, t
<1>4. DOMAIN d = 1 .. Len(c) + 1
  BY <1>2, LenProperties
<1>5. \A i \in DOMAIN d : d[i].number = i
  BY <1>1, <1>2, <1>4
<1>6. ChainShape(d, t)
  BY <1>2, <1>3, <1>5 DEF ChainShape
<1>7. Grown(c, r, d, t, b, s)
  BY <1>1, <1>2, <1>3 DEF Grown
<1> QED
  BY <1>6, <1>7 DEF d, t
-------------------------------------------------------------------------------
(***************************************************************************)
(* A set of account maps that blocks do not lead out of, and an engine of  *)
(* which the state and every snapshot are in it.                           *)
(***************************************************************************)
Closed(S) == Genesis \in S /\ \A s \in S, b \in Blocks : Execute(s, b).state \in S

StatesIn(e, S) == e.state \in S /\ \A i \in DOMAIN e.history : e.history[i].state \in S

LEMMA NewFFIStates ==
    ASSUME NEW S, Closed(S)
    PROVE  StatesIn(NewFFI.engine, S)
<1>1. /\ NewFFI.engine.state = Genesis
      /\ NewFFI.engine.history = <<>> /\ DOMAIN <<>> = {}
  BY DEF NewFFI, NewEngine
<1> QED
  BY <1>1 DEF StatesIn, Closed

LEMMA ApplyBlockStates ==
    ASSUME NEW S, Closed(S), NEW f, WellFormed(f), StatesIn(f.engine, S), NEW b \in Blocks
    PROVE  StatesIn(ApplyBlock(f, b).ffi.engine, S)
<1> DEFINE e == f.engine
           saved == Pushed(e.history, Snapshot(e))
           r == ApplyBlock(f, b)
<1>1. \A i \in DOMAIN saved :
         saved[i] = Snapshot(e) \/ \E j \in DOMAIN e.history : saved[i] = e.history[j]
  <2>1. Snapshot(e).block_number = e.block_number
    BY DEF Snapshot
  <2>2. e.block_number \in Nat /\ HistoryOK(e.history, e.block_number)
    BY DEF WellFormed
  <2> HIDE DEF e
  <2> QED
    BY <2>1, <2>2, PushedHistory
<1>2. Snapshot(e).state = e.state
  BY DEF Snapshot
<1> HIDE DEF saved
<1>3. \A i \in DOMAIN saved : saved[i].state \in S
  BY <1>1, <1>2 DEF StatesIn
<1>4. \/ r.ffi.engine = e
      \/ r.ffi.engine.state = Execute(e.state, b).state /\ r.ffi.engine.history = saved
  BY DEF ApplyBlock, apply_block, saved
<1> HIDE DEF r
<1> QED
  BY <1>3, <1>4 DEF StatesIn, Closed, r

LEMMA RollbackStates ==
    ASSUME NEW S, NEW f, WellFormed(f), NEW n, StatesIn(f.engine, S)
    PROVE  StatesIn(RollbackTo(f, n).ffi.engine, S)
<1> DEFINE e == f.engine
           i == SnapshotIndex(e, n)
           r == RollbackTo(f, n)
<1>1. e.block_number \in Nat /\ HistoryOK(e.history, e.block_number)
  BY DEF WellFormed
<1>2. CASE ~HasSnapshot(e, n)
  <2>1. r.ffi.engine = e
    BY <1>2 DEF RollbackTo, rollback_to
  <2> QED
    BY <2>1
<1>3. CASE HasSnapshot(e, n)
  <2>1. i \in DOMAIN e.history
    BY <1>1, <1>3, SnapshotFound DEF HistoryOK
  <2>2. /\ r.ffi.engine.state = e.history[i].state
        /\ r.ffi.engine.history = SubSeq(e.history, 1, i)
    BY <1>3 DEF RollbackTo, rollback_to
  <2> HIDE DEF i, r
  <2>3. \A j \in DOMAIN SubSeq(e.history, 1, i) :
           j \in DOMAIN e.history /\ SubSeq(e.history, 1, i)[j] = e.history[j]
    <3> HIDE DEF e
    <3> QED
      BY <1>1, <2>1, CutHistory
  <2> QED
    BY <2>1, <2>2, <2>3 DEF StatesIn, r
<1> QED
  BY <1>2, <1>3
-------------------------------------------------------------------------------
(***************************************************************************)
(* A replay of the accepted chain: every snapshot holds the state after    *)
(* the block it is labelled with, if failing blocks leave no trace:        *)
(* apply_block does not undo the transactions that ran before the failing  *)
(* one.  That is asked of the states of a closed set only.                 *)
(***************************************************************************)
FailuresLeaveNoTrace(S) ==
    /\ Closed(S)
    /\ \A s \in S, b \in Blocks : ~Execute(s, b).ok => Execute(s, b).state = s

\* State and root are those of the reference replay after block s.block_number.
Matches(s, states) ==
    LET ref == IF s.block_number = 0 THEN Genesis ELSE states[s.block_number]
    IN  /\ s.state = ref
        /\ s.block_number > 0 => s.state_root = calculate_state_root(ref)

AllMatch(e, states) ==
    /\ Matches(e, states)
    /\ \A i \in DOMAIN e.history : Matches(e.history[i], states)

\* What AllMatch says of an engine depends on the states up to its block only.
LEMMA MatchPrefix ==
    ASSUME NEW f, WellFormed(f), NEW t, NEW u, AllMatch(f.engine, t),
           \A i \in 1 .. f.engine.block_number : u[i] = t[i]
    PROVE  AllMatch(f.engine, u)
<1> DEFINE e == f.engine
           n == e.block_number
<1>1. n \in Nat /\ HistoryOK(e.history, n)
  BY DEF WellFormed
<1>2. ASSUME NEW s, s.block_number \in 0 .. n, Matches(s, t) PROVE Matches(s, u)
  BY <1>1, <1>2 DEF Matches
<1>3. \A i \in DOMAIN e.history : e.history[i].block_number \in 0 .. n
  <2> HIDE DEF e, n
  <2> QED
    BY <1>1, CutHistory
<1>4. n \in 0 .. n
  BY <1>1
<1> HIDE DEF n
<1>5. Matches(e, t) /\ \A i \in DOMAIN e.history : Matches(e.history[i], t)
  BY DEF AllMatch
<1> QED
  BY <1>2, <1>3, <1>4, <1>5 DEF AllMatch, n

\* ApplyBlock keeps it, if the accepted block is added to the reference.
LEMMA ApplyBlockMatches ==
    ASSUME NEW S, FailuresLeaveNoTrace(S),
           NEW f, WellFormed(f), f.engine.state \in S, NEW b \in Blocks, NEW t, AllMatch(f.engine, t),
           NEW u, \A i \in 1 .. f.engine.block_number : u[i] = t[i],
           ApplyBlock(f, b).ok =>
               u[f.engine.block_number + 1] = Execute(f.engine.state, b).state
    PROVE  AllMatch(ApplyBlock(f, b).ffi.engine, u)
<1> DEFINE e == f.engine
           n == e.block_number
           saved == Pushed(e.history, Snapshot(e))
           run == Execute(e.state, b)
           r == ApplyBlock(f, b)
<1>1. n \in Nat /\ HistoryOK(e.history, n)
  BY DEF WellFormed
<1>2. AllMatch(e, u)
  BY MatchPrefix
<1>3. Matches(Snapshot(e), u)
  BY <1>2 DEF AllMatch, Matches, Snapshot
<1>4. \A i \in DOMAIN saved : Matches(saved[i], u)
  <2>1. Snapshot(e).block_number = n
    BY DEF Snapshot
  <2>2. \A i \in DOMAIN saved :
           saved[i] = Snapshot(e) \/ \E j \in DOMAIN e.history : saved[i] = e.history[j]
    <3> HIDE DEF n, e
    <3> QED
      BY <1>1, <2>1, PushedHistory
  <2> HIDE DEF saved
  <2> QED
    BY <1>2, <1>3, <2>2 DEF AllMatch
<1>5. CASE ~ValidateBlock(b, f.lastBlockNumber) \/ b.number # n + 1
  <2>1. r.ffi.engine = e
    BY <1>5 DEF ApplyBlock, apply_block
  <2> QED
    BY <1>2, <2>1
<1>6. CASE ValidateBlock(b, f.lastBlockNumber) /\ b.number = n + 1 /\ run.ok
  <2>1. /\ r.ok /\ r.ffi.engine.block_number = b.number
        /\ r.ffi.engine.state = run.state
        /\ r.ffi.engine.state_root = calculate_state_root(run.state)
        /\ r.ffi.engine.history = saved
    BY <1>6 DEF ApplyBlock, apply_block
  <2>2. u[n + 1] = run.state
    BY <2>1
  <2> HIDE DEF r, run, saved, n
  <2>3. Matches(r.ffi.engine, u)
    BY <1>1, <1>6, <2>1, <2>2 DEF Matches
  <2> QED
    BY <1>4, <2>1, <2>3 DEF AllMatch, r
<1>7. CASE ValidateBlock(b, f.lastBlockNumber) /\ b.number = n + 1 /\ ~run.ok
  <2>1. /\ r.ffi.engine.block_number = n
        /\ r.ffi.engine.state = run.state
        /\ r.ffi.engine.state_root = e.state_root
        /\ r.ffi.engine.history = saved
    BY <1>7 DEF ApplyBlock, apply_block
  <2>2. run.state = e.state
    BY <1>7 DEF FailuresLeaveNoTrace
  <2>3. Matches(e, u)
    BY <1>2 DEF AllMatch
  <2> HIDE DEF r, run, saved
  <2>4. Matches(r.ffi.engine, u)
    BY <2>1, <2>2, <2>3 DEF Matches
  <2> QED
    BY <1>4, <2>1, <2>4 DEF AllMatch, r
<1> QED
  BY <1>5, <1>6, <1>7

\* A rollback restores a snapshot, so it keeps it too.
LEMMA RollbackMatches ==
    ASSUME NEW f, WellFormed(f), NEW n, NEW t, AllMatch(f.engine, t)
    PROVE  AllMatch(RollbackTo(f, n).ffi.engine, t)
<1> DEFINE e == f.engine
           i == SnapshotIndex(e, n)
           r == RollbackTo(f, n)
<1>1. e.block_number \in Nat /\ HistoryOK(e.history, e.block_number)
  BY DEF WellFormed
<1>2. CASE ~HasSnapshot(e, n)
  <2>1. r.ffi.engine = e
    BY <1>2 DEF RollbackTo, rollback_to
  <2> QED
    BY <2>1
<1>3. CASE HasSnapshot(e, n)
  <2>1. i \in DOMAIN e.history
    BY <1>1, <1>3, SnapshotFound DEF HistoryOK
  <2>2. /\ r.ffi.engine.block_number = e.history[i].block_number
        /\ r.ffi.engine.state = e.history[i].state
        /\ r.ffi.engine.state_root = e.history[i].state_root
        /\ r.ffi.engine.history = SubSeq(e.history, 1, i)
    BY <1>3 DEF RollbackTo, rollback_to
  <2> HIDE DEF i
  <2>3. \A j \in DOMAIN e.history : Matches(e.history[j], t)
    BY DEF AllMatch
  <2>4. Matches(r.ffi.engine, t)
    <3> HIDE DEF r, e
    <3> QED
      BY <2>1, <2>2, <2>3 DEF Matches
  <2>5. \A j \in DOMAIN SubSeq(e.history, 1, i) :
           j \in DOMAIN e.history /\ SubSeq(e.history, 1, i)[j] = e.history[j]
    <3> HIDE DEF e
    <3> QED
      BY <1>1, <2>1, CutHistory
  <2> QED
    BY <2>2, <2>3, <2>4, <2>5 DEF AllMatch
<1> QED
  BY <1>2, <1>3
-------------------------------------------------------------------------------
(***************************************************************************)
(* Snapshots of the same block have the same root, failing blocks or not:  *)
(* a failing block leaves the root alone.                                  *)
(***************************************************************************)
RootsAgree(e) ==
    /\ \A i \in DOMAIN e.history :
          e.history[i].block_number = e.block_number => e.history[i].state_root = e.state_root
    /\ \A i, j \in DOMAIN e.history :
          e.history[i].block_number = e.history[j].block_number =>
              e.history[i].state_root = e.history[j].state_root

LEMMA NewFFIRoots == RootsAgree(NewFFI.engine)
<1>1. NewFFI.engine.history = <<>> /\ DOMAIN <<>> = {}
  BY DEF NewFFI, NewEngine
<1> QED
  BY <1>1 DEF RootsAgree

LEMMA ApplyBlockRoots ==
    ASSUME NEW f, WellFormed(f), RootsAgree(f.engine), NEW b \in Blocks
    PROVE  LET r == ApplyBlock(f, b)
           IN  /\ RootsAgree(r.ffi.engine)
               /\ ~r.ok => r.ffi.engine.state_root = f.engine.state_root
<1> DEFINE e == f.engine
           n == e.block_number
           saved == Pushed(e.history, Snapshot(e))
           run == Execute(e.state, b)
           r == ApplyBlock(f, b)
<1>1. n \in Nat /\ HistoryOK(e.history, n)
  BY DEF WellFormed
<1>2. \A i \in DOMAIN saved :
         saved[i] = Snapshot(e) \/ \E j \in DOMAIN e.history : saved[i] = e.history[j]
  <2>1. Snapshot(e).block_number = n
    BY DEF Snapshot
  <2> HIDE DEF n, e
  <2> QED
    BY <1>1, <2>1, PushedHistory
<1>3. \A i \in DOMAIN e.history : e.history[i].block_number \in 0 .. n
  <2> HIDE DEF e, n
  <2> QED
    BY <1>1, CutHistory
<1>4. Snapshot(e).block_number = n /\ Snapshot(e).state_root = e.state_root
  BY DEF Snapshot
<1> HIDE DEF saved, n
<1>5. \A i \in DOMAIN saved :
         /\ saved[i].block_number \in 0 .. n
         /\ saved[i].block_number = n => saved[i].state_root = e.state_root
  <2>1. \A j \in DOMAIN e.history :
           e.history[j].block_number = n => e.history[j].state_root = e.state_root
    BY DEF RootsAgree, n
  <2> QED
    BY <1>1, <1>2, <1>3, <1>4, <2>1
<1>6. \A i, j \in DOMAIN saved :
         saved[i].block_number = saved[j].block_number => saved[i].state_root = saved[j].state_root
  <2> SUFFICES ASSUME NEW i \in DOMAIN saved, NEW j \in DOMAIN saved,
                      saved[i].block_number = saved[j].block_number
               PROVE  saved[i].state_root = saved[j].state_root
    OBVIOUS
  <2>1. CASE saved[i] = Snapshot(e) \/ saved[j] = Snapshot(e)
    BY <1>4, <1>5, <2>1
  <2>2. CASE ~(saved[i] = Snapshot(e) \/ saved[j] = Snapshot(e))
    <3>1. PICK k \in DOMAIN e.history : saved[i] = e.history[k]
      BY <1>2, <2>2
    <3>2. PICK l \in DOMAIN e.history : saved[j] = e.history[l]
      BY <1>2, <2>2
    <3> QED
      BY <3>1, <3>2 DEF RootsAgree
  <2> QED
    BY <2>1, <2>2
<1>7. CASE ~ValidateBlock(b, f.lastBlockNumber) \/ b.number # n + 1
  <2>1. r.ffi.engine = e
    BY <1>7 DEF ApplyBlock, apply_block, n
  <2> QED
    BY <2>1
<1>8. CASE ValidateBlock(b, f.lastBlockNumber) /\ b.number = n + 1 /\ run.ok
  <2>1. /\ r.ok /\ r.ffi.engine.block_number = n + 1
        /\ r.ffi.engine.history = saved
    BY <1>8 DEF ApplyBlock, apply_block, n, saved
  <2> HIDE DEF r, run
  <2>2. \A i \in DOMAIN saved : saved[i].block_number # n + 1
    BY <1>1, <1>5
  <2> QED
    BY <1>6, <2>1, <2>2 DEF RootsAgree, r
<1>9. CASE ValidateBlock(b, f.lastBlockNumber) /\ b.number = n + 1 /\ ~run.ok
  <2>1. /\ ~r.ok /\ r.ffi.engine.block_number = n
        /\ r.ffi.engine.state_root = e.state_root
        /\ r.ffi.engine.history = saved
    BY <1>9 DEF ApplyBlock, apply_block, n, saved
  <2> HIDE DEF r, run
  <2> QED
    BY <1>5, <1>6, <2>1 DEF RootsAgree, r
<1> QED
  BY <1>7, <1>8, <1>9

\* A rollback to the current block changes no root.
LEMMA RollbackRoots ==
    ASSUME NEW f, WellFormed(f), RootsAgree(f.engine), NEW n
    PROVE  LET r == RollbackTo(f, n)
           IN  /\ RootsAgree(r.ffi.engine)
               /\ n = f.engine.block_number \/ ~r.ok =>
                      r.ffi.engine.state_root = f.engine.state_root
<1> DEFINE e == f.engine
           i == SnapshotIndex(e, n)
           r == RollbackTo(f, n)
<1>1. e.block_number \in Nat /\ HistoryOK(e.history, e.block_number)
  BY DEF WellFormed
<1>2. CASE ~HasSnapshot(e, n)
  <2>1. r.ffi.engine = e
    BY <1>2 DEF RollbackTo, rollback_to
  <2> QED
    BY <2>1
<1>3. CASE HasSnapshot(e, n)
  <2>1. i \in DOMAIN e.history /\ e.history[i].block_number = n
    BY <1>1, <1>3, SnapshotFound DEF HistoryOK
  <2>2. /\ r.ok /\ r.ffi.engine.block_number = e.history[i].block_number
        /\ r.ffi.engine.state_root = e.history[i].state_root
        /\ r.ffi.engine.history = SubSeq(e.history, 1, i)
    BY <1>3 DEF RollbackTo, rollback_to
  <2> HIDE DEF i
  <2>3. \A j \in DOMAIN SubSeq(e.history, 1, i) :
           j \in DOMAIN e.history /\ SubSeq(e.history, 1, i)[j] = e.history[j]
    <3> HIDE DEF e
    <3> QED
      BY <1>1, <2>1, CutHistory
  <2> DEFINE c == SubSeq(e.history, 1, i)
             g == r.ffi.engine
  <2>4. /\ \A j \in DOMAIN c : j \in DOMAIN e.history /\ c[j] = e.history[j]
        /\ g.history = c /\ g.block_number = n /\ g.state_root = e.history[i].state_root
    BY <2>1, <2>2, <2>3
  <2> HIDE DEF r, c, g
  <2>5. \A j, k \in DOMAIN c :
           c[j].block_number = c[k].block_number => c[j].state_root = c[k].state_root
    BY <2>4 DEF RootsAgree
  <2>6. \A j \in DOMAIN c : c[j].block_number = n => c[j].state_root = e.history[i].state_root
    BY <2>1, <2>4 DEF RootsAgree
  <2>7. RootsAgree(g)
    BY <2>4, <2>5, <2>6 DEF RootsAgree
  <2>8. n = e.block_number => e.history[i].state_root = e.state_root
    BY <2>1 DEF RootsAgree
  <2> QED
    BY <2>2, <2>7, <2>8 DEF r, g
<1> QED
  BY <1>2, <1>3
-------------------------------------------------------------------------------
(***************************************************************************)
(* Conditions on the blocks under which the accepted chain is linked.      *)
(***************************************************************************)
\* No block is so high that the buffer overwrites its first slot.
BelowWrap == \A b \in Blocks : b.number <= MaxReorgDepth

\* A block is numbered one above its parent, as on every Ethereum chain.
WellNumbered == \A b, c \in Blocks : b.parent = Hash(c) => b.number = c.number + 1
===============================================================================
