-------------------------- MODULE ReorgEngineProofs ---------------------------
(***************************************************************************)
(* Theorems about ReorgEngine, for every set of blocks, every buffer and   *)
(* history size and every definition of Execute.                           *)
(***************************************************************************)
EXTENDS ReorgEngine, StateEngineProofs

-------------------------------------------------------------------------------
(***************************************************************************)
(* First invariant: types, the two block numbers and the history.  It      *)
(* needs no assumption on the blocks or on Execute.                        *)
(***************************************************************************)
ChainOK == ChainShape(chain, replayed)

IInv ==
    /\ RingOK(ringBuffer)
    /\ WellFormed(ffi)
    /\ ChainOK
    /\ Engine.block_number = Len(chain)

LEMMA IInvImplies == IInv => TypeOK /\ Mirror /\ HistoryShape
BY DEF IInv, RingOK, WellFormed, HistoryOK, ChainOK, ChainShape, TypeOK, CoreTypeOK, Mirror,
   HistoryShape, Engine

\* What cutting the chain to n blocks does to the history variables.
LEMMA KeepFirstChain ==
    ASSUME ChainOK, NEW n \in 0 .. Len(chain), KeepFirst(n)
    PROVE  /\ ChainOK'
           /\ Len(chain') = n
           /\ \A i \in 1 .. n : chain'[i] = chain[i] /\ replayed'[i] = replayed[i]
BY CutChain DEF ChainOK, KeepFirst

\* What accepting block b on the first n blocks does to them.
LEMMA AcceptChain ==
    ASSUME ChainOK, NEW n \in 0 .. Len(chain), NEW b \in Blocks, b.number = n + 1,
           Accept(n, b)
    PROVE  /\ ChainOK'
           /\ Len(chain') = n + 1
           /\ \A i \in 1 .. n : chain'[i] = chain[i] /\ replayed'[i] = replayed[i]
           /\ chain'[n + 1] = b
           /\ replayed'[n + 1] = Execute(ReplayedState(n), b).state
<1> DEFINE c == SubSeq(chain, 1, n)
           r == SubSeq(replayed, 1, n)
           s == Execute(ReplayedState(n), b).state
<1>1. /\ ChainShape(c, r) /\ Len(c) = n
      /\ \A i \in 1 .. n : c[i] = chain[i] /\ r[i] = replayed[i]
  BY CutChain DEF ChainOK
<1>2. chain' = Append(c, b) /\ replayed' = Append(r, s)
  BY DEF Accept
<1> HIDE DEF c, r, s
<1>3. b.number = Len(c) + 1
  BY <1>1
<1>4. ChainShape(chain', replayed') /\ Grown(c, r, chain', replayed', b, s)
  BY <1>1, <1>2, <1>3, GrowChain
<1> QED
  BY <1>1, <1>4 DEF ChainOK, Grown, s

LEMMA InitIInv == Init => IInv
<1> SUFFICES ASSUME Init PROVE IInv
  OBVIOUS
<1>1. RingOK(ringBuffer)
  BY NewRingOK DEF Init
<1>2. ChainOK
  BY EmptyChain DEF Init, ChainOK
<1>3. WellFormed(ffi) /\ Engine.block_number = 0
  BY NewFFIWellFormed DEF Init, Engine
<1>4. Len(chain) = 0
  BY DEF Init
<1> QED
  BY <1>1, <1>2, <1>3, <1>4 DEF IInv

LEMMA NextIInv == IInv /\ [Next]_vars => IInv'
<1> SUFFICES ASSUME IInv, [Next]_vars PROVE IInv'
  OBVIOUS
<1>0. /\ RingOK(ringBuffer) /\ WellFormed(ffi) /\ ChainOK
      /\ ffi.engine.block_number = Len(chain)
      /\ Len(chain) \in Nat /\ Len(chain) \in 0 .. Len(chain)
  <2>1. /\ RingOK(ringBuffer) /\ WellFormed(ffi) /\ ChainOK
        /\ ffi.engine.block_number = Len(chain)
    BY DEF IInv, Engine
  <2>2. Len(chain) \in Nat
    BY <2>1, LenProperties DEF ChainOK
  <2> QED
    BY <2>1, <2>2
<1>1. CASE UNCHANGED vars
  BY <1>1 DEF vars, IInv, RingOK, ChainOK, Engine
<1>2. ASSUME NEW b \in Blocks, Undetected(b) \/ RollbackFailed(b) PROVE IInv'
  <2>1. UNCHANGED <<ringBuffer, ffi, reorgEvents, chain, replayed>>
    BY <1>2 DEF Undetected, RollbackFailed
  <2> QED
    BY <2>1 DEF IInv, RingOK, ChainOK, Engine
<1>3. ASSUME NEW b \in Blocks, Sequential(b) PROVE IInv'
  <2> DEFINE r == ApplyBlock(ffi, b)
  <2>1. /\ WellFormed(r.ffi)
        /\ r.ok => b.number = Len(chain) + 1 /\ r.ffi.engine.block_number = Len(chain) + 1
        /\ ~r.ok => r.ffi.engine.block_number = Len(chain)
    BY <1>0, ApplyBlockWellFormed
  <2>2. ffi' = r.ffi
    BY <1>3 DEF Sequential
  <2>3. CASE r.ok
    <3>1. ringBuffer' = Add(ringBuffer, b) /\ Accept(Len(chain), b)
      BY <1>3, <2>3 DEF Sequential
    <3> HIDE DEF r
    <3>2. ChainOK' /\ Len(chain') = Len(chain) + 1
      BY <1>0, <2>1, <2>3, <3>1, AcceptChain
    <3>3. RingOK(ringBuffer')
      BY <1>0, <3>1, AddOK
    <3> QED
      BY <2>1, <2>2, <2>3, <3>2, <3>3 DEF IInv, RingOK, Engine
  <2>4. CASE ~r.ok
    <3>1. UNCHANGED <<ringBuffer, chain, replayed>>
      BY <1>3, <2>4 DEF Sequential
    <3> HIDE DEF r
    <3> QED
      BY <1>0, <2>1, <2>2, <2>4, <3>1 DEF IInv, RingOK, ChainOK, Engine
  <2> QED
    BY <2>3, <2>4
<1>4. ASSUME NEW b \in Blocks, ReplayFailed(b) PROVE IInv'
  <2> DEFINE n == DetectReorg(ringBuffer, b).fork
             r == ApplyBlock(RollbackTo(ffi, n).ffi, b)
  <2>1. /\ RollbackTo(ffi, n).ok /\ ~r.ok /\ ffi' = r.ffi
        /\ KeepFirst(n) /\ UNCHANGED ringBuffer
    BY <1>4 DEF ReplayFailed
  <2> HIDE DEF n
  <2>2. /\ WellFormed(r.ffi) /\ n \in 0 .. Len(chain)
        /\ r.ffi.engine.block_number = n
    BY <1>0, <2>1, RollbackThenApply
  <2> HIDE DEF r
  <2>3. ChainOK' /\ Len(chain') = n
    BY <1>0, <2>1, <2>2, KeepFirstChain
  <2> QED
    BY <1>0, <2>1, <2>2, <2>3 DEF IInv, RingOK, Engine
<1>5. ASSUME NEW b \in Blocks, Reorganised(b) PROVE IInv'
  <2> DEFINE n == DetectReorg(ringBuffer, b).fork
             r == ApplyBlock(RollbackTo(ffi, n).ffi, b)
  <2>1. /\ RollbackTo(ffi, n).ok /\ r.ok /\ ffi' = r.ffi
        /\ Accept(n, b) /\ ringBuffer' = Add(Truncate(ringBuffer, n), b)
    BY <1>5 DEF Reorganised
  <2> HIDE DEF n
  <2>2. /\ WellFormed(r.ffi) /\ n \in 0 .. Len(chain)
        /\ b.number = n + 1 /\ r.ffi.engine.block_number = n + 1
    BY <1>0, <2>1, RollbackThenApply
  <2> HIDE DEF r
  <2>3. ChainOK' /\ Len(chain') = n + 1
    BY <1>0, <2>1, <2>2, AcceptChain
  <2>4. RingOK(ringBuffer')
    <3>1. n \in Nat
      BY <1>0, <2>2
    <3>2. RingOK(Truncate(ringBuffer, n))
      BY <1>0, <3>1, TruncateOK
    <3> QED
      BY <2>1, <3>2, AddOK
  <2> QED
    BY <2>1, <2>2, <2>3, <2>4 DEF IInv, RingOK, Engine
<1> QED
  BY <1>1, <1>2, <1>3, <1>4, <1>5 DEF Next, ProcessBlock

THEOREM Invariant1 == Spec => []IInv
BY InitIInv, NextIInv, PTL DEF Spec

(***************************************************************************)
(* The variables of the reorg engine, of the FFI and of the core keep      *)
(* their types.                                                            *)
(***************************************************************************)
THEOREM TypeCorrect == Spec => []TypeOK
BY Invariant1, IInvImplies, PTL

(***************************************************************************)
(* FFI.lastBlockNumber and StateEngine.block_number agree, and are the     *)
(* number of the last accepted block, whatever blocks come in whatever     *)
(* order and whichever of them fail.                                       *)
(***************************************************************************)
THEOREM MirrorCorrect == Spec => []Mirror
BY Invariant1, IInvImplies, PTL

(***************************************************************************)
(* apply_block and rollback_to keep the history bounded, sorted and        *)
(* without gaps, ending at the current block or the one before.            *)
(***************************************************************************)
THEOREM HistoryCorrect == Spec => []HistoryShape
BY Invariant1, IInvImplies, PTL
-------------------------------------------------------------------------------
(***************************************************************************)
(* Second invariant: the core is in the state of a node that executed the  *)
(* accepted chain and nothing else.  It needs every snapshot to hold the   *)
(* state after the block it is labelled with, and it needs failing blocks  *)
(* to leave no trace: apply_block does not undo the transactions that ran  *)
(* before the failing one.  Whether they do depends on the state, so that  *)
(* what states there are has to be known first.                            *)
(***************************************************************************)
StatesInv(S) == StatesIn(Engine, S)

LEMMA InitStates ==
    ASSUME NEW S, Closed(S)
    PROVE  Init => StatesInv(S)
BY NewFFIStates DEF Init, StatesInv, Engine

LEMMA NextStates ==
    ASSUME NEW S, Closed(S)
    PROVE  IInv /\ StatesInv(S) /\ [Next]_vars => StatesInv(S)'
<1> SUFFICES ASSUME IInv, StatesInv(S), [Next]_vars PROVE StatesInv(S)'
  OBVIOUS
<1>1. WellFormed(ffi) /\ StatesIn(ffi.engine, S)
  BY DEF IInv, StatesInv, Engine
<1>2. CASE UNCHANGED ffi
  BY <1>1, <1>2 DEF StatesInv, Engine
<1>3. ASSUME NEW b \in Blocks, Sequential(b) PROVE StatesInv(S)'
  <2>1. ffi' = ApplyBlock(ffi, b).ffi
    BY <1>3 DEF Sequential
  <2> QED
    BY <1>1, <2>1, ApplyBlockStates DEF StatesInv, Engine
<1>4. ASSUME NEW b \in Blocks, ReplayFailed(b) \/ Reorganised(b) PROVE StatesInv(S)'
  <2> DEFINE n == DetectReorg(ringBuffer, b).fork
             g == RollbackTo(ffi, n).ffi
  <2>1. ffi' = ApplyBlock(g, b).ffi
    BY <1>4 DEF ReplayFailed, Reorganised
  <2> HIDE DEF n
  <2>2. WellFormed(g) /\ StatesIn(g.engine, S)
    BY <1>1, RollbackWellFormed, RollbackStates
  <2> HIDE DEF g
  <2> QED
    BY <2>1, <2>2, ApplyBlockStates DEF StatesInv, Engine
<1> QED
  BY <1>2, <1>3, <1>4 DEF Next, ProcessBlock, Undetected, RollbackFailed, vars

ReplayInv == AllMatch(Engine, replayed)

LEMMA ReplayInvImplies == IInv /\ ReplayInv => StateIsReplay /\ RootIsReplay
BY DEF IInv, ReplayInv, AllMatch, Matches, StateIsReplay, RootIsReplay, ReplayedState, Engine

\* The state of a matching engine at block n is the reference state.
LEMMA MatchedState ==
    ASSUME NEW e, AllMatch(e, replayed)
    PROVE  e.state = ReplayedState(e.block_number)
BY DEF AllMatch, Matches, ReplayedState

LEMMA InitReplay == Init => ReplayInv
<1> SUFFICES ASSUME Init PROVE ReplayInv
  OBVIOUS
<1>1. /\ Engine.block_number = 0 /\ Engine.state = Genesis
      /\ Engine.history = <<>> /\ DOMAIN <<>> = {}
  BY DEF Init, Engine, NewFFI, NewEngine
<1> QED
  BY <1>1 DEF ReplayInv, AllMatch, Matches

LEMMA NextReplay ==
    ASSUME NEW S, FailuresLeaveNoTrace(S)
    PROVE  IInv /\ StatesInv(S) /\ ReplayInv /\ [Next]_vars => ReplayInv'
<1> SUFFICES ASSUME IInv, StatesInv(S), ReplayInv, [Next]_vars PROVE ReplayInv'
  OBVIOUS
<1>s. StatesIn(ffi.engine, S) /\ ffi.engine.state \in S
  BY DEF StatesInv, StatesIn, Engine
<1>0. /\ WellFormed(ffi) /\ ChainOK
      /\ ffi.engine.block_number = Len(chain)
      /\ Len(chain) \in Nat /\ Len(chain) \in 0 .. Len(chain)
      /\ AllMatch(ffi.engine, replayed)
  <2>1. /\ WellFormed(ffi) /\ ChainOK
        /\ ffi.engine.block_number = Len(chain)
    BY DEF IInv, Engine
  <2>2. Len(chain) \in Nat
    BY <2>1, LenProperties DEF ChainOK
  <2> QED
    BY <2>1, <2>2 DEF ReplayInv, Engine
<1>1. CASE UNCHANGED vars
  BY <1>1 DEF vars, ReplayInv, Engine
<1>2. ASSUME NEW b \in Blocks, Undetected(b) \/ RollbackFailed(b) PROVE ReplayInv'
  <2>1. UNCHANGED <<ringBuffer, ffi, reorgEvents, chain, replayed>>
    BY <1>2 DEF Undetected, RollbackFailed
  <2> QED
    BY <2>1 DEF ReplayInv, Engine
<1>3. ASSUME NEW b \in Blocks, Sequential(b) PROVE ReplayInv'
  <2> DEFINE r == ApplyBlock(ffi, b)
  <2>1. ffi' = r.ffi /\ (r.ok => b.number = Len(chain) + 1)
    BY <1>0, <1>3, ApplyBlockWellFormed DEF Sequential
  <2>2. /\ \A i \in 1 .. Len(chain) : replayed'[i] = replayed[i]
        /\ r.ok => replayed'[Len(chain) + 1] = Execute(ffi.engine.state, b).state
    <3>1. CASE r.ok
      <4>1. Accept(Len(chain), b)
        BY <1>3, <3>1 DEF Sequential
      <4>2. ffi.engine.state = ReplayedState(Len(chain))
        BY <1>0, MatchedState
      <4> QED
        BY <1>0, <2>1, <3>1, <4>1, <4>2, AcceptChain
    <3>2. CASE ~r.ok
      BY <1>3, <3>2 DEF Sequential
    <3> QED
      BY <3>1, <3>2
  <2>3. AllMatch(r.ffi.engine, replayed')
    BY <1>0, <1>s, <2>2, ApplyBlockMatches, SMTT(30)
  <2> QED
    BY <2>1, <2>3 DEF ReplayInv, Engine
<1>4. ASSUME NEW b \in Blocks, ReplayFailed(b) \/ Reorganised(b) PROVE ReplayInv'
  <2> DEFINE n == DetectReorg(ringBuffer, b).fork
             g == RollbackTo(ffi, n).ffi
             r == ApplyBlock(g, b)
  <2>1. /\ RollbackTo(ffi, n).ok /\ ffi' = r.ffi
        /\ (~r.ok /\ KeepFirst(n)) \/ (r.ok /\ Accept(n, b))
    BY <1>4 DEF ReplayFailed, Reorganised
  <2> HIDE DEF n
  <2>2. /\ WellFormed(g) /\ n \in 0 .. Len(chain)
        /\ g.engine.block_number = n
    BY <1>0, <2>1, RollbackWellFormed
  <2>3. AllMatch(g.engine, replayed) /\ g.engine.state \in S
    BY <1>0, <1>s, RollbackMatches, RollbackStates DEF StatesIn
  <2> HIDE DEF g
  <2>4. g.engine.state = ReplayedState(n)
    BY <2>2, <2>3, MatchedState
  <2>5. r.ok => b.number = n + 1
    BY <2>2, ApplyBlockWellFormed
  <2>6. /\ \A i \in 1 .. n : replayed'[i] = replayed[i]
        /\ r.ok => replayed'[n + 1] = Execute(g.engine.state, b).state
    <3> HIDE DEF r
    <3>1. CASE r.ok
      BY <1>0, <2>1, <2>2, <2>4, <2>5, <3>1, AcceptChain
    <3>2. CASE ~r.ok
      BY <1>0, <2>1, <2>2, <3>2, KeepFirstChain
    <3> QED
      BY <3>1, <3>2
  <2>7. AllMatch(r.ffi.engine, replayed')
    BY <2>2, <2>3, <2>6, ApplyBlockMatches
  <2> QED
    BY <2>1, <2>7 DEF ReplayInv, Engine
<1> QED
  BY <1>1, <1>2, <1>3, <1>4 DEF Next, ProcessBlock

(***************************************************************************)
(* If no failing block leaves a trace in the account maps there are, the   *)
(* core is at all times in the state of a node that executed the accepted chain from  *)
(* genesis, through every reorg, rejected block and failed replay.         *)
(***************************************************************************)
THEOREM StateCorrect ==
    ASSUME NEW S, FailuresLeaveNoTrace(S)
    PROVE  Spec => []StateIsReplay
<1>1. /\ Init => StatesInv(S)
      /\ IInv /\ StatesInv(S) /\ [Next]_vars => StatesInv(S)'
      /\ IInv /\ StatesInv(S) /\ ReplayInv /\ [Next]_vars => ReplayInv'
  BY InitStates, NextStates, NextReplay DEF FailuresLeaveNoTrace
<1> QED
  BY InitIInv, NextIInv, InitReplay, <1>1, ReplayInvImplies, PTL DEF Spec

(***************************************************************************)
(* Under the same condition the state root get_state_root reports depends  *)
(* on the accepted blocks alone.                                           *)
(***************************************************************************)
THEOREM RootCorrect ==
    ASSUME NEW S, FailuresLeaveNoTrace(S)
    PROVE  Spec => []RootIsReplay
<1>1. /\ Init => StatesInv(S)
      /\ IInv /\ StatesInv(S) /\ [Next]_vars => StatesInv(S)'
      /\ IInv /\ StatesInv(S) /\ ReplayInv /\ [Next]_vars => ReplayInv'
  BY InitStates, NextStates, NextReplay DEF FailuresLeaveNoTrace
<1> QED
  BY InitIInv, NextIInv, InitReplay, <1>1, ReplayInvImplies, PTL DEF Spec
-------------------------------------------------------------------------------
(***************************************************************************)
(* What a step may do to the accepted chain.                               *)
(***************************************************************************)
LEMMA PrefixOfSubSeq ==
    ASSUME NEW c \in Seq(Blocks), NEW n \in 0 .. Len(c)
    PROVE  IsPrefixOf(SubSeq(c, 1, n), c) /\ IsPrefixOf(c, c)
<1>1. IsSeq(c)
  BY IsSeqIntro
<1>2. Len(SubSeq(c, 1, n)) = n /\ Len(c) \in Nat
  BY <1>1, IsSeqSubSeq, LenProperties
<1> QED
  BY <1>2, SubSeqFull DEF IsPrefixOf

LEMMA PrefixOfAppend ==
    ASSUME NEW c \in Seq(Blocks), NEW b \in Blocks
    PROVE  SubSeq(Append(c, b), 1, Len(c)) = c /\ IsPrefixOf(c, Append(c, b))
<1> DEFINE d == Append(c, b)
<1>1. /\ d \in Seq(Blocks) /\ Len(d) = Len(c) + 1 /\ Len(c) \in Nat
      /\ \A i \in 1 .. Len(c) : d[i] = c[i]
  BY AppendProperties, LenProperties
<1> HIDE DEF d
<1>2. IsSeq(d) /\ Len(c) \in 0 .. Len(d)
  <2>1. Len(c) \in 0 .. Len(d)
    BY <1>1
  <2> QED
    BY <1>1, <2>1, IsSeqIntro
<1>3. /\ Len(SubSeq(d, 1, Len(c))) = Len(c)
      /\ \A i \in 1 .. Len(c) : SubSeq(d, 1, Len(c))[i] = c[i]
  BY <1>1, <1>2, IsSeqSubSeq
<1>4. SubSeq(d, 1, Len(c)) \in Seq(Blocks)
  BY <1>1, SubSeqProperties
<1>5. SubSeq(d, 1, Len(c)) = c
  BY <1>1, <1>3, <1>4, SeqEqual
<1> QED
  BY <1>1, <1>5 DEF IsPrefixOf, d

EventsSeq == IsSeq(reorgEvents)

LEMMA NextEvents == EventsSeq /\ [Next]_vars => EventsSeq'
<1> SUFFICES ASSUME EventsSeq, [Next]_vars PROVE EventsSeq'
  OBVIOUS
<1>1. reorgEvents' = reorgEvents \/ \E e : reorgEvents' = Append(reorgEvents, e)
  BY DEF Next, ProcessBlock, Undetected, Sequential, RollbackFailed, ReplayFailed, Reorganised, vars
<1> QED
  BY <1>1, IsSeqAppend DEF EventsSeq

(***************************************************************************)
(* ProcessBlock replaces accepted blocks only through HandleReorg, which   *)
(* records every replacement once, with the fork point the core went back  *)
(* to; and the depth it records, read from the buffer, is the number of    *)
(* blocks abandoned whenever the newest buffered block has the number of   *)
(* the tip.  No bound on the numbers is needed: this holds past the wrap.  *)
(***************************************************************************)
THEOREM RecordedCorrect == Spec => ReorgsAreRecorded
<1>1. ASSUME IInv, EventsSeq, [Next]_vars
      PROVE  [LET fork  == Len(chain') - 1
                  event == reorgEvents'[Len(reorgEvents')]
              IN  IF reorgEvents' = reorgEvents
                  THEN IsPrefixOf(chain, chain') \/ IsPrefixOf(chain', chain)
                  ELSE /\ reorgEvents' = Append(reorgEvents, event)
                       /\ event.fork = fork /\ IsPrefixOf(SubSeq(chain', 1, fork), chain)
                       /\ InLine => event.depth = Len(chain) - fork]_vars
  <2> DEFINE fork  == Len(chain') - 1
             event == reorgEvents'[Len(reorgEvents')]
  <2> SUFFICES ASSUME Next
               PROVE  IF reorgEvents' = reorgEvents
                      THEN IsPrefixOf(chain, chain') \/ IsPrefixOf(chain', chain)
                      ELSE /\ reorgEvents' = Append(reorgEvents, event)
                           /\ event.fork = fork /\ IsPrefixOf(SubSeq(chain', 1, fork), chain)
                           /\ InLine => event.depth = Len(chain) - fork
    BY <1>1
  <2>1. /\ RingOK(ringBuffer) /\ WellFormed(ffi) /\ ChainOK /\ chain \in Seq(Blocks)
        /\ ffi.engine.block_number = Len(chain)
        /\ Len(chain) \in Nat /\ Len(chain) \in 0 .. Len(chain)
    <3>1. chain \in Seq(Blocks) /\ Len(chain) \in Nat
      BY <1>1, LenProperties DEF IInv, ChainOK, ChainShape
    <3> QED
      BY <1>1, <3>1 DEF IInv, Engine
  <2>2. PICK b \in Blocks : ProcessBlock(b)
    BY DEF Next
  <2> DEFINE n == DetectReorg(ringBuffer, b).fork
  <2>3. CASE Undetected(b) \/ RollbackFailed(b)
    <3>1. chain' = chain /\ reorgEvents' = reorgEvents
      BY <2>3 DEF Undetected, RollbackFailed
    <3> QED
      BY <2>1, <3>1, PrefixOfSubSeq
  <2>4. CASE Sequential(b)
    <3>1. reorgEvents' = reorgEvents /\ (chain' = chain \/ chain' = Append(SubSeq(chain, 1, Len(chain)), b))
      BY <2>4 DEF Sequential, Accept
    <3>2. chain' = chain \/ chain' = Append(chain, b)
      BY <2>1, <3>1, SubSeqFull
    <3>3. IsPrefixOf(chain, chain')
      BY <2>1, <3>2, PrefixOfSubSeq, PrefixOfAppend
    <3> QED
      BY <3>1, <3>3
  <2>5. CASE ReplayFailed(b)
    <3>1. RollbackTo(ffi, n).ok /\ reorgEvents' = reorgEvents /\ chain' = SubSeq(chain, 1, n)
      BY <2>5 DEF ReplayFailed, KeepFirst
    <3> HIDE DEF n
    <3>2. n \in 0 .. Len(chain)
      BY <2>1, <3>1, RollbackWellFormed
    <3>3. IsPrefixOf(chain', chain)
      BY <2>1, <3>1, <3>2, PrefixOfSubSeq
    <3> QED
      BY <3>1, <3>3
  <2>6. CASE Reorganised(b)
    <3> DEFINE prev == Latest(ringBuffer)
               e == [fork |-> n, depth |-> RecordedDepth(prev, n)]
    <3>1. /\ DetectReorg(ringBuffer, b).outcome = "reorg"
          /\ RollbackTo(ffi, n).ok /\ reorgEvents' = Append(reorgEvents, e)
          /\ chain' = Append(SubSeq(chain, 1, n), b)
      BY <2>6 DEF Reorganised, Accept
    <3>2. prev # NoBlock
      BY <3>1 DEF DetectReorg
    <3> HIDE DEF n
    <3>3. n \in 0 .. Len(chain)
      BY <2>1, <3>1, RollbackWellFormed
    <3> DEFINE c == SubSeq(chain, 1, n)
    <3>4. c \in Seq(Blocks) /\ Len(c) = n /\ IsPrefixOf(c, chain)
      BY <2>1, <3>3, CutChain, PrefixOfSubSeq DEF ChainOK, ChainShape
    <3> HIDE DEF c, e
    <3>5. Len(chain') = n + 1 /\ SubSeq(chain', 1, n) = c
      <4>1. chain' = Append(c, b)
        BY <3>1 DEF c
      <4> QED
        BY <3>4, <4>1, PrefixOfAppend, AppendProperties
    <3>6. fork = n /\ n \in Nat
      BY <2>1, <3>3, <3>5
    <3>7. event = e /\ reorgEvents' # reorgEvents
      <4>1. /\ Len(reorgEvents') = Len(reorgEvents) + 1 /\ reorgEvents'[Len(reorgEvents) + 1] = e
            /\ Len(reorgEvents) \in Nat
        BY <1>1, <3>1, IsSeqAppend, IsSeqLen DEF EventsSeq
      <4> QED
        BY <4>1
    <3>8. InLine => e.depth = Len(chain) - n
      <4>1. InLine => prev.number = Len(chain)
        BY DEF InLine
      <4>2. e.depth = IF prev.number > n THEN prev.number - n ELSE 0
        BY <3>2 DEF e, RecordedDepth
      <4> QED
        BY <2>1, <3>3, <4>1, <4>2
    <3>9. e.fork = n
      BY DEF e
    <3> HIDE DEF event, fork
    <3> QED
      BY <3>1, <3>4, <3>5, <3>6, <3>7, <3>8, <3>9
  <2> QED
    BY <2>2, <2>3, <2>4, <2>5, <2>6 DEF ProcessBlock
<1>2. Init => EventsSeq
  BY EmptySeq, IsSeqIntro DEF Init, EventsSeq
<1> QED
  BY <1>1, <1>2, InitIInv, NextIInv, NextEvents, PTL DEF Spec, ReorgsAreRecorded
-------------------------------------------------------------------------------
(***************************************************************************)
(* The accepted chain is a chain, as long as the ring buffer never wraps.  *)
(* Past the wrap Truncate counts from the wrong slot, and the property     *)
(* fails: run wrap_linked shows how.                                       *)
(***************************************************************************)
\* The buffer holds block i + 1 of some chain in slot i.
RingLow(rb) ==
    /\ rb.index = rb.size % MaxReorgDepth
    /\ \A i \in 0 .. rb.size - 1 : rb.blocks[i] \in Blocks /\ rb.blocks[i].number = i + 1
    /\ \A i \in 1 .. rb.size - 1 : rb.blocks[i].parent = Hash(rb.blocks[i - 1])

LinkedInv ==
    /\ RingLow(ringBuffer)
    /\ Len(chain) <= ringBuffer.size
    /\ \A i \in 1 .. Len(chain) : chain[i] = ringBuffer.blocks[i - 1]

LEMMA ModFacts ==
    ASSUME NEW m \in Nat \ {0}, NEW i \in 0 .. m - 1
    PROVE  i % m = i /\ (i + m) % m = i /\ m % m = 0
OBVIOUS

\* Position i of the buffer is slot i.
LEMMA GetLow ==
    ASSUME NEW rb, RingOK(rb), RingLow(rb), NEW i \in 0 .. rb.size - 1
    PROVE  Get(rb, i) = rb.blocks[i]
<1>1. /\ MaxReorgDepth \in Nat \ {0} /\ rb.size \in 0 .. MaxReorgDepth
      /\ i \in 0 .. MaxReorgDepth - 1
  BY DepthAssumption DEF RingOK
<1>2. Slot(rb, i) = i
  <2>1. CASE rb.size = MaxReorgDepth
    <3>1. rb.index = 0
      BY <1>1, <2>1, ModFacts DEF RingLow
    <3>2. rb.index - rb.size + i + MaxReorgDepth = i
      BY <1>1, <2>1, <3>1
    <3> QED
      BY <1>1, <3>2, ModFacts DEF Slot
  <2>2. CASE rb.size < MaxReorgDepth
    <3>0. rb.size \in 0 .. MaxReorgDepth - 1
      BY <1>1, <2>2
    <3>1. rb.index = rb.size
      BY <1>1, <3>0, ModFacts DEF RingLow
    <3>2. rb.index - rb.size + i + MaxReorgDepth = i + MaxReorgDepth
      BY <1>1, <3>1
    <3> QED
      BY <1>1, <3>2, ModFacts DEF Slot
  <2> QED
    BY <1>1, <2>1, <2>2
<1> QED
  BY <1>1, <1>2 DEF Get

LEMMA LatestLow ==
    ASSUME NEW rb, RingOK(rb), RingLow(rb)
    PROVE  /\ rb.size = 0 => Latest(rb) = NoBlock
           /\ rb.size > 0 => /\ Latest(rb) = rb.blocks[rb.size - 1]
                             /\ Latest(rb) \in Blocks /\ Latest(rb) # NoBlock
<1>1. MaxReorgDepth \in Nat \ {0} /\ rb.size \in 0 .. MaxReorgDepth
  BY DepthAssumption DEF RingOK
<1>2. CASE rb.size = 0
  BY <1>2 DEF Latest
<1>3. CASE rb.size > 0
  <2>1. rb.size - 1 \in 0 .. rb.size - 1
    BY <1>1, <1>3
  <2>2. Latest(rb) = rb.blocks[rb.size - 1]
    BY <1>1, <1>3, <2>1, GetLow DEF Latest
  <2> QED
    BY <1>1, <1>3, <2>1, <2>2, NoBlockAssumption DEF RingLow
<1> QED
  BY <1>1, <1>2, <1>3

\* The fork point found is below the newest block, and it is the parent.
LEMMA ForkLow ==
    ASSUME NEW rb, RingOK(rb), RingLow(rb), NEW b \in Blocks,
           DetectReorg(rb, b).outcome = "reorg"
    PROVE  LET n == DetectReorg(rb, b).fork
           IN  n \in 1 .. rb.size - 1 /\ b.parent = Hash(rb.blocks[n - 1])
<1> DEFINE P == ParentPositions(rb, b)
<1>1. MaxReorgDepth \in Nat \ {0} /\ rb.size \in 0 .. MaxReorgDepth
  BY DepthAssumption DEF RingOK
<1>2. /\ Latest(rb) # NoBlock /\ b.parent # Hash(Latest(rb))
      /\ P # {}
      /\ DetectReorg(rb, b).fork = findForkPoint(rb, b)
  BY DEF DetectReorg
<1>3. \A i \in P : /\ i \in 0 .. rb.size - 1 /\ Get(rb, i) = rb.blocks[i]
                   /\ b.parent = Hash(rb.blocks[i]) /\ rb.blocks[i].number = i + 1
  BY GetLow DEF ParentPositions, RingLow
<1> HIDE DEF P
<1>4. PICK i \in P : TRUE
  BY <1>2
<1>5. \A j \in P : j = i
  <2> SUFFICES ASSUME NEW j \in P PROVE j = i
    OBVIOUS
  <2>1. Hash(rb.blocks[i]) = Hash(rb.blocks[j])
    BY <1>3
  <2>2. rb.blocks[i].number = rb.blocks[j].number
    BY <2>1 DEF Hash
  <2> QED
    BY <1>1, <1>3, <2>2
<1>6. findForkPoint(rb, b) = i + 1
  <2>1. i <= i
    BY <1>1, <1>3
  <2>2. (CHOOSE k \in P : \A j \in P : j <= k) = i
    BY <1>5, <2>1
  <2> QED
    BY <1>3, <2>2 DEF findForkPoint, P
<1>7. i # rb.size - 1
  <2>1. rb.size > 0
    BY <1>1, <1>2, LatestLow
  <2> QED
    BY <1>2, <1>3, <2>1, LatestLow
<1> QED
  BY <1>1, <1>2, <1>3, <1>6, <1>7

\* Adding the child of the newest block, below the wrap.
LEMMA AddLow ==
    ASSUME NEW rb, RingOK(rb), RingLow(rb), NEW b \in Blocks,
           b.number = rb.size + 1, rb.size < MaxReorgDepth,
           rb.size > 0 => b.parent = Hash(rb.blocks[rb.size - 1])
    PROVE  /\ RingLow(Add(rb, b))
           /\ Add(rb, b).size = rb.size + 1
           /\ Add(rb, b).blocks[rb.size] = b
           /\ \A i \in 0 .. rb.size - 1 : Add(rb, b).blocks[i] = rb.blocks[i]
<1> DEFINE a == Add(rb, b)
           m == rb.size
<1>1. /\ MaxReorgDepth \in Nat \ {0} /\ m \in 0 .. MaxReorgDepth - 1
      /\ rb.blocks \in [0 .. MaxReorgDepth - 1 -> Blocks \cup {NoBlock}]
  BY DepthAssumption DEF RingOK
<1>2. rb.index = m
  BY <1>1, ModFacts DEF RingLow
<1>3. /\ a.size = m + 1
      /\ a.index = (m + 1) % MaxReorgDepth
      /\ a.blocks = [rb.blocks EXCEPT ![m] = b]
  BY <1>1, <1>2 DEF Add
<1>4. /\ a.blocks[m] = b
      /\ \A i \in 0 .. m - 1 : a.blocks[i] = rb.blocks[i]
  BY <1>1, <1>3
<1> HIDE DEF a
<1>5. \A i \in 0 .. a.size - 1 : a.blocks[i] \in Blocks /\ a.blocks[i].number = i + 1
  <2> SUFFICES ASSUME NEW i \in 0 .. m
               PROVE  a.blocks[i] \in Blocks /\ a.blocks[i].number = i + 1
    BY <1>1, <1>3
  <2>1. CASE i = m
    BY <1>4, <2>1
  <2>2. CASE i \in 0 .. m - 1
    BY <1>4, <2>2 DEF RingLow
  <2> QED
    BY <1>1, <2>1, <2>2
<1>6. \A i \in 1 .. a.size - 1 : a.blocks[i].parent = Hash(a.blocks[i - 1])
  <2> SUFFICES ASSUME NEW i \in 1 .. m
               PROVE  a.blocks[i].parent = Hash(a.blocks[i - 1])
    BY <1>1, <1>3
  <2>0. i - 1 \in 0 .. m - 1 /\ a.blocks[i - 1] = rb.blocks[i - 1]
    BY <1>1, <1>4
  <2>1. CASE i = m
    BY <1>1, <1>4, <2>0, <2>1
  <2>2. CASE i \in 1 .. m - 1
    <3>1. rb.blocks[i].parent = Hash(rb.blocks[i - 1])
      BY <2>2 DEF RingLow
    <3> QED
      BY <1>4, <2>0, <2>2, <3>1
  <2> QED
    BY <1>1, <2>1, <2>2
<1> QED
  BY <1>3, <1>4, <1>5, <1>6 DEF RingLow, a

LEMMA TruncateLow ==
    ASSUME NEW rb, RingOK(rb), RingLow(rb), NEW n \in 0 .. rb.size
    PROVE  LET t == Truncate(rb, n)
           IN  RingOK(t) /\ RingLow(t) /\ t.size = n /\ t.blocks = rb.blocks
<1> DEFINE t == Truncate(rb, n)
<1>1. MaxReorgDepth \in Nat \ {0} /\ rb.size \in 0 .. MaxReorgDepth
  BY DepthAssumption DEF RingOK
<1>2. t.size = n /\ t.index = n % MaxReorgDepth /\ t.blocks = rb.blocks
  BY <1>1 DEF Truncate
<1>3. RingOK(t)
  BY <1>1, TruncateOK
<1> HIDE DEF t
<1>4. RingLow(t)
  BY <1>1, <1>2 DEF RingLow
<1> QED
  BY <1>2, <1>3, <1>4 DEF t

LEMMA LinkedInvImplies == IInv /\ LinkedInv => Linked /\ RingHoldsChain
<1> SUFFICES ASSUME IInv, LinkedInv PROVE Linked /\ RingHoldsChain
  OBVIOUS
<1>1. /\ RingOK(ringBuffer) /\ RingLow(ringBuffer)
      /\ Len(chain) \in Nat /\ DOMAIN chain = 1 .. Len(chain)
      /\ ringBuffer.size \in Nat /\ Len(chain) <= ringBuffer.size
      /\ \A i \in 1 .. Len(chain) : chain[i] = ringBuffer.blocks[i - 1]
  BY LenProperties, DepthAssumption DEF IInv, LinkedInv, RingOK, ChainOK
<1>2. Linked
  <2> SUFFICES ASSUME NEW i \in 2 .. Len(chain)
               PROVE  chain[i].parent = Hash(chain[i - 1])
    BY DEF Linked
  <2>1. /\ i \in 1 .. Len(chain) /\ i - 1 \in 1 .. Len(chain)
        /\ i - 1 \in 1 .. ringBuffer.size - 1
    BY <1>1
  <2> QED
    BY <1>1, <2>1 DEF RingLow
<1>3. RingHoldsChain
  <2> SUFFICES ASSUME NEW i \in 1 .. Len(chain)
               PROVE  Get(ringBuffer, i - 1) = chain[i]
    BY <1>1 DEF RingHoldsChain
  <2>1. i - 1 \in 0 .. ringBuffer.size - 1
    BY <1>1
  <2> QED
    BY <1>1, <2>1, GetLow
<1> QED
  BY <1>2, <1>3

LEMMA InitLinked == Init => LinkedInv
<1> SUFFICES ASSUME Init PROVE LinkedInv
  OBVIOUS
<1>1. ringBuffer.size = 0 /\ ringBuffer.index = 0 /\ chain = <<>> /\ Len(chain) = 0
  BY DEF Init, NewRingBuffer
<1>2. 0 % MaxReorgDepth = 0
  BY DepthAssumption, ModFacts
<1> QED
  BY <1>1, <1>2 DEF LinkedInv, RingLow

LEMMA NextLinked ==
    ASSUME BelowWrap, WellNumbered
    PROVE  IInv /\ LinkedInv /\ [Next]_vars => LinkedInv'
<1> SUFFICES ASSUME IInv, LinkedInv, [Next]_vars PROVE LinkedInv'
  OBVIOUS
<1>0. /\ RingOK(ringBuffer) /\ RingLow(ringBuffer)
      /\ WellFormed(ffi) /\ ChainOK /\ ffi.engine.block_number = Len(chain)
      /\ Len(chain) \in Nat /\ Len(chain) \in 0 .. Len(chain)
      /\ ringBuffer.size \in 0 .. MaxReorgDepth /\ MaxReorgDepth \in Nat \ {0}
      /\ Len(chain) <= ringBuffer.size
      /\ \A i \in 1 .. Len(chain) : chain[i] = ringBuffer.blocks[i - 1]
  <2>1. Len(chain) \in Nat
    BY LenProperties DEF IInv, ChainOK
  <2> QED
    BY <2>1, DepthAssumption DEF IInv, LinkedInv, RingOK, Engine
<1>1. CASE UNCHANGED vars
  BY <1>1 DEF vars, LinkedInv, RingLow
<1>2. ASSUME NEW b \in Blocks, Undetected(b) \/ RollbackFailed(b) PROVE LinkedInv'
  <2>1. UNCHANGED <<ringBuffer, ffi, reorgEvents, chain, replayed>>
    BY <1>2 DEF Undetected, RollbackFailed
  <2> QED
    BY <2>1 DEF LinkedInv, RingLow
<1>3. ASSUME NEW b \in Blocks, Sequential(b) PROVE LinkedInv'
  <2> DEFINE r == ApplyBlock(ffi, b)
             m == ringBuffer.size
  <2>1. CASE ~r.ok
    <3>1. UNCHANGED <<ringBuffer, chain>>
      BY <1>3, <2>1 DEF Sequential
    <3> QED
      BY <3>1 DEF LinkedInv, RingLow
  <2>2. CASE r.ok
    <3>1. /\ ringBuffer' = Add(ringBuffer, b) /\ Accept(Len(chain), b)
          /\ DetectReorg(ringBuffer, b).outcome = "sequential"
      BY <1>3, <2>2 DEF Sequential
    <3>2. b.number = Len(chain) + 1
      BY <1>0, <2>2, ApplyBlockWellFormed
    <3> HIDE DEF r
    <3>3. m > 0 => b.parent = Hash(ringBuffer.blocks[m - 1]) /\ b.number = m + 1
      <4> SUFFICES ASSUME m > 0
                   PROVE  b.parent = Hash(ringBuffer.blocks[m - 1]) /\ b.number = m + 1
        OBVIOUS
      <4>1. /\ Latest(ringBuffer) = ringBuffer.blocks[m - 1]
            /\ Latest(ringBuffer) \in Blocks /\ Latest(ringBuffer) # NoBlock
        BY <1>0, LatestLow
      <4>2. b.parent = Hash(Latest(ringBuffer))
        BY <3>1, <4>1 DEF DetectReorg
      <4>3. Latest(ringBuffer).number = m
        BY <1>0, <4>1 DEF RingLow
      <4> QED
        BY <4>1, <4>2, <4>3 DEF WellNumbered
    <3>4. Len(chain) = m /\ b.number = m + 1 /\ m < MaxReorgDepth
      BY <1>0, <3>2, <3>3 DEF BelowWrap
    <3>5. /\ RingLow(ringBuffer') /\ ringBuffer'.size = m + 1
          /\ ringBuffer'.blocks[m] = b
          /\ \A i \in 0 .. m - 1 : ringBuffer'.blocks[i] = ringBuffer.blocks[i]
      BY <1>0, <3>1, <3>3, <3>4, AddLow
    <3>6. /\ Len(chain') = m + 1 /\ chain'[m + 1] = b
          /\ \A i \in 1 .. m : chain'[i] = chain[i]
      BY <1>0, <3>1, <3>2, <3>4, AcceptChain
    <3>7. \A i \in 1 .. Len(chain') : chain'[i] = ringBuffer'.blocks[i - 1]
      <4> SUFFICES ASSUME NEW i \in 1 .. m + 1
                   PROVE  chain'[i] = ringBuffer'.blocks[i - 1]
        BY <3>6
      <4>1. CASE i = m + 1
        BY <1>0, <3>5, <3>6, <4>1
      <4>2. CASE i \in 1 .. m
        <5>1. i - 1 \in 0 .. m - 1
          BY <1>0, <4>2
        <5> QED
          BY <1>0, <3>4, <3>5, <3>6, <4>2, <5>1
      <4> QED
        BY <1>0, <4>1, <4>2
    <3> QED
      BY <1>0, <3>5, <3>6, <3>7 DEF LinkedInv, RingLow
  <2> QED
    BY <2>1, <2>2
<1>4. ASSUME NEW b \in Blocks, ReplayFailed(b) PROVE LinkedInv'
  <2> DEFINE n == DetectReorg(ringBuffer, b).fork
  <2>1. RollbackTo(ffi, n).ok /\ KeepFirst(n) /\ UNCHANGED ringBuffer
    BY <1>4 DEF ReplayFailed
  <2> HIDE DEF n
  <2>2. n \in 0 .. Len(chain)
    BY <1>0, <2>1, RollbackWellFormed
  <2>3. /\ Len(chain') = n /\ n <= Len(chain)
        /\ \A i \in 1 .. n : i \in 1 .. Len(chain) /\ chain'[i] = chain[i]
    BY <1>0, <2>1, <2>2, KeepFirstChain
  <2>4. RingLow(ringBuffer')
    BY <1>0, <2>1
  <2>5. Len(chain') <= ringBuffer'.size
    BY <1>0, <2>1, <2>2, <2>3
  <2>6. \A i \in 1 .. Len(chain') : chain'[i] = ringBuffer'.blocks[i - 1]
    BY <1>0, <2>1, <2>3
  <2> QED
    BY <2>4, <2>5, <2>6 DEF LinkedInv, RingLow
<1>5. ASSUME NEW b \in Blocks, Reorganised(b) PROVE LinkedInv'
  <2> DEFINE n == DetectReorg(ringBuffer, b).fork
             t == Truncate(ringBuffer, n)
  <2>0. n \in 1 .. ringBuffer.size - 1 /\ b.parent = Hash(ringBuffer.blocks[n - 1])
    BY <1>0, <1>5, ForkLow DEF Reorganised
  <2>1. /\ RollbackTo(ffi, n).ok /\ ApplyBlock(RollbackTo(ffi, n).ffi, b).ok
        /\ Accept(n, b) /\ ringBuffer' = Add(t, b)
    BY <1>5 DEF Reorganised
  <2> HIDE DEF n
  <2>2. n \in 0 .. Len(chain) /\ b.number = n + 1
    BY <1>0, <2>1, RollbackThenApply
  <2>3. RingOK(t) /\ RingLow(t) /\ t.size = n /\ t.blocks = ringBuffer.blocks
    BY <1>0, <2>0, TruncateLow
  <2> HIDE DEF t
  <2>4. n < MaxReorgDepth
    BY <1>0, <2>0
  <2>5. /\ RingLow(ringBuffer') /\ ringBuffer'.size = n + 1
        /\ ringBuffer'.blocks[n] = b
        /\ \A i \in 0 .. n - 1 : ringBuffer'.blocks[i] = ringBuffer.blocks[i]
    BY <2>0, <2>1, <2>2, <2>3, <2>4, AddLow
  <2>6. /\ Len(chain') = n + 1 /\ chain'[n + 1] = b
        /\ \A i \in 1 .. n : chain'[i] = chain[i]
    BY <1>0, <2>1, <2>2, AcceptChain
  <2>7. \A i \in 1 .. Len(chain') : chain'[i] = ringBuffer'.blocks[i - 1]
    <3> SUFFICES ASSUME NEW i \in 1 .. n + 1
                 PROVE  chain'[i] = ringBuffer'.blocks[i - 1]
      BY <2>6
    <3>1. CASE i = n + 1
      BY <2>2, <2>5, <2>6, <3>1
    <3>2. CASE i \in 1 .. n
      <4>1. i - 1 \in 0 .. n - 1 /\ i \in 1 .. Len(chain)
        BY <1>0, <2>2, <3>2
      <4> QED
        BY <1>0, <2>5, <2>6, <3>2, <4>1
    <3> QED
      BY <2>2, <3>1, <3>2
  <2> QED
    BY <2>2, <2>5, <2>6, <2>7 DEF LinkedInv, RingLow
<1> QED
  BY <1>1, <1>2, <1>3, <1>4, <1>5 DEF Next, ProcessBlock

(***************************************************************************)
(* While the ring buffer has not wrapped, the core never executes a block  *)
(* on a state other than that of the block's parent, whatever forks come   *)
(* in whatever order and whichever blocks are rejected.                    *)
(***************************************************************************)
THEOREM LinkedCorrect ==
    ASSUME BelowWrap, WellNumbered
    PROVE  Spec => []Linked
<1>1. IInv /\ LinkedInv /\ [Next]_vars => (IInv /\ LinkedInv)'
  BY NextIInv, NextLinked
<1> QED
  BY InitIInv, InitLinked, <1>1, LinkedInvImplies, PTL DEF Spec

(***************************************************************************)
(* Under the same conditions the ring buffer starts with the accepted      *)
(* chain, so a fork point it yields is an accepted block or above them.    *)
(***************************************************************************)
THEOREM RingHoldsChainCorrect ==
    ASSUME BelowWrap, WellNumbered
    PROVE  Spec => []RingHoldsChain
<1>1. IInv /\ LinkedInv /\ [Next]_vars => (IInv /\ LinkedInv)'
  BY NextIInv, NextLinked
<1> QED
  BY InitIInv, InitLinked, <1>1, LinkedInvImplies, PTL DEF Spec
===============================================================================
