---------------------------- MODULE PipelineProofs ----------------------------
(***************************************************************************)
(* Theorems about Pipeline: what no interleaving of the workers can break, *)
(* for every pool, every stream of blocks, every buffer and history size   *)
(* and every definition of Execute.                                        *)
(***************************************************************************)
EXTENDS Pipeline, StateEngineProofs

-------------------------------------------------------------------------------
(***************************************************************************)
(* The inductive invariant.                                                *)
(***************************************************************************)
Places == {"idle", "size", "check", "index", "position", "slot", "rollback", "apply", "replay",
           "truncate", "truncateAll", "truncateSize", "truncateIndex",
           "add", "addSlot", "addNext", "addIndex", "addCheck", "addGrow", "addSize", "record"}

\* The places from which a worker accesses the slot in its register.
SlotPlaces == {"slot", "addSlot"}

WorkerState ==
    [pc : Places, block : Blocks \cup {NoBlock}, prev : Blocks \cup {NoBlock},
     fork : Nat, depth : Int, idx : Nat, size : Nat, reg : Nat]

\* Unlike that of ReorgEngine, the buffer is seen between the stores of Add
\* and of Truncate: its index is a slot, and no more is known of its size than
\* that it is a number.
RingType ==
    [blocks : [0 .. MaxReorgDepth - 1 -> Blocks \cup {NoBlock}],
     index : 0 .. MaxReorgDepth - 1, size : Nat]

Sound(g) ==
    /\ g.pc # "idle" => g.block \in Blocks
    /\ g.pc \in SlotPlaces => g.reg \in 0 .. MaxReorgDepth - 1

WorkersOK ==
    /\ goroutine \in [Workers -> WorkerState]
    /\ \A w \in Workers : Sound(goroutine[w])

CoreOK ==
    /\ WellFormed(ffi) /\ RootsAgree(ffi.engine)
    /\ ChainShape(chain, replayed)
    /\ ffi.engine.block_number = Len(chain)

IsQuery(q) ==
    /\ q = [pc |-> q.pc, root |-> q.root, number |-> q.number, height |-> q.height,
            rolledBack |-> q.rolledBack]
    /\ q.pc \in {"root", "stats", "answered"}

\* Between the reader's two calls, unless the core was rolled back, the chain
\* has not become shorter, and if it is not longer its root is the one read.
QueryOK ==
    /\ query = NotAsked \/ IsQuery(query)
    /\ query.pc = "stats" => query.height \in Nat
    /\ query.pc = "stats" /\ ~query.rolledBack =>
           /\ query.height <= Len(chain)
           /\ query.height = Len(chain) => query.root = GetStateRoot(ffi)

PipeInv ==
    /\ ringBuffer \in RingType /\ inbox \in Seq(Blocks)
    /\ WorkersOK /\ CoreOK /\ QueryOK

\* Now is ReorgEngine with nothing replaced, so its operators are the same.
LEMMA NowOperators ==
    /\ Now!NewFFI = NewFFI /\ Now!NewRingBuffer = NewRingBuffer
    /\ \A s : Now!IsSeq(s) = IsSeq(s)
    /\ \A h, n : Now!WellShaped(h, n) = WellShaped(h, n)
BY DEF Now!NewFFI, NewFFI, Now!NewEngine, NewEngine, Now!ZeroRoot, ZeroRoot, Now!NewRingBuffer,
   NewRingBuffer, Now!IsSeq, IsSeq, Now!WellShaped, WellShaped

LEMMA PipeInvImplies == PipeInv => TypeOK /\ Mirror /\ HistoryShape
<1> SUFFICES ASSUME PipeInv PROVE TypeOK /\ Mirror /\ HistoryShape
  OBVIOUS
<1>1. Now!CoreTypeOK /\ Mirror /\ HistoryShape
  BY NowOperators DEF PipeInv, CoreOK, RingType, WellFormed, HistoryOK, ChainShape, Mirror,
     HistoryShape, Now!CoreTypeOK, Now!Mirror, Now!HistoryShape, Now!Engine
<1>2. ASSUME NEW w \in Workers
      PROVE  goroutine[w].pc \in Places /\ goroutine[w].block \in Blocks \cup {NoBlock}
  BY <1>2 DEF PipeInv, WorkersOK, WorkerState
<1> QED
  BY <1>1, <1>2 DEF PipeInv, TypeOK, Places, RingType

LEMMA InitPipe == Init => PipeInv
<1> SUFFICES ASSUME Init PROVE PipeInv
  OBVIOUS
<1>1. PICK s \in Setups : /\ inbox = s.stream /\ goroutine = [w \in s.pool |-> Idle]
                          /\ query = IF s.asked THEN Asked ELSE NotAsked
  BY DEF Init
<1>2. inbox \in Seq(Blocks)
  BY <1>1, SetupsAssumption
<1>3. ringBuffer = NewRingBuffer /\ ffi = NewFFI /\ chain = <<>> /\ replayed = <<>>
  BY NowOperators DEF Init, Now!Init
<1>4. ringBuffer \in RingType
  BY <1>3, DepthAssumption DEF NewRingBuffer, RingType
<1>5. CoreOK
  BY <1>3, EmptyChain, NewFFIWellFormed, NewFFIRoots DEF CoreOK
<1>6. WorkersOK
  BY <1>1 DEF WorkersOK, WorkerState, Workers, Places, SlotPlaces, Sound, Idle
<1>7. QueryOK
  BY <1>1 DEF QueryOK, IsQuery, Asked, NotAsked
<1> QED
  BY <1>2, <1>4, <1>5, <1>6, <1>7 DEF PipeInv
-------------------------------------------------------------------------------
(***************************************************************************)
(* One step of one worker.                                                 *)
(***************************************************************************)
\* A worker that moves on, with what it has learnt, is still well typed.
LEMMA MoveOK ==
    ASSUME WorkersOK, NEW w \in Workers, NEW g \in WorkerState, Sound(g),
           goroutine' = [goroutine EXCEPT ![w] = g]
    PROVE  WorkersOK' /\ Workers' = Workers
<1>1. goroutine \in [Workers -> WorkerState]
  BY DEF WorkersOK
<1>2. Workers' = Workers
  BY <1>1 DEF Workers
<1>3. goroutine' \in [Workers -> WorkerState]
  BY <1>1
<1>4. \A v \in Workers : Sound(goroutine'[v])
  BY <1>1 DEF WorkersOK
<1> QED
  BY <1>2, <1>3, <1>4 DEF WorkersOK

LEMMA GotoOK ==
    ASSUME WorkersOK, NEW w \in Workers, NEW p \in Places \ SlotPlaces, goroutine[w].block \in Blocks,
           Goto(w, p)
    PROVE  WorkersOK' /\ Workers' = Workers
<1> DEFINE g == [goroutine[w] EXCEPT !.pc = p]
<1>1. goroutine[w] \in WorkerState
  BY DEF WorkersOK
<1>2. g \in WorkerState /\ Sound(g)
  BY <1>1 DEF WorkerState, Sound
<1>3. goroutine' = [goroutine EXCEPT ![w] = g]
  BY DEF Goto
<1> HIDE DEF g
<1> QED
  BY <1>2, <1>3, MoveOK

LEMMA ReturnOK ==
    ASSUME WorkersOK, NEW w \in Workers, Return(w)
    PROVE  WorkersOK' /\ Workers' = Workers
<1>1. Idle \in WorkerState /\ Sound(Idle)
  BY DEF Idle, WorkerState, Places, SlotPlaces, Sound
<1>2. goroutine' = [goroutine EXCEPT ![w] = Idle]
  BY DEF Return
<1> QED
  BY <1>1, <1>2, MoveOK

\* The block is learnt first, the other fields when it is known.
LEMMA TakeOK ==
    ASSUME WorkersOK, NEW w \in Workers, NEW b \in Blocks, Learn(w, "size", "block", b)
    PROVE  WorkersOK' /\ Workers' = Workers
<1> DEFINE g == [goroutine[w] EXCEPT !.pc = "size", !.block = b]
<1>1. goroutine[w] \in WorkerState
  BY DEF WorkersOK
<1>2. g \in WorkerState /\ Sound(g)
  BY <1>1 DEF WorkerState, Places, SlotPlaces, Sound
<1>3. goroutine' = [goroutine EXCEPT ![w] = g]
  BY DEF Learn
<1> HIDE DEF g
<1> QED
  BY <1>2, <1>3, MoveOK

LEMMA LearnOK ==
    ASSUME WorkersOK, NEW w \in Workers, NEW p \in Places, goroutine[w].block \in Blocks,
           \/ /\ p \notin SlotPlaces
              /\ \/ \E b \in Blocks : Learn(w, p, "prev", b)
                 \/ \E n \in Nat : Learn(w, p, "fork", n)
                 \/ \E n \in Int : Learn(w, p, "depth", n)
                 \/ \E n \in Nat : Learn(w, p, "idx", n)
                 \/ \E n \in Nat : Learn(w, p, "size", n)
           \/ \E n \in Nat : /\ Learn(w, p, "reg", n)
                             /\ p \in SlotPlaces => n \in 0 .. MaxReorgDepth - 1
    PROVE  WorkersOK' /\ Workers' = Workers
<1>1. goroutine[w] \in WorkerState
  BY DEF WorkersOK
<1>2. CASE p \notin SlotPlaces /\ \E b \in Blocks : Learn(w, p, "prev", b)
  <2>1. PICK b \in Blocks : Learn(w, p, "prev", b)
    BY <1>2
  <2> DEFINE g == [goroutine[w] EXCEPT !.pc = p, !.prev = b]
  <2>2. g \in WorkerState /\ Sound(g)
    BY <1>1, <1>2 DEF WorkerState, Sound
  <2>3. goroutine' = [goroutine EXCEPT ![w] = g]
    BY <2>1 DEF Learn
  <2> HIDE DEF g
  <2> QED
    BY <2>2, <2>3, MoveOK
<1>3. CASE p \notin SlotPlaces /\ \E n \in Nat : Learn(w, p, "fork", n)
  <2>1. PICK n \in Nat : Learn(w, p, "fork", n)
    BY <1>3
  <2> DEFINE g == [goroutine[w] EXCEPT !.pc = p, !.fork = n]
  <2>2. g \in WorkerState /\ Sound(g)
    BY <1>1, <1>3 DEF WorkerState, Sound
  <2>3. goroutine' = [goroutine EXCEPT ![w] = g]
    BY <2>1 DEF Learn
  <2> HIDE DEF g
  <2> QED
    BY <2>2, <2>3, MoveOK
<1>4. CASE p \notin SlotPlaces /\ \E n \in Int : Learn(w, p, "depth", n)
  <2>1. PICK n \in Int : Learn(w, p, "depth", n)
    BY <1>4
  <2> DEFINE g == [goroutine[w] EXCEPT !.pc = p, !.depth = n]
  <2>2. g \in WorkerState /\ Sound(g)
    BY <1>1, <1>4 DEF WorkerState, Sound
  <2>3. goroutine' = [goroutine EXCEPT ![w] = g]
    BY <2>1 DEF Learn
  <2> HIDE DEF g
  <2> QED
    BY <2>2, <2>3, MoveOK
<1>5. CASE p \notin SlotPlaces /\ \E n \in Nat : Learn(w, p, "idx", n)
  <2>1. PICK n \in Nat : Learn(w, p, "idx", n)
    BY <1>5
  <2> DEFINE g == [goroutine[w] EXCEPT !.pc = p, !.idx = n]
  <2>2. g \in WorkerState /\ Sound(g)
    BY <1>1, <1>5 DEF WorkerState, Sound
  <2>3. goroutine' = [goroutine EXCEPT ![w] = g]
    BY <2>1 DEF Learn
  <2> HIDE DEF g
  <2> QED
    BY <2>2, <2>3, MoveOK
<1>6. CASE p \notin SlotPlaces /\ \E n \in Nat : Learn(w, p, "size", n)
  <2>1. PICK n \in Nat : Learn(w, p, "size", n)
    BY <1>6
  <2> DEFINE g == [goroutine[w] EXCEPT !.pc = p, !.size = n]
  <2>2. g \in WorkerState /\ Sound(g)
    BY <1>1, <1>6 DEF WorkerState, Sound
  <2>3. goroutine' = [goroutine EXCEPT ![w] = g]
    BY <2>1 DEF Learn
  <2> HIDE DEF g
  <2> QED
    BY <2>2, <2>3, MoveOK
<1>7. CASE \E n \in Nat : /\ Learn(w, p, "reg", n)
                          /\ p \in SlotPlaces => n \in 0 .. MaxReorgDepth - 1
  <2>1. PICK n \in Nat : Learn(w, p, "reg", n) /\ (p \in SlotPlaces => n \in 0 .. MaxReorgDepth - 1)
    BY <1>7
  <2> DEFINE g == [goroutine[w] EXCEPT !.pc = p, !.reg = n]
  <2>2. g \in WorkerState /\ Sound(g)
    BY <1>1, <2>1 DEF WorkerState, Sound
  <2>3. goroutine' = [goroutine EXCEPT ![w] = g]
    BY <2>1 DEF Learn
  <2> HIDE DEF g
  <2> QED
    BY <2>2, <2>3, MoveOK
<1> QED
  BY <1>2, <1>3, <1>4, <1>5, <1>6, <1>7

\* What a worker may do with the block it asked for.
LEMMA FoundOK ==
    ASSUME WorkersOK, NEW w \in Workers, goroutine[w].block \in Blocks,
           NEW found \in Blocks \cup {NoBlock}, Found(w, found)
    PROVE  WorkersOK' /\ Workers' = Workers
<1> DEFINE g == goroutine[w]
<1>1. g.fork \in Nat /\ g.idx \in Nat
  BY DEF WorkersOK, WorkerState
<1>2. {"apply", "size", "check", "rollback"} \subseteq Places \ SlotPlaces
  BY DEF Places, SlotPlaces
<1>3. CASE LatestIs(w, found)
  <2>1. Goto(w, "apply") \/ (found # NoBlock /\ Learn(w, "size", "prev", found))
    BY <1>3 DEF LatestIs
  <2> QED
    BY <1>2, <2>1, GotoOK, LearnOK
<1>4. CASE ScanMeets(w, found)
  <2>1. \/ Return(w)
        \/ g.idx # 0 /\ Learn(w, "check", "idx", g.idx - 1)
        \/ found # NoBlock /\ Learn(w, "size", "fork", found.number)
    BY <1>4 DEF ScanMeets
  <2>2. (g.idx # 0 => g.idx - 1 \in Nat) /\ (found # NoBlock => found.number \in Nat)
    BY <1>1, BlocksAssumption
  <2> QED
    BY <1>2, <2>1, <2>2, ReturnOK, LearnOK
<1>5. CASE TipIs(w, found)
  <2>1. RecordedDepth(found, g.fork) \in Int
    BY <1>1, BlocksAssumption DEF RecordedDepth
  <2> QED
    BY <1>2, <1>5, <2>1, LearnOK DEF TipIs
<1> QED
  BY <1>3, <1>4, <1>5 DEF Found

\* What a step of a worker does outside the core: the steps that read.
LEMMA ReadingStep ==
    ASSUME PipeInv, NEW w \in Workers,
           ReadSize(w) \/ CheckBound(w) \/ ReadIndex(w) \/ Position(w) \/ ReadSlot(w)
    PROVE  WorkersOK' /\ Workers' = Workers
<1> DEFINE g == goroutine[w]
           rb == ringBuffer
<1>1. WorkersOK /\ rb \in RingType /\ g \in WorkerState /\ Sound(g)
  BY DEF PipeInv, WorkersOK
<1>2. /\ g.idx \in Nat /\ g.size \in Nat /\ g.reg \in Nat
      /\ rb.index \in 0 .. MaxReorgDepth - 1 /\ rb.size \in Nat
      /\ rb.index \in Nat /\ MaxReorgDepth \in Nat \ {0}
  BY <1>1, DepthAssumption DEF WorkerState, RingType
<1>3. g.block \in Blocks
  BY <1>1 DEF Sound, ReadSize, CheckBound, ReadIndex, Position, ReadSlot, At
<1>4. {"check", "index", "position"} \subseteq Places \ SlotPlaces /\ "slot" \in Places
  BY DEF Places, SlotPlaces
<1>5. CASE ReadSize(w)
  <2>1. \/ rb.size > 0 /\ Learn(w, "check", "idx", rb.size - 1)
        \/ Return(w) \/ Found(w, NoBlock)
    BY <1>5 DEF ReadSize
  <2>2. rb.size > 0 => rb.size - 1 \in Nat
    BY <1>2
  <2> QED
    BY <1>1, <1>3, <1>4, <2>1, <2>2, ReturnOK, LearnOK, FoundOK
<1>6. CASE CheckBound(w)
  <2>1. Found(w, NoBlock) \/ Learn(w, "index", "size", rb.size)
    BY <1>6 DEF CheckBound
  <2> QED
    BY <1>1, <1>2, <1>3, <1>4, <2>1, LearnOK, FoundOK
<1>7. CASE ReadIndex(w)
  <2>1. Learn(w, "position", "reg", rb.index)
    BY <1>7 DEF ReadIndex
  <2> QED
    BY <1>1, <1>2, <1>3, <1>4, <2>1, LearnOK
<1>8. CASE Position(w)
  <2>1. PICK n \in {g.size, rb.size} :
           LET slot == Slot([index |-> g.reg, size |-> n], g.idx)
           IN  IF g.reg - n + g.idx + MaxReorgDepth < 0 /\ slot # 0 THEN Return(w)
               ELSE Learn(w, "slot", "reg", slot)
    BY <1>8 DEF Position
  <2> DEFINE slot == Slot([index |-> g.reg, size |-> n], g.idx)
  <2>2. g.reg - n + g.idx + MaxReorgDepth \in Int
    BY <1>2
  <2>3. slot = (g.reg - n + g.idx + MaxReorgDepth) % MaxReorgDepth
    BY DEF Slot
  <2>4. slot \in 0 .. MaxReorgDepth - 1 /\ slot \in Nat
    BY <1>2, <2>2, <2>3
  <2>5. Return(w) \/ Learn(w, "slot", "reg", slot)
    BY <2>1
  <2> HIDE DEF slot
  <2> QED
    BY <1>1, <1>3, <1>4, <2>4, <2>5, ReturnOK, LearnOK
<1>9. CASE ReadSlot(w)
  <2>1. g.reg \in 0 .. MaxReorgDepth - 1 /\ Found(w, rb.blocks[g.reg])
    BY <1>1, <1>9 DEF ReadSlot, At, Sound, SlotPlaces
  <2>2. rb.blocks[g.reg] \in Blocks \cup {NoBlock}
    BY <1>1, <2>1 DEF RingType
  <2> QED
    BY <1>1, <1>3, <2>1, <2>2, FoundOK
<1> QED
  BY <1>5, <1>6, <1>7, <1>8, <1>9

\* The steps that change the buffer, and the ones between them.
LEMMA StoringStep ==
    ASSUME PipeInv, NEW w \in Workers,
           \/ TruncateCheck(w) \/ TruncateAll(w) \/ TruncateSize(w) \/ TruncateIndex(w)
           \/ AddLoad(w) \/ AddSlot(w) \/ AddNext(w) \/ AddIndex(w)
           \/ AddCheck(w) \/ AddGrow(w) \/ AddSize(w)
    PROVE  ringBuffer' \in RingType /\ WorkersOK' /\ Workers' = Workers
<1> DEFINE g == goroutine[w]
           rb == ringBuffer
<1>1. WorkersOK /\ rb \in RingType /\ g \in WorkerState /\ Sound(g)
  BY DEF PipeInv, WorkersOK
<1>2. /\ g.fork \in Nat /\ g.reg \in Nat
      /\ rb.index \in 0 .. MaxReorgDepth - 1 /\ rb.size \in Nat
      /\ rb.index \in Nat /\ MaxReorgDepth \in Nat \ {0}
  BY <1>1, DepthAssumption DEF WorkerState, RingType
<1>3. g.block \in Blocks
  BY <1>1 DEF Sound, TruncateCheck, TruncateAll, TruncateSize, TruncateIndex, AddLoad, AddSlot, AddNext,
     AddIndex, AddCheck, AddGrow, AddSize, At
<1>4. /\ {"truncateAll", "truncateSize", "truncateIndex", "add", "addNext", "addIndex", "addCheck",
          "addGrow", "addSize", "record"} \subseteq Places \ SlotPlaces
      /\ "addSlot" \in Places
  BY DEF Places, SlotPlaces
<1>5. CASE TruncateCheck(w) \/ TruncateAll(w)
  <2>1. /\ UNCHANGED ringBuffer
        /\ \/ Goto(w, "truncateAll") \/ Learn(w, "truncateSize", "reg", g.fork)
           \/ Learn(w, "truncateSize", "reg", rb.size)
    BY <1>5 DEF TruncateCheck, TruncateAll, Loads, shared
  <2> QED
    BY <1>1, <1>2, <1>3, <1>4, <2>1, GotoOK, LearnOK
<1>6. CASE TruncateSize(w)
  <2>1. Goto(w, "truncateIndex") /\ ringBuffer' = [ringBuffer EXCEPT !.size = g.reg]
    BY <1>6 DEF TruncateSize
  <2>2. ringBuffer' \in RingType
    BY <1>1, <1>2, <2>1 DEF RingType
  <2> QED
    BY <1>1, <1>3, <1>4, <2>1, <2>2, GotoOK
<1>7. CASE TruncateIndex(w)
  <2>1. Goto(w, "add") /\ ringBuffer' = [ringBuffer EXCEPT !.index = g.reg % MaxReorgDepth]
    BY <1>7 DEF TruncateIndex
  <2>2. g.reg % MaxReorgDepth \in 0 .. MaxReorgDepth - 1
    BY <1>2
  <2>3. ringBuffer' \in RingType
    BY <1>1, <2>1, <2>2 DEF RingType
  <2> QED
    BY <1>1, <1>3, <1>4, <2>1, <2>3, GotoOK
<1>8. CASE AddLoad(w)
  <2>1. Learn(w, "addSlot", "reg", rb.index) /\ UNCHANGED ringBuffer
    BY <1>8 DEF AddLoad, Loads, shared
  <2> QED
    BY <1>1, <1>2, <1>3, <1>4, <2>1, LearnOK
<1>9. CASE AddSlot(w)
  <2>1. /\ Goto(w, "addNext") /\ ringBuffer' = [ringBuffer EXCEPT !.blocks[g.reg] = g.block]
        /\ g.reg \in 0 .. MaxReorgDepth - 1
    BY <1>1, <1>9 DEF AddSlot, At, Sound, SlotPlaces
  <2>2. ringBuffer' \in RingType
    BY <1>1, <1>3, <2>1 DEF RingType
  <2> QED
    BY <1>1, <1>3, <1>4, <2>1, <2>2, GotoOK
<1>10. CASE AddNext(w)
  <2>1. UNCHANGED ringBuffer /\ \E i \in {g.reg, rb.index} : Learn(w, "addIndex", "reg", i)
    BY <1>10 DEF AddNext, Loads, shared
  <2> QED
    BY <1>1, <1>2, <1>3, <1>4, <2>1, LearnOK
<1>11. CASE AddIndex(w)
  <2>1. Goto(w, "addCheck") /\ ringBuffer' = [ringBuffer EXCEPT !.index = (g.reg + 1) % MaxReorgDepth]
    BY <1>11 DEF AddIndex
  <2>2. (g.reg + 1) % MaxReorgDepth \in 0 .. MaxReorgDepth - 1
    BY <1>2
  <2>3. ringBuffer' \in RingType
    BY <1>1, <2>1, <2>2 DEF RingType
  <2> QED
    BY <1>1, <1>3, <1>4, <2>1, <2>3, GotoOK
<1>12. CASE AddCheck(w) \/ AddGrow(w)
  <2>1. /\ UNCHANGED ringBuffer
        /\ \/ Goto(w, "addGrow") \/ Return(w) \/ Goto(w, "record")
           \/ Learn(w, "addSize", "reg", rb.size)
    BY <1>12 DEF AddCheck, AddGrow, Added, Loads, shared
  <2> QED
    BY <1>1, <1>2, <1>3, <1>4, <2>1, GotoOK, ReturnOK, LearnOK
<1>13. CASE AddSize(w)
  <2>1. /\ Return(w) \/ Goto(w, "record")
        /\ ringBuffer' = [ringBuffer EXCEPT !.size = g.reg + 1]
    BY <1>13 DEF AddSize, Added
  <2>2. g.reg + 1 \in Nat
    BY <1>2
  <2>3. ringBuffer' \in RingType
    BY <1>1, <2>1, <2>2 DEF RingType
  <2> QED
    BY <1>1, <1>3, <1>4, <2>1, <2>3, GotoOK, ReturnOK
<1> QED
  BY <1>5, <1>6, <1>7, <1>8, <1>9, <1>10, <1>11, <1>12, <1>13

\* What each kind of step leaves alone.
LEMMA StepFrame ==
    ASSUME NEW w \in Workers, Step(w)
    PROVE  /\ ~Take(w) => inbox' = inbox /\ goroutine[w].pc # "idle"
           /\ ~Record(w) => reorgEvents' = reorgEvents
           /\ ~Apply(w) /\ ~Rollback(w) => UNCHANGED <<ffi, chain, replayed>>
BY DEF Step, Take, ReadSize, CheckBound, ReadIndex, Position, ReadSlot, Rollback, Apply, TruncateCheck,
   TruncateAll, TruncateSize, TruncateIndex, AddLoad, AddSlot, AddNext, AddIndex, AddCheck, AddGrow,
   AddSize, Record, Loads, Stores, At, shared

\* What a step of a worker does outside the core.
LEMMA WorkerStep ==
    ASSUME PipeInv, NEW w \in Workers, Step(w)
    PROVE  /\ ringBuffer' \in RingType /\ inbox' \in Seq(Blocks)
           /\ WorkersOK' /\ Workers' = Workers
<1> DEFINE g == goroutine[w]
<1>1. /\ WorkersOK /\ ringBuffer \in RingType /\ inbox \in Seq(Blocks) /\ Sound(g)
  BY DEF PipeInv, WorkersOK
<1>2. {"replay", "add", "truncate"} \subseteq Places \ SlotPlaces
  BY DEF Places, SlotPlaces
<1>3. CASE Take(w)
  <2>1. /\ inbox # <<>> /\ inbox' = Tail(inbox) /\ Learn(w, "size", "block", Head(inbox))
        /\ UNCHANGED ringBuffer
    BY <1>3 DEF Take, shared
  <2>2. Head(inbox) \in Blocks /\ inbox' \in Seq(Blocks)
    BY <1>1, <2>1, HeadTailProperties
  <2> QED
    BY <1>1, <2>1, <2>2, TakeOK
<1>4. CASE ReadSize(w) \/ CheckBound(w) \/ ReadIndex(w) \/ Position(w) \/ ReadSlot(w)
  <2>1. UNCHANGED <<inbox, ringBuffer>>
    BY <1>4 DEF ReadSize, CheckBound, ReadIndex, Position, ReadSlot, Loads, shared
  <2> QED
    BY <1>1, <1>4, <2>1, ReadingStep
<1>5. CASE Rollback(w) \/ Apply(w)
  <2>1. g.block \in Blocks
    BY <1>1, <1>5 DEF Rollback, Apply, At, Sound
  <2>2. /\ Return(w) \/ Goto(w, "replay") \/ Goto(w, "add") \/ Goto(w, "truncate")
        /\ UNCHANGED <<inbox, ringBuffer>>
    BY <1>5 DEF Rollback, Apply
  <2> QED
    BY <1>1, <1>2, <2>1, <2>2, ReturnOK, GotoOK
<1>6. CASE Record(w)
  <2>1. Return(w) /\ UNCHANGED <<inbox, ringBuffer>>
    BY <1>6 DEF Record
  <2> QED
    BY <1>1, <2>1, ReturnOK
<1>7. CASE ~Take(w) /\ ~(ReadSize(w) \/ CheckBound(w) \/ ReadIndex(w) \/ Position(w) \/ ReadSlot(w))
           /\ ~(Rollback(w) \/ Apply(w)) /\ ~Record(w)
  <2>1. inbox' = inbox
    BY <1>7, StepFrame
  <2> QED
    BY <1>1, <1>7, <2>1, StoringStep DEF Step
<1> QED
  BY <1>3, <1>4, <1>5, <1>6, <1>7

\* What a step of a worker does to the core, seen through each FFI call.
LEMMA CoreStep ==
    ASSUME PipeInv, NEW w \in Workers, Step(w)
    PROVE  /\ CoreOK'
           /\ Len(chain') = Len(chain) => GetStateRoot(ffi)' = GetStateRoot(ffi)
<1>1. /\ WellFormed(ffi) /\ RootsAgree(ffi.engine) /\ ChainShape(chain, replayed)
      /\ ffi.engine.block_number = Len(chain) /\ Len(chain) \in Nat
  BY LenProperties DEF PipeInv, CoreOK, ChainShape
<1>2. CASE UNCHANGED <<ffi, chain, replayed>>
  BY <1>1, <1>2 DEF CoreOK, GetStateRoot
<1>3. CASE Apply(w)
  <2> DEFINE b == goroutine[w].block
             r == ApplyBlock(ffi, b)
             s == Execute(Now!ReplayedState(Len(chain)), b).state
  <2>1. b \in Blocks
    BY <1>3 DEF Apply, At, PipeInv, WorkersOK, Sound
  <2>2. /\ ffi' = r.ffi
        /\ r.ok => chain' = Append(chain, b) /\ replayed' = Append(replayed, s)
        /\ ~r.ok => UNCHANGED <<chain, replayed>>
    BY <1>3 DEF Apply, Accepted
  <2> HIDE DEF b, s
  <2>3. /\ WellFormed(r.ffi)
        /\ r.ok => b.number = Len(chain) + 1 /\ r.ffi.engine.block_number = Len(chain) + 1
        /\ ~r.ok => r.ffi.engine.block_number = Len(chain)
    BY <1>1, <2>1, ApplyBlockWellFormed
  <2>4. RootsAgree(r.ffi.engine) /\ (~r.ok => r.ffi.engine.state_root = ffi.engine.state_root)
    BY <1>1, <2>1, ApplyBlockRoots
  <2> HIDE DEF r
  <2>5. CASE r.ok
    <3>1. ChainShape(chain', replayed') /\ Grown(chain, replayed, chain', replayed', b, s)
      BY <1>1, <2>1, <2>2, <2>3, <2>5, GrowChain
    <3>2. Len(chain') = Len(chain) + 1
      BY <3>1 DEF Grown
    <3> QED
      BY <1>1, <2>2, <2>3, <2>4, <2>5, <3>1, <3>2 DEF CoreOK
  <2>6. CASE ~r.ok
    BY <1>1, <2>2, <2>3, <2>4, <2>6 DEF CoreOK, GetStateRoot
  <2> QED
    BY <2>5, <2>6
<1>4. CASE Rollback(w)
  <2> DEFINE n == goroutine[w].fork
             r == RollbackTo(ffi, n)
  <2>1. /\ ffi' = r.ffi
        /\ r.ok => chain' = SubSeq(chain, 1, n) /\ replayed' = SubSeq(replayed, 1, n)
        /\ ~r.ok => UNCHANGED <<chain, replayed>>
    BY <1>4 DEF Rollback, RolledBack
  <2> HIDE DEF n
  <2>2. /\ WellFormed(r.ffi)
        /\ r.ok => n \in 0 .. Len(chain) /\ r.ffi.engine.block_number = n
        /\ ~r.ok => r.ffi.engine.block_number = Len(chain)
    BY <1>1, RollbackWellFormed
  <2>3. /\ RootsAgree(r.ffi.engine)
        /\ n = Len(chain) \/ ~r.ok => r.ffi.engine.state_root = ffi.engine.state_root
    BY <1>1, RollbackRoots
  <2> HIDE DEF r
  <2>4. CASE r.ok
    <3>1. ChainShape(chain', replayed') /\ Len(chain') = n
      <4>1. n \in 0 .. Len(chain)
        BY <2>2, <2>4
      <4>2. /\ ChainShape(SubSeq(chain, 1, n), SubSeq(replayed, 1, n))
            /\ Len(SubSeq(chain, 1, n)) = n
        BY <1>1, <4>1, CutChain
      <4> QED
        BY <2>1, <2>4, <4>2
    <3> QED
      BY <1>1, <2>1, <2>2, <2>3, <2>4, <3>1 DEF CoreOK, GetStateRoot
  <2>5. CASE ~r.ok
    BY <1>1, <2>1, <2>2, <2>3, <2>5 DEF CoreOK, GetStateRoot
  <2> QED
    BY <2>4, <2>5
<1> QED
  BY <1>2, <1>3, <1>4, StepFrame

\* What the reader knows when a worker has moved.
LEMMA QueryStep ==
    ASSUME PipeInv, NEW w \in Workers, Step(w),
           query' = IF query.pc = "stats" /\ Len(chain') < Len(chain)
                    THEN [query EXCEPT !.rolledBack = TRUE] ELSE query
    PROVE  QueryOK'
<1>1. /\ Len(chain) \in Nat /\ Len(chain') \in Nat
      /\ Len(chain') = Len(chain) => GetStateRoot(ffi)' = GetStateRoot(ffi)
  BY CoreStep, LenProperties DEF PipeInv, CoreOK, ChainShape
<1>2. QueryOK
  BY DEF PipeInv
<1>3. CASE query.pc = "stats" /\ Len(chain') < Len(chain)
  <2>1. IsQuery(query) /\ query.height \in Nat
    BY <1>2, <1>3 DEF QueryOK, NotAsked
  <2>2. /\ query'.pc = "stats" /\ query'.rolledBack = TRUE /\ query'.height = query.height
        /\ IsQuery(query')
    BY <1>3, <2>1 DEF IsQuery
  <2> QED
    BY <2>1, <2>2 DEF QueryOK
<1>4. CASE ~(query.pc = "stats" /\ Len(chain') < Len(chain))
  <2>1. query' = query
    BY <1>4
  <2>2. ASSUME query.pc = "stats", ~query.rolledBack
        PROVE  /\ query.height <= Len(chain')
               /\ query.height = Len(chain') => query.root = GetStateRoot(ffi)'
    <3>1. /\ query.height \in Nat /\ query.height <= Len(chain)
          /\ query.height = Len(chain) => query.root = GetStateRoot(ffi)
      BY <1>2, <2>2 DEF QueryOK
    <3>2. Len(chain') >= Len(chain)
      BY <1>1, <1>4, <2>2
    <3> QED
      BY <1>1, <3>1, <3>2
  <2> QED
    BY <1>2, <2>1, <2>2 DEF QueryOK
<1> QED
  BY <1>3, <1>4

LEMMA ReadStep ==
    ASSUME PipeInv, ReadState
    PROVE  PipeInv'
<1>1. UNCHANGED <<inbox, goroutine, ringBuffer, ffi, chain, replayed>>
  BY DEF ReadState, shared
<1>2. Len(chain) \in Nat
  BY LenProperties DEF PipeInv, CoreOK, ChainShape
<1>3. QueryOK'
  <2>1. CASE query.pc = "root"
    <3>1. IsQuery(query)
      BY <2>1 DEF PipeInv, QueryOK, NotAsked
    <3>2. query' = [query EXCEPT !.pc = "stats", !.root = GetStateRoot(ffi), !.height = Len(chain)]
      BY <2>1 DEF ReadState
    <3>3. /\ IsQuery(query') /\ query'.height = Len(chain) /\ query'.root = GetStateRoot(ffi)
          /\ query'.rolledBack = query.rolledBack
      BY <3>1, <3>2 DEF IsQuery
    <3> QED
      BY <1>1, <1>2, <3>3 DEF QueryOK, GetStateRoot
  <2>2. CASE query.pc # "root"
    <3>1. query.pc = "stats"
          /\ query' = [query EXCEPT !.pc = "answered", !.number = GetStats(ffi).BlockNumber]
      BY <2>2 DEF ReadState
    <3>2. IsQuery(query)
      BY <3>1 DEF PipeInv, QueryOK, NotAsked
    <3>3. IsQuery(query') /\ query'.pc = "answered"
      BY <3>1, <3>2 DEF IsQuery
    <3> QED
      BY <3>3 DEF QueryOK
  <2> QED
    BY <2>1, <2>2
<1>4. WorkersOK' /\ CoreOK'
  BY <1>1 DEF PipeInv, WorkersOK, Workers, CoreOK
<1> QED
  BY <1>1, <1>3, <1>4 DEF PipeInv

LEMMA NextPipe == PipeInv /\ [Next]_vars => PipeInv'
<1> SUFFICES ASSUME PipeInv, [Next]_vars PROVE PipeInv'
  OBVIOUS
<1>1. ASSUME NEW w \in Workers, Step(w),
             query' = IF query.pc = "stats" /\ Len(chain') < Len(chain)
                      THEN [query EXCEPT !.rolledBack = TRUE] ELSE query
      PROVE  PipeInv'
  BY <1>1, WorkerStep, CoreStep, QueryStep DEF PipeInv
<1>2. CASE UNCHANGED vars
  BY <1>2 DEF vars, shared, PipeInv, WorkersOK, Workers, CoreOK, QueryOK, GetStateRoot
<1> QED
  BY <1>1, <1>2, ReadStep DEF Next

LEMMA PipeInvCorrect == Spec => []PipeInv
BY InitPipe, NextPipe, PTL DEF Spec

(***************************************************************************)
(* The variables of the engine, of the channel and of the workers keep     *)
(* their types, although no lock covers the ring buffer: whatever loads    *)
(* and stores of Add and Truncate interleave, the index stays a slot, so   *)
(* that the store of a block the core has executed cannot panic.  The size *)
(* is only known to be a number: it may come to exceed the buffer.         *)
(***************************************************************************)
THEOREM PipelineTypeCorrect == Spec => []TypeOK
BY PipeInvCorrect, PipeInvImplies, PTL

(***************************************************************************)
(* FFI.lastBlockNumber and StateEngine.block_number agree and count the    *)
(* accepted blocks, for every pool: a rollback of one worker and the calls *)
(* of another may come in any order.                                       *)
(***************************************************************************)
THEOREM PipelineMirrorCorrect == Spec => []Mirror
BY PipeInvCorrect, PipeInvImplies, PTL

(***************************************************************************)
(* The snapshots of the core are bounded, contiguous and end at the tip,   *)
(* for every pool.                                                         *)
(***************************************************************************)
THEOREM PipelineHistoryCorrect == Spec => []HistoryShape
BY PipeInvCorrect, PipeInvImplies, PTL

(***************************************************************************)
(* get_state_root and its like ask for the root and then for the number,   *)
(* in two FFI calls: without a rollback in between, the number is not      *)
(* behind the root, and if they are of the same height the root is that    *)
(* block's.                                                                *)
(***************************************************************************)
THEOREM RootNotAheadCorrect == Spec => RootNotAhead
<1>1. ASSUME PipeInv, [Next]_vars
      PROVE  [query.pc = "stats" /\ query'.pc = "answered" /\ ~query.rolledBack =>
                 \/ query'.number > query'.height
                 \/ query'.number = query'.height /\ query'.root = GetStateRoot(ffi)]_vars
  <2> SUFFICES ASSUME query.pc = "stats", query'.pc = "answered", ~query.rolledBack, Next
               PROVE  \/ query'.number > query'.height
                      \/ query'.number = query'.height /\ query'.root = GetStateRoot(ffi)
    BY <1>1
  <2>1. IsQuery(query) /\ query.height \in Nat /\ query.height <= Len(chain)
        /\ (query.height = Len(chain) => query.root = GetStateRoot(ffi))
    BY <1>1 DEF PipeInv, QueryOK, NotAsked
  <2>2. ReadState
    <3>1. IsQuery(query) => [query EXCEPT !.rolledBack = TRUE].pc = query.pc
      BY DEF IsQuery
    <3> QED
      BY <2>1, <3>1 DEF Next
  <2>3. query' = [query EXCEPT !.pc = "answered", !.number = GetStats(ffi).BlockNumber]
    BY <2>2 DEF ReadState
  <2>4. GetStats(ffi).BlockNumber = Len(chain) /\ Len(chain) \in Nat
    BY <1>1, LenProperties DEF PipeInv, CoreOK, ChainShape, GetStats
  <2>5. query'.number = Len(chain) /\ query'.height = query.height /\ query'.root = query.root
    BY <2>1, <2>3, <2>4 DEF IsQuery
  <2> QED
    BY <2>1, <2>4, <2>5
<1> QED
  BY <1>1, PipeInvCorrect, PTL DEF Spec, RootNotAhead
-------------------------------------------------------------------------------
(***************************************************************************)
(* The accounts, for every pool, if failing blocks leave no trace.         *)
(***************************************************************************)
StatesInv(S) == StatesIn(ffi.engine, S)

LEMMA NextStates ==
    ASSUME NEW S, Closed(S)
    PROVE  PipeInv /\ StatesInv(S) /\ [Next]_vars => StatesInv(S)'
<1> SUFFICES ASSUME PipeInv, StatesInv(S), [Next]_vars PROVE StatesInv(S)'
  OBVIOUS
<1>1. WellFormed(ffi) /\ StatesIn(ffi.engine, S)
  BY DEF PipeInv, CoreOK, StatesInv
<1>2. CASE UNCHANGED ffi
  BY <1>1, <1>2 DEF StatesInv
<1>3. ASSUME NEW w \in Workers, Apply(w) PROVE StatesInv(S)'
  <2> DEFINE b == goroutine[w].block
  <2>1. b \in Blocks
    BY <1>3 DEF Apply, At, PipeInv, WorkersOK, Sound
  <2>2. ffi' = ApplyBlock(ffi, b).ffi
    BY <1>3 DEF Apply
  <2> HIDE DEF b
  <2> QED
    BY <1>1, <2>1, <2>2, ApplyBlockStates DEF StatesInv
<1>4. ASSUME NEW w \in Workers, Rollback(w) PROVE StatesInv(S)'
  <2>1. ffi' = RollbackTo(ffi, goroutine[w].fork).ffi
    BY <1>4 DEF Rollback
  <2> QED
    BY <1>1, <2>1, RollbackStates DEF StatesInv
<1> QED
  BY <1>2, <1>3, <1>4, StepFrame DEF Next, ReadState, shared, vars

ReplayInv == AllMatch(ffi.engine, replayed)

LEMMA NextReplay ==
    ASSUME NEW S, FailuresLeaveNoTrace(S)
    PROVE  PipeInv /\ StatesInv(S) /\ ReplayInv /\ [Next]_vars => ReplayInv'
<1> SUFFICES ASSUME PipeInv, StatesInv(S), ReplayInv, [Next]_vars PROVE ReplayInv'
  OBVIOUS
<1>s. ffi.engine.state \in S
  BY DEF StatesInv, StatesIn
<1>1. /\ WellFormed(ffi) /\ ChainShape(chain, replayed) /\ AllMatch(ffi.engine, replayed)
      /\ ffi.engine.block_number = Len(chain) /\ Len(chain) \in Nat
  BY LenProperties DEF PipeInv, CoreOK, ChainShape, ReplayInv
<1>2. CASE UNCHANGED <<ffi, replayed>>
  BY <1>1, <1>2 DEF ReplayInv
<1>3. ASSUME NEW w \in Workers, Apply(w) PROVE ReplayInv'
  <2> DEFINE b == goroutine[w].block
             r == ApplyBlock(ffi, b)
             s == Execute(Now!ReplayedState(Len(chain)), b).state
  <2>1. b \in Blocks
    BY <1>3 DEF Apply, At, PipeInv, WorkersOK, Sound
  <2>2. /\ ffi' = r.ffi
        /\ r.ok => replayed' = Append(replayed, s)
        /\ ~r.ok => UNCHANGED replayed
    BY <1>3 DEF Apply, Accepted
  <2>3. ffi.engine.state = Now!ReplayedState(Len(chain))
    BY <1>1 DEF AllMatch, Matches, Now!ReplayedState
  <2>4. s = Execute(ffi.engine.state, b).state
    BY <2>3
  <2> HIDE DEF b, s
  <2>5. r.ok => b.number = Len(chain) + 1
    BY <1>1, <2>1, ApplyBlockWellFormed
  <2>6. /\ \A i \in 1 .. Len(chain) : replayed'[i] = replayed[i]
        /\ r.ok => replayed'[Len(chain) + 1] = Execute(ffi.engine.state, b).state
    <3> HIDE DEF r
    <3>1. CASE r.ok
      <4>1. Grown(chain, replayed, Append(chain, b), Append(replayed, s), b, s)
        BY <1>1, <2>1, <2>5, <3>1, GrowChain
      <4>2. Grown(chain, replayed, Append(chain, b), replayed', b, s)
        BY <2>2, <3>1, <4>1
      <4> QED
        BY <2>4, <4>2 DEF Grown
    <3>2. CASE ~r.ok
      BY <2>2, <3>2
    <3> QED
      BY <3>1, <3>2
  <2>7. AllMatch(r.ffi.engine, replayed')
    <3>1. /\ \A i \in 1 .. ffi.engine.block_number : replayed'[i] = replayed[i]
          /\ r.ok => replayed'[ffi.engine.block_number + 1] = Execute(ffi.engine.state, b).state
      BY <1>1, <2>6
    <3>2. WellFormed(ffi) /\ AllMatch(ffi.engine, replayed)
      BY <1>1
    <3> QED
      BY <1>s, <2>1, <3>1, <3>2, ApplyBlockMatches
  <2> QED
    BY <2>2, <2>7 DEF ReplayInv
<1>4. ASSUME NEW w \in Workers, Rollback(w) PROVE ReplayInv'
  <2> DEFINE n == goroutine[w].fork
             r == RollbackTo(ffi, n)
  <2>1. /\ ffi' = r.ffi
        /\ r.ok => replayed' = SubSeq(replayed, 1, n)
        /\ ~r.ok => UNCHANGED replayed
    BY <1>4 DEF Rollback, RolledBack
  <2> HIDE DEF n
  <2>2. /\ WellFormed(r.ffi)
        /\ r.ok => n \in 0 .. Len(chain) /\ r.ffi.engine.block_number = n
    BY <1>1, RollbackWellFormed
  <2>3. AllMatch(r.ffi.engine, replayed)
    BY <1>1, RollbackMatches
  <2> HIDE DEF r
  <2>4. CASE r.ok
    <3>1. n \in 0 .. Len(chain) /\ r.ffi.engine.block_number = n
      BY <2>2, <2>4
    <3>2. \A i \in 1 .. n : SubSeq(replayed, 1, n)[i] = replayed[i]
      BY <1>1, <3>1, CutChain
    <3>3. \A i \in 1 .. r.ffi.engine.block_number : replayed'[i] = replayed[i]
      BY <2>1, <2>4, <3>1, <3>2
    <3>4. ASSUME NEW f, f = r.ffi PROVE AllMatch(f.engine, replayed')
      <4>1. WellFormed(f) /\ AllMatch(f.engine, replayed)
        BY <2>2, <2>3, <3>4
      <4>2. \A i \in 1 .. f.engine.block_number : replayed'[i] = replayed[i]
        BY <3>3, <3>4
      <4> QED
        BY <4>1, <4>2, MatchPrefix
    <3> QED
      BY <2>1, <3>4 DEF ReplayInv
  <2>5. CASE ~r.ok
    BY <2>1, <2>3, <2>5 DEF ReplayInv
  <2> QED
    BY <2>4, <2>5
<1> QED
  BY <1>2, <1>3, <1>4, StepFrame DEF Next, ReadState, shared, vars

(***************************************************************************)
(* However many workers there are and however they interleave, the core's  *)
(* accounts are those of a node that executed the accepted chain from      *)
(* genesis, if no failing block leaves a trace in the account maps there   *)
(* are.                                                                    *)
(***************************************************************************)
THEOREM PipelineStateCorrect ==
    ASSUME NEW S, FailuresLeaveNoTrace(S)
    PROVE  Spec => []StateIsReplay
<1>1. /\ PipeInv /\ StatesInv(S) /\ [Next]_vars => StatesInv(S)'
      /\ PipeInv /\ StatesInv(S) /\ ReplayInv /\ [Next]_vars => ReplayInv'
  BY NextStates, NextReplay DEF FailuresLeaveNoTrace
<1>2. Init => StatesInv(S) /\ ReplayInv
  <2>1. /\ NewFFI.engine.block_number = 0 /\ NewFFI.engine.state = Genesis
        /\ NewFFI.engine.history = <<>> /\ DOMAIN <<>> = {}
    BY DEF NewFFI, NewEngine
  <2>2. AllMatch(NewFFI.engine, <<>>)
    BY <2>1 DEF AllMatch, Matches
  <2>3. StatesIn(NewFFI.engine, S)
    BY NewFFIStates DEF FailuresLeaveNoTrace
  <2> QED
    BY <2>2, <2>3, NowOperators DEF Init, Now!Init, ReplayInv, StatesInv
<1>3. PipeInv /\ ReplayInv => StateIsReplay
  BY DEF PipeInv, CoreOK, ReplayInv, AllMatch, Matches, StateIsReplay, Now!StateIsReplay,
     Now!ReplayedState, Now!Engine
<1> QED
  BY InitPipe, NextPipe, <1>1, <1>2, <1>3, PTL DEF Spec
-------------------------------------------------------------------------------
(***************************************************************************)
(* A pool of one worker implements ReorgEngine.  For every place of a      *)
(* worker g in ProcessBlock, Solo says what it has learnt and done: what   *)
(* the engine s is now, in terms of the block and of the engine o when the *)
(* block was taken, and so how much of ReorgEngine's single step is done.  *)
(***************************************************************************)
\* DetectReorg has returned a fork point; the tip was read; the core went back.
ForkFound(o, g) ==
    /\ DetectReorg(o.ringBuffer, g.block).outcome = "reorg"
    /\ DetectReorg(o.ringBuffer, g.block).fork = g.fork
    /\ g.fork # 0
TipKnown(o, g) == g.depth = RecordedDepth(Latest(o.ringBuffer), g.fork)
RollbackDone(o, g) == RollbackTo(o.ffi, g.fork).ok

\* What the block is applied to: core, chain and buffer as they were or, in
\* HandleReorg, as the rollback and Truncate leave them.
CoreBase(o, g) == IF g.fork = 0 THEN o.ffi ELSE RollbackTo(o.ffi, g.fork).ffi
Kept(o, g) == IF g.fork = 0 THEN Len(o.chain) ELSE g.fork
KeptState(o, g) == IF Kept(o, g) = 0 THEN Genesis ELSE o.replayed[Kept(o, g)]
RingBase(o, g) == IF g.fork = 0 THEN o.ringBuffer ELSE Truncate(o.ringBuffer, g.fork)

\* The core has accepted the block; buffer and event are still to follow.
BlockAccepted(o, s, g) ==
    /\ \/ g.fork = 0 /\ DetectReorg(o.ringBuffer, g.block).outcome = "sequential"
       \/ ForkFound(o, g) /\ TipKnown(o, g) /\ RollbackDone(o, g)
    /\ ApplyBlock(CoreBase(o, g), g.block).ok
    /\ s.ffi = ApplyBlock(CoreBase(o, g), g.block).ffi
    /\ s.chain = Append(SubSeq(o.chain, 1, Kept(o, g)), g.block)
    /\ s.replayed = Append(SubSeq(o.replayed, 1, Kept(o, g)),
                           Execute(KeptState(o, g), g.block).state)
    /\ s.reorgEvents = o.reorgEvents

RingIs(rb, blocks, index, size) == rb.blocks = blocks /\ rb.index = index /\ rb.size = size

\* It has asked, or asks, for the newest block, for the parent, and once more
\* for the newest block.
Scanning(g) == g.prev # NoBlock /\ g.fork = 0
Sought(o, g) ==
    \/ g.prev = NoBlock /\ g.fork = 0
    \/ Scanning(g) /\ g.prev = Latest(o.ringBuffer) /\ g.block.parent # Hash(g.prev)
    \/ g.prev # NoBlock /\ ForkFound(o, g)

\* The position it asks for: the newest block's or, when it looks for the
\* parent, one above which the parent is not.
Asking(o, g) ==
    /\ g.idx \in 0 .. o.ringBuffer.size - 1
    /\ Scanning(g) => \A i \in ParentPositions(o.ringBuffer, g.block) : i <= g.idx
    /\ ~Scanning(g) => g.idx = o.ringBuffer.size - 1

Solo(o, s, g) ==
    LET base  == RingBase(o, g)
        added == Add(base, g.block)
    IN
    /\ g.pc \in {"idle", "size", "check", "index", "position", "slot", "rollback", "apply"} => s = o
    /\ g.pc = "idle" => g.prev = NoBlock /\ g.fork = 0
    /\ g.pc \in {"size", "check", "index", "position", "slot"} => Sought(o, g)
    /\ g.pc \in {"check", "index", "position", "slot"} => Asking(o, g)
    /\ g.pc \in {"index", "position"} => g.size = o.ringBuffer.size
    /\ g.pc = "position" => g.reg = o.ringBuffer.index
    /\ g.pc = "slot" => g.reg = Slot(o.ringBuffer, g.idx)
    /\ g.pc = "apply" => g.fork = 0 /\ DetectReorg(o.ringBuffer, g.block).outcome = "sequential"
    /\ g.pc \in {"rollback", "replay"} => ForkFound(o, g) /\ TipKnown(o, g)
    /\ g.pc = "replay" =>
          /\ RollbackDone(o, g) /\ s.ffi = CoreBase(o, g)
          /\ s.chain = SubSeq(o.chain, 1, g.fork) /\ s.replayed = SubSeq(o.replayed, 1, g.fork)
          /\ Len(s.chain) = g.fork /\ s.replayed[g.fork] = o.replayed[g.fork]
          /\ s.ringBuffer = o.ringBuffer /\ s.reorgEvents = o.reorgEvents
    /\ g.pc \in {"truncate", "truncateAll", "truncateSize", "truncateIndex", "add", "addSlot",
                 "addNext", "addIndex", "addCheck", "addGrow", "addSize", "record"} =>
          BlockAccepted(o, s, g)
    /\ g.pc \in {"truncate", "truncateAll", "truncateSize", "truncateIndex", "record"} => g.fork # 0
    /\ g.pc \in {"truncate", "truncateAll", "truncateSize"} => s.ringBuffer = o.ringBuffer
    /\ g.pc = "truncateAll" => g.fork > o.ringBuffer.size
    /\ g.pc = "truncateIndex" => s.ringBuffer.blocks = base.blocks /\ s.ringBuffer.size = base.size
    /\ g.pc \in {"truncateSize", "truncateIndex"} => g.reg = base.size
    /\ g.pc \in {"add", "addSlot"} => RingIs(s.ringBuffer, base.blocks, base.index, base.size)
    /\ g.pc \in {"addNext", "addIndex"} => RingIs(s.ringBuffer, added.blocks, base.index, base.size)
    /\ g.pc \in {"addSlot", "addNext", "addIndex"} => g.reg = base.index
    /\ g.pc \in {"addCheck", "addGrow", "addSize"} =>
          RingIs(s.ringBuffer, added.blocks, added.index, base.size)
    /\ g.pc \in {"addGrow", "addSize"} => base.size < MaxReorgDepth
    /\ g.pc = "addSize" => g.reg = base.size
    /\ g.pc = "record" => RingIs(s.ringBuffer, added.blocks, added.index, added.size)

\* The blocks left, the one in hand included, are no more than the reorgs
\* that ReorgEngine still allows.
EventsOK ==
    /\ reorgEvents \in Seq([fork : Nat, depth : Int])
    /\ Len(reorgEvents) + Len(inbox) <= MaxReorgs
    /\ ~Quiet => Len(reorgEvents) + Len(inbox) < MaxReorgs

IsFFI(f) == f = [lastBlockNumber |-> f.lastBlockNumber, engine |-> f.engine]

SoloInv ==
    /\ IsFFI(ffi)
    /\ Alone => /\ EventsOK
                /\ Quiet => before = Shared
                /\ RingOK(before.ringBuffer)
                /\ \A w \in Workers : Solo(before, Shared, goroutine[w])

\* Atomic is ReorgEngine with only its variables replaced.
LEMMA AtomicOperators ==
    /\ Atomic!NewFFI = NewFFI /\ Atomic!NewRingBuffer = NewRingBuffer
    /\ \A rb, b : Atomic!DetectReorg(rb, b) = DetectReorg(rb, b)
    /\ \A rb, b : Atomic!Add(rb, b) = Add(rb, b)
    /\ \A rb, n : Atomic!Truncate(rb, n) = Truncate(rb, n)
    /\ \A rb : Atomic!Latest(rb) = Latest(rb)
    /\ \A rb, n : Atomic!RecordedDepth(rb, n) = RecordedDepth(rb, n)
    /\ \A f, b : Atomic!ApplyBlock(f, b) = ApplyBlock(f, b)
    /\ \A f, n : Atomic!RollbackTo(f, n) = RollbackTo(f, n)
<1>1. Atomic!NewFFI = NewFFI /\ Atomic!NewRingBuffer = NewRingBuffer
  BY DEF Atomic!NewFFI, NewFFI, Atomic!NewEngine, NewEngine, Atomic!ZeroRoot, ZeroRoot,
     Atomic!NewRingBuffer, NewRingBuffer
<1>2. \A rb : Atomic!Latest(rb) = Latest(rb)
  BY DEF Atomic!Latest, Latest, Atomic!Get, Get, Atomic!Slot, Slot
<1>3. \A rb, b : Atomic!DetectReorg(rb, b) = DetectReorg(rb, b)
  <2> TAKE rb, b
  <2>1. /\ Atomic!ParentPositions(rb, b) = ParentPositions(rb, b)
        /\ \A i : Atomic!Get(rb, i) = Get(rb, i)
    BY DEF Atomic!ParentPositions, ParentPositions, Atomic!Hash, Hash, Atomic!Get, Get,
       Atomic!Slot, Slot
  <2>2. Atomic!findForkPoint(rb, b) = findForkPoint(rb, b)
    BY <2>1 DEF Atomic!findForkPoint, findForkPoint
  <2> QED
    BY <1>2, <2>1, <2>2 DEF Atomic!DetectReorg, DetectReorg, Atomic!Hash, Hash
<1>4. /\ \A rb, b : Atomic!Add(rb, b) = Add(rb, b)
      /\ \A rb, n : Atomic!Truncate(rb, n) = Truncate(rb, n)
      /\ \A rb, n : Atomic!RecordedDepth(rb, n) = RecordedDepth(rb, n)
  BY DEF Atomic!Add, Add, Atomic!Truncate, Truncate, Atomic!RecordedDepth, RecordedDepth
<1>5. \A f, b : Atomic!ApplyBlock(f, b) = ApplyBlock(f, b)
  BY DEF Atomic!ApplyBlock, ApplyBlock, Atomic!ValidateBlock, ValidateBlock, Atomic!apply_block,
     apply_block, Atomic!Pushed, Pushed, Atomic!Snapshot, Snapshot,
     Atomic!calculate_state_root, calculate_state_root
<1>6. \A f, n : Atomic!RollbackTo(f, n) = RollbackTo(f, n)
  BY DEF Atomic!RollbackTo, RollbackTo, Atomic!rollback_to, rollback_to, Atomic!HasSnapshot,
     HasSnapshot, Atomic!SnapshotIndex, SnapshotIndex
<1> QED
  BY <1>1, <1>2, <1>3, <1>4, <1>5, <1>6

LEMMA InitSolo == Init => Atomic!Init /\ SoloInv
<1> SUFFICES ASSUME Init PROVE Atomic!Init /\ SoloInv
  OBVIOUS
<1>1. /\ ringBuffer = NewRingBuffer /\ ffi = NewFFI /\ reorgEvents = <<>>
      /\ chain = <<>> /\ replayed = <<>> /\ before = Shared
  BY NowOperators DEF Init, Now!Init
<1>2. Atomic!Init
  BY <1>1, AtomicOperators DEF Atomic!Init, Shared
<1>3. PICK s \in Setups : inbox = s.stream /\ goroutine = [w \in s.pool |-> Idle]
  BY DEF Init
<1>4. ASSUME NEW w \in Workers PROVE goroutine[w] = Idle
  BY <1>3, <1>4 DEF Workers
<1>5. \A w \in Workers : Solo(before, Shared, goroutine[w])
  BY <1>1, <1>4 DEF Solo, Idle
<1>6. EventsOK
  <2>1. inbox \in Seq(Blocks) /\ Len(inbox) <= MaxReorgs /\ Len(inbox) \in Nat /\ Len(reorgEvents) = 0
    BY <1>1, <1>3, SetupsAssumption, LenProperties
  <2>2. Quiet
    BY <1>4 DEF Quiet, Idle
  <2> QED
    BY <1>1, <2>1, <2>2, EmptySeq DEF EventsOK
<1>7. IsFFI(ffi)
  BY <1>1 DEF IsFFI, NewFFI
<1>8. RingOK(before.ringBuffer)
  BY <1>1, NewRingOK DEF Shared
<1> QED
  BY <1>1, <1>2, <1>5, <1>6, <1>7, <1>8 DEF SoloInv

LEMMA OneWorker ==
    ASSUME Alone, NEW w \in Workers, Workers' = Workers
    PROVE  /\ Alone' /\ \A v \in Workers : v = w
           /\ Quiet <=> goroutine[w].pc = "idle"
           /\ Quiet' <=> goroutine'[w].pc = "idle"
BY DEF Alone, Quiet

\* What the three ways to move on leave in the fields of the worker.
LEMMA MoveFields ==
    ASSUME WorkersOK, NEW w \in Workers, NEW p, NEW v
    PROVE  LET g == goroutine[w]
               h == goroutine'[w]
           IN  /\ Return(w) => h.pc = "idle" /\ h.prev = NoBlock /\ h.fork = 0
               /\ Goto(w, p) => /\ h.pc = p /\ h.block = g.block /\ h.prev = g.prev
                                /\ h.fork = g.fork /\ h.depth = g.depth
                                /\ h.idx = g.idx /\ h.size = g.size /\ h.reg = g.reg
               /\ Learn(w, p, "block", v) => /\ h.pc = p /\ h.block = v
                                             /\ h.prev = g.prev /\ h.fork = g.fork
               /\ Learn(w, p, "prev", v) => /\ h.pc = p /\ h.prev = v
                                            /\ h.block = g.block /\ h.fork = g.fork
               /\ Learn(w, p, "fork", v) => /\ h.pc = p /\ h.fork = v
                                            /\ h.block = g.block /\ h.prev = g.prev
               /\ Learn(w, p, "depth", v) => /\ h.pc = p /\ h.depth = v
                                             /\ h.block = g.block /\ h.fork = g.fork
               /\ Learn(w, p, "idx", v) => /\ h.pc = p /\ h.idx = v /\ h.block = g.block
                                           /\ h.prev = g.prev /\ h.fork = g.fork
               /\ Learn(w, p, "size", v) => /\ h.pc = p /\ h.size = v /\ h.block = g.block
                                            /\ h.prev = g.prev /\ h.fork = g.fork /\ h.idx = g.idx
               /\ Learn(w, p, "reg", v) => /\ h.pc = p /\ h.reg = v /\ h.block = g.block
                                           /\ h.prev = g.prev /\ h.fork = g.fork
                                           /\ h.depth = g.depth /\ h.idx = g.idx /\ h.size = g.size
<1>1. goroutine \in [Workers -> WorkerState] /\ goroutine[w] \in WorkerState
  BY DEF WorkersOK
<1>2. Return(w) => /\ goroutine'[w].pc = "idle" /\ goroutine'[w].prev = NoBlock
                   /\ goroutine'[w].fork = 0
  BY <1>1 DEF Return, Idle
<1> QED
  BY <1>1, <1>2 DEF Goto, Learn, WorkerState

LEMMA EventsStep ==
    ASSUME PipeInv, EventsOK, Alone, NEW w \in Workers, Step(w)
    PROVE  EventsOK'
<1> DEFINE Events == [fork : Nat, depth : Int]
<1>1. /\ inbox \in Seq(Blocks) /\ inbox' \in Seq(Blocks) /\ reorgEvents \in Seq(Events)
      /\ Len(inbox) \in Nat /\ Len(inbox') \in Nat /\ Len(reorgEvents) \in Nat /\ MaxReorgs \in Nat
      /\ Workers' = Workers /\ WorkersOK
  BY WorkerStep, LenProperties, SetupsAssumption DEF PipeInv, EventsOK
<1>2. /\ Quiet <=> goroutine[w].pc = "idle"
      /\ Quiet' <=> goroutine'[w].pc = "idle"
  BY <1>1, OneWorker
<1>3. CASE Take(w)
  <2>1. inbox # <<>> /\ inbox' = Tail(inbox) /\ reorgEvents' = reorgEvents /\ Quiet
    BY <1>2, <1>3 DEF Take, shared, At
  <2>2. Len(inbox') = Len(inbox) - 1
    BY <1>1, <2>1, HeadTailProperties
  <2> QED
    BY <1>1, <2>1, <2>2 DEF EventsOK
<1>4. CASE Record(w)
  <2> DEFINE e == [fork |-> goroutine[w].fork, depth |-> goroutine[w].depth]
  <2>1. inbox' = inbox /\ reorgEvents' = Append(reorgEvents, e) /\ ~Quiet /\ Quiet'
    BY <1>1, <1>2, <1>4, MoveFields DEF Record, At
  <2>2. goroutine[w].fork \in Nat /\ goroutine[w].depth \in Int
    BY <1>1 DEF WorkersOK, WorkerState
  <2>3. e \in Events
    BY <2>2
  <2> HIDE DEF e, Events
  <2>4. reorgEvents' \in Seq(Events) /\ Len(reorgEvents') = Len(reorgEvents) + 1
    BY <1>1, <2>1, <2>3, AppendProperties
  <2>5. Len(reorgEvents) + Len(inbox) < MaxReorgs
    BY <2>1 DEF EventsOK
  <2>6. Len(reorgEvents') + Len(inbox') <= MaxReorgs
    BY <1>1, <2>1, <2>4, <2>5
  <2> QED
    BY <2>1, <2>4, <2>6 DEF EventsOK, Events
<1>5. CASE ~Take(w) /\ ~Record(w)
  <2>1. inbox' = inbox /\ reorgEvents' = reorgEvents /\ goroutine[w].pc # "idle"
    BY <1>5, StepFrame
  <2> QED
    BY <1>1, <1>2, <2>1 DEF EventsOK
<1> QED
  BY <1>3, <1>4, <1>5


LEMMA FFIStep ==
    ASSUME IsFFI(ffi), NEW w \in Workers, Step(w)
    PROVE  IsFFI(ffi)'
<1>1. CASE UNCHANGED ffi
  BY <1>1 DEF IsFFI
<1>2. ASSUME NEW b PROVE IsFFI(ApplyBlock(ffi, b).ffi)
  BY DEF IsFFI, ApplyBlock
<1>3. ASSUME NEW n PROVE IsFFI(RollbackTo(ffi, n).ffi)
  BY DEF IsFFI, RollbackTo
<1> QED
  BY <1>1, <1>2, <1>3, StepFrame DEF Rollback, Apply

\* A rollback that fails changes nothing.
LEMMA FailedRollback ==
    ASSUME NEW f, IsFFI(f), NEW n, ~RollbackTo(f, n).ok
    PROVE  RollbackTo(f, n).ffi = f
<1>1. ~rollback_to(f.engine, n).ok
  BY DEF RollbackTo
<1>2. rollback_to(f.engine, n).engine = f.engine
  BY <1>1 DEF rollback_to
<1> QED
  BY <1>1, <1>2 DEF IsFFI, RollbackTo

\* What a worker knows depends on its block, its fork point and its depth.
LEMMA SameBases ==
    ASSUME NEW o, NEW s, NEW t, NEW g, NEW h, h.block = g.block, h.fork = g.fork
    PROVE  /\ CoreBase(o, h) = CoreBase(o, g) /\ Kept(o, h) = Kept(o, g)
           /\ KeptState(o, h) = KeptState(o, g) /\ RingBase(o, h) = RingBase(o, g)
           /\ ForkFound(o, h) <=> ForkFound(o, g)
           /\ RollbackDone(o, h) <=> RollbackDone(o, g)
           /\ h.depth = g.depth => (TipKnown(o, h) <=> TipKnown(o, g))
           /\ /\ h.depth = g.depth
              /\ t.ffi = s.ffi /\ t.chain = s.chain /\ t.replayed = s.replayed
              /\ t.reorgEvents = s.reorgEvents
              /\ BlockAccepted(o, s, g)
              => BlockAccepted(o, t, h)
<1>1. /\ CoreBase(o, h) = CoreBase(o, g) /\ Kept(o, h) = Kept(o, g)
      /\ RingBase(o, h) = RingBase(o, g)
  BY DEF CoreBase, Kept, RingBase
<1>2. KeptState(o, h) = KeptState(o, g)
  BY <1>1 DEF KeptState
<1>3. /\ ForkFound(o, h) <=> ForkFound(o, g)
      /\ RollbackDone(o, h) <=> RollbackDone(o, g)
      /\ h.depth = g.depth => (TipKnown(o, h) <=> TipKnown(o, g))
  BY DEF ForkFound, RollbackDone, TipKnown
<1> QED
  BY <1>1, <1>2, <1>3 DEF BlockAccepted

\* Solo, place by place.
LEMMA SoloAt ==
    ASSUME NEW o, NEW s, NEW g
    PROVE  LET base  == RingBase(o, g)
               added == Add(base, g.block)
           IN  /\ g.pc = "idle" /\ s = o /\ g.prev = NoBlock /\ g.fork = 0 => Solo(o, s, g)
               /\ g.pc = "size" /\ s = o /\ Sought(o, g) => Solo(o, s, g)
               /\ g.pc = "check" /\ s = o /\ Sought(o, g) /\ Asking(o, g) => Solo(o, s, g)
               /\ /\ g.pc = "index" /\ s = o /\ Sought(o, g) /\ Asking(o, g)
                  /\ g.size = o.ringBuffer.size
                  => Solo(o, s, g)
               /\ /\ g.pc = "position" /\ s = o /\ Sought(o, g) /\ Asking(o, g)
                  /\ g.size = o.ringBuffer.size /\ g.reg = o.ringBuffer.index
                  => Solo(o, s, g)
               /\ /\ g.pc = "slot" /\ s = o /\ Sought(o, g) /\ Asking(o, g)
                  /\ g.reg = Slot(o.ringBuffer, g.idx)
                  => Solo(o, s, g)
               /\ /\ g.pc = "apply" /\ s = o /\ g.fork = 0
                  /\ DetectReorg(o.ringBuffer, g.block).outcome = "sequential"
                  => Solo(o, s, g)
               /\ g.pc = "rollback" /\ s = o /\ ForkFound(o, g) /\ TipKnown(o, g) => Solo(o, s, g)
               /\ /\ g.pc = "replay" /\ ForkFound(o, g) /\ TipKnown(o, g) /\ RollbackDone(o, g)
                  /\ s.ffi = CoreBase(o, g)
                  /\ s.chain = SubSeq(o.chain, 1, g.fork) /\ s.replayed = SubSeq(o.replayed, 1, g.fork)
                  /\ Len(s.chain) = g.fork /\ s.replayed[g.fork] = o.replayed[g.fork]
                  /\ s.ringBuffer = o.ringBuffer /\ s.reorgEvents = o.reorgEvents
                  => Solo(o, s, g)
               /\ /\ g.pc \in {"truncate", "truncateAll", "truncateSize"}
                  /\ BlockAccepted(o, s, g) /\ g.fork # 0 /\ s.ringBuffer = o.ringBuffer
                  /\ g.pc = "truncateAll" => g.fork > o.ringBuffer.size
                  /\ g.pc = "truncateSize" => g.reg = base.size
                  => Solo(o, s, g)
               /\ /\ g.pc = "truncateIndex" /\ BlockAccepted(o, s, g) /\ g.fork # 0
                  /\ s.ringBuffer.blocks = base.blocks /\ s.ringBuffer.size = base.size
                  /\ g.reg = base.size
                  => Solo(o, s, g)
               /\ /\ g.pc \in {"add", "addSlot"} /\ BlockAccepted(o, s, g)
                  /\ RingIs(s.ringBuffer, base.blocks, base.index, base.size)
                  /\ g.pc = "addSlot" => g.reg = base.index
                  => Solo(o, s, g)
               /\ /\ g.pc \in {"addNext", "addIndex"} /\ BlockAccepted(o, s, g)
                  /\ RingIs(s.ringBuffer, added.blocks, base.index, base.size) /\ g.reg = base.index
                  => Solo(o, s, g)
               /\ /\ g.pc \in {"addCheck", "addGrow", "addSize"} /\ BlockAccepted(o, s, g)
                  /\ RingIs(s.ringBuffer, added.blocks, added.index, base.size)
                  /\ g.pc # "addCheck" => base.size < MaxReorgDepth
                  /\ g.pc = "addSize" => g.reg = base.size
                  => Solo(o, s, g)
               /\ /\ g.pc = "record" /\ BlockAccepted(o, s, g) /\ g.fork # 0
                  /\ RingIs(s.ringBuffer, added.blocks, added.index, added.size)
                  => Solo(o, s, g)
BY DEF Solo

\* The record of the engine's variables, by its fields.
LEMMA SharedFields ==
    /\ Shared.ringBuffer = ringBuffer /\ Shared.ffi = ffi /\ Shared.reorgEvents = reorgEvents
    /\ Shared.chain = chain /\ Shared.replayed = replayed
    /\ (Shared.ringBuffer = ringBuffer /\ Shared.ffi = ffi /\ Shared.reorgEvents = reorgEvents)'
    /\ (Shared.chain = chain /\ Shared.replayed = replayed)'
    /\ UNCHANGED shared => Shared' = Shared
BY DEF Shared, shared

\* What a scan from the newest block back has found at position idx.
LEMMA ScanFinds ==
    ASSUME NEW rb, RingOK(rb), NEW b, NEW idx \in 0 .. rb.size - 1,
           \A i \in ParentPositions(rb, b) : i <= idx
    PROVE  /\ idx \in ParentPositions(rb, b) => findForkPoint(rb, b) = Get(rb, idx).number
           /\ idx \notin ParentPositions(rb, b) /\ idx = 0 => ParentPositions(rb, b) = {}
           /\ idx \notin ParentPositions(rb, b) => \A i \in ParentPositions(rb, b) : i <= idx - 1
<1> DEFINE P == ParentPositions(rb, b)
<1>1. P \subseteq Nat /\ idx \in Nat
  BY DEF ParentPositions, RingOK
<1>2. ASSUME idx \in P PROVE findForkPoint(rb, b) = Get(rb, idx).number
  <2> HIDE DEF P
  <2>1. (CHOOSE i \in P : \A j \in P : j <= i) = idx
    BY <1>1, <1>2 DEF P
  <2> QED
    BY <2>1 DEF findForkPoint, P
<1>3. ASSUME idx \notin P, NEW i \in P PROVE i <= idx - 1
  BY <1>1, <1>3
<1> QED
  BY <1>1, <1>2, <1>3

\* What the only worker does with the block it asked for: it goes on, or it
\* returns because DetectReorg has failed.
LEMMA FoundAlone ==
    ASSUME PipeInv, NEW w \in Workers, Shared' = before, RingOK(before.ringBuffer),
           Sought(before, goroutine[w]), NEW found, Found(w, found),
           ~Scanning(goroutine[w]) => found = Latest(before.ringBuffer),
           Scanning(goroutine[w]) =>
               Asking(before, goroutine[w]) /\ found = Get(before.ringBuffer, goroutine[w].idx)
    PROVE  \/ goroutine'[w].pc # "idle" /\ Solo(before, Shared', goroutine'[w])
           \/ Return(w) /\ DetectReorg(before.ringBuffer, goroutine[w].block).outcome = "error"
<1> DEFINE g == goroutine[w]
           h == goroutine'[w]
           o == before
           rb == before.ringBuffer
<1>1. WorkersOK /\ g.fork \in Nat
  BY DEF PipeInv, WorkersOK, WorkerState
<1>2. CASE LatestIs(w, found)
  <2>1. g.prev = NoBlock /\ g.fork = 0 /\ found = Latest(rb)
    BY <1>2 DEF LatestIs, Sought, Scanning, ForkFound
  <2>2. CASE found = NoBlock \/ (found # NoBlock /\ g.block.parent = Hash(found))
    <3>1. h.pc = "apply" /\ h.fork = g.fork /\ h.block = g.block
      BY <1>1, <1>2, <2>2, MoveFields DEF LatestIs
    <3>2. DetectReorg(rb, h.block).outcome = "sequential"
      BY <2>1, <2>2, <3>1 DEF DetectReorg
    <3> QED
      BY <2>1, <3>1, <3>2, SoloAt
  <2>3. CASE ~(found = NoBlock \/ (found # NoBlock /\ g.block.parent = Hash(found)))
    <3>1. h.pc = "size" /\ h.prev = found /\ h.fork = g.fork /\ h.block = g.block
      BY <1>1, <1>2, <2>3, MoveFields DEF LatestIs
    <3>2. Sought(o, h)
      BY <2>1, <2>3, <3>1 DEF Sought, Scanning
    <3> QED
      BY <3>1, <3>2, SoloAt
  <2> QED
    BY <2>2, <2>3
<1>3. CASE ScanMeets(w, found)
  <2>1. Scanning(g) /\ Asking(o, g) /\ found = Get(rb, g.idx)
    BY <1>3 DEF ScanMeets, Scanning
  <2>2. g.prev = Latest(rb) /\ g.prev # NoBlock /\ g.fork = 0 /\ g.block.parent # Hash(g.prev)
    BY <2>1 DEF Sought, Scanning, ForkFound
  <2>3. g.idx \in 0 .. rb.size - 1 /\ \A i \in ParentPositions(rb, g.block) : i <= g.idx
    BY <2>1 DEF Asking
  <2>4. CASE found = NoBlock \/ (found # NoBlock /\ g.block.parent # Hash(found))
    <3>1. g.idx \notin ParentPositions(rb, g.block)
      BY <2>1, <2>4 DEF ParentPositions
    <3>2. CASE g.idx = 0
      <4>1. Return(w)
        BY <1>3, <2>4, <3>2 DEF ScanMeets
      <4>2. ParentPositions(rb, g.block) = {}
        BY <2>3, <3>1, <3>2, ScanFinds
      <4>3. DetectReorg(rb, g.block).outcome = "error"
        BY <2>2, <4>2 DEF DetectReorg
      <4> QED
        BY <4>1, <4>3
    <3>3. CASE g.idx # 0
      <4>1. Learn(w, "check", "idx", g.idx - 1)
        BY <1>3, <2>4, <3>3 DEF ScanMeets
      <4>2. h.pc = "check" /\ h.idx = g.idx - 1 /\ h.block = g.block /\ h.prev = g.prev /\ h.fork = g.fork
        BY <1>1, <4>1, MoveFields
      <4>3. \A i \in ParentPositions(rb, g.block) : i <= g.idx - 1
        BY <2>3, <3>1, ScanFinds
      <4>4. g.idx - 1 \in 0 .. rb.size - 1
        BY <2>3, <3>3 DEF RingOK
      <4>5. Sought(o, h) /\ Asking(o, h)
        BY <2>2, <4>2, <4>3, <4>4 DEF Sought, Asking, Scanning
      <4> QED
        BY <4>2, <4>5, SoloAt
    <3> QED
      BY <3>2, <3>3
  <2>5. CASE ~(found = NoBlock \/ (found # NoBlock /\ g.block.parent # Hash(found)))
    <3>1. g.idx \in ParentPositions(rb, g.block)
      BY <2>1, <2>3, <2>5 DEF ParentPositions
    <3>2. findForkPoint(rb, g.block) = found.number
      BY <2>1, <2>3, <3>1, ScanFinds
    <3>3. CASE g.prev.number - found.number > MaxReorgDepth
      <4>1. Return(w)
        BY <1>3, <2>5, <3>3 DEF ScanMeets
      <4>2. DetectReorg(rb, g.block).outcome = "error"
        BY <2>2, <3>2, <3>3 DEF DetectReorg
      <4> QED
        BY <4>1, <4>2
    <3>4. CASE ~(g.prev.number - found.number > MaxReorgDepth)
      <4>1. Learn(w, "size", "fork", found.number)
        BY <1>3, <2>5, <3>4 DEF ScanMeets
      <4>2. h.pc = "size" /\ h.fork = found.number /\ h.block = g.block /\ h.prev = g.prev
        BY <1>1, <4>1, MoveFields
      <4>3. /\ DetectReorg(rb, g.block).outcome = "reorg"
            /\ DetectReorg(rb, g.block).fork = found.number
        BY <2>2, <3>1, <3>2, <3>4 DEF DetectReorg
      <4>4. found.number # 0
        BY <3>1, <3>2, ForkPointType
      <4>5. Sought(o, h)
        BY <2>2, <4>2, <4>3, <4>4 DEF Sought, ForkFound
      <4> QED
        BY <4>2, <4>5, SoloAt
    <3> QED
      BY <3>3, <3>4
  <2> QED
    BY <2>4, <2>5
<1>4. CASE TipIs(w, found)
  <2>1. g.fork # 0 /\ Learn(w, "rollback", "depth", RecordedDepth(found, g.fork))
    BY <1>4 DEF TipIs
  <2>2. ForkFound(o, g) /\ found = Latest(rb)
    BY <2>1 DEF Sought, Scanning
  <2>3. /\ h.pc = "rollback" /\ h.depth = RecordedDepth(Latest(rb), g.fork)
        /\ h.block = g.block /\ h.fork = g.fork
    BY <1>1, <2>1, <2>2, MoveFields
  <2>4. ForkFound(o, h) /\ TipKnown(o, h)
    BY <2>2, <2>3 DEF ForkFound, TipKnown
  <2> QED
    BY <2>3, <2>4, SoloAt
<1> QED
  BY <1>2, <1>3, <1>4 DEF Found

\* While the worker is in ProcessBlock: the steps that detect.
LEMMA DetectingGoesOn ==
    ASSUME PipeInv, NEW w \in Workers, RingOK(before.ringBuffer), Solo(before, Shared, goroutine[w]),
           \/ Take(w)
           \/ ReadSize(w) \/ CheckBound(w) \/ ReadIndex(w) \/ Position(w) \/ ReadSlot(w)
    PROVE  /\ Shared' = before
           /\ \/ goroutine'[w].pc # "idle" /\ Solo(before, Shared', goroutine'[w])
              \/ Return(w) /\ DetectReorg(before.ringBuffer, goroutine[w].block).outcome = "error"
<1> DEFINE g == goroutine[w]
           h == goroutine'[w]
           o == before
           rb == before.ringBuffer
<1>1. Shared' = Shared
  BY SharedFields DEF Take, ReadSize, CheckBound, ReadIndex, Position, ReadSlot, Loads
<1>2. WorkersOK /\ g.idx \in Nat
  BY DEF PipeInv, WorkersOK, WorkerState
<1>3. Shared' = o /\ ringBuffer = rb
  <2>1. g.pc \in {"idle", "size", "check", "index", "position", "slot"}
    BY DEF Take, ReadSize, CheckBound, ReadIndex, Position, ReadSlot, At
  <2>2. Shared = o
    BY <2>1 DEF Solo
  <2> QED
    BY <1>1, <2>2, SharedFields
<1>4. rb.size \in 0 .. MaxReorgDepth /\ rb.index \in 0 .. MaxReorgDepth - 1 /\ MaxReorgDepth \in Nat \ {0}
  BY DepthAssumption DEF RingOK
<1>5. CASE Take(w)
  <2>1. h.pc = "size" /\ h.prev = g.prev /\ h.fork = g.fork /\ g.pc = "idle"
    BY <1>2, <1>5, MoveFields DEF Take, At
  <2>2. Sought(o, h)
    BY <2>1 DEF Solo, Sought
  <2> QED
    BY <1>3, <2>1, <2>2, SoloAt
<1>6. CASE ReadSize(w)
  <2>1. g.pc = "size" /\ Sought(o, g)
    BY <1>6 DEF ReadSize, At, Solo
  <2>2. CASE rb.size > 0
    <3>1. Learn(w, "check", "idx", rb.size - 1)
      BY <1>3, <1>6, <2>2 DEF ReadSize
    <3>2. h.pc = "check" /\ h.idx = rb.size - 1 /\ h.block = g.block /\ h.prev = g.prev /\ h.fork = g.fork
      BY <1>2, <3>1, MoveFields
    <3>3. Sought(o, h)
      BY <2>1, <3>2, SameBases DEF Sought, Scanning
    <3>4. h.idx \in 0 .. rb.size - 1 /\ \A i \in ParentPositions(rb, h.block) : i <= h.idx
      BY <1>4, <2>2, <3>2 DEF ParentPositions
    <3>5. Asking(o, h)
      BY <3>2, <3>4 DEF Asking
    <3> QED
      BY <1>3, <3>2, <3>3, <3>5, SoloAt
  <2>3. CASE ~(rb.size > 0)
    <3>1. Latest(rb) = NoBlock
      BY <1>4, <2>3 DEF Latest
    <3>2. ~Scanning(g)
      BY <2>1, <3>1 DEF Sought, Scanning, ForkFound
    <3>3. Found(w, NoBlock)
      BY <1>3, <1>6, <2>3, <3>2 DEF ReadSize, Scanning
    <3> QED
      BY <1>3, <2>1, <3>1, <3>2, <3>3, FoundAlone
  <2> QED
    BY <2>2, <2>3
<1>7. CASE CheckBound(w)
  <2>1. g.pc = "check" /\ Sought(o, g) /\ Asking(o, g)
    BY <1>7 DEF CheckBound, At, Solo
  <2>2. ~(g.idx >= rb.size)
    BY <1>4, <2>1 DEF Asking
  <2>3. Learn(w, "index", "size", rb.size)
    BY <1>3, <1>7, <2>2 DEF CheckBound
  <2>4. /\ h.pc = "index" /\ h.size = rb.size
        /\ h.block = g.block /\ h.prev = g.prev /\ h.fork = g.fork /\ h.idx = g.idx
    BY <1>2, <2>3, MoveFields
  <2>5. Sought(o, h) /\ Asking(o, h)
    BY <2>1, <2>4, SameBases DEF Sought, Asking, Scanning
  <2> QED
    BY <1>3, <2>4, <2>5, SoloAt
<1>8. CASE ReadIndex(w)
  <2>1. g.pc = "index" /\ Sought(o, g) /\ Asking(o, g) /\ g.size = rb.size
    BY <1>8 DEF ReadIndex, At, Solo
  <2>2. Learn(w, "position", "reg", rb.index)
    BY <1>3, <1>8 DEF ReadIndex
  <2>3. /\ h.pc = "position" /\ h.reg = rb.index /\ h.size = g.size
        /\ h.block = g.block /\ h.prev = g.prev /\ h.fork = g.fork /\ h.idx = g.idx
    BY <1>2, <2>2, MoveFields
  <2>4. Sought(o, h) /\ Asking(o, h)
    BY <2>1, <2>3, SameBases DEF Sought, Asking, Scanning
  <2> QED
    BY <1>3, <2>1, <2>3, <2>4, SoloAt
<1>9. CASE Position(w)
  <2>1. g.pc = "position" /\ Sought(o, g) /\ Asking(o, g) /\ g.size = rb.size /\ g.reg = rb.index
    BY <1>9 DEF Position, At, Solo
  <2>2. Slot([index |-> g.reg, size |-> rb.size], g.idx) = Slot(rb, g.idx)
    BY <2>1 DEF Slot
  <2>3. ~(g.reg - rb.size + g.idx + MaxReorgDepth < 0)
    BY <1>2, <1>4, <2>1
  <2>4. Learn(w, "slot", "reg", Slot(rb, g.idx))
    BY <1>3, <1>9, <2>1, <2>2, <2>3 DEF Position
  <2>5. /\ h.pc = "slot" /\ h.reg = Slot(rb, g.idx)
        /\ h.block = g.block /\ h.prev = g.prev /\ h.fork = g.fork /\ h.idx = g.idx
    BY <1>2, <2>4, MoveFields
  <2>6. Sought(o, h) /\ Asking(o, h)
    BY <2>1, <2>5, SameBases DEF Sought, Asking, Scanning
  <2> QED
    BY <1>3, <2>5, <2>6, SoloAt
<1>10. CASE ReadSlot(w)
  <2>1. g.pc = "slot" /\ Sought(o, g) /\ Asking(o, g) /\ g.reg = Slot(rb, g.idx)
    BY <1>10 DEF ReadSlot, At, Solo
  <2>2. rb.blocks[g.reg] = Get(rb, g.idx)
    BY <1>4, <2>1 DEF Asking, Get
  <2>3. ~Scanning(g) => Get(rb, g.idx) = Latest(rb)
    BY <1>4, <2>1 DEF Asking, Latest
  <2>4. Found(w, Get(rb, g.idx))
    BY <1>3, <1>10, <2>2 DEF ReadSlot
  <2> QED
    BY <1>3, <2>1, <2>3, <2>4, FoundAlone
<1> QED
  BY <1>5, <1>6, <1>7, <1>8, <1>9, <1>10

\* The steps that call the core.
LEMMA CallingGoesOn ==
    ASSUME PipeInv, NEW w \in Workers, Solo(before, Shared, goroutine[w]),
           goroutine'[w].pc # "idle",
           Rollback(w) \/ Apply(w)
    PROVE  Solo(before, Shared', goroutine'[w])
<1> DEFINE g == goroutine[w]
           h == goroutine'[w]
           b == g.block
           o == before
<1>1. /\ WorkersOK /\ WellFormed(ffi) /\ ChainShape(chain, replayed)
      /\ ffi.engine.block_number = Len(chain) /\ g.fork \in Nat /\ ~Return(w)
  BY MoveFields DEF PipeInv, WorkersOK, WorkerState, CoreOK
<1>2. /\ chain \in Seq(Blocks) /\ Len(chain) \in Nat /\ IsSeq(replayed) /\ Len(replayed) = Len(chain)
  BY <1>1, LenProperties DEF ChainShape
<1>3. ringBuffer' = ringBuffer /\ reorgEvents' = reorgEvents
  BY DEF Rollback, Apply
<1>4. CASE Rollback(w)
  <2>1. g.pc = "rollback" /\ Shared = o /\ ForkFound(o, g) /\ TipKnown(o, g) /\ g.fork # 0
    BY <1>4 DEF Rollback, At, Solo, ForkFound
  <2>2. /\ o.ringBuffer = ringBuffer /\ o.ffi = ffi /\ o.reorgEvents = reorgEvents
        /\ o.chain = chain /\ o.replayed = replayed
    BY <2>1, SharedFields
  <2>3. /\ RollbackTo(ffi, g.fork).ok /\ ffi' = RollbackTo(ffi, g.fork).ffi /\ Goto(w, "replay")
        /\ chain' = SubSeq(chain, 1, g.fork) /\ replayed' = SubSeq(replayed, 1, g.fork)
    BY <1>1, <1>4 DEF Rollback, RolledBack
  <2>4. /\ h.pc = "replay" /\ h.block = g.block /\ h.fork = g.fork /\ h.depth = g.depth
    BY <1>1, <2>3, MoveFields
  <2>5. ForkFound(o, h) /\ TipKnown(o, h) /\ RollbackDone(o, h) /\ CoreBase(o, h) = ffi'
    BY <2>1, <2>2, <2>3, <2>4 DEF ForkFound, TipKnown, RollbackDone, CoreBase
  <2>6. Len(chain') = g.fork /\ replayed'[g.fork] = replayed[g.fork]
    <3>1. g.fork \in 0 .. Len(chain) /\ g.fork \in 1 .. g.fork
      <4>1. ASSUME NEW n, n = g.fork PROVE n \in 0 .. ffi.engine.block_number
        BY <1>1, <2>3, <4>1, RollbackWellFormed
      <4>2. g.fork \in Nat /\ g.fork # 0
        BY <1>1, <2>1
      <4> QED
        BY <1>1, <4>1, <4>2
    <3>2. /\ Len(SubSeq(chain, 1, g.fork)) = g.fork
          /\ \A i \in 1 .. g.fork : SubSeq(replayed, 1, g.fork)[i] = replayed[i]
      BY <1>1, <3>1, CutChain
    <3> QED
      BY <2>3, <3>1, <3>2
  <2>7. /\ Shared'.ffi = CoreBase(o, h)
        /\ Shared'.ringBuffer = o.ringBuffer /\ Shared'.reorgEvents = o.reorgEvents
    BY <1>3, <2>2, <2>5, SharedFields
  <2>8. /\ Shared'.chain = SubSeq(o.chain, 1, h.fork) /\ Len(Shared'.chain) = h.fork
        /\ Shared'.replayed = SubSeq(o.replayed, 1, h.fork)
        /\ Shared'.replayed[h.fork] = o.replayed[h.fork]
    BY <2>2, <2>3, <2>4, <2>6, SharedFields
  <2> QED
    BY <2>4, <2>5, <2>7, <2>8, SoloAt
<1>5. CASE Apply(w) /\ At(w, "apply")
  <2>1. g.pc = "apply" /\ Shared = o /\ g.fork = 0 /\ DetectReorg(o.ringBuffer, b).outcome = "sequential"
    BY <1>5 DEF At, Solo
  <2>2. /\ o.ringBuffer = ringBuffer /\ o.ffi = ffi /\ o.reorgEvents = reorgEvents
        /\ o.chain = chain /\ o.replayed = replayed
    BY <2>1, SharedFields
  <2>3. /\ ApplyBlock(ffi, b).ok /\ ffi' = ApplyBlock(ffi, b).ffi /\ Goto(w, "add")
        /\ chain' = Append(chain, b)
        /\ replayed' = Append(replayed, Execute(Now!ReplayedState(Len(chain)), b).state)
    BY <1>1, <1>5 DEF Apply, Accepted
  <2>4. h.pc = "add" /\ h.block = b /\ h.fork = 0
    BY <1>1, <2>1, <2>3, MoveFields
  <2>5. chain = SubSeq(chain, 1, Len(chain)) /\ replayed = SubSeq(replayed, 1, Len(chain))
    BY <1>2, SubSeqFull DEF IsSeq
  <2>6. CoreBase(o, h) = ffi /\ Kept(o, h) = Len(chain) /\ RingBase(o, h) = ringBuffer
    BY <2>2, <2>4 DEF CoreBase, Kept, RingBase
  <2>7. KeptState(o, h) = Now!ReplayedState(Len(chain))
    BY <2>2, <2>6 DEF KeptState, Now!ReplayedState
  <2>8. BlockAccepted(o, Shared', h)
    <3>1. /\ Shared'.chain = Append(SubSeq(o.chain, 1, Kept(o, h)), h.block)
          /\ Shared'.replayed = Append(SubSeq(o.replayed, 1, Kept(o, h)),
                                       Execute(KeptState(o, h), h.block).state)
      BY <2>2, <2>3, <2>4, <2>5, <2>6, <2>7, SharedFields
    <3>2. /\ ApplyBlock(CoreBase(o, h), h.block).ok
          /\ Shared'.ffi = ApplyBlock(CoreBase(o, h), h.block).ffi
          /\ Shared'.reorgEvents = o.reorgEvents
      BY <1>3, <2>2, <2>3, <2>4, <2>6, SharedFields
    <3> QED
      BY <2>1, <2>4, <3>1, <3>2 DEF BlockAccepted
  <2>9. LET base == RingBase(o, h)
        IN  RingIs(Shared'.ringBuffer, base.blocks, base.index, base.size)
    BY <1>3, <2>6, SharedFields DEF RingIs
  <2> QED
    BY <2>4, <2>8, <2>9, SoloAt
<1>6. CASE Apply(w) /\ At(w, "replay")
  <2>1. g.pc = "replay"
    BY <1>6 DEF At
  <2>2. /\ ForkFound(o, g) /\ TipKnown(o, g) /\ RollbackDone(o, g) /\ g.fork # 0
        /\ ffi = CoreBase(o, g) /\ Len(chain) = g.fork /\ replayed[g.fork] = o.replayed[g.fork]
        /\ chain = SubSeq(o.chain, 1, g.fork) /\ replayed = SubSeq(o.replayed, 1, g.fork)
        /\ ringBuffer = o.ringBuffer /\ reorgEvents = o.reorgEvents
    BY <2>1, SharedFields DEF Solo, ForkFound
  <2>3. /\ ApplyBlock(ffi, b).ok /\ ffi' = ApplyBlock(ffi, b).ffi /\ Goto(w, "truncate")
        /\ chain' = Append(chain, b)
        /\ replayed' = Append(replayed, Execute(Now!ReplayedState(Len(chain)), b).state)
    <3>1. ~At(w, "apply")
      BY <2>1 DEF At
    <3> QED
      BY <1>1, <1>6, <3>1 DEF Apply, Accepted
  <2>4. h.pc = "truncate" /\ h.block = b /\ h.fork = g.fork /\ h.depth = g.depth
    BY <1>1, <2>3, MoveFields
  <2>5. CoreBase(o, h) = ffi /\ Kept(o, h) = g.fork
    BY <2>2, <2>4, SameBases DEF Kept
  <2>6. KeptState(o, h) = Now!ReplayedState(Len(chain))
    BY <2>2, <2>5 DEF KeptState, Now!ReplayedState
  <2>7. BlockAccepted(o, Shared', h)
    <3>1. /\ Shared'.chain = Append(SubSeq(o.chain, 1, Kept(o, h)), h.block)
          /\ Shared'.replayed = Append(SubSeq(o.replayed, 1, Kept(o, h)),
                                       Execute(KeptState(o, h), h.block).state)
      BY <2>2, <2>3, <2>4, <2>5, <2>6, SharedFields, SMTT(30)
    <3>2. /\ ApplyBlock(CoreBase(o, h), h.block).ok
          /\ Shared'.ffi = ApplyBlock(CoreBase(o, h), h.block).ffi
          /\ Shared'.reorgEvents = o.reorgEvents
      BY <1>3, <2>2, <2>3, <2>4, <2>5, SharedFields, SMTT(30)
    <3>3. ForkFound(o, h) /\ TipKnown(o, h) /\ RollbackDone(o, h)
      BY <2>2, <2>4, SameBases
    <3> QED
      BY <3>1, <3>2, <3>3 DEF BlockAccepted
  <2> QED
    BY <1>3, <2>2, <2>4, <2>7, SoloAt, SharedFields
<1> QED
  BY <1>4, <1>5, <1>6 DEF Apply

\* The steps of Truncate and Add.
LEMMA TruncateGoesOn ==
    ASSUME PipeInv, NEW w \in Workers, RingOK(before.ringBuffer), Solo(before, Shared, goroutine[w]),
           TruncateCheck(w) \/ TruncateAll(w) \/ TruncateSize(w) \/ TruncateIndex(w)
    PROVE  goroutine'[w].pc # "idle" /\ Solo(before, Shared', goroutine'[w])
<1> DEFINE g == goroutine[w]
           h == goroutine'[w]
           o == before
           base == RingBase(o, g)
<1>1. /\ WorkersOK /\ ringBuffer \in RingType /\ g.fork \in Nat /\ o.ringBuffer.size \in Nat
      /\ UNCHANGED <<ffi, reorgEvents, chain, replayed>>
  BY DEF PipeInv, WorkersOK, WorkerState, RingOK, TruncateCheck, TruncateAll, TruncateSize,
     TruncateIndex, Loads, Stores, shared
<1>2. BlockAccepted(o, Shared, g) /\ g.fork # 0
  BY DEF TruncateCheck, TruncateAll, TruncateSize, TruncateIndex, At, Solo
<1>3. ASSUME h.block = g.block, h.fork = g.fork, h.depth = g.depth
      PROVE  BlockAccepted(o, Shared', h) /\ RingBase(o, h) = base
  BY <1>1, <1>2, <1>3, SameBases, SharedFields
<1>4. base = Truncate(o.ringBuffer, g.fork)
  BY <1>2 DEF RingBase
<1>5. base.size = IF g.fork > o.ringBuffer.size THEN o.ringBuffer.size ELSE g.fork
  BY <1>1, <1>4 DEF Truncate
<1>6. CASE TruncateCheck(w)
  <2>1. ringBuffer = o.ringBuffer /\ ringBuffer' = ringBuffer
    BY <1>6, SharedFields DEF TruncateCheck, At, Solo, Loads, shared
  <2>2. CASE g.fork > ringBuffer.size
    <3>1. Goto(w, "truncateAll")
      BY <1>6, <2>2 DEF TruncateCheck
    <3>2. h.pc = "truncateAll" /\ h.block = g.block /\ h.fork = g.fork /\ h.depth = g.depth
      BY <1>1, <3>1, MoveFields
    <3> QED
      BY <1>2, <1>3, <2>1, <2>2, <3>2, SoloAt, SharedFields
  <2>3. CASE ~(g.fork > ringBuffer.size)
    <3>1. Learn(w, "truncateSize", "reg", g.fork)
      BY <1>6, <2>3 DEF TruncateCheck
    <3>2. /\ h.pc = "truncateSize" /\ h.block = g.block /\ h.fork = g.fork /\ h.depth = g.depth
          /\ h.reg = base.size
      BY <1>1, <1>5, <2>1, <2>3, <3>1, MoveFields
    <3> QED
      BY <1>2, <1>3, <2>1, <3>2, SoloAt, SharedFields
  <2> QED
    BY <2>2, <2>3
<1>7. CASE TruncateAll(w)
  <2>1. g.fork > o.ringBuffer.size /\ ringBuffer = o.ringBuffer /\ ringBuffer' = ringBuffer
    BY <1>7, SharedFields DEF TruncateAll, At, Solo, Loads, shared
  <2>2. Learn(w, "truncateSize", "reg", base.size)
    BY <1>5, <1>7, <2>1 DEF TruncateAll
  <2>3. /\ h.pc = "truncateSize" /\ h.block = g.block /\ h.fork = g.fork /\ h.depth = g.depth
        /\ h.reg = base.size
    BY <1>1, <2>2, MoveFields
  <2> QED
    BY <1>2, <1>3, <2>1, <2>3, SoloAt, SharedFields
<1>8. CASE TruncateSize(w)
  <2>1. g.reg = base.size /\ ringBuffer = o.ringBuffer
    BY <1>8, SharedFields DEF TruncateSize, At, Solo
  <2>2. ringBuffer' = [ringBuffer EXCEPT !.size = base.size] /\ Goto(w, "truncateIndex")
    BY <1>8, <2>1 DEF TruncateSize
  <2>3. /\ h.pc = "truncateIndex" /\ h.block = g.block /\ h.fork = g.fork /\ h.depth = g.depth
        /\ h.reg = base.size
    BY <1>1, <2>1, <2>2, MoveFields
  <2>4. base.blocks = ringBuffer.blocks
    BY <1>4, <2>1 DEF Truncate
  <2>5. ringBuffer'.blocks = base.blocks /\ ringBuffer'.size = base.size
    BY <1>1, <2>2, <2>4 DEF RingType
  <2> QED
    BY <1>2, <1>3, <2>3, <2>5, SoloAt, SharedFields
<1>9. CASE TruncateIndex(w)
  <2>1. g.reg = base.size /\ ringBuffer.blocks = base.blocks /\ ringBuffer.size = base.size
    BY <1>9, SharedFields DEF TruncateIndex, At, Solo
  <2>2. base.index = base.size % MaxReorgDepth
    BY <1>4 DEF Truncate
  <2>3. ringBuffer' = [ringBuffer EXCEPT !.index = base.index] /\ Goto(w, "add")
    BY <1>9, <2>1, <2>2 DEF TruncateIndex
  <2>4. h.pc = "add" /\ h.block = g.block /\ h.fork = g.fork /\ h.depth = g.depth
    BY <1>1, <2>3, MoveFields
  <2>5. RingIs(ringBuffer', base.blocks, base.index, base.size)
    BY <1>1, <2>1, <2>3 DEF RingType, RingIs
  <2> QED
    BY <1>3, <2>4, <2>5, SoloAt, SharedFields
<1> QED
  BY <1>6, <1>7, <1>8, <1>9

\* Add ends ProcessBlock, or there is still the event to be recorded.
LEMMA AddGoesOn ==
    ASSUME PipeInv, NEW w \in Workers, RingOK(before.ringBuffer), Solo(before, Shared, goroutine[w]),
           \/ AddLoad(w) \/ AddSlot(w) \/ AddNext(w) \/ AddIndex(w)
           \/ AddCheck(w) \/ AddGrow(w) \/ AddSize(w)
    PROVE  \/ goroutine'[w].pc # "idle" /\ Solo(before, Shared', goroutine'[w])
           \/ LET added == Add(RingBase(before, goroutine[w]), goroutine[w].block)
              IN  /\ Return(w) /\ goroutine[w].fork = 0 /\ BlockAccepted(before, Shared', goroutine[w])
                  /\ RingIs(ringBuffer', added.blocks, added.index, added.size)
<1> DEFINE g == goroutine[w]
           h == goroutine'[w]
           o == before
           base == RingBase(o, g)
           added == Add(base, g.block)
<1>1. /\ WorkersOK /\ ringBuffer \in RingType /\ g.fork \in Nat
      /\ UNCHANGED <<ffi, reorgEvents, chain, replayed>>
  BY DEF PipeInv, WorkersOK, WorkerState, AddLoad, AddSlot, AddNext, AddIndex, AddCheck, AddGrow,
     AddSize, Loads, Stores, shared
<1>2. BlockAccepted(o, Shared, g)
  BY DEF AddLoad, AddSlot, AddNext, AddIndex, AddCheck, AddGrow, AddSize, At, Solo
<1>3. ASSUME h.block = g.block, h.fork = g.fork, h.depth = g.depth
      PROVE  BlockAccepted(o, Shared', h) /\ RingBase(o, h) = base
  BY <1>1, <1>2, <1>3, SameBases, SharedFields
<1>4. ASSUME Added(w), RingIs(ringBuffer', added.blocks, added.index, added.size)
      PROVE  \/ h.pc # "idle" /\ Solo(o, Shared', h)
             \/ Return(w) /\ g.fork = 0 /\ BlockAccepted(o, Shared', g)
  <2>1. CASE g.fork = 0
    <3>1. BlockAccepted(o, Shared', g)
      BY <1>1, <1>2, SameBases, SharedFields
    <3> QED
      BY <1>4, <2>1, <3>1 DEF Added
  <2>2. CASE g.fork # 0
    <3>1. Goto(w, "record")
      BY <1>4, <2>2 DEF Added
    <3>2. h.pc = "record" /\ h.block = g.block /\ h.fork = g.fork /\ h.depth = g.depth
      BY <1>1, <3>1, MoveFields
    <3> QED
      BY <1>3, <1>4, <2>2, <3>2, SoloAt, SharedFields
  <2> QED
    BY <2>1, <2>2
<1>5. base.size \in Nat
  <2>1. CASE g.fork = 0
    BY <2>1 DEF RingBase, RingOK
  <2>2. CASE g.fork # 0
    BY <1>1, <2>2, TruncateOK DEF RingBase, RingOK
  <2> QED
    BY <2>1, <2>2
<1> HIDE DEF base
<1>6. CASE AddLoad(w)
  <2>1. RingIs(ringBuffer, base.blocks, base.index, base.size) /\ ringBuffer' = ringBuffer
    BY <1>6, SharedFields DEF base, AddLoad, At, Solo, Loads, shared
  <2>2. Learn(w, "addSlot", "reg", base.index)
    BY <1>6, <2>1 DEF AddLoad, RingIs
  <2>3. /\ h.pc = "addSlot" /\ h.block = g.block /\ h.fork = g.fork /\ h.depth = g.depth
        /\ h.reg = base.index
    BY <1>1, <2>2, MoveFields
  <2> QED
    BY <1>3, <2>1, <2>3, SoloAt, SharedFields
<1>7. CASE AddSlot(w)
  <2>1. RingIs(ringBuffer, base.blocks, base.index, base.size) /\ g.reg = base.index
    BY <1>7, SharedFields DEF base, AddSlot, At, Solo
  <2>2. /\ ringBuffer' = [ringBuffer EXCEPT !.blocks[base.index] = g.block]
        /\ Goto(w, "addNext")
    BY <1>7, <2>1 DEF AddSlot
  <2>3. /\ h.pc = "addNext" /\ h.block = g.block /\ h.fork = g.fork /\ h.depth = g.depth
        /\ h.reg = base.index
    BY <1>1, <2>1, <2>2, MoveFields
  <2>4. /\ ringBuffer'.blocks = [ringBuffer.blocks EXCEPT ![base.index] = g.block]
        /\ ringBuffer'.index = ringBuffer.index /\ ringBuffer'.size = ringBuffer.size
    BY <1>1, <2>2 DEF RingType
  <2>5. RingIs(ringBuffer', added.blocks, base.index, base.size)
    BY <2>1, <2>4 DEF RingIs, Add
  <2> QED
    BY <1>3, <2>3, <2>5, SoloAt, SharedFields
<1>8. CASE AddNext(w)
  <2>1. /\ RingIs(ringBuffer, added.blocks, base.index, base.size) /\ g.reg = base.index
        /\ ringBuffer' = ringBuffer
    BY <1>8, SharedFields DEF base, AddNext, At, Solo, Loads, shared
  <2>2. Learn(w, "addIndex", "reg", base.index)
    BY <1>8, <2>1 DEF AddNext, RingIs
  <2>3. /\ h.pc = "addIndex" /\ h.block = g.block /\ h.fork = g.fork /\ h.depth = g.depth
        /\ h.reg = base.index
    BY <1>1, <2>2, MoveFields
  <2> QED
    BY <1>3, <2>1, <2>3, SoloAt, SharedFields
<1>9. CASE AddIndex(w)
  <2>1. RingIs(ringBuffer, added.blocks, base.index, base.size) /\ g.reg = base.index
    BY <1>9, SharedFields DEF base, AddIndex, At, Solo
  <2>2. /\ ringBuffer' = [ringBuffer EXCEPT !.index = (base.index + 1) % MaxReorgDepth]
        /\ Goto(w, "addCheck")
    BY <1>9, <2>1 DEF AddIndex
  <2>3. h.pc = "addCheck" /\ h.block = g.block /\ h.fork = g.fork /\ h.depth = g.depth
    BY <1>1, <2>2, MoveFields
  <2>4. /\ ringBuffer'.blocks = ringBuffer.blocks /\ ringBuffer'.size = ringBuffer.size
        /\ ringBuffer'.index = (base.index + 1) % MaxReorgDepth
    BY <1>1, <2>2 DEF RingType
  <2>5. RingIs(ringBuffer', added.blocks, added.index, base.size)
    BY <2>1, <2>4 DEF RingIs, Add
  <2> QED
    BY <1>3, <2>3, <2>5, SoloAt, SharedFields
<1>10. CASE AddCheck(w)
  <2>1. RingIs(ringBuffer, added.blocks, added.index, base.size) /\ ringBuffer' = ringBuffer
    BY <1>10, SharedFields DEF base, AddCheck, At, Solo, Loads, shared
  <2>2. CASE base.size < MaxReorgDepth
    <3>1. Goto(w, "addGrow")
      BY <1>10, <2>1, <2>2 DEF AddCheck, RingIs
    <3>2. h.pc = "addGrow" /\ h.block = g.block /\ h.fork = g.fork /\ h.depth = g.depth
      BY <1>1, <3>1, MoveFields
    <3> QED
      BY <1>3, <2>1, <2>2, <3>2, SoloAt, SharedFields
  <2>3. CASE ~(base.size < MaxReorgDepth)
    <3>1. Added(w)
      BY <1>10, <2>1, <2>3 DEF AddCheck, RingIs
    <3>2. RingIs(ringBuffer', added.blocks, added.index, added.size)
      BY <2>1, <2>3 DEF RingIs, Add
    <3> QED
      BY <1>4, <3>1, <3>2 DEF base
  <2> QED
    BY <2>2, <2>3
<1>11. CASE AddGrow(w)
  <2>1. /\ RingIs(ringBuffer, added.blocks, added.index, base.size) /\ base.size < MaxReorgDepth
        /\ ringBuffer' = ringBuffer
    BY <1>11, SharedFields DEF base, AddGrow, At, Solo, Loads, shared
  <2>2. Learn(w, "addSize", "reg", base.size)
    BY <1>11, <2>1 DEF AddGrow, RingIs
  <2>3. /\ h.pc = "addSize" /\ h.block = g.block /\ h.fork = g.fork /\ h.depth = g.depth
        /\ h.reg = base.size
    BY <1>1, <2>2, MoveFields
  <2> QED
    BY <1>3, <2>1, <2>3, SoloAt, SharedFields
<1>12. CASE AddSize(w)
  <2>1. /\ RingIs(ringBuffer, added.blocks, added.index, base.size) /\ g.reg = base.size
        /\ base.size < MaxReorgDepth
    BY <1>12, SharedFields DEF base, AddSize, At, Solo
  <2>2. ringBuffer' = [ringBuffer EXCEPT !.size = base.size + 1] /\ Added(w)
    BY <1>12, <2>1 DEF AddSize
  <2>3. /\ ringBuffer'.blocks = ringBuffer.blocks /\ ringBuffer'.index = ringBuffer.index
        /\ ringBuffer'.size = base.size + 1
    BY <1>1, <2>2 DEF RingType
  <2>4. RingIs(ringBuffer', added.blocks, added.index, added.size)
    BY <2>1, <2>3 DEF RingIs, Add
  <2> QED
    BY <1>4, <2>2, <2>4 DEF base
<1> QED
  BY <1>6, <1>7, <1>8, <1>9, <1>10, <1>11, <1>12

\* A step that leaves ProcessBlock completes the single step of ReorgEngine.
LEMMA Returns ==
    ASSUME PipeInv, SoloInv, Alone, NEW w \in Workers, Step(w),
           goroutine'[w].pc = "idle", before' = Shared'
    PROVE  /\ Atomic!Next /\ RingOK(before'.ringBuffer)
           /\ goroutine'[w].prev = NoBlock /\ goroutine'[w].fork = 0
<1> DEFINE g == goroutine[w]
           b == g.block
           o == before
           base == RingBase(o, g)
           added == Add(base, b)
<1>1. /\ WorkersOK /\ ringBuffer \in RingType /\ Workers' = Workers
      /\ ringBuffer' \in RingType /\ IsFFI(ffi) /\ EventsOK /\ Solo(o, Shared, g)
      /\ RingOK(o.ringBuffer) /\ g.fork \in Nat
  BY WorkerStep DEF PipeInv, SoloInv, WorkersOK, WorkerState
<1>2. /\ before'.ringBuffer = ringBuffer' /\ before'.ffi = ffi' /\ before'.reorgEvents = reorgEvents'
      /\ before'.chain = chain' /\ before'.replayed = replayed'
  BY SharedFields
<1>3. /\ \A p : Goto(w, p) => p = "idle"
      /\ Return(w) => goroutine'[w].prev = NoBlock /\ goroutine'[w].fork = 0
  BY <1>1, MoveFields
<1>4. ~TruncateCheck(w) /\ ~TruncateAll(w) /\ ~TruncateSize(w) /\ ~TruncateIndex(w)
  BY <1>1, TruncateGoesOn
<1>5. g.pc # "idle"
  <2>1. ~Take(w)
    BY <1>1, MoveFields DEF Take
  <2> QED
    BY <2>1, StepFrame
<1>6. b \in Blocks
  BY <1>1, <1>5 DEF WorkersOK, Sound
<1>b. RingOK(base) /\ RingOK(added)
  <2>1. RingOK(base)
    <3>1. CASE g.fork = 0
      BY <1>1, <3>1 DEF RingBase
    <3>2. CASE g.fork # 0
      BY <1>1, <3>2, TruncateOK DEF RingBase
    <3> QED
      BY <3>1, <3>2
  <2> QED
    BY <1>6, <2>1, AddOK
<1>7. SUFFICES Atomic!ProcessBlock(b) /\ Return(w) /\ RingOK(ringBuffer')
  BY <1>2, <1>3, <1>6 DEF Atomic!Next
<1>8. CASE ReadSize(w) \/ CheckBound(w) \/ ReadIndex(w) \/ Position(w) \/ ReadSlot(w)
  <2>1. /\ Shared' = o /\ Return(w) /\ DetectReorg(o.ringBuffer, b).outcome = "error"
    BY <1>1, <1>8, DetectingGoesOn
  <2>2. o' = o /\ ringBuffer' = o.ringBuffer
    BY <2>1, SharedFields
  <2>3. Atomic!Undetected(b)
    BY <2>1, <2>2, AtomicOperators DEF Atomic!Undetected
  <2> QED
    BY <1>1, <2>1, <2>2, <2>3 DEF Atomic!ProcessBlock
<1>9. CASE Rollback(w)
  <2>1. g.pc = "rollback" /\ Shared = o /\ ForkFound(o, g)
    BY <1>1, <1>9 DEF Rollback, At, Solo
  <2>2. /\ o.ringBuffer = ringBuffer /\ o.ffi = ffi /\ o.reorgEvents = reorgEvents
        /\ o.chain = chain /\ o.replayed = replayed
    BY <2>1, SharedFields
  <2>3. /\ Return(w) /\ ~RollbackTo(ffi, g.fork).ok /\ ffi' = RollbackTo(ffi, g.fork).ffi
        /\ UNCHANGED <<ringBuffer, reorgEvents, chain, replayed>>
    BY <1>3, <1>9 DEF Rollback
  <2>4. ffi' = ffi
    BY <1>1, <2>3, FailedRollback
  <2>5. Atomic!RollbackFailed(b)
    BY <1>2, <2>1, <2>2, <2>3, <2>4, AtomicOperators DEF Atomic!RollbackFailed, ForkFound
  <2> QED
    BY <1>1, <2>2, <2>3, <2>5 DEF Atomic!ProcessBlock
<1>10. CASE Apply(w) /\ At(w, "apply")
  <2>1. g.pc = "apply" /\ Shared = o /\ DetectReorg(o.ringBuffer, b).outcome = "sequential"
    BY <1>1, <1>10 DEF At, Solo
  <2>2. /\ o.ringBuffer = ringBuffer /\ o.ffi = ffi /\ o.reorgEvents = reorgEvents
        /\ o.chain = chain /\ o.replayed = replayed
    BY <2>1, SharedFields
  <2>3. /\ Return(w) /\ ~ApplyBlock(ffi, b).ok /\ ffi' = ApplyBlock(ffi, b).ffi
        /\ UNCHANGED <<ringBuffer, reorgEvents, chain, replayed>>
    BY <1>3, <1>10 DEF Apply
  <2>4. Atomic!Sequential(b)
    BY <1>2, <2>1, <2>2, <2>3, AtomicOperators DEF Atomic!Sequential
  <2> QED
    BY <1>1, <2>2, <2>3, <2>4 DEF Atomic!ProcessBlock
<1>11. CASE Apply(w) /\ At(w, "replay")
  <2>1. g.pc = "replay"
    BY <1>11 DEF At
  <2>2. /\ ForkFound(o, g) /\ RollbackDone(o, g) /\ g.fork # 0 /\ ffi = CoreBase(o, g)
        /\ chain = SubSeq(o.chain, 1, g.fork) /\ replayed = SubSeq(o.replayed, 1, g.fork)
        /\ ringBuffer = o.ringBuffer /\ reorgEvents = o.reorgEvents
    BY <1>1, <2>1, SharedFields DEF Solo, ForkFound
  <2>3. /\ Return(w) /\ ~ApplyBlock(ffi, b).ok /\ ffi' = ApplyBlock(ffi, b).ffi
        /\ UNCHANGED <<ringBuffer, reorgEvents, chain, replayed>>
    BY <1>3, <1>11 DEF Apply
  <2>4. ffi = RollbackTo(o.ffi, g.fork).ffi
    BY <2>2 DEF CoreBase
  <2>5. Atomic!ReplayFailed(b)
    BY <1>2, <2>2, <2>3, <2>4, AtomicOperators
    DEF Atomic!ReplayFailed, Atomic!KeepFirst, ForkFound, RollbackDone
  <2> QED
    BY <1>1, <2>2, <2>3, <2>5 DEF Atomic!ProcessBlock
<1>12. CASE \/ AddLoad(w) \/ AddSlot(w) \/ AddNext(w) \/ AddIndex(w)
            \/ AddCheck(w) \/ AddGrow(w) \/ AddSize(w)
  <2>1. /\ Return(w) /\ g.fork = 0 /\ BlockAccepted(o, Shared', g)
        /\ RingIs(ringBuffer', added.blocks, added.index, added.size)
    BY <1>1, <1>12, AddGoesOn
  <2>2. ringBuffer' = Add(base, b)
    BY <1>1, <2>1 DEF RingIs, Add, RingType
  <2>3. /\ base = o.ringBuffer /\ CoreBase(o, g) = o.ffi /\ Kept(o, g) = Len(o.chain)
        /\ KeptState(o, g) = Atomic!ReplayedState(Len(o.chain))
    BY <2>1 DEF RingBase, CoreBase, Kept, KeptState, Atomic!ReplayedState
  <2>4. /\ DetectReorg(o.ringBuffer, b).outcome = "sequential"
        /\ ApplyBlock(o.ffi, b).ok /\ ffi' = ApplyBlock(o.ffi, b).ffi
        /\ chain' = Append(SubSeq(o.chain, 1, Len(o.chain)), b)
        /\ replayed' = Append(SubSeq(o.replayed, 1, Len(o.chain)),
                              Execute(Atomic!ReplayedState(Len(o.chain)), b).state)
        /\ reorgEvents' = o.reorgEvents
    BY <2>1, <2>3, SharedFields DEF BlockAccepted, ForkFound
  <2>5. Atomic!Sequential(b)
    BY <1>2, <2>2, <2>3, <2>4, AtomicOperators DEF Atomic!Sequential, Atomic!Accept
  <2> QED
    BY <1>b, <2>1, <2>2, <2>5 DEF Atomic!ProcessBlock
<1>13. CASE Record(w)
  <2>1. /\ g.pc = "record" /\ Return(w) /\ UNCHANGED <<ringBuffer, ffi, chain, replayed>>
        /\ reorgEvents' = Append(reorgEvents, [fork |-> g.fork, depth |-> g.depth])
    BY <1>13 DEF Record, At
  <2>2. /\ RingIs(ringBuffer, added.blocks, added.index, added.size)
        /\ BlockAccepted(o, Shared, g) /\ g.fork # 0
    BY <1>1, <2>1, SharedFields DEF Solo
  <2>3. ringBuffer = Add(base, b)
    BY <1>1, <2>2 DEF RingIs, Add, RingType
  <2>4. /\ base = Truncate(o.ringBuffer, g.fork) /\ CoreBase(o, g) = RollbackTo(o.ffi, g.fork).ffi
        /\ Kept(o, g) = g.fork /\ KeptState(o, g) = Atomic!ReplayedState(g.fork)
    BY <2>2 DEF RingBase, CoreBase, Kept, KeptState, Atomic!ReplayedState
  <2>5. /\ ForkFound(o, g) /\ TipKnown(o, g) /\ RollbackTo(o.ffi, g.fork).ok
        /\ reorgEvents = o.reorgEvents
    BY <2>2, SharedFields DEF BlockAccepted, RollbackDone
  <2>6. /\ ApplyBlock(RollbackTo(o.ffi, g.fork).ffi, b).ok
        /\ ffi' = ApplyBlock(RollbackTo(o.ffi, g.fork).ffi, b).ffi
        /\ chain' = Append(SubSeq(o.chain, 1, g.fork), b)
        /\ replayed' = Append(SubSeq(o.replayed, 1, g.fork),
                              Execute(Atomic!ReplayedState(g.fork), b).state)
    BY <2>1, <2>2, <2>4, SharedFields DEF BlockAccepted
  <2>7. Len(o.reorgEvents) < MaxReorgs
    <3>1. ~Quiet
      BY <1>5 DEF Quiet
    <3>2. Len(inbox) \in Nat /\ Len(reorgEvents) \in Nat /\ MaxReorgs \in Nat
      BY <1>1, LenProperties, SetupsAssumption DEF PipeInv, EventsOK
    <3>3. Len(reorgEvents) + Len(inbox) < MaxReorgs
      BY <1>1, <3>1 DEF EventsOK
    <3> QED
      BY <2>5, <3>2, <3>3
  <2>8. Atomic!Reorganised(b)
    BY <1>2, <2>1, <2>3, <2>4, <2>5, <2>6, <2>7, AtomicOperators
    DEF Atomic!Reorganised, Atomic!Accept, ForkFound, TipKnown
  <2> QED
    BY <1>b, <2>1, <2>3, <2>8 DEF Atomic!ProcessBlock
<1>14. ~Take(w)
  BY <1>5 DEF Take, At
<1> QED
  BY <1>4, <1>8, <1>9, <1>10, <1>11, <1>12, <1>13, <1>14 DEF Step, Apply

\* A step of the only worker.
LEMMA SoloStep ==
    ASSUME PipeInv, SoloInv, Alone, NEW w \in Workers, Step(w),
           before' = IF Alone /\ Quiet' THEN Shared' ELSE before
    PROVE  SoloInv' /\ [Atomic!Next]_(Atomic!vars)
<1>1. Workers' = Workers
  BY WorkerStep
<1>2. /\ Alone' /\ \A v \in Workers : v = w
      /\ Quiet' <=> goroutine'[w].pc = "idle"
  BY <1>1, OneWorker
<1>3. /\ IsFFI(ffi)' /\ EventsOK' /\ Solo(before, Shared, goroutine[w])
      /\ RingOK(before.ringBuffer)
  BY FFIStep, EventsStep DEF SoloInv
<1>4. CASE Quiet'
  <2>1. before' = Shared' /\ goroutine'[w].pc = "idle"
    BY <1>2, <1>4
  <2>2. /\ Atomic!Next /\ RingOK(before'.ringBuffer)
        /\ goroutine'[w].prev = NoBlock /\ goroutine'[w].fork = 0
    BY <2>1, Returns
  <2>3. Solo(before', Shared', goroutine'[w])
    BY <2>1, <2>2, SoloAt
  <2> QED
    BY <1>1, <1>2, <1>3, <2>1, <2>2, <2>3 DEF SoloInv
<1>5. CASE ~Quiet'
  <2>1. before' = before /\ goroutine'[w].pc # "idle"
    BY <1>2, <1>5
  <2>2. ~Record(w) /\ ~Return(w)
    BY <2>1, MoveFields DEF Record, PipeInv
  <2>3. Solo(before', Shared', goroutine'[w])
    <3>1. CASE \/ Take(w)
               \/ ReadSize(w) \/ CheckBound(w) \/ ReadIndex(w) \/ Position(w) \/ ReadSlot(w)
      BY <1>3, <2>1, <2>2, <3>1, DetectingGoesOn
    <3>2. CASE Rollback(w) \/ Apply(w)
      BY <1>3, <2>1, <3>2, CallingGoesOn
    <3>3. CASE TruncateCheck(w) \/ TruncateAll(w) \/ TruncateSize(w) \/ TruncateIndex(w)
      BY <1>3, <2>1, <3>3, TruncateGoesOn
    <3>4. CASE \/ AddLoad(w) \/ AddSlot(w) \/ AddNext(w) \/ AddIndex(w)
               \/ AddCheck(w) \/ AddGrow(w) \/ AddSize(w)
      BY <1>3, <2>1, <2>2, <3>4, AddGoesOn
    <3> QED
      BY <2>2, <3>1, <3>2, <3>3, <3>4 DEF Step
  <2>4. UNCHANGED Atomic!vars
    BY <2>1 DEF Atomic!vars
  <2> QED
    BY <1>1, <1>2, <1>3, <1>5, <2>3, <2>4 DEF SoloInv
<1> QED
  BY <1>4, <1>5

LEMMA NextSolo == PipeInv /\ SoloInv /\ [Next]_vars => SoloInv' /\ [Atomic!Next]_(Atomic!vars)
<1> SUFFICES ASSUME PipeInv, SoloInv, [Next]_vars
             PROVE  SoloInv' /\ [Atomic!Next]_(Atomic!vars)
  OBVIOUS
<1>1. CASE UNCHANGED vars
  <2>1. /\ UNCHANGED <<before, inbox, goroutine, ffi, reorgEvents>> /\ Shared' = Shared
    BY <1>1 DEF vars, shared, Shared
  <2>2. UNCHANGED Atomic!vars
    BY <2>1 DEF Atomic!vars
  <2> QED
    BY <2>1, <2>2 DEF SoloInv, Alone, Quiet, Workers, EventsOK
<1>2. CASE ReadState /\ before' = IF Alone /\ Quiet' THEN Shared' ELSE before
  <2>1. /\ UNCHANGED <<inbox, goroutine, ffi, reorgEvents>> /\ Shared' = Shared
    BY <1>2 DEF ReadState, shared, Shared
  <2>2. Quiet' <=> Quiet
    BY <2>1 DEF Quiet, Workers
  <2>3. before' = before
    BY <1>2, <2>1, <2>2 DEF SoloInv
  <2>4. UNCHANGED Atomic!vars
    BY <2>3 DEF Atomic!vars
  <2> QED
    BY <2>1, <2>3, <2>4 DEF SoloInv, Alone, Quiet, Workers, EventsOK
<1>3. ASSUME NEW w \in Workers, Step(w), before' = IF Alone /\ Quiet' THEN Shared' ELSE before
      PROVE  SoloInv' /\ [Atomic!Next]_(Atomic!vars)
  <2>1. CASE Alone
    BY <1>3, <2>1, SoloStep
  <2>2. CASE ~Alone
    <3>1. ~Alone' /\ before' = before
      BY <1>3, <2>2, WorkerStep DEF Alone
    <3>2. IsFFI(ffi)'
      BY <1>3, FFIStep DEF SoloInv
    <3>3. UNCHANGED Atomic!vars
      BY <3>1 DEF Atomic!vars
    <3> QED
      BY <3>1, <3>2, <3>3 DEF SoloInv
  <2> QED
    BY <2>1, <2>2
<1> QED
  BY <1>1, <1>2, <1>3 DEF Next

(***************************************************************************)
(* One worker implements ReorgEngine, for every stream of blocks, every    *)
(* size of buffer and history and every Execute: seen when it is not in    *)
(* ProcessBlock, its FFI calls and its stores to the buffer amount to one  *)
(* of the five single steps of that module.  So the theorems about         *)
(* ReorgEngine are theorems about a pool of one.                           *)
(***************************************************************************)
THEOREM OneWorkerRefines == Spec => ImplementsReorgEngine
<1>1. PipeInv /\ SoloInv /\ [Next]_vars => (PipeInv /\ SoloInv)' /\ [Atomic!Next]_(Atomic!vars)
  BY NextPipe, NextSolo
<1>2. Init => Atomic!Init /\ PipeInv /\ SoloInv
  BY InitPipe, InitSolo
<1> QED
  BY <1>1, <1>2, PTL DEF Spec, ImplementsReorgEngine, Atomic!Spec
-------------------------------------------------------------------------------
(***************************************************************************)
(* What is proved about ReorgEngine, of the engine between calls.          *)
(***************************************************************************)
Between == INSTANCE ReorgEngineProofs WITH
               ringBuffer <- before.ringBuffer, ffi <- before.ffi,
               reorgEvents <- before.reorgEvents, chain <- before.chain,
               replayed <- before.replayed

LEMMA SameOperators ==
    /\ Atomic!NewFFI = Between!NewFFI /\ Atomic!NewRingBuffer = Between!NewRingBuffer
    /\ \A rb, b : Atomic!DetectReorg(rb, b) = Between!DetectReorg(rb, b)
    /\ \A rb, b : Atomic!Add(rb, b) = Between!Add(rb, b)
    /\ \A rb, n : Atomic!Truncate(rb, n) = Between!Truncate(rb, n)
    /\ \A rb : Atomic!Latest(rb) = Between!Latest(rb)
    /\ \A rb, n : Atomic!RecordedDepth(rb, n) = Between!RecordedDepth(rb, n)
    /\ \A f, b : Atomic!ApplyBlock(f, b) = Between!ApplyBlock(f, b)
    /\ \A f, n : Atomic!RollbackTo(f, n) = Between!RollbackTo(f, n)
<1>1. Atomic!NewFFI = Between!NewFFI /\ Atomic!NewRingBuffer = Between!NewRingBuffer
  BY Zenon DEF Atomic!NewFFI, Between!NewFFI, Atomic!NewEngine, Between!NewEngine, Atomic!ZeroRoot,
     Between!ZeroRoot, Atomic!NewRingBuffer, Between!NewRingBuffer
<1>2. \A rb : Atomic!Latest(rb) = Between!Latest(rb)
  BY Zenon DEF Atomic!Latest, Between!Latest, Atomic!Get, Between!Get, Atomic!Slot, Between!Slot
<1>3. \A rb, b : Atomic!DetectReorg(rb, b) = Between!DetectReorg(rb, b)
  <2> TAKE rb, b
  <2>1. Atomic!ParentPositions(rb, b) = Between!ParentPositions(rb, b)
    BY Zenon DEF Atomic!ParentPositions, Between!ParentPositions, Atomic!Hash, Between!Hash,
       Atomic!Get, Between!Get, Atomic!Slot, Between!Slot
  <2>2. \A i : Atomic!Get(rb, i) = Between!Get(rb, i)
    BY Zenon DEF Atomic!Get, Between!Get, Atomic!Slot, Between!Slot
  <2>3. Atomic!findForkPoint(rb, b) = Between!findForkPoint(rb, b)
    BY <2>1, <2>2 DEF Atomic!findForkPoint, Between!findForkPoint
  <2> QED
    BY <1>2, <2>1, <2>3 DEF Atomic!DetectReorg, Between!DetectReorg, Atomic!Hash, Between!Hash
<1>4. /\ \A rb, b : Atomic!Add(rb, b) = Between!Add(rb, b)
      /\ \A rb, n : Atomic!Truncate(rb, n) = Between!Truncate(rb, n)
      /\ \A rb, n : Atomic!RecordedDepth(rb, n) = Between!RecordedDepth(rb, n)
  BY ZenonT(40) DEF Atomic!Add, Between!Add, Atomic!Truncate, Between!Truncate, Atomic!RecordedDepth,
     Between!RecordedDepth
<1>5. \A f, b : Atomic!ApplyBlock(f, b) = Between!ApplyBlock(f, b)
  BY ZenonT(40) DEF Atomic!ApplyBlock, Between!ApplyBlock, Atomic!ValidateBlock, Between!ValidateBlock,
     Atomic!apply_block, Between!apply_block, Atomic!Pushed, Between!Pushed, Atomic!Snapshot,
     Between!Snapshot, Atomic!calculate_state_root, Between!calculate_state_root
<1>6. \A f, n : Atomic!RollbackTo(f, n) = Between!RollbackTo(f, n)
  BY ZenonT(40) DEF Atomic!RollbackTo, Between!RollbackTo, Atomic!rollback_to, Between!rollback_to,
     Atomic!HasSnapshot, Between!HasSnapshot, Atomic!SnapshotIndex, Between!SnapshotIndex
<1> QED
  BY <1>1, <1>2, <1>3, <1>4, <1>5, <1>6

LEMMA SameEngine ==
    /\ Atomic!Init => Between!Init
    /\ Atomic!Next => Between!Next
    /\ UNCHANGED Atomic!vars => UNCHANGED Between!vars
<1>1. Atomic!Init => Between!Init
  BY SameOperators DEF Atomic!Init, Between!Init
<1>2. UNCHANGED Atomic!vars => UNCHANGED Between!vars
  BY DEF Atomic!vars, Between!vars
<1>3. ASSUME NEW b \in Blocks, Atomic!ProcessBlock(b) PROVE Between!ProcessBlock(b)
  <2>1. CASE Atomic!Undetected(b)
    BY <2>1, SameOperators DEF Atomic!Undetected, Between!Undetected, Between!ProcessBlock
  <2>2. CASE Atomic!Sequential(b)
    BY <2>2, SameOperators DEF Atomic!Sequential, Between!Sequential, Between!ProcessBlock,
       Atomic!Accept, Between!Accept, Atomic!ReplayedState, Between!ReplayedState
  <2>3. CASE Atomic!RollbackFailed(b)
    BY <2>3, SameOperators DEF Atomic!RollbackFailed, Between!RollbackFailed,
       Between!ProcessBlock
  <2>4. CASE Atomic!ReplayFailed(b)
    BY <2>4, SameOperators DEF Atomic!ReplayFailed, Between!ReplayFailed, Between!ProcessBlock,
       Atomic!KeepFirst, Between!KeepFirst
  <2>5. CASE Atomic!Reorganised(b)
    BY <2>5, SameOperators DEF Atomic!Reorganised, Between!Reorganised, Between!ProcessBlock,
       Atomic!Accept, Between!Accept, Atomic!ReplayedState, Between!ReplayedState
  <2> QED
    BY <1>3, <2>1, <2>2, <2>3, <2>4, <2>5 DEF Atomic!ProcessBlock
<1> QED
  BY <1>1, <1>2, <1>3 DEF Atomic!Next, Between!Next

(***************************************************************************)
(* A pool of one worker, on any stream of blocks: between calls of         *)
(* ProcessBlock the core has executed every block on the state of its own  *)
(* parent, and the buffer holds the chain, while it has not wrapped.       *)
(***************************************************************************)
THEOREM OneWorkerLinked ==
    ASSUME BelowWrap, WellNumbered
    PROVE  Spec => []LinkedWhenAlone
<1>1. Between!BelowWrap /\ Between!WellNumbered
  BY DEF BelowWrap, WellNumbered, Between!BelowWrap, Between!WellNumbered, Hash, Between!Hash
<1>2. Between!Spec => []Between!Linked
  BY <1>1, Between!LinkedCorrect, NoBlockAssumption, DepthAssumption, HistoryAssumption,
     BlocksAssumption
<1>3. Between!Spec => []Between!RingHoldsChain
  BY <1>1, Between!RingHoldsChainCorrect, NoBlockAssumption, DepthAssumption, HistoryAssumption,
     BlocksAssumption
<1>4. Atomic!Spec => Between!Spec
  BY SameEngine, PTL DEF Atomic!Spec, Between!Spec
<1>5. SoloInv /\ Between!Linked /\ Between!RingHoldsChain => LinkedWhenAlone
  <2> SUFFICES ASSUME SoloInv, Between!Linked, Between!RingHoldsChain, Alone, Quiet
               PROVE  Now!Linked /\ Now!RingHoldsChain
    BY DEF LinkedWhenAlone
  <2>1. before.chain = chain /\ before.ringBuffer = ringBuffer
    BY DEF SoloInv, Shared
  <2> QED
    BY <2>1 DEF Between!Linked, Between!RingHoldsChain, Now!Linked, Now!RingHoldsChain,
       Between!Hash, Now!Hash, Between!Get, Now!Get, Between!Slot, Now!Slot
<1>6. PipeInv /\ SoloInv /\ [Next]_vars => (PipeInv /\ SoloInv)'
  BY NextPipe, NextSolo
<1>7. Init => PipeInv /\ SoloInv
  BY InitPipe, InitSolo
<1> QED
  BY OneWorkerRefines, <1>2, <1>3, <1>4, <1>5, <1>6, <1>7, PTL DEF Spec, ImplementsReorgEngine
===============================================================================
