--------------------------- MODULE WorkerPoolProofs ---------------------------
(***************************************************************************)
(* Theorems about WorkerPool, for every number of workers, every set of    *)
(* submitters and every number of calls of Submit.                         *)
(***************************************************************************)
EXTENDS WorkerPool, SequenceTheorems, FiniteSetTheorems, TLAPS

LEMMA CapType == Cap \in Nat \ {0}
BY WorkersAssumption DEF Cap

LEMMA SomeWorker == Workers # {}
BY WorkersAssumption, FS_EmptySet
-------------------------------------------------------------------------------
(***************************************************************************)
(* Where the blocks are: in the channel and in the hands of workers.       *)
(***************************************************************************)
Elements(s) == {s[i] : i \in DOMAIN s}

LEMMA ElementsAppend ==
    ASSUME NEW S, NEW s \in Seq(S), NEW e \in S
    PROVE  /\ Append(s, e) \in Seq(S) /\ Len(Append(s, e)) = Len(s) + 1
           /\ Elements(Append(s, e)) = Elements(s) \cup {e}
<1>1. /\ Append(s, e) \in Seq(S) /\ Len(Append(s, e)) = Len(s) + 1
      /\ \A i \in 1 .. Len(s) : Append(s, e)[i] = s[i]
      /\ Append(s, e)[Len(s) + 1] = e
      /\ Len(s) \in Nat /\ DOMAIN s = 1 .. Len(s)
      /\ DOMAIN Append(s, e) = 1 .. Len(s) + 1
  BY AppendProperties, LenProperties
<1> QED
  BY <1>1 DEF Elements

LEMMA ElementsTail ==
    ASSUME NEW S, NEW s \in Seq(S), s # <<>>
    PROVE  /\ Head(s) \in S /\ Tail(s) \in Seq(S)
           /\ Len(s) \in Nat \ {0} /\ Len(Tail(s)) = Len(s) - 1
           /\ Elements(s) = Elements(Tail(s)) \cup {Head(s)}
<1>1. /\ Head(s) \in S /\ Tail(s) \in Seq(S)
      /\ Len(s) \in Nat \ {0} /\ Len(Tail(s)) = Len(s) - 1
      /\ \A i \in 1 .. Len(s) - 1 : Tail(s)[i] = s[i + 1]
      /\ DOMAIN s = 1 .. Len(s) /\ DOMAIN Tail(s) = 1 .. Len(s) - 1
      /\ Head(s) = s[1]
  BY HeadTailProperties, LenProperties, EmptySeq
<1>2. \A x : x \in Elements(s) => x \in Elements(Tail(s)) \cup {Head(s)}
  <2> SUFFICES ASSUME NEW i \in 1 .. Len(s)
               PROVE  s[i] \in Elements(Tail(s)) \cup {Head(s)}
    BY <1>1 DEF Elements
  <2>1. CASE i = 1
    BY <2>1, <1>1
  <2>2. CASE i # 1
    <3>1. i - 1 \in 1 .. Len(s) - 1 /\ (i - 1) + 1 = i
      BY <1>1, <2>2
    <3>2. Tail(s)[i - 1] = s[i] /\ i - 1 \in DOMAIN Tail(s)
      BY <1>1, <3>1
    <3> QED
      BY <3>2 DEF Elements
  <2> QED
    BY <2>1, <2>2
<1>3. \A x : x \in Elements(Tail(s)) \cup {Head(s)} => x \in Elements(s)
  <2>1. \A i \in 1 .. Len(s) - 1 : i + 1 \in 1 .. Len(s)
    BY <1>1
  <2> QED
    BY <1>1, <2>1 DEF Elements
<1> QED
  BY <1>1, <1>2, <1>3

Holding(r) == r.pc \in {"check", "process"}
Hand(f) == {f[w].block : w \in {v \in Workers : Holding(f[v])}}
Held(r) == IF Holding(r) THEN {r.block} ELSE {}
-------------------------------------------------------------------------------
(***************************************************************************)
(* The invariant.                                                          *)
(***************************************************************************)
\* The channels are closed in the order in which Stop closes them.
StopOrder ==
    /\ stopped <=> stop # "notCalled"
    /\ closed <=> stop \in {"waiting", "graceful", "timeout"}
    /\ stop = "graceful" => AllGone

\* Who holds a block holds one that was submitted.
HandsFull == \A w \in Workers : Holding(worker[w]) => worker[w].block # 0

\* Unless the context is cancelled no block is lost, and a worker leaves
\* only a closed and empty channel.
Accounted ==
    ~ctxDone => /\ accepted = finished \cup Elements(blocks) \cup Hand(worker)
                /\ \A w \in Workers : worker[w].pc = "gone" => closed /\ blocks = <<>>

PoolInv ==
    /\ TypeOK
    /\ StopOrder
    /\ WaitsOnlyWhenFull
    /\ HandsFull
    /\ Accounted

LEMMA PoolInvImplies == PoolInv => TypeOK /\ WaitsOnlyWhenFull /\ NothingLost /\ DrainedWhenGraceful
<1> SUFFICES ASSUME PoolInv PROVE NothingLost /\ DrainedWhenGraceful
  BY DEF PoolInv
<1>1. Elements(blocks) = Queued /\ Hand(worker) = InHand
  BY DEF Elements, Queued, Hand, InHand, Holding
<1>2. PICK w \in Workers : TRUE
  BY SomeWorker
<1>3. NothingLost
  BY <1>1, <1>2 DEF NothingLost, PoolInv, Accounted, AllGone
<1>4. ASSUME stop = "graceful", ~ctxDone PROVE accepted = finished
  <2>1. AllGone /\ blocks = <<>>
    BY <1>2, <1>4 DEF PoolInv, StopOrder, Accounted, AllGone
  <2>2. Queued = {}
    BY <2>1 DEF Queued
  <2>3. InHand = {}
    BY <2>1 DEF AllGone, InHand
  <2> QED
    BY <1>3, <1>4, <2>2, <2>3 DEF NothingLost
<1> QED
  BY <1>3, <1>4 DEF DrainedWhenGraceful

\* Type correctness in parts: the flags, the channel with its submitters,
\* the workers, and the rest.
FlagsOK ==
    /\ started \in BOOLEAN /\ closed \in BOOLEAN /\ stopped \in BOOLEAN
    /\ ctxDone \in BOOLEAN /\ crashed \in BOOLEAN
ChannelOK ==
    /\ blocks \in Seq(1 .. MaxSubmits) /\ Len(blocks) <= Cap
    /\ parked \in Seq([submitter : Submitters, block : 1 .. MaxSubmits])
    /\ stuck \subseteq Submitters
WorkersOK ==
    worker \in [Workers -> [pc : {"new", "range", "check", "process", "gone"},
                            block : 0 .. MaxSubmits]]
CountsOK ==
    /\ stop \in {"notCalled", "stopChClosed", "waiting", "graceful", "timeout"}
    /\ panicCount \in Nat /\ processedBlocks \in Nat
    /\ submits \in 0 .. MaxSubmits
    /\ accepted \subseteq 1 .. MaxSubmits /\ finished \subseteq 1 .. MaxSubmits

LEMMA TypeParts == TypeOK <=> FlagsOK /\ ChannelOK /\ WorkersOK /\ CountsOK
BY Zenon DEF TypeOK, FlagsOK, ChannelOK, WorkersOK, CountsOK

LEMMA HandMoves ==
    ASSUME WorkersOK, NEW w \in Workers, NEW r, worker' = [worker EXCEPT ![w] = r]
    PROVE  Hand(worker') \cup Held(worker[w]) = Hand(worker) \cup Held(r)
<1>1. worker'[w] = r /\ \A v \in Workers : v # w => worker'[v] = worker[v]
  BY DEF WorkersOK
<1> QED
  BY <1>1 DEF Hand, Held

LEMMA InitPool == Init => PoolInv
<1> SUFFICES ASSUME Init PROVE PoolInv
  OBVIOUS
<1>0. /\ blocks = <<>> /\ parked = <<>> /\ stuck = {} /\ stop = "notCalled"
      /\ worker = [w \in Workers |-> At("new")]
      /\ panicCount = 0 /\ processedBlocks = 0
      /\ submits = 0 /\ accepted = {} /\ finished = {}
  BY Zenon DEF Init
<1>1. TypeOK
  <2>1. FlagsOK
    BY Zenon DEF Init, FlagsOK
  <2>2. ChannelOK
    BY <1>0, EmptySeq, CapType DEF ChannelOK
  <2>3. WorkersOK
    BY <1>0, SubmitsAssumption DEF WorkersOK, At
  <2>4. CountsOK
    BY <1>0, SubmitsAssumption DEF CountsOK
  <2> QED
    BY <2>1, <2>2, <2>3, <2>4, TypeParts
<1>2. StopOrder /\ WaitsOnlyWhenFull
  BY DEF Init, StopOrder, WaitsOnlyWhenFull
<1>3. HandsFull
  BY DEF Init, HandsFull, Holding, At
<1>4. Accounted
  <2>1. Elements(blocks) = {}
    <3>1. DOMAIN <<>> = {}
      OBVIOUS
    <3> QED
      BY <3>1, Zenon DEF Init, Elements
  <2>2. Hand(worker) = {}
    BY DEF Init, Hand, Holding, At
  <2> QED
    BY <2>1, <2>2 DEF Init, Accounted, At
<1> QED
  BY <1>1, <1>2, <1>3, <1>4 DEF PoolInv
-------------------------------------------------------------------------------
(***************************************************************************)
(* Every step keeps the invariant.                                         *)
(***************************************************************************)
\* A step that moves no block and no worker: Start, Cancel and Stop.
LEMMA ControlStep ==
    ASSUME PoolInv, Start \/ Cancel \/ StopStep
    PROVE  PoolInv'
<1> USE DEF PoolInv
<1>1. FlagsOK' /\ ChannelOK' /\ WorkersOK' /\ CountsOK'
  <2>1. FlagsOK /\ ChannelOK /\ WorkersOK /\ CountsOK
    BY TypeParts
  <2>2. blocks' = blocks /\ worker' = worker /\ UNCHANGED <<panicCount, processedBlocks, submits, accepted, finished>>
    BY DEF Start, Cancel, StopStep, CloseStopCh, CloseBlocks, StopGraceful, StopTimeout, chanVars, workerVars
  <2>3. FlagsOK'
    BY <2>1, Zenon DEF FlagsOK, Start, Cancel, StopStep, CloseStopCh, CloseBlocks, StopGraceful, StopTimeout, chanVars
  <2>4. ChannelOK'
    BY <2>1, <2>2, EmptySeq DEF ChannelOK, Cap, Start, Cancel, StopStep, CloseStopCh, CloseBlocks, StopGraceful, StopTimeout, chanVars
  <2>5. WorkersOK'
    BY <2>1, <2>2 DEF WorkersOK
  <2>6. CountsOK'
    BY <2>1, <2>2 DEF CountsOK, Start, Cancel, StopStep, CloseStopCh, CloseBlocks, StopGraceful, StopTimeout
  <2> QED
    BY <2>3, <2>4, <2>5, <2>6
<1>2. StopOrder'
  BY DEF StopOrder, AllGone, Start, Cancel, StopStep, CloseStopCh, CloseBlocks, StopGraceful, StopTimeout, chanVars, workerVars
<1>3. WaitsOnlyWhenFull'
  BY DEF WaitsOnlyWhenFull, Cap, Start, Cancel, StopStep, CloseStopCh, CloseBlocks, StopGraceful, StopTimeout, chanVars
<1>4. HandsFull'
  BY DEF HandsFull, Start, Cancel, StopStep, CloseStopCh, CloseBlocks, StopGraceful, StopTimeout, workerVars
<1>5. Accounted'
  BY DEF Accounted, Hand, Start, Cancel, StopStep, CloseStopCh, CloseBlocks, StopGraceful, StopTimeout, chanVars, workerVars
<1>6. TypeOK'
  BY <1>1, TypeParts, PTL
<1> QED
  BY <1>2, <1>3, <1>4, <1>5, <1>6

\* A call of Submit touches no worker; the block it carries is new.
LEMMA CallFacts ==
    ASSUME PoolInv, NEW s \in Submitters, Call(s)
    PROVE  /\ submits' \in 1 .. MaxSubmits
           /\ UNCHANGED <<started, worker, panicCount, processedBlocks, finished>>
           /\ UNCHANGED <<ctxDone, stop, closed, stopped>>
           /\ WorkersOK' /\ StopOrder' /\ HandsFull'
<1>1. submits \in 0 .. MaxSubmits /\ submits < MaxSubmits /\ submits' = submits + 1
  BY DEF PoolInv, TypeOK, Call
<1>2. submits' \in 1 .. MaxSubmits
  BY <1>1, SubmitsAssumption
<1>3. /\ UNCHANGED <<started, worker, panicCount, processedBlocks, finished>>
      /\ UNCHANGED <<ctxDone, stop, closed, stopped>>
  BY DEF Call, workerVars
<1>4. WorkersOK' /\ StopOrder' /\ HandsFull'
  BY <1>3, TypeParts DEF PoolInv, WorkersOK, StopOrder, AllGone, HandsFull
<1> QED
  BY <1>2, <1>3, <1>4

\* Submit returns an error, or panics: nothing is queued.
LEMMA SubmitFails ==
    ASSUME PoolInv, NEW s \in Submitters, SubmitRejected(s) \/ SubmitPanics(s)
    PROVE  PoolInv'
<1>1. Call(s) /\ UNCHANGED <<blocks, parked, stuck, accepted>>
  BY DEF SubmitRejected, SubmitPanics
<1>2. /\ submits' \in 1 .. MaxSubmits
      /\ UNCHANGED <<started, worker, panicCount, processedBlocks, finished>>
      /\ UNCHANGED <<ctxDone, stop, closed, stopped>>
      /\ WorkersOK' /\ StopOrder' /\ HandsFull'
  BY <1>1, CallFacts
<1>3. FlagsOK /\ ChannelOK /\ CountsOK
  BY TypeParts DEF PoolInv
<1>4. FlagsOK'
  BY <1>2, <1>3, Zenon DEF FlagsOK, SubmitRejected, SubmitPanics
<1>5. ChannelOK' /\ CountsOK'
  BY <1>1, <1>2, <1>3, SubmitsAssumption DEF ChannelOK, CountsOK, Cap
<1>6. WaitsOnlyWhenFull' /\ Accounted'
  BY <1>1, <1>2 DEF PoolInv, WaitsOnlyWhenFull, Accounted, Hand, Cap
<1>7. TypeOK'
  BY <1>2, <1>4, <1>5, TypeParts, PTL
<1> QED
  BY <1>2, <1>6, <1>7 DEF PoolInv

\* Submit sends: the block joins the channel and the accepted ones.
LEMMA SubmitSucceeds ==
    ASSUME PoolInv, NEW s \in Submitters, SubmitSends(s)
    PROVE  PoolInv'
<1>1. /\ Call(s) /\ UNCHANGED <<parked, stuck, crashed>>
      /\ started /\ ~closed /\ Len(blocks) < Cap
      /\ blocks' = Append(blocks, submits') /\ accepted' = accepted \cup {submits'}
  BY DEF SubmitSends
<1>2. /\ submits' \in 1 .. MaxSubmits
      /\ UNCHANGED <<started, worker, panicCount, processedBlocks, finished>>
      /\ UNCHANGED <<ctxDone, stop, closed, stopped>>
      /\ WorkersOK' /\ StopOrder' /\ HandsFull'
  BY <1>1, CallFacts
<1>3. FlagsOK /\ ChannelOK /\ CountsOK
  BY TypeParts DEF PoolInv
<1>4. /\ blocks' \in Seq(1 .. MaxSubmits) /\ Len(blocks') = Len(blocks) + 1
      /\ Elements(blocks') = Elements(blocks) \cup {submits'}
  <2> DEFINE S == 1 .. MaxSubmits
             e == submits'
  <2>1. blocks \in Seq(S) /\ e \in S /\ blocks' = Append(blocks, e)
    BY <1>1, <1>2, <1>3 DEF ChannelOK
  <2> HIDE DEF S, e
  <2>2. /\ blocks' \in Seq(S) /\ Len(blocks') = Len(blocks) + 1
        /\ Elements(blocks') = Elements(blocks) \cup {e}
    BY <2>1, ElementsAppend
  <2> QED
    BY <2>2 DEF S, e
<1>5. FlagsOK'
  BY <1>1, <1>2, <1>3, Zenon DEF FlagsOK
<1>6. ChannelOK'
  <2>1. Len(blocks') <= Cap
    BY <1>1, <1>3, <1>4, CapType, LenProperties DEF ChannelOK
  <2> QED
    BY <1>1, <1>3, <1>4, <2>1 DEF ChannelOK, Cap
<1>7. CountsOK'
  BY <1>1, <1>2, <1>3, SubmitsAssumption DEF CountsOK
<1>8. WaitsOnlyWhenFull'
  <2>1. parked = <<>>
    BY <1>1, <1>3, CapType, LenProperties DEF PoolInv, WaitsOnlyWhenFull, ChannelOK
  <2> QED
    BY <1>1, <2>1 DEF WaitsOnlyWhenFull
<1>9. Accounted'
  BY <1>1, <1>2, <1>4 DEF PoolInv, Accounted, Hand
<1>10. TypeOK'
  BY <1>2, <1>5, <1>6, <1>7, TypeParts, PTL
<1> QED
  BY <1>2, <1>8, <1>9, <1>10 DEF PoolInv

\* Submit waits, at a full channel or, before Start, at none.
LEMMA SubmitWaits ==
    ASSUME PoolInv, NEW s \in Submitters, SubmitParks(s)
    PROVE  PoolInv'
<1>1. /\ Call(s) /\ UNCHANGED <<blocks, crashed, accepted>> /\ ~stopped
      /\ \/ /\ started /\ Len(blocks) = Cap /\ UNCHANGED stuck
            /\ parked' = Append(parked, [submitter |-> s, block |-> submits'])
         \/ stuck' = stuck \cup {s} /\ UNCHANGED parked
  BY DEF SubmitParks
<1>2. /\ submits' \in 1 .. MaxSubmits
      /\ UNCHANGED <<started, worker, panicCount, processedBlocks, finished>>
      /\ UNCHANGED <<ctxDone, stop, closed, stopped>>
      /\ WorkersOK' /\ StopOrder' /\ HandsFull'
  BY <1>1, CallFacts
<1>3. FlagsOK /\ ChannelOK /\ CountsOK
  BY TypeParts DEF PoolInv
<1>4. FlagsOK'
  BY <1>1, <1>2, <1>3, Zenon DEF FlagsOK
<1>5. ChannelOK'
  <2>1. [submitter |-> s, block |-> submits'] \in [submitter : Submitters, block : 1 .. MaxSubmits]
    BY <1>2
  <2>2. parked' \in Seq([submitter : Submitters, block : 1 .. MaxSubmits])
    <3> DEFINE P == [submitter : Submitters, block : 1 .. MaxSubmits]
               e == [submitter |-> s, block |-> submits']
    <3>1. parked \in Seq(P) /\ e \in P
      BY <1>3, <2>1 DEF ChannelOK
    <3>2. parked' = parked \/ parked' = Append(parked, e)
      BY <1>1
    <3> HIDE DEF P, e
    <3>3. parked' \in Seq(P)
      BY <3>1, <3>2, AppendProperties
    <3> QED
      BY <3>3 DEF P
  <2> QED
    BY <1>1, <1>3, <2>2 DEF ChannelOK, Cap
<1>6. CountsOK'
  BY <1>1, <1>2, <1>3, SubmitsAssumption DEF CountsOK
<1>7. WaitsOnlyWhenFull' /\ Accounted'
  BY <1>1, <1>2 DEF PoolInv, WaitsOnlyWhenFull, Accounted, Hand, Cap
<1>8. TypeOK'
  BY <1>2, <1>4, <1>5, <1>6, TypeParts, PTL
<1> QED
  BY <1>2, <1>7, <1>8 DEF PoolInv

\* A worker starts, looks at its context, or leaves.
LEMMA WorkerMoves ==
    ASSUME PoolInv, NEW w \in Workers,
           WorkerStarts(w) \/ CheckContext(w) \/ WorkerLeaves(w)
    PROVE  PoolInv'
<1> DEFINE r == worker'[w]
<1>1. /\ UNCHANGED <<started, blocks, closed, stopped, parked, stuck>>
      /\ UNCHANGED <<panicCount, processedBlocks, finished>>
      /\ UNCHANGED <<ctxDone, stop, crashed, submits, accepted>>
  BY DEF WorkerStarts, CheckContext, WorkerLeaves, chanVars
<1>2. FlagsOK /\ ChannelOK /\ WorkersOK /\ CountsOK
  BY TypeParts DEF PoolInv
<1>3. /\ r \in [pc : {"range", "process", "gone"}, block : 0 .. MaxSubmits]
      /\ worker' = [worker EXCEPT ![w] = r]
      /\ worker[w].pc \in {"new", "check", "range"}
      /\ Holding(r) => Holding(worker[w]) /\ r.block = worker[w].block
      /\ Holding(worker[w]) /\ ~ctxDone => Holding(r) /\ r.block = worker[w].block
      /\ r.pc = "gone" /\ ~ctxDone => closed /\ blocks = <<>>
  BY <1>2, SubmitsAssumption
     DEF WorkerStarts, CheckContext, WorkerLeaves, WorkersOK, At, Holds, Holding
<1> HIDE DEF r
<1>4. FlagsOK' /\ ChannelOK' /\ CountsOK'
  BY <1>1, <1>2, Zenon DEF FlagsOK, ChannelOK, CountsOK, Cap
<1>5. WorkersOK' /\ HandsFull'
  BY <1>2, <1>3 DEF PoolInv, WorkersOK, HandsFull, Holding
<1>6. StopOrder'
  BY <1>1, <1>2, <1>3 DEF PoolInv, StopOrder, AllGone, WorkersOK
<1>7. WaitsOnlyWhenFull'
  BY <1>1 DEF PoolInv, WaitsOnlyWhenFull, Cap
<1>8. Accounted'
  <2> SUFFICES ASSUME ~ctxDone
               PROVE  /\ Hand(worker') = Hand(worker)
                      /\ \A v \in Workers : worker'[v].pc = "gone" => closed /\ blocks = <<>>
    BY <1>1 DEF PoolInv, Accounted
  <2>1. Held(r) = Held(worker[w])
    BY <1>3 DEF Held
  <2>2. Held(worker[w]) \subseteq Hand(worker) /\ Held(r) \subseteq Hand(worker')
    BY <1>2, <1>3 DEF Held, Hand, WorkersOK
  <2>3. Hand(worker') \cup Held(worker[w]) = Hand(worker) \cup Held(r)
    BY <1>2, <1>3, HandMoves
  <2>4. \A v \in Workers : worker'[v].pc = "gone" => closed /\ blocks = <<>>
    BY <1>2, <1>3 DEF PoolInv, Accounted, WorkersOK
  <2> QED
    BY <2>1, <2>2, <2>3, <2>4
<1>9. TypeOK'
  BY <1>4, <1>5, TypeParts, PTL
<1> QED
  BY <1>5, <1>6, <1>7, <1>8, <1>9 DEF PoolInv

\* ProcessBlock returns or panics: the block is finished, the worker free.
LEMMA WorkerProcesses ==
    ASSUME PoolInv, NEW w \in Workers, Process(w)
    PROVE  PoolInv'
<1>1. /\ UNCHANGED <<started, blocks, closed, stopped, parked, stuck>>
      /\ UNCHANGED <<ctxDone, stop, crashed, submits, accepted>>
      /\ worker[w].pc = "process" /\ worker' = [worker EXCEPT ![w] = At("range")]
      /\ finished' = finished \cup {worker[w].block}
      /\ panicCount' \in {panicCount, panicCount + 1}
      /\ processedBlocks' \in {processedBlocks, processedBlocks + 1}
  BY DEF Process, chanVars
<1>2. FlagsOK /\ ChannelOK /\ WorkersOK /\ CountsOK
  BY TypeParts DEF PoolInv
<1>3. FlagsOK' /\ ChannelOK'
  BY <1>1, <1>2, Zenon DEF FlagsOK, ChannelOK, Cap
<1>4. CountsOK'
  <2>1. worker[w].block \in 1 .. MaxSubmits
    BY <1>1, <1>2, SubmitsAssumption DEF PoolInv, WorkersOK, HandsFull, Holding
  <2>2. panicCount' \in Nat /\ processedBlocks' \in Nat
    BY <1>1, <1>2 DEF CountsOK
  <2>3. finished' \subseteq 1 .. MaxSubmits
    BY <1>1, <1>2, <2>1, Zenon DEF CountsOK
  <2> QED
    BY <1>1, <1>2, <2>2, <2>3 DEF CountsOK
<1>5. WorkersOK' /\ HandsFull'
  BY <1>1, <1>2, SubmitsAssumption DEF PoolInv, WorkersOK, HandsFull, Holding, At
<1>6. StopOrder'
  BY <1>1, <1>2 DEF PoolInv, StopOrder, AllGone, WorkersOK
<1>7. WaitsOnlyWhenFull'
  BY <1>1 DEF PoolInv, WaitsOnlyWhenFull, Cap
<1>8. Accounted'
  <2>1. Held(At("range")) = {} /\ Held(worker[w]) = {worker[w].block}
    BY <1>1 DEF Held, Holding, At
  <2>2. Hand(worker') \cup {worker[w].block} = Hand(worker)
    BY <1>1, <1>2, <2>1, HandMoves
  <2>3. \A v \in Workers : worker'[v].pc = "gone" => worker[v].pc = "gone"
    BY <1>1, <1>2 DEF WorkersOK, At
  <2> QED
    BY <1>1, <2>2, <2>3 DEF PoolInv, Accounted
<1>9. TypeOK'
  BY <1>3, <1>4, <1>5, TypeParts, PTL
<1> QED
  BY <1>5, <1>6, <1>7, <1>8, <1>9 DEF PoolInv

\* A receive without a parked submitter, and one with: the block goes from
\* the channel to the worker, and the next one into the room it leaves.
LEMMA WorkerReceives ==
    ASSUME PoolInv, NEW w \in Workers, Receive(w)
    PROVE  PoolInv'
<1> DEFINE S == 1 .. MaxSubmits
           P == [submitter : Submitters, block : 1 .. MaxSubmits]
           b == Head(blocks)
           e == Head(parked).block
           Woken == parked # <<>>
<1>1. /\ UNCHANGED <<started, closed, stopped, stuck>>
      /\ UNCHANGED <<panicCount, processedBlocks, finished>>
      /\ UNCHANGED <<ctxDone, stop, crashed, submits>>
      /\ worker[w].pc = "range" /\ blocks # <<>>
      /\ worker' = [worker EXCEPT ![w] = Holds("check", b)]
  BY DEF Receive
<1>2. /\ ~Woken => blocks' = Tail(blocks) /\ parked' = parked /\ accepted' = accepted
      /\ Woken => /\ blocks' = Append(Tail(blocks), e) /\ parked' = Tail(parked)
                  /\ accepted' = accepted \cup {e}
  BY DEF Receive
<1>3. FlagsOK /\ ChannelOK /\ WorkersOK /\ CountsOK
  BY TypeParts DEF PoolInv
<1>4. blocks \in Seq(S) /\ parked \in Seq(P) /\ \A x \in P : x.block \in S
  BY <1>3 DEF ChannelOK
<1> HIDE DEF S, P
<1>5. /\ b \in S /\ Tail(blocks) \in Seq(S)
      /\ Len(blocks) \in Nat \ {0} /\ Len(Tail(blocks)) = Len(blocks) - 1
      /\ Elements(blocks) = Elements(Tail(blocks)) \cup {b}
  BY <1>1, <1>4, ElementsTail
<1>6. ASSUME Woken PROVE e \in S /\ Tail(parked) \in Seq(P)
  BY <1>4, <1>6, HeadTailProperties
<1>7. ASSUME Woken
      PROVE  /\ blocks' \in Seq(S) /\ Len(blocks') = Len(Tail(blocks)) + 1
             /\ Elements(blocks') = Elements(Tail(blocks)) \cup {e}
  <2> DEFINE t == Tail(blocks)
  <2>1. t \in Seq(S) /\ e \in S /\ blocks' = Append(t, e)
    BY <1>2, <1>5, <1>6, <1>7
  <2> HIDE DEF t, e
  <2>2. /\ blocks' \in Seq(S) /\ Len(blocks') = Len(t) + 1
        /\ Elements(blocks') = Elements(t) \cup {e}
    BY <2>1, ElementsAppend
  <2> QED
    BY <2>2 DEF t
<1>8. FlagsOK'
  BY <1>1, <1>3, Zenon DEF FlagsOK
<1>9. ChannelOK'
  <2>1. blocks' \in Seq(S) /\ parked' \in Seq(P)
    BY <1>2, <1>4, <1>5, <1>6, <1>7
  <2>2. Len(blocks') <= Len(blocks) /\ Len(blocks) <= Cap
    BY <1>2, <1>3, <1>5, <1>7 DEF ChannelOK
  <2>3. Len(blocks') <= Cap'
    BY <1>5, <2>1, <2>2, CapType, LenProperties DEF Cap
  <2> QED
    BY <1>1, <1>3, <2>1, <2>3 DEF ChannelOK, S, P
<1>10. WorkersOK' /\ HandsFull'
  BY <1>1, <1>3, <1>5, SubmitsAssumption DEF PoolInv, WorkersOK, HandsFull, Holding, Holds, S
<1>11. CountsOK'
  <2>1. accepted' \subseteq 1 .. MaxSubmits
    <3>1. accepted \subseteq S
      BY <1>3 DEF CountsOK, S
    <3>2. accepted' \subseteq S
      BY <1>2, <1>6, <3>1, Zenon
    <3> QED
      BY <3>2 DEF S
  <2> QED
    BY <1>1, <1>3, <2>1 DEF CountsOK
<1>12. worker[w].pc # "gone" /\ ~AllGone
  BY <1>1 DEF AllGone
<1>13. StopOrder'
  BY <1>1, <1>12 DEF PoolInv, StopOrder
<1>14. WaitsOnlyWhenFull'
  <2> SUFFICES ASSUME parked' # <<>> PROVE started' /\ ~stopped' /\ Len(blocks') = Cap'
    BY DEF WaitsOnlyWhenFull
  <2>1. Woken
    BY <1>2
  <2>2. started /\ ~stopped /\ Len(blocks) = Cap
    BY <2>1 DEF PoolInv, WaitsOnlyWhenFull
  <2>3. Len(blocks') = Len(blocks)
    BY <2>1, <1>5, <1>7
  <2> QED
    BY <1>1, <2>2, <2>3 DEF Cap
<1>15. Accounted'
  <2> SUFFICES ASSUME ~ctxDone PROVE Accounted'
    BY <1>1 DEF Accounted
  <2>1. Held(worker[w]) = {} /\ Held(Holds("check", b)) = {b}
    BY <1>1 DEF Held, Holding, Holds
  <2>2. Hand(worker') = Hand(worker) \cup {b}
    BY <1>1, <1>3, <2>1, HandMoves
  <2>3. accepted = finished \cup Elements(blocks) \cup Hand(worker)
    BY DEF PoolInv, Accounted
  <2>4. accepted' = finished' \cup Elements(blocks') \cup Hand(worker')
    <3>1. CASE Woken
      BY <1>1, <1>2, <1>5, <1>7, <2>2, <2>3, <3>1
    <3>2. CASE ~Woken
      BY <1>1, <1>2, <1>5, <2>2, <2>3, <3>2
    <3> QED
      BY <3>1, <3>2
  <2>5. \A v \in Workers : worker'[v].pc # "gone"
    <3>1. \A v \in Workers : worker[v].pc # "gone"
      BY <1>1 DEF PoolInv, Accounted
    <3> QED
      BY <1>1, <1>3, <3>1 DEF WorkersOK, Holds
  <2> QED
    BY <2>4, <2>5 DEF Accounted
<1>16. TypeOK'
  BY <1>8, <1>9, <1>10, <1>11, TypeParts, PTL
<1> QED
  BY <1>10, <1>13, <1>14, <1>15, <1>16 DEF PoolInv

LEMMA NextPool == PoolInv /\ [Next]_vars => PoolInv'
<1> SUFFICES ASSUME PoolInv, [Next]_vars PROVE PoolInv'
  OBVIOUS
<1>1. CASE UNCHANGED vars
  <2>1. /\ UNCHANGED <<started, blocks, closed, stopped, parked, stuck>>
        /\ UNCHANGED <<worker, panicCount, processedBlocks, finished>>
        /\ UNCHANGED <<ctxDone, stop, crashed, submits, accepted>>
    BY <1>1 DEF vars, chanVars, workerVars
  <2> QED
    BY <2>1, Zenon DEF PoolInv, TypeOK, StopOrder, WaitsOnlyWhenFull, HandsFull, Accounted,
        AllGone, Cap, Hand, Holding, Elements
<1>2. CASE Start \/ Cancel \/ StopStep
  BY <1>2, ControlStep
<1>3. ASSUME NEW s \in Submitters, Submit(s) PROVE PoolInv'
  BY <1>3, SubmitFails, SubmitSucceeds, SubmitWaits DEF Submit
<1>4. ASSUME NEW w \in Workers, WorkerStep(w) PROVE PoolInv'
  BY <1>4, WorkerMoves, WorkerReceives, WorkerProcesses DEF WorkerStep
<1> QED
  BY <1>1, <1>2, <1>3, <1>4 DEF Next

THEOREM PoolInvariant == Spec => []PoolInv
BY InitPool, NextPool, PTL DEF Spec

(***************************************************************************)
(* The variables of the pool keep their types, and the channel never holds *)
(* more than two blocks per worker.                                        *)
(***************************************************************************)
THEOREM PoolTypeCorrect == Spec => []TypeOK
BY PoolInvariant, PoolInvImplies, PTL

(***************************************************************************)
(* A call of Submit waits only at a full channel of a pool that runs.      *)
(***************************************************************************)
THEOREM WaitsCorrect == Spec => []WaitsOnlyWhenFull
BY PoolInvariant, PoolInvImplies, PTL

(***************************************************************************)
(* Unless the context is cancelled, a block for which Submit returned nil  *)
(* is finished, in the channel or in the hands of a worker.                *)
(***************************************************************************)
THEOREM NothingLostCorrect == Spec => []NothingLost
BY PoolInvariant, PoolInvImplies, PTL

(***************************************************************************)
(* Stop returns nil, the context not being cancelled, only when every      *)
(* block for which Submit returned nil has been through ProcessBlock.      *)
(***************************************************************************)
THEOREM DrainedCorrect == Spec => []DrainedWhenGraceful
BY PoolInvariant, PoolInvImplies, PTL
===============================================================================
