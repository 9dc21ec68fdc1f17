---------------------------- MODULE StreamerProofs ----------------------------
(***************************************************************************)
(* Theorems about Streamer, for every number of attempts, every capacity   *)
(* of the channel and every number of heads: what the streamer delivers,   *)
(* and that it implements BlockSource.                                     *)
(***************************************************************************)
EXTENDS Streamer, SequenceTheorems, TLAPS

-------------------------------------------------------------------------------
(***************************************************************************)
(* The inductive invariant.                                                *)
(***************************************************************************)
Message == [kind : {"head", "subscription", "block"}, serial : Nat]

DataOK ==
    /\ wire \in Seq(Message) /\ blocks \in Seq(Nat) /\ height \in Seq(Nat)
    /\ delivered \in Seq([head : Nat, body : Nat])
    /\ head \in 0 .. Len(height) /\ body \in 0 .. Len(height)

FlagsOK ==
    isConnected \in BOOLEAN /\ blocksClosed \in BOOLEAN /\ stopCh \in BOOLEAN /\ ctxDone \in BOOLEAN

\* Where the goroutine is tells what it holds: a wait is never after the last
\* attempt, a head is held from the announcement to the channel, and a block
\* is asked for, on a connection that works, only by the fetch that waits for it.
ControlOK ==
    /\ pc \in {"startWait", "dialWait"} => attempt < MaxAttempts
    /\ blocksClosed => pc = "done"
    /\ head # NoHead <=> pc \in {"request", "fetch", "deliver"}
    /\ body # NoHead => pc = "deliver"
    /\ conn = "open" /\ pending = "block" => pc = "fetch"

\* Serials h and b can go out together: b is as high as h and not older.
Fits(heights, b, h) == b # NoHead => b \in h .. Len(heights) /\ heights[b] = heights[h]

\* The last announcement that went out, or is on its way out.
Floor == IF head # NoHead THEN head ELSE Source!Last

\* Announcements on the wire are in order, and later than all that was taken.
HeadsInOrder(w, floor, n) ==
    /\ \A i \in DOMAIN w : w[i].kind = "head" => w[i].serial \in floor + 1 .. n
    /\ \A i, j \in DOMAIN w :
          i < j /\ w[i].kind = "head" /\ w[j].kind = "head" => w[i].serial < w[j].serial

HeadsOK ==
    /\ HeadsInOrder(wire, Floor, Len(height))
    /\ head # NoHead => Source!Last < head

\* On a connection that works there is at most one answer with a block, the
\* fetch waits for it, nothing more has been asked for, and it fits the head.
AnswersOK ==
    conn = "open" =>
        \A i \in DOMAIN wire :
            wire[i].kind = "block" =>
                /\ pc = "fetch" /\ pending # "block"
                /\ Fits(height, wire[i].serial, head)
                /\ \A j \in DOMAIN wire : wire[j].kind = "block" => i = j

SentOK ==
    /\ \A i \in DOMAIN delivered :
          /\ delivered[i].head \in 1 .. Len(height)
          /\ Fits(height, delivered[i].body, delivered[i].head)
    /\ DeliveredInOrder

StreamInv ==
    /\ TypeOK /\ DataOK /\ FlagsOK /\ ControlOK /\ HeadsOK /\ AnswersOK
    /\ Fits(height, body, head) /\ SentOK /\ ClosedOnlyByStop
-------------------------------------------------------------------------------
(***************************************************************************)
(* Sequences.                                                              *)
(***************************************************************************)
LEMMA SeqAppend ==
    ASSUME NEW S, NEW s \in Seq(S), NEW e \in S
    PROVE  /\ Append(s, e) \in Seq(S)
           /\ Len(Append(s, e)) = Len(s) + 1
           /\ DOMAIN s = 1 .. Len(s) /\ DOMAIN Append(s, e) = 1 .. Len(s) + 1
           /\ \A i \in 1 .. Len(s) : Append(s, e)[i] = s[i]
           /\ Append(s, e)[Len(s) + 1] = e
           /\ Append(s, e) # <<>>
<1>1. Append(s, e) \in Seq(S) /\ Len(Append(s, e)) = Len(s) + 1
  BY AppendProperties
<1>2. DOMAIN s = 1 .. Len(s) /\ DOMAIN Append(s, e) = 1 .. Len(s) + 1
  BY <1>1, LenProperties
<1> QED
  BY <1>1, <1>2, AppendProperties

LEMMA SeqTail ==
    ASSUME NEW S, NEW s \in Seq(S), s # <<>>
    PROVE  /\ Tail(s) \in Seq(S)
           /\ Len(s) \in Nat \ {0}
           /\ Len(Tail(s)) = Len(s) - 1
           /\ DOMAIN s = 1 .. Len(s) /\ DOMAIN Tail(s) = 1 .. Len(s) - 1
           /\ \A i \in 1 .. Len(s) - 1 : Tail(s)[i] = s[i + 1]
           /\ \A i \in 1 .. Len(s) : s[i] \in S
<1>1. Tail(s) \in Seq(S) /\ Len(Tail(s)) = Len(s) - 1
  BY HeadTailProperties
<1>2. DOMAIN s = 1 .. Len(s) /\ DOMAIN Tail(s) = 1 .. Len(s) - 1 /\ Len(s) \in Nat \ {0}
  BY <1>1, LenProperties, EmptySeq
<1> QED
  BY <1>1, <1>2, HeadTailProperties

\* Reading a message leaves the announcements behind it in order, and after it
\* if it is one.
LEMMA HeadsTail ==
    ASSUME NEW w \in Seq(Message), w # <<>>, NEW floor \in Nat, NEW n \in Nat,
           HeadsInOrder(w, floor, n)
    PROVE  /\ HeadsInOrder(Tail(w), floor, n)
           /\ w[1].kind = "head" => HeadsInOrder(Tail(w), w[1].serial, n)
<1>1. /\ Len(w) \in Nat \ {0} /\ DOMAIN w = 1 .. Len(w) /\ DOMAIN Tail(w) = 1 .. Len(w) - 1
      /\ \A i \in 1 .. Len(w) - 1 : Tail(w)[i] = w[i + 1]
      /\ \A i \in 1 .. Len(w) : w[i] \in Message
  BY SeqTail
<1>2. HeadsInOrder(Tail(w), floor, n)
  BY <1>1 DEF HeadsInOrder
<1>3. ASSUME w[1].kind = "head" PROVE HeadsInOrder(Tail(w), w[1].serial, n)
  <2>1. \A i \in 1 .. Len(w) - 1 : w[i + 1].kind = "head" => w[1].serial < w[i + 1].serial
    BY <1>1, <1>3 DEF HeadsInOrder
  <2>2. /\ w[1].serial \in Nat
        /\ \A i \in 1 .. Len(w) - 1 : w[i + 1].serial \in Nat
        /\ \A i \in 1 .. Len(w) - 1 : w[i + 1].kind = "head" => w[i + 1].serial \in floor + 1 .. n
    BY <1>1 DEF Message, HeadsInOrder
  <2>3. \A i \in DOMAIN Tail(w) :
           Tail(w)[i].kind = "head" => Tail(w)[i].serial \in w[1].serial + 1 .. n
    BY <1>1, <2>1, <2>2
  <2> QED
    BY <1>2, <2>3 DEF HeadsInOrder
<1> QED
  BY <1>2, <1>3

\* A message goes to the back: an announcement later than those before it, or
\* something else.
LEMMA HeadsAppend ==
    ASSUME NEW w \in Seq(Message), NEW m \in Message, NEW floor \in Nat, NEW n \in Nat,
           HeadsInOrder(w, floor, n), floor <= n,
           NEW k \in {n, n + 1}, m.kind = "head" => m.serial = n + 1 /\ k = n + 1
    PROVE  HeadsInOrder(Append(w, m), floor, k)
<1>1. /\ DOMAIN w = 1 .. Len(w) /\ DOMAIN Append(w, m) = 1 .. Len(w) + 1 /\ Len(w) \in Nat
      /\ \A i \in 1 .. Len(w) : Append(w, m)[i] = w[i]
      /\ Append(w, m)[Len(w) + 1] = m
      /\ \A i \in 1 .. Len(w) : w[i] \in Message
  BY SeqAppend, LenProperties
<1>2. \A i \in 1 .. Len(w) : w[i].kind = "head" => w[i].serial \in floor + 1 .. n
  BY <1>1 DEF HeadsInOrder
<1>3. \A i \in DOMAIN Append(w, m) :
         Append(w, m)[i].kind = "head" => Append(w, m)[i].serial \in floor + 1 .. k
  <2> SUFFICES ASSUME NEW i \in 1 .. Len(w) + 1, Append(w, m)[i].kind = "head"
               PROVE  Append(w, m)[i].serial \in floor + 1 .. k
    BY <1>1
  <2>1. CASE i \in 1 .. Len(w)
    BY <1>1, <1>2, <2>1
  <2>2. CASE i = Len(w) + 1
    BY <1>1, <2>2
  <2> QED
    BY <1>1, <2>1, <2>2
<1>4. ASSUME NEW i \in DOMAIN Append(w, m), NEW j \in DOMAIN Append(w, m), i < j,
             Append(w, m)[i].kind = "head", Append(w, m)[j].kind = "head"
      PROVE  Append(w, m)[i].serial < Append(w, m)[j].serial
  <2>1. i \in 1 .. Len(w) /\ (j \in 1 .. Len(w) \/ j = Len(w) + 1)
    BY <1>1, <1>4
  <2>2. CASE j \in 1 .. Len(w)
    BY <1>1, <1>4, <2>1, <2>2 DEF HeadsInOrder
  <2>3. CASE j = Len(w) + 1
    <3>1. w[i].serial \in floor + 1 .. n /\ m.serial = n + 1
      BY <1>1, <1>2, <1>4, <2>1, <2>3
    <3> QED
      BY <1>1, <2>1, <2>3, <3>1
  <2> QED
    BY <2>1, <2>2, <2>3
<1> QED
  BY <1>3, <1>4 DEF HeadsInOrder
-------------------------------------------------------------------------------
(***************************************************************************)
(* Every step preserves the invariant.                                     *)
(***************************************************************************)
LEMMA InitStream == Init => StreamInv
<1> SUFFICES ASSUME Init PROVE StreamInv
  OBVIOUS
<1>1. TypeOK
  <2>1. {isConnected, blocksClosed, stopCh, ctxDone} \subseteq BOOLEAN
    BY Zenon DEF Init
  <2> QED
    BY <2>1, AttemptsAssumption, CapAssumption, HeadsAssumption, EmptySeq DEF Init, TypeOK, NoHead
<1>2. DataOK
  BY EmptySeq DEF Init, DataOK, NoHead
<1>3. FlagsOK /\ ClosedOnlyByStop
  BY DEF Init, FlagsOK, ClosedOnlyByStop
<1>4. ControlOK
  BY DEF Init, ControlOK
<1>5. HeadsOK /\ AnswersOK
  BY EmptySeq DEF Init, HeadsOK, AnswersOK, HeadsInOrder
<1>6. Fits(height, body, head) /\ SentOK
  BY EmptySeq DEF Init, Fits, SentOK, DeliveredInOrder
<1> QED
  BY <1>1, <1>2, <1>3, <1>4, <1>5, <1>6 DEF StreamInv

\* What the node and the goroutine exchange is untouched by a step that moves
\* neither, unless the goroutine leaves a fetch on a connection that works.
LEMMA QuietData ==
    ASSUME StreamInv,
           UNCHANGED <<head, body, delivered, height, wire, pending>>,
           conn' = "open" => conn = "open" /\ (pc = "fetch" => pc' = "fetch")
    PROVE  HeadsOK' /\ AnswersOK' /\ Fits(height, body, head)' /\ SentOK'
<1>1. HeadsOK'
  BY DEF StreamInv, HeadsOK, Floor, Source!Last
<1>2. AnswersOK'
  BY DEF StreamInv, AnswersOK
<1>3. Fits(height, body, head)' /\ SentOK'
  BY DEF StreamInv, SentOK, DeliveredInOrder
<1> QED
  BY <1>1, <1>2, <1>3

LEMMA FlagsType ==
    ASSUME FlagsOK
    PROVE  {isConnected, blocksClosed, stopCh, ctxDone} \subseteq BOOLEAN
BY Zenon DEF FlagsOK

\* The steps of connectWithRetry, of the reconnect loop and of a failing read.
LEMMA RetryStep ==
    ASSUME StreamInv,
           DialSucceeds \/ DialFails \/ Backoff \/ CheckStop \/ Rest \/ ReadFails \/ FetchFails
    PROVE  StreamInv'
<1> USE DEF Dialling
<1>1. FlagsOK'
  BY Zenon DEF StreamInv, FlagsOK, DialSucceeds, DialFails, Backoff, CheckStop, Rest, ReadFails,
     FetchFails, connVars, chanVars, stopVars
<1>2. ClosedOnlyByStop'
  BY DEF StreamInv, ClosedOnlyByStop, DialSucceeds, DialFails, Backoff, CheckStop, Rest, ReadFails,
     FetchFails, connVars, chanVars, stopVars
<1>3. UNCHANGED <<head, body, delivered, height, wire, pending, blocks>>
  BY DEF DialSucceeds, DialFails, Backoff, CheckStop, Rest, ReadFails,
     FetchFails, connVars, chanVars, stopVars, headVars, nodeVars
<1>4. conn' = "open" => conn = "open" /\ (pc = "fetch" => pc' = "fetch")
  BY DEF StreamInv, TypeOK, DialSucceeds, DialFails, Backoff, CheckStop, Rest, ReadFails,
     FetchFails, connVars
<1>5. /\ pc' \in {"start", "startWait", "dial", "dialWait", "connected", "gaveUp", "rest",
               "check", "subscribe", "read", "request", "fetch", "deliver", "done"}
      /\ attempt' \in 1 .. MaxAttempts
      /\ conn' \in {"none", "open", "failed", "closed"}
  <2>1. CASE Backoff
    BY <2>1, AttemptsAssumption DEF StreamInv, TypeOK, ControlOK, Backoff
  <2>2. CASE DialFails
    BY <2>2, AttemptsAssumption DEF StreamInv, TypeOK, DialFails
  <2>3. CASE DialSucceeds \/ CheckStop \/ Rest \/ ReadFails \/ FetchFails
    BY <2>3 DEF StreamInv, TypeOK, DialSucceeds, CheckStop, Rest, ReadFails, FetchFails, connVars
  <2> QED
    BY <2>1, <2>2, <2>3
<1>6. TypeOK' /\ DataOK'
  <2>1. {isConnected, blocksClosed, stopCh, ctxDone}' \subseteq BOOLEAN
    BY <1>1, Zenon DEF FlagsOK
  <2> QED
    BY <1>3, <1>5, <2>1 DEF StreamInv, TypeOK, DataOK
<1>7. ControlOK'
  <2>1. pc' \in {"startWait", "dialWait"} => attempt' < MaxAttempts
    BY DEF StreamInv, TypeOK, ControlOK, DialSucceeds, DialFails, Backoff, CheckStop, Rest,
       ReadFails, FetchFails, connVars
  <2>2. /\ head' # NoHead <=> pc' \in {"request", "fetch", "deliver"}
        /\ body' # NoHead => pc' = "deliver"
    BY DEF StreamInv, ControlOK, DialSucceeds, DialFails, Backoff, CheckStop, Rest,
       ReadFails, FetchFails, headVars
  <2>3. blocksClosed' => pc' = "done"
    BY DEF StreamInv, ControlOK, DialSucceeds, DialFails, Backoff, CheckStop, Rest,
       ReadFails, FetchFails, chanVars
  <2>4. conn' = "open" /\ pending' = "block" => pc' = "fetch"
    BY <1>3, <1>4 DEF StreamInv, ControlOK
  <2> QED
    BY <2>1, <2>2, <2>3, <2>4 DEF ControlOK
<1> QED
  BY <1>1, <1>2, <1>3, <1>4, <1>6, <1>7, QuietData DEF StreamInv

\* Stop, the forwarder's receive and the loss of the connection.
LEMMA StopStep ==
    ASSUME StreamInv, Stop \/ Consume \/ LoseConnection
    PROVE  StreamInv'
<1> USE DEF Stop
<1>1. FlagsOK'
  BY Zenon DEF StreamInv, FlagsOK, CloseStopCh, Cancel, CloseConn, Consume, LoseConnection,
     connVars, chanVars, stopVars
<1>2. ClosedOnlyByStop'
  BY DEF StreamInv, ClosedOnlyByStop, CloseStopCh, Cancel, CloseConn, Consume, LoseConnection,
     connVars, chanVars, stopVars
<1>3. UNCHANGED <<pc, attempt, head, body, delivered, height, wire, pending, blocksClosed>>
  BY DEF CloseStopCh, Cancel, CloseConn, Consume, LoseConnection,
     connVars, chanVars, stopVars, headVars, nodeVars
<1>4. /\ conn' = "open" => conn = "open"
      /\ conn' \in {"none", "open", "failed", "closed"}
  BY DEF StreamInv, TypeOK, CloseStopCh, Cancel, CloseConn, Consume, LoseConnection, connVars
<1>5. blocks' \in Seq(Nat) /\ Len(blocks') <= Cap
  <2>1. CASE Consume
    BY <2>1, SeqTail, CapAssumption DEF StreamInv, TypeOK, DataOK, Consume
  <2>2. CASE ~Consume
    BY <2>2 DEF StreamInv, TypeOK, DataOK, CloseStopCh, Cancel, CloseConn, LoseConnection, chanVars
  <2> QED
    BY <2>1, <2>2
<1>6. TypeOK' /\ DataOK'
  <2>1. {isConnected, blocksClosed, stopCh, ctxDone}' \subseteq BOOLEAN
    BY <1>1, Zenon DEF FlagsOK
  <2> QED
    BY <1>3, <1>4, <1>5, <2>1 DEF StreamInv, TypeOK, DataOK
<1>7. ControlOK'
  BY <1>3, <1>4 DEF StreamInv, ControlOK
<1> QED
  BY <1>1, <1>2, <1>3, <1>4, <1>6, <1>7, QuietData DEF StreamInv

\* A new connection begins with nothing on the wire and nothing asked for.
LEMMA SetConnStep ==
    ASSUME StreamInv, SetConn
    PROVE  StreamInv'
<1>1. FlagsOK' /\ ClosedOnlyByStop'
  BY Zenon DEF StreamInv, FlagsOK, ClosedOnlyByStop, SetConn, chanVars, stopVars
<1>2. UNCHANGED <<head, body, delivered, height, blocks, blocksClosed>> /\ wire' = <<>>
  BY DEF SetConn, headVars, chanVars
<1>3. TypeOK' /\ DataOK'
  <2>1. {isConnected, blocksClosed, stopCh, ctxDone}' \subseteq BOOLEAN
    BY <1>1, Zenon DEF FlagsOK
  <2> QED
    BY <1>2, <2>1, EmptySeq, AttemptsAssumption DEF StreamInv, TypeOK, DataOK, SetConn
<1>4. ControlOK'
  <2>1. blocksClosed' => pc' = "done"
    BY <1>2 DEF StreamInv, ControlOK, SetConn
  <2> QED
    BY <1>2, <2>1 DEF StreamInv, ControlOK, SetConn
<1>5. HeadsOK' /\ AnswersOK'
  <2>1. DOMAIN wire' = {}
    BY <1>2, EmptySeq
  <2>2. Source!Last' = Source!Last
    BY <1>2 DEF Source!Last
  <2> QED
    BY <1>2, <2>1, <2>2 DEF StreamInv, HeadsOK, AnswersOK, HeadsInOrder
<1>6. Fits(height, body, head)' /\ SentOK'
  BY <1>2 DEF StreamInv, SentOK, DeliveredInOrder
<1> QED
  BY <1>1, <1>3, <1>4, <1>5, <1>6 DEF StreamInv

\* Writing a request.  A block is asked for when no earlier answer is left.
LEMMA WriteStep ==
    ASSUME StreamInv, Subscribe \/ Request
    PROVE  StreamInv'
<1>1. FlagsOK' /\ ClosedOnlyByStop'
  <2>1. UNCHANGED <<isConnected, blocksClosed, stopCh, ctxDone>>
    BY DEF Subscribe, Request, connVars, chanVars, stopVars
  <2> QED
    BY <2>1, Zenon DEF StreamInv, FlagsOK, ClosedOnlyByStop
<1>2. UNCHANGED <<head, body, delivered, height, wire, blocks, blocksClosed, conn, attempt>>
  BY DEF Subscribe, Request, headVars, connVars, chanVars
<1>3. /\ \/ pc = "subscribe" /\ pc' \in {"read", "check"}
         \/ pc = "request" /\ pc' \in {"fetch", "deliver"}
      /\ pending' \in {"subscription", "block", pending}
      /\ pc = "subscribe" => pending' \in {"subscription", pending}
      /\ conn = "open" /\ pc = "request" => pc' = "fetch"
  BY DEF Subscribe, Request, Write
<1>4. TypeOK' /\ DataOK'
  <2>1. {isConnected, blocksClosed, stopCh, ctxDone}' \subseteq BOOLEAN
    BY <1>1, Zenon DEF FlagsOK
  <2> QED
    BY <1>2, <1>3, <2>1 DEF StreamInv, TypeOK, DataOK
<1>5. ControlOK'
  <2>1. blocksClosed' => pc' = "done"
    BY <1>2, <1>3 DEF StreamInv, ControlOK
  <2> QED
    BY <1>2, <1>3, <2>1 DEF StreamInv, ControlOK
<1>6. AnswersOK'
  BY <1>2, <1>3 DEF StreamInv, AnswersOK
<1>7. HeadsOK' /\ Fits(height, body, head)' /\ SentOK'
  BY <1>2 DEF StreamInv, HeadsOK, Floor, Source!Last, SentOK, DeliveredInOrder
<1> QED
  BY <1>1, <1>4, <1>5, <1>6, <1>7 DEF StreamInv

LEMMA FloorType ==
    ASSUME StreamInv
    PROVE  /\ Len(height) \in Nat
           /\ Source!Last \in 0 .. Len(height) /\ Floor \in 0 .. Len(height)
           /\ head = NoHead => Floor = Source!Last
<1>1. Len(height) \in Nat
  BY LenProperties DEF StreamInv, DataOK
<1>2. Source!Last \in 0 .. Len(height)
  <2>1. CASE delivered = <<>>
    BY <1>1, <2>1 DEF Source!Last
  <2>2. CASE delivered # <<>>
    <3>1. Len(delivered) \in DOMAIN delivered
      BY <2>2, SeqTail DEF StreamInv, DataOK
    <3> QED
      BY <1>1, <2>2, <3>1 DEF StreamInv, SentOK, Source!Last
  <2> QED
    BY <2>1, <2>2
<1> QED
  BY <1>1, <1>2 DEF StreamInv, DataOK, Floor

\* What ReadMessage takes from the wire, and what it leaves there.
LEMMA Received ==
    ASSUME StreamInv, NEW m, Receive(m)
    PROVE  /\ m \in Message /\ wire' = Tail(wire) /\ wire' \in Seq(Message)
           /\ UNCHANGED <<pending, height>>
           /\ HeadsInOrder(wire', Floor, Len(height))
           /\ m.kind = "head" => /\ m.serial \in Floor + 1 .. Len(height)
                                 /\ HeadsInOrder(wire', m.serial, Len(height))
           /\ m.kind = "block" => /\ pc = "fetch" /\ pending # "block"
                                  /\ Fits(height, m.serial, head)
                                  /\ \A i \in DOMAIN wire' : wire'[i].kind # "block"
           /\ \A i \in DOMAIN wire' :
                 wire'[i].kind = "block" =>
                     /\ pc = "fetch" /\ pending # "block"
                     /\ Fits(height, wire'[i].serial, head)
                     /\ \A j \in DOMAIN wire' : wire'[j].kind = "block" => i = j
<1>1. /\ wire \in Seq(Message) /\ wire # <<>> /\ m = wire[1] /\ wire' = Tail(wire)
      /\ UNCHANGED <<pending, height>> /\ conn = "open"
  BY DEF StreamInv, DataOK, Receive
<1>2. /\ Len(wire) \in Nat \ {0} /\ DOMAIN wire = 1 .. Len(wire)
      /\ DOMAIN wire' = 1 .. Len(wire) - 1 /\ wire' \in Seq(Message) /\ m \in Message
      /\ \A i \in 1 .. Len(wire) - 1 : wire'[i] = wire[i + 1]
  BY <1>1, SeqTail
<1>3. /\ HeadsInOrder(wire', Floor, Len(height))
      /\ m.kind = "head" => HeadsInOrder(wire', m.serial, Len(height))
  BY <1>1, FloorType, HeadsTail DEF StreamInv, HeadsOK
<1>4. m.kind = "head" => m.serial \in Floor + 1 .. Len(height)
  BY <1>1, <1>2 DEF StreamInv, HeadsOK, HeadsInOrder
<1>5. \A i \in DOMAIN wire :
         wire[i].kind = "block" =>
             /\ pc = "fetch" /\ pending # "block"
             /\ Fits(height, wire[i].serial, head)
             /\ \A j \in DOMAIN wire : wire[j].kind = "block" => i = j
  BY <1>1 DEF StreamInv, AnswersOK
<1>6. ASSUME m.kind = "block"
      PROVE  /\ pc = "fetch" /\ pending # "block" /\ Fits(height, m.serial, head)
             /\ \A i \in DOMAIN wire' : wire'[i].kind # "block"
  <2>1. /\ pc = "fetch" /\ pending # "block" /\ Fits(height, m.serial, head)
        /\ \A j \in DOMAIN wire : wire[j].kind = "block" => 1 = j
    BY <1>1, <1>2, <1>5, <1>6
  <2> QED
    BY <1>2, <2>1
<1>7. \A i \in DOMAIN wire' :
         wire'[i].kind = "block" =>
             /\ pc = "fetch" /\ pending # "block"
             /\ Fits(height, wire'[i].serial, head)
             /\ \A j \in DOMAIN wire' : wire'[j].kind = "block" => i = j
  <2> SUFFICES ASSUME NEW i \in 1 .. Len(wire) - 1, wire'[i].kind = "block"
               PROVE  /\ pc = "fetch" /\ pending # "block"
                      /\ Fits(height, wire'[i].serial, head)
                      /\ \A j \in 1 .. Len(wire) - 1 : wire'[j].kind = "block" => i = j
    BY <1>2
  <2>1. /\ i + 1 \in DOMAIN wire /\ wire[i + 1] = wire'[i]
        /\ \A j \in 1 .. Len(wire) - 1 : j + 1 \in DOMAIN wire /\ wire[j + 1] = wire'[j]
    BY <1>2
  <2>2. \A j \in 1 .. Len(wire) - 1 : wire'[j].kind = "block" => i + 1 = j + 1
    BY <1>5, <2>1
  <2>3. pc = "fetch" /\ pending # "block" /\ Fits(height, wire'[i].serial, head)
    BY <1>5, <2>1
  <2> QED
    BY <2>2, <2>3
<1> QED
  BY <1>1, <1>2, <1>3, <1>4, <1>6, <1>7

\* The read loop.
LEMMA ReadHeadStep ==
    ASSUME StreamInv, ReadHead
    PROVE  StreamInv'
<1>1. UNCHANGED <<isConnected, blocksClosed, stopCh, ctxDone, body, conn, attempt, blocks, delivered>>
  BY DEF ReadHead, connVars, chanVars, stopVars
<1>2. FlagsOK' /\ ClosedOnlyByStop'
  BY <1>1, Zenon DEF StreamInv, FlagsOK, ClosedOnlyByStop
<1>3. PICK m : /\ Receive(m)
               /\ IF stopCh THEN pc' = "check" /\ UNCHANGED head
                  ELSE IF m.kind = "head" THEN pc' = "request" /\ head' = m.serial
                  ELSE UNCHANGED <<pc, head>>
  BY DEF ReadHead
<1>4. pc = "read" /\ head = NoHead /\ body = NoHead /\ Floor = Source!Last
  BY FloorType DEF ReadHead, StreamInv, ControlOK
<1>5. \/ pc' \in {"check", "read"} /\ head' = NoHead
      \/ pc' = "request" /\ head' = m.serial /\ m.kind = "head"
  BY <1>3, <1>4
<1>6. /\ m \in Message /\ wire' \in Seq(Message) /\ UNCHANGED <<pending, height>>
      /\ HeadsInOrder(wire', Floor, Len(height))
      /\ m.kind = "head" => /\ m.serial \in Floor + 1 .. Len(height)
                            /\ HeadsInOrder(wire', m.serial, Len(height))
      /\ \A i \in DOMAIN wire' : wire'[i].kind # "block"
  BY <1>3, <1>4, Received
<1>7. head' \in 0 .. Len(height)
  BY <1>4, <1>5, <1>6, FloorType DEF NoHead
<1>8. TypeOK' /\ DataOK'
  <2>1. {isConnected, blocksClosed, stopCh, ctxDone}' \subseteq BOOLEAN
    BY <1>2, Zenon DEF FlagsOK
  <2> QED
    BY <1>1, <1>5, <1>6, <1>7, <2>1 DEF StreamInv, TypeOK, DataOK
<1>9. ControlOK'
  <2>1. head' # NoHead <=> pc' = "request"
    BY <1>4, <1>5, <1>6, FloorType DEF NoHead
  <2>2. ~blocksClosed
    BY <1>4 DEF StreamInv, ControlOK
  <2> QED
    BY <1>1, <1>4, <1>5, <1>6, <2>1, <2>2 DEF StreamInv, ControlOK
<1>10. HeadsOK'
  <2>1. Source!Last' = Source!Last
    BY <1>1 DEF Source!Last
  <2>2. CASE head' = NoHead
    <3>1. Floor' = Floor
      BY <1>4, <2>1, <2>2 DEF Floor
    <3> QED
      BY <1>6, <2>2, <3>1 DEF HeadsOK
  <2>3. CASE head' # NoHead
    <3>1. head' = m.serial /\ m.kind = "head" /\ Floor' = m.serial
      BY <1>5, <2>3 DEF Floor
    <3>2. Source!Last < m.serial
      BY <1>4, <1>6, <3>1, FloorType
    <3> QED
      BY <1>6, <2>1, <2>3, <3>1, <3>2 DEF HeadsOK
  <2> QED
    BY <2>2, <2>3
<1>11. AnswersOK'
  BY <1>6 DEF AnswersOK
<1>12. Fits(height, body, head)' /\ SentOK'
  BY <1>1, <1>4, <1>6 DEF StreamInv, Fits, SentOK, DeliveredInOrder
<1> QED
  BY <1>2, <1>8, <1>9, <1>10, <1>11, <1>12 DEF StreamInv

\* fetchFullBlock reads a message: the answer, or one that is thrown away.
LEMMA FetchStep ==
    ASSUME StreamInv, Fetch
    PROVE  StreamInv'
<1>1. UNCHANGED <<isConnected, blocksClosed, stopCh, ctxDone, head, conn, attempt, blocks, delivered>>
  BY DEF Fetch, connVars, chanVars, stopVars
<1>2. FlagsOK' /\ ClosedOnlyByStop'
  BY <1>1, Zenon DEF StreamInv, FlagsOK, ClosedOnlyByStop
<1>3. PICK m : /\ Receive(m)
               /\ IF m.kind = "block" THEN pc' = "deliver" /\ body' = m.serial
                  ELSE UNCHANGED <<pc, body>>
  BY DEF Fetch
<1>4. pc = "fetch" /\ head # NoHead /\ body = NoHead /\ ~blocksClosed
  BY DEF Fetch, StreamInv, ControlOK
<1>5. /\ m \in Message /\ wire' \in Seq(Message) /\ UNCHANGED <<pending, height>>
      /\ HeadsInOrder(wire', Floor, Len(height))
  BY <1>3, Received
<1>6. \/ pc' = "fetch" /\ body' = NoHead
      \/ /\ pc' = "deliver" /\ body' = m.serial /\ m.kind = "block" /\ pending # "block"
         /\ Fits(height, m.serial, head) /\ \A i \in DOMAIN wire' : wire'[i].kind # "block"
  BY <1>3, <1>4, Received
<1>7. Fits(height, body, head)' /\ body' \in 0 .. Len(height)
  <2>1. m.serial \in Nat /\ Len(height) \in Nat
    BY <1>5, FloorType DEF Message
  <2> QED
    BY <1>1, <1>5, <1>6, <2>1 DEF Fits, NoHead, StreamInv, DataOK
<1>8. TypeOK' /\ DataOK'
  <2>1. {isConnected, blocksClosed, stopCh, ctxDone}' \subseteq BOOLEAN
    BY <1>2, Zenon DEF FlagsOK
  <2> QED
    BY <1>1, <1>5, <1>6, <1>7, <2>1 DEF StreamInv, TypeOK, DataOK
<1>9. ControlOK'
  BY <1>1, <1>4, <1>5, <1>6 DEF StreamInv, ControlOK
<1>10. HeadsOK'
  BY <1>1, <1>5 DEF StreamInv, HeadsOK, Floor, Source!Last
<1>11. AnswersOK'
  <2>1. \A i \in DOMAIN wire' :
           wire'[i].kind = "block" =>
               /\ pc = "fetch" /\ pending # "block"
               /\ Fits(height, wire'[i].serial, head)
               /\ \A j \in DOMAIN wire' : wire'[j].kind = "block" => i = j
    BY <1>3, Received
  <2> QED
    BY <1>1, <1>5, <1>6, <2>1 DEF AnswersOK
<1>12. SentOK'
  BY <1>1, <1>5 DEF StreamInv, SentOK, DeliveredInOrder
<1> QED
  BY <1>2, <1>7, <1>8, <1>9, <1>10, <1>11, <1>12 DEF StreamInv

\* A block goes to the channel, later than all before it; or it is dropped.
LEMMA DeliverStep ==
    ASSUME StreamInv, Deliver
    PROVE  StreamInv'
<1>1. UNCHANGED <<isConnected, blocksClosed, stopCh, ctxDone, conn, attempt, wire, pending, height>>
  BY DEF Deliver, connVars, stopVars, nodeVars
<1>2. FlagsOK' /\ ClosedOnlyByStop'
  BY <1>1, Zenon DEF StreamInv, FlagsOK, ClosedOnlyByStop
<1>3. /\ pc = "deliver" /\ head # NoHead /\ ~blocksClosed
      /\ head' = NoHead /\ body' = NoHead /\ pc' \in {"read", "check"}
  BY DEF Deliver, StreamInv, ControlOK
<1>4. /\ head \in 1 .. Len(height) /\ body \in Nat /\ Len(height) \in Nat
      /\ Source!Last < head /\ Floor = head
  BY <1>3, FloorType DEF StreamInv, DataOK, HeadsOK, Floor, NoHead
<1> DEFINE d == [head |-> head, body |-> body]
<1>5. CASE blocks' = Append(blocks, head) /\ delivered' = Append(delivered, d) /\ Len(blocks) < Cap
  <2>1. /\ delivered' \in Seq([head : Nat, body : Nat]) /\ Len(delivered) \in Nat
        /\ DOMAIN delivered = 1 .. Len(delivered) /\ Len(delivered') = Len(delivered) + 1
        /\ DOMAIN delivered' = 1 .. Len(delivered) + 1
        /\ \A i \in 1 .. Len(delivered) : delivered'[i] = delivered[i]
        /\ delivered'[Len(delivered) + 1] = d
        /\ delivered' # <<>>
    <3>1. delivered \in Seq([head : Nat, body : Nat]) /\ d \in [head : Nat, body : Nat]
      BY <1>4 DEF StreamInv, DataOK
    <3> QED
      BY <1>5, <3>1, SeqAppend, LenProperties
  <2>2. blocks' \in Seq(Nat) /\ Len(blocks') <= Cap
    BY <1>4, <1>5, SeqAppend, LenProperties, CapAssumption DEF StreamInv, DataOK
  <2>3. TypeOK' /\ DataOK'
    <3>1. {isConnected, blocksClosed, stopCh, ctxDone}' \subseteq BOOLEAN
      BY <1>2, Zenon DEF FlagsOK
    <3> QED
      BY <1>1, <1>3, <1>4, <2>1, <2>2, <3>1 DEF StreamInv, TypeOK, DataOK, NoHead
  <2>4. Source!Last' = head
    BY <2>1 DEF Source!Last
  <2>5. HeadsOK'
    BY <1>1, <1>3, <1>4, <2>4 DEF StreamInv, HeadsOK, Floor
  <2>6. \A i \in DOMAIN delivered : delivered[i].head < head
    <3> SUFFICES ASSUME NEW i \in 1 .. Len(delivered) PROVE delivered[i].head < head
      BY <2>1
    <3>1. delivered # <<>> /\ Len(delivered) \in DOMAIN delivered
      BY <2>1, EmptySeq
    <3>2. Source!Last = delivered[Len(delivered)].head
      BY <3>1 DEF Source!Last
    <3>3. delivered[i].head \in Nat /\ delivered[Len(delivered)].head \in Nat
      <4>1. \A k \in DOMAIN delivered : delivered[k].head \in 1 .. Len(height)
        BY DEF StreamInv, SentOK
      <4>2. i \in DOMAIN delivered
        BY <2>1
      <4> HIDE DEF d
      <4> QED
        BY <1>4, <3>1, <4>1, <4>2
    <3>4. i < Len(delivered) => delivered[i].head < delivered[Len(delivered)].head
      BY <2>1, <3>1 DEF StreamInv, SentOK, DeliveredInOrder
    <3>5. head \in Nat
      BY <1>4
    <3>6. delivered[Len(delivered)].head < head
      BY <1>4, <3>2, Zenon
    <3>7. Len(delivered) \in Nat
      BY <2>1, Zenon
    <3>8. i = Len(delivered) \/ i < Len(delivered)
      BY <3>7
    <3> QED
      BY <3>3, <3>4, <3>5, <3>6, <3>8
  <2>7. SentOK'
    <3>1. ASSUME NEW i \in DOMAIN delivered'
          PROVE  /\ delivered'[i].head \in 1 .. Len(height)
                 /\ Fits(height, delivered'[i].body, delivered'[i].head)
      <4>1. CASE i \in DOMAIN delivered
        BY <2>1, <4>1 DEF StreamInv, SentOK
      <4>2. CASE i = Len(delivered) + 1
        BY <1>4, <2>1, <4>2 DEF StreamInv
      <4> QED
        BY <2>1, <3>1, <4>1, <4>2
    <3>2. DeliveredInOrder'
      <4> SUFFICES ASSUME NEW i \in 1 .. Len(delivered) + 1, NEW j \in 1 .. Len(delivered) + 1, i < j
                   PROVE  delivered'[i].head < delivered'[j].head
        BY <2>1 DEF DeliveredInOrder
      <4>1. i \in DOMAIN delivered /\ delivered'[i] = delivered[i]
        BY <2>1
      <4>2. CASE j \in DOMAIN delivered
        BY <2>1, <4>1, <4>2 DEF StreamInv, SentOK, DeliveredInOrder
      <4>3. CASE j = Len(delivered) + 1
        BY <2>1, <2>6, <4>1, <4>3
      <4>4. Len(delivered) \in Nat /\ DOMAIN delivered = 1 .. Len(delivered)
        BY <2>1
      <4>5. j \in 1 .. Len(delivered) \/ j = Len(delivered) + 1
        BY <4>4
      <4> QED
        BY <4>2, <4>3, <4>4, <4>5, Zenon
    <3> QED
      BY <1>1, <3>1, <3>2 DEF SentOK
  <2> QED
    BY <1>1, <1>2, <1>3, <2>3, <2>5, <2>7 DEF StreamInv, ControlOK, AnswersOK, Fits
<1>6. CASE UNCHANGED <<blocks, delivered>>
  <2>1. TypeOK' /\ DataOK'
    <3>1. {isConnected, blocksClosed, stopCh, ctxDone}' \subseteq BOOLEAN
      BY <1>2, Zenon DEF FlagsOK
    <3> QED
      BY <1>1, <1>3, <1>4, <1>6, <3>1 DEF StreamInv, TypeOK, DataOK, NoHead
  <2>2. HeadsOK'
    <3>1. Floor' = Source!Last /\ Source!Last \in Nat
      BY <1>3, <1>6, FloorType DEF Floor, Source!Last
    <3>2. HeadsInOrder(wire, Source!Last, Len(height))
      BY <1>4, <3>1 DEF StreamInv, HeadsOK, HeadsInOrder
    <3> QED
      BY <1>1, <1>3, <3>1, <3>2 DEF HeadsOK
  <2>3. SentOK'
    BY <1>1, <1>6 DEF StreamInv, SentOK, DeliveredInOrder
  <2> QED
    BY <1>1, <1>2, <1>3, <2>1, <2>2, <2>3 DEF StreamInv, ControlOK, AnswersOK, Fits
<1> QED
  BY <1>5, <1>6 DEF Deliver

\* A growing record of heights changes none of what was known.
LEMMA FitsStays ==
    ASSUME NEW hs \in Seq(Nat), NEW n \in Nat, NEW b \in Nat, NEW h \in 1 .. Len(hs), Fits(hs, b, h)
    PROVE  Fits(Append(hs, n), b, h)
BY SeqAppend, LenProperties DEF Fits

\* A new head: it is later than everything on the wire.
LEMMA AnnounceStep ==
    ASSUME StreamInv, Announce
    PROVE  StreamInv'
<1>1. UNCHANGED <<isConnected, blocksClosed, stopCh, ctxDone, pc, head, body, conn, attempt, blocks,
                  delivered, pending>>
  BY DEF Announce, headVars, connVars, chanVars, stopVars
<1>2. FlagsOK' /\ ClosedOnlyByStop'
  BY <1>1, Zenon DEF StreamInv, FlagsOK, ClosedOnlyByStop
<1>3. height \in Seq(Nat) /\ Len(height) \in Nat /\ Tip \in Nat
  <2>1. height \in Seq(Nat) /\ Len(height) \in Nat
    BY LenProperties DEF StreamInv, DataOK
  <2>2. height # <<>> => height[Len(height)] \in Nat
    BY <2>1, SeqTail
  <2> QED
    BY <2>1, <2>2 DEF Tip
<1>4. PICK n \in Nat : height' = Append(height, n)
  BY <1>3 DEF Announce
<1>5. height' \in Seq(Nat) /\ Len(height') = Len(height) + 1 /\ Len(height') <= MaxHeads
  BY <1>3, <1>4, SeqAppend, HeadsAssumption DEF Announce
<1> DEFINE m == Announcement(Len(height'))
<1>6. m \in Message /\ m.kind = "head" /\ m.serial = Len(height) + 1
  BY <1>3, <1>5 DEF Announcement, Message
<1>7. wire' = wire \/ wire' = Append(wire, m)
  BY DEF Announce
<1> HIDE DEF m
<1>8. wire \in Seq(Message) /\ wire' \in Seq(Message)
  <2>1. wire \in Seq(Message)
    BY DEF StreamInv, DataOK
  <2> QED
    BY <1>6, <1>7, <2>1, SeqAppend
<1>9. TypeOK' /\ DataOK'
  <2>1. {isConnected, blocksClosed, stopCh, ctxDone}' \subseteq BOOLEAN
    BY <1>2, Zenon DEF FlagsOK
  <2>2. head' \in 0 .. Len(height') /\ body' \in 0 .. Len(height')
    BY <1>1, <1>3, <1>5 DEF StreamInv, DataOK
  <2> QED
    BY <1>1, <1>5, <1>8, <2>1, <2>2 DEF StreamInv, TypeOK, DataOK
<1>10. ControlOK'
  BY <1>1, Zenon DEF StreamInv, ControlOK
<1>11. HeadsOK'
  <2>1. Floor' = Floor /\ Source!Last' = Source!Last /\ Floor \in 0 .. Len(height)
    BY <1>1, FloorType DEF Floor, Source!Last
  <2>2. HeadsInOrder(wire, Floor, Len(height))
    BY DEF StreamInv, HeadsOK
  <2>3. HeadsInOrder(wire', Floor, Len(height'))
    <3>1. CASE wire' = wire
      BY <1>3, <1>5, <2>1, <2>2, <3>1 DEF HeadsInOrder
    <3>2. CASE wire' = Append(wire, m)
      BY <1>3, <1>5, <1>6, <1>8, <2>1, <2>2, <3>2, HeadsAppend
    <3> QED
      BY <1>7, <3>1, <3>2
  <2> QED
    BY <1>1, <2>1, <2>3 DEF StreamInv, HeadsOK
<1>12. AnswersOK'
  <2> SUFFICES ASSUME conn = "open", NEW i \in DOMAIN wire', wire'[i].kind = "block"
               PROVE  /\ pc = "fetch" /\ pending # "block"
                      /\ Fits(height', wire'[i].serial, head)
                      /\ \A j \in DOMAIN wire' : wire'[j].kind = "block" => i = j
    BY <1>1 DEF AnswersOK
  <2>1. \A k \in DOMAIN wire' : wire'[k].kind = "block" => k \in DOMAIN wire /\ wire'[k] = wire[k]
    <3>1. CASE wire' = wire
      BY <3>1
    <3>2. CASE wire' = Append(wire, m)
      <4>1. /\ Len(wire) \in Nat /\ DOMAIN wire = 1 .. Len(wire)
            /\ DOMAIN wire' = 1 .. Len(wire) + 1 /\ wire'[Len(wire) + 1] = m
            /\ \A k \in 1 .. Len(wire) : wire'[k] = wire[k]
        BY <1>6, <1>8, <3>2, SeqAppend, LenProperties
      <4> QED
        BY <1>6, <4>1
    <3> QED
      BY <1>7, <3>1, <3>2
  <2>2. /\ pc = "fetch" /\ pending # "block"
        /\ Fits(height, wire[i].serial, head)
        /\ \A j \in DOMAIN wire : wire[j].kind = "block" => i = j
    BY <2>1 DEF StreamInv, AnswersOK
  <2>3. head \in 1 .. Len(height) /\ wire[i].serial \in Nat
    <3>1. head # NoHead
      BY <2>2 DEF StreamInv, ControlOK
    <3>2. wire[i] \in Message
      BY <1>8, <2>1, ElementOfSeq, LenProperties
    <3> QED
      BY <1>3, <3>1, <3>2 DEF StreamInv, DataOK, NoHead, Message
  <2>4. Fits(height', wire[i].serial, head)
    BY <1>3, <1>4, <2>2, <2>3, FitsStays
  <2> QED
    BY <2>1, <2>2, <2>4
<1>13. Fits(height, body, head)'
  <2>1. CASE body = NoHead
    BY <1>1, <2>1 DEF Fits
  <2>2. CASE body # NoHead
    <3>1. head \in 1 .. Len(height) /\ body \in Nat
      BY <1>3, <2>2 DEF StreamInv, ControlOK, DataOK, NoHead
    <3> QED
      BY <1>1, <1>3, <1>4, <3>1, FitsStays DEF StreamInv
  <2> QED
    BY <2>1, <2>2
<1>14. SentOK'
  <2>1. ASSUME NEW i \in DOMAIN delivered
        PROVE  /\ delivered[i].head \in 1 .. Len(height')
               /\ Fits(height', delivered[i].body, delivered[i].head)
    <3>1. delivered[i].head \in 1 .. Len(height) /\ Fits(height, delivered[i].body, delivered[i].head)
      BY <2>1 DEF StreamInv, SentOK
    <3>2. delivered[i] \in [head : Nat, body : Nat]
      BY <2>1, ElementOfSeq, LenProperties DEF StreamInv, DataOK
    <3> QED
      BY <1>3, <1>4, <1>5, <3>1, <3>2, FitsStays
  <2> QED
    BY <1>1, <2>1 DEF StreamInv, SentOK, DeliveredInOrder
<1> QED
  BY <1>2, <1>9, <1>10, <1>11, <1>12, <1>13, <1>14 DEF StreamInv

\* The block the node has at a height was announced no earlier than any other
\* of that height.
LEMMA CanonicalFits ==
    ASSUME height \in Seq(Nat), NEW h \in 1 .. Len(height)
    PROVE  Canonical(height[h]) \in Nat /\ Fits(height, Canonical(height[h]), h)
<1> DEFINE at == {s \in DOMAIN height :
                     height[s] = height[h] /\ \A t \in s + 1 .. Len(height) : height[t] > height[h]}
<1>1. Len(height) \in Nat /\ DOMAIN height = 1 .. Len(height) /\ height[h] \in Nat
  BY LenProperties, ElementOfSeq
<1>2. CASE at = {}
  BY <1>2 DEF Canonical, Fits, NoHead
<1>3. CASE at # {}
  <2>1. Canonical(height[h]) \in at
    BY <1>3 DEF Canonical
  <2>2. ASSUME NEW s \in at PROVE s \in h .. Len(height) /\ height[s] = height[h] /\ s \in Nat
    <3>1. ~(h > s)
      <4> SUFFICES ASSUME h > s PROVE FALSE
        OBVIOUS
      <4>1. h \in s + 1 .. Len(height)
        BY <1>1, <2>2
      <4>2. height[h] > height[h]
        BY <2>2, <4>1
      <4> QED
        BY <1>1, <4>2
    <3> QED
      BY <1>1, <2>2, <3>1
  <2> HIDE DEF at
  <2> QED
    BY <2>1, <2>2 DEF Fits
<1> QED
  BY <1>2, <1>3

\* The node answers: with a block only while the fetch waits for it.
LEMMA AnswerStep ==
    ASSUME StreamInv, Answer
    PROVE  StreamInv'
<1>1. UNCHANGED <<isConnected, blocksClosed, stopCh, ctxDone, pc, head, body, conn, attempt, blocks,
                  delivered, height>>
  BY DEF Answer, headVars, connVars, chanVars, stopVars
<1>2. FlagsOK' /\ ClosedOnlyByStop'
  BY <1>1, Zenon DEF StreamInv, FlagsOK, ClosedOnlyByStop
<1>3. /\ conn = "open" /\ pending \in {"subscription", "block"} /\ pending' = "nothing"
      /\ wire \in Seq(Message) /\ height \in Seq(Nat) /\ Len(height) \in Nat
  BY FloorType DEF Answer, StreamInv, DataOK
<1>4. pending = "block" => pc = "fetch" /\ head \in 1 .. Len(height)
  <2>1. pending = "block" => pc = "fetch" /\ head # NoHead
    BY <1>3 DEF StreamInv, ControlOK
  <2> QED
    BY <1>3, <2>1 DEF StreamInv, DataOK, NoHead
<1>5. PICK serial : /\ wire' = Append(wire, Answered(pending, serial))
                    /\ serial \in Nat
                    /\ pending = "block" => Fits(height, serial, head)
  <2>1. PICK serial \in IF pending = "block" /\ head # NoHead
                        THEN {Canonical(height[head]), NoHead} ELSE {NoHead} :
                wire' = Append(wire, Answered(pending, serial))
    BY DEF Answer
  <2>2. serial = NoHead \/ (pending = "block" /\ serial = Canonical(height[head]))
    BY <2>1
  <2> QED
    BY <1>3, <1>4, <2>1, <2>2, CanonicalFits DEF Fits, NoHead
<1> DEFINE m == Answered(pending, serial)
<1>6. m \in Message /\ m.kind = pending /\ m.serial = serial /\ m.kind # "head"
  BY <1>3, <1>5 DEF Answered, Message
<1> HIDE DEF m
<1>7. /\ wire' \in Seq(Message) /\ Len(wire) \in Nat /\ DOMAIN wire = 1 .. Len(wire)
      /\ DOMAIN wire' = 1 .. Len(wire) + 1 /\ wire'[Len(wire) + 1] = m
      /\ \A k \in 1 .. Len(wire) : wire'[k] = wire[k]
  BY <1>3, <1>5, <1>6, SeqAppend, LenProperties DEF m
<1>8. TypeOK' /\ DataOK'
  <2>1. {isConnected, blocksClosed, stopCh, ctxDone}' \subseteq BOOLEAN
    BY <1>2, Zenon DEF FlagsOK
  <2> QED
    BY <1>1, <1>3, <1>7, <2>1 DEF StreamInv, TypeOK, DataOK
<1>9. ControlOK'
  BY <1>1, <1>3 DEF StreamInv, ControlOK
<1>10. HeadsOK'
  <2>1. Floor' = Floor /\ Source!Last' = Source!Last /\ Floor \in 0 .. Len(height)
    BY <1>1, FloorType DEF Floor, Source!Last
  <2>2. HeadsInOrder(wire, Floor, Len(height))
    BY DEF StreamInv, HeadsOK
  <2>3. HeadsInOrder(wire', Floor, Len(height))
    BY <1>3, <1>5, <1>6, <2>1, <2>2, HeadsAppend DEF m
  <2> QED
    BY <1>1, <2>1, <2>3 DEF StreamInv, HeadsOK
<1>11. AnswersOK'
  <2>1. CASE pending = "block"
    <3>1. \A i \in DOMAIN wire : wire[i].kind # "block"
      BY <1>3, <2>1 DEF StreamInv, AnswersOK
    <3>2. \A i \in DOMAIN wire' : wire'[i].kind = "block" => i = Len(wire) + 1 /\ wire'[i] = m
      BY <1>7, <3>1
    <3> QED
      BY <1>1, <1>3, <1>4, <1>5, <1>6, <2>1, <3>2 DEF AnswersOK
  <2>2. CASE pending # "block"
    <3>1. \A i \in DOMAIN wire' :
             wire'[i].kind = "block" => i \in DOMAIN wire /\ wire'[i] = wire[i]
      BY <1>6, <1>7, <2>2
    <3> QED
      BY <1>1, <1>3, <3>1 DEF StreamInv, AnswersOK
  <2> QED
    BY <2>1, <2>2
<1>12. Fits(height, body, head)' /\ SentOK'
  BY <1>1 DEF StreamInv, SentOK, DeliveredInOrder
<1> QED
  BY <1>2, <1>8, <1>9, <1>10, <1>11, <1>12 DEF StreamInv

LEMMA NextStream == StreamInv /\ [Next]_vars => StreamInv'
<1> SUFFICES ASSUME StreamInv, [Next]_vars PROVE StreamInv'
  OBVIOUS
<1>1. CASE Next
  BY <1>1, RetryStep, StopStep, SetConnStep, WriteStep, ReadHeadStep, FetchStep, DeliverStep,
     AnnounceStep, AnswerStep DEF Next, Stream
<1>2. CASE UNCHANGED vars
  <2>1. /\ UNCHANGED <<pc, attempt, conn, head, body, blocks, delivered, wire, pending, height>>
        /\ UNCHANGED <<isConnected, blocksClosed, stopCh, ctxDone>>
    BY <1>2 DEF vars, headVars, connVars, chanVars, stopVars, nodeVars
  <2>2. FlagsOK' /\ ClosedOnlyByStop' /\ ControlOK'
    BY <2>1, Zenon DEF StreamInv, FlagsOK, ClosedOnlyByStop, ControlOK
  <2>3. TypeOK' /\ DataOK'
    <3>1. {isConnected, blocksClosed, stopCh, ctxDone}' \subseteq BOOLEAN
      BY <2>2, Zenon DEF FlagsOK
    <3> QED
      BY <2>1, <3>1 DEF StreamInv, TypeOK, DataOK
  <2> QED
    BY <2>1, <2>2, <2>3, QuietData DEF StreamInv
<1> QED
  BY <1>1, <1>2
-------------------------------------------------------------------------------
(***************************************************************************)
(* Theorems.                                                               *)
(***************************************************************************)
LEMMA StreamInvCorrect == Spec => []StreamInv
BY InitStream, NextStream, PTL DEF Spec

\* Every variable of the streamer keeps its type: in particular there are
\* never more than MaxAttempts attempts nor more than Cap blocks waiting.
THEOREM StreamerTypeCorrect == Spec => []TypeOK
BY StreamInvCorrect, PTL DEF StreamInv

\* s.blocks is closed only after Stop has closed stopCh, whatever the
\* connection does.
THEOREM ClosedCorrect == Spec => []ClosedOnlyByStop
BY StreamInvCorrect, PTL DEF StreamInv

\* streamBlocks sends blocks in the order of their announcements, each once,
\* through any number of reconnections and of announcements thrown away by
\* fetchFullBlock.
THEOREM OrderCorrect == Spec => []DeliveredInOrder
BY StreamInvCorrect, PTL DEF StreamInv, SentOK

\* fetchFullBlock never takes the answer to an earlier request for its own,
\* although all requests have the same id: what goes out with a header are the
\* transactions of a block of its height, not older than it.
THEOREM BodyCorrect == Spec => []BodyFitsHead
<1>1. StreamInv => BodyFitsHead
  <2> SUFFICES ASSUME StreamInv, NEW i \in DOMAIN delivered, delivered[i].body # NoHead
               PROVE  delivered[i].body >= delivered[i].head
                      /\ height[delivered[i].body] = height[delivered[i].head]
    BY DEF BodyFitsHead
  <2>1. Fits(height, delivered[i].body, delivered[i].head) /\ delivered[i].head \in 1 .. Len(height)
    BY DEF StreamInv, SentOK
  <2> QED
    BY <2>1, FloorType DEF Fits
<1> QED
  BY <1>1, StreamInvCorrect, PTL

\* The streamer, with its sockets, retries, deadlines and reconnections,
\* implements the channel of blocks that the rest of the program relies on.
THEOREM StreamerRefines == Spec => ImplementsBlockSource
<1>1. Init => Source!Init
  BY DEF Init, Source!Init
<1>2. ASSUME StreamInv, [Next]_vars PROVE [Source!Next]_(Source!vars)
  <2>1. CASE Announce
    <3>1. UNCHANGED <<delivered, blocksClosed>>
      BY <2>1 DEF Announce, chanVars
    <3> QED
      BY <2>1, <3>1 DEF Announce, Tip, Source!Next, Source!Announce, Source!Tip
  <2>2. CASE Deliver
    <3>1. UNCHANGED <<height, blocksClosed>> /\ ~blocksClosed /\ head # NoHead
      BY <1>2, <2>2 DEF Deliver, nodeVars, StreamInv, ControlOK
    <3>2. head \in Source!Last + 1 .. Len(height)
      BY <1>2, <3>1, FloorType DEF StreamInv, DataOK, HeadsOK, NoHead
    <3>3. body \in {NoHead} \cup {u \in head .. Len(height) : height[u] = height[head]}
      BY <1>2 DEF StreamInv, Fits
    <3>4. CASE delivered' = Append(delivered, [head |-> head, body |-> body])
      BY <3>1, <3>2, <3>3, <3>4 DEF Source!Next, Source!Deliver
    <3>5. CASE delivered' = delivered
      BY <3>1, <3>5 DEF Source!vars
    <3> QED
      BY <2>2, <3>4, <3>5 DEF Deliver
  <2>3. CASE CheckStop \/ Rest
    <3>1. /\ UNCHANGED <<height, delivered>>
          /\ blocksClosed' = TRUE \/ blocksClosed' = blocksClosed
      BY <2>3 DEF CheckStop, Rest, nodeVars
    <3> QED
      BY <3>1, Zenon DEF Source!Next, Source!Close, Source!vars
  <2>4. ASSUME \/ DialSucceeds \/ SetConn \/ DialFails \/ Backoff \/ Subscribe \/ ReadHead
               \/ ReadFails \/ Request \/ Fetch \/ FetchFails \/ Consume \/ Stop \/ Answer
               \/ LoseConnection
        PROVE  UNCHANGED Source!vars
    <3>1. CASE ReadHead \/ Fetch
      BY <3>1 DEF ReadHead, Fetch, Receive, chanVars, Source!vars
    <3>2. CASE ~(ReadHead \/ Fetch)
      BY <2>4, <3>2 DEF DialSucceeds, SetConn, DialFails, Backoff, Subscribe, ReadFails, Request,
         FetchFails, Consume, Stop, CloseStopCh, Cancel, CloseConn, Answer, LoseConnection,
         chanVars, nodeVars, Source!vars
    <3> QED
      BY <3>1, <3>2
  <2>5. CASE UNCHANGED vars
    BY <2>5 DEF vars, chanVars, nodeVars, Source!vars
  <2> QED
    BY <1>2, <2>1, <2>2, <2>3, <2>4, <2>5 DEF Next, Stream
<1> QED
  BY <1>1, <1>2, StreamInvCorrect, PTL DEF Spec, Source!Spec, ImplementsBlockSource
===============================================================================
