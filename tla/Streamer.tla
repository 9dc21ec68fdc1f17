------------------------------- MODULE Streamer -------------------------------
(***************************************************************************)
(* The block streamer (internal/streamer/streamer.go): one goroutine that  *)
(* subscribes to new heads on a WebSocket, asks for the full block of each *)
(* head on the same socket, and reconnects when the socket fails; Stop, in *)
(* another goroutine; and the Ethereum node (external), which announces    *)
(* heads, answers requests, and may lose the connection at any time.       *)
(*                                                                         *)
(* An announcement is its serial, its place in the order of announcement;  *)
(* height maps serials to block numbers.  A block that goes out has the    *)
(* header of one announcement and the transactions of the block that the   *)
(* node answered with, which is named by the serial of its announcement.   *)
(***************************************************************************)
EXTENDS Integers, Sequences

CONSTANTS
    MaxAttempts,  \* maxAttempts of connectWithRetry, 5 in the code
    Cap,          \* capacity of the blocks channel, 100 in the code
    MaxHeads      \* bound: heads announced in a behaviour

ASSUME AttemptsAssumption == MaxAttempts \in Nat \ {0}
ASSUME CapAssumption == Cap \in Nat
ASSUME HeadsAssumption == MaxHeads \in Nat

VARIABLES
    pc,           \* where the streaming goroutine (before that, Start) is
    attempt,      \* the current attempt of connectWithRetry
    conn,         \* s.conn: "none", "open", "failed" (reads fail for good), "closed"
    isConnected,  \* s.isConnected
    head,         \* the announcement being turned into a block
    body,         \* the block whose transactions go with it, or NoHead
    blocks,       \* contents of s.blocks
    blocksClosed, \* s.blocks is closed
    stopCh,       \* s.stopCh is closed
    ctxDone,      \* s.ctx is cancelled
    stop,         \* progress of the goroutine that calls Stop
    wire,         \* messages on their way to the streamer
    pending,      \* what the node has been asked and has not answered yet
    height,       \* the block numbers of the heads announced so far
    taken,        \* history variable: serials of the announcements read
    delivered     \* history variable: every block sent to s.blocks, in order

headVars == <<head, body>>
connVars == <<attempt, conn, isConnected>>
chanVars == <<blocks, blocksClosed, delivered>>
stopVars == <<stopCh, ctxDone, stop>>
nodeVars == <<wire, pending, height, taken>>
vars == <<pc, headVars, connVars, chanVars, stopVars, nodeVars>>

\* Messages: an announcement, the answer to eth_subscribe (id 1), and the
\* answer to eth_getBlockByNumber (id 2), which is the block or an error.
NoHead == 0
Announcement(serial) == [kind |-> "head", serial |-> serial]
Answered(request, serial) == [kind |-> request, serial |-> serial]

Init ==
    /\ pc = "start" /\ attempt = 1 /\ conn = "none" /\ isConnected = FALSE
    /\ head = NoHead /\ body = NoHead
    /\ blocks = <<>> /\ blocksClosed = FALSE /\ delivered = <<>>
    /\ stopCh = FALSE /\ ctxDone = FALSE /\ stop = "notCalled"
    /\ wire = <<>> /\ pending = "noSubscription" /\ height = <<>> /\ taken = {}
-------------------------------------------------------------------------------
(***************************************************************************)
(* connectWithRetry, called by Start ("start", "startWait") and by the     *)
(* reconnect loop ("dial", "dialWait").  A dial under a cancelled context  *)
(* fails; one that has succeeded is stored in a step of its own.           *)
(***************************************************************************)
Dialling == pc \in {"start", "dial"}

DialSucceeds ==
    /\ Dialling /\ ~ctxDone
    /\ pc' = "connected"
    /\ UNCHANGED <<headVars, connVars, chanVars, stopVars, nodeVars>>

SetConn ==
    /\ pc = "connected"
    /\ pc' = "subscribe"
    /\ conn' = "open" /\ isConnected' = TRUE /\ attempt' = 1
    /\ wire' = <<>> /\ pending' = "noSubscription"
    /\ UNCHANGED <<headVars, chanVars, stopVars, height, taken>>

\* Mutants of DialFails: one attempt too many; the reconnect loop gives up.
DialOnceMore ==
    /\ Dialling
    /\ pc' = IF pc = "start" THEN "startWait" ELSE "dialWait"
    /\ attempt <= MaxAttempts
    /\ UNCHANGED <<headVars, attempt, conn, isConnected, chanVars, stopVars, nodeVars>>
DialGivesUp ==
    /\ Dialling
    /\ IF attempt < MaxAttempts
       THEN /\ pc' = IF pc = "start" THEN "startWait" ELSE "dialWait"
            /\ UNCHANGED <<attempt, blocksClosed>>
       ELSE /\ pc' = IF pc = "start" THEN "gaveUp" ELSE "done"
            /\ attempt' = 1 /\ blocksClosed' = (pc = "dial")
    /\ UNCHANGED <<headVars, conn, isConnected, blocks, delivered, stopVars, nodeVars>>

\* After the last attempt Start gives up; the reconnect loop rests and tries
\* again.
DialFails ==
    /\ Dialling
    /\ IF attempt < MaxAttempts
       THEN /\ pc' = IF pc = "start" THEN "startWait" ELSE "dialWait"
            /\ UNCHANGED attempt
       ELSE /\ pc' = IF pc = "start" THEN "gaveUp" ELSE "rest"
            /\ attempt' = 1
    /\ UNCHANGED <<headVars, conn, isConnected, chanVars, stopVars, nodeVars>>

\* The timer of a select is new when the select begins, so it fires only
\* while stopCh is open.
Backoff ==
    /\ pc \in {"startWait", "dialWait"}
    /\ \/ /\ ~stopCh
          /\ pc' = IF pc = "startWait" THEN "start" ELSE "dial"
          /\ attempt' = attempt + 1
       \/ /\ stopCh
          /\ pc' = "rest"
          /\ attempt' = 1
    /\ UNCHANGED <<headVars, conn, isConnected, chanVars, stopVars, nodeVars>>

(***************************************************************************)
(* streamWithReconnect, after streamBlocks has returned, and between two   *)
(* calls of connectWithRetry.                                              *)
(***************************************************************************)
CheckStop ==
    /\ pc = "check"
    /\ \/ /\ stopCh
          /\ pc' = "done"
          /\ blocksClosed' = TRUE
          /\ UNCHANGED isConnected
       \/ /\ ~stopCh
          /\ pc' = "rest"
          /\ isConnected' = FALSE
          /\ UNCHANGED blocksClosed
    /\ UNCHANGED <<headVars, attempt, conn, blocks, delivered, stopVars, nodeVars>>

Rest ==
    /\ pc = "rest"
    /\ \/ /\ stopCh
          /\ pc' = "done"
          /\ blocksClosed' = TRUE
       \/ /\ ~stopCh
          /\ pc' = "dial"
          /\ UNCHANGED blocksClosed
    /\ UNCHANGED <<headVars, connVars, blocks, delivered, stopVars, nodeVars>>

(***************************************************************************)
(* streamBlocks.                                                           *)
(***************************************************************************)
\* A write goes out on an open connection; on a failed one it may seem to.
Write(request, ok, failed) ==
    \/ /\ conn = "open"
       /\ pc' = ok /\ pending' = request
    \/ /\ conn = "failed"
       /\ pc' = ok /\ UNCHANGED pending
    \/ /\ conn # "open"
       /\ pc' = failed /\ UNCHANGED pending

Subscribe ==
    /\ pc = "subscribe"
    /\ Write("subscription", "read", "check")
    /\ UNCHANGED <<headVars, connVars, chanVars, stopVars, wire, height, taken>>

\* ReadMessage.
Receive(m) ==
    /\ conn = "open" /\ wire # <<>>
    /\ m = wire[1] /\ wire' = Tail(wire)
    /\ taken' = IF m.kind = "head" THEN taken \cup {m.serial} ELSE taken
    /\ UNCHANGED <<pending, height>>

\* The read loop: a message that is no announcement is skipped.
ReadHead ==
    /\ pc = "read"
    /\ \E m \in {wire[i] : i \in DOMAIN wire} :
          /\ Receive(m)
          /\ IF stopCh THEN pc' = "check" /\ UNCHANGED head
             ELSE IF m.kind = "head" THEN pc' = "request" /\ head' = m.serial
             ELSE UNCHANGED <<pc, head>>
    /\ UNCHANGED <<body, connVars, chanVars, stopVars>>

\* Mutant of ReadFails: the loop goes on after an error.
ReadErrorSkipped ==
    /\ pc = "read" /\ conn # "open"
    /\ isConnected' = FALSE
    /\ UNCHANGED <<pc, headVars, attempt, conn, chanVars, stopVars, nodeVars>>

ReadFails ==
    /\ pc = "read" /\ conn # "open"
    /\ pc' = "check"
    /\ isConnected' = IF stopCh THEN isConnected ELSE FALSE
    /\ UNCHANGED <<headVars, attempt, conn, chanVars, stopVars, nodeVars>>

\* fetchFullBlock.  Without an answer the block goes out without transactions.
Request ==
    /\ pc = "request"
    /\ Write("block", "fetch", "deliver")
    /\ UNCHANGED <<headVars, connVars, chanVars, stopVars, wire, height, taken>>

\* Mutant of Fetch: what is not the answer goes to the back of the queue.
FetchRequeues ==
    /\ pc = "fetch" /\ conn = "open" /\ wire # <<>>
    /\ LET m == wire[1]
       IN  IF m.kind = "block" THEN pc' = "deliver" /\ body' = m.serial /\ wire' = Tail(wire)
           ELSE wire' = Append(Tail(wire), m) /\ UNCHANGED <<pc, body>>
    /\ UNCHANGED <<head, connVars, chanVars, stopVars, pending, height, taken>>

\* Whatever is not the answer is read and thrown away, announcements too.
Fetch ==
    /\ pc = "fetch"
    /\ \E m \in {wire[i] : i \in DOMAIN wire} :
          /\ Receive(m)
          /\ IF m.kind = "block" THEN pc' = "deliver" /\ body' = m.serial
             ELSE UNCHANGED <<pc, body>>
    /\ UNCHANGED <<head, connVars, chanVars, stopVars>>

\* Mutant of FetchFails: after a deadline the connection is used again.
FetchGivesUp ==
    /\ pc = "fetch"
    /\ pc' = "deliver"
    /\ UNCHANGED <<headVars, connVars, chanVars, stopVars, nodeVars>>

\* The read fails or its deadline passes; after that every read fails.
FetchFails ==
    /\ pc = "fetch"
    /\ pc' = "deliver"
    /\ conn' = IF conn = "open" THEN "failed" ELSE conn
    /\ UNCHANGED <<headVars, attempt, isConnected, chanVars, stopVars, nodeVars>>

Deliver ==
    /\ pc = "deliver"
    /\ \/ /\ Len(blocks) < Cap
          /\ pc' = "read"
          /\ blocks' = Append(blocks, head)
          /\ delivered' = Append(delivered, [head |-> head, body |-> body])
       \/ /\ stopCh
          /\ pc' = "check"
          /\ UNCHANGED <<blocks, delivered>>
    /\ head' = NoHead /\ body' = NoHead
    /\ UNCHANGED <<connVars, blocksClosed, stopVars, nodeVars>>

\* The goroutine in main that forwards to the worker pool.
Consume ==
    /\ blocks # <<>>
    /\ blocks' = Tail(blocks)
    /\ UNCHANGED <<pc, headVars, connVars, blocksClosed, delivered, stopVars, nodeVars>>
-------------------------------------------------------------------------------
(***************************************************************************)
(* Stop, which main calls only after Start has returned.                   *)
(***************************************************************************)
CloseStopCh ==
    /\ stop = "notCalled" /\ pc \notin {"start", "startWait"}
    /\ conn = "none" => pc = "gaveUp"
    /\ stop' = "cancel" /\ stopCh' = TRUE
    /\ UNCHANGED <<pc, headVars, connVars, chanVars, ctxDone, nodeVars>>

Cancel ==
    /\ stop = "cancel"
    /\ stop' = "close" /\ ctxDone' = TRUE
    /\ UNCHANGED <<pc, headVars, connVars, chanVars, stopCh, nodeVars>>

\* Mutant of CloseConn: the connection is left to the reader.
LeaveConn ==
    /\ stop = "close"
    /\ stop' = "returned" /\ isConnected' = FALSE
    /\ UNCHANGED <<pc, attempt, conn, headVars, chanVars, stopCh, ctxDone, nodeVars>>

CloseConn ==
    /\ stop = "close"
    /\ stop' = "returned"
    /\ IF conn = "none" THEN UNCHANGED <<conn, isConnected>>
       ELSE conn' = "closed" /\ isConnected' = FALSE
    /\ UNCHANGED <<pc, attempt, headVars, chanVars, stopCh, ctxDone, nodeVars>>

(***************************************************************************)
(* The node (external).                                                    *)
(***************************************************************************)
\* A new head, one block higher than the last or, after the node has dropped
\* blocks, lower; a subscriber is told.
Tip == IF height = <<>> THEN 0 ELSE height[Len(height)]
Announce ==
    /\ Len(height) < MaxHeads
    /\ \E n \in 1 .. Tip + 1 : height' = Append(height, n)
    /\ wire' = IF conn = "open" /\ pending \in {"nothing", "block"}
               THEN Append(wire, Announcement(Len(height'))) ELSE wire
    /\ UNCHANGED <<pc, headVars, connVars, chanVars, stopVars, pending, taken>>

\* The block the node has at height n now; null if it has none.
Canonical(n) ==
    LET at == {s \in DOMAIN height : height[s] = n /\ \A t \in s + 1 .. Len(height) : height[t] > n}
    IN  IF at = {} THEN NoHead ELSE CHOOSE s \in at : TRUE

\* A request is answered: for a block, with the one the node has at the height
\* of the head, or with an error or null.
Answer ==
    /\ conn = "open" /\ pending \in {"subscription", "block"}
    /\ pending' = "nothing"
    /\ \E serial \in IF pending = "block" /\ head # NoHead
                     THEN {Canonical(height[head]), NoHead} ELSE {NoHead} :
          wire' = Append(wire, Answered(pending, serial))
    /\ UNCHANGED <<pc, headVars, connVars, chanVars, stopVars, height, taken>>

LoseConnection ==
    /\ conn = "open"
    /\ conn' = "failed"
    /\ UNCHANGED <<pc, headVars, attempt, isConnected, chanVars, stopVars, nodeVars>>
-------------------------------------------------------------------------------
Stream ==
    \/ SetConn \/ DialFails \/ Backoff \/ CheckStop \/ Rest
    \/ Subscribe \/ ReadHead \/ ReadFails \/ Request \/ Fetch \/ FetchFails \/ Deliver

Stop == CloseStopCh \/ Cancel \/ CloseConn

Next ==
    \/ DialSucceeds
    \/ Stream
    \/ Consume
    \/ Stop
    \/ Announce
    \/ Answer
    \/ LoseConnection

Spec == Init /\ [][Next]_vars

(***************************************************************************)
(* Fairness: goroutines run when they can, every read in fetchFullBlock    *)
(* has a deadline and every dial a timeout, and the forwarder goes on      *)
(* taking blocks (module WorkerPool: Submit returns).  External: a node    *)
(* that is dialled again and again answers sometimes, and it answers       *)
(* requests.                                                               *)
(***************************************************************************)
FairSpec ==
    /\ Spec
    /\ WF_vars(Stream) /\ WF_vars(Cancel) /\ WF_vars(CloseConn) /\ WF_vars(Answer)
    /\ WF_vars(Consume)
    /\ SF_vars(DialSucceeds)
-------------------------------------------------------------------------------
(***************************************************************************)
(* Properties.                                                             *)
(***************************************************************************)

\* Every variable has its type, and the channel never holds more than Cap.
TypeOK ==
    /\ pc \in {"start", "startWait", "dial", "dialWait", "connected", "gaveUp", "rest",
               "check", "subscribe", "read", "request", "fetch", "deliver", "done"}
    /\ attempt \in 1 .. MaxAttempts
    /\ conn \in {"none", "open", "failed", "closed"}
    /\ {isConnected, blocksClosed, stopCh, ctxDone} \subseteq BOOLEAN
    /\ Len(blocks) <= Cap
    /\ Len(height) <= MaxHeads /\ {head, body} \subseteq 0 .. Len(height)
    /\ pending \in {"noSubscription", "subscription", "nothing", "block"}

(***************************************************************************)
(* Blocks leave the streamer in the order in which their heads were        *)
(* announced, each at most once, through any number of reconnections.      *)
(***************************************************************************)
DeliveredInOrder ==
    \A i, j \in DOMAIN delivered : i < j => delivered[i].head < delivered[j].head

(***************************************************************************)
(* The transactions that go out with a header are those of a block of the  *)
(* same height, no older than the header: the answer to an earlier request *)
(* is never taken for that to the present one, although every request has  *)
(* the same id.  (They may be a sibling's: the node may have reorganised   *)
(* between the announcement and the answer.)                               *)
(***************************************************************************)
BodyFitsHead ==
    \A i \in DOMAIN delivered :
        LET d == delivered[i]
        IN  d.body # NoHead => d.body >= d.head /\ height[d.body] = height[d.head]

(***************************************************************************)
(* The streamer, with its sockets, retries and deadlines, implements the   *)
(* channel of blocks of module BlockSource.                                *)
(***************************************************************************)
Source == INSTANCE BlockSource WITH closed <- blocksClosed
ImplementsBlockSource == Source!Spec

(***************************************************************************)
(* The channel is closed only because Stop was called: losing the          *)
(* connection, for however long, does not end the stream.                  *)
(***************************************************************************)
ClosedOnlyByStop == blocksClosed => stopCh

\* A lost connection is replaced, sooner or later, unless Stop is called.
Reconnects == (conn = "failed") ~> (conn = "open" \/ stopCh)

(***************************************************************************)
(* Stop ends the stream, wherever the goroutine is: dialling, waiting for  *)
(* a message or for room in the channel, or about to store a connection    *)
(* that Stop has not seen.                                                 *)
(***************************************************************************)
StopEndsStream == stopCh ~> (pc \in {"done", "gaveUp"})

(***************************************************************************)
(* No announcement is lost inside the streamer: when it waits for the next *)
(* one, every announcement it has read from a socket has gone out.         *)
(***************************************************************************)
NoAnnouncementDropped ==
    pc = "read" /\ ~stopCh => taken = {delivered[i].head : i \in DOMAIN delivered}
===============================================================================
