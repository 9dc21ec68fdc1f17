------------------------------ MODULE RateLimiter ------------------------------
(***************************************************************************)
(* The rate limiter of the MCP server (internal/mcp/rate_limiter.go), as   *)
(* requests go through it (module McpServer has the rest): a counter per   *)
(* method name, reset when its window is over.  Allow holds the lock of    *)
(* the map while it finds the counter and the lock of the counter while it *)
(* decides; it reads the clock in both.                                    *)
(***************************************************************************)
EXTENDS Integers, Sequences

CONSTANTS
    Requests,   \* requests that may be under way at once
    Clients,    \* sets of method names, registered or not: in one behaviour
                \* clients send the names in one of them
    Limit,      \* 10 in the code
    Window,     \* one minute in the code, here in ticks of the clock
    MaxTime     \* bound: the clock stops here

ASSUME LimitAssumption == Limit \in Nat \ {0} /\ Window \in Nat \ {0}
ASSUME TimeAssumption == MaxTime \in Nat

VARIABLES
    now,        \* the clock
    counters,   \* RateLimiter.counters: a map from method names to counters
    request,    \* what each request is doing: the method and how far it is
    allowed,    \* history variable: the times of the allowed calls, per method
    refused     \* history variable: the call refused last, with its time

vars == <<now, counters, request, allowed, refused>>

Methods == DOMAIN allowed

Idle == [pc |-> "idle", method |-> "none"]
NoCall == [method |-> "none", time |-> 0]

Init ==
    /\ now = 0
    /\ counters = [m \in {} |-> 0]
    /\ request = [r \in Requests |-> Idle]
    /\ \E methods \in Clients : allowed = [m \in methods |-> <<>>]
    /\ refused = NoCall

Tick ==
    /\ now < MaxTime
    /\ now' = now + 1
    /\ UNCHANGED <<counters, request, allowed, refused>>

\* Allow, under rl.mu: the counter is found, or made.
Lookup(r, m) ==
    /\ request[r].pc = "idle"
    /\ request' = [request EXCEPT ![r] = [pc |-> "decide", method |-> m]]
    /\ counters' = [x \in DOMAIN counters \cup {m} |->
                       IF x \in DOMAIN counters THEN counters[x]
                       ELSE [count |-> 0, windowStart |-> now]]
    /\ UNCHANGED <<now, allowed, refused>>

\* Mutants of Current: the window is never moved; a window is one tick longer.
ResetCountOnly(c) == IF now - c.windowStart >= Window THEN [c EXCEPT !.count = 0] ELSE c
LongerWindow(c) ==
    IF now - c.windowStart > Window THEN [count |-> 0, windowStart |-> now] ELSE c

\* The counter once a window that has passed is over.
Current(c) ==
    IF now - c.windowStart >= Window THEN [count |-> 0, windowStart |-> now] ELSE c

\* Allow, under c.mu.  The limit comes before the validation of parameters
\* and before the lookup of the handler: every request counts.
Decide(r) ==
    LET m == request[r].method
        c == Current(counters[m])
    IN  /\ request[r].pc = "decide"
        /\ request' = [request EXCEPT ![r] = Idle]
        /\ IF c.count >= Limit
           THEN /\ counters' = [counters EXCEPT ![m] = c]
                /\ refused' = [method |-> m, time |-> now]
                /\ UNCHANGED allowed
           ELSE /\ counters' = [counters EXCEPT ![m] = [c EXCEPT !.count = @ + 1]]
                /\ allowed' = [allowed EXCEPT ![m] = Append(@, now)]
                /\ UNCHANGED refused
        /\ UNCHANGED now
-------------------------------------------------------------------------------
(***************************************************************************)
(* Properties.                                                             *)
(***************************************************************************)

\* Every variable has its type.
TypeOK ==
    /\ now \in 0 .. MaxTime
    /\ DOMAIN counters \subseteq Methods
    /\ \A m \in DOMAIN counters :
          counters[m].count \in 0 .. Limit /\ counters[m].windowStart \in 0 .. now
    /\ \A r \in Requests : request[r].pc \in {"idle", "decide"}
    /\ \A m \in Methods : allowed[m] \in Seq(0 .. MaxTime)

(***************************************************************************)
(* What the limiter guarantees of any stretch of time as long as the       *)
(* window: it never allows more than twice the limit in it.                *)
(***************************************************************************)
BurstBound ==
    \A m \in Methods : \A i \in 1 .. Len(allowed[m]) - 2 * Limit :
        allowed[m][i + 2 * Limit] - allowed[m][i] >= Window

(***************************************************************************)
(* A method is refused only if it has been allowed Limit times in the      *)
(* window that ends with the refusal: no client waits longer than it must, *)
(* and no method uses up the allowance of another.                         *)
(***************************************************************************)
RefusedOnlyWhenBusy ==
    refused # NoCall =>
        LET calls == allowed[refused.method]
        IN  \E i \in 1 .. Len(calls) - Limit + 1 :
                /\ calls[i] > refused.time - Window
                /\ calls[i + Limit - 1] <= refused.time
===============================================================================
