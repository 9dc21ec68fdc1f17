---------------------------- MODULE McpServerProofs ---------------------------
(***************************************************************************)
(* Theorems about McpServer and the rate limiter in it, for every limit    *)
(* and window, any number of requests at once, and whatever clients send.  *)
(***************************************************************************)
EXTENDS McpServer, SequenceTheorems, TLAPS

-------------------------------------------------------------------------------
(***************************************************************************)
(* The inductive invariant: how a counter accounts for the calls that were *)
(* allowed.  The last c.count of them fell in the window that began at     *)
(* c.windowStart, all others before it, and all but the last Limit of      *)
(* those a whole window before it.                                         *)
(***************************************************************************)
CounterType == [count : 0 .. Limit, windowStart : Nat]

Accounts(c, calls) ==
    /\ c \in CounterType /\ c.windowStart <= now /\ c.count <= Len(calls)
    /\ \A i \in 1 .. Len(calls) :
          /\ i > Len(calls) - c.count => calls[i] >= c.windowStart
          /\ i <= Len(calls) - c.count => calls[i] <= c.windowStart
          /\ i <= Len(calls) - c.count - Limit => calls[i] <= c.windowStart - Window

\* The calls are in the past, and no window has more than twice the limit.
Past(calls) == calls \in Seq(0 .. MaxTime) /\ \A i \in 1 .. Len(calls) : calls[i] <= now
Bounded(calls) ==
    \A i \in 1 .. Len(calls) - 2 * Limit : calls[i + 2 * Limit] - calls[i] >= Window

MapsOK ==
    /\ now \in 0 .. MaxTime
    /\ counters \in [DOMAIN counters -> CounterType] /\ DOMAIN counters \subseteq Methods
    /\ allowed \in [Methods -> Seq(0 .. MaxTime)]

RequestsOK ==
    /\ request \in [Requests -> [pc : {"idle", "decide"}, method : Methods \cup {"none"}]]
    /\ \A r \in Requests : request[r].pc = "decide" => request[r].method \in DOMAIN counters

CallsOK ==
    \A m \in Methods :
        /\ Past(allowed[m]) /\ Bounded(allowed[m])
        /\ m \in DOMAIN counters => Accounts(counters[m], allowed[m])
        /\ m \notin DOMAIN counters => allowed[m] = <<>>

\* The calls that explain a refusal.
Busy(calls, t) ==
    \E i \in 1 .. Len(calls) - Limit + 1 :
        calls[i] > t - Window /\ calls[i + Limit - 1] <= t
RefusedOK == refused # NoCall => refused.method \in Methods /\ Busy(allowed[refused.method], refused.time)

LimiterInv == MapsOK /\ RequestsOK /\ CallsOK /\ RefusedOK

LEMMA LimiterInvImplies == LimiterInv => TypeOK /\ BurstBound /\ RefusedOnlyWhenBusy
<1> SUFFICES ASSUME LimiterInv PROVE TypeOK /\ BurstBound /\ RefusedOnlyWhenBusy
  OBVIOUS
<1>1. ASSUME NEW m \in DOMAIN counters
      PROVE  counters[m].count \in 0 .. Limit /\ counters[m].windowStart \in 0 .. now
  <2>1. Accounts(counters[m], allowed[m]) /\ now \in Nat
    BY DEF LimiterInv, MapsOK, CallsOK
  <2> QED
    BY <2>1 DEF Accounts, CounterType
<1>2. \A r \in Requests : request[r].pc \in {"idle", "decide"}
  BY DEF LimiterInv, RequestsOK
<1>3. TypeOK
  BY <1>1, <1>2 DEF LimiterInv, MapsOK, TypeOK
<1>4. BurstBound
  BY DEF LimiterInv, CallsOK, Bounded, BurstBound
<1>5. RefusedOnlyWhenBusy
  BY DEF LimiterInv, RefusedOK, Busy, RefusedOnlyWhenBusy
<1> QED
  BY <1>3, <1>4, <1>5

LEMMA InitLimiter == Init => LimiterInv
<1> SUFFICES ASSUME Init PROVE LimiterInv
  OBVIOUS
<1>1. PICK methods \in Clients : allowed = [m \in methods |-> <<>>]
  BY DEF Init
<1>2. /\ now = 0 /\ counters = [m \in {} |-> 0] /\ request = [r \in Requests |-> Idle]
      /\ refused = NoCall /\ Methods = methods
  BY <1>1 DEF Init, Methods
<1>3. MapsOK
  BY <1>1, <1>2, TimeAssumption DEF MapsOK
<1>4. RequestsOK
  BY <1>2 DEF RequestsOK, Idle
<1>5. Past(<<>>) /\ Bounded(<<>>)
  BY LimitAssumption DEF Past, Bounded
<1>6. \A m \in Methods : allowed[m] = <<>> /\ m \notin DOMAIN counters
  BY <1>1, <1>2
<1>7. CallsOK
  BY <1>5, <1>6 DEF CallsOK
<1> QED
  BY <1>2, <1>3, <1>4, <1>7 DEF LimiterInv, RefusedOK
-------------------------------------------------------------------------------
(***************************************************************************)
(* Counters and calls, without the maps they are kept in.                  *)
(***************************************************************************)
\* A window that is over is over for all calls, and a new one begins empty.
LEMMA CurrentAccounts ==
    ASSUME now \in Nat, NEW c, NEW calls \in Seq(Nat), Past(calls), Accounts(c, calls)
    PROVE  /\ Accounts(Current(c), calls)
           /\ now - Current(c).windowStart < Window
<1>0. Len(calls) \in Nat /\ \A i \in 1 .. Len(calls) : calls[i] \in Nat
  OBVIOUS
<1>1. c.count \in 0 .. Limit /\ c.windowStart \in Nat /\ c \in CounterType
  BY DEF Accounts, CounterType
<1>2. CASE now - c.windowStart >= Window
  <2> DEFINE d == [count |-> 0, windowStart |-> now]
  <2>1. Current(c) = d
    BY <1>2 DEF Current
  <2>2. d \in CounterType /\ d.count = 0 /\ d.windowStart = now
    BY LimitAssumption DEF CounterType
  <2> HIDE DEF d
  <2>3. Accounts(d, calls)
    <3>1. ASSUME NEW i \in 1 .. Len(calls)
          PROVE  /\ calls[i] <= now
                 /\ i <= Len(calls) - Limit => calls[i] <= now - Window
      <4>1. calls[i] \in Nat /\ calls[i] <= now
        BY <1>0 DEF Past
      <4>2. i <= Len(calls) - c.count => calls[i] <= c.windowStart
        BY DEF Accounts
      <4>3. Limit \in Nat /\ Window \in Nat /\ c.count \in Nat /\ c.count <= Limit
        BY <1>1, LimitAssumption
      <4>4. Len(calls) \in Nat
        BY <1>0
      <4>5. i <= Len(calls) - Limit => i <= Len(calls) - c.count
        BY <4>3, <4>4
      <4>6. c.windowStart \in Nat
        BY <1>1
      <4>7. calls[i] <= c.windowStart => calls[i] <= now - Window
        BY <1>2, <4>1, <4>3, <4>6
      <4> QED
        BY <4>1, <4>2, <4>5, <4>7
    <3>2. \A i \in 1 .. Len(calls) : ~(i > Len(calls) - 0)
      BY <1>0
    <3> QED
      BY <1>0, <2>2, <3>1, <3>2, LimitAssumption DEF Accounts
  <2> QED
    BY <2>1, <2>2, <2>3, LimitAssumption
<1>3. CASE ~(now - c.windowStart >= Window)
  BY <1>1, <1>3, LimitAssumption DEF Current
<1> QED
  BY <1>2, <1>3

\* A call that is allowed now is the last of its window's.
LEMMA AllowedAccounts ==
    ASSUME now \in 0 .. MaxTime, NEW c, NEW calls \in Seq(Nat), Past(calls), Bounded(calls),
           Accounts(c, calls), c.count < Limit
    PROVE  /\ Past(Append(calls, now)) /\ Bounded(Append(calls, now))
           /\ Accounts([c EXCEPT !.count = @ + 1], Append(calls, now))
<1> DEFINE more == Append(calls, now)
           d == [c EXCEPT !.count = @ + 1]
<1>1. /\ Len(calls) \in Nat /\ now \in Nat /\ Limit \in Nat \ {0} /\ Window \in Nat \ {0}
      /\ \A i \in 1 .. Len(calls) : calls[i] \in Nat
  BY LimitAssumption, TimeAssumption
<1>2. /\ more \in Seq(Nat) /\ Len(more) = Len(calls) + 1 /\ more[Len(calls) + 1] = now
      /\ \A i \in 1 .. Len(calls) : more[i] = calls[i]
  BY <1>1, AppendProperties
<1>3. Past(more)
  <2>1. more \in Seq(0 .. MaxTime)
    BY AppendProperties DEF Past
  <2>2. ASSUME NEW i \in 1 .. Len(calls) + 1 PROVE more[i] <= now
    BY <1>1, <1>2 DEF Past
  <2> QED
    BY <1>2, <2>1, <2>2 DEF Past
<1>4. /\ c \in CounterType /\ c.count \in Nat /\ c.windowStart \in Nat /\ c.windowStart <= now
      /\ c.count <= Len(calls)
  BY <1>1 DEF Accounts, CounterType
<1>5. d \in CounterType /\ d.count = c.count + 1 /\ d.windowStart = c.windowStart
  <2>1. c.count + 1 \in 0 .. Limit
    BY <1>1, <1>4
  <2> QED
    BY <1>4, <2>1 DEF CounterType
<1> HIDE DEF more, d
<1>6. Len(more) = Len(calls) + 1
  BY <1>2
<1>7. Accounts(d, more)
  <2>1. ASSUME NEW i \in 1 .. Len(calls) + 1
        PROVE  /\ i > Len(calls) - c.count => more[i] >= c.windowStart
               /\ i <= Len(calls) - c.count => more[i] <= c.windowStart
               /\ i <= Len(calls) - c.count - Limit => more[i] <= c.windowStart - Window
    <3>1. CASE i = Len(calls) + 1
      BY <1>1, <1>2, <1>4, <3>1
    <3>2. CASE i \in 1 .. Len(calls)
      BY <1>2, <3>2 DEF Accounts
    <3> QED
      BY <1>1, <3>1, <3>2
  <2>2. Len(more) - d.count = Len(calls) - c.count
    <3>1. Len(calls) \in Nat /\ c.count \in Nat /\ d.count = c.count + 1
      BY <1>1, <1>4, <1>5
    <3>2. \A m, n \in Nat : (m + 1) - (n + 1) = m - n
      OBVIOUS
    <3> QED
      BY <1>6, <3>1, <3>2, Zenon
  <2>3. d \in CounterType /\ d.windowStart <= now /\ d.count <= Len(more)
    BY <1>1, <1>2, <1>4, <1>5
  <2>4. \A i \in 1 .. Len(more) :
           /\ i > Len(more) - d.count => more[i] >= d.windowStart
           /\ i <= Len(more) - d.count => more[i] <= d.windowStart
           /\ i <= Len(more) - d.count - Limit => more[i] <= d.windowStart - Window
    BY <1>5, <1>6, <2>1, <2>2
  <2> QED
    BY <2>3, <2>4 DEF Accounts
<1>8. Bounded(more)
  <2>1. ASSUME NEW i \in 1 .. Len(calls) + 1 - 2 * Limit
        PROVE  more[i + 2 * Limit] - more[i] >= Window
    <3>1. i \in 1 .. Len(calls) /\ more[i] = calls[i] /\ calls[i] \in Nat
      BY <1>1, <1>2
    <3>2. CASE i = Len(calls) + 1 - 2 * Limit
      <4>1. i <= Len(calls) - c.count - Limit /\ i + 2 * Limit = Len(calls) + 1
        BY <1>1, <1>4, <3>2
      <4>2. calls[i] <= c.windowStart - Window
        BY <3>1, <4>1 DEF Accounts
      <4>3. more[i + 2 * Limit] = now
        BY <1>2, <4>1
      <4>4. calls[i] <= now - Window
        BY <1>1, <1>4, <3>1, <4>2
      <4> QED
        BY <1>1, <3>1, <4>3, <4>4
    <3>3. CASE i \in 1 .. Len(calls) - 2 * Limit
      <4>1. i + 2 * Limit \in 1 .. Len(calls)
        BY <1>1, <3>3
      <4>2. more[i + 2 * Limit] = calls[i + 2 * Limit]
        BY <1>2, <4>1
      <4>3. calls[i + 2 * Limit] - calls[i] >= Window
        BY <3>3 DEF Bounded
      <4> QED
        BY <3>1, <4>2, <4>3
    <3>4. i = Len(calls) + 1 - 2 * Limit \/ i \in 1 .. Len(calls) - 2 * Limit
      BY <1>1
    <3> QED
      BY <3>2, <3>3, <3>4
  <2>2. Len(more) - 2 * Limit = Len(calls) + 1 - 2 * Limit
    BY <1>1, <1>6
  <2> QED
    BY <2>1, <2>2 DEF Bounded
<1> QED
  BY <1>3, <1>7, <1>8 DEF more, d

\* A call that is refused finds the limit used up by calls of this window, and
\* calls allowed later change nothing about that.
LEMMA RefusedBusy ==
    ASSUME now \in Nat, NEW c, NEW calls \in Seq(Nat), Past(calls), Accounts(c, calls),
           c.count >= Limit, now - c.windowStart < Window
    PROVE  Busy(calls, now)
<1> DEFINE i == Len(calls) - Limit + 1
<1>1. /\ Len(calls) \in Nat /\ Limit \in Nat \ {0} /\ Window \in Nat \ {0}
      /\ c.count = Limit /\ Limit <= Len(calls) /\ c.windowStart \in Nat
  BY LimitAssumption DEF Accounts, CounterType
<1>2. i \in 1 .. Len(calls) /\ i > Len(calls) - c.count /\ i + Limit - 1 = Len(calls)
  BY <1>1
<1>3. calls[i] \in Nat /\ calls[i] >= c.windowStart
  BY <1>2 DEF Accounts
<1>4. calls[i + Limit - 1] <= now
  BY <1>1, <1>2 DEF Past
<1>5. calls[i] > now - Window
  BY <1>1, <1>3
<1>6. i \in 1 .. Len(calls) - Limit + 1
  BY <1>1, <1>2
<1> QED
  BY <1>4, <1>5, <1>6 DEF Busy

LEMMA StaysBusy ==
    ASSUME NEW calls \in Seq(Nat), NEW e \in Nat, NEW t, Busy(calls, t)
    PROVE  Busy(Append(calls, e), t)
<1>1. Len(calls) \in Nat /\ Limit \in Nat \ {0}
  BY LimitAssumption
<1>2. PICK i \in 1 .. Len(calls) - Limit + 1 : calls[i] > t - Window /\ calls[i + Limit - 1] <= t
  BY DEF Busy
<1>3. /\ Len(Append(calls, e)) = Len(calls) + 1
      /\ \A j \in 1 .. Len(calls) : Append(calls, e)[j] = calls[j]
  BY AppendProperties
<1>4. i \in 1 .. Len(calls) /\ i + Limit - 1 \in 1 .. Len(calls)
      /\ i \in 1 .. Len(Append(calls, e)) - Limit + 1
  BY <1>1, <1>3
<1> QED
  BY <1>2, <1>3, <1>4 DEF Busy
-------------------------------------------------------------------------------
(***************************************************************************)
(* The steps.                                                              *)
(***************************************************************************)
\* The clock leaves accounts that are in order in order.
LEMMA TickStep ==
    ASSUME LimiterInv, Tick
    PROVE  LimiterInv'
<1>1. /\ now \in Nat /\ now' = now + 1 /\ now' \in 0 .. MaxTime
      /\ UNCHANGED <<counters, request, allowed, refused>> /\ Methods' = Methods
  BY TimeAssumption DEF LimiterInv, MapsOK, Tick, Methods
<1>2. MapsOK' /\ RequestsOK' /\ RefusedOK'
  BY <1>1 DEF LimiterInv, MapsOK, RequestsOK, RefusedOK, Busy
<1>3. ASSUME NEW m \in Methods
      PROVE  /\ Past(allowed[m])' /\ Bounded(allowed[m])'
             /\ m \in DOMAIN counters => Accounts(counters[m], allowed[m])'
             /\ m \notin DOMAIN counters => allowed[m] = <<>>
  <2>1. /\ Past(allowed[m]) /\ Bounded(allowed[m])
        /\ m \in DOMAIN counters => Accounts(counters[m], allowed[m])
        /\ m \notin DOMAIN counters => allowed[m] = <<>>
    BY DEF LimiterInv, CallsOK
  <2>2. \A i \in 1 .. Len(allowed[m]) : allowed[m][i] <= now + 1
    BY <1>1, <2>1, TimeAssumption DEF Past
  <2>3. Past(allowed[m])' /\ Bounded(allowed[m])'
    BY <1>1, <2>1, <2>2 DEF Past, Bounded
  <2>4. Accounts(counters[m], allowed[m]) => Accounts(counters[m], allowed[m])'
    <3>1. counters[m].windowStart \in Nat /\ counters[m].windowStart <= now
          => counters[m].windowStart <= now'
      BY <1>1
    <3> QED
      BY <1>1, <3>1 DEF Accounts, CounterType
  <2> QED
    BY <2>1, <2>3, <2>4
<1>4. CallsOK'
  BY <1>1, <1>3 DEF CallsOK
<1> QED
  BY <1>2, <1>4 DEF LimiterInv

LEMMA LookupStep ==
    ASSUME LimiterInv, NEW r \in Requests, NEW m \in Methods, Lookup(r, m)
    PROVE  LimiterInv'
<1> DEFINE fresh == [count |-> 0, windowStart |-> now]
<1>1. /\ request' = [request EXCEPT ![r] = [pc |-> "decide", method |-> m]]
      /\ counters' = [x \in DOMAIN counters \cup {m} |->
                         IF x \in DOMAIN counters THEN counters[x] ELSE fresh]
      /\ UNCHANGED <<now, allowed, refused>> /\ Methods' = Methods
  BY DEF Lookup, Methods
<1>2. now \in Nat /\ fresh \in CounterType /\ fresh.count = 0 /\ fresh.windowStart = now
  BY TimeAssumption, LimitAssumption DEF LimiterInv, MapsOK, CounterType
<1> HIDE DEF fresh
<1>3. MapsOK' /\ DOMAIN counters' = DOMAIN counters \cup {m}
  BY <1>1, <1>2 DEF LimiterInv, MapsOK
<1>4. RequestsOK'
  BY <1>1, <1>3 DEF LimiterInv, RequestsOK
<1>5. Accounts(fresh, <<>>)
  BY <1>2 DEF Accounts
<1>6. ASSUME NEW x \in Methods
      PROVE  /\ x \in DOMAIN counters' => Accounts(counters'[x], allowed[x])
             /\ x \notin DOMAIN counters' => allowed[x] = <<>>
  <2>1. CASE x \in DOMAIN counters
    BY <1>1, <1>3, <2>1 DEF LimiterInv, CallsOK
  <2>2. CASE x \notin DOMAIN counters
    BY <1>1, <1>3, <1>5, <2>2 DEF LimiterInv, CallsOK
  <2> QED
    BY <2>1, <2>2
<1>7. CallsOK'
  BY <1>1, <1>6 DEF LimiterInv, CallsOK, Past, Bounded, Accounts
<1>8. RefusedOK'
  BY <1>1 DEF LimiterInv, RefusedOK, Busy
<1> QED
  BY <1>3, <1>4, <1>7, <1>8 DEF LimiterInv

LEMMA DecideStep ==
    ASSUME LimiterInv, NEW r \in Requests, Decide(r)
    PROVE  LimiterInv'
<1> DEFINE m == request[r].method
           c == Current(counters[m])
           calls == allowed[m]
           d == [c EXCEPT !.count = @ + 1]
<1>1. /\ m \in DOMAIN counters /\ m \in Methods
      /\ request' = [request EXCEPT ![r] = Idle] /\ UNCHANGED now
      /\ \/ /\ c.count >= Limit
            /\ counters' = [counters EXCEPT ![m] = c]
            /\ refused' = [method |-> m, time |-> now]
            /\ UNCHANGED allowed
         \/ /\ ~(c.count >= Limit)
            /\ counters' = [counters EXCEPT ![m] = d]
            /\ allowed' = [allowed EXCEPT ![m] = Append(calls, now)]
            /\ UNCHANGED refused
  BY DEF Decide, LimiterInv, MapsOK, RequestsOK
<1>2. /\ now \in 0 .. MaxTime /\ now \in Nat
      /\ calls \in Seq(0 .. MaxTime) /\ calls \in Seq(Nat)
      /\ Past(calls) /\ Bounded(calls) /\ Accounts(counters[m], calls)
  <2>1. /\ now \in 0 .. MaxTime /\ calls \in Seq(0 .. MaxTime)
        /\ Past(calls) /\ Bounded(calls) /\ Accounts(counters[m], calls)
    BY <1>1 DEF LimiterInv, MapsOK, CallsOK
  <2>2. calls \in Seq(Nat)
    <3>1. 0 .. MaxTime \subseteq Nat
      BY TimeAssumption
    <3> QED
      BY <2>1, <3>1, SeqMonotonic
  <2> QED
    BY <2>1, <2>2, TimeAssumption
<1> HIDE DEF m, calls
<1>3. Accounts(c, calls) /\ now - c.windowStart < Window
  BY <1>2, CurrentAccounts
<1>4. c \in CounterType /\ c.count \in Nat /\ c.windowStart \in Nat
  BY <1>3, LimitAssumption DEF Accounts, CounterType
<1> HIDE DEF c
<1>5. Methods' = Methods /\ DOMAIN counters' = DOMAIN counters
  BY <1>1 DEF Methods
<1>6. RequestsOK'
  BY <1>1, <1>5 DEF LimiterInv, RequestsOK, Idle
<1>7. CASE c.count >= Limit
  <2>1. /\ counters' = [counters EXCEPT ![m] = c] /\ refused' = [method |-> m, time |-> now]
        /\ UNCHANGED <<now, allowed>>
    BY <1>1, <1>7
  <2>2. MapsOK'
    BY <1>4, <1>5, <2>1 DEF LimiterInv, MapsOK
  <2>3. \A x \in DOMAIN counters : counters'[x] = IF x = m THEN c ELSE counters[x]
    BY <2>1 DEF LimiterInv, MapsOK
  <2>4. \A x \in DOMAIN counters : Accounts(counters'[x], allowed[x])
    BY <1>3, <2>3 DEF LimiterInv, MapsOK, CallsOK, calls
  <2>5. CallsOK'
    BY <1>5, <2>1, <2>4 DEF LimiterInv, CallsOK, Past, Bounded, Accounts
  <2>6. Busy(calls, now)
    BY <1>2, <1>3, <1>7, RefusedBusy
  <2>7. RefusedOK'
    BY <1>1, <1>5, <2>1, <2>6 DEF RefusedOK, Busy, calls
  <2> QED
    BY <1>6, <2>2, <2>5, <2>7 DEF LimiterInv
<1>8. CASE ~(c.count >= Limit)
  <2>1. /\ counters' = [counters EXCEPT ![m] = d] /\ UNCHANGED <<now, refused>>
        /\ allowed' = [allowed EXCEPT ![m] = Append(calls, now)]
    BY <1>1, <1>8
  <2>2. c.count < Limit
    BY <1>4, <1>8, LimitAssumption
  <2>3. /\ Past(Append(calls, now)) /\ Bounded(Append(calls, now))
        /\ Accounts(d, Append(calls, now))
    BY <1>2, <1>3, <2>2, AllowedAccounts
  <2>4. d \in CounterType /\ Append(calls, now) \in Seq(0 .. MaxTime)
    BY <2>3 DEF Accounts, Past
  <2> HIDE DEF d
  <2>5. /\ \A x \in DOMAIN counters : counters'[x] = IF x = m THEN d ELSE counters[x]
        /\ \A x \in Methods : allowed'[x] = IF x = m THEN Append(calls, now) ELSE allowed[x]
    BY <2>1 DEF LimiterInv, MapsOK
  <2>6. MapsOK'
    BY <1>5, <2>1, <2>4 DEF LimiterInv, MapsOK
  <2>7. ASSUME NEW x \in Methods
        PROVE  /\ Past(allowed'[x]) /\ Bounded(allowed'[x])
               /\ x \in DOMAIN counters => Accounts(counters'[x], allowed'[x])
               /\ x \notin DOMAIN counters => allowed'[x] = <<>>
    <3>1. CASE x = m
      BY <1>1, <2>3, <2>5, <3>1
    <3>2. CASE x # m
      BY <2>5, <3>2 DEF LimiterInv, CallsOK
    <3> QED
      BY <3>1, <3>2
  <2>8. CallsOK'
    BY <1>5, <2>1, <2>7 DEF CallsOK, Past, Bounded, Accounts
  <2>9. RefusedOK'
    <3> SUFFICES ASSUME refused # NoCall
                 PROVE  refused.method \in Methods /\ Busy(allowed'[refused.method], refused.time)
      BY <1>5, <2>1 DEF RefusedOK, Busy
    <3>1. refused.method \in Methods /\ Busy(allowed[refused.method], refused.time)
      BY DEF LimiterInv, RefusedOK
    <3>2. CASE refused.method = m
      <4>1. Busy(calls, refused.time)
        BY <3>1, <3>2 DEF calls
      <4>2. Busy(Append(calls, now), refused.time)
        BY <1>2, <4>1, StaysBusy
      <4> QED
        BY <2>5, <3>1, <3>2, <4>2
    <3>3. CASE refused.method # m
      BY <2>5, <3>1, <3>3
    <3> QED
      BY <3>2, <3>3
  <2> QED
    BY <1>6, <2>6, <2>8, <2>9 DEF LimiterInv
<1> QED
  BY <1>7, <1>8

LEMMA NextLimiter == LimiterInv /\ [NextMcp]_mcpVars => LimiterInv'
<1> SUFFICES ASSUME LimiterInv, [NextMcp]_mcpVars PROVE LimiterInv'
  OBVIOUS
<1>1. CASE UNCHANGED vars
  <2>1. UNCHANGED <<now, counters, request, allowed, refused>>
    BY <1>1 DEF vars
  <2> QED
    BY <2>1 DEF LimiterInv, MapsOK, RequestsOK, CallsOK, RefusedOK, Methods, Past, Bounded,
       Accounts, Busy
<1>2. CASE Tick
  BY <1>2, TickStep
<1>3. ASSUME NEW r \in Requests, Receive(r) PROVE LimiterInv'
  BY <1>3, LookupStep DEF Receive
<1>4. ASSUME NEW r \in Requests, Allow(r) PROVE LimiterInv'
  BY <1>4, DecideStep DEF Allow
<1> QED
  BY <1>1, <1>2, <1>3, <1>4 DEF NextMcp, mcpVars, Serve

LEMMA LimiterInvariant == SpecMcp => []LimiterInv
BY InitLimiter, NextLimiter, PTL DEF SpecMcp, InitMcp

(***************************************************************************)
(* The variables of the limiter keep their types: no counter exceeds the   *)
(* limit, and no window starts in the future.                              *)
(***************************************************************************)
THEOREM LimiterTypeCorrect == SpecMcp => []TypeOK
BY LimiterInvariant, LimiterInvImplies, PTL

(***************************************************************************)
(* Whatever the limit, the window and the requests at once, no stretch of  *)
(* time as long as the window has more than twice the limit of allowed     *)
(* calls of a method.                                                      *)
(***************************************************************************)
THEOREM BurstCorrect == SpecMcp => []BurstBound
BY LimiterInvariant, LimiterInvImplies, PTL

(***************************************************************************)
(* A method is refused only if Limit calls of it were allowed in the       *)
(* window that ends with the refusal.                                      *)
(***************************************************************************)
THEOREM RefusedCorrect == SpecMcp => []RefusedOnlyWhenBusy
BY LimiterInvariant, LimiterInvImplies, PTL
-------------------------------------------------------------------------------
(***************************************************************************)
(* Validator and tools.                                                    *)
(***************************************************************************)
\* A number the validator found between lo and hi is so as the tool reads it.
LEMMA IntBetween ==
    ASSUME NEW v, v.type = "number" => v.half \in Int, NEW lo \in Int, NEW hi \in Int, Between(v, lo, hi)
    PROVE  v.type = "number" /\ int(v) \in Int /\ lo <= int(v) /\ int(v) <= hi
BY DEF Between, int

\* A limit the tool clamps is positive and no more than what was sent.
LEMMA ClampedOK ==
    ASSUME NEW p \in Parameters, NEW name, NEW most \in Int, validateOptional(p, name, most),
           NEW default \in Nat \ {0}, NEW max \in Nat \ {0}
    PROVE  /\ Clamped(p, name, default, max) > 0
           /\ name \in DOMAIN p => Clamped(p, name, default, max) <= int(p[name])
<1>1. CASE name \in DOMAIN p
  <2>1. p[name].type = "number" /\ int(p[name]) \in Int /\ 1 <= int(p[name])
    BY <1>1, IntBetween, ParametersAssumption DEF validateOptional
  <2>2. int(p[name]) \in Int /\ int(p[name]) > 0
    BY <2>1
  <2>3. Clamped(p, name, default, max) = IF int(p[name]) > max THEN max ELSE int(p[name])
    BY <1>1, <2>1, <2>2 DEF Clamped
  <2> QED
    BY <2>2, <2>3
<1>2. CASE name \notin DOMAIN p
  BY <1>2 DEF Clamped
<1> QED
  BY <1>1, <1>2

\* Parameters of a load test that pass the validator pass the tool.
LEMMA LoadTestOK ==
    ASSUME NEW p \in Parameters, validateLoadTest(p)
    PROVE  /\ RunLoadTestParams(p).ok
           /\ \A name \in DOMAIN RunLoadTestParams(p).uses :
                 RunLoadTestParams(p).uses[name] > 0
                 /\ RunLoadTestParams(p).uses[name] <= int(p[name])
<1> DEFINE duration == IF "duration" \in DOMAIN p THEN "duration" ELSE "duration_seconds"
           uses == [name \in {"tps", duration} |-> int(p[name])]
           Fits(name) == /\ name \in DOMAIN p /\ p[name].type = "number"
                         /\ int(p[name]) > 0 /\ int(p[name]) <= int(p[name])
<1>1. {"tps", duration} \subseteq DOMAIN p /\ Between(p["tps"], 1, 10000) /\ Between(p[duration], 1, 300)
  BY DEF validateLoadTest
<1> HIDE DEF duration
<1>2. p["tps"].type = "number" /\ int(p["tps"]) \in Int /\ 1 <= int(p["tps"]) /\ int(p["tps"]) <= 10000
  <2>1. p["tps"].type = "number" => p["tps"].half \in Int
    BY <1>1, ParametersAssumption
  <2> QED
    BY <1>1, <2>1, IntBetween, SMT
<1>3. /\ p[duration].type = "number" /\ int(p[duration]) \in Int
      /\ 1 <= int(p[duration]) /\ int(p[duration]) <= 300
  <2>1. p[duration].type = "number" => p[duration].half \in Int
    BY <1>1, ParametersAssumption
  <2> QED
    BY <1>1, <2>1, IntBetween, SMT
<1>4. RunLoadTestParams(p) = [ok |-> TRUE, uses |-> uses]
  BY <1>1, <1>2, <1>3, SMT DEF RunLoadTestParams, duration
<1>5. Fits("tps") /\ Fits(duration)
  BY <1>1, <1>2, <1>3, SMT
<1>6. \A name \in {"tps", duration} : Fits(name)
  <2> HIDE DEF Fits
  <2> QED
    BY <1>5
<1>7. uses = RunLoadTestParams(p).uses /\ RunLoadTestParams(p).ok /\ DOMAIN uses = {"tps", duration}
  BY <1>4
<1>8. \A name \in DOMAIN uses : uses[name] = int(p[name])
  OBVIOUS
<1> HIDE DEF uses
<1> QED
  BY <1>6, <1>7, <1>8

\* Whatever tool is asked for, and whether or not it is registered.
LEMMA AnswersOK ==
    ASSUME NEW p \in Parameters, NEW tool, NEW a \in Answers(tool, p)
    PROVE  /\ a.code # "badParams"
           /\ \A name \in DOMAIN a.uses :
                 a.uses[name] > 0 /\ (name \in DOMAIN p => a.uses[name] <= int(p[name]))
<1> DEFINE t == ToolParams(tool, p)
           Good(u) == \A name \in DOMAIN u :
                         u[name] > 0 /\ (name \in DOMAIN p => u[name] <= int(p[name]))
<1>1. Good(<<>>)
  BY DOMAIN <<>> = {}
<1>2. ASSUME Validate(tool, p) PROVE t.ok /\ Good(t.uses)
  <2>1. ASSUME NEW name, NEW most \in Int, validateOptional(p, name, most),
               NEW default \in Nat \ {0}, NEW max \in Nat \ {0}
        PROVE  /\ Limited(p, name, default, max).ok
               /\ Good(Limited(p, name, default, max).uses)
    <3>1. /\ Limited(p, name, default, max).ok
          /\ Limited(p, name, default, max).uses
             = [n \in {name} |-> Clamped(p, n, default, max)]
      BY DEF Limited
    <3> QED
      BY <2>1, <3>1, ClampedOK
  <2> HIDE DEF Good, t
  <2>2. CASE tool = "run_load_test"
    <3>1. t = RunLoadTestParams(p)
      BY <2>2 DEF ToolParams, t
    <3> QED
      BY <1>2, <2>2, <3>1, LoadTestOK DEF Validate, Good
  <2>3. CASE tool = "get_reorg_history"
    <3>1. t = Limited(p, "limit", 10, 100)
      BY <2>3 DEF ToolParams, t
    <3>2. validateOptional(p, "limit", 1000)
      BY <1>2, <2>3 DEF Validate
    <3> QED
      BY <2>1, <3>1, <3>2, SMT
  <2>4. CASE tool = "get_apply_block_latency"
    <3>1. t = Limited(p, "limit", 100, 1000)
      BY <2>4 DEF ToolParams, t
    <3>2. validateOptional(p, "limit", 10000)
      BY <1>2, <2>4, SMT DEF Validate
    <3> QED
      BY <2>1, <3>1, <3>2, SMT
  <2>5. CASE tool = "validate_determinism"
    <3>1. t = Limited(p, "block_count", 10, 100)
      BY <2>5 DEF ToolParams, t
    <3>2. validateOptional(p, "block_count", 100)
      BY <1>2, <2>5 DEF Validate
    <3> QED
      BY <2>1, <3>1, <3>2, SMT
  <2>6. CASE tool \notin {"run_load_test", "get_reorg_history", "get_apply_block_latency",
                          "validate_determinism"}
    <3>1. t = [ok |-> TRUE, uses |-> <<>>]
      BY <2>6 DEF ToolParams, t
    <3> QED
      BY <1>1, <3>1
  <2> QED
    BY <2>2, <2>3, <2>4, <2>5, <2>6
<1> HIDE DEF Good
<1>3. a.code # "badParams" /\ Good(a.uses)
  <2>1. CASE ~Validate(tool, p)
    BY <1>1, <2>1 DEF Answers, Answer
  <2>2. CASE Validate(tool, p) /\ tool \notin Tools
    BY <1>1, <2>2 DEF Answers, Answer
  <2>3. CASE Validate(tool, p) /\ tool \in Tools
    <3>1. PICK code \in {"success", "failed"} : a = Answer(code, t.uses)
      BY <1>2, <2>3 DEF Answers
    <3>2. a.code = code /\ a.uses = t.uses
      BY <3>1 DEF Answer
    <3> QED
      BY <1>2, <2>3, <3>2
  <2> QED
    BY <2>1, <2>2, <2>3
<1> QED
  BY <1>3 DEF Good

(***************************************************************************)
(* Whatever clients send, the tools never turn down parameters that the    *)
(* validator let through, and use positive numbers no larger than those    *)
(* sent.                                                                   *)
(***************************************************************************)
THEOREM CheckedCorrect == SpecMcp => []CheckedIsServed
<1>1. CheckedIsServed
  BY AnswersOK DEF CheckedIsServed
<1> QED
  BY <1>1, PTL
===============================================================================
