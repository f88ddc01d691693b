--------------------------- MODULE BackendProofs ----------------------------
(***************************************************************************)
(* Proofs about the services behind the node, for every number of callers  *)
(* and consumers, limit, timeout and interval: RPC over gRPC               *)
(* (RpcController) and over HTTP (HttpRpc), the subscriptions of NATS and  *)
(* of Redis (NatsSubscriber, RedisSubscriber) and the broadcasts that come *)
(* through a Redis stream (RedisBroadcaster).                              *)
(*                                                                         *)
(* RPC: TypeOK needs BusyCountRight (a token is given back only by a call  *)
(* that holds one, so the channel never overfills), and the other way      *)
(* round, so the two are proved together. RetryAgeBounded needs            *)
(* NextDelayBounded: the next delay doubles with every failure, but it     *)
(* never exceeds what the call has slept already by more than one          *)
(* interval.                                                               *)
(*                                                                         *)
(* Subscriptions: the calls about a stream alternate, so that the one that *)
(* comes last decides, wherever the others have got to (CallsAlternate for *)
(* NATS, CalledOK, RecordedOK and SentOK for Redis).                       *)
(*                                                                         *)
(* Broadcasts: an entry of the stream that was not handled is accounted    *)
(* for (Accounted), by the consumer it is pending for or by the reply that *)
(* was lost.                                                               *)
(***************************************************************************)
EXTENDS RpcController, HttpRpc, NatsSubscriber, RedisSubscriber, RedisBroadcaster,
        FiniteSetTheorems, SequenceTheorems, TLAPS

\* A sequence to which e is appended (a send on a channel) is as before, and
\* has e at a last place.
LEMMA Appended ==
  ASSUME NEW S, NEW q \in Seq(S), NEW e \in S
  PROVE  /\ Append(q, e)[Len(q) + 1] = e
         /\ \A i \in 1 .. Len(q) : Append(q, e)[i] = q[i]
         /\ \A i : i \in 1 .. Len(Append(q, e)) <=> (i \in 1 .. Len(q) \/ i = Len(q) + 1)
         /\ \A i \in 1 .. Len(Append(q, e)) : Len(q) + 1 <= i => i = Len(q) + 1
OBVIOUS

\* An empty channel has no first place.
LEMMA NothingSent == 1 .. Len(<<>>) = {}
OBVIOUS

\* the callers that hold a token
Busy == {c \in Callers : Holding(c)}

\* The next delay exceeds the time slept so far by at most one interval.
NextDelayBounded ==
    \A c \in Callers : next[c] <= age[c] + Interval(last[c])

\* the inductive invariant of the controller
Inv == TypeOK /\ BusyCountRight /\ NextDelayBounded /\ RetryAgeBounded

\* The retry intervals are positive numbers (retryExhaustedInterval and
\* retryUnavailableInterval).
LEMMA IntervalNat == \A kind \in Kinds : Interval(kind) \in Nat
  BY RpcAssumption, Zenon DEF Interval, Kinds

\* A call that starts to hold a token (barrier.Acquire) is one more busy call.
LEMMA BusyGrows ==
    ASSUME NEW c \in Callers, NEW S \in SUBSET Callers, c \notin S
    PROVE  Cardinality(S \cup {c}) = Cardinality(S) + 1
  <1>1. IsFiniteSet(S)
    BY RpcAssumption, FS_Subset, Zenon
  <1> QED
    BY <1>1, FS_AddElement, Zenon

\* A call that gives its token back (barrier.Release) is one busy call less,
\* and there was one to begin with.
LEMMA BusyShrinks ==
    ASSUME NEW S \in SUBSET Callers, NEW c \in S
    PROVE  /\ Cardinality(S \ {c}) = Cardinality(S) - 1
           /\ Cardinality(S) \in Nat \ {0}
  <1>1. IsFiniteSet(S)
    BY RpcAssumption, FS_Subset, Zenon
  <1>2. Cardinality(S) \in Nat
    BY <1>1, FS_CardinalityType, Zenon
  <1>3. Cardinality(S) # 0
    BY <1>1, FS_EmptySet, Zenon
  <1>4. Cardinality(S \ {c}) = Cardinality(S) - 1
    BY <1>1, FS_RemoveElement, Zenon
  <1> QED
    BY <1>2, <1>3, <1>4, Zenon

\* A step that neither starts nor ends the holding of a token keeps the busy
\* calls.
LEMMA BusyKept ==
    ASSUME TypeOK, BusyCountRight, tokens' = tokens,
           \A c \in Callers : Holding(c)' = Holding(c)
    PROVE  BusyCountRight'
  <1>1. {c \in Callers : Holding(c)'} = Busy
    BY Zenon DEF Busy
  <1>2. {c \in Callers : Holding(c)}' = {c \in Callers : Holding(c)'}
    BY Zenon
  <1> QED
    BY <1>1, <1>2, Zenon DEF BusyCountRight, Busy

\* It holds at first.
LEMMA InitInv == Init => Inv
  <1> SUFFICES ASSUME Init PROVE Inv
    BY Zenon
  <1>1. TypeOK
    <2>1. tokens \in 0..Capacity /\ next \in [Callers -> Nat]
      BY RpcAssumption, SMTT(30) DEF Init
    <2> QED
      BY <2>1, Zenon DEF Init, TypeOK, Kinds
  <1>2. Busy = {}
    BY Zenon DEF Init, Busy, Holding
  <1>3. BusyCountRight
    BY <1>2, FS_EmptySet, RpcAssumption, SMTT(30) DEF BusyCountRight, Busy, Init
  <1>4. NextDelayBounded /\ RetryAgeBounded
    BY RpcAssumption, SMTT(30) DEF Init, NextDelayBounded, RetryAgeBounded, Interval
  <1> QED
    BY <1>1, <1>3, <1>4, Zenon DEF Inv

\* barrier.Acquire keeps the invariant.
LEMMA AcquireInv ==
    ASSUME Inv, NEW c \in Callers, Acquire(c)
    PROVE  Inv'
  <1>1. TypeOK'
    BY RpcAssumption, SMTT(30) DEF Inv, TypeOK, Acquire, Goto, connVars, Kinds
  <1>2. c \notin Busy
    BY Zenon DEF Acquire, Busy, Holding
  <1>3. {d \in Callers : Holding(d)}' = Busy \cup {c}
    BY Zenon DEF Inv, TypeOK, Acquire, Busy, Holding, Goto
  <1>4. Cardinality(Busy \cup {c}) = Cardinality(Busy) + 1
    BY <1>2, BusyGrows, Zenon DEF Busy
  <1>5. Capacity - tokens = Cardinality(Busy)
    BY Zenon DEF Inv, BusyCountRight, Busy
  <1>6. tokens \in Nat /\ Capacity \in Nat /\ tokens' = tokens - 1
    BY RpcAssumption, SMTT(30) DEF Inv, TypeOK, Acquire
  <1>7. BusyCountRight'
    BY <1>3, <1>4, <1>5, <1>6, SMTT(30) DEF BusyCountRight
  <1>8. NextDelayBounded' /\ RetryAgeBounded'
    BY RpcAssumption, SMTT(30)
    DEF Inv, TypeOK, NextDelayBounded, RetryAgeBounded, Acquire, Interval
  <1> QED
    BY <1>1, <1>7, <1>8, Zenon DEF Inv

\* The deferred barrier.Release keeps the invariant: there is room for the
\* token.
LEMMA ReleaseInv ==
    ASSUME Inv, NEW c \in Callers, Release(c)
    PROVE  Inv'
  <1>1. c \in Busy
    BY Zenon DEF Release, Busy, Holding
  <1>2. /\ Cardinality(Busy \ {c}) = Cardinality(Busy) - 1
        /\ Cardinality(Busy) \in Nat \ {0}
    BY <1>1, BusyShrinks, Zenon DEF Busy
  <1>3. Capacity - tokens = Cardinality(Busy)
    BY Zenon DEF Inv, BusyCountRight, Busy
  <1>4. tokens \in Nat /\ Capacity \in Nat /\ tokens' = tokens + 1
    BY RpcAssumption, SMTT(30) DEF Inv, TypeOK, Release
  <1>5. tokens' \in 0..Capacity
    BY <1>2, <1>3, <1>4, SMTT(30)
  <1>6. TypeOK'
    BY <1>5, Zenon DEF Inv, TypeOK, Release, Goto, retryVars, connVars
  <1>7. {d \in Callers : Holding(d)}' = Busy \ {c}
    BY Zenon DEF Inv, TypeOK, Release, Busy, Holding, Goto
  <1>8. BusyCountRight'
    BY <1>2, <1>3, <1>4, <1>7, SMTT(30) DEF BusyCountRight
  <1>9. NextDelayBounded' /\ RetryAgeBounded'
    BY Zenon DEF Inv, NextDelayBounded, RetryAgeBounded, Release, retryVars, Interval
  <1> QED
    BY <1>6, <1>8, <1>9, Zenon DEF Inv

\* A failed attempt keeps the invariant, whether it is repeated or given up,
\* and whatever the kind of its failure.
LEMMA RetryInv ==
    ASSUME Inv, NEW c \in Callers, Retry(c)
    PROVE  Inv'
  <1>1. PICK kind \in Kinds :
           IF age[c] > InvokeTimeout
           THEN Goto(c, "release") /\ UNCHANGED retryVars
           ELSE LET delay == IF kind = last[c] THEN next[c] ELSE Interval(kind)
                IN  /\ age' = [age EXCEPT ![c] = @ + delay]
                    /\ next' = [next EXCEPT ![c] = 2 * delay]
                    /\ last' = [last EXCEPT ![c] = kind]
                    /\ Goto(c, "ready")
    BY Zenon DEF Retry
  <1>2. tokens' = tokens /\ \A d \in Callers : Holding(d)' = Holding(d)
    BY <1>1, Zenon DEF Inv, TypeOK, Retry, Goto, Holding
  <1>3. BusyCountRight'
    BY <1>2, BusyKept, Zenon DEF Inv
  <1>4. CASE age[c] > InvokeTimeout
    <2>1. TypeOK'
      BY <1>1, <1>4, Zenon DEF Inv, TypeOK, Retry, Goto, retryVars, connVars
    <2>2. NextDelayBounded' /\ RetryAgeBounded'
      BY <1>1, <1>4, Zenon DEF Inv, NextDelayBounded, RetryAgeBounded, retryVars, Interval
    <2> QED
      BY <1>3, <2>1, <2>2, Zenon DEF Inv
  <1>5. CASE ~(age[c] > InvokeTimeout)
    <2> DEFINE delay == IF kind = last[c] THEN next[c] ELSE Interval(kind)
    <2>1. delay \in Nat /\ Interval(kind) \in Nat /\ age[c] \in Nat /\ InvokeTimeout \in Nat
      BY IntervalNat, RpcAssumption, Zenon DEF Inv, TypeOK
    <2>2. delay <= age[c] + Interval(kind)
      BY <2>1, SMTT(30) DEF Inv, NextDelayBounded
    <2>3. /\ age' = [age EXCEPT ![c] = age[c] + delay]
          /\ next' = [next EXCEPT ![c] = 2 * delay]
          /\ last' = [last EXCEPT ![c] = kind]
          /\ Goto(c, "ready")
      BY <1>1, <1>5, Zenon
    <2> HIDE DEF delay
    <2>4. TypeOK'
      BY <2>1, <2>3, SMTT(30) DEF Inv, TypeOK, Retry, Goto, connVars
    <2>5. /\ 2 * delay <= age[c] + delay + Interval(kind)
          /\ age[c] + delay <= 2 * InvokeTimeout + Interval(kind)
      BY <1>5, <2>1, <2>2, SMTT(30)
    <2>6. ASSUME NEW d \in Callers
          PROVE  /\ next'[d] <= age'[d] + Interval(last[d])'
                 /\ age'[d] <= 2 * InvokeTimeout + Interval(last[d])'
      <3>1. CASE d = c
        <4>1. Interval(last[d])' = Interval(kind)
          BY <2>3, <3>1, Zenon DEF Inv, TypeOK, Interval
        <4>2. next'[d] = 2 * delay /\ age'[d] = age[c] + delay
          BY <2>3, <3>1, Zenon DEF Inv, TypeOK
        <4> QED
          BY <2>5, <4>1, <4>2, Zenon
      <3>2. CASE d # c
        <4>1. Interval(last[d])' = Interval(last[d])
          BY <2>3, <3>2, Zenon DEF Inv, TypeOK, Interval
        <4>2. next'[d] = next[d] /\ age'[d] = age[d]
          BY <2>3, <3>2, Zenon DEF Inv, TypeOK
        <4> QED
          BY <4>1, <4>2, Zenon DEF Inv, NextDelayBounded, RetryAgeBounded
      <3> QED
        BY <3>1, <3>2, Zenon
    <2>7. NextDelayBounded' /\ RetryAgeBounded'
      BY <2>6, Zenon DEF NextDelayBounded, RetryAgeBounded
    <2> QED
      BY <1>3, <2>4, <2>7, Zenon DEF Inv
  <1> QED
    BY <1>4, <1>5, Zenon

\* Every step keeps the invariant.
LEMMA NextInv == Inv /\ [Next]_vars => Inv'
  <1> SUFFICES ASSUME Inv, [Next]_vars PROVE Inv'
    BY Zenon
  <1>1. ASSUME UNCHANGED <<retryVars, tokens>>, TypeOK',
               \A d \in Callers : Holding(d)' = Holding(d)
        PROVE  Inv'
    <2>1. BusyCountRight'
      BY <1>1, BusyKept, Zenon DEF Inv
    <2>2. NextDelayBounded' /\ RetryAgeBounded'
      BY <1>1, Zenon DEF Inv, NextDelayBounded, RetryAgeBounded, retryVars, Interval
    <2> QED
      BY <1>1, <2>1, <2>2, Zenon DEF Inv
  <1>2. ASSUME NEW c \in Callers, Call(c) PROVE Inv'
    BY <1>1, <1>2, SMTT(30) DEF Inv, TypeOK, Call, Goto, Holding, retryVars, connVars
  <1>3. ASSUME NEW c \in Callers, Acquire(c) PROVE Inv'
    BY <1>3, AcquireInv, Zenon
  <1>4. ASSUME NEW c \in Callers, GetState(c) PROVE Inv'
    BY <1>1, <1>4, Zenon DEF Inv, TypeOK, GetState, Goto, Holding, retryVars, connVars
  <1>5. ASSUME NEW c \in Callers, Ready(c) PROVE Inv'
    <2>1. /\ pc' = [pc EXCEPT ![c] = "release"] \/ pc' = [pc EXCEPT ![c] = "calling"]
          /\ conn' = conn /\ outages' = outages
          /\ resets' \in {resets, resets + 1}
          /\ recovering' \in {recovering, TRUE, FALSE}
      BY <1>5, Zenon DEF Ready, TryRecover, Restored, Goto, connVars
    <2>2. TypeOK'
      <3>0. resets \in Nat /\ recovering \in BOOLEAN
        BY Zenon DEF Inv, TypeOK
      <3>a. resets' \in Nat
        BY <2>1, <3>0, SMT, SMTT(30)
      <3>b. recovering' \in BOOLEAN
        BY <2>1, <3>0, Zenon
      <3>1. resets' \in Nat /\ recovering' \in BOOLEAN
        BY <3>a, <3>b, Zenon
      <3>2. pc' \in [Callers -> {"idle", "acquire", "ready", "state", "calling", "release"}]
        BY <2>1, Zenon DEF Inv, TypeOK
      <3>3. UNCHANGED <<seen, age, last, next, count, tokens, conn, outages, shutdown, cut>>
        BY <1>5, <2>1, Zenon DEF Ready, retryVars
      <3> QED
        BY <3>1, <3>2, <3>3, Zenon DEF Inv, TypeOK
    <2>3. \A d \in Callers : Holding(d)' = Holding(d)
      BY <1>5, <2>1, Zenon DEF Inv, TypeOK, Ready, Holding
    <2> QED
      BY <1>1, <1>5, <2>2, <2>3, Zenon DEF Ready
  <1>6. ASSUME NEW c \in Callers, Answer(c) PROVE Inv'
    BY <1>1, <1>6, Zenon DEF Inv, TypeOK, Answer, Goto, Holding, retryVars, connVars
  <1>7. ASSUME NEW c \in Callers, Retry(c) PROVE Inv'
    BY <1>7, RetryInv, Zenon
  <1>8. ASSUME NEW c \in Callers, Release(c) PROVE Inv'
    BY <1>8, ReleaseInv, Zenon
  <1>9. CASE Fail
    BY <1>1, <1>9, SMTT(30) DEF Inv, TypeOK, Fail, Holding, callVars, retryVars
  <1>10. CASE Reconnect
    BY <1>1, <1>10, Zenon DEF Inv, TypeOK, Reconnect, Holding, callVars, retryVars
  <1>11. CASE Shutdown
    BY <1>1, <1>11, Zenon DEF Inv, TypeOK, Shutdown, Holding, callVars, connVars, retryVars
  <1>12. CASE ShutdownCheck
    <2>1. resets' \in Nat /\ recovering' \in BOOLEAN
      BY <1>12, SMTT(30) DEF Inv, TypeOK, ShutdownCheck
    <2>2. TypeOK'
      BY <1>12, <2>1, Zenon DEF Inv, TypeOK, ShutdownCheck, callVars, retryVars
    <2> QED
      BY <1>1, <1>12, <2>2, Zenon DEF ShutdownCheck, Holding, callVars, retryVars
  <1>13. CASE Close
    BY <1>1, <1>13, Zenon DEF Inv, TypeOK, Close, Holding, callVars, retryVars
  <1>14. CASE UNCHANGED vars
    BY <1>1, <1>14, Zenon DEF Inv, TypeOK, Holding, vars, callVars, connVars, retryVars
  <1> QED
    BY <1>2, <1>3, <1>4, <1>5, <1>6, <1>7, <1>8, <1>9, <1>10, <1>11, <1>12, <1>13, <1>14,
       ZenonT(60)
    DEF Next, Finish

\* Every variable of the controller keeps its type; the barrier's channel
\* never holds more tokens than its capacity, so that Release never blocks.
THEOREM RpcTypeCorrect == Spec => []TypeOK
  <1>1. Inv => TypeOK
    BY Zenon DEF Inv
  <1> QED
    BY <1>1, InitInv, NextInv, PTL DEF Spec

\* BusyCount is the number of calls in progress, whichever way calls end.
THEOREM TokensBalance == Spec => []BusyCountRight
  <1>1. Inv => BusyCountRight
    BY Zenon DEF Inv
  <1> QED
    BY <1>1, InitInv, NextInv, PTL DEF Spec

\* A call sleeps for at most twice the invoke timeout and one interval,
\* whatever the timeout and the intervals are.
THEOREM RetriesAreBounded == Spec => []RetryAgeBounded
  <1>1. Inv => RetryAgeBounded
    BY Zenon DEF Inv
  <1> QED
    BY <1>1, InitInv, NextInv, PTL DEF Spec

-----------------------------------------------------------------------------

\* the requests of the breaker's generation that have no outcome yet
InFlight == {c \in HttpCallers : request[c] = generation}

\* Every request the breaker has counted is accounted for.
RequestsAccounted ==
  requests = successes + failures + kept + Cardinality(InFlight)

\* A half-open breaker has seen neither a failure nor enough successes.
HalfOpenUndecided ==
  breaker = "half-open" => failures = 0 /\ successes < HalfOpenRequests

\* the inductive invariant of the HTTP RPC client
HInv == HTypeOK /\ RequestsAccounted /\ HalfOpenUndecided

\* The requests in flight are finitely many.
LEMMA InFlightFinite == IsFiniteSet(InFlight) /\ Cardinality(InFlight) \in Nat
  BY HttpAssumption, FS_Subset, FS_CardinalityType, Zenon DEF InFlight

\* The breaker's type is kept by every step.
LEMMA HTypeStep == HTypeOK /\ [HNext]_hvars => HTypeOK'
  <1> SUFFICES ASSUME HTypeOK, [HNext]_hvars PROVE HTypeOK'
    BY Zenon
  <1> USE HttpAssumption DEF HTypeOK
  <1>1. ASSUME NEW c \in HttpCallers, startRequest(c) PROVE HTypeOK'
    BY <1>1, SMTT(30) DEF startRequest
  <1>2. ASSUME NEW c \in HttpCallers, responseArrives(c) PROVE HTypeOK'
    BY <1>2, SMTT(30) DEF responseArrives, cbCallback, NewGeneration
  <1>3. ASSUME NEW c \in HttpCallers, requestFails(c) PROVE HTypeOK'
    BY <1>3, SMTT(30) DEF requestFails, cbCallback, NewGeneration
  <1>4. ASSUME NEW c \in HttpCallers, requestTimesOut(c) PROVE HTypeOK'
    BY <1>4, SMTT(30) DEF requestTimesOut
  <1>5. CASE breakerExpires
    BY <1>5, SMTT(30) DEF breakerExpires, NewGeneration
  <1>6. CASE UNCHANGED hvars
    BY <1>6, Zenon DEF hvars
  <1> QED
    BY <1>1, <1>2, <1>3, <1>4, <1>5, <1>6, Zenon DEF HNext

\* A new generation of the breaker has no requests: those in flight belong to
\* an earlier one.
LEMMA NewGenerationEmpty ==
  ASSUME HTypeOK, NEW state, NewGeneration(state),
         \A c \in HttpCallers : request'[c] \in {request[c], 0}
  PROVE  InFlight' = {}
  BY SMTT(30) DEF HTypeOK, NewGeneration, InFlight

\* A call that leaves takes its request out of flight, if the request is of
\* the breaker's generation.
LEMMA RequestLeaves ==
  ASSUME HTypeOK, NEW c \in HttpCallers, request[c] # 0,
         request' = [request EXCEPT ![c] = 0], generation' = generation
  PROVE  Cardinality(InFlight') = IF request[c] = generation
                                  THEN Cardinality(InFlight) - 1
                                  ELSE Cardinality(InFlight)
  <1>1. InFlight' = InFlight \ {c}
    BY Zenon DEF HTypeOK, InFlight
  <1>2. c \in InFlight <=> request[c] = generation
    BY Zenon DEF InFlight
  <1> QED
    BY <1>1, <1>2, InFlightFinite, FS_RemoveElement, Zenon

\* The accounts hold after every step of a call and of the breaker.
LEMMA AccountsStep == HInv /\ [HNext]_hvars => RequestsAccounted' /\ HalfOpenUndecided'
  <1> SUFFICES ASSUME HInv, [HNext]_hvars
               PROVE  RequestsAccounted' /\ HalfOpenUndecided'
    BY Zenon
  <1> USE HttpAssumption, InFlightFinite DEF HInv
  <1>0. HTypeOK'
    BY HTypeStep, Zenon
  <1>1. ASSUME NEW c \in HttpCallers, startRequest(c)
        PROVE  RequestsAccounted' /\ HalfOpenUndecided'
    <2>1. InFlight' = InFlight \cup {c} /\ c \notin InFlight
      BY <1>1, Zenon DEF startRequest, InFlight, HTypeOK
    <2>2. Cardinality(InFlight') = Cardinality(InFlight) + 1
      BY <2>1, FS_AddElement, Zenon
    <2> QED
      BY <1>1, <2>2, SMTT(30) DEF startRequest, RequestsAccounted, HalfOpenUndecided, HTypeOK
  <1>2. ASSUME NEW state \in {"closed", "open", "half-open"}, NewGeneration(state),
               \A c \in HttpCallers : request'[c] \in {request[c], 0}
        PROVE  RequestsAccounted' /\ HalfOpenUndecided'
    <2>1. InFlight' = {}
      BY <1>2, NewGenerationEmpty, Zenon
    <2> QED
      BY <1>2, <2>1, FS_EmptySet, SMTT(30)
      DEF NewGeneration, RequestsAccounted, HalfOpenUndecided
  <1>3. ASSUME NEW c \in HttpCallers, NEW success \in BOOLEAN, request[c] # 0,
               cbCallback(c, success), request' = [request EXCEPT ![c] = 0]
        PROVE  RequestsAccounted' /\ HalfOpenUndecided'
    <2>1. \A d \in HttpCallers : request'[d] \in {request[d], 0}
      BY <1>3, Zenon DEF HTypeOK
    <2>2. CASE NewGeneration("closed") \/ NewGeneration("open")
      BY <2>1, <2>2, <1>2, Zenon
    <2>3. CASE ~(NewGeneration("closed") \/ NewGeneration("open"))
      <3>1. generation' = generation
        BY <1>3, <2>3, Zenon DEF cbCallback
      <3>2. Cardinality(InFlight') = IF request[c] = generation
                                     THEN Cardinality(InFlight) - 1
                                     ELSE Cardinality(InFlight)
        BY <1>3, <3>1, RequestLeaves, Zenon
      <3> QED
        BY <1>3, <2>3, <3>2, SMTT(30)
        DEF cbCallback, RequestsAccounted, HalfOpenUndecided, HTypeOK
    <2> QED
      BY <2>2, <2>3, Zenon
  <1>4. ASSUME NEW c \in HttpCallers, requestTimesOut(c)
        PROVE  RequestsAccounted' /\ HalfOpenUndecided'
    <2>1. Cardinality(InFlight') = IF request[c] = generation
                                   THEN Cardinality(InFlight) - 1
                                   ELSE Cardinality(InFlight)
      BY <1>4, RequestLeaves, Zenon DEF requestTimesOut
    <2> QED
      BY <1>4, <2>1, SMTT(30) DEF requestTimesOut, RequestsAccounted, HalfOpenUndecided, HTypeOK
  <1>5. CASE breakerExpires
    BY <1>2, <1>5, Zenon DEF breakerExpires, HTypeOK
  <1>6. CASE UNCHANGED hvars
    BY <1>6, Zenon DEF hvars, RequestsAccounted, HalfOpenUndecided, InFlight
  <1> QED
    BY <1>1, <1>3, <1>4, <1>5, <1>6, Zenon DEF HNext, responseArrives, requestFails

\* A half-open breaker that refuses calls waits for the outcome of a request
\* in flight or has lost one to a timeout (performRequest, NewHTTPService).
THEOREM BreakerDecides == HSpec => []BreakerGetsAnOutcome
  <1>1. HInit => HInv
    <2> SUFFICES ASSUME HInit PROVE HInv
      BY Zenon
    <2>1. InFlight = {}
      BY SMTT(30) DEF HInit, InFlight
    <2> QED
      BY <2>1, FS_EmptySet, SMTT(30)
      DEF HInit, HInv, HTypeOK, RequestsAccounted, HalfOpenUndecided
  <1>2. HInv /\ [HNext]_hvars => HInv'
    BY HTypeStep, AccountsStep, Zenon DEF HInv
  <1>3. HInv => BreakerGetsAnOutcome
    <2> SUFFICES ASSUME HInv, breaker = "half-open", requests >= HalfOpenRequests,
                        kept = 0
                 PROVE  \E c \in HttpCallers : request[c] = generation
      BY SMTT(30) DEF BreakerGetsAnOutcome, HInv, HTypeOK
    <2>1. Cardinality(InFlight) # 0
      BY HttpAssumption, InFlightFinite, SMTT(30)
      DEF HInv, HTypeOK, RequestsAccounted, HalfOpenUndecided
    <2>2. InFlight # {}
      BY <2>1, FS_EmptySet, Zenon
    <2> QED
      BY <2>2, Zenon DEF InFlight
  <1> QED
    BY <1>1, <1>2, <1>3, PTL DEF HSpec

-----------------------------------------------------------------------------

\* the callers whose call has not taken effect
Underway == {c \in NatsCallers : turn[c] # AtRest}

\* Every variable keeps its type, and the calls have numbers of their own.
MTypeOK ==
  /\ followed \in BOOLEAN /\ swapped \in BOOLEAN /\ doubled \in BOOLEAN
  /\ made \in Nat /\ entry \in Nat
  /\ turn \in [NatsCallers ->
                 [at : {"rest", "look", "subscribe", "unsubscribe"}, n : Nat]]
  /\ \A c \in Underway : turn[c].at # "rest" /\ turn[c].n \in 1 .. made
  /\ \A c, d \in Underway : turn[c].n = turn[d].n => c = d

\* The tracker lets subscribe and unsubscribe in turn: odd calls subscribe.
CallsAlternate ==
  /\ followed <=> made % 2 = 1
  /\ \A c \in Underway : turn[c].at = "unsubscribe" <=> turn[c].n % 2 = 0

\* As long as the calls take effect in their order, the first `upto` of them
\* have, the others are underway, and the entry is what the last one left.
InOrder(upto) ==
  /\ upto \in 0 .. made
  /\ \A c \in Underway : turn[c].n > upto
  /\ \A m \in upto + 1 .. made : \E c \in Underway : turn[c].n = m
  /\ entry # 0 <=> upto % 2 = 1

\* The connection has the subscription the entry is for, and no other.
OneSubscription == ~doubled => natsSubs = {entry} \ {0}

\* the inductive invariant of NatsSubscriber
MInv ==
  /\ MTypeOK /\ CallsAlternate /\ OneSubscription
  /\ ~swapped => \E upto \in 0 .. made : InOrder(upto)

\* The next number has the other parity.
LEMMA ParityFlips ==
  \A k \in Nat : k % 2 \in {0, 1} /\ (k + 1) % 2 = 1 - (k % 2)
  BY SMTT(30)

\* The types, the numbers and the parity of the calls are kept by every step.
LEMMA MTypeStep ==
  MTypeOK /\ CallsAlternate /\ [MNext]_mvars => MTypeOK' /\ CallsAlternate'
  <1> SUFFICES ASSUME MTypeOK, CallsAlternate, [MNext]_mvars
               PROVE  MTypeOK' /\ CallsAlternate'
    BY Zenon
  <1>1. ASSUME NEW c \in NatsCallers, TrackerLets(c)
        PROVE  MTypeOK' /\ CallsAlternate'
    <2>1. /\ Underway' = Underway \cup {c} /\ c \notin Underway
          /\ turn'[c].at = IF followed THEN "unsubscribe" ELSE "look"
          /\ turn'[c].n = made + 1
          /\ \A d \in Underway : turn'[d] = turn[d]
      BY <1>1, Zenon DEF TrackerLets, MTypeOK, Underway, AtRest
    <2>2. (followed' <=> ~followed) /\ followed' \in BOOLEAN
      BY <1>1, Zenon DEF TrackerLets
    <2>3. MTypeOK'
      BY <1>1, <2>1, <2>2, SMTT(30) DEF TrackerLets, MTypeOK
    <2>4. made' % 2 = 1 - (made % 2) /\ made % 2 \in {0, 1}
      BY <1>1, ParityFlips, Zenon DEF TrackerLets, MTypeOK
    <2>5. CallsAlternate'
      BY <1>1, <2>1, <2>2, <2>4, SMTT(30) DEF TrackerLets, MTypeOK, CallsAlternate
    <2> QED
      BY <2>3, <2>5, Zenon
  <1>2. ASSUME NEW c \in NatsCallers, LookUp(c)
        PROVE  MTypeOK' /\ CallsAlternate'
    <2>1. CASE entry # 0
      BY <1>2, <2>1, SMTT(30) DEF LookUp, Effect, MTypeOK, CallsAlternate, Underway, AtRest
    <2>2. CASE entry = 0
      <3>1. /\ Underway' = Underway /\ c \in Underway /\ Underway \subseteq NatsCallers
            /\ turn'[c].at = "subscribe" /\ \A d \in NatsCallers : turn'[d].n = turn[d].n
            /\ turn' \in [NatsCallers ->
                    [at : {"rest", "look", "subscribe", "unsubscribe"}, n : Nat]]
            /\ \A d \in NatsCallers \ {c} : turn'[d] = turn[d]
        BY <1>2, <2>2, SMTT(30) DEF LookUp, MTypeOK, Underway, AtRest
      <3> QED
        <4>1. CallsAlternate'
          <5>1. turn[c].at = "look" /\ made' = made /\ followed' = followed
            BY <1>2, Zenon DEF LookUp
          <5> QED
            BY <3>1, <5>1, ZenonT(60) DEF CallsAlternate
        <4>2. MTypeOK'
          BY <1>2, <2>2, <3>1, SMTT(30) DEF LookUp, MTypeOK
        <4> QED
          BY <4>1, <4>2, Zenon
    <2> QED
      BY <2>1, <2>2, Zenon
  <1>3. ASSUME NEW c \in NatsCallers, UnsubscribeNats(c)
        PROVE  MTypeOK' /\ CallsAlternate'
    BY <1>3, ZenonT(60) DEF UnsubscribeNats, Effect, MTypeOK, CallsAlternate, Underway, AtRest
  <1>4. ASSUME NEW c \in NatsCallers, NEW ok \in BOOLEAN, SubscribeNats(c, ok)
        PROVE  MTypeOK' /\ CallsAlternate'
    BY <1>4, Zenon DEF SubscribeNats, MTypeOK, CallsAlternate, Underway, AtRest
  <1>5. CASE UNCHANGED mvars
    BY <1>5, Zenon DEF mvars, MTypeOK, CallsAlternate, Underway
  <1> QED
    BY <1>1, <1>2, <1>3, <1>4, <1>5, Zenon DEF MNext

\* A call that takes effect when no earlier one is underway is the next one.
LEMMA FirstIsNext ==
  ASSUME MTypeOK, NEW upto \in Nat, InOrder(upto),
         NEW c \in Underway, ~Earlier(c)
  PROVE  turn[c].n = upto + 1
  BY SMTT(30) DEF MTypeOK, InOrder, Underway, Earlier

\* When a call comes to rest the others stay as they were.
LEMMA RestLeaves ==
  ASSUME MTypeOK, NEW c \in NatsCallers, turn' = [turn EXCEPT ![c] = AtRest]
  PROVE  /\ Underway' = Underway \ {c}
         /\ \A d \in Underway' : turn'[d] = turn[d]
  BY Zenon DEF MTypeOK, Underway

\* The next call comes to rest and leaves the entry it has to: the calls are
\* still in order, with one more that took effect.
LEMMA EffectInOrder ==
  ASSUME MInv, NEW c \in Underway, turn' = [turn EXCEPT ![c] = AtRest],
         made' = made, entry' \in Nat, ~swapped, ~Earlier(c),
         entry' # 0 <=> turn[c].n % 2 = 1
  PROVE  \E upto \in 0 .. made' : InOrder(upto)'
  <1>1. PICK upto \in 0 .. made : InOrder(upto)
    BY Zenon DEF MInv
  <1>2. turn[c].n = upto + 1 /\ turn[c].n \in 1 .. made
    BY <1>1, FirstIsNext, SMTT(30) DEF MInv, MTypeOK
  <1>3. /\ Underway' = Underway \ {c}
        /\ \A d \in Underway' : turn'[d] = turn[d]
    BY RestLeaves, Zenon DEF MInv, Underway
  <1>4. InOrder(upto + 1)'
    <2>1. (upto + 1) % 2 = turn[c].n % 2
      BY <1>2, Zenon
    <2>2. \A d \in Underway \ {c} : turn[d].n # upto + 1
      BY <1>2, Zenon DEF MInv, MTypeOK
    <2>3. \A d \in Underway : turn[d].n \in Nat
      BY Zenon DEF MInv, MTypeOK, Underway
    <2> QED
      BY <1>1, <1>2, <1>3, <2>1, <2>2, <2>3, SMTT(30) DEF InOrder, MInv, MTypeOK
  <1> QED
    BY <1>2, <1>4, SMTT(30) DEF MInv, MTypeOK

\* The calls stay in order through every step that does not swap two of them.
LEMMA OrderStep ==
  MInv /\ [MNext]_mvars => (~swapped' => \E upto \in 0 .. made' : InOrder(upto)')
  <1> SUFFICES ASSUME MInv, [MNext]_mvars, ~swapped'
               PROVE  \E upto \in 0 .. made' : InOrder(upto)'
    BY Zenon
  <1> USE DEF MInv
  <1>1. ASSUME NEW c \in NatsCallers, TrackerLets(c)
        PROVE  \E upto \in 0 .. made' : InOrder(upto)'
    <2>1. PICK upto \in 0 .. made : InOrder(upto)
      BY <1>1, Zenon DEF TrackerLets
    <2>2. InOrder(upto)'
      BY <1>1, <2>1, SMTT(30) DEF TrackerLets, InOrder, MTypeOK, Underway, AtRest
    <2> QED
      BY <1>1, <2>2, SMTT(30) DEF TrackerLets, MTypeOK
  <1>2. ASSUME NEW c \in NatsCallers, LookUp(c), entry = 0
        PROVE  \E upto \in 0 .. made' : InOrder(upto)'
    <2>1. PICK upto \in 0 .. made : InOrder(upto)
      BY <1>2, Zenon DEF LookUp
    <2>2. InOrder(upto)'
      BY <1>2, <2>1, SMTT(30) DEF LookUp, InOrder, MTypeOK, Underway, AtRest
    <2> QED
      BY <1>2, <2>2, Zenon DEF LookUp, MTypeOK
  <1>3. ASSUME NEW c \in NatsCallers, LookUp(c), entry # 0
        PROVE  \E upto \in 0 .. made' : InOrder(upto)'
    <2>1. ~swapped /\ ~Earlier(c)
      BY <1>3, Zenon DEF LookUp, Effect
    <2>2. c \in Underway /\ turn[c].n % 2 = 1
      BY <1>3, ParityFlips, SMTT(30) DEF LookUp, Underway, AtRest, CallsAlternate, MTypeOK
    <2> QED
      BY <1>3, <2>1, <2>2, EffectInOrder, Zenon DEF LookUp, Effect, MTypeOK
  <1>4. ASSUME NEW c \in NatsCallers, UnsubscribeNats(c)
        PROVE  \E upto \in 0 .. made' : InOrder(upto)'
    <2>1. ~swapped /\ ~Earlier(c)
      BY <1>4, Zenon DEF UnsubscribeNats, Effect
    <2>2. c \in Underway /\ turn[c].n % 2 # 1
      BY <1>4, SMTT(30) DEF UnsubscribeNats, Underway, AtRest, CallsAlternate, MTypeOK
    <2>3. entry' = 0 /\ made' = made /\ turn' = [turn EXCEPT ![c] = AtRest]
      BY <1>4, Zenon DEF UnsubscribeNats, Effect
    <2> QED
      BY <2>1, <2>2, <2>3, EffectInOrder, Zenon
  <1>5. ASSUME NEW c \in NatsCallers, NEW ok \in BOOLEAN, SubscribeNats(c, ok)
        PROVE  \E upto \in 0 .. made' : InOrder(upto)'
    <2>1. ~swapped /\ ok /\ ~Earlier(c)
      BY <1>5, Zenon DEF SubscribeNats
    <2>2. c \in Underway /\ turn[c].n % 2 = 1 /\ turn[c].n \in Nat \ {0}
      BY <1>5, ParityFlips, SMTT(30) DEF SubscribeNats, Underway, AtRest, CallsAlternate, MTypeOK
    <2> QED
      BY <1>5, <2>1, <2>2, EffectInOrder, Zenon DEF SubscribeNats
  <1>6. CASE UNCHANGED mvars
    BY <1>6, Zenon DEF mvars, InOrder, Underway
  <1> QED
    BY <1>1, <1>2, <1>3, <1>4, <1>5, <1>6, Zenon DEF MNext

\* Between calls the NATS connection is subscribed to a stream once if it has
\* subscribers and not at all if it has none (Subscribe, Unsubscribe).
THEOREM NatsSubscribedOnce == MSpec => []NatsFollowsTracker
  <1>1. MInit => MInv
    <2> SUFFICES ASSUME MInit PROVE MInv
      BY Zenon
    <2>1. Underway = {}
      BY Zenon DEF MInit, Underway
    <2>2. InOrder(0)
      BY <2>1, SMTT(30) DEF MInit, InOrder
    <2> QED
      <3>1. MTypeOK
        BY <2>1, Zenon DEF MInit, MTypeOK, AtRest
      <3>2. CallsAlternate /\ OneSubscription
        BY <2>1, SMTT(30) DEF MInit, CallsAlternate, OneSubscription
      <3> QED
        BY <2>2, <3>1, <3>2, SMTT(30) DEF MInit, MInv
  <1>2. MInv /\ [MNext]_mvars => OneSubscription'
    <2> SUFFICES ASSUME MInv, [MNext]_mvars PROVE OneSubscription'
      BY Zenon
    <2>1. ASSUME NEW c \in NatsCallers, NEW ok \in BOOLEAN, SubscribeNats(c, ok)
          PROVE  OneSubscription'
      <3>1. turn[c].n # 0
        BY <2>1, SMTT(30) DEF SubscribeNats, MInv, MTypeOK, Underway, AtRest
      <3> QED
        BY <2>1, <3>1, Zenon DEF SubscribeNats, MInv, OneSubscription
    <2> QED
      BY <2>1, Zenon DEF MNext, mvars, TrackerLets, LookUp, Effect, UnsubscribeNats,
                  MInv, OneSubscription
  <1>3. MInv /\ [MNext]_mvars => MInv'
    BY <1>2, MTypeStep, OrderStep, Zenon DEF MInv
  <1>4. MInv => NatsFollowsTracker
    <2> SUFFICES ASSUME MInv, \A c \in NatsCallers : turn[c] = AtRest, ~swapped
                 PROVE  entry # 0 <=> followed
      BY Zenon DEF MInv, NatsFollowsTracker, OneSubscription
    <2>1. PICK upto \in 0 .. made : InOrder(upto)
      BY Zenon DEF MInv
    <2>2. upto = made
      BY <2>1, SMTT(30) DEF InOrder, Underway, MInv, MTypeOK
    <2> QED
      BY <2>1, <2>2, Zenon DEF InOrder, MInv, CallsAlternate
  <1> QED
    BY <1>1, <1>3, <1>4, PTL DEF MSpec

-----------------------------------------------------------------------------
(* The Redis subscriber.                                                   *)

\* the two calls there are
CallOps == {"subscribe", "unsubscribe"}

\* a call, with its number and how far it has got
CallRecord == [op : CallOps, id : Channels, n : Nat, at : {"called", "recorded"}]

\* what a call sends to the loop
CommandRecord == [cmd : CallOps, id : Channels]

\* What the variables hold: the calls have numbers of their own.
STypes ==
  /\ calls \in Nat
  /\ call \in [SubCallers -> {NoCall} \cup CallRecord]
  /\ \A c \in SubCallers : call[c].op # "none" => call[c].n < calls
  /\ \A c, d \in SubCallers :
       (call[c].op # "none" /\ call[d].op # "none" /\ call[c].n = call[d].n) => c = d
  /\ commandsCh \in Seq(CommandRecord)

\* the call of c is about the stream s and has got to `at`
At(c, s, at) == call[c].op # "none" /\ call[c].id = s /\ call[c].at = at

\* the call of c was made before that of d
Before(c, d) == call[c].n < call[d].n

\* the call of c is a Subscribe
Subscribes(c) == call[c].op = "subscribe"

\* Of the calls that have not got subMu yet, the first changes the recorded
\* streams, each one undoes what the one before it does, and the last one
\* leaves what the tracker has.
CalledOK(s) ==
  /\ \A c \in SubCallers :
       (At(c, s, "called") /\ \A d \in SubCallers : At(d, s, "called") => ~Before(d, c))
         => (Subscribes(c) <=> s \notin wanted)
  /\ \A c, d \in SubCallers :
       (/\ At(c, s, "called") /\ At(d, s, "called") /\ Before(c, d)
        /\ \A e \in SubCallers : At(e, s, "called") => ~(Before(c, e) /\ Before(e, d)))
         => (Subscribes(c) <=> ~Subscribes(d))
  /\ \A c \in SubCallers :
       (At(c, s, "called") /\ \A d \in SubCallers : At(d, s, "called") => ~Before(c, d))
         => (Subscribes(c) <=> s \in tracked)
  /\ (\A c \in SubCallers : ~At(c, s, "called")) => (s \in wanted <=> s \in tracked)

\* The calls that have recorded their stream did so before the others, and the
\* last one of them left it as it is recorded.
RecordedOK(s) ==
  /\ \A c, d \in SubCallers : (At(c, s, "recorded") /\ At(d, s, "called")) => Before(c, d)
  /\ \A c \in SubCallers :
       (At(c, s, "recorded") /\ \A d \in SubCallers : At(d, s, "recorded") => ~Before(c, d))
         => (Subscribes(c) <=> s \in wanted)

\* all calls about s have sent their command
AllSent(s) == \A c \in SubCallers : ~At(c, s, "recorded")

\* Then the last command about s is right, and without one the connection is.
SentOK(s) ==
  AllSent(s) =>
    /\ \A i \in 1 .. Len(commandsCh) :
         (commandsCh[i].id = s /\ \A j \in 1 .. Len(commandsCh) : commandsCh[j].id = s => j <= i)
           => (commandsCh[i].cmd = "subscribe" <=> s \in wanted)
    /\ (loop = "select" /\ linked /\ \A i \in 1 .. Len(commandsCh) : commandsCh[i].id # s)
         => (s \in remote <=> s \in wanted)

\* the calls, the commands and the connection agree about s
StreamOK(s) == CalledOK(s) /\ RecordedOK(s) /\ SentOK(s)

\* the inductive invariant of RedisSubscriber
SInv == STypes /\ \A s \in Channels : s \in overtaken \/ StreamOK(s)

\* The numbers put the calls in an order.
LEMMA CallsOrdered ==
  ASSUME STypes
  PROVE  \A c, d \in {e \in SubCallers : call[e].op # "none"} :
           /\ ~Before(c, c)
           /\ Before(c, d) => ~Before(d, c)
           /\ c # d => (Before(c, d) \/ Before(d, c))
<1>1. \A c \in SubCallers : call[c].op # "none" => call[c].n \in Nat
  BY SMTT(30) DEF STypes, CallRecord, NoCall
<1>2. ASSUME NEW c \in SubCallers, NEW d \in SubCallers, call[c].op # "none", call[d].op # "none"
      PROVE  /\ ~Before(c, c) /\ (Before(c, d) => ~Before(d, c))
             /\ c # d => (Before(c, d) \/ Before(d, c))
  BY <1>1, <1>2, SMTT(30) DEF STypes, Before
<1> QED  BY <1>2, Zenon

\* A call about another stream changes nothing for s.
LEMMA CallsUnmoved ==
  ASSUME NEW s \in Channels, CalledOK(s), RecordedOK(s),
         \A c \in SubCallers : \A at \in {"called", "recorded"} :
           (At(c, s, at)' <=> At(c, s, at)) /\ (At(c, s, at) => call'[c] = call[c]),
         s \in wanted' <=> s \in wanted, s \in tracked' <=> s \in tracked
  PROVE  CalledOK(s)' /\ RecordedOK(s)' /\ (AllSent(s)' <=> AllSent(s))
<1>1. \A c \in SubCallers : \A at \in {"called", "recorded"} :
        At(c, s, at) => (Subscribes(c)' <=> Subscribes(c))
  BY Zenon DEF Subscribes
<1>2. \A c, d \in SubCallers : \A at, to \in {"called", "recorded"} :
        (At(c, s, at) /\ At(d, s, to)) => (Before(c, d)' <=> Before(c, d))
  BY Zenon DEF Before
<1>3. CalledOK(s)'
  BY <1>1, <1>2, Zenon DEF CalledOK
<1>4. RecordedOK(s)'
  BY <1>1, <1>2, Zenon DEF RecordedOK
<1>5. AllSent(s)' <=> AllSent(s)
  BY Zenon DEF AllSent
<1> QED  BY <1>3, <1>4, <1>5, Zenon

\* Every step keeps the types, and the numbers of the calls apart.
LEMMA STypesStep ==
  ASSUME STypes, [SNext]_svars
  PROVE  STypes'
<1>0. \A c \in SubCallers : call[c].op # "none" => call[c] \in CallRecord
  BY SMTT(30) DEF STypes, CallRecord, NoCall
<1>1. ASSUME NEW c \in SubCallers, NEW s \in Channels, StartCall(c, s)
      PROVE  STypes'
  <2>1. PICK op \in CallOps :
          /\ call' = [call EXCEPT ![c] = [op |-> op, id |-> s, n |-> calls, at |-> "called"]]
          /\ calls' = calls + 1 /\ commandsCh' = commandsCh /\ call[c] = NoCall
    BY <1>1, Zenon DEF StartCall, CallOps
  <2>2. call'[c] \in CallRecord /\ call'[c].n = calls /\ calls \in Nat
    BY <2>1, Zenon DEF STypes, CallRecord
  <2>3. \A d \in SubCallers \ {c} : call'[d] = call[d]
    BY <2>1, Zenon DEF STypes
  <2>4. \A d \in SubCallers \ {c} : call'[d].op # "none" => call'[d].n \in Nat /\ call'[d].n < calls
    BY <1>0, <2>3, Zenon DEF STypes, CallRecord
  <2>5. call' \in [SubCallers -> {NoCall} \cup CallRecord]
    BY <2>1, <2>2, <2>3, Zenon DEF STypes
  <2> QED  BY <2>1, <2>2, <2>3, <2>4, <2>5, SMTT(30) DEF STypes
<1>2. ASSUME NEW c \in SubCallers, Record(c)
      PROVE  STypes'
  <2>1. /\ call[c] \in CallRecord /\ calls' = calls /\ commandsCh' = commandsCh
        /\ \/ call' = [call EXCEPT ![c] = [call[c] EXCEPT !.at = "recorded"]]
           \/ call' = [call EXCEPT ![c] = NoCall]
    BY <1>0, <1>2, Zenon DEF Record, STypes
  <2>2. \A d \in SubCallers \ {c} : call'[d] = call[d]
    BY <2>1, Zenon DEF STypes
  <2>3. \/ call'[c] = NoCall
        \/ call'[c] \in CallRecord /\ call'[c].n = call[c].n /\ call'[c].op = call[c].op
    BY <2>1, SMTT(30) DEF STypes, CallRecord
  <2>4. call' \in [SubCallers -> {NoCall} \cup CallRecord]
    BY <2>1, <2>2, <2>3, Zenon DEF STypes
  <2>5. \A d \in SubCallers : call'[d].op # "none" => (call[d].op # "none" /\ call'[d].n = call[d].n)
    BY <2>2, <2>3, SMTT(30) DEF NoCall
  <2> QED  BY <2>1, <2>4, <2>5, ZenonT(60) DEF STypes
<1>3. ASSUME NEW c \in SubCallers, SendCommand(c)
      PROVE  STypes'
  <2>1. /\ call[c] \in CallRecord /\ calls' = calls /\ call' = [call EXCEPT ![c] = NoCall]
        /\ commandsCh' = Append(commandsCh, [cmd |-> call[c].op, id |-> call[c].id])
    BY <1>0, <1>3, Zenon DEF SendCommand
  <2>2. call' \in [SubCallers -> {NoCall} \cup CallRecord]
    BY <2>1, Zenon DEF STypes
  <2>3. \A d \in SubCallers : call'[d].op # "none" => (call[d].op # "none" /\ call'[d].n = call[d].n)
    BY <2>1, Zenon DEF STypes, NoCall
  <2>4. commandsCh' \in Seq(CommandRecord)
    <3>1. [cmd |-> call[c].op, id |-> call[c].id] \in CommandRecord
      BY <2>1, Zenon DEF CallRecord, CommandRecord
    <3> QED  BY <2>1, <3>1, SMTT(30) DEF STypes
  <2>5. calls' = calls
    BY <2>1, Zenon
  <2> QED  BY <2>2, <2>3, <2>4, <2>5, ZenonT(60) DEF STypes
<1>4. CASE runCommand
  <2>1. commandsCh' \in Seq(CommandRecord)
    BY <1>4, SMTT(30) DEF runCommand, STypes
  <2>2. call' = call /\ calls' = calls
    BY <1>4, Zenon DEF runCommand
  <2> QED  BY <2>1, <2>2, Zenon DEF STypes
<1>5. CASE UNCHANGED <<call, calls, commandsCh>>
  BY <1>5, Zenon DEF STypes
<1> QED
  <2>1. CASE initRedis \/ resubscribe \/ leaveLoop \/ reconnectOrFail \/ Break \/ closeClient
             \/ UNCHANGED svars
    BY <1>5, <2>1, Zenon
    DEF initRedis, resubscribe, leaveLoop, reconnectOrFail, Break, closeClient, svars
  <2> QED  BY <1>1, <1>2, <1>3, <1>4, <2>1, Zenon DEF SNext, LoopStep

\* A call about a stream that no call has overtaken keeps what holds of it.
LEMMA StartCallStep ==
  ASSUME STypes, STypes', NEW c0 \in SubCallers, NEW x \in Channels, StartCall(c0, x),
         NEW s \in Channels, StreamOK(s)
  PROVE  StreamOK(s)'
<1>1. /\ call[c0].op = "none" /\ call'[c0].op \in CallOps /\ call'[c0].id = x
      /\ call'[c0].n = calls /\ call'[c0].at = "called"
      /\ call'[c0].op = "subscribe" <=> x \notin tracked
      /\ \A d \in SubCallers \ {c0} : call'[d] = call[d]
  BY SMTT(30) DEF StartCall, STypes, NoCall, CallOps
<1>2. /\ UNCHANGED <<wanted, commandsCh, remote, loop, linked>>
      /\ x \in tracked' <=> x \notin tracked
      /\ \A y \in Channels \ {x} : y \in tracked' <=> y \in tracked
  BY Zenon DEF StartCall
<1>3. CASE s # x
  <2>1. \A c \in SubCallers : \A at \in {"called", "recorded"} :
           (At(c, s, at)' <=> At(c, s, at)) /\ (At(c, s, at) => call'[c] = call[c])
    BY <1>1, <1>3, Zenon DEF At, CallOps
  <2>2. CalledOK(s)' /\ RecordedOK(s)' /\ (AllSent(s)' <=> AllSent(s))
    BY <1>2, <1>3, <2>1, CallsUnmoved, Zenon DEF StreamOK
  <2> QED  BY <1>2, <2>2, Zenon DEF StreamOK, SentOK
<1>4. CASE s = x
  <2>1. /\ \A c \in SubCallers : At(c, s, "recorded")' <=> At(c, s, "recorded")
        /\ \A c \in SubCallers : At(c, s, "called")' <=> (At(c, s, "called") \/ c = c0)
        /\ \A at : ~At(c0, s, at)
        /\ At(c0, s, "called")' /\ ~At(c0, s, "recorded")'
    BY <1>1, <1>4, Zenon DEF At, CallOps
  <2>2. \A c \in SubCallers \ {c0} : Subscribes(c)' <=> Subscribes(c)
    BY <1>1, Zenon DEF Subscribes
  <2>3. \A c, d \in SubCallers \ {c0} : Before(c, d)' <=> Before(c, d)
    BY <1>1, Zenon DEF Before
  <2>4. \A c \in SubCallers : \A at \in {"called", "recorded"} :
          At(c, s, at) => (Before(c, c0)' /\ ~Before(c0, c)')
    <3>1. \A c \in SubCallers \ {c0} : call[c].op # "none" =>
            (call'[c].n \in Nat /\ call'[c].n < calls)
      <4> SUFFICES ASSUME NEW c \in SubCallers \ {c0}, call[c].op # "none"
                   PROVE  call'[c].n \in Nat /\ call'[c].n < calls
        BY Zenon
      <4>1. call'[c] = call[c] /\ call[c].n < calls
        BY <1>1, Zenon DEF STypes
      <4>2. call[c] \in CallRecord
        <5>1. NoCall.op = "none"
          BY Zenon DEF NoCall
        <5>2. call[c] \in {NoCall} \cup CallRecord
          BY Zenon DEF STypes
        <5> QED  BY <5>1, <5>2, Zenon
      <4>3. call[c].n \in Nat
        BY <4>2, SMTT(30) DEF CallRecord
      <4> QED  BY <4>1, <4>3, Zenon
    <3>2. calls \in Nat /\ call'[c0].n = calls
      BY <1>1, Zenon DEF STypes
    <3>3. \A c \in SubCallers \ {c0} : call[c].op # "none" => (Before(c, c0)' /\ ~Before(c0, c)')
      BY <3>1, <3>2, SMTT(30) DEF Before
    <3> QED  BY <2>1, <3>3, Zenon DEF At
  <2>5. ~Before(c0, c0)'
    BY <1>1, <2>1, SMTT(30) DEF Before, STypes
  <2>6. Subscribes(c0)' <=> s \notin tracked
    BY <1>1, <1>4, Zenon DEF Subscribes
  <2>7. s \in tracked' <=> s \notin tracked
    BY <1>2, <1>4, Zenon
  <2>8. RecordedOK(s)'
    BY <1>2, <2>1, <2>2, <2>3, <2>4, ZenonT(60) DEF StreamOK, RecordedOK
  <2>9. CalledOK(s)'
    <3>1. ASSUME NEW c \in SubCallers, At(c, s, "called")',
                 \A d \in SubCallers : At(d, s, "called")' => ~Before(d, c)'
          PROVE  Subscribes(c)' <=> s \notin wanted'
      <4>1. CASE c = c0
        <5>1. \A d \in SubCallers : ~At(d, s, "called")
          BY <2>1, <2>4, <3>1, <4>1, Zenon
        <5> QED  BY <1>2, <2>6, <4>1, <5>1, Zenon DEF StreamOK, CalledOK
      <4>2. CASE c # c0
        BY <1>2, <2>1, <2>2, <2>3, <3>1, <4>2, Zenon DEF StreamOK, CalledOK
      <4> QED  BY <4>1, <4>2, Zenon
    <3>2. ASSUME NEW c \in SubCallers, NEW d \in SubCallers,
                 At(c, s, "called")', At(d, s, "called")', Before(c, d)',
                 \A e \in SubCallers : At(e, s, "called")' => ~(Before(c, e)' /\ Before(e, d)')
          PROVE  Subscribes(c)' <=> ~Subscribes(d)'
      <4>1. c # c0
        BY <2>1, <2>4, <2>5, <3>2, Zenon
      <4>2. CASE d = c0
        <5>1. \A e \in SubCallers : At(e, s, "called") => ~Before(c, e)
          BY <2>1, <2>3, <2>4, <3>2, <4>1, <4>2, Zenon
        <5> QED  BY <2>1, <2>2, <2>6, <3>2, <4>1, <4>2, <5>1, Zenon DEF StreamOK, CalledOK
      <4>3. CASE d # c0
        <5>1. \A e \in SubCallers : At(e, s, "called") => ~(Before(c, e) /\ Before(e, d))
          BY <2>1, <2>3, <3>2, <4>1, <4>3, Zenon
        <5>2. At(c, s, "called") /\ At(d, s, "called") /\ Before(c, d)
          BY <2>1, <2>3, <3>2, <4>1, <4>3, Zenon
        <5> QED  BY <2>2, <4>1, <4>3, <5>1, <5>2, Zenon DEF StreamOK, CalledOK
      <4> QED  BY <4>2, <4>3, Zenon
    <3>3. ASSUME NEW c \in SubCallers, At(c, s, "called")',
                 \A d \in SubCallers : At(d, s, "called")' => ~Before(c, d)'
          PROVE  Subscribes(c)' <=> s \in tracked'
      <4>1. c = c0
        BY <2>1, <2>4, <3>3, Zenon
      <4> QED  BY <2>6, <2>7, <4>1, Zenon
    <3> QED  BY <2>1, <3>1, <3>2, <3>3, Zenon DEF CalledOK
  <2>10. AllSent(s)' <=> AllSent(s)
    BY <2>1, Zenon DEF AllSent
  <2> QED  BY <1>2, <2>8, <2>9, <2>10, Zenon DEF StreamOK, SentOK
<1> QED  BY <1>3, <1>4, Zenon

\* So does recording it.
LEMMA RecordStep ==
  ASSUME STypes, STypes', NEW c0 \in SubCallers, Record(c0),
         NEW s \in Channels, s \notin overtaken', StreamOK(s)
  PROVE  StreamOK(s)'
<1> DEFINE x == call[c0].id
<1>0. call[c0] \in CallRecord /\ call[c0].op # "none" /\ call[c0].at = "called"
  BY SMTT(30) DEF Record, STypes, CallRecord, NoCall
<1>1. /\ \A d \in SubCallers \ {c0} : call'[d] = call[d]
      /\ UNCHANGED <<tracked, commandsCh, remote, loop, linked>>
      /\ \A y \in Channels \ {x} : y \in wanted' <=> y \in wanted
      /\ x \in wanted' <=> Subscribes(c0)
  BY <1>0, Zenon DEF Record, STypes, Subscribes, CallRecord, CallOps
<1>2. \/ call'[c0] = NoCall /\ ~Subscribes(c0) /\ x \notin wanted
      \/ /\ call'[c0].op = call[c0].op /\ call'[c0].id = x /\ call'[c0].n = call[c0].n
         /\ call'[c0].at = "recorded" /\ call'[c0].op # "none"
  BY <1>0, Zenon DEF Record, STypes, Subscribes, CallRecord, CallOps
<1>3. CASE s # x
  <2>1. \A c \in SubCallers : \A at \in {"called", "recorded"} :
           (At(c, s, at)' <=> At(c, s, at)) /\ (At(c, s, at) => call'[c] = call[c])
    BY <1>1, <1>2, <1>3, SMTT(30) DEF At, NoCall
  <2>2. CalledOK(s)' /\ RecordedOK(s)' /\ (AllSent(s)' <=> AllSent(s))
    BY <1>1, <1>3, <2>1, CallsUnmoved, Zenon DEF StreamOK
  <2>3. UNCHANGED <<commandsCh, remote, loop, linked>> /\ (s \in wanted' <=> s \in wanted)
    BY <1>1, <1>3, Zenon
  <2> QED  BY <2>2, <2>3, Zenon DEF StreamOK, SentOK
<1>4. CASE s = x
  <2>1. At(c0, s, "called") /\ ~At(c0, s, "recorded")
    BY <1>0, <1>4, Zenon DEF At
  <2>2. \A d \in SubCallers : At(d, s, "called") => ~Before(d, c0)
    <3>1. ~Overtakes(c0, "called")
      BY <1>4, Zenon DEF Record, NoteOvertaking
    <3>2. ~Before(c0, c0)
      BY <1>0, CallsOrdered, Zenon
    <3> QED  BY <1>4, <3>1, <3>2, Zenon DEF Overtakes, At, Before
  <2>3. Subscribes(c0) <=> s \notin wanted
    BY <2>1, <2>2, Zenon DEF StreamOK, CalledOK
  <2>4. /\ call'[c0].op = call[c0].op /\ call'[c0].id = s /\ call'[c0].n = call[c0].n
        /\ call'[c0].at = "recorded" /\ call'[c0].op # "none"
    BY <1>2, <1>4, <2>3, Zenon
  <2>5. /\ \A c \in SubCallers : At(c, s, "recorded")' <=> (At(c, s, "recorded") \/ c = c0)
        /\ \A c \in SubCallers : At(c, s, "called")' <=> (At(c, s, "called") /\ c # c0)
    BY <1>1, <2>4, Zenon DEF At
  <2>6. \A c \in SubCallers : Subscribes(c)' <=> Subscribes(c)
    BY <1>1, <2>4, Zenon DEF Subscribes
  <2>7. \A c, d \in SubCallers : Before(c, d)' <=> Before(c, d)
    <3>1. \A c \in SubCallers : call'[c].n = call[c].n
      BY <1>1, <2>4, Zenon
    <3> QED  BY <3>1, Zenon DEF Before
  <2>8. s \in wanted' <=> Subscribes(c0)
    BY <1>1, <1>4, Zenon
  <2>9. \A c, d \in SubCallers : (At(c, s, "called") /\ At(d, s, "called") /\ c # d) =>
          ((Before(c, d) \/ Before(d, c)) /\ (Before(c, d) => ~Before(d, c)))
    BY CallsOrdered, Zenon DEF At
  <2>10. RecordedOK(s)'
    <3>1. ASSUME NEW c \in SubCallers, NEW d \in SubCallers,
                 At(c, s, "recorded")', At(d, s, "called")'
          PROVE  Before(c, d)'
      BY <2>1, <2>2, <2>5, <2>7, <2>9, <3>1, ZenonT(60) DEF StreamOK, RecordedOK
    <3>2. ASSUME NEW c \in SubCallers, At(c, s, "recorded")',
                 \A d \in SubCallers : At(d, s, "recorded")' => ~Before(c, d)'
          PROVE  Subscribes(c)' <=> s \in wanted'
      <4>1. c = c0
        BY <2>1, <2>5, <2>7, <3>2, Zenon DEF StreamOK, RecordedOK
      <4> QED  BY <2>6, <2>8, <4>1, Zenon
    <3> QED  BY <3>1, <3>2, Zenon DEF RecordedOK
  <2>11. CalledOK(s)'
    <3>1. ASSUME NEW c \in SubCallers, At(c, s, "called")',
                 \A d \in SubCallers : At(d, s, "called")' => ~Before(d, c)'
          PROVE  Subscribes(c)' <=> s \notin wanted'
      <4>1. At(c, s, "called") /\ c # c0 /\ Before(c0, c)
        BY <2>1, <2>2, <2>5, <2>9, <3>1, Zenon
      <4>2. \A e \in SubCallers : At(e, s, "called") => ~(Before(c0, e) /\ Before(e, c))
        <5>1. ~Before(c0, c0)
          BY <1>0, CallsOrdered, Zenon
        <5> QED  BY <2>5, <2>7, <3>1, <5>1, Zenon
      <4>3. Subscribes(c0) <=> ~Subscribes(c)
        BY <2>1, <4>1, <4>2, Zenon DEF StreamOK, CalledOK
      <4> QED  BY <2>6, <2>8, <4>3, Zenon
    <3>2. ASSUME NEW c \in SubCallers, NEW d \in SubCallers,
                 At(c, s, "called")', At(d, s, "called")', Before(c, d)',
                 \A e \in SubCallers : At(e, s, "called")' => ~(Before(c, e)' /\ Before(e, d)')
          PROVE  Subscribes(c)' <=> ~Subscribes(d)'
      <4>1. At(c, s, "called") /\ At(d, s, "called") /\ Before(c, d)
        BY <2>5, <2>7, <3>2, Zenon
      <4>2. \A e \in SubCallers : At(e, s, "called") => ~(Before(c, e) /\ Before(e, d))
        BY <2>2, <2>5, <2>7, <3>2, <4>1, Zenon
      <4> QED  BY <2>6, <4>1, <4>2, Zenon DEF StreamOK, CalledOK
    <3>3. ASSUME NEW c \in SubCallers, At(c, s, "called")',
                 \A d \in SubCallers : At(d, s, "called")' => ~Before(c, d)'
          PROVE  Subscribes(c)' <=> s \in tracked'
      <4>1. \A d \in SubCallers : At(d, s, "called") => ~Before(c, d)
        BY <2>2, <2>5, <2>7, <3>3, Zenon
      <4>2. Subscribes(c) <=> s \in tracked
        BY <2>5, <3>3, <4>1, Zenon DEF StreamOK, CalledOK
      <4> QED  BY <1>1, <2>6, <4>2, Zenon
    <3>4. (\A c \in SubCallers : ~At(c, s, "called")') => (s \in wanted' <=> s \in tracked')
      <4> SUFFICES ASSUME \A c \in SubCallers : ~At(c, s, "called")'
                   PROVE  s \in wanted' <=> s \in tracked'
        BY Zenon
      <4>1. ~Before(c0, c0)
        BY <1>0, CallsOrdered, Zenon
      <4>2. \A d \in SubCallers : At(d, s, "called") => ~Before(c0, d)
        BY <2>5, <4>1, Zenon
      <4>3. Subscribes(c0) <=> s \in tracked
        BY <2>1, <4>2, Zenon DEF StreamOK, CalledOK
      <4> QED  BY <1>1, <2>8, <4>3, Zenon
    <3> QED  BY <3>1, <3>2, <3>3, <3>4, Zenon DEF CalledOK
  <2>12. ~AllSent(s)'
    BY <2>5, Zenon DEF AllSent
  <2> QED  BY <2>10, <2>11, <2>12, Zenon DEF StreamOK, SentOK
<1> QED  BY <1>3, <1>4, Zenon

\* So does sending its command.
LEMMA SendCommandStep ==
  ASSUME STypes, STypes', NEW c0 \in SubCallers, SendCommand(c0),
         NEW s \in Channels, s \notin overtaken', StreamOK(s)
  PROVE  StreamOK(s)'
<1> DEFINE x == call[c0].id
           k == Len(commandsCh) + 1
<1>0. call[c0] \in CallRecord /\ call[c0].op # "none" /\ call[c0].at = "recorded"
  BY SMTT(30) DEF SendCommand, STypes, CallRecord, NoCall
<1>1. /\ \A d \in SubCallers \ {c0} : call'[d] = call[d]
      /\ call'[c0].op = "none"
      /\ UNCHANGED <<tracked, wanted, remote, loop, linked>>
  BY <1>0, Zenon DEF SendCommand, STypes, NoCall
<1>2. /\ commandsCh'[k].cmd = call[c0].op /\ commandsCh'[k].id = x
      /\ \A i \in 1 .. Len(commandsCh) : commandsCh'[i] = commandsCh[i]
      /\ \A i : i \in 1 .. Len(commandsCh') <=> (i \in 1 .. Len(commandsCh) \/ i = k)
      /\ \A i \in 1 .. Len(commandsCh') : k <= i => i = k
  <2> DEFINE e == [cmd |-> call[c0].op, id |-> x]
  <2>1. e \in CommandRecord
    BY <1>0, Zenon DEF CommandRecord, CallRecord
  <2>2. e.cmd = call[c0].op /\ e.id = x
    BY Zenon
  <2>3. commandsCh' = Append(commandsCh, e)
    BY Zenon DEF SendCommand
  <2>4. commandsCh \in Seq(CommandRecord)
    BY Zenon DEF STypes
  <2> HIDE DEF e
  <2>5. /\ Append(commandsCh, e)[k] = e
        /\ \A i \in 1 .. Len(commandsCh) : Append(commandsCh, e)[i] = commandsCh[i]
        /\ \A i : i \in 1 .. Len(Append(commandsCh, e)) <=> (i \in 1 .. Len(commandsCh) \/ i = k)
        /\ \A i \in 1 .. Len(Append(commandsCh, e)) : k <= i => i = k
    BY <2>1, <2>4, Appended, ZenonT(60)
  <2> HIDE DEF k
  <2> QED  BY <2>2, <2>3, <2>5, Zenon
<1>3. CASE s # x
  <2>1. \A c \in SubCallers : \A at \in {"called", "recorded"} :
           (At(c, s, at)' <=> At(c, s, at)) /\ (At(c, s, at) => call'[c] = call[c])
    BY <1>1, <1>3, Zenon DEF At
  <2>2. CalledOK(s)' /\ RecordedOK(s)' /\ (AllSent(s)' <=> AllSent(s))
    BY <1>1, <1>3, <2>1, CallsUnmoved, Zenon DEF StreamOK
  <2>3. /\ \A i \in 1 .. Len(commandsCh) : i \in 1 .. Len(commandsCh')
        /\ \A i \in 1 .. Len(commandsCh') : commandsCh'[i].id = s => i \in 1 .. Len(commandsCh)
    BY <1>2, <1>3, Zenon
  <2>4. SentOK(s)'
    BY <1>1, <1>2, <2>2, <2>3, Zenon DEF StreamOK, SentOK
  <2> QED  BY <2>2, <2>4, Zenon DEF StreamOK
<1>4. CASE s = x
  <2>1. At(c0, s, "recorded") /\ ~At(c0, s, "called")
    BY <1>0, <1>4, Zenon DEF At
  <2>2. \A d \in SubCallers : At(d, s, "recorded") => ~Before(d, c0)
    <3>1. ~Overtakes(c0, "recorded")
      BY <1>4, Zenon DEF SendCommand, NoteOvertaking
    <3>2. ~Before(c0, c0)
      BY <1>0, CallsOrdered, Zenon
    <3> QED  BY <1>4, <3>1, <3>2, Zenon DEF Overtakes, At, Before
  <2>3. /\ \A c \in SubCallers : At(c, s, "recorded")' <=> (At(c, s, "recorded") /\ c # c0)
        /\ \A c \in SubCallers : At(c, s, "called")' <=> At(c, s, "called")
    BY <1>1, <2>1, Zenon DEF At
  <2>4. \A c \in SubCallers \ {c0} : Subscribes(c)' <=> Subscribes(c)
    BY <1>1, Zenon DEF Subscribes
  <2>5. \A c, d \in SubCallers \ {c0} : Before(c, d)' <=> Before(c, d)
    BY <1>1, Zenon DEF Before
  <2>6. \A c \in SubCallers : At(c, s, "called") => c # c0
    BY <2>1, Zenon
  <2>7. CalledOK(s)'
    BY <1>1, <2>3, <2>4, <2>5, <2>6, Zenon DEF StreamOK, CalledOK
  <2>8. RecordedOK(s)'
    <3>1. ASSUME NEW c \in SubCallers, At(c, s, "recorded")',
                 \A d \in SubCallers : At(d, s, "recorded")' => ~Before(c, d)'
          PROVE  Subscribes(c)' <=> s \in wanted'
      <4>1. \A d \in SubCallers : At(d, s, "recorded") => ~Before(c, d)
        BY <2>2, <2>3, <2>5, <3>1, Zenon
      <4> QED  BY <1>1, <2>3, <2>4, <3>1, <4>1, Zenon DEF StreamOK, RecordedOK
    <3>2. ASSUME NEW c \in SubCallers, NEW d \in SubCallers,
                 At(c, s, "recorded")', At(d, s, "called")'
          PROVE  Before(c, d)'
      BY <2>3, <2>5, <2>6, <3>2, Zenon DEF StreamOK, RecordedOK
    <3> QED  BY <3>1, <3>2, Zenon DEF RecordedOK
  <2>9. SentOK(s)'
    <3> SUFFICES ASSUME AllSent(s)'
                 PROVE  SentOK(s)'
      BY Zenon DEF SentOK
    <3>1. Subscribes(c0) <=> s \in wanted
      <4>1. ~Before(c0, c0)
        BY <1>0, CallsOrdered, Zenon
      <4>2. \A d \in SubCallers : At(d, s, "recorded") => ~Before(c0, d)
        BY <2>3, <4>1, Zenon DEF AllSent
      <4> QED  BY <2>1, <4>2, Zenon DEF StreamOK, RecordedOK
    <3>2. /\ k \in 1 .. Len(commandsCh') /\ commandsCh'[k].id = s
          /\ commandsCh'[k].cmd = "subscribe" <=> Subscribes(c0)
      BY <1>2, <1>4, Zenon DEF Subscribes
    <3>3. \A i \in 1 .. Len(commandsCh') : k <= i => i = k
      BY <1>2, Zenon
    <3> HIDE DEF k
    <3> QED  BY <1>1, <3>1, <3>2, <3>3, Zenon DEF SentOK
  <2> QED  BY <2>7, <2>8, <2>9, Zenon DEF StreamOK
<1> QED  BY <1>3, <1>4, Zenon

\* The loop hands the commands to Redis one by one, and puts a new connection on
\* what is recorded.
LEMMA LoopSteps ==
  ASSUME STypes, LoopStep \/ Break \/ closeClient \/ UNCHANGED svars,
         NEW s \in Channels, StreamOK(s)
  PROVE  StreamOK(s)'
<1>0. UNCHANGED <<call, wanted, tracked>>
  BY Zenon DEF LoopStep, initRedis, resubscribe, runCommand, leaveLoop, reconnectOrFail, Break,
     closeClient, svars
<1>1. CalledOK(s)' /\ RecordedOK(s)' /\ (AllSent(s)' <=> AllSent(s))
  BY <1>0, ZenonT(60)
  DEF StreamOK, CalledOK, RecordedOK, AllSent, At, Before, Subscribes
<1>2. CASE runCommand
  <2>1. /\ commandsCh # <<>> /\ commandsCh' = Tail(commandsCh) /\ loop = "select"
        /\ linked' = linked /\ loop' = loop
        /\ linked => remote' = IF commandsCh[1].cmd = "subscribe"
                               THEN remote \cup {commandsCh[1].id}
                               ELSE remote \ {commandsCh[1].id}
    <3>1. commandsCh # <<>> => Head(commandsCh) = commandsCh[1]
      BY SMTT(30) DEF STypes
    <3> QED  BY <1>2, <3>1, Zenon DEF runCommand
  <2>2. /\ Len(commandsCh) \in Nat \ {0} /\ Len(commandsCh') = Len(commandsCh) - 1
        /\ \A i \in 1 .. Len(commandsCh') : commandsCh'[i] = commandsCh[i + 1]
    BY <2>1, SMTT(30) DEF STypes
  <2>3. /\ 1 \in 1 .. Len(commandsCh)
        /\ \A i \in 1 .. Len(commandsCh') : i + 1 \in 1 .. Len(commandsCh)
        /\ \A i \in 1 .. Len(commandsCh) : i = 1 \/ (i - 1 \in 1 .. Len(commandsCh') /\ (i - 1) + 1 = i)
        /\ \A i \in 1 .. Len(commandsCh') : \A j \in 1 .. Len(commandsCh) : j - 1 <= i => j <= i + 1
        /\ \A j \in 1 .. Len(commandsCh) : 1 <= j /\ (j <= 1 => j = 1)
    BY <2>2, SMTT(30)
  <2>4. ASSUME AllSent(s),
               NEW i \in 1 .. Len(commandsCh'), commandsCh'[i].id = s,
               \A j \in 1 .. Len(commandsCh') : commandsCh'[j].id = s => j <= i
        PROVE  commandsCh'[i].cmd = "subscribe" <=> s \in wanted'
    <3>1. i + 1 \in 1 .. Len(commandsCh) /\ commandsCh[i + 1] = commandsCh'[i]
      BY <2>2, <2>3, <2>4, Zenon
    <3>2. ASSUME NEW j \in 1 .. Len(commandsCh), commandsCh[j].id = s
          PROVE  j <= i + 1
      <4>1. CASE j = 1
        BY <4>1, SMTT(30)
      <4>2. CASE j # 1
        <5>1. j - 1 \in 1 .. Len(commandsCh') /\ commandsCh'[j - 1] = commandsCh[j]
          BY <2>2, <2>3, <4>2, Zenon
        <5> QED  BY <2>3, <2>4, <3>2, <5>1, Zenon
      <4> QED  BY <4>1, <4>2, Zenon
    <3> QED  BY <1>0, <2>4, <3>1, <3>2, Zenon DEF StreamOK, SentOK
  <2>5. ASSUME AllSent(s), linked, \A i \in 1 .. Len(commandsCh') : commandsCh'[i].id # s
        PROVE  s \in remote' <=> s \in wanted'
    <3>1. ASSUME NEW i \in 1 .. Len(commandsCh), commandsCh[i].id = s
          PROVE  i = 1
      <4> SUFFICES ASSUME i # 1 PROVE FALSE
        BY Zenon
      <4>1. i - 1 \in 1 .. Len(commandsCh') /\ (i - 1) + 1 = i
        BY <2>3, Zenon
      <4>2. commandsCh'[i - 1] = commandsCh[i]
        BY <2>2, <4>1, Zenon
      <4> QED  BY <2>5, <3>1, <4>1, <4>2, Zenon
    <3>2. CASE commandsCh[1].id = s
      <4>1. \A j \in 1 .. Len(commandsCh) : commandsCh[j].id = s => j <= 1
        BY <3>1, SMTT(30)
      <4>2. commandsCh[1].cmd = "subscribe" <=> s \in wanted
        BY <2>3, <2>5, <3>2, <4>1, Zenon DEF StreamOK, SentOK
      <4> QED  BY <1>0, <2>1, <2>5, <3>2, <4>2, Zenon
    <3>3. CASE commandsCh[1].id # s
      <4>1. \A i \in 1 .. Len(commandsCh) : commandsCh[i].id # s
        BY <3>1, <3>3, Zenon
      <4>2. s \in remote <=> s \in wanted
        BY <2>1, <2>5, <4>1, Zenon DEF StreamOK, SentOK
      <4> QED  BY <1>0, <2>1, <2>5, <3>3, <4>2, Zenon
    <3> QED  BY <3>2, <3>3, Zenon
  <2>6. SentOK(s)'
    BY <1>1, <2>1, <2>4, <2>5, Zenon DEF SentOK
  <2> QED  BY <1>1, <2>6, Zenon DEF StreamOK
<1>3. CASE resubscribe
  <2>1. commandsCh' = commandsCh /\ (linked' => remote' = wanted')
    BY <1>3, Zenon DEF resubscribe
  <2>2. SentOK(s)'
    BY <1>0, <1>1, <2>1, Zenon DEF StreamOK, SentOK
  <2> QED  BY <1>1, <2>2, Zenon DEF StreamOK
<1>4. CASE initRedis \/ leaveLoop \/ reconnectOrFail \/ Break \/ closeClient \/ UNCHANGED svars
  <2>1. /\ commandsCh' = commandsCh
        /\ (loop' = "select" /\ linked') => (loop = "select" /\ linked /\ remote' = remote)
    BY <1>4, SMTT(30) DEF initRedis, leaveLoop, reconnectOrFail, Break, closeClient, svars
  <2>2. SentOK(s)'
    BY <1>0, <1>1, <2>1, Zenon DEF StreamOK, SentOK
  <2> QED  BY <1>1, <2>2, Zenon DEF StreamOK
<1> QED  BY <1>2, <1>3, <1>4, Zenon DEF LoopStep

\* SInv holds.
LEMMA SInvariant == SSpec => []SInv
<1>1. SInit => SInv
  <2> SUFFICES ASSUME SInit PROVE SInv
    BY Zenon
  <2>1. STypes /\ \A c \in SubCallers : call[c].op = "none"
    BY SMTT(30) DEF SInit, STypes, NoCall
  <2>2. ASSUME NEW s \in Channels PROVE StreamOK(s)
    <3>1. \A c \in SubCallers : \A at : ~At(c, s, at)
      BY <2>1, Zenon DEF At
    <3>2. CalledOK(s) /\ RecordedOK(s)
      BY <3>1, Zenon DEF CalledOK, RecordedOK, SInit
    <3>3. SentOK(s)
      BY NothingSent, Zenon DEF SentOK, SInit
    <3> QED  BY <3>2, <3>3, Zenon DEF StreamOK
  <2> QED  BY <2>1, <2>2, Zenon DEF SInv
<1>2. SInv /\ [SNext]_svars => SInv'
  <2> SUFFICES ASSUME SInv, [SNext]_svars PROVE SInv'
    BY Zenon
  <2>1. STypes /\ STypes'
    BY STypesStep, Zenon DEF SInv
  <2>2. ASSUME NEW s \in Channels, s \notin overtaken'
        PROVE  StreamOK(s)'
    <3>1. s \notin overtaken
      BY <2>2, Zenon DEF SNext, StartCall, Record, SendCommand, NoteOvertaking, LoopStep,
         initRedis, resubscribe, runCommand, leaveLoop, reconnectOrFail, Break, closeClient, svars
    <3>2. StreamOK(s)
      BY <3>1, Zenon DEF SInv
    <3> QED
      BY <2>1, <2>2, <3>2, StartCallStep, RecordStep, SendCommandStep, LoopSteps, Zenon DEF SNext
  <2> QED  BY <2>1, <2>2, Zenon DEF SInv
<1> QED  BY <1>1, <1>2, PTL DEF SSpec

\* ListensToTracked holds.
THEOREM RedisListens == SSpec => []ListensToTracked
<1>1. SInv => ListensToTracked
  <2> SUFFICES ASSUME SInv, CaughtUp, NEW s \in Channels \ overtaken
               PROVE  s \in remote <=> s \in tracked
    BY Zenon DEF ListensToTracked
  <2>1. StreamOK(s)
    BY Zenon DEF SInv
  <2>2. \A c \in SubCallers : \A at : ~At(c, s, at)
    BY SMTT(30) DEF CaughtUp, At, NoCall
  <2>3. s \in wanted <=> s \in tracked
    BY <2>1, <2>2, Zenon DEF StreamOK, CalledOK
  <2>4. \A i \in 1 .. Len(commandsCh) : commandsCh[i].id # s
    BY SMTT(30) DEF CaughtUp
  <2>5. s \in remote <=> s \in wanted
    BY <2>1, <2>2, <2>4, Zenon DEF StreamOK, SentOK, AllSent, CaughtUp
  <2> QED  BY <2>3, <2>5, Zenon
<1> QED  BY <1>1, SInvariant, PTL

-----------------------------------------------------------------------------
(* The broadcasts of a Redis stream.                                       *)

\* where a reader that has not crashed can be
Places ==
  {"init", "group", "loop", "claim", "reclaimed", "read", "received", "retry",
   "sleep", "finished", "failed"}

\* the types the argument needs, and which entries there can be where: a
\* consumer has, and somebody handled, only what the group has handed out
BTypes ==
  /\ added \in 0 .. MaxEntries /\ cursor \in -1 .. added
  /\ owner \in [Entries -> BNodes \cup {Nobody}]
  /\ accepted \subseteq 1 .. added /\ handled \subseteq 1 .. cursor
  /\ reader \in [BNodes -> Places \cup {"crashed"}]
  /\ batch \in [BNodes -> SUBSET (1 .. cursor)]
  /\ \A e \in Entries : owner[e] # Nobody => e <= cursor
  /\ cursor < 0 => accepted = {}

\* a reader has a batch only while it handles it
BatchOK == \A n \in BNodes : batch[n] # {} => Handling(n)

\* an entry that is not handled is accounted for: it is still to be handed out,
\* in the batch of the running consumer it is pending for, pending for a
\* consumer that crashed, or in doubt
Accounted(e) ==
  \/ e > cursor \/ e \in doubted
  \/ owner[e] # Nobody /\ (reader[owner[e]] = "crashed" \/ e \in batch[owner[e]])

\* the inductive invariant of RedisBroadcaster
BInv ==
  BTypes /\ BatchOK /\ \A e \in accepted \ handled : Accounted(e)

\* The steps that only move a reader, or nothing: no entry changes hands.
OnlyMoves(n) ==
  /\ UNCHANGED <<added, cursor, owner, handled, accepted, doubted, batch>>
  /\ \E place \in Places : StepTo(n, place)
  /\ reader[n] # "crashed" /\ batch[n] = {}

\* Redis hands the entries S out to n, or gives it those of others.
HandsOut(n, S) ==
  /\ UNCHANGED <<added, accepted, handled>>
  /\ cursor' \in cursor .. added /\ (cursor < 0 => cursor' = cursor)
  /\ S \subseteq 1 .. cursor'
  /\ \A e \in S : e <= cursor => owner[e] # Nobody
  /\ \A e \in 1 .. cursor' : e <= cursor \/ e \in S
  /\ owner' = [e \in Entries |-> IF e \in S THEN n ELSE owner[e]]
  /\ reader[n] # "crashed" /\ batch[n] = {}

\* The consumer has got the reply.
Receives(n, S) ==
  /\ HandsOut(n, S)
  /\ \E place \in {"reclaimed", "received"} : StepTo(n, place)
  /\ batch' = [batch EXCEPT ![n] = S] /\ doubted' = doubted

\* The reply is lost.
Misses(n, S) ==
  /\ HandsOut(n, S)
  /\ StepTo(n, "retry")
  /\ batch' = batch /\ doubted' = doubted \cup (S \cap accepted)

\* Commands that Redis gives entries for have one of three outcomes.
LEMMA DeliverOutcomes ==
  ASSUME BInv, NEW n \in BNodes,
         (\E S \in SUBSET Pending : autoclaimMessages(n, S)) \/ readFromStream(n)
  PROVE  OnlyMoves(n) \/ \E S \in SUBSET Entries : Receives(n, S) \/ Misses(n, S)
<1>1. ASSUME reader[n] \in {"claim", "read"}
      PROVE  reader[n] # "crashed" /\ batch[n] = {}
  BY <1>1, Zenon DEF BInv, BatchOK, Handling
<1>2. ASSUME NEW S \in SUBSET Pending, autoclaimMessages(n, S)
      PROVE  OnlyMoves(n) \/ Receives(n, S) \/ Misses(n, S)
  <2>1. reader[n] # "crashed" /\ batch[n] = {}
    BY <1>1, <1>2, Zenon DEF autoclaimMessages
  <2>2. UNCHANGED <<added, cursor, accepted, handled>> /\ Deliver(n, S, "reclaimed")
    BY <1>2, Zenon DEF autoclaimMessages
  <2>3. S \subseteq 1 .. cursor /\ \A e \in S : owner[e] # Nobody
    BY BroadcasterAssumption, SMTT(30) DEF Pending, BInv, BTypes, Entries
  <2>4. owner' = [e \in Entries |-> IF e \in S THEN n ELSE owner[e]] => HandsOut(n, S)
    BY <2>1, <2>2, <2>3, SMTT(30) DEF HandsOut, BInv, BTypes
  <2>5. CASE UNCHANGED <<owner, doubted, batch>> /\ StepTo(n, "retry")
    BY <2>1, <2>2, <2>5, Zenon DEF OnlyMoves, Places
  <2>6. CASE /\ owner' = [e \in Entries |-> IF e \in S THEN n ELSE owner[e]]
             /\ batch' = [batch EXCEPT ![n] = S]
             /\ StepTo(n, "reclaimed") /\ UNCHANGED doubted
    BY <2>4, <2>6, Zenon DEF Receives
  <2>7. CASE /\ owner' = [e \in Entries |-> IF e \in S THEN n ELSE owner[e]]
             /\ StepTo(n, "retry") /\ UNCHANGED batch
             /\ doubted' = doubted \cup (S \cap accepted)
    BY <2>4, <2>7, Zenon DEF Misses
  <2> QED  BY <2>2, <2>5, <2>6, <2>7, Zenon DEF Deliver
<1>3. ASSUME readFromStream(n), cursor < 0 PROVE OnlyMoves(n)
  BY <1>1, <1>3, Zenon DEF readFromStream, OnlyMoves, Places
<1>4. ASSUME readFromStream(n), ~(cursor < 0), NEW S, S = (cursor + 1) .. added
      PROVE  OnlyMoves(n) \/ Receives(n, S) \/ Misses(n, S)
  <2>1. reader[n] # "crashed" /\ batch[n] = {}
    BY <1>1, <1>4, Zenon DEF readFromStream
  <2>2. /\ UNCHANGED <<added, accepted, handled>> /\ Deliver(n, S, "received")
        /\ cursor' = IF owner' = owner THEN cursor ELSE added
    BY <1>4, Zenon DEF readFromStream
  <2>3. cursor \in 0 .. added /\ added \in 0 .. MaxEntries
    BY <1>4, SMTT(30) DEF BInv, BTypes
  <2>4. ASSUME owner' = [e \in Entries |-> IF e \in S THEN n ELSE owner[e]]
        PROVE  HandsOut(n, S)
    <3>1. cursor' = added
      <4>1. CASE cursor = added
        BY <2>2, <4>1, Zenon
      <4>2. CASE cursor # added
        <5>1. cursor + 1 \in S /\ cursor + 1 \in Entries
          BY <1>4, <2>3, <4>2, BroadcasterAssumption, SMTT(30) DEF Entries
        <5>2. owner[cursor + 1] = Nobody
          BY <2>3, <5>1, SMTT(30) DEF BInv, BTypes
        <5>3. owner'[cursor + 1] = n
          BY <2>4, <5>1, Zenon
        <5> QED  BY <2>2, <5>2, <5>3, BroadcasterAssumption, Zenon
      <4> QED  BY <4>1, <4>2, Zenon
    <3>2. S \subseteq 1 .. cursor' /\ (\A e \in S : ~(e <= cursor))
          /\ \A e \in 1 .. cursor' : e <= cursor \/ e \in S
      BY <1>4, <2>3, <3>1, SMTT(30)
    <3>3. cursor' \in cursor .. added
      BY <2>3, <3>1, SMTT(30)
    <3> QED  BY <1>4, <2>1, <2>2, <2>4, <3>2, <3>3, Zenon DEF HandsOut
  <2>5. CASE UNCHANGED <<owner, doubted, batch>> /\ StepTo(n, "retry")
    BY <2>1, <2>2, <2>5, Zenon DEF OnlyMoves, Places
  <2>6. CASE /\ owner' = [e \in Entries |-> IF e \in S THEN n ELSE owner[e]]
             /\ batch' = [batch EXCEPT ![n] = S]
             /\ StepTo(n, "received") /\ UNCHANGED doubted
    BY <2>4, <2>6, Zenon DEF Receives
  <2>7. CASE /\ owner' = [e \in Entries |-> IF e \in S THEN n ELSE owner[e]]
             /\ StepTo(n, "retry") /\ UNCHANGED batch
             /\ doubted' = doubted \cup (S \cap accepted)
    BY <2>4, <2>7, Zenon DEF Misses
  <2> QED  BY <2>2, <2>5, <2>6, <2>7, Zenon DEF Deliver
<1>5. Pending \subseteq Entries
  BY Zenon DEF Pending
<1>6. ~(cursor < 0) => (cursor + 1) .. added \subseteq Entries
  BY BroadcasterAssumption, SMTT(30) DEF BInv, BTypes, Entries
<1> QED  BY <1>2, <1>3, <1>4, <1>5, <1>6, Zenon

\* No entry changes hands and no reader moves.
Nothing ==
  UNCHANGED <<added, cursor, owner, handled, accepted, doubted, batch, reader>>

\* The group is created at the end of the stream.
MakesGroup(n) ==
  /\ cursor < 0 /\ cursor' = added
  /\ UNCHANGED <<added, owner, handled, accepted, doubted, batch>>
  /\ StepTo(n, "loop") /\ reader[n] # "crashed" /\ batch[n] = {}

\* n handles the entry e, which is acknowledged or not.
HandlesEntry(n, e) ==
  /\ e \in batch[n]
  /\ handled' = handled \cup {e} /\ batch' = [batch EXCEPT ![n] = @ \ {e}]
  /\ owner' = owner \/ owner' = [owner EXCEPT ![e] = Nobody]
  /\ UNCHANGED <<added, cursor, accepted, doubted, reader>>

\* What is pending for n, which has finished, is dropped.
Removes(n) ==
  /\ batch[n] = {} /\ reader[n] # "crashed"
  /\ owner' = [e \in Entries |-> IF owner[e] = n THEN Nobody ELSE owner[e]]
  /\ UNCHANGED <<added, cursor, handled, accepted, doubted, batch, reader>>

\* What a step can be to the entries.
StepKind ==
  \/ Nothing \/ Publish
  \/ \E n \in BNodes :
       \/ OnlyMoves(n) \/ MakesGroup(n) \/ Removes(n) \/ Crash(n)
       \/ \E e \in Entries : HandlesEntry(n, e)
       \/ \E S \in SUBSET Entries : Receives(n, S) \/ Misses(n, S)

\* Every action of RedisBroadcaster is a step of one of these kinds.
LEMMA StepKinds ==
  ASSUME BInv, [BNext]_bvars
  PROVE  StepKind
<1>1. ASSUME NEW n \in BNodes, reader[n] \in Places, ~Handling(n)
      PROVE  reader[n] # "crashed" /\ batch[n] = {}
  BY <1>1, Zenon DEF BInv, BatchOK, Places
<1>2. ASSUME NEW n \in BNodes, initClient(n) PROVE OnlyMoves(n)
  BY <1>1, <1>2, Zenon DEF initClient, OnlyMoves, Places, Handling, redis
<1>3. ASSUME NEW n \in BNodes, createGroup(n) PROVE OnlyMoves(n) \/ MakesGroup(n)
  BY <1>1, <1>3, Zenon DEF createGroup, OnlyMoves, MakesGroup, Places, Handling
<1>4. ASSUME NEW n \in BNodes, checkShutdown(n) PROVE OnlyMoves(n)
  BY <1>1, <1>4, Zenon DEF checkShutdown, OnlyMoves, Places, Handling, redis
<1>5. ASSUME NEW n \in BNodes, maybeReconnect(n) PROVE OnlyMoves(n)
  BY <1>1, <1>5, Zenon DEF maybeReconnect, OnlyMoves, Places, Handling, redis
<1>6. ASSUME NEW n \in BNodes, dropClient(n) PROVE OnlyMoves(n)
  BY <1>1, <1>6, Zenon DEF dropClient, OnlyMoves, Places, Handling, redis
<1>7. ASSUME NEW n \in BNodes, broadcastEntry(n)
      PROVE  OnlyMoves(n) \/ \E e \in Entries : HandlesEntry(n, e)
  <2>1. UNCHANGED <<added, cursor, accepted, doubted>> /\ reader[n] # "crashed"
    BY <1>7, Zenon DEF broadcastEntry, Handling
  <2>2. CASE batch[n] = {}
    BY <1>7, <2>1, <2>2, Zenon DEF broadcastEntry, OnlyMoves, AfterBatch, Places
  <2>3. CASE batch[n] # {}
    <3>1. PICK e \in batch[n] :
            /\ handled' = handled \cup {e} /\ batch' = [batch EXCEPT ![n] = @ \ {e}]
            /\ owner' = owner \/ owner' = [owner EXCEPT ![e] = Nobody]
      BY <1>7, <2>3, Zenon DEF broadcastEntry
    <3>2. reader' = reader
      BY <1>7, <2>3, Zenon DEF broadcastEntry
    <3>3. e \in Entries
      BY BroadcasterAssumption, SMTT(30) DEF BInv, BTypes, Entries
    <3> QED  BY <2>1, <3>1, <3>2, <3>3, Zenon DEF HandlesEntry
  <2> QED  BY <2>2, <2>3, Zenon
<1>8. ASSUME NEW n \in BNodes, stopConsumer(n) PROVE Nothing
  BY <1>8, Zenon DEF stopConsumer, Nothing, redis
<1>9. ASSUME NEW n \in BNodes, removeConsumer(n) PROVE Nothing \/ Removes(n)
  <2>1. reader[n] # "crashed" /\ batch[n] = {}
    BY <1>1, <1>9, Zenon DEF removeConsumer, Finished, Handling, Places
  <2> QED  BY <1>9, <2>1, Zenon DEF removeConsumer, Nothing, Removes
<1>10. ASSUME UNCHANGED bvars PROVE Nothing
  BY <1>10, Zenon DEF bvars, Nothing
<1>11. ASSUME NEW n \in BNodes, ReaderStep(n)
       PROVE  \/ OnlyMoves(n) \/ MakesGroup(n)
              \/ \E e \in Entries : HandlesEntry(n, e)
              \/ \E S \in SUBSET Entries : Receives(n, S) \/ Misses(n, S)
  BY <1>2, <1>3, <1>4, <1>5, <1>6, <1>7, <1>11, DeliverOutcomes, ZenonT(60) DEF ReaderStep
<1> QED  BY <1>8, <1>9, <1>10, <1>11, Zenon DEF BNext, StepKind

\* Every kind of step keeps the types.
LEMMA BTypesStep ==
  ASSUME BTypes, StepKind
  PROVE  BTypes'
<1> USE BroadcasterAssumption DEF BTypes, Entries
<1>1. CASE Nothing
  BY <1>1, Zenon DEF Nothing
<1>2. CASE Publish
  BY <1>2, SMTT(30) DEF Publish
<1>3. ASSUME NEW n \in BNodes, OnlyMoves(n) PROVE BTypes'
  BY <1>3, Zenon DEF OnlyMoves, StepTo
<1>4. ASSUME NEW n \in BNodes, MakesGroup(n) PROVE BTypes'
  BY <1>4, SMTT(30) DEF MakesGroup, StepTo, Places
<1>5. ASSUME NEW n \in BNodes, Removes(n) PROVE BTypes'
  BY <1>5, Zenon DEF Removes
<1>6. ASSUME NEW n \in BNodes, Crash(n) PROVE BTypes'
  BY <1>6, Zenon DEF Crash, StepTo, redis
<1>7. ASSUME NEW n \in BNodes, NEW e \in Entries, HandlesEntry(n, e) PROVE BTypes'
  BY <1>7, Zenon DEF HandlesEntry
<1>8. ASSUME NEW n \in BNodes, NEW S \in SUBSET Entries, Receives(n, S) PROVE BTypes'
  BY <1>8, SMTT(30) DEF Receives, HandsOut, StepTo, Places
<1>9. ASSUME NEW n \in BNodes, NEW S \in SUBSET Entries, Misses(n, S) PROVE BTypes'
  BY <1>9, SMTT(30) DEF Misses, HandsOut, StepTo, Places
<1> QED  BY <1>1, <1>2, <1>3, <1>4, <1>5, <1>6, <1>7, <1>8, <1>9, ZenonT(60) DEF StepKind

\* A reader leaves the handling of a batch only when it is empty, or crashes.
LEMMA BatchStep ==
  ASSUME BInv, StepKind
  PROVE  BatchOK'
<1> USE DEF BatchOK, Handling
<1>0. BTypes /\ BatchOK
  BY Zenon DEF BInv
<1>1. CASE Nothing
  BY <1>0, <1>1, Zenon DEF Nothing
<1>2. CASE Publish
  BY <1>0, <1>2, Zenon DEF Publish
<1>3. ASSUME NEW n \in BNodes, OnlyMoves(n) \/ MakesGroup(n) PROVE BatchOK'
  BY <1>0, <1>3, Zenon DEF OnlyMoves, MakesGroup, StepTo, BTypes
<1>4. ASSUME NEW n \in BNodes, Removes(n) PROVE BatchOK'
  BY <1>0, <1>4, Zenon DEF Removes
<1>5. ASSUME NEW n \in BNodes, Crash(n) PROVE BatchOK'
  BY <1>0, <1>5, Zenon DEF Crash, StepTo, BTypes
<1>6. ASSUME NEW n \in BNodes, NEW e \in Entries, HandlesEntry(n, e) PROVE BatchOK'
  BY <1>0, <1>6, Zenon DEF HandlesEntry, BTypes
<1>7. ASSUME NEW n \in BNodes, NEW S \in SUBSET Entries, Receives(n, S) PROVE BatchOK'
  BY <1>0, <1>7, Zenon DEF Receives, StepTo, BTypes
<1>8. ASSUME NEW n \in BNodes, NEW S \in SUBSET Entries, Misses(n, S) PROVE BatchOK'
  BY <1>0, <1>8, Zenon DEF Misses, HandsOut, StepTo, BTypes
<1> QED  BY <1>1, <1>2, <1>3, <1>4, <1>5, <1>6, <1>7, <1>8, ZenonT(60) DEF StepKind

\* No step loses sight of an entry.
LEMMA AccountedStep ==
  ASSUME BInv, BTypes', StepKind, NEW e \in accepted' \ handled'
  PROVE  Accounted(e)'
<1>0. BTypes /\ BatchOK /\ \A f \in accepted \ handled : Accounted(f)
  BY Zenon DEF BInv
<1>1. CASE Nothing
  BY <1>0, <1>1, Zenon DEF Nothing, Accounted
<1>2. CASE Publish
  <2>1. e \in accepted \/ e > cursor
    BY <1>0, <1>2, SMTT(30) DEF Publish, BTypes
  <2>2. e \in accepted => Accounted(e)
    BY <1>0, <1>2, Zenon DEF Publish
  <2> QED  BY <1>2, <2>1, <2>2, Zenon DEF Publish, Accounted
<1>3. ASSUME NEW n \in BNodes, OnlyMoves(n) PROVE Accounted(e)'
  <2>1. Accounted(e) /\ \A m \in BNodes : reader'[m] = "crashed" <=> reader[m] = "crashed"
    BY <1>0, <1>3, Zenon DEF OnlyMoves, StepTo, Places, BTypes
  <2>2. e \in Entries /\ owner[e] \in BNodes \cup {Nobody}
    BY <1>0, <1>3, BroadcasterAssumption, SMTT(30) DEF OnlyMoves, BTypes, Entries
  <2> QED  BY <1>3, <2>1, <2>2, Zenon DEF OnlyMoves, Accounted
<1>4. ASSUME NEW n \in BNodes, MakesGroup(n) PROVE Accounted(e)'
  BY <1>0, <1>4, Zenon DEF MakesGroup, BTypes
<1>5. ASSUME NEW n \in BNodes, Removes(n) PROVE Accounted(e)'
  <2>1. Accounted(e) /\ e \in Entries
    BY <1>0, <1>5, BroadcasterAssumption, SMTT(30) DEF Removes, BTypes, Entries
  <2>2. owner'[e] = IF owner[e] = n THEN Nobody ELSE owner[e]
    BY <1>5, <2>1, Zenon DEF Removes
  <2>3. UNCHANGED <<cursor, doubted, reader, batch>> /\ batch[n] = {} /\ reader[n] # "crashed"
    BY <1>5, Zenon DEF Removes
  <2> QED  BY <2>1, <2>2, <2>3, Zenon DEF Accounted
<1>6. ASSUME NEW n \in BNodes, Crash(n) PROVE Accounted(e)'
  <2>1. Accounted(e) /\ UNCHANGED <<cursor, doubted, owner>>
    BY <1>0, <1>6, Zenon DEF Crash, redis
  <2>2. e \in Entries /\ owner[e] \in BNodes \cup {Nobody}
    BY <1>0, <1>6, BroadcasterAssumption, SMTT(30) DEF Crash, redis, BTypes, Entries
  <2>3. /\ reader'[n] = "crashed"
        /\ \A m \in BNodes \ {n} : reader'[m] = reader[m] /\ batch'[m] = batch[m]
    BY <1>0, <1>6, Zenon DEF Crash, StepTo, BTypes
  <2> QED  BY <2>1, <2>2, <2>3, Zenon DEF Accounted
<1>7. ASSUME NEW n \in BNodes, NEW x \in Entries, HandlesEntry(n, x) PROVE Accounted(e)'
  <2>1. e \in Entries /\ e # x /\ Accounted(e) /\ owner[e] \in BNodes \cup {Nobody}
    BY <1>0, <1>7, BroadcasterAssumption, SMTT(30) DEF HandlesEntry, BTypes, Entries
  <2>2. owner'[e] = owner[e] /\ UNCHANGED <<cursor, doubted, reader>>
    BY <1>0, <1>7, <2>1, Zenon DEF HandlesEntry, BTypes
  <2>3. \A m \in BNodes : e \in batch'[m] <=> e \in batch[m]
    BY <1>0, <1>7, <2>1, Zenon DEF HandlesEntry, BTypes
  <2> QED  BY <2>1, <2>2, <2>3, Zenon DEF Accounted
<1>8. ASSUME NEW n \in BNodes, NEW S \in SUBSET Entries, HandsOut(n, S),
             e \in S => (e \in doubted' \/ e \in batch'[n]),
             doubted \subseteq doubted',
             \A m \in BNodes \ {n} : reader'[m] = reader[m] /\ batch'[m] = batch[m]
      PROVE  Accounted(e)'
  <2>1. e \in Entries /\ Accounted(e) /\ owner[e] \in BNodes \cup {Nobody}
    BY <1>0, <1>8, BroadcasterAssumption, SMTT(30) DEF HandsOut, BTypes, Entries
  <2>2. owner'[e] = IF e \in S THEN n ELSE owner[e]
    BY <1>8, <2>1, Zenon DEF HandsOut
  <2>3. n # Nobody /\ batch[n] = {} /\ reader[n] # "crashed"
    BY <1>8, BroadcasterAssumption, Zenon DEF HandsOut
  <2>4. CASE e \in S
    BY <1>8, <2>2, <2>3, <2>4, Zenon DEF Accounted
  <2>5. CASE e \notin S
    <3>1. e > cursor => e > cursor'
      BY <1>0, <1>8, <2>1, <2>5, BroadcasterAssumption, SMTT(30) DEF HandsOut, BTypes, Entries
    <3> QED  BY <1>8, <2>1, <2>2, <2>3, <2>5, <3>1, ZenonT(60) DEF Accounted
  <2> QED  BY <2>4, <2>5, Zenon
<1>9. ASSUME NEW n \in BNodes, NEW S \in SUBSET Entries, Receives(n, S) PROVE Accounted(e)'
  <2>1. HandsOut(n, S) /\ doubted' = doubted /\ batch'[n] = S
    BY <1>0, <1>9, Zenon DEF Receives, BTypes
  <2>2. \A m \in BNodes \ {n} : reader'[m] = reader[m] /\ batch'[m] = batch[m]
    BY <1>0, <1>9, Zenon DEF Receives, StepTo, BTypes
  <2> QED  BY <1>8, <2>1, <2>2, Zenon
<1>10. ASSUME NEW n \in BNodes, NEW S \in SUBSET Entries, Misses(n, S) PROVE Accounted(e)'
  <2>1. HandsOut(n, S) /\ doubted' = doubted \cup (S \cap accepted) /\ e \in accepted
    BY <1>10, Zenon DEF Misses, HandsOut
  <2>2. \A m \in BNodes \ {n} : reader'[m] = reader[m] /\ batch'[m] = batch[m]
    BY <1>0, <1>10, Zenon DEF Misses, StepTo, BTypes
  <2> QED  BY <1>8, <2>1, <2>2, Zenon
<1> QED  BY <1>1, <1>2, <1>3, <1>4, <1>5, <1>6, <1>7, <1>9, <1>10, ZenonT(60) DEF StepKind

\* The group has no entries and nobody anything to do; every step keeps the
\* invariant.
LEMMA BInvariant == BSpec => []BInv
<1>1. BInit => BInv
  BY BroadcasterAssumption, SMTT(30)
  DEF BInit, BInv, BTypes, BatchOK, Accounted, Entries, Places
<1>2. BInv /\ [BNext]_bvars => BInv'
  <2> SUFFICES ASSUME BInv, [BNext]_bvars PROVE BInv'
    BY Zenon
  <2>1. StepKind
    BY StepKinds, Zenon
  <2>2. BTypes' /\ BatchOK'
    BY <2>1, BTypesStep, BatchStep, Zenon DEF BInv
  <2>3. \A e \in accepted' \ handled' : Accounted(e)'
    BY <2>1, <2>2, AccountedStep, Zenon
  <2> QED  BY <2>2, <2>3, Zenon DEF BInv
<1> QED  BY <1>1, <1>2, PTL DEF BSpec

\* An entry nobody will handle is one that the group has handed out, that is
\* pending for nobody, that nobody has and nobody handled.
LEMMA UndeliverableIs ==
  ASSUME NEW e
  PROVE  /\ e \in Undeliverable <=> /\ e \in accepted \ handled /\ e <= cursor
                                    /\ owner[e] = Nobody
                                    /\ \A n \in BNodes : e \notin batch[n]
         /\ (e \in Undeliverable)' <=> /\ e \in accepted' \ handled' /\ e <= cursor'
                                       /\ owner'[e] = Nobody
                                       /\ \A n \in BNodes : e \notin batch'[n]
BY Zenon DEF Undeliverable, InBatch

\* One step of the broadcaster is one of the abstract queue, or none.
LEMMA BroadcasterStep ==
  ASSUME BInv, BInv', StepKind
  PROVE  [Queue!QNext]_(Queue!qvars)
<1> DEFINE done == handled \cap accepted
<1>0. BTypes /\ BTypes' /\ Undeliverable' \subseteq doubted' \ handled'
  <2>1. \A e \in accepted' : e <= cursor' => ~(e > cursor')
    BY SMTT(30) DEF BInv, BTypes
  <2>2. Undeliverable' \subseteq doubted' \ handled'
    BY <2>1, Zenon DEF BInv, Accounted, Undeliverable
  <2> QED  BY <2>2, Zenon DEF BInv
<1>1. ASSUME accepted' = accepted, handled' = handled, doubted' = doubted,
             Undeliverable' = Undeliverable
      PROVE  UNCHANGED Queue!qvars
  BY <1>1, Zenon DEF Queue!qvars
<1>2. CASE Nothing
  BY <1>1, <1>2, Zenon DEF Nothing, Undeliverable, InBatch
<1>3. CASE Publish
  <2>1. Undeliverable' = Undeliverable
    <3>1. \A e : e \in accepted' /\ e <= cursor' <=> e \in accepted /\ e <= cursor
      BY <1>0, <1>3, SMTT(30) DEF Publish, BTypes
    <3>2. UNCHANGED <<owner, handled, batch>>
      BY <1>3, Zenon DEF Publish
    <3> QED  BY <3>1, <3>2, Zenon DEF Undeliverable, InBatch
  <2>2. handled' \cap accepted' = done /\ doubted' = doubted
    BY <1>0, <1>3, SMTT(30) DEF Publish, BTypes
  <2>3. CASE cursor < 0
    <3>1. accepted' = accepted /\ handled' = handled /\ doubted' = doubted
      BY <1>0, <1>3, <2>3, Zenon DEF Publish, BTypes
    <3> QED  BY <1>1, <2>1, <3>1, Zenon
  <2>4. CASE ~(cursor < 0)
    <3>1. /\ added + 1 \in Entries /\ added + 1 \notin accepted
          /\ accepted' = accepted \cup {added + 1}
      BY <1>0, <1>3, <2>4, BroadcasterAssumption, SMTT(30) DEF Publish, BTypes, Entries
    <3>2. Queue!Accept(added + 1)
      BY <2>1, <2>2, <3>1, Zenon DEF Queue!Accept
    <3> QED  BY <3>1, <3>2, Zenon DEF Queue!QNext
  <2> QED  BY <2>3, <2>4, Zenon
<1>4. ASSUME NEW n \in BNodes, OnlyMoves(n) PROVE [Queue!QNext]_(Queue!qvars)
  BY <1>1, <1>4, Zenon DEF OnlyMoves, Undeliverable, InBatch
<1>5. ASSUME NEW n \in BNodes, MakesGroup(n) PROVE [Queue!QNext]_(Queue!qvars)
  <2>1. accepted = {} /\ accepted' = {}
    BY <1>0, <1>5, Zenon DEF MakesGroup, BTypes
  <2>2. Undeliverable' = Undeliverable
    BY <2>1, Zenon DEF Undeliverable
  <2> QED  BY <1>1, <1>5, <2>2, Zenon DEF MakesGroup
<1>6. ASSUME NEW n \in BNodes, Removes(n) \/ Crash(n) PROVE [Queue!QNext]_(Queue!qvars)
  <2>1. UNCHANGED <<accepted, handled, doubted, cursor>>
    BY <1>6, Zenon DEF Removes, Crash, redis
  <2>2. \A e \in Entries : owner[e] = Nobody => owner'[e] = Nobody
    BY <1>6, Zenon DEF Removes, Crash, redis
  <2>3. \A e, m : m \in BNodes /\ e \notin batch[m] => e \notin batch'[m]
    BY <1>0, <1>6, Zenon DEF Removes, Crash, BTypes
  <2>4. accepted \subseteq Entries
    BY <1>0, BroadcasterAssumption, SMTT(30) DEF BTypes, Entries
  <2>5. Undeliverable \subseteq Undeliverable'
    BY <2>1, <2>2, <2>3, <2>4, UndeliverableIs, Zenon
  <2>6. /\ Undeliverable' \subseteq doubted \ done
        /\ Undeliverable' = Undeliverable \cup Undeliverable'
        /\ Undeliverable' \subseteq Entries
    BY <1>0, <2>1, <2>4, <2>5, Zenon DEF Undeliverable
  <2>7. Queue!Drop(Undeliverable')
    BY <2>1, <2>6, Zenon DEF Queue!Drop
  <2> QED  BY <2>6, <2>7, Zenon DEF Queue!QNext
<1>7. ASSUME NEW n \in BNodes, NEW x \in Entries, HandlesEntry(n, x)
      PROVE  [Queue!QNext]_(Queue!qvars)
  <2>1. /\ UNCHANGED <<accepted, doubted, cursor>> /\ handled' = handled \cup {x}
        /\ x \in batch[n]
    BY <1>7, Zenon DEF HandlesEntry
  <2>2. \A e \in Entries \ {x} : owner'[e] = owner[e]
    BY <1>0, <1>7, Zenon DEF HandlesEntry, BTypes
  <2>3. \A e, m : m \in BNodes /\ e # x => (e \in batch'[m] <=> e \in batch[m])
    BY <1>0, <1>7, Zenon DEF HandlesEntry, BTypes
  <2>4. x \notin Undeliverable /\ ~(x \in Undeliverable)'
    BY <2>1, UndeliverableIs, Zenon
  <2>5. accepted \subseteq Entries
    BY <1>0, BroadcasterAssumption, SMTT(30) DEF BTypes, Entries
  <2>6. \A e : (e \in Undeliverable)' <=> e \in Undeliverable
    BY <2>1, <2>2, <2>3, <2>4, <2>5, UndeliverableIs, ZenonT(60)
  <2>7. Undeliverable' = Undeliverable
    BY <2>6, Zenon
  <2>8. CASE x \in accepted
    <3>1. handled' \cap accepted' = done \cup {x} /\ x \in accepted \ Undeliverable
      BY <2>1, <2>4, <2>8, Zenon
    <3>2. Queue!HandleOnce(x)
      BY <2>1, <2>7, <3>1, Zenon DEF Queue!HandleOnce
    <3> QED  BY <3>2, Zenon DEF Queue!QNext
  <2>9. CASE x \notin accepted
    <3>1. handled' \cap accepted' = done
      BY <2>1, <2>9, Zenon
    <3> QED  BY <2>1, <2>7, <3>1, Zenon DEF Queue!qvars
  <2> QED  BY <2>8, <2>9, Zenon
<1>8. ASSUME NEW n \in BNodes, NEW S \in SUBSET Entries, HandsOut(n, S),
             \A m \in BNodes \ {n} : batch'[m] = batch[m],
             batch'[n] \subseteq S
      PROVE  Undeliverable' = Undeliverable
  <2>1. UNCHANGED <<accepted, handled>> /\ n # Nobody /\ batch[n] = {}
    BY <1>8, BroadcasterAssumption, Zenon DEF HandsOut
  <2>2. ASSUME NEW e \in accepted PROVE (e \in Undeliverable)' <=> e \in Undeliverable
    <3>1. e \in Entries /\ owner'[e] = IF e \in S THEN n ELSE owner[e]
      BY <1>0, <1>8, BroadcasterAssumption, SMTT(30) DEF HandsOut, BTypes, Entries
    <3>2. CASE e \in S
      <4>1. e <= cursor => owner[e] # Nobody
        BY <1>8, <3>2, Zenon DEF HandsOut
      <4> QED  BY <2>1, <3>1, <3>2, <4>1, UndeliverableIs, Zenon
    <3>3. CASE e \notin S
      <4>1. e <= cursor' <=> e <= cursor
        BY <1>0, <1>8, <3>1, <3>3, BroadcasterAssumption, SMTT(30) DEF HandsOut, BTypes, Entries
      <4>2. \A m \in BNodes : e \in batch'[m] <=> e \in batch[m]
        BY <1>8, <2>1, <3>3, Zenon
      <4> QED  BY <2>1, <3>1, <3>3, <4>1, <4>2, UndeliverableIs, Zenon
    <3> QED  BY <3>2, <3>3, Zenon
  <2>3. \A e : (e \in Undeliverable)' <=> e \in Undeliverable
    BY <2>1, <2>2, UndeliverableIs, Zenon
  <2> QED  BY <2>3, Zenon
<1>9. ASSUME NEW n \in BNodes, NEW S \in SUBSET Entries, Receives(n, S)
      PROVE  [Queue!QNext]_(Queue!qvars)
  <2>1. /\ HandsOut(n, S) /\ doubted' = doubted /\ batch'[n] = S
        /\ \A m \in BNodes \ {n} : batch'[m] = batch[m]
    BY <1>0, <1>9, Zenon DEF Receives, BTypes
  <2>2. Undeliverable' = Undeliverable
    BY <1>8, <2>1, Zenon
  <2> QED  BY <1>1, <2>1, <2>2, Zenon DEF HandsOut
<1>10. ASSUME NEW n \in BNodes, NEW S \in SUBSET Entries, Misses(n, S)
       PROVE  [Queue!QNext]_(Queue!qvars)
  <2>1. /\ HandsOut(n, S) /\ doubted' = doubted \cup (S \cap accepted) /\ batch' = batch
        /\ batch[n] = {}
    BY <1>10, Zenon DEF Misses, HandsOut
  <2>2. Undeliverable' = Undeliverable
    BY <1>8, <2>1, Zenon
  <2>3. Queue!Doubt(S \cap accepted)
    BY <2>1, <2>2, Zenon DEF Queue!Doubt, HandsOut
  <2>4. S \cap accepted \in SUBSET Entries
    BY Zenon
  <2> QED  BY <2>3, <2>4, Zenon DEF Queue!QNext
<1> QED  BY <1>2, <1>3, <1>4, <1>5, <1>6, <1>7, <1>9, <1>10, ZenonT(60) DEF StepKind

\* Whatever commands fail, whichever replies are lost and whichever nodes crash
\* or shut down, the consumers of the group handle every broadcast it accepted
\* at least once, or still can, except for one that was in a lost reply and was
\* dropped with its consumer: the broadcaster implements BroadcastQueue.
THEOREM BroadcasterImplementsQueue == BSpec => ImplementsBroadcastQueue
<1>1. BInit => Queue!QInit
  BY Zenon DEF BInit, Queue!QInit, Undeliverable
<1>2. BInv /\ BInv' /\ [BNext]_bvars => [Queue!QNext]_(Queue!qvars)
  BY StepKinds, BroadcasterStep, Zenon
<1> QED
  BY <1>1, <1>2, BInvariant, PTL DEF BSpec, ImplementsBroadcastQueue, Queue!QueueSpec
=============================================================================
