--------------------------- MODULE RpcController ---------------------------
(***************************************************************************)
(* The RPC controller (rpc/rpc.go, rpc/barrier.go): calls of the sessions  *)
(* limited by a barrier of tokens, repeated with growing delays while the  *)
(* service is exhausted or unavailable, over a gRPC connection that fails  *)
(* and recovers; and the controller's Shutdown.                            *)
(*                                                                         *)
(* The code computes a delay as 2^attempt * interval, with attempt set     *)
(* back to 0 when the kind of failure changes.  Here next is the delay of  *)
(* one more failure of the last kind.                                      *)
(*                                                                         *)
(* The gRPC connection and the service are external: what they answer is   *)
(* chosen freely.  Every one of a caller's calls, whatever its method,     *)
(* takes the same path.                                                    *)
(***************************************************************************)
EXTENDS Integers, FiniteSets

CONSTANTS
    Callers,             \* goroutines of sessions that call the service
    Capacity,            \* config.Concurrency
    InvokeTimeout,       \* invokeTimeout
    ExhaustedInterval,   \* retryExhaustedInterval
    UnavailableInterval, \* retryUnavailableInterval
    ConnFails,           \* the gRPC connection may fail
    Shuts,               \* the controller is shut down
    MaxCalls,            \* bound: calls of a caller
    MaxOutages           \* bound: failures of the connection

ASSUME RpcAssumption ==
    /\ IsFiniteSet(Callers)
    /\ Capacity \in Nat \ {0} /\ InvokeTimeout \in Nat
    /\ ExhaustedInterval \in Nat \ {0} /\ UnavailableInterval \in Nat \ {0}
    /\ ConnFails \in BOOLEAN /\ Shuts \in BOOLEAN
    /\ MaxCalls \in Nat /\ MaxOutages \in Nat

VARIABLES
    pc,         \* where a caller's call is
    seen,       \* the connection state its Ready has read
    age,        \* its retryAge, in milliseconds
    last,       \* the kind of its last failure
    next,       \* the delay after one more failure of that kind
    count,      \* its calls so far
    tokens,     \* len(barrier.sem)
    conn,       \* the gRPC connection: "ok", "failure" or "closed"
    outages,    \* its failures so far
    resets,     \* ResetConnectBackoff calls in this outage
    recovering, \* grpcClientHelper.recovering
    shutdown,   \* Controller.Shutdown: "no", "check", "close" or "done"
    cut         \* callers whose call was running when the connection closed

retryVars == <<age, last, next>>
callVars == <<pc, seen, retryVars, count>>
connVars == <<conn, outages, resets, recovering>>
vars == <<callVars, tokens, connVars, shutdown, cut>>

Kinds == {"exhausted", "unavailable"}
Interval(kind) == IF kind = "exhausted" THEN ExhaustedInterval ELSE UnavailableInterval

Holding(c) == pc[c] \notin {"idle", "acquire"}

Init ==
    /\ pc = [c \in Callers |-> "idle"]
    /\ seen = [c \in Callers |-> "ok"]
    /\ age = [c \in Callers |-> 0]
    /\ last = [c \in Callers |-> "unavailable"]
    /\ next = [c \in Callers |-> UnavailableInterval]
    /\ count = [c \in Callers |-> 0]
    /\ tokens = Capacity
    /\ conn = "ok" /\ outages = 0 /\ resets = 0 /\ recovering = FALSE
    /\ shutdown = "no" /\ cut = {}

Goto(c, place) == pc' = [pc EXCEPT ![c] = place]

-----------------------------------------------------------------------------
(* A call.                                                                 *)

\* Authenticate, Subscribe, Unsubscribe, Perform or Disconnect
Call(c) ==
    /\ pc[c] = "idle" /\ count[c] < MaxCalls
    /\ count' = [count EXCEPT ![c] = @ + 1]
    /\ Goto(c, "acquire")
    /\ UNCHANGED <<seen, retryVars, tokens, connVars, shutdown, cut>>

\* barrier.Acquire; retry starts
Acquire(c) ==
    /\ pc[c] = "acquire" /\ tokens > 0
    /\ tokens' = tokens - 1
    /\ age' = [age EXCEPT ![c] = 0]
    /\ last' = [last EXCEPT ![c] = "unavailable"]
    /\ next' = [next EXCEPT ![c] = UnavailableInterval]
    /\ Goto(c, "ready")
    /\ UNCHANGED <<seen, count, connVars, shutdown, cut>>

\* Ready: st.conn.GetState()
GetState(c) ==
    /\ pc[c] = "ready"
    /\ seen' = [seen EXCEPT ![c] = conn]
    /\ Goto(c, "state")
    /\ UNCHANGED <<retryVars, count, tokens, connVars, shutdown, cut>>

\* tryRecover: the first call of an outage goes through
TryRecover(c) ==
    \/ /\ recovering
       /\ Goto(c, "release")
       /\ UNCHANGED connVars
    \/ /\ ~recovering
       /\ recovering' = TRUE /\ resets' = resets + 1
       /\ Goto(c, "calling")
       /\ UNCHANGED <<conn, outages>>

\* reset, and the call goes through
Restored(c) ==
    /\ recovering' = FALSE
    /\ Goto(c, "calling")
    /\ UNCHANGED <<conn, outages, resets>>

\* mutant: the token is not given back when the connection is not ready
Ready_Leak(c) ==
    /\ pc[c] = "state"
    /\ IF seen[c] # "ok" /\ (seen[c] = "closed" \/ recovering)
       THEN Goto(c, "idle") /\ UNCHANGED connVars
       ELSE /\ recovering' = (seen[c] = "failure")
            /\ Goto(c, "calling")
            /\ UNCHANGED <<conn, outages, resets>>
    /\ UNCHANGED <<seen, retryVars, count, tokens, shutdown, cut>>

\* Ready, after GetState: an error, or the call is made
Ready(c) ==
    /\ pc[c] = "state"
    /\ \/ /\ seen[c] = "closed"
          /\ Goto(c, "release")
          /\ UNCHANGED connVars
       \/ seen[c] = "failure" /\ TryRecover(c)
       \/ seen[c] = "ok" /\ Restored(c)
    /\ UNCHANGED <<seen, retryVars, count, tokens, shutdown, cut>>

\* the service answers, or fails with a code that is not repeated
Answer(c) ==
    /\ pc[c] = "calling"
    /\ Goto(c, "release")
    /\ UNCHANGED <<seen, retryVars, count, tokens, connVars, shutdown, cut>>

\* mutant: the age is not added up
Retry_AgeLost(c) ==
    /\ pc[c] = "calling"
    /\ \E kind \in Kinds :
           IF age[c] > InvokeTimeout
           THEN Goto(c, "release") /\ UNCHANGED retryVars
           ELSE LET delay == IF kind = last[c] THEN next[c] ELSE Interval(kind)
                IN  /\ age' = [age EXCEPT ![c] = delay]
                    /\ next' = [next EXCEPT ![c] = 2 * delay]
                    /\ last' = [last EXCEPT ![c] = kind]
                    /\ Goto(c, "ready")
    /\ UNCHANGED <<seen, count, tokens, connVars, shutdown, cut>>

\* mutant: a new kind of failure does not set the attempts back
Retry_AttemptKept(c) ==
    /\ pc[c] = "calling"
    /\ \E kind \in Kinds :
           IF age[c] > InvokeTimeout
           THEN Goto(c, "release") /\ UNCHANGED retryVars
           ELSE LET delay == (next[c] \div Interval(last[c])) * Interval(kind)
                IN  /\ age' = [age EXCEPT ![c] = @ + delay]
                    /\ next' = [next EXCEPT ![c] = 2 * delay]
                    /\ last' = [last EXCEPT ![c] = kind]
                    /\ Goto(c, "ready")
    /\ UNCHANGED <<seen, count, tokens, connVars, shutdown, cut>>

\* the service is exhausted or unavailable: give up, or sleep and repeat
Retry(c) ==
    /\ pc[c] = "calling"
    /\ \E kind \in Kinds :
           IF age[c] > InvokeTimeout
           THEN Goto(c, "release") /\ UNCHANGED retryVars
           ELSE LET delay == IF kind = last[c] THEN next[c] ELSE Interval(kind)
                IN  /\ age' = [age EXCEPT ![c] = @ + delay]
                    /\ next' = [next EXCEPT ![c] = 2 * delay]
                    /\ last' = [last EXCEPT ![c] = kind]
                    /\ Goto(c, "ready")
    /\ UNCHANGED <<seen, count, tokens, connVars, shutdown, cut>>

\* the deferred barrier.Release
Release(c) ==
    /\ pc[c] = "release"
    /\ tokens' = tokens + 1
    /\ Goto(c, "idle")
    /\ UNCHANGED <<seen, retryVars, count, connVars, shutdown, cut>>

-----------------------------------------------------------------------------
(* The gRPC connection.                                                    *)

Fail ==
    /\ ConnFails /\ conn = "ok" /\ outages < MaxOutages
    /\ conn' = "failure" /\ outages' = outages + 1 /\ resets' = 0
    /\ UNCHANGED <<callVars, tokens, recovering, shutdown, cut>>

Reconnect ==
    /\ conn = "failure"
    /\ conn' = "ok"
    /\ UNCHANGED <<callVars, tokens, outages, resets, recovering, shutdown, cut>>

-----------------------------------------------------------------------------
(* Controller.Shutdown.                                                    *)

Shutdown ==
    /\ Shuts /\ shutdown = "no"
    /\ shutdown' = "check"
    /\ UNCHANGED <<callVars, tokens, connVars, cut>>

\* its retry: Ready, then the check for busy callers.  The error for busy
\* callers is not a gRPC status, so that retry returns it at once.
ShutdownCheck ==
    /\ shutdown = "check"
    /\ shutdown' = "close"
    /\ recovering' = (conn = "failure")
    /\ resets' = IF conn = "failure" /\ ~recovering THEN resets + 1 ELSE resets
    /\ UNCHANGED <<callVars, tokens, conn, outages, cut>>

\* the deferred clientState.Close
Close ==
    /\ shutdown = "close"
    /\ shutdown' = "done" /\ conn' = "closed"
    /\ cut' = {c \in Callers : pc[c] = "calling"}
    /\ UNCHANGED <<callVars, tokens, outages, resets, recovering>>

Finish(c) ==
    GetState(c) \/ Ready(c) \/ Answer(c) \/ Retry(c) \/ Release(c)

Next ==
    \/ \E c \in Callers : Call(c) \/ Acquire(c) \/ Finish(c)
    \/ Fail \/ Reconnect
    \/ Shutdown \/ ShutdownCheck \/ Close

Spec == Init /\ [][Next]_vars

\* goroutines are scheduled, a call gets an answer or an error (gRPC keeps the
\* connection alive with pings), and a waiting receiver of a Go channel is
\* served in turn
FairSpec ==
    /\ Spec
    /\ \A c \in Callers : WF_vars(Finish(c)) /\ SF_vars(Acquire(c))

-----------------------------------------------------------------------------

\* Every variable keeps its type.
TypeOK ==
    /\ pc \in [Callers -> {"idle", "acquire", "ready", "state", "calling", "release"}]
    /\ seen \in [Callers -> {"ok", "failure", "closed"}]
    /\ age \in [Callers -> Nat] /\ next \in [Callers -> Nat] /\ count \in [Callers -> Nat]
    /\ last \in [Callers -> Kinds]
    /\ tokens \in 0..Capacity
    /\ conn \in {"ok", "failure", "closed"}
    /\ outages \in Nat /\ resets \in Nat /\ recovering \in BOOLEAN
    /\ shutdown \in {"no", "check", "close", "done"}
    /\ cut \subseteq Callers

\* The tokens are never lost or doubled, whichever way a call ends: BusyCount,
\* which Shutdown goes by, is the number of calls in progress, and there are
\* never more of them than the concurrency limit.
BusyCountRight == Capacity - tokens = Cardinality({c \in Callers : Holding(c)})

\* A call sleeps for no more than twice the invoke timeout and one interval of
\* its last failure, however the kinds of failure alternate and reset the
\* delay: the delays double, but the age that stops them grows with them.
RetryAgeBounded ==
    \A c \in Callers : age[c] <= 2 * InvokeTimeout + Interval(last[c])

\* A call comes to an end, even if the service never recovers.
EveryCallReturns == \A c \in Callers : pc[c] = "acquire" ~> pc[c] = "idle"

\* In an outage of the connection, the controller asks for an immediate
\* reconnection once, as the comment of Ready says.
ReconnectsOnce == resets <= 1

\* Shutdown waits for the calls in progress, as its comment says: none is
\* running when it closes the connection.
ShutdownWaits == cut = {}
=============================================================================
