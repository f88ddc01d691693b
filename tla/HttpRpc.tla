------------------------------ MODULE HttpRpc -------------------------------
(***************************************************************************)
(* RPC over HTTP (rpc/http.go): performRequest asks a two-step circuit     *)
(* breaker for permission and tells it the outcome, except when the        *)
(* request times out.  The breaker is the gobreaker library (external),    *)
(* with the settings of NewHTTPService.                                    *)
(***************************************************************************)
EXTENDS Integers, FiniteSets

CONSTANTS
  HttpCallers,       \* calls in progress at a time
  HalfOpenRequests,  \* Settings.MaxRequests
  TripRequests,      \* the least number of requests ReadyToTrip looks at
  MaxGenerations,    \* bound on the breaker's generations
  MaxCounted         \* bound on the requests of a generation

ASSUME HttpAssumption ==
  /\ IsFiniteSet(HttpCallers)
  /\ HalfOpenRequests \in Nat \ {0} /\ TripRequests \in Nat
  /\ MaxGenerations \in Nat /\ MaxCounted \in Nat

VARIABLES
  breaker,                        \* "closed", "open" or "half-open"
  generation,
  requests, successes, failures,  \* Counts of the generation
  request,                        \* caller -> the generation its request began in, 0 if none
  kept                            \* history: requests of the generation that timed out

hvars == <<breaker, generation, requests, successes, failures, request, kept>>

HInit ==
  /\ breaker = "closed" /\ generation = 1
  /\ requests = 0 /\ successes = 0 /\ failures = 0
  /\ request = [c \in HttpCallers |-> 0] /\ kept = 0

\* A change of state, or the end of Interval, starts a new generation.
NewGeneration(state) ==
  /\ breaker' = state /\ generation' = generation + 1
  /\ requests' = 0 /\ successes' = 0 /\ failures' = 0 /\ kept' = 0

\* helper.Ready and cb.Allow both let the call through.
startRequest(c) ==
  /\ request[c] = 0 /\ breaker # "open" /\ requests < MaxCounted
  /\ breaker = "half-open" => requests < HalfOpenRequests
  /\ request' = [request EXCEPT ![c] = generation]
  /\ requests' = requests + 1
  /\ UNCHANGED <<breaker, generation, successes, failures, kept>>

ReadyToTrip ==
  requests >= TripRequests /\ 10 * (failures + 1) >= 8 * requests

\* cbCallback: the outcome of an earlier generation is ignored.
cbCallback(c, success) ==
  IF request[c] # generation
  THEN UNCHANGED <<breaker, generation, requests, successes, failures, kept>>
  ELSE IF success
  THEN IF breaker = "half-open" /\ successes + 1 >= HalfOpenRequests
       THEN NewGeneration("closed")
       ELSE /\ successes' = successes + 1
            /\ UNCHANGED <<breaker, generation, requests, failures, kept>>
  ELSE IF breaker = "half-open" \/ ReadyToTrip
       THEN NewGeneration("open")
       ELSE /\ failures' = failures + 1
            /\ UNCHANGED <<breaker, generation, requests, successes, kept>>

\* mutant: a response is not reported
responseArrives_Unreported(c) ==
  /\ request[c] # 0 /\ generation < MaxGenerations
  /\ request' = [request EXCEPT ![c] = 0]
  /\ UNCHANGED <<breaker, generation, requests, successes, failures, kept>>

\* Any response is a success to the breaker, whatever its status.
responseArrives(c) ==
  /\ request[c] # 0 /\ generation < MaxGenerations
  /\ cbCallback(c, TRUE)
  /\ request' = [request EXCEPT ![c] = 0]

requestFails(c) ==
  /\ request[c] # 0 /\ generation < MaxGenerations
  /\ cbCallback(c, FALSE)
  /\ request' = [request EXCEPT ![c] = 0]

\* "request timeout": returned before cbCallback.
requestTimesOut(c) ==
  /\ request[c] # 0
  /\ request' = [request EXCEPT ![c] = 0]
  /\ kept' = IF request[c] = generation THEN kept + 1 ELSE kept
  /\ UNCHANGED <<breaker, generation, requests, successes, failures>>

\* Timeout ends the open state, Interval a generation of the closed one; a
\* half-open breaker waits for outcomes only.
breakerExpires ==
  /\ breaker # "half-open" /\ generation < MaxGenerations
  /\ NewGeneration(IF breaker = "open" THEN "half-open" ELSE "closed")
  /\ UNCHANGED request

HNext ==
  \/ \E c \in HttpCallers : \/ startRequest(c) \/ responseArrives(c)
                            \/ requestFails(c) \/ requestTimesOut(c)
  \/ breakerExpires

HSpec == HInit /\ [][HNext]_hvars

-----------------------------------------------------------------------------
\* Every variable keeps its type; no request is ahead of the breaker.
HTypeOK ==
  /\ breaker \in {"closed", "open", "half-open"} /\ generation \in Nat \ {0}
  /\ requests \in Nat /\ successes \in Nat /\ failures \in Nat /\ kept \in Nat
  /\ request \in [HttpCallers -> 0 .. generation]

\* A half-open breaker that refuses calls has a request in flight whose
\* outcome will close or open it.  Requests that timed out are the exception:
\* they keep their place, and when HalfOpenRequests of them have, nothing
\* reopens the service to the node short of a restart.
BreakerGetsAnOutcome ==
  (breaker = "half-open" /\ requests >= HalfOpenRequests) =>
    \/ \E c \in HttpCallers : request[c] = generation
    \/ kept > 0
=============================================================================
