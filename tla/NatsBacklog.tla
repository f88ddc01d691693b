---------------------------- MODULE NatsBacklog -----------------------------
(***************************************************************************)
(* Broadcasts through the NATS broker while JetStream is being set up      *)
(* (broker/nats.go): Start initialises JetStream in the background, with   *)
(* retries; HandleBroadcast waits for it for a second, and keeps what it   *)
(* cannot publish in a backlog, which Start's goroutine flushes.           *)
(***************************************************************************)
EXTENDS Integers, SequencesExt

CONSTANTS
  Transients,       \* broadcasts whose meta says transient
  Persistents,      \* the others
  MaxInitAttempts,  \* initJetStreamWithRetry gives up after this many (5)
  Flush             \* the name of the goroutine that flushes the backlog

Msgs == Transients \cup Persistents

VARIABLES
  readiness,  \* readyCtx: "waiting", "ready" or "failed"
  attempts,   \* failed attempts of initJetStreamWithRetry
  at,         \* who runs HandleBroadcast -> where it is
  arg,        \* who -> the message of the call
  jsBacklog,  \* broadcastBacklog
  backlogMu,  \* who holds backlogMu, "nobody" if free
  toFlush,    \* what the flush loop has left
  published   \* messages handed to the broadcaster

lvars == <<readiness, attempts, at, arg, jsBacklog, backlogMu, toFlush,
           published>>

\* Each broadcast comes from a goroutine of its own; Flush is Start's.
Broadcasters == Msgs \cup {Flush}

LInit ==
  /\ readiness = "waiting" /\ attempts = 0
  /\ at = [p \in Broadcasters |-> "idle"]
  /\ arg = [p \in Broadcasters |-> p]
  /\ jsBacklog = <<>> /\ backlogMu = "nobody" /\ toFlush = <<>>
  /\ published = {}

\* initJetStreamWithRetry: the outcome cancels readyCtx; only a failure is
\* followed by backlogFlush, which takes backlogMu first.
initJetStream(ok) ==
  /\ readiness = "waiting"
  /\ IF ok THEN readiness' = "ready" /\ UNCHANGED <<attempts, at>>
     ELSE /\ attempts' = attempts + 1
          /\ IF attempts + 1 > MaxInitAttempts
             THEN /\ readiness' = "failed"
                  /\ at' = [at EXCEPT ![Flush] = "flush"]
             ELSE UNCHANGED <<readiness, at>>
  /\ UNCHANGED <<arg, jsBacklog, backlogMu, toFlush, published>>

backlogFlush ==
  /\ at[Flush] = "flush" /\ backlogMu = "nobody"
  /\ backlogMu' = "flush" /\ toFlush' = jsBacklog
  /\ at' = [at EXCEPT ![Flush] = "next"]
  /\ UNCHANGED <<readiness, attempts, arg, jsBacklog, published>>

\* The loop of backlogFlush: the next message, or the reset and the unlock.
flushNext ==
  /\ at[Flush] = "next"
  /\ IF toFlush # <<>>
     THEN /\ arg' = [arg EXCEPT ![Flush] = Head(toFlush)]
          /\ toFlush' = Tail(toFlush)
          /\ at' = [at EXCEPT ![Flush] = "enter"]
          /\ UNCHANGED <<jsBacklog, backlogMu>>
     ELSE /\ jsBacklog' = <<>> /\ backlogMu' = "nobody"
          /\ at' = [at EXCEPT ![Flush] = "returned"]
          /\ UNCHANGED <<arg, toFlush>>
  /\ UNCHANGED <<readiness, attempts, published>>

StartBroadcast(m) ==
  /\ at[m] = "idle"
  /\ at' = [at EXCEPT ![m] = "enter"]
  /\ UNCHANGED <<readiness, attempts, arg, jsBacklog, backlogMu, toFlush,
                 published>>

Returned(p) == [at EXCEPT ![p] = IF p = Flush THEN "next" ELSE "returned"]

\* HandleBroadcast: a transient message goes out at once; Ready returns nil
\* when readyCtx was cancelled without a cause, and an error after its
\* timeout or when the initialisation failed.
HandleBroadcast(p) ==
  /\ at[p] = "enter"
  /\ IF arg[p] \in Transients
     THEN published' = published \cup {arg[p]} /\ at' = Returned(p)
     ELSE /\ at' = [at EXCEPT ![p] =
                        IF readiness = "ready" THEN "add" ELSE "backlog"]
          /\ UNCHANGED published
  /\ UNCHANGED <<readiness, attempts, arg, jsBacklog, backlogMu, toFlush>>

\* A message that cannot be added is logged and dropped.
addMessage(p, ok) ==
  /\ at[p] = "add"
  /\ published' = IF ok THEN published \cup {arg[p]} ELSE published
  /\ at' = Returned(p)
  /\ UNCHANGED <<readiness, attempts, arg, jsBacklog, backlogMu, toFlush>>

\* mutant: the lock is not released
backlogAdd_Locked(p) ==
  /\ at[p] = "backlog" /\ backlogMu = "nobody"
  /\ jsBacklog' = Append(jsBacklog, arg[p]) /\ backlogMu' = "caller"
  /\ at' = Returned(p)
  /\ UNCHANGED <<readiness, attempts, arg, toFlush, published>>

backlogAdd(p) ==
  /\ at[p] = "backlog" /\ backlogMu = "nobody"
  /\ jsBacklog' = Append(jsBacklog, arg[p])
  /\ at' = Returned(p)
  /\ UNCHANGED <<readiness, attempts, arg, backlogMu, toFlush, published>>

BrokerStep ==
  \/ \E ok \in BOOLEAN : initJetStream(ok)
  \/ backlogFlush \/ flushNext
CallStep(p) ==
  HandleBroadcast(p) \/ (\E ok \in BOOLEAN : addMessage(p, ok)) \/ backlogAdd(p)

LNext ==
  \/ BrokerStep
  \/ \E m \in Msgs : StartBroadcast(m)
  \/ \E p \in Broadcasters : CallStep(p)

LFairness ==
  WF_lvars(BrokerStep) /\ \A p \in Broadcasters : WF_lvars(CallStep(p))

LSpec == LInit /\ [][LNext]_lvars /\ LFairness

-----------------------------------------------------------------------------
\* backlogFlush holds backlogMu and hands a message to HandleBroadcast, which
\* waits for the same lock: nobody gets it any more.
FlushStuck == at[Flush] = "backlog" /\ backlogMu = "flush"

\* Every broadcast handed to the broker returns to its caller (a broadcaster's
\* single reader), unless the flush of a failed start blocks on its own lock:
\* time and again none is in progress.
BroadcastReturns ==
  []<>((\A m \in Msgs : at[m] \in {"idle", "returned"}) \/ FlushStuck)

\* "JetStream is not ready yet to publish messages, add to backlog": a
\* message put in the backlog goes out once JetStream is ready.
BacklogPublished ==
  \A m \in Persistents :
    (m \in ToSet(jsBacklog) /\ readiness = "ready") ~> (m \in published)
=============================================================================
