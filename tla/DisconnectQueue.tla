-------------------------- MODULE DisconnectQueue --------------------------
(***************************************************************************)
(* The disconnect queue (node/disconnect_queue.go): sessions wait in a     *)
(* bounded channel for a throttled goroutine that performs their           *)
(* Disconnect calls; Shutdown stops that goroutine and performs the        *)
(* remaining calls itself until its context expires.                       *)
(***************************************************************************)
EXTENDS Naturals, Sequences, FiniteSets

CONSTANTS
    Sessions,   \* the sessions that may be enqueued
    NoSession,
    Backlog     \* capacity of d.disconnect

ASSUME QueueAssumption == NoSession \notin Sessions /\ Backlog \in Nat \ {0}

VARIABLES
    enq,        \* the Enqueue call of each session
    queue,      \* d.disconnect
    isStopped,  \* d.isStopped
    token,      \* d.shutdown holds its message
    runner,     \* Run: "select", "throttle" or "stopped"
    current,    \* the session Run has taken
    shut,       \* Shutdown: "idle", "stop", "count", "drain" or "done"
    expired,    \* the context of Shutdown is done
    gaveUp,     \* Shutdown returned because of the context
    promised,   \* history: enqueued when Shutdown set isStopped
    called      \* history: Disconnect calls made, per session

queueVars == <<enq, queue, isStopped, token, runner, current, shut, expired,
               gaveUp, promised, called>>

QueueInit ==
    /\ enq = [s \in Sessions |-> "idle"]
    /\ queue = <<>> /\ isStopped = FALSE /\ token = FALSE
    /\ runner = "select" /\ current = NoSession
    /\ shut = "idle" /\ expired = FALSE /\ gaveUp = FALSE
    /\ promised = {} /\ called = [s \in Sessions |-> 0]

-----------------------------------------------------------------------------

\* Enqueue: isStopped is read under d.mu, which is released before the send
EnqueueCheck(s) ==
    /\ enq[s] = "check"
    /\ enq' = [enq EXCEPT ![s] = IF isStopped THEN "refused" ELSE "send"]
    /\ UNCHANGED <<queue, isStopped, token, runner, current, shut, expired,
                   gaveUp, promised, called>>

EnqueueSend(s) ==
    /\ enq[s] = "send"
    /\ Len(queue) < Backlog
    /\ queue' = Append(queue, s)
    /\ enq' = [enq EXCEPT ![s] = "done"]
    /\ UNCHANGED <<isStopped, token, runner, current, shut, expired, gaveUp,
                   promised, called>>

\* mutant: Run leaves the session at the head of the queue while it waits
RunTake_Peek ==
    /\ runner = "select" /\ queue # <<>>
    /\ current' = Head(queue) /\ runner' = "throttle"
    /\ queue' = IF Len(queue) > 1 THEN Tail(queue) ELSE queue
    /\ UNCHANGED <<enq, isStopped, token, shut, expired, gaveUp, promised, called>>

\* Run receives a session and waits for the ticker
RunTake ==
    /\ runner = "select" /\ queue # <<>>
    /\ current' = Head(queue) /\ runner' = "throttle"
    /\ queue' = Tail(queue)
    /\ UNCHANGED <<enq, isStopped, token, shut, expired, gaveUp, promised, called>>

\* the ticker fires: DisconnectNow
RunCall ==
    /\ runner = "throttle"
    /\ called' = [called EXCEPT ![current] = @ + 1]
    /\ runner' = "select" /\ current' = NoSession
    /\ UNCHANGED <<enq, queue, isStopped, token, shut, expired, gaveUp, promised>>

\* Run receives the shutdown message; select may prefer it to a session
RunStop ==
    /\ runner = "select" /\ token
    /\ token' = FALSE /\ runner' = "stopped"
    /\ UNCHANGED <<enq, queue, isStopped, current, shut, expired, gaveUp,
                   promised, called>>

-----------------------------------------------------------------------------

ShutdownStop ==
    /\ shut = "stop"
    /\ isStopped' = TRUE /\ token' = TRUE
    /\ shut' = "count"
    /\ promised' = {s \in Sessions : enq[s] = "done"}
    /\ UNCHANGED <<enq, queue, runner, current, expired, gaveUp, called>>

\* left == 0 returns at once
ShutdownCount ==
    /\ shut = "count"
    /\ shut' = IF queue = <<>> THEN "done" ELSE "drain"
    /\ UNCHANGED <<enq, queue, isStopped, token, runner, current, expired,
                   gaveUp, promised, called>>

DrainTake ==
    /\ shut = "drain" /\ queue # <<>>
    /\ called' = [called EXCEPT ![Head(queue)] = @ + 1]
    /\ queue' = Tail(queue)
    /\ UNCHANGED <<enq, isStopped, token, runner, current, shut, expired,
                   gaveUp, promised>>

\* the context is done, or (default) there is nothing left
DrainEnd ==
    /\ shut = "drain"
    /\ expired \/ queue = <<>>
    /\ gaveUp' = expired
    /\ shut' = "done"
    /\ UNCHANGED <<enq, queue, isStopped, token, runner, current, expired,
                   promised, called>>

\* the shutdown timeout passes
Deadline ==
    /\ ~expired /\ shut # "done"
    /\ expired' = TRUE
    /\ UNCHANGED <<enq, queue, isStopped, token, runner, current, shut, gaveUp,
                   promised, called>>

QueueSteps ==
    \/ \E s \in Sessions : EnqueueCheck(s) \/ EnqueueSend(s)
    \/ RunTake \/ RunCall \/ RunStop
    \/ ShutdownStop \/ ShutdownCount \/ DrainTake \/ DrainEnd

-----------------------------------------------------------------------------
(* What the queue promises whoever uses it: each session calls Enqueue at  *)
(* most once, and somebody calls Shutdown.  Module NodeShutdown shows that *)
(* the node uses it so.                                                    *)

CallEnqueue(s) ==
    /\ enq[s] = "idle"
    /\ enq' = [enq EXCEPT ![s] = "check"]
    /\ UNCHANGED <<queue, isStopped, token, runner, current, shut, expired,
                   gaveUp, promised, called>>

CallShutdown ==
    /\ shut = "idle"
    /\ shut' = "stop"
    /\ UNCHANGED <<enq, queue, isStopped, token, runner, current, expired,
                   gaveUp, promised, called>>

QueueNext ==
    \/ \E s \in Sessions : CallEnqueue(s)
    \/ CallShutdown
    \/ Deadline
    \/ QueueSteps

QueueSpec == QueueInit /\ [][QueueNext]_queueVars

-----------------------------------------------------------------------------

\* Every variable keeps its type; Run holds a session exactly while it waits
\* for the ticker.
QueueTypeOK ==
    /\ enq \in [Sessions -> {"idle", "check", "send", "done", "refused"}]
    /\ queue \in Seq(Sessions) /\ Len(queue) <= Backlog
    /\ isStopped \in BOOLEAN /\ token \in BOOLEAN
    /\ runner \in {"select", "throttle", "stopped"}
    /\ current \in Sessions \cup {NoSession}
    /\ current # NoSession <=> runner = "throttle"
    /\ shut \in {"idle", "stop", "count", "drain", "done"}
    /\ expired \in BOOLEAN /\ gaveUp \in BOOLEAN
    /\ promised \subseteq Sessions
    /\ called \in [Sessions -> Nat]

\* A session gets at most one Disconnect call although Run and Shutdown
\* receive from the same channel at the same time.
CalledOnce == \A s \in Sessions : called[s] <= 1

\* When Shutdown returns before its deadline, every session enqueued before it
\* has had its Disconnect call, or Run is about to make it: the len() taken
\* before the loop and the default case lose none of them.
DrainedOnReturn ==
    shut = "done" /\ ~gaveUp =>
        \A s \in promised : called[s] = 1 \/ current = s
=============================================================================
