---------------------------- MODULE NodeShutdown ----------------------------
(***************************************************************************)
(* How sessions leave a node (Node.Disconnect) and how a node is shut down *)
(* (Node.Shutdown), composed with the hub's loop and its RWMutex h.mu, the *)
(* remote disconnect command, and the disconnect queue.                    *)
(*                                                                         *)
(* A session's own goroutines, a task of disconnectAll and the goroutine   *)
(* of a remote command may all disconnect it; module Session shows that    *)
(* one of them only runs Node.Disconnect.  All sessions have the same      *)
(* connection identifier.  The context of the shutdown is the one of the   *)
(* queue's Shutdown (expired).  The queue's variables only change as       *)
(* QueueSpec allows (ImplementsQueue).                                     *)
(***************************************************************************)
EXTENDS DisconnectQueue

CONSTANTS
    Disconnectable, \* the sessions whose Disconnect call is wanted
    RegisterCap,    \* capacity of h.register
    PoolSize,       \* ShutdownDisconnectPoolSize
    MaxCommands,    \* bound: remote disconnect commands
    NodeMayStop     \* the node is shut down

ASSUME NodeAssumption ==
    /\ Disconnectable \subseteq Sessions /\ IsFiniteSet(Sessions)
    /\ RegisterCap \in Nat \ {0} /\ PoolSize \in Nat \ {0}
    /\ MaxCommands \in Nat /\ NodeMayStop \in BOOLEAN

VARIABLES
    connected,  \* the sessions with s.Connected
    inHub,      \* h.sessions
    stage,      \* the Node.Disconnect call of each session
    actor,      \* who makes that call: "self", "task" or "remote"
    direct,     \* history: Disconnect calls made by Node.Disconnect itself
    register,   \* h.register
    hubRun,     \* Hub.Run: "select", "check", "remove" or "stopped"
    removing,   \* the session Run removes
    commands,   \* remote disconnect commands sent
    pending,    \* h.disconnect
    remote,     \* the goroutine of a command: "idle", "wait" or "loop" (with RLock)
    visit,      \* the sessions it has yet to visit
    main,       \* Node.Shutdown
    closed,     \* n.closed
    task        \* the tasks of disconnectAll

hubVars == <<register, hubRun, removing, pending, remote, visit>>
nodeVars == <<main, closed, task>>
vars == <<queueVars, connected, inHub, stage, actor, direct, commands, hubVars, nodeVars>>

Init ==
    /\ QueueInit
    /\ connected = Sessions /\ inHub = Sessions
    /\ stage = [s \in Sessions |-> "on"]
    /\ actor = [s \in Sessions |-> "self"] /\ direct = [s \in Sessions |-> 0]
    /\ register = <<>> /\ hubRun = "select" /\ removing = NoSession
    /\ commands = 0 /\ pending = 0 /\ remote = "idle" /\ visit = {}
    /\ main = "idle" /\ closed = FALSE
    /\ task = [s \in Sessions |-> "none"]

(* h.mu.  Only the remote command keeps its RLock over several steps; every *)
(* other critical section is one step.  A goroutine that waits for Lock     *)
(* keeps new readers out, those that hold an RLock already included.        *)

WriterWaits ==
    hubRun = "remove" \/ \E s \in Sessions : stage[s] = "remove"

CanLock == remote # "loop"
CanRLock == ~(remote = "loop" /\ WriterWaits)

-----------------------------------------------------------------------------
(* Node.Disconnect(s), called by disconnectFromNode once Connected is      *)
(* cleared.                                                                *)

\* mutant: Connected is not cleared
Leave_StillConnected(s, who) ==
    /\ s \in connected
    /\ stage[s] \in {"on", "gone"}
    /\ connected' = connected
    /\ stage' = [stage EXCEPT ![s] = "leaving"]
    /\ actor' = [actor EXCEPT ![s] = who]

Leave(s, who) ==
    /\ s \in connected
    /\ connected' = connected \ {s}
    /\ stage' = [stage EXCEPT ![s] = "leaving"]
    /\ actor' = [actor EXCEPT ![s] = who]

\* the client goes away
ClientLeaves(s) ==
    /\ Leave(s, "self")
    /\ UNCHANGED <<queueVars, inHub, direct, commands, hubVars, nodeVars>>

\* n.IsShuttingDown() decides how the session is removed
CheckShuttingDown(s) ==
    /\ stage[s] = "leaving"
    /\ stage' = [stage EXCEPT ![s] = IF closed THEN "check" ELSE "later"]
    /\ UNCHANGED <<queueVars, connected, inHub, actor, direct, commands, hubVars, nodeVars>>

\* hub.RemoveSessionLater blocks while h.register is full; then Enqueue
RemoveSessionLater(s) ==
    /\ stage[s] = "later"
    /\ Len(register) < RegisterCap
    /\ register' = Append(register, s)
    /\ stage' = [stage EXCEPT ![s] = "gone"]
    /\ enq' = IF s \in Disconnectable THEN [enq EXCEPT ![s] = "check"] ELSE enq
    /\ UNCHANGED <<queue, isStopped, token, runner, current, shut, expired,
                   gaveUp, promised, called, connected, inHub, actor, direct, commands,
                   hubRun, removing, pending, remote, visit, nodeVars>>

AfterRemove(s) == IF s \in Disconnectable THEN "call" ELSE "gone"

\* hub.RemoveSession: the check under RLock, then the removal under Lock
RemoveSessionCheck(s) ==
    /\ stage[s] = "check"
    /\ CanRLock
    /\ stage' = [stage EXCEPT ![s] = IF s \in inHub THEN "remove" ELSE AfterRemove(s)]
    /\ UNCHANGED <<queueVars, connected, inHub, actor, direct, commands, hubVars, nodeVars>>

RemoveSession(s) ==
    /\ stage[s] = "remove"
    /\ CanLock
    /\ inHub' = inHub \ {s}
    /\ stage' = [stage EXCEPT ![s] = AfterRemove(s)]
    /\ UNCHANGED <<queueVars, connected, actor, direct, commands, hubVars, nodeVars>>

DisconnectNow(s) ==
    /\ stage[s] = "call"
    /\ direct' = [direct EXCEPT ![s] = @ + 1]
    /\ stage' = [stage EXCEPT ![s] = "gone"]
    /\ UNCHANGED <<queueVars, connected, inHub, actor, commands, hubVars, nodeVars>>

\* Node.Disconnect has returned, Enqueue included
Returned(s) == stage[s] = "gone" /\ enq[s] \notin {"check", "send"}

-----------------------------------------------------------------------------
(* Hub.Run.                                                                *)

RunRegister ==
    /\ hubRun = "select" /\ register # <<>>
    /\ removing' = Head(register) /\ register' = Tail(register)
    /\ hubRun' = "check"
    /\ UNCHANGED <<queueVars, connected, inHub, stage, actor, direct, commands, pending,
                   remote, visit, nodeVars>>

RunRemoveCheck ==
    /\ hubRun = "check"
    /\ CanRLock
    /\ hubRun' = IF removing \in inHub THEN "remove" ELSE "select"
    /\ UNCHANGED <<queueVars, connected, inHub, stage, actor, direct, commands, register,
                   removing, pending, remote, visit, nodeVars>>

RunRemove ==
    /\ hubRun = "remove"
    /\ CanLock
    /\ inHub' = inHub \ {removing}
    /\ hubRun' = "select"
    /\ UNCHANGED <<queueVars, connected, stage, actor, direct, commands, register,
                   removing, pending, remote, visit, nodeVars>>

\* disconnectSessions: the identifier is looked up under RLock and a goroutine
\* of the pool gets the command
RunDisconnect ==
    /\ hubRun = "select" /\ pending > 0 /\ remote = "idle"
    /\ CanRLock
    /\ pending' = pending - 1
    /\ remote' = IF inHub = {} THEN "idle" ELSE "wait"
    /\ UNCHANGED <<queueVars, connected, inHub, stage, actor, direct, commands, register,
                   hubRun, removing, visit, nodeVars>>

RemoteDisconnect ==
    /\ commands < MaxCommands
    /\ commands' = commands + 1
    /\ pending' = pending + 1
    /\ UNCHANGED <<queueVars, connected, inHub, stage, actor, direct, register,
                   hubRun, removing, remote, visit, nodeVars>>

\* the goroutine of the command takes RLock and keeps it
RemoteLock ==
    /\ remote = "wait"
    /\ CanRLock
    /\ remote' = "loop" /\ visit' = inHub
    /\ UNCHANGED <<queueVars, connected, inHub, stage, actor, direct, commands, register,
                   hubRun, removing, pending, nodeVars>>

\* the session it has called DisconnectWithMessage on, if the call is running
RemoteBusy == \E s \in Sessions : actor[s] = "remote" /\ ~Returned(s)

RemoteVisit(s) ==
    /\ remote = "loop" /\ s \in visit /\ ~RemoteBusy
    /\ visit' = visit \ {s}
    /\ \/ Leave(s, "remote")
       \/ s \notin connected /\ UNCHANGED <<connected, stage, actor>>
    /\ UNCHANGED <<queueVars, inHub, direct, commands, register, hubRun, removing,
                   pending, remote, nodeVars>>

RemoteUnlock ==
    /\ remote = "loop" /\ visit = {} /\ ~RemoteBusy
    /\ remote' = "idle"
    /\ UNCHANGED <<queueVars, connected, inHub, stage, actor, direct, commands, register,
                   hubRun, removing, pending, visit, nodeVars>>

-----------------------------------------------------------------------------
(* Node.Shutdown.                                                          *)

ShutdownBegin ==
    /\ main = "idle" /\ NodeMayStop
    /\ closed' = TRUE
    /\ main' = "size"
    /\ UNCHANGED <<queueVars, connected, inHub, stage, actor, direct, commands, hubVars, task>>

\* hub.Size(), under RLock
ShutdownSize ==
    /\ main = "size"
    /\ CanRLock
    /\ main' = IF inHub = {} THEN "hub" ELSE "sessions"
    /\ UNCHANGED <<queueVars, connected, inHub, stage, actor, direct, commands, hubVars,
                   closed, task>>

\* disconnectAll: hub.Sessions(), under RLock; wg.Add
DisconnectAll ==
    /\ main = "sessions"
    /\ CanRLock
    /\ task' = [s \in Sessions |-> IF s \in inHub THEN "todo" ELSE "none"]
    /\ main' = "wait"
    /\ UNCHANGED <<queueVars, connected, inHub, stage, actor, direct, commands, hubVars, closed>>

TasksIn(states) == {s \in Sessions : task[s] \in states}

\* pool.Schedule, which waits for room in the pool and in its queue of one
Schedule(s) ==
    /\ main = "wait" /\ task[s] = "todo"
    /\ Cardinality(TasksIn({"scheduled", "running"})) <= PoolSize
    /\ task' = [task EXCEPT ![s] = "scheduled"]
    /\ UNCHANGED <<queueVars, connected, inHub, stage, actor, direct, commands, hubVars,
                   main, closed>>

\* a worker runs the task; with an expired context it does not even call
\* wg.Done
TaskStart(s) ==
    /\ task[s] = "scheduled"
    /\ Cardinality(TasksIn({"running"})) < PoolSize
    /\ \/ /\ expired
          /\ task' = [task EXCEPT ![s] = "skipped"]
          /\ UNCHANGED <<connected, stage, actor>>
       \/ /\ ~expired /\ Leave(s, "task")
          /\ task' = [task EXCEPT ![s] = "running"]
       \/ /\ ~expired /\ s \notin connected
          /\ task' = [task EXCEPT ![s] = "done"]
          /\ UNCHANGED <<connected, stage, actor>>
    /\ UNCHANGED <<queueVars, inHub, direct, commands, hubVars, main, closed>>

TaskDone(s) ==
    /\ task[s] = "running" /\ Returned(s)
    /\ task' = [task EXCEPT ![s] = "done"]
    /\ UNCHANGED <<queueVars, connected, inHub, stage, actor, direct, commands, hubVars,
                   main, closed>>

\* mutant: only the tasks are waited for
AllDisconnected_NoDeadline ==
    /\ main = "wait"
    /\ TasksIn({"todo", "scheduled", "running", "skipped"}) = {}
    /\ main' = "hub"
    /\ UNCHANGED <<queueVars, connected, inHub, stage, actor, direct, commands, hubVars,
                   closed, task>>

\* all tasks are done, or the context is (once all of them are scheduled)
AllDisconnected ==
    /\ main = "wait"
    /\ TasksIn({"todo"}) = {}
    /\ TasksIn({"scheduled", "running", "skipped"}) = {} \/ expired
    /\ main' = "hub"
    /\ UNCHANGED <<queueVars, connected, inHub, stage, actor, direct, commands, hubVars,
                   closed, task>>

\* hub.Shutdown: an unbuffered send, received by Run in its select
HubShutdown ==
    /\ main = "hub" /\ hubRun = "select"
    /\ hubRun' = "stopped"
    /\ main' = "queue"
    /\ shut' = "stop"
    /\ UNCHANGED <<enq, queue, isStopped, token, runner, current, expired,
                   gaveUp, promised, called, connected, inHub, stage, actor,
                   direct, commands, register, removing, pending, remote, visit, closed, task>>

\* disconnector.Shutdown has returned; the controller is shut down
ShutdownEnd ==
    /\ main = "queue" /\ shut = "done"
    /\ main' = "done"
    /\ UNCHANGED <<queueVars, connected, inHub, stage, actor, direct, commands, hubVars,
                   closed, task>>

-----------------------------------------------------------------------------

DisconnectStep(s) ==
    \/ CheckShuttingDown(s) \/ RemoveSessionLater(s) \/ RemoveSessionCheck(s)
    \/ RemoveSession(s) \/ DisconnectNow(s)

Run == RunRegister \/ RunRemoveCheck \/ RunRemove \/ RunDisconnect

Remote == RemoteLock \/ RemoteUnlock \/ \E s \in Sessions : RemoteVisit(s)

Main ==
    \/ ShutdownSize \/ DisconnectAll \/ AllDisconnected \/ HubShutdown \/ ShutdownEnd
    \/ \E s \in Sessions : Schedule(s)

Queue == QueueSteps /\ UNCHANGED <<connected, inHub, stage, actor, direct, commands,
                                   hubVars, nodeVars>>

Timeout == Deadline /\ closed /\ UNCHANGED <<connected, inHub, stage, actor,
                                             direct, commands, hubVars, nodeVars>>

Next ==
    \/ \E s \in Sessions : ClientLeaves(s) \/ DisconnectStep(s) \/ TaskStart(s) \/ TaskDone(s)
    \/ Run
    \/ RemoteDisconnect
    \/ Remote
    \/ ShutdownBegin
    \/ Main
    \/ Queue
    \/ Timeout

Spec == Init /\ [][Next]_vars

\* Every goroutine is scheduled and the context of the shutdown expires.  The
\* sessions, and so the waits for a channel or a lock, are finite in number:
\* weak fairness is enough.
Fairness ==
    /\ \A s \in Sessions : WF_vars(DisconnectStep(s)) /\ WF_vars(TaskStart(s) \/ TaskDone(s))
    /\ WF_vars(Run) /\ WF_vars(Remote) /\ WF_vars(Main) /\ WF_vars(Queue) /\ WF_vars(Timeout)

FairSpec == Spec /\ Fairness

-----------------------------------------------------------------------------

\* Every variable keeps its type, those of the queue included, and the channels
\* keep their capacities.
TypeOK ==
    /\ QueueTypeOK
    /\ connected \subseteq Sessions /\ inHub \subseteq Sessions /\ visit \subseteq Sessions
    /\ stage \in [Sessions -> {"on", "leaving", "later", "check", "remove", "call", "gone"}]
    /\ actor \in [Sessions -> {"self", "task", "remote"}] /\ direct \in [Sessions -> Nat]
    /\ register \in Seq(Sessions) /\ Len(register) <= RegisterCap
    /\ hubRun \in {"select", "check", "remove", "stopped"}
    /\ removing \in Sessions \cup {NoSession}
    /\ commands \in Nat /\ pending \in Nat
    /\ remote \in {"idle", "wait", "loop"}
    /\ main \in {"idle", "size", "sessions", "wait", "hub", "queue", "done"}
    /\ closed \in BOOLEAN
    /\ task \in [Sessions -> {"none", "todo", "scheduled", "running", "done", "skipped"}]

\* The node uses the disconnect queue the way the queue is meant to be used:
\* what the sessions and Node.Shutdown do to it is a behaviour of QueueSpec,
\* with at most one Enqueue per session and one Shutdown.
ImplementsQueue == QueueSpec

\* A session gets at most one Disconnect call, from Run or Shutdown of the
\* queue or from Node.Disconnect itself, although n.IsShuttingDown is read
\* before the session is handed to one of them.
NotifiedOnce == \A s \in Sessions : called[s] + direct[s] <= 1

\* A Shutdown that beats its deadline leaves no session connected, and every
\* session it disconnected itself has had its Disconnect call: disconnectAll
\* waits for the calls and not only for the sessions.
ActiveSessionsNotified ==
    main = "done" /\ ~expired =>
        /\ connected = {}
        /\ \A s \in Disconnectable :
               task[s] = "done" /\ actor[s] = "task" => called[s] + direct[s] = 1

\* The Disconnect calls of a node: at most one for a session, all of those its
\* queue had accepted when Shutdown of the queue returns in time, and those of
\* the sessions the shutdown itself disconnected when it returns in time.
CallsAccounted == NotifiedOnce /\ DrainedOnReturn /\ ActiveSessionsNotified

\* A session that is no longer connected and whose Node.Disconnect call has
\* returned is out of the hub, or Run has still to take it out.
LeftMeansRemoved ==
    \A s \in Sessions :
        stage[s] = "gone" /\ s \in inHub =>
            \/ \E i \in 1..Len(register) : register[i] = s
            \/ hubRun \in {"check", "remove"} /\ removing = s

\* A remote command keeps h.mu for ever (see CommandCompletes).
CommandStuck == <>[](remote = "loop")

\* Node.Disconnect returns although it waits for room in h.register and in the
\* disconnect queue, as long as Run is there to make room and no remote
\* command keeps h.mu.
DisconnectReturns ==
    \/ CommandStuck
    \/ \A s \in Sessions : (stage[s] = "leaving") ~> (Returned(s) \/ hubRun = "stopped")

\* A shutdown ends, whether or not its context expires while the node waits
\* for the Disconnect calls, unless a remote command keeps h.mu.
ShutdownEnds == CommandStuck \/ (closed ~> (main = "done"))

\* Neither a Disconnect nor the shutdown is left waiting for a full queue.
ShutdownProgress == DisconnectReturns /\ ShutdownEnds

\* A remote disconnect command gets through all the sessions of its identifier
\* and releases h.mu.
CommandCompletes == (remote = "loop") ~> (remote = "idle")

\* A shutdown ends: the context bounds the time the node waits for the
\* Disconnect calls.
ShutdownCompletes == closed ~> (main = "done")
=============================================================================
