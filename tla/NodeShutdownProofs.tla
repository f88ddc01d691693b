------------------------- MODULE NodeShutdownProofs -------------------------
(***************************************************************************)
(* Proofs about DisconnectQueue and NodeShutdown, for any set of sessions, *)
(* any backlog and all capacities.                                         *)
(*                                                                         *)
(* Of the queue: CalledOnce and DrainedOnReturn both follow from where a   *)
(* session can be: Place(s) says that a session enqueued is in exactly one *)
(* of three places (the channel, Run's hand, or called), and Drained that  *)
(* a Shutdown in time returns with none of the promised sessions in the    *)
(* channel.                                                                *)
(*                                                                         *)
(* Of the node: it uses the queue as QueueSpec says, so that the theorems  *)
(* about the queue hold of the node.  The invariant ties the stage of a    *)
(* Node.Disconnect call to the three places the call may have touched by   *)
(* then: the queue, the application and the hub.  A second one ties it to  *)
(* the task of the shutdown that made the call, and the stage of the       *)
(* shutdown to the sessions still connected.                               *)
(***************************************************************************)
EXTENDS NodeShutdown, TLAPS

\* the session is in the channel
Waiting(s) == \E i \in 1..Len(queue) : queue[i] = s

\* where the session s can be
Place(s) ==
    /\ called[s] \in {0, 1}
    /\ enq[s] # "done" => called[s] = 0 /\ current # s /\ ~Waiting(s)
    /\ enq[s] = "done" => called[s] = 1 \/ current = s \/ Waiting(s)
    /\ called[s] = 1 => current # s /\ ~Waiting(s)
    /\ current = s => ~Waiting(s)

\* no session is in the channel twice
Distinct == \A i, j \in 1..Len(queue) : queue[i] = queue[j] => i = j

\* the sessions promised a call are enqueued, and gone from the channel once
\* Shutdown has returned in time
Drained ==
    /\ \A s \in promised : enq[s] = "done"
    /\ shut = "done" /\ ~gaveUp => \A s \in promised : ~Waiting(s)

\* the inductive invariant of the queue
IInv == QueueTypeOK /\ Distinct /\ Drained /\ \A s \in Sessions : Place(s)

-----------------------------------------------------------------------------

\* The initial state of NewDisconnectQueue satisfies the invariant.
LEMMA InitInv == QueueInit => IInv
  <1> SUFFICES ASSUME QueueInit PROVE IInv
    BY Zenon
  <1> USE QueueAssumption DEF QueueInit
  <1>1. QueueTypeOK
    <2>1. enq \in [Sessions -> {"idle", "check", "send", "done", "refused"}]
      BY Zenon
    <2>2. called \in [Sessions -> Nat]
      BY Zenon
    <2>3. queue \in Seq(Sessions) /\ Len(queue) <= Backlog
      OBVIOUS
    <2>4. current # NoSession <=> runner = "throttle"
      BY Zenon
    <2> QED
      BY <2>1, <2>2, <2>3, <2>4, Zenon DEF QueueTypeOK
  <1>2. Distinct /\ Drained /\ \A s \in Sessions : Place(s)
    BY DEF Distinct, Drained, Place, Waiting
  <1> QED
    BY <1>1, <1>2, Zenon DEF IInv

\* Receiving from the channel (by Run or by Shutdown) takes exactly the session
\* at its head out of it.
LEMMA TakeHead ==
    ASSUME IInv, queue # <<>>, queue' = Tail(queue)
    PROVE  /\ Head(queue) \in Sessions
           /\ queue' \in Seq(Sessions) /\ Len(queue') <= Backlog
           /\ Distinct'
           /\ Waiting(Head(queue))
           /\ \A s \in Sessions : Waiting(s)' <=> Waiting(s) /\ s # Head(queue)
  <1> USE DEF IInv, QueueTypeOK
  <1>1. /\ Head(queue) = queue[1] /\ Len(queue) \in Nat /\ Len(queue) >= 1
        /\ Len(queue') = Len(queue) - 1
        /\ \A i \in 1..Len(queue') : queue'[i] = queue[i + 1]
    OBVIOUS
  <1>2. Head(queue) \in Sessions /\ queue' \in Seq(Sessions) /\ Len(queue') <= Backlog
    BY QueueAssumption, <1>1
  <1>3. Distinct'
    BY <1>1 DEF Distinct
  <1>4. Waiting(Head(queue))
    BY <1>1 DEF Waiting
  <1>5. ASSUME NEW s \in Sessions PROVE Waiting(s)' <=> Waiting(s) /\ s # Head(queue)
    <2>1. ASSUME Waiting(s)' PROVE Waiting(s) /\ s # Head(queue)
      <3>1. PICK i \in 1..Len(queue') : queue'[i] = s
        BY <2>1, Zenon DEF Waiting
      <3>2. i + 1 \in 1..Len(queue) /\ queue[i + 1] = s /\ i + 1 # 1
        BY <1>1, <3>1
      <3> QED
        BY <1>1, <3>2 DEF Waiting, Distinct
    <2>2. ASSUME Waiting(s), s # Head(queue) PROVE Waiting(s)'
      <3>1. PICK i \in 1..Len(queue) : queue[i] = s
        BY <2>2, Zenon DEF Waiting
      <3>2. i # 1
        BY <1>1, <2>2, <3>1, Zenon
      <3>3. i - 1 \in 1..Len(queue') /\ queue'[i - 1] = s
        BY <1>1, <3>1, <3>2
      <3> QED
        BY <3>3, Zenon DEF Waiting
    <2> QED
      BY <2>1, <2>2, Zenon
  <1> QED
    BY <1>2, <1>3, <1>4, <1>5, Zenon

\* Enqueue's send puts a session at the end of the channel.
LEMMA PutLast ==
    ASSUME IInv, NEW x \in Sessions, ~Waiting(x), Len(queue) < Backlog,
           queue' = Append(queue, x)
    PROVE  /\ queue' \in Seq(Sessions) /\ Len(queue') <= Backlog
           /\ Distinct'
           /\ \A s \in Sessions : Waiting(s)' <=> Waiting(s) \/ s = x
  <1> USE DEF IInv, QueueTypeOK
  <1>1. /\ Len(queue) \in Nat /\ Len(queue') = Len(queue) + 1
        /\ \A i \in 1..Len(queue) : queue'[i] = queue[i]
        /\ queue'[Len(queue) + 1] = x
    OBVIOUS
  <1>2. queue' \in Seq(Sessions) /\ Len(queue') <= Backlog
    BY QueueAssumption, <1>1
  <1>3. Distinct'
    BY <1>1 DEF Distinct, Waiting
  <1>4. \A s \in Sessions : Waiting(s)' <=> Waiting(s) \/ s = x
    BY <1>1 DEF Waiting
  <1> QED
    BY <1>2, <1>3, <1>4, Zenon

-----------------------------------------------------------------------------
(* One lemma per group of actions.                                         *)

\* Enqueue keeps the invariant: the session it sends was nowhere before.
LEMMA EnqueueInv ==
    ASSUME IInv, NEW s \in Sessions, EnqueueCheck(s) \/ EnqueueSend(s) \/ CallEnqueue(s)
    PROVE  IInv'
  <1>1. CASE EnqueueCheck(s) \/ CallEnqueue(s)
    <2> USE <1>1 DEF EnqueueCheck, CallEnqueue
    <2>1. enq' \in [Sessions -> {"idle", "check", "send", "done", "refused"}]
      BY Zenon DEF IInv, QueueTypeOK
    <2>2. QueueTypeOK'
      BY <2>1, ZenonT(60) DEF IInv, QueueTypeOK
    <2>3. \A t \in Sessions : Waiting(t)' <=> Waiting(t)
      BY Zenon DEF Waiting
    <2>4. \A t \in Sessions : enq'[t] = "done" <=> enq[t] = "done"
      BY Zenon DEF IInv, QueueTypeOK
    <2>5. \A t \in Sessions : Place(t)'
      BY <2>3, <2>4, ZenonT(60) DEF IInv, Place
    <2>6. Distinct' /\ Drained'
      BY <2>3, <2>4 DEF IInv, QueueTypeOK, Distinct, Drained
    <2> QED
      BY <2>2, <2>5, <2>6, Zenon DEF IInv
  <1>2. CASE EnqueueSend(s)
    <2> USE <1>2 DEF EnqueueSend
    <2>1. enq' \in [Sessions -> {"idle", "check", "send", "done", "refused"}]
      BY Zenon DEF IInv, QueueTypeOK
    <2>2. enq[s] # "done" /\ called[s] = 0 /\ current # s /\ ~Waiting(s)
      BY Zenon DEF IInv, Place
    <2>3. /\ queue' \in Seq(Sessions) /\ Len(queue') <= Backlog /\ Distinct'
          /\ \A t \in Sessions : Waiting(t)' <=> Waiting(t) \/ t = s
      BY <2>2, PutLast, Zenon
    <2>4. QueueTypeOK'
      BY <2>1, <2>3, Zenon DEF IInv, QueueTypeOK
    <2>5. enq'[s] = "done" /\ \A t \in Sessions : t # s => enq'[t] = enq[t]
      BY Zenon DEF IInv, QueueTypeOK
    <2>6. \A t \in Sessions : Place(t)'
      BY <2>2, <2>3, <2>5 DEF IInv, Place
    <2>7. Drained'
      BY <2>2, <2>3, <2>5, Zenon DEF IInv, QueueTypeOK, Drained
    <2> QED
      BY <2>3, <2>4, <2>6, <2>7, Zenon DEF IInv
  <1> QED
    BY <1>1, <1>2, Zenon

\* Run moves a session from the channel to its hand and then calls it.
LEMMA RunInv == ASSUME IInv, RunTake \/ RunCall \/ RunStop PROVE IInv'
  <1>1. CASE RunTake
    <2> USE <1>1 DEF RunTake
    <2>1. /\ Head(queue) \in Sessions /\ queue' \in Seq(Sessions)
          /\ Len(queue') <= Backlog /\ Distinct' /\ Waiting(Head(queue))
          /\ \A t \in Sessions : Waiting(t)' <=> Waiting(t) /\ t # Head(queue)
      BY TakeHead, Zenon
    <2>2. QueueTypeOK' /\ current = NoSession
      BY <2>1, QueueAssumption, Zenon DEF IInv, QueueTypeOK
    <2>3. \A t \in Sessions : Place(t)'
      BY <2>1, <2>2, QueueAssumption, Zenon DEF IInv, Place
    <2>4. Drained'
      BY <2>1, Zenon DEF IInv, QueueTypeOK, Drained
    <2> QED
      BY <2>1, <2>2, <2>3, <2>4, Zenon DEF IInv
  <1>2. CASE RunCall
    <2> USE <1>2 DEF RunCall
    <2>1. current \in Sessions /\ current' = NoSession
      BY Zenon DEF IInv, QueueTypeOK
    <2>2. called' \in [Sessions -> Nat]
      BY <2>1 DEF IInv, QueueTypeOK
    <2>3. QueueTypeOK'
      BY <2>2, Zenon DEF IInv, QueueTypeOK
    <2>4. /\ called[current] = 0 /\ called'[current] = 1
          /\ \A t \in Sessions : t # current => called'[t] = called[t]
      BY <2>1 DEF IInv, QueueTypeOK, Place
    <2>5. \A t \in Sessions : Waiting(t)' <=> Waiting(t)
      BY Zenon DEF Waiting
    <2>6. \A t \in Sessions : Place(t)'
      BY <2>1, <2>4, <2>5, QueueAssumption, Zenon DEF IInv, Place
    <2>7. Distinct' /\ Drained'
      BY <2>5, Zenon DEF IInv, QueueTypeOK, Distinct, Drained
    <2> QED
      BY <2>3, <2>6, <2>7, Zenon DEF IInv
  <1>3. CASE RunStop
    <2> USE <1>3 DEF RunStop
    <2>1. QueueTypeOK'
      BY Zenon DEF IInv, QueueTypeOK
    <2>2. Distinct' /\ Drained' /\ \A t \in Sessions : Place(t)'
      BY DEF IInv, Distinct, Drained, Place, Waiting
    <2> QED
      BY <2>1, <2>2, Zenon DEF IInv
  <1> QED
    BY <1>1, <1>2, <1>3, Zenon

\* Shutdown takes sessions from the channel too, and returns in time only when
\* it has seen the channel empty.
LEMMA ShutdownInv ==
    ASSUME IInv,
           \/ CallShutdown \/ ShutdownStop \/ ShutdownCount
           \/ DrainTake \/ DrainEnd \/ Deadline
    PROVE  IInv'
  <1>1. CASE DrainTake
    <2> USE <1>1 DEF DrainTake
    <2> DEFINE h == Head(queue)
    <2>1. /\ h \in Sessions /\ queue' \in Seq(Sessions)
          /\ Len(queue') <= Backlog /\ Distinct' /\ Waiting(h)
          /\ \A t \in Sessions : Waiting(t)' <=> Waiting(t) /\ t # h
      BY TakeHead, Zenon
    <2>2. called' \in [Sessions -> Nat]
      BY <2>1 DEF IInv, QueueTypeOK
    <2>3. QueueTypeOK'
      BY <2>1, <2>2, Zenon DEF IInv, QueueTypeOK
    <2>4. /\ called[h] = 0 /\ called'[h] = 1 /\ current # h
          /\ \A t \in Sessions : t # h => called'[t] = called[t]
      BY <2>1 DEF IInv, QueueTypeOK, Place
    <2> HIDE DEF h
    <2>5. \A t \in Sessions : Place(t)'
      BY <2>1, <2>4, Zenon DEF IInv, Place
    <2>6. Drained'
      BY <2>1, Zenon DEF IInv, QueueTypeOK, Drained
    <2> QED
      BY <2>1, <2>3, <2>5, <2>6, Zenon DEF IInv
  <1>2. CASE CallShutdown \/ ShutdownStop \/ ShutdownCount \/ DrainEnd \/ Deadline
    <2> USE <1>2 DEF CallShutdown, ShutdownStop, ShutdownCount, DrainEnd, Deadline
    <2>1. QueueTypeOK'
      BY ZenonT(60) DEF IInv, QueueTypeOK
    <2>2. /\ \A t \in Sessions : Waiting(t)' <=> Waiting(t)
          /\ queue = <<>> => \A t \in Sessions : ~Waiting(t)
      BY DEF Waiting
    <2>3. Distinct' /\ \A t \in Sessions : Place(t)'
      BY <2>2, Zenon DEF IInv, Distinct, Place
    <2>4. Drained'
      BY <2>2, Zenon DEF IInv, QueueTypeOK, Drained
    <2> QED
      BY <2>1, <2>3, <2>4, Zenon DEF IInv
  <1> QED
    BY <1>1, <1>2, Zenon

\* Every step of the queue keeps the invariant.
LEMMA NextInv == IInv /\ [QueueNext]_queueVars => IInv'
  <1> SUFFICES ASSUME IInv, [QueueNext]_queueVars PROVE IInv'
    BY Zenon
  <1>1. CASE QueueNext
    BY <1>1, EnqueueInv, RunInv, ShutdownInv, Zenon DEF QueueNext, QueueSteps
  <1>2. CASE UNCHANGED queueVars
    BY <1>2 DEF queueVars, IInv, QueueTypeOK, Distinct, Drained, Place, Waiting
  <1> QED
    BY <1>1, <1>2, Zenon

\* The queue always satisfies the invariant.
THEOREM QueueInvariant == QueueSpec => []IInv
  BY InitInv, NextInv, PTL DEF QueueSpec

\* The variables of the queue keep their types, and d.disconnect its capacity.
THEOREM QueueTypeCorrect == QueueSpec => []QueueTypeOK
  <1>1. IInv => QueueTypeOK
    BY Zenon DEF IInv
  <1> QED
    BY <1>1, QueueInvariant, PTL

\* No session gets a second Disconnect call.
THEOREM NobodyCalledTwice == QueueSpec => []CalledOnce
  <1>1. IInv => CalledOnce
    BY DEF IInv, Place, CalledOnce
  <1> QED
    BY <1>1, QueueInvariant, PTL

\* A Shutdown that returns in time has left no session out that was enqueued
\* before it.
THEOREM ShutdownDrains == QueueSpec => []DrainedOnReturn
  <1>1. IInv => DrainedOnReturn
    BY Zenon DEF IInv, QueueTypeOK, Place, Drained, DrainedOnReturn
  <1> QED
    BY <1>1, QueueInvariant, PTL

-----------------------------------------------------------------------------

\* the stages of Node.Disconnect
Stages == {"on", "leaving", "later", "check", "remove", "call", "gone"}

\* the types that the invariant needs
NodeTypes ==
    /\ enq \in [Sessions -> {"idle", "check", "send", "done", "refused"}]
    /\ stage \in [Sessions -> Stages]
    /\ direct \in [Sessions -> Nat]
    /\ register \in Seq(Sessions)

\* Run has still to take the session out of the hub
Registered(s) ==
    \/ \E i \in 1..Len(register) : register[i] = s
    \/ hubRun \in {"check", "remove"} /\ removing = s

\* what the stage of a session says of the queue and of its Disconnect call
Calls(s) ==
    /\ s \in connected => stage[s] = "on"
    /\ stage[s] # "gone" => enq[s] = "idle" /\ direct[s] = 0
    /\ direct[s] \in {0, 1}
    /\ direct[s] = 1 => enq[s] = "idle"

\* what it says of the hub
Removal(s) ==
    /\ stage[s] = "call" => s \notin inHub
    /\ stage[s] = "gone" /\ s \in inHub => Registered(s)

\* the queue is shut down after the hub
QueueIsLast == main \notin {"queue", "done"} => shut = "idle"

\* the inductive invariant of the node
NodeInv ==
    NodeTypes /\ QueueIsLast /\ \A s \in Sessions : Calls(s) /\ Removal(s)

-----------------------------------------------------------------------------

\* The initial state of the node satisfies the invariant.
LEMMA NodeInitInv == Init => NodeInv /\ QueueInit
  <1> SUFFICES ASSUME Init PROVE NodeInv
    BY Zenon DEF Init
  <1> USE DEF Init, QueueInit
  <1>1. NodeTypes
    BY DEF NodeTypes, Stages
  <1>2. QueueIsLast /\ \A s \in Sessions : Calls(s) /\ Removal(s)
    BY Zenon DEF QueueIsLast, Calls, Removal
  <1> QED BY <1>1, <1>2, Zenon DEF NodeInv

\* A step that changes none of this keeps the invariant.
LEMMA UntouchedInv ==
    ASSUME NodeInv,
           UNCHANGED <<enq, stage, direct, register, connected, inHub, hubRun,
                       removing, main, shut>>
    PROVE  NodeInv'
  BY Zenon DEF NodeInv, NodeTypes, QueueIsLast, Calls, Removal, Registered

\* disconnectFromNode starts Node.Disconnect for a connected session.
LEMMA LeaveInv ==
    ASSUME NodeInv, NEW s \in Sessions, NEW who,
           Leave(s, who) \/ UNCHANGED <<connected, stage, actor>>,
           UNCHANGED <<enq, direct, register, inHub, hubRun, removing, main, shut>>
    PROVE  NodeInv'
  <1>1. CASE UNCHANGED <<connected, stage, actor>>
    BY <1>1, UntouchedInv, Zenon
  <1>2. CASE Leave(s, who)
    <2>1. stage[s] = "on" /\ stage' = [stage EXCEPT ![s] = "leaving"] /\ connected' = connected \ {s}
      BY <1>2, Zenon DEF Leave, NodeInv, Calls
    <2>2. NodeTypes' /\ QueueIsLast'
      BY <2>1, Zenon DEF NodeInv, NodeTypes, Stages, QueueIsLast
    <2>3. ASSUME NEW t \in Sessions PROVE Calls(t)' /\ Removal(t)'
      <3>1. stage'[t] = IF t = s THEN "leaving" ELSE stage[t]
        BY <2>1, Zenon DEF NodeInv, NodeTypes
      <3>2. Registered(t)' <=> Registered(t)
        BY Zenon DEF Registered
      <3> QED BY <2>1, <3>1, <3>2 DEF NodeInv, Calls, Removal
    <2> QED BY <2>2, <2>3, Zenon DEF NodeInv
  <1> QED BY <1>1, <1>2, Zenon

\* The steps of Node.Disconnect after that.
LEMMA DisconnectStepInv ==
    ASSUME NodeInv, NEW s \in Sessions, DisconnectStep(s)
    PROVE  NodeInv' /\ (UNCHANGED queueVars \/ CallEnqueue(s))
  <1> USE DEF NodeInv
  <1>0. ASSUME NEW st \in Stages, stage' = [stage EXCEPT ![s] = st]
        PROVE  /\ stage' \in [Sessions -> Stages]
               /\ stage'[s] = st /\ \A t \in Sessions : t # s => stage'[t] = stage[t]
    BY <1>0, Zenon DEF NodeTypes
  <1>1. CASE CheckShuttingDown(s)
    <2> DEFINE st == IF closed THEN "check" ELSE "later"
    <2>1. stage[s] = "leaving" /\ stage' = [stage EXCEPT ![s] = st] /\ st \in {"check", "later"}
      BY <1>1, Zenon DEF CheckShuttingDown
    <2> HIDE DEF st
    <2>2. /\ stage' \in [Sessions -> Stages] /\ stage'[s] = st
          /\ \A t \in Sessions : t # s => stage'[t] = stage[t]
      BY <2>1, <1>0, Zenon DEF Stages
    <2>3. UNCHANGED <<queueVars, connected, inHub, direct, register, hubRun, removing, main>>
      BY <1>1, Zenon DEF CheckShuttingDown, hubVars, nodeVars
    <2>4. NodeTypes' /\ QueueIsLast'
      BY <2>2, <2>3, Zenon DEF NodeTypes, QueueIsLast, queueVars
    <2>5. ASSUME NEW t \in Sessions PROVE Calls(t)' /\ Removal(t)'
      BY <2>1, <2>2, <2>3, Zenon DEF Calls, Removal, Registered, queueVars
    <2> QED BY <2>3, <2>4, <2>5, Zenon
  <1>2. CASE RemoveSessionLater(s)
    <2>1. /\ stage[s] = "later" /\ stage' = [stage EXCEPT ![s] = "gone"]
          /\ register' = Append(register, s)
          /\ enq' = IF s \in Disconnectable THEN [enq EXCEPT ![s] = "check"] ELSE enq
          /\ UNCHANGED <<queue, isStopped, token, runner, current, shut, expired, gaveUp,
                         promised, called, connected, inHub, direct, hubRun, removing, main>>
      BY <1>2, Zenon DEF RemoveSessionLater, nodeVars
    <2>2. /\ stage' \in [Sessions -> Stages] /\ stage'[s] = "gone"
          /\ \A t \in Sessions : t # s => stage'[t] = stage[t]
      BY <2>1, <1>0, Zenon DEF Stages
    <2>3. enq[s] = "idle" /\ direct[s] = 0 /\ s \notin connected
      BY <2>1, Zenon DEF Calls
    <2>4. /\ enq' \in [Sessions -> {"idle", "check", "send", "done", "refused"}]
          /\ \A t \in Sessions : t # s => enq'[t] = enq[t]
      BY <2>1, Zenon DEF NodeTypes
    <2>5. /\ register' \in Seq(Sessions) /\ Len(register) \in Nat
          /\ Len(register') = Len(register) + 1 /\ register'[Len(register) + 1] = s
          /\ \A i \in 1..Len(register) : register'[i] = register[i]
      BY <2>1 DEF NodeTypes
    <2>6. Registered(s)' /\ \A t \in Sessions : Registered(t) => Registered(t)'
      BY <2>1, <2>5 DEF Registered
    <2>7. NodeTypes' /\ QueueIsLast'
      BY <2>1, <2>2, <2>4, <2>5, Zenon DEF NodeTypes, QueueIsLast
    <2>8. ASSUME NEW t \in Sessions PROVE Calls(t)' /\ Removal(t)'
      BY <2>1, <2>2, <2>3, <2>4, <2>6 DEF Calls, Removal
    <2>9. UNCHANGED queueVars \/ CallEnqueue(s)
      BY <2>1, <2>3, Zenon DEF queueVars, CallEnqueue
    <2> QED BY <2>7, <2>8, <2>9, Zenon
  <1>3. CASE RemoveSessionCheck(s) \/ RemoveSession(s) \/ DisconnectNow(s)
    <2>1. PICK st \in {"remove", "call", "gone"} :
              /\ stage' = [stage EXCEPT ![s] = st]
              /\ st \in {"call", "gone"} => s \notin inHub'
      BY <1>3, Zenon DEF RemoveSessionCheck, RemoveSession, DisconnectNow, AfterRemove, Removal
    <2>2. /\ stage' \in [Sessions -> Stages] /\ stage'[s] = st
          /\ \A t \in Sessions : t # s => stage'[t] = stage[t]
      BY <2>1, <1>0, Zenon DEF Stages
    <2>3. /\ stage[s] \in {"check", "remove", "call"} /\ inHub' \subseteq inHub
          /\ UNCHANGED <<queueVars, connected, register, hubRun, removing, main>>
      BY <1>3, Zenon DEF RemoveSessionCheck, RemoveSession, DisconnectNow, hubVars, nodeVars
    <2>4. direct[s] = 0 /\ enq[s] = "idle" /\ s \notin connected
      BY <2>3, Zenon DEF Calls
    <2>5. /\ direct' \in [Sessions -> Nat] /\ \A t \in Sessions : t # s => direct'[t] = direct[t]
          /\ direct'[s] \in {0, 1} /\ (st # "gone" => direct'[s] = 0)
      <3>1. CASE DisconnectNow(s)
        <4>1. direct' = [direct EXCEPT ![s] = @ + 1] /\ stage' = [stage EXCEPT ![s] = "gone"]
          BY <3>1, Zenon DEF DisconnectNow
        <4>2. st = "gone"
          BY <4>1, <2>2, Zenon DEF NodeTypes
        <4> QED BY <4>1, <4>2, <2>4 DEF NodeTypes
      <3>2. CASE RemoveSessionCheck(s) \/ RemoveSession(s)
        BY <3>2, <2>4, Zenon DEF RemoveSessionCheck, RemoveSession, NodeTypes
      <3> QED BY <1>3, <3>1, <3>2, Zenon
    <2>6. NodeTypes' /\ QueueIsLast'
      BY <2>2, <2>3, <2>5, Zenon DEF NodeTypes, QueueIsLast, queueVars
    <2>7. ASSUME NEW t \in Sessions PROVE Calls(t)' /\ Removal(t)'
      <3>1. Registered(t)' <=> Registered(t)
        BY <2>3, Zenon DEF Registered
      <3>2. UNCHANGED enq
        BY <2>3, Zenon DEF queueVars
      <3> QED BY <2>1, <2>2, <2>3, <2>4, <2>5, <3>1, <3>2 DEF Calls, Removal
    <2> QED BY <2>3, <2>6, <2>7, Zenon
  <1> QED BY <1>1, <1>2, <1>3, Zenon DEF DisconnectStep

\* Hub.Run takes a session from h.register and then out of the hub.
LEMMA HubRunInv == ASSUME NodeInv, Run PROVE NodeInv' /\ UNCHANGED queueVars
  <1> USE DEF NodeInv
  <1>1. UNCHANGED <<queueVars, connected, stage, direct, main>>
    BY Zenon DEF Run, RunRegister, RunRemoveCheck, RunRemove, RunDisconnect, nodeVars
  <1>2. register' \in Seq(Sessions)
    <2>1. \/ register # <<>> /\ register' = Tail(register)
          \/ register' = register
      BY Zenon DEF Run, RunRegister, RunRemoveCheck, RunRemove, RunDisconnect
    <2>2. register \in Seq(Sessions)
      BY Zenon DEF NodeTypes
    <2>3. CASE register # <<>> /\ register' = Tail(register)
      BY <2>2, <2>3
    <2> QED BY <2>1, <2>2, <2>3, Zenon
  <1>3. ASSUME NEW s \in Sessions
        PROVE  s \in inHub' => s \in inHub /\ (Registered(s) => Registered(s)')
    <2>1. CASE RunRegister
      <3>1. /\ register # <<>> /\ removing' = Head(register) /\ register' = Tail(register)
            /\ hubRun = "select" /\ hubRun' = "check" /\ inHub' = inHub
        BY <2>1, Zenon DEF RunRegister
      <3>2. /\ Len(register) \in Nat /\ Len(register) >= 1 /\ Head(register) = register[1]
            /\ Len(register') = Len(register) - 1
            /\ \A i \in 1..Len(register') : register'[i] = register[i + 1]
        BY <3>1 DEF NodeTypes
      <3>3. ASSUME Registered(s) PROVE Registered(s)'
        <4>1. PICK i \in 1..Len(register) : register[i] = s
          BY <3>1, <3>3, Zenon DEF Registered
        <4>2. CASE i = 1
          BY <3>1, <3>2, <4>1, <4>2, Zenon DEF Registered
        <4>3. CASE i # 1
          <5>1. i - 1 \in 1..Len(register') /\ register'[i - 1] = s
            BY <3>2, <4>1, <4>3
          <5> QED BY <5>1, Zenon DEF Registered
        <4> QED BY <4>2, <4>3, Zenon
      <3> QED BY <3>1, <3>3, Zenon
    <2>2. CASE RunRemoveCheck
      BY <2>2, Zenon DEF RunRemoveCheck, Registered
    <2>3. CASE RunRemove
      BY <2>3, Zenon DEF RunRemove, Registered
    <2>4. CASE RunDisconnect
      BY <2>4, Zenon DEF RunDisconnect, Registered
    <2> QED BY <2>1, <2>2, <2>3, <2>4, Zenon DEF Run
  <1>4. NodeTypes' /\ QueueIsLast'
    BY <1>1, <1>2, Zenon DEF NodeTypes, QueueIsLast, queueVars
  <1>5. ASSUME NEW s \in Sessions PROVE Calls(s)' /\ Removal(s)'
    BY <1>1, <1>3, Zenon DEF Calls, Removal, queueVars
  <1> QED BY <1>1, <1>4, <1>5, Zenon

\* Node.Shutdown closes the hub and then the queue.
LEMMA MainInv ==
    ASSUME NodeInv, ShutdownBegin \/ Main
    PROVE  NodeInv' /\ (UNCHANGED queueVars \/ CallShutdown)
  <1> USE DEF NodeInv
  <1>1. CASE HubShutdown
    <2>1. /\ main = "hub" /\ main' = "queue" /\ hubRun = "select" /\ hubRun' = "stopped"
          /\ UNCHANGED <<enq, stage, direct, register, connected, inHub, removing>>
      BY <1>1, Zenon DEF HubShutdown
    <2>2. CallShutdown
      BY <1>1, <2>1, Zenon DEF HubShutdown, CallShutdown, QueueIsLast
    <2>3. NodeTypes' /\ QueueIsLast'
      BY <2>1, Zenon DEF NodeTypes, QueueIsLast
    <2>4. ASSUME NEW s \in Sessions PROVE Calls(s)' /\ Removal(s)'
      BY <2>1, Zenon DEF Calls, Removal, Registered
    <2> QED BY <2>2, <2>3, <2>4, Zenon
  <1>2. CASE \/ ShutdownBegin \/ ShutdownSize \/ DisconnectAll \/ AllDisconnected
             \/ ShutdownEnd \/ \E s \in Sessions : Schedule(s)
    <2>1. UNCHANGED <<queueVars, stage, direct, connected, inHub, register, hubRun, removing>>
      BY <1>2, Zenon DEF ShutdownBegin, ShutdownSize, DisconnectAll, AllDisconnected,
                  ShutdownEnd, Schedule, hubVars
    <2>2. \/ main \notin {"queue", "done"}
          \/ main' = "done"
      BY <1>2, Zenon DEF ShutdownBegin, ShutdownSize, DisconnectAll, AllDisconnected,
                  ShutdownEnd, Schedule
    <2>3. NodeTypes' /\ QueueIsLast'
      BY <2>1, <2>2, Zenon DEF NodeTypes, QueueIsLast, queueVars
    <2>4. ASSUME NEW s \in Sessions PROVE Calls(s)' /\ Removal(s)'
      BY <2>1, Zenon DEF Calls, Removal, Registered, queueVars
    <2> QED BY <2>1, <2>3, <2>4, Zenon
  <1> QED BY <1>1, <1>2, Zenon DEF Main

\* The queue works on sessions whose Enqueue call has begun.
LEMMA QueueStepInv ==
    ASSUME NodeInv, Queue \/ Timeout
    PROVE  NodeInv' /\ QueueNext
  <1> USE DEF NodeInv
  <1>1. UNCHANGED <<stage, direct, connected, inHub, register, hubRun, removing, main>>
    BY Zenon DEF Queue, Timeout, hubVars, nodeVars
  <1>2. /\ enq' \in [Sessions -> {"idle", "check", "send", "done", "refused"}]
        /\ \A s \in Sessions : enq[s] = "idle" => enq'[s] = "idle"
    <2>1. CASE \E s \in Sessions : EnqueueCheck(s) \/ EnqueueSend(s)
      <3>1. PICK s \in Sessions : EnqueueCheck(s) \/ EnqueueSend(s)
        BY <2>1, Zenon
      <3>2. PICK e \in {"refused", "send", "done"} : enq' = [enq EXCEPT ![s] = e]
        BY <3>1, Zenon DEF EnqueueCheck, EnqueueSend
      <3>3. enq[s] # "idle"
        BY <3>1, Zenon DEF EnqueueCheck, EnqueueSend
      <3> QED BY <3>2, <3>3, Zenon DEF NodeTypes
    <2>2. CASE UNCHANGED enq
      BY <2>2, Zenon DEF NodeTypes
    <2> QED
      BY <2>1, <2>2, Zenon DEF Queue, Timeout, QueueSteps, RunTake, RunCall, RunStop,
           ShutdownStop, ShutdownCount, DrainTake, DrainEnd, Deadline
  <1>3. shut = "idle" => shut' = "idle"
    BY Zenon DEF Queue, Timeout, QueueSteps, EnqueueCheck, EnqueueSend, RunTake, RunCall,
           RunStop, ShutdownStop, ShutdownCount, DrainTake, DrainEnd, Deadline
  <1>4. NodeTypes' /\ QueueIsLast'
    BY <1>1, <1>2, <1>3, Zenon DEF NodeTypes, QueueIsLast
  <1>5. ASSUME NEW s \in Sessions PROVE Calls(s)' /\ Removal(s)'
    BY <1>1, <1>2, Zenon DEF Calls, Removal, Registered
  <1> QED BY <1>4, <1>5, Zenon DEF Queue, Timeout, QueueNext

\* Every step of the node keeps the invariant, and is a step of the queue or
\* leaves the queue alone.
LEMMA NodeNextInv ==
    ASSUME NodeInv, [Next]_vars
    PROVE  NodeInv' /\ [QueueNext]_queueVars
  <1>1. CASE UNCHANGED vars
    BY <1>1, UntouchedInv, Zenon DEF vars, queueVars, hubVars, nodeVars
  <1>2. ASSUME NEW s \in Sessions, ClientLeaves(s) \/ TaskStart(s) \/ RemoteVisit(s)
        PROVE  NodeInv' /\ UNCHANGED queueVars
    <2>1. /\ \E who \in {"self", "task", "remote"} :
                 Leave(s, who) \/ UNCHANGED <<connected, stage, actor>>
          /\ UNCHANGED <<queueVars, direct, inHub, register, hubRun, removing, main>>
      BY <1>2, Zenon DEF ClientLeaves, TaskStart, RemoteVisit, hubVars, nodeVars
    <2> QED BY <2>1, LeaveInv, Zenon DEF queueVars
  <1>3. CASE \/ RemoteDisconnect \/ RemoteLock \/ RemoteUnlock
             \/ \E s \in Sessions : TaskDone(s)
    <2>1. UNCHANGED <<queueVars, stage, direct, register, connected, inHub, hubRun,
                      removing, main>>
      BY <1>3, Zenon DEF RemoteDisconnect, RemoteLock, RemoteUnlock, TaskDone, hubVars, nodeVars
    <2> QED BY <2>1, UntouchedInv, Zenon DEF queueVars
  <1>4. ASSUME NEW s \in Sessions, DisconnectStep(s) PROVE NodeInv' /\ [QueueNext]_queueVars
    BY <1>4, DisconnectStepInv, Zenon DEF QueueNext
  <1>5. CASE ShutdownBegin \/ Main
    BY <1>5, MainInv, Zenon DEF QueueNext
  <1>6. CASE Queue \/ Timeout
    BY <1>6, QueueStepInv, Zenon
  <1>7. CASE Run
    BY <1>7, HubRunInv, Zenon
  <1> QED BY <1>1, <1>2, <1>3, <1>4, <1>5, <1>6, <1>7, Zenon DEF Next, Remote

\* The invariant holds of every behaviour of the node: what a Disconnect call
\* has done to the queue, the application and the hub follows from its stage.
THEOREM NodeInvariant == Spec => []NodeInv
  BY NodeInitInv, NodeNextInv, PTL DEF Spec

-----------------------------------------------------------------------------

\* The node uses the disconnect queue the way the queue is meant to be used:
\* Node.Disconnect enqueues a session at most once, and Node.Shutdown shuts the
\* queue down once, after the hub.
THEOREM NodeImplementsQueue == Spec => ImplementsQueue
  <1>1. Init => QueueInit
    BY NodeInitInv, Zenon
  <1>2. NodeInv /\ [Next]_vars => [QueueNext]_queueVars
    BY NodeNextInv, Zenon
  <1> QED BY <1>1, <1>2, NodeInvariant, PTL DEF Spec, QueueSpec, ImplementsQueue

\* A session gets at most one Disconnect call, whichever of the queue and
\* Node.Disconnect makes it.
THEOREM NobodyNotifiedTwice == Spec => []NotifiedOnce
  <1>1. IInv /\ NodeInv => NotifiedOnce
    <2> SUFFICES ASSUME IInv, NodeInv, NEW s \in Sessions PROVE called[s] + direct[s] <= 1
      BY Zenon DEF NotifiedOnce
    <2>1. direct[s] \in {0, 1} /\ (direct[s] = 1 => enq[s] = "idle")
      BY Zenon DEF NodeInv, Calls
    <2>2. called[s] \in {0, 1} /\ (enq[s] # "done" => called[s] = 0)
      BY Zenon DEF IInv, Place
    <2> QED BY <2>1, <2>2
  <1>2. Spec => []IInv
    BY NodeImplementsQueue, QueueInvariant, PTL DEF ImplementsQueue
  <1> QED BY <1>1, <1>2, NodeInvariant, PTL

\* A session whose Node.Disconnect call has returned is out of the hub, or Run
\* has still to take it out.
THEOREM LeavingIsRemoval == Spec => []LeftMeansRemoved
  <1>1. NodeInv => LeftMeansRemoved
    BY Zenon DEF NodeInv, Removal, Registered, LeftMeansRemoved
  <1> QED BY <1>1, NodeInvariant, PTL

-----------------------------------------------------------------------------
(* What the shutdown does for the sessions it finds in the hub.            *)

TaskTypes ==
    /\ task \in [Sessions -> {"none", "todo", "scheduled", "running", "done", "skipped"}]
    /\ actor \in [Sessions -> {"self", "task", "remote"}]
    /\ connected \subseteq Sessions

\* what the shutdown has done for a session so far
Task(s) ==
    /\ s \in connected => s \in inHub
    /\ Registered(s) => stage[s] = "gone"
    /\ main \in {"idle", "size", "sessions"} => task[s] = "none"
    /\ main = "wait" /\ s \in connected => task[s] \in {"todo", "scheduled", "skipped"}
    /\ main \in {"hub", "queue", "done"} /\ ~expired => s \notin connected
    /\ actor[s] = "task" =>
           /\ task[s] \in {"running", "done"} /\ stage[s] \notin {"on", "later"}
           /\ task[s] = "done" => stage[s] = "gone"
           /\ stage[s] = "gone" /\ s \in Disconnectable => direct[s] = 1

\* the inductive invariant of the shutdown
TaskInv == TaskTypes /\ (main # "idle" => closed) /\ \A s \in Sessions : Task(s)

\* A step that changes none of this keeps the invariant.
LEMMA UntouchedTask ==
    ASSUME TaskInv, closed => closed', expired => expired',
           UNCHANGED <<stage, direct, register, connected, inHub, hubRun, removing,
                       main, task, actor>>
    PROVE  TaskInv'
  BY Zenon DEF TaskInv, TaskTypes, Task, Registered

\* A session is disconnected by itself, by a command, or by its task.
LEMMA LeaveTask ==
    ASSUME NodeInv, TaskInv, NEW s \in Sessions,
           ClientLeaves(s) \/ RemoteVisit(s) \/ TaskStart(s) \/ TaskDone(s)
    PROVE  TaskInv'
  <1> USE DEF NodeInv, TaskInv
  <1>1. UNCHANGED <<queueVars, direct, register, inHub, hubRun, removing, main, closed>>
    BY Zenon DEF ClientLeaves, RemoteVisit, TaskStart, TaskDone, hubVars, nodeVars
  <1>2. \A t \in Sessions : Registered(t)' <=> Registered(t)
    BY <1>1, Zenon DEF Registered
  <1>3. ASSUME NEW who \in {"self", "remote"}, Leave(s, who), UNCHANGED task
        PROVE  TaskInv'
    <2>1. /\ stage[s] = "on" /\ connected' = connected \ {s}
          /\ stage' = [stage EXCEPT ![s] = "leaving"]
          /\ actor' = [actor EXCEPT ![s] = who]
      BY <1>3, Zenon DEF Leave, Calls
    <2>2. TaskTypes'
      BY <1>3, <2>1, Zenon DEF TaskTypes
    <2>3. ASSUME NEW t \in Sessions PROVE Task(t)'
      <3>1. /\ stage'[t] = IF t = s THEN "leaving" ELSE stage[t]
            /\ actor'[t] = IF t = s THEN who ELSE actor[t]
        BY <2>1, Zenon DEF NodeTypes, TaskTypes
      <3> QED
        BY <1>1, <1>2, <1>3, <2>1, <3>1, Zenon DEF Task, queueVars
    <2> QED
      BY <1>1, <2>2, <2>3, Zenon
  <1>4. CASE ClientLeaves(s)
    BY <1>3, <1>4, Zenon DEF ClientLeaves, nodeVars
  <1>5. CASE RemoteVisit(s)
    <2>1. CASE Leave(s, "remote")
      BY <1>3, <1>5, <2>1, Zenon DEF RemoteVisit, nodeVars
    <2>2. CASE UNCHANGED <<connected, stage, actor>>
      BY <1>1, <1>5, <2>2, UntouchedTask DEF RemoteVisit, nodeVars, queueVars
    <2> QED
      BY <1>5, <2>1, <2>2, Zenon DEF RemoteVisit
  <1>6. CASE TaskStart(s)
    <2>1. task[s] = "scheduled" /\ actor[s] # "task"
      BY <1>6, Zenon DEF TaskStart, Task
    <2>2. ASSUME NEW st \in {"skipped", "done"}, task' = [task EXCEPT ![s] = st],
                 UNCHANGED <<connected, stage, actor>>, st = "done" => s \notin connected
          PROVE  TaskInv'
      <3>1. TaskTypes'
        BY <2>2, Zenon DEF TaskTypes
      <3>2. ASSUME NEW t \in Sessions PROVE Task(t)'
        <4>1. task'[t] = IF t = s THEN st ELSE task[t]
          BY <2>2, Zenon DEF TaskTypes
        <4> QED
          BY <1>1, <1>2, <2>1, <2>2, <4>1, Zenon DEF Task, queueVars
      <3> QED
        BY <1>1, <3>1, <3>2, Zenon
    <2>3. ASSUME Leave(s, "task"), task' = [task EXCEPT ![s] = "running"]
          PROVE  TaskInv'
      <3>1. /\ stage[s] = "on" /\ connected' = connected \ {s}
            /\ stage' = [stage EXCEPT ![s] = "leaving"]
            /\ actor' = [actor EXCEPT ![s] = "task"]
        BY <2>3, Zenon DEF Leave, Calls
      <3>2. TaskTypes'
        BY <2>3, <3>1, Zenon DEF TaskTypes
      <3>3. ASSUME NEW t \in Sessions PROVE Task(t)'
        <4>1. /\ stage'[t] = IF t = s THEN "leaving" ELSE stage[t]
              /\ actor'[t] = IF t = s THEN "task" ELSE actor[t]
              /\ task'[t] = IF t = s THEN "running" ELSE task[t]
          BY <2>3, <3>1, Zenon DEF NodeTypes, TaskTypes
        <4> QED
          BY <1>1, <1>2, <2>1, <3>1, <4>1 DEF Task, queueVars
      <3> QED
        BY <1>1, <3>2, <3>3, Zenon
    <2> QED
      BY <1>6, <2>2, <2>3, Zenon DEF TaskStart
  <1>7. CASE TaskDone(s)
    <2>1. /\ task[s] = "running" /\ stage[s] = "gone" /\ s \notin connected
          /\ task' = [task EXCEPT ![s] = "done"] /\ UNCHANGED <<connected, stage, actor>>
      BY <1>7, Zenon DEF TaskDone, Returned, Calls
    <2>2. TaskTypes'
      BY <2>1, Zenon DEF TaskTypes
    <2>3. ASSUME NEW t \in Sessions PROVE Task(t)'
      <3>1. task'[t] = IF t = s THEN "done" ELSE task[t]
        BY <2>1, Zenon DEF TaskTypes
      <3> QED
        BY <1>1, <1>2, <2>1, <3>1, Zenon DEF Task, queueVars
    <2> QED
      BY <1>1, <2>2, <2>3, Zenon
  <1> QED
    BY <1>4, <1>5, <1>6, <1>7, Zenon

\* Node.Disconnect, called by a task, never leaves the call to the queue.
LEMMA DisconnectTask ==
    ASSUME NodeInv, TaskInv, NEW s \in Sessions, DisconnectStep(s)
    PROVE  TaskInv'
  <1> USE DEF NodeInv, TaskInv
  <1>1. UNCHANGED <<connected, actor, main, task, closed, hubRun, removing, expired>>
    BY Zenon DEF DisconnectStep, CheckShuttingDown, RemoveSessionLater, RemoveSessionCheck,
           RemoveSession, DisconnectNow, hubVars, nodeVars, queueVars
  <1>2. ASSUME NEW st \in Stages, stage' = [stage EXCEPT ![s] = st],
               stage[s] # "gone", UNCHANGED register, inHub' \in {inHub, inHub \ {s}},
               s \notin connected,
               actor[s] = "task" => st # "on" /\ st # "later",
               st = "gone" /\ s \in Disconnectable => direct'[s] = 1,
               \A t \in Sessions \ {s} : direct'[t] = direct[t]
        PROVE  TaskInv'
    <2>1. \A t \in Sessions : stage'[t] = IF t = s THEN st ELSE stage[t]
      BY <1>2, Zenon DEF NodeTypes
    <2>2. \A t \in Sessions : Registered(t)' <=> Registered(t)
      BY <1>1, <1>2, Zenon DEF Registered
    <2>3. ASSUME NEW t \in Sessions PROVE Task(t)'
      BY <1>1, <1>2, <2>1, <2>2 DEF Task
    <2> QED
      BY <1>1, <2>3, Zenon DEF TaskTypes
  <1>3. s \notin connected
    BY Zenon DEF Calls, DisconnectStep, CheckShuttingDown, RemoveSessionLater,
           RemoveSessionCheck, RemoveSession, DisconnectNow
  <1>4. CASE CheckShuttingDown(s)
    <2> DEFINE st == IF closed THEN "check" ELSE "later"
    <2>1. /\ stage[s] = "leaving" /\ stage' = [stage EXCEPT ![s] = st]
          /\ st \in Stages /\ st # "gone" /\ st # "on"
          /\ UNCHANGED <<direct, register, inHub>>
      BY <1>4, Zenon DEF CheckShuttingDown, Stages, hubVars
    <2>2. actor[s] = "task" => closed
      BY Zenon DEF Task
    <2>3. actor[s] = "task" => st # "later"
      BY <2>2, Zenon
    <2> HIDE DEF st
    <2> QED
      BY <1>2, <1>3, <2>1, <2>3, Zenon
  <1>5. CASE RemoveSessionLater(s)
    <2>1. /\ stage[s] = "later" /\ stage' = [stage EXCEPT ![s] = "gone"]
          /\ register' = Append(register, s) /\ UNCHANGED <<direct, inHub>>
      BY <1>5, Zenon DEF RemoveSessionLater
    <2>2. \A t \in Sessions : stage'[t] = IF t = s THEN "gone" ELSE stage[t]
      BY <2>1, Zenon DEF NodeTypes
    <2>3. ASSUME NEW t \in Sessions, t # s PROVE Registered(t)' => Registered(t)
      <3>1. /\ Len(register) \in Nat /\ Len(register') = Len(register) + 1
            /\ register'[Len(register) + 1] = s
            /\ \A i \in 1..Len(register) : register'[i] = register[i]
        BY <2>1 DEF NodeTypes
      <3> QED
        BY <1>1, <2>3, <3>1 DEF Registered
    <2>4. ASSUME NEW t \in Sessions PROVE Task(t)'
      BY <1>1, <1>3, <2>1, <2>2, <2>3 DEF Task
    <2> QED
      BY <1>1, <2>4, Zenon DEF TaskTypes
  <1>6. CASE RemoveSessionCheck(s)
    <2> DEFINE st == IF s \in inHub THEN "remove" ELSE AfterRemove(s)
    <2>1. /\ stage[s] = "check" /\ stage' = [stage EXCEPT ![s] = st]
          /\ st \in Stages /\ st # "on" /\ st # "later"
          /\ s \in Disconnectable => st # "gone"
          /\ UNCHANGED <<direct, register, inHub>>
      BY <1>6, Zenon DEF RemoveSessionCheck, AfterRemove, Stages, hubVars
    <2> HIDE DEF st
    <2> QED
      BY <1>2, <1>3, <2>1, Zenon
  <1>7. CASE RemoveSession(s)
    <2> DEFINE st == AfterRemove(s)
    <2>1. /\ stage[s] = "remove" /\ stage' = [stage EXCEPT ![s] = st]
          /\ st \in Stages /\ st # "on" /\ st # "later"
          /\ s \in Disconnectable => st # "gone"
          /\ UNCHANGED <<direct, register>> /\ inHub' = inHub \ {s}
      BY <1>7, Zenon DEF RemoveSession, AfterRemove, Stages, hubVars
    <2> HIDE DEF st
    <2> QED
      BY <1>2, <1>3, <2>1, Zenon
  <1>8. CASE DisconnectNow(s)
    <2>1. /\ stage[s] = "call" /\ stage' = [stage EXCEPT ![s] = "gone"]
          /\ direct' = [direct EXCEPT ![s] = @ + 1] /\ UNCHANGED <<inHub, register>>
      BY <1>8, Zenon DEF DisconnectNow, hubVars
    <2>2. direct[s] = 0
      BY <2>1, Zenon DEF Calls
    <2>3. direct'[s] = 1 /\ \A t \in Sessions \ {s} : direct'[t] = direct[t]
      BY <2>1, <2>2 DEF NodeTypes
    <2> QED
      BY <1>2, <1>3, <2>1, <2>3, Zenon DEF Stages
  <1> QED
    BY <1>4, <1>5, <1>6, <1>7, <1>8, Zenon DEF DisconnectStep

\* Hub.Run takes out of the hub only sessions that have left.
LEMMA HubRunTask == ASSUME NodeInv, TaskInv, Run PROVE TaskInv'
  <1> USE DEF NodeInv, TaskInv
  <1>1. UNCHANGED <<queueVars, connected, stage, direct, main, closed, task, actor>>
    BY Zenon DEF Run, RunRegister, RunRemoveCheck, RunRemove, RunDisconnect, nodeVars
  <1>2. ASSUME NEW s \in Sessions
        PROVE  /\ Registered(s)' => Registered(s)
               /\ s \in inHub \ inHub' => Registered(s)
    <2>1. CASE RunRegister
      <3>1. /\ register # <<>> /\ removing' = Head(register) /\ register' = Tail(register)
            /\ hubRun = "select" /\ hubRun' = "check" /\ inHub' = inHub
        BY <2>1, Zenon DEF RunRegister
      <3>2. /\ Len(register) \in Nat /\ Len(register) >= 1 /\ Head(register) = register[1]
            /\ Len(register') = Len(register) - 1
            /\ \A i \in 1..Len(register') : register'[i] = register[i + 1]
        BY <3>1 DEF NodeTypes
      <3>3. ASSUME Registered(s)' PROVE Registered(s)
        <4>1. CASE removing' = s
          BY <3>1, <3>2, <4>1 DEF Registered
        <4>2. CASE removing' # s
          <5>1. PICK i \in 1..Len(register') : register'[i] = s
            BY <3>3, <4>2, Zenon DEF Registered
          <5>2. i + 1 \in 1..Len(register) /\ register[i + 1] = s
            BY <3>2, <5>1
          <5> QED
            BY <5>2, Zenon DEF Registered
        <4> QED
          BY <4>1, <4>2, Zenon
      <3> QED
        BY <3>1, <3>3, Zenon
    <2>2. CASE RunRemoveCheck
      BY <2>2, Zenon DEF RunRemoveCheck, Registered
    <2>3. CASE RunRemove
      BY <2>3, Zenon DEF RunRemove, Registered
    <2>4. CASE RunDisconnect
      BY <2>4, Zenon DEF RunDisconnect, Registered
    <2> QED
      BY <2>1, <2>2, <2>3, <2>4, Zenon DEF Run
  <1>3. ASSUME NEW s \in Sessions PROVE Task(s)'
    BY <1>1, <1>2, Zenon DEF Task, Calls, queueVars
  <1> QED
    BY <1>1, <1>3, Zenon DEF TaskTypes

\* Node.Shutdown goes on to the hub when nobody is connected any more, or the
\* time is up.
LEMMA MainTask == ASSUME NodeInv, TaskInv, ShutdownBegin \/ Main PROVE TaskInv'
  <1> USE DEF NodeInv, TaskInv
  <1>1. /\ UNCHANGED <<connected, stage, direct, inHub, actor, register, removing, expired>>
        /\ hubRun' # hubRun => hubRun = "select" /\ hubRun' = "stopped"
    BY Zenon DEF ShutdownBegin, Main, ShutdownSize, DisconnectAll, AllDisconnected, HubShutdown,
           ShutdownEnd, Schedule, hubVars, nodeVars, queueVars
  <1>2. \A s \in Sessions : Registered(s)' <=> Registered(s)
    BY <1>1, Zenon DEF Registered
  <1>3. closed' = TRUE \/ (UNCHANGED closed /\ main # "idle")
    BY Zenon DEF ShutdownBegin, Main, ShutdownSize, DisconnectAll, AllDisconnected, HubShutdown,
           ShutdownEnd, Schedule
  <1>4. CASE ShutdownBegin \/ HubShutdown \/ ShutdownEnd
    <2>1. /\ UNCHANGED task
          /\ \/ main = "idle" /\ main' = "size"
             \/ main = "hub" /\ main' = "queue"
             \/ main = "queue" /\ main' = "done"
      BY <1>4, Zenon DEF ShutdownBegin, HubShutdown, ShutdownEnd
    <2>2. ASSUME NEW s \in Sessions PROVE Task(s)'
      BY <1>1, <1>2, <2>1, Zenon DEF Task
    <2> QED
      BY <1>1, <1>3, <2>1, <2>2, Zenon DEF TaskTypes
  <1>5. CASE ShutdownSize
    <2>1. /\ UNCHANGED task /\ main = "size"
          /\ main' = IF inHub = {} THEN "hub" ELSE "sessions"
      BY <1>5, Zenon DEF ShutdownSize
    <2>2. ASSUME NEW s \in Sessions PROVE Task(s)'
      BY <1>1, <1>2, <2>1, Zenon DEF Task
    <2> QED
      BY <1>1, <1>3, <2>1, <2>2, Zenon DEF TaskTypes
  <1>6. CASE DisconnectAll
    <2>1. /\ main = "sessions" /\ main' = "wait"
          /\ task' = [s \in Sessions |-> IF s \in inHub THEN "todo" ELSE "none"]
      BY <1>6, Zenon DEF DisconnectAll
    <2>2. ASSUME NEW s \in Sessions PROVE Task(s)'
      BY <1>1, <1>2, <2>1, Zenon DEF Task
    <2> QED
      BY <1>1, <1>3, <2>1, <2>2, Zenon DEF TaskTypes
  <1>7. CASE AllDisconnected
    <2>1. /\ UNCHANGED task /\ main = "wait" /\ main' = "hub"
          /\ TasksIn({"scheduled", "running", "skipped"}) = {} \/ expired
          /\ TasksIn({"todo"}) = {}
      BY <1>7, Zenon DEF AllDisconnected
    <2>2. ASSUME NEW s \in Sessions PROVE Task(s)'
      BY <1>1, <1>2, <2>1, Zenon DEF Task, TasksIn
    <2> QED
      BY <1>1, <1>3, <2>1, <2>2, Zenon DEF TaskTypes
  <1>8. ASSUME NEW s \in Sessions, Schedule(s) PROVE TaskInv'
    <2>1. /\ main = "wait" /\ UNCHANGED main /\ task[s] = "todo"
          /\ task' = [task EXCEPT ![s] = "scheduled"]
      BY <1>8, Zenon DEF Schedule
    <2>2. ASSUME NEW t \in Sessions PROVE Task(t)'
      <3>1. task'[t] = IF t = s THEN "scheduled" ELSE task[t]
        BY <2>1, Zenon DEF TaskTypes
      <3> QED
        BY <1>1, <1>2, <2>1, <3>1, Zenon DEF Task
    <2> QED
      BY <1>1, <1>3, <2>1, <2>2, Zenon DEF TaskTypes
  <1> QED
    BY <1>4, <1>5, <1>6, <1>7, <1>8, Zenon DEF Main

\* Every step of the node keeps what the shutdown knows of its sessions.
LEMMA TaskNext == ASSUME NodeInv, TaskInv, [Next]_vars PROVE TaskInv'
  <1>1. CASE UNCHANGED vars
    BY <1>1, UntouchedTask, Zenon DEF vars, queueVars, hubVars, nodeVars
  <1>2. ASSUME NEW s \in Sessions,
               \/ ClientLeaves(s) \/ RemoteVisit(s) \/ TaskStart(s) \/ TaskDone(s)
               \/ DisconnectStep(s)
        PROVE  TaskInv'
    BY <1>2, LeaveTask, DisconnectTask, Zenon
  <1>3. CASE RemoteDisconnect \/ RemoteLock \/ RemoteUnlock
    <2>1. UNCHANGED <<queueVars, stage, direct, register, connected, inHub, hubRun,
                      removing, nodeVars, actor>>
      BY <1>3, Zenon DEF RemoteDisconnect, RemoteLock, RemoteUnlock, hubVars
    <2> QED
      BY <2>1, UntouchedTask, Zenon DEF queueVars, nodeVars
  <1>4. CASE ShutdownBegin \/ Main
    BY <1>4, MainTask, Zenon
  <1>5. CASE Queue \/ Timeout
    <2>1. UNCHANGED <<stage, direct, register, connected, inHub, hubRun, removing,
                      nodeVars, actor>>
      BY <1>5, Zenon DEF Queue, Timeout, hubVars
    <2>2. expired => expired'
      BY <1>5, Zenon DEF Queue, Timeout, QueueSteps, EnqueueCheck, EnqueueSend, RunTake, RunCall,
                  RunStop, ShutdownStop, ShutdownCount, DrainTake, DrainEnd, Deadline
    <2> QED
      BY <2>1, <2>2, UntouchedTask, Zenon DEF nodeVars
  <1>6. CASE Run
    BY <1>6, HubRunTask, Zenon
  <1> QED
    BY <1>1, <1>2, <1>3, <1>4, <1>5, <1>6, Zenon DEF Next, Remote

\* A Shutdown that beats its deadline leaves nobody connected, and nobody it
\* disconnected without a Disconnect call.
THEOREM ShutdownNotifies == Spec => []ActiveSessionsNotified
  <1>1. Init => TaskInv
    BY DEF Init, TaskInv, TaskTypes, Task, Registered
  <1>2. Spec => []TaskInv
    BY <1>1, TaskNext, NodeInvariant, PTL DEF Spec
  <1>3. NodeInv /\ TaskInv /\ NotifiedOnce /\ IInv => ActiveSessionsNotified
    <2> SUFFICES ASSUME NodeInv, TaskInv, NotifiedOnce, IInv, main = "done", ~expired
                 PROVE  /\ connected = {}
                        /\ \A s \in Disconnectable : task[s] = "done" /\ actor[s] = "task" =>
                               called[s] + direct[s] = 1
      BY Zenon DEF ActiveSessionsNotified
    <2>1. connected = {}
      BY Zenon DEF TaskInv, TaskTypes, Task
    <2>2. ASSUME NEW s \in Disconnectable, task[s] = "done", actor[s] = "task"
          PROVE  called[s] + direct[s] = 1
      <3>1. s \in Sessions
        BY NodeAssumption, Zenon
      <3>2. direct[s] = 1
        BY <2>2, <3>1, Zenon DEF TaskInv, Task
      <3>3. called[s] + direct[s] <= 1 /\ called[s] \in Nat
        BY <3>1, Zenon DEF NotifiedOnce, IInv, QueueTypeOK
      <3> QED
        BY <3>2, <3>3
    <2> QED
      BY <2>1, <2>2, Zenon
  <1>4. Spec => []IInv
    BY NodeImplementsQueue, QueueInvariant, PTL DEF ImplementsQueue
  <1> QED
    BY <1>2, <1>3, <1>4, NobodyNotifiedTwice, NodeInvariant, PTL

\* The Disconnect calls of a node are accounted for: at most one for a session,
\* all that its queue had accepted, and all of the sessions the shutdown itself
\* disconnected.
THEOREM CallsAreAccounted == Spec => []CallsAccounted
  <1>1. Spec => []DrainedOnReturn
    BY NodeImplementsQueue, ShutdownDrains, PTL DEF ImplementsQueue
  <1>2. NotifiedOnce /\ DrainedOnReturn /\ ActiveSessionsNotified => CallsAccounted
    BY Zenon DEF CallsAccounted
  <1> QED
    BY <1>1, <1>2, NobodyNotifiedTwice, ShutdownNotifies, PTL
=============================================================================
