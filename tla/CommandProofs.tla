--------------------------- MODULE CommandProofs ----------------------------
(***************************************************************************)
(* Proofs about the commands of the sessions, and what they leave in the   *)
(* hub, in the broker's cache and in the pub/sub (NodeCommands), and about *)
(* the memory broker's store of sessions (SessionStore), for every set of  *)
(* sessions, channels and streams.                                         *)
(*                                                                         *)
(* Of the commands the invariant says what holds of a session between two  *)
(* replies (Resting), what holds while one is worked off stream by stream  *)
(* (Replying), and that the tracker counts every subscription that the hub *)
(* has or is about to have (ClaimsCounted).  Of the store it says that the *)
(* expiry list has finished sessions only, with their deadlines, and that  *)
(* a session is dropped only when it is past its time.                     *)
(***************************************************************************)
EXTENDS NodeCommands, SessionStore, FiniteSetTheorems, WellFoundedInduction, TLAPS

\* what is done with a stream of a reply
TaskKinds == {"start", "restore", "stop", "forget"}

\* What every variable holds, with what CmdTypeOK leaves out.
CmdTypes ==
    /\ pc \in [Sessions -> {"offline", "idle", "lock", "rpc", "reply"}]
    /\ cmd \in [Sessions -> (Commands \X Channels) \cup {NoCommand}]
    /\ smu \in [Sessions -> BOOLEAN] /\ dirty \in [Sessions -> BOOLEAN]
    /\ subs \in [Sessions -> SUBSET Channels]
    /\ streams \in [Sessions -> SUBSET Pairs] /\ hub \in [Sessions -> SUBSET Pairs]
    /\ cache \in [Sessions -> [kept : BOOLEAN, subs : SUBSET Channels, streams : SUBSET Pairs]]
    /\ tasks \in [Sessions -> SUBSET Task]
    /\ flight \in [Sessions -> {NoTask} \cup
           [kind : TaskKinds, pair : Pairs, first : BOOLEAN, last : BOOLEAN]]
    /\ count \in [Sessions -> Nat]
    /\ tracker \in [Streams -> Nat] /\ listened \subseteq Streams
    /\ overlap \in BOOLEAN

\* The cache has the session as it is.
Snapshot(s) == cache[s] = [kept |-> TRUE, subs |-> subs[s], streams |-> streams[s]]

\* A stream is to be worked on, or is.
ToDo(s, kind, p) ==
    \/ \E t \in tasks[s] : t.kind = kind /\ t.pair = p
    \/ (flight[s].kind = kind /\ flight[s].pair = p)

\* A reply is worked off as one of three kinds.
OneKind(s, kinds) ==
    /\ \A t \in tasks[s] : t.kind \in kinds
    /\ flight[s].kind \in kinds \cup {"none"}

\* Between the replies the hub has what the SubscriptionState lists and the
\* cache has both.
Resting(s) ==
    /\ pc[s] # "reply" => (tasks[s] = {} /\ flight[s] = NoTask)
    /\ pc[s] = "offline" => hub[s] = {}
    /\ pc[s] \in {"idle", "lock", "rpc"} => hub[s] = streams[s]
    /\ pc[s] \in {"lock", "rpc"} => cmd[s] \in Commands \X Channels
    /\ (pc[s] = "rpc" /\ cmd[s][1] = "perform") => cmd[s][2] \in subs[s]
    /\ pc[s] # "offline" => count[s] > 0
    /\ pc[s] # "reply" => \/ (count[s] = 0 /\ ~cache[s].kept)
                          \/ Snapshot(s)

\* While a reply is worked off.
Replying(s) ==
    /\ \A p \in streams[s] : p[1] \in subs[s]
    /\ pc[s] = "reply" =>
         /\ ~dirty[s] => (tasks[s] = {} /\ flight[s] = NoTask /\ Snapshot(s))
         /\ \/ OneKind(s, {"restore"}) \/ OneKind(s, {"start", "stop"}) \/ OneKind(s, {"forget"})
         /\ \A p \in Pairs : p \in streams[s] <=> (p \in hub[s] \/ ToDo(s, "restore", p))
         /\ \A p \in Pairs : ToDo(s, "start", p) => p[1] \in subs[s]
         /\ \A t \in tasks[s] : t.kind = "stop" =>
              (t.pair \in hub[s] /\ ~(flight[s].kind = "stop" /\ flight[s].pair = t.pair))
         /\ \A t \in tasks[s] : t.kind = "forget" => t.pair \notin hub[s]

\* what holds of one session
SessionOK(s) == Resting(s) /\ Replying(s)

\* A subscription the tracker still has to count.
Claimed(s, p) ==
    \/ (p \in hub[s] /\ ~(flight[s].kind = "stop" /\ flight[s].pair = p))
    \/ (flight[s].kind \in {"start", "restore"} /\ flight[s].pair = p)
    \/ \E t \in tasks[s] : t.kind = "forget" /\ t.pair = p

\* the subscriptions to a stream that the tracker has to count
Claims(st) == {sp \in Sessions \X (Channels \X {st}) : Claimed(sp[1], sp[2])}

\* SubscriptionsTracker counts at least the subscriptions there are.
ClaimsCounted == \A st \in Streams : Cardinality(Claims(st)) <= tracker[st]

\* The pub/sub follows the tracker, up to the calls on their way.
Following ==
    ~overlap =>
    /\ \A st \in Streams : tracker[st] > 0 =>
         \/ st \in listened
         \/ \E s \in Sessions : /\ flight[s].kind \in {"start", "restore"}
                                /\ flight[s].first /\ flight[s].pair[2] = st
    /\ \A s \in Sessions : (flight[s].kind \in {"stop", "forget"} /\ flight[s].last) =>
         tracker[flight[s].pair[2]] = 0

\* the inductive invariant of the commands
CmdInvariant ==
    CmdTypes /\ (\A s \in Sessions : SessionOK(s)) /\ ClaimsCounted /\ Following

\* a step of one session's goroutine
AuthOrRun(s) ==
    \/ Authenticate(s) \/ TryRestoreSession(s) \/ DisconnectSession(s) \/ HandleCommand(s)
    \/ Step(s)

\* NoTask is none of the tasks.
LEMMA NoTaskKind == NoTask.kind = "none" /\ NoTask \notin Task
  BY Zenon DEF NoTask, Task

\* A step of a session's goroutine keeps the types.
LEMMA TypesStep ==
  ASSUME CmdTypes, NEW s \in Sessions, Resting(s), AuthOrRun(s)
  PROVE  CmdTypes'
<1> USE DEF CmdTypes, brokerVars
<1>1. CASE Authenticate(s)
  BY <1>1, SMTT(30) DEF Authenticate
<1>2. CASE TryRestoreSession(s)
  BY <1>2, SMTT(30) DEF TryRestoreSession, TasksOf, Task
<1>3. CASE DisconnectSession(s)
  BY <1>3, Zenon DEF DisconnectSession
<1>4. CASE HandleCommand(s)
  BY <1>4, SMTT(30) DEF HandleCommand
<1>5. CASE LookupCommand(s)
  BY <1>5, Zenon DEF LookupCommand, Done
<1>6. CASE RpcFails(s)
  BY <1>6, Zenon DEF RpcFails, Done
<1>7. CASE SubscribeRejected(s)
  BY <1>7, Zenon DEF SubscribeRejected, Done
<1>8. CASE SubscribeConfirmed(s)
  BY <1>8, SMTT(30) DEF SubscribeConfirmed, TasksOf, Task, Resting, Pairs
<1>9. CASE UnsubscribeReply(s)
  BY <1>9, Zenon DEF UnsubscribeReply, Of
<1>10. CASE PerformReply(s)
  BY <1>10, SMTT(30) DEF PerformReply, Of, TasksOf, Task, Resting, Pairs
<1>11. CASE PerformStopAll(s)
  BY <1>11, SMTT(30) DEF PerformStopAll, Of, TasksOf, Task
<1>12. CASE TrackStream(s)
  BY <1>12, SMTT(30) DEF TrackStream, Task, TaskKinds, Pairs, TrackerAdd, TrackerRemove
<1>13. CASE ApplyStream(s)
  BY <1>13, SMTT(30) DEF ApplyStream, NoTask, Pairs
<1>14. CASE Commit(s)
  BY <1>14, Zenon DEF Commit, Done
<1> QED  BY <1>1, <1>2, <1>3, <1>4, <1>5, <1>6, <1>7, <1>8, <1>9, <1>10, <1>11, <1>12, <1>13,
            <1>14,
            Zenon DEF AuthOrRun, Step, Answer

\* A step of one session leaves the others as they are.
LEMMA OthersUntouched ==
  ASSUME CmdTypes, NEW s \in Sessions, AuthOrRun(s), NEW u \in Sessions \ {s}
  PROVE  /\ pc'[u] = pc[u] /\ cmd'[u] = cmd[u] /\ subs'[u] = subs[u]
         /\ streams'[u] = streams[u] /\ hub'[u] = hub[u] /\ cache'[u] = cache[u]
         /\ tasks'[u] = tasks[u] /\ flight'[u] = flight[u] /\ dirty'[u] = dirty[u]
         /\ count'[u] = count[u]
<1> USE DEF CmdTypes, brokerVars
<1>1. CASE Authenticate(s)
  BY <1>1, Zenon DEF Authenticate
<1>2. CASE TryRestoreSession(s)
  BY <1>2, Zenon DEF TryRestoreSession
<1>3. CASE DisconnectSession(s)
  BY <1>3, Zenon DEF DisconnectSession
<1>4. CASE HandleCommand(s)
  BY <1>4, Zenon DEF HandleCommand
<1>5. CASE LookupCommand(s)
  BY <1>5, ZenonT(60) DEF LookupCommand, Done
<1>6. CASE RpcFails(s)
  BY <1>6, Zenon DEF RpcFails, Done
<1>7. CASE SubscribeRejected(s)
  BY <1>7, Zenon DEF SubscribeRejected, Done
<1>8. CASE SubscribeConfirmed(s)
  BY <1>8, Zenon DEF SubscribeConfirmed
<1>9. CASE UnsubscribeReply(s)
  BY <1>9, Zenon DEF UnsubscribeReply
<1>10. CASE PerformReply(s)
  BY <1>10, ZenonT(60) DEF PerformReply
<1>11. CASE PerformStopAll(s)
  BY <1>11, Zenon DEF PerformStopAll
<1>12. CASE TrackStream(s)
  BY <1>12, ZenonT(60) DEF TrackStream
<1>13. CASE ApplyStream(s)
  BY <1>13, Zenon DEF ApplyStream
<1>14. CASE Commit(s)
  BY <1>14, Zenon DEF Commit, Done
<1> QED  BY <1>1, <1>2, <1>3, <1>4, <1>5, <1>6, <1>7, <1>8, <1>9, <1>10, <1>11,
            <1>12, <1>13, <1>14, ZenonT(60) DEF AuthOrRun, Step, Answer

\* Only TrackStream and ApplyStream have to do with the tracker and the pub/sub.
LEMMA TrackerUntouched ==
  ASSUME NEW s \in Sessions, AuthOrRun(s), ~TrackStream(s), ~ApplyStream(s)
  PROVE  UNCHANGED <<flight, tracker, listened, overlap>>
<1> USE DEF brokerVars
<1>1. CASE Authenticate(s)
  BY <1>1, Zenon DEF Authenticate
<1>2. CASE TryRestoreSession(s)
  BY <1>2, Zenon DEF TryRestoreSession
<1>3. CASE DisconnectSession(s)
  BY <1>3, Zenon DEF DisconnectSession
<1>4. CASE HandleCommand(s)
  BY <1>4, Zenon DEF HandleCommand
<1>5. CASE LookupCommand(s)
  BY <1>5, Zenon DEF LookupCommand
<1>6. CASE RpcFails(s)
  BY <1>6, Zenon DEF RpcFails
<1>7. CASE SubscribeRejected(s)
  BY <1>7, Zenon DEF SubscribeRejected
<1>8. CASE SubscribeConfirmed(s)
  BY <1>8, Zenon DEF SubscribeConfirmed
<1>9. CASE UnsubscribeReply(s)
  BY <1>9, Zenon DEF UnsubscribeReply
<1>10. CASE PerformReply(s)
  BY <1>10, Zenon DEF PerformReply
<1>11. CASE PerformStopAll(s)
  BY <1>11, Zenon DEF PerformStopAll
<1>12. CASE Commit(s)
  BY <1>12, Zenon DEF Commit
<1> QED  BY <1>1, <1>2, <1>3, <1>4, <1>5, <1>6, <1>7, <1>8, <1>9, <1>10, <1>11,
            <1>12, Zenon DEF AuthOrRun, Step, Answer

\* A step that neither tracks nor applies a stream nor stops them all adds no
\* stream to forget, and the hub's subscriptions stay, or some of them go.
LEMMA ForgetsNothing ==
  ASSUME CmdTypes, NEW s \in Sessions, AuthOrRun(s),
         ~TrackStream(s), ~ApplyStream(s), ~PerformStopAll(s)
  PROVE  /\ \/ hub' = hub \/ hub' = [hub EXCEPT ![s] = {}]
            \/ hub' = [hub EXCEPT ![s] = hub[s] \ Of(cmd[s][2], hub[s])]
         /\ \A t \in tasks'[s] : t.kind = "forget" => t \in tasks[s]
<1>0. tasks \in [Sessions -> SUBSET Task]
  BY Zenon DEF CmdTypes
<1>1. CASE Authenticate(s)
  BY <1>0, <1>1, Zenon DEF Authenticate
<1>2. CASE TryRestoreSession(s)
  BY <1>0, <1>2, SMTT(30) DEF TryRestoreSession, TasksOf
<1>3. CASE DisconnectSession(s)
  BY <1>0, <1>3, Zenon DEF DisconnectSession
<1>4. CASE HandleCommand(s)
  BY <1>0, <1>4, Zenon DEF HandleCommand
<1>5. CASE LookupCommand(s)
  BY <1>0, <1>5, Zenon DEF LookupCommand
<1>6. CASE RpcFails(s)
  BY <1>0, <1>6, Zenon DEF RpcFails
<1>7. CASE SubscribeRejected(s)
  BY <1>0, <1>7, Zenon DEF SubscribeRejected
<1>8. CASE SubscribeConfirmed(s)
  BY <1>0, <1>8, SMTT(30) DEF SubscribeConfirmed, TasksOf
<1>9. CASE UnsubscribeReply(s)
  BY <1>0, <1>9, Zenon DEF UnsubscribeReply
<1>10. CASE PerformReply(s)
  BY <1>0, <1>10, SMTT(30) DEF PerformReply, TasksOf
<1>11. CASE Commit(s)
  BY <1>0, <1>11, Zenon DEF Commit
<1> QED  BY <1>1, <1>2, <1>3, <1>4, <1>5, <1>6, <1>7, <1>8, <1>9, <1>10, <1>11,
            Zenon DEF AuthOrRun, Step, Answer

\* It leaves every other session as it is.
LEMMA OtherSession ==
  ASSUME CmdTypes, NEW s \in Sessions, AuthOrRun(s), NEW u \in Sessions \ {s}, SessionOK(u)
  PROVE  SessionOK(u)'
<1>1. /\ pc'[u] = pc[u] /\ cmd'[u] = cmd[u] /\ subs'[u] = subs[u]
      /\ streams'[u] = streams[u] /\ hub'[u] = hub[u] /\ cache'[u] = cache[u]
      /\ tasks'[u] = tasks[u] /\ flight'[u] = flight[u] /\ dirty'[u] = dirty[u]
      /\ count'[u] = count[u]
  BY OthersUntouched, Zenon
<1>2. Resting(u)'
  BY <1>1, Zenon DEF SessionOK, Resting, Snapshot
<1>3. Replying(u)'
  BY <1>1, SMTT(30) DEF SessionOK, Replying, Snapshot, OneKind, ToDo
<1> QED  BY <1>2, <1>3, Zenon DEF SessionOK

\* The stages of a command that leave the streams alone.
LEMMA PlainStages ==
  ASSUME CmdTypes, NEW s \in Sessions, SessionOK(s),
         \/ Authenticate(s) \/ DisconnectSession(s) \/ HandleCommand(s)
         \/ LookupCommand(s) \/ RpcFails(s) \/ SubscribeRejected(s)
  PROVE  SessionOK(s)'
<1> USE DEF CmdTypes, SessionOK, Resting, Replying, Snapshot, brokerVars
<1>1. CASE Authenticate(s)
  BY <1>1, SMTT(30) DEF Authenticate
<1>3. CASE DisconnectSession(s)
  BY <1>3, Zenon DEF DisconnectSession
<1>4. CASE HandleCommand(s)
  BY <1>4, SMTT(30) DEF HandleCommand
<1>5. CASE LookupCommand(s)
  BY <1>5, ZenonT(60) DEF LookupCommand, Done, Commands
<1>6. CASE RpcFails(s)
  BY <1>6, Zenon DEF RpcFails, Done
<1>7. CASE SubscribeRejected(s)
  BY <1>7, Zenon DEF SubscribeRejected, Done
<1> QED  BY <1>1, <1>3, <1>4, <1>5, <1>6, <1>7, Zenon

\* TryRestoreSession has every cached stream to restore.
LEMMA RestoreStage ==
  ASSUME CmdTypes, NEW s \in Sessions, SessionOK(s), TryRestoreSession(s)
  PROVE  SessionOK(s)'
<1>1. /\ pc[s] = "offline" /\ pc'[s] = "reply" /\ dirty'[s] = TRUE /\ hub[s] = {} /\ hub' = hub
      /\ flight[s] = NoTask /\ flight' = flight /\ count'[s] > 0
      /\ streams'[s] = streams[s] /\ subs'[s] = subs[s]
      /\ tasks'[s] = TasksOf("restore", streams[s])
  BY SMTT(30) DEF CmdTypes, SessionOK, Resting, Snapshot, TryRestoreSession
<1>2. Resting(s)'
  BY <1>1, Zenon DEF Resting
<1>3. \A t \in tasks'[s] : t.kind = "restore" /\ t.pair \in streams[s]
  BY <1>1, SMTT(30) DEF TasksOf
<1>5. ASSUME NEW p \in streams[s]
      PROVE  \E t \in tasks'[s] : t.kind = "restore" /\ t.pair = p
  <2>1. [kind |-> "restore", pair |-> p] \in tasks'[s]
    BY <1>1, Zenon DEF TasksOf
  <2> QED  BY <2>1, Zenon
<1>4. Replying(s)'
  BY <1>1, <1>3, <1>5, NoTaskKind, SMTT(30) DEF SessionOK, Replying, OneKind, ToDo, CmdTypes
<1> QED  BY <1>2, <1>4, Zenon DEF SessionOK

\* The reply to Subscribe, Unsubscribe and Perform.
LEMMA ReplyStages ==
  ASSUME CmdTypes, NEW s \in Sessions, SessionOK(s),
         SubscribeConfirmed(s) \/ UnsubscribeReply(s) \/ PerformReply(s) \/ PerformStopAll(s)
  PROVE  SessionOK(s)'
<1>1. /\ pc[s] = "rpc" /\ pc'[s] = "reply" /\ flight[s] = NoTask /\ flight'[s] = NoTask
      /\ hub[s] = streams[s] /\ count[s] > 0 /\ count' = count /\ tasks[s] = {}
      /\ cmd[s] \in Commands \X Channels
  BY Zenon DEF CmdTypes, SessionOK, Resting, SubscribeConfirmed, UnsubscribeReply, PerformReply,
         PerformStopAll
<1>2. Resting(s)'
  BY <1>1, Zenon DEF Resting
<1>3. CASE SubscribeConfirmed(s)
  <2>1. PICK new \in SUBSET Streams : tasks'[s] = TasksOf("start", {cmd[s][2]} \X new)
    BY <1>3, Zenon DEF SubscribeConfirmed, CmdTypes
  <2>2. \A t \in tasks'[s] : t.kind = "start" /\ t.pair[1] = cmd[s][2]
    BY <2>1, SMTT(30) DEF TasksOf
  <2>3. /\ subs'[s] = subs[s] \cup {cmd[s][2]} /\ streams' = streams /\ hub' = hub
        /\ dirty'[s] = TRUE
    BY <1>3, Zenon DEF SubscribeConfirmed, CmdTypes
  <2>4. Replying(s)'
    BY <1>1, <2>2, <2>3, NoTaskKind, ZenonT(60) DEF SessionOK, Replying, OneKind, ToDo
  <2> QED  BY <1>2, <2>4, Zenon DEF SessionOK
<1>4. CASE UnsubscribeReply(s)
  <2>1. /\ subs'[s] = subs[s] \ {cmd[s][2]}
        /\ \A p : p \in streams'[s] <=> (p \in streams[s] /\ p[1] # cmd[s][2])
        /\ \A p : p \in hub'[s] <=> (p \in hub[s] /\ p[1] # cmd[s][2])
        /\ dirty'[s] = TRUE /\ tasks'[s] = {}
    BY <1>1, <1>4, Zenon DEF UnsubscribeReply, CmdTypes, Of
  <2>2. Replying(s)'
    BY <1>1, <2>1, NoTaskKind, Zenon DEF SessionOK, Replying, OneKind, ToDo
  <2> QED  BY <1>2, <2>2, Zenon DEF SessionOK
<1>5. CASE PerformReply(s)
  <2>1. PICK stopped \in SUBSET Of(cmd[s][2], streams[s]), new \in SUBSET Streams :
          /\ tasks' = [tasks EXCEPT ![s] = TasksOf("stop", stopped)
                                           \cup TasksOf("start", {cmd[s][2]} \X new)]
          /\ dirty' = [dirty EXCEPT ![s] = (stopped # {} \/ new # {})]
    BY <1>5, Zenon DEF PerformReply
  <2>6. tasks'[s] = TasksOf("stop", stopped) \cup TasksOf("start", {cmd[s][2]} \X new)
    BY <2>1, Zenon DEF CmdTypes
  <2>2. /\ subs' = subs /\ streams' = streams /\ hub' = hub /\ cache' = cache
        /\ cmd[s][2] \in subs[s]
    BY <1>5, <1>1, Zenon DEF PerformReply, SessionOK, Resting
  <2>3. \A t \in tasks'[s] : \/ (t.kind = "stop" /\ t.pair \in streams[s])
                            \/ (t.kind = "start" /\ t.pair[1] = cmd[s][2])
    BY <2>6, SMTT(30) DEF TasksOf, Of
  <2>4. ~dirty'[s] => (tasks'[s] = {} /\ Snapshot(s)')
    <3>1. Snapshot(s)'
      BY <1>1, <2>2, SMTT(30) DEF SessionOK, Resting, Snapshot, CmdTypes
    <3>4. dirty'[s] = (stopped # {} \/ new # {})
      BY <2>1, Zenon DEF CmdTypes
    <3>2. ~dirty'[s] => (stopped = {} /\ new = {})
      BY <3>4, Zenon
    <3>3. (stopped = {} /\ new = {}) => tasks'[s] = {}
      BY <2>6, Zenon DEF TasksOf
    <3> QED  BY <3>1, <3>2, <3>3, Zenon
  <2>5. Replying(s)'
    BY <1>1, <2>2, <2>3, <2>4, NoTaskKind, ZenonT(60) DEF SessionOK, Replying, OneKind, ToDo
  <2> QED  BY <1>2, <2>5, Zenon DEF SessionOK
<1>6. CASE PerformStopAll(s)
  <2> DEFINE removed == Of(cmd[s][2], streams[s])
  <2>1. /\ subs' = subs /\ cache' = cache
        /\ \A p : p \in streams'[s] <=> (p \in streams[s] /\ p \notin removed)
        /\ \A p : p \in hub'[s] <=> (p \in hub[s] /\ p \notin removed)
        /\ tasks'[s] = TasksOf("forget", removed) /\ dirty'[s] = (removed # {})
    BY <1>1, <1>6, Zenon DEF PerformStopAll, CmdTypes, Of
  <2>3. \A t \in tasks'[s] : t.kind = "forget" /\ t.pair \in removed
    BY <2>1, SMTT(30) DEF TasksOf
  <2>4. ~dirty'[s] => (tasks'[s] = {} /\ Snapshot(s)')
    <3>1. ~dirty'[s] => removed = {}
      BY <2>1, Zenon
    <3>2. removed = {} => tasks'[s] = {}
      BY <2>1, Zenon DEF TasksOf
    <3>3. removed = {} => streams'[s] = streams[s]
      BY <2>1, Zenon
    <3>5. Snapshot(s)
      BY <1>1, SMTT(30) DEF SessionOK, Resting, CmdTypes
    <3>4. removed = {} => Snapshot(s)'
      BY <2>1, <3>3, <3>5, Zenon DEF Snapshot
    <3> QED  BY <3>1, <3>2, <3>4, Zenon
  <2> HIDE DEF removed
  <2>5. Replying(s)'
    BY <1>1, <2>1, <2>3, <2>4, NoTaskKind, Zenon DEF SessionOK, Replying, OneKind, ToDo
  <2> QED  BY <1>2, <2>5, Zenon DEF SessionOK
<1> QED  BY <1>3, <1>4, <1>5, <1>6, Zenon

\* Taking a stream to SubscriptionsTracker keeps what holds of the session.
LEMMA TrackStage ==
  ASSUME CmdTypes, NEW s \in Sessions, SessionOK(s), TrackStream(s)
  PROVE  SessionOK(s)'
<1>1. PICK t \in tasks[s] :
        /\ NextTask(s, t)
        /\ tasks' = [tasks EXCEPT ![s] = @ \ {t}]
        /\ flight' = [flight EXCEPT ![s] =
             [kind |-> t.kind, pair |-> t.pair,
              first |-> tracker[t.pair[2]] = 0, last |-> tracker[t.pair[2]] = 1]]
  BY Zenon DEF TrackStream
<1>2. /\ flight'[s].kind = t.kind /\ flight'[s].pair = t.pair
      /\ tasks'[s] = tasks[s] \ {t} /\ t \in Task
  BY <1>1, Zenon DEF CmdTypes
<1>3. /\ pc[s] = "reply" /\ flight[s] = NoTask
      /\ pc' = pc /\ cmd' = cmd /\ subs' = subs /\ streams' = streams /\ hub' = hub
      /\ cache' = cache /\ dirty' = dirty /\ count' = count
  BY Zenon DEF TrackStream
<1>4. Resting(s)'
  BY <1>3, Zenon DEF SessionOK, Resting
<1>5. dirty'[s]
  BY <1>1, <1>3, Zenon DEF SessionOK, Replying
<1>6. \/ OneKind(s, {"restore"})' \/ OneKind(s, {"start", "stop"})' \/ OneKind(s, {"forget"})'
  BY <1>2, <1>3, Zenon DEF SessionOK, Replying, OneKind
<1>7. \A p \in Pairs : p \in streams'[s] <=> (p \in hub'[s] \/ ToDo(s, "restore", p)')
  BY <1>2, <1>3, NoTaskKind, SMTT(30) DEF SessionOK, Replying, ToDo
<1>8. \A p \in Pairs : ToDo(s, "start", p)' => p[1] \in subs'[s]
  BY <1>2, <1>3, NoTaskKind, SMTT(30) DEF SessionOK, Replying, ToDo
<1>9. ASSUME NEW u \in tasks'[s], u.kind = "stop"
      PROVE  u.pair \in hub'[s] /\ ~(flight'[s].kind = "stop" /\ flight'[s].pair = u.pair)
  <2>1. u \in tasks[s] /\ u # t /\ u \in Task
    BY <1>2, Zenon DEF CmdTypes
  <2>2. ~(t.kind = u.kind /\ t.pair = u.pair)
    BY <1>2, <2>1, SMTT(30) DEF Task
  <2> QED  BY <1>2, <1>3, <1>9, <2>1, <2>2, Zenon DEF SessionOK, Replying
<1>10. \A u \in tasks'[s] : u.kind = "forget" => u.pair \notin hub'[s]
  BY <1>2, <1>3, Zenon DEF SessionOK, Replying
<1>11. Replying(s)'
  BY <1>3, <1>5, <1>6, <1>7, <1>8, <1>9, <1>10, ZenonT(60) DEF SessionOK, Replying
<1> QED  BY <1>4, <1>11, Zenon DEF SessionOK

\* So does telling the hub and the SubscriptionState of it.
LEMMA ApplyStage ==
  ASSUME CmdTypes, NEW s \in Sessions, SessionOK(s), ApplyStream(s)
  PROVE  SessionOK(s)'
<1> DEFINE p0 == flight[s].pair
           k0 == flight[s].kind
<1>1. /\ flight[s] # NoTask /\ k0 \in TaskKinds /\ p0 \in Pairs
      /\ flight'[s] = NoTask /\ pc' = pc /\ cmd' = cmd /\ subs' = subs /\ cache' = cache
      /\ tasks' = tasks /\ dirty' = dirty /\ count' = count
      /\ hub'[s] = IF k0 \in {"start", "restore"} THEN hub[s] \cup {p0}
                   ELSE IF k0 = "stop" THEN hub[s] \ {p0} ELSE hub[s]
      /\ streams'[s] = IF k0 = "start" THEN streams[s] \cup {p0}
                       ELSE IF k0 = "stop" THEN streams[s] \ {p0} ELSE streams[s]
  BY Zenon DEF ApplyStream, CmdTypes
<1>2. pc[s] = "reply" /\ dirty[s]
  BY <1>1, Zenon DEF SessionOK, Resting, Replying
<1>3. Resting(s)'
  BY <1>1, <1>2, Zenon DEF SessionOK, Resting
<1> HIDE DEF p0, k0
<1>4. \/ OneKind(s, {"restore"})' \/ OneKind(s, {"start", "stop"})' \/ OneKind(s, {"forget"})'
  BY <1>1, <1>2, NoTaskKind, Zenon DEF SessionOK, Replying, OneKind, k0
<1>5. /\ k0 = "restore" => \A t \in tasks[s] : t.kind = "restore"
      /\ k0 = "forget" => \A t \in tasks[s] : t.kind = "forget"
      /\ k0 \in {"start", "stop"} => \A t \in tasks[s] : t.kind \in {"start", "stop"}
  BY <1>1, <1>2, Zenon DEF SessionOK, Replying, OneKind, k0
<1>6. ASSUME NEW p \in Pairs
      PROVE  p \in streams'[s] <=> (p \in hub'[s] \/ ToDo(s, "restore", p)')
  <2>1. p \in streams[s] <=>
          (\/ p \in hub[s] \/ (\E t \in tasks[s] : t.kind = "restore" /\ t.pair = p)
           \/ (k0 = "restore" /\ p0 = p))
    BY <1>2, Zenon DEF SessionOK, Replying, ToDo, k0, p0
  <2>2. ToDo(s, "restore", p)' <=> \E t \in tasks[s] : t.kind = "restore" /\ t.pair = p
    BY <1>1, NoTaskKind, Zenon DEF ToDo
  <2> QED  BY <1>1, <1>5, <2>1, <2>2, Zenon DEF TaskKinds
<1>7. \A p \in Pairs : ToDo(s, "start", p)' => p[1] \in subs'[s]
  BY <1>1, <1>2, NoTaskKind, Zenon DEF SessionOK, Replying, ToDo
<1>8. \A t \in tasks'[s] : t.kind = "stop" =>
        (t.pair \in hub'[s] /\ ~(flight'[s].kind = "stop" /\ flight'[s].pair = t.pair))
  BY <1>1, <1>2, <1>5, NoTaskKind, Zenon DEF SessionOK, Replying, k0, p0
<1>9. \A t \in tasks'[s] : t.kind = "forget" => t.pair \notin hub'[s]
  BY <1>1, <1>2, <1>5, Zenon DEF SessionOK, Replying, TaskKinds
<1>10. \A p \in streams'[s] : p[1] \in subs'[s]
  <2>1. k0 = "start" => p0[1] \in subs[s]
    BY <1>1, <1>2, Zenon DEF SessionOK, Replying, ToDo, k0, p0
  <2> QED  BY <1>1, <2>1, Zenon DEF SessionOK, Replying
<1>11. Replying(s)'
  BY <1>1, <1>2, <1>4, <1>6, <1>7, <1>8, <1>9, <1>10, Zenon DEF Replying
<1> QED  BY <1>3, <1>11, Zenon DEF SessionOK

\* So does the end of a command, where CommitSession saves a changed session.
LEMMA CommitStage ==
  ASSUME CmdTypes, NEW s \in Sessions, SessionOK(s), Commit(s)
  PROVE  SessionOK(s)'
<1>1. /\ pc[s] = "reply" /\ pc'[s] = "idle" /\ tasks[s] = {} /\ flight[s] = NoTask
      /\ tasks' = tasks /\ flight' = flight /\ subs' = subs /\ streams' = streams
      /\ hub' = hub /\ count' = count
      /\ cache'[s] = IF dirty[s] THEN [kept |-> TRUE, subs |-> subs[s], streams |-> streams[s]]
                     ELSE cache[s]
  BY Zenon DEF Commit, Done, CmdTypes
<1>2. Snapshot(s)'
  BY <1>1, Zenon DEF SessionOK, Replying, Snapshot
<1>3. hub[s] = streams[s]
  <2>1. \A p : ~ToDo(s, "restore", p)
    BY <1>1, NoTaskKind, Zenon DEF ToDo
  <2>2. hub[s] \subseteq Pairs /\ streams[s] \subseteq Pairs
    BY Zenon DEF CmdTypes
  <2>3. \A p \in Pairs : p \in streams[s] <=> (p \in hub[s] \/ ToDo(s, "restore", p))
    BY <1>1, Zenon DEF SessionOK, Replying
  <2> QED  BY <2>1, <2>2, <2>3, Zenon
<1>4. Resting(s)'
  BY <1>1, <1>2, <1>3, Zenon DEF SessionOK, Resting
<1>5. Replying(s)'
  BY <1>1, Zenon DEF SessionOK, Replying
<1> QED  BY <1>4, <1>5, Zenon DEF SessionOK

\* Every step keeps what holds of each session.
LEMMA SessionsStep ==
  ASSUME CmdTypes, \A u \in Sessions : SessionOK(u), NEW s \in Sessions, AuthOrRun(s)
  PROVE  \A u \in Sessions : SessionOK(u)'
<1>1. SessionOK(s)
  BY Zenon
<1>2. SessionOK(s)'
  BY <1>1, PlainStages, RestoreStage, ReplyStages, TrackStage, ApplyStage, CommitStage, Zenon
     DEF AuthOrRun, Step, Answer
<1> QED  BY <1>2, OtherSession, Zenon

\* The subscriptions to a stream can be counted.
LEMMA ClaimsFinite ==
  ASSUME NEW st \in Streams, NEW C \in SUBSET (Sessions \X (Channels \X {st}))
  PROVE  /\ IsFiniteSet(C) /\ Cardinality(C) \in Nat
         /\ \A D \in SUBSET C : Cardinality(D) <= Cardinality(C)
         /\ \A x : Cardinality(C \cup {x}) <= Cardinality(C) + 1
         /\ \A x \in C : Cardinality(C \ {x}) = Cardinality(C) - 1
<1>1. IsFiniteSet({st})
  BY FS_Singleton, Zenon
<1>2. IsFiniteSet(Channels \X {st})
  BY <1>1, FS_Product, CommandsAssumption, Zenon
<1>3. IsFiniteSet(Sessions \X (Channels \X {st}))
  BY <1>2, FS_Product, CommandsAssumption, Zenon
<1>4. IsFiniteSet(C)
  BY <1>3, FS_Subset, Zenon
<1>5. Cardinality(C) \in Nat
  BY <1>4, FS_CardinalityType, Zenon
<1>6. \A D \in SUBSET C : Cardinality(D) <= Cardinality(C)
  BY <1>4, FS_Subset, Zenon
<1>7. ASSUME NEW x
      PROVE  Cardinality(C \cup {x}) <= Cardinality(C) + 1
  <2>1. Cardinality(C \cup {x}) = IF x \in C THEN Cardinality(C) ELSE Cardinality(C) + 1
    BY <1>4, FS_AddElement, Zenon
  <2> QED  BY <1>5, <2>1, SMTT(30)
<1>8. ASSUME NEW x \in C
      PROVE  Cardinality(C \ {x}) = Cardinality(C) - 1
  <2>1. Cardinality(C \ {x}) = IF x \in C THEN Cardinality(C) - 1 ELSE Cardinality(C)
    BY <1>4, FS_RemoveElement, Zenon
  <2> QED  BY <2>1, Zenon
<1> QED  BY <1>4, <1>5, <1>6, <1>7, <1>8, Zenon

\* A step that adds none and leaves the tracker alone keeps them counted.
LEMMA FewerClaims ==
  ASSUME CmdTypes, ClaimsCounted, tracker' = tracker,
         \A s \in Sessions, p \in Pairs : Claimed(s, p)' => Claimed(s, p)
  PROVE  ClaimsCounted'
<1> SUFFICES ASSUME NEW st \in Streams PROVE Cardinality(Claims(st)') <= tracker'[st]
  BY Zenon DEF ClaimsCounted
<1>1. Claims(st) \in SUBSET (Sessions \X (Channels \X {st}))
  BY Zenon DEF Claims
<1>2. Claims(st)' \in SUBSET (Sessions \X (Channels \X {st}))
  BY Zenon DEF Claims
<1>3. Claims(st)' \subseteq Claims(st)
  <2> SUFFICES ASSUME NEW sp \in Claims(st)' PROVE sp \in Claims(st)
    BY Zenon
  <2>1. sp \in Sessions \X (Channels \X {st}) /\ Claimed(sp[1], sp[2])'
    BY Zenon DEF Claims
  <2>2. sp[1] \in Sessions /\ sp[2] \in Pairs
    BY <2>1, Zenon DEF Pairs
  <2>3. Claimed(sp[1], sp[2])
    BY <2>1, <2>2, Zenon
  <2> QED  BY <2>1, <2>3, Zenon DEF Claims
<1>4. Cardinality(Claims(st)') <= Cardinality(Claims(st))
  BY <1>1, <1>3, ClaimsFinite, Zenon
<1>5. Cardinality(Claims(st)') \in Nat /\ Cardinality(Claims(st)) \in Nat
  BY <1>1, <1>2, ClaimsFinite, Zenon
<1> QED  BY <1>4, <1>5, SMTT(30) DEF ClaimsCounted, CmdTypes

\* Every step keeps the subscriptions counted: SubscriptionsTracker.Add comes before
\* the hub hears of a stream, and Remove after it was told to forget it.
LEMMA ClaimsStep ==
  ASSUME CmdTypes, CmdTypes', \A u \in Sessions : SessionOK(u), ClaimsCounted,
         NEW s \in Sessions, AuthOrRun(s)
  PROVE  ClaimsCounted'
<1>0. SessionOK(s)
  BY Zenon
<1>a. ASSUME NEW u \in Sessions \ {s}, NEW p
      PROVE  Claimed(u, p)' <=> Claimed(u, p)
  BY OthersUntouched, ZenonT(60) DEF Claimed
<1>1. CASE TrackStream(s)
  <2>1. PICK t \in tasks[s] :
          /\ tracker' = IF t.kind \in {"start", "restore"} THEN TrackerAdd(t.pair[2])
                                                          ELSE TrackerRemove(t.pair[2])
          /\ tasks' = [tasks EXCEPT ![s] = @ \ {t}]
          /\ flight' = [flight EXCEPT ![s] =
               [kind |-> t.kind, pair |-> t.pair,
                first |-> tracker[t.pair[2]] = 0, last |-> tracker[t.pair[2]] = 1]]
    BY <1>1, Zenon DEF TrackStream
  <2>2. /\ flight'[s].kind = t.kind /\ flight'[s].pair = t.pair
        /\ tasks'[s] = tasks[s] \ {t} /\ t \in Task
    BY <2>1, ZenonT(60) DEF CmdTypes
  <2>3. pc[s] = "reply" /\ flight[s] = NoTask /\ hub' = hub
    BY <1>1, Zenon DEF TrackStream
  <2>4. t.pair[2] \in Streams /\ t.pair \in Channels \X {t.pair[2]} /\ t.pair \in Pairs
    BY <2>2, Zenon DEF Task, Pairs
  <2> DEFINE x == <<s, t.pair>>
             C(st) == Claims(st)
             D(st) == Claims(st)'
  <2>5. ASSUME NEW st
        PROVE  /\ C(st) \in SUBSET (Sessions \X (Channels \X {st}))
               /\ D(st) \in SUBSET (Sessions \X (Channels \X {st}))
    BY Zenon DEF Claims
  <2>6. ASSUME NEW p \in Pairs, Claimed(s, p)', p # t.pair
        PROVE  Claimed(s, p)
    BY <2>2, <2>3, <2>6, NoTaskKind, Zenon DEF Claimed
  <2>7. ASSUME NEW st \in Streams, NEW sp \in D(st), sp # x
        PROVE  sp \in C(st)
    <3>1. sp \in Sessions \X (Channels \X {st}) /\ Claimed(sp[1], sp[2])'
      BY <2>7, Zenon DEF Claims
    <3>2. sp[1] \in Sessions /\ sp[2] \in Pairs /\ sp = <<sp[1], sp[2]>>
      BY <3>1, SMTT(30) DEF Pairs
    <3>3. CASE sp[1] = s
      BY <2>6, <2>7, <3>1, <3>2, <3>3, Zenon DEF Claims
    <3>4. CASE sp[1] # s
      BY <1>a, <3>1, <3>2, <3>4, Zenon DEF Claims
    <3> QED  BY <3>3, <3>4, Zenon
  <2>8. ASSUME NEW st \in Streams, st # t.pair[2]
        PROVE  /\ tracker'[st] = tracker[st]
               /\ x \notin D(st)
    BY <2>1, <2>4, <2>8, ZenonT(60) DEF CmdTypes, TrackerAdd, TrackerRemove, Claims
  <2>9. ASSUME NEW st \in Streams, st # t.pair[2]
        PROVE  Cardinality(D(st)) <= tracker'[st]
    <3>1. D(st) \subseteq C(st)
      BY <2>7, <2>8, <2>9, Zenon
    <3>2. Cardinality(D(st)) <= Cardinality(C(st))
      BY <2>5, <3>1, ClaimsFinite, Zenon
    <3>3. Cardinality(D(st)) \in Nat /\ Cardinality(C(st)) \in Nat
      BY <2>5, ClaimsFinite, Zenon
    <3> HIDE DEF D
    <3> QED  BY <2>8, <2>9, <3>2, <3>3, SMTT(30) DEF ClaimsCounted, CmdTypes
  <2> DEFINE st0 == t.pair[2]
  <2>10. /\ Cardinality(D(st0)) \in Nat /\ Cardinality(C(st0)) \in Nat
         /\ tracker[st0] \in Nat /\ Cardinality(C(st0)) <= tracker[st0]
    <3>1. st0 \in Streams
      BY <2>4, Zenon
    <3>2. Cardinality(D(st0)) \in Nat /\ Cardinality(C(st0)) \in Nat
      BY <2>5, <3>1, ClaimsFinite, Zenon
    <3>3. Cardinality(C(st0)) <= tracker[st0]
      BY <3>1, Zenon DEF ClaimsCounted
    <3> QED  BY <3>1, <3>2, <3>3, Zenon DEF CmdTypes
  <2>11. CASE t.kind \in {"start", "restore"}
    <3>1. tracker'[st0] = tracker[st0] + 1
      BY <2>1, <2>4, <2>11, ZenonT(60) DEF TrackerAdd, CmdTypes
    <3>2. D(st0) \subseteq C(st0) \cup {x}
      BY <2>4, <2>7, Zenon
    <3>3. C(st0) \cup {x} \in SUBSET (Sessions \X (Channels \X {st0}))
      BY <2>4, <2>5, SMTT(30)
    <3>4. /\ Cardinality(D(st0)) <= Cardinality(C(st0) \cup {x})
          /\ Cardinality(C(st0) \cup {x}) <= Cardinality(C(st0)) + 1
          /\ Cardinality(C(st0) \cup {x}) \in Nat
      <4> HIDE DEF D, C, x
      <4> QED  BY <2>4, <2>5, <3>2, <3>3, ClaimsFinite, ZenonT(60)
    <3>5. Cardinality(D(st0)) <= tracker'[st0]
      <4> HIDE DEF D, C, x, st0
      <4> QED  BY <2>10, <3>1, <3>4, SMTT(30)
    <3> QED  BY <2>9, <3>5, Zenon DEF ClaimsCounted
  <2>12. CASE t.kind \in {"stop", "forget"}
    <3>1. tracker'[st0] = IF tracker[st0] = 1 THEN 0 ELSE tracker[st0]
      BY <2>1, <2>4, <2>12, ZenonT(60) DEF TrackerRemove, CmdTypes
    <3>2. x \in C(st0)
      <4>1. Claimed(s, t.pair)
        BY <1>0, <2>3, <2>12, NoTaskKind, Zenon DEF SessionOK, Replying, Claimed
      <4> QED  BY <2>4, <4>1, Zenon DEF Claims
    <3>3. x \notin D(st0)
      <4>1. ASSUME NEW v \in tasks'[s], v.kind = "forget", v.pair = t.pair
            PROVE  FALSE
        <5>1. v \in Task /\ v # t
          BY <2>2, Zenon DEF CmdTypes
        <5>2. t.kind = "stop"
          BY <2>2, <2>12, <4>1, <5>1, SMTT(30) DEF Task
        <5> QED  BY <1>0, <2>2, <2>3, <4>1, <5>2, ZenonT(60) DEF SessionOK, Replying, OneKind
      <4>2. t.kind = "forget" => t.pair \notin hub'[s]
        BY <1>0, <2>3, Zenon DEF SessionOK, Replying
      <4>3. ~Claimed(s, t.pair)'
        BY <2>2, <2>12, <4>1, <4>2, Zenon DEF Claimed
      <4> QED  BY <4>3, Zenon DEF Claims
    <3>4. D(st0) \subseteq C(st0) \ {x}
      BY <2>4, <2>7, <3>3, Zenon
    <3>5. C(st0) \ {x} \in SUBSET (Sessions \X (Channels \X {st0}))
      BY <2>4, <2>5, Zenon
    <3>6. /\ Cardinality(D(st0)) <= Cardinality(C(st0) \ {x})
          /\ Cardinality(C(st0) \ {x}) = Cardinality(C(st0)) - 1
      <4> HIDE DEF D, C, x
      <4> QED  BY <2>4, <2>5, <3>2, <3>4, <3>5, ClaimsFinite, ZenonT(60)
    <3>7. Cardinality(D(st0)) <= tracker'[st0]
      <4> HIDE DEF D, C, x, st0
      <4> QED  BY <2>10, <3>1, <3>6, SMTT(30)
    <3> QED  BY <2>9, <3>7, Zenon DEF ClaimsCounted
  <2> QED  BY <2>2, <2>11, <2>12, Zenon DEF Task
<1>2. CASE ApplyStream(s)
  <2>1. /\ flight[s].kind \in TaskKinds /\ flight'[s] = NoTask /\ tasks' = tasks
        /\ tracker' = tracker
        /\ hub'[s] = IF flight[s].kind \in {"start", "restore"} THEN hub[s] \cup {flight[s].pair}
                     ELSE IF flight[s].kind = "stop" THEN hub[s] \ {flight[s].pair} ELSE hub[s]
    BY <1>2, ZenonT(60) DEF ApplyStream, CmdTypes
  <2>2. ASSUME NEW p, Claimed(s, p)'
        PROVE  Claimed(s, p)
    BY <2>1, <2>2, NoTaskKind, Zenon DEF Claimed
  <2> QED  BY <1>a, <2>1, <2>2, FewerClaims, Zenon
<1>3. CASE PerformStopAll(s)
  <2> DEFINE removed == Of(cmd[s][2], streams[s])
  <2>1. /\ flight[s] = NoTask /\ hub[s] = streams[s] /\ flight' = flight /\ tracker' = tracker
        /\ hub'[s] \subseteq hub[s] /\ tasks'[s] = TasksOf("forget", removed)
    <3>1. flight[s] = NoTask /\ hub[s] = streams[s]
      BY <1>0, <1>3, Zenon DEF PerformStopAll, SessionOK, Resting
    <3>2. /\ flight' = flight /\ tracker' = tracker
          /\ hub' = [hub EXCEPT ![s] = hub[s] \ Of(cmd[s][2], hub[s])]
          /\ tasks' = [tasks EXCEPT ![s] = TasksOf("forget", removed)]
      BY <1>3, Zenon DEF PerformStopAll, brokerVars
    <3> HIDE DEF removed
    <3> QED  BY <3>1, <3>2, ZenonT(60) DEF CmdTypes
  <2>2. ASSUME NEW p, Claimed(s, p)'
        PROVE  Claimed(s, p)
    <3>1. \A t \in tasks'[s] : t.pair \in hub[s]
      BY <2>1, SMTT(30) DEF TasksOf, Of
    <3> QED  BY <2>1, <2>2, <3>1, NoTaskKind, Zenon DEF Claimed
  <2> QED  BY <1>a, <2>1, <2>2, FewerClaims, Zenon
<1>4. CASE ~TrackStream(s) /\ ~ApplyStream(s) /\ ~PerformStopAll(s)
  <2>1. flight' = flight /\ tracker' = tracker /\ hub'[s] \subseteq hub[s]
    <3>1. flight' = flight /\ tracker' = tracker
      BY <1>4, TrackerUntouched, Zenon
    <3>2. \/ hub' = hub \/ hub' = [hub EXCEPT ![s] = {}]
          \/ hub' = [hub EXCEPT ![s] = hub[s] \ Of(cmd[s][2], hub[s])]
      BY <1>4, ForgetsNothing, Zenon
    <3>3. hub \in [Sessions -> SUBSET Pairs]
      BY Zenon DEF CmdTypes
    <3> QED  BY <3>1, <3>2, <3>3, Zenon
  <2>2. \A t \in tasks'[s] : t.kind = "forget" => t \in tasks[s]
    BY <1>4, ForgetsNothing, Zenon
  <2>3. ASSUME NEW p, Claimed(s, p)'
        PROVE  Claimed(s, p)
    BY <2>1, <2>2, <2>3, Zenon DEF Claimed
  <2> QED  BY <1>a, <2>1, <2>3, FewerClaims, Zenon
<1> QED  BY <1>1, <1>2, <1>3, <1>4, Zenon DEF AuthOrRun, Step, Answer

\* Every step keeps the pub/sub on what the tracker counts, while the calls of
\* Subscriber do not overlap.
LEMMA FollowingStep ==
  ASSUME CmdTypes, CmdTypes', Following, NEW s \in Sessions, AuthOrRun(s)
  PROVE  Following'
<1>1. CASE TrackStream(s)
  <2> SUFFICES ASSUME ~overlap' PROVE Following'
    BY Zenon DEF Following
  <2>1. PICK t \in tasks[s] :
          /\ tracker' = IF t.kind \in {"start", "restore"} THEN TrackerAdd(t.pair[2])
                                                          ELSE TrackerRemove(t.pair[2])
          /\ flight' = [flight EXCEPT ![s] =
               [kind |-> t.kind, pair |-> t.pair,
                first |-> tracker[t.pair[2]] = 0, last |-> tracker[t.pair[2]] = 1]]
          /\ overlap' = (overlap \/ \E u \in Sessions \ {s} :
               flight[u] # NoTask /\ flight[u].pair[2] = t.pair[2])
    BY <1>1, Zenon DEF TrackStream
  <2>2. /\ ~overlap
        /\ \A u \in Sessions \ {s} : ~(flight[u] # NoTask /\ flight[u].pair[2] = t.pair[2])
    BY <2>1, Zenon
  <2>3. flight[s] = NoTask /\ listened' = listened /\ t \in Task
    BY <1>1, Zenon DEF TrackStream, CmdTypes
  <2>4. t.pair[2] \in Streams
    BY <2>3, Zenon DEF Task, Pairs
  <2>5. /\ flight'[s].kind = t.kind /\ flight'[s].pair = t.pair
        /\ flight'[s].first = (tracker[t.pair[2]] = 0) /\ flight'[s].last = (tracker[t.pair[2]] = 1)
        /\ \A u \in Sessions \ {s} : flight'[u] = flight[u]
    BY <2>1, ZenonT(60) DEF CmdTypes
  <2>6. /\ \A st \in Streams : tracker[st] > 0 =>
             \/ st \in listened
             \/ \E u \in Sessions : /\ flight[u].kind \in {"start", "restore"}
                                    /\ flight[u].first /\ flight[u].pair[2] = st
        /\ \A u \in Sessions : (flight[u].kind \in {"stop", "forget"} /\ flight[u].last) =>
             tracker[flight[u].pair[2]] = 0
    BY <2>2, Zenon DEF Following
  <2>7. ASSUME NEW st \in Streams, tracker'[st] > 0
        PROVE  \/ st \in listened'
               \/ \E u \in Sessions : /\ flight'[u].kind \in {"start", "restore"}
                                      /\ flight'[u].first /\ flight'[u].pair[2] = st
    <3>1. CASE st # t.pair[2]
      <4>1. tracker[st] > 0
        BY <2>1, <2>7, <3>1, ZenonT(60) DEF TrackerAdd, TrackerRemove, CmdTypes
      <4>2. CASE st \in listened
        BY <2>3, <4>2, Zenon
      <4>3. CASE \E u \in Sessions : /\ flight[u].kind \in {"start", "restore"}
                                    /\ flight[u].first /\ flight[u].pair[2] = st
        BY <2>3, <2>5, <4>3, NoTaskKind, Zenon
      <4> QED  BY <2>6, <4>1, <4>2, <4>3, Zenon
    <3>2. CASE st = t.pair[2] /\ tracker[st] > 0
      <4>1. ASSUME NEW u \in Sessions, flight[u].kind \in {"start", "restore"},
                   flight[u].pair[2] = st
            PROVE  FALSE
        BY <2>2, <2>3, <3>2, <4>1, NoTaskKind, ZenonT(60)
      <4> QED  BY <2>3, <2>6, <3>2, <4>1, Zenon
    <3>3. CASE st = t.pair[2] /\ ~(tracker[st] > 0)
      <4>1. tracker[st] = 0
        BY <3>3, SMTT(30) DEF CmdTypes
      <4>2. t.kind \in {"start", "restore"}
        BY <2>1, <2>7, <3>3, <4>1, Zenon DEF TrackerRemove, CmdTypes
      <4>3. flight'[s].first
        BY <2>5, <3>3, <4>1, Zenon
      <4> QED  BY <2>5, <3>3, <4>2, <4>3, Zenon
    <3> QED  BY <3>1, <3>2, <3>3, Zenon
  <2>8. ASSUME NEW u \in Sessions, flight'[u].kind \in {"stop", "forget"}, flight'[u].last
        PROVE  tracker'[flight'[u].pair[2]] = 0
    <3>1. CASE u = s
      BY <2>1, <2>4, <2>5, <2>8, <3>1, SMTT(30) DEF TrackerRemove, CmdTypes
    <3>2. CASE u # s
      <4>1. /\ flight'[u] = flight[u] /\ flight[u] # NoTask /\ tracker[flight[u].pair[2]] = 0
            /\ flight[u].pair[2] # t.pair[2]
        BY <2>2, <2>5, <2>6, <2>8, <3>2, NoTaskKind, SMTT(30)
      <4>2. flight[u].pair[2] \in Streams
        BY <4>1, Zenon DEF CmdTypes, Pairs
      <4> QED  BY <2>1, <4>1, <4>2, ZenonT(60) DEF TrackerAdd, TrackerRemove, CmdTypes
    <3> QED  BY <3>1, <3>2, Zenon
  <2> QED  BY <2>7, <2>8, Zenon DEF Following
<1>2. CASE ApplyStream(s)
  <2> SUFFICES ASSUME ~overlap PROVE Following'
    BY <1>2, Zenon DEF Following, ApplyStream
  <2> DEFINE starts == flight[s].kind \in {"start", "restore"}
             st0 == flight[s].pair[2]
  <2>1. /\ flight[s].kind \in TaskKinds /\ flight'[s] = NoTask /\ tracker' = tracker
        /\ \A u \in Sessions \ {s} : flight'[u] = flight[u]
        /\ listened' = CASE starts /\ flight[s].first -> listened \cup {st0}
                         [] ~starts /\ flight[s].last -> listened \ {st0}
                         [] OTHER -> listened
    BY <1>2, ZenonT(60) DEF ApplyStream, CmdTypes
  <2>2. /\ (starts /\ flight[s].first) => listened' = listened \cup {st0}
        /\ (~starts /\ flight[s].last) => listened' = listened \ {st0}
        /\ (~(starts /\ flight[s].first) /\ ~(~starts /\ flight[s].last)) => listened' = listened
    BY <2>1, Zenon
  <2>3. (~starts /\ flight[s].last) => tracker[st0] = 0
    BY <2>1, Zenon DEF Following, TaskKinds
  <2>4. ASSUME NEW st \in Streams, tracker[st] > 0
        PROVE  \/ st \in listened'
               \/ \E u \in Sessions : /\ flight'[u].kind \in {"start", "restore"}
                                      /\ flight'[u].first /\ flight'[u].pair[2] = st
    <3>1. CASE st \in listened
      BY <2>2, <2>3, <2>4, <3>1, SMTT(30)
    <3>2. CASE \E u \in Sessions : /\ flight[u].kind \in {"start", "restore"}
                                  /\ flight[u].first /\ flight[u].pair[2] = st
      <4>1. PICK u \in Sessions : /\ flight[u].kind \in {"start", "restore"}
                                  /\ flight[u].first /\ flight[u].pair[2] = st
        BY <3>2, Zenon
      <4>2. CASE u = s
        BY <2>2, <4>1, <4>2, Zenon
      <4>3. CASE u # s
        BY <2>1, <4>1, <4>3, Zenon
      <4> QED  BY <4>2, <4>3, Zenon
    <3> QED  BY <2>4, <3>1, <3>2, Zenon DEF Following
  <2>5. \A u \in Sessions : (flight'[u].kind \in {"stop", "forget"} /\ flight'[u].last) =>
          tracker'[flight'[u].pair[2]] = 0
    BY <2>1, NoTaskKind, ZenonT(60) DEF Following
  <2> QED  BY <2>1, <2>4, <2>5, Zenon DEF Following
<1>3. CASE ~TrackStream(s) /\ ~ApplyStream(s)
  <2>1. UNCHANGED <<flight, tracker, listened, overlap>>
    BY <1>3, TrackerUntouched, Zenon
  <2> QED  BY <2>1, Zenon DEF Following
<1> QED  BY <1>1, <1>2, <1>3, Zenon

\* Every reachable state of NodeCommands satisfies the invariant.
LEMMA CmdInvariantHolds == CmdSpec => []CmdInvariant
<1>1. CmdInit => CmdInvariant
  <2> SUFFICES ASSUME CmdInit PROVE CmdInvariant
    BY Zenon
  <2>1. CmdTypes
    BY Zenon DEF CmdInit, CmdTypes, NoCache
  <2>2. \A s \in Sessions : SessionOK(s)
    BY Zenon DEF CmdInit, SessionOK, Resting, Replying, NoCache
  <2>3. ASSUME NEW st \in Streams PROVE Cardinality(Claims(st)) <= tracker[st]
    <3>1. Claims(st) = {}
      BY NoTaskKind, Zenon DEF CmdInit, Claims, Claimed
    <3> QED  BY <3>1, FS_EmptySet, SMTT(30) DEF CmdInit
  <2>4. Following
    BY NoTaskKind, SMTT(30) DEF CmdInit, Following
  <2> QED  BY <2>1, <2>2, <2>3, <2>4, Zenon DEF CmdInvariant, ClaimsCounted
<1>2. CmdInvariant /\ [CmdNext]_cmdVars => CmdInvariant'
  <2> SUFFICES ASSUME CmdInvariant, [CmdNext]_cmdVars PROVE CmdInvariant'
    BY Zenon
  <2>1. CASE UNCHANGED cmdVars
    <3>0. /\ UNCHANGED <<pc, cmd, smu, subs, streams, hub, cache, tasks, flight, dirty, count>>
          /\ UNCHANGED <<tracker, listened, overlap>>
      BY <2>1, Zenon DEF cmdVars, sessionVars, brokerVars
    <3>1. CmdTypes'
      BY <3>0, Zenon DEF CmdInvariant, CmdTypes
    <3>2. \A s \in Sessions : Resting(s)'
      BY <3>0, Zenon DEF CmdInvariant, SessionOK, Resting, Snapshot
    <3>3. \A s \in Sessions : Replying(s)'
      BY <3>0, ZenonT(60) DEF CmdInvariant, SessionOK, Replying, Snapshot, OneKind, ToDo
    <3>4. \A s \in Sessions, p \in Pairs : Claimed(s, p)' => Claimed(s, p)
      BY <3>0, Zenon DEF Claimed
    <3>5. ClaimsCounted'
      BY <3>0, <3>4, FewerClaims, Zenon DEF CmdInvariant
    <3>6. Following'
      BY <3>0, Zenon DEF CmdInvariant, Following
    <3> QED  BY <3>1, <3>2, <3>3, <3>5, <3>6, Zenon DEF CmdInvariant, SessionOK
  <2>2. ASSUME NEW s \in Sessions, AuthOrRun(s) PROVE CmdInvariant'
    <3>1. CmdTypes'
      BY <2>2, TypesStep, Zenon DEF CmdInvariant, SessionOK
    <3> QED  BY <2>2, <3>1, SessionsStep, ClaimsStep, FollowingStep, Zenon DEF CmdInvariant
  <2> QED  BY <2>1, <2>2, Zenon DEF CmdNext, AuthOrRun
<1> QED  BY <1>1, <1>2, PTL DEF CmdSpec

\* Between two commands the hub delivers to a session exactly the streams its
\* SubscriptionState lists, and these belong to channels it is subscribed to:
\* handleCommandReply, TryRestoreSession and Disconnect keep the two together.
THEOREM HubFollowsState == CmdSpec => []HubMatchesState
<1>1. CmdInvariant => HubMatchesState
  BY Zenon DEF CmdInvariant, SessionOK, Resting, Replying, HubMatchesState
<1> QED  BY <1>1, CmdInvariantHolds, PTL

\* Between two commands, and once the connection is gone, the broker's cache has
\* the session as it is: CommitSession has saved whatever a reply changed.
THEOREM CacheIsUpToDate == CmdSpec => []CacheUpToDate
<1>1. CmdInvariant => CacheUpToDate
  BY SMTT(30) DEF CmdInvariant, CmdTypes, SessionOK, Resting, Snapshot, CacheUpToDate, Waiting
<1> QED  BY <1>1, CmdInvariantHolds, PTL

\* When no command is running, the tracker counts every subscription the hub has,
\* and the pub/sub delivers the stream, unless two sessions have worked on one at
\* once.
THEOREM StreamsAreFollowed == CmdSpec => []StreamsFollowed
<1>1. CmdInvariant => StreamsFollowed
  <2> SUFFICES ASSUME CmdInvariant, Quiet PROVE StreamsFollowed
    BY Zenon DEF StreamsFollowed, SubscribedAreTracked, SubscribedAreListened
  <2>1. \A s \in Sessions : flight[s] = NoTask
    BY Zenon DEF CmdInvariant, SessionOK, Resting, Quiet, Waiting
  <2>2. \A s \in Sessions : \A p \in hub[s] : Claimed(s, p) /\ p \in Pairs
    BY <2>1, NoTaskKind, Zenon DEF Claimed, CmdInvariant, CmdTypes
  <2>3. ASSUME NEW st \in Streams
        PROVE  /\ Cardinality(Users(st)) <= tracker[st]
               /\ Users(st) # {} => tracker[st] > 0
    <3>1. Claims(st) \in SUBSET (Sessions \X (Channels \X {st}))
      BY Zenon DEF Claims
    <3>2. Users(st) \subseteq Claims(st)
      BY <2>2, Zenon DEF Users, Claims, Pairs
    <3>3. Users(st) \in SUBSET (Sessions \X (Channels \X {st}))
      BY <3>1, <3>2, Zenon
    <3>4. /\ Cardinality(Users(st)) <= Cardinality(Claims(st))
          /\ Cardinality(Users(st)) \in Nat /\ Cardinality(Claims(st)) \in Nat
          /\ IsFiniteSet(Users(st))
      BY <3>1, <3>2, <3>3, ClaimsFinite, Zenon
    <3>5. Cardinality(Claims(st)) <= tracker[st] /\ tracker[st] \in Nat
      BY Zenon DEF CmdInvariant, CmdTypes, ClaimsCounted
    <3>6. Users(st) # {} => Cardinality(Users(st)) # 0
      BY <3>4, FS_EmptySet, Zenon
    <3> QED  BY <3>4, <3>5, <3>6, SMTT(30)
  <2>4. ASSUME ~overlap, NEW s \in Sessions, NEW p \in hub[s]
        PROVE  p[2] \in listened
    <3>1. p \in Pairs /\ p[2] \in Streams
      BY <2>2, Zenon DEF Pairs
    <3>2. <<s, p>> \in Users(p[2])
      BY <3>1, Zenon DEF Users
    <3>3. tracker[p[2]] > 0
      BY <2>3, <3>1, <3>2, Zenon
    <3> QED  BY <2>1, <2>4, <3>1, <3>3, NoTaskKind, Zenon DEF CmdInvariant, Following
  <2> QED  BY <2>3, <2>4, Zenon DEF StreamsFollowed, SubscribedAreTracked, SubscribedAreListened
<1> QED  BY <1>1, CmdInvariantHolds, PTL

-----------------------------------------------------------------------------

\* an entry of the expiry list
Listed == [sid : Sids, deadline : Nat]

\* what every variable holds
KTypes ==
  /\ keeper \in {"memory", "nats"} /\ now \in Nat
  /\ stored \in [Sids -> Nat] /\ committed \in [Sids -> Nat]
  /\ life \in [Sids -> {"new", "connected", "finished"}]
  /\ touchedAt \in [Sids -> Nat] /\ finishedAt \in [Sids -> Nat]
  /\ expiring \in Seq(Listed)

\* the memory broker lists a session for expiration when it disconnects
ListedOK ==
  \A j \in 1 .. Len(expiring) :
    /\ life[expiring[j].sid] = "finished"
    /\ expiring[j].deadline = finishedAt[expiring[j].sid] + SessionsTTL

\* a session that was dropped was past its time, and one that was not has the
\* state of its last commit
KeptOK ==
  \A s \in Sids :
    \/ stored[s] = committed[s]
    \/ /\ stored[s] = 0
       /\ IF keeper = "memory"
          THEN life[s] = "finished" /\ now > finishedAt[s] + SessionsTTL
          ELSE now > touchedAt[s] + SessionsTTL

\* the inductive invariant of the session store
KInv == KTypes /\ ListedOK /\ KeptOK

\* A non-empty set of numbers has a smallest element.
LEMMA SmallestOf ==
    ASSUME NEW S \in SUBSET Nat, S # {}
    PROVE  \E n \in S : \A k \in S : n <= k
  <1> DEFINE R == {ss \in Nat \X Nat : ss[1] < ss[2]}
  <1>1. IsWellFoundedOn(R, Nat)
    BY NatLessThanWellFounded, Zenon DEF OpToRel
  <1>2. \E n \in S : \A k \in S : ~(<<k, n>> \in R)
    <2> HIDE DEF R
    <2> QED
      BY <1>1, WFMin, Zenon
  <1>3. PICK n \in S : \A k \in S : ~(<<k, n>> \in R)
    BY <1>2, Zenon
  <1>4. ASSUME NEW k \in S PROVE n <= k
    <2>1. n \in Nat /\ k \in Nat
      BY Zenon
    <2>2. ~(k < n)
      BY <1>3, <2>1, Zenon
    <2> QED
      BY <2>1, <2>2, SMTT(30)
  <1> QED
    BY <1>4, Zenon

\* Memory.expire takes the sessions up to the first one that is not due, and
\* all of those are due.
LEMMA DueOnes ==
  ASSUME KTypes
  PROVE  /\ DueCount \in 0 .. Len(expiring)
         /\ \A j \in 1 .. DueCount : expiring[j].deadline < now
  <1> DEFINE n == Len(expiring)
             Due(j) == expiring[j].deadline < now
             S == {i \in 0 .. n : i < n => ~Due(i + 1)}
  <1>1. n \in Nat /\ now \in Nat /\ \A j \in 1 .. n : expiring[j].deadline \in Nat
    <2>1. expiring \in Seq(Listed) /\ now \in Nat
      BY Zenon DEF KTypes
    <2>2. \A j \in 1 .. n : expiring[j] \in Listed
      BY <2>1, SMTT(30)
    <2> QED
      BY <2>1, <2>2, SMTT(30) DEF Listed
  <1> HIDE DEF Due
  <1>2. n \in S /\ S \in SUBSET Nat
    BY <1>1, SMTT(30)
  <1>3. PICK i \in S : \A k \in S : i <= k
    BY <1>2, SmallestOf, Zenon
  <1> HIDE DEF n
  <1>4. \A j \in 1 .. i : Due(j)
    <2>1. ASSUME NEW j \in 1 .. i, ~Due(j)
          PROVE  FALSE
      <3>1. i \in 0 .. n
        BY <1>3, Zenon
      <3>2. j - 1 \in 0 .. n /\ j - 1 < n /\ (j - 1) + 1 = j /\ j - 1 < i
        BY <1>1, <3>1, SMTT(30)
      <3>3. j - 1 \in S
        BY <2>1, <3>2, Zenon
      <3> QED
        BY <1>3, <3>1, <3>2, <3>3, SMTT(30)
    <2> QED
      BY <2>1, Zenon
  <1>5. i \in 0 .. n /\ (i < n => ~Due(i + 1))
    BY <1>3, Zenon
  <1>6. i < n => expiring[i + 1].deadline >= now
    <2>1. i < n => i + 1 \in 1 .. n
      BY <1>1, <1>5, SMTT(30)
    <2> QED
      BY <1>1, <1>5, <2>1, SMTT(30) DEF Due
  <1>7. \E k \in 0 .. Len(expiring) :
          /\ \A j \in 1 .. k : expiring[j].deadline < now
          /\ k < Len(expiring) => expiring[k + 1].deadline >= now
    BY <1>4, <1>5, <1>6, Zenon DEF Due, n
  <1> QED
    BY <1>7, Zenon DEF DueCount

\* The invariant holds initially.
LEMMA KInitInv == KInit => KInv
  BY SMTT(30) DEF KInit, KInv, KTypes, ListedOK, KeptOK, Listed

\* Every operation of the store, and the passing of time, keeps it.
LEMMA KStepInv == KInv /\ [KNext]_kvars => KInv'
  <1> SUFFICES ASSUME KInv, [KNext]_kvars
               PROVE  KInv'
    BY Zenon
  <1> USE SessionStoreAssumption
  <1>0. KTypes /\ ListedOK /\ KeptOK
    BY Zenon DEF KInv
  <1>a. \A j \in 1 .. Len(expiring) : expiring[j].sid \in Sids /\ expiring[j].deadline \in Nat
    <2>1. \A j \in 1 .. Len(expiring) : expiring[j] \in Listed
      BY <1>0, SMTT(30) DEF KTypes
    <2> QED
      BY <2>1, Zenon DEF Listed
  <1>1. ASSUME NEW s \in Sids, StartSession(s)
        PROVE  KInv'
    <2>1. KTypes'
      BY <1>0, <1>1, Zenon DEF StartSession, KTypes
    <2>2. ListedOK'
      <3>1. \A j \in 1 .. Len(expiring) : life'[expiring[j].sid] = "finished"
        BY <1>0, <1>1, <1>a, Zenon DEF StartSession, KTypes, ListedOK
      <3> QED
        BY <1>0, <1>1, <3>1, Zenon DEF StartSession, ListedOK
    <2>3. KeptOK'
      <3>1. \A r \in Sids : life[r] = "finished" => life'[r] = "finished"
        BY <1>0, <1>1, Zenon DEF StartSession, KTypes
      <3> QED
        BY <1>0, <1>1, <3>1, Zenon DEF StartSession, KeptOK
    <2> QED
      BY <2>1, <2>2, <2>3, Zenon DEF KInv
  <1>2. ASSUME NEW s \in Sids, StartCommand(s)
        PROVE  KInv'
    BY <1>0, <1>2, Zenon DEF StartCommand, KInv, KTypes, ListedOK, KeptOK
  <1>3. ASSUME NEW s \in Sids, CommitSession(s)
        PROVE  KInv'
    <2>0. /\ committed' = [committed EXCEPT ![s] = @ + 1]
          /\ stored' = [stored EXCEPT ![s] = committed[s] + 1]
          /\ touchedAt' = [touchedAt EXCEPT ![s] = now]
          /\ UNCHANGED <<keeper, now, expiring, life, finishedAt>>
      BY <1>3, Zenon DEF CommitSession
    <2>1. KTypes'
      BY <1>0, <2>0, SMTT(30) DEF KTypes
    <2>2. ListedOK'
      BY <1>0, <2>0, Zenon DEF ListedOK
    <2>3. KeptOK'
      <3>1. stored'[s] = committed'[s]
        BY <1>0, <2>0, Zenon DEF KTypes
      <3>2. \A r \in Sids : r # s => (/\ stored'[r] = stored[r] /\ committed'[r] = committed[r]
                                      /\ touchedAt'[r] = touchedAt[r])
        BY <1>0, <2>0, Zenon DEF KTypes
      <3> QED
        BY <1>0, <2>0, <3>1, <3>2, ZenonT(60) DEF KeptOK
    <2> QED
      BY <2>1, <2>2, <2>3, Zenon DEF KInv
  <1>4. ASSUME NEW s \in Sids, FinishSession(s)
        PROVE  KInv'
    <2>0. /\ life[s] = "connected" /\ life' = [life EXCEPT ![s] = "finished"]
          /\ finishedAt' = [finishedAt EXCEPT ![s] = now]
          /\ UNCHANGED <<keeper, now, stored, committed>>
      BY <1>4, Zenon DEF FinishSession
    <2>1. \/ expiring' = expiring
          \/ expiring' = Append(expiring, [sid |-> s, deadline |-> now + SessionsTTL])
      BY <1>4, Zenon DEF FinishSession
    <2>2. [sid |-> s, deadline |-> now + SessionsTTL] \in Listed
      BY <1>0, SMTT(30) DEF KTypes, Listed
    <2>3. touchedAt' = touchedAt \/ touchedAt' = [touchedAt EXCEPT ![s] = now]
      BY <1>4, Zenon DEF FinishSession
    <2>4. KTypes'
      <3>1. expiring' \in Seq(Listed)
        <4>1. PICK e \in Listed : expiring' = expiring \/ expiring' = Append(expiring, e)
          BY <2>1, <2>2, Zenon
        <4>2. expiring \in Seq(Listed)
          BY <1>0, Zenon DEF KTypes
        <4> QED
          BY <4>1, <4>2, SMTT(30)
      <3> QED
        BY <1>0, <2>0, <2>3, <3>1, ZenonT(60) DEF KTypes
    <2>5. life'[s] = "finished" /\ finishedAt'[s] = now
      BY <1>0, <2>0, Zenon DEF KTypes
    <2>6. \A r \in Sids : r # s => (life'[r] = life[r] /\ finishedAt'[r] = finishedAt[r])
      BY <1>0, <2>0, Zenon DEF KTypes
    <2>7. ListedOK'
      <3>1. \A j \in 1 .. Len(expiring) : /\ life'[expiring[j].sid] = "finished"
                                          /\ expiring[j].deadline = finishedAt'[expiring[j].sid] + SessionsTTL
        BY <1>0, <1>a, <2>0, <2>6, Zenon DEF ListedOK
      <3>2. CASE expiring' = expiring
        BY <3>1, <3>2, Zenon DEF ListedOK
      <3>3. CASE expiring' = Append(expiring, [sid |-> s, deadline |-> now + SessionsTTL])
        <4> DEFINE n == Len(expiring)
        <4>1. n \in Nat /\ expiring \in Seq(Listed)
          BY <1>0, SMTT(30) DEF KTypes
        <4>2. /\ Len(expiring') = n + 1
              /\ expiring'[n + 1] = [sid |-> s, deadline |-> now + SessionsTTL]
              /\ \A j \in 1 .. n : expiring'[j] = expiring[j]
          BY <2>2, <3>3, <4>1, SMTT(30)
        <4>3. \A j \in 1 .. (n + 1) : j \in 1 .. n \/ j = n + 1
          BY <4>1, SMTT(30)
        <4> QED
          BY <2>5, <3>1, <4>2, <4>3, SMTT(30) DEF ListedOK
      <3> QED
        BY <2>1, <3>2, <3>3, Zenon
    <2>8. KeptOK'
      <3>1. ASSUME NEW r \in Sids, stored[r] # committed[r]
            PROVE  /\ stored'[r] = 0
                   /\ IF keeper' = "memory"
                      THEN life'[r] = "finished" /\ now' > finishedAt'[r] + SessionsTTL
                      ELSE now' > touchedAt'[r] + SessionsTTL
        <4>1. /\ stored[r] = 0
              /\ IF keeper = "memory"
                 THEN life[r] = "finished" /\ now > finishedAt[r] + SessionsTTL
                 ELSE now > touchedAt[r] + SessionsTTL
          BY <1>0, <3>1, Zenon DEF KeptOK
        <4>2. CASE keeper = "memory"
          <5>1. r # s
            BY <2>0, <4>1, <4>2, Zenon
          <5> QED
            BY <2>0, <2>6, <4>1, <4>2, <5>1, Zenon
        <4>3. CASE keeper # "memory"
          <5>1. touchedAt'[r] = touchedAt[r]
            <6>1. CASE r = s
              BY <1>4, <4>1, <6>1, Zenon DEF FinishSession
            <6>2. CASE r # s
              BY <1>0, <2>3, <6>2, Zenon DEF KTypes
            <6> QED
              BY <6>1, <6>2, Zenon
          <5> QED
            BY <2>0, <4>1, <4>3, <5>1, Zenon
        <4> QED
          BY <4>2, <4>3, Zenon
      <3> QED
        BY <2>0, <3>1, Zenon DEF KeptOK
    <2> QED
      BY <2>4, <2>7, <2>8, Zenon DEF KInv
  <1>5. CASE ExpireSessions
    <2> DEFINE n == Len(expiring)
    <2>0. PICK k : k = DueCount
      BY Zenon
    <2>1. /\ keeper = "memory" /\ expiring' = SubSeq(expiring, k + 1, Len(expiring))
          /\ stored' = [s \in Sids |-> IF \E j \in 1 .. k : expiring[j].sid = s THEN 0 ELSE stored[s]]
          /\ UNCHANGED <<keeper, now, life, committed, touchedAt, finishedAt>>
      BY <1>5, <2>0, Zenon DEF ExpireSessions
    <2>2. k \in 0 .. n /\ \A j \in 1 .. k : expiring[j].deadline < now
      BY <1>0, <2>0, DueOnes, Zenon
    <2>3. n \in Nat /\ expiring \in Seq(Listed)
      BY <1>0, SMTT(30) DEF KTypes
    <2>4. /\ expiring' \in Seq(Listed) /\ Len(expiring') = n - k
          /\ \A j \in 1 .. (n - k) : expiring'[j] = expiring[k + j] /\ k + j \in 1 .. n
      BY <2>1, <2>2, <2>3, SMTT(30)
    <2>5. KTypes'
      BY <1>0, <2>1, <2>4, Zenon DEF KTypes
    <2>6. ListedOK'
      <3>1. ASSUME NEW j \in 1 .. (n - k)
            PROVE  /\ life'[expiring'[j].sid] = "finished"
                   /\ expiring'[j].deadline = finishedAt'[expiring'[j].sid] + SessionsTTL
        BY <1>0, <2>1, <2>4, <3>1, ZenonT(60) DEF ListedOK
      <3> QED
        BY <2>4, <3>1, Zenon DEF ListedOK
    <2>7. KeptOK'
      <3>1. ASSUME NEW s \in Sids
            PROVE  \/ stored'[s] = committed'[s]
                   \/ stored'[s] = 0 /\ life'[s] = "finished" /\ now' > finishedAt'[s] + SessionsTTL
        <4>1. CASE \E j \in 1 .. k : expiring[j].sid = s
          <5>1. PICK j \in 1 .. k : expiring[j].sid = s
            BY <4>1, Zenon
          <5>2. j \in 1 .. n
            BY <2>2, <2>3, SMTT(30)
          <5>3. life[s] = "finished" /\ expiring[j].deadline = finishedAt[s] + SessionsTTL
            BY <1>0, <5>1, <5>2, Zenon DEF ListedOK
          <5>4. now > finishedAt[s] + SessionsTTL
            BY <1>0, <2>2, <5>1, <5>3, Zenon DEF KTypes
          <5> QED
            BY <2>1, <4>1, <5>3, <5>4, Zenon
        <4>2. CASE ~(\E j \in 1 .. k : expiring[j].sid = s)
          BY <1>0, <2>1, <4>2, Zenon DEF KeptOK
        <4> QED
          BY <4>1, <4>2, Zenon
      <3> QED
        BY <2>1, <3>1, Zenon DEF KeptOK
    <2> QED
      BY <2>5, <2>6, <2>7, Zenon DEF KInv
  <1>6. ASSUME NEW s \in Sids, ExpireKey(s)
        PROVE  KInv'
    <2>0. /\ keeper = "nats" /\ touchedAt[s] + SessionsTTL < now
          /\ stored' = [stored EXCEPT ![s] = 0]
          /\ UNCHANGED <<keeper, now, expiring, life, committed, touchedAt, finishedAt>>
      BY <1>6, Zenon DEF ExpireKey
    <2>1. KTypes'
      BY <1>0, <2>0, Zenon DEF KTypes
    <2>2. ListedOK'
      BY <1>0, <2>0, Zenon DEF ListedOK
    <2>3. KeptOK'
      <3>1. stored'[s] = 0 /\ now > touchedAt[s] + SessionsTTL
        BY <1>0, <2>0, Zenon DEF KTypes
      <3>2. \A r \in Sids : r # s => stored'[r] = stored[r]
        BY <1>0, <2>0, Zenon DEF KTypes
      <3> QED
        BY <1>0, <2>0, <3>1, <3>2, Zenon DEF KeptOK
    <2> QED
      BY <2>1, <2>2, <2>3, Zenon DEF KInv
  <1>7. CASE TickSessions
    <2>0. /\ now' = now + 1
          /\ UNCHANGED <<keeper, stored, expiring, life, committed, touchedAt, finishedAt>>
      BY <1>7, Zenon DEF TickSessions
    <2>1. KTypes'
      BY <1>0, <2>0, SMTT(30) DEF KTypes
    <2>2. ListedOK'
      BY <1>0, <2>0, Zenon DEF ListedOK
    <2>3. KeptOK'
      <3>1. \A t \in Nat : now > t + SessionsTTL => now' > t + SessionsTTL
        BY <1>0, <2>0, SMTT(30) DEF KTypes
      <3>2. \A s \in Sids : finishedAt[s] \in Nat /\ touchedAt[s] \in Nat
        BY <1>0, Zenon DEF KTypes
      <3> QED
        BY <1>0, <2>0, <3>1, <3>2, Zenon DEF KeptOK
    <2> QED
      BY <2>1, <2>2, <2>3, Zenon DEF KInv
  <1>8. CASE UNCHANGED kvars
    BY <1>0, <1>8, Zenon DEF kvars, KInv, KTypes, ListedOK, KeptOK
  <1> QED
    BY <1>1, <1>2, <1>3, <1>4, <1>5, <1>6, <1>7, <1>8, ZenonT(60) DEF KNext, SessionsExpire

\* RestoreSession finds the last committed state of a session for as long as
\* it has to be kept.
THEOREM SessionsAreRestorable == KSpec => []SessionRestorable
  <1>1. KInv => SessionRestorable
    <2> SUFFICES ASSUME KInv, NEW s \in Sids, MustBeKept(s)
                 PROVE  stored[s] = committed[s]
      BY Zenon DEF SessionRestorable
    <2>1. KTypes /\ KeptOK
      BY Zenon DEF KInv
    <2>2. /\ now \in Nat /\ finishedAt[s] + SessionsTTL \in Nat
          /\ touchedAt[s] + SessionsTTL \in Nat
      BY <2>1, SessionStoreAssumption, SMTT(30) DEF KTypes
    <2>3. \A a, b \in Nat : a <= b => ~(a > b)
      BY SMTT(30)
    <2>4. CASE keeper = "memory"
      BY <2>1, <2>2, <2>3, <2>4, Zenon DEF MustBeKept, KeptOK
    <2>5. CASE keeper # "memory"
      BY <2>1, <2>2, <2>3, <2>5, Zenon DEF MustBeKept, KeptOK
    <2> QED
      BY <2>4, <2>5, Zenon
  <1> QED
    BY <1>1, KInitInv, KStepInv, PTL DEF KSpec
=============================================================================
