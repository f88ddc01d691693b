---------------------------- MODULE NodeCommands ----------------------------
(***************************************************************************)
(* The commands of the clients on one node (node/node.go): Subscribe,      *)
(* Unsubscribe, Perform and session restoration, with what they change:    *)
(*   - the SubscriptionState of the session (channels and their streams);  *)
(*   - the subscriptions of the session in the hub;                        *)
(*   - the StreamsTracker of the broker, which counts the subscriptions of *)
(*     a stream and tells when to join or leave the stream's pub/sub;      *)
(*   - the copy of the session in the broker's cache.                      *)
(*                                                                         *)
(* A session runs one command at a time (its reader goroutine); sessions   *)
(* run concurrently.  StreamsTracker has a lock of its own, and the call   *)
(* of the pub/sub subscriber follows after it is released, so a stream is  *)
(* added or removed in two steps.                                          *)
(*                                                                         *)
(* The controller's answers are chosen freely: a status, the streams to    *)
(* start and, for Perform, to stop (streams of the channel, or all).       *)
(***************************************************************************)
EXTENDS Naturals, FiniteSets

CONSTANTS
    Sessions, Channels, Streams,
    RpcErrors,  \* the controller may answer with an error
    Stops,      \* the controller may stop single streams in Perform
    MaxCommands \* bound: commands and connections of a session

ASSUME CommandsAssumption ==
    /\ IsFiniteSet(Sessions) /\ IsFiniteSet(Channels)
    /\ RpcErrors \in BOOLEAN /\ Stops \in BOOLEAN /\ MaxCommands \in Nat

VARIABLES
    pc,       \* what the session's goroutine is doing
    cmd,      \* its command
    smu,      \* s.smu is locked
    subs,     \* the channels in the SubscriptionState
    streams,  \* their streams, as pairs <<channel, stream>>
    hub,      \* the pairs the hub has for the session
    cache,    \* the session in the broker's cache: [subs, streams]
    tasks,    \* the streams of the reply still to stop or to start
    flight,   \* the one being worked on, after StreamsTracker's answer
    dirty,    \* the session is to be committed
    count,    \* commands and connections so far
    tracker,  \* StreamsTracker.store, 0 for a stream that has no entry
    listened, \* the streams the pub/sub subscriber has joined
    overlap   \* history: two sessions had the same stream in flight

sessionVars == <<pc, cmd, smu, subs, streams, hub, cache, tasks, flight, dirty, count>>
brokerVars == <<tracker, listened, overlap>>
cmdVars == <<sessionVars, brokerVars>>

Pairs == Channels \X Streams
Commands == {"subscribe", "unsubscribe", "perform"}
NoCache == [kept |-> FALSE, subs |-> {}, streams |-> {}]
NoCommand == <<"none">>
NoTask == [kind |-> "none"]

Task == [kind : {"start", "restore", "stop", "forget"}, pair : Pairs]
TasksOf(kind, pairs) == {[kind |-> kind, pair |-> p] : p \in pairs}
Of(ch, pairs) == {p \in pairs : p[1] = ch}

\* the command returns
Done(s) ==
    /\ pc' = [pc EXCEPT ![s] = "idle"]
    /\ cmd' = [cmd EXCEPT ![s] = NoCommand]

CmdInit ==
    /\ pc = [s \in Sessions |-> "offline"]
    /\ cmd = [s \in Sessions |-> NoCommand]
    /\ smu = [s \in Sessions |-> FALSE]
    /\ subs = [s \in Sessions |-> {}]
    /\ streams = [s \in Sessions |-> {}]
    /\ hub = [s \in Sessions |-> {}]
    /\ cache = [s \in Sessions |-> NoCache]
    /\ tasks = [s \in Sessions |-> {}]
    /\ flight = [s \in Sessions |-> NoTask]
    /\ dirty = [s \in Sessions |-> FALSE]
    /\ count = [s \in Sessions |-> 0]
    /\ tracker = [st \in Streams |-> 0]
    /\ listened = {} /\ overlap = FALSE

-----------------------------------------------------------------------------
(* Connecting, with a new session or with a restored one.                  *)

\* Authenticate: the controller accepts; the new session is committed
Authenticate(s) ==
    /\ pc[s] = "offline" /\ count[s] < MaxCommands
    /\ count' = [count EXCEPT ![s] = @ + 1]
    /\ pc' = [pc EXCEPT ![s] = "idle"]
    /\ smu' = [smu EXCEPT ![s] = FALSE]
    /\ subs' = [subs EXCEPT ![s] = {}]
    /\ streams' = [streams EXCEPT ![s] = {}]
    /\ cache' = [cache EXCEPT ![s] = [kept |-> TRUE, subs |-> {}, streams |-> {}]]
    /\ UNCHANGED <<cmd, hub, tasks, flight, dirty, brokerVars>>

\* TryRestoreSession: the new session starts from the cached one
TryRestoreSession(s) ==
    /\ pc[s] = "offline" /\ count[s] < MaxCommands
    /\ cache[s].kept
    /\ count' = [count EXCEPT ![s] = @ + 1]
    /\ pc' = [pc EXCEPT ![s] = "reply"]
    /\ smu' = [smu EXCEPT ![s] = FALSE]
    /\ subs' = [subs EXCEPT ![s] = cache[s].subs]
    /\ streams' = [streams EXCEPT ![s] = cache[s].streams]
    /\ tasks' = [tasks EXCEPT ![s] = TasksOf("restore", cache[s].streams)]
    /\ dirty' = [dirty EXCEPT ![s] = TRUE]
    /\ UNCHANGED <<cmd, hub, cache, flight, brokerVars>>

\* Node.Disconnect between two commands: the hub drops the session
DisconnectSession(s) ==
    /\ pc[s] = "idle"
    /\ pc' = [pc EXCEPT ![s] = "offline"]
    /\ hub' = [hub EXCEPT ![s] = {}]
    /\ UNCHANGED <<cmd, smu, subs, streams, cache, tasks, flight, dirty, count,
                   brokerVars>>

-----------------------------------------------------------------------------
(* A command: lock s.smu, look the channel up, call the controller, apply  *)
(* the reply.                                                              *)

HandleCommand(s) ==
    /\ pc[s] = "idle" /\ count[s] < MaxCommands
    /\ \E c \in Commands \X Channels : cmd' = [cmd EXCEPT ![s] = c]
    /\ count' = [count EXCEPT ![s] = @ + 1]
    /\ pc' = [pc EXCEPT ![s] = "lock"]
    /\ UNCHANGED <<smu, subs, streams, hub, cache, tasks, flight, dirty, brokerVars>>

\* s.smu.Lock and HasChannel: an early return, or the controller is called;
\* Perform unlocks first, the others call with the lock held
LookupCommand(s) ==
    /\ pc[s] = "lock" /\ ~smu[s]
    /\ LET refused == (cmd[s][1] = "subscribe") <=> (cmd[s][2] \in subs[s])
       IN  /\ IF refused THEN Done(s)
              ELSE pc' = [pc EXCEPT ![s] = "rpc"] /\ cmd' = cmd
           /\ smu' = [smu EXCEPT ![s] = ~refused /\ cmd[s][1] # "perform"]
    /\ UNCHANGED <<subs, streams, hub, cache, tasks, flight, dirty, count,
                   brokerVars>>

\* the controller answers with an error: the early return of Subscribe and
\* of Unsubscribe does not unlock s.smu
RpcFails(s) ==
    /\ pc[s] = "rpc" /\ RpcErrors
    /\ Done(s)
    /\ UNCHANGED <<smu, subs, streams, hub, cache, tasks, flight, dirty, count,
                   brokerVars>>

\* Subscribe is rejected
SubscribeRejected(s) ==
    /\ pc[s] = "rpc" /\ cmd[s][1] = "subscribe"
    /\ Done(s)
    /\ smu' = [smu EXCEPT ![s] = FALSE]
    /\ UNCHANGED <<subs, streams, hub, cache, tasks, flight, dirty, count,
                   brokerVars>>

\* Subscribe is confirmed: AddChannel, then the streams of the reply
SubscribeConfirmed(s) ==
    /\ pc[s] = "rpc" /\ cmd[s][1] = "subscribe"
    /\ subs' = [subs EXCEPT ![s] = @ \cup {cmd[s][2]}]
    /\ \E new \in SUBSET Streams :
           tasks' = [tasks EXCEPT ![s] = TasksOf("start", {cmd[s][2]} \X new)]
    /\ smu' = [smu EXCEPT ![s] = FALSE]
    /\ dirty' = [dirty EXCEPT ![s] = TRUE]
    /\ pc' = [pc EXCEPT ![s] = "reply"]
    /\ UNCHANGED <<cmd, streams, hub, cache, flight, count, brokerVars>>

\* mutant: the streams stay in the hub
UnsubscribeReply_KeepsStreams(s) ==
    /\ pc[s] = "rpc" /\ cmd[s][1] = "unsubscribe"
    /\ subs' = [subs EXCEPT ![s] = @ \ {cmd[s][2]}]
    /\ streams' = [streams EXCEPT ![s] = @ \ Of(cmd[s][2], @)]
    /\ smu' = [smu EXCEPT ![s] = FALSE]
    /\ dirty' = [dirty EXCEPT ![s] = TRUE]
    /\ pc' = [pc EXCEPT ![s] = "reply"]
    /\ UNCHANGED <<cmd, hub, cache, tasks, flight, count, brokerVars>>

\* Unsubscribe, whatever the status: RemoveChannel and StopAllStreams.
\* RemoveChannelStreams comes after RemoveChannel and finds no streams, so
\* broker.Unsubscribe is not called for them.
UnsubscribeReply(s) ==
    /\ pc[s] = "rpc" /\ cmd[s][1] = "unsubscribe"
    /\ subs' = [subs EXCEPT ![s] = @ \ {cmd[s][2]}]
    /\ streams' = [streams EXCEPT ![s] = @ \ Of(cmd[s][2], @)]
    /\ hub' = [hub EXCEPT ![s] = @ \ Of(cmd[s][2], @)]
    /\ smu' = [smu EXCEPT ![s] = FALSE]
    /\ dirty' = [dirty EXCEPT ![s] = TRUE]
    /\ pc' = [pc EXCEPT ![s] = "reply"]
    /\ UNCHANGED <<cmd, cache, tasks, flight, count, brokerVars>>

\* Perform: handleCommandReply stops the streams of the reply, then starts
\* its new ones
PerformReply(s) ==
    /\ pc[s] = "rpc" /\ cmd[s][1] = "perform"
    /\ \E stopped \in SUBSET Of(cmd[s][2], streams[s]), new \in SUBSET Streams :
           /\ Stops \/ stopped = {}
           /\ tasks' = [tasks EXCEPT ![s] = TasksOf("stop", stopped)
                                      \cup TasksOf("start", {cmd[s][2]} \X new)]
           /\ dirty' = [dirty EXCEPT ![s] = stopped # {} \/ new # {}]
    /\ pc' = [pc EXCEPT ![s] = "reply"]
    /\ UNCHANGED <<cmd, smu, subs, streams, hub, cache, flight, count, brokerVars>>

\* mutant: the removed streams do not count as a change
PerformStopAll_NotDirty(s) ==
    /\ pc[s] = "rpc" /\ cmd[s][1] = "perform"
    /\ LET removed == Of(cmd[s][2], streams[s])
       IN  /\ hub' = [hub EXCEPT ![s] = @ \ Of(cmd[s][2], @)]
           /\ streams' = [streams EXCEPT ![s] = @ \ removed]
           /\ tasks' = [tasks EXCEPT ![s] = TasksOf("forget", removed)]
           /\ dirty' = [dirty EXCEPT ![s] = FALSE]
    /\ pc' = [pc EXCEPT ![s] = "reply"]
    /\ UNCHANGED <<cmd, smu, subs, cache, flight, count, brokerVars>>

\* Perform with StopAllStreams: the hub and the SubscriptionState first, then
\* broker.Unsubscribe for each stream removed
PerformStopAll(s) ==
    /\ pc[s] = "rpc" /\ cmd[s][1] = "perform"
    /\ LET removed == Of(cmd[s][2], streams[s])
       IN  /\ hub' = [hub EXCEPT ![s] = @ \ Of(cmd[s][2], @)]
           /\ streams' = [streams EXCEPT ![s] = @ \ removed]
           /\ tasks' = [tasks EXCEPT ![s] = TasksOf("forget", removed)]
           /\ dirty' = [dirty EXCEPT ![s] = removed # {}]
    /\ pc' = [pc EXCEPT ![s] = "reply"]
    /\ UNCHANGED <<cmd, smu, subs, cache, flight, count, brokerVars>>

-----------------------------------------------------------------------------
(* The streams of a reply, one after another.                              *)

\* mutant: a further subscriber is not counted
TrackerAdd_NotCounted(st) == [tracker EXCEPT ![st] = 1]

\* StreamsTracker.Add and StreamsTracker.Remove
TrackerAdd(st) == [tracker EXCEPT ![st] = @ + 1]

\* an entry of 1 is deleted; a larger one is left as it is
TrackerRemove(st) == [tracker EXCEPT ![st] = IF @ = 1 THEN 0 ELSE @]

\* the streams to stop come before the streams to start
NextTask(s, t) ==
    /\ t \in tasks[s]
    /\ t.kind = "start" => \A u \in tasks[s] : u.kind # "stop"

\* broker.Subscribe or broker.Unsubscribe, up to the answer of the tracker
TrackStream(s) ==
    /\ pc[s] = "reply" /\ flight[s] = NoTask
    /\ \E t \in tasks[s] :
           /\ NextTask(s, t)
           /\ tracker' = IF t.kind \in {"start", "restore"} THEN TrackerAdd(t.pair[2])
                                                            ELSE TrackerRemove(t.pair[2])
           /\ tasks' = [tasks EXCEPT ![s] = @ \ {t}]
           /\ flight' = [flight EXCEPT ![s] =
                  [kind |-> t.kind, pair |-> t.pair,
                   first |-> tracker[t.pair[2]] = 0, last |-> tracker[t.pair[2]] = 1]]
           /\ overlap' = (overlap \/ \E u \in Sessions \ {s} :
                  flight[u] # NoTask /\ flight[u].pair[2] = t.pair[2])
    /\ UNCHANGED <<pc, cmd, smu, subs, streams, hub, cache, dirty, count, listened>>

\* the pub/sub call if the tracker asks for it, then the hub and the
\* SubscriptionState
ApplyStream(s) ==
    /\ flight[s] # NoTask
    /\ LET t == flight[s]
           starts == t.kind \in {"start", "restore"}
       IN  /\ listened' = CASE starts /\ t.first -> listened \cup {t.pair[2]}
                            [] ~starts /\ t.last -> listened \ {t.pair[2]}
                            [] OTHER -> listened
           /\ hub' = [hub EXCEPT ![s] = IF starts THEN @ \cup {t.pair}
                                        ELSE IF t.kind = "stop" THEN @ \ {t.pair} ELSE @]
           /\ streams' = [streams EXCEPT ![s] = IF t.kind = "start" THEN @ \cup {t.pair}
                                                ELSE IF t.kind = "stop" THEN @ \ {t.pair} ELSE @]
    /\ flight' = [flight EXCEPT ![s] = NoTask]
    /\ UNCHANGED <<pc, cmd, smu, subs, cache, tasks, dirty, count, tracker, overlap>>

\* CommitSession, if something has changed; the command is done
Commit(s) ==
    /\ pc[s] = "reply" /\ tasks[s] = {} /\ flight[s] = NoTask
    /\ cache' = [cache EXCEPT ![s] =
           IF dirty[s] THEN [kept |-> TRUE, subs |-> subs[s], streams |-> streams[s]] ELSE @]
    /\ dirty' = [dirty EXCEPT ![s] = FALSE]
    /\ Done(s)
    /\ UNCHANGED <<smu, subs, streams, hub, tasks, flight, count, brokerVars>>

Answer(s) ==
    \/ RpcFails(s) \/ SubscribeRejected(s) \/ SubscribeConfirmed(s)
    \/ UnsubscribeReply(s) \/ PerformReply(s) \/ PerformStopAll(s)

Step(s) == LookupCommand(s) \/ Answer(s) \/ TrackStream(s) \/ ApplyStream(s) \/ Commit(s)

\* all sessions may be offline or idle for good
CmdNext ==
    \E s \in Sessions :
        \/ Authenticate(s) \/ TryRestoreSession(s) \/ DisconnectSession(s) \/ HandleCommand(s)
        \/ Step(s)

CmdSpec == CmdInit /\ [][CmdNext]_cmdVars

\* the goroutine of a session is scheduled, and the controller answers
CmdFairSpec == CmdSpec /\ \A s \in Sessions : WF_cmdVars(Step(s))

-----------------------------------------------------------------------------

\* Every variable keeps its type; only a command that is applying its reply has
\* streams left to stop or to start.
CmdTypeOK ==
    /\ pc \in [Sessions -> {"offline", "idle", "lock", "rpc", "reply"}]
    /\ cmd \in [Sessions -> (Commands \X Channels) \cup {NoCommand}]
    /\ smu \in [Sessions -> BOOLEAN] /\ dirty \in [Sessions -> BOOLEAN]
    /\ subs \in [Sessions -> SUBSET Channels]
    /\ streams \in [Sessions -> SUBSET Pairs] /\ hub \in [Sessions -> SUBSET Pairs]
    /\ cache \in [Sessions -> [kept : BOOLEAN, subs : SUBSET Channels, streams : SUBSET Pairs]]
    /\ \A s \in Sessions : tasks[s] \subseteq Task /\ (pc[s] # "reply" => tasks[s] = {})
    /\ count \in [Sessions -> Nat]
    /\ tracker \in [Streams -> Nat] /\ listened \subseteq Streams

Waiting(s) == pc[s] \in {"offline", "idle"}
Quiet == \A s \in Sessions : Waiting(s)

\* Between two commands the hub delivers to a session exactly the streams its
\* SubscriptionState lists, restored sessions included, and lists streams only
\* for channels the session is subscribed to.
HubMatchesState ==
    \A s \in Sessions : pc[s] = "idle" =>
        hub[s] = streams[s] /\ \A p \in streams[s] : p[1] \in subs[s]

\* Between two commands, and after the connection is gone, the cache has the
\* session as it was: a restored session has lost nothing.
CacheUpToDate ==
    \A s \in Sessions : Waiting(s) /\ count[s] > 0 =>
        cache[s] = [kept |-> TRUE, subs |-> subs[s], streams |-> streams[s]]

Users(st) == {sp \in Sessions \X Pairs : sp[2] \in hub[sp[1]] /\ sp[2][2] = st}

\* StreamsTracker.Remove lets a stream go only when nobody else uses it: a
\* stream with subscribers has an entry, or LegacyBroker.HandleBroadcast would
\* drop its messages.
SubscribedAreTracked ==
    Quiet => \A st \in Streams : Cardinality(Users(st)) <= tracker[st]

\* When no command is running the node receives the pub/sub messages of every
\* stream it has subscribers for, unless two sessions have worked on a stream
\* at once: the tracker's answers "last" and "new" may then reach the pub/sub in
\* the opposite order.
SubscribedAreListened ==
    Quiet /\ ~overlap => \A s \in Sessions : \A p \in hub[s] : p[2] \in listened

\* The broker and the pub/sub follow the subscriptions of the hub.
StreamsFollowed == SubscribedAreTracked /\ SubscribedAreListened

\* A command of a client comes to an end.
EveryCommandCompletes ==
    \A s \in Sessions : pc[s] = "lock" ~> pc[s] = "idle"
=============================================================================
