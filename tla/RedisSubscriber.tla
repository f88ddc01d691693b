--------------------------- MODULE RedisSubscriber ---------------------------
(***************************************************************************)
(* The Redis pub/sub subscriber (pubsub/redis.go): Subscribe and           *)
(* Unsubscribe record the stream under subMu and then hand a command to    *)
(* the runPubSub goroutine over a channel; runPubSub restores the recorded *)
(* streams on every connection.  The callers are goroutines the broker's   *)
(* tracker lets through when a stream gets its first or loses its last     *)
(* subscriber.                                                             *)
(***************************************************************************)
EXTENDS Integers, Sequences

CONSTANTS
  Channels,         \* streams
  SubCallers,       \* goroutines in a call of Subscribe or Unsubscribe
  CommandsCap,      \* capacity of commandsCh
  MaxSubscribes,    \* bound on the calls
  MaxBreaks,        \* bound on connection failures
  MaxRedisAttempts  \* config.Redis.MaxReconnectAttempts

NoCall == [op |-> "none"]

VARIABLES
  tracked,   \* streams the broker's tracker counts subscribers of
  wanted,    \* s.subscriptions
  commandsCh,
  remote,    \* streams Redis sends to the current connection
  loop,      \* where the runPubSub goroutine is
  tries,     \* s.reconnectAttempt
  breaks,
  linked,    \* whether the connection is up
  closed,    \* whether Shutdown closed shutdownCh and the client
  opened,    \* whether s.client is set
  call,      \* caller -> its call and how far it got
  calls,     \* number of calls made
  overtaken  \* history: streams a later call overtook an earlier one on

svars == <<tracked, wanted, commandsCh, remote, loop, tries, breaks, linked,
           closed, opened, call, calls, overtaken>>

SInit ==
  /\ tracked = {} /\ wanted = {} /\ commandsCh = <<>> /\ remote = {}
  /\ loop = "init" /\ tries = 0 /\ breaks = 0
  /\ linked = FALSE /\ closed = FALSE /\ opened = FALSE
  /\ call = [c \in SubCallers |-> NoCall] /\ calls = 0 /\ overtaken = {}

\* The broker: a new stream is subscribed, one without subscribers is not.
StartCall(c, s) ==
  /\ call[c] = NoCall /\ calls < MaxSubscribes
  /\ LET op == IF s \in tracked THEN "unsubscribe" ELSE "subscribe"
     IN  call' = [call EXCEPT ![c] = [op |-> op, id |-> s, n |-> calls,
                                      at |-> "called"]]
  /\ tracked' = IF s \in tracked THEN tracked \ {s} ELSE tracked \cup {s}
  /\ calls' = calls + 1
  /\ UNCHANGED <<wanted, commandsCh, remote, loop, tries, breaks, linked,
                 closed, opened, overtaken>>

\* A call on s leaves the place `at` before an earlier one does.
Overtakes(c, at) ==
  \E d \in SubCallers \ {c} :
    /\ call[d].op # "none" /\ call[d].id = call[c].id
    /\ call[d].n < call[c].n /\ call[d].at = at

NoteOvertaking(c, at) ==
  overtaken' = overtaken \cup (IF Overtakes(c, at) THEN {call[c].id} ELSE {})

\* The part under subMu; Unsubscribe of an unknown stream returns.
Record(c) ==
  /\ call[c].op # "none" /\ call[c].at = "called"
  /\ LET s == call[c].id
         known == call[c].op = "subscribe" \/ s \in wanted
     IN  /\ wanted' = IF call[c].op = "subscribe" THEN wanted \cup {s}
                      ELSE wanted \ {s}
         /\ call' = [call EXCEPT ![c] = IF known THEN [@ EXCEPT !.at = "recorded"]
                                        ELSE NoCall]
  /\ NoteOvertaking(c, "called")
  /\ UNCHANGED <<tracked, commandsCh, remote, loop, tries, breaks, linked,
                 closed, opened, calls>>

\* The send on commandsCh, which blocks while it is full.
SendCommand(c) ==
  /\ call[c].op # "none" /\ call[c].at = "recorded"
  /\ Len(commandsCh) < CommandsCap
  /\ commandsCh' = Append(commandsCh, [cmd |-> call[c].op, id |-> call[c].id])
  /\ call' = [call EXCEPT ![c] = NoCall]
  /\ NoteOvertaking(c, "recorded")
  /\ UNCHANGED <<tracked, wanted, remote, loop, tries, breaks, linked, closed,
                 opened, calls>>

\* initClient: a client is made once; one that was closed stays.
initRedis ==
  /\ loop = "init"
  /\ \/ /\ loop' = "resubscribe" /\ opened' = TRUE /\ linked' = ~closed
        /\ UNCHANGED breaks
     \/ /\ ~opened /\ breaks < MaxBreaks /\ breaks' = breaks + 1
        /\ loop' = "retry" /\ UNCHANGED <<opened, linked>>
  /\ remote' = {}
  /\ UNCHANGED <<tracked, wanted, commandsCh, tries, closed, call, calls,
                 overtaken>>

\* mutant: a new connection starts without the recorded streams
resubscribe_Nothing ==
  /\ loop = "resubscribe"
  /\ remote' = {} /\ tries' = IF linked THEN 0 ELSE tries
  /\ loop' = "select"
  /\ UNCHANGED <<tracked, wanted, commandsCh, breaks, linked, closed, opened,
                 call, calls, overtaken>>

\* resubscribe: what is recorded now; a failure leaves it to the next
\* connection.  The confirmation of the internal channel resets the attempts.
resubscribe ==
  /\ loop = "resubscribe"
  /\ remote' = IF linked THEN wanted ELSE {}
  /\ tries' = IF linked THEN 0 ELSE tries
  /\ loop' = "select"
  /\ UNCHANGED <<tracked, wanted, commandsCh, breaks, linked, closed, opened,
                 call, calls, overtaken>>

\* mutant: the command stays in the channel
runCommand_NotTaken ==
  /\ loop = "select" /\ linked /\ commandsCh # <<>>
  /\ remote' = IF Head(commandsCh).cmd = "subscribe"
               THEN remote \cup {Head(commandsCh).id}
               ELSE remote \ {Head(commandsCh).id}
  /\ UNCHANGED <<tracked, wanted, commandsCh, loop, tries, breaks, linked,
                 closed, opened, call, calls, overtaken>>

\* One command of the loop; on a broken connection it has no effect.
runCommand ==
  /\ loop = "select" /\ commandsCh # <<>>
  /\ LET c == Head(commandsCh)
     IN  remote' = IF ~linked THEN remote
                   ELSE IF c.cmd = "subscribe" THEN remote \cup {c.id}
                   ELSE remote \ {c.id}
  /\ commandsCh' = Tail(commandsCh)
  /\ UNCHANGED <<tracked, wanted, loop, tries, breaks, linked, closed, opened,
                 call, calls, overtaken>>

\* The connection fails (external).
Break ==
  /\ linked /\ breaks < MaxBreaks
  /\ breaks' = breaks + 1 /\ linked' = FALSE /\ remote' = {}
  /\ UNCHANGED <<tracked, wanted, commandsCh, loop, tries, closed, opened,
                 call, calls, overtaken>>

\* The loop sees the failure, or the shutdown: with both ready, either.
leaveLoop ==
  /\ loop = "select"
  /\ \/ ~linked /\ loop' = "retry"
     \/ closed /\ loop' = "stopped"
  /\ UNCHANGED <<tracked, wanted, commandsCh, remote, tries, breaks, linked,
                 closed, opened, call, calls, overtaken>>

reconnectOrFail ==
  /\ loop = "retry"
  /\ IF tries >= MaxRedisAttempts THEN loop' = "failed" /\ UNCHANGED tries
     ELSE loop' = "init" /\ tries' = tries + 1
  /\ UNCHANGED <<tracked, wanted, commandsCh, remote, breaks, linked, closed,
                 opened, call, calls, overtaken>>

\* Shutdown; without a client it does nothing.
closeClient ==
  /\ opened /\ ~closed
  /\ closed' = TRUE /\ linked' = FALSE /\ remote' = {}
  /\ UNCHANGED <<tracked, wanted, commandsCh, loop, tries, breaks, opened, call,
                 calls, overtaken>>

LoopStep == initRedis \/ resubscribe \/ runCommand \/ leaveLoop \/ reconnectOrFail

SNext ==
  \/ \E c \in SubCallers : Record(c) \/ SendCommand(c) \/ \E s \in Channels : StartCall(c, s)
  \/ LoopStep \/ Break \/ closeClient

SFairness ==
  /\ WF_svars(LoopStep)
  /\ \A c \in SubCallers : WF_svars(Record(c)) /\ SF_svars(SendCommand(c))

SSpec == SInit /\ [][SNext]_svars /\ SFairness

-----------------------------------------------------------------------------
CaughtUp == loop = "select" /\ linked /\ commandsCh = <<>>
         /\ \A c \in SubCallers : call[c] = NoCall

\* Once the calls have returned and the loop has caught up, Redis sends
\* exactly the streams that have subscribers on this node, whatever failed in
\* between and however many connections were made; a stream on which two
\* overlapping calls changed places is excepted.
ListensToTracked ==
  CaughtUp => \A s \in Channels \ overtaken : s \in remote <=> s \in tracked

\* Subscribe and Unsubscribe return, even when the channel is full while the
\* connection is being restored, unless the loop is gone for good: after
\* Shutdown and after the last attempt nobody drains commandsCh.
SubscribeReturns ==
  \A c \in SubCallers :
    call[c].op # "none" ~> call[c].op = "none" \/ loop \in {"stopped", "failed"}
=============================================================================
