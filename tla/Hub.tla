-------------------------------- MODULE Hub --------------------------------
(***************************************************************************)
(* The hub of one node (hub/hub.go, hub/gate.go): the registry of          *)
(* sessions, their stream subscriptions, and the broadcast pipeline        *)
(*                                                                         *)
(*   BroadcastMessage -> h.broadcast -> Run -> gate.sender -> gate loop    *)
(*                                                     -> session.Send     *)
(*                                                                         *)
(* The goroutines are: one command goroutine per session (it executes the  *)
(* commands of its client one after the other, so a session has at most    *)
(* one SubscribeSession/UnsubscribeSession/... call in progress), the hub  *)
(* loop Run, one broadcast loop per gate, and whoever removes a session:   *)
(* Run after RemoveSessionLater, or the caller of RemoveSession while the  *)
(* node shuts down.                                                        *)
(*                                                                         *)
(* A step is one section under h.mu or under a gate's mutex.  The gate's   *)
(* Unsubscribe takes its mutex twice (check, then delete); the delete is   *)
(* idempotent, so the two sections are one step here.  The only loop that  *)
(* changes what it iterates over, the one of                               *)
(* UnsubscribeSessionFromChannel, is one step per iteration with h.mu held *)
(* throughout (MuHeld).                                                    *)
(***************************************************************************)
EXTENDS Naturals, Sequences, FiniteSets

CONSTANTS
  Sessions,      \* session objects; the uid of a session is the session itself
  Streams,       \* stream names
  Channels,      \* channel identifiers of subscriptions
  Idents,        \* connection identifiers
  Gates,         \* the shards
  IdentOf,       \* the connection identifier of each session (GetIdentifiers)
  GateOf,        \* index(stream, gatesNum): the gate that owns a stream
  NoSession,     \* the absent ExcludeSocket
  Whisperers,    \* sessions that send whispers (ExcludeSocket is the sender)
  SlowSessions,  \* sessions whose client may let its send buffer overflow
  BroadcastCap,  \* capacity of h.broadcast (256)
  RegisterCap,   \* capacity of h.register (2048)
  SenderCap,     \* capacity of a gate's sender (256)
  MaxMsgs,       \* bound: messages broadcast
  MaxCalls       \* bound: hub calls made by each session's command goroutine

ASSUME HubAssumption ==
  /\ IdentOf \in [Sessions -> Idents]
  /\ GateOf \in [Streams -> Gates]
  /\ NoSession \notin Sessions
  /\ Whisperers \subseteq Sessions
  /\ SlowSessions \subseteq Sessions
  /\ Streams # {}
  /\ Channels # {}
  /\ {BroadcastCap, RegisterCap, SenderCap} \subseteq Nat \ {0}
  /\ {MaxMsgs, MaxCalls} \subseteq Nat

VARIABLES
  registered,    \* DOMAIN h.sessions
  streams,       \* HubSessionInfo.streams: the <<stream, channel>> records
  identifiers,   \* h.identifiers; {} stands for an absent key
  subs,          \* the gates' streams maps, as <<stream, session, channel>>
  pc,            \* the hub call in progress of each command goroutine
  arg,           \* ... and its <<stream, channel>> arguments
  pos,           \* loop index of UnsubscribeSessionFromChannel
  tail,          \* ... and the array cells behind the shrunk slice
  calls,         \* hub calls made so far (bounded by MaxCalls)
  removal,       \* progress of RemoveSession for each session
  register,      \* h.register: only "remove" events are ever sent
  run,           \* what the goroutine of Run is doing
  log,           \* all messages broadcast so far; a message is its index here
  broadcast,     \* h.broadcast
  sender,        \* the gates' sender queues
  sending,       \* the message each gate loop is delivering (0: none)
  targets,       \* ... and the <<session, channel>> pairs still to be served
  leaving,       \* the session a gate loop is disconnecting (NoSession: none)
  delivered,     \* the <<message, channel>> pairs passed to session.Send
  finished,      \* history: messages the pipeline is done with
  owed,          \* history: pairs subscribed ever since the broadcast
  may,           \* history: pairs subscribed at some time since the broadcast
  late           \* history: sessions recorded after RemoveSession swept them

registryVars == <<registered, streams, identifiers, subs>>
callVars     == <<pc, arg, pos, tail, calls>>
removalVars  == <<removal, register>>
pipeVars     == <<log, broadcast, sender, sending, targets, leaving, delivered,
                  finished>>
historyVars  == <<owed, may, late>>
vars == <<registryVars, callVars, removalVars, run, pipeVars, historyVars>>

Pairs == Streams \X Channels
NoPair == CHOOSE p \in Pairs : TRUE
MsgIds == 1..MaxMsgs

(* UnsubscribeSessionFromChannel holds h.mu over its whole loop. *)
MuHeld == \E s \in Sessions : pc[s] = "sweep"

(* The subscriptions of a stream, given the contents of the gates. *)
SubscribersIn(S, st) == {p \in Sessions \X Channels : <<st, p[1], p[2]>> \in S}

(* Broadcast, and not yet delivered or dropped. *)
InFlight(m) == m \in DOMAIN log /\ m \notin finished

(* History bookkeeping of a step after which the gates hold S. *)
Track(S) ==
  /\ owed' = [m \in MsgIds |-> IF InFlight(m)
                               THEN owed[m] \cap SubscribersIn(S, log[m].stream)
                               ELSE owed[m]]
  /\ may' = [m \in MsgIds |-> IF InFlight(m)
                              THEN may[m] \cup SubscribersIn(S, log[m].stream)
                              ELSE may[m]]

Init ==
  /\ registered = {}
  /\ streams = [s \in Sessions |-> <<>>]
  /\ identifiers = [i \in Idents |-> {}]
  /\ subs = {}
  /\ pc = [s \in Sessions |-> "new"]
  /\ arg = [s \in Sessions |-> NoPair]
  /\ pos = [s \in Sessions |-> 0]
  /\ tail = [s \in Sessions |-> <<>>]
  /\ calls = [s \in Sessions |-> 0]
  /\ removal = [s \in Sessions |-> "none"]
  /\ register = <<>>
  /\ run = [op |-> "select"]
  /\ log = <<>>
  /\ broadcast = <<>>
  /\ sender = [g \in Gates |-> <<>>]
  /\ sending = [g \in Gates |-> 0]
  /\ targets = [g \in Gates |-> {}]
  /\ leaving = [g \in Gates |-> NoSession]
  /\ delivered = [s \in Sessions |-> <<>>]
  /\ finished = {}
  /\ owed = [m \in MsgIds |-> {}]
  /\ may = [m \in MsgIds |-> {}]
  /\ late = {}
-----------------------------------------------------------------------------
(* Registration: Node.Authenticated adds a session once. *)

AddSession(s) ==
  /\ pc[s] = "new"
  /\ ~MuHeld
  /\ registered' = registered \cup {s}
  /\ streams' = [streams EXCEPT ![s] = <<>>]
  /\ identifiers' = [identifiers EXCEPT ![IdentOf[s]] = @ \cup {s}]
  /\ pc' = [pc EXCEPT ![s] = "idle"]
  /\ late' = IF removal[s] = "done" THEN late \cup {s} ELSE late
  /\ UNCHANGED <<subs, arg, pos, tail, calls, removalVars, run, pipeVars,
                 owed, may>>

(* A call of the command goroutine begins. *)
Begin(s, op, p) ==
  /\ pc[s] = "idle"
  /\ calls[s] < MaxCalls
  /\ pc' = [pc EXCEPT ![s] = op]
  /\ arg' = [arg EXCEPT ![s] = p]
  /\ calls' = [calls EXCEPT ![s] = @ + 1]

Return(s) ==
  /\ pc' = [pc EXCEPT ![s] = "idle"]
  /\ arg' = [arg EXCEPT ![s] = NoPair]

(* SubscribeSession: the gate first, without h.mu ... *)
SubscribeGate(s, p) ==
  /\ Begin(s, "subscribe", p)
  /\ subs' = subs \cup {<<p[1], s, p[2]>>}
  /\ Track(subs')
  /\ UNCHANGED <<registered, streams, identifiers, pos, tail, removalVars, run,
                 pipeVars, late>>

(* ... then the record, which registers the session if it is not there. *)
SubscribeRecord(s) ==
  /\ pc[s] = "subscribe"
  /\ ~MuHeld
  /\ registered' = registered \cup {s}
  /\ streams' = [streams EXCEPT ![s] = Append(@, arg[s])]
  /\ Return(s)
  /\ late' = IF removal[s] \in {"swept", "done"} THEN late \cup {s} ELSE late
  /\ UNCHANGED <<identifiers, subs, pos, tail, calls, removalVars, run,
                 pipeVars, owed, may>>

(* HubSessionInfo.RemoveStream: drop the first record equal to p. *)
FirstIndex(recs, p) ==
  CHOOSE i \in DOMAIN recs : recs[i] = p /\ \A j \in DOMAIN recs : recs[j] = p => i <= j

DropAt(recs, i) == [j \in 1..(Len(recs) - 1) |-> IF j < i THEN recs[j] ELSE recs[j + 1]]

HasRecord(recs, p) == \E i \in DOMAIN recs : recs[i] = p

RemoveStream(recs, p) ==
  IF HasRecord(recs, p) THEN DropAt(recs, FirstIndex(recs, p)) ELSE recs

(* mutant: the gate is left alone *)
UnsubscribeGate_GateSkipped(s, p) ==
  /\ Begin(s, "unsubscribe", p)
  /\ UNCHANGED <<registryVars, pos, tail, removalVars, run, pipeVars, historyVars>>

(* UnsubscribeSession: the gate without h.mu, then the record. *)
UnsubscribeGate(s, p) ==
  /\ Begin(s, "unsubscribe", p)
  /\ subs' = subs \ {<<p[1], s, p[2]>>}
  /\ Track(subs')
  /\ UNCHANGED <<registered, streams, identifiers, pos, tail, removalVars, run,
                 pipeVars, late>>

UnsubscribeRecord(s) ==
  /\ pc[s] = "unsubscribe"
  /\ ~MuHeld
  /\ streams' = [streams EXCEPT ![s] = RemoveStream(@, arg[s])]
  /\ Return(s)
  /\ UNCHANGED <<registered, identifiers, subs, pos, tail, calls, removalVars,
                 run, pipeVars, historyVars>>

(***************************************************************************)
(* UnsubscribeSessionFromChannel ranges over the slice it shrinks.  Go     *)
(* fixes the length of the range at the start and reads the cells of the   *)
(* backing array, and RemoveStream shifts those cells to the left: cell i  *)
(* is cell i of the shrunk slice followed by the cells left behind it.     *)
(***************************************************************************)
SweepStart(s, ch) ==
  /\ ~MuHeld
  /\ Begin(s, "sweep", <<NoPair[1], ch>>)
  /\ pos' = [pos EXCEPT ![s] = 1]
  /\ UNCHANGED <<registryVars, tail, removalVars, run, pipeVars, historyVars>>

Cells(s) == streams[s] \o tail[s]

SweepStep(s) ==
  LET x == Cells(s)[pos[s]]
      hit == x[2] = arg[s][2]
      gone == hit /\ HasRecord(streams[s], x)
  IN
  /\ pc[s] = "sweep"
  /\ pos[s] \in DOMAIN Cells(s)
  /\ pos' = [pos EXCEPT ![s] = @ + 1]
  /\ subs' = IF hit THEN subs \ {<<x[1], s, x[2]>>} ELSE subs
  /\ Track(subs')
  /\ streams' = IF hit THEN [streams EXCEPT ![s] = RemoveStream(@, x)] ELSE streams
  /\ tail' = IF gone THEN [tail EXCEPT ![s] = <<streams[s][Len(streams[s])]>> \o @]
                     ELSE tail
  /\ UNCHANGED <<registered, identifiers, pc, arg, calls, removalVars, run,
                 pipeVars, late>>

SweepEnd(s) ==
  /\ pc[s] = "sweep"
  /\ pos[s] \notin DOMAIN Cells(s)
  /\ Return(s)
  /\ pos' = [pos EXCEPT ![s] = 0]
  /\ tail' = [tail EXCEPT ![s] = <<>>]
  /\ UNCHANGED <<registryVars, calls, removalVars, run, pipeVars, historyVars>>
-----------------------------------------------------------------------------
(* Removal.  Node.Disconnect asks for it once per session. *)

RemoveSessionLater(s) ==
  /\ removal[s] = "none"
  /\ Len(register) < RegisterCap
  /\ removal' = [removal EXCEPT ![s] = "queued"]
  /\ register' = Append(register, s)
  /\ UNCHANGED <<registryVars, callVars, run, pipeVars, historyVars>>

(* The first section of RemoveSession: is the session registered at all? *)
CheckRegistered(s) ==
  /\ ~MuHeld
  /\ removal' = [removal EXCEPT ![s] = IF s \in registered THEN "checked" ELSE "done"]

RemoveSession(s) ==
  /\ removal[s] \in {"none", "leaving"}
  /\ CheckRegistered(s)
  /\ UNCHANGED <<registryVars, callVars, register, run, pipeVars, historyVars>>

RunRegister ==
  LET s == Head(register) IN
  /\ run.op = "select"
  /\ register # <<>>
  /\ CheckRegistered(s)
  /\ register' = Tail(register)
  /\ run' = IF s \in registered THEN [op |-> "remove", session |-> s] ELSE run
  /\ UNCHANGED <<registryVars, callVars, pipeVars, historyVars>>

(* mutant: only the first record is swept *)
RemoveSweep_FirstRecordOnly(s) ==
  /\ removal[s] = "checked"
  /\ ~MuHeld
  /\ subs' = {t \in subs : ~(t[2] = s /\ streams[s] # <<>> /\ Head(streams[s]) = <<t[1], t[3]>>)}
  /\ Track(subs')
  /\ removal' = [removal EXCEPT ![s] = "swept"]
  /\ UNCHANGED <<registered, streams, identifiers, callVars, register, run,
                 pipeVars, late>>

(* unsubscribeSessionFromAllChannels: the records stay in place. *)
RemoveSweep(s) ==
  /\ removal[s] = "checked"
  /\ ~MuHeld
  /\ subs' = {t \in subs : ~(t[2] = s /\ HasRecord(streams[s], <<t[1], t[3]>>))}
  /\ Track(subs')
  /\ removal' = [removal EXCEPT ![s] = "swept"]
  /\ UNCHANGED <<registered, streams, identifiers, callVars, register, run,
                 pipeVars, late>>

(* mutant: the identifier keeps the session *)
RemoveDelete_KeepsIdentifier(s) ==
  /\ removal[s] = "swept"
  /\ ~MuHeld
  /\ registered' = registered \ {s}
  /\ streams' = [streams EXCEPT ![s] = <<>>]
  /\ removal' = [removal EXCEPT ![s] = "done"]
  /\ run' = IF run = [op |-> "remove", session |-> s] THEN [op |-> "select"] ELSE run
  /\ UNCHANGED <<identifiers, subs, callVars, register, pipeVars, historyVars>>

RemoveDelete(s) ==
  /\ removal[s] = "swept"
  /\ ~MuHeld
  /\ registered' = registered \ {s}
  /\ streams' = [streams EXCEPT ![s] = <<>>]
  /\ identifiers' = [identifiers EXCEPT ![IdentOf[s]] = @ \ {s}]
  /\ removal' = [removal EXCEPT ![s] = "done"]
  /\ run' = IF run = [op |-> "remove", session |-> s] THEN [op |-> "select"] ELSE run
  /\ UNCHANGED <<subs, callVars, register, pipeVars, historyVars>>
-----------------------------------------------------------------------------
(* The broadcast pipeline. *)

BroadcastMessage(st, ex) ==
  /\ Len(log) < MaxMsgs
  /\ Len(broadcast) < BroadcastCap
  /\ log' = Append(log, [stream |-> st, exclude |-> ex])
  /\ broadcast' = Append(broadcast, Len(log) + 1)
  /\ owed' = [owed EXCEPT ![Len(log) + 1] = SubscribersIn(subs, st)]
  /\ may' = [may EXCEPT ![Len(log) + 1] = SubscribersIn(subs, st)]
  /\ UNCHANGED <<registryVars, callVars, removalVars, run, sender, sending,
                 targets, leaving, delivered, finished, late>>

(* Run takes a message; Gate.Broadcast drops it when nobody is subscribed. *)
RunBroadcast ==
  LET m == Head(broadcast)
      wanted == SubscribersIn(subs, log[m].stream) # {}
  IN
  /\ run.op = "select"
  /\ broadcast # <<>>
  /\ broadcast' = Tail(broadcast)
  /\ run' = IF wanted THEN [op |-> "send", msg |-> m] ELSE run
  /\ finished' = IF wanted THEN finished ELSE finished \cup {m}
  /\ UNCHANGED <<registryVars, callVars, removalVars, log, sender, sending,
                 targets, leaving, delivered, historyVars>>

(* mutant: any gate takes the message *)
RunForward_AnyGate ==
  /\ run.op = "send"
  /\ \E g \in Gates : /\ Len(sender[g]) < SenderCap
                      /\ sender' = [sender EXCEPT ![g] = Append(@, run.msg)]
  /\ run' = [op |-> "select"]
  /\ UNCHANGED <<registryVars, callVars, removalVars, log, broadcast, sending,
                 targets, leaving, delivered, finished, historyVars>>

(* mutant: the last slot of the queue is never used *)
RunForward_OneSlotShort ==
  LET g == GateOf[log[run.msg].stream] IN
  /\ run.op = "send"
  /\ Len(sender[g]) + 1 < SenderCap
  /\ sender' = [sender EXCEPT ![g] = Append(@, run.msg)]
  /\ run' = [op |-> "select"]
  /\ UNCHANGED <<registryVars, callVars, removalVars, log, broadcast, sending,
                 targets, leaving, delivered, finished, historyVars>>

(* Gate.Broadcast passes it to the gate's loop, waiting for room. *)
RunForward ==
  LET g == GateOf[log[run.msg].stream] IN
  /\ run.op = "send"
  /\ Len(sender[g]) < SenderCap
  /\ sender' = [sender EXCEPT ![g] = Append(@, run.msg)]
  /\ run' = [op |-> "select"]
  /\ UNCHANGED <<registryVars, callVars, removalVars, log, broadcast, sending,
                 targets, leaving, delivered, finished, historyVars>>

(* performBroadcast works on a snapshot of the stream's sessions ... *)
GateTake(g) ==
  LET m == Head(sender[g]) IN
  /\ sending[g] = 0
  /\ sender[g] # <<>>
  /\ sender' = [sender EXCEPT ![g] = Tail(@)]
  /\ sending' = [sending EXCEPT ![g] = m]
  /\ targets' = [targets EXCEPT ![g] = {p \in SubscribersIn(subs, log[m].stream) :
                                          p[1] # log[m].exclude}]
  /\ UNCHANGED <<registryVars, callVars, removalVars, run, log, broadcast,
                 leaving, delivered, finished, historyVars>>

(* ... sends to one after the other, in map order, holding no lock.  When  *)
(* the send buffer of a session is full, sendFrame disconnects the session *)
(* there and then: the gate loop runs Session.Disconnect and, the first    *)
(* time, Node.Disconnect ...                                               *)
GateSend(g, p) ==
  /\ sending[g] # 0
  /\ leaving[g] = NoSession
  /\ p \in targets[g]
  /\ delivered' = [delivered EXCEPT ![p[1]] = Append(@, <<sending[g], p[2]>>)]
  /\ targets' = [targets EXCEPT ![g] = @ \ {p}]
  /\ \/ UNCHANGED <<removal, leaving>>
     \/ /\ p[1] \in SlowSessions
        /\ removal[p[1]] = "none"
        /\ removal' = [removal EXCEPT ![p[1]] = "leaving"]
        /\ leaving' = [leaving EXCEPT ![g] = p[1]]
  /\ UNCHANGED <<registryVars, callVars, register, run, log, broadcast,
                 sender, sending, finished, historyVars>>

(* ... which waits for room in h.register, or, while the node shuts down,  *)
(* removes the session itself (RemoveSession above) ...                    *)
GateLeave(g) ==
  LET s == leaving[g] IN
  /\ s # NoSession
  /\ removal[s] = "leaving"
  /\ Len(register) < RegisterCap
  /\ removal' = [removal EXCEPT ![s] = "queued"]
  /\ register' = Append(register, s)
  /\ leaving' = [leaving EXCEPT ![g] = NoSession]
  /\ UNCHANGED <<registryVars, callVars, run, log, broadcast, sender, sending,
                 targets, delivered, finished, historyVars>>

GateResume(g) ==
  /\ leaving[g] # NoSession
  /\ removal[leaving[g]] = "done"
  /\ leaving' = [leaving EXCEPT ![g] = NoSession]
  /\ UNCHANGED <<registryVars, callVars, removalVars, run, log, broadcast, sender,
                 sending, targets, delivered, finished, historyVars>>

(* ... and takes the next message. *)
GateDone(g) ==
  /\ sending[g] # 0
  /\ leaving[g] = NoSession
  /\ targets[g] = {}
  /\ finished' = finished \cup {sending[g]}
  /\ sending' = [sending EXCEPT ![g] = 0]
  /\ UNCHANGED <<registryVars, callVars, removalVars, run, log, broadcast,
                 sender, targets, leaving, delivered, historyVars>>

(* Shutdown is received by Run between two events and ends its loop; what  *)
(* the channels still hold is left there.                                  *)
Shutdown ==
  /\ run.op = "select"
  /\ run' = [op |-> "stopped"]
  /\ UNCHANGED <<registryVars, callVars, removalVars, pipeVars, historyVars>>
-----------------------------------------------------------------------------
Commands(s) ==
  \/ \E p \in Pairs : SubscribeGate(s, p) \/ UnsubscribeGate(s, p)
  \/ \E ch \in Channels : SweepStart(s, ch)

Continue(s) ==
  SubscribeRecord(s) \/ UnsubscribeRecord(s) \/ SweepStep(s) \/ SweepEnd(s)

Removal(s) == RemoveSessionLater(s) \/ RemoveSession(s)

RemovalSteps(s) == RemoveSweep(s) \/ RemoveDelete(s)

Run == RunRegister \/ RunBroadcast \/ RunForward

GateLoop(g) ==
  \/ GateTake(g)
  \/ \E p \in Sessions \X Channels : GateSend(g, p)
  \/ GateLeave(g)
  \/ GateResume(g)
  \/ GateDone(g)

Next ==
  \/ \E s \in Sessions : \/ AddSession(s)
                         \/ Commands(s)
                         \/ Continue(s)
                         \/ Removal(s)
                         \/ RemovalSteps(s)
  \/ \E st \in Streams, ex \in Whisperers \cup {NoSession} : BroadcastMessage(st, ex)
  \/ Run
  \/ \E g \in Gates : GateLoop(g)
  \/ Shutdown

Spec == Init /\ [][Next]_vars

(***************************************************************************)
(* Every goroutine that is not waiting for a lock, a channel or an event   *)
(* is eventually scheduled, and Go's mutexes starve nobody.  Nothing is    *)
(* assumed of the callers: clients, publishers and Shutdown.               *)
(***************************************************************************)
Fairness ==
  /\ WF_vars(Run)
  /\ \A g \in Gates : WF_vars(GateLoop(g))
  /\ \A s \in Sessions : WF_vars(Continue(s)) /\ WF_vars(RemovalSteps(s))

FairSpec == Spec /\ Fairness
-----------------------------------------------------------------------------
Messages == [stream : Streams, exclude : Sessions \cup {NoSession}]

RegistryType ==
  /\ registered \subseteq Sessions
  /\ streams \in [Sessions -> Seq(Pairs)]
  /\ identifiers \in [Idents -> SUBSET Sessions]
  /\ subs \subseteq Streams \X Sessions \X Channels

CallType ==
  /\ pc \in [Sessions -> {"new", "idle", "subscribe", "unsubscribe", "sweep"}]
  /\ arg \in [Sessions -> Pairs]
  /\ pos \in [Sessions -> Nat]
  /\ tail \in [Sessions -> Seq(Pairs)]
  /\ calls \in [Sessions -> 0..MaxCalls]

RemovalType ==
  /\ removal \in [Sessions -> {"none", "leaving", "queued", "checked", "swept", "done"}]
  /\ register \in Seq(Sessions)

RunType ==
  run \in [op : {"select", "stopped"}]
          \cup [op : {"remove"}, session : Sessions]
          \cup [op : {"send"}, msg : MsgIds]

PipeType ==
  /\ log \in Seq(Messages)
  /\ broadcast \in Seq(MsgIds)
  /\ sender \in [Gates -> Seq(MsgIds)]
  /\ sending \in [Gates -> {0} \cup MsgIds]
  /\ targets \in [Gates -> SUBSET (Sessions \X Channels)]
  /\ leaving \in [Gates -> Sessions \cup {NoSession}]
  /\ delivered \in [Sessions -> Seq(MsgIds \X Channels)]
  /\ finished \subseteq MsgIds

HistoryType ==
  /\ owed \in [MsgIds -> SUBSET (Sessions \X Channels)]
  /\ may \in [MsgIds -> SUBSET (Sessions \X Channels)]
  /\ late \subseteq Sessions

Types ==
  RegistryType /\ CallType /\ RemovalType /\ RunType /\ PipeType /\ HistoryType

Capacities ==
  /\ Len(register) <= RegisterCap
  /\ Len(broadcast) <= BroadcastCap
  /\ \A g \in Gates : Len(sender[g]) <= SenderCap

(* Every variable keeps its type and every channel its capacity. *)
TypeOK == Types /\ Capacities
-----------------------------------------------------------------------------
(* Mid-call: the gate has the subscription, the record is still to come. *)
Subscribing(s, p) == pc[s] = "subscribe" /\ arg[s] = p

(***************************************************************************)
(* The two places a subscription is kept in agree: until RemoveSession has *)
(* swept the session, each subscription in a gate has a record in the      *)
(* session's HubSessionInfo (or SubscribeSession is about to add it), so   *)
(* unsubscribeSessionFromAllChannels finds all of them.                    *)
(***************************************************************************)
SubscriptionsTracked ==
  \A t \in subs :
    \/ HasRecord(streams[t[2]], <<t[1], t[3]>>)
    \/ Subscribing(t[2], <<t[1], t[3]>>)
    \/ removal[t[2]] \in {"swept", "done"}

NothingLeft(s) ==
  /\ s \notin registered
  /\ \A i \in Idents : s \notin identifiers[i]
  /\ \A t \in subs : t[2] # s

(***************************************************************************)
(* RemoveSession leaves nothing of a session in the registry, in the       *)
(* identifiers or in any gate, whatever ran concurrently, unless a call    *)
(* for that session recorded it (AddSession, or the second half of         *)
(* SubscribeSession) after RemoveSession had swept it.                     *)
(***************************************************************************)
CleanRemoval ==
  \A s \in Sessions :
    removal[s] = "done" /\ s \notin late /\ pc[s] # "subscribe" => NothingLeft(s)

(***************************************************************************)
(* A remote disconnect, which looks sessions up in h.identifiers, finds    *)
(* every registered session under its own identifier and nothing else;     *)
(* only a session recorded after its removal may be missing there.         *)
(***************************************************************************)
IdentifiersMatchSessions ==
  /\ \A i \in Idents : \A s \in identifiers[i] : s \in registered /\ IdentOf[s] = i
  /\ \A s \in registered \ late : s \in identifiers[IdentOf[s]]

(***************************************************************************)
(* A subscription receives the messages of its stream in the order of      *)
(* BroadcastMessage, none of them twice: h.broadcast, the gate's queue and *)
(* the gate's loop keep the order because a stream has one gate.           *)
(***************************************************************************)
DeliveredInOrder ==
  \A s \in Sessions : \A i, j \in DOMAIN delivered[s] :
    LET x == delivered[s][i]
        y == delivered[s][j]
    IN i < j /\ x[2] = y[2] /\ log[x[1]].stream = log[y[1]].stream => x[1] < y[1]

(***************************************************************************)
(* A session that stays subscribed from the moment a message is broadcast  *)
(* until the pipeline is done with it has been sent the message, once per  *)
(* channel, whatever other sessions do and however full the queues are;    *)
(* the sender of a whisper (ExcludeSocket) excepted.                       *)
(***************************************************************************)
SubscribedMissNothing ==
  \A m \in finished : \A p \in owed[m] :
    p[1] # log[m].exclude => HasRecord(delivered[p[1]], <<m, p[2]>>)

(***************************************************************************)
(* Nobody is sent a message of a stream it was not subscribed to, on that  *)
(* channel, at some moment since the broadcast; ExcludeSocket never is.    *)
(***************************************************************************)
OnlySubscribersReceive ==
  \A s \in Sessions : \A i \in DOMAIN delivered[s] :
    LET x == delivered[s][i]
    IN <<s, x[2]>> \in may[x[1]] /\ s # log[x[1]].exclude

(***************************************************************************)
(* The three together are what BroadcastMessage promises: whoever stays    *)
(* subscribed is sent the messages of the stream, all, in order and once,  *)
(* and nobody else is, while sessions subscribe, unsubscribe and leave     *)
(* between the steps of Run and of the gates.                              *)
(***************************************************************************)
DeliveryExact == DeliveredInOrder /\ SubscribedMissNothing /\ OnlySubscribersReceive

(***************************************************************************)
(* Run and the gate loops get every broadcast message through (deliver or  *)
(* drop it) unless the hub is shut down first.                             *)
(***************************************************************************)
EveryMessageHandled ==
  \A m \in MsgIds : m \in DOMAIN log ~> m \in finished \/ run.op = "stopped"

(***************************************************************************)
(* A session queued by RemoveSessionLater is eventually removed, even      *)
(* while Run is waiting for room in a gate's queue, unless the hub is shut *)
(* down first.                                                             *)
(***************************************************************************)
EveryRemovalCompletes ==
  \A s \in Sessions : removal[s] # "none" ~> removal[s] = "done" \/ run.op = "stopped"

(***************************************************************************)
(* Neither a message nor a removal is stuck in the hub: Run waits for room *)
(* in a gate's queue and the gates wait for h.mu and for sessions, and     *)
(* nevertheless both get through.                                          *)
(***************************************************************************)
HubProgress == EveryMessageHandled /\ EveryRemovalCompletes

(***************************************************************************)
(* What node.go:812 says of Node.Disconnect: "Make sure session is removed *)
(* from hub, so we don't try to send broadcast messages to them".          *)
(***************************************************************************)
RemovedSessionIsGone ==
  \A s \in Sessions : removal[s] = "done" /\ pc[s] = "idle" => NothingLeft(s)

(***************************************************************************)
(* What node.go:513 says of the StopAllStreams reply ("Make sure to remove *)
(* all streams subscriptions"): when UnsubscribeSessionFromChannel is over *)
(* the session has no subscription for that channel.                       *)
(***************************************************************************)
SweptChannelIsEmpty ==
  [][\A s \in Sessions : SweepEnd(s) => \A t \in subs : t[2] = s => t[3] # arg[s][2]]_vars
=============================================================================
