------------------------------ MODULE Presence ------------------------------
(***************************************************************************)
(* Presence tracking: the presence state of the in-memory broker           *)
(* (broker/memory.go), the commands that change it (node/node.go) and the  *)
(* expiration of the sessions that are gone.                               *)
(*                                                                         *)
(* The broker changes its state under presence.mu and returns an event or  *)
(* none; the event is broadcast after the lock has been released.  An      *)
(* observer that follows the events has a view of who is present.          *)
(*                                                                         *)
(* A deadline is kept as the time left until it, so that the clock needs   *)
(* no bound: NoDeadline, TTL down to 0, and then Past.                     *)
(***************************************************************************)
EXTENDS Integers

CONSTANTS
    Sessions,
    Streams,      \* presence streams
    Ids,          \* presence ids
    IdsOf,        \* the ids a session's client may use
    TTL,          \* config.PresenceTTL
    Unsubscribes, \* clients unsubscribe without leaving first
    Reconnects,   \* clients come back
    CloseAnytime  \* a connection may close while a command is running

ASSUME PresenceAssumption ==
    /\ IdsOf \in [Sessions -> SUBSET Ids] /\ TTL \in Nat
    /\ Unsubscribes \in BOOLEAN /\ Reconnects \in BOOLEAN /\ CloseAnytime \in BOOLEAN

VARIABLES
    open,     \* the sessions that are connected
    cmd,      \* the command a session's goroutine is running
    event,    \* the event it is going to broadcast
    records,  \* presence.streams: the pairs <<stream, id>> that have an entry
    members,  \* the sessions of an entry
    known,    \* the keys of presence.sessions
    joined,   \* presence.sessions[sid].streams, as pairs <<stream, id>>
    left,     \* the time left until presence.sessions[sid].deadline
    leaves,   \* the leave messages the expiration loop has still to broadcast
    view,     \* the pairs present for one who follows the events
    unsure,   \* history: pairs with an event dropped or two events in flight
    late      \* history: sessions that joined after their connection closed

stateVars == <<records, members, known, joined, left>>
history == <<unsure, late>>
vars == <<open, cmd, event, stateVars, leaves, view, history>>

Pairs == Streams \X Ids
NoDeadline == TTL + 1
Past == -1
Idle == [op |-> "idle"]
NoEvent == [type |-> "none"]
Event(type, pair) == [type |-> type, pair |-> pair]

Init ==
    /\ open = Sessions
    /\ cmd = [s \in Sessions |-> Idle]
    /\ event = [s \in Sessions |-> NoEvent]
    /\ records = {} /\ members = [p \in Pairs |-> {}]
    /\ known = {} /\ joined = [s \in Sessions |-> {}]
    /\ left = [s \in Sessions |-> NoDeadline]
    /\ leaves = {} /\ view = {}
    /\ unsure = {} /\ late = {}

\* an event about the pair has been decided on and not been broadcast yet
InFlight(pair) ==
    \/ \E s \in Sessions : event[s] # NoEvent /\ event[s].pair = pair
    \/ pair \in leaves

-----------------------------------------------------------------------------
(* The commands of a session.                                              *)

\* PresenceJoin: the subscription is checked
StartJoin(s) ==
    /\ s \in open /\ cmd[s] = Idle
    /\ \E st \in Streams, id \in IdsOf[s] :
           cmd' = [cmd EXCEPT ![s] = [op |-> "join", stream |-> st, id |-> id]]
    /\ UNCHANGED <<open, event, stateVars, leaves, view, history>>

\* PresenceLeave, or Unsubscribe from the channel of a presence stream
StartLeave(s) ==
    /\ s \in open /\ cmd[s] = Idle
    /\ \E st \in Streams, op \in {"leave", "unsubscribe"} :
           /\ op = "unsubscribe" => Unsubscribes
           /\ cmd' = [cmd EXCEPT ![s] = [op |-> op, stream |-> st]]
    /\ UNCHANGED <<open, event, stateVars, leaves, view, history>>

PidsOf(s, st) == {p \in joined[s] : p[1] = st}

\* PresenceAdd, under presence.mu; a second id for a stream is refused
PresenceAdd(s) ==
    /\ cmd[s].op = "join"
    /\ known' = known \cup {s}
    /\ LET pair == <<cmd[s].stream, cmd[s].id>>
           mismatch == PidsOf(s, cmd[s].stream) \ {pair} # {}
       IN  \/ /\ mismatch
              /\ event' = event
              /\ UNCHANGED <<records, members, joined, history>>
           \/ /\ ~mismatch
              /\ joined' = [joined EXCEPT ![s] = @ \cup {pair}]
              /\ records' = records \cup {pair}
              /\ members' = [members EXCEPT ![pair] = @ \cup {s}]
              /\ event' = [event EXCEPT ![s] =
                     IF pair \in records THEN NoEvent ELSE Event("join", pair)]
              /\ unsure' = unsure \cup {p \in {pair} \ records : InFlight(p)}
              /\ late' = late \cup ({s} \ open)
    /\ cmd' = [cmd EXCEPT ![s] = [op |-> "send"]]
    /\ UNCHANGED <<open, left, leaves, view>>

\* presenceEntry.remove tells that the last session has gone
Emptied(pair, s) == members[pair] = {s}

\* PresenceRemove, under presence.mu; Unsubscribe drops the event.  A session
\* that has left its last stream has no entry, and no deadline, any more.
PresenceRemove(s) ==
    /\ cmd[s].op \in {"leave", "unsubscribe"}
    /\ \/ /\ PidsOf(s, cmd[s].stream) = {}
          /\ UNCHANGED <<records, members, known, joined, left, event, unsure>>
       \/ \E pair \in PidsOf(s, cmd[s].stream) :
              /\ joined' = [joined EXCEPT ![s] = @ \ {pair}]
              /\ known' = IF joined'[s] = {} THEN known \ {s} ELSE known
              /\ left' = [left EXCEPT ![s] = IF s \in known' THEN @ ELSE NoDeadline]
              /\ members' = [members EXCEPT ![pair] = @ \ {s}]
              /\ records' = IF Emptied(pair, s) THEN records \ {pair} ELSE records
              /\ event' = [event EXCEPT ![s] =
                     IF Emptied(pair, s) /\ cmd[s].op = "leave" THEN Event("leave", pair)
                                                                ELSE NoEvent]
              /\ unsure' = IF Emptied(pair, s) /\ (cmd[s].op = "unsubscribe" \/ InFlight(pair))
                           THEN unsure \cup {pair} ELSE unsure
    /\ cmd' = [cmd EXCEPT ![s] = [op |-> "send"]]
    /\ UNCHANGED <<open, leaves, view, late>>

\* one who follows the events
Follow(e, seen) ==
    CASE e.type = "join"  -> seen \cup {e.pair}
      [] e.type = "leave" -> seen \ {e.pair}
      [] OTHER -> seen

\* handlePresenceReply: n.Broadcast, if there is an event
Send(s) ==
    /\ cmd[s].op = "send"
    /\ view' = Follow(event[s], view)
    /\ event' = [event EXCEPT ![s] = NoEvent]
    /\ cmd' = [cmd EXCEPT ![s] = Idle]
    /\ UNCHANGED <<open, stateVars, leaves, history>>

-----------------------------------------------------------------------------
(* The end of a session.                                                   *)

\* mutant: FinishPresence is not called
Close_NotFinished(s) ==
    /\ s \in open
    /\ CloseAnytime \/ cmd[s] = Idle
    /\ open' = open \ {s}
    /\ UNCHANGED <<cmd, event, stateVars, leaves, view, history>>

\* Node.Disconnect: FinishPresence
Close(s) ==
    /\ s \in open
    /\ CloseAnytime \/ cmd[s] = Idle
    /\ open' = open \ {s}
    /\ left' = [left EXCEPT ![s] = IF s \in known THEN TTL ELSE @]
    /\ UNCHANGED <<cmd, event, records, members, known, joined, leaves, view, history>>

\* a new connection: a session id that the state has forgotten
Connect(s) ==
    /\ Reconnects
    /\ s \notin open /\ s \notin known /\ cmd[s] = Idle
    /\ open' = open \cup {s}
    /\ UNCHANGED <<cmd, event, stateVars, leaves, view, history>>

Tick ==
    /\ left' = [s \in Sessions |-> IF left[s] \in 0..TTL THEN left[s] - 1 ELSE left[s]]
    /\ left' # left
    /\ UNCHANGED <<open, cmd, event, records, members, known, joined, leaves, view, history>>

\* mutant: nobody is told
ExpirePresence_Silent ==
    /\ leaves = {}
    /\ LET gone == {s \in known : left[s] = Past}
           emptied == {p \in records : members[p] # {} /\ members[p] \subseteq gone}
       IN  /\ gone # {}
           /\ known' = known \ gone
           /\ joined' = [s \in Sessions |-> IF s \in gone THEN {} ELSE joined[s]]
           /\ left' = [s \in Sessions |-> IF s \in gone THEN NoDeadline ELSE left[s]]
           /\ members' = [p \in Pairs |-> members[p] \ gone]
           /\ records' = records \ emptied
    /\ UNCHANGED <<open, cmd, event, leaves, view, history>>

\* expirePresence, under presence.mu: the sessions past their deadline leave
\* all their streams; the messages follow
ExpirePresence ==
    /\ leaves = {}
    /\ LET gone == {s \in known : left[s] = Past}
           emptied == {p \in records : members[p] # {} /\ members[p] \subseteq gone}
       IN  /\ gone # {}
           /\ known' = known \ gone
           /\ joined' = [s \in Sessions |-> IF s \in gone THEN {} ELSE joined[s]]
           /\ left' = [s \in Sessions |-> IF s \in gone THEN NoDeadline ELSE left[s]]
           /\ members' = [p \in Pairs |-> members[p] \ gone]
           /\ records' = records \ emptied
           /\ leaves' = emptied
           /\ unsure' = unsure \cup {p \in emptied : InFlight(p)}
    /\ UNCHANGED <<open, cmd, event, view, late>>

\* the leave messages, after the lock is released, in the order of the maps
\* that expirePresence ranged over, which is any
SendLeave ==
    /\ \E pair \in leaves :
           /\ view' = Follow(Event("leave", pair), view)
           /\ leaves' = leaves \ {pair}
    /\ UNCHANGED <<open, cmd, event, stateVars, history>>

Command(s) == PresenceAdd(s) \/ PresenceRemove(s) \/ Send(s)
Expiration == ExpirePresence \/ SendLeave

Next ==
    \/ \E s \in Sessions :
           StartJoin(s) \/ StartLeave(s) \/ Command(s) \/ Close(s) \/ Connect(s)
    \/ Tick \/ Expiration

Spec == Init /\ [][Next]_vars

\* the goroutines are scheduled, time passes and expireLoop goes round
FairSpec ==
    /\ Spec
    /\ \A s \in Sessions : WF_vars(Command(s))
    /\ WF_vars(Tick) /\ WF_vars(Expiration)

-----------------------------------------------------------------------------

\* Every variable keeps its type; a session has at most one id in a stream.
TypeOK ==
    /\ open \subseteq Sessions /\ known \subseteq Sessions
    /\ \A s \in Sessions : cmd[s].op \in {"idle", "join", "leave", "unsubscribe", "send"}
    /\ \A s \in Sessions : event[s].type \in {"none", "join", "leave"}
    /\ records \subseteq Pairs /\ members \in [Pairs -> SUBSET Sessions]
    /\ joined \in [Sessions -> SUBSET Pairs]
    /\ \A s \in Sessions : \A p, q \in joined[s] : p[1] = q[1] => p = q
    /\ left \in [Sessions -> Past..NoDeadline]
    /\ leaves \subseteq Pairs /\ view \subseteq Pairs
    /\ unsure \subseteq Pairs /\ late \subseteq Sessions

\* The two halves of the presence state agree: a session is in a record exactly
\* when it has the record among its streams, no record is without a session, and
\* PresenceRemove and expirePresence leave nothing behind.
RecordsMatchSessions ==
    /\ \A s \in Sessions, p \in Pairs : s \in members[p] <=> p \in joined[s]
    /\ \A p \in Pairs : p \in records <=> members[p] # {}
    /\ \A s \in Sessions : joined[s] # {} => s \in known

Quiet == leaves = {} /\ \A s \in Sessions : event[s] = NoEvent

\* One who follows the join and leave events knows who is present.
ViewMatches == Quiet => view = records

\* One who follows the events knows whether an id is present, however the
\* commands of its sessions, the ends of their connections and the expiration
\* interleave, except for two cases: Unsubscribe took the last session away and
\* told nobody, or an event was decided on while another one for the same id was
\* still to be broadcast, so that they may have arrived in the opposite order.
FollowersAgree ==
    Quiet => \A p \in Pairs \ unsure : p \in view <=> p \in records

\* The presence state is consistent, and so is what its followers know of it.
PresenceAgrees == RecordsMatchSessions /\ FollowersAgree

\* A session whose connection is gone is not present for ever: FinishPresence
\* sets its deadline and the expiration takes it out of every record.  The
\* exception is a join that was still running when the connection closed, whose
\* entry has no deadline.
ClosedSessionsLeave ==
    \A s \in Sessions :
        s \notin open ~> (s \in open \cup late \/ \A p \in Pairs : s \notin members[p])
=============================================================================
