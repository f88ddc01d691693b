--------------------------- MODULE PresenceProofs ---------------------------
(***************************************************************************)
(* The presence state of the broker and what its followers know of it      *)
(* agree, for any sessions, streams, ids and TTL.                          *)
(*                                                                         *)
(* PresenceAgrees looks at the moments in which nothing is in flight.  The *)
(* inductive invariant says what is in flight at the others: an id that is *)
(* not unsure has at most one event on its way, and that event tells what  *)
(* the records say now, so that whoever applies it is up to date again.    *)
(* An event cannot be overwritten before it is broadcast, because only a   *)
(* session that is about to send has one.                                  *)
(***************************************************************************)
EXTENDS Presence, TLAPS

\* the commands a session's goroutine may be running
Commands ==
    {Idle, [op |-> "send"]} \cup [op : {"join"}, stream : Streams, id : Ids]
        \cup [op : {"leave", "unsubscribe"}, stream : Streams]

\* the events the broker may have returned
Events == {NoEvent} \cup [type : {"join", "leave"}, pair : Pairs]

\* the types the argument needs
PTypes ==
    /\ cmd \in [Sessions -> Commands] /\ event \in [Sessions -> Events]
    /\ records \subseteq Pairs /\ members \in [Pairs -> SUBSET Sessions]
    /\ joined \in [Sessions -> SUBSET Pairs]
    /\ leaves \subseteq Pairs

\* the event that session s is going to broadcast is about the pair
Tells(s, pair) == event[s] # NoEvent /\ event[s].pair = pair

\* only a session that is about to send has an event
Sending == \A s \in Sessions : event[s] # NoEvent => cmd[s].op = "send"

\* what is in flight about a pair: one event, which tells what the records say,
\* or nothing, and then the followers know
FlightOK(p) ==
    /\ \A s, t \in Sessions : Tells(s, p) /\ Tells(t, p) => s = t
    /\ \A s \in Sessions : Tells(s, p) => p \notin leaves
    /\ \A s \in Sessions : Tells(s, p) => (event[s].type = "join" <=> p \in records)
    /\ p \in leaves => p \notin records
    /\ ~InFlight(p) => (p \in view <=> p \in records)

\* the inductive invariant of Presence
PInv ==
    /\ PTypes /\ RecordsMatchSessions /\ Sending
    /\ \A p \in Pairs \ unsure : FlightOK(p)

-----------------------------------------------------------------------------

\* an event is not the absence of one, and has its parts
LEMMA EventParts ==
    ASSUME NEW type \in {"join", "leave"}, NEW p
    PROVE  /\ Event(type, p) # NoEvent
           /\ Event(type, p).type = type /\ Event(type, p).pair = p
BY Zenon DEF Event, NoEvent

\* The types are kept.
LEMMA PTypesStep ==
    ASSUME PTypes, [Next]_vars
    PROVE  PTypes'
<1> USE DEF PTypes
<1>1. ASSUME NEW s \in Sessions, StartJoin(s) PROVE PTypes'
    <2>1. PICK st \in Streams, id \in IdsOf[s] :
              cmd' = [cmd EXCEPT ![s] = [op |-> "join", stream |-> st, id |-> id]]
        BY <1>1, Zenon DEF StartJoin
    <2>2. id \in Ids
        BY PresenceAssumption, Zenon
    <2>3. [op |-> "join", stream |-> st, id |-> id] \in Commands
        BY <2>2, Zenon DEF Commands
    <2>4. cmd' \in [Sessions -> Commands]
        BY <2>1, <2>3, Zenon
    <2> QED  BY <1>1, <2>4, Zenon DEF StartJoin, stateVars
<1>2. ASSUME NEW s \in Sessions, StartLeave(s) PROVE PTypes'
    <2>1. PICK st \in Streams, op \in {"leave", "unsubscribe"} :
              cmd' = [cmd EXCEPT ![s] = [op |-> op, stream |-> st]]
        BY <1>2, Zenon DEF StartLeave
    <2>2. [op |-> op, stream |-> st] \in Commands
        BY Zenon DEF Commands
    <2>3. cmd' \in [Sessions -> Commands]
        BY <2>1, <2>2, Zenon
    <2> QED  BY <1>2, <2>3, Zenon DEF StartLeave, stateVars
<1>3. [op |-> "send"] \in Commands /\ Idle \in Commands /\ NoEvent \in Events
    BY Zenon DEF Commands, Events
<1>4. ASSUME NEW type \in {"join", "leave"}, NEW p \in Pairs PROVE Event(type, p) \in Events
    BY Zenon DEF Events, Event
<1>5. ASSUME NEW s \in Sessions, PresenceAdd(s) PROVE PTypes'
    <2> DEFINE pair == <<cmd[s].stream, cmd[s].id>>
    <2>1. pair \in Pairs
        BY <1>5 DEF PresenceAdd, Commands, Idle, Pairs
    <2>2. cmd' \in [Sessions -> Commands]
        BY <1>5, <1>3, Zenon DEF PresenceAdd
    <2>3. event' = event \/ event' = [event EXCEPT ![s] =
                     IF pair \in records THEN NoEvent ELSE Event("join", pair)]
        BY <1>5, Zenon DEF PresenceAdd
    <2>4. event' \in [Sessions -> Events]
        BY <2>1, <2>3, <1>3, <1>4, ZenonT(60)
    <2>5. \/ UNCHANGED <<records, members, joined>>
          \/ /\ joined' = [joined EXCEPT ![s] = @ \cup {pair}]
             /\ records' = records \cup {pair}
             /\ members' = [members EXCEPT ![pair] = @ \cup {s}]
        BY <1>5, Zenon DEF PresenceAdd
    <2>6. /\ records' \subseteq Pairs /\ members' \in [Pairs -> SUBSET Sessions]
          /\ joined' \in [Sessions -> SUBSET Pairs]
        BY <2>1, <2>5, SMTT(30)
    <2>7. leaves' = leaves
        BY <1>5, Zenon DEF PresenceAdd
    <2> QED  BY <2>2, <2>4, <2>6, <2>7, Zenon
<1>6. ASSUME NEW s \in Sessions, PresenceRemove(s) PROVE PTypes'
    <2>1. cmd' \in [Sessions -> Commands] /\ leaves' = leaves
        BY <1>6, <1>3, Zenon DEF PresenceRemove
    <2>2. CASE UNCHANGED <<records, members, joined, event>>
        BY <2>1, <2>2, Zenon
    <2>3. ASSUME NEW pair \in PidsOf(s, cmd[s].stream),
                 joined' = [joined EXCEPT ![s] = @ \ {pair}],
                 members' = [members EXCEPT ![pair] = @ \ {s}],
                 records' = IF Emptied(pair, s) THEN records \ {pair} ELSE records,
                 event' = [event EXCEPT ![s] =
                     IF Emptied(pair, s) /\ cmd[s].op = "leave" THEN Event("leave", pair)
                                                                ELSE NoEvent]
          PROVE  PTypes'
        <3>1. pair \in Pairs
            BY <2>3, Zenon DEF PidsOf
        <3>2. event' \in [Sessions -> Events]
            BY <2>3, <3>1, <1>3, <1>4, Zenon
        <3>3. /\ records' \subseteq Pairs /\ members' \in [Pairs -> SUBSET Sessions]
              /\ joined' \in [Sessions -> SUBSET Pairs]
            BY <2>3, <3>1, Zenon
        <3> QED  BY <2>1, <3>2, <3>3, Zenon
    <2> QED  BY <1>6, <2>2, <2>3, Zenon DEF PresenceRemove
<1>7. ASSUME NEW s \in Sessions, Send(s) PROVE PTypes'
    BY <1>3, <1>7, Zenon DEF Send, stateVars
<1>8. ASSUME NEW s \in Sessions, Close(s) \/ Connect(s) PROVE PTypes'
    BY <1>8, Zenon DEF Close, Connect, stateVars
<1>9. CASE Tick
    BY <1>9, Zenon DEF Tick
<1>10. CASE ExpirePresence
    BY <1>10, Zenon DEF ExpirePresence
<1>11. CASE SendLeave
    BY <1>11, Zenon DEF SendLeave, stateVars
<1>12. CASE UNCHANGED vars
    BY <1>12, Zenon DEF vars, stateVars
<1> QED
    BY <1>1, <1>2, <1>5, <1>6, <1>7, <1>8, <1>9, <1>10, <1>11, <1>12, Zenon
    DEF Next, Command, Expiration

\* The two halves of the state are changed together: PresenceAdd and
\* PresenceRemove write both, and so does the expiration.
LEMMA RecordsStep ==
    ASSUME PTypes, RecordsMatchSessions, [Next]_vars
    PROVE  RecordsMatchSessions'
<1>1. CASE UNCHANGED <<records, members, joined, known>>
    BY <1>1, Zenon DEF RecordsMatchSessions
<1>2. ASSUME NEW s \in Sessions, PresenceAdd(s) PROVE RecordsMatchSessions'
    <2> DEFINE pair == <<cmd[s].stream, cmd[s].id>>
    <2>1. pair \in Pairs
        BY <1>2 DEF PresenceAdd, PTypes, Commands, Idle, Pairs
    <2>2. known' = known \cup {s}
        BY <1>2, Zenon DEF PresenceAdd
    <2>3. CASE UNCHANGED <<records, members, joined>>
        BY <2>2, <2>3, Zenon DEF RecordsMatchSessions
    <2>4. CASE /\ joined' = [joined EXCEPT ![s] = @ \cup {pair}]
               /\ records' = records \cup {pair}
               /\ members' = [members EXCEPT ![pair] = @ \cup {s}]
        <3> HIDE DEF pair
        <3> QED  BY <2>1, <2>2, <2>4, Zenon DEF RecordsMatchSessions, PTypes
    <2> QED  BY <1>2, <2>3, <2>4, Zenon DEF PresenceAdd
<1>3. ASSUME NEW s \in Sessions, PresenceRemove(s) PROVE RecordsMatchSessions'
    <2>1. CASE UNCHANGED <<records, members, joined, known>>
        BY <2>1, <1>1, Zenon
    <2>2. ASSUME NEW pair \in PidsOf(s, cmd[s].stream),
                 joined' = [joined EXCEPT ![s] = @ \ {pair}],
                 known' = IF joined'[s] = {} THEN known \ {s} ELSE known,
                 members' = [members EXCEPT ![pair] = @ \ {s}],
                 records' = IF Emptied(pair, s) THEN records \ {pair} ELSE records
          PROVE  RecordsMatchSessions'
        <3>1. pair \in Pairs /\ pair \in joined[s]
            BY <2>2, Zenon DEF PidsOf, PTypes
        <3>2. s \in members[pair]
            BY <3>1, Zenon DEF RecordsMatchSessions
        <3>3. \A t \in Sessions, p \in Pairs : t \in members'[p] <=> p \in joined'[t]
            BY <2>2, <3>1, Zenon DEF RecordsMatchSessions, PTypes
        <3>4. \A p \in Pairs : p \in records' <=> members'[p] # {}
            BY <2>2, <3>1, <3>2, ZenonT(60) DEF RecordsMatchSessions, PTypes, Emptied
        <3>5. \A t \in Sessions : joined'[t] # {} => t \in known'
            BY <2>2, <3>1, Zenon DEF RecordsMatchSessions, PTypes
        <3> QED  BY <3>3, <3>4, <3>5, Zenon DEF RecordsMatchSessions
    <2> QED  BY <1>3, <2>1, <2>2, Zenon DEF PresenceRemove
<1>4. CASE ExpirePresence
    <2> DEFINE gone == {s \in known : left[s] = Past}
               emptied == {p \in records : members[p] # {} /\ members[p] \subseteq gone}
    <2>1. /\ known' = known \ gone
          /\ joined' = [s \in Sessions |-> IF s \in gone THEN {} ELSE joined[s]]
          /\ members' = [p \in Pairs |-> members[p] \ gone]
          /\ records' = records \ emptied
        BY <1>4, Zenon DEF ExpirePresence
    <2>2. \A p : p \in emptied <=> p \in records /\ members[p] # {} /\ members[p] \subseteq gone
        BY Zenon
    <2> HIDE DEF gone, emptied
    <2>3. \A t \in Sessions, p \in Pairs : t \in members'[p] <=> p \in joined'[t]
        BY <2>1, Zenon DEF RecordsMatchSessions
    <2>4. \A p \in Pairs : p \in records' <=> members'[p] # {}
        BY <2>1, <2>2, Zenon DEF RecordsMatchSessions, PTypes
    <2>5. \A t \in Sessions : joined'[t] # {} => t \in known'
        BY <2>1, Zenon DEF RecordsMatchSessions
    <2> QED  BY <2>3, <2>4, <2>5, Zenon DEF RecordsMatchSessions
<1>5. ASSUME NEW s \in Sessions,
             StartJoin(s) \/ StartLeave(s) \/ Send(s) \/ Close(s) \/ Connect(s)
      PROVE  UNCHANGED <<records, members, joined, known>>
    BY <1>5, Zenon DEF StartJoin, StartLeave, Send, Close, Connect, stateVars
<1>6. Tick \/ SendLeave \/ UNCHANGED vars => UNCHANGED <<records, members, joined, known>>
    BY Zenon DEF Tick, SendLeave, vars, stateVars
<1> QED
    BY <1>1, <1>2, <1>3, <1>4, <1>5, <1>6, Zenon DEF Next, Command, Expiration

\* A session whose event is waiting runs no other command first.
LEMMA SendingStep ==
    ASSUME PTypes, Sending, [Next]_vars
    PROVE  Sending'
<1> USE DEF Sending
<1>1. ASSUME NEW s \in Sessions, StartJoin(s) \/ StartLeave(s) PROVE Sending'
    <2>1. event' = event /\ cmd[s].op = "idle" /\ \A t \in Sessions \ {s} : cmd'[t] = cmd[t]
        BY <1>1 DEF StartJoin, StartLeave, Idle, PTypes
    <2> QED  BY <2>1, Zenon
<1>2. ASSUME NEW s \in Sessions, PresenceAdd(s) \/ PresenceRemove(s) PROVE Sending'
    <2>1. cmd' = [cmd EXCEPT ![s] = [op |-> "send"]]
        BY <1>2, Zenon DEF PresenceAdd, PresenceRemove
    <2>2. \A t \in Sessions \ {s} : event'[t] = event[t]
        BY <1>2, Zenon DEF PresenceAdd, PresenceRemove, PTypes
    <2> QED  BY <2>1, <2>2, Zenon DEF PTypes
<1>3. ASSUME NEW s \in Sessions, Send(s) PROVE Sending'
    BY <1>3, Zenon DEF Send, PTypes
<1>4. ASSUME NEW s \in Sessions, Close(s) \/ Connect(s) PROVE Sending'
    BY <1>4, Zenon DEF Close, Connect
<1>5. CASE Tick \/ ExpirePresence \/ SendLeave \/ UNCHANGED vars
    BY <1>5, Zenon DEF Tick, ExpirePresence, SendLeave, vars
<1> QED  BY <1>1, <1>2, <1>3, <1>4, <1>5, Zenon DEF Next, Command, Expiration

\* What is in flight about a pair that a step does not concern stays as it was.
LEMMA FlightUnmoved ==
    ASSUME NEW p, FlightOK(p),
           \A s \in Sessions : Tells(s, p)' <=> Tells(s, p),
           \A s \in Sessions : Tells(s, p) => event'[s] = event[s],
           p \in records' <=> p \in records, p \in leaves' <=> p \in leaves,
           p \in view' <=> p \in view
    PROVE  FlightOK(p)'
<1>1. InFlight(p)' <=> InFlight(p)
    BY Zenon DEF InFlight, Tells
<1> QED  BY <1>1, Zenon DEF FlightOK

\* A pair of which nothing is in flight, and of which one session now tells what
\* the records say.
LEMMA FlightBegins ==
    ASSUME NEW p, NEW s \in Sessions, ~InFlight(p),
           \A t \in Sessions \ {s} : event'[t] = event[t],
           event'[s] # NoEvent, event'[s].pair = p,
           event'[s].type = "join" <=> p \in records', p \notin leaves'
    PROVE  FlightOK(p)'
<1>1. \A t \in Sessions : Tells(t, p)' => t = s
    BY Zenon DEF InFlight, Tells
<1>2. InFlight(p)'
    BY Zenon DEF InFlight
<1> QED  BY <1>1, <1>2, Zenon DEF FlightOK

\* PresenceAdd decides on a join event only when it makes the entry.
LEMMA AddFlight ==
    ASSUME PTypes, Sending, NEW s \in Sessions, PresenceAdd(s),
           NEW p \in Pairs \ unsure', p \notin unsure => FlightOK(p)
    PROVE  FlightOK(p)'
<1> DEFINE pair == <<cmd[s].stream, cmd[s].id>>
<1>1. event[s] = NoEvent /\ leaves' = leaves /\ view' = view
    BY Zenon DEF PresenceAdd, Sending
<1>2. CASE event' = event /\ records' = records /\ unsure' = unsure
    BY <1>1, <1>2, FlightUnmoved, Zenon DEF Tells
<1>3. CASE /\ records' = records \cup {pair}
           /\ event' = [event EXCEPT ![s] =
                  IF pair \in records THEN NoEvent ELSE Event("join", pair)]
           /\ unsure' = unsure \cup {q \in {pair} \ records : InFlight(q)}
    <2> HIDE DEF pair
    <2>1. p \notin unsure /\ FlightOK(p)
        BY <1>3, Zenon
    <2>2. \A t \in Sessions \ {s} : event'[t] = event[t]
        BY <1>3, Zenon DEF PTypes
    <2>3. CASE pair \in records
        <3>1. event'[s] = event[s] /\ records' = records
            BY <1>1, <1>3, <2>3, Zenon DEF PTypes
        <3> QED  BY <1>1, <2>1, <2>2, <3>1, FlightUnmoved, Zenon DEF Tells
    <2>4. CASE pair \notin records
        <3>1. event'[s] = Event("join", pair)
            BY <1>3, <2>4, Zenon DEF PTypes
        <3>2. event'[s] # NoEvent /\ event'[s].type = "join" /\ event'[s].pair = pair
            BY <3>1, EventParts, ZenonT(60)
        <3>3. CASE p = pair
            <4>1. ~InFlight(p)
                BY <1>3, <2>4, <3>3, Zenon
            <4>2. p \notin leaves' /\ p \in records'
                BY <1>1, <1>3, <3>3, <4>1, Zenon DEF InFlight
            <4> QED  BY <2>2, <3>2, <3>3, <4>1, <4>2, FlightBegins, Zenon
        <3>4. CASE p # pair
            <4>1. \A t \in Sessions : Tells(t, p)' <=> Tells(t, p)
                BY <1>1, <2>2, <3>2, <3>4, Zenon DEF Tells
            <4>2. \A t \in Sessions : Tells(t, p) => event'[t] = event[t]
                BY <1>1, <2>2, Zenon DEF Tells
            <4>3. p \in records' <=> p \in records
                BY <1>3, <3>4, Zenon
            <4> QED  BY <1>1, <2>1, <4>1, <4>2, <4>3, FlightUnmoved, Zenon
        <3> QED  BY <3>3, <3>4, Zenon
    <2> QED  BY <2>3, <2>4, Zenon
<1> QED  BY <1>2, <1>3, Zenon DEF PresenceAdd, history

\* PresenceRemove decides on a leave event only when the entry goes; what
\* Unsubscribe tells nobody makes the pair unsure.
LEMMA RemoveFlight ==
    ASSUME PTypes, Sending, NEW s \in Sessions, PresenceRemove(s),
           NEW p \in Pairs \ unsure', p \notin unsure => FlightOK(p)
    PROVE  FlightOK(p)'
<1>1. event[s] = NoEvent /\ leaves' = leaves /\ view' = view
    BY Zenon DEF PresenceRemove, Sending
<1>2. CASE event' = event /\ records' = records /\ unsure' = unsure
    BY <1>1, <1>2, FlightUnmoved, Zenon DEF Tells
<1>3. ASSUME NEW pair \in PidsOf(s, cmd[s].stream),
             records' = IF Emptied(pair, s) THEN records \ {pair} ELSE records,
             event' = [event EXCEPT ![s] =
                 IF Emptied(pair, s) /\ cmd[s].op = "leave" THEN Event("leave", pair)
                                                            ELSE NoEvent],
             unsure' = IF Emptied(pair, s) /\ (cmd[s].op = "unsubscribe" \/ InFlight(pair))
                       THEN unsure \cup {pair} ELSE unsure
      PROVE  FlightOK(p)'
    <2>1. p \notin unsure /\ FlightOK(p)
        BY <1>3, Zenon
    <2>2. \A t \in Sessions \ {s} : event'[t] = event[t]
        BY <1>3, Zenon DEF PTypes
    <2>3. event'[s] = IF Emptied(pair, s) /\ cmd[s].op = "leave" THEN Event("leave", pair)
                                                                 ELSE NoEvent
        BY <1>3, Zenon DEF PTypes
    <2>4. CASE ~Emptied(pair, s)
        <3>1. event'[s] = event[s] /\ records' = records
            BY <1>1, <1>3, <2>3, <2>4, Zenon
        <3> QED  BY <1>1, <2>1, <2>2, <3>1, FlightUnmoved, Zenon DEF Tells
    <2>5. CASE Emptied(pair, s) /\ p # pair
        <3>1. event'[s] = NoEvent \/ (event'[s] # NoEvent /\ event'[s].pair # p)
            BY <2>3, <2>5, EventParts, ZenonT(60)
        <3>2. \A t \in Sessions : Tells(t, p)' <=> Tells(t, p)
            BY <1>1, <2>2, <3>1, Zenon DEF Tells
        <3>3. \A t \in Sessions : Tells(t, p) => event'[t] = event[t]
            BY <1>1, <2>2, Zenon DEF Tells
        <3>4. p \in records' <=> p \in records
            BY <1>3, <2>5, Zenon
        <3> QED  BY <1>1, <2>1, <3>2, <3>3, <3>4, FlightUnmoved, Zenon
    <2>6. CASE Emptied(pair, s) /\ p = pair
        <3>1. cmd[s].op # "unsubscribe" /\ ~InFlight(p)
            BY <1>3, <2>6, Zenon
        <3>2. event'[s] = Event("leave", p)
            BY <2>3, <2>6, <3>1, Zenon DEF PresenceRemove
        <3>3. event'[s] # NoEvent /\ event'[s].type = "leave" /\ event'[s].pair = p
            BY <3>2, EventParts, Zenon
        <3>4. p \notin leaves' /\ p \notin records'
            BY <1>1, <1>3, <2>6, <3>1, Zenon DEF InFlight
        <3>5. event'[s].type = "join" <=> p \in records'
            BY <3>3, <3>4, Zenon
        <3> QED  BY <2>2, <3>1, <3>3, <3>4, <3>5, FlightBegins, Zenon
    <2> QED  BY <2>4, <2>5, <2>6, Zenon
<1> QED  BY <1>2, <1>3, Zenon DEF PresenceRemove

\* handlePresenceReply broadcasts the only event there is about its pair.
LEMMA SendFlight ==
    ASSUME PTypes, NEW s \in Sessions, Send(s), NEW p \in Pairs, FlightOK(p)
    PROVE  FlightOK(p)'
<1>1. /\ records' = records /\ leaves' = leaves /\ view' = Follow(event[s], view)
      /\ event'[s] = NoEvent /\ \A t \in Sessions \ {s} : event'[t] = event[t]
    BY Zenon DEF Send, stateVars, PTypes
<1>2. CASE event[s] = NoEvent
    <2>1. view' = view
        BY <1>1, <1>2 DEF Follow, NoEvent
    <2> QED  BY <1>1, <1>2, <2>1, FlightUnmoved, Zenon DEF Tells
<1>3. CASE event[s] # NoEvent
    <2>1. event[s].type \in {"join", "leave"}
        BY <1>3, Zenon DEF PTypes, Events
    <2>2. view' = IF event[s].type = "join" THEN view \cup {event[s].pair}
                                            ELSE view \ {event[s].pair}
        BY <1>1, <2>1, Zenon DEF Follow
    <2>3. CASE event[s].pair # p
        <3>1. p \in view' <=> p \in view
            BY <2>2, <2>3, Zenon
        <3>2. ~Tells(s, p) /\ ~Tells(s, p)'
            BY <1>1, <2>3, Zenon DEF Tells
        <3>3. \A t \in Sessions : Tells(t, p)' <=> Tells(t, p)
            BY <1>1, <3>2, Zenon DEF Tells
        <3>4. \A t \in Sessions : Tells(t, p) => event'[t] = event[t]
            BY <1>1, <3>2, Zenon
        <3> QED  BY <1>1, <3>1, <3>3, <3>4, FlightUnmoved, Zenon
    <2>4. CASE event[s].pair = p
        <3>1. Tells(s, p)
            BY <1>3, <2>4, Zenon DEF Tells
        <3>2. \A t \in Sessions : ~Tells(t, p)'
            BY <1>1, <3>1, Zenon DEF FlightOK, Tells
        <3>3. p \notin leaves'
            BY <1>1, <3>1, Zenon DEF FlightOK
        <3>4. p \in view' <=> event[s].type = "join"
            BY <2>2, <2>4, Zenon
        <3>5. p \in view' <=> p \in records'
            BY <1>1, <3>1, <3>4, Zenon DEF FlightOK
        <3> QED  BY <3>2, <3>3, <3>5, Zenon DEF FlightOK
    <2> QED  BY <2>3, <2>4, Zenon
<1> QED  BY <1>2, <1>3, Zenon

\* The expiration has a leave message for each entry it removes.
LEMMA ExpireFlight ==
    ASSUME ExpirePresence, NEW p \in Pairs \ unsure', p \notin unsure => FlightOK(p)
    PROVE  FlightOK(p)'
<1> DEFINE gone == {s \in known : left[s] = Past}
           emptied == {q \in records : members[q] # {} /\ members[q] \subseteq gone}
<1>1. /\ leaves = {} /\ leaves' = emptied /\ records' = records \ emptied
      /\ unsure' = unsure \cup {q \in emptied : InFlight(q)}
      /\ event' = event /\ view' = view
    BY Zenon DEF ExpirePresence
<1> HIDE DEF gone, emptied
<1>2. p \notin unsure /\ FlightOK(p)
    BY <1>1, Zenon
<1>3. CASE p \notin emptied
    BY <1>1, <1>2, <1>3, FlightUnmoved, Zenon DEF Tells
<1>4. CASE p \in emptied
    <2>1. ~InFlight(p)
        BY <1>1, <1>4, Zenon
    <2>2. \A t \in Sessions : ~Tells(t, p)'
        BY <1>1, <2>1, Zenon DEF InFlight, Tells
    <2>3. p \in leaves' /\ p \notin records'
        BY <1>1, <1>4, Zenon
    <2>4. InFlight(p)'
        BY <2>3, Zenon DEF InFlight
    <2> QED  BY <2>2, <2>3, <2>4, Zenon DEF FlightOK
<1> QED  BY <1>3, <1>4, Zenon

\* A leave message of the expiration is the only event there is about its pair.
LEMMA SendLeaveFlight ==
    ASSUME SendLeave, NEW p \in Pairs, FlightOK(p)
    PROVE  FlightOK(p)'
<1>1. PICK pair \in leaves :
          view' = Follow(Event("leave", pair), view) /\ leaves' = leaves \ {pair}
    BY Zenon DEF SendLeave
<1>2. view' = view \ {pair}
    BY <1>1, EventParts, Zenon DEF Follow
<1>3. event' = event /\ records' = records
    BY Zenon DEF SendLeave, stateVars
<1>4. CASE p # pair
    BY <1>1, <1>2, <1>3, <1>4, FlightUnmoved, Zenon DEF Tells
<1>5. CASE p = pair
    <2>1. p \notin records' /\ p \notin view' /\ p \notin leaves'
        BY <1>1, <1>2, <1>3, <1>5, Zenon DEF FlightOK
    <2>2. \A t \in Sessions : ~Tells(t, p)'
        BY <1>1, <1>3, <1>5, Zenon DEF FlightOK, Tells
    <2> QED  BY <2>1, <2>2, Zenon DEF FlightOK
<1> QED  BY <1>4, <1>5, Zenon

\* Every step keeps the account of what is in flight.
LEMMA FlightStep ==
    ASSUME PInv, [Next]_vars, NEW p \in Pairs \ unsure'
    PROVE  FlightOK(p)'
<1>1. p \notin unsure => FlightOK(p)
    BY Zenon DEF PInv
<1>2. PTypes /\ Sending
    BY Zenon DEF PInv
<1>3. ASSUME NEW s \in Sessions, PresenceAdd(s) PROVE FlightOK(p)'
    BY <1>1, <1>2, <1>3, AddFlight, Zenon
<1>4. ASSUME NEW s \in Sessions, PresenceRemove(s) PROVE FlightOK(p)'
    BY <1>1, <1>2, <1>4, RemoveFlight, Zenon
<1>5. ASSUME NEW s \in Sessions, Send(s) PROVE FlightOK(p)'
    <2>1. unsure' = unsure
        BY <1>5, Zenon DEF Send, history
    <2> QED  BY <1>1, <1>2, <1>5, <2>1, SendFlight, Zenon
<1>6. CASE ExpirePresence
    BY <1>1, <1>6, ExpireFlight, Zenon
<1>7. CASE SendLeave
    <2>1. unsure' = unsure
        BY <1>7, Zenon DEF SendLeave, history
    <2> QED  BY <1>1, <1>7, <2>1, SendLeaveFlight, Zenon
<1>8. CASE UNCHANGED <<event, records, leaves, view, unsure>>
    BY <1>1, <1>8, FlightUnmoved, Zenon DEF Tells
<1>9. ASSUME NEW s \in Sessions, StartJoin(s) \/ StartLeave(s) \/ Close(s) \/ Connect(s)
      PROVE  UNCHANGED <<event, records, leaves, view, unsure>>
    BY <1>9, Zenon DEF StartJoin, StartLeave, Close, Connect, stateVars, history
<1>10. Tick \/ UNCHANGED vars => UNCHANGED <<event, records, leaves, view, unsure>>
    BY Zenon DEF Tick, vars, stateVars, history
<1> QED
    BY <1>3, <1>4, <1>5, <1>6, <1>7, <1>8, <1>9, <1>10, Zenon DEF Next, Command, Expiration

\* The presence state starts empty and the account of it is kept.
LEMMA PInvariant == Spec => []PInv
<1>1. Init => PInv
    <2> SUFFICES ASSUME Init PROVE PInv
        BY Zenon
    <2>1. PTypes
        BY Zenon DEF Init, PTypes, Commands, Events
    <2>2. RecordsMatchSessions
        BY Zenon DEF Init, RecordsMatchSessions
    <2>3. Sending
        BY Zenon DEF Init, Sending
    <2>4. ASSUME NEW p \in Pairs PROVE FlightOK(p)
        BY Zenon DEF Init, FlightOK, Tells, InFlight
    <2> QED  BY <2>1, <2>2, <2>3, <2>4, Zenon DEF PInv
<1>2. PInv /\ [Next]_vars => PInv'
    <2> SUFFICES ASSUME PInv, [Next]_vars PROVE PInv'
        BY Zenon
    <2>1. PTypes' /\ RecordsMatchSessions' /\ Sending'
        BY PTypesStep, RecordsStep, SendingStep, Zenon DEF PInv
    <2>2. \A p \in Pairs \ unsure' : FlightOK(p)'
        BY FlightStep, Zenon
    <2> QED  BY <2>1, <2>2, Zenon DEF PInv
<1> QED  BY <1>1, <1>2, PTL DEF Spec

\* The presence records and the sessions' own lists of streams always agree, and
\* whoever follows the join and leave events knows, whenever none is in flight,
\* exactly which ids are present, apart from those that Unsubscribe removed
\* without an event and those for which two events were in flight at once.
THEOREM PresenceIsKnown == Spec => []PresenceAgrees
<1>1. PInv => PresenceAgrees
    <2> SUFFICES ASSUME PInv, Quiet, NEW p \in Pairs \ unsure PROVE p \in view <=> p \in records
        BY Zenon DEF PInv, PresenceAgrees, FollowersAgree
    <2>1. ~InFlight(p)
        BY Zenon DEF Quiet, InFlight
    <2> QED  BY <2>1, Zenon DEF PInv, FlightOK
<1> QED  BY <1>1, PInvariant, PTL
=============================================================================
