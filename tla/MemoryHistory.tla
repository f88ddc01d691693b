--------------------------- MODULE MemoryHistory ---------------------------
(***************************************************************************)
(* The history of one stream in the in-memory broker (broker/memory.go),   *)
(* with the goroutines that publish to it, the expiration loop, and a      *)
(* client that loses its connection and asks for what it missed.           *)
(*                                                                         *)
(* Memory.add looks the memstream up under b.streamsMu, releases it, and   *)
(* then appends under the memstream's own lock; the expiration loop may    *)
(* delete the memstream from b.streams in between.  A deleted memstream    *)
(* lives on in the publishers that hold it, so mem keeps them all.         *)
(*                                                                         *)
(* Messages are numbered by their publication.  The epoch never changes:   *)
(* it is set when the process starts, and the history with it.             *)
(***************************************************************************)
EXTENDS Integers, Sequences

CONSTANTS
    Publishers, \* goroutines that call HandleBroadcast
    Limit,      \* config.HistoryLimit
    TTL,        \* config.HistoryTTL
    Keep,       \* a memstream is kept for Keep * TTL (10 in appendEntry)
    Warm,       \* the stream has a message, which the client has received
    MaxMsgs,    \* bound: messages published
    MaxTime     \* bound: the clock

\* The code needs Limit > 0: appendEntry reads data[0] of a trimmed slice.
ASSUME HistoryAssumption ==
    /\ Limit \in Nat \ {0} /\ TTL \in Nat /\ Keep \in Nat
    /\ Warm \in BOOLEAN /\ MaxMsgs \in Nat /\ MaxTime \in Nat

VARIABLES
    mem,        \* the memstreams created so far
    cur,        \* the index in mem of b.streams[name], 0 if there is none
    now,        \* the clock, in seconds
    msgs,       \* the number of messages published
    pub,        \* HandleBroadcast of each publisher
    log,        \* the messages passed to the broadcaster, in order
    sweep,      \* expire(): "idle", "check" or "delete" (it holds b.streamsMu)
    sweepTime,  \* its time.Now()
    client,     \* "online", "offline", "catching" up, "reading" or "rejected"
    asked,      \* the offset it asks the history from
    held,       \* the memstream HistoryFrom has found
    pos,        \* the offset of the last message it received
    ptr,        \* how much of the log went to its connections
    got         \* the messages it has

streamVars == <<mem, cur, now, msgs, pub, log, sweep, sweepTime>>
clientVars == <<client, asked, held, pos, ptr, got>>
vars == <<streamVars, clientVars>>

\* the messages kept are entries, oldest first
Entry == [offset : Nat, ts : Nat, msg : Nat]
Memstream == [offset : Nat, low : Nat, deadline : Nat, data : Seq(Entry)]

NewStream == [offset |-> 0, low |-> 0, deadline |-> 0, data |-> <<>>]

-----------------------------------------------------------------------------
(* memstream: its methods as operators on records.                         *)

\* mutant: the oldest entry goes, but low stays
appendEntry_StaleLow(ms, e, time) ==
    LET all == Append(ms.data, e)
        data == IF Len(all) > Limit THEN Tail(all) ELSE all
    IN  [offset |-> e.offset, data |-> data,
         low |-> IF ms.low = 0 THEN data[1].offset ELSE ms.low,
         deadline |-> time + Keep * TTL]

\* the new entry, the trim to the limit, low and the deadline
appendEntry(ms, e, time) ==
    LET all == Append(ms.data, e)
        data == IF Len(all) > Limit THEN Tail(all) ELSE all
    IN  [offset |-> e.offset, data |-> data,
         low |-> IF Len(all) > Limit \/ ms.low = 0 THEN data[1].offset ELSE ms.low,
         deadline |-> time + Keep * TTL]

\* memstream.add
add(ms, msg, time) ==
    appendEntry(ms, [offset |-> ms.offset + 1, ts |-> time, msg |-> msg], time)

\* how many entries at the front are older than the TTL
CutIndex(ms, time) ==
    CHOOSE k \in 0..Len(ms.data) :
        /\ \A i \in 1..k : ms.data[i].ts + TTL < time
        /\ k < Len(ms.data) => ~(ms.data[k + 1].ts + TTL < time)

\* memstream.expire
expire(ms, time) ==
    LET data == SubSeq(ms.data, CutIndex(ms, time) + 1, Len(ms.data))
    IN  [ms EXCEPT !.data = data,
                   !.low = IF data = <<>> THEN 0 ELSE data[1].offset]

\* filterByOffset returns an error
Refuses(ms, offset) ==
    \/ ms.low > offset
    \/ ms.low = 0
    \/ (offset - ms.low) + 1 > Len(ms.data)

\* mutant: the last message the client has is taken for the first it misses
filterByOffset_SkipsOne(ms, offset) ==
    SubSeq(ms.data, (offset - ms.low) + 3, Len(ms.data))

\* filterByOffset: data[start:], start counted from 0
filterByOffset(ms, offset) ==
    SubSeq(ms.data, (offset - ms.low) + 2, Len(ms.data))

-----------------------------------------------------------------------------

Init ==
    /\ mem = IF Warm THEN <<add(NewStream, 1, 1)>> ELSE <<>>
    /\ cur = (IF Warm THEN 1 ELSE 0) /\ msgs = (IF Warm THEN 1 ELSE 0)
    /\ log = IF Warm THEN <<[msg |-> 1, offset |-> 1]>> ELSE <<>>
    /\ now = 1
    /\ pub = [p \in Publishers |-> [pc |-> "idle", ms |-> 0, msg |-> 0, offset |-> 0]]
    /\ sweep = "idle" /\ sweepTime = 0
    /\ client = "online" /\ asked = 0 /\ held = 0
    /\ pos = (IF Warm THEN 1 ELSE 0) /\ ptr = (IF Warm THEN 1 ELSE 0)
    /\ got = IF Warm THEN {1} ELSE {}

\* b.streamsMu: the sweep holds it over several steps
StreamsFree == sweep = "idle"

\* HandleBroadcast, Memory.add: look up or create the memstream
Lookup(p) ==
    /\ pub[p].pc = "idle" /\ msgs < MaxMsgs
    /\ StreamsFree
    /\ msgs' = msgs + 1
    /\ mem' = IF cur = 0 THEN Append(mem, NewStream) ELSE mem
    /\ cur' = IF cur = 0 THEN Len(mem) + 1 ELSE cur
    /\ pub' = [pub EXCEPT ![p] = [pc |-> "add", ms |-> cur', msg |-> msgs', offset |-> 0]]
    /\ UNCHANGED <<now, log, sweep, sweepTime, clientVars>>

\* stream.add(data), under ms.mu
Add(p) ==
    /\ pub[p].pc = "add"
    /\ LET ms == pub[p].ms
       IN  /\ mem' = [mem EXCEPT ![ms] = add(@, pub[p].msg, now)]
           /\ pub' = [pub EXCEPT ![p].pc = "send", ![p].offset = mem'[ms].offset]
    /\ UNCHANGED <<cur, now, msgs, log, sweep, sweepTime, clientVars>>

\* b.broadcaster.Broadcast(msg)
Broadcast(p) ==
    /\ pub[p].pc = "send"
    /\ log' = Append(log, [msg |-> pub[p].msg, offset |-> pub[p].offset])
    /\ pub' = [pub EXCEPT ![p].pc = "idle"]
    /\ UNCHANGED <<mem, cur, now, msgs, sweep, sweepTime, clientVars>>

Tick ==
    /\ now < MaxTime
    /\ now' = now + 1
    /\ UNCHANGED <<mem, cur, msgs, pub, log, sweep, sweepTime, clientVars>>

\* Memory.expire: under b.streamsMu, drop the old entries of the stream ...
ExpireEntries ==
    /\ sweep = "idle" /\ cur # 0
    /\ mem' = [mem EXCEPT ![cur] = expire(@, now)]
    /\ sweep' = "check" /\ sweepTime' = now
    /\ UNCHANGED <<cur, now, msgs, pub, log, clientVars>>

\* ... read its deadline, without ms.mu ...
ExpireCheck ==
    /\ sweep = "check"
    /\ sweep' = IF mem[cur].deadline < sweepTime THEN "delete" ELSE "idle"
    /\ UNCHANGED <<mem, cur, now, msgs, pub, log, sweepTime, clientVars>>

\* ... and delete it if it is past
ExpireDelete ==
    /\ sweep = "delete"
    /\ cur' = 0
    /\ sweep' = "idle"
    /\ UNCHANGED <<mem, now, msgs, pub, log, sweepTime, clientVars>>

-----------------------------------------------------------------------------
(* The client: a subscriber that knows the offset of its last message.     *)

Receive ==
    /\ client \in {"online", "catching", "reading"}
    /\ ptr < Len(log)
    /\ ptr' = ptr + 1
    /\ got' = got \cup {log[ptr + 1].msg}
    /\ pos' = log[ptr + 1].offset
    /\ UNCHANGED <<streamVars, client, asked, held>>

Disconnect ==
    /\ client = "online" /\ pos > 0
    /\ client' = "offline" /\ asked' = pos
    /\ UNCHANGED <<streamVars, held, pos, ptr, got>>

\* the new connection subscribes before it asks for the history
Resubscribe ==
    /\ client = "offline"
    /\ client' = "catching" /\ ptr' = Len(log)
    /\ UNCHANGED <<streamVars, asked, held, pos, got>>

\* HistoryFrom with the current epoch: b.get under b.streamsMu ...
HistoryGet ==
    /\ client = "catching"
    /\ StreamsFree
    /\ client' = IF cur = 0 THEN "rejected" ELSE "reading"
    /\ held' = cur
    /\ UNCHANGED <<streamVars, asked, pos, ptr, got>>

\* mutant: an error of filterByOffset is taken for an empty history
HistoryFilter_ErrorIgnored ==
    /\ client = "reading"
    /\ got' = IF Refuses(mem[held], asked) THEN got
              ELSE LET history == filterByOffset(mem[held], asked)
                   IN  got \cup {history[i].msg : i \in 1..Len(history)}
    /\ client' = "online"
    /\ UNCHANGED <<streamVars, asked, held, pos, ptr>>

\* ... then filterByOffset under ms.mu, and Node.History sends the result
HistoryFilter ==
    /\ client = "reading"
    /\ \/ /\ Refuses(mem[held], asked)
          /\ client' = "rejected"
          /\ UNCHANGED <<pos, got>>
       \/ /\ ~Refuses(mem[held], asked)
          /\ LET history == filterByOffset(mem[held], asked)
             IN  /\ got' = got \cup {history[i].msg : i \in 1..Len(history)}
                 /\ pos' = IF history # <<>> /\ history[Len(history)].offset > pos
                           THEN history[Len(history)].offset ELSE pos
          /\ client' = "online"
    /\ UNCHANGED <<streamVars, asked, held, ptr>>

Next ==
    \/ \E p \in Publishers : Lookup(p) \/ Add(p) \/ Broadcast(p)
    \/ Tick
    \/ ExpireEntries \/ ExpireCheck \/ ExpireDelete
    \/ Receive \/ Disconnect \/ Resubscribe \/ HistoryGet \/ HistoryFilter

Spec == Init /\ [][Next]_vars

-----------------------------------------------------------------------------

\* Every variable keeps its type; no stream keeps more than Limit messages.
TypeOK ==
    /\ mem \in Seq(Memstream) /\ \A i \in 1..Len(mem) : Len(mem[i].data) <= Limit
    /\ cur \in 0..Len(mem) /\ now \in Nat /\ msgs \in Nat
    /\ pub \in [Publishers -> [pc : {"idle", "add", "send"}, ms : 0..Len(mem),
                               msg : Nat, offset : Nat]]
    /\ \A p \in Publishers : pub[p].pc # "idle" => pub[p].ms > 0
    /\ log \in Seq([msg : Nat, offset : Nat])
    /\ sweep \in {"idle", "check", "delete"} /\ sweepTime \in Nat
    /\ sweep # "idle" => cur > 0
    /\ client \in {"online", "offline", "catching", "reading", "rejected"}
    /\ held \in 0..Len(mem) /\ (client = "reading" => held > 0)
    /\ asked \in Nat /\ pos \in Nat /\ ptr \in 0..Len(log) /\ got \subseteq Nat

\* the entries of a memstream have consecutive offsets that end at ms.offset,
\* and low is the first of them
Contiguous(ms) ==
    /\ ms.data = <<>> => ms.low = 0
    /\ ms.data # <<>> =>
           /\ ms.low > 0
           /\ ms.low + Len(ms.data) = ms.offset + 1
           /\ \A i \in 1..Len(ms.data) : ms.data[i].offset = ms.low + i - 1

\* filterByOffset computes an index from the difference of two offsets, which
\* is right only as long as add, the trim to the limit and expire keep every
\* memstream without gaps.
StreamsContiguous == \A i \in 1..Len(mem) : Contiguous(mem[i])

\* the messages after an offset, by definition
MessagesAfter(ms, offset) ==
    {ms.data[i] : i \in {j \in 1..Len(ms.data) : ms.data[j].offset > offset}}

\* Whenever filterByOffset accepts an offset it returns the messages after it,
\* all of them: none that the limit or the TTL has removed is missing.
HistoryExact ==
    \A i \in 1..Len(mem) : \A offset \in 1..(mem[i].offset + 1) :
        ~Refuses(mem[i], offset) =>
            LET history == filterByOffset(mem[i], offset)
            IN  /\ {history[j] : j \in 1..Len(history)} = MessagesAfter(mem[i], offset)
                /\ offset + Len(history) = mem[i].offset

\* b.streams has had one memstream for the stream all the time.  A memstream
\* that is deleted after its deadline, or before its first message was added
\* (its deadline is still 0), is replaced by one that counts from 1 again,
\* in the same epoch.
NeverDeleted == Len(mem) <= 1 /\ (cur = 0 => mem = <<>>)

\* the concurrent HandleBroadcast calls broadcast in the order of their offsets
InOrder == \A i \in 1..Len(log) - 1 : log[i].offset < log[i + 1].offset

\* A client that has caught up, and whose request for the history was not
\* refused, has every message broadcast to the stream before, however the
\* trim, the expiration and new messages interleave with its request.  The
\* position of a client means something only in a log that is InOrder.
NothingMissed ==
    client = "online" /\ NeverDeleted /\ InOrder => \A i \in 1..ptr : log[i].msg \in got
=============================================================================
