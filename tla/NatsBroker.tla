----------------------------- MODULE NatsBroker -----------------------------
(***************************************************************************)
(* One stream of the NATS broker (broker/nats.go): JetStream holds the     *)
(* stream, the broker follows it with a consumer kept in an LRU cache and  *)
(* copies it into a memory stream (broker/memory.go), from which history   *)
(* is read once streamSync has seen no message for a while.  JetStream     *)
(* keeps the last HistoryLimit messages for HistoryTTL, and so does the    *)
(* memory stream, on its own schedule.                                     *)
(***************************************************************************)
EXTENDS Integers, Sequences, FiniteSetsExt

CONSTANTS
  HistoryLimit,
  MaxSequence,  \* bound on the messages published
  MaxConsumers  \* bound on the consumers created

\* as in MemoryHistory, appendEntry needs a limit that is not 0
ASSUME NatsBrokerAssumption ==
  HistoryLimit \in Nat \ {0} /\ MaxSequence \in Nat /\ MaxConsumers \in Nat

VARIABLES
  firstSeq, lastSeq,  \* JetStream: the sequences kept are first .. last
  aged,               \* messages up to this sequence are older than HistoryTTL
  cursor,             \* consumer -> the sequence it delivers next, 0 if none
  cached,             \* jconsumers: the consumer of the stream, 0 if none
  stale,              \* whether that entry is older than its ttl
  tracked,            \* tracker: whether some session follows the stream
  data, offset,       \* the memory stream: its entries' offsets, its last offset
  active,             \* streamSync.active: history waits
  mine,               \* history: the last sequence this node published
  rushed,             \* history: the wait ended with messages still to come
  cutOff              \* history: the consumer of a followed stream was deleted

nvars == <<firstSeq, lastSeq, aged, cursor, cached, stale, tracked, data, offset,
           active, mine, rushed, cutOff>>

Consumers == 1 .. MaxConsumers
Live == {c \in Consumers : cursor[c] # 0}
Pending(c) == cursor[c] # 0 /\ cursor[c] <= lastSeq /\ firstSeq <= lastSeq

NInit ==
  /\ firstSeq = 1 /\ lastSeq = 0 /\ aged = 0
  /\ cursor = [c \in Consumers |-> 0] /\ cached = 0 /\ stale = FALSE
  /\ tracked = FALSE /\ data = <<>> /\ offset = 0
  /\ active = FALSE /\ mine = 0 /\ rushed = FALSE /\ cutOff = FALSE

\* JetStream appends a message and drops the oldest one over MaxMsgs.
Stored ==
  /\ lastSeq < MaxSequence
  /\ lastSeq' = lastSeq + 1
  /\ firstSeq' = Max({firstSeq, lastSeq + 2 - HistoryLimit})

\* NATS.add: the stream is held for history reads, then published to.
publishOwn ==
  /\ Stored
  /\ active' = TRUE /\ mine' = lastSeq + 1
  /\ UNCHANGED <<aged, cursor, cached, stale, tracked, data, offset, rushed,
                 cutOff>>

PublishElsewhere ==
  /\ Stored
  /\ UNCHANGED <<aged, cursor, cached, stale, tracked, data, offset, active,
                 mine, rushed, cutOff>>

\* lru.fetch with addStreamConsumer's constructor: an entry past its ttl is
\* replaced, and its consumer keeps delivering.
addStreamConsumer ==
  IF cached # 0 /\ ~stale
  THEN UNCHANGED <<cursor, cached, stale, active, cutOff>>
  ELSE \E c \in Consumers \ Live :
         /\ c = Min(Consumers \ Live)
         /\ cursor' = [cursor EXCEPT ![c] = firstSeq]
         /\ cached' = c /\ stale' = FALSE /\ active' = TRUE /\ cutOff' = FALSE

Subscribe ==
  /\ ~tracked
  /\ tracked' = TRUE
  /\ addStreamConsumer
  /\ UNCHANGED <<firstSeq, lastSeq, aged, data, offset, mine, rushed>>

\* The consumer stays.
Unsubscribe ==
  /\ tracked
  /\ tracked' = FALSE
  /\ UNCHANGED <<firstSeq, lastSeq, aged, cursor, cached, stale, data, offset,
                 active, mine, rushed, cutOff>>

\* A ttl passes: lru.read does not store the time it touches an entry with.
Outlive ==
  /\ cached # 0 /\ ~stale
  /\ stale' = TRUE
  /\ UNCHANGED <<firstSeq, lastSeq, aged, cursor, cached, tracked, data, offset,
                 active, mine, rushed, cutOff>>

\* lru.expire, run when a consumer of another stream is created.
expireConsumers ==
  /\ cached # 0 /\ stale
  /\ cursor' = [cursor EXCEPT ![cached] = 0]
  /\ cached' = 0 /\ stale' = FALSE /\ active' = FALSE
  /\ cutOff' = tracked
  /\ rushed' = (rushed \/ \E c \in Live : Pending(c))
  /\ UNCHANGED <<firstSeq, lastSeq, aged, tracked, data, offset, mine>>

\* mutant: an offset the stream has passed is appended again
Insert_Unchecked(seq) ==
  /\ offset' = seq
  /\ data' = IF Len(data) = HistoryLimit
             THEN Append(Tail(data), seq) ELSE Append(data, seq)

\* memstream.insert and appendEntry.
Insert(seq) ==
  IF offset >= seq
  THEN UNCHANGED <<data, offset>>
  ELSE /\ offset' = seq
       /\ data' = IF Len(data) = HistoryLimit
                  THEN Append(Tail(data), seq) ELSE Append(data, seq)

consumeMessage(c) ==
  /\ Pending(c)
  /\ LET seq == Max({cursor[c], firstSeq}) IN
       /\ cursor' = [cursor EXCEPT ![c] = seq + 1]
       /\ Insert(seq)
  /\ active' = TRUE
  /\ UNCHANGED <<firstSeq, lastSeq, aged, cached, stale, tracked, mine, rushed,
                 cutOff>>

\* streamSync.idle, by its timer: no message for a while, or, from restart,
\* messages for longer than streamHistorySyncTimeout.
endSync ==
  /\ active
  /\ active' = FALSE
  /\ rushed' = \E c \in Live : Pending(c)
  /\ UNCHANGED <<firstSeq, lastSeq, aged, cursor, cached, stale, tracked, data,
                 offset, mine, cutOff>>

\* MaxAge: JetStream drops its oldest message.
AgeOut ==
  /\ firstSeq <= lastSeq
  /\ aged' = firstSeq /\ firstSeq' = firstSeq + 1
  /\ UNCHANGED <<lastSeq, cursor, cached, stale, tracked, data, offset, active,
                 mine, rushed, cutOff>>

\* Memory.expire: memstream.expire, and the stream itself long after.
expireMemory ==
  /\ \/ /\ data # <<>> /\ Head(data) <= aged
        /\ \E k \in 1 .. Len(data) :
             /\ \A i \in 1 .. k : data[i] <= aged
             /\ k < Len(data) => data[k + 1] > aged
             /\ data' = SubSeq(data, k + 1, Len(data))
        /\ UNCHANGED offset
     \/ /\ data = <<>> /\ offset # 0 /\ offset <= aged
        /\ offset' = 0 /\ UNCHANGED data
  /\ UNCHANGED <<firstSeq, lastSeq, aged, cursor, cached, stale, tracked, active,
                 mine, rushed, cutOff>>

NNext ==
  \/ publishOwn \/ PublishElsewhere \/ Subscribe \/ Unsubscribe \/ Outlive \/ expireConsumers
  \/ \E c \in Consumers : consumeMessage(c)
  \/ endSync \/ AgeOut \/ expireMemory

NSpec == NInit /\ [][NNext]_nvars

-----------------------------------------------------------------------------
\* memstream.filterByOffset: the entries are found by position.
low == IF data = <<>> THEN 0 ELSE Head(data)
Found(o) == low # 0 /\ low <= o /\ o - low + 1 <= Len(data)
HistoryFrom(o) == SubSeq(data, o - low + 2, Len(data))

\* A history read that does not have to wait either fails or returns exactly
\* the messages after the offset it asks for, in order and with none missing,
\* up to at least the last one this node published.  The exceptions are the
\* code's: the wait gave up with messages still to come, the consumer of a
\* followed stream was dropped by the LRU cache, or the memory stream still
\* holds messages JetStream has already let go of.
HistoryWithoutGaps ==
  \A o \in 1 .. MaxSequence :
    (/\ tracked /\ ~active /\ ~rushed /\ ~cutOff
     /\ Found(o) /\ Head(data) > aged) =>
      /\ HistoryFrom(o) = [i \in 1 .. offset - o |-> o + i]
      /\ offset >= mine
=============================================================================
