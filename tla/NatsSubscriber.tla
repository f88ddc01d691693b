--------------------------- MODULE NatsSubscriber ---------------------------
(***************************************************************************)
(* The NATS pub/sub subscriber (pubsub/nats.go) and one stream: Subscribe  *)
(* looks the stream up under the read lock and subscribes under the write  *)
(* lock, without looking again.  The callers are goroutines the broker's   *)
(* tracker lets through, in the order of n.                                *)
(***************************************************************************)
EXTENDS Integers, FiniteSets

CONSTANTS
  NatsCallers,  \* goroutines in Subscribe or Unsubscribe
  MaxNatsCalls  \* bound on the calls

VARIABLES
  followed,  \* the tracker counts subscribers of the stream
  turn,      \* caller -> its call: what it does next and its number
  entry,     \* subscriptions[stream], 0 if none
  natsSubs,  \* the NATS subscriptions of the connection
  made,      \* calls made
  swapped,   \* history: a call took effect before an earlier one
  doubled    \* history: two calls subscribed after one look each

mvars == <<followed, turn, entry, natsSubs, made, swapped, doubled>>

AtRest == [at |-> "rest", n |-> 0]

MInit ==
  /\ followed = FALSE /\ turn = [c \in NatsCallers |-> AtRest]
  /\ entry = 0 /\ natsSubs = {} /\ made = 0
  /\ swapped = FALSE /\ doubled = FALSE

\* The broker's tracker: the first subscriber of the stream, or the last.
TrackerLets(c) ==
  /\ turn[c] = AtRest /\ made < MaxNatsCalls
  /\ followed' = ~followed /\ made' = made + 1
  /\ turn' = [turn EXCEPT ![c] =
                [at |-> IF followed THEN "unsubscribe" ELSE "look", n |-> made + 1]]
  /\ UNCHANGED <<entry, natsSubs, swapped, doubled>>

Earlier(c) ==
  \E d \in NatsCallers : turn[d] # AtRest /\ turn[d].n < turn[c].n

Effect(c) ==
  /\ turn' = [turn EXCEPT ![c] = AtRest]
  /\ swapped' = (swapped \/ Earlier(c))

\* Subscribe under subMu.RLock.
LookUp(c) ==
  /\ turn[c].at = "look"
  /\ IF entry # 0 THEN Effect(c)
     ELSE turn' = [turn EXCEPT ![c].at = "subscribe"] /\ UNCHANGED swapped
  /\ UNCHANGED <<followed, entry, natsSubs, made, doubled>>

\* Subscribe under subMu.Lock; a failure is logged.
SubscribeNats(c, ok) ==
  /\ turn[c].at = "subscribe"
  /\ IF ok THEN entry' = turn[c].n /\ natsSubs' = natsSubs \cup {turn[c].n}
     ELSE UNCHANGED <<entry, natsSubs>>
  /\ doubled' = (doubled \/ (ok /\ entry # 0))
  /\ turn' = [turn EXCEPT ![c] = AtRest]
  /\ swapped' = (swapped \/ ~ok \/ Earlier(c))
  /\ UNCHANGED <<followed, made>>

\* mutant: the entry of the stream is kept
UnsubscribeNats_EntryKept(c) ==
  /\ turn[c].at = "unsubscribe"
  /\ natsSubs' = natsSubs \ {entry}
  /\ Effect(c)
  /\ UNCHANGED <<followed, entry, made, doubled>>

UnsubscribeNats(c) ==
  /\ turn[c].at = "unsubscribe"
  /\ natsSubs' = natsSubs \ {entry} /\ entry' = 0
  /\ Effect(c)
  /\ UNCHANGED <<followed, made, doubled>>

MNext ==
  \E c \in NatsCallers :
    \/ TrackerLets(c) \/ LookUp(c) \/ UnsubscribeNats(c)
    \/ \E ok \in BOOLEAN : SubscribeNats(c, ok)

MSpec == MInit /\ [][MNext]_mvars

-----------------------------------------------------------------------------
\* Between calls the connection has one subscription for a stream with
\* subscribers and none for another, so that a message is neither lost nor
\* delivered twice.  Calls that overlapped are the exception: one that took
\* effect before an earlier one (or failed) may leave the stream the wrong way
\* round, and only two looks before two subscriptions leave one behind.
NatsFollowsTracker ==
  (\A c \in NatsCallers : turn[c] = AtRest) =>
    /\ ~doubled => natsSubs = {entry} \ {0}
    /\ ~swapped => (entry # 0 <=> followed)
=============================================================================
