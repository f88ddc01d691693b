-------------------------- MODULE RedisBroadcaster --------------------------
(***************************************************************************)
(* The Redis Streams broadcaster (broadcast/redis.go) of several nodes     *)
(* sharing one consumer group: the reader goroutine of each node (claim    *)
(* idle entries, read new ones, handle each, acknowledge it), its          *)
(* reconnects, and Shutdown.  Commands may fail before or after Redis ran  *)
(* them, and nodes may crash.                                              *)
(***************************************************************************)
EXTENDS Integers

CONSTANTS
  BNodes,      \* nodes, each a consumer of the group
  MaxEntries,  \* bound on the entries of the stream
  MaxReconnectAttempts,
  MaxFaults,   \* bound on failed commands and crashes
  Nobody

ASSUME BroadcasterAssumption == MaxEntries \in Nat /\ Nobody \notin BNodes

Entries == 1 .. MaxEntries

VARIABLES
  added,     \* Redis: the last entry id of the stream
  cursor,    \* Redis: the group's last delivered id; -1 without a group
  owner,     \* Redis: the pending entries list, entry -> consumer or Nobody
  handled,   \* entries passed to HandleBroadcast
  accepted,  \* history: entries added since the group exists
  doubted,   \* history: entries given to a consumer in a reply it never got
  reader,    \* node -> where its reader goroutine is
  batch,     \* node -> the entries it still has to handle
  attempt,   \* node -> reconnectAttempt
  client,    \* node -> whether s.client is set
  stopping,  \* node -> the state of Shutdown
  faults

redis == <<added, cursor, owner, accepted>>
bvars == <<added, cursor, owner, handled, accepted, doubted, reader, batch,
           attempt, client, stopping, faults>>

BInit ==
  /\ added = 0 /\ cursor = -1
  /\ owner = [e \in Entries |-> Nobody]
  /\ handled = {} /\ accepted = {} /\ doubted = {}
  /\ reader = [n \in BNodes |-> "init"]
  /\ batch = [n \in BNodes |-> {}]
  /\ attempt = [n \in BNodes |-> 0]
  /\ client = [n \in BNodes |-> FALSE]
  /\ stopping = [n \in BNodes |-> "no"]
  /\ faults = 0

StepTo(n, pc) == reader' = [reader EXCEPT ![n] = pc]

Fault == faults < MaxFaults /\ faults' = faults + 1

\* The publisher (external): XADD.
Publish ==
  /\ added < MaxEntries
  /\ added' = added + 1
  /\ accepted' = accepted \cup (IF cursor >= 0 THEN {added + 1} ELSE {})
  /\ UNCHANGED <<cursor, owner, handled, doubted, reader, batch, attempt,
                 client, stopping, faults>>

\* Shutdown holds the read lock of clientMu while it waits for the reader.
LockFree(n) == stopping[n] # "waiting"

initClient(n) ==
  /\ reader[n] = "init" /\ LockFree(n)
  /\ \/ /\ client' = [client EXCEPT ![n] = TRUE]
        /\ attempt' = [attempt EXCEPT ![n] = 0]
        /\ StepTo(n, "group") /\ UNCHANGED faults
     \/ Fault /\ StepTo(n, "retry") /\ UNCHANGED <<client, attempt>>
  /\ UNCHANGED <<redis, handled, doubted, batch, stopping>>

\* XGROUP CREATE at "$"; a network error is ignored, an error of Redis other
\* than BUSYGROUP is not.
createGroup(n) ==
  /\ reader[n] = "group"
  /\ \/ /\ cursor' = IF cursor < 0 THEN added ELSE cursor
        /\ StepTo(n, "loop") /\ UNCHANGED faults
     \/ Fault /\ UNCHANGED cursor /\ (StepTo(n, "loop") \/ StepTo(n, "retry"))
  /\ UNCHANGED <<added, owner, accepted, handled, doubted, batch, attempt,
                 client, stopping>>

\* mutant: shutdownCh is not looked at
checkShutdown_Ignored(n) ==
  /\ reader[n] = "loop" /\ StepTo(n, "claim")
  /\ UNCHANGED <<redis, handled, doubted, batch, attempt, client, stopping,
                 faults>>

\* The head of the loop: stop when shutdownCh is closed.
checkShutdown(n) ==
  /\ reader[n] = "loop"
  /\ StepTo(n, IF stopping[n] = "waiting" THEN "finished" ELSE "claim")
  /\ UNCHANGED <<redis, handled, doubted, batch, attempt, client, stopping,
                 faults>>

\* Redis gives the entries S to n.  When the command fails, it was run or not.
Deliver(n, S, next) ==
  LET give == [e \in Entries |-> IF e \in S THEN n ELSE owner[e]]
  IN  \/ /\ owner' = give
         /\ batch' = [batch EXCEPT ![n] = S]
         /\ StepTo(n, next) /\ UNCHANGED <<doubted, faults>>
      \/ /\ Fault /\ StepTo(n, "retry") /\ UNCHANGED batch
         /\ \/ owner' = give /\ doubted' = doubted \cup (S \cap accepted)
            \/ UNCHANGED <<owner, doubted>>

Pending == {e \in Entries : owner[e] # Nobody}

\* XAUTOCLAIM: the entries S that have been idle for long enough.  Skipping
\* the claim, because the last one is recent, is claiming nothing.
autoclaimMessages(n, S) ==
  /\ reader[n] = "claim" /\ S \subseteq Pending
  /\ Deliver(n, S, "reclaimed")
  /\ UNCHANGED <<added, cursor, accepted, handled, attempt, client, stopping>>

\* XREADGROUP: the entries the group has not handed out.  Without a group the
\* command fails.
readFromStream(n) ==
  /\ reader[n] = "read"
  /\ IF cursor < 0
     THEN StepTo(n, "retry") /\ UNCHANGED <<owner, cursor, batch, doubted, faults>>
     ELSE /\ Deliver(n, (cursor + 1) .. added, "received")
          /\ cursor' = IF owner' = owner THEN cursor ELSE added
  /\ UNCHANGED <<added, accepted, handled, attempt, client, stopping>>

Handling(n) == reader[n] \in {"reclaimed", "received"}

AfterBatch(n) == IF reader[n] = "reclaimed" THEN "read" ELSE "loop"

\* broadcastXrange, one entry, in the order of the stream: HandleBroadcast, then
\* XACK and XDEL, whose failure is only logged.
broadcastEntry(n) ==
  /\ Handling(n)
  /\ IF batch[n] = {}
     THEN StepTo(n, AfterBatch(n)) /\ UNCHANGED <<handled, owner, batch, faults>>
     ELSE /\ \E e \in batch[n] :
               /\ \A f \in batch[n] : e <= f
               /\ handled' = handled \cup {e}
               /\ batch' = [batch EXCEPT ![n] = @ \ {e}]
               /\ \/ owner' = [owner EXCEPT ![e] = Nobody] /\ UNCHANGED faults
                  \/ Fault /\ UNCHANGED owner
          /\ UNCHANGED reader
  /\ UNCHANGED <<added, cursor, accepted, doubted, attempt, client, stopping>>

\* maybeReconnect, up to the sleep.
maybeReconnect(n) ==
  /\ reader[n] = "retry"
  /\ IF attempt[n] >= MaxReconnectAttempts
     THEN StepTo(n, "failed") /\ UNCHANGED attempt
     ELSE StepTo(n, "sleep") /\ attempt' = [attempt EXCEPT ![n] = @ + 1]
  /\ UNCHANGED <<redis, handled, doubted, batch, client, stopping, faults>>

\* maybeReconnect, after the sleep: the client is dropped under the lock.
dropClient(n) ==
  /\ reader[n] = "sleep" /\ LockFree(n)
  /\ client' = [client EXCEPT ![n] = FALSE]
  /\ StepTo(n, "init")
  /\ UNCHANGED <<redis, handled, doubted, batch, attempt, stopping, faults>>

\* Shutdown up to the wait for finishedCh.
stopConsumer(n) ==
  /\ stopping[n] = "no" /\ reader[n] # "crashed"
  /\ stopping' = [stopping EXCEPT ![n] = IF client[n] THEN "waiting" ELSE "done"]
  /\ UNCHANGED <<redis, handled, doubted, reader, batch, attempt, client, faults>>

Finished(n) == reader[n] \in {"finished", "failed"}

\* mutant: Shutdown does not wait for finishedCh
removeConsumer_NoWait(n) ==
  /\ stopping[n] = "waiting"
  /\ stopping' = [stopping EXCEPT ![n] = "done"]
  /\ owner' = [e \in Entries |-> IF owner[e] = n THEN Nobody ELSE owner[e]]
  /\ UNCHANGED <<added, cursor, accepted, handled, doubted, reader, batch,
                 attempt, client, faults>>

\* The rest of it: XGROUP DELCONSUMER drops what is pending for the consumer.
removeConsumer(n) ==
  /\ stopping[n] = "waiting" /\ Finished(n)
  /\ stopping' = [stopping EXCEPT ![n] = "done"]
  /\ \/ /\ owner' = [e \in Entries |-> IF owner[e] = n THEN Nobody ELSE owner[e]]
        /\ UNCHANGED faults
     \/ Fault /\ UNCHANGED owner
  /\ UNCHANGED <<added, cursor, accepted, handled, doubted, reader, batch,
                 attempt, client>>

Crash(n) ==
  /\ reader[n] # "crashed" /\ Fault
  /\ StepTo(n, "crashed")
  /\ batch' = [batch EXCEPT ![n] = {}]
  /\ UNCHANGED <<redis, handled, doubted, attempt, client, stopping>>

ReaderStep(n) ==
  \/ initClient(n) \/ createGroup(n) \/ checkShutdown(n)
  \/ \E S \in SUBSET Pending : autoclaimMessages(n, S)
  \/ readFromStream(n) \/ broadcastEntry(n) \/ maybeReconnect(n)
  \/ dropClient(n)

BNext ==
  \/ Publish
  \/ \E n \in BNodes :
       ReaderStep(n) \/ stopConsumer(n) \/ removeConsumer(n) \/ Crash(n)

\* The goroutines are scheduled; an entry nobody handles becomes idle, so a
\* reader that keeps claiming claims it.
BFairness ==
  \A n \in BNodes :
    /\ WF_bvars(ReaderStep(n)) /\ WF_bvars(removeConsumer(n))
    /\ SF_bvars(autoclaimMessages(n, Pending))

BSpec == BInit /\ [][BNext]_bvars /\ BFairness

-----------------------------------------------------------------------------
InBatch == UNION {batch[n] : n \in BNodes}

\* Handed out, not handled, and neither pending nor in anyone's hands.
Undeliverable ==
  {e \in accepted : /\ e <= cursor /\ owner[e] = Nobody
                    /\ e \notin handled \cup InBatch}

Queue == INSTANCE BroadcastQueue WITH
           Broadcasts <- Entries, accepted <- accepted, done <- handled \cap accepted,
           doubted <- doubted, dropped <- Undeliverable

\* Whatever fails and whichever node crashes or shuts down, an entry is not
\* lost between the stream, the pending list and the nodes' batches: the only
\* one that can be is an entry in a reply the consumer did not get, dropped
\* with the consumer by Shutdown before it was claimed again.
ImplementsBroadcastQueue == Queue!QueueSpec

Gone(n) ==
  \/ reader[n] \in {"finished", "failed", "crashed"}
  \/ reader[n] = "sleep" /\ stopping[n] = "waiting"

\* Every accepted broadcast is handled, unless it was dropped or no reader is
\* left: time and again the nodes have caught up with the stream.
EveryBroadcastHandled ==
  []<>(accepted \subseteq handled \cup Undeliverable \/ \A n \in BNodes : Gone(n))

\* Shutdown returns, unless it was called while the reader was on its way to
\* reconnect: the reader then waits for the lock Shutdown holds.
ShutdownReturns ==
  \A n \in BNodes :
    stopping[n] = "waiting" ~> \/ stopping[n] = "done"
                               \/ reader[n] \in {"sleep", "crashed"}

\* Neither a broadcast nor a shutdown is left waiting.
BroadcasterProgress == EveryBroadcastHandled /\ ShutdownReturns
=============================================================================
