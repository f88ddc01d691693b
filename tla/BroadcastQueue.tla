--------------------------- MODULE BroadcastQueue ---------------------------
(***************************************************************************)
(* What the Redis Streams broadcaster promises about the broadcasts it     *)
(* accepts: each is handled at least once by some node.  The exception is  *)
(* a broadcast handed out in a reply that never arrived: it is in doubt,   *)
(* and may be dropped before anyone handles it.                            *)
(***************************************************************************)
CONSTANT Broadcasts

VARIABLES
  accepted,   \* broadcasts the consumer group will hand out
  done,       \* broadcasts some node handled
  doubted,    \* broadcasts handed out in a lost reply
  dropped     \* broadcasts nobody will handle

qvars == <<accepted, done, doubted, dropped>>

QInit == accepted = {} /\ done = {} /\ doubted = {} /\ dropped = {}

Accept(b) ==
  /\ b \notin accepted
  /\ accepted' = accepted \cup {b}
  /\ UNCHANGED <<done, doubted, dropped>>

\* A broadcast may be handled again; one that was dropped may not.
HandleOnce(b) ==
  /\ b \in accepted \ dropped
  /\ done' = done \cup {b}
  /\ UNCHANGED <<accepted, doubted, dropped>>

Doubt(B) ==
  /\ B \subseteq accepted
  /\ doubted' = doubted \cup B
  /\ UNCHANGED <<accepted, done, dropped>>

Drop(B) ==
  /\ B \subseteq doubted \ done
  /\ dropped' = dropped \cup B
  /\ UNCHANGED <<accepted, done, doubted>>

QNext ==
  \/ \E b \in Broadcasts : Accept(b) \/ HandleOnce(b)
  \/ \E B \in SUBSET Broadcasts : Doubt(B) \/ Drop(B)

QueueSpec == QInit /\ [][QNext]_qvars
=============================================================================
