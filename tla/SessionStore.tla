---------------------------- MODULE SessionStore ----------------------------
(***************************************************************************)
(* The sessions a broker keeps for resuming: CommitSession, FinishSession, *)
(* RestoreSession and the expiration of the memory broker                  *)
(* (broker/memory.go) and of the NATS broker (broker/nats.go), called by   *)
(* the node when a session authenticates, runs a command and disconnects   *)
(* (node/node.go).  A command may still be running when the session        *)
(* disconnects, so its commit may come after FinishSession.                *)
(***************************************************************************)
EXTENDS Integers, Sequences

CONSTANTS
  Sids,        \* session ids
  SessionsTTL,
  MaxCommits,  \* bound on the commits of a session
  MaxTime      \* bound on the clock

ASSUME SessionStoreAssumption == SessionsTTL \in Nat

VARIABLES
  keeper,      \* "memory" or "nats"
  now,         \* the clock, in units of the expiration loop's period
  stored,      \* sid -> the state kept for it, 0 if none
  expiring,    \* memory: b.expireSessions
  life,        \* sid -> "new", "connected" or "finished"
  running,     \* sid -> whether a handler is about to commit it
  committed,   \* sid -> number of commits
  touchedAt,   \* sid -> when it was last written
  finishedAt,  \* sid -> when it was finished
  leaked       \* history: sessions stored after the disconnect, never to expire

kvars == <<keeper, now, stored, expiring, life, running, committed, touchedAt,
           finishedAt, leaked>>

KInit ==
  /\ keeper \in {"memory", "nats"} /\ now = 0
  /\ stored = [s \in Sids |-> 0] /\ expiring = <<>>
  /\ life = [s \in Sids |-> "new"] /\ running = [s \in Sids |-> FALSE]
  /\ committed = [s \in Sids |-> 0]
  /\ touchedAt = [s \in Sids |-> 0] /\ finishedAt = [s \in Sids |-> 0]
  /\ leaked = {}

\* Node.Authenticate up to its commit: the session is in the hub.
StartSession(s) ==
  /\ life[s] = "new"
  /\ life' = [life EXCEPT ![s] = "connected"]
  /\ running' = [running EXCEPT ![s] = TRUE]
  /\ UNCHANGED <<keeper, now, stored, expiring, committed, touchedAt,
                 finishedAt, leaked>>

\* A command up to its commit.
StartCommand(s) ==
  /\ life[s] = "connected" /\ ~running[s] /\ committed[s] < MaxCommits
  /\ running' = [running EXCEPT ![s] = TRUE]
  /\ UNCHANGED <<keeper, now, stored, expiring, life, committed, touchedAt,
                 finishedAt, leaked>>

CommitSession(s) ==
  /\ running[s]
  /\ running' = [running EXCEPT ![s] = FALSE]
  /\ committed' = [committed EXCEPT ![s] = @ + 1]
  /\ stored' = [stored EXCEPT ![s] = committed[s] + 1]
  /\ touchedAt' = [touchedAt EXCEPT ![s] = now]
  /\ leaked' = IF /\ keeper = "memory" /\ life[s] = "finished"
                  /\ \A j \in DOMAIN expiring : expiring[j].sid # s
               THEN leaked \cup {s} ELSE leaked
  /\ UNCHANGED <<keeper, now, expiring, life, finishedAt>>

\* mutant: the memory broker does not list the session for expiration
FinishSession_NotListed(s) ==
  /\ life[s] = "connected"
  /\ life' = [life EXCEPT ![s] = "finished"]
  /\ finishedAt' = [finishedAt EXCEPT ![s] = now]
  /\ touchedAt' = [touchedAt EXCEPT ![s] =
                     IF stored[s] # 0 /\ keeper = "nats" THEN now ELSE @]
  /\ UNCHANGED <<keeper, now, stored, expiring, running, committed, leaked>>

\* Both keepers do nothing for a session they do not have.
FinishSession(s) ==
  /\ life[s] = "connected"
  /\ life' = [life EXCEPT ![s] = "finished"]
  /\ finishedAt' = [finishedAt EXCEPT ![s] = now]
  /\ IF stored[s] # 0 /\ keeper = "memory"
     THEN expiring' = Append(expiring, [sid |-> s, deadline |-> now + SessionsTTL])
     ELSE UNCHANGED expiring
  /\ IF stored[s] # 0 /\ keeper = "nats"
     THEN touchedAt' = [touchedAt EXCEPT ![s] = now]
     ELSE UNCHANGED touchedAt
  /\ UNCHANGED <<keeper, now, stored, running, committed, leaked>>

\* mutant: a session is due at its deadline
DueCount_Early ==
  CHOOSE i \in 0 .. Len(expiring) :
    /\ \A j \in 1 .. i : expiring[j].deadline <= now
    /\ i < Len(expiring) => expiring[i + 1].deadline > now

\* The sessions part of Memory.expire: up to the first one that is not due.
DueCount ==
  CHOOSE i \in 0 .. Len(expiring) :
    /\ \A j \in 1 .. i : expiring[j].deadline < now
    /\ i < Len(expiring) => expiring[i + 1].deadline >= now

ExpireSessions ==
  /\ keeper = "memory" /\ DueCount > 0
  /\ stored' = [s \in Sids |->
                  IF \E j \in 1 .. DueCount : expiring[j].sid = s
                  THEN 0 ELSE stored[s]]
  /\ expiring' = SubSeq(expiring, DueCount + 1, Len(expiring))
  /\ UNCHANGED <<keeper, now, life, running, committed, touchedAt, finishedAt,
                 leaked>>

\* The bucket of the NATS broker drops a key SessionsTTL after its last write.
ExpireKey(s) ==
  /\ keeper = "nats" /\ stored[s] # 0 /\ touchedAt[s] + SessionsTTL < now
  /\ stored' = [stored EXCEPT ![s] = 0]
  /\ UNCHANGED <<keeper, now, expiring, life, running, committed, touchedAt,
                 finishedAt, leaked>>

TickSessions ==
  /\ now < MaxTime
  /\ now' = now + 1
  /\ UNCHANGED <<keeper, stored, expiring, life, running, committed, touchedAt,
                 finishedAt, leaked>>

SessionsExpire == ExpireSessions \/ \E s \in Sids : ExpireKey(s)

KNext ==
  \/ \E s \in Sids : \/ StartSession(s) \/ StartCommand(s)
                     \/ CommitSession(s) \/ FinishSession(s)
  \/ SessionsExpire \/ TickSessions

KSpec == KInit /\ [][KNext]_kvars /\ WF_kvars(SessionsExpire)

-----------------------------------------------------------------------------
\* How long a session has to be kept: the memory broker counts SessionsTTL
\* from the disconnect, the NATS broker from the last write.
MustBeKept(s) ==
  /\ committed[s] > 0
  /\ IF keeper = "memory"
     THEN life[s] = "connected" \/ now <= finishedAt[s] + SessionsTTL
     ELSE now <= touchedAt[s] + SessionsTTL

\* RestoreSession finds the last committed state of a session for as long as
\* it has to be kept, however the commits of its handlers, its disconnect and
\* the expiration of other sessions interleave.
SessionRestorable ==
  \A s \in Sids : MustBeKept(s) => stored[s] = committed[s]

PastItsTime(s) ==
  /\ life[s] = "finished" /\ ~running[s]
  /\ now > finishedAt[s] + SessionsTTL /\ now > touchedAt[s] + SessionsTTL

\* A session that disconnected and is past its time is dropped, unless the
\* memory broker stored it after the disconnect with no expiration pending:
\* a first commit that FinishSession overtook, or a commit slower than the TTL.
\* Time and again none is left.
FinishedSessionsExpire ==
  []<>(\A s \in Sids : PastItsTime(s) => stored[s] = 0 \/ s \in leaked)
=============================================================================
