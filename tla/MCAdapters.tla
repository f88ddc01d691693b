----------------------------- MODULE MCAdapters -----------------------------
(***************************************************************************)
(* What connects a node with the rest, on small instances: the RPC         *)
(* controller, the Redis broadcaster and subscriber, the start of the NATS *)
(* broker and the sessions kept for recovery, under fair scheduling.  A    *)
(* behaviour is one of one component, which focus names; the others stay   *)
(* where they start, and the fairness of each is asked of it only while it *)
(* is in focus.                                                            *)
(***************************************************************************)
EXTENDS RpcController, RedisBroadcaster, SessionStore, NatsBacklog, RedisSubscriber

CONSTANTS c1, c2, b1, b2

VARIABLE focus

AdaptersInit ==
  /\ focus \in {"rpc", "broadcaster", "subscriber", "backlog", "sessions"}
  /\ Init /\ BInit /\ KInit /\ LInit /\ SInit
  /\ focus # "sessions" => keeper = "memory"

AdaptersNext ==
  /\ UNCHANGED focus
  /\ \/ focus = "rpc" /\ Next /\ UNCHANGED <<bvars, kvars, lvars, svars>>
     \/ focus = "broadcaster" /\ BNext /\ UNCHANGED <<vars, kvars, lvars, svars>>
     \/ focus = "sessions" /\ KNext /\ UNCHANGED <<vars, bvars, lvars, svars>>
     \/ focus = "backlog" /\ LNext /\ UNCHANGED <<vars, bvars, kvars, svars>>
     \/ focus = "subscriber" /\ SNext /\ UNCHANGED <<vars, bvars, kvars, lvars>>

focusVars ==
  CASE focus = "rpc" -> vars
    [] focus = "broadcaster" -> bvars
    [] focus = "sessions" -> kvars
    [] focus = "backlog" -> lvars
    [] OTHER -> svars

\* What is fair in the components: FairSpec, BFairness, KSpec, LFairness and
\* SFairness, for the caller c and the node n.  Since focus never changes, a
\* condition on a disjunction of steps of different components is one on each
\* of them.  The calls of the backlog are finite in number, so that one
\* condition is enough for them.
WeakCall(c, n) ==
  /\ UNCHANGED focus
  /\ \/ focus = "rpc" /\ Finish(c)
     \/ focus = "broadcaster" /\ ReaderStep(n)
     \/ focus = "subscriber" /\ Record(c)

Weak ==
  /\ UNCHANGED focus
  /\ \/ focus = "sessions" /\ SessionsExpire
     \/ focus = "backlog" /\ (BrokerStep \/ \E p \in Broadcasters : CallStep(p))
     \/ focus = "subscriber" /\ LoopStep

WeakShutdown(n) ==
  UNCHANGED focus /\ focus = "broadcaster" /\ removeConsumer(n)

Strong(c, n) ==
  /\ UNCHANGED focus
  /\ \/ focus = "rpc" /\ Acquire(c)
     \/ focus = "broadcaster" /\ autoclaimMessages(n, Pending)
     \/ focus = "subscriber" /\ SendCommand(c)

AdaptersFairness ==
  /\ WF_focusVars(WeakCall(c1, b1)) /\ WF_focusVars(WeakCall(c2, b2))
  /\ WF_focusVars(Weak)
  /\ WF_focusVars(WeakShutdown(b1)) /\ WF_focusVars(WeakShutdown(b2))
  /\ SF_focusVars(Strong(c1, b1)) /\ SF_focusVars(Strong(c2, b2))

AdaptersSpec ==
  /\ AdaptersInit
  /\ [][AdaptersNext]_<<vars, bvars, kvars, lvars, svars, focus>>
  /\ AdaptersFairness
=============================================================================
