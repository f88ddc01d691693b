------------------------------ MODULE MCState ------------------------------
(***************************************************************************)
(* The state a node keeps and works from, on small instances: the stream   *)
(* history in memory, the subscriptions of the sessions, the history that  *)
(* follows a NATS stream, the NATS subscriptions, the circuit breaker of   *)
(* the HTTP RPC and the configuration.  A behaviour is one of one          *)
(* component, which focus names; the others stay where they start.         *)
(***************************************************************************)
EXTENDS MemoryHistory, NodeCommands, NatsBroker, NatsSubscriber, HttpRpc, MCConfig

CONSTANTS p1, p2

VARIABLE focus

Symmetric ==
  Permutations(Publishers) \cup Permutations(Sessions) \cup Permutations(Channels)

\* The configuration of a behaviour that is not about it.
ConfigParked ==
  /\ stage = "parked"
  /\ conf = <<>> /\ file = <<>> /\ args = <<>> /\ env = <<>> /\ first = <<>>

StateInit ==
  /\ focus \in {"history", "commands", "nats", "subscriber", "breaker", "config"}
  /\ Init /\ CmdInit /\ NInit /\ MInit /\ HInit
  /\ IF focus = "config" THEN CInit ELSE ConfigParked

StateNext ==
  /\ UNCHANGED focus
  /\ \/ focus = "history" /\ Next
          /\ UNCHANGED <<cmdVars, nvars, mvars, hvars, cvars>>
     \/ focus = "commands" /\ CmdNext
          /\ UNCHANGED <<vars, nvars, mvars, hvars, cvars>>
     \/ focus = "nats" /\ NNext
          /\ UNCHANGED <<vars, cmdVars, mvars, hvars, cvars>>
     \/ focus = "subscriber" /\ MNext
          /\ UNCHANGED <<vars, cmdVars, nvars, hvars, cvars>>
     \/ focus = "breaker" /\ HNext
          /\ UNCHANGED <<vars, cmdVars, nvars, mvars, cvars>>
     \/ focus = "config" /\ CNext
          /\ UNCHANGED <<vars, cmdVars, nvars, mvars, hvars>>

StateSpec ==
  StateInit /\ [][StateNext]_<<vars, cmdVars, nvars, mvars, hvars, cvars, focus>>
=============================================================================
