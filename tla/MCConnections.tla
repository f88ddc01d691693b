--------------------------- MODULE MCConnections ---------------------------
(***************************************************************************)
(* The ends of things, on small instances: a WebSocket session, a session  *)
(* over SSE and the process itself, under fair scheduling.  A behaviour is *)
(* one of one component, which focus names; the others stay where they     *)
(* start, and the fairness of each is asked of it only while it is in      *)
(* focus.                                                                  *)
(***************************************************************************)
EXTENDS Session, SseSession, Runner

VARIABLE focus

ConnectionsInit ==
  /\ focus \in {"session", "sse", "runner"}
  /\ SessionInit /\ EInit /\ RInit

ConnectionsNext ==
  /\ UNCHANGED focus
  /\ \/ focus = "session" /\ SessionNext /\ UNCHANGED <<evars, rvars>>
     \/ focus = "sse" /\ ENext /\ UNCHANGED <<sessionVars, rvars>>
     \/ focus = "runner" /\ RNext /\ UNCHANGED <<sessionVars, evars>>

focusVars ==
  CASE focus = "session" -> sessionVars
    [] focus = "sse" -> evars
    [] OTHER -> rvars

\* What is fair in the components: SessionFairness, EFairness and RSpec.  Since
\* focus never changes, a condition on a disjunction of steps of different
\* components is one on each of them.
Fair(t) ==
  /\ UNCHANGED focus
  /\ \/ focus = "session" /\ Goroutine(t)
     \/ focus = "sse" /\ \/ t = "writer" /\ WriterStep
                         \/ t = "gate" /\ Send
                         \/ t = "handler" /\ HandlerStep
     \/ focus = "runner" /\ \/ t = "handler" /\ \E ok \in BOOLEAN : startNext(ok)
                            \/ t = "writer" /\ ShutdownStep
                            \/ t = "reader" /\ Receive

ConnectionsSpec ==
  /\ ConnectionsInit
  /\ [][ConnectionsNext]_<<sessionVars, evars, rvars, focus>>
  /\ \A t \in Threads : WF_focusVars(Fair(t))
=============================================================================
