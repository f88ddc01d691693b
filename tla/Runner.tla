------------------------------- MODULE Runner -------------------------------
(***************************************************************************)
(* The process: Run starts the components in order and waits on errChan    *)
(* (cli/cli.go); signals run the shutdown handlers in order under one      *)
(* deadline, and a second signal cuts it (utils/graceful_signals.go); the  *)
(* HTTP server stops accepting and its Serve goroutine ends                *)
(* (server/server.go, startWSServer); WebSocket clients are accepted,      *)
(* hijacked (ws/handler.go) and join the node.                             *)
(***************************************************************************)
EXTENDS Integers, Sequences, FiniteSets

CONSTANTS
  Clients,    \* WebSocket connections
  MaxSignals  \* bound on SIGINT and SIGTERM

\* runNode and Run, and the components that may report a failure later.
BootOrder == <<"controller", "node", "subscriber", "broker", "broadcaster", "rpc", "server">>
Reporting == {"subscriber", "broker", "broadcaster"}

\* r.shutdownables: the server in front, then node and broker, then the rest.
shutdownables == <<"server", "node", "broker", "metrics", "subscriber", "broadcaster">>

VARIABLES
  boot,      \* how many of BootOrder are started
  main,      \* "starting", "waiting" on errChan, or "exited"
  result,    \* what Run returned: "none", "ok" or "error"
  senders,   \* who is blocked sending on errChan
  gaveUp,    \* components that failed
  sigCh,     \* GracefulSignals.ch holds a signal
  executed,  \* GracefulSignals.executed
  step,      \* the handler exec is running, 0 before
  forcer,    \* exec's goroutine: "none", "new", "notified" or "cut"
  signals,
  cutShort,  \* timeoutCtx is done
  flagged,   \* HTTPServer.shutdown
  serve,     \* Serve: "none", "accepting", "closed" or "over"
  wsClient,  \* client -> "new", "hijacked", "joined" or "left"
  nodeDown,  \* Node.Shutdown has disconnected the sessions
  pending    \* history: clients hijacked and not joined when nodeDown

rvars == <<boot, main, result, senders, gaveUp, sigCh, executed, step, forcer,
           signals, cutShort, flagged, serve, wsClient, nodeDown, pending>>

RInit ==
  /\ boot = 0 /\ main = "starting" /\ result = "none"
  /\ senders = {} /\ gaveUp = {}
  /\ sigCh = FALSE /\ executed = FALSE /\ step = 0 /\ forcer = "none"
  /\ signals = 0 /\ cutShort = FALSE
  /\ flagged = FALSE /\ serve = "none"
  /\ wsClient = [c \in Clients |-> "new"] /\ nodeDown = FALSE /\ pending = {}

\* The next component; an error ends Run.
startNext(ok) ==
  /\ main = "starting" /\ boot < Len(BootOrder)
  /\ IF ok
     THEN /\ boot' = boot + 1 /\ UNCHANGED <<result, gaveUp>>
          /\ main' = IF boot + 1 = Len(BootOrder) THEN "waiting" ELSE main
          /\ serve' = IF boot + 1 = Len(BootOrder) THEN "accepting" ELSE serve
     ELSE /\ main' = "exited" /\ result' = "error"
          /\ gaveUp' = gaveUp \cup {BootOrder[boot + 1]}
          /\ UNCHANGED <<boot, serve>>
  /\ UNCHANGED <<senders, sigCh, executed, step, forcer, signals, cutShort,
                 flagged, wsClient, nodeDown, pending>>

Up == main # "exited"

\* A component that was started gives up and sends to errChan.
componentFails(p) ==
  /\ Up /\ p \notin gaveUp
  /\ \E i \in 1 .. boot : BootOrder[i] = p
  /\ gaveUp' = gaveUp \cup {p} /\ senders' = senders \cup {p}
  /\ UNCHANGED <<boot, main, result, sigCh, executed, step, forcer, signals,
                 cutShort, flagged, serve, wsClient, nodeDown, pending>>

\* startWSServer's goroutine: Serve has returned an error.
serverEnds(fails) ==
  /\ Up /\ IF fails THEN serve = "accepting" /\ "server" \notin gaveUp
           ELSE serve = "closed"
  /\ serve' = "over"
  /\ gaveUp' = IF fails THEN gaveUp \cup {"server"} ELSE gaveUp
  /\ senders' = IF flagged THEN senders ELSE senders \cup {"server"}
  /\ UNCHANGED <<boot, main, result, sigCh, executed, step, forcer, signals,
                 cutShort, flagged, wsClient, nodeDown, pending>>

\* return <-r.errChan
receive(p) ==
  /\ main = "waiting" /\ p \in senders
  /\ main' = "exited" /\ senders' = senders \ {p}
  /\ result' = IF p = "handlers" THEN "ok" ELSE "error"
  /\ UNCHANGED <<boot, gaveUp, sigCh, executed, step, forcer, signals, cutShort,
                 flagged, serve, wsClient, nodeDown, pending>>

\* The operating system delivers a signal to every channel registered for it;
\* exec's goroutine cancels the context, and its own nil comes too late.
Signal ==
  /\ main = "waiting" /\ signals < MaxSignals
  /\ signals' = signals + 1 /\ sigCh' = TRUE
  /\ IF forcer = "notified" THEN forcer' = "cut" /\ cutShort' = TRUE
     ELSE UNCHANGED <<forcer, cutShort>>
  /\ UNCHANGED <<boot, main, result, senders, gaveUp, executed, step, flagged,
                 serve, wsClient, nodeDown, pending>>

\* listen and exec; listen is not back for another signal before the last
\* handler has ended the process.
exec ==
  /\ Up /\ sigCh /\ step = 0
  /\ sigCh' = FALSE /\ executed' = TRUE /\ step' = 1 /\ forcer' = "new"
  /\ UNCHANGED <<boot, main, result, senders, gaveUp, signals, cutShort, flagged,
                 serve, wsClient, nodeDown, pending>>

\* exec's goroutine registers for the second signal.
notify ==
  /\ Up /\ forcer = "new"
  /\ forcer' = "notified"
  /\ UNCHANGED <<boot, main, result, senders, gaveUp, sigCh, executed, step,
                 signals, cutShort, flagged, serve, wsClient, nodeDown, pending>>

\* mutant: the listeners are closed first
stopServer_FlagLast ==
  /\ Up /\ step = 1
  /\ IF serve = "accepting" THEN serve' = "closed" /\ UNCHANGED <<flagged, step>>
     ELSE flagged' = TRUE /\ step' = 2 /\ UNCHANGED serve
  /\ UNCHANGED <<boot, main, result, senders, gaveUp, sigCh, executed, forcer,
                 signals, cutShort, wsClient, nodeDown, pending>>

\* HTTPServer.Shutdown: the flag first, then the listeners are closed.
stopServer ==
  /\ Up /\ step = 1
  /\ IF ~flagged
     THEN flagged' = TRUE /\ UNCHANGED <<serve, step>>
     ELSE /\ serve' = IF serve = "accepting" THEN "closed" ELSE serve
          /\ step' = 2 /\ UNCHANGED flagged
  /\ UNCHANGED <<boot, main, result, senders, gaveUp, sigCh, executed, forcer,
                 signals, cutShort, wsClient, nodeDown, pending>>

\* Node.Shutdown: past the deadline some sessions may be left.
stopNode ==
  /\ Up /\ step \in 2 .. Len(shutdownables) /\ shutdownables[step] = "node"
  /\ \E gone \in SUBSET {c \in Clients : wsClient[c] = "joined"} :
       /\ cutShort \/ \A c \in Clients \ gone : wsClient[c] # "joined"
       /\ wsClient' = [c \in Clients |-> IF c \in gone THEN "left" ELSE wsClient[c]]
  /\ nodeDown' = TRUE /\ step' = step + 1
  /\ pending' = {c \in Clients : wsClient[c] = "hijacked"}
  /\ UNCHANGED <<boot, main, result, senders, gaveUp, sigCh, executed, forcer,
                 signals, cutShort, flagged, serve>>

\* mutant: nobody sends nil in the end
runHandler_NoNil ==
  /\ Up
  /\ step \in 2 .. Len(shutdownables) /\ shutdownables[step] # "node"
  /\ step' = step + 1
  /\ UNCHANGED <<boot, main, result, senders, gaveUp, sigCh, executed, forcer,
                 signals, cutShort, flagged, serve, wsClient, nodeDown, pending>>

\* Any other handler, and the last one, which waits for Run to take nil.
runHandler ==
  /\ Up
  /\ \/ /\ step \in 2 .. Len(shutdownables) /\ shutdownables[step] # "node"
        /\ step' = step + 1 /\ UNCHANGED senders
     \/ /\ step = Len(shutdownables) + 1 /\ "handlers" \notin senders
        /\ senders' = senders \cup {"handlers"} /\ UNCHANGED step
  /\ UNCHANGED <<boot, main, result, gaveUp, sigCh, executed, forcer, signals,
                 cutShort, flagged, serve, wsClient, nodeDown, pending>>

\* The deadline of timeoutCtx.
deadline ==
  /\ Up /\ step > 0 /\ ~cutShort
  /\ cutShort' = TRUE
  /\ UNCHANGED <<boot, main, result, senders, gaveUp, sigCh, executed, step,
                 forcer, signals, flagged, serve, wsClient, nodeDown, pending>>

\* The request is upgraded, and a goroutine of its own authenticates it.
hijack(c) ==
  /\ Up /\ serve = "accepting" /\ wsClient[c] = "new"
  /\ wsClient' = [wsClient EXCEPT ![c] = "hijacked"]
  /\ UNCHANGED <<boot, main, result, senders, gaveUp, sigCh, executed, step,
                 forcer, signals, cutShort, flagged, serve, nodeDown, pending>>

join(c) ==
  /\ Up /\ wsClient[c] = "hijacked"
  /\ wsClient' = [wsClient EXCEPT ![c] = "joined"]
  /\ UNCHANGED <<boot, main, result, senders, gaveUp, sigCh, executed, step,
                 forcer, signals, cutShort, flagged, serve, nodeDown, pending>>

ShutdownStep == exec \/ notify \/ stopServer \/ stopNode \/ runHandler
Receive == \E p \in senders : receive(p)

RNext ==
  \/ \E ok \in BOOLEAN : startNext(ok) \/ serverEnds(ok)
  \/ \E p \in Reporting : componentFails(p)
  \/ Receive \/ Signal \/ ShutdownStep \/ deadline
  \/ \E c \in Clients : hijack(c) \/ join(c)

\* Every Shutdown returns, by itself or when its context is done.
RSpec ==
  /\ RInit /\ [][RNext]_rvars
  /\ WF_rvars(\E ok \in BOOLEAN : startNext(ok))
  /\ WF_rvars(ShutdownStep) /\ WF_rvars(Receive)

-----------------------------------------------------------------------------
\* "We MUST first stop the server (=stop accepting new connections), then
\* gracefully disconnect active clients": a process that ends in time after a
\* signal leaves no session behind, except a connection that was accepted
\* before and had not joined when the node disconnected its sessions.
NoClientLeftBehind ==
  (main = "exited" /\ result = "ok" /\ ~cutShort) =>
    {c \in Clients : wsClient[c] = "joined"} \subseteq pending

\* Run returns an error only when a component failed: the end of Serve that
\* Shutdown causes is not taken for one.
CleanShutdownSucceeds == result = "error" => gaveUp # {}

\* The process exits after the first signal and after any reported failure,
\* including one reported before Run listens to errChan.
ProcessExits == (executed \/ senders # {}) ~> (main = "exited")

\* What a graceful stop promises: no client is left behind, and no error is
\* reported for what the stop itself ended.
GracefulStop == NoClientLeftBehind /\ CleanShutdownSucceeds
=============================================================================
