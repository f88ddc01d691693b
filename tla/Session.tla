------------------------------ MODULE Session ------------------------------
(***************************************************************************)
(* The life of one client session (node/session.go): authentication,       *)
(* the goroutines that read and write the connection, the ping and pong    *)
(* timers, and the ways in which a session ends.                           *)
(*                                                                         *)
(* Several goroutines run the same methods on the session at once, and     *)
(* Session.Disconnect and disconnectNow take s.mu several times with       *)
(* unlocked gaps in between.  The model keeps, per goroutine, the steps    *)
(* it still has to do: a method call puts the steps of the method in       *)
(* front.  Each step is one critical section (or one unlocked access) of   *)
(* the code, so that all interleavings of the gaps are explored.           *)
(*                                                                         *)
(* A frame is "data" or "close": payloads play no part in the lifecycle.   *)
(* The session authenticates on connect (no handshake deadline), as all    *)
(* the sessions built by the cli package do.                               *)
(***************************************************************************)
EXTENDS Naturals, Sequences

CONSTANTS
    SendCap,        \* capacity of s.sendCh (256 in NewSession)
    WithPong,       \* the session has a pong timeout
    Stalls,         \* a write to a live client may run into its deadline
    MaxInputs       \* bound: client messages, broadcasts and remote disconnects

ASSUME SessionAssumption ==
    /\ SendCap \in Nat \ {0}
    /\ WithPong \in BOOLEAN /\ Stalls \in BOOLEAN
    /\ MaxInputs \in Nat

\* handler: the goroutine of the HTTP request; reader: Serve; writer:
\* SendMessages; ping, pong: timer goroutines; gate: a gate loop of the hub;
\* remote: a remote disconnect command or Node.Shutdown
Threads == {"handler", "reader", "writer", "ping", "pong", "gate", "remote"}

Nobody == "nobody"

VARIABLES
    connected,  \* s.Connected
    closed,     \* s.closed
    sendCh,     \* s.sendCh is not nil
    buf,        \* the frames in the channel
    closes,     \* history: how often the channel was closed
    conn,       \* the connection: "up", "gone" (lost by the peer), "closed" (by us)
    broken,     \* a write failed: all the later ones fail too
    mu,         \* who holds s.mu over a blocking conn.Write, or Nobody
    todo,       \* the steps each goroutine has left
    pingTimer,  \* the ping timer is armed
    pongTimer,  \* the pong timer is armed
    inHub,      \* the hub has the session
    left,       \* history: calls of executor.Disconnect
    early,      \* history: a disconnect was over before the node had registered the session
    inputs      \* client messages, broadcasts and remote disconnects so far

sessionVars == <<connected, closed, sendCh, buf, closes, conn, broken, mu, todo,
          pingTimer, pongTimer, inHub, left, early, inputs>>

chanVars == <<sendCh, buf, closes>>
connVars == <<conn, broken>>
timers == <<pingTimer, pongTimer>>
flags == <<connected, closed, inHub, left, early>>

Steps == {"send", "sendClose", "close", "leave", "exec", "ifConnected",
          "writeClose", "closeCh", "receive", "write", "writing", "addPing",
          "pingCheck", "pongCheck", "authenticate", "connected", "addSession",
          "serve", "isClosed", "read", "keepalive", "command", "resetPong"}

\* mutant: the session is closed but the node is not told
Disconnect_CloseOnly == <<"sendClose", "close">>

\* Session.Disconnect
Disconnect == <<"sendClose", "close", "leave">>

\* Session.disconnectNow
disconnectNow == <<"ifConnected", "leave", "writeClose", "closeCh", "close">>

\* Node.Authenticated and the rest of a successful Node.Authenticate
Authenticated == <<"connected", "addSession", "send", "serve">>

\* Node.HandleCommand, called by ReadMessage, and the next turn of the loop
HandleCommand == <<"keepalive", "command", "resetPong", "isClosed">>

SessionInit ==
    /\ connected = FALSE /\ closed = FALSE
    /\ sendCh = TRUE /\ buf = <<>> /\ closes = 0
    /\ conn = "up" /\ broken = FALSE /\ mu = Nobody
    /\ todo = [t \in Threads |-> CASE t = "handler" -> <<"authenticate">>
                                   [] t = "writer" -> <<"receive">>
                                   [] OTHER -> <<>>]
    /\ pingTimer = TRUE /\ pongTimer = WithPong
    /\ inHub = FALSE /\ left = 0 /\ early = FALSE
    /\ inputs = 0

At(t, step) == todo[t] # <<>> /\ Head(todo[t]) = step

\* the step of t is done and calls the given steps before the others
Call(t, steps) == todo' = [todo EXCEPT ![t] = steps \o Tail(@)]

\* t leaves what it was doing and does the given steps instead
Become(t, steps) == todo' = [todo EXCEPT ![t] = steps]

Locked(t, step) == At(t, step) /\ mu = Nobody /\ UNCHANGED mu

-----------------------------------------------------------------------------
(* Session.sendFrame, of a data frame (Send) or a close frame (sendClose). *)
(* A full channel is closed and dropped, and the deferred Disconnect runs  *)
(* in the calling goroutine.                                               *)

sendFrame(t, step, frame) ==
    /\ Locked(t, step)
    /\ \/ /\ ~sendCh
          /\ Call(t, <<>>)
          /\ UNCHANGED chanVars
       \/ /\ sendCh /\ Len(buf) < SendCap
          /\ buf' = Append(buf, frame)
          /\ Call(t, <<>>)
          /\ UNCHANGED <<sendCh, closes>>
       \/ /\ sendCh /\ Len(buf) = SendCap
          /\ closes' = closes + 1
          /\ sendCh' = FALSE
          /\ Call(t, Disconnect)
          /\ UNCHANGED buf
    /\ UNCHANGED <<flags, connVars, timers, inputs>>

\* Session.close: the timers are stopped the first time only
close(t) ==
    /\ Locked(t, "close")
    /\ closed' = TRUE
    /\ IF closed THEN UNCHANGED timers ELSE pingTimer' = FALSE /\ pongTimer' = FALSE
    /\ Call(t, <<>>)
    /\ UNCHANGED <<connected, inHub, left, early, chanVars, connVars, inputs>>

\* mutant: Connected is cleared only after executor.Disconnect has returned
disconnectFromNode_ClearedLate(t) ==
    /\ Locked(t, "leave")
    /\ Call(t, IF connected /\ left = 0 THEN <<"exec", "leave">> ELSE <<>>)
    /\ connected' = (connected /\ left = 0)
    /\ UNCHANGED <<closed, inHub, left, early, chanVars, connVars, timers, inputs>>

\* Session.disconnectFromNode: executor.Disconnect is deferred, it runs
\* after s.mu is released
disconnectFromNode(t) ==
    /\ Locked(t, "leave")
    /\ Call(t, IF connected THEN <<"exec">> ELSE <<>>)
    /\ connected' = FALSE
    /\ UNCHANGED <<closed, inHub, left, early, chanVars, connVars, timers, inputs>>

\* executor.Disconnect: Node.Disconnect removes the session from the hub
\* (module Hub has the steps of the removal)
ExecutorDisconnect(t) ==
    /\ At(t, "exec")
    /\ inHub' = FALSE
    /\ left' = left + 1
    /\ Call(t, <<>>)
    /\ UNCHANGED <<connected, closed, early, chanVars, connVars, timers, mu, inputs>>

\* the check at the beginning of disconnectNow; its callers return after it
IfConnected(t) ==
    /\ Locked(t, "ifConnected")
    /\ IF connected THEN Call(t, <<>>) ELSE Become(t, <<>>)
    /\ UNCHANGED <<flags, chanVars, connVars, timers, inputs>>

\* writeFrame of a close frame: conn.Close, without s.mu
writeClose(t) ==
    /\ At(t, "writeClose")
    /\ conn' = "closed"
    /\ Call(t, <<>>)
    /\ UNCHANGED <<flags, chanVars, broken, timers, mu, inputs>>

\* the end of disconnectNow: close(s.sendCh) unless that has happened
closeCh(t) ==
    /\ Locked(t, "closeCh")
    /\ closes' = IF sendCh THEN closes + 1 ELSE closes
    /\ sendCh' = FALSE
    /\ Call(t, <<>>)
    /\ UNCHANGED <<flags, buf, connVars, timers, inputs>>

-----------------------------------------------------------------------------
(* SendMessages: the writer goroutine.                                     *)

SendMessages ==
    /\ At("writer", "receive")
    /\ \/ /\ buf # <<>>
          /\ buf' = Tail(buf)
          /\ Become("writer", IF Head(buf) = "close"
                              THEN <<"writeClose">> \o disconnectNow
                              ELSE <<"write">>)
       \/ /\ buf = <<>> /\ closes > 0       \* range ends: closed and drained
          /\ Become("writer", <<>>)
          /\ UNCHANGED buf
    /\ UNCHANGED <<flags, sendCh, closes, connVars, timers, mu, inputs>>

\* writeFrameWithDeadline of a text or binary frame holds s.mu while
\* conn.Write blocks, in the writer or in sendPing
WriteBegin(t) ==
    /\ At(t, "write")
    /\ mu = Nobody
    /\ mu' = t
    /\ Call(t, <<"writing">>)
    /\ UNCHANGED <<flags, chanVars, connVars, timers, inputs>>

\* mutant: a failed write is counted but the session is left alone
WriteEnd_ErrorIgnored(t) ==
    /\ At(t, "writing")
    /\ mu' = Nobody
    /\ Become(t, IF t = "writer" THEN <<"receive">> ELSE <<"addPing">>)
    /\ UNCHANGED <<flags, chanVars, conn, broken, timers, inputs>>

WriteEnd(t) ==
    /\ At(t, "writing")
    /\ mu' = Nobody
    /\ \/ /\ conn = "up" /\ ~broken
          /\ Become(t, IF t = "writer" THEN <<"receive">> ELSE <<"addPing">>)
          /\ UNCHANGED broken
       \/ /\ conn # "up" \/ broken \/ Stalls
          /\ broken' = TRUE
          /\ Become(t, IF t = "writer" THEN disconnectNow ELSE Disconnect)
    /\ UNCHANGED <<flags, chanVars, conn, timers, inputs>>

-----------------------------------------------------------------------------
(* The timers.                                                             *)

\* the ping timer fires: sendPing
PingFires ==
    /\ pingTimer /\ todo["ping"] = <<>>
    /\ pingTimer' = FALSE
    /\ Become("ping", <<"pingCheck">>)
    /\ UNCHANGED <<flags, chanVars, connVars, pongTimer, mu, inputs>>

\* mutant: sendPing does not look at s.closed
sendPing_Unchecked ==
    /\ Locked("ping", "pingCheck")
    /\ Become("ping", <<"write">>)
    /\ UNCHANGED <<flags, chanVars, connVars, timers, inputs>>

sendPing ==
    /\ Locked("ping", "pingCheck")
    /\ Become("ping", IF closed THEN <<>> ELSE <<"write">>)
    /\ UNCHANGED <<flags, chanVars, connVars, timers, inputs>>

\* addPing arms the timer whether or not the session was closed meanwhile
addPing ==
    /\ Locked("ping", "addPing")
    /\ pingTimer' = TRUE
    /\ Become("ping", <<>>)
    /\ UNCHANGED <<flags, chanVars, connVars, pongTimer, inputs>>

\* the pong timer fires: handleNoPong
PongFires ==
    /\ pongTimer /\ todo["pong"] = <<>>
    /\ pongTimer' = FALSE
    /\ Become("pong", <<"pongCheck">>)
    /\ UNCHANGED <<flags, chanVars, connVars, pingTimer, mu, inputs>>

handleNoPong ==
    /\ Locked("pong", "pongCheck")
    /\ Become("pong", IF connected THEN <<"send">> \o Disconnect ELSE <<>>)
    /\ UNCHANGED <<flags, chanVars, connVars, timers, inputs>>

-----------------------------------------------------------------------------
(* The goroutine of the HTTP request: Node.Authenticate, then Serve.       *)

\* the answer of the controller; a failure is transmitted before the
\* deferred Disconnect, an error ends the request without Serve
Authenticate ==
    /\ At("handler", "authenticate")
    /\ \E steps \in {Authenticated, <<"send">> \o Disconnect \o <<"serve">>, Disconnect} :
           Become("handler", steps)
    /\ UNCHANGED <<flags, chanVars, connVars, timers, mu, inputs>>

\* s.Connected = true, without s.mu
MarkConnected ==
    /\ At("handler", "connected")
    /\ connected' = TRUE
    /\ early' = (early \/ closed)
    /\ Call("handler", <<>>)
    /\ UNCHANGED <<closed, inHub, left, chanVars, connVars, timers, mu, inputs>>

\* n.hub.AddSession(s)
addSession ==
    /\ At("handler", "addSession")
    /\ inHub' = TRUE
    /\ early' = (early \/ ~connected)
    /\ Call("handler", <<>>)
    /\ UNCHANGED <<connected, closed, left, chanVars, connVars, timers, mu, inputs>>

Serve ==
    /\ At("handler", "serve")
    /\ todo' = [todo EXCEPT !["handler"] = <<>>, !["reader"] = <<"isClosed">>]
    /\ UNCHANGED <<flags, chanVars, connVars, timers, mu, inputs>>

-----------------------------------------------------------------------------
(* Serve's goroutine: the reader.                                          *)

ReadLoop ==
    /\ Locked("reader", "isClosed")
    /\ Become("reader", IF closed THEN <<>> ELSE <<"read">>)
    /\ UNCHANGED <<flags, chanVars, connVars, timers, inputs>>

\* conn.Read fails: the client is gone or the connection was closed
ReadError ==
    /\ At("reader", "read")
    /\ conn # "up"
    /\ Become("reader", disconnectNow)
    /\ UNCHANGED <<flags, chanVars, connVars, timers, mu, inputs>>

\* a message arrives; one that cannot be decoded ends the goroutine
ReadMessage ==
    /\ At("reader", "read")
    /\ conn = "up" /\ inputs < MaxInputs
    /\ inputs' = inputs + 1
    /\ \E steps \in {HandleCommand, <<>>} : Become("reader", steps)
    /\ UNCHANGED <<flags, chanVars, connVars, timers, mu>>

keepalive ==
    /\ Locked("reader", "keepalive")
    /\ pongTimer' = FALSE
    /\ Call("reader", <<>>)
    /\ UNCHANGED <<flags, chanVars, connVars, pingTimer, inputs>>

\* the command: nothing to send (pong), a transmission, or a reply that
\* asks for the disconnect of the session
Command ==
    /\ At("reader", "command")
    /\ \E steps \in {<<>>, <<"send">>, <<"send">> \o Disconnect} : Call("reader", steps)
    /\ UNCHANGED <<flags, chanVars, connVars, timers, mu, inputs>>

\* Timer.Reset arms the timer of a closed session again
resetPong ==
    /\ Locked("reader", "resetPong")
    /\ pongTimer' = WithPong
    /\ Call("reader", <<>>)
    /\ UNCHANGED <<flags, chanVars, connVars, pingTimer, inputs>>

-----------------------------------------------------------------------------
(* The rest of the server and the client.                                  *)

\* a gate of the hub sends a message to the session
Broadcast ==
    /\ inHub /\ todo["gate"] = <<>>
    /\ inputs < MaxInputs
    /\ inputs' = inputs + 1
    /\ Become("gate", <<"send">>)
    /\ UNCHANGED <<flags, chanVars, connVars, timers, mu>>

\* DisconnectWithMessage, by Hub.disconnectSessions or Node.disconnectAll
DisconnectWithMessage ==
    /\ inHub /\ todo["remote"] = <<>>
    /\ inputs < MaxInputs
    /\ inputs' = inputs + 1
    /\ Become("remote", <<"send">> \o Disconnect)
    /\ UNCHANGED <<flags, chanVars, connVars, timers, mu>>

\* the client closes the connection or is lost
ClientGone ==
    /\ conn = "up"
    /\ conn' = "gone"
    /\ UNCHANGED <<flags, chanVars, broken, timers, mu, todo, inputs>>

-----------------------------------------------------------------------------

\* the session's methods, run by any goroutine
Method(t) ==
    \/ sendFrame(t, "send", "data")
    \/ sendFrame(t, "sendClose", "close")
    \/ close(t)
    \/ disconnectFromNode(t)
    \/ ExecutorDisconnect(t)
    \/ IfConnected(t)
    \/ writeClose(t)
    \/ closeCh(t)
    \/ WriteBegin(t)
    \/ WriteEnd(t)

Handler == Authenticate \/ MarkConnected \/ addSession \/ Serve

Reader == ReadLoop \/ ReadError \/ keepalive \/ Command \/ resetPong

Ping == PingFires \/ sendPing \/ addPing

Pong == PongFires \/ handleNoPong

\* what a goroutine does next
Goroutine(t) ==
    \/ Method(t)
    \/ t = "writer" /\ SendMessages
    \/ t = "handler" /\ Handler
    \/ t = "reader" /\ Reader
    \/ t = "ping" /\ Ping
    \/ t = "pong" /\ Pong

Environment == ReadMessage \/ Broadcast \/ DisconnectWithMessage \/ ClientGone

SessionNext == (\E t \in Threads : Goroutine(t)) \/ Environment

SessionSpec == SessionInit /\ [][SessionNext]_sessionVars

\* Goroutines are scheduled, timers fire, conn.Write returns by its deadline
\* and the controller answers or fails; nothing is assumed of the client.
\* Weak fairness is enough: a session with a dead or closing connection
\* cannot keep a goroutine from s.mu for ever.
SessionFairness == \A t \in Threads : WF_sessionVars(Goroutine(t))

SessionFairSpec == SessionSpec /\ SessionFairness

-----------------------------------------------------------------------------
(* Properties.                                                             *)

\* Every variable keeps its type; the channel never exceeds its capacity.
SessionTypeOK ==
    /\ connected \in BOOLEAN /\ closed \in BOOLEAN /\ sendCh \in BOOLEAN
    /\ buf \in Seq({"data", "close"}) /\ Len(buf) <= SendCap
    /\ closes \in Nat /\ left \in Nat
    /\ conn \in {"up", "gone", "closed"} /\ broken \in BOOLEAN
    /\ mu \in Threads \cup {Nobody}
    /\ todo \in [Threads -> Seq(Steps)]
    /\ pingTimer \in BOOLEAN /\ pongTimer \in BOOLEAN
    /\ inHub \in BOOLEAN /\ early \in BOOLEAN
    /\ inputs \in Nat

\* close(s.sendCh) happens at most once, although the overflow in sendFrame
\* and disconnectNow both do it from any goroutine, and s.sendCh never
\* refers to a closed channel: neither a second close nor a send can panic.
ChannelClosedOnce == closes <= 1 /\ (sendCh <=> closes = 0)

\* Node.Disconnect runs at most once for a session, however many goroutines
\* disconnect it at the same time: the application gets one Disconnect call.
DisconnectedOnce == left <= 1

\* A session ends once: neither its channel nor its place in the node is given
\* up twice by the goroutines that close it at the same time.
EndedOnce == ChannelClosedOnce /\ DisconnectedOnce

\* somebody is still going to take the session out of the node
LeavePending ==
    \E t \in Threads : \E i \in 1 .. Len(todo[t]) :
        todo[t][i] \in {"leave", "exec", "ifConnected"}

\* A session that is closed but which the node still counts as connected, or
\* which is still in the hub, is being disconnected by some goroutine: the
\* hub never keeps a closed session and its Disconnect call is not lost.  The
\* exception is a session that a ping disconnects before it is registered:
\* Authenticated does not look at s.closed.
NoOrphanedSession == closed /\ (connected \/ inHub) => LeavePending \/ early

\* When the client is gone the session leaves the hub, whether the reader,
\* the writer or a ping notices it first, and even after the reader has
\* ended because of a message it could not decode (but see NoOrphanedSession).
GoneClientLeavesHub == (conn = "gone") ~> (~inHub \/ early)

\* What close() sets off comes to rest.  The timers become silent for good,
\* although addPing and resetPong arm them without looking at s.closed.
\* "Disconnect schedules connection disconnect": the connection is closed by
\* the writer, which receives the close frame, unless sendFrame has closed the
\* channel because it was full, or a write has failed and ended the writer.
\* In those two cases nobody closes it.
ClosedSessionComesToRest ==
    closed ~> []( /\ ~pingTimer /\ ~pongTimer
                  /\ conn # "up" \/ closes = 1 \/ broken)
=============================================================================
