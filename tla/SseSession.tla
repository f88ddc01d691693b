----------------------------- MODULE SseSession -----------------------------
(***************************************************************************)
(* A session over server-sent events: the HTTP handler (sse/handler.go),   *)
(* its connection with the backlog (sse/connection.go), and the session's  *)
(* writer goroutine, queue and disconnects (node/session.go).  The         *)
(* response may be written only until the handler returns.  Messages are   *)
(* numbered in the order the session is given them; CloseFrame is the one  *)
(* that ends the writer.                                                   *)
(***************************************************************************)
EXTENDS Integers, Sequences

CONSTANTS
  QueueCap,   \* capacity of sendCh
  MaxEvents,  \* bound on the messages sent to the session
  MayStall    \* whether the client may stop reading

ASSUME SseAssumption == QueueCap \in Nat /\ MaxEvents \in Nat /\ MayStall \in BOOLEAN

VARIABLES
  handler,                     \* "subscribe", "loop" or "returned"
  notified,                    \* handler: shutdownReceived
  queue, chOpen,               \* sendCh and whether it is open
  sseConnected,                \* s.Connected
  writer,                      \* "idle", "writing" (holds s.mu), "failed" or "stopped"
  established, done, backlog,  \* sse.Connection
  response,                    \* what was written to the response
  sent,                        \* messages given to the session so far
  hub,                         \* "idle" or "sending": a gate's call of Send
  gone,                        \* the client closed the request (r.Context)
  serverDown,                  \* the server's ShutdownCtx is done
  stalled,                     \* the client does not read
  overflowed,                  \* history: sendCh was closed because it was full
  overtook,                    \* history: the client left a session disconnected already
  misused                      \* history: the response was written after the return

evars == <<handler, notified, queue, chOpen, sseConnected, writer, established,
           done, backlog, response, sent, hub, gone, serverDown, stalled,
           overflowed, overtook, misused>>

CloseFrame == 0
muFree == writer # "writing"

\* The session is authenticated and its writer runs.
EInit ==
  /\ handler = "subscribe" /\ notified = FALSE
  /\ queue = <<>> /\ chOpen = TRUE /\ sseConnected = TRUE /\ writer = "idle"
  /\ established = FALSE /\ done = FALSE /\ backlog = <<>> /\ response = <<>>
  /\ sent = 0 /\ hub = "idle"
  /\ gone = FALSE /\ serverDown = FALSE /\ stalled = FALSE
  /\ overflowed = FALSE /\ overtook = FALSE /\ misused = FALSE

\* sendFrame of several frames in a row: a full channel is closed and the
\* session disconnected.
Enqueue(frames) ==
  LET room == IF chOpen THEN QueueCap - Len(queue) ELSE 0
      fits == Len(frames) <= room
  IN  /\ queue' = IF ~chOpen THEN queue
                  ELSE queue \o SubSeq(frames, 1, IF fits THEN Len(frames) ELSE room)
      /\ chOpen' = (chOpen /\ fits)
      /\ overflowed' = (overflowed \/ (chOpen /\ ~fits))

\* A gate of the hub calls Send, which waits for s.mu.
hubSends ==
  /\ hub = "idle" /\ sseConnected /\ sent < MaxEvents
  /\ hub' = "sending"
  /\ UNCHANGED <<handler, notified, queue, chOpen, sseConnected, writer,
                 established, done, backlog, response, sent, gone, serverDown,
                 stalled, overflowed, overtook, misused>>

Send ==
  /\ hub = "sending" /\ muFree
  /\ hub' = "idle" /\ sent' = sent + 1
  /\ Enqueue(<<sent + 1>>)
  /\ sseConnected' = (sseConnected /\ ~overflowed')
  /\ UNCHANGED <<handler, notified, writer, established, done, backlog,
                 response, gone, serverDown, stalled, overtook, misused>>

\* Session.Disconnect from elsewhere (a remote command, a failed ping).
DisconnectElsewhere ==
  /\ sseConnected /\ muFree
  /\ Enqueue(<<CloseFrame>>) /\ sseConnected' = FALSE
  /\ UNCHANGED <<handler, notified, writer, established, done, backlog,
                 response, sent, hub, gone, serverDown, stalled, overtook, misused>>

\* mutant: the close frame ends the writer and not the connection
takeFrame_KeepsConn ==
  /\ writer = "idle"
  /\ IF queue = <<>> THEN ~chOpen /\ writer' = "stopped" /\ UNCHANGED queue
     ELSE /\ queue' = IF Head(queue) = CloseFrame THEN Tail(queue) ELSE queue
          /\ writer' = IF Head(queue) = CloseFrame THEN "stopped" ELSE "writing"
  /\ UNCHANGED <<handler, notified, chOpen, sseConnected, established, done,
                 backlog, response, sent, hub, gone, serverDown, stalled,
                 overflowed, overtook, misused>>

\* SendMessages takes a frame; a text frame is written with s.mu held.
takeFrame ==
  /\ writer = "idle"
  /\ IF queue = <<>>
     THEN ~chOpen /\ writer' = "stopped" /\ UNCHANGED <<queue, done, sseConnected, chOpen>>
     ELSE /\ queue' = IF Head(queue) = CloseFrame THEN Tail(queue) ELSE queue
          /\ writer' = IF Head(queue) = CloseFrame THEN "stopped" ELSE "writing"
          /\ done' = (done \/ Head(queue) = CloseFrame)
          /\ sseConnected' = (sseConnected /\ Head(queue) # CloseFrame)
          /\ chOpen' = (chOpen /\ ~(Head(queue) = CloseFrame /\ sseConnected))
  /\ UNCHANGED <<handler, notified, established, backlog, response, sent, hub,
                 gone, serverDown, stalled, overflowed, overtook, misused>>

\* Connection.Write: dropped, kept for later or written; the write of a
\* client that stopped reading does not end, and fails when it left.
Write(ok) ==
  /\ writer = "writing"
  /\ LET out == ~done /\ established
     IN  /\ out => (~stalled \/ gone) /\ (ok \/ gone)
         /\ ~out => ok
         /\ backlog' = IF ~done /\ ~established THEN Append(backlog, Head(queue)) ELSE backlog
         /\ response' = IF out /\ ok THEN Append(response, Head(queue)) ELSE response
         /\ misused' = (misused \/ (out /\ handler = "returned"))
  /\ queue' = Tail(queue)
  /\ writer' = IF ok THEN "idle" ELSE "failed"
  /\ UNCHANGED <<handler, notified, chOpen, sseConnected, established, done, sent,
                 hub, gone, serverDown, stalled, overflowed, overtook>>

\* disconnectNow: nothing for a session that is disconnected already.
DisconnectNow ==
  /\ sseConnected' = FALSE
  /\ IF sseConnected THEN done' = TRUE /\ chOpen' = FALSE
     ELSE UNCHANGED <<done, chOpen>>

writeFailed ==
  /\ writer = "failed"
  /\ DisconnectNow /\ writer' = "stopped"
  /\ UNCHANGED <<handler, notified, queue, established, backlog, response,
                 sent, hub, gone, serverDown, stalled, overflowed, overtook, misused>>

\* The subscriptions are confirmed: the headers, then conn.Established.
Established ==
  /\ handler = "subscribe" /\ muFree
  /\ handler' = "loop" /\ established' = TRUE
  /\ response' = response \o backlog /\ backlog' = <<>>
  /\ UNCHANGED <<notified, queue, chOpen, sseConnected, writer, done, sent, hub,
                 gone, serverDown, stalled, overflowed, overtook, misused>>

\* The deferred session.Disconnect and the return.
ReturnHandler ==
  /\ Enqueue(<<CloseFrame>>) /\ sseConnected' = FALSE
  /\ handler' = "returned"

\* A subscription was rejected.
rejected ==
  /\ handler = "subscribe" /\ muFree
  /\ ReturnHandler
  /\ UNCHANGED <<notified, writer, established, done, backlog, response, sent,
                 hub, gone, serverDown, stalled, overtook, misused>>

\* <-shutdownCtx.Done(): DisconnectWithMessage, once.
shutdownReceived ==
  /\ handler = "loop" /\ serverDown /\ ~notified /\ muFree
  /\ notified' = TRUE /\ sent' = sent + 1
  /\ Enqueue(<<sent + 1, CloseFrame>>) /\ sseConnected' = FALSE
  /\ UNCHANGED <<handler, writer, established, done, backlog, response, hub,
                 gone, serverDown, stalled, overtook, misused>>

\* mutant: the handler returns and leaves the session to the others
requestTerminated_StillOpen ==
  /\ handler = "loop" /\ gone /\ muFree
  /\ handler' = "returned" /\ overtook' = ~sseConnected
  /\ UNCHANGED <<notified, queue, chOpen, sseConnected, writer, established,
                 done, backlog, response, sent, hub, gone, serverDown, stalled,
                 overflowed, misused>>

\* <-r.Context().Done()
requestTerminated ==
  /\ handler = "loop" /\ gone /\ muFree
  /\ IF sseConnected
     THEN DisconnectNow /\ handler' = "returned" /\ UNCHANGED <<queue, overflowed>>
     ELSE ReturnHandler /\ UNCHANGED done
  /\ overtook' = ~sseConnected
  /\ UNCHANGED <<notified, writer, established, backlog, response, sent, hub,
                 gone, serverDown, stalled, misused>>

\* <-conn.Context().Done()
sessionCompleted ==
  /\ handler = "loop" /\ done /\ muFree
  /\ ReturnHandler
  /\ UNCHANGED <<notified, writer, established, done, backlog, response, sent,
                 hub, gone, serverDown, stalled, overtook, misused>>

\* The client and the server's Shutdown (external).
Outside ==
  /\ \/ ~gone /\ gone' = TRUE /\ UNCHANGED <<serverDown, stalled>>
     \/ ~serverDown /\ serverDown' = TRUE /\ UNCHANGED <<gone, stalled>>
     \/ MayStall /\ ~stalled /\ stalled' = TRUE /\ UNCHANGED <<gone, serverDown>>
  /\ UNCHANGED <<handler, notified, queue, chOpen, sseConnected, writer,
                 established, done, backlog, response, sent, hub, overflowed,
                 overtook, misused>>

WriterStep == takeFrame \/ (\E ok \in BOOLEAN : Write(ok)) \/ writeFailed
HandlerStep ==
  Established \/ rejected \/ shutdownReceived \/ requestTerminated \/ sessionCompleted

ENext == hubSends \/ Send \/ DisconnectElsewhere \/ WriterStep \/ HandlerStep \/ Outside

\* The goroutines are scheduled.  The writer takes s.mu a finite number of
\* times, so weak fairness is enough for those who wait for it.
EFairness ==
  WF_evars(WriterStep) /\ WF_evars(Send) /\ WF_evars(HandlerStep)

ESpec == EInit /\ [][ENext]_evars /\ EFairness

-----------------------------------------------------------------------------
\* The client gets the session's messages in order and without a gap, those
\* from before Established first.
ResponseInOrder == response \o backlog = [i \in 1 .. Len(response \o backlog) |-> i]

\* Nothing is written to the response after the handler has returned, unless
\* the client left a session that somebody else had disconnected already:
\* its close frame may be behind messages in the queue, and DisconnectNow
\* returns at once.
NoWriteAfterReturn == misused => overtook

\* The handler returns after the client has left, and after a shutdown of the
\* server unless the queue overflowed or the client stopped reading: an
\* overflow disconnects the session and never closes its connection.
HandlerReturns ==
  (handler = "loop" /\ (gone \/ serverDown)) ~>
    (handler = "returned" \/ (~gone /\ (overflowed \/ stalled)))

\* A gate's Send returns; a client that stopped reading holds s.mu, because
\* the connection ignores the deadline of the write.
GateNotHeld == (hub = "sending") ~> (hub = "idle" \/ stalled)

\* What reaches the response is right, and nothing reaches it too late.
ResponseRight == ResponseInOrder /\ NoWriteAfterReturn

\* Neither the handler nor a gate is left waiting for the other.
SseProgress == HandlerReturns /\ GateNotHeld
=============================================================================
