\* A session with stalling writes and a buffer of one frame, no pong timeout; an
\* SSE session with a queue of two; and one WebSocket client of a process that
\* gets two signals.
CONSTANTS
  SendCap = 1
  WithPong = FALSE
  Stalls = TRUE
  MaxInputs = 1
  QueueCap = 2
  MaxEvents = 3
  MayStall = TRUE
  Clients = {k1}
  MaxSignals = 2
SPECIFICATION ConnectionsSpec
INVARIANTS
  ResponseRight
  GracefulStop
PROPERTIES
  GoneClientLeavesHub
  
  SseProgress
  
\* A session or a process that has ended takes no more steps.
CHECK_DEADLOCK FALSE
