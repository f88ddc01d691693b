\* Every way to end a session, with stalling writes and a buffer of one frame.
CONSTANTS
  SendCap = 1
  WithPong = TRUE
  Stalls = TRUE
  MaxInputs = 1
SPECIFICATION SessionSpec
INVARIANTS
  EndedOnce
  NoOrphanedSession
\* A session that has ended takes no more steps.
CHECK_DEADLOCK FALSE
