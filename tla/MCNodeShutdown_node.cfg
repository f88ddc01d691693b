\* Two sessions, one of them with a Disconnect call, a remote command and a shutdown.
CONSTANTS
  s1 = s1  s2 = s2  s3 = s3
  Sessions = {s1, s2}
  Disconnectable = {s1}
  NoSession = NoSession
  Backlog = 1
  RegisterCap = 1
  PoolSize = 1
  MaxCommands = 1
  NodeMayStop = TRUE
SPECIFICATION FairSpec
INVARIANT
  CallsAccounted
PROPERTIES
  ImplementsQueue
  ShutdownProgress
\* A node that was shut down takes no more steps.
CHECK_DEADLOCK FALSE
