\* A controller that may answer with an error.
SPECIFICATION CmdFairSpec
CONSTANTS
  Sessions = {s1}
  Channels = {c1}
  Streams = {a}
  RpcErrors = TRUE
  Stops = TRUE
  MaxCommands = 3
PROPERTY
  EveryCommandCompletes
\* the clients may stop sending commands
CHECK_DEADLOCK FALSE
