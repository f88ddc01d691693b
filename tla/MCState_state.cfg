\* Two publishers and a client that reconnects; two sessions with two channels
\* on one stream; a NATS stream of two messages with two consumers; three
\* callers of the NATS subscriber and of the HTTP RPC; and the combinations of
\* settings MCConfig lists.
CONSTANTS
  p1 = p1  p2 = p2
  Publishers = {p1, p2}
  Limit = 2
  TTL = 1
  Keep = 2
  Warm = TRUE
  MaxMsgs = 4
  MaxTime = 4
  Sessions = {s1, s2}
  Channels = {c1, c2}
  Streams = {a}
  RpcErrors = TRUE
  Stops = TRUE
  MaxCommands = 4
  HistoryLimit = 2
  MaxSequence = 4
  MaxConsumers = 2
  NatsCallers = {k1, k2, k3}
  MaxNatsCalls = 5
  HttpCallers = {k1, k2, k3}
  HalfOpenRequests = 2
  TripRequests = 2
  MaxGenerations = 4
  MaxCounted = 4
  Cases <- MCCases
  Deployments <- MCDeployments
SPECIFICATION StateSpec
SYMMETRY Symmetric
INVARIANTS
  StreamsContiguous
  HistoryExact
  NothingMissed
  
  
  
  
  NatsFollowsTracker
  BreakerGetsAnOutcome
  
  SecretsResolve
  
\* The bounds stop the model, and a client may stop sending commands.
CHECK_DEADLOCK FALSE
