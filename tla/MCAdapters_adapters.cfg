\* Two callers and one RPC token, the intervals and the timeout scaled down; two
\* nodes reading a stream of two entries, with a fault; two callers of the Redis
\* subscriber and a connection that breaks twice; three broadcasts while
\* JetStream starts; and two session ids.
CONSTANTS
  c1 = c1  c2 = c2  b1 = b1  b2 = b2
  Callers = {c1, c2}
  Capacity = 1
  InvokeTimeout = 3
  ExhaustedInterval = 1
  UnavailableInterval = 2
  ConnFails = TRUE
  Shuts = TRUE
  MaxCalls = 1
  MaxOutages = 1
  BNodes = {b1, b2}
  MaxEntries = 2
  MaxReconnectAttempts = 1
  MaxFaults = 1
  Nobody = Nobody
  Channels = {a}
  SubCallers = {c1, c2}
  CommandsCap = 1
  MaxSubscribes = 4
  MaxBreaks = 2
  MaxRedisAttempts = 1
  Transients = {t1}
  Persistents = {m1, m2}
  MaxInitAttempts = 2
  Flush = flush
  Sids = {s1, s2}
  SessionsTTL = 1
  MaxCommits = 2
  MaxTime = 3
SPECIFICATION AdaptersSpec
INVARIANTS
  BusyCountRight
  RetryAgeBounded
  ListensToTracked
  
PROPERTIES
  EveryCallReturns
  ImplementsBroadcastQueue
  BroadcasterProgress
  SubscribeReturns
  BroadcastReturns
  FinishedSessionsExpire
\* The callers may stop calling, and the bounds stop the model.
CHECK_DEADLOCK FALSE
