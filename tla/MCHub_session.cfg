\* One slow session with two subscriptions; three messages fill every queue.
CONSTANTS
  s1 = s1  s2 = s2  a = a  b = b  c = c  i1 = i1  g1 = g1  g2 = g2
  Sessions = {s1}
  Streams = {a, b}
  Channels = {1}
  Idents = {i1}
  Gates = {g1}
  IdentOf <- MCIdentOf
  GateOf <- MCGateOf
  NoSession = NoSession
  Whisperers = {}
  SlowSessions = {s1}
  BroadcastCap = 1
  RegisterCap = 1
  SenderCap = 1
  MaxMsgs = 3
  MaxCalls = 2
SPECIFICATION FairSpec
INVARIANTS
  SubscriptionsTracked
  CleanRemoval

  
\* The bounds on calls and messages stop the model, and Shutdown stops Run.
CHECK_DEADLOCK FALSE
