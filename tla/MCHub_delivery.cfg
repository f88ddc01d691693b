\* Two sessions that whisper, are slow, come and go; two messages and two gates.
CONSTANTS
  s1 = s1  s2 = s2  a = a  b = b  c = c  i1 = i1  g1 = g1  g2 = g2
  Sessions = {s1, s2}
  Streams = {a}
  Channels = {1}
  Idents = {i1}
  Gates = {g1, g2}
  IdentOf <- MCIdentOf
  GateOf <- MCGateOf
  NoSession = NoSession
  Whisperers = {s1, s2}
  SlowSessions = {s1, s2}
  BroadcastCap = 1
  RegisterCap = 1
  SenderCap = 1
  MaxMsgs = 2
  MaxCalls = 1
SPECIFICATION Spec
SYMMETRY Symmetric
INVARIANTS
  IdentifiersMatchSessions
  DeliveryExact
\* The bounds on calls and messages stop the model, and Shutdown stops Run.
CHECK_DEADLOCK FALSE
