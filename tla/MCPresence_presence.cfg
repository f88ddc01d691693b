\* Two sessions with any ids that unsubscribe, close at any time and come back.
CONSTANTS
  s1 = s1  s2 = s2  u1 = u1  u2 = u2
  Sessions = {s1, s2}
  Streams = {a}
  Ids = {u1, u2}
  IdsOf <- AnyId
  TTL = 0
  Unsubscribes = TRUE
  Reconnects = TRUE
  CloseAnytime = TRUE
SPECIFICATION FairSpec
INVARIANT
  PresenceAgrees
PROPERTY
  ClosedSessionsLeave
\* a client need not come back
CHECK_DEADLOCK FALSE
