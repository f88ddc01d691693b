\* Clients unsubscribe without leaving first.
CONSTANTS
  s1 = s1  s2 = s2  u1 = u1  u2 = u2
  Sessions = {s1, s2}
  Streams = {a}
  Ids = {u1, u2}
  IdsOf <- OwnId
  TTL = 1
  Unsubscribes = TRUE
  Reconnects = FALSE
  CloseAnytime = FALSE
SPECIFICATION Spec
INVARIANT
  ViewMatches
\* there are only as many session ids as the instance has
CHECK_DEADLOCK FALSE
