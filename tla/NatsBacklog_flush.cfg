\* A transient broadcast and two others while JetStream starts.
CONSTANTS
  Transients = {t1}
  Persistents = {m1, m2}
  MaxInitAttempts = 2
  Flush = flush
SPECIFICATION LSpec
PROPERTY
  BacklogPublished
\* The bounds stop the model.
CHECK_DEADLOCK FALSE
