\* Two requests of different collectors on one limiter, three attempts each.
CONSTANTS
  r1 = r1
  r2 = r2
  Requests = {r1, r2}
  Period = 2
  MaxAttempts = 3
  Timeouts = {2, 5}
  Asks = {0, 2}
  BackoffBase = 1
  BackoffCap = 2
  MaxTime = 6
SPECIFICATION FairSpec
INVARIANTS
  TypeOK
  Paced
  AttemptsAccountedFor
  WaitsFit
PROPERTIES
  RoundTripEnds
\* Every request has returned and the clock has reached its bound.
CHECK_DEADLOCK FALSE
