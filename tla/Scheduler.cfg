\* Two collectors: one that starts at once and keeps everything on its own
\* goroutine, one that is staggered, fans out and may merge before failing.
CONSTANTS
  a = a
  b = b
  Collectors = {a, b}
  Staggered = {b}
  Merging = {b}
  Workers = {b}
SPECIFICATION FairSpec
INVARIANTS
  TypeOK
  ReadyScrapeComplete
PROPERTIES
  ShutdownNotAFailure
  ImplementsReadiness
  RunReturns
  Recovers
\* The process may really stop: a crash, or every loop stopped after shutdown.
CHECK_DEADLOCK FALSE
