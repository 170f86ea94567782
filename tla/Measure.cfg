\* The measurement of one target by either collector, with and without the extended
\* metrics, under two names.
CONSTANTS
  Names = {"web", "www"}
  Labels = {"x", "y"}
  Windows <- TwoWindows
  Varied = {"droplets_health_checks", "frontend_tls_connections_current", "cpu", "load_1"}
SPECIFICATION FairMeasureSpec
INVARIANT MeasureTypeOK
PROPERTIES
  PublishesWhatWasHeard
  ExtendedNeverBlanks
