\* Two bucket names, two regions, both ways of finding buckets.
CONSTANTS
  n1 = n1
  n2 = n2
  ams = ams
  fra = fra
  Names = {n1, n2}
  Regions = {ams, fra}
  Default = fra
  Nowhere = Nowhere
  Movable = {n1, n2}
SPECIFICATION FairSpec
CONSTANT Configured <- NamedBuckets
INVARIANTS
  TypeOK
  CacheIsProven
PROPERTIES
  EntryKeepsFigures
  FoundAgain
