\* Three registries, on an account with or without the newer endpoint.
CONSTANTS
  r1 = r1
  r2 = r2
  r3 = r3
  Registries = {r1, r2, r3}
SPECIFICATION FairSpec
INVARIANT TypeOK
PROPERTIES
  RepositoriesSurvive
  ListedStays
  Settles
