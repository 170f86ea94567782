\* Three items on pages of one, so that every creation and deletion shifts an item
\* across a page boundary; one of the items is filtered out where there is a filter.
CONSTANTS
  i1 = i1
  i2 = i2
  i3 = i3
  Items = {i1, i2, i3}
  Matching = {i1, i2}
  PerPage = 1
  MaxPage = 4
SPECIFICATION FairSpec
INVARIANTS
  TypeOK
  PagesAddUp
  DetailsWhole
PROPERTIES
  KnownSurvives
  Settles
