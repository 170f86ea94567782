\* Four items on pages of two: does a repeat end the list of databases?
CONSTANTS
  i1 = i1
  i2 = i2
  i3 = i3
  i4 = i4
  Items = {i1, i2, i3, i4}
  Matching = {i1, i2, i3, i4}
  PerPage = 2
  MaxPage = 3
SPECIFICATION Spec
INVARIANT RepeatEndsList
