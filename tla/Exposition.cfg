SPECIFICATION ExpositionSpec
CONSTANTS
  Resources <- MCResources
  Filters <- MCFilters
INVARIANTS ExpositionTypeOK SeriesUnique ShowsWhatPasses FiguresAddUp
