SPECIFICATION Spec
CONSTANTS
  None = None
  Tenders = {1, 2, 3}
  Rows <- MCRows
  Filters <- MCFilters
  PageSizes = {1, 2, 9}
  MaxPageSize = 8
  Ranked = TRUE
  MaxCommits = 2
INVARIANT WalkIsReliable
CHECK_DEADLOCK FALSE
