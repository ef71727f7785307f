SPECIFICATION Spec
CONSTANTS
  NaN = NaN
  Names <- MCNames
  Fields = {"f"}
  Stored <- MCStored
  Filters <- MCFilters
  Orders <- MCOrders
  NoDoc = NoDoc
  NoLimit = NoLimit
  PageSizes = {2, NoLimit}
  MaxWrites = 1
INVARIANTS
  PagesAreTheResult
  PageIsSnapshot
CHECK_DEADLOCK FALSE
