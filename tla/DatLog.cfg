CONSTANTS
  Writers = {"gnss", "cors"}
  Capacity = 3
  ReadMax = 1
  Sizes = {2, 4}
  MaxRecords = 3
  MaxCount = 2
SPECIFICATION Spec
INVARIANT Exclusive
INVARIANT LoggedInOrder
PROPERTY LogProgress
CHECK_DEADLOCK FALSE
