CONSTANTS
  QueueMax = 2
  MaxRows = 6
SPECIFICATION FairSpec
INVARIANTS FileInOrder DropsAreCounted StopDrains
PROPERTIES Implements RowsSettle
CHECK_DEADLOCK FALSE
