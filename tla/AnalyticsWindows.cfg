CONSTANTS
  Second = 3
  Unit = 6
  Bucket = 6
  BucketCount = 2
  Shift = 3
  Slots = 3
  Zone = 6
  MaxTime = 14
  MaxRows = 2
SPECIFICATION WindowsSpec
INVARIANTS
  WindowsTypeOK
  DrawingsAddUp
  RowsLieInTheirBucket
