CONSTANTS
  BufferLength = 4
  BufferLengthMax = 8
  MaxBytes = 9
  MaxPending = 3
  Need = 2
  MaxTake = 3
SPECIFICATION FairSpec
INVARIANTS TypeOK InOrder LeftOnlyWhenFull
PROPERTIES ImplementsByteStream Delivered
