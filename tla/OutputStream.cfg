CONSTANTS
  BufferLength = 4
  BufferLengthMax = 8
  MaxBytes = 7
  MaxPacket = 4
SPECIFICATION Spec
INVARIANTS TypeOK WriteInside
PROPERTY ImplementsByteStream
