\* Every buffer of MCDriveLayout, parsed once: the parser stops when it is done.
SPECIFICATION FairSpec
CONSTANTS
  Buffers <- MCBuffers
  Word = 1024
CHECK_DEADLOCK FALSE
INVARIANTS
  TypeOK
  SlicesInBuffer
  NoOverflow
  BoundedByBuffer
  ParsesReported
PROPERTIES
  Answers
