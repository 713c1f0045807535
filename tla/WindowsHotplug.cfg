\* Drives come, go, are taken by other programs and refuse, during calls.
SPECIFICATION FairSpec
CONSTANTS
  SystemDisk = SystemDisk
  Evidence = Evidence
  Crowded = Crowded
  NoLayout = NoLayout
  NoMedium = NoMedium
  NoAnswer = NoAnswer
  NoMount = NoMount
  Drives = {0, 1, 2, 3}
  MAX_DRIVES = 3
  LAYOUT_BUF = 480
  MaxChanges = 2
  Media <- MCMedia
  LengthOf <- MCLength
  SectorOf <- MCSector
  LayoutOf <- MCLayout
  Protected = {Evidence}
  ByteRank <- MCByteRank
INVARIANTS
  TypeOK
  StableDrivesExact
  HandlesClosed
  RefusalIsLoud
  ErrorsExplained
  OnDiskOrder
PROPERTIES
  CallReturns
