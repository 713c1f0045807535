\* Nothing moves; one drive has no layout.
SPECIFICATION Spec
CONSTANTS
  SystemDisk = SystemDisk
  Evidence = Evidence
  Crowded = Crowded
  NoLayout = NoLayout
  NoMedium = NoMedium
  NoAnswer = NoAnswer
  NoMount = NoMount
  Drives = {0, 1, 2}
  MAX_DRIVES = 3
  LAYOUT_BUF = 480
  MaxChanges = 0
  Media <- BadMedia
  LengthOf <- BadLength
  SectorOf <- BadSector
  LayoutOf <- BadLayout
  Protected = {Evidence}
  ByteRank <- BadByteRank
INVARIANTS
  ListedWithWhatIsKnown
