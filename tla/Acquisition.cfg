\* A disk is listed, triaged and opened while it can be replaced and mounted.
SPECIFICATION AllSpec
CONSTANTS
  ThumbDrive = ThumbDrive
  FixedDrive = FixedDrive
  NoMedium = NoMedium
  MaxChanges = 4
  MaxBlind = 1
  Names <- MCNames
  Virtual = {}
  Mapped = {}
  Media <- MCMedia
  Bay <- MCBay
  Geometry <- MCGeometry
  Layouts <- MCLayouts
  PartNos = {1, 2}
  MountPoints <- MCPoints
  MaxMounts = 2
  U32 = 65536
  Procs = {TRUE, FALSE}
INVARIANTS
  HandleFresh
  OpenedIsListed
  FindingsHold
  MountsExact
