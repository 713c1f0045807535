\* A filesystem on the whole disk, or one mounted by an alias, is no evidence.
SPECIFICATION AllSpec
CONSTANTS
  ThumbDrive = ThumbDrive
  FixedDrive = FixedDrive
  NoMedium = NoMedium
  MaxChanges = 1
  MaxBlind = 1
  Names <- MCNames
  Virtual = {}
  Mapped = {}
  Media <- MCMedia
  Bay <- MCBay
  Geometry <- MCGeometry
  Layouts <- MCLayouts
  PartNos = {1, 2}
  MountPoints <- OnePoint
  MaxMounts = 1
  U32 = 65536
  Procs = {TRUE}
INVARIANTS
  MountedIsFound
