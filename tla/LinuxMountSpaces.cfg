\* One mount, at a place whose name has a no-break space in it.
SPECIFICATION Spec
CONSTANTS
  ThumbDrive = ThumbDrive
  FixedDrive = FixedDrive
  Lvm = Lvm
  Ram = Ram
  NoMedium = NoMedium
  MaxChanges = 2
  MaxBlind = 1
  Names <- OneName
  Virtual = {}
  Mapped = {}
  Media <- OneMedium
  Bay <- OneBay
  Geometry <- OneGeometry
  Layouts <- OneLayout
  PartNos = {1, 2}
  MountPoints <- SpacedPoints
  MaxMounts = 2
  U32 = 65536
  Procs = {TRUE}
INVARIANTS
  MountPointsTrue
