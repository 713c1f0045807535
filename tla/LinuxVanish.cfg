\* One disk is unplugged between the listing of /sys/block and its own turn.
SPECIFICATION Spec
CONSTANTS
  ThumbDrive = ThumbDrive
  FixedDrive = FixedDrive
  Lvm = Lvm
  Ram = Ram
  NoMedium = NoMedium
  MaxChanges = 1
  MaxBlind = 1
  Names <- MCNames
  Virtual <- MCVirtual
  Mapped <- MCMapped
  Media <- MCMedia
  Bay <- MCBay
  Geometry <- MCGeometry
  Layouts <- MCLayouts
  PartNos = {1, 2}
  MountPoints = {}
  MaxMounts = 0
  U32 = 65536
  Procs = {TRUE}
INVARIANTS
  FailsOnlyUnreadable
