\* Disks come, go and are replaced, and tables are rewritten, during calls.
SPECIFICATION FairSpec
CONSTANTS
  ThumbDrive = ThumbDrive
  FixedDrive = FixedDrive
  Lvm = Lvm
  Ram = Ram
  NoMedium = NoMedium
  MaxChanges = 3
  MaxBlind = 1
  Names <- MCNames
  Virtual <- MCVirtual
  Mapped <- MCMapped
  Media <- MCMedia
  Bay <- MCBay
  Geometry <- MCGeometry
  Layouts <- MCLayouts
  PartNos = {1, 2}
  MountPoints = {}
  MaxMounts = 0
  U32 = 65536
  Procs = {TRUE}
INVARIANTS
  TypeOK
  StableDisksExact
  NoPhantoms
  OnDiskOrder
  ErrorsExplained
  SectorSizesUsable
PROPERTIES
  ImplementsPromise
  CallReturns
