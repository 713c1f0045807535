\* Disks and partitions come and go, and are replaced, during calls.
SPECIFICATION Spec
CONSTANTS
  Ssd = Ssd
  Stick = Stick
  Container = Container
  Missing = Missing
  Disks = {2, 10}
  MaxChanges = 3
  U32 = 65536
  Media <- MCMedia
  Facts <- MCFacts
  Slices <- MCSlices
INVARIANTS
  TypeOK
  StableDisksExact
  NoMixing
  OnDiskOrder
  ReferencesBalanced
PROPERTIES
  ImplementsPromise
