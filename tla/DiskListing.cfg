\* All of MCInputs, each rendered once: the listing stops when it is done.
SPECIFICATION Spec
CONSTANTS
  Inputs <- MCInputs
  Palette = 3
  Units = 4
  Kilo = 10
CHECK_DEADLOCK FALSE
INVARIANTS
  TypeOK
  GapsAreFree
  BarFilled
  EverySliceSeen
  LendingFair
  AccentIsOverviews
  ColoursSpent
  OverviewFair
  SizesLegible
