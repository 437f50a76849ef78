CONSTANTS
  Objects = {Top, Shared, sub1, sub2}
  Top = Top
  Shared = Shared
  None = None
  Bases <- MCBases
  Targets <- MCTargets
  MaxEntries = 2
SPECIFICATION Spec
SYMMETRY SubSymmetry
INVARIANTS PreflightListsMethods
CHECK_DEADLOCK FALSE
