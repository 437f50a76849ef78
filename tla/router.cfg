CONSTANTS
  Objects = {Top, Shared, sub1, sub2}
  Top = Top
  Shared = Shared
  None = None
  Bases <- MCBases
  Targets <- MCTargets
  MaxEntries = 2
SPECIFICATION Spec
SYMMETRY SubSymmetry
INVARIANTS TypeInv OneServerString ServerFieldSet PoliciesPassed
CHECK_DEADLOCK FALSE
