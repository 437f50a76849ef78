CONSTANTS
  Sends = {s1}
  Reads = {r1}
  Closers = {d1}
  Forcers = {}
  IsClient = TRUE
  IsTls = TRUE
  OffStrand = FALSE
  ExeNext = ExeNext
SPECIFICATION Spec
INVARIANTS AnnouncedOnce
CHECK_DEADLOCK FALSE
