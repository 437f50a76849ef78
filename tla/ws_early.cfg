CONSTANTS
  Sends = {s1}
  Reads = {r1}
  Closers = {d1}
  Forcers = {}
  IsClient = FALSE
  IsTls = FALSE
  OffStrand = FALSE
  ExeNext = ExeNext
SPECIFICATION SafetySpec
PROPERTIES NeverReopened
CHECK_DEADLOCK FALSE
