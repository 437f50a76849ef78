CONSTANTS
  Sends = {s1, s2}
  Reads = {r1}
  Closers = {d1}
  Forcers = {f1}
  IsClient = TRUE
  IsTls = TRUE
  OffStrand = TRUE
  ExeNext = ExeNext
SPECIFICATION Spec
PROPERTIES SendsAnswered ReadsAnswered DisconnectEnds
CHECK_DEADLOCK FALSE
