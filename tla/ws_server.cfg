CONSTANTS
  Sends = {s1, s2}
  Reads = {r1, r2}
  Closers = {d1}
  Forcers = {f1}
  IsClient = FALSE
  IsTls = FALSE
  OffStrand = FALSE
  ExeNext = ExeNext
SPECIFICATION SafetySpec
SYMMETRY CallSymmetry
INVARIANTS TypeInv OneWriteAndOneRead ClosedOnce NothingBeforeHandshake
PROPERTIES ReopenedByHandshakeOnly
CHECK_DEADLOCK FALSE
