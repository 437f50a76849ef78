CONSTANTS
  Clients = {c1, c2, c3}
  Accept = Accept
  Workers = {t1, t2}
  Caller = Caller
SPECIFICATION Spec
INVARIANTS NothingAfterDestruction ChainUnbroken
PROPERTIES DestructionEnds ClientsAccepted
CHECK_DEADLOCK FALSE
