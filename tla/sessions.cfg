CONSTANTS
  Handlers = {h1, h2}
  Clients = {c1, c2}
  Ids = {i1, i2}
  Records = {r1, r2}
  None = None
  Cleared = Cleared
  MaxLifetime = 1
SPECIFICATION Spec
INVARIANTS TypeInv SessionsPrivate OneRecordPerId
PROPERTIES DeadCookieStaysDead KeptWhileUsed AbandonedExpire
CHECK_DEADLOCK FALSE
