CONSTANTS
  Http = {h}
  Ws = {w}
  Urls <- MCUrls
  Workers = {t1, t2}
  Caller = Caller
SPECIFICATION Spec
PROPERTIES SentAsAsked RunReturns CallsAnswered
CHECK_DEADLOCK FALSE
