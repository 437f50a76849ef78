CONSTANTS
  MaxRequests = 2
SPECIFICATION Spec
INVARIANTS TypeInv AtRequestBoundary AnswersInOrder OneResponse
PROPERTIES EveryRequestEnds
CHECK_DEADLOCK FALSE
