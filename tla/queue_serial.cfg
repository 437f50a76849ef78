CONSTANTS
  Acts = {a1, a2, a3}
  ExeNext = ExeNext
SPECIFICATION LiveSpec
INVARIANTS TypeInv OneAtATime NoLostWakeup TokenInv
PROPERTIES ImplementsSerialQueue
