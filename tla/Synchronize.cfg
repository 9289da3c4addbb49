CONSTANTS
  Workers = {w1, w2, w3}
  Nil = Nil
  MaxDepth = 3
SPECIFICATION LiveSpec
INVARIANTS TypeOK RequestInOnePlace NotReentered NoLostRequest
PROPERTIES Refinement CallReturns
