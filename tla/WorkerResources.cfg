SPECIFICATION Spec
CONSTANTS
  Resources = {r1, r2}
  Incoming = {r2}
  Callers = {c1}
  QueueSize = 1
  RequestsSize = 1
CHECK_DEADLOCK FALSE
INVARIANT TypeOK
INVARIANT Conserved
PROPERTY StatusInOrder
PROPERTY QueuedIsProcessed
PROPERTY StopReturns
PROPERTY RequestsAnswered
