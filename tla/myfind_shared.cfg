\* Two instances at once and nothing fails: do they wait for their own children?
CONSTANTS
  a = a
  A = A
  b = b
  r1 = r1
  r2 = r2
  Run = {r1, r2}
  Command <- Pairs
  Name = {a, A, b}
  Fold <- CaseFold
  Tree <- Files
  NotFound = NotFound
  Capacity = 1
  Fault = {}
SPECIFICATION Spec
INVARIANT EveryChildHeard
CHECK_DEADLOCK FALSE
