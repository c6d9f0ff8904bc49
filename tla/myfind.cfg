\* Two instances at once, a queue of one message, and every fault.
CONSTANTS
  a = a
  A = A
  b = b
  r1 = r1
  r2 = r2
  Run = {r1, r2}
  Command <- Calls
  Name = {a, A, b}
  Fold <- CaseFold
  Tree <- Files
  NotFound = NotFound
  Capacity = 1
  Fault = {"queue", "fork", "walk", "child", "kill"}
SPECIFICATION FairSpec
INVARIANT TypeOK
INVARIANT AnswersShared
INVARIANT NoQueueLeft
PROPERTY Finishes
CHECK_DEADLOCK FALSE
