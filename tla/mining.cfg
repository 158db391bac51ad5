SPECIFICATION MiningSpec
CONSTANTS
  l1 = l1
  l2 = l2
  h1 = h1
  w1 = w1
  w2 = w2
  Loop <- MCLoop
  Caller <- MCCaller
  Worker <- MCWorker
  None = None
  Old = Old
  Stop = Stop
  MAX_CALLERS = 2
  MAX_INBOX = 0
INVARIANTS
  NoStrayWork
  WorkersOnJob
PROPERTIES
  CallsReturn
