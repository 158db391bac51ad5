SPECIFICATION ScriptSpec
CONSTANTS
  k1 = k1
  k2 = k2
  k3 = k3
  Families <- MCFamilies
  BASE = 16
  NUM_BYTES = 2
  LOCK_BYTES = 3
  DIRECT = 76
  MAX_PUSH_BYTES = 520
  MAX_STACK = 7
  MAX_OPS = 9
  MAX_SIGOPS = 3
  LOCKTIME_THRESHOLD = 500
  SampleNumbers <- MCNumbers
  SampleLengths <- MCLengths
  Now <- MCNow
INVARIANTS
  WorkBounded
  NestingRight
  StandardMeaning
  FormatsAgree
CHECK_DEADLOCK FALSE
