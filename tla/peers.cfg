SPECIFICATION PeersSpec
CONSTANTS
  n1 = n1
  n2 = n2
  Node <- MCNode
  Public <- MCNode
  First = n1
  MAX_SOCKETS = 2
  MAX_MISHAPS = 2
INVARIANTS
  DialsAlive
  OneSocketPerAddress
PROPERTIES
  Settles
CHECK_DEADLOCK FALSE
