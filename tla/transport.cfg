SPECIFICATION TransportSpec
CONSTANTS
  A = A
  B = B
  MALFORMED = 10
  FLOOD = 25
  BAN_THRESHOLD = 45
  MESSAGE_BURST = 2
  MAX_MESSAGES = 5
INVARIANTS
  FramesInStep
  PlainOnlyByAgreement
PROPERTIES
  ImplementsChannel
CHECK_DEADLOCK FALSE
