SPECIFICATION MCSpec
CONSTANTS
  a = a
  b = b
  Channels <- MCChannels
  ChannelOrder <- MCOrder
  Bound = 2
  EventBatch = 2
  EventBuffer = 2
  Ttl = 1
  MaxTokens = 2
INVARIANTS
  JoinedAgrees
  JoinsOutliveSessions
  ReplyStaysInItsLease
CHECK_DEADLOCK FALSE
PROPERTIES
  CallsEnd
  PendingSettles
