SPECIFICATION FairSpec
CONSTANTS
  Token = {t1, t2}
  NoToken = NoToken
  MaxAttempts = 2
  MaxFaults = 3
  ReconnectMin = 1
  ReconnectMax = 3
  Half = 4
CHECK_DEADLOCK FALSE
INVARIANTS TypeOK BackoffPolicy IdentityIsOldest TokenOutlivesEnrolment ServesOwnNode
PROPERTIES EventuallyServing
