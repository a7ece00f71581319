\* One message of up to four options. Its handling ends there.
SPECIFICATION Spec
CONSTANTS
  Items <- MCItems
  MaxItems = 4
  OptionsLen = 34
  NewAddr <- MCNewAddr
  Addrs <- MCAddrs
  Netmask <- MCNetmask
  ServerAddr <- MCServerAddr
CHECK_DEADLOCK FALSE
INVARIANTS
  OptTypeOK
  WalkStaysInside
  AnswerMatches
PROPERTY
  WalkEnds
