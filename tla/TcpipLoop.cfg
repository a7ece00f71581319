\* A tick is two milliseconds. One slot, so that every post may find it taken.
SPECIFICATION LoopSpec
CONSTANTS
  HZ = 2
  Second = 4
  WordMod = 16
  Thread = tcpip
  Apps = {a, b}
  Drivers = {d}
  Packets = {x}
  tcpip_mbox = mbox
  MboxSize = 1
  Period = 3
  Posters = {a, b, d}
  Fetchers = {tcpip}
  Mboxes = {mbox}
  Msgs = {a, b, x}
  NoMsg = NoMsg
  NoMbox = NoMbox
  Sizes = {1}
  Timeouts = {1, 2, 3}
INVARIANTS
  LoopTypeOK
  CallsPaired
  WaitInRange
PROPERTIES
  TimerExpires
  CallsReturn
  ClocksAgree
