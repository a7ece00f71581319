\* A tick lasts half a millisecond: HZ is above 1000 ticks per second.
SPECIFICATION LoopSpec
CONSTANTS
  HZ = 8
  Second = 4
  WordMod = 16
  Thread = tcpip
  Apps = {a}
  Drivers = {d}
  Packets = {x}
  tcpip_mbox = mbox
  MboxSize = 1
  Period = 3
  Posters = {a, d}
  Fetchers = {tcpip}
  Mboxes = {mbox}
  Msgs = {a, x}
  NoMsg = NoMsg
  NoMbox = NoMbox
  Sizes = {1}
  Timeouts = {1, 2, 3}
PROPERTIES
  TimerExpires
