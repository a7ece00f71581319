\* q fetches from one mailbox and posts to another, as the stack's thread does.
SPECIFICATION Spec
CONSTANTS
  HZ = 2
  Second = 4
  WordMod = 8
  Posters = {p, q}
  Fetchers = {q}
  Mboxes = {m1, m2}
  Msgs = {x1, x2, x3}
  NoMsg = NoMsg
  NoMbox = NoMbox
  Sizes = {0, 1}
  Timeouts = {0, 3}
SYMMETRY Symmetry
INVARIANTS
  TypeOK
  SingleOwner
PROPERTY
  ChannelSpec
