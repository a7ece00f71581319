------------------------------- MODULE Mailbox -------------------------------
(***************************************************************************)
(* What a mailbox promises the network stack: a bounded first-in first-out *)
(* channel. A message, which is a pointer to a buffer, is in at most one   *)
(* place of one mailbox, so that one receiver gets it, once. A mailbox is  *)
(* closed only when nothing is left in it.                                 *)
(***************************************************************************)
EXTENDS Naturals, Sequences

CONSTANTS Mboxes, Msgs

VARIABLES
  size,   \* how many messages a mailbox holds; 0 when it is not open
  chan    \* the messages in it, the oldest first

vars == <<size, chan>>

Queued(x) == \E m \in Mboxes : \E i \in DOMAIN chan[m] : chan[m][i] = x

Init ==
  /\ size = [m \in Mboxes |-> 0]
  /\ chan = [m \in Mboxes |-> <<>>]

Open(m) ==
  /\ size[m] = 0
  /\ size'[m] \in Nat \ {0}
  /\ size' = [size EXCEPT ![m] = size'[m]]
  /\ UNCHANGED chan

Close(m) ==
  /\ size[m] # 0
  /\ chan[m] = <<>>
  /\ size' = [size EXCEPT ![m] = 0]
  /\ UNCHANGED chan

Put(m, x) ==
  /\ Len(chan[m]) < size[m]
  /\ ~Queued(x)
  /\ chan' = [chan EXCEPT ![m] = Append(@, x)]
  /\ UNCHANGED size

Get(m) ==
  /\ chan[m] # <<>>
  /\ chan' = [chan EXCEPT ![m] = Tail(@)]
  /\ UNCHANGED size

Next ==
  \E m \in Mboxes :
    \/ Open(m) \/ Close(m) \/ Get(m)
    \/ \E x \in Msgs : Put(m, x)

Spec == Init /\ [][Next]_vars
==============================================================================
