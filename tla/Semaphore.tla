------------------------------ MODULE Semaphore ------------------------------
(***************************************************************************)
(* What a counting semaphore promises the network stack: a wait either     *)
(* takes exactly one token and reports success, or takes none and reports  *)
(* that it timed out.                                                      *)
(***************************************************************************)
EXTENDS Naturals

CONSTANTS Tasks, Sems

VARIABLES
  open,     \* which semaphores exist
  tokens,   \* signals that nobody has taken yet
  answer    \* what a wait has come to

vars == <<open, tokens, answer>>

Init ==
  /\ open = [s \in Sems |-> FALSE]
  /\ tokens = [s \in Sems |-> 0]
  /\ answer = [t \in Tasks |-> "none"]

Create(s) ==
  /\ ~open[s]
  /\ open' = [open EXCEPT ![s] = TRUE]
  /\ tokens'[s] \in Nat
  /\ tokens' = [tokens EXCEPT ![s] = tokens'[s]]
  /\ UNCHANGED answer

Destroy(s) ==
  /\ open[s]
  /\ open' = [open EXCEPT ![s] = FALSE]
  /\ tokens' = [tokens EXCEPT ![s] = 0]
  /\ UNCHANGED answer

Up(s) ==
  /\ open[s]
  /\ tokens' = [tokens EXCEPT ![s] = @ + 1]
  /\ UNCHANGED <<open, answer>>

Down(t, s) ==
  /\ open[s]
  /\ answer[t] = "none"
  /\ tokens[s] > 0
  /\ tokens' = [tokens EXCEPT ![s] = @ - 1]
  /\ answer' = [answer EXCEPT ![t] = "success"]
  /\ UNCHANGED open

GiveUp(t) ==
  /\ answer[t] = "none"
  /\ answer' = [answer EXCEPT ![t] = "timeout"]
  /\ UNCHANGED <<open, tokens>>

Done(t) ==
  /\ answer[t] # "none"
  /\ answer' = [answer EXCEPT ![t] = "none"]
  /\ UNCHANGED <<open, tokens>>

Next ==
  \/ \E s \in Sems : Create(s) \/ Destroy(s) \/ Up(s)
  \/ \E t \in Tasks : GiveUp(t) \/ Done(t) \/ \E s \in Sems : Down(t, s)

Spec == Init /\ [][Next]_vars
==============================================================================
