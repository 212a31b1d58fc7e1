------------------------------ MODULE Delivery ------------------------------
(***************************************************************************)
(* What the forwarding plane promises about user messages: a message is    *)
(* handed to the application at its destination at most once, and only if  *)
(* somebody sent it.                                                       *)
(***************************************************************************)
EXTENDS Naturals

CONSTANT Message

VARIABLES
  sent,  \* messages that were sent
  got    \* got[m]: how often m was handed to the application

vars == <<sent, got>>

Init == sent = {} /\ got = [m \in Message |-> 0]

Send(m) == m \notin sent /\ sent' = sent \cup {m} /\ UNCHANGED got

Deliver(m) == m \in sent /\ got[m] = 0 /\ got' = [got EXCEPT ![m] = 1] /\ UNCHANGED sent

Next == \E m \in Message : Send(m) \/ Deliver(m)

Spec == Init /\ [][Next]_vars
=============================================================================
