--------------------------- MODULE MessageChannel ---------------------------
(***************************************************************************)
(* What the packet layer promises its two users, with nothing of how: a    *)
(* FIFO channel each way. A message is accepted from the sender once and   *)
(* may then be delivered, once, after all the messages accepted before it. *)
(* Delivery may stop at any point: a connection may die or be closed.      *)
(***************************************************************************)
EXTENDS Naturals, Sequences

CONSTANT Senders    \* the two ends; each sends to the other

VARIABLES
  accepted,         \* how many messages each end has accepted for sending
  delivered         \* the numbers of the messages delivered, per sender

Init ==
  /\ accepted = [p \in Senders |-> 0]
  /\ delivered = [p \in Senders |-> <<>>]

Accept(p) ==
  /\ accepted' = [accepted EXCEPT ![p] = @ + 1]
  /\ UNCHANGED delivered

Deliver(p) ==
  /\ Len(delivered[p]) < accepted[p]
  /\ delivered' = [delivered EXCEPT ![p] = Append(@, Len(@) + 1)]
  /\ UNCHANGED accepted

Next == \E p \in Senders : Accept(p) \/ Deliver(p)

Spec == Init /\ [][Next]_<<accepted, delivered>>
=============================================================================
