--------------------------- MODULE MCReliableUdp ---------------------------
(* Values for the constants of ReliableUdp that a .cfg cannot write. *)
EXTENDS ReliableUdpInv

\* UDP may repeat anything but the handshake.
AllButHandshake == OpCodes \ {"SYN", "SYN_ACK"}

\* How many messages the client and the server send.
Sends20 == [p \in Peers |-> IF p = Client THEN 2 ELSE 0]
Sends01 == [p \in Peers |-> IF p = Client THEN 0 ELSE 1]
Sends02 == [p \in Peers |-> IF p = Client THEN 0 ELSE 2]
Sends11 == [p \in Peers |-> 1]
Sends21 == [p \in Peers |-> IF p = Client THEN 2 ELSE 1]
=============================================================================
