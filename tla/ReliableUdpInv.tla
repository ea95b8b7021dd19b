--------------------------- MODULE ReliableUdpInv ---------------------------
(***************************************************************************)
(* The inductive invariant behind InOrder and NoLoss of ReliableUdp, for   *)
(* connections whose ack counters stay below the top quarter and whose     *)
(* handshake packets reach their stream at most once each.                 *)
(***************************************************************************)
EXTENDS ReliableUdp

\* The connection ends before its ack counters reach the top quarter.
NoWrap ==
  \A i \in RandIndices, p \in Peers : i + SendLimit[p] + 3 <= TopQuart

\* One SYN and one SYN_ACK, neither of them repeated.
HandshakeOnce ==
  /\ SynResendLimit = 0
  /\ LastingOpcodes \cap {"SYN", "SYN_ACK"} = {}

\* The sequenced packets p keeps, and those of them that are on the way too.
Kept(p) ==
  retransmitBuffer[p] \cup retransmitPacket[p] \cup Elements(sendQueue[p])

Made(p) == {m \in net : m.to = Other(p) /\ m.op \in Sequenced} \cup Kept(p)

\* The stream q may still take something in. A client that saw the server's FIN
\* before its SYN_ACK is closing, and no longer is when the SYN_ACK comes.
Open(q) ==
  \/ state[q] \notin {"Closing", "Closed"}
  \/ \E m \in net : m.to = q /\ m.op = "SYN_ACK"

\* The highest index of p that the other stream may acknowledge.
Reach(p) == start[p] + Len(received[Other(p)])

Unsynced(p) == state[p] \in {"Listening", "Connecting"}

\* A packet's index tells its position, as long as the other stream is open.
Numbered(p) ==
  \A m \in Made(p) :
    /\ m.op \in DataOpcodes
    /\ m.n \in 1..accepted[p]
    /\ m.local = start[p] + m.n

\* SequenceIndex is the index of the next packet, once the handshake is done.
Counter(p) ==
  /\ accepted[p] <= SendLimit[p]
  /\ Unsynced(p) => accepted[p] = 0
  /\ state[p] # "Closed" =>
       sequenceIndex[p] = start[p] + accepted[p] + (IF Unsynced(p) THEN 0 ELSE 1)

NoFinTo(p) == \A m \in net : m.to = p => m.op # "FIN"

Retained(p) ==
  state[p] # "Closed" =>
    \A n \in 1..accepted[p] : n <= Len(received[Other(p)]) \/ n \in Held(p)

SendingSide ==
  \A p \in Peers :
    Open(Other(p)) => Numbered(p) /\ Counter(p) /\ NoFinTo(p) /\ Retained(p)

SequencedOnly ==
  \A p \in Peers : \A m \in Made(p) : m.to = Other(p) /\ m.op \in Sequenced

\* A stream waits for the packet after the last one it took in.
Expecting ==
  \A p \in Peers :
    /\ state[p] \in {"SynReceived", "Established"} =>
         remoteSequenceIndex[p] = start[Other(p)] + Len(received[p])
    /\ Unsynced(p) => received[p] = <<>>
    /\ Len(receiveQueue[p]) <= Len(received[p])
    /\ state[p] = "Closed" => p \notin pumping

\* Nothing is acknowledged before it was received.
Acknowledged ==
  \A p \in Peers :
    /\ sequenceIndexAcked[p] <= Reach(p)
    /\ remoteSequenceIndexAcked[Other(p)] <= Reach(p)
    /\ \A m \in net : m.to = p /\ m.op \in {"ACK", "HBT"} => m.remote <= Reach(p)
    /\ \A m \in Made(Other(p)) : m.op = "DAT_ACK" => m.remote <= Reach(p)
    /\ \A m \in Elements(receiveQueue[Other(p)]) : m.local <= Reach(p)

\* SYN and SYN_ACK are each on the way at most once. While a SYN is, the server
\* has seen nothing; while a SYN_ACK is, the client has taken nothing in, and if it
\* is closing already then because the server's FIN overtook the SYN_ACK.
Silent ==
  /\ state[Server] # "Connecting"
  /\ state[Client] = "Listening" => net = {} /\ state[Server] = "Listening"
  /\ state[Server] = "Listening" =>
       /\ Unsynced(Client)
       /\ \A m \in net : m.op = "SYN"

SynOnTheWay ==
  \A m \in net : m.op = "SYN" =>
    /\ m = Pkt(Client, "SYN", start[Client], 0)
    /\ state[Server] = "Listening"

SynAckOnTheWay ==
  \A m \in net : m.op = "SYN_ACK" =>
    /\ m = Pkt(Server, "SYN_ACK", start[Server], start[Client])
    /\ received[Client] = <<>>
    /\ \/ state[Client] = "Connecting"
       \/ state[Client] \in {"Closing", "Closed"} /\ ~Open(Server)

StartsLow == \A p \in Peers : start[p] \in RandIndices

IInv ==
  /\ TypeOK
  /\ StartsLow
  /\ SequencedOnly
  /\ Silent
  /\ SynOnTheWay
  /\ SynAckOnTheWay
  /\ Expecting
  /\ Acknowledged
  /\ SendingSide
  /\ InOrder

-----------------------------------------------------------------------------
(* The order of what a stream has sent, whatever the handshake and the other
   stream did, as long as its own counter stays below the top quarter. *)

CountersLow ==
  \A p \in Peers : state[p] # "Closed" => sequenceIndex[p] <= TopQuart

\* A later packet has a higher index, and the next index is higher still.
Increasing(p) ==
  \A m \in Made(p) :
    /\ m.n \in 1..accepted[p]
    /\ state[p] # "Closed" => m.local < sequenceIndex[p]
    /\ \A k \in Made(p) : m.n < k.n => m.local < k.local

\* SendQueue holds the last packets, in order; RetransmitBuffer earlier ones.
QueuedLast(p) ==
  /\ \A i \in 1..Len(sendQueue[p]) :
       sendQueue[p][i].n + Len(sendQueue[p]) = accepted[p] + i
  /\ \A m \in retransmitBuffer[p] : m.n + Len(sendQueue[p]) <= accepted[p]

\* What is being retransmitted has just been acknowledged, or is the oldest.
OldestAgain(p) ==
  /\ \A m, k \in retransmitPacket[p] : m = k
  /\ state[p] # "Closed" =>
       \A m \in retransmitPacket[p] :
         Covered(m.local, sequenceIndexAcked[p]) \/ Oldest(Unacked(p), m)

\* No number anywhere is above the top quarter: acknowledgements only go up.
NumbersLow ==
  /\ \A m \in net : m.local <= TopQuart /\ m.remote <= TopQuart
  /\ \A p \in Peers :
       /\ sequenceIndexAcked[p] <= TopQuart
       /\ remoteSequenceIndexAcked[p] <= TopQuart
       /\ \A m \in Kept(p) : m.local <= TopQuart /\ m.remote <= TopQuart
       /\ \A m \in Elements(receiveQueue[p]) : m.local <= TopQuart

TurnInv ==
  /\ TypeOK
  /\ SequencedOnly
  /\ NumbersLow
  /\ \A p \in Peers :
       /\ Increasing(p)
       /\ QueuedLast(p)
       /\ OldestAgain(p)
       /\ state[p] = "Closed" => p \notin pumping
  /\ HeldSuffix

\* How far the counter of a stream has come.
Tally(p) ==
  /\ Unsynced(p) => accepted[p] = 0 /\ sequenceIndex[p] = start[p]
  /\ state[p] \in {"SynReceived", "Established"} => accepted[p] <= SendLimit[p] + 1
  /\ state[p] = "Closing" => accepted[p] <= SendLimit[p] + 2
  /\ state[p] # "Closed" => sequenceIndex[p] <= start[p] + accepted[p] + 1
  /\ (state[p] = "Closing" /\ \E m \in net : m.to = p /\ m.op = "SYN_ACK") =>
       accepted[p] <= 1 /\ sequenceIndex[p] <= start[p] + accepted[p]

Tallied == \A p \in Peers : Tally(p)

\* The two streams implement a FIFO channel each way.
Channel == INSTANCE MessageChannel WITH
  Senders <- Peers,
  delivered <- [p \in Peers |-> received[Other(p)]]

ImplementsChannel == Channel!Spec
=============================================================================
