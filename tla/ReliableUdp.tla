---------------------------- MODULE ReliableUdp ----------------------------
(***************************************************************************)
(* The packet layer of the game traffic: two Frpg2ReliableUdpPacketStream  *)
(* objects, one made with AsClient (the game client, ClientSession in this *)
(* repository) and one without (GameClient on the server), joined by UDP.  *)
(*                                                                         *)
(* Each stream is driven by its owner from one thread: the owner calls     *)
(* Pump, and between two calls of Pump it takes messages out, sends, or    *)
(* disconnects. Pump is modelled by its steps: an action for each way of   *)
(* entering it, one action per packet HandleIncoming takes in, and one     *)
(* action per outcome of HandleOutgoing, which ends it. `pumping' says     *)
(* which streams are inside Pump.                                          *)
(*                                                                         *)
(* The clock is abstracted: a comparison of an elapsed time with an        *)
(* interval may go either way at every Pump. A packet carries its opcode   *)
(* and the two 12-bit ack counters; the payload is abstracted to `n', the  *)
(* position of the packet among the sequenced packets its sender queued.   *)
(***************************************************************************)
EXTENDS Naturals, Sequences, FiniteSets

CONSTANTS
  Client, Server,         \* the stream with IsClient set, and the one without
  MaxAckValue,            \* MAX_ACK_VALUE: the ack counters count modulo this
  TopQuart, BottomQuart,  \* MAX_ACK_VALUE_TOP_QUART, MAX_ACK_VALUE_BOTTOM_QUART
  MaxPacketsInFlight,     \* MAX_PACKETS_IN_FLIGHT
  RetransmitMaxAttempts,  \* RETRANSMIT_MAX_ATTEMPTS
  RandIndices,            \* the values rand() % 4096 may take in Reset
  LastingOpcodes,         \* opcodes of which the network may deliver one
                          \* packet several times
  SendLimit,              \* bound, per stream: messages its owner sends
  SynResendLimit,         \* bound: SYNs resent while connecting
  HeartbeatLimit,         \* bound: heartbeats the client sends
  Leavers                 \* bound: the streams whose owner may disconnect

ASSUME StreamAssumption ==
  /\ Client # Server
  /\ MaxAckValue \in Nat \ {0}
  /\ TopQuart \in 1..(MaxAckValue - 2)
  /\ BottomQuart \in 1..TopQuart
  /\ MaxPacketsInFlight \in Nat \ {0}
  /\ RetransmitMaxAttempts \in Nat
  /\ RandIndices # {} /\ RandIndices \subseteq 0..(MaxAckValue - 1)
  /\ SendLimit \in [{Client, Server} -> Nat]
  /\ SynResendLimit \in Nat
  /\ HeartbeatLimit \in Nat
  /\ Leavers \subseteq {Client, Server}

Peers == {Client, Server}
Other(p) == IF p = Client THEN Server ELSE Client

Index == 0..(MaxAckValue - 1)

\* IsOpcodeSequenced: these use up a sequence number and are retransmitted.
Sequenced == {"DAT", "DAT_ACK", "FIN_ACK"}
DataOpcodes == {"DAT", "DAT_ACK"}
OpCodes == Sequenced \cup {"SYN", "SYN_ACK", "ACK", "HBT", "FIN"}

StreamStates == {"Listening", "SynReceived", "Established", "Closing",
                 "Closed", "Connecting"}

ASSUME LastingAssumption == LastingOpcodes \subseteq OpCodes

Packet == [to : Peers, op : OpCodes, local : Index, remote : Index, n : Nat]

VARIABLES
  net,                        \* packets the network may still deliver
  state,                      \* State
  sequenceIndex,              \* SequenceIndex
  sequenceIndexAcked,         \* SequenceIndexAcked
  remoteSequenceIndex,        \* RemoteSequenceIndex
  remoteSequenceIndexAcked,   \* RemoteSequenceIndexAcked
  sendQueue,                  \* SendQueue
  retransmitBuffer,           \* RetransmitBuffer, in the order of `n'
  retransmitPacket,           \* {RetransmitPacket} while IsRetransmitting, or {}
  retransmitAttempts,         \* RetransmitAttempts
  receiveQueue,               \* ReceiveQueue
  inErrorState,               \* InErrorState
  closeTimer,                 \* CloseTimer > 0
  pumping,                    \* the streams that are inside Pump
  synResends,                 \* SYNs resent so far
  heartbeats,                 \* heartbeats sent so far
  start,                      \* history: SequenceIndex as constructed
  accepted,                   \* history: sequenced packets put on SendQueue
  received                    \* history: the `n' of each packet put on ReceiveQueue

indexVars == <<sequenceIndex, sequenceIndexAcked, remoteSequenceIndex,
               remoteSequenceIndexAcked>>
outVars   == <<sendQueue, retransmitBuffer, retransmitPacket, retransmitAttempts>>
inVars    == <<receiveQueue, received>>
flagVars  == <<inErrorState, closeTimer>>
vars == <<net, state, indexVars, outVars, inVars, flagVars, pumping,
          synResends, heartbeats, start, accepted>>

-----------------------------------------------------------------------------
(* Ack counters *)

\* Mutant of Succ: the counter does not wrap.
SuccUnbounded(i) == i + 1

Succ(i) == (i + 1) % MaxAckValue

\* The crude overflow test the code repeats for every ack counter it is given.
LaterAck(old, new) ==
  IF old > TopQuart /\ new < BottomQuart THEN new
  ELSE IF new > old THEN new ELSE old

\* Mutant of Covered: trims one packet too many.
CoveredEarly(local, acked) ==
  \/ local > TopQuart /\ acked < BottomQuart
  \/ local <= acked + 1

\* Mutant of Covered: an acknowledgement covers its own packet only.
CoveredAlone(local, acked) == local = acked

\* When HandleOutgoing takes a packet with this index to be acknowledged.
Covered(local, acked) ==
  \/ local > TopQuart /\ acked < BottomQuart
  \/ local <= acked

Unacked(p) == {m \in retransmitBuffer[p] : ~Covered(m.local, sequenceIndexAcked[p])}

-----------------------------------------------------------------------------
(* Packets *)

Elements(queue) == {queue[i] : i \in 1..Len(queue)}

NumberedPkt(p, op, local, remote, n) ==
  [to |-> Other(p), op |-> op, local |-> local, remote |-> remote, n |-> n]

Pkt(p, op, local, remote) == NumberedPkt(p, op, local, remote, 0)

Ack(p, remote) == Pkt(p, "ACK", 0, remote)

\* Send swallows everything while the stream is closing.
Raw(p, m) == IF state[p] = "Closing" THEN {} ELSE {m}

\* The network without m, once m has been delivered.
Taken(m) == IF m.op \in LastingOpcodes THEN net ELSE net \ {m}

\* Mutant of Enqueue: forgets to count.
EnqueueUncounted(p, op, remote) ==
  /\ sendQueue' = [sendQueue EXCEPT ![p] = Append(@,
       NumberedPkt(p, op, sequenceIndex[p], remote, accepted[p] + 1))]
  /\ accepted' = [accepted EXCEPT ![p] = @ + 1]
  /\ UNCHANGED sequenceIndex

\* Send of a sequenced packet on a stream that is not closing.
Enqueue(p, op, remote) ==
  /\ sendQueue' = [sendQueue EXCEPT ![p] = Append(@,
       NumberedPkt(p, op, sequenceIndex[p], remote, accepted[p] + 1))]
  /\ sequenceIndex' = [sequenceIndex EXCEPT ![p] = Succ(@)]
  /\ accepted' = [accepted EXCEPT ![p] = @ + 1]

Init ==
  /\ net = {}
  /\ state = [p \in Peers |-> "Listening"]
  /\ sequenceIndex \in [Peers -> RandIndices]
  /\ sequenceIndexAcked = [p \in Peers |-> 0]
  /\ remoteSequenceIndex = [p \in Peers |-> 0]
  /\ remoteSequenceIndexAcked = [p \in Peers |-> 0]
  /\ sendQueue = [p \in Peers |-> <<>>]
  /\ retransmitBuffer = [p \in Peers |-> {}]
  /\ retransmitPacket = [p \in Peers |-> {}]
  /\ retransmitAttempts = [p \in Peers |-> 0]
  /\ receiveQueue = [p \in Peers |-> <<>>]
  /\ inErrorState = [p \in Peers |-> FALSE]
  /\ closeTimer = [p \in Peers |-> FALSE]
  /\ pumping = {}
  /\ synResends = 0
  /\ heartbeats = 0
  /\ start = sequenceIndex
  /\ accepted = [p \in Peers |-> 0]
  /\ received = [p \in Peers |-> <<>>]

-----------------------------------------------------------------------------
(* Calls of the owner, between two calls of Pump *)

Connect ==
  /\ state[Client] = "Listening"
  /\ Client \notin pumping
  /\ state' = [state EXCEPT ![Client] = "Connecting"]
  /\ net' = net \cup {Pkt(Client, "SYN", sequenceIndex[Client], 0)}
  /\ UNCHANGED <<indexVars, outVars, inVars, flagVars, pumping, synResends,
                 heartbeats, start, accepted>>

\* A message that answers no other: a request, or a push message. ClientSession
\* sends once it has seen Established; the server pushes to every GameClient.
Send(p) ==
  /\ p \notin pumping
  /\ state[p] \in IF p = Client THEN {"Established"} ELSE {"SynReceived", "Established"}
  /\ accepted[p] < SendLimit[p]
  /\ Enqueue(p, "DAT", 0)
  /\ UNCHANGED <<net, state, sequenceIndexAcked, remoteSequenceIndex,
                 remoteSequenceIndexAcked, retransmitBuffer, retransmitPacket,
                 retransmitAttempts, inVars, flagVars, pumping, synResends, heartbeats, start>>

\* The owner takes a message, and HandledPacket acknowledges it again.
HandleMessage(p) ==
  /\ p \notin pumping
  /\ state[p] # "Closed"
  /\ receiveQueue[p] # <<>>
  /\ receiveQueue' = [receiveQueue EXCEPT ![p] = Tail(@)]
  /\ LET seq == Head(receiveQueue[p]).local
     IN /\ net' = net \cup Raw(p, Ack(p, seq))
        /\ remoteSequenceIndexAcked' = [remoteSequenceIndexAcked EXCEPT ![p] = seq]
  /\ UNCHANGED <<state, sequenceIndex, sequenceIndexAcked, remoteSequenceIndex,
                 outVars, flagVars, pumping, synResends, heartbeats, start, accepted, received>>

\* The same with a reply: the reply acknowledges, unless the message had index 0,
\* which Send cannot tell from "no reply".
HandleMessageReply(p) ==
  /\ p \notin pumping
  /\ state[p] \notin {"Closing", "Closed"}
  /\ receiveQueue[p] # <<>>
  /\ accepted[p] < SendLimit[p]
  /\ receiveQueue' = [receiveQueue EXCEPT ![p] = Tail(@)]
  /\ LET seq == Head(receiveQueue[p]).local
     IN /\ Enqueue(p, IF seq > 0 THEN "DAT_ACK" ELSE "DAT", seq)
        /\ net' = net \cup (IF seq > 0 THEN {} ELSE {Ack(p, seq)})
        /\ remoteSequenceIndexAcked' = [remoteSequenceIndexAcked EXCEPT ![p] = seq]
  /\ UNCHANGED <<state, sequenceIndexAcked, remoteSequenceIndex, retransmitBuffer,
                 retransmitPacket, retransmitAttempts, flagVars, pumping,
                 synResends, heartbeats, start, received>>

\* ClientSession's own Pump throws messages away without acknowledging them again.
SkipMessage ==
  /\ Client \notin pumping
  /\ state[Client] # "Closed"
  /\ receiveQueue[Client] # <<>>
  /\ receiveQueue' = [receiveQueue EXCEPT ![Client] = Tail(@)]
  /\ UNCHANGED <<net, state, indexVars, outVars, received, flagVars, pumping,
                 synResends, heartbeats, start, accepted>>

\* Does nothing unless the stream is established.
Disconnect(p) ==
  /\ p \notin pumping
  /\ p \in Leavers
  /\ state[p] = "Established"
  /\ net' = net \cup {Pkt(p, "FIN", sequenceIndex[p], 0)}
  /\ state' = [state EXCEPT ![p] = "Closing"]
  /\ closeTimer' = [closeTimer EXCEPT ![p] = TRUE]
  /\ UNCHANGED <<indexVars, outVars, inVars, inErrorState, pumping, synResends,
                 heartbeats, start, accepted>>

-----------------------------------------------------------------------------
(* Entering Pump *)

\* A closing stream with nothing left to send is closed.
Finished(p) ==
  \/ state[p] = "Closing" /\ sendQueue[p] = <<>>
  \/ state[p] = "Closed"

\* A closed stream is reset, at every Pump. IsRetransmitting survives the Reset.
PumpClosed(p) ==
  /\ p \notin pumping
  /\ Finished(p)
  /\ state' = [state EXCEPT ![p] = "Closed"]
  /\ \E i \in RandIndices : sequenceIndex' = [sequenceIndex EXCEPT ![p] = i]
  /\ sequenceIndexAcked' = [sequenceIndexAcked EXCEPT ![p] = 0]
  /\ remoteSequenceIndex' = [remoteSequenceIndex EXCEPT ![p] = 0]
  /\ remoteSequenceIndexAcked' = [remoteSequenceIndexAcked EXCEPT ![p] = 0]
  /\ sendQueue' = [sendQueue EXCEPT ![p] = <<>>]
  /\ retransmitBuffer' = [retransmitBuffer EXCEPT ![p] = {}]
  /\ receiveQueue' = [receiveQueue EXCEPT ![p] = <<>>]
  /\ UNCHANGED <<net, retransmitPacket, retransmitAttempts, flagVars, pumping,
                 synResends, heartbeats, start, accepted, received>>

\* Mutant of Pumpable: a closing stream is not pumped any more.
PumpableOpen(p) ==
  /\ p \notin pumping
  /\ state[p] \notin {"Closing", "Closed"}
  /\ ~inErrorState[p]

\* Pump goes on past its early returns: the stream neither closes nor failed.
Pumpable(p) ==
  /\ p \notin pumping
  /\ ~Finished(p)
  /\ ~inErrorState[p]

PumpCloseTimeout(p) ==
  /\ Pumpable(p)
  /\ closeTimer[p] /\ state[p] = "Closing"
  /\ state' = [state EXCEPT ![p] = "Closed"]
  /\ UNCHANGED <<net, indexVars, outVars, inVars, flagVars, pumping, synResends,
                 heartbeats, start, accepted>>

PumpBegin(p) ==
  /\ Pumpable(p)
  /\ pumping' = pumping \cup {p}
  /\ UNCHANGED <<net, state, indexVars, outVars, inVars, flagVars, synResends,
                 heartbeats, start, accepted>>

PumpHeartbeat ==
  /\ Pumpable(Client)
  /\ state[Client] = "Established"
  /\ heartbeats < HeartbeatLimit
  /\ heartbeats' = heartbeats + 1
  /\ net' = net \cup {Pkt(Client, "HBT", 0, remoteSequenceIndexAcked[Client])}
  /\ pumping' = pumping \cup {Client}
  /\ UNCHANGED <<state, indexVars, outVars, inVars, flagVars, synResends, start,
                 accepted>>

PumpResendSyn ==
  /\ Pumpable(Client)
  /\ state[Client] = "Connecting"
  /\ synResends < SynResendLimit
  /\ synResends' = synResends + 1
  /\ net' = net \cup {Pkt(Client, "SYN", sequenceIndex[Client], 0)}
  /\ pumping' = pumping \cup {Client}
  /\ UNCHANGED <<state, indexVars, outVars, inVars, flagVars, heartbeats, start, accepted>>

-----------------------------------------------------------------------------
(* HandleIncoming: one packet *)

Arrives(p, m) == p \in pumping /\ m \in net /\ m.to = p

HandleSyn(p, m) ==
  /\ Arrives(p, m) /\ m.op = "SYN"
  /\ state' = [state EXCEPT ![p] = "SynReceived"]
  /\ net' = Taken(m) \cup {Pkt(p, "SYN_ACK", sequenceIndex[p], m.local), Ack(p, m.local)}
  /\ remoteSequenceIndex' = [remoteSequenceIndex EXCEPT ![p] = m.local]
  /\ remoteSequenceIndexAcked' = [remoteSequenceIndexAcked EXCEPT ![p] = m.local]
  /\ sequenceIndex' = [sequenceIndex EXCEPT ![p] = Succ(@)]
  /\ UNCHANGED <<sequenceIndexAcked, outVars, inVars, flagVars, pumping,
                 synResends, heartbeats, start, accepted>>

HandleSynAck(p, m) ==
  /\ Arrives(p, m) /\ m.op = "SYN_ACK"
  /\ state' = [state EXCEPT ![p] = "SynReceived"]
  /\ net' = Taken(m) \cup {Ack(p, m.local)}
  /\ remoteSequenceIndex' = [remoteSequenceIndex EXCEPT ![p] = m.local]
  /\ remoteSequenceIndexAcked' = [remoteSequenceIndexAcked EXCEPT ![p] = m.local]
  /\ sequenceIndex' = [sequenceIndex EXCEPT ![p] = Succ(@)]
  /\ UNCHANGED <<sequenceIndexAcked, outVars, inVars, flagVars, pumping,
                 synResends, heartbeats, start, accepted>>

HandleAck(p, m) ==
  /\ Arrives(p, m) /\ m.op = "ACK"
  /\ state' = [state EXCEPT ![p] = IF @ = "SynReceived" THEN "Established" ELSE @]
  /\ sequenceIndexAcked' = [sequenceIndexAcked EXCEPT ![p] = LaterAck(@, m.remote)]
  /\ net' = Taken(m)
  /\ UNCHANGED <<sequenceIndex, remoteSequenceIndex, remoteSequenceIndexAcked,
                 outVars, inVars, flagVars, pumping, synResends, heartbeats, start, accepted>>

HandleHbt(p, m) ==
  /\ Arrives(p, m) /\ m.op = "HBT"
  /\ sequenceIndexAcked' = [sequenceIndexAcked EXCEPT ![p] = LaterAck(@, m.remote)]
  /\ net' = Taken(m) \cup (IF p = Client THEN {}
                           ELSE Raw(p, Pkt(p, "HBT", 0, remoteSequenceIndexAcked[p])))
  /\ UNCHANGED <<state, sequenceIndex, remoteSequenceIndex, remoteSequenceIndexAcked,
                 outVars, inVars, flagVars, pumping, synResends, heartbeats, start, accepted>>

\* The FIN_ACK is queued behind the data; a stream that is closing swallows it.
HandleFin(p, m) ==
  /\ Arrives(p, m) /\ m.op = "FIN"
  /\ state' = [state EXCEPT ![p] = "Closing"]
  /\ net' = Taken(m)
  /\ IF state[p] = "Closing"
     THEN UNCHANGED <<sendQueue, sequenceIndex, accepted>>
     ELSE Enqueue(p, "FIN_ACK", m.local)
  /\ UNCHANGED <<sequenceIndexAcked, remoteSequenceIndex, remoteSequenceIndexAcked,
                 retransmitBuffer, retransmitPacket, retransmitAttempts, inVars,
                 flagVars, pumping, synResends, heartbeats, start>>

\* Mutants of InSequence: any later packet is taken in; an earlier one is again.
InSequenceLater(p, m) ==
  /\ Arrives(p, m) /\ m.op \in Sequenced
  /\ state[p] = "Established"
  /\ m.local > remoteSequenceIndex[p]

InSequenceAgain(p, m) ==
  /\ Arrives(p, m) /\ m.op \in Sequenced
  /\ state[p] = "Established"
  /\ m.local <= Succ(remoteSequenceIndex[p])

\* A sequenced packet is taken in only when it is the next one. HandleIncoming
\* consumes PendingReceiveQueue after every packet, so it holds at most this one.
InSequence(p, m) ==
  /\ Arrives(p, m) /\ m.op \in Sequenced
  /\ state[p] = "Established"
  /\ m.local = Succ(remoteSequenceIndex[p])

HandleDat(p, m) ==
  /\ InSequence(p, m) /\ m.op \in DataOpcodes
  /\ receiveQueue' = [receiveQueue EXCEPT ![p] = Append(@, m)]
  /\ received' = [received EXCEPT ![p] = Append(@, m.n)]
  /\ remoteSequenceIndex' = [remoteSequenceIndex EXCEPT ![p] = Succ(@)]
  /\ remoteSequenceIndexAcked' = [remoteSequenceIndexAcked EXCEPT ![p] = m.local]
  /\ sequenceIndexAcked' = [sequenceIndexAcked EXCEPT ![p] =
       IF m.op = "DAT_ACK" THEN LaterAck(@, m.remote) ELSE @]
  /\ net' = Taken(m) \cup {Ack(p, m.local)}
  /\ UNCHANGED <<state, sequenceIndex, outVars, flagVars, pumping, synResends,
                 heartbeats, start, accepted>>

HandleFinAck(p, m) ==
  /\ InSequence(p, m) /\ m.op = "FIN_ACK"
  /\ state' = [state EXCEPT ![p] = "Closing"]
  /\ remoteSequenceIndex' = [remoteSequenceIndex EXCEPT ![p] = Succ(@)]
  /\ net' = Taken(m)
  /\ UNCHANGED <<sequenceIndex, sequenceIndexAcked, remoteSequenceIndexAcked,
                 outVars, inVars, flagVars, pumping, synResends, heartbeats, start, accepted>>

\* Mutant of DropOutOfSequence: acknowledges the packet it drops.
DropAndAck(p, m) ==
  /\ Arrives(p, m) /\ m.op \in Sequenced
  /\ ~InSequence(p, m)
  /\ net' = Taken(m) \cup Raw(p, Ack(p, m.local))
  /\ UNCHANGED <<state, indexVars, outVars, inVars, flagVars, pumping, synResends,
                 heartbeats, start, accepted>>

\* Anything else sequenced is dropped; if no ACK was sent for a while the last
\* one is repeated, for it may have been lost.
DropOutOfSequence(p, m) ==
  /\ Arrives(p, m) /\ m.op \in Sequenced
  /\ ~InSequence(p, m)
  /\ \E ackDue \in BOOLEAN :
       net' = Taken(m) \cup (IF ackDue THEN Raw(p, Ack(p, remoteSequenceIndexAcked[p]))
                             ELSE {})
  /\ UNCHANGED <<state, indexVars, outVars, inVars, flagVars, pumping, synResends,
                 heartbeats, start, accepted>>

HandleIncomingPacket(p, m) ==
  \/ HandleSyn(p, m)  \/ HandleSynAck(p, m) \/ HandleAck(p, m)
  \/ HandleHbt(p, m)  \/ HandleFin(p, m)
  \/ HandleDat(p, m)  \/ HandleFinAck(p, m) \/ DropOutOfSequence(p, m)

-----------------------------------------------------------------------------
(* HandleOutgoing: trim the acknowledged packets, then one of the following *)

Trim(p) == retransmitBuffer' = [retransmitBuffer EXCEPT ![p] = Unacked(p)]

EndPump(p) == p \in pumping /\ pumping' = pumping \ {p}

Recovered(p) ==
  \A m \in retransmitPacket[p] : Covered(m.local, sequenceIndexAcked[p])

\* The oldest packet of a buffer.
Oldest(buffer, m) == m \in buffer /\ \A k \in buffer : m.n <= k.n

\* How many queued packets the send loop moves when `waiting' are in flight.
Sendable(p, waiting) ==
  IF waiting >= MaxPacketsInFlight THEN 0
  ELSE IF Len(sendQueue[p]) <= MaxPacketsInFlight - waiting THEN Len(sendQueue[p])
  ELSE MaxPacketsInFlight - waiting

\* Not retransmitting, or no longer: send what the window allows.
SendQueued(p) ==
  /\ EndPump(p)
  /\ Recovered(p)
  /\ retransmitPacket' = [retransmitPacket EXCEPT ![p] = {}]
  /\ \E k \in 0..Len(sendQueue[p]) :
       LET moved == {sendQueue[p][i] : i \in 1..k}
       IN /\ k = Sendable(p, Cardinality(Unacked(p)))
          /\ retransmitBuffer' = [retransmitBuffer EXCEPT ![p] = Unacked(p) \cup moved]
          /\ net' = net \cup moved
          /\ sendQueue' = [sendQueue EXCEPT ![p] = SubSeq(@, k + 1, Len(@))]
  /\ UNCHANGED <<state, indexVars, retransmitAttempts, inVars, flagVars,
                 synResends, heartbeats, start, accepted>>

\* Mutant of StartRetransmit: whichever packet has waited, not the oldest.
StartRetransmitAny(p) ==
  /\ EndPump(p)
  /\ retransmitPacket[p] = {}
  /\ \E m \in Unacked(p) :
       /\ net' = net \cup {m}
       /\ retransmitPacket' = [retransmitPacket EXCEPT ![p] = {m}]
  /\ retransmitAttempts' = [retransmitAttempts EXCEPT ![p] = 0]
  /\ Trim(p)
  /\ UNCHANGED <<state, indexVars, sendQueue, inVars, flagVars, synResends,
                 heartbeats, start, accepted>>

\* The oldest packet has waited for RETRANSMIT_INTERVAL.
StartRetransmit(p) ==
  /\ EndPump(p)
  /\ retransmitPacket[p] = {}
  /\ \E m \in Unacked(p) :
       /\ Oldest(Unacked(p), m)
       /\ net' = net \cup {m}
       /\ retransmitPacket' = [retransmitPacket EXCEPT ![p] = {m}]
  /\ retransmitAttempts' = [retransmitAttempts EXCEPT ![p] = 0]
  /\ Trim(p)
  /\ UNCHANGED <<state, indexVars, sendQueue, inVars, flagVars, synResends,
                 heartbeats, start, accepted>>

\* Mutant of RetransmitAgain: does not count the attempts.
RetransmitForever(p) ==
  /\ EndPump(p)
  /\ ~Recovered(p)
  /\ retransmitAttempts[p] < RetransmitMaxAttempts
  /\ net' = net \cup retransmitPacket[p]
  /\ Trim(p)
  /\ UNCHANGED <<state, indexVars, sendQueue, retransmitPacket, retransmitAttempts,
                 inVars, flagVars, synResends, heartbeats, start, accepted>>

\* RETRANSMIT_CYCLE_INTERVAL has passed since the packet was last sent.
RetransmitAgain(p) ==
  /\ EndPump(p)
  /\ ~Recovered(p)
  /\ retransmitAttempts[p] < RetransmitMaxAttempts
  /\ retransmitAttempts' = [retransmitAttempts EXCEPT ![p] = @ + 1]
  /\ net' = net \cup retransmitPacket[p]
  /\ Trim(p)
  /\ UNCHANGED <<state, indexVars, sendQueue, retransmitPacket, inVars, flagVars,
                 synResends, heartbeats, start, accepted>>

GiveUp(p) ==
  /\ EndPump(p)
  /\ ~Recovered(p)
  /\ retransmitAttempts[p] >= RetransmitMaxAttempts
  /\ retransmitAttempts' = [retransmitAttempts EXCEPT ![p] = @ + 1]
  /\ inErrorState' = [inErrorState EXCEPT ![p] = TRUE]
  /\ Trim(p)
  /\ UNCHANGED <<net, state, indexVars, sendQueue, retransmitPacket, inVars,
                 closeTimer, synResends, heartbeats, start, accepted>>

\* Retransmitting, and the cycle interval has not passed yet.
AwaitRetransmit(p) ==
  /\ EndPump(p)
  /\ ~Recovered(p)
  /\ Trim(p)
  /\ UNCHANGED <<net, state, indexVars, sendQueue, retransmitPacket,
                 retransmitAttempts, inVars, flagVars, synResends, heartbeats, start, accepted>>

HandleOutgoing(p) ==
  \/ SendQueued(p) \/ StartRetransmit(p) \/ RetransmitAgain(p)
  \/ GiveUp(p)     \/ AwaitRetransmit(p)

-----------------------------------------------------------------------------

Next ==
  \/ Connect
  \/ SkipMessage
  \/ PumpHeartbeat
  \/ PumpResendSyn
  \/ \E p \in Peers :
       \/ Send(p) \/ HandleMessage(p) \/ HandleMessageReply(p) \/ Disconnect(p)
       \/ PumpClosed(p) \/ PumpCloseTimeout(p) \/ PumpBegin(p)
       \/ HandleOutgoing(p)
       \/ \E m \in net : HandleIncomingPacket(p, m)

Spec == Init /\ [][Next]_vars

\* The owner keeps pumping and a Pump ends. The intervals: the time since a packet
\* was last sent only grows, so a Pump that finds it too short is followed by one
\* that does not, if the packet is still there. Nothing is asked of the network.
Fairness ==
  \A p \in Peers :
    /\ WF_vars(PumpClosed(p))
    /\ WF_vars(PumpBegin(p))
    /\ WF_vars(HandleOutgoing(p))
    /\ SF_vars(StartRetransmit(p))
    /\ SF_vars(RetransmitAgain(p) \/ GiveUp(p))
    /\ SF_vars(PumpCloseTimeout(p))

FairSpec == Spec /\ Fairness

-----------------------------------------------------------------------------
(* Safety *)

TypeOK ==
  /\ net \subseteq Packet
  /\ state \in [Peers -> StreamStates]
  /\ sequenceIndex \in [Peers -> Index]
  /\ sequenceIndexAcked \in [Peers -> Index]
  /\ remoteSequenceIndex \in [Peers -> Index]
  /\ remoteSequenceIndexAcked \in [Peers -> Index]
  /\ sendQueue \in [Peers -> Seq(Packet)]
  /\ retransmitBuffer \in [Peers -> SUBSET Packet]
  /\ retransmitPacket \in [Peers -> SUBSET Packet]
  /\ retransmitAttempts \in [Peers -> Nat]
  /\ receiveQueue \in [Peers -> Seq(Packet)]
  /\ inErrorState \in [Peers -> BOOLEAN]
  /\ closeTimer \in [Peers -> BOOLEAN]
  /\ pumping \subseteq Peers
  /\ synResends \in Nat
  /\ heartbeats \in Nat
  /\ start \in [Peers -> Index]
  /\ accepted \in [Peers -> Nat]
  /\ received \in [Peers -> Seq(Nat)]

\* What one stream takes in is what the other accepted, in that order, each
\* message once: whatever the network loses, delays, reorders or repeats.
InOrder ==
  \A p \in Peers :
    LET r == received[Other(p)]
    IN /\ Len(r) <= accepted[p]
       /\ \A i \in 1..Len(r) : r[i] = i

Held(p) ==
  {m.n : m \in retransmitBuffer[p] \cup Elements(sendQueue[p])}

\* RetransmitBuffer keeps "packets that have been send but not acknowledged
\* yet, held on to until they have been acked": until the other stream has
\* received a message, its sender still holds it (unless one of them closes).
NoLoss ==
  \A p \in Peers :
    /\ state[p] # "Closed"
    /\ state[Other(p)] \notin {"Closing", "Closed"}
    => \A n \in 1..accepted[p] : n <= Len(received[Other(p)]) \/ n \in Held(p)

\* Acknowledgements never punch a hole: once a stream holds a message it holds
\* every later one, so that retransmitting in order can still complete the stream.
HeldSuffix ==
  \A p \in Peers :
    state[p] # "Closed" =>
      \A n \in Held(p) : n..accepted[p] \subseteq Held(p)

\* The receiver drops all but the next packet, and only one packet is retransmitted
\* at a time: it is the oldest one the stream still holds.
OldestRetransmitted ==
  \A p \in Peers :
    state[p] # "Closed" /\ ~Recovered(p) =>
      \A m \in retransmitPacket[p] : Oldest(Unacked(p), m)

\* A sequence number stands for one message: two packets of a stream with the same
\* number carry the same one, wherever they are.
NumbersUnique ==
  \A p \in Peers :
    \A m, k \in {m \in net : m.to = Other(p) /\ m.op \in Sequenced}
                 \cup retransmitBuffer[p] \cup Elements(sendQueue[p]) :
      m.local = k.local => m.n = k.n

-----------------------------------------------------------------------------
(* Liveness *)

Leaving(p) == state[p] \in {"Closing", "Closed"}

\* A message that was accepted reaches the other stream, or the stream reports
\* that the connection has died, or somebody closed it: never a silent stall, as
\* long as the SYN is not resent.  The answer to a resent SYN moves the client to the
\* number the message already has, and what it then acknowledges removes the message.
DeliveredOrFailed ==
  \A p \in Peers : \A n \in 1..SendLimit[p] :
    accepted[p] >= n ~>
      \/ n <= Len(received[Other(p)])
      \/ inErrorState[p] \/ Leaving(p) \/ Leaving(Other(p))
      \/ synResends > 0

\* A closing stream does not stay closing: it gets closed, or fails, or (a late SYN
\* or SYN_ACK) is connected again.
CloseProgresses ==
  \A p \in Peers : state[p] = "Closing" ~> state[p] # "Closing" \/ inErrorState[p]

\* "If closing and its taken too long then don't bother trying to gracefully
\* disconnect": a stream that started CloseTimer gets closed.
CloseTimesOut ==
  \A p \in Peers : state[p] = "Closing" /\ closeTimer[p] ~> state[p] = "Closed"
=============================================================================
