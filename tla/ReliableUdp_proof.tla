------------------------- MODULE ReliableUdp_proof -------------------------
(***************************************************************************)
(* Proofs about ReliableUdp, for every value of its constants.             *)
(***************************************************************************)
EXTENDS ReliableUdpInv, SequenceTheorems, TLAPS

-----------------------------------------------------------------------------
(* Peers, indices and packets *)

LEMMA PeersFacts ==
  /\ Client \in Peers /\ Server \in Peers /\ Client # Server
  /\ Other(Client) = Server /\ Other(Server) = Client
  /\ \A p \in Peers : Other(p) \in Peers /\ Other(p) # p /\ Other(Other(p)) = p
  /\ \A p, q \in Peers : q # p => q = Other(p)
BY StreamAssumption DEF Peers, Other

LEMMA IndexFacts ==
  /\ 0 \in Index
  /\ RandIndices \subseteq Index
  /\ \A i \in Index : Succ(i) \in Index
  /\ \A i, j \in Index : LaterAck(i, j) \in Index
BY StreamAssumption DEF Index, Succ, LaterAck

LEMMA PktType ==
  ASSUME NEW p \in Peers, NEW op \in OpCodes, NEW local \in Index, NEW remote \in Index
  PROVE  Pkt(p, op, local, remote) \in Packet
BY PeersFacts DEF Pkt, NumberedPkt, Packet

LEMMA AckType ==
  ASSUME NEW p \in Peers, NEW remote \in Index
  PROVE  Ack(p, remote) \in Packet
BY PktType, IndexFacts DEF Ack, OpCodes

-----------------------------------------------------------------------------
(* Type correctness *)

\* The parts of TypeOK an Enqueue disturbs.
LEMMA EnqueueType ==
  ASSUME TypeOK, NEW p \in Peers, NEW op \in Sequenced, NEW remote \in Index,
         Enqueue(p, op, remote)
  PROVE  /\ sendQueue' \in [Peers -> Seq(Packet)]
         /\ sequenceIndex' \in [Peers -> Index]
         /\ accepted' \in [Peers -> Nat]
<1> DEFINE m == NumberedPkt(p, op, sequenceIndex[p], remote, accepted[p] + 1)
<1>1. m \in Packet
  BY PeersFacts DEF TypeOK, NumberedPkt, Packet, OpCodes
<1> HIDE DEF m
<1>2. sendQueue' = [sendQueue EXCEPT ![p] = Append(@, m)]
  BY DEF Enqueue, m
<1>3. sendQueue' \in [Peers -> Seq(Packet)]
  BY <1>1, <1>2 DEF TypeOK
<1>4. sequenceIndex' \in [Peers -> Index]
  BY IndexFacts DEF TypeOK, Enqueue
<1>5. accepted' \in [Peers -> Nat]
  BY DEF TypeOK, Enqueue
<1> QED BY <1>3, <1>4, <1>5

LEMMA ReceiveQueueType ==
  ASSUME TypeOK, NEW p \in Peers, receiveQueue[p] # <<>>
  PROVE  /\ Head(receiveQueue[p]).local \in Index
         /\ [receiveQueue EXCEPT ![p] = Tail(@)] \in [Peers -> Seq(Packet)]
<1>1. receiveQueue[p] \in Seq(Packet)
  BY DEF TypeOK
<1>2. Head(receiveQueue[p]) \in Packet /\ Tail(receiveQueue[p]) \in Seq(Packet)
  BY <1>1, HeadTailProperties
<1> QED BY <1>2 DEF TypeOK, Packet

LEMMA InitType ==
  ASSUME Init
  PROVE  TypeOK
BY IndexFacts DEF Init, TypeOK, StreamStates

LEMMA OwnerType ==
  ASSUME TypeOK, NEW p \in Peers,
         \/ Connect \/ SkipMessage \/ Send(p) \/ HandleMessage(p)
         \/ HandleMessageReply(p) \/ Disconnect(p)
  PROVE  TypeOK'
<1> USE PeersFacts, IndexFacts
<1>1. CASE Connect
  <2>1. Pkt(Client, "SYN", sequenceIndex[Client], 0) \in Packet
    BY PktType DEF TypeOK, OpCodes
  <2> QED BY <1>1, <2>1 DEF Connect, TypeOK, indexVars, outVars, inVars, flagVars, StreamStates
<1>2. CASE SkipMessage
  BY <1>2, ReceiveQueueType
  DEF SkipMessage, TypeOK, indexVars, outVars, inVars, flagVars
<1>3. CASE Send(p)
  <2>1. Enqueue(p, "DAT", 0) /\ "DAT" \in Sequenced
    BY <1>3 DEF Send, Sequenced
  <2> QED BY <1>3, <2>1, EnqueueType DEF Send, TypeOK, inVars, flagVars
<1>4. CASE HandleMessage(p)
  <2> DEFINE seq == Head(receiveQueue[p]).local
  <2>1. /\ receiveQueue' = [receiveQueue EXCEPT ![p] = Tail(@)]
        /\ net' = net \cup Raw(p, Ack(p, seq))
        /\ remoteSequenceIndexAcked' = [remoteSequenceIndexAcked EXCEPT ![p] = seq]
        /\ receiveQueue[p] # <<>>
        /\ UNCHANGED <<state, sequenceIndex, sequenceIndexAcked, remoteSequenceIndex,
                       outVars, flagVars, pumping, synResends, heartbeats, start,
                       accepted, received>>
    BY <1>4 DEF HandleMessage
  <2>2. seq \in Index /\ receiveQueue' \in [Peers -> Seq(Packet)]
    BY <2>1, ReceiveQueueType
  <2> HIDE DEF seq
  <2>3. net' \subseteq Packet
    BY <2>1, <2>2, AckType DEF Raw, TypeOK
  <2> QED BY <2>1, <2>2, <2>3 DEF TypeOK, outVars, flagVars
<1>5. CASE HandleMessageReply(p)
  <2> DEFINE seq == Head(receiveQueue[p]).local
             op == IF seq > 0 THEN "DAT_ACK" ELSE "DAT"
  <2>1. /\ receiveQueue' = [receiveQueue EXCEPT ![p] = Tail(@)]
        /\ net' = net \cup (IF seq > 0 THEN {} ELSE {Ack(p, seq)})
        /\ remoteSequenceIndexAcked' = [remoteSequenceIndexAcked EXCEPT ![p] = seq]
        /\ receiveQueue[p] # <<>>
        /\ Enqueue(p, op, seq)
        /\ UNCHANGED <<state, sequenceIndexAcked, remoteSequenceIndex, retransmitBuffer,
                       retransmitPacket, retransmitAttempts, flagVars, pumping,
                       synResends, heartbeats, start, received>>
    BY <1>5 DEF HandleMessageReply
  <2>2. seq \in Index /\ receiveQueue' \in [Peers -> Seq(Packet)]
    BY <2>1, ReceiveQueueType
  <2>3. op \in Sequenced
    BY DEF Sequenced
  <2> HIDE DEF seq, op
  <2>4. net' \subseteq Packet
    BY <2>1, <2>2, AckType DEF TypeOK
  <2> QED BY <2>1, <2>2, <2>3, <2>4, EnqueueType DEF TypeOK, flagVars
<1>6. CASE Disconnect(p)
  <2>1. Pkt(p, "FIN", sequenceIndex[p], 0) \in Packet
    BY PktType DEF TypeOK, OpCodes
  <2> QED BY <1>6, <2>1 DEF Disconnect, TypeOK, indexVars, outVars, inVars, StreamStates
<1> QED BY <1>1, <1>2, <1>3, <1>4, <1>5, <1>6

LEMMA PumpType ==
  ASSUME TypeOK, NEW p \in Peers,
         \/ PumpClosed(p) \/ PumpCloseTimeout(p) \/ PumpBegin(p)
         \/ PumpHeartbeat \/ PumpResendSyn
  PROVE  TypeOK'
<1>1. CASE PumpClosed(p)
  BY <1>1, IndexFacts, EmptySeq
  DEF PumpClosed, TypeOK, indexVars, outVars, inVars, flagVars, StreamStates
<1>2. CASE PumpCloseTimeout(p)
  BY <1>2 DEF PumpCloseTimeout, TypeOK, indexVars, outVars, inVars, flagVars, StreamStates
<1>3. CASE PumpBegin(p)
  BY <1>3 DEF PumpBegin, TypeOK, indexVars, outVars, inVars, flagVars
<1>4. CASE PumpHeartbeat
  <2>1. Pkt(Client, "HBT", 0, remoteSequenceIndexAcked[Client]) \in Packet
    BY PeersFacts, IndexFacts, PktType DEF TypeOK, OpCodes
  <2>2. Client \in Peers
    BY PeersFacts
  <2> QED BY <1>4, <2>1, <2>2
          DEF PumpHeartbeat, TypeOK, indexVars, outVars, inVars, flagVars
<1>5. CASE PumpResendSyn
  <2>1. Pkt(Client, "SYN", sequenceIndex[Client], 0) \in Packet
    BY PeersFacts, IndexFacts, PktType DEF TypeOK, OpCodes
  <2>2. Client \in Peers
    BY PeersFacts
  <2> QED BY <1>5, <2>1, <2>2
          DEF PumpResendSyn, TypeOK, indexVars, outVars, inVars, flagVars
<1> QED BY <1>1, <1>2, <1>3, <1>4, <1>5

LEMMA IncomingType ==
  ASSUME TypeOK, NEW p \in Peers, NEW m \in net, HandleIncomingPacket(p, m)
  PROVE  TypeOK'
<1>1. m \in Packet /\ m.local \in Index /\ m.remote \in Index /\ m.n \in Nat
  BY DEF TypeOK, Packet
<1>2. Taken(m) \subseteq Packet
  BY DEF Taken, TypeOK
<1>3. Ack(p, m.local) \in Packet
  BY <1>1, AckType
<1>4. CASE HandleSyn(p, m)
  <2>1. Pkt(p, "SYN_ACK", sequenceIndex[p], m.local) \in Packet
    BY <1>1, PktType DEF TypeOK, OpCodes
  <2> QED BY <1>1, <1>2, <1>3, <1>4, <2>1, IndexFacts
          DEF HandleSyn, TypeOK, outVars, inVars, flagVars, StreamStates
<1>5. CASE HandleSynAck(p, m)
  BY <1>1, <1>2, <1>3, <1>5, IndexFacts
  DEF HandleSynAck, TypeOK, outVars, inVars, flagVars, StreamStates
<1>6. CASE HandleAck(p, m)
  BY <1>1, <1>2, <1>6, IndexFacts
  DEF HandleAck, TypeOK, outVars, inVars, flagVars, StreamStates
<1>7. CASE HandleHbt(p, m)
  <2>1. Pkt(p, "HBT", 0, remoteSequenceIndexAcked[p]) \in Packet
    BY PktType, IndexFacts DEF TypeOK, OpCodes
  <2>2. net' \subseteq Packet
    BY <1>2, <1>7, <2>1 DEF HandleHbt, Raw
  <2>3. sequenceIndexAcked' \in [Peers -> Index]
    BY <1>1, <1>7, IndexFacts DEF HandleHbt, TypeOK
  <2> QED BY <1>7, <2>2, <2>3 DEF HandleHbt, TypeOK, outVars, inVars, flagVars
<1>8. CASE HandleFin(p, m)
  <2>1. /\ sendQueue' \in [Peers -> Seq(Packet)]
        /\ sequenceIndex' \in [Peers -> Index]
        /\ accepted' \in [Peers -> Nat]
    <3>1. CASE state[p] = "Closing"
      BY <1>8, <3>1 DEF HandleFin, TypeOK
    <3>2. CASE state[p] # "Closing"
      <4>1. Enqueue(p, "FIN_ACK", m.local) /\ "FIN_ACK" \in Sequenced
        BY <1>8, <3>2 DEF HandleFin, Sequenced
      <4> QED BY <1>1, <4>1, EnqueueType
    <3> QED BY <3>1, <3>2
  <2> QED BY <1>2, <1>8, <2>1 DEF HandleFin, TypeOK, inVars, flagVars, StreamStates
<1>9. CASE HandleDat(p, m)
  <2>1. [receiveQueue EXCEPT ![p] = Append(@, m)] \in [Peers -> Seq(Packet)]
    BY <1>1 DEF TypeOK
  <2>2. [received EXCEPT ![p] = Append(@, m.n)] \in [Peers -> Seq(Nat)]
    BY <1>1 DEF TypeOK
  <2>3. sequenceIndexAcked' \in [Peers -> Index]
    BY <1>1, <1>9, IndexFacts DEF HandleDat, TypeOK
  <2> QED BY <1>1, <1>2, <1>3, <1>9, <2>1, <2>2, <2>3, IndexFacts
          DEF HandleDat, TypeOK, outVars, flagVars
<1>10. CASE HandleFinAck(p, m)
  BY <1>2, <1>10, IndexFacts
  DEF HandleFinAck, TypeOK, outVars, inVars, flagVars, StreamStates
<1>11. CASE DropOutOfSequence(p, m)
  <2>1. Raw(p, Ack(p, remoteSequenceIndexAcked[p])) \subseteq Packet
    BY AckType DEF Raw, TypeOK
  <2>2. net' \subseteq Packet
    BY <1>2, <1>11, <2>1 DEF DropOutOfSequence
  <2> QED BY <1>11, <2>2
          DEF DropOutOfSequence, TypeOK, indexVars, outVars, inVars, flagVars
<1> QED BY <1>4, <1>5, <1>6, <1>7, <1>8, <1>9, <1>10, <1>11 DEF HandleIncomingPacket

LEMMA OutgoingType ==
  ASSUME TypeOK, NEW p \in Peers, HandleOutgoing(p)
  PROVE  TypeOK'
<1>1. Unacked(p) \subseteq Packet
  BY DEF Unacked, TypeOK
<1>2. Trim(p) => retransmitBuffer' \in [Peers -> SUBSET Packet]
  BY <1>1 DEF Trim, TypeOK
<1>3. CASE SendQueued(p)
  <2>1. PICK k \in 0..Len(sendQueue[p]) :
          LET moved == {sendQueue[p][i] : i \in 1..k}
          IN /\ retransmitBuffer' = [retransmitBuffer EXCEPT ![p] = Unacked(p) \cup moved]
             /\ net' = net \cup moved
             /\ sendQueue' = [sendQueue EXCEPT ![p] = SubSeq(@, k + 1, Len(@))]
    BY <1>3 DEF SendQueued
  <2>2. sendQueue[p] \in Seq(Packet) /\ Len(sendQueue[p]) \in Nat
    BY DEF TypeOK
  <2>3. \A i \in 1..Len(sendQueue[p]) : sendQueue[p][i] \in Packet
    BY <2>2
  <2>4. SubSeq(sendQueue[p], k + 1, Len(sendQueue[p])) \in Seq(Packet)
    BY <2>2, <2>3
  <2>5. {sendQueue[p][i] : i \in 1..k} \subseteq Packet
    BY <2>2, <2>3
  <2>6. /\ net' \subseteq Packet
        /\ retransmitBuffer' \in [Peers -> SUBSET Packet]
        /\ sendQueue' \in [Peers -> Seq(Packet)]
    BY <1>1, <2>1, <2>4, <2>5 DEF TypeOK
  <2> QED BY <1>3, <2>6 DEF SendQueued, EndPump, TypeOK, indexVars, inVars, flagVars
<1>4. CASE StartRetransmit(p)
  BY <1>1, <1>2, <1>4 DEF StartRetransmit, EndPump, TypeOK, indexVars, inVars, flagVars
<1>5. CASE RetransmitAgain(p)
  BY <1>2, <1>5 DEF RetransmitAgain, EndPump, TypeOK, indexVars, inVars, flagVars
<1>6. CASE GiveUp(p)
  BY <1>2, <1>6 DEF GiveUp, EndPump, TypeOK, indexVars, inVars
<1>7. CASE AwaitRetransmit(p)
  BY <1>2, <1>7 DEF AwaitRetransmit, EndPump, TypeOK, indexVars, inVars, flagVars
<1> QED BY <1>3, <1>4, <1>5, <1>6, <1>7 DEF HandleOutgoing

LEMMA StepType ==
  ASSUME TypeOK, [Next]_vars
  PROVE  TypeOK'
<1>1. CASE Next
  <2>1. CASE Connect \/ SkipMessage
    BY <2>1, PeersFacts, OwnerType
  <2>2. CASE PumpHeartbeat \/ PumpResendSyn
    BY <2>2, PeersFacts, PumpType
  <2>3. ASSUME NEW p \in Peers,
               \/ Send(p) \/ HandleMessage(p) \/ HandleMessageReply(p) \/ Disconnect(p)
        PROVE  TypeOK'
    BY <2>3, OwnerType
  <2>4. ASSUME NEW p \in Peers, PumpClosed(p) \/ PumpCloseTimeout(p) \/ PumpBegin(p)
        PROVE  TypeOK'
    BY <2>4, PumpType
  <2>5. ASSUME NEW p \in Peers, HandleOutgoing(p)
        PROVE  TypeOK'
    BY <2>5, OutgoingType
  <2>6. ASSUME NEW p \in Peers, NEW m \in net, HandleIncomingPacket(p, m)
        PROVE  TypeOK'
    BY <2>6, IncomingType
  <2> QED BY <1>1, <2>1, <2>2, <2>3, <2>4, <2>5, <2>6 DEF Next
<1>2. CASE UNCHANGED vars
  BY <1>2 DEF vars, TypeOK, indexVars, outVars, inVars, flagVars
<1> QED BY <1>1, <1>2

\* Every reachable state has the declared types: in particular every ack counter,
\* in a stream or in a packet, stays below MAX_ACK_VALUE, whatever the network does.
THEOREM TypeCorrect == Spec => []TypeOK
<1>1. Init => TypeOK
  BY InitType
<1>2. TypeOK /\ [Next]_vars => TypeOK'
  BY StepType
<1> QED BY <1>1, <1>2, PTL DEF Spec
=============================================================================
