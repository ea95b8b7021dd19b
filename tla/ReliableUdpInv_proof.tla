------------------------ MODULE ReliableUdpInv_proof ------------------------
(***************************************************************************)
(* IInv is an invariant of ReliableUdp when the ack counters stay below    *)
(* the top quarter (NoWrap) and the handshake packets are neither resent   *)
(* nor repeated (HandshakeOnce); InOrder, NoLoss and the refinement of     *)
(* MessageChannel follow from it.                                          *)
(*                                                                         *)
(* TurnInv needs neither: it is an invariant of every behaviour whose      *)
(* SequenceIndex stays below the top quarter (CountersLow), and HeldSuffix,*)
(* OldestRetransmitted and NumbersUnique follow. That NoWrap and           *)
(* HandshakeOnce keep it there is the theorem CountersStayLow.             *)
(***************************************************************************)
EXTENDS ReliableUdp_proof

Hypotheses == NoWrap /\ HandshakeOnce

-----------------------------------------------------------------------------
(* The elements of queues *)

LEMMA AppendElements ==
  ASSUME NEW S, NEW s \in Seq(S), NEW k
  PROVE  Elements(Append(s, k)) = Elements(s) \cup {k}
<1>1. Len(s) \in Nat
  OBVIOUS
<1>2. /\ Len(Append(s, k)) = Len(s) + 1
      /\ \A i \in 1..Len(s) : Append(s, k)[i] = s[i]
      /\ Append(s, k)[Len(s) + 1] = k
  BY <1>1
<1>3. \A i : i \in 1..(Len(s) + 1) <=> i \in 1..Len(s) \/ i = Len(s) + 1
  BY <1>1
<1> QED BY <1>2, <1>3 DEF Elements

LEMMA TailElements ==
  ASSUME NEW S, NEW s \in Seq(S), s # <<>>
  PROVE  Elements(Tail(s)) \subseteq Elements(s)
<1>1. /\ Len(s) \in Nat /\ Len(Tail(s)) = Len(s) - 1
      /\ \A i \in 1..Len(Tail(s)) : Tail(s)[i] = s[i + 1]
  BY HeadTailProperties
<1>2. \A i \in 1..Len(Tail(s)) : i + 1 \in 1..Len(s)
  BY <1>1
<1> QED BY <1>1, <1>2 DEF Elements

LEMMA EmptyElements == Elements(<<>>) = {}
BY DEF Elements

\* The packets the send loop moves were in the queue, and so are those that stay.
LEMMA SplitElements ==
  ASSUME NEW S, NEW s \in Seq(S), NEW k \in 0..Len(s)
  PROVE  Elements(SubSeq(s, k + 1, Len(s))) \cup {s[i] : i \in 1..k} = Elements(s)
<1> DEFINE rest == SubSeq(s, k + 1, Len(s))
<1>1. Len(s) \in Nat /\ k \in Nat /\ k <= Len(s)
  OBVIOUS
<1>2. /\ Len(rest) = Len(s) - k
      /\ \A i \in 1..Len(rest) : rest[i] = s[k + i]
  BY <1>1
<1>3. \A i \in 1..Len(rest) : k + i \in 1..Len(s)
  BY <1>1, <1>2
<1>4. \A i \in 1..k : i \in 1..Len(s)
  BY <1>1
<1>5. \A i \in 1..Len(s) : i \in 1..k \/ \E j \in 1..Len(rest) : k + j = i
  <2> SUFFICES ASSUME NEW i \in 1..Len(s), i \notin 1..k
               PROVE  i - k \in 1..Len(rest) /\ k + (i - k) = i
    OBVIOUS
  <2> QED BY <1>1, <1>2
<1> HIDE DEF rest
<1>6. Elements(rest) \subseteq Elements(s)
  BY <1>2, <1>3 DEF Elements
<1>7. {s[i] : i \in 1..k} \subseteq Elements(s)
  BY <1>4 DEF Elements
<1>8. \A i \in 1..Len(s) : s[i] \in Elements(rest) \cup {s[j] : j \in 1..k}
  <2> TAKE i \in 1..Len(s)
  <2>1. CASE i \in 1..k
    BY <2>1
  <2>2. CASE i \notin 1..k
    <3>1. PICK j \in 1..Len(rest) : k + j = i
      BY <1>5, <2>2
    <3>2. rest[j] \in Elements(rest)
      BY DEF Elements
    <3> QED BY <1>2, <3>1, <3>2
  <2> QED BY <2>1, <2>2
<1>9. Elements(s) \subseteq Elements(rest) \cup {s[j] : j \in 1..k}
  BY <1>8 DEF Elements
<1> QED BY <1>6, <1>7, <1>9 DEF rest

-----------------------------------------------------------------------------
(* What the invariant says of a single state *)

LEMMA StartBound ==
  ASSUME NoWrap, StartsLow, NEW p \in Peers
  PROVE  /\ start[p] \in Nat /\ SendLimit[p] \in Nat
         /\ start[p] + SendLimit[p] + 3 <= TopQuart
         /\ TopQuart \in Nat /\ MaxAckValue \in Nat /\ TopQuart < MaxAckValue
         /\ \A i \in 0..(TopQuart - 1) : Succ(i) = i + 1 /\ i \in Index
<1>1. /\ MaxAckValue \in Nat \ {0} /\ TopQuart \in 1..(MaxAckValue - 1)
      /\ RandIndices \subseteq 0..(MaxAckValue - 1)
      /\ SendLimit[p] \in Nat
  BY StreamAssumption DEF Peers
<1>2. start[p] \in RandIndices
  BY DEF StartsLow
<1>3. start[p] + SendLimit[p] + 3 <= TopQuart
  BY <1>2 DEF NoWrap
<1>4. start[p] \in 0..(MaxAckValue - 1)
  BY <1>1, <1>2
<1>5. \A i \in 0..(TopQuart - 1) : Succ(i) = i + 1 /\ i \in Index
  BY <1>1 DEF Succ, Index
<1> QED BY <1>1, <1>3, <1>4, <1>5

LEMMA MadeType ==
  ASSUME TypeOK, NEW p \in Peers
  PROVE  Made(p) \subseteq Packet
<1>1. \A i \in 1..Len(sendQueue[p]) : sendQueue[p][i] \in Packet
  BY DEF TypeOK
<1> QED BY <1>1 DEF Made, Kept, Elements, TypeOK

\* A stream that has taken nothing in has nothing for its owner.
LEMMA NothingReceived ==
  ASSUME TypeOK, Expecting, NEW p \in Peers, Unsynced(p)
  PROVE  received[p] = <<>> /\ receiveQueue[p] = <<>>
<1>1. receiveQueue[p] \in Seq(Packet) /\ received[p] = <<>> /\ Len(receiveQueue[p]) <= 0
  BY DEF TypeOK, Expecting
<1> QED BY <1>1, EmptySeq

\* A stream that is not connected yet has sent nothing.
LEMMA NothingSent ==
  ASSUME TypeOK, SendingSide, NEW p \in Peers, Unsynced(p), Open(Other(p))
  PROVE  /\ Made(p) = {} /\ accepted[p] = 0
         /\ sequenceIndex[p] = start[p]
         /\ retransmitBuffer[p] = {} /\ retransmitPacket[p] = {}
         /\ Len(sendQueue[p]) = 0
<1>1. Numbered(p) /\ Counter(p)
  BY DEF SendingSide
<1>2. accepted[p] = 0 /\ sequenceIndex[p] = start[p]
  <2>1. start[p] \in Nat
    BY StreamAssumption DEF TypeOK, Index
  <2>2. state[p] # "Closed" /\ accepted[p] = 0
    BY <1>1 DEF Counter, Unsynced
  <2> QED BY <1>1, <2>1, <2>2 DEF Counter
<1>3. Made(p) = {}
  BY <1>1, <1>2 DEF Numbered
<1>4. Len(sendQueue[p]) \in Nat
  BY DEF TypeOK
<1>5. Len(sendQueue[p]) = 0
  <2>1. \A i \in 1..Len(sendQueue[p]) : sendQueue[p][i] \in Made(p)
    BY DEF Made, Kept, Elements
  <2> QED BY <1>3, <1>4, <2>1
<1> QED BY <1>2, <1>3, <1>5 DEF Made, Kept

LEMMA ReachType ==
  ASSUME TypeOK, NEW p \in Peers
  PROVE  Reach(p) \in Nat /\ start[p] \in Nat /\ Len(received[p]) \in Nat
<1>1. Other(p) \in Peers
  BY PeersFacts
<1>2. start[p] \in Nat
  BY StreamAssumption DEF TypeOK, Index
<1>3. \A q \in Peers : Len(received[q]) \in Nat
  BY DEF TypeOK
<1> QED BY <1>1, <1>2, <1>3 DEF Reach

\* What the owner is about to take has been received.
LEMMA HeadAcknowledged ==
  ASSUME TypeOK, Acknowledged, NEW p \in Peers, receiveQueue[p] # <<>>
  PROVE  Head(receiveQueue[p]).local <= Reach(Other(p))
<1>1. receiveQueue[p] \in Seq(Packet) /\ Len(receiveQueue[p]) \in Nat \ {0}
  BY EmptySeq DEF TypeOK
<1>2. Head(receiveQueue[p]) = receiveQueue[p][1] /\ 1 \in 1..Len(receiveQueue[p])
  BY <1>1
<1>3. Other(p) \in Peers /\ Other(Other(p)) = p
  BY PeersFacts
<1> QED BY <1>2, <1>3 DEF Acknowledged, Elements

-----------------------------------------------------------------------------
(* What a step does to the packets a stream keeps *)

\* The packet Enqueue makes.
Fresh(p, op, remote) == NumberedPkt(p, op, sequenceIndex[p], remote, accepted[p] + 1)

\* What is true of a stream that queues a packet.
Queues(p, op, remote) ==
  \/ /\ op \in DataOpcodes
     /\ ~Unsynced(p) /\ state[p] # "Closed" /\ accepted[p] < SendLimit[p]
     /\ op = "DAT_ACK" => remote <= Reach(Other(p))
     /\ UNCHANGED <<state, received>>
  \/ /\ op = "FIN_ACK"
     /\ \E m \in net : m.to = p /\ m.op = "FIN"

KeptStep(p) ==
  \/ Kept(p)' \subseteq Kept(p) /\ accepted'[p] = accepted[p]
  \/ \E op \in Sequenced, remote \in Index :
       /\ Enqueue(p, op, remote)
       /\ Queues(p, op, remote)
       /\ UNCHANGED <<retransmitBuffer, retransmitPacket>>
       /\ Kept(p)' = Kept(p) \cup {Fresh(p, op, remote)}

LEMMA KeptEnqueue ==
  ASSUME TypeOK, NEW p \in Peers, NEW op, NEW remote, Enqueue(p, op, remote),
         UNCHANGED <<retransmitBuffer, retransmitPacket>>
  PROVE  /\ Kept(p)' = Kept(p) \cup {Fresh(p, op, remote)}
         /\ Elements(sendQueue'[p]) = Elements(sendQueue[p]) \cup {Fresh(p, op, remote)}
         /\ \A q \in Peers \ {p} : Kept(q)' = Kept(q) /\ accepted'[q] = accepted[q]
<1> DEFINE k == Fresh(p, op, remote)
<1>1. sendQueue' = [sendQueue EXCEPT ![p] = Append(@, k)]
  BY DEF Enqueue, Fresh
<1> HIDE DEF k
<1>3. sendQueue \in [Peers -> Seq(Packet)]
  BY DEF TypeOK
<1>4. sendQueue'[p] = Append(sendQueue[p], k)
  BY <1>1, <1>3
<1>5. Elements(sendQueue'[p]) = Elements(sendQueue[p]) \cup {k}
  BY <1>3, <1>4, AppendElements
<1>6. Kept(p)' = Kept(p) \cup {k}
  BY <1>5 DEF Kept
<1>7. \A q \in Peers \ {p} : Kept(q)' = Kept(q)
  BY <1>1, <1>3 DEF Kept
<1>8. \A q \in Peers \ {p} : accepted'[q] = accepted[q]
  BY DEF Enqueue, TypeOK
<1> QED BY <1>5, <1>6, <1>7, <1>8 DEF k

LEMMA KeptOwner ==
  ASSUME IInv, NEW p \in Peers, NEW q \in Peers,
         \/ Connect \/ SkipMessage \/ Send(p) \/ HandleMessage(p)
         \/ HandleMessageReply(p) \/ Disconnect(p)
  PROVE  KeptStep(q)
<1> USE DEF IInv
<1>1. CASE Connect \/ SkipMessage \/ HandleMessage(p) \/ Disconnect(p)
  BY <1>1 DEF Connect, SkipMessage, HandleMessage, Disconnect, outVars, KeptStep, Kept
<1>2. CASE Send(p)
  <2>1. Enqueue(p, "DAT", 0) /\ UNCHANGED <<retransmitBuffer, retransmitPacket>>
    BY <1>2 DEF Send
  <2>2. Queues(p, "DAT", 0)
    BY <1>2 DEF Send, Queues, DataOpcodes, Unsynced, inVars
  <2>3. "DAT" \in Sequenced /\ 0 \in Index
    BY IndexFacts DEF Sequenced
  <2> QED BY <2>1, <2>2, <2>3, KeptEnqueue DEF KeptStep
<1>3. CASE HandleMessageReply(p)
  <2> DEFINE seq == Head(receiveQueue[p]).local
             op == IF seq > 0 THEN "DAT_ACK" ELSE "DAT"
  <2>1. /\ Enqueue(p, op, seq)
        /\ UNCHANGED <<retransmitBuffer, retransmitPacket, state, received>>
        /\ receiveQueue[p] # <<>>
        /\ state[p] \notin {"Closing", "Closed"}
        /\ accepted[p] < SendLimit[p]
    BY <1>3 DEF HandleMessageReply
  <2>2. seq \in Index
    BY <2>1, ReceiveQueueType
  <2>3. op \in Sequenced /\ op \in DataOpcodes
    BY DEF Sequenced, DataOpcodes
  <2>4. ~Unsynced(p)
    BY <2>1, NothingReceived
  <2>5. seq <= Reach(Other(p))
    BY <2>1, HeadAcknowledged
  <2> HIDE DEF seq, op
  <2>6. Queues(p, op, seq)
    BY <2>1, <2>3, <2>4, <2>5 DEF Queues
  <2> QED BY <2>1, <2>2, <2>3, <2>6, KeptEnqueue DEF KeptStep
<1> QED BY <1>1, <1>2, <1>3

LEMMA KeptPump ==
  ASSUME IInv, NEW p \in Peers, NEW q \in Peers,
         \/ PumpClosed(p) \/ PumpCloseTimeout(p) \/ PumpBegin(p)
         \/ PumpHeartbeat \/ PumpResendSyn
  PROVE  KeptStep(q)
<1>1. CASE PumpClosed(p)
  <2>1. accepted'[q] = accepted[q] /\ retransmitPacket' = retransmitPacket
    BY <1>1 DEF PumpClosed
  <2>2. /\ q # p => sendQueue'[q] = sendQueue[q] /\ retransmitBuffer'[q] = retransmitBuffer[q]
        /\ q = p => sendQueue'[q] = <<>> /\ retransmitBuffer'[q] = {}
    BY <1>1 DEF PumpClosed, IInv, TypeOK
  <2> QED BY <2>1, <2>2, EmptyElements DEF KeptStep, Kept
<1>2. CASE PumpCloseTimeout(p) \/ PumpBegin(p) \/ PumpHeartbeat \/ PumpResendSyn
  BY <1>2 DEF PumpCloseTimeout, PumpBegin, PumpHeartbeat, PumpResendSyn, outVars,
              KeptStep, Kept
<1> QED BY <1>1, <1>2

LEMMA KeptIncoming ==
  ASSUME IInv, NEW p \in Peers, NEW q \in Peers, NEW m \in net,
         HandleIncomingPacket(p, m)
  PROVE  KeptStep(q)
<1>1. CASE HandleFin(p, m)
  <2>1. CASE state[p] = "Closing"
    BY <1>1, <2>1 DEF HandleFin, KeptStep, Kept
  <2>2. CASE state[p] # "Closing"
    <3>1. Enqueue(p, "FIN_ACK", m.local) /\ UNCHANGED <<retransmitBuffer, retransmitPacket>>
      BY <1>1, <2>2 DEF HandleFin
    <3>2. m.local \in Index /\ "FIN_ACK" \in Sequenced
      BY DEF IInv, TypeOK, Packet, Sequenced
    <3>3. Queues(p, "FIN_ACK", m.local)
      BY <1>1 DEF HandleFin, Arrives, Queues
    <3> QED BY <3>1, <3>2, <3>3, KeptEnqueue DEF KeptStep, IInv
  <2> QED BY <2>1, <2>2
<1>2. CASE ~HandleFin(p, m)
  <2>1. UNCHANGED <<outVars, accepted>>
    BY <1>2 DEF HandleIncomingPacket, HandleSyn, HandleSynAck, HandleAck, HandleHbt,
                HandleDat, HandleFinAck, DropOutOfSequence
  <2> QED BY <2>1 DEF outVars, KeptStep, Kept
<1> QED BY <1>1, <1>2

LEMMA KeptOutgoing ==
  ASSUME TypeOK, NEW p \in Peers, NEW q \in Peers, HandleOutgoing(p)
  PROVE  KeptStep(q)
<1>1. Unacked(p) \subseteq retransmitBuffer[p]
  BY DEF Unacked
<1>2. Trim(p) => /\ retransmitBuffer'[p] \subseteq retransmitBuffer[p]
                 /\ q # p => retransmitBuffer'[q] = retransmitBuffer[q]
  BY <1>1 DEF Trim, TypeOK
<1>3. CASE SendQueued(p)
  <2>1. PICK k \in 0..Len(sendQueue[p]) :
          LET moved == {sendQueue[p][i] : i \in 1..k}
          IN /\ retransmitBuffer' = [retransmitBuffer EXCEPT ![p] = Unacked(p) \cup moved]
             /\ sendQueue' = [sendQueue EXCEPT ![p] = SubSeq(@, k + 1, Len(@))]
    BY <1>3 DEF SendQueued
  <2>2. retransmitPacket' = [retransmitPacket EXCEPT ![p] = {}] /\ accepted' = accepted
    BY <1>3 DEF SendQueued
  <2>3. CASE q # p
    BY <2>1, <2>2, <2>3 DEF KeptStep, Kept, TypeOK
  <2>4. CASE q = p
    <3>1. /\ retransmitBuffer'[p] = Unacked(p) \cup {sendQueue[p][i] : i \in 1..k}
          /\ sendQueue'[p] = SubSeq(sendQueue[p], k + 1, Len(sendQueue[p]))
          /\ retransmitPacket'[p] = {}
      BY <2>1, <2>2 DEF TypeOK
    <3>2. Elements(sendQueue'[p]) \cup {sendQueue[p][i] : i \in 1..k} = Elements(sendQueue[p])
      BY <3>1, SplitElements DEF TypeOK
    <3>3. Kept(p)' \subseteq Kept(p)
      BY <1>1, <3>1, <3>2 DEF Kept
    <3> QED BY <2>2, <2>4, <3>3 DEF KeptStep
  <2> QED BY <2>3, <2>4
<1>4. CASE StartRetransmit(p)
  <2>1. PICK m \in Unacked(p) : retransmitPacket' = [retransmitPacket EXCEPT ![p] = {m}]
    BY <1>4 DEF StartRetransmit
  <2>2. Trim(p) /\ sendQueue' = sendQueue /\ accepted' = accepted
    BY <1>4 DEF StartRetransmit
  <2>3. /\ q # p => retransmitPacket'[q] = retransmitPacket[q]
        /\ q = p => retransmitPacket'[q] \subseteq retransmitBuffer[q]
    BY <1>1, <2>1 DEF TypeOK
  <2> QED BY <1>2, <2>2, <2>3 DEF KeptStep, Kept
<1>5. CASE RetransmitAgain(p) \/ GiveUp(p) \/ AwaitRetransmit(p)
  <2>1. /\ Trim(p) /\ sendQueue' = sendQueue /\ retransmitPacket' = retransmitPacket
        /\ accepted' = accepted
    BY <1>5 DEF RetransmitAgain, GiveUp, AwaitRetransmit
  <2> QED BY <1>2, <2>1 DEF KeptStep, Kept
<1> QED BY <1>3, <1>4, <1>5 DEF HandleOutgoing

LEMMA KeptNext ==
  ASSUME IInv, Next, NEW q \in Peers
  PROVE  KeptStep(q)
<1>1. CASE Connect \/ SkipMessage
  BY <1>1, PeersFacts, KeptOwner
<1>2. CASE PumpHeartbeat \/ PumpResendSyn
  BY <1>2, PeersFacts, KeptPump
<1>3. ASSUME NEW p \in Peers,
             \/ Send(p) \/ HandleMessage(p) \/ HandleMessageReply(p) \/ Disconnect(p)
      PROVE  KeptStep(q)
  BY <1>3, KeptOwner
<1>4. ASSUME NEW p \in Peers, PumpClosed(p) \/ PumpCloseTimeout(p) \/ PumpBegin(p)
      PROVE  KeptStep(q)
  BY <1>4, KeptPump
<1>5. ASSUME NEW p \in Peers, HandleOutgoing(p)
      PROVE  KeptStep(q)
  BY <1>5, KeptOutgoing DEF IInv
<1>6. ASSUME NEW p \in Peers, NEW m \in net, HandleIncomingPacket(p, m)
      PROVE  KeptStep(q)
  BY <1>6, KeptIncoming
<1> QED BY <1>1, <1>2, <1>3, <1>4, <1>5, <1>6 DEF Next

-----------------------------------------------------------------------------
(* What a step does to what was received *)

\* The packet taken in is the one that follows the last one taken in.
LEMMA DatNext ==
  ASSUME IInv, Hypotheses, NEW p \in Peers, NEW m \in net, InSequence(p, m)
  PROVE  /\ m \in Made(Other(p)) /\ m.op \in DataOpcodes
         /\ m.local = start[Other(p)] + Len(received[p]) + 1
         /\ m.n = Len(received[p]) + 1 /\ m.n <= accepted[Other(p)]
         /\ remoteSequenceIndex[p] = start[Other(p)] + Len(received[p])
         /\ Succ(remoteSequenceIndex[p]) = m.local
<1> DEFINE o == Other(p)
<1>1. o \in Peers /\ Other(o) = p
  BY PeersFacts
<1>2. /\ m.to = p /\ m.op \in Sequenced /\ state[p] = "Established"
      /\ m.local = Succ(remoteSequenceIndex[p])
  BY DEF InSequence, Arrives
<1>3. Open(p)
  BY <1>2 DEF Open
<1> HIDE DEF o
<1>4. Numbered(o) /\ Counter(o)
  BY <1>1, <1>3 DEF IInv, SendingSide
<1>5. m \in Made(o)
  BY <1>1, <1>2 DEF Made
<1>6. m.op \in DataOpcodes /\ m.n \in 1..accepted[o] /\ m.local = start[o] + m.n
  BY <1>4, <1>5 DEF Numbered
<1>7. remoteSequenceIndex[p] = start[o] + Len(received[p])
  BY <1>2 DEF IInv, Expecting, o
<1>8. /\ Len(received[p]) <= accepted[o] /\ accepted[o] <= SendLimit[o]
      /\ accepted[o] \in Nat /\ Len(received[p]) \in Nat
  BY <1>1, <1>4 DEF IInv, InOrder, Counter, TypeOK
<1>9. start[o] + Len(received[p]) \in 0..(TopQuart - 1)
  <2>1. start[o] \in Nat /\ TopQuart \in Nat /\ start[o] + SendLimit[o] + 3 <= TopQuart
    BY <1>1, StartBound DEF IInv, Hypotheses
  <2>2. SendLimit[o] \in Nat
    BY <1>1, StreamAssumption DEF Peers
  <2> QED BY <1>8, <2>1, <2>2
<1>10. Succ(remoteSequenceIndex[p]) = start[o] + Len(received[p]) + 1
  BY <1>1, <1>7, <1>9, StartBound DEF IInv, Hypotheses
<1>11. start[o] \in Nat /\ m.n \in Nat
  BY <1>1, <1>6, <1>8, StartBound DEF IInv, Hypotheses
<1>12. m.n = Len(received[p]) + 1
  <2>1. start[o] + m.n = start[o] + Len(received[p]) + 1
    BY <1>2, <1>6, <1>10
  <2>2. start[o] \in Nat /\ m.n \in Nat /\ Len(received[p]) \in Nat
    BY <1>8, <1>11
  <2> QED BY <2>1, <2>2
<1>13. m.n <= accepted[o]
  BY <1>6, <1>8, <1>11
<1> QED BY <1>2, <1>5, <1>6, <1>7, <1>10, <1>12, <1>13 DEF o

\* received changes only in HandleDat, which appends the packet's position.
LEMMA ReceivedStep ==
  ASSUME IInv, Next
  PROVE  \/ received' = received /\ start' = start
         \/ \E p \in Peers, m \in net :
              HandleDat(p, m) /\ received' = [received EXCEPT ![p] = Append(@, m.n)]
                              /\ start' = start
<1>1. CASE Connect \/ SkipMessage \/ PumpHeartbeat \/ PumpResendSyn
  BY <1>1 DEF Connect, SkipMessage, PumpHeartbeat, PumpResendSyn, inVars
<1>2. ASSUME NEW p \in Peers,
             \/ Send(p) \/ HandleMessage(p) \/ HandleMessageReply(p) \/ Disconnect(p)
             \/ PumpClosed(p) \/ PumpCloseTimeout(p) \/ PumpBegin(p) \/ HandleOutgoing(p)
      PROVE  received' = received /\ start' = start
  BY <1>2 DEF Send, HandleMessage, HandleMessageReply, Disconnect, PumpClosed,
       PumpCloseTimeout, PumpBegin, HandleOutgoing, SendQueued, StartRetransmit,
       RetransmitAgain, GiveUp, AwaitRetransmit, inVars
<1>3. ASSUME NEW p \in Peers, NEW m \in net, HandleIncomingPacket(p, m), ~HandleDat(p, m)
      PROVE  received' = received /\ start' = start
  BY <1>3 DEF HandleIncomingPacket, HandleSyn, HandleSynAck, HandleAck, HandleHbt,
       HandleFin, HandleFinAck, DropOutOfSequence, inVars
<1>4. ASSUME NEW p \in Peers, NEW m \in net, HandleDat(p, m)
      PROVE  received' = [received EXCEPT ![p] = Append(@, m.n)] /\ start' = start
  BY <1>4 DEF HandleDat
<1> QED BY <1>1, <1>2, <1>3, <1>4 DEF Next

LEMMA ReachStep ==
  ASSUME IInv, Hypotheses, Next, NEW p \in Peers
  PROVE  /\ start' = start
         /\ Len(received[p]) <= Len(received'[p]) /\ Len(received'[p]) \in Nat
         /\ Reach(p) <= Reach(p)' /\ Reach(p)' \in Nat
         /\ \A q \in Peers, m \in net : HandleDat(q, m) => m.local = Reach(Other(q))'
<1>1. \A q \in Peers : received[q] \in Seq(Nat) /\ Len(received[q]) \in Nat
  BY DEF IInv, TypeOK
<1>2. \A q \in Peers : start[q] \in Nat
  BY ReachType DEF IInv
<1>3. \A q \in Peers, m \in net : HandleDat(q, m) =>
         /\ received' = [received EXCEPT ![q] = Append(@, m.n)]
         /\ start' = start
         /\ m.local = start[Other(q)] + Len(received[q]) + 1
  <2> TAKE q \in Peers, m \in net
  <2> HAVE HandleDat(q, m)
  <2>1. InSequence(q, m)
    BY DEF HandleDat
  <2>2. received' = [received EXCEPT ![q] = Append(@, m.n)] /\ start' = start
    BY DEF HandleDat
  <2> QED BY <2>1, <2>2, DatNext
<1>4. \A q \in Peers, m \in net : HandleDat(q, m) =>
         /\ Len(received'[q]) = Len(received[q]) + 1
         /\ \A o \in Peers \ {q} : received'[o] = received[o]
  BY <1>1, <1>3 DEF IInv, TypeOK
<1>5. start' = start
  BY ReceivedStep
<1>6. \A q \in Peers : Len(received[q]) <= Len(received'[q]) /\ Len(received'[q]) \in Nat
  <2>1. CASE received' = received
    BY <1>1, <2>1
  <2>2. CASE received' # received
    <3>1. PICK q \in Peers, m \in net : HandleDat(q, m)
      BY <2>2, ReceivedStep
    <3> QED BY <1>1, <1>4, <3>1
  <2> QED BY <2>1, <2>2
<1>7. Reach(p) <= Reach(p)' /\ Reach(p)' \in Nat
  <2>1. Other(p) \in Peers
    BY PeersFacts
  <2>2. /\ Len(received[Other(p)]) <= Len(received'[Other(p)])
        /\ Len(received'[Other(p)]) \in Nat /\ Len(received[Other(p)]) \in Nat
        /\ start[p] \in Nat /\ start'[p] = start[p]
    BY <1>1, <1>2, <1>5, <1>6, <2>1
  <2> QED BY <2>2 DEF Reach
<1>8. \A q \in Peers, m \in net : HandleDat(q, m) => m.local = Reach(Other(q))'
  <2> TAKE q \in Peers, m \in net
  <2> HAVE HandleDat(q, m)
  <2>1. /\ m.local = start[Other(q)] + Len(received[q]) + 1
        /\ Len(received'[q]) = Len(received[q]) + 1
        /\ start' = start
    BY <1>3, <1>4
  <2>2. Other(Other(q)) = q /\ start[Other(q)] \in Nat /\ Len(received[q]) \in Nat
    BY <1>1, <1>2, PeersFacts
  <2> QED BY <2>1, <2>2 DEF Reach
<1> QED BY <1>5, <1>6, <1>7, <1>8

-----------------------------------------------------------------------------
(* What a step puts on the network *)

\* A packet that acknowledges what its sender has received.
GoodAck(k) ==
  /\ k.op \in {"ACK", "HBT"} /\ k.to \in Peers
  /\ k.remote <= Reach(k.to)'

\* Where a packet comes from that was not on the network before.
Origin(k) ==
  \/ \E p \in Peers : k \in Kept(p)
  \/ GoodAck(k)
  \/ \E p \in Peers : k = Pkt(p, "FIN", sequenceIndex[p], 0) /\ Disconnect(p)
  \/ k = Pkt(Client, "SYN", sequenceIndex[Client], 0) /\ Connect
  \/ \E p \in Peers, m \in net :
       k = Pkt(p, "SYN_ACK", sequenceIndex[p], m.local) /\ HandleSyn(p, m)

\* An acknowledgement by p of something it has received.
LEMMA AckIsGood ==
  ASSUME IInv, Hypotheses, Next, NEW p \in Peers, NEW remote \in Nat,
         \/ remote <= Reach(Other(p)) \/ remote <= Reach(Other(p))'
  PROVE  GoodAck(Ack(p, remote)) /\ GoodAck(Pkt(p, "HBT", 0, remote))
<1>1. Other(p) \in Peers
  BY PeersFacts
<1>2. Reach(Other(p)) <= Reach(Other(p))' /\ Reach(Other(p))' \in Nat
  BY <1>1, ReachStep
<1>3. Reach(Other(p)) \in Nat
  BY <1>1, ReachType DEF IInv
<1>4. remote <= Reach(Other(p))'
  BY <1>2, <1>3
<1>5. /\ Ack(p, remote) = [to |-> Other(p), op |-> "ACK", local |-> 0, remote |-> remote,
                           n |-> 0]
      /\ Pkt(p, "HBT", 0, remote) = [to |-> Other(p), op |-> "HBT", local |-> 0,
                                     remote |-> remote, n |-> 0]
  BY DEF Ack, Pkt, NumberedPkt
<1> QED BY <1>1, <1>4, <1>5 DEF GoodAck

\* What a stream last acknowledged it has received.
LEMMA LastAckIsGood ==
  ASSUME IInv, Hypotheses, Next, NEW p \in Peers
  PROVE  /\ GoodAck(Ack(p, remoteSequenceIndexAcked[p]))
         /\ GoodAck(Pkt(p, "HBT", 0, remoteSequenceIndexAcked[p]))
<1>1. remoteSequenceIndexAcked[p] \in Nat
  BY StreamAssumption DEF IInv, TypeOK, Index
<1>2. remoteSequenceIndexAcked[p] <= Reach(Other(p))
  BY PeersFacts DEF IInv, Acknowledged
<1> QED BY <1>1, <1>2, AckIsGood

LEMMA OriginOwner ==
  ASSUME IInv, Hypotheses, Next, NEW p \in Peers, NEW k \in net' \ net,
         \/ Connect \/ SkipMessage \/ Send(p) \/ HandleMessage(p)
         \/ HandleMessageReply(p) \/ Disconnect(p)
  PROVE  Origin(k)
<1>1. CASE Connect
  BY <1>1 DEF Connect, Origin
<1>2. CASE SkipMessage \/ Send(p)
  BY <1>2 DEF SkipMessage, Send
<1>3. CASE HandleMessage(p) \/ HandleMessageReply(p)
  <2>1. receiveQueue[p] # <<>> /\ k = Ack(p, Head(receiveQueue[p]).local)
    BY <1>3 DEF HandleMessage, HandleMessageReply, Raw
  <2>2. Head(receiveQueue[p]).local \in Nat
    BY <2>1, ReceiveQueueType, StreamAssumption DEF IInv, Index
  <2>3. Head(receiveQueue[p]).local <= Reach(Other(p))
    BY <2>1, HeadAcknowledged DEF IInv
  <2> QED BY <2>1, <2>2, <2>3, AckIsGood DEF Origin
<1>4. CASE Disconnect(p)
  BY <1>4 DEF Disconnect, Origin
<1> QED BY <1>1, <1>2, <1>3, <1>4

LEMMA OriginPump ==
  ASSUME IInv, Hypotheses, Next, NEW p \in Peers, NEW k \in net' \ net,
         \/ PumpClosed(p) \/ PumpCloseTimeout(p) \/ PumpBegin(p)
         \/ PumpHeartbeat \/ PumpResendSyn
  PROVE  Origin(k)
<1>1. CASE PumpClosed(p) \/ PumpCloseTimeout(p) \/ PumpBegin(p)
  BY <1>1 DEF PumpClosed, PumpCloseTimeout, PumpBegin
<1>2. CASE PumpHeartbeat
  BY <1>2, PeersFacts, LastAckIsGood DEF PumpHeartbeat, Origin
<1>3. CASE PumpResendSyn
  <2>1. SynResendLimit = 0 /\ synResends < SynResendLimit /\ synResends \in Nat
    BY <1>3 DEF PumpResendSyn, IInv, TypeOK, Hypotheses, HandshakeOnce
  <2> QED BY <2>1
<1> QED BY <1>1, <1>2, <1>3

LEMMA OriginIncoming ==
  ASSUME IInv, Hypotheses, Next, NEW p \in Peers, NEW k \in net' \ net, NEW m \in net,
         HandleIncomingPacket(p, m)
  PROVE  Origin(k)
<1>1. m.local \in Nat /\ Taken(m) \subseteq net
  BY StreamAssumption DEF IInv, TypeOK, Packet, Index, Taken
<1>2. CASE HandleSyn(p, m)
  <2>1. m = Pkt(Client, "SYN", start[Client], 0) /\ m.to = p
    BY <1>2 DEF HandleSyn, Arrives, IInv, SynOnTheWay
  <2>2. p = Server /\ m.local = start[Client]
    BY <2>1, PeersFacts DEF Pkt, NumberedPkt
  <2>3. m.local <= Reach(Other(p))
    BY <2>2, PeersFacts, ReachType DEF IInv, Reach
  <2> QED BY <1>1, <1>2, <2>3, AckIsGood DEF HandleSyn, Origin
<1>3. CASE HandleSynAck(p, m)
  <2>1. m = Pkt(Server, "SYN_ACK", start[Server], start[Client]) /\ m.to = p
    BY <1>3 DEF HandleSynAck, Arrives, IInv, SynAckOnTheWay
  <2>2. p = Client /\ m.local = start[Server]
    BY <2>1, PeersFacts DEF Pkt, NumberedPkt
  <2>3. m.local <= Reach(Other(p))
    BY <2>2, PeersFacts, ReachType DEF IInv, Reach
  <2> QED BY <1>1, <1>3, <2>3, AckIsGood DEF HandleSynAck, Origin
<1>4. CASE HandleAck(p, m) \/ HandleFin(p, m) \/ HandleFinAck(p, m)
  BY <1>1, <1>4 DEF HandleAck, HandleFin, HandleFinAck
<1>5. CASE HandleHbt(p, m)
  BY <1>1, <1>5, LastAckIsGood DEF HandleHbt, Raw, Origin
<1>6. CASE HandleDat(p, m)
  <2>1. m.local = Reach(Other(p))' /\ Reach(Other(p))' \in Nat
    BY <1>6, PeersFacts, ReachStep
  <2>2. m.local <= Reach(Other(p))'
    BY <2>1
  <2> QED BY <1>1, <1>6, <2>2, AckIsGood DEF HandleDat, Origin
<1>7. CASE DropOutOfSequence(p, m)
  BY <1>1, <1>7, LastAckIsGood DEF DropOutOfSequence, Raw, Origin
<1> QED BY <1>2, <1>3, <1>4, <1>5, <1>6, <1>7 DEF HandleIncomingPacket

LEMMA OriginOutgoing ==
  ASSUME TypeOK, NEW p \in Peers, NEW k \in net' \ net, HandleOutgoing(p)
  PROVE  \E q \in Peers : k \in Kept(q)
<1>1. CASE SendQueued(p)
  <2>1. PICK j \in 0..Len(sendQueue[p]) : net' = net \cup {sendQueue[p][i] : i \in 1..j}
    BY <1>1 DEF SendQueued
  <2>2. sendQueue[p] \in Seq(Packet)
    BY DEF TypeOK
  <2>3. {sendQueue[p][i] : i \in 1..j} \subseteq Elements(sendQueue[p])
    BY <2>2, SplitElements
  <2> QED BY <2>1, <2>3 DEF Kept
<1>2. CASE StartRetransmit(p)
  BY <1>2 DEF StartRetransmit, Unacked, Kept
<1>3. CASE RetransmitAgain(p)
  BY <1>3 DEF RetransmitAgain, Kept
<1>4. CASE GiveUp(p) \/ AwaitRetransmit(p)
  BY <1>4 DEF GiveUp, AwaitRetransmit
<1> QED BY <1>1, <1>2, <1>3, <1>4 DEF HandleOutgoing

LEMMA OriginNext ==
  ASSUME IInv, Hypotheses, Next, NEW k \in net' \ net
  PROVE  Origin(k)
<1>1. CASE Connect \/ SkipMessage
  BY <1>1, PeersFacts, OriginOwner
<1>2. CASE PumpHeartbeat \/ PumpResendSyn
  BY <1>2, PeersFacts, OriginPump
<1>3. ASSUME NEW p \in Peers,
             \/ Send(p) \/ HandleMessage(p) \/ HandleMessageReply(p) \/ Disconnect(p)
      PROVE  Origin(k)
  BY <1>3, OriginOwner
<1>4. ASSUME NEW p \in Peers, PumpClosed(p) \/ PumpCloseTimeout(p) \/ PumpBegin(p)
      PROVE  Origin(k)
  BY <1>4, OriginPump
<1>5. ASSUME NEW p \in Peers, HandleOutgoing(p)
      PROVE  Origin(k)
  BY <1>5, OriginOutgoing DEF IInv, Origin
<1>6. ASSUME NEW p \in Peers, NEW m \in net, HandleIncomingPacket(p, m)
      PROVE  Origin(k)
  BY <1>6, OriginIncoming
<1> QED BY <1>1, <1>2, <1>3, <1>4, <1>5, <1>6 DEF Next

-----------------------------------------------------------------------------
(* What a step does to the state of a stream *)

LEMMA SynArrives ==
  ASSUME IInv, NEW p \in Peers, NEW m \in net, HandleSyn(p, m)
  PROVE  p = Server /\ state[p] = "Listening" /\ m.local = start[Client]
<1>1. m = Pkt(Client, "SYN", start[Client], 0) /\ m.to = p /\ state[Server] = "Listening"
  BY DEF HandleSyn, Arrives, IInv, SynOnTheWay
<1> QED BY <1>1, PeersFacts DEF Pkt, NumberedPkt

LEMMA SynAckArrives ==
  ASSUME IInv, NEW p \in Peers, NEW m \in net, HandleSynAck(p, m)
  PROVE  /\ p = Client /\ m.local = start[Server] /\ received[Client] = <<>>
         /\ \/ state[Client] = "Connecting"
            \/ state[Client] = "Closing" /\ ~Open(Server)
<1>1. /\ m = Pkt(Server, "SYN_ACK", start[Server], start[Client]) /\ m.to = p
      /\ received[Client] = <<>>
      /\ \/ state[Client] = "Connecting"
         \/ state[Client] \in {"Closing", "Closed"} /\ ~Open(Server)
  BY DEF HandleSynAck, Arrives, IInv, SynAckOnTheWay
<1>2. p = Client /\ m.local = start[Server]
  BY <1>1, PeersFacts DEF Pkt, NumberedPkt
<1>3. state[p] # "Closed"
  BY DEF HandleSynAck, Arrives, IInv, Expecting
<1> QED BY <1>1, <1>2, <1>3

LEMMA NoFinAckArrives ==
  ASSUME IInv, Hypotheses, NEW p \in Peers, NEW m \in net
  PROVE  ~HandleFinAck(p, m)
BY DatNext DEF HandleFinAck, DataOpcodes

\* The ways from one state to another.
StateStep(q) ==
  \/ state'[q] = state[q]
  \/ q = Client /\ state[q] = "Listening" /\ state'[q] = "Connecting" /\ Connect
  \/ state[q] = "Established" /\ state'[q] = "Closing" /\ Disconnect(q)
  \/ state[q] = "Closing" /\ state'[q] = "Closed"
  \/ state[q] = "SynReceived" /\ state'[q] = "Established"
  \/ state'[q] = "SynReceived" /\ \E m \in net : HandleSyn(q, m) \/ HandleSynAck(q, m)
  \/ state[q] # "Closed" /\ state'[q] = "Closing" /\ \E m \in net : HandleFin(q, m)

LEMMA StateNext ==
  ASSUME IInv, Hypotheses, Next, NEW q \in Peers
  PROVE  StateStep(q)
<1>0. state \in [Peers -> StreamStates]
  BY DEF IInv, TypeOK
<1>1. CASE Connect \/ SkipMessage \/ PumpHeartbeat \/ PumpResendSyn
  BY <1>0, <1>1, PeersFacts DEF Connect, SkipMessage, PumpHeartbeat, PumpResendSyn, StateStep
<1>2. ASSUME NEW p \in Peers,
             \/ Send(p) \/ HandleMessage(p) \/ HandleMessageReply(p)
             \/ PumpBegin(p) \/ HandleOutgoing(p)
      PROVE  StateStep(q)
  BY <1>2 DEF Send, HandleMessage, HandleMessageReply, PumpBegin, HandleOutgoing,
       SendQueued, StartRetransmit, RetransmitAgain, GiveUp, AwaitRetransmit, StateStep
<1>3. ASSUME NEW p \in Peers, Disconnect(p) \/ PumpClosed(p) \/ PumpCloseTimeout(p)
      PROVE  StateStep(q)
  BY <1>0, <1>3 DEF Disconnect, PumpClosed, Finished, PumpCloseTimeout, StateStep
<1>4. ASSUME NEW p \in Peers, NEW m \in net, HandleIncomingPacket(p, m)
      PROVE  StateStep(q)
  <2>1. CASE HandleSyn(p, m) \/ HandleSynAck(p, m)
    BY <1>0, <2>1 DEF HandleSyn, HandleSynAck, StateStep
  <2>2. CASE HandleAck(p, m)
    BY <1>0, <2>2 DEF HandleAck, StateStep
  <2>3. CASE HandleFin(p, m)
    <3>1. state[p] # "Closed" /\ state' = [state EXCEPT ![p] = "Closing"]
      BY <2>3 DEF HandleFin, Arrives, IInv, Expecting
    <3> QED BY <1>0, <2>3, <3>1 DEF StateStep
  <2>4. CASE HandleHbt(p, m) \/ HandleDat(p, m) \/ DropOutOfSequence(p, m)
    BY <2>4 DEF HandleHbt, HandleDat, DropOutOfSequence, StateStep
  <2> QED BY <1>4, <2>1, <2>2, <2>3, <2>4, NoFinAckArrives DEF HandleIncomingPacket
<1> QED BY <1>1, <1>2, <1>3, <1>4 DEF Next

\* What an origin says of a packet of a given kind.
LEMMA OriginKinds ==
  ASSUME IInv, NEW k, Origin(k)
  PROVE  /\ k.op = "SYN" =>
              k = Pkt(Client, "SYN", sequenceIndex[Client], 0) /\ Connect
         /\ k.op = "SYN_ACK" =>
              \E p \in Peers, m \in net :
                k = Pkt(p, "SYN_ACK", sequenceIndex[p], m.local) /\ HandleSyn(p, m)
         /\ k.op = "FIN" =>
              \E p \in Peers : k = Pkt(p, "FIN", sequenceIndex[p], 0) /\ Disconnect(p)
         /\ k.op \in {"ACK", "HBT"} => GoodAck(k)
         /\ k.op \in Sequenced => \E p \in Peers : k \in Kept(p) /\ k.to = Other(p)
<1>1. \A p \in Peers : k \in Kept(p) => k.op \in Sequenced /\ k.to = Other(p)
  BY DEF IInv, SequencedOnly, Made
<1>2. \A p, op, local, remote : Pkt(p, op, local, remote).op = op
  BY DEF Pkt, NumberedPkt
<1> QED BY <1>1, <1>2 DEF Origin, GoodAck, Sequenced

LEMMA OpenStep ==
  ASSUME IInv, Hypotheses, Next, NEW q \in Peers, Open(q)'
  PROVE  Open(q)
<1>1. CASE state'[q] \notin {"Closing", "Closed"}
  <2>1. ASSUME NEW m \in net, HandleSyn(q, m)
        PROVE  Open(q)
    BY <2>1, SynArrives DEF Open
  <2>2. ASSUME NEW m \in net, HandleSynAck(q, m)
        PROVE  Open(q)
    BY <2>2 DEF HandleSynAck, Arrives, Open
  <2>3. StateStep(q)
    BY StateNext
  <2> QED BY <1>1, <2>1, <2>2, <2>3 DEF StateStep, Open
<1>2. ASSUME NEW m \in net', m.to = q, m.op = "SYN_ACK"
      PROVE  Open(q)
  <2>1. CASE m \in net
    BY <1>2, <2>1 DEF Open
  <2>2. CASE m \notin net
    <3>1. Origin(m)
      BY <2>2, OriginNext
    <3>2. PICK p \in Peers, k \in net :
            m = Pkt(p, "SYN_ACK", sequenceIndex[p], k.local) /\ HandleSyn(p, k)
      BY <1>2, <3>1, OriginKinds
    <3>3. p = Server /\ state[Server] = "Listening"
      BY <3>2, SynArrives
    <3>4. q = Client
      BY <1>2, <3>2, <3>3, PeersFacts DEF Pkt, NumberedPkt
    <3> QED BY <3>3, <3>4 DEF IInv, Silent, Unsynced, Open
  <2> QED BY <2>1, <2>2
<1> QED BY <1>1, <1>2 DEF Open

\* A packet that was not made before has just been queued.
LEMMA MadeStep ==
  ASSUME IInv, Hypotheses, Next, NEW q \in Peers, NEW k \in Made(q)', k \notin Made(q)
  PROVE  \E op \in Sequenced, remote \in Index :
           Enqueue(q, op, remote) /\ Queues(q, op, remote) /\ k = Fresh(q, op, remote)
<1>1. CASE k \in Kept(q)'
  BY <1>1, KeptNext DEF KeptStep, Made
<1>2. CASE k \notin Kept(q)'
  <2>1. k \in net' /\ k.to = Other(q) /\ k.op \in Sequenced
    BY <1>2 DEF Made
  <2>2. k \notin net
    BY <2>1 DEF Made
  <2>3. PICK p \in Peers : k \in Kept(p) /\ k.to = Other(p)
    BY <2>1, <2>2, OriginNext, OriginKinds
  <2>4. p = q
    BY <2>1, <2>3, PeersFacts
  <2> QED BY <2>3, <2>4 DEF Made
<1> QED BY <1>1, <1>2

LEMMA SequencedOnlyStep ==
  ASSUME IInv, Hypotheses, Next
  PROVE  SequencedOnly'
<1> SUFFICES ASSUME NEW q \in Peers, NEW k \in Made(q)'
             PROVE  k.to = Other(q) /\ k.op \in Sequenced
  BY DEF SequencedOnly
<1>1. CASE k \in Made(q)
  BY <1>1 DEF IInv, SequencedOnly
<1>2. CASE k \notin Made(q)
  BY <1>2, MadeStep DEF Fresh, NumberedPkt
<1> QED BY <1>1, <1>2

-----------------------------------------------------------------------------
(* The sending side, as long as the other stream is open *)

\* What a step does to the counters of a stream that has not seen a FIN.
SeqStep(q) ==
  \/ /\ sequenceIndex'[q] = sequenceIndex[q] /\ accepted'[q] = accepted[q]
     /\ Unsynced(q)' <=> Unsynced(q)
     /\ state[q] = "Closed" => state'[q] = "Closed"
  \/ \E op \in Sequenced, remote \in Index :
       Enqueue(q, op, remote) /\ Queues(q, op, remote)
  \/ state'[q] = "Closed" /\ accepted'[q] = accepted[q]
  \/ \E m \in net :
       /\ HandleSyn(q, m) \/ HandleSynAck(q, m)
       /\ sequenceIndex'[q] = Succ(sequenceIndex[q]) /\ accepted'[q] = accepted[q]
       /\ state'[q] = "SynReceived"

LEMMA SeqNext ==
  ASSUME IInv, Hypotheses, Next, NEW q \in Peers
  PROVE  SeqStep(q)
<1>0. /\ state \in [Peers -> StreamStates] /\ sequenceIndex \in [Peers -> Index]
      /\ accepted \in [Peers -> Nat]
  BY DEF IInv, TypeOK
<1>1. CASE Connect \/ SkipMessage \/ PumpHeartbeat \/ PumpResendSyn
  BY <1>0, <1>1, PeersFacts
  DEF Connect, SkipMessage, PumpHeartbeat, PumpResendSyn, indexVars, Unsynced, SeqStep
<1>2. ASSUME NEW p \in Peers, Send(p) \/ HandleMessageReply(p)
      PROVE  SeqStep(q)
  <2>1. UNCHANGED <<state, retransmitBuffer, retransmitPacket>>
    BY <1>2 DEF Send, HandleMessageReply
  <2>2. CASE q = p
    <3>1. accepted'[q] # accepted[q]
      BY <1>0, <1>2, <2>2 DEF Send, HandleMessageReply, Enqueue
    <3> QED BY <3>1, KeptNext DEF KeptStep, SeqStep
  <2>3. CASE q # p
    BY <1>0, <1>2, <2>1, <2>3 DEF Send, HandleMessageReply, Enqueue, Unsynced, SeqStep
  <2> QED BY <2>2, <2>3
<1>3. ASSUME NEW p \in Peers, HandleMessage(p) \/ PumpBegin(p) \/ HandleOutgoing(p)
      PROVE  SeqStep(q)
  BY <1>3 DEF HandleMessage, PumpBegin, HandleOutgoing, SendQueued, StartRetransmit,
       RetransmitAgain, GiveUp, AwaitRetransmit, indexVars, Unsynced, SeqStep
<1>4. ASSUME NEW p \in Peers, Disconnect(p) \/ PumpClosed(p) \/ PumpCloseTimeout(p)
      PROVE  SeqStep(q)
  BY <1>0, <1>4 DEF Disconnect, PumpClosed, PumpCloseTimeout, indexVars, Unsynced, SeqStep
<1>5. ASSUME NEW p \in Peers, NEW m \in net, HandleIncomingPacket(p, m)
      PROVE  SeqStep(q)
  <2>1. CASE HandleSyn(p, m) \/ HandleSynAck(p, m)
    BY <1>0, <2>1 DEF HandleSyn, HandleSynAck, Unsynced, SeqStep
  <2>2. CASE HandleFin(p, m) /\ state[p] # "Closing"
    <3>1. CASE q = p
      <4>1. accepted'[q] # accepted[q]
        BY <1>0, <2>2, <3>1 DEF HandleFin, Enqueue
      <4> QED BY <4>1, KeptNext DEF KeptStep, SeqStep
    <3>2. CASE q # p
      BY <1>0, <2>2, <3>2 DEF HandleFin, Enqueue, Unsynced, SeqStep
    <3> QED BY <3>1, <3>2
  <2>3. CASE HandleFin(p, m) /\ state[p] = "Closing"
    BY <1>0, <2>3 DEF HandleFin, Unsynced, SeqStep
  <2>4. CASE HandleAck(p, m)
    BY <1>0, <2>4 DEF HandleAck, Unsynced, SeqStep
  <2>5. CASE HandleHbt(p, m) \/ HandleDat(p, m) \/ DropOutOfSequence(p, m)
    BY <2>5 DEF HandleHbt, HandleDat, DropOutOfSequence, indexVars, Unsynced, SeqStep
  <2> QED BY <1>5, <2>1, <2>2, <2>3, <2>4, <2>5, NoFinAckArrives DEF HandleIncomingPacket
<1> QED BY <1>1, <1>2, <1>3, <1>4, <1>5 DEF Next

\* What is queued while no FIN is on the way, and the index it gets.
LEMMA DataQueued ==
  ASSUME IInv, Hypotheses, NEW q \in Peers, Open(Other(q)),
         NEW op \in Sequenced, NEW remote \in Index,
         Enqueue(q, op, remote), Queues(q, op, remote)
  PROVE  /\ op \in DataOpcodes /\ ~Unsynced(q) /\ state[q] # "Closed" /\ state' = state
         /\ accepted[q] \in Nat /\ accepted'[q] = accepted[q] + 1
         /\ accepted'[q] <= SendLimit[q]
         /\ sequenceIndex[q] = start[q] + accepted'[q]
         /\ sequenceIndex'[q] = start[q] + accepted'[q] + 1
<1>1. Counter(q) /\ NoFinTo(q)
  BY DEF IInv, SendingSide
<1>2. /\ op \in DataOpcodes /\ ~Unsynced(q) /\ state[q] # "Closed" /\ state' = state
      /\ accepted[q] < SendLimit[q]
  BY <1>1 DEF Queues, NoFinTo
<1>3. /\ accepted[q] \in Nat /\ accepted'[q] = accepted[q] + 1
      /\ sequenceIndex'[q] = Succ(sequenceIndex[q])
  BY DEF Enqueue, IInv, TypeOK
<1>4. sequenceIndex[q] = start[q] + accepted[q] + 1
  BY <1>1, <1>2 DEF Counter
<1>5. /\ start[q] \in Nat /\ SendLimit[q] \in Nat /\ TopQuart \in Nat
      /\ start[q] + SendLimit[q] + 3 <= TopQuart
  BY StartBound DEF IInv, Hypotheses
<1>6. sequenceIndex[q] \in 0..(TopQuart - 1)
  BY <1>2, <1>3, <1>4, <1>5
<1>7. Succ(sequenceIndex[q]) = sequenceIndex[q] + 1
  BY <1>6, StartBound DEF IInv, Hypotheses
<1> QED BY <1>2, <1>3, <1>4, <1>5, <1>7

LEMMA NumberedStep ==
  ASSUME IInv, Hypotheses, Next, NEW q \in Peers, Open(Other(q))
  PROVE  Numbered(q)'
<1>1. Numbered(q) /\ accepted[q] \in Nat
  BY DEF IInv, SendingSide, TypeOK
<1>2. start' = start
  BY ReachStep
<1>3. accepted'[q] = accepted[q] \/ accepted'[q] = accepted[q] + 1
  <2>1. \A op, remote : Enqueue(q, op, remote) => accepted'[q] = accepted[q] + 1
    BY DEF Enqueue, IInv, TypeOK
  <2> QED BY <2>1, KeptNext DEF KeptStep
<1> SUFFICES ASSUME NEW k \in Made(q)'
             PROVE  k.op \in DataOpcodes /\ k.n \in 1..accepted'[q] /\ k.local = start[q] + k.n
  BY <1>2 DEF Numbered
<1>4. CASE k \in Made(q)
  BY <1>1, <1>3, <1>4 DEF Numbered
<1>5. CASE k \notin Made(q)
  <2>1. PICK op \in Sequenced, remote \in Index :
          Enqueue(q, op, remote) /\ Queues(q, op, remote) /\ k = Fresh(q, op, remote)
    BY <1>5, MadeStep
  <2>2. k.op = op /\ k.n = accepted[q] + 1 /\ k.local = sequenceIndex[q]
    BY <2>1 DEF Fresh, NumberedPkt
  <2> QED BY <1>1, <2>1, <2>2, DataQueued
<1> QED BY <1>4, <1>5

LEMMA CounterStep ==
  ASSUME IInv, Hypotheses, Next, NEW q \in Peers, Open(Other(q))
  PROVE  Counter(q)'
<1>1. Counter(q) /\ accepted[q] \in Nat /\ start' = start
  BY ReachStep DEF IInv, SendingSide, TypeOK
<1>2. /\ start[q] \in Nat /\ SendLimit[q] \in Nat /\ TopQuart \in Nat
      /\ start[q] + SendLimit[q] + 3 <= TopQuart
  BY StartBound DEF IInv, Hypotheses
<1>3. CASE /\ sequenceIndex'[q] = sequenceIndex[q] /\ accepted'[q] = accepted[q]
           /\ Unsynced(q)' <=> Unsynced(q)
           /\ state[q] = "Closed" => state'[q] = "Closed"
  BY <1>1, <1>3 DEF Counter
<1>4. ASSUME NEW op \in Sequenced, NEW remote \in Index,
             Enqueue(q, op, remote), Queues(q, op, remote)
      PROVE  Counter(q)'
  <2>1. /\ ~Unsynced(q) /\ state' = state /\ accepted'[q] <= SendLimit[q]
        /\ sequenceIndex'[q] = start[q] + accepted'[q] + 1
    BY <1>4, DataQueued
  <2>2. ~Unsynced(q)'
    BY <2>1 DEF Unsynced
  <2> QED BY <1>1, <2>1, <2>2 DEF Counter
<1>5. CASE state'[q] = "Closed" /\ accepted'[q] = accepted[q]
  BY <1>1, <1>5 DEF Counter, Unsynced
<1>6. ASSUME NEW m \in net, HandleSyn(q, m) \/ HandleSynAck(q, m),
             sequenceIndex'[q] = Succ(sequenceIndex[q]), accepted'[q] = accepted[q],
             state'[q] = "SynReceived"
      PROVE  Counter(q)'
  <2>1. state[q] \in {"Listening", "Connecting"}
    BY <1>6, SynArrives, SynAckArrives, PeersFacts
  <2>2. accepted[q] = 0 /\ sequenceIndex[q] = start[q]
    BY <2>1, NothingSent DEF IInv, Unsynced
  <2>3. start[q] \in 0..(TopQuart - 1)
    BY <1>2
  <2>4. Succ(start[q]) = start[q] + 1
    BY <2>3, StartBound DEF IInv, Hypotheses
  <2>5. ~Unsynced(q)'
    BY <1>6 DEF Unsynced
  <2> QED BY <1>1, <1>2, <1>6, <2>2, <2>4, <2>5 DEF Counter
<1> QED BY <1>3, <1>4, <1>5, <1>6, SeqNext DEF SeqStep

LEMMA NoFinStep ==
  ASSUME IInv, Hypotheses, Next, NEW q \in Peers, Open(Other(q))'
  PROVE  NoFinTo(q)'
<1> SUFFICES ASSUME NEW k \in net', k.to = q, k.op = "FIN"
             PROVE  FALSE
  BY DEF NoFinTo
<1>1. Other(q) \in Peers /\ Other(Other(q)) = q
  BY PeersFacts
<1>2. k \notin net
  BY <1>1, OpenStep DEF IInv, SendingSide, NoFinTo
<1>3. PICK p \in Peers : k = Pkt(p, "FIN", sequenceIndex[p], 0) /\ Disconnect(p)
  BY <1>2, OriginNext, OriginKinds
<1>4. p = Other(q)
  BY <1>1, <1>3, PeersFacts DEF Pkt, NumberedPkt
<1>5. /\ state[p] = "Established" /\ state'[p] = "Closing"
      /\ net' = net \cup {Pkt(p, "FIN", sequenceIndex[p], 0)}
  BY <1>3 DEF Disconnect, IInv, TypeOK
<1>6. PICK m \in net' : m.to = p /\ m.op = "SYN_ACK"
  BY <1>4, <1>5 DEF Open
<1>7. m \in net
  BY <1>5, <1>6 DEF Pkt, NumberedPkt
<1>8. m.to = Client /\ state[Client] # "Established"
  BY <1>6, <1>7, PeersFacts DEF IInv, SynAckOnTheWay, Pkt, NumberedPkt
<1> QED BY <1>5, <1>6, <1>8

\* A packet is trimmed only when the other stream has taken it in.
LEMMA CoveredReceived ==
  ASSUME IInv, Hypotheses, NEW q \in Peers, Open(Other(q)),
         NEW m \in retransmitBuffer[q], Covered(m.local, sequenceIndexAcked[q])
  PROVE  m.n <= Len(received[Other(q)])
<1>1. Numbered(q) /\ Counter(q)
  BY DEF IInv, SendingSide
<1>2. m \in Made(q)
  BY DEF Made, Kept
<1>3. /\ m.n \in 1..accepted[q] /\ m.local = start[q] + m.n
      /\ accepted[q] <= SendLimit[q] /\ accepted[q] \in Nat
  BY <1>1, <1>2 DEF Numbered, Counter, IInv, TypeOK
<1>4. /\ start[q] \in Nat /\ SendLimit[q] \in Nat /\ TopQuart \in Nat
      /\ start[q] + SendLimit[q] + 3 <= TopQuart
  BY StartBound DEF IInv, Hypotheses
<1>5. m.n \in Nat /\ ~(m.local > TopQuart)
  BY <1>3, <1>4
<1>6. m.local <= sequenceIndexAcked[q]
  BY <1>5 DEF Covered
<1>7. sequenceIndexAcked[q] <= start[q] + Len(received[Other(q)])
  BY DEF IInv, Acknowledged, Reach
<1>8. sequenceIndexAcked[q] \in Nat /\ Len(received[Other(q)]) \in Nat
  BY ReachType, PeersFacts, StreamAssumption DEF IInv, TypeOK, Index
<1> QED BY <1>3, <1>4, <1>5, <1>6, <1>7, <1>8

\* Nothing that was not received is let go of, and what is accepted is held.
HeldStep(q) ==
  /\ \A n \in Held(q) : n \in Held(q)' \/ n <= Len(received[Other(q)])
  /\ accepted'[q] # accepted[q] => accepted'[q] \in Held(q)'

LEMMA HeldEnqueue ==
  ASSUME TypeOK, NEW p \in Peers, NEW q \in Peers, NEW op, NEW remote,
         Enqueue(p, op, remote), UNCHANGED <<retransmitBuffer, retransmitPacket>>
  PROVE  HeldStep(q)
<1>1. CASE q = p
  <2>1. Elements(sendQueue'[q]) = Elements(sendQueue[q]) \cup {Fresh(q, op, remote)}
    BY <1>1, KeptEnqueue
  <2>2. Fresh(q, op, remote).n = accepted'[q]
    BY <1>1 DEF Fresh, NumberedPkt, Enqueue, TypeOK
  <2>3. Held(q)' = Held(q) \cup {accepted'[q]}
    BY <2>1, <2>2 DEF Held
  <2> QED BY <2>3 DEF HeldStep
<1>2. CASE q # p
  <2>1. sendQueue'[q] = sendQueue[q] /\ accepted'[q] = accepted[q]
    BY <1>2 DEF Enqueue, TypeOK
  <2> QED BY <2>1 DEF HeldStep, Held
<1> QED BY <1>1, <1>2

LEMMA HeldOutgoing ==
  ASSUME IInv, Hypotheses, NEW p \in Peers, NEW q \in Peers, Open(Other(q)),
         HandleOutgoing(p)
  PROVE  HeldStep(q)
<1>1. \A m \in retransmitBuffer[q] : m \in Unacked(q) \/ m.n <= Len(received[Other(q)])
  BY CoveredReceived DEF Unacked
<1>2. accepted' = accepted
  BY DEF HandleOutgoing, SendQueued, StartRetransmit, RetransmitAgain, GiveUp, AwaitRetransmit
<1>3. CASE q # p
  <2>1. sendQueue'[q] = sendQueue[q] /\ retransmitBuffer'[q] = retransmitBuffer[q]
    BY <1>3 DEF HandleOutgoing, SendQueued, StartRetransmit, RetransmitAgain, GiveUp,
         AwaitRetransmit, Trim, IInv, TypeOK
  <2> QED BY <1>2, <2>1 DEF HeldStep, Held
<1>4. CASE q = p /\ SendQueued(p)
  <2>1. PICK k \in 0..Len(sendQueue[p]) :
          LET moved == {sendQueue[p][i] : i \in 1..k}
          IN /\ retransmitBuffer' = [retransmitBuffer EXCEPT ![p] = Unacked(p) \cup moved]
             /\ sendQueue' = [sendQueue EXCEPT ![p] = SubSeq(@, k + 1, Len(@))]
    BY <1>4 DEF SendQueued
  <2>2. /\ retransmitBuffer'[p] = Unacked(p) \cup {sendQueue[p][i] : i \in 1..k}
        /\ sendQueue'[p] = SubSeq(sendQueue[p], k + 1, Len(sendQueue[p]))
    BY <2>1 DEF IInv, TypeOK
  <2>3. Elements(sendQueue'[p]) \cup {sendQueue[p][i] : i \in 1..k} = Elements(sendQueue[p])
    BY <2>2, SplitElements DEF IInv, TypeOK
  <2>4. Unacked(p) \cup Elements(sendQueue[p])
          \subseteq retransmitBuffer'[p] \cup Elements(sendQueue'[p])
    BY <2>2, <2>3
  <2> QED BY <1>1, <1>2, <1>4, <2>4 DEF HeldStep, Held
<1>5. CASE q = p /\ ~SendQueued(p)
  <2>1. Trim(q) /\ sendQueue' = sendQueue
    BY <1>5 DEF HandleOutgoing, StartRetransmit, RetransmitAgain, GiveUp, AwaitRetransmit
  <2>2. retransmitBuffer'[q] = Unacked(q)
    BY <2>1 DEF Trim, IInv, TypeOK
  <2> QED BY <1>1, <1>2, <2>1, <2>2 DEF HeldStep, Held
<1> QED BY <1>3, <1>4, <1>5

LEMMA HeldNext ==
  ASSUME IInv, Hypotheses, Next, NEW q \in Peers, Open(Other(q)), state'[q] # "Closed"
  PROVE  HeldStep(q)
<1>0. TypeOK
  BY DEF IInv
<1>1. ASSUME UNCHANGED <<sendQueue, retransmitBuffer, accepted>>
      PROVE  HeldStep(q)
  BY <1>1 DEF HeldStep, Held
<1>2. CASE Connect \/ SkipMessage \/ PumpHeartbeat \/ PumpResendSyn
  BY <1>1, <1>2 DEF Connect, SkipMessage, PumpHeartbeat, PumpResendSyn, outVars
<1>3. ASSUME NEW p \in Peers, Send(p) \/ HandleMessageReply(p)
      PROVE  HeldStep(q)
  <2>1. UNCHANGED <<retransmitBuffer, retransmitPacket>>
    BY <1>3 DEF Send, HandleMessageReply
  <2>2. \E op, remote : Enqueue(p, op, remote)
    BY <1>3 DEF Send, HandleMessageReply
  <2> QED BY <1>0, <2>1, <2>2, HeldEnqueue
<1>4. ASSUME NEW p \in Peers,
             \/ HandleMessage(p) \/ Disconnect(p) \/ PumpCloseTimeout(p) \/ PumpBegin(p)
      PROVE  HeldStep(q)
  BY <1>1, <1>4 DEF HandleMessage, Disconnect, PumpCloseTimeout, PumpBegin, outVars
<1>5. ASSUME NEW p \in Peers, PumpClosed(p)
      PROVE  HeldStep(q)
  <2>1. q # p
    BY <1>0, <1>5 DEF PumpClosed, TypeOK
  <2>2. /\ sendQueue'[q] = sendQueue[q] /\ retransmitBuffer'[q] = retransmitBuffer[q]
        /\ accepted' = accepted
    BY <1>0, <1>5, <2>1 DEF PumpClosed, TypeOK
  <2> QED BY <2>2 DEF HeldStep, Held
<1>6. ASSUME NEW p \in Peers, HandleOutgoing(p)
      PROVE  HeldStep(q)
  BY <1>6, HeldOutgoing
<1>7. ASSUME NEW p \in Peers, NEW m \in net, HandleIncomingPacket(p, m)
      PROVE  HeldStep(q)
  <2>1. CASE HandleFin(p, m) /\ state[p] # "Closing"
    <3>1. Enqueue(p, "FIN_ACK", m.local) /\ UNCHANGED <<retransmitBuffer, retransmitPacket>>
      BY <2>1 DEF HandleFin
    <3> QED BY <1>0, <3>1, HeldEnqueue
  <2>2. CASE HandleFin(p, m) /\ state[p] = "Closing"
    BY <1>1, <2>2 DEF HandleFin
  <2>3. CASE ~HandleFin(p, m)
    BY <1>1, <1>7, <2>3 DEF HandleIncomingPacket, HandleSyn, HandleSynAck, HandleAck,
         HandleHbt, HandleDat, HandleFinAck, DropOutOfSequence, outVars
  <2> QED BY <2>1, <2>2, <2>3
<1> QED BY <1>2, <1>3, <1>4, <1>5, <1>6, <1>7 DEF Next

LEMMA RetainedStep ==
  ASSUME IInv, Hypotheses, Next, NEW q \in Peers, Open(Other(q))
  PROVE  Retained(q)'
<1> SUFFICES ASSUME state'[q] # "Closed", NEW n \in 1..accepted'[q]
             PROVE  n <= Len(received'[Other(q)]) \/ n \in Held(q)'
  BY DEF Retained
<1>1. HeldStep(q)
  BY HeldNext
<1>2. state[q] # "Closed"
  BY SeqNext, DataQueued, SynArrives, SynAckArrives DEF SeqStep
<1>3. Retained(q) /\ accepted[q] \in Nat
  BY DEF IInv, SendingSide, TypeOK
<1>4. accepted'[q] = accepted[q] \/ accepted'[q] = accepted[q] + 1
  <2>1. \A op, remote : Enqueue(q, op, remote) => accepted'[q] = accepted[q] + 1
    BY DEF Enqueue, IInv, TypeOK
  <2> QED BY <2>1, KeptNext DEF KeptStep
<1>5. /\ Len(received[Other(q)]) \in Nat /\ Len(received'[Other(q)]) \in Nat
      /\ Len(received[Other(q)]) <= Len(received'[Other(q)])
  BY PeersFacts, ReachStep, ReachType DEF IInv
<1>6. CASE n \in 1..accepted[q]
  <2>1. n <= Len(received[Other(q)]) \/ n \in Held(q)
    BY <1>2, <1>3, <1>6 DEF Retained
  <2>2. n <= Len(received[Other(q)]) \/ n \in Held(q)'
    BY <1>1, <2>1 DEF HeldStep
  <2> QED BY <1>5, <1>6, <2>2
<1>7. CASE n \notin 1..accepted[q]
  <2>1. n = accepted'[q] /\ accepted'[q] # accepted[q]
    BY <1>3, <1>4, <1>7
  <2> QED BY <1>1, <2>1 DEF HeldStep
<1> QED BY <1>6, <1>7

LEMMA SendingSideStep ==
  ASSUME IInv, Hypotheses, Next
  PROVE  SendingSide'
<1> SUFFICES ASSUME NEW q \in Peers, Open(Other(q))'
             PROVE  Numbered(q)' /\ Counter(q)' /\ NoFinTo(q)' /\ Retained(q)'
  BY DEF SendingSide
<1>1. Open(Other(q))
  BY PeersFacts, OpenStep
<1> QED BY <1>1, NumberedStep, CounterStep, NoFinStep, RetainedStep

-----------------------------------------------------------------------------
(* The receiving side *)

\* What a step does to what a stream has taken in.
InStep(q) ==
  \/ /\ remoteSequenceIndex'[q] = remoteSequenceIndex[q] /\ received'[q] = received[q]
     /\ \/ receiveQueue'[q] = receiveQueue[q]
        \/ receiveQueue[q] # <<>> /\ receiveQueue'[q] = Tail(receiveQueue[q])
  \/ \E m \in net :
       /\ HandleSyn(q, m) \/ HandleSynAck(q, m)
       /\ remoteSequenceIndex'[q] = m.local /\ received' = received
       /\ receiveQueue' = receiveQueue
  \/ \E m \in net :
       /\ HandleDat(q, m)
       /\ remoteSequenceIndex'[q] = Succ(remoteSequenceIndex[q])
       /\ received'[q] = Append(received[q], m.n)
       /\ receiveQueue'[q] = Append(receiveQueue[q], m)
  \/ PumpClosed(q) /\ received' = received /\ receiveQueue'[q] = <<>>

LEMMA InNext ==
  ASSUME IInv, Hypotheses, Next, NEW q \in Peers
  PROVE  InStep(q)
<1>0. /\ remoteSequenceIndex \in [Peers -> Index] /\ received \in [Peers -> Seq(Nat)]
      /\ receiveQueue \in [Peers -> Seq(Packet)]
  BY DEF IInv, TypeOK
<1>1. CASE Connect \/ PumpHeartbeat \/ PumpResendSyn
  BY <1>1 DEF Connect, PumpHeartbeat, PumpResendSyn, indexVars, inVars, InStep
<1>2. CASE SkipMessage
  BY <1>0, <1>2, PeersFacts DEF SkipMessage, indexVars, InStep
<1>3. ASSUME NEW p \in Peers, HandleMessage(p) \/ HandleMessageReply(p)
      PROVE  InStep(q)
  <2>1. /\ remoteSequenceIndex' = remoteSequenceIndex /\ received' = received
        /\ receiveQueue' = [receiveQueue EXCEPT ![p] = Tail(@)] /\ receiveQueue[p] # <<>>
    BY <1>3 DEF HandleMessage, HandleMessageReply
  <2> QED BY <1>0, <2>1 DEF InStep
<1>4. ASSUME NEW p \in Peers,
             \/ Send(p) \/ Disconnect(p) \/ PumpCloseTimeout(p) \/ PumpBegin(p)
             \/ HandleOutgoing(p)
      PROVE  InStep(q)
  BY <1>4 DEF Send, Disconnect, PumpCloseTimeout, PumpBegin, HandleOutgoing, SendQueued,
       StartRetransmit, RetransmitAgain, GiveUp, AwaitRetransmit, indexVars, inVars, InStep
<1>5. ASSUME NEW p \in Peers, PumpClosed(p)
      PROVE  InStep(q)
  BY <1>0, <1>5 DEF PumpClosed, InStep
<1>6. ASSUME NEW p \in Peers, NEW m \in net, HandleIncomingPacket(p, m)
      PROVE  InStep(q)
  <2>1. CASE HandleSyn(p, m) \/ HandleSynAck(p, m)
    <3>1. /\ remoteSequenceIndex' = [remoteSequenceIndex EXCEPT ![p] = m.local]
          /\ received' = received /\ receiveQueue' = receiveQueue
      BY <2>1 DEF HandleSyn, HandleSynAck, inVars
    <3> QED BY <1>0, <2>1, <3>1 DEF InStep
  <2>2. CASE HandleDat(p, m)
    <3>1. /\ remoteSequenceIndex' = [remoteSequenceIndex EXCEPT ![p] = Succ(@)]
          /\ received' = [received EXCEPT ![p] = Append(@, m.n)]
          /\ receiveQueue' = [receiveQueue EXCEPT ![p] = Append(@, m)]
      BY <2>2 DEF HandleDat
    <3> QED BY <1>0, <2>2, <3>1 DEF InStep
  <2>3. CASE HandleAck(p, m) \/ HandleHbt(p, m) \/ HandleFin(p, m) \/ DropOutOfSequence(p, m)
    BY <2>3 DEF HandleAck, HandleHbt, HandleFin, DropOutOfSequence, indexVars, inVars, InStep
  <2> QED BY <1>6, <2>1, <2>2, <2>3, NoFinAckArrives DEF HandleIncomingPacket
<1> QED BY <1>1, <1>2, <1>3, <1>4, <1>5, <1>6 DEF Next

\* A stream that is closed, or has just been, is not inside Pump.
LEMMA ClosedStep ==
  ASSUME TypeOK, \A p \in Peers : state[p] = "Closed" => p \notin pumping,
         Next, NEW q \in Peers, state'[q] = "Closed"
  PROVE  q \notin pumping'
<1>0. /\ state \in [Peers -> StreamStates]
      /\ \A p \in Peers : state[p] = "Closed" => p \notin pumping
  BY DEF TypeOK
<1>1. CASE Connect \/ SkipMessage \/ PumpHeartbeat \/ PumpResendSyn
  BY <1>0, <1>1, PeersFacts
  DEF Connect, SkipMessage, PumpHeartbeat, PumpResendSyn, Pumpable, Finished
<1>2. ASSUME NEW p \in Peers,
             \/ Send(p) \/ HandleMessage(p) \/ HandleMessageReply(p) \/ Disconnect(p)
             \/ PumpClosed(p) \/ PumpCloseTimeout(p) \/ PumpBegin(p)
      PROVE  q \notin pumping'
  BY <1>0, <1>2 DEF Send, HandleMessage, HandleMessageReply, Disconnect, PumpClosed,
       PumpCloseTimeout, PumpBegin, Pumpable, Finished
<1>3. ASSUME NEW p \in Peers, HandleOutgoing(p)
      PROVE  q \notin pumping'
  BY <1>0, <1>3 DEF HandleOutgoing, SendQueued, StartRetransmit, RetransmitAgain, GiveUp,
       AwaitRetransmit, EndPump
<1>4. ASSUME NEW p \in Peers, NEW m \in net, HandleIncomingPacket(p, m)
      PROVE  q \notin pumping'
  <2>1. pumping' = pumping
    BY <1>4 DEF HandleIncomingPacket, HandleSyn, HandleSynAck, HandleAck, HandleHbt,
         HandleFin, HandleDat, HandleFinAck, DropOutOfSequence
  <2>2. state[q] = "Closed"
    BY <1>0, <1>4 DEF HandleIncomingPacket, HandleSyn, HandleSynAck, HandleAck, HandleHbt,
         HandleFin, HandleDat, HandleFinAck, DropOutOfSequence
  <2> QED BY <1>0, <2>1, <2>2
<1> QED BY <1>1, <1>2, <1>3, <1>4 DEF Next

LEMMA ExpectingStep ==
  ASSUME IInv, Hypotheses, Next
  PROVE  Expecting'
<1> SUFFICES ASSUME NEW q \in Peers
             PROVE  /\ state'[q] \in {"SynReceived", "Established"} =>
                         remoteSequenceIndex'[q] = start[Other(q)] + Len(received'[q])
                    /\ Unsynced(q)' => received'[q] = <<>>
                    /\ Len(receiveQueue'[q]) <= Len(received'[q])
                    /\ state'[q] = "Closed" => q \notin pumping'
  BY ReachStep, PeersFacts DEF Expecting
<1>0. /\ received[q] \in Seq(Nat) /\ receiveQueue[q] \in Seq(Packet)
      /\ Len(receiveQueue[q]) <= Len(received[q])
      /\ state[q] \in {"SynReceived", "Established"} =>
           remoteSequenceIndex[q] = start[Other(q)] + Len(received[q])
      /\ Unsynced(q) => received[q] = <<>>
  BY DEF IInv, TypeOK, Expecting
<1>1. StateStep(q) /\ InStep(q)
  BY StateNext, InNext
<1>2. state'[q] \in {"SynReceived", "Established"} =>
        remoteSequenceIndex'[q] = start[Other(q)] + Len(received'[q])
  <2> SUFFICES ASSUME state'[q] \in {"SynReceived", "Established"}
               PROVE  remoteSequenceIndex'[q] = start[Other(q)] + Len(received'[q])
    OBVIOUS
  <2>1. ASSUME NEW m \in net, HandleSyn(q, m) \/ HandleSynAck(q, m),
               remoteSequenceIndex'[q] = m.local, received' = received
        PROVE  remoteSequenceIndex'[q] = start[Other(q)] + Len(received'[q])
    <3>1. m.local = start[Other(q)] /\ received[q] = <<>>
      BY <1>0, <2>1, SynArrives, SynAckArrives, PeersFacts DEF Unsynced
    <3>2. start[Other(q)] \in Nat
      BY PeersFacts, ReachType DEF IInv
    <3> QED BY <2>1, <3>1, <3>2
  <2>2. ASSUME NEW m \in net, HandleDat(q, m),
               remoteSequenceIndex'[q] = Succ(remoteSequenceIndex[q]),
               received'[q] = Append(received[q], m.n)
        PROVE  remoteSequenceIndex'[q] = start[Other(q)] + Len(received'[q])
    <3>1. m.local = start[Other(q)] + Len(received[q]) + 1
          /\ Succ(remoteSequenceIndex[q]) = m.local
      BY <2>2, DatNext DEF HandleDat
    <3>2. Len(received'[q]) = Len(received[q]) + 1
      BY <1>0, <2>2
    <3>3. start[Other(q)] \in Nat /\ Len(received[q]) \in Nat
      BY PeersFacts, ReachType DEF IInv
    <3>4. remoteSequenceIndex'[q] = start[Other(q)] + Len(received[q]) + 1
      BY <2>2, <3>1
    <3> QED BY <3>2, <3>3, <3>4
  <2>3. ASSUME remoteSequenceIndex'[q] = remoteSequenceIndex[q], received'[q] = received[q]
        PROVE  \/ remoteSequenceIndex'[q] = start[Other(q)] + Len(received'[q])
               \/ \E m \in net : HandleSyn(q, m) \/ HandleSynAck(q, m)
    BY <1>0, <1>1, <2>3 DEF StateStep
  <2>4. ~PumpClosed(q)
    BY DEF PumpClosed, IInv, TypeOK
  <2>5. ASSUME NEW m \in net, HandleSyn(q, m) \/ HandleSynAck(q, m)
        PROVE  remoteSequenceIndex'[q] = m.local /\ received' = received
    BY <2>5 DEF HandleSyn, HandleSynAck, inVars, IInv, TypeOK
  <2> QED BY <1>1, <2>1, <2>2, <2>3, <2>4, <2>5 DEF InStep
<1>3. Unsynced(q)' => received'[q] = <<>>
  <2> SUFFICES ASSUME Unsynced(q)'
               PROVE  received'[q] = <<>>
    OBVIOUS
  <2>1. Unsynced(q)
    BY <1>1 DEF StateStep, Unsynced
  <2>2. \A m \in net : ~HandleDat(q, m)
    BY <2>1 DEF HandleDat, InSequence, Unsynced
  <2> QED BY <1>0, <1>1, <2>1, <2>2 DEF InStep
<1>4. Len(receiveQueue'[q]) <= Len(received'[q])
  <2>1. Len(received[q]) \in Nat /\ Len(receiveQueue[q]) \in Nat
    BY <1>0
  <2>2. CASE received'[q] = received[q] /\ receiveQueue'[q] = receiveQueue[q]
    BY <1>0, <2>2
  <2>3. CASE /\ received'[q] = received[q] /\ receiveQueue[q] # <<>>
             /\ receiveQueue'[q] = Tail(receiveQueue[q])
    <3>1. Len(receiveQueue'[q]) = Len(receiveQueue[q]) - 1
      BY <1>0, <2>3, HeadTailProperties
    <3> QED BY <1>0, <2>1, <2>3, <3>1
  <2>4. ASSUME NEW m, received'[q] = Append(received[q], m.n),
               receiveQueue'[q] = Append(receiveQueue[q], m)
        PROVE  Len(receiveQueue'[q]) <= Len(received'[q])
    <3>1. Len(received'[q]) = Len(received[q]) + 1
      BY <1>0, <2>4
    <3>2. Len(receiveQueue'[q]) = Len(receiveQueue[q]) + 1
      BY <1>0, <2>4
    <3> QED BY <1>0, <2>1, <3>1, <3>2
  <2>5. CASE received'[q] = received[q] /\ receiveQueue'[q] = <<>>
    <3>1. Len(receiveQueue'[q]) = 0
      BY <2>5
    <3> QED BY <2>1, <2>5, <3>1
  <2> QED BY <1>1, <2>2, <2>3, <2>4, <2>5 DEF InStep
<1>5. state'[q] = "Closed" => q \notin pumping'
  BY ClosedStep DEF IInv, Expecting
<1> QED BY <1>2, <1>3, <1>4, <1>5

-----------------------------------------------------------------------------
(* What is acknowledged *)

LEMMA AtMostTrans ==
  ASSUME NEW a \in Nat, NEW b \in Nat, NEW c \in Nat, a <= b, b <= c
  PROVE  a <= c
OBVIOUS

LEMMA ReachGrows ==
  ASSUME IInv, Hypotheses, Next, NEW p \in Peers, NEW i \in Nat, i <= Reach(p)
  PROVE  i <= Reach(p)'
<1>1. Reach(p) <= Reach(p)' /\ Reach(p)' \in Nat /\ Reach(p) \in Nat
  BY ReachStep, ReachType DEF IInv
<1> QED BY <1>1, AtMostTrans

LEMMA IndexNat ==
  ASSUME TypeOK
  PROVE  /\ \A p \in Peers : sequenceIndexAcked[p] \in Nat /\ remoteSequenceIndexAcked[p] \in Nat
         /\ \A m \in Packet : m.local \in Nat /\ m.remote \in Nat
<1>1. Index \subseteq Nat
  BY StreamAssumption DEF Index
<1>2. \A p \in Peers : sequenceIndexAcked[p] \in Index /\ remoteSequenceIndexAcked[p] \in Index
  BY DEF TypeOK
<1>3. \A m \in Packet : m.local \in Index /\ m.remote \in Index
  BY DEF Packet
<1> QED BY <1>1, <1>2, <1>3

\* SequenceIndexAcked follows the acknowledgements that arrive.
LEMMA AckedStep ==
  ASSUME IInv, Hypotheses, Next, NEW p \in Peers
  PROVE  sequenceIndexAcked'[p] <= Reach(p)'
<1>0. /\ sequenceIndexAcked \in [Peers -> Index] /\ sequenceIndexAcked[p] \in Nat
      /\ sequenceIndexAcked[p] <= Reach(p) /\ Reach(p)' \in Nat
      /\ \A m \in net : m.remote \in Nat
  BY IndexNat, ReachStep DEF IInv, TypeOK, Acknowledged
<1>1. CASE sequenceIndexAcked'[p] = sequenceIndexAcked[p] \/ sequenceIndexAcked'[p] = 0
  BY <1>0, <1>1, ReachGrows
<1>2. ASSUME NEW m \in net, m.remote <= Reach(p),
             sequenceIndexAcked'[p] = LaterAck(sequenceIndexAcked[p], m.remote)
      PROVE  sequenceIndexAcked'[p] <= Reach(p)'
  <2>1. sequenceIndexAcked'[p] \in {sequenceIndexAcked[p], m.remote}
    BY <1>2 DEF LaterAck
  <2> QED BY <1>0, <1>2, <2>1, ReachGrows
<1>3. ASSUME NEW q \in Peers, NEW m \in net, HandleAck(q, m) \/ HandleHbt(q, m)
      PROVE  sequenceIndexAcked'[p] <= Reach(p)'
  <2>1. sequenceIndexAcked' = [sequenceIndexAcked EXCEPT ![q] = LaterAck(@, m.remote)]
    BY <1>3 DEF HandleAck, HandleHbt
  <2>2. CASE p = q
    <3>1. m.remote <= Reach(p)
      BY <1>3, <2>2 DEF HandleAck, HandleHbt, Arrives, IInv, Acknowledged
    <3> QED BY <1>0, <1>2, <2>1, <2>2, <3>1
  <2>3. CASE p # q
    BY <1>0, <1>1, <2>1, <2>3
  <2> QED BY <2>2, <2>3
<1>4. ASSUME NEW q \in Peers, NEW m \in net, HandleDat(q, m)
      PROVE  sequenceIndexAcked'[p] <= Reach(p)'
  <2>1. sequenceIndexAcked' = [sequenceIndexAcked EXCEPT ![q] =
          IF m.op = "DAT_ACK" THEN LaterAck(@, m.remote) ELSE @]
    BY <1>4 DEF HandleDat
  <2>2. CASE p = q /\ m.op = "DAT_ACK"
    <3>1. m \in Made(Other(p))
      BY <1>4, <2>2, DatNext DEF HandleDat
    <3>2. m.remote <= Reach(p)
      BY <2>2, <3>1 DEF IInv, Acknowledged
    <3> QED BY <1>0, <1>2, <2>1, <2>2, <3>2
  <2>3. CASE ~(p = q /\ m.op = "DAT_ACK")
    BY <1>0, <1>1, <2>1, <2>3
  <2> QED BY <2>2, <2>3
<1>5. ASSUME NEW q \in Peers, PumpClosed(q)
      PROVE  sequenceIndexAcked'[p] <= Reach(p)'
  BY <1>0, <1>1, <1>5 DEF PumpClosed
<1>6. CASE Connect \/ SkipMessage \/ PumpHeartbeat \/ PumpResendSyn
  BY <1>1, <1>6 DEF Connect, SkipMessage, PumpHeartbeat, PumpResendSyn, indexVars
<1>7. ASSUME NEW q \in Peers,
             \/ Send(q) \/ HandleMessage(q) \/ HandleMessageReply(q) \/ Disconnect(q)
             \/ PumpCloseTimeout(q) \/ PumpBegin(q) \/ HandleOutgoing(q)
      PROVE  sequenceIndexAcked'[p] <= Reach(p)'
  BY <1>1, <1>7 DEF Send, HandleMessage, HandleMessageReply, Disconnect, PumpCloseTimeout,
       PumpBegin, HandleOutgoing, SendQueued, StartRetransmit, RetransmitAgain, GiveUp,
       AwaitRetransmit, indexVars
<1>8. ASSUME NEW q \in Peers, NEW m \in net,
             \/ HandleSyn(q, m) \/ HandleSynAck(q, m) \/ HandleFin(q, m)
             \/ HandleFinAck(q, m) \/ DropOutOfSequence(q, m)
      PROVE  sequenceIndexAcked'[p] <= Reach(p)'
  BY <1>1, <1>8 DEF HandleSyn, HandleSynAck, HandleFin, HandleFinAck, DropOutOfSequence,
       indexVars
<1> QED BY <1>3, <1>4, <1>5, <1>6, <1>7, <1>8 DEF Next, HandleIncomingPacket

\* RemoteSequenceIndexAcked is an index that was received.
LEMMA RemoteAckedStep ==
  ASSUME IInv, Hypotheses, Next, NEW p \in Peers
  PROVE  remoteSequenceIndexAcked'[p] <= Reach(Other(p))'
<1>0. /\ remoteSequenceIndexAcked \in [Peers -> Index] /\ remoteSequenceIndexAcked[p] \in Nat
      /\ remoteSequenceIndexAcked[p] <= Reach(Other(p)) /\ Reach(Other(p))' \in Nat
      /\ Other(p) \in Peers /\ Other(Other(p)) = p
  BY IndexNat, ReachStep, PeersFacts DEF IInv, TypeOK, Acknowledged
<1>1. CASE remoteSequenceIndexAcked'[p] = remoteSequenceIndexAcked[p]
        \/ remoteSequenceIndexAcked'[p] = 0
  BY <1>0, <1>1, ReachGrows
<1>2. ASSUME NEW q \in Peers, HandleMessage(q) \/ HandleMessageReply(q)
      PROVE  remoteSequenceIndexAcked'[p] <= Reach(Other(p))'
  <2>1. /\ remoteSequenceIndexAcked' =
             [remoteSequenceIndexAcked EXCEPT ![q] = Head(receiveQueue[q]).local]
        /\ receiveQueue[q] # <<>>
    BY <1>2 DEF HandleMessage, HandleMessageReply
  <2>2. CASE q = p
    <3>1. receiveQueue[p] # <<>>
      BY <2>1, <2>2
    <3>2. Head(receiveQueue[p]).local \in Nat
      BY <3>1, ReceiveQueueType, StreamAssumption DEF IInv, Index
    <3>3. Head(receiveQueue[p]).local <= Reach(Other(p))
      BY <3>1, HeadAcknowledged DEF IInv
    <3>4. remoteSequenceIndexAcked'[p] = Head(receiveQueue[p]).local
      BY <1>0, <2>1, <2>2
    <3> QED BY <1>0, <3>2, <3>3, <3>4, ReachGrows
  <2>3. CASE q # p
    BY <1>0, <1>1, <2>1, <2>3
  <2> QED BY <2>2, <2>3
<1>3. ASSUME NEW q \in Peers, NEW m \in net, HandleSyn(q, m) \/ HandleSynAck(q, m)
      PROVE  remoteSequenceIndexAcked'[p] <= Reach(Other(p))'
  <2>1. remoteSequenceIndexAcked' = [remoteSequenceIndexAcked EXCEPT ![q] = m.local]
    BY <1>3 DEF HandleSyn, HandleSynAck
  <2>2. CASE q = p
    <3>1. m.local = start[Other(p)]
      BY <1>3, <2>2, SynArrives, SynAckArrives, PeersFacts
    <3>2. start[Other(p)] \in Nat /\ Len(received[p]) \in Nat
      BY <1>0, ReachType DEF IInv
    <3>3. start[Other(p)] <= Reach(Other(p))
      BY <1>0, <3>2 DEF Reach
    <3> QED BY <1>0, <2>1, <2>2, <3>1, <3>2, <3>3, ReachGrows
  <2>3. CASE q # p
    BY <1>0, <1>1, <2>1, <2>3
  <2> QED BY <2>2, <2>3
<1>4. ASSUME NEW q \in Peers, NEW m \in net, HandleDat(q, m)
      PROVE  remoteSequenceIndexAcked'[p] <= Reach(Other(p))'
  <2>1. remoteSequenceIndexAcked' = [remoteSequenceIndexAcked EXCEPT ![q] = m.local]
    BY <1>4 DEF HandleDat
  <2>2. CASE q = p
    <3>1. remoteSequenceIndexAcked'[p] = Reach(Other(p))'
      BY <1>0, <1>4, <2>1, <2>2, ReachStep
    <3> QED BY <1>0, <3>1
  <2>3. CASE q # p
    BY <1>0, <1>1, <2>1, <2>3
  <2> QED BY <2>2, <2>3
<1>5. ASSUME NEW q \in Peers, PumpClosed(q)
      PROVE  remoteSequenceIndexAcked'[p] <= Reach(Other(p))'
  BY <1>0, <1>1, <1>5 DEF PumpClosed
<1>6. CASE Connect \/ SkipMessage \/ PumpHeartbeat \/ PumpResendSyn
  BY <1>1, <1>6 DEF Connect, SkipMessage, PumpHeartbeat, PumpResendSyn, indexVars
<1>7. ASSUME NEW q \in Peers,
             \/ Send(q) \/ Disconnect(q) \/ PumpCloseTimeout(q) \/ PumpBegin(q)
             \/ HandleOutgoing(q)
      PROVE  remoteSequenceIndexAcked'[p] <= Reach(Other(p))'
  BY <1>1, <1>7 DEF Send, Disconnect, PumpCloseTimeout, PumpBegin, HandleOutgoing, SendQueued,
       StartRetransmit, RetransmitAgain, GiveUp, AwaitRetransmit, indexVars
<1>8. ASSUME NEW q \in Peers, NEW m \in net,
             \/ HandleAck(q, m) \/ HandleHbt(q, m) \/ HandleFin(q, m)
             \/ HandleFinAck(q, m) \/ DropOutOfSequence(q, m)
      PROVE  remoteSequenceIndexAcked'[p] <= Reach(Other(p))'
  BY <1>1, <1>8 DEF HandleAck, HandleHbt, HandleFin, HandleFinAck, DropOutOfSequence,
       indexVars
<1> QED
  BY <1>2, <1>3, <1>4, <1>5, <1>6, <1>7, <1>8 DEF Next, HandleIncomingPacket

\* What is waiting for its owner was received.
LEMMA QueuedStep ==
  ASSUME IInv, Hypotheses, Next, NEW q \in Peers, NEW m \in Elements(receiveQueue'[q])
  PROVE  m.local <= Reach(Other(q))'
<1>0. receiveQueue[q] \in Seq(Packet) /\ Other(q) \in Peers /\ Other(Other(q)) = q
  BY PeersFacts DEF IInv, TypeOK
<1>1. CASE m \in Elements(receiveQueue[q])
  <2>1. m.local <= Reach(Other(q))
    BY <1>0, <1>1 DEF IInv, Acknowledged
  <2>2. m \in Packet
    BY <1>0, <1>1 DEF Elements
  <2> QED BY <1>0, <2>1, <2>2, IndexNat, ReachGrows DEF IInv
<1>2. CASE m \notin Elements(receiveQueue[q])
  <2>1. PICK k \in net : HandleDat(q, k) /\ receiveQueue'[q] = Append(receiveQueue[q], k)
    BY <1>0, <1>2, InNext, TailElements, EmptyElements DEF InStep
  <2>2. m = k
    BY <1>0, <1>2, <2>1, AppendElements
  <2>3. m.local = Reach(Other(q))' /\ Reach(Other(q))' \in Nat
    BY <1>0, <2>1, <2>2, ReachStep
  <2> QED BY <2>3
<1> QED BY <1>1, <1>2

LEMMA AcknowledgedStep ==
  ASSUME IInv, Hypotheses, Next
  PROVE  Acknowledged'
<1> SUFFICES ASSUME NEW p \in Peers
             PROVE  /\ sequenceIndexAcked'[p] <= Reach(p)'
                    /\ remoteSequenceIndexAcked'[Other(p)] <= Reach(p)'
                    /\ \A m \in net' : m.to = p /\ m.op \in {"ACK", "HBT"} => m.remote <= Reach(p)'
                    /\ \A m \in Made(Other(p))' : m.op = "DAT_ACK" => m.remote <= Reach(p)'
                    /\ \A m \in Elements(receiveQueue'[Other(p)]) : m.local <= Reach(p)'
  BY DEF Acknowledged
<1>0. Other(p) \in Peers /\ Other(Other(p)) = p
  BY PeersFacts
<1>1. sequenceIndexAcked'[p] <= Reach(p)'
  BY AckedStep
<1>2. remoteSequenceIndexAcked'[Other(p)] <= Reach(p)'
  BY <1>0, RemoteAckedStep
<1>3. ASSUME NEW m \in net', m.to = p, m.op \in {"ACK", "HBT"}
      PROVE  m.remote <= Reach(p)'
  <2>1. CASE m \in net
    <3>1. m.remote <= Reach(p) /\ m.remote \in Nat
      BY <1>3, <2>1, IndexNat DEF IInv, Acknowledged, TypeOK
    <3> QED BY <3>1, ReachGrows
  <2>2. CASE m \notin net
    BY <1>3, <2>2, OriginNext, OriginKinds DEF GoodAck
  <2> QED BY <2>1, <2>2
<1>4. ASSUME NEW m \in Made(Other(p))', m.op = "DAT_ACK"
      PROVE  m.remote <= Reach(p)'
  <2>1. CASE m \in Made(Other(p))
    <3>1. m.remote <= Reach(p) /\ m.remote \in Nat
      BY <1>0, <1>4, <2>1, IndexNat, MadeType DEF IInv, Acknowledged
    <3> QED BY <3>1, ReachGrows
  <2>2. CASE m \notin Made(Other(p))
    <3>1. PICK op \in Sequenced, remote \in Index :
            Queues(Other(p), op, remote) /\ m = Fresh(Other(p), op, remote)
      BY <1>0, <2>2, MadeStep
    <3>2. m.op = op /\ m.remote = remote
      BY <3>1 DEF Fresh, NumberedPkt
    <3>3. remote <= Reach(p) /\ remote \in Nat
      BY <1>0, <1>4, <3>1, <3>2, StreamAssumption DEF Queues, Index
    <3> QED BY <3>2, <3>3, ReachGrows
  <2> QED BY <2>1, <2>2
<1>5. \A m \in Elements(receiveQueue'[Other(p)]) : m.local <= Reach(p)'
  BY <1>0, QueuedStep
<1> QED BY <1>1, <1>2, <1>3, <1>4, <1>5

-----------------------------------------------------------------------------
(* The handshake *)

\* While the server has seen nothing, nobody sends anything but the client's SYN.
LEMMA EarlyStep ==
  ASSUME IInv, Hypotheses, Next, state[Server] = "Listening", state'[Server] = "Listening",
         NEW k \in net' \ net
  PROVE  Connect
<1>1. /\ Unsynced(Client) /\ Unsynced(Server)
      /\ \A m \in net : m.op = "SYN"
  BY DEF IInv, Silent, Unsynced
<1>2. \A p \in Peers : Unsynced(p) /\ Open(p) /\ Open(Other(p))
  BY <1>1, PeersFacts DEF Open, Unsynced
<1>3. \A p \in Peers :
        /\ receiveQueue[p] = <<>> /\ Len(sendQueue[p]) = 0
        /\ retransmitBuffer[p] = {} /\ retransmitPacket[p] = {}
        /\ Kept(p) = {}
  BY <1>2, NothingReceived, NothingSent DEF IInv, Made
<1>4. CASE PumpHeartbeat \/ PumpResendSyn \/ SkipMessage
  <2>1. state[Client] # "Established" /\ ~PumpResendSyn
    BY <1>1 DEF Unsynced, PumpResendSyn, Hypotheses, HandshakeOnce, IInv, TypeOK
  <2> QED BY <1>4, <2>1 DEF PumpHeartbeat, SkipMessage
<1>5. ASSUME NEW p \in Peers,
             \/ Send(p) \/ HandleMessage(p) \/ HandleMessageReply(p) \/ Disconnect(p)
             \/ PumpClosed(p) \/ PumpCloseTimeout(p) \/ PumpBegin(p)
      PROVE  FALSE
  <2>1. receiveQueue[p] = <<>> /\ state[p] # "Established"
    BY <1>2, <1>3 DEF Unsynced
  <2> QED BY <1>5, <2>1 DEF Send, HandleMessage, HandleMessageReply, Disconnect, PumpClosed,
          PumpCloseTimeout, PumpBegin
<1>6. ASSUME NEW p \in Peers, HandleOutgoing(p)
      PROVE  FALSE
  <2>1. CASE SendQueued(p)
    <3>1. PICK j \in 0..Len(sendQueue[p]) : net' = net \cup {sendQueue[p][i] : i \in 1..j}
      BY <2>1 DEF SendQueued
    <3>2. j = 0
      BY <1>3, <3>1
    <3>3. 1..j = {}
      BY <3>2
    <3> QED BY <3>1, <3>3
  <2>2. CASE StartRetransmit(p)
    BY <1>3, <2>2 DEF StartRetransmit, Unacked
  <2>3. CASE RetransmitAgain(p) \/ GiveUp(p) \/ AwaitRetransmit(p)
    BY <1>3, <2>3 DEF RetransmitAgain, GiveUp, AwaitRetransmit
  <2> QED BY <1>6, <2>1, <2>2, <2>3 DEF HandleOutgoing
<1>7. ASSUME NEW p \in Peers, NEW m \in net, HandleIncomingPacket(p, m)
      PROVE  FALSE
  <2>1. HandleSyn(p, m)
    BY <1>1, <1>7 DEF HandleIncomingPacket, HandleSynAck, HandleAck, HandleHbt, HandleFin,
         HandleDat, HandleFinAck, DropOutOfSequence, InSequence, Sequenced
  <2>2. state' = [state EXCEPT ![Server] = "SynReceived"]
    BY <2>1, SynArrives DEF HandleSyn
  <2> QED BY <2>2, PeersFacts DEF IInv, TypeOK
<1> QED BY <1>4, <1>5, <1>6, <1>7 DEF Next

LEMMA SilentStep ==
  ASSUME IInv, Hypotheses, Next
  PROVE  Silent'
<1>0. /\ StateStep(Client) /\ StateStep(Server) /\ Client # Server
      /\ state \in [Peers -> StreamStates]
  BY StateNext, PeersFacts DEF IInv, TypeOK
<1>1. /\ state[Server] # "Connecting"
      /\ state[Client] = "Listening" => net = {} /\ state[Server] = "Listening"
      /\ state[Server] = "Listening" => Unsynced(Client) /\ \A m \in net : m.op = "SYN"
  BY DEF IInv, Silent
<1>2. state'[Server] # "Connecting"
  BY <1>0, <1>1 DEF StateStep
<1>3. state'[Server] = "Listening" => state[Server] = "Listening"
  BY <1>0 DEF StateStep
<1>4. ASSUME state'[Server] = "Listening"
      PROVE  Unsynced(Client)' /\ \A m \in net' : m.op = "SYN"
  <2>1. \A m \in net : ~HandleSynAck(Client, m) /\ ~HandleFin(Client, m) /\ ~HandleSyn(Client, m)
    BY <1>0, <1>1, <1>3, <1>4, PeersFacts, SynArrives DEF HandleSynAck, HandleFin
  <2>2. Unsynced(Client)'
    BY <1>0, <1>1, <1>3, <1>4, <2>1 DEF StateStep, Unsynced
  <2>3. ASSUME NEW m \in net', m \notin net
        PROVE  m.op = "SYN"
    <3>1. Connect
      BY <1>3, <1>4, <2>3, EarlyStep
    <3>2. m = Pkt(Client, "SYN", sequenceIndex[Client], 0)
      BY <2>3, <3>1 DEF Connect
    <3> QED BY <3>2 DEF Pkt, NumberedPkt
  <2> QED BY <1>1, <1>3, <1>4, <2>2, <2>3
<1>5. ASSUME state'[Client] = "Listening"
      PROVE  net' = {} /\ state'[Server] = "Listening"
  <2>1. state[Client] = "Listening" /\ ~Connect
    BY <1>0, <1>5, PeersFacts DEF StateStep, Connect
  <2>2. state'[Server] = "Listening"
    BY <1>0, <1>1, <2>1 DEF StateStep
  <2> QED BY <1>1, <2>1, <2>2, EarlyStep
<1> QED BY <1>2, <1>4, <1>5 DEF Silent

LEMMA SynOnTheWayStep ==
  ASSUME IInv, Hypotheses, Next
  PROVE  SynOnTheWay'
<1>0. start' = start /\ state \in [Peers -> StreamStates] /\ Client # Server
  BY ReceivedStep, PeersFacts DEF IInv, TypeOK
<1> SUFFICES ASSUME NEW m \in net', m.op = "SYN"
             PROVE  m = Pkt(Client, "SYN", start[Client], 0) /\ state'[Server] = "Listening"
  BY <1>0 DEF SynOnTheWay
<1>1. CASE m \in net
  <2>1. m = Pkt(Client, "SYN", start[Client], 0) /\ state[Server] = "Listening"
    BY <1>1 DEF IInv, SynOnTheWay
  <2>2. ASSUME NEW k \in net, HandleSyn(Server, k)
        PROVE  FALSE
    <3>1. k = m /\ k.op = "SYN"
      BY <2>1, <2>2 DEF HandleSyn, IInv, SynOnTheWay
    <3>2. net' = (net \ {m}) \cup {Pkt(Server, "SYN_ACK", sequenceIndex[Server], k.local),
                                   Ack(Server, k.local)}
      BY <2>2, <3>1 DEF HandleSyn, Taken, Hypotheses, HandshakeOnce
    <3> QED BY <3>2 DEF Ack, Pkt, NumberedPkt
  <2>3. \A k \in net : ~HandleSynAck(Server, k) /\ ~HandleFin(Server, k)
    BY <1>0, <2>1, SynAckArrives, PeersFacts DEF HandleFin, IInv, Silent
  <2>4. StateStep(Server)
    BY StateNext, PeersFacts
  <2> QED BY <1>0, <2>1, <2>2, <2>3, <2>4 DEF StateStep
<1>2. CASE m \notin net
  <2>1. Connect /\ m = Pkt(Client, "SYN", sequenceIndex[Client], 0)
    BY <1>2, OriginNext, OriginKinds
  <2>2. state[Client] = "Listening" /\ state[Server] = "Listening"
    BY <2>1 DEF Connect, IInv, Silent
  <2>3. Unsynced(Client) /\ Open(Other(Client))
    BY <2>2, PeersFacts DEF Unsynced, Open
  <2>4. sequenceIndex[Client] = start[Client]
    BY <2>3, NothingSent, PeersFacts DEF IInv
  <2>5. state'[Server] = state[Server]
    BY <1>0, <2>1, PeersFacts DEF Connect
  <2> QED BY <2>1, <2>2, <2>4, <2>5
<1> QED BY <1>1, <1>2

LEMMA SynAckOnTheWayStep ==
  ASSUME IInv, Hypotheses, Next
  PROVE  SynAckOnTheWay'
<1>0. /\ start' = start /\ state \in [Peers -> StreamStates]
      /\ Client \in Peers /\ Server \in Peers /\ Client # Server
  BY ReceivedStep, PeersFacts DEF IInv, TypeOK
<1> SUFFICES ASSUME NEW m \in net', m.op = "SYN_ACK"
             PROVE  /\ m = Pkt(Server, "SYN_ACK", start[Server], start[Client])
                    /\ received'[Client] = <<>>
                    /\ \/ state'[Client] = "Connecting"
                       \/ state'[Client] \in {"Closing", "Closed"} /\ ~Open(Server)'
  BY <1>0 DEF SynAckOnTheWay
<1>1. CASE m \in net
  <2>1. /\ m = Pkt(Server, "SYN_ACK", start[Server], start[Client])
        /\ received[Client] = <<>>
        /\ \/ state[Client] = "Connecting"
           \/ state[Client] \in {"Closing", "Closed"} /\ ~Open(Server)
    BY <1>1 DEF IInv, SynAckOnTheWay
  <2>2. received'[Client] = <<>>
    <3>1. \A k \in net : ~HandleDat(Client, k)
      BY <2>1 DEF HandleDat, InSequence
    <3> QED BY <1>0, <2>1, <3>1, InNext DEF InStep
  <2>3. ASSUME NEW k \in net, HandleSynAck(Client, k)
        PROVE  FALSE
    <3>1. k = m /\ k.op = "SYN_ACK"
      BY <2>1, <2>3 DEF HandleSynAck, IInv, SynAckOnTheWay
    <3>2. net' = (net \ {m}) \cup {Ack(Client, k.local)}
      BY <2>3, <3>1 DEF HandleSynAck, Taken, Hypotheses, HandshakeOnce
    <3> QED BY <3>2 DEF Ack, Pkt, NumberedPkt
  <2>4. ~Open(Server) => ~Open(Server)'
    BY <1>0, OpenStep
  <2>5. ASSUME NEW k \in net, HandleFin(Client, k)
        PROVE  ~Open(Server)
    <3>1. ~NoFinTo(Client)
      BY <2>5 DEF HandleFin, Arrives, NoFinTo
    <3> QED BY <1>0, <3>1, PeersFacts DEF IInv, SendingSide
  <2>6. \A k \in net : ~HandleSyn(Client, k)
    BY <1>0, SynArrives
  <2>7. StateStep(Client)
    BY <1>0, StateNext
  <2>8. \/ state'[Client] = "Connecting"
        \/ state'[Client] \in {"Closing", "Closed"} /\ ~Open(Server)'
    BY <2>1, <2>3, <2>4, <2>5, <2>6, <2>7 DEF StateStep
  <2> QED BY <2>1, <2>2, <2>8
<1>2. CASE m \notin net
  <2>1. PICK p \in Peers, k \in net :
          m = Pkt(p, "SYN_ACK", sequenceIndex[p], k.local) /\ HandleSyn(p, k)
    BY <1>2, OriginNext, OriginKinds
  <2>2. p = Server /\ state[Server] = "Listening" /\ k.local = start[Client]
    BY <2>1, SynArrives
  <2>3. Unsynced(Client) /\ state[Client] # "Listening"
    BY <2>1, <2>2 DEF IInv, Silent
  <2>4. sequenceIndex[Server] = start[Server]
    <3>1. Unsynced(Server) /\ Open(Other(Server))
      BY <2>2, <2>3, PeersFacts DEF Unsynced, Open
    <3> QED BY <1>0, <3>1, NothingSent DEF IInv
  <2>5. received[Client] = <<>>
    BY <1>0, <2>3 DEF IInv, Expecting
  <2>6. received' = received /\ state' = [state EXCEPT ![Server] = "SynReceived"]
    BY <2>1, <2>2 DEF HandleSyn, inVars
  <2>7. state'[Client] = "Connecting"
    BY <1>0, <2>3, <2>6 DEF Unsynced
  <2> QED BY <2>1, <2>2, <2>4, <2>5, <2>6, <2>7
<1> QED BY <1>1, <1>2

-----------------------------------------------------------------------------
(* The invariant, and what follows from it *)

\* A step accepts one packet, or takes one in, or does neither.
LEMMA ChannelStep ==
  ASSUME IInv, Next
  PROVE  \/ accepted' = accepted /\ received' = received
         \/ \E p \in Peers :
              accepted' = [accepted EXCEPT ![p] = @ + 1] /\ received' = received
         \/ \E p \in Peers, m \in net : HandleDat(p, m) /\ accepted' = accepted
<1>1. CASE Connect \/ SkipMessage \/ PumpHeartbeat \/ PumpResendSyn
  BY <1>1 DEF Connect, SkipMessage, PumpHeartbeat, PumpResendSyn, inVars
<1>2. ASSUME NEW p \in Peers, Send(p) \/ HandleMessageReply(p)
      PROVE  accepted' = [accepted EXCEPT ![p] = @ + 1] /\ received' = received
  BY <1>2 DEF Send, HandleMessageReply, Enqueue, inVars
<1>3. ASSUME NEW p \in Peers,
             \/ HandleMessage(p) \/ Disconnect(p) \/ PumpClosed(p) \/ PumpCloseTimeout(p)
             \/ PumpBegin(p) \/ HandleOutgoing(p)
      PROVE  accepted' = accepted /\ received' = received
  BY <1>3 DEF HandleMessage, Disconnect, PumpClosed, PumpCloseTimeout, PumpBegin,
       HandleOutgoing, SendQueued, StartRetransmit, RetransmitAgain, GiveUp,
       AwaitRetransmit, inVars
<1>4. ASSUME NEW p \in Peers, NEW m \in net, HandleFin(p, m)
      PROVE  /\ received' = received
             /\ \/ accepted' = accepted
                \/ accepted' = [accepted EXCEPT ![p] = @ + 1]
  BY <1>4 DEF HandleFin, Enqueue, inVars
<1>5. ASSUME NEW p \in Peers, NEW m \in net, HandleDat(p, m)
      PROVE  accepted' = accepted
  BY <1>5 DEF HandleDat
<1>6. ASSUME NEW p \in Peers, NEW m \in net, HandleIncomingPacket(p, m),
             ~HandleFin(p, m), ~HandleDat(p, m)
      PROVE  accepted' = accepted /\ received' = received
  BY <1>6 DEF HandleIncomingPacket, HandleSyn, HandleSynAck, HandleAck, HandleHbt,
       HandleFinAck, DropOutOfSequence, inVars
<1> QED BY <1>1, <1>2, <1>3, <1>4, <1>5, <1>6 DEF Next

LEMMA InOrderStep ==
  ASSUME IInv, Hypotheses, Next
  PROVE  InOrder'
<1> SUFFICES ASSUME NEW q \in Peers
             PROVE  /\ Len(received'[q]) <= accepted'[Other(q)]
                    /\ \A i \in 1..Len(received'[q]) : received'[q][i] = i
  <2>1. \A p \in Peers : Other(p) \in Peers /\ Other(Other(p)) = p
    BY PeersFacts
  <2> QED BY <2>1 DEF InOrder
<1>0. /\ received \in [Peers -> Seq(Nat)] /\ accepted \in [Peers -> Nat]
      /\ Other(q) \in Peers /\ Other(Other(q)) = q
  BY PeersFacts DEF IInv, TypeOK
<1>1. /\ Len(received[q]) <= accepted[Other(q)] /\ Len(received[q]) \in Nat
      /\ \A i \in 1..Len(received[q]) : received[q][i] = i
  BY <1>0 DEF IInv, InOrder
<1>2. CASE accepted' = accepted /\ received' = received
  BY <1>1, <1>2
<1>3. ASSUME NEW p \in Peers, accepted' = [accepted EXCEPT ![p] = @ + 1], received' = received
      PROVE  /\ Len(received'[q]) <= accepted'[Other(q)]
             /\ \A i \in 1..Len(received'[q]) : received'[q][i] = i
  <2>1. accepted'[Other(q)] \in {accepted[Other(q)], accepted[Other(q)] + 1}
        /\ accepted[Other(q)] \in Nat
    BY <1>0, <1>3
  <2> QED BY <1>1, <1>3, <2>1
<1>4. ASSUME NEW p \in Peers, NEW m \in net, HandleDat(p, m), accepted' = accepted
      PROVE  /\ Len(received'[q]) <= accepted'[Other(q)]
             /\ \A i \in 1..Len(received'[q]) : received'[q][i] = i
  <2>1. received' = [received EXCEPT ![p] = Append(@, m.n)] /\ InSequence(p, m)
    BY <1>4 DEF HandleDat
  <2>2. CASE p = q
    <3>1. m.n = Len(received[q]) + 1 /\ m.n <= accepted[Other(q)]
      BY <2>1, <2>2, DatNext
    <3>2. received'[q] = Append(received[q], m.n)
      BY <1>0, <2>1, <2>2
    <3>3. /\ Len(received'[q]) = Len(received[q]) + 1
          /\ \A i \in 1..Len(received[q]) : received'[q][i] = received[q][i]
          /\ received'[q][Len(received[q]) + 1] = m.n
      BY <1>0, <3>2
    <3>4. \A i \in 1..(Len(received[q]) + 1) :
            i \in 1..Len(received[q]) \/ i = Len(received[q]) + 1
      BY <1>1
    <3> QED BY <1>1, <1>4, <3>1, <3>3, <3>4
  <2>3. CASE p # q
    BY <1>0, <1>1, <1>4, <2>1, <2>3
  <2> QED BY <2>2, <2>3
<1> QED BY <1>2, <1>3, <1>4, ChannelStep

LEMMA InitIInv ==
  ASSUME Hypotheses, Init
  PROVE  IInv
<1>1. TypeOK
  BY InitType
<1>2. StartsLow
  BY DEF Init, StartsLow
<1>3. \A p \in Peers :
        /\ Made(p) = {} /\ state[p] = "Listening" /\ accepted[p] = 0
        /\ received[p] = <<>> /\ received[Other(p)] = <<>> /\ receiveQueue[p] = <<>>
        /\ sequenceIndex[p] = start[p] /\ start[p] \in Nat /\ SendLimit[p] \in Nat
        /\ sequenceIndexAcked[p] = 0 /\ remoteSequenceIndexAcked[p] = 0 /\ Reach(p) \in Nat
  <2>1. TAKE p \in Peers
  <2>2. Other(p) \in Peers
    BY PeersFacts
  <2>3. Made(p) = {}
    BY EmptyElements DEF Init, Made, Kept
  <2>4. start[p] \in Nat /\ SendLimit[p] \in Nat /\ Reach(p) \in Nat
    BY <1>1, <1>2, StartBound, ReachType DEF Hypotheses
  <2> QED BY <2>2, <2>3, <2>4 DEF Init
<1>4. net = {} /\ pumping = {}
  BY DEF Init
<1>5. SequencedOnly
  BY <1>3 DEF SequencedOnly
<1>6. Silent /\ SynOnTheWay /\ SynAckOnTheWay
  BY <1>3, <1>4, PeersFacts DEF Silent, SynOnTheWay, SynAckOnTheWay, Unsynced
<1>7. Expecting
  BY <1>3, <1>4 DEF Expecting
<1>8. Acknowledged
  <2>1. \A p \in Peers : Other(p) \in Peers /\ Elements(receiveQueue[p]) = {}
    BY <1>3, PeersFacts, EmptyElements
  <2>2. \A p \in Peers : 0 <= Reach(p)
    BY <1>3
  <2> QED BY <1>3, <1>4, <2>1, <2>2 DEF Acknowledged
<1>9. SendingSide
  <2> SUFFICES ASSUME NEW p \in Peers
               PROVE  Numbered(p) /\ Counter(p) /\ NoFinTo(p) /\ Retained(p)
    BY DEF SendingSide
  <2>1. Numbered(p) /\ NoFinTo(p)
    BY <1>3, <1>4 DEF Numbered, NoFinTo
  <2>2. Counter(p)
    BY <1>3 DEF Counter, Unsynced
  <2>3. Retained(p)
    BY <1>3 DEF Retained
  <2> QED BY <2>1, <2>2, <2>3
<1>10. InOrder
  BY <1>3, PeersFacts DEF InOrder
<1> QED BY <1>1, <1>2, <1>5, <1>6, <1>7, <1>8, <1>9, <1>10 DEF IInv

LEMMA StutterIInv ==
  ASSUME IInv, UNCHANGED vars
  PROVE  IInv'
BY DEF vars, indexVars, outVars, inVars, flagVars, IInv, TypeOK, StartsLow, SequencedOnly,
     Made, Kept, Silent, Unsynced, SynOnTheWay, SynAckOnTheWay, Open, Expecting,
     Acknowledged, Reach, SendingSide, Numbered, Counter, NoFinTo, Retained, Held, InOrder

LEMMA StepIInv ==
  ASSUME IInv, Hypotheses, [Next]_vars
  PROVE  IInv'
<1>1. CASE Next
  <2>1. TypeOK'
    BY StepType DEF IInv
  <2>2. StartsLow'
    BY <1>1, ReceivedStep DEF IInv, StartsLow
  <2>3. SequencedOnly' /\ Silent' /\ SynOnTheWay' /\ SynAckOnTheWay'
    BY <1>1, SequencedOnlyStep, SilentStep, SynOnTheWayStep, SynAckOnTheWayStep
  <2>4. Expecting' /\ Acknowledged' /\ SendingSide' /\ InOrder'
    BY <1>1, ExpectingStep, AcknowledgedStep, SendingSideStep, InOrderStep
  <2> QED BY <2>1, <2>2, <2>3, <2>4 DEF IInv
<1>2. CASE UNCHANGED vars
  BY <1>2, StutterIInv
<1> QED BY <1>1, <1>2

\* The inductive invariant: the indices of the two streams agree with what has been
\* accepted and received, whatever UDP loses, delays, reorders or repeats.
THEOREM Invariant ==
  ASSUME Hypotheses
  PROVE  Spec => []IInv
<1>1. Init => IInv
  BY InitIInv
<1>2. IInv /\ [Next]_vars => IInv'
  BY StepIInv
<1> QED BY <1>1, <1>2, PTL DEF Spec

\* What one stream puts on ReceiveQueue is what the other was given to send, in that
\* order, each message once.
THEOREM DeliveredInOrder ==
  ASSUME Hypotheses
  PROVE  Spec => []InOrder
<1>1. IInv => InOrder
  BY DEF IInv
<1> QED BY <1>1, Invariant, PTL

\* RetransmitBuffer and SendQueue together keep every message until the other stream
\* has taken it in: HandleOutgoing never trims one that was not.
THEOREM NothingLost ==
  ASSUME Hypotheses
  PROVE  Spec => []NoLoss
<1>1. IInv => NoLoss
  BY DEF IInv, SendingSide, NoLoss, Open, Retained
<1> QED BY <1>1, Invariant, PTL

\* The two streams implement a FIFO channel each way: every step of theirs accepts
\* the next message, or delivers the next one, or changes nothing a user can see.
THEOREM ChannelImplemented ==
  ASSUME Hypotheses
  PROVE  Spec => ImplementsChannel
<1> DEFINE delivered == [p \in Peers |-> received[Other(p)]]
<1>1. Init => Channel!Init
  BY PeersFacts DEF Init, Channel!Init
<1>2. IInv /\ [Next]_vars => [Channel!Next]_<<accepted, delivered>>
  <2> SUFFICES ASSUME IInv, [Next]_vars
               PROVE  [Channel!Next]_<<accepted, delivered>>
    OBVIOUS
  <2>0. \A p \in Peers : Other(p) \in Peers /\ Other(Other(p)) = p
    BY PeersFacts
  <2>1. CASE accepted' = accepted /\ received' = received
    BY <2>1
  <2>2. ASSUME NEW p \in Peers, accepted' = [accepted EXCEPT ![p] = @ + 1],
               received' = received
        PROVE  Channel!Next
    BY <2>2 DEF Channel!Next, Channel!Accept
  <2>3. ASSUME NEW p \in Peers, NEW m \in net, HandleDat(p, m), accepted' = accepted
        PROVE  Channel!Next
    <3>1. /\ m.n = Len(received[p]) + 1 /\ m.n <= accepted[Other(p)]
          /\ received' = [received EXCEPT ![p] = Append(@, m.n)]
      BY <2>3, DatNext DEF HandleDat
    <3>2. received \in [Peers -> Seq(Nat)] /\ accepted[Other(p)] \in Nat
          /\ Len(received[p]) \in Nat
      BY <2>0 DEF IInv, TypeOK
    <3>3. delivered' = [delivered EXCEPT ![Other(p)] = Append(@, Len(@) + 1)]
      BY <2>0, <3>1, <3>2
    <3>4. Len(delivered[Other(p)]) < accepted[Other(p)]
      BY <2>0, <3>1, <3>2
    <3> QED BY <2>0, <2>3, <3>3, <3>4 DEF Channel!Next, Channel!Deliver
  <2>4. CASE UNCHANGED vars
    BY <2>1, <2>4 DEF vars, inVars
  <2> QED BY <2>1, <2>2, <2>3, <2>4, ChannelStep
<1> QED BY <1>1, <1>2, Invariant, PTL DEF Spec, ImplementsChannel, Channel!Spec

-----------------------------------------------------------------------------
(* The order of what a stream has sent, whatever the handshake did *)

LEMMA TopQuartFacts ==
  /\ TopQuart \in Nat /\ MaxAckValue \in Nat
  /\ 0 <= TopQuart /\ TopQuart + 1 < MaxAckValue
  /\ \A i \in Index : i \in Nat
  /\ \A i \in Index : i <= TopQuart => Succ(i) = i + 1
<1>1. /\ MaxAckValue \in Nat \ {0} /\ TopQuart \in 1..(MaxAckValue - 2)
  BY StreamAssumption
<1> QED BY <1>1 DEF Index, Succ

\* Below the top quarter a packet is covered when its index is acknowledged, and
\* acknowledgements do not go back.
LEMMA LowCovered ==
  ASSUME NEW local \in Nat, local <= TopQuart, NEW acked \in Nat
  PROVE  Covered(local, acked) <=> local <= acked
BY TopQuartFacts DEF Covered

LEMMA LowLater ==
  ASSUME NEW old \in Nat, old <= TopQuart, NEW new \in Nat, new <= TopQuart
  PROVE  /\ LaterAck(old, new) \in Nat /\ old <= LaterAck(old, new)
         /\ LaterAck(old, new) <= TopQuart
BY TopQuartFacts DEF LaterAck

LEMMA QueueHead ==
  ASSUME TypeOK, NEW p \in Peers, receiveQueue[p] # <<>>
  PROVE  Head(receiveQueue[p]) \in Elements(receiveQueue[p])
<1>1. receiveQueue[p] \in Seq(Packet) /\ Len(receiveQueue[p]) \in Nat \ {0}
  BY EmptySeq DEF TypeOK
<1>2. Head(receiveQueue[p]) = receiveQueue[p][1] /\ 1 \in 1..Len(receiveQueue[p])
  BY <1>1
<1> QED BY <1>2 DEF Elements

\* What a step does to what a stream has sent.
Turn(q) ==
  \/ /\ sendQueue'[q] = sendQueue[q] /\ retransmitBuffer'[q] = retransmitBuffer[q]
     /\ retransmitPacket'[q] = retransmitPacket[q] /\ accepted'[q] = accepted[q]
     /\ state[q] = "Closed" => state'[q] = "Closed"
     /\ state[q] # "Closed" => sequenceIndex[q] <= sequenceIndex'[q]
  \/ \E op \in Sequenced, remote \in Index :
       /\ Enqueue(q, op, remote) /\ UNCHANGED <<retransmitBuffer, retransmitPacket>>
       /\ state[q] # "Closed" /\ remote <= TopQuart
  \/ HandleOutgoing(q)
  \/ PumpClosed(q)

LEMMA TurnNext ==
  ASSUME TurnInv, CountersLow, Next, NEW q \in Peers
  PROVE  Turn(q)
<1>0. /\ TypeOK /\ NumbersLow
      /\ sequenceIndex[q] \in Index /\ sequenceIndex[q] \in Nat
      /\ \A p \in Peers : p \in pumping => state[p] # "Closed"
  BY TopQuartFacts DEF TurnInv, TypeOK
<1>1. CASE Connect \/ SkipMessage \/ PumpHeartbeat \/ PumpResendSyn
  BY <1>0, <1>1
  DEF Connect, SkipMessage, PumpHeartbeat, PumpResendSyn, indexVars, outVars, TypeOK, Turn
<1>2. ASSUME NEW p \in Peers, Send(p)
      PROVE  Turn(q)
  <2>1. /\ Enqueue(p, "DAT", 0) /\ UNCHANGED <<retransmitBuffer, retransmitPacket, state>>
        /\ state[p] # "Closed"
    BY <1>2 DEF Send
  <2>2. "DAT" \in Sequenced /\ 0 \in Index /\ 0 <= TopQuart
    BY IndexFacts, TopQuartFacts DEF Sequenced
  <2>3. CASE q = p
    BY <2>1, <2>2, <2>3 DEF Turn
  <2>4. CASE q # p
    BY <1>0, <2>1, <2>4 DEF Enqueue, TypeOK, Turn
  <2> QED BY <2>3, <2>4
<1>3. ASSUME NEW p \in Peers, HandleMessageReply(p)
      PROVE  Turn(q)
  <2> DEFINE seq == Head(receiveQueue[p]).local
             op == IF seq > 0 THEN "DAT_ACK" ELSE "DAT"
  <2>1. /\ Enqueue(p, op, seq) /\ UNCHANGED <<retransmitBuffer, retransmitPacket, state>>
        /\ state[p] # "Closed" /\ receiveQueue[p] # <<>>
    BY <1>3 DEF HandleMessageReply
  <2>2. seq \in Index /\ op \in Sequenced
    BY <1>0, <2>1, ReceiveQueueType DEF Sequenced
  <2>3. seq <= TopQuart
    BY <1>0, <2>1, QueueHead DEF NumbersLow
  <2> HIDE DEF seq, op
  <2>4. CASE q = p
    BY <2>1, <2>2, <2>3, <2>4 DEF Turn
  <2>5. CASE q # p
    BY <1>0, <2>1, <2>5 DEF Enqueue, TypeOK, Turn
  <2> QED BY <2>4, <2>5
<1>4. ASSUME NEW p \in Peers,
             \/ HandleMessage(p) \/ Disconnect(p) \/ PumpCloseTimeout(p) \/ PumpBegin(p)
      PROVE  Turn(q)
  BY <1>0, <1>4
  DEF HandleMessage, Disconnect, PumpCloseTimeout, PumpBegin, indexVars, outVars, TypeOK, Turn
<1>5. ASSUME NEW p \in Peers, PumpClosed(p)
      PROVE  Turn(q)
  <2>1. CASE q = p
    BY <1>5, <2>1 DEF Turn
  <2>2. CASE q # p
    BY <1>0, <1>5, <2>2 DEF PumpClosed, TypeOK, Turn
  <2> QED BY <2>1, <2>2
<1>6. ASSUME NEW p \in Peers, HandleOutgoing(p)
      PROVE  Turn(q)
  <2>1. CASE q = p
    BY <1>6, <2>1 DEF Turn
  <2>2. CASE q # p
    <3>1. UNCHANGED <<state, sequenceIndex, accepted>>
      BY <1>6 DEF HandleOutgoing, SendQueued, StartRetransmit, RetransmitAgain, GiveUp,
         AwaitRetransmit, indexVars
    <3>2. /\ sendQueue'[q] = sendQueue[q] /\ retransmitBuffer'[q] = retransmitBuffer[q]
          /\ retransmitPacket'[q] = retransmitPacket[q]
      <4>1. CASE SendQueued(p) \/ StartRetransmit(p)
        BY <1>0, <2>2, <4>1 DEF SendQueued, StartRetransmit, Trim, TypeOK
      <4>2. CASE RetransmitAgain(p) \/ GiveUp(p) \/ AwaitRetransmit(p)
        BY <1>0, <2>2, <4>2 DEF RetransmitAgain, GiveUp, AwaitRetransmit, Trim, TypeOK
      <4> QED BY <1>6, <4>1, <4>2 DEF HandleOutgoing
    <3> QED BY <1>0, <3>1, <3>2 DEF Turn
  <2> QED BY <2>1, <2>2
<1>7. ASSUME NEW p \in Peers, NEW m \in net, HandleIncomingPacket(p, m)
      PROVE  Turn(q)
  <2>a. p \in pumping
    BY <1>7
    DEF HandleIncomingPacket, HandleSyn, HandleSynAck, HandleAck,
        HandleHbt, HandleFin, HandleDat, HandleFinAck, InSequence, DropOutOfSequence, Arrives
  <2>b. m \in Packet /\ m.local <= TopQuart
    BY <1>0 DEF TypeOK, NumbersLow
  <2>0. m.local \in Index /\ m.local <= TopQuart /\ state[p] # "Closed"
    BY <1>0, <2>a, <2>b DEF Packet
  <2>1. CASE HandleSyn(p, m) \/ HandleSynAck(p, m)
    <3>1. /\ UNCHANGED <<outVars, accepted>>
          /\ sequenceIndex' = [sequenceIndex EXCEPT ![p] = Succ(@)]
      BY <2>1 DEF HandleSyn, HandleSynAck
    <3>2. sequenceIndex[p] \in Index /\ sequenceIndex[p] <= TopQuart
      BY <1>0, <2>0 DEF CountersLow, TypeOK
    <3>a. Succ(sequenceIndex[p]) = sequenceIndex[p] + 1 /\ sequenceIndex[p] \in Nat
      BY <3>2, TopQuartFacts
    <3>b. sequenceIndex'[q] = IF q = p THEN Succ(sequenceIndex[q]) ELSE sequenceIndex[q]
      BY <1>0, <3>1 DEF TypeOK
    <3>3. sequenceIndex[q] <= sequenceIndex'[q]
      BY <1>0, <3>a, <3>b
    <3>4. state[q] = "Closed" => state'[q] = "Closed"
      BY <1>0, <2>0, <2>1 DEF HandleSyn, HandleSynAck, TypeOK
    <3> QED BY <3>1, <3>3, <3>4 DEF outVars, Turn
  <2>2. CASE HandleFin(p, m)
    <3>1. state' = [state EXCEPT ![p] = "Closing"]
          /\ UNCHANGED <<retransmitBuffer, retransmitPacket>>
      BY <2>2 DEF HandleFin
    <3>2. CASE state[p] = "Closing"
      BY <1>0, <2>2, <3>1, <3>2 DEF HandleFin, TypeOK, Turn
    <3>3. CASE state[p] # "Closing"
      <4>1. Enqueue(p, "FIN_ACK", m.local)
        BY <2>2, <3>3 DEF HandleFin
      <4>2. CASE q = p
        BY <2>0, <3>1, <4>1, <4>2 DEF Sequenced, Turn
      <4>3. CASE q # p
        BY <1>0, <3>1, <4>1, <4>3 DEF Enqueue, TypeOK, Turn
      <4> QED BY <4>2, <4>3
    <3> QED BY <3>2, <3>3
  <2>3. CASE HandleAck(p, m) \/ HandleHbt(p, m) \/ HandleDat(p, m)
             \/ HandleFinAck(p, m) \/ DropOutOfSequence(p, m)
    <3>1. UNCHANGED <<outVars, accepted, sequenceIndex>>
      BY <2>3 DEF HandleAck, HandleHbt, HandleDat, HandleFinAck, DropOutOfSequence, indexVars
    <3>2. state[q] = "Closed" => state'[q] = "Closed"
      BY <1>0, <2>0, <2>3
      DEF HandleAck, HandleHbt, HandleDat, HandleFinAck, DropOutOfSequence, TypeOK
    <3> QED BY <1>0, <3>1, <3>2 DEF outVars, Turn
  <2> QED BY <1>7, <2>1, <2>2, <2>3 DEF HandleIncomingPacket
<1> QED BY <1>1, <1>2, <1>3, <1>4, <1>5, <1>6, <1>7 DEF Next

\* Every packet a step sends is one its stream keeps, or carries no position.
LEMMA NewPackets ==
  ASSUME TurnInv, CountersLow, Next, NEW k \in net' \ net
  PROVE  \/ \E p \in Peers : k \in Kept(p)
         \/ k.op \notin Sequenced /\ k.local <= TopQuart /\ k.remote <= TopQuart
<1> DEFINE Plain(j) == j.op \notin Sequenced /\ j.local <= TopQuart /\ j.remote <= TopQuart
<1>0. /\ TypeOK /\ NumbersLow
      /\ \A p \in Peers : p \in pumping => state[p] # "Closed"
      /\ \A p \in Peers : state[p] # "Closed" => sequenceIndex[p] <= TopQuart
      /\ \A p \in Peers : remoteSequenceIndexAcked[p] <= TopQuart
  BY DEF TurnInv, CountersLow, NumbersLow
<1>1. 0 <= TopQuart
  BY TopQuartFacts
<1>2. \A p \in Peers : \A i : i <= TopQuart => Plain(Ack(p, i)) /\ Plain(Pkt(p, "HBT", 0, i))
  BY <1>1 DEF Ack, Pkt, NumberedPkt, Sequenced
<1>3. CASE Connect \/ PumpResendSyn
  <2>1. k = Pkt(Client, "SYN", sequenceIndex[Client], 0) /\ state[Client] # "Closed"
    BY <1>3 DEF Connect, PumpResendSyn
  <2> QED BY <1>0, <1>1, <2>1, PeersFacts DEF Pkt, NumberedPkt, Sequenced
<1>4. CASE PumpHeartbeat
  BY <1>0, <1>2, <1>4, PeersFacts DEF PumpHeartbeat
<1>5. ASSUME NEW p \in Peers, HandleMessage(p) \/ HandleMessageReply(p)
      PROVE  Plain(k)
  <2>1. receiveQueue[p] # <<>> /\ k = Ack(p, Head(receiveQueue[p]).local)
    BY <1>5 DEF HandleMessage, HandleMessageReply, Raw
  <2> QED BY <1>0, <1>2, <2>1, QueueHead DEF NumbersLow
<1>6. ASSUME NEW p \in Peers, Disconnect(p)
      PROVE  Plain(k)
  <2>1. k = Pkt(p, "FIN", sequenceIndex[p], 0) /\ state[p] # "Closed"
    BY <1>6 DEF Disconnect
  <2> QED BY <1>0, <1>1, <2>1 DEF Pkt, NumberedPkt, Sequenced
<1>7. ASSUME NEW p \in Peers, HandleOutgoing(p)
      PROVE  \E q \in Peers : k \in Kept(q)
  BY <1>0, <1>7, OriginOutgoing
<1>8. ASSUME NEW p \in Peers, NEW m \in net, HandleIncomingPacket(p, m)
      PROVE  Plain(k)
  <2>1. Taken(m) \subseteq net /\ m.local <= TopQuart /\ m.remote <= TopQuart
    BY <1>0 DEF Taken, NumbersLow
  <2>2. CASE HandleSyn(p, m)
    <3>1. k = Pkt(p, "SYN_ACK", sequenceIndex[p], m.local) \/ k = Ack(p, m.local)
      BY <2>1, <2>2 DEF HandleSyn
    <3>2. sequenceIndex[p] <= TopQuart
      BY <1>0, <2>2 DEF HandleSyn, Arrives
    <3> QED BY <1>2, <2>1, <3>1, <3>2 DEF Pkt, NumberedPkt, Sequenced
  <2>3. CASE HandleSynAck(p, m) \/ HandleDat(p, m)
    BY <1>2, <2>1, <2>3 DEF HandleSynAck, HandleDat
  <2>4. CASE HandleAck(p, m) \/ HandleFin(p, m) \/ HandleFinAck(p, m)
    BY <2>1, <2>4 DEF HandleAck, HandleFin, HandleFinAck
  <2>5. CASE HandleHbt(p, m) \/ DropOutOfSequence(p, m)
    BY <1>0, <1>2, <2>1, <2>5 DEF HandleHbt, DropOutOfSequence, Raw
  <2> QED BY <1>8, <2>2, <2>3, <2>4, <2>5 DEF HandleIncomingPacket
<1>9. CASE SkipMessage \/ \E p \in Peers : \/ Send(p) \/ PumpClosed(p)
                                           \/ PumpCloseTimeout(p) \/ PumpBegin(p)
  BY <1>9 DEF SkipMessage, Send, PumpClosed, PumpCloseTimeout, PumpBegin
<1> QED BY <1>3, <1>4, <1>5, <1>6, <1>7, <1>8, <1>9 DEF Next

\* What a step makes of the packets a stream keeps, or has on the way.
LEMMA MadeTurn ==
  ASSUME TurnInv, CountersLow, Next, NEW q \in Peers
  PROVE  \/ Made(q)' \subseteq Made(q) /\ accepted'[q] = accepted[q]
         \/ \E op \in Sequenced, remote \in Index :
              /\ Enqueue(q, op, remote) /\ remote <= TopQuart /\ state[q] # "Closed"
              /\ Made(q)' \subseteq Made(q) \cup {Fresh(q, op, remote)}
<1>0. /\ TypeOK /\ SequencedOnly /\ Turn(q)
  BY TurnNext DEF TurnInv
<1>1. \A k \in net' \ net : k.to = Other(q) /\ k.op \in Sequenced => k \in Kept(q)
  <2> SUFFICES ASSUME NEW k \in net' \ net, k.to = Other(q), k.op \in Sequenced
               PROVE  k \in Kept(q)
    OBVIOUS
  <2>1. PICK p \in Peers : k \in Kept(p)
    BY NewPackets
  <2>2. k.to = Other(p)
    BY <1>0, <2>1 DEF SequencedOnly, Made
  <2> QED BY <2>1, <2>2, PeersFacts
<1>2. Made(q)' \subseteq Made(q) \cup Kept(q)'
  BY <1>1 DEF Made
<1>3. CASE Kept(q)' \subseteq Kept(q) /\ accepted'[q] = accepted[q]
  BY <1>2, <1>3 DEF Made
<1>4. CASE HandleOutgoing(q)
  <2>1. accepted' = accepted
    BY <1>4 DEF HandleOutgoing, SendQueued, StartRetransmit, RetransmitAgain, GiveUp,
       AwaitRetransmit
  <2>2. KeptStep(q)
    BY <1>0, <1>4, KeptOutgoing
  <2>3. accepted'[q] # accepted[q] \/ Kept(q)' \subseteq Kept(q)
    BY <1>0, <2>2 DEF KeptStep, Enqueue, TypeOK
  <2> QED BY <1>3, <2>1, <2>3
<1>5. CASE PumpClosed(q)
  <2>1. /\ accepted'[q] = accepted[q] /\ retransmitPacket' = retransmitPacket
        /\ sendQueue'[q] = <<>> /\ retransmitBuffer'[q] = {}
    BY <1>0, <1>5 DEF PumpClosed, TypeOK
  <2> QED BY <1>3, <2>1, EmptyElements DEF Kept
<1>6. CASE \E op \in Sequenced, remote \in Index :
             /\ Enqueue(q, op, remote) /\ UNCHANGED <<retransmitBuffer, retransmitPacket>>
             /\ state[q] # "Closed" /\ remote <= TopQuart
  <2>1. PICK op \in Sequenced, remote \in Index :
             /\ Enqueue(q, op, remote) /\ UNCHANGED <<retransmitBuffer, retransmitPacket>>
             /\ state[q] # "Closed" /\ remote <= TopQuart
    BY <1>6
  <2>2. Kept(q)' = Kept(q) \cup {Fresh(q, op, remote)}
    BY <1>0, <2>1, KeptEnqueue
  <2>3. Made(q)' \subseteq Made(q) \cup {Fresh(q, op, remote)}
    BY <1>2, <2>2 DEF Made
  <2> QED BY <2>1, <2>3
<1>7. CASE /\ sendQueue'[q] = sendQueue[q] /\ retransmitBuffer'[q] = retransmitBuffer[q]
           /\ retransmitPacket'[q] = retransmitPacket[q] /\ accepted'[q] = accepted[q]
  BY <1>3, <1>7 DEF Kept
<1> QED BY <1>0, <1>4, <1>5, <1>6, <1>7 DEF Turn

\* What a stream knows to be acknowledged only grows, until it is closed.
LEMMA AckedTurn ==
  ASSUME TurnInv, CountersLow, Next, NEW q \in Peers
  PROVE  /\ sequenceIndexAcked'[q] <= TopQuart
         /\ state'[q] # "Closed" => sequenceIndexAcked[q] <= sequenceIndexAcked'[q]
<1>0. /\ TypeOK
      /\ sequenceIndexAcked[q] \in Nat /\ sequenceIndexAcked[q] <= TopQuart
      /\ \A m \in net : m.remote \in Nat /\ m.remote <= TopQuart
  BY TopQuartFacts DEF TurnInv, NumbersLow, TypeOK, Packet
<1>1. CASE sequenceIndexAcked'[q] = sequenceIndexAcked[q]
  BY <1>0, <1>1
<1>2. ASSUME NEW m \in net, sequenceIndexAcked'[q] = LaterAck(sequenceIndexAcked[q], m.remote)
      PROVE  /\ sequenceIndexAcked'[q] <= TopQuart
             /\ sequenceIndexAcked[q] <= sequenceIndexAcked'[q]
  BY <1>0, <1>2, LowLater
<1>3. CASE Connect \/ SkipMessage \/ PumpHeartbeat \/ PumpResendSyn
  BY <1>1, <1>3 DEF Connect, SkipMessage, PumpHeartbeat, PumpResendSyn, indexVars
<1>4. ASSUME NEW p \in Peers,
             \/ Send(p) \/ HandleMessage(p) \/ HandleMessageReply(p) \/ Disconnect(p)
             \/ PumpCloseTimeout(p) \/ PumpBegin(p) \/ HandleOutgoing(p)
      PROVE  sequenceIndexAcked'[q] = sequenceIndexAcked[q]
  BY <1>4 DEF Send, HandleMessage, HandleMessageReply, Disconnect, PumpCloseTimeout,
      PumpBegin, HandleOutgoing, SendQueued, StartRetransmit, RetransmitAgain, GiveUp,
      AwaitRetransmit, indexVars
<1>5. ASSUME NEW p \in Peers, PumpClosed(p)
      PROVE  \/ sequenceIndexAcked'[q] = sequenceIndexAcked[q]
             \/ sequenceIndexAcked'[q] = 0 /\ state'[q] = "Closed"
  BY <1>0, <1>5 DEF PumpClosed, TypeOK
<1>6. ASSUME NEW p \in Peers, NEW m \in net, HandleIncomingPacket(p, m)
      PROVE  \/ sequenceIndexAcked'[q] = sequenceIndexAcked[q]
             \/ sequenceIndexAcked'[q] = LaterAck(sequenceIndexAcked[q], m.remote)
  BY <1>0, <1>6 DEF HandleIncomingPacket, HandleSyn, HandleSynAck, HandleAck, HandleHbt,
     HandleFin, HandleDat, HandleFinAck, DropOutOfSequence, indexVars, TypeOK
<1> QED BY <1>1, <1>2, <1>3, <1>4, <1>5, <1>6, TopQuartFacts DEF Next

\* The same of what a stream last acknowledged, and of what its owner will.
LEMMA ReceivedTurn ==
  ASSUME TurnInv, Next, NEW q \in Peers
  PROVE  /\ remoteSequenceIndexAcked'[q] <= TopQuart
         /\ \A m \in Elements(receiveQueue'[q]) : m.local <= TopQuart
<1> DEFINE LowAcked == remoteSequenceIndexAcked'[q] <= TopQuart
           LowQueue == \A m \in Elements(receiveQueue'[q]) : m.local <= TopQuart
<1>0. /\ TypeOK /\ 0 <= TopQuart
      /\ remoteSequenceIndexAcked[q] <= TopQuart
      /\ \A m \in net : m.local <= TopQuart
      /\ \A m \in Elements(receiveQueue[q]) : m.local <= TopQuart
      /\ receiveQueue[q] \in Seq(Packet)
  BY TopQuartFacts DEF TurnInv, NumbersLow, TypeOK
<1>1. ASSUME remoteSequenceIndexAcked'[q] = remoteSequenceIndexAcked[q]
      PROVE  LowAcked
  BY <1>0, <1>1
<1>2. ASSUME receiveQueue'[q] = receiveQueue[q]
      PROVE  LowQueue
  BY <1>0, <1>2
<1>3. ASSUME receiveQueue[q] # <<>>
      PROVE  /\ Head(receiveQueue[q]).local <= TopQuart
             /\ Elements(Tail(receiveQueue[q])) \subseteq Elements(receiveQueue[q])
  BY <1>0, <1>3, QueueHead, TailElements
<1>4. CASE SkipMessage
  <2>1. /\ remoteSequenceIndexAcked' = remoteSequenceIndexAcked
        /\ \/ receiveQueue'[q] = receiveQueue[q]
           \/ receiveQueue[q] # <<>> /\ receiveQueue'[q] = Tail(receiveQueue[q])
    BY <1>0, <1>4 DEF SkipMessage, TypeOK, indexVars
  <2> QED BY <1>0, <1>1, <1>2, <1>3, <2>1
<1>5. ASSUME NEW p \in Peers, HandleMessage(p) \/ HandleMessageReply(p)
      PROVE  LowAcked /\ LowQueue
  <2>1. CASE q = p
    <3>1. /\ receiveQueue[q] # <<>> /\ receiveQueue'[q] = Tail(receiveQueue[q])
          /\ remoteSequenceIndexAcked'[q] = Head(receiveQueue[q]).local
      BY <1>0, <1>5, <2>1 DEF HandleMessage, HandleMessageReply, TypeOK
    <3> QED BY <1>0, <1>3, <3>1
  <2>2. CASE q # p
    <3>1. /\ receiveQueue'[q] = receiveQueue[q]
          /\ remoteSequenceIndexAcked'[q] = remoteSequenceIndexAcked[q]
      BY <1>0, <1>5, <2>2 DEF HandleMessage, HandleMessageReply, TypeOK
    <3> QED BY <1>1, <1>2, <3>1
  <2> QED BY <2>1, <2>2
<1>6. ASSUME NEW p \in Peers, PumpClosed(p)
      PROVE  LowAcked /\ LowQueue
  <2>1. /\ \/ remoteSequenceIndexAcked'[q] = remoteSequenceIndexAcked[q]
           \/ remoteSequenceIndexAcked'[q] = 0
        /\ receiveQueue'[q] = receiveQueue[q] \/ receiveQueue'[q] = <<>>
    BY <1>0, <1>6 DEF PumpClosed, TypeOK
  <2> QED BY <1>0, <1>1, <1>2, <2>1, EmptyElements
<1>7. ASSUME NEW p \in Peers, NEW m \in net, HandleIncomingPacket(p, m)
      PROVE  LowAcked /\ LowQueue
  <2>1. \/ remoteSequenceIndexAcked'[q] = remoteSequenceIndexAcked[q]
        \/ remoteSequenceIndexAcked'[q] = m.local
    BY <1>0, <1>7 DEF HandleIncomingPacket, HandleSyn, HandleSynAck, HandleAck, HandleHbt,
       HandleFin, HandleDat, HandleFinAck, DropOutOfSequence, indexVars, TypeOK
  <2>2. \/ receiveQueue'[q] = receiveQueue[q]
        \/ receiveQueue'[q] = Append(receiveQueue[q], m)
    <3>1. CASE HandleDat(p, m)
      BY <1>0, <3>1 DEF HandleDat, TypeOK
    <3>2. CASE ~HandleDat(p, m)
      BY <1>7, <3>2 DEF HandleIncomingPacket, HandleSyn, HandleSynAck, HandleAck,
         HandleHbt, HandleFin, HandleFinAck, DropOutOfSequence, inVars
    <3> QED BY <3>1, <3>2
  <2>3. Elements(Append(receiveQueue[q], m)) = Elements(receiveQueue[q]) \cup {m}
    BY <1>0, AppendElements
  <2> QED BY <1>0, <1>1, <1>2, <2>1, <2>2, <2>3
<1>8. CASE Connect \/ PumpHeartbeat \/ PumpResendSyn
  BY <1>1, <1>2, <1>8 DEF Connect, PumpHeartbeat, PumpResendSyn, indexVars, inVars
<1>9. ASSUME NEW p \in Peers,
             \/ Send(p) \/ Disconnect(p) \/ PumpCloseTimeout(p) \/ PumpBegin(p)
             \/ HandleOutgoing(p)
      PROVE  LowAcked /\ LowQueue
  <2>1. UNCHANGED <<remoteSequenceIndexAcked, receiveQueue>>
    BY <1>9 DEF Send, Disconnect, PumpCloseTimeout, PumpBegin, HandleOutgoing, SendQueued,
       StartRetransmit, RetransmitAgain, GiveUp, AwaitRetransmit, indexVars, inVars
  <2> QED BY <1>1, <1>2, <2>1
<1> QED BY <1>4, <1>5, <1>6, <1>7, <1>8, <1>9 DEF Next

LEMMA NumbersLowTurn ==
  ASSUME TurnInv, CountersLow, Next
  PROVE  NumbersLow'
<1>0. /\ \A m \in net : m.local <= TopQuart /\ m.remote <= TopQuart
      /\ \A p \in Peers : \A m \in Kept(p) : m.local <= TopQuart /\ m.remote <= TopQuart
      /\ \A p \in Peers : state[p] # "Closed" => sequenceIndex[p] <= TopQuart
  BY DEF TurnInv, NumbersLow, CountersLow
<1>1. ASSUME NEW p \in Peers, NEW m \in Made(p)'
      PROVE  m.local <= TopQuart /\ m.remote <= TopQuart
  <2>1. \A k \in Made(p) : k.local <= TopQuart /\ k.remote <= TopQuart
    BY <1>0 DEF Made
  <2>2. CASE m \in Made(p)
    BY <2>1, <2>2
  <2>3. CASE m \notin Made(p)
    <3>1. PICK op \in Sequenced, remote \in Index :
            /\ remote <= TopQuart /\ state[p] # "Closed" /\ m = Fresh(p, op, remote)
      BY <2>3, <1>1, MadeTurn
    <3> QED BY <1>0, <3>1 DEF Fresh, NumberedPkt
  <2> QED BY <2>2, <2>3
<1>2. ASSUME NEW m \in net'
      PROVE  m.local <= TopQuart /\ m.remote <= TopQuart
  BY <1>0, NewPackets
<1>3. \A p \in Peers : \A m \in Kept(p)' : m \in Made(p)'
  BY DEF Made
<1> QED BY <1>1, <1>2, <1>3, AckedTurn, ReceivedTurn DEF NumbersLow

LEMMA SequencedOnlyTurn ==
  ASSUME TurnInv, CountersLow, Next
  PROVE  SequencedOnly'
<1> SUFFICES ASSUME NEW p \in Peers, NEW m \in Made(p)'
             PROVE  m.to = Other(p) /\ m.op \in Sequenced
  BY DEF SequencedOnly
<1>1. CASE m \in Made(p)
  BY <1>1 DEF TurnInv, SequencedOnly
<1>2. CASE m \notin Made(p)
  <2>1. PICK op \in Sequenced, remote \in Index : m = Fresh(p, op, remote)
    BY <1>2, MadeTurn
  <2> QED BY <2>1 DEF Fresh, NumberedPkt
<1> QED BY <1>1, <1>2

LEMMA IncreasingTurn ==
  ASSUME TurnInv, CountersLow, Next, NEW q \in Peers
  PROVE  Increasing(q)'
<1>a. TypeOK /\ Turn(q) /\ Increasing(q)
  BY TurnNext DEF TurnInv
<1>b. /\ accepted[q] \in Nat /\ sequenceIndex[q] \in Nat
      /\ \A m \in Made(q) : m.n \in Nat /\ m.local \in Nat
  <2>1. accepted[q] \in Nat /\ sequenceIndex[q] \in Nat
    BY <1>a, TopQuartFacts DEF TypeOK
  <2>2. \A m \in Packet : m.n \in Nat /\ m.local \in Nat
    BY TopQuartFacts DEF Packet
  <2> QED BY <1>a, <2>1, <2>2, MadeType
<1>0. TypeOK /\ Turn(q) /\ Increasing(q) /\ accepted[q] \in Nat /\ sequenceIndex[q] \in Nat
  BY <1>a, <1>b
<1>1. \A m \in Made(q), k \in Made(q) : m.n < k.n => m.local < k.local
  BY <1>0 DEF Increasing
<1>2. \A m \in Made(q) :
        /\ m.n \in 1..accepted[q]
        /\ state[q] # "Closed" => m.local < sequenceIndex[q]
  BY <1>0 DEF Increasing
<1>3. CASE Made(q)' \subseteq Made(q) /\ accepted'[q] = accepted[q]
  <2>1. state'[q] # "Closed" =>
          state[q] # "Closed" /\ sequenceIndex[q] <= sequenceIndex'[q]
    <3>1. CASE HandleOutgoing(q)
      BY <3>1, <1>0 DEF HandleOutgoing, SendQueued, StartRetransmit, RetransmitAgain,
         GiveUp, AwaitRetransmit, indexVars
    <3>2. CASE PumpClosed(q)
      BY <3>2, <1>0 DEF PumpClosed, TypeOK
    <3>3. CASE \E op, remote : Enqueue(q, op, remote)
      BY <1>0, <1>3, <3>3 DEF Enqueue, TypeOK
    <3> QED BY <1>0, <3>1, <3>2, <3>3 DEF Turn
  <2>2. sequenceIndex'[q] \in Nat
    BY <1>0, StepType, TopQuartFacts DEF TypeOK
  <2>3. \A m \in Made(q) : state'[q] # "Closed" => m.local < sequenceIndex'[q]
    <3> SUFFICES ASSUME NEW m \in Made(q), state'[q] # "Closed"
                 PROVE  m.local < sequenceIndex'[q]
      OBVIOUS
    <3>1. m.local \in Nat /\ m.local < sequenceIndex[q] /\ sequenceIndex[q] <= sequenceIndex'[q]
      BY <1>b, <1>2, <2>1
    <3>2. \A a, b, c \in Nat : a < b /\ b <= c => a < c
      OBVIOUS
    <3> QED BY <1>b, <2>2, <3>1, <3>2
  <2>4. SUFFICES ASSUME NEW m \in Made(q)'
                 PROVE  /\ m.n \in 1..accepted'[q]
                        /\ state'[q] # "Closed" => m.local < sequenceIndex'[q]
                        /\ \A k \in Made(q)' : m.n < k.n => m.local < k.local
    BY DEF Increasing
  <2>5. m \in Made(q) /\ \A k \in Made(q)' : k \in Made(q)
    BY <1>3
  <2>6. m.n \in 1..accepted'[q]
    BY <1>2, <1>3, <2>5
  <2> QED BY <1>1, <2>3, <2>5, <2>6
<1>4. ASSUME NEW op \in Sequenced, NEW remote \in Index, Enqueue(q, op, remote),
             state[q] # "Closed", Made(q)' \subseteq Made(q) \cup {Fresh(q, op, remote)}
      PROVE  Increasing(q)'
  <2> DEFINE k == Fresh(q, op, remote)
  <2>1. /\ k.n = accepted[q] + 1 /\ k.local = sequenceIndex[q]
    BY DEF Fresh, NumberedPkt
  <2>2. /\ accepted'[q] = accepted[q] + 1
        /\ sequenceIndex'[q] = sequenceIndex[q] + 1
    <3>1. sequenceIndex[q] \in Index /\ sequenceIndex[q] <= TopQuart
      BY <1>0, <1>4 DEF CountersLow, TypeOK
    <3> QED BY <1>0, <1>4, <3>1, TopQuartFacts DEF Enqueue, TypeOK
  <2> HIDE DEF k
  <2>3. \A m \in Made(q) \cup {k} :
          m.n \in 1..(accepted[q] + 1) /\ m.local < sequenceIndex[q] + 1
    <3>1. k.n \in 1..(accepted[q] + 1) /\ k.local < sequenceIndex[q] + 1
      BY <1>b, <2>1
    <3>2. ASSUME NEW m \in Made(q)
          PROVE  m.n \in 1..(accepted[q] + 1) /\ m.local < sequenceIndex[q] + 1
      <4>1. m.n \in 1..accepted[q] /\ m.local < sequenceIndex[q] /\ m.local \in Nat
        BY <1>b, <1>2, <1>4
      <4>2. /\ \A a, b \in Nat : a < b => a < b + 1
            /\ \A a \in Nat : 1..a \subseteq 1..(a + 1)
        OBVIOUS
      <4> QED BY <1>b, <4>1, <4>2
    <3> QED BY <3>1, <3>2
  <2>4. \A m \in Made(q), j \in {k} : m.local < j.local /\ ~(j.n < m.n)
    <3> TAKE m \in Made(q), j \in {k}
    <3>1. m.n \in 1..accepted[q] /\ m.local < sequenceIndex[q]
      BY <1>2, <1>4
    <3>2. j = k
      OBVIOUS
    <3>3. ~(accepted[q] + 1 < m.n)
      <4>1. \A a \in Nat : \A i \in 1..a : ~(a + 1 < i)
        OBVIOUS
      <4> QED BY <1>b, <3>1, <4>1
    <3> QED BY <2>1, <3>1, <3>2, <3>3
  <2>5. \A m, j \in Made(q) \cup {k} : m.n < j.n => m.local < j.local
    BY <1>0, <1>1, <2>1, <2>4
  <2>6. Made(q)' \subseteq Made(q) \cup {k}
    BY <1>4 DEF k
  <2> QED BY <2>2, <2>3, <2>5, <2>6 DEF Increasing
<1> QED BY <1>3, <1>4, MadeTurn

-----------------------------------------------------------------------------
(* The packets a stream holds *)

\* What HandleOutgoing makes of the packets of its stream.
LEMMA OutgoingShape ==
  ASSUME TypeOK, NEW q \in Peers, HandleOutgoing(q)
  PROVE  /\ UNCHANGED <<state, sequenceIndexAcked, accepted>>
         /\ \/ \E k \in 0..Len(sendQueue[q]) :
                 /\ retransmitPacket'[q] = {}
                 /\ retransmitBuffer'[q] = Unacked(q) \cup {sendQueue[q][i] : i \in 1..k}
                 /\ sendQueue'[q] = SubSeq(sendQueue[q], k + 1, Len(sendQueue[q]))
            \/ /\ retransmitBuffer'[q] = Unacked(q) /\ sendQueue'[q] = sendQueue[q]
               /\ \/ retransmitPacket'[q] = retransmitPacket[q]
                  \/ \E m : Oldest(Unacked(q), m) /\ retransmitPacket'[q] = {m}
<1>1. UNCHANGED <<state, sequenceIndexAcked, accepted>>
  BY DEF HandleOutgoing, SendQueued, StartRetransmit, RetransmitAgain, GiveUp,
     AwaitRetransmit, indexVars
<1>2. Trim(q) => retransmitBuffer'[q] = Unacked(q)
  BY DEF Trim, TypeOK
<1>3. CASE SendQueued(q)
  <2>1. PICK k \in 0..Len(sendQueue[q]) :
          LET moved == {sendQueue[q][i] : i \in 1..k}
          IN /\ retransmitBuffer' = [retransmitBuffer EXCEPT ![q] = Unacked(q) \cup moved]
             /\ sendQueue' = [sendQueue EXCEPT ![q] = SubSeq(@, k + 1, Len(@))]
    BY <1>3 DEF SendQueued
  <2>2. retransmitPacket' = [retransmitPacket EXCEPT ![q] = {}]
    BY <1>3 DEF SendQueued
  <2>3. /\ retransmitPacket'[q] = {}
        /\ retransmitBuffer'[q] = Unacked(q) \cup {sendQueue[q][i] : i \in 1..k}
        /\ sendQueue'[q] = SubSeq(sendQueue[q], k + 1, Len(sendQueue[q]))
    BY <2>1, <2>2 DEF TypeOK
  <2> QED BY <1>1, <2>3
<1>4. CASE StartRetransmit(q)
  <2>1. PICK m : Oldest(Unacked(q), m) /\ retransmitPacket' = [retransmitPacket EXCEPT ![q] = {m}]
    BY <1>4 DEF StartRetransmit
  <2>2. retransmitPacket'[q] = {m}
    BY <2>1 DEF TypeOK
  <2>3. Trim(q) /\ sendQueue' = sendQueue
    BY <1>4 DEF StartRetransmit
  <2> QED BY <1>1, <1>2, <2>1, <2>2, <2>3
<1>5. CASE RetransmitAgain(q) \/ GiveUp(q) \/ AwaitRetransmit(q)
  <2>1. Trim(q) /\ sendQueue' = sendQueue /\ retransmitPacket' = retransmitPacket
    BY <1>5 DEF RetransmitAgain, GiveUp, AwaitRetransmit
  <2> QED BY <1>1, <1>2, <2>1
<1> QED BY <1>3, <1>4, <1>5 DEF HandleOutgoing

LEMMA QueuedLastTurn ==
  ASSUME TurnInv, CountersLow, Next, NEW q \in Peers
  PROVE  QueuedLast(q)'
<1> DEFINE s == sendQueue[q]
<1>0. /\ TypeOK /\ Turn(q)
      /\ s \in Seq(Packet) /\ Len(s) \in Nat /\ accepted[q] \in Nat
      /\ \A m \in Packet : m.n \in Nat
      /\ retransmitBuffer[q] \subseteq Packet /\ Unacked(q) \subseteq retransmitBuffer[q]
      /\ \A i \in 1..Len(s) : s[i] \in Packet
  <2>1. TypeOK /\ Turn(q)
    BY TurnNext DEF TurnInv
  <2>2. s \in Seq(Packet) /\ accepted[q] \in Nat /\ retransmitBuffer[q] \subseteq Packet
    BY <2>1 DEF TypeOK
  <2>3. Len(s) \in Nat /\ \A i \in 1..Len(s) : s[i] \in Packet
    BY <2>2
  <2> QED BY <2>1, <2>2, <2>3 DEF Packet, Unacked
<1>1. /\ \A i \in 1..Len(s) : s[i].n + Len(s) = accepted[q] + i
      /\ \A m \in retransmitBuffer[q] : m.n + Len(s) <= accepted[q]
  BY DEF TurnInv, QueuedLast
<1> HIDE DEF s
<1>2. ASSUME sendQueue'[q] = s, retransmitBuffer'[q] \subseteq retransmitBuffer[q],
             accepted'[q] = accepted[q]
      PROVE  QueuedLast(q)'
  BY <1>1, <1>2 DEF QueuedLast, s
<1>3. ASSUME NEW op, NEW remote, Enqueue(q, op, remote),
             retransmitBuffer' = retransmitBuffer
      PROVE  QueuedLast(q)'
  <2> DEFINE k == NumberedPkt(q, op, sequenceIndex[q], remote, accepted[q] + 1)
             t == sendQueue'[q]
  <2>1. t = Append(s, k) /\ k.n = accepted[q] + 1 /\ accepted'[q] = accepted[q] + 1
    BY <1>0, <1>3 DEF Enqueue, NumberedPkt, TypeOK, s
  <2> HIDE DEF k, t
  <2>2. /\ Len(t) = Len(s) + 1 /\ t[Len(s) + 1] = k
        /\ \A i \in 1..Len(s) : t[i] = s[i]
    BY <1>0, <2>1
  <2>3. \A i \in 1..Len(t) : t[i].n + Len(t) = accepted'[q] + i
    <3> TAKE i \in 1..Len(t)
    <3>1. CASE i \in 1..Len(s)
      <4>1. t[i].n = s[i].n /\ s[i].n \in Nat /\ s[i].n + Len(s) = accepted[q] + i
        BY <1>0, <1>1, <2>2, <3>1
      <4>2. i \in Nat
        BY <1>0, <3>1
      <4>3. s[i].n + (Len(s) + 1) = (accepted[q] + 1) + i
        <5>1. \A x, l, c \in Nat : x + l = c + i => x + (l + 1) = (c + 1) + i
          BY <4>2
        <5> QED BY <1>0, <4>1, <5>1
      <4> QED BY <2>1, <2>2, <4>1, <4>3
    <3>2. CASE i = Len(s) + 1
      BY <1>0, <2>1, <2>2, <3>2
    <3> QED BY <1>0, <2>2, <3>1, <3>2
  <2>4. \A m \in retransmitBuffer'[q] : m.n + Len(t) <= accepted'[q]
    <3> TAKE m \in retransmitBuffer'[q]
    <3>1. m.n \in Nat /\ m.n + Len(s) <= accepted[q]
      BY <1>0, <1>1, <1>3
    <3> QED BY <1>0, <2>1, <2>2, <3>1
  <2> QED BY <2>3, <2>4 DEF QueuedLast, t
<1>4. ASSUME NEW k \in 0..Len(s),
             retransmitBuffer'[q] = Unacked(q) \cup {s[i] : i \in 1..k},
             sendQueue'[q] = SubSeq(s, k + 1, Len(s)), accepted'[q] = accepted[q]
      PROVE  QueuedLast(q)'
  <2> DEFINE t == sendQueue'[q]
  <2>1. /\ Len(t) = Len(s) - k
        /\ \A i \in 1..Len(t) : t[i] = s[k + i] /\ k + i \in 1..Len(s)
    BY <1>0, <1>4
  <2> HIDE DEF t
  <2>2. \A i \in 1..Len(t) : t[i].n + Len(t) = accepted'[q] + i
    <3> TAKE i \in 1..Len(t)
    <3>1. t[i].n \in Nat /\ t[i].n + Len(s) = accepted[q] + (k + i)
      BY <1>0, <1>1, <2>1
    <3>2. i \in Nat /\ k \in Nat
      BY <1>0, <2>1
    <3>3. t[i].n + (Len(s) - k) = accepted[q] + i
      <4>1. \A x, l, c \in Nat : x + l = c + (k + i) => x + (l - k) = c + i
        BY <3>2
      <4> QED BY <1>0, <3>1, <4>1
    <3> QED BY <1>4, <2>1, <3>3
  <2>3. \A m \in Unacked(q) : m.n + Len(t) <= accepted[q]
    <3> TAKE m \in Unacked(q)
    <3>1. m.n \in Nat /\ m.n + Len(s) <= accepted[q]
      BY <1>0, <1>1
    <3> QED BY <1>0, <1>4, <2>1, <3>1
  <2>4. \A i \in 1..k : s[i].n + Len(t) <= accepted[q]
    <3> TAKE i \in 1..k
    <3>1. i \in 1..Len(s)
      BY <1>0, <1>4
    <3>2. s[i].n \in Nat /\ s[i].n + Len(s) = accepted[q] + i
      BY <1>0, <1>1, <3>1
    <3> QED BY <1>0, <1>4, <2>1, <3>1, <3>2
  <2> QED BY <1>4, <2>2, <2>3, <2>4 DEF QueuedLast, t
<1>5. CASE HandleOutgoing(q)
  <2>1. accepted'[q] = accepted[q]
    BY <1>0, <1>5, OutgoingShape
  <2>2. CASE retransmitBuffer'[q] = Unacked(q) /\ sendQueue'[q] = s
    BY <1>0, <1>2, <2>1, <2>2
  <2> QED BY <1>0, <1>4, <1>5, <2>1, <2>2, OutgoingShape DEF s
<1>6. CASE PumpClosed(q)
  <2>1. sendQueue'[q] = <<>> /\ retransmitBuffer'[q] = {}
    BY <1>0, <1>6 DEF PumpClosed, TypeOK
  <2> QED BY <2>1 DEF QueuedLast
<1> QED BY <1>0, <1>2, <1>3, <1>5, <1>6 DEF Turn, s

\* A packet that is not covered is later than every covered one.
LEMMA CoveredFirst ==
  ASSUME TurnInv, NEW q \in Peers, NEW m \in retransmitBuffer[q], NEW w \in Unacked(q),
         Covered(m.local, sequenceIndexAcked[q])
  PROVE  ~(w.n < m.n)
<1>1. /\ m \in Made(q) /\ w \in Made(q)
  BY DEF Unacked, Made, Kept
<1>2. /\ m.local \in Nat /\ w.local \in Nat /\ sequenceIndexAcked[q] \in Nat
      /\ m.local <= TopQuart /\ w.local <= TopQuart
  BY <1>1, MadeType, TopQuartFacts DEF TurnInv, TypeOK, Packet, NumbersLow, Unacked, Kept
<1>3. m.local <= sequenceIndexAcked[q] /\ ~(w.local <= sequenceIndexAcked[q])
  BY <1>2, LowCovered DEF Unacked
<1>4. w.n < m.n => w.local < m.local
  BY <1>1 DEF TurnInv, Increasing
<1> QED BY <1>2, <1>3, <1>4

LEMMA HeldSuffixTurn ==
  ASSUME TurnInv, CountersLow, Next
  PROVE  HeldSuffix'
<1> SUFFICES ASSUME NEW q \in Peers, state'[q] # "Closed",
                    NEW n \in Held(q)', NEW j \in n..accepted'[q]
             PROVE  j \in Held(q)'
  BY DEF HeldSuffix
<1> DEFINE s == sendQueue[q]
<1>0. /\ TypeOK /\ Turn(q)
      /\ s \in Seq(Packet) /\ Len(s) \in Nat /\ accepted[q] \in Nat
      /\ \A m \in retransmitBuffer[q] \cup Elements(s) : m.n \in Nat
      /\ Unacked(q) \subseteq retransmitBuffer[q]
  <2>1. TypeOK /\ Turn(q)
    BY TurnNext DEF TurnInv
  <2>2. s \in Seq(Packet) /\ accepted[q] \in Nat /\ retransmitBuffer[q] \subseteq Packet
    BY <2>1 DEF TypeOK
  <2>3. Len(s) \in Nat /\ Elements(s) \subseteq Packet
    BY <2>2 DEF Elements
  <2>4. \A m \in Packet : m.n \in Nat
    BY DEF Packet
  <2> QED BY <2>1, <2>2, <2>3, <2>4 DEF Unacked
<1>1. state[q] # "Closed" => \A i \in Held(q) : i..accepted[q] \subseteq Held(q)
  BY DEF TurnInv, HeldSuffix
<1> HIDE DEF s
<1>2. CASE /\ sendQueue'[q] = sendQueue[q] /\ retransmitBuffer'[q] = retransmitBuffer[q]
           /\ accepted'[q] = accepted[q] /\ state[q] # "Closed"
  BY <1>1, <1>2 DEF Held
<1>3. ASSUME NEW op \in Sequenced, NEW remote \in Index, Enqueue(q, op, remote),
             UNCHANGED <<retransmitBuffer, retransmitPacket>>, state[q] # "Closed"
      PROVE  j \in Held(q)'
  <2>1. /\ Elements(sendQueue'[q]) = Elements(sendQueue[q]) \cup {Fresh(q, op, remote)}
        /\ Fresh(q, op, remote).n = accepted[q] + 1
    BY <1>0, <1>3, KeptEnqueue DEF Fresh, NumberedPkt
  <2>2. Held(q)' = Held(q) \cup {accepted[q] + 1} /\ accepted'[q] = accepted[q] + 1
    BY <1>0, <1>3, <2>1 DEF Held, Enqueue, TypeOK
  <2>3. CASE j = accepted[q] + 1
    BY <2>2, <2>3
  <2>4. CASE j # accepted[q] + 1
    <3>1. n \in Nat
      <4>1. Held(q) \subseteq Nat
        BY <1>0 DEF Held, s
      <4> QED BY <1>0, <2>2, <4>1
    <3>2. j \in n..accepted[q]
      BY <1>0, <2>2, <2>4, <3>1
    <3>3. n # accepted[q] + 1
      BY <1>0, <3>1, <3>2
    <3> QED BY <1>1, <1>3, <2>2, <3>2, <3>3
  <2> QED BY <2>3, <2>4
<1>4. CASE HandleOutgoing(q)
  <2>1. /\ state[q] # "Closed" /\ accepted'[q] = accepted[q]
        /\ retransmitBuffer'[q] \cup Elements(sendQueue'[q]) = Unacked(q) \cup Elements(s)
    <3>1. UNCHANGED <<state, accepted>>
      BY <1>0, <1>4, OutgoingShape
    <3>2. CASE retransmitBuffer'[q] = Unacked(q) /\ sendQueue'[q] = sendQueue[q]
      BY <3>1, <3>2 DEF s
    <3>3. ASSUME NEW k \in 0..Len(s),
                 retransmitBuffer'[q] = Unacked(q) \cup {s[i] : i \in 1..k},
                 sendQueue'[q] = SubSeq(s, k + 1, Len(s))
          PROVE  retransmitBuffer'[q] \cup Elements(sendQueue'[q]) = Unacked(q) \cup Elements(s)
      <4>1. Elements(SubSeq(s, k + 1, Len(s))) \cup {s[i] : i \in 1..k} = Elements(s)
        BY <1>0, SplitElements
      <4> QED BY <3>3, <4>1
    <3> QED BY <1>0, <1>4, <3>1, <3>2, <3>3, OutgoingShape DEF s
  <2>2. Held(q)' = {m.n : m \in Unacked(q) \cup Elements(s)}
    BY <2>1 DEF Held
  <2>3. PICK w \in Unacked(q) \cup Elements(s) : n = w.n
    BY <2>2
  <2>4. /\ w \in retransmitBuffer[q] \cup Elements(s)
        /\ n \in Held(q) /\ n \in Nat
    BY <1>0, <2>3 DEF Held, s
  <2>5. j \in Held(q)
    BY <1>1, <2>1, <2>4
  <2>6. PICK m \in retransmitBuffer[q] \cup Elements(s) : j = m.n
    BY <2>5 DEF Held, s
  <2>7. CASE m \in Unacked(q) \cup Elements(s)
    BY <2>2, <2>6, <2>7
  <2>8. CASE m \in retransmitBuffer[q] /\ Covered(m.local, sequenceIndexAcked[q])
    <3>0. m.n \in Nat /\ w.n \in Nat /\ w.n <= m.n
      BY <1>0, <2>1, <2>3, <2>4, <2>6
    <3>1. CASE w \in Unacked(q)
      <4>1. ~(w.n < m.n)
        BY <2>8, <3>1, CoveredFirst
      <4> QED BY <2>3, <2>6, <3>0, <4>1
    <3>2. CASE w \in Elements(s)
      <4>1. PICK i \in 1..Len(s) : w = s[i]
        BY <3>2 DEF Elements
      <4>2. w.n + Len(s) = accepted[q] + i /\ m.n + Len(s) <= accepted[q]
        BY <2>8, <4>1 DEF TurnInv, QueuedLast, s
      <4> QED BY <1>0, <3>0, <4>1, <4>2
    <3> QED BY <2>3, <3>1, <3>2
  <2> QED BY <2>6, <2>7, <2>8 DEF Unacked
<1>5. CASE PumpClosed(q)
  BY <1>0, <1>5 DEF PumpClosed, TypeOK
<1> QED BY <1>0, <1>2, <1>3, <1>4, <1>5 DEF Turn

LEMMA OldestAgainTurn ==
  ASSUME TurnInv, CountersLow, Next, NEW q \in Peers
  PROVE  OldestAgain(q)'
<1>a. \A m, k \in retransmitPacket'[q] : m = k
  <2>1. /\ TypeOK /\ Turn(q)
        /\ \A m, k \in retransmitPacket[q] : m = k
    BY TurnNext DEF TurnInv, OldestAgain
  <2>2. CASE retransmitPacket'[q] = retransmitPacket[q]
    BY <2>1, <2>2
  <2>3. CASE HandleOutgoing(q)
    BY <2>1, <2>3, OutgoingShape
  <2>4. CASE PumpClosed(q)
    BY <2>2, <2>4 DEF PumpClosed
  <2> QED BY <2>1, <2>2, <2>3, <2>4 DEF Turn
<1> SUFFICES ASSUME state'[q] # "Closed", NEW m \in retransmitPacket'[q]
             PROVE  \/ Covered(m.local, sequenceIndexAcked'[q])
                    \/ Oldest(Unacked(q)', m)
  BY <1>a DEF OldestAgain
<1> DEFINE old == sequenceIndexAcked[q]
           new == sequenceIndexAcked'[q]
<1>0. /\ TypeOK /\ Turn(q) /\ OldestAgain(q)
      /\ old \in Nat /\ new \in Nat /\ old <= new
  BY TurnNext, StepType, AckedTurn, TopQuartFacts DEF TurnInv, TypeOK
<1>1. \A k \in retransmitBuffer[q] \cup retransmitPacket[q] :
        k.local \in Nat /\ k.local <= TopQuart
  <2>1. \A k \in Kept(q) : k \in Made(q) /\ k.local <= TopQuart
    BY DEF TurnInv, NumbersLow, Made
  <2>2. \A k \in Kept(q) : k.local \in Nat
    BY <1>0, <2>1, MadeType, TopQuartFacts DEF Packet
  <2> QED BY <2>1, <2>2 DEF Kept
<1>2. Unacked(q)' = {k \in retransmitBuffer'[q] : ~Covered(k.local, new)}
  BY DEF Unacked
<1> HIDE DEF old, new
<1>3. \A k \in retransmitBuffer[q] \cup retransmitPacket[q] :
        Covered(k.local, old) => Covered(k.local, new)
  <2> TAKE k \in retransmitBuffer[q] \cup retransmitPacket[q]
  <2>1. k.local \in Nat /\ k.local <= TopQuart
    BY <1>1
  <2>2. Covered(k.local, old) <=> k.local <= old
    BY <1>0, <2>1, LowCovered
  <2>3. Covered(k.local, new) <=> k.local <= new
    BY <1>0, <2>1, LowCovered
  <2> QED BY <1>0, <2>1, <2>2, <2>3
<1>4. CASE /\ retransmitBuffer'[q] = retransmitBuffer[q] /\ state[q] # "Closed"
           /\ retransmitPacket'[q] = retransmitPacket[q]
  <2>1. Covered(m.local, old) \/ Oldest(Unacked(q), m)
    BY <1>0, <1>4 DEF OldestAgain, old
  <2>2. Unacked(q)' \subseteq Unacked(q)
    BY <1>2, <1>3, <1>4 DEF Unacked, old
  <2>3. m \in Unacked(q) => m \in Unacked(q)' \/ Covered(m.local, new)
    BY <1>2, <1>4 DEF Unacked
  <2> QED BY <1>3, <1>4, <2>1, <2>2, <2>3 DEF Oldest, new
<1>5. CASE HandleOutgoing(q)
  <2>1. new = old /\ state[q] # "Closed"
    BY <1>0, <1>5, OutgoingShape DEF old, new
  <2>2. CASE retransmitBuffer'[q] = Unacked(q)
    <3>1. Unacked(q)' = Unacked(q)
      BY <1>2, <2>1, <2>2 DEF Unacked, old
    <3>2. CASE retransmitPacket'[q] = retransmitPacket[q]
      BY <1>0, <2>1, <3>1, <3>2 DEF OldestAgain, old, new
    <3>3. CASE \E k : Oldest(Unacked(q), k) /\ retransmitPacket'[q] = {k}
      BY <3>1, <3>3
    <3>4. CASE retransmitPacket'[q] = {}
      BY <3>4
    <3> QED BY <1>0, <1>5, <3>2, <3>3, <3>4, OutgoingShape
  <2>3. CASE retransmitPacket'[q] = {}
    BY <2>3
  <2> QED BY <1>0, <1>5, <2>2, <2>3, OutgoingShape
<1>6. CASE PumpClosed(q)
  BY <1>0, <1>6 DEF PumpClosed, TypeOK
<1> QED BY <1>0, <1>4, <1>5, <1>6 DEF Turn

-----------------------------------------------------------------------------
(* The invariant of the order, and that the counters stay low *)

LEMMA InitTurn ==
  ASSUME Init
  PROVE  TurnInv
<1>1. TypeOK
  BY InitType
<1>2. \A p \in Peers : /\ sendQueue[p] = <<>> /\ receiveQueue[p] = <<>>
                       /\ retransmitBuffer[p] = {} /\ retransmitPacket[p] = {}
                       /\ sequenceIndexAcked[p] = 0 /\ remoteSequenceIndexAcked[p] = 0
                       /\ p \notin pumping
  BY DEF Init
<1>3. net = {}
  BY DEF Init
<1>4. \A p \in Peers : Kept(p) = {} /\ Made(p) = {} /\ Held(p) = {}
  BY <1>2, <1>3, EmptyElements DEF Kept, Made, Held
<1>5. SequencedOnly /\ NumbersLow /\ HeldSuffix
  BY <1>2, <1>3, <1>4, EmptyElements, TopQuartFacts DEF SequencedOnly, NumbersLow, HeldSuffix
<1>6. \A p \in Peers : Increasing(p) /\ QueuedLast(p) /\ OldestAgain(p)
  BY <1>2, <1>4 DEF Increasing, QueuedLast, OldestAgain
<1> QED BY <1>1, <1>2, <1>5, <1>6 DEF TurnInv

LEMMA StepTurn ==
  ASSUME TurnInv, CountersLow, [Next]_vars
  PROVE  TurnInv'
<1>1. CASE Next
  <2>1. TypeOK'
    BY StepType DEF TurnInv
  <2>2. SequencedOnly' /\ NumbersLow' /\ HeldSuffix'
    BY <1>1, SequencedOnlyTurn, NumbersLowTurn, HeldSuffixTurn
  <2>3. \A p \in Peers : Increasing(p)' /\ QueuedLast(p)' /\ OldestAgain(p)'
    BY <1>1, IncreasingTurn, QueuedLastTurn, OldestAgainTurn
  <2>4. \A p \in Peers : state'[p] = "Closed" => p \notin pumping'
    BY <1>1, ClosedStep DEF TurnInv
  <2> QED BY <2>1, <2>2, <2>3, <2>4 DEF TurnInv
<1>2. CASE UNCHANGED vars
  <2>1. /\ \A p \in Peers : /\ Kept(p)' = Kept(p) /\ Made(p)' = Made(p)
                            /\ Unacked(p)' = Unacked(p) /\ Held(p)' = Held(p)
        /\ UNCHANGED vars
    BY <1>2 DEF vars, outVars, indexVars, Kept, Made, Unacked, Held
  <2>2. TypeOK'
    BY StepType, <1>2 DEF TurnInv
  <2>3. SequencedOnly' /\ NumbersLow' /\ HeldSuffix'
    BY <2>1 DEF vars, indexVars, inVars, TurnInv, SequencedOnly, NumbersLow, HeldSuffix
  <2>4. \A p \in Peers : Increasing(p)' /\ QueuedLast(p)' /\ OldestAgain(p)'
    BY <2>1 DEF vars, indexVars, outVars, TurnInv, Increasing, QueuedLast, OldestAgain
  <2> QED BY <2>1, <2>2, <2>3, <2>4 DEF TurnInv, vars
<1> QED BY <1>1, <1>2

\* The ways a stream's counter and state change together.
Counts(q) ==
  LET same == sequenceIndex'[q] = sequenceIndex[q] /\ accepted'[q] = accepted[q]
      next == /\ sequenceIndex'[q] = Succ(sequenceIndex[q])
              /\ accepted'[q] = accepted[q] + 1
  IN \/ same /\ state'[q] = state[q]
     \/ same /\ Unsynced(q) /\ Unsynced(q)'
     \/ same /\ state[q] = "SynReceived" /\ state'[q] = "Established"
     \/ same /\ state[q] = "Established" /\ state'[q] = "Closing"
     \/ accepted'[q] = accepted[q] /\ state'[q] = "Closed"
     \/ /\ next /\ state'[q] = state[q] /\ state[q] \in {"SynReceived", "Established"}
        /\ accepted[q] < SendLimit[q]
     \/ next /\ state[q] \notin {"Closing", "Closed"} /\ state'[q] = "Closing"
     \/ /\ sequenceIndex'[q] = Succ(sequenceIndex[q]) /\ accepted'[q] = accepted[q]
        /\ state'[q] = "SynReceived"
        /\ \/ Unsynced(q)
           \/ state[q] = "Closing" /\ (\E m \in net : m.to = q /\ m.op = "SYN_ACK")

LEMMA CountsNext ==
  ASSUME IInv, Hypotheses, Next, NEW q \in Peers
  PROVE  Counts(q)
<1>0. /\ state \in [Peers -> StreamStates] /\ sequenceIndex \in [Peers -> Index]
      /\ accepted \in [Peers -> Nat]
      /\ \A p \in Peers : p \in pumping => state[p] # "Closed"
  BY DEF IInv, TypeOK, Expecting
<1>1. CASE Connect \/ SkipMessage \/ PumpHeartbeat \/ PumpResendSyn
  BY <1>0, <1>1, PeersFacts
  DEF Connect, SkipMessage, PumpHeartbeat, PumpResendSyn, indexVars, Unsynced, Counts
<1>2. ASSUME NEW p \in Peers, Send(p) \/ HandleMessageReply(p)
      PROVE  Counts(q)
  <2>1. /\ state' = state /\ state[p] \notin {"Closing", "Closed"}
        /\ accepted[p] < SendLimit[p]
        /\ sequenceIndex' = [sequenceIndex EXCEPT ![p] = Succ(@)]
        /\ accepted' = [accepted EXCEPT ![p] = @ + 1]
    BY <1>2 DEF Send, HandleMessageReply, Enqueue
  <2>2. state[p] \in {"SynReceived", "Established"}
    <3>1. CASE Send(p)
      BY <3>1 DEF Send
    <3>2. CASE HandleMessageReply(p)
      <4>1. receiveQueue[p] # <<>>
        BY <3>2 DEF HandleMessageReply
      <4>2. ~Unsynced(p)
        BY <4>1, NothingReceived DEF IInv
      <4> QED BY <1>0, <2>1, <4>2 DEF Unsynced, StreamStates
    <3> QED BY <1>2, <3>1, <3>2
  <2> QED BY <1>0, <2>1, <2>2 DEF Counts
<1>3. ASSUME NEW p \in Peers,
             HandleMessage(p) \/ PumpBegin(p) \/ HandleOutgoing(p)
      PROVE  Counts(q)
  BY <1>3 DEF HandleMessage, PumpBegin, HandleOutgoing, SendQueued, StartRetransmit,
     RetransmitAgain, GiveUp, AwaitRetransmit, indexVars, Counts
<1>4. ASSUME NEW p \in Peers, Disconnect(p) \/ PumpClosed(p) \/ PumpCloseTimeout(p)
      PROVE  Counts(q)
  BY <1>0, <1>4 DEF Disconnect, PumpClosed, PumpCloseTimeout, indexVars, Counts
<1>5. ASSUME NEW p \in Peers, NEW m \in net, HandleIncomingPacket(p, m)
      PROVE  Counts(q)
  <2>1. CASE HandleSyn(p, m)
    <3>1. p = Server /\ Unsynced(p)
      BY <2>1, SynArrives DEF Unsynced
    <3>2. /\ state' = [state EXCEPT ![p] = "SynReceived"] /\ accepted' = accepted
          /\ sequenceIndex' = [sequenceIndex EXCEPT ![p] = Succ(@)]
      BY <2>1 DEF HandleSyn
    <3>3. CASE q = p
      <4>1. /\ state'[q] = "SynReceived" /\ accepted'[q] = accepted[q]
            /\ sequenceIndex'[q] = Succ(sequenceIndex[q])
        BY <1>0, <3>2, <3>3
      <4> QED BY <3>1, <3>3, <4>1 DEF Counts
    <3>4. CASE q # p
      <4>1. /\ state'[q] = state[q] /\ accepted'[q] = accepted[q]
            /\ sequenceIndex'[q] = sequenceIndex[q]
        BY <1>0, <3>2, <3>4
      <4> QED BY <4>1 DEF Counts
    <3> QED BY <3>3, <3>4
  <2>2. CASE HandleSynAck(p, m)
    <3>1. \/ Unsynced(p)
          \/ state[p] = "Closing" /\ \E k \in net : k.to = p /\ k.op = "SYN_ACK"
      BY <2>2, SynAckArrives DEF HandleSynAck, Arrives, Unsynced
    <3>2. /\ state' = [state EXCEPT ![p] = "SynReceived"] /\ accepted' = accepted
          /\ sequenceIndex' = [sequenceIndex EXCEPT ![p] = Succ(@)]
      BY <2>2 DEF HandleSynAck
    <3>3. CASE q = p
      <4>1. /\ state'[q] = "SynReceived" /\ accepted'[q] = accepted[q]
            /\ sequenceIndex'[q] = Succ(sequenceIndex[q])
        BY <1>0, <3>2, <3>3
      <4> QED BY <3>1, <3>3, <4>1 DEF Counts
    <3>4. CASE q # p
      <4>1. /\ state'[q] = state[q] /\ accepted'[q] = accepted[q]
            /\ sequenceIndex'[q] = sequenceIndex[q]
        BY <1>0, <3>2, <3>4
      <4> QED BY <4>1 DEF Counts
    <3> QED BY <3>3, <3>4
  <2>3. CASE HandleFin(p, m)
    <3>1. state[p] # "Closed" /\ state' = [state EXCEPT ![p] = "Closing"]
      BY <1>0, <2>3 DEF HandleFin, Arrives
    <3>2. CASE state[p] = "Closing"
      BY <1>0, <2>3, <3>1, <3>2 DEF HandleFin, Counts
    <3>3. CASE state[p] # "Closing"
      <4>1. /\ sequenceIndex' = [sequenceIndex EXCEPT ![p] = Succ(@)]
            /\ accepted' = [accepted EXCEPT ![p] = @ + 1]
        BY <2>3, <3>3 DEF HandleFin, Enqueue
      <4> QED BY <1>0, <3>1, <3>3, <4>1 DEF Counts
    <3> QED BY <3>2, <3>3
  <2>4. CASE HandleAck(p, m)
    BY <1>0, <2>4 DEF HandleAck, Counts
  <2>5. CASE HandleHbt(p, m) \/ HandleDat(p, m) \/ DropOutOfSequence(p, m)
    BY <2>5 DEF HandleHbt, HandleDat, DropOutOfSequence, indexVars, Counts
  <2> QED BY <1>5, <2>1, <2>2, <2>3, <2>4, <2>5, NoFinAckArrives DEF HandleIncomingPacket
<1> QED BY <1>1, <1>2, <1>3, <1>4, <1>5 DEF Next

\* A closing stream that a SYN_ACK is on the way to was closing or connecting before.
LEMMA SynAckWasThere ==
  ASSUME IInv, Hypotheses, Next, NEW q \in Peers, state'[q] = "Closing",
         NEW k \in net', k.to = q, k.op = "SYN_ACK"
  PROVE  k \in net /\ state[q] \in {"Connecting", "Closing"}
<1>1. ASSUME k \notin net
      PROVE  FALSE
  <2>1. PICK p \in Peers, m \in net :
          k = Pkt(p, "SYN_ACK", sequenceIndex[p], m.local) /\ HandleSyn(p, m)
    BY <1>1, OriginNext, OriginKinds
  <2>2. p = Server /\ state[Server] = "Listening"
    BY <2>1, SynArrives
  <2>3. q = Client
    BY <2>1, <2>2, PeersFacts DEF Pkt, NumberedPkt
  <2>4. Unsynced(Client)
    BY <2>2 DEF IInv, Silent
  <2>5. state'[Client] = state[Client]
    BY <2>1, <2>2, PeersFacts DEF HandleSyn, IInv, TypeOK
  <2> QED BY <2>3, <2>4, <2>5 DEF Unsynced
<1>2. k = Pkt(Server, "SYN_ACK", start[Server], start[Client])
      /\ state[Client] \in {"Connecting", "Closing", "Closed"}
  BY <1>1 DEF IInv, SynAckOnTheWay
<1>3. q = Client
  BY <1>2, PeersFacts DEF Pkt, NumberedPkt
<1>4. state[q] # "Closed"
  BY CountsNext DEF Counts, Unsynced
<1> QED BY <1>1, <1>2, <1>3, <1>4

LEMMA TallyStep ==
  ASSUME IInv, Hypotheses, Next, Tallied
  PROVE  Tallied'
<1> SUFFICES ASSUME NEW q \in Peers
             PROVE  Tally(q)'
  BY DEF Tallied
<1>0. /\ Tally(q) /\ Counts(q)
      /\ sequenceIndex[q] \in Nat /\ accepted[q] \in Nat /\ start' = start
      /\ start[q] \in Nat /\ SendLimit[q] \in Nat
      /\ state[q] \in StreamStates
  BY CountsNext, ReachStep, StartBound, TopQuartFacts DEF Tallied, IInv, TypeOK, Hypotheses
<1>1. state[q] # "Closed" => Succ(sequenceIndex[q]) = sequenceIndex[q] + 1
  <2>1. state[q] # "Closed" => sequenceIndex[q] <= TopQuart
    <3>1. state[q] # "Closed" => accepted[q] <= SendLimit[q] + 2
      BY <1>0 DEF Tally, StreamStates, Unsynced
    <3>2. state[q] # "Closed" => sequenceIndex[q] <= start[q] + accepted[q] + 1
      BY <1>0 DEF Tally
    <3>3. start[q] + SendLimit[q] + 3 <= TopQuart
      BY StartBound DEF IInv, Hypotheses
    <3> QED BY <1>0, <3>1, <3>2, <3>3, TopQuartFacts
  <2>2. sequenceIndex[q] \in Index
    BY DEF IInv, TypeOK
  <2> QED BY <2>1, <2>2, TopQuartFacts
<1>2. /\ Unsynced(q)' => accepted'[q] = 0 /\ sequenceIndex'[q] = start[q]
  BY <1>0 DEF Tally, Counts, Unsynced
<1>3. /\ state'[q] \in {"SynReceived", "Established"} => accepted'[q] <= SendLimit[q] + 1
      /\ state'[q] = "Closing" => accepted'[q] <= SendLimit[q] + 2
      /\ state'[q] # "Closed" => sequenceIndex'[q] <= start[q] + accepted'[q] + 1
  BY <1>0, <1>1 DEF Tally, Counts, Unsynced, StreamStates
<1>4. ASSUME state'[q] = "Closing", NEW m \in net', m.to = q, m.op = "SYN_ACK"
      PROVE  accepted'[q] <= 1 /\ sequenceIndex'[q] <= start[q] + accepted'[q]
  <2>1. m \in net /\ state[q] \in {"Connecting", "Closing"}
    BY <1>4, SynAckWasThere
  <2>2. CASE state[q] = "Connecting"
    BY <1>0, <1>1, <1>4, <2>2 DEF Tally, Counts, Unsynced
  <2>3. CASE state[q] = "Closing"
    BY <1>0, <1>4, <2>1, <2>3 DEF Tally, Counts, Unsynced
  <2> QED BY <2>1, <2>2, <2>3
<1> QED BY <1>0, <1>2, <1>3, <1>4 DEF Tally

\* While a connection ends before its counters reach the top quarter, by the bounds
\* on what is sent, they do not.
LEMMA TalliedLow ==
  ASSUME IInv, Hypotheses, Tallied
  PROVE  CountersLow
<1> SUFFICES ASSUME NEW q \in Peers, state[q] # "Closed"
             PROVE  sequenceIndex[q] <= TopQuart
  BY DEF CountersLow
<1>0. /\ Tally(q) /\ state[q] \in StreamStates
      /\ sequenceIndex[q] \in Nat /\ accepted[q] \in Nat
      /\ start[q] \in Nat /\ SendLimit[q] \in Nat
      /\ start[q] + SendLimit[q] + 3 <= TopQuart
  BY StartBound, TopQuartFacts DEF Tallied, IInv, TypeOK, Hypotheses
<1>1. accepted[q] <= SendLimit[q] + 2
  BY <1>0 DEF Tally, StreamStates, Unsynced
<1>2. sequenceIndex[q] <= start[q] + accepted[q] + 1
  BY <1>0 DEF Tally
<1> QED BY <1>0, <1>1, <1>2, TopQuartFacts

\* The handshake done once, SequenceIndex counts what was accepted, so that no counter
\* of a connection with the bounds of NoWrap ever gets past the top quarter.
THEOREM CountersStayLow ==
  ASSUME Hypotheses
  PROVE  Spec => []CountersLow
<1>1. Init => Tallied
  <2> SUFFICES ASSUME Init, NEW q \in Peers
               PROVE  Tally(q)
    BY DEF Tallied
  <2>1. /\ state[q] = "Listening" /\ accepted[q] = 0 /\ sequenceIndex[q] = start[q]
        /\ start[q] \in Nat
    BY InitType, TopQuartFacts DEF Init, TypeOK
  <2> QED BY <2>1 DEF Tally, Unsynced
<1>2. IInv /\ Tallied /\ [Next]_vars => Tallied'
  <2>1. IInv /\ Tallied /\ UNCHANGED vars => Tallied'
    BY DEF vars, indexVars, Tallied, Tally, Unsynced
  <2> QED BY <2>1, TallyStep
<1>3. IInv /\ Tallied => CountersLow
  BY TalliedLow
<1> QED BY <1>1, <1>2, <1>3, Invariant, PTL DEF Spec

\* The invariant of the order in which a stream sends, for any handshake.
THEOREM TurnInvariant == Spec /\ []CountersLow => []TurnInv
<1>1. Init => TurnInv
  BY InitTurn
<1>2. TurnInv /\ CountersLow /\ [Next]_vars => TurnInv'
  BY StepTurn
<1> QED BY <1>1, <1>2, PTL DEF Spec

\* Acknowledgements trim RetransmitBuffer from its old end only: with a packet a stream
\* holds every later one.
THEOREM SuffixHeld == Spec /\ []CountersLow => []HeldSuffix
<1>1. TurnInv => HeldSuffix
  BY DEF TurnInv
<1> QED BY <1>1, TurnInvariant, PTL

\* The packet HandleOutgoing sends again, until it is acknowledged, is the oldest one
\* that is not.
THEOREM OldestFirst == Spec /\ []CountersLow => []OldestRetransmitted
<1>1. TurnInv => OldestRetransmitted
  <2> SUFFICES ASSUME TurnInv, NEW p \in Peers, state[p] # "Closed", ~Recovered(p),
                      NEW m \in retransmitPacket[p]
               PROVE  Oldest(Unacked(p), m)
    BY DEF OldestRetransmitted
  <2>1. \A k \in retransmitPacket[p] : k = m
    BY DEF TurnInv, OldestAgain
  <2>2. ~Covered(m.local, sequenceIndexAcked[p])
    BY <2>1 DEF Recovered
  <2> QED BY <2>2 DEF TurnInv, OldestAgain
<1> QED BY <1>1, TurnInvariant, PTL

\* Two packets of a stream with one number carry the same message.
THEOREM NumbersNotReused == Spec /\ []CountersLow => []NumbersUnique
<1>1. TurnInv => NumbersUnique
  <2> SUFFICES ASSUME TurnInv, NEW p \in Peers, NEW m \in Made(p), NEW k \in Made(p),
                      m.local = k.local
               PROVE  m.n = k.n
    BY DEF NumbersUnique, Made, Kept
  <2>1. /\ m.n \in Nat /\ k.n \in Nat /\ m.local \in Nat
    BY MadeType, TopQuartFacts DEF TurnInv, Packet
  <2>2. ~(m.n < k.n) /\ ~(k.n < m.n)
    BY <2>1 DEF TurnInv, Increasing
  <2> QED BY <2>1, <2>2
<1> QED BY <1>1, TurnInvariant, PTL

\* A handshake done once, in a connection with the bounds of NoWrap: then all three
\* hold without a word about the counters.
THEOREM OrderKept ==
  ASSUME Hypotheses
  PROVE  Spec => [](HeldSuffix /\ OldestRetransmitted /\ NumbersUnique)
BY CountersStayLow, SuffixHeld, OldestFirst, NumbersNotReused, PTL
=============================================================================
