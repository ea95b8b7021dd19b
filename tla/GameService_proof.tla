------------------------- MODULE GameService_proof -------------------------
(***************************************************************************)
(* Proofs about GameService: any number of addresses and sessions, and any *)
(* limits.  TokensAlive looks only at the roles and the sessions of the    *)
(* connections: it holds whatever the stream makes of its datagrams.       *)
(* EstablishedClientsReleased adds what a Poll may leave in a stream that  *)
(* is dropped.  TypeCorrect follows the stream through the datagrams, by   *)
(* the least one that would leave it in no state at all.                   *)
(***************************************************************************)
EXTENDS GameService, TLAPS, WellFoundedInduction, FiniteSetTheorems

Fields ==
  {"role", "session", "stream", "err", "queued", "flight", "closing", "inbox", "silent"}

\* The connections are records, one for each address.
Shape ==
  /\ conn = [a \in Addresses |-> conn[a]]
  /\ \A a \in Addresses : /\ DOMAIN conn[a] = Fields
                          /\ conn[a] = [f \in Fields |-> conn[a][f]]

IInv == Shape /\ TokenAlive

\* A record with the fields of a connection.
IsConn(c) == DOMAIN c = Fields /\ c = [f \in Fields |-> c[f]]

LEMMA NoConnFacts == IsConn(NoConn) /\ NoConn.role = "none"
BY DEF IsConn, NoConn, Fields

-----------------------------------------------------------------------------
\* A set of natural numbers has a least one.  With it a property of every i is
\* proved from the least i without it, where the induction theorems, with their
\* operator parameter, are out of reach.
LEMMA LeastNat ==
  ASSUME NEW S \in SUBSET Nat, S # {}
  PROVE  \E m \in S : \A k \in S : m <= k
<1>1. \A a, b \in Nat : a < b => <<a, b>> \in OpToRel(<, Nat)
  BY Zenon DEF OpToRel
<1>2. PICK m \in S : \A k \in S : ~ (<<k, m>> \in OpToRel(<, Nat))
  BY NatLessThanWellFounded, WFMin, Zenon
<1>3. \A k \in S : ~ (k < m)
  BY <1>1, <1>2, Zenon
<1> QED BY <1>3

\* g gives the states of the stream after each of the first n datagrams.
Trace(c, n, g) ==
  g = [i \in 0 .. n |-> IF i = 0 THEN c.stream ELSE Handled(g[i - 1], c.inbox[i])]

LEMMA TraceExists ==
  ASSUME NEW c, NEW n \in Nat
  PROVE  \E g : Trace(c, n, g)
<1> DEFINE bad == {m \in Nat : ~ \E g : Trace(c, m, g)}
<1> SUFFICES ASSUME bad # {}
             PROVE  FALSE
  OBVIOUS
<1>1. PICK m \in bad : \A k \in bad : m <= k
  BY LeastNat
<1>2. m \in Nat /\ ~ \E g : Trace(c, m, g)
  OBVIOUS
<1>3. m # 0
  <2>1. Trace(c, 0, [i \in 0 .. 0 |-> c.stream])
    BY DEF Trace
  <2> QED BY <1>2, <2>1
<1>4. m - 1 \in Nat /\ m - 1 \notin bad
  BY <1>1, <1>2, <1>3
<1>5. PICK g : Trace(c, m - 1, g)
  BY <1>4
<1> DEFINE last == Handled(g[m - 1], c.inbox[m])
           h == [i \in 0 .. m |-> IF i = m THEN last ELSE g[i]]
<1>6. ASSUME NEW i \in 0 .. m
      PROVE  h[i] = IF i = 0 THEN c.stream ELSE Handled(h[i - 1], c.inbox[i])
  <2>1. CASE i = m
    <3>1. h[i] = last /\ i # 0 /\ i - 1 \in 0 .. m /\ i - 1 # m
      BY <1>2, <1>3, <2>1
    <3>2. h[i - 1] = g[m - 1]
      BY <2>1, <3>1
    <3> QED BY <2>1, <3>1, <3>2
  <2>2. CASE i # m
    <3>1. i \in 0 .. (m - 1) /\ h[i] = g[i]
      BY <1>2, <1>3, <2>2
    <3>2. g[i] = IF i = 0 THEN c.stream ELSE Handled(g[i - 1], c.inbox[i])
      BY <1>5, <3>1 DEF Trace
    <3>3. i # 0 => i - 1 \in 0 .. m /\ i - 1 # m
      BY <1>2, <3>1
    <3> QED BY <3>1, <3>2, <3>3
  <2> QED BY <2>1, <2>2
<1>7. Trace(c, m, h)
  <2>1. h = [i \in 0 .. m |-> h[i]]
    OBVIOUS
  <2> HIDE DEF h
  <2> QED BY <1>6, <2>1 DEF Trace
<1> QED BY <1>2, <1>7

\* Streams is the function its recursive definition describes.
LEMMA StreamsTrace ==
  ASSUME NEW c, Len(c.inbox) \in Nat
  PROVE  Trace(c, Len(c.inbox), Streams(c))
<1> DEFINE n == Len(c.inbox)
<1>1. \E g : Trace(c, n, g)
  BY TraceExists
<1>2. Streams(c) = CHOOSE g : Trace(c, n, g)
  BY DEF Streams, Trace
<1> QED BY <1>1, <1>2

-----------------------------------------------------------------------------
\* What the stream does to a connection that nothing came for, and to any other.
LEMMA IncomingFacts ==
  ASSUME NEW c, IsConn(c), NEW d \in HandleIncoming(c)
  PROVE  /\ IsConn(d) /\ d.role = c.role /\ d.session = c.session
         /\ c.inbox # <<>> => d.silent = 0
         /\ c.inbox = <<>> => d.stream = c.stream /\ (~c.queued => ~d.queued)
<1> DEFINE n == Readable(c)
           s == Streams(c)[n]
           e == n < Len(c.inbox)
           q == c.queued \/ FinAcked(c, n)
           rest == SubSeq(c.inbox, n + 2, Len(c.inbox))
           quiet == IF c.inbox = <<>> THEN c.silent ELSE 0
<1>1. PICK f \in {c.flight, c.flight /\ ~Acknowledges(c, n)} :
        d = [c EXCEPT !.stream = s, !.err = e, !.queued = q, !.flight = f,
                      !.inbox = rest, !.silent = quiet]
  BY Zenon DEF HandleIncoming
<1>2. ASSUME c.inbox = <<>>
      PROVE  s = c.stream /\ (~c.queued => ~q)
  <2>1. Len(c.inbox) = 0 /\ 0 .. 0 = {0} /\ 1 .. 0 = {}
    BY <1>2
  <2>2. n = 0
    BY <2>1 DEF Readable
  <2>3. s = c.stream
    BY <2>1, <2>2, StreamsTrace DEF Trace
  <2>4. ~FinAcked(c, n)
    BY <2>1, <2>2 DEF FinAcked
  <2> QED BY <2>3, <2>4
<1> HIDE DEF n, s, e, q, rest
<1>3. /\ IsConn(d) /\ d.role = c.role /\ d.session = c.session
      /\ d.stream = s /\ d.queued = q /\ d.silent = quiet
  <2> HIDE DEF quiet
  <2> QED BY <1>1 DEF IsConn, Fields
<1> QED BY <1>2, <1>3

LEMMA OutgoingFacts ==
  ASSUME NEW c, IsConn(c), NEW d \in HandleOutgoing(c)
  PROVE  /\ IsConn(d) /\ d.role = c.role /\ d.session = c.session
         /\ d.stream = c.stream /\ d.silent = c.silent
         /\ ~c.queued => ~d.queued
<1>1. \/ d = [c EXCEPT !.err = TRUE]
      \/ \E q \in {FALSE, c.queued} :
           d = [c EXCEPT !.queued = q, !.flight = c.flight \/ c.queued]
  BY DEF HandleOutgoing
<1>2. CASE d = [c EXCEPT !.err = TRUE]
  BY <1>2 DEF IsConn, Fields
<1>3. ASSUME NEW q \in {FALSE, c.queued},
             d = [c EXCEPT !.queued = q, !.flight = c.flight \/ c.queued]
      PROVE  /\ IsConn(d) /\ d.role = c.role /\ d.session = c.session
             /\ d.stream = c.stream /\ d.silent = c.silent /\ d.queued = q
  BY <1>3 DEF IsConn, Fields
<1> QED BY <1>1, <1>2, <1>3

LEMMA PumpFacts ==
  ASSUME NEW c, IsConn(c), NEW p \in Pump(c)
  PROVE  /\ IsConn(p) /\ p.role = c.role /\ p.session = c.session
         /\ Closes(c) => p.stream = "Closed"
         /\ c.err /\ ~Closes(c) => p = c
         /\ ~PumpEnds(c) /\ p.silent >= ClientTimeout =>
              p.stream = c.stream /\ (~c.queued => ~p.queued)
<1>1. CASE Closes(c)
  <2>1. p = [c EXCEPT !.stream = "Closed"]
    BY <1>1 DEF Pump
  <2> QED BY <1>1, <2>1 DEF IsConn, Fields, PumpEnds
<1>2. CASE ~Closes(c) /\ c.err
  BY <1>2 DEF Pump, PumpEnds
<1>3. CASE ~Closes(c) /\ ~c.err
  <2>1. PICK d \in HandleIncoming(c) : p \in HandleOutgoing(d)
    BY <1>3 DEF Pump
  <2>2. /\ IsConn(d) /\ d.role = c.role /\ d.session = c.session
        /\ c.inbox # <<>> => d.silent = 0
        /\ c.inbox = <<>> => d.stream = c.stream /\ (~c.queued => ~d.queued)
    BY IncomingFacts
  <2>3. /\ IsConn(p) /\ p.role = d.role /\ p.session = d.session
        /\ p.stream = d.stream /\ p.silent = d.silent
        /\ ~d.queued => ~p.queued
    BY <2>1, <2>2, OutgoingFacts
  <2>4. ~ (0 >= ClientTimeout)
    BY ServiceAssumption
  <2> QED BY <1>3, <2>2, <2>3, <2>4
<1> QED BY <1>1, <1>2, <1>3

LEMMA DisconnectFacts ==
  ASSUME NEW c, IsConn(c)
  PROVE  /\ IsConn(Disconnect(c)) /\ Disconnect(c).role = "disconnecting"
         /\ c.stream \in {"Established", "Closing"} /\ ~c.queued => Closes(Disconnect(c))
         /\ c.stream = "Closed" => Closes(Disconnect(c))
<1> DEFINE s == IF c.stream = "Established" THEN "Closing" ELSE c.stream
           t == IF c.stream = "Established" THEN 1 ELSE c.closing
<1>1. Disconnect(c) =
        [c EXCEPT !.role = "disconnecting", !.stream = s, !.closing = t, !.silent = 0]
  BY DEF Disconnect
<1>2. /\ c.stream \in {"Established", "Closing"} => s = "Closing"
      /\ c.stream = "Closed" => s = "Closed"
  OBVIOUS
<1> HIDE DEF s, t
<1>3. /\ IsConn(Disconnect(c)) /\ Disconnect(c).role = "disconnecting"
      /\ Disconnect(c).stream = s /\ Disconnect(c).queued = c.queued
  BY <1>1 DEF IsConn, Fields
<1> QED BY <1>2, <1>3 DEF Closes

\* What a Poll makes of one connection.
LEMMA HandleFacts ==
  ASSUME NEW c, IsConn(c)
  PROVE  /\ IsConn(HandleClientConnection(c))
         /\ HandleClientConnection(c).role = "client" =>
              HandleClientConnection(c).session \in tokens \/ c.role = "client"
         /\ c.role # "new" => HandleClientConnection(c) = c
BY NoConnFacts DEF HandleClientConnection, IsConn, Fields

LEMMA PollClientFacts ==
  ASSUME NEW c, IsConn(c), NEW kicked \in BOOLEAN, NEW d \in PollClient(c, kicked)
  PROVE  /\ IsConn(d)
         /\ d.role = "client" => c.role = "client" /\ d.session = c.session
         /\ c.role # "client" => d = c
         /\ c.role = "client" /\ c.stream \in {"Established", "Closing"} /\ ~c.queued =>
              d.role = "client" \/ Closes(d)
<1>1. CASE c.role # "client"
  BY <1>1 DEF PollClient
<1>2. CASE c.role = "client" /\ kicked
  BY <1>2, DisconnectFacts DEF PollClient
<1>3. CASE c.role = "client" /\ ~kicked
  <2>1. PICK p \in Pump(c) :
          d = IF PumpEnds(c) \/ p.silent >= ClientTimeout THEN Disconnect(p) ELSE p
    BY <1>3 DEF PollClient
  <2>2. /\ IsConn(p) /\ p.role = c.role /\ p.session = c.session
        /\ Closes(c) => p.stream = "Closed"
        /\ c.err /\ ~Closes(c) => p = c
        /\ ~PumpEnds(c) /\ p.silent >= ClientTimeout =>
             p.stream = c.stream /\ (~c.queued => ~p.queued)
    BY PumpFacts
  <2>3. CASE ~ (PumpEnds(c) \/ p.silent >= ClientTimeout)
    BY <1>3, <2>1, <2>2, <2>3
  <2>4. CASE PumpEnds(c) \/ p.silent >= ClientTimeout
    <3>1. d = Disconnect(p)
      BY <2>1, <2>4
    <3>2. c.stream \in {"Established", "Closing"} /\ ~c.queued =>
            \/ p.stream = "Closed"
            \/ p.stream \in {"Established", "Closing"} /\ ~p.queued
      BY <2>2, <2>4 DEF PumpEnds
    <3> QED BY <1>3, <2>2, <3>1, <3>2, DisconnectFacts
  <2> QED BY <2>3, <2>4
<1> QED BY <1>1, <1>2, <1>3

LEMMA PollDisconnectingFacts ==
  ASSUME NEW c, IsConn(c), NEW d \in PollDisconnecting(c)
  PROVE  /\ IsConn(d)
         /\ d.role = "client" => d = c
         /\ d.role = "disconnecting" => c.role = "disconnecting" /\ ~Closes(c)
<1>1. CASE c.role # "disconnecting"
  BY <1>1 DEF PollDisconnecting
<1>2. CASE c.role = "disconnecting"
  <2>1. PICK p \in Pump(c) : d = IF p.stream = "Closed" THEN NoConn ELSE p
    BY <1>2 DEF PollDisconnecting
  <2> QED BY <1>2, <2>1, PumpFacts, NoConnFacts
<1> QED BY <1>1, <1>2

LEMMA PollFacts ==
  ASSUME IInv, NEW kicked \in SUBSET Addresses, Poll(kicked), NEW a \in Addresses
  PROVE  /\ IsConn(conn'[a])
         /\ conn'[a].role = "client" => conn'[a].session \in tokens
         /\ MustRelease(conn[a]) => conn'[a].role # "disconnecting"
<1> DEFINE h == HandleClientConnection(conn[a])
           k == (a \in kicked)
<1>1. PICK c \in PollClient(h, k) : conn'[a] \in PollDisconnecting(c)
  BY DEF Poll, Polled
<1>2. IsConn(conn[a]) /\ (conn[a].role = "client" => conn[a].session \in tokens)
  BY DEF IInv, Shape, IsConn, TokenAlive
<1>3. /\ IsConn(h)
      /\ h.role = "client" => h.session \in tokens
      /\ conn[a].role # "new" => h = conn[a]
  BY <1>2, HandleFacts
<1>4. k \in BOOLEAN
  OBVIOUS
<1> HIDE DEF h, k
<1>5. /\ IsConn(c)
      /\ c.role = "client" => h.role = "client" /\ c.session = h.session
      /\ h.role # "client" => c = h
      /\ h.role = "client" /\ h.stream \in {"Established", "Closing"} /\ ~h.queued =>
           c.role = "client" \/ Closes(c)
  BY <1>3, <1>4, PollClientFacts
<1>6. /\ IsConn(conn'[a])
      /\ conn'[a].role = "client" => conn'[a] = c
      /\ conn'[a].role = "disconnecting" => c.role = "disconnecting" /\ ~Closes(c)
  BY <1>1, <1>5, PollDisconnectingFacts
<1>7. MustRelease(conn[a]) => c.role = "client" \/ Closes(c)
  BY <1>3, <1>5 DEF MustRelease, Closes
<1> QED BY <1>3, <1>5, <1>6, <1>7

-----------------------------------------------------------------------------
LEMMA InitEstablishes == Init => IInv
BY NoConnFacts DEF Init, IInv, Shape, TokenAlive, IsConn

LEMMA PollPreserves ==
  ASSUME IInv, NEW kicked \in SUBSET Addresses, Poll(kicked)
  PROVE  IInv'
<1>1. Shape'
  <2>1. conn' = [a \in Addresses |-> conn'[a]]
    BY DEF Poll
  <2> QED BY <2>1, PollFacts DEF Shape, IsConn
<1>2. TokenAlive'
  <2> SUFFICES ASSUME NEW a \in Addresses, conn'[a].role = "client"
               PROVE  conn'[a].session \in tokens'
    BY DEF TokenAlive
  <2>1. conn'[a].session \in tokens
    BY PollFacts
  <2>2. conn'[a].session \in Refreshed(conn')
    BY DEF Refreshed
  <2> QED BY <2>1, <2>2 DEF Poll, Kept
<1> QED BY <1>1, <1>2 DEF IInv

\* What does not touch the connections, and drops no token.
LEMMA KeepsConnections ==
  ASSUME IInv, UNCHANGED conn, tokens \subseteq tokens'
  PROVE  IInv'
BY DEF IInv, Shape, TokenAlive

\* What changes neither the role of a connection that is no client nor its
\* session.
LEMMA KeepsClients ==
  ASSUME IInv, UNCHANGED tokens, conn' = [a \in Addresses |-> conn'[a]],
         \A a \in Addresses :
           /\ IsConn(conn'[a]) /\ conn'[a].session = conn[a].session
           /\ conn'[a].role = "client" <=> conn[a].role = "client"
  PROVE  IInv'
BY DEF IInv, Shape, TokenAlive, IsConn

LEMMA DeliverPreserves ==
  ASSUME IInv, NEW d, Deliver(d)
  PROVE  IInv'
<1> DEFINE b == d.from
           q == Append(conn[b].inbox, d)
           r == IF conn[b].role = "none" THEN "new" ELSE conn[b].role
<1>1. conn' = [conn EXCEPT ![b] = [@ EXCEPT !.inbox = q, !.role = r]]
  BY DEF IInv, Shape, Fields, Deliver
<1>2. r = "client" <=> conn[b].role = "client"
  OBVIOUS
<1>3. UNCHANGED tokens
  BY DEF Deliver
<1> HIDE DEF q, r
<1>4. \A a \in Addresses : IsConn(conn[a])
  BY DEF IInv, Shape, IsConn
<1>5. /\ conn' = [a \in Addresses |-> conn'[a]]
      /\ \A a \in Addresses : a # b => conn'[a] = conn[a]
      /\ b \in Addresses => conn'[b] = [conn[b] EXCEPT !.inbox = q, !.role = r]
  BY <1>1 DEF IInv, Shape
<1>6. b \in Addresses =>
        IsConn(conn'[b]) /\ conn'[b].session = conn[b].session /\ conn'[b].role = r
  BY <1>4, <1>5 DEF IsConn, Fields
<1>7. CASE b \in Addresses
  BY <1>2, <1>3, <1>4, <1>5, <1>6, <1>7, KeepsClients
<1>8. CASE b \notin Addresses
  BY <1>3, <1>4, <1>5, <1>8, KeepsClients
<1> QED BY <1>7, <1>8

LEMMA QueuePreserves ==
  ASSUME IInv, NEW b \in Addresses, Queue(b)
  PROVE  IInv'
<1>1. \A a \in Addresses : IsConn(conn[a])
  BY DEF IInv, Shape, IsConn
<1>2. /\ conn' = [a \in Addresses |-> conn'[a]]
      /\ \A a \in Addresses : a # b => conn'[a] = conn[a]
      /\ conn'[b] = [conn[b] EXCEPT !.queued = TRUE]
      /\ UNCHANGED tokens
  BY DEF IInv, Shape, Queue
<1>3. /\ IsConn(conn'[b]) /\ conn'[b].session = conn[b].session
      /\ conn'[b].role = conn[b].role
  BY <1>1, <1>2 DEF IsConn, Fields
<1> QED BY <1>1, <1>2, <1>3, KeepsClients

LEMMA TickPreserves == ASSUME IInv, Tick PROVE IInv'
<1>1. \A a \in Addresses : IsConn(conn[a])
  BY DEF IInv, Shape, IsConn
<1>2. /\ conn' = [a \in Addresses |-> conn'[a]] /\ UNCHANGED tokens
      /\ \A a \in Addresses :
           \/ conn'[a] = conn[a]
           \/ conn'[a] = [conn[a] EXCEPT !.silent = @ + 1]
           \/ conn'[a] = [conn[a] EXCEPT !.closing = @ + 1]
  BY DEF Tick, Later
<1>3. \A a \in Addresses :
        LET c == [conn[a] EXCEPT !.silent = @ + 1]
            d == [conn[a] EXCEPT !.closing = @ + 1]
        IN  /\ IsConn(c) /\ c.session = conn[a].session /\ c.role = conn[a].role
            /\ IsConn(d) /\ d.session = conn[a].session /\ d.role = conn[a].role
  BY <1>1 DEF IsConn, Fields
<1> QED BY <1>1, <1>2, <1>3, KeepsClients

LEMMA NextStep ==
  ASSUME IInv, [Next]_vars
  PROVE  IInv'
<1>1. CASE AuthConnect \/ AuthReceive \/ AuthDrop
  BY <1>1, KeepsConnections DEF AuthConnect, AuthReceive, AuthDrop
<1>2. CASE \E a \in Addresses : SendSyn(a) \/ RecvSynAck(a) \/ SendData(a) \/ Leave(a)
  BY <1>2, KeepsConnections DEF SendSyn, RecvSynAck, SendData, Leave
<1>3. CASE \E a \in Addresses : Queue(a)
  BY <1>3, QueuePreserves
<1>4. CASE \E d \in net : Deliver(d)
  BY <1>4, DeliverPreserves
<1>5. CASE \E d \in net : Lose(d)
  BY <1>5, KeepsConnections DEF Lose
<1>6. CASE \E kicked \in SUBSET Addresses : Poll(kicked)
  BY <1>6, PollPreserves
<1>7. CASE Tick
  BY <1>7, TickPreserves
<1>8. CASE UNCHANGED vars
  BY <1>8, KeepsConnections DEF vars
<1> QED BY <1>1, <1>2, <1>3, <1>4, <1>5, <1>6, <1>7, <1>8 DEF Next

THEOREM InvariantHolds == Spec => []IInv
<1>1. IInv /\ [Next]_vars => IInv'
  BY NextStep
<1> QED BY <1>1, InitEstablishes, PTL DEF Spec

\* The token of a connected client is never dropped under it, however long
\* the service was held up between two Polls.
THEOREM TokensAlive == Spec => []TokenAlive
<1>1. IInv => TokenAlive
  BY DEF IInv
<1> QED BY <1>1, InvariantHolds, PTL

\* A client whose handshake was complete and that has nothing queued is released
\* in the Poll that drops it, and one that is closing, and not in error, by the
\* first Poll after the close timeout; its address with it.
THEOREM EstablishedClientsReleased == Spec => EstablishedReleased
<1> DEFINE Released ==
      \A kicked \in SUBSET Addresses :
        Poll(kicked) =>
          \A a \in Addresses : MustRelease(conn[a]) => conn'[a].role # "disconnecting"
<1>1. IInv => [Released]_vars
  BY PollFacts
<1>2. Spec => [][Released]_vars
  <2> HIDE DEF Released
  <2> QED BY <1>1, InvariantHolds, PTL DEF Spec
<1> QED BY <1>2 DEF EstablishedReleased

-----------------------------------------------------------------------------
\* A datagram carries a session there is, and so does an authentication under way.
TypeInv ==
  /\ TypeOK
  /\ IsFiniteSet(net)
  /\ auth # "none" => session < SessionLimit
  /\ mode # "off" => session \in Sessions

LEMMA HandledType ==
  ASSUME NEW s \in StreamStates, NEW d
  PROVE  Handled(s, d) \in StreamStates
BY DEF Handled, StreamStates

LEMMA StreamsType ==
  ASSUME NEW c, Len(c.inbox) \in Nat, c.stream \in StreamStates,
         NEW n \in 0 .. Len(c.inbox)
  PROVE  Streams(c)[n] \in StreamStates
<1> DEFINE bad == {i \in 0 .. Len(c.inbox) : Streams(c)[i] \notin StreamStates}
<1> SUFFICES ASSUME bad # {}
             PROVE  FALSE
  OBVIOUS
<1>1. PICK m \in bad : \A k \in bad : m <= k
  <2>1. bad \in SUBSET Nat
    OBVIOUS
  <2> HIDE DEF bad
  <2> QED BY <2>1, LeastNat
<1>2. Streams(c)[m] = IF m = 0 THEN c.stream ELSE Handled(Streams(c)[m - 1], c.inbox[m])
  BY StreamsTrace DEF Trace
<1>3. m # 0 /\ Streams(c)[m] \notin StreamStates
  BY <1>2
<1>4. m - 1 \in 0 .. Len(c.inbox) /\ m - 1 \notin bad
  BY <1>1, <1>3
<1>5. Streams(c)[m - 1] \in StreamStates
  BY <1>4
<1> QED BY <1>2, <1>3, <1>5, HandledType

LEMMA ReadableType ==
  ASSUME NEW c, Len(c.inbox) \in Nat
  PROVE  Readable(c) \in 0 .. Len(c.inbox)
<1> DEFINE ends == {n \in 0 .. Len(c.inbox) :
                      n < Len(c.inbox) => c.inbox[n + 1].session # c.session}
<1>1. ends \in SUBSET Nat /\ Len(c.inbox) \in ends
  OBVIOUS
<1>2. PICK n \in ends : \A k \in ends : n <= k
  <2> HIDE DEF ends
  <2> QED BY <1>1, LeastNat
<1>3. ASSUME NEW i \in 1 .. n
      PROVE  c.inbox[i].session = c.session
  <2>1. i - 1 \in 0 .. Len(c.inbox) /\ i - 1 < Len(c.inbox) /\ ~ (n <= i - 1)
    OBVIOUS
  <2>2. i - 1 \notin ends
    BY <1>2, <2>1
  <2>3. (i - 1) + 1 = i
    OBVIOUS
  <2> QED BY <2>1, <2>2, <2>3
<1>4. \E k \in 0 .. Len(c.inbox) :
        /\ \A i \in 1 .. k : c.inbox[i].session = c.session
        /\ k < Len(c.inbox) => c.inbox[k + 1].session # c.session
  BY <1>3
<1> QED BY <1>4 DEF Readable

LEMMA ConnectionFields ==
  ASSUME NEW c \in Connection
  PROVE  /\ c.role \in Roles /\ c.session \in 0 .. SessionLimit
         /\ c.stream \in StreamStates /\ c.err \in BOOLEAN
         /\ c.queued \in BOOLEAN /\ c.flight \in BOOLEAN
         /\ c.closing \in 0 .. CloseTimeout + 1
         /\ c.inbox \in Seq(Datagram) /\ Len(c.inbox) \in Nat
         /\ c.silent \in 0 .. ClientTimeout
BY DEF Connection

LEMMA NoConnType == NoConn \in Connection
<1>1. /\ 0 \in 0 .. SessionLimit /\ 0 \in 0 .. ClientTimeout
      /\ 0 \in 0 .. CloseTimeout + 1 /\ <<>> \in Seq(Datagram)
  BY ServiceAssumption
<1> QED BY <1>1 DEF NoConn, Connection, Roles, StreamStates

LEMMA IncomingType ==
  ASSUME NEW c \in Connection, NEW d \in HandleIncoming(c)
  PROVE  d \in Connection
<1> DEFINE n == Readable(c)
           s == Streams(c)[n]
           e == n < Len(c.inbox)
           q == c.queued \/ FinAcked(c, n)
           rest == SubSeq(c.inbox, n + 2, Len(c.inbox))
           quiet == IF c.inbox = <<>> THEN c.silent ELSE 0
           F == {c.flight, c.flight /\ ~Acknowledges(c, n)}
<1>1. PICK f \in F :
        d = [c EXCEPT !.stream = s, !.err = e, !.queued = q, !.flight = f,
                      !.inbox = rest, !.silent = quiet]
  BY Zenon DEF HandleIncoming
<1>2. n \in 0 .. Len(c.inbox)
  BY ConnectionFields, ReadableType
<1>3. s \in StreamStates
  BY <1>2, ConnectionFields, StreamsType
<1>4. rest \in Seq(Datagram)
  <2>1. c.inbox \in Seq(Datagram) /\ Len(c.inbox) \in Nat
    BY ConnectionFields
  <2> HIDE DEF n
  <2> QED BY <1>2, <2>1
<1>5. quiet \in 0 .. ClientTimeout
  BY ConnectionFields, ServiceAssumption
<1>6. q \in BOOLEAN
  BY ConnectionFields, Zenon DEF FinAcked
<1>7. f \in BOOLEAN
  <2>1. c.flight \in BOOLEAN
    BY ConnectionFields
  <2>2. (c.flight /\ ~Acknowledges(c, n)) \in BOOLEAN
    BY <2>1, Zenon
  <2> QED BY <2>1, <2>2, Zenon
<1>8. e \in BOOLEAN
  OBVIOUS
<1> HIDE DEF n, s, e, q, rest, quiet, F
<1> QED BY <1>1, <1>3, <1>4, <1>5, <1>6, <1>7, <1>8 DEF Connection

LEMMA OutgoingType ==
  ASSUME NEW c \in Connection, NEW d \in HandleOutgoing(c)
  PROVE  d \in Connection
<1>1. \/ d = [c EXCEPT !.err = TRUE]
      \/ \E q \in {FALSE, c.queued} :
           d = [c EXCEPT !.queued = q, !.flight = c.flight \/ c.queued]
  BY DEF HandleOutgoing
<1>2. c.queued \in BOOLEAN /\ (c.flight \/ c.queued) \in BOOLEAN
  BY ConnectionFields
<1> QED BY <1>1, <1>2 DEF Connection

LEMMA PumpType ==
  ASSUME NEW c \in Connection, NEW p \in Pump(c)
  PROVE  p \in Connection
<1>1. CASE Closes(c)
  <2>1. p = [c EXCEPT !.stream = "Closed"] /\ "Closed" \in StreamStates
    BY <1>1 DEF Pump, StreamStates
  <2> QED BY <2>1 DEF Connection
<1>2. CASE ~Closes(c) /\ c.err
  BY <1>2 DEF Pump
<1>3. CASE ~Closes(c) /\ ~c.err
  BY <1>3, IncomingType, OutgoingType DEF Pump
<1> QED BY <1>1, <1>2, <1>3

LEMMA HandleType ==
  ASSUME TypeOK, NEW c \in Connection
  PROVE  HandleClientConnection(c) \in Connection
<1>1. tokens \subseteq 0 .. SessionLimit /\ "client" \in Roles
  BY ServiceAssumption DEF TypeOK, Roles
<1>2. CASE c.role = "new" /\ c.inbox[1].session \in tokens
  BY <1>1, <1>2 DEF HandleClientConnection, Connection
<1>3. CASE ~ (c.role = "new" /\ c.inbox[1].session \in tokens)
  BY <1>3, NoConnType DEF HandleClientConnection
<1> QED BY <1>2, <1>3

LEMMA DisconnectType ==
  ASSUME NEW c \in Connection
  PROVE  Disconnect(c) \in Connection
<1> DEFINE s == IF c.stream = "Established" THEN "Closing" ELSE c.stream
           t == IF c.stream = "Established" THEN 1 ELSE c.closing
<1>1. Disconnect(c) =
        [c EXCEPT !.role = "disconnecting", !.stream = s, !.closing = t, !.silent = 0]
  BY DEF Disconnect
<1>2. /\ s \in StreamStates /\ t \in 0 .. CloseTimeout + 1 /\ 0 \in 0 .. ClientTimeout
      /\ "disconnecting" \in Roles
  BY ConnectionFields, ServiceAssumption DEF StreamStates, Roles
<1> HIDE DEF s, t
<1> QED BY <1>1, <1>2 DEF Connection

LEMMA PollType ==
  ASSUME TypeOK, NEW kicked \in SUBSET Addresses, Poll(kicked), NEW a \in Addresses
  PROVE  conn'[a] \in Connection
<1> DEFINE h == HandleClientConnection(conn[a])
           k == (a \in kicked)
<1>1. PICK c \in PollClient(h, k) : conn'[a] \in PollDisconnecting(c)
  BY DEF Poll, Polled
<1>2. h \in Connection
  BY HandleType DEF TypeOK
<1> HIDE DEF h, k
<1>3. c \in Connection
  BY <1>1, <1>2, PumpType, DisconnectType DEF PollClient
<1> QED BY <1>1, <1>3, PumpType, NoConnType DEF PollDisconnecting

-----------------------------------------------------------------------------
LEMMA SendType ==
  ASSUME TypeInv, NEW a \in Addresses, NEW kind \in Kinds, session \in Sessions, Send(a, kind)
  PROVE  net' \subseteq Datagram /\ IsFiniteSet(net') /\ Cardinality(net') <= NetLimit
<1> DEFINE d == [from |-> a, session |-> session, kind |-> kind]
<1>1. d \in Datagram
  BY DEF Datagram
<1>2. /\ net \subseteq Datagram /\ IsFiniteSet(net)
      /\ Cardinality(net) \in Nat /\ Cardinality(net) <= NetLimit
  BY FS_CardinalityType DEF TypeInv, TypeOK
<1>3. \/ Cardinality(net \cup {d}) <= NetLimit /\ net' = net \cup {d}
      \/ \E lost \in net : net' = (net \ {lost}) \cup {d}
  BY DEF Send
<1> HIDE DEF d
<1>4. CASE Cardinality(net \cup {d}) <= NetLimit /\ net' = net \cup {d}
  BY <1>1, <1>2, <1>4, FS_AddElement
<1>5. ASSUME NEW lost \in net, net' = (net \ {lost}) \cup {d}
      PROVE  net' \subseteq Datagram /\ IsFiniteSet(net') /\ Cardinality(net') <= NetLimit
  <2>1. /\ IsFiniteSet(net \ {lost})
        /\ Cardinality(net \ {lost}) = Cardinality(net) - 1
    BY <1>2, FS_RemoveElement
  <2>2. /\ IsFiniteSet(net')
        /\ \/ Cardinality(net') = Cardinality(net \ {lost})
           \/ Cardinality(net') = Cardinality(net \ {lost}) + 1
    BY <1>5, <2>1, FS_AddElement
  <2> QED BY <1>1, <1>2, <1>5, <2>1, <2>2, ServiceAssumption
<1> QED BY <1>3, <1>4, <1>5

-----------------------------------------------------------------------------
\* The initial state.
LEMMA InitTypeInv == Init => TypeInv
<1> SUFFICES ASSUME Init
             PROVE  TypeInv
  OBVIOUS
<1>1. "none" \in Range(AuthStates) \cup {"none"}
  OBVIOUS
<1>2. age \in [Sessions -> 0 .. AuthTimeout + 1]
  <2>1. 0 \in 0 .. AuthTimeout + 1
    BY ServiceAssumption
  <2> QED BY <2>1 DEF Init
<1>3. conn \in [Addresses -> Connection]
  BY NoConnType DEF Init
<1>4. session = 0 /\ 0 \in 0 .. SessionLimit
  BY ServiceAssumption DEF Init
<1>5. net \subseteq Datagram /\ IsFiniteSet(net) /\ Cardinality(net) <= NetLimit
  BY FS_EmptySet, ServiceAssumption DEF Init
<1> QED BY <1>1, <1>2, <1>3, <1>4, <1>5 DEF Init, TypeInv, TypeOK

\* The messages of the authentication.
LEMMA AuthTypeInv ==
  ASSUME TypeInv, AuthConnect \/ AuthReceive \/ AuthDrop
  PROVE  TypeInv'
<1>0. /\ TypeOK /\ IsFiniteSet(net) /\ (auth # "none" => session < SessionLimit)
      /\ (mode # "off" => session \in Sessions)
      /\ session \in Nat /\ SessionLimit \in Nat
      /\ \A i \in 1 .. Len(AuthStates) : AuthStates[i] \in Range(AuthStates)
      /\ \A i \in 1 .. Len(AuthStates) : AuthStates[i] # "none"
  <2>1. DOMAIN AuthStates = 1 .. 4 /\ Len(AuthStates) = 4
    BY DEF AuthStates
  <2>2. \A i \in 1 .. Len(AuthStates) : AuthStates[i] \in Range(AuthStates)
    BY <2>1 DEF Range
  <2>3. \A i \in 1 .. Len(AuthStates) : AuthStates[i] # "none"
    BY DEF AuthStates
  <2>4. session \in Nat /\ SessionLimit \in Nat
    BY ServiceAssumption DEF TypeInv, TypeOK
  <2> QED BY <2>2, <2>3, <2>4 DEF TypeInv
<1>a. Len(AuthStates) = 4
  BY DEF AuthStates
<1>1. CASE AuthConnect
  <2>1. auth' = AuthStates[1] /\ 1 \in 1 .. Len(AuthStates)
    BY <1>a, <1>1 DEF AuthConnect
  <2>2. auth' \in Range(AuthStates) \cup {"none"}
    BY <1>0, <2>1
  <2> QED BY <1>0, <1>1, <2>2 DEF AuthConnect, TypeInv, TypeOK, Sessions
<1>2. CASE AuthDrop
  BY <1>0, <1>2 DEF AuthDrop, TypeInv, TypeOK, Sessions
<1>3. CASE AuthReceive
  <2>1. PICK i \in 1 .. Len(AuthStates) :
          /\ auth = AuthStates[i]
          /\ IF i < Len(AuthStates)
               THEN /\ auth' = AuthStates[i + 1]
                    /\ UNCHANGED <<session, tokens, age, mode>>
               ELSE /\ auth' = "none"
                    /\ session' = session + 1
                    /\ tokens' = tokens \cup {session'}
                    /\ age' = [age EXCEPT ![session'] = 0]
                    /\ mode' = "connecting"
          /\ UNCHANGED <<conn, net>>
    BY <1>3 DEF AuthReceive
  <2>2. CASE i < Len(AuthStates)
    <3>1. i + 1 \in 1 .. Len(AuthStates)
      BY <1>a, <2>1, <2>2
    <3>2. auth' \in Range(AuthStates) \cup {"none"}
      BY <1>0, <2>1, <2>2, <3>1
    <3>3. auth # "none" /\ UNCHANGED <<session, tokens, age, mode, conn, net>>
      BY <1>0, <2>1, <2>2
    <3> QED BY <1>0, <3>2, <3>3 DEF TypeInv, TypeOK, Sessions
  <2>3. CASE ~ (i < Len(AuthStates))
    <3>1. session < SessionLimit
      BY <1>0, <2>1
    <3>2. /\ auth' = "none" /\ session' = session + 1 /\ session' \in Sessions
          /\ tokens' = tokens \cup {session'} /\ age' = [age EXCEPT ![session'] = 0]
          /\ mode' = "connecting" /\ UNCHANGED <<conn, net>>
      BY <1>0, <2>1, <2>3, <3>1 DEF Sessions
    <3>3. tokens' \subseteq 1 .. session' /\ session' \in 0 .. SessionLimit
      BY <1>0, <3>2 DEF TypeOK, Sessions
    <3>4. age' \in [Sessions -> 0 .. AuthTimeout + 1]
      BY <1>0, <3>2, ServiceAssumption DEF TypeOK
    <3> QED BY <1>0, <3>2, <3>3, <3>4 DEF TypeInv, TypeOK
  <2> QED BY <2>2, <2>3
<1> QED BY <1>1, <1>2, <1>3

\* The player's game, and the network.
LEMMA PlayerTypeInv ==
  ASSUME TypeInv, NEW a \in Addresses,
         SendSyn(a) \/ RecvSynAck(a) \/ SendData(a) \/ Leave(a)
  PROVE  TypeInv'
<1>1. UNCHANGED <<auth, age, tokens, conn, session>>
  BY DEF SendSyn, RecvSynAck, SendData, Leave
<1>2. mode # "off" /\ session \in Sessions
  BY DEF SendSyn, RecvSynAck, SendData, Leave, TypeInv
<1>3. mode' \in {"off", "connecting", "playing"}
  BY DEF SendSyn, RecvSynAck, SendData, Leave, TypeInv, TypeOK
<1>4. UNCHANGED net \/ \E kind \in Kinds : Send(a, kind)
  BY DEF SendSyn, RecvSynAck, SendData, Leave, Kinds
<1>5. net' \subseteq Datagram /\ IsFiniteSet(net') /\ Cardinality(net') <= NetLimit
  BY <1>2, <1>4, SendType DEF TypeInv, TypeOK
<1> QED BY <1>1, <1>2, <1>3, <1>5 DEF TypeInv, TypeOK

LEMMA NetTypeInv ==
  ASSUME TypeInv, NEW d \in net, Deliver(d) \/ Lose(d)
  PROVE  TypeInv'
<1>1. /\ UNCHANGED <<auth, age, tokens, session, mode>> /\ net' = net \ {d}
  BY DEF Deliver, Lose
<1>2. net' \subseteq Datagram /\ IsFiniteSet(net') /\ Cardinality(net') <= NetLimit
  <2>1. net \subseteq Datagram /\ IsFiniteSet(net) /\ Cardinality(net) <= NetLimit
    BY DEF TypeInv, TypeOK
  <2>2. IsFiniteSet(net') /\ Cardinality(net') = Cardinality(net) - 1
        /\ Cardinality(net) \in Nat
    BY <1>1, <2>1, FS_RemoveElement, FS_CardinalityType
  <2> QED BY <1>1, <2>1, <2>2, ServiceAssumption
<1>3. conn' \in [Addresses -> Connection]
  <2>1. conn \in [Addresses -> Connection]
    BY DEF TypeInv, TypeOK
  <2>2. CASE Lose(d)
    BY <2>1, <2>2 DEF Lose
  <2>3. CASE Deliver(d)
    <3> DEFINE b == d.from
               q == Append(conn[b].inbox, d)
               r == IF conn[b].role = "none" THEN "new" ELSE conn[b].role
    <3>1. d \in Datagram /\ b \in Addresses
      BY DEF TypeInv, TypeOK, Datagram
    <3>2. conn[b] \in Connection
      BY <2>1, <3>1
    <3>3. q \in Seq(Datagram) /\ r \in Roles
      BY <3>1, <3>2, ConnectionFields DEF Roles
    <3>4. conn' = [conn EXCEPT ![b] = [@ EXCEPT !.inbox = q, !.role = r]]
      BY <2>1, <2>3, <3>1, <3>2 DEF Deliver, Connection
    <3> HIDE DEF b, q, r
    <3>5. [conn[b] EXCEPT !.inbox = q, !.role = r] \in Connection
      BY <3>2, <3>3 DEF Connection
    <3> QED BY <2>1, <3>1, <3>4, <3>5
  <2> QED BY <2>2, <2>3
<1> QED BY <1>1, <1>2, <1>3 DEF TypeInv, TypeOK

LEMMA ServiceTypeInv ==
  ASSUME TypeInv, \/ \E a \in Addresses : Queue(a)
                  \/ \E kicked \in SUBSET Addresses : Poll(kicked)
                  \/ Tick
  PROVE  TypeInv'
<1>0. /\ TypeOK /\ UNCHANGED <<auth, session, mode, net>>
      /\ conn \in [Addresses -> Connection]
      /\ age \in [Sessions -> 0 .. AuthTimeout + 1]
  BY DEF TypeInv, TypeOK, Queue, Poll, Tick
<1>1. ASSUME tokens' \subseteq tokens, conn' \in [Addresses -> Connection],
             age' \in [Sessions -> 0 .. AuthTimeout + 1]
      PROVE  TypeInv'
  BY <1>0, <1>1 DEF TypeInv, TypeOK
<1>2. ASSUME NEW a \in Addresses, Queue(a)
      PROVE  TypeInv'
  <2>1. conn' = [conn EXCEPT ![a] = [@ EXCEPT !.queued = TRUE]] /\ UNCHANGED <<tokens, age>>
    BY <1>0, <1>2 DEF Queue, Connection
  <2>2. [conn[a] EXCEPT !.queued = TRUE] \in Connection
    BY <1>0 DEF Connection
  <2> QED BY <1>0, <1>1, <2>1, <2>2
<1>3. ASSUME NEW kicked \in SUBSET Addresses, Poll(kicked)
      PROVE  TypeInv'
  <2>1. \A a \in Addresses : conn'[a] \in Connection
    BY <1>0, <1>3, PollType
  <2>2. conn' = [a \in Addresses |-> conn'[a]]
    BY <1>3 DEF Poll
  <2>3. tokens' \subseteq tokens
    BY <1>3 DEF Poll, Kept
  <2>4. age' \in [Sessions -> 0 .. AuthTimeout + 1]
    <3>1. age' = [s \in Sessions |-> IF s \in tokens' \ Refreshed(conn') THEN age[s] ELSE 0]
      BY <1>3 DEF Poll
    <3> QED BY <1>0, <3>1, ServiceAssumption
  <2> QED BY <1>1, <2>1, <2>2, <2>3, <2>4
<1>4. ASSUME Tick
      PROVE  TypeInv'
  <2>1. \A a \in Addresses : Later(conn[a]) \in Connection
    <3> TAKE a \in Addresses
    <3> DEFINE c == conn[a]
    <3>1. c \in Connection
      BY <1>0
    <3> HIDE DEF c
    <3>2. c.silent < ClientTimeout => c.silent + 1 \in 0 .. ClientTimeout
      BY <3>1, ConnectionFields, ServiceAssumption
    <3>3. c.closing \in 1 .. CloseTimeout => c.closing + 1 \in 0 .. CloseTimeout + 1
      BY <3>1, ConnectionFields, ServiceAssumption
    <3>4. Later(c) \in Connection
      BY <3>1, <3>2, <3>3 DEF Later, Connection
    <3> QED BY <3>4 DEF c
  <2>2. conn' \in [Addresses -> Connection]
    BY <1>0, <1>4, <2>1 DEF Tick
  <2>3. age' \in [Sessions -> 0 .. AuthTimeout + 1]
    BY <1>0, <1>4, ServiceAssumption DEF Tick
  <2> QED BY <1>1, <1>4, <2>2, <2>3 DEF Tick
<1> QED BY <1>2, <1>3, <1>4

\* Every connection is well formed whatever its stream is fed, a token is one of a
\* session that was authenticated, and the network keeps within its limit.
THEOREM TypeCorrect == Spec => []TypeOK
<1>1. Init => TypeInv
  BY InitTypeInv
<1>2. TypeInv /\ [Next]_vars => TypeInv'
  <2> SUFFICES ASSUME TypeInv, [Next]_vars
               PROVE  TypeInv'
    OBVIOUS
  <2>1. CASE UNCHANGED vars
    BY <2>1 DEF vars, TypeInv, TypeOK
  <2>2. CASE Next
    BY <2>2, AuthTypeInv, PlayerTypeInv, NetTypeInv, ServiceTypeInv DEF Next
  <2> QED BY <2>1, <2>2
<1>3. TypeInv => TypeOK
  BY DEF TypeInv
<1> QED BY <1>1, <1>2, <1>3, PTL DEF Spec
=============================================================================
