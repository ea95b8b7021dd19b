---------------------------- MODULE GameService ----------------------------
(***************************************************************************)
(* How a player gets from the auth service to the game service and back    *)
(* out: AuthClient, the authentication states, GameService::Poll with its  *)
(* Clients and DisconnectingClients, and NetConnectionUDP's routing of     *)
(* datagrams by address.                                                   *)
(*                                                                         *)
(* One player goes through one session after another.  A session is an     *)
(* authentication: its token and its key.  A stream (module ReliableUdp)   *)
(* is its state, whether it is in error, whether packets wait to be sent   *)
(* and to be acknowledged, and its close timer; which of its packets the   *)
(* window, the acknowledgements and the retransmission let go is a choice. *)
(* Poll is one step: nothing else runs on its thread, and a datagram that  *)
(* arrives meanwhile is routed by the next.                                *)
(***************************************************************************)
EXTENDS Naturals, FiniteSets, SequencesExt

CONSTANTS
  Addresses,      \* addresses and ports the player's datagrams come from
  SessionLimit,   \* bound on the authentications
  AuthTimeout,    \* AUTH_TICKET_TIMEOUT, in ticks
  ClientTimeout,  \* CLIENT_TIMEOUT, in ticks
  CloseTimeout,   \* CONNECTION_CLOSE_TIMEOUT, in ticks
  NetLimit,       \* bound on the datagrams on their way
  InboxLimit      \* bound on the datagrams that wait for one Poll

ASSUME ServiceAssumption ==
  /\ SessionLimit \in Nat /\ AuthTimeout \in Nat
  /\ ClientTimeout \in Nat \ {0} /\ CloseTimeout \in Nat
  /\ NetLimit \in Nat \ {0} /\ InboxLimit \in Nat \ {0}

Sessions == 1 .. SessionLimit
Kinds == {"SYN", "ACK", "DAT", "FIN"}
Datagram == [from : Addresses, session : Sessions, kind : Kinds]

StreamStates == {"Listening", "SynReceived", "Established", "Closing", "Closed"}
Roles == {"none", "new", "client", "disconnecting"}

AuthStates ==
  <<"WaitingForHandshakeRequest", "WaitingForServiceStatusRequest",
    "WaitingForKeyData", "WaitingForSteamTicket">>

VARIABLES
  auth,        \* AuthClientState; "none" without a connection, or once Complete
  age,         \* of each token there is: ticks since LastRefreshTime
  tokens,      \* AuthenticationStates
  conn,        \* of each address: its NetConnection and the GameClient on it
  session,     \* the player's latest session
  mode,        \* what the player's game does
  net          \* datagrams on their way to the server

vars == <<auth, age, tokens, conn, session, mode, net>>

NoConn ==
  [role |-> "none", session |-> 0, stream |-> "Listening", err |-> FALSE,
   queued |-> FALSE, flight |-> FALSE, closing |-> 0,
   inbox |-> <<>>, silent |-> 0]

\* queued: SendQueue is not empty; flight: RetransmitBuffer is not empty.
\* closing: 0 without a CloseTimer, otherwise one more than the ticks since it
\* was set.
Connection ==
  [role : Roles, session : 0 .. SessionLimit, stream : StreamStates,
   err : BOOLEAN, queued : BOOLEAN, flight : BOOLEAN,
   closing : 0 .. CloseTimeout + 1,
   inbox : Seq(Datagram), silent : 0 .. ClientTimeout]

TypeOK ==
  /\ auth \in Range(AuthStates) \cup {"none"}
  /\ age \in [Sessions -> 0 .. AuthTimeout + 1]
  /\ tokens \subseteq 1 .. session
  /\ conn \in [Addresses -> Connection]
  /\ session \in 0 .. SessionLimit
  /\ mode \in {"off", "connecting", "playing"}
  /\ net \subseteq Datagram /\ Cardinality(net) <= NetLimit

Init ==
  /\ auth = "none"
  /\ age = [s \in Sessions |-> 0]
  /\ tokens = {}
  /\ conn = [a \in Addresses |-> NoConn]
  /\ session = 0
  /\ mode = "off"
  /\ net = {}

-----------------------------------------------------------------------------
(* The auth service *)

AuthConnect ==
  /\ mode = "off" /\ auth = "none"
  /\ session < SessionLimit
  /\ auth' = AuthStates[1]
  /\ UNCHANGED <<age, tokens, conn, session, mode, net>>

\* Mutant: the token is stored when the key is exchanged, before the ticket.
AuthReceiveEarlyToken ==
  \E i \in 1 .. Len(AuthStates) :
    /\ auth = AuthStates[i]
    /\ IF i < Len(AuthStates)
         THEN /\ auth' = AuthStates[i + 1]
              /\ tokens' = IF i = 3 THEN tokens \cup {session + 1} ELSE tokens
              /\ UNCHANGED <<session, age, mode>>
         ELSE /\ auth' = "none"
              /\ session' = session + 1
              /\ tokens' = tokens
              /\ age' = [age EXCEPT ![session'] = 0]
              /\ mode' = "connecting"
    /\ UNCHANGED <<conn, net>>

\* The message the state waits for.  The ticket's answer carries a new token,
\* which is then stored in the game service.
AuthReceive ==
  \E i \in 1 .. Len(AuthStates) :
    /\ auth = AuthStates[i]
    /\ IF i < Len(AuthStates)
         THEN /\ auth' = AuthStates[i + 1]
              /\ UNCHANGED <<session, tokens, age, mode>>
         ELSE /\ auth' = "none"
              /\ session' = session + 1
              /\ tokens' = tokens \cup {session'}
              /\ age' = [age EXCEPT ![session'] = 0]
              /\ mode' = "connecting"
    /\ UNCHANGED <<conn, net>>

\* A message of another type, a timeout, a refused ticket, or the player left.
AuthDrop ==
  /\ auth # "none"
  /\ auth' = "none"
  /\ UNCHANGED <<age, tokens, conn, session, mode, net>>

-----------------------------------------------------------------------------
(* The player's game, and the network *)

\* When NetLimit datagrams are on their way, one of them is lost.
Send(a, kind) ==
  LET d == [from |-> a, session |-> session, kind |-> kind]
  IN  \/ Cardinality(net \cup {d}) <= NetLimit /\ net' = net \cup {d}
      \/ \E lost \in net : net' = (net \ {lost}) \cup {d}

\* A connecting stream sends its SYN, and sends it again.
SendSyn(a) ==
  /\ mode = "connecting"
  /\ Send(a, "SYN")
  /\ UNCHANGED <<auth, age, tokens, conn, session, mode>>

RecvSynAck(a) ==
  /\ mode = "connecting"
  /\ conn[a].session = session /\ conn[a].stream = "SynReceived"
  /\ mode' = "playing"
  /\ Send(a, "ACK")
  /\ UNCHANGED <<auth, age, tokens, conn, session>>

SendData(a) ==
  /\ mode = "playing"
  /\ Send(a, "DAT")
  /\ UNCHANGED <<auth, age, tokens, conn, session, mode>>

\* The player leaves; the game closes its stream, or it crashes.
Leave(a) ==
  /\ mode # "off"
  /\ mode' = "off"
  /\ \/ mode = "playing" /\ Send(a, "FIN")
     \/ UNCHANGED net
  /\ UNCHANGED <<auth, age, tokens, conn, session>>

\* NetConnectionUDP::ProcessPacket: to the live connection of that address,
\* or to a new one.
Deliver(d) ==
  /\ d \in net
  /\ Len(conn[d.from].inbox) < InboxLimit
  /\ conn' = [conn EXCEPT
       ![d.from].inbox = Append(@, d),
       ![d.from].role = IF @ = "none" THEN "new" ELSE @]
  /\ net' = net \ {d}
  /\ UNCHANGED <<auth, age, tokens, session, mode>>

Lose(d) ==
  /\ d \in net
  /\ net' = net \ {d}
  /\ UNCHANGED <<auth, age, tokens, conn, session, mode>>

-----------------------------------------------------------------------------
(* The stream, as far as the service sees it *)

\* What a datagram does to the stream's state.  DAT is whatever a game that
\* plays sends: data and heartbeats.
Handled(stream, d) ==
  CASE d.kind = "SYN" -> "SynReceived"
    [] d.kind = "ACK" /\ stream = "SynReceived" -> "Established"
    [] d.kind = "FIN" -> "Closing"
    [] OTHER -> stream

\* The state of the stream after the first i of the datagrams that wait.
Streams(c) ==
  LET after[i \in 0 .. Len(c.inbox)] ==
        IF i = 0 THEN c.stream ELSE Handled(after[i - 1], c.inbox[i])
  IN  after

\* How many datagrams come before the first that another key encrypted.
Readable(c) ==
  CHOOSE n \in 0 .. Len(c.inbox) :
    /\ \A i \in 1 .. n : c.inbox[i].session = c.session
    /\ n < Len(c.inbox) => c.inbox[n + 1].session # c.session

\* Whether one of the first n datagrams can acknowledge packets.
Acknowledges(c, n) == \E i \in 1 .. n : c.inbox[i].kind \in {"ACK", "DAT"}

\* A FIN is answered by a FIN_ACK, which waits in SendQueue like any message;
\* Send swallows it when the stream is closing already.
FinAcked(c, n) ==
  \E i \in 1 .. n : c.inbox[i].kind = "FIN" /\ Streams(c)[i - 1] # "Closing"

\* The datagrams that wait are received and handled: the first that does not
\* decrypt puts the stream in error, whatever came counts as activity, and packets
\* in flight may have been acknowledged.
HandleIncoming(c) ==
  LET n == Readable(c)
  IN  {[c EXCEPT !.stream = Streams(c)[n],
                 !.err = n < Len(c.inbox),
                 !.queued = @ \/ FinAcked(c, n),
                 !.flight = f,
                 !.inbox = SubSeq(@, n + 2, Len(@)),
                 !.silent = IF c.inbox = <<>> THEN @ ELSE 0] :
         f \in {c.flight, c.flight /\ ~Acknowledges(c, n)}}

\* The stream gives up on packets in flight after RETRANSMIT_MAX_ATTEMPTS; or it
\* sends what is queued, unless the window is full or it is retransmitting.
HandleOutgoing(c) ==
  (IF c.flight THEN {[c EXCEPT !.err = TRUE]} ELSE {})
  \cup {[c EXCEPT !.queued = q, !.flight = @ \/ c.queued] : q \in {FALSE, c.queued}}

\* Pump closes a closing stream with nothing left in SendQueue, or, unless it is
\* in error, one that has been closing for too long.
Closes(c) ==
  \/ c.stream = "Closed"
  \/ c.stream = "Closing" /\ (~c.queued \/ (~c.err /\ c.closing > CloseTimeout))

\* Pump returns true: the stream is closed, or it was in error already.
PumpEnds(c) == Closes(c) \/ c.err

\* Mutant: a datagram that does not decrypt is skipped.
PumpSkips(c) ==
  IF Closes(c) THEN {[c EXCEPT !.stream = "Closed"]}
  ELSE IF c.err THEN {c}
  ELSE UNION {HandleOutgoing(d) : d \in HandleIncoming(
         [c EXCEPT !.inbox = SelectSeq(@, LAMBDA d : d.session = c.session)])}

\* The outcomes of Pump.  An error is reported by the next one.  The queues of a
\* closed stream are not emptied here: it does not outlive the Poll.
Pump(c) ==
  IF Closes(c) THEN {[c EXCEPT !.stream = "Closed"]}
  ELSE IF c.err THEN {c}
  ELSE UNION {HandleOutgoing(d) : d \in HandleIncoming(c)}

-----------------------------------------------------------------------------
(* GameService::Poll, for one connection at a time *)

\* HandleClientConnection: the token of the first datagram must be known.
HandleClientConnection(c) ==
  IF c.role # "new" THEN c
  ELSE IF c.inbox[1].session \in tokens
    THEN [c EXCEPT !.role = "client", !.session = c.inbox[1].session]
    ELSE NoConn

\* Mutant: the service only forgets the client and never says goodbye.
DisconnectSilently(c) == [c EXCEPT !.role = "disconnecting"]

\* Disconnect says goodbye on an established stream, which sets its CloseTimer,
\* and does nothing on another.  No one asks any more how long it was silent.
Disconnect(c) ==
  [c EXCEPT !.role = "disconnecting",
            !.stream = IF @ = "Established" THEN "Closing" ELSE @,
            !.closing = IF c.stream = "Established" THEN 1 ELSE @,
            !.silent = 0]

\* The outcomes of GameClient::Poll, and of what the service does when it
\* returns true.
PollClient(c, kicked) ==
  IF c.role # "client" THEN {c}
  ELSE IF kicked THEN {Disconnect(c)}
  ELSE {IF PumpEnds(c) \/ p.silent >= ClientTimeout THEN Disconnect(p) ELSE p :
          p \in Pump(c)}

PollDisconnecting(c) ==
  IF c.role # "disconnecting" THEN {c}
  ELSE {IF p.stream = "Closed" THEN NoConn ELSE p : p \in Pump(c)}

Polled(c, kicked) ==
  UNION {PollDisconnecting(d) : d \in PollClient(HandleClientConnection(c), kicked)}

\* Mutant: the clients that are being disconnected keep theirs alive too.
RefreshedByAll(conns) ==
  {conns[a].session : a \in {b \in Addresses : conns[b].role # "none"}}

\* The clients that keep their token alive.
Refreshed(conns) ==
  {conns[a].session : a \in {b \in Addresses : conns[b].role = "client"}}

\* Mutant: the expiry is judged before the clients are polled.
KeptEarly(refreshed) == {s \in tokens : age[s] <= AuthTimeout}

\* Tokens that were not refreshed for more than AuthTimeout are dropped.
Kept(refreshed) == {s \in tokens : s \in refreshed \/ age[s] <= AuthTimeout}

\* kicked: the clients whose delayed disconnect is due.
Poll(kicked) ==
  /\ UNCHANGED <<auth, session, mode, net>>
  /\ conn' \in [Addresses -> UNION {Polled(conn[a], a \in kicked) : a \in Addresses}]
  /\ \A a \in Addresses : conn'[a] \in Polled(conn[a], a \in kicked)
  /\ tokens' = Kept(Refreshed(conn'))
  /\ age' = [s \in Sessions |->
       IF s \in tokens' \ Refreshed(conn') THEN age[s] ELSE 0]

\* A handler answers a connected client, or pushes a message to it: Send queues
\* it, unless the stream is closing.
Queue(a) ==
  /\ conn[a].role = "client" /\ conn[a].stream # "Closing"
  /\ conn' = [conn EXCEPT ![a].queued = TRUE]
  /\ UNCHANGED <<auth, age, tokens, session, mode, net>>

\* How the timers of a connection go on.
Later(c) ==
  IF c.role = "client" /\ c.silent < ClientTimeout
    THEN [c EXCEPT !.silent = @ + 1]
  ELSE IF c.role = "disconnecting" /\ c.closing \in 1 .. CloseTimeout
    THEN [c EXCEPT !.closing = @ + 1]
  ELSE c

\* Time passes between two Polls; a Poll takes less than a tick.
Tick ==
  /\ age' = [s \in Sessions |->
       IF s \in tokens /\ age[s] <= AuthTimeout THEN age[s] + 1 ELSE age[s]]
  /\ conn' = [a \in Addresses |-> Later(conn[a])]
  /\ UNCHANGED <<auth, tokens, session, mode, net>>

-----------------------------------------------------------------------------
Next ==
  \/ AuthConnect \/ AuthReceive \/ AuthDrop
  \/ \E a \in Addresses :
       SendSyn(a) \/ RecvSynAck(a) \/ SendData(a) \/ Leave(a) \/ Queue(a)
  \/ \E d \in net : Deliver(d) \/ Lose(d)
  \/ \E kicked \in SUBSET Addresses : Poll(kicked)
  \/ Tick

\* The main loop polls again and again; a game that connects keeps sending its
\* SYN, and UDP delivers one that is sent again and again.  Nothing is assumed
\* of time, nor of a game that has connected.
Fairness ==
  /\ WF_vars(Poll({}))
  /\ WF_vars(\E a \in Addresses : SendSyn(a))
  /\ SF_vars(\E d \in net : d.kind = "SYN" /\ Deliver(d))

Spec == Init /\ [][Next]_vars

FairSpec == Spec /\ Fairness

-----------------------------------------------------------------------------
(* What the service promises *)

\* "Keep authentication token alive while client is": a client in Clients can
\* still use its token, however long the service was held up between two Polls.
TokenAlive ==
  \A a \in Addresses : conn[a].role = "client" => conn[a].session \in tokens

\* A client whose handshake was complete and that has nothing queued is released
\* in the Poll that drops it, its address with it; one that was said goodbye to with
\* packets queued is released, unless its stream is in error, by the first Poll after
\* the close timeout.
MustRelease(c) ==
  \/ c.role = "client" /\ c.stream \in {"Established", "Closing"} /\ ~c.queued
  \/ /\ c.role = "disconnecting" /\ c.stream = "Closing"
     /\ ~c.err /\ c.closing > CloseTimeout

EstablishedReleased ==
  [][\A kicked \in SUBSET Addresses :
       Poll(kicked) =>
         \A a \in Addresses : MustRelease(conn[a]) => conn'[a].role # "disconnecting"]_vars

\* The connections that no timeout of the service ends: dropped before the
\* handshake was complete, or opened again by a late SYN; or in error with packets
\* queued, so that Pump neither closes them nor looks at their CloseTimer.
Stuck(a) ==
  /\ conn[a].role = "disconnecting"
  /\ \/ conn[a].stream \notin {"Closing", "Closed"}
     \/ conn[a].stream = "Closing" /\ conn[a].err /\ conn[a].queued

\* A player who comes back from the address of a session that still waits for
\* its timeout gets in, since the datagrams of the new session end the old one;
\* unless these find a connection that is stuck, or make one so: with packets
\* queued to the old session, they put its stream in error for good.
Reconnects ==
  mode = "connecting" ~>
    \/ mode # "connecting"
    \/ session \notin tokens
    \/ \E a \in Addresses :
         Stuck(a) \/ (conn[a].role = "client" /\ conn[a].session = session)

\* When time passes, the tokens of the sessions a player has given up expire,
\* whatever connection a late datagram has still opened with one.
TokenExpires ==
  WF_vars(Tick) => []<>(tokens \subseteq (IF mode = "off" THEN {} ELSE {session}))
=============================================================================
