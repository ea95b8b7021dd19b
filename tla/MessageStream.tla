--------------------------- MODULE MessageStream ---------------------------
(***************************************************************************)
(* The fragment and message layers of the game traffic, and their users:   *)
(* ClientSession, the client emulator, on one end and GameClient with its  *)
(* managers on the other.                                                  *)
(*                                                                         *)
(* The packet layer below is what module MessageChannel promises: packets  *)
(* arrive once and in order, or no more.  A message is its kind, msg_index *)
(* and size once compressed; n is its number among its sender's messages.  *)
(* Reset and the streams' closing are left to module ReliableUdp.          *)
(***************************************************************************)
EXTENDS Integers, FiniteSets, SequencesExt

CONSTANTS
  Client, Server,
  MaxFragmentLength,  \* MAX_FRAGMENT_LENGTH
  LengthLimit,        \* 2^16: total_payload_length counts modulo this
  Sizes,              \* the sizes of the payloads
  LoginSteps,         \* the requests the session awaits before GameServer_Idle
  IdleLimit,          \* bound on the requests it sends once idle
  PushLimit           \* bound on the pushes of the server's own accord

\* Every payload fits in total_payload_length.
ASSUME MessageAssumption ==
  /\ Client # Server
  /\ MaxFragmentLength \in Nat \ {0} /\ LengthLimit \in Nat \ {0}
  /\ Sizes # {} /\ Sizes \subseteq 1 .. (LengthLimit - 1)
  /\ LoginSteps \in Nat \ {0} /\ IdleLimit \in Nat /\ PushLimit \in Nat

Peers == {Client, Server}
Other(p) == IF p = Client THEN Server ELSE Client

PushIndex == -1       \* 0xFFFFFFFF

\* A push carries no type of its own; the client reads it as the request that
\* shares its number, RequestSendMessageToPlayers.  It can so read "config" and
\* the pushes about signs, and cannot read those that begin with a player id.
Pushes == {"config", "sign", "bell"}
ReadablePushes == {"config", "sign"}

Answered == {"login", "step", "query"}      \* DEFINE_REQUEST_RESPONSE
OneWay == {"note"}                          \* DEFINE_MESSAGE
Kinds == Answered \cup OneWay \cup Pushes \cup {"reply"}

Message == [kind : Kinds, index : Int, size : Sizes, n : Nat]
Fragment == [msg : Message, part : Nat, length : Nat, total : Nat]

VARIABLES
  wire,             \* packets each end has sent and the other has not taken
  fragments,        \* Fragments
  receivedLength,   \* ReceivedFragmentLength
  receiveQueue,     \* ReceiveQueue of the fragment stream
  outstanding,      \* the indices in OutstandingResponses
  counter,          \* SentMessageCounter
  inErrorState,     \* InErrorState
  phase,            \* the session's state: the login step, or idle
  awaiting,         \* the request SendAndAwait waits for, if any
  sent,             \* history: how many messages each end has sent
  taken,            \* history: the messages taken from each end, by number
  pushes,           \* history: the pushes of the server's own accord
  unanswered        \* history: the requests a handler failed to answer

streamVars == <<fragments, receivedLength, receiveQueue>>
vars == <<wire, streamVars, outstanding, counter, inErrorState, phase, awaiting,
          sent, taken, pushes, unanswered>>

Idle == LoginSteps + 1

\* The bytes of a message as they were put together, whole or mixed up.
Received == [msg : Message, whole : BOOLEAN]

TypeOK ==
  /\ wire \in [Peers -> Seq(Fragment)]
  /\ fragments \in [Peers -> Seq(Fragment)]
  /\ receivedLength \in [Peers -> Nat]
  /\ receiveQueue \in [Peers -> Seq(Received)]
  /\ outstanding \in [Peers -> SUBSET Nat] /\ outstanding[Server] = {}
  /\ counter \in [Peers -> Nat]
  /\ inErrorState \in [Peers -> BOOLEAN]
  /\ phase \in 1 .. Idle
  /\ awaiting \subseteq 0 .. (counter[Client] - 1) /\ Cardinality(awaiting) <= 1
  /\ sent \in [Peers -> Nat]
  /\ taken \in [Peers -> Seq(Nat)]
  /\ pushes \in Seq(Pushes) /\ Len(pushes) <= PushLimit
  /\ unanswered \subseteq 0 .. (counter[Client] - 1)

Init ==
  /\ wire = [p \in Peers |-> <<>>]
  /\ fragments = [p \in Peers |-> <<>>]
  /\ receivedLength = [p \in Peers |-> 0]
  /\ receiveQueue = [p \in Peers |-> <<>>]
  /\ outstanding = [p \in Peers |-> {}]
  /\ counter = [p \in Peers |-> 0]
  /\ inErrorState = [p \in Peers |-> FALSE]
  /\ phase = 1
  /\ awaiting = {}
  /\ sent = [p \in Peers |-> 0]
  /\ taken = [p \in Peers |-> <<>>]
  /\ pushes = <<>>
  /\ unanswered = {}

-----------------------------------------------------------------------------
(* The fragment layer *)

FragmentCount(size) == (size + MaxFragmentLength - 1) \div MaxFragmentLength

\* How FragmentStream::Send cuts a payload.
Fragments(m) ==
  [i \in 1 .. FragmentCount(m.size) |->
    [msg |-> m, part |-> i,
     length |-> Min({MaxFragmentLength, m.size - (i - 1) * MaxFragmentLength}),
     total |-> m.size % LengthLimit]]

\* What the receiver reads when it puts these together, one after another: the
\* header of the first, and the rest if it is the rest.
Combined(parts) == [msg |-> parts[1].msg, whole |-> parts = Fragments(parts[1].msg)]

\* Mutant of Complete: the length must be exceeded.
CompleteLate(length, total) == length > total

Complete(length, total) == length >= total

\* One turn of the loop in FragmentStream::Pump: by length alone.
Pump(p) ==
  /\ ~inErrorState[p]
  /\ wire[Other(p)] # <<>>
  /\ LET f == Head(wire[Other(p)])
         length == receivedLength[p] + f.length
     IN  /\ wire' = [wire EXCEPT ![Other(p)] = Tail(@)]
         /\ IF Complete(length, f.total)
              THEN /\ fragments' = [fragments EXCEPT ![p] = <<>>]
                   /\ receivedLength' = [receivedLength EXCEPT ![p] = 0]
                   /\ receiveQueue' = [receiveQueue EXCEPT
                        ![p] = Append(@, Combined(Append(fragments[p], f)))]
              ELSE /\ fragments' = [fragments EXCEPT ![p] = Append(@, f)]
                   /\ receivedLength' = [receivedLength EXCEPT ![p] = length]
                   /\ UNCHANGED receiveQueue
  /\ UNCHANGED <<outstanding, counter, inErrorState, phase, awaiting, sent, taken,
                 pushes, unanswered>>

-----------------------------------------------------------------------------
(* The message layer *)

\* SendInternal, then FragmentStream::Send, of a message: the i-th of those that
\* go out in a row, each a record of its kind and index.
Piece(p, headers, i, size) ==
  IF i \in DOMAIN headers
    THEN Fragments([kind |-> headers[i].kind, index |-> headers[i].index,
                    size |-> size, n |-> sent[p] + i])
    ELSE <<>>

\* No handler sends its own client more than two.
Queue(p, headers, size) ==
  /\ wire' = [wire EXCEPT
       ![p] = @ \o Piece(p, headers, 1, size) \o Piece(p, headers, 2, size)]
  /\ sent' = [sent EXCEPT ![p] = @ + Len(headers)]

\* Mutant of Request: SentMessageCounter does not advance.
RequestUncounted(kind, size) ==
  /\ Queue(Client, <<[kind |-> kind, index |-> counter[Client]]>>, size)
  /\ UNCHANGED counter
  /\ outstanding' = [outstanding EXCEPT ![Client] =
       IF kind \in Answered THEN @ \cup {counter[Client]} ELSE @]

\* Send of a request by the session.
Request(kind, size) ==
  /\ Queue(Client, <<[kind |-> kind, index |-> counter[Client]]>>, size)
  /\ counter' = [counter EXCEPT ![Client] = @ + 1]
  /\ outstanding' = [outstanding EXCEPT ![Client] =
       IF kind \in Answered THEN @ \cup {counter[Client]} ELSE @]

\* Receive: what it makes of the message; otherwise the stream is in error.
Understood(p, m) ==
  /\ m.whole
  /\ m.msg.kind = "reply" => m.msg.index \in outstanding[p]
  /\ m.msg.kind \in Pushes => m.msg.kind \in ReadablePushes

\* Mutant of Settled: the request stays outstanding.
SettledNever(p, m) == outstanding[p]

\* OutstandingResponses after the message.
Settled(p, m) ==
  IF m.msg.kind = "reply" THEN outstanding[p] \ {m.msg.index} ELSE outstanding[p]

\* Receive takes the next message out of the fragment stream's queue.
Receive(p) ==
  /\ ~inErrorState[p]
  /\ receiveQueue[p] # <<>>
  /\ receiveQueue' = [receiveQueue EXCEPT ![p] = Tail(@)]
  /\ taken' = [taken EXCEPT ![Other(p)] = Append(@, Head(receiveQueue[p]).msg.n)]

-----------------------------------------------------------------------------
(* The session of the client emulator *)

\* SendAndAwaitWaitForReply sends the next request of the login.
SendAndAwait ==
  /\ ~inErrorState[Client]
  /\ phase < Idle /\ awaiting = {}
  /\ \E size \in Sizes : Request(IF phase = 1 THEN "login" ELSE "step", size)
  /\ awaiting' = {counter[Client]}
  /\ UNCHANGED <<streamVars, inErrorState, phase, taken, pushes, unanswered>>

\* Mutant of IdleSend: the session does not wait for its login to be over.
IdleSendEarly ==
  /\ ~inErrorState[Client]
  /\ counter[Client] < LoginSteps + IdleLimit
  /\ \E kind \in {"query", "note"}, size \in Sizes : Request(kind, size)
  /\ UNCHANGED <<streamVars, inErrorState, phase, awaiting, taken, pushes, unanswered>>

\* Handle_GameServer_Idle sends a request now and again and awaits nothing.
IdleSend ==
  /\ ~inErrorState[Client]
  /\ phase = Idle
  /\ counter[Client] < LoginSteps + IdleLimit
  /\ \E kind \in {"query", "note"}, size \in Sizes : Request(kind, size)
  /\ UNCHANGED <<streamVars, inErrorState, phase, awaiting, taken, pushes, unanswered>>

\* SendAndAwaitWaitForReply takes any reply for the one it waits for: it compares
\* msg_index with itself.  Idle, the session skips what it receives.
ClientReceive ==
  /\ awaiting # {} \/ phase = Idle
  /\ Receive(Client)
  /\ LET m == Head(receiveQueue[Client])
     IN  IF Understood(Client, m)
           THEN /\ outstanding' = [outstanding EXCEPT ![Client] = Settled(Client, m)]
                /\ IF awaiting # {} /\ m.msg.kind = "reply"
                     THEN phase' = phase + 1 /\ awaiting' = {}
                     ELSE UNCHANGED <<phase, awaiting>>
                /\ UNCHANGED inErrorState
           ELSE /\ inErrorState' = [inErrorState EXCEPT ![Client] = TRUE]
                /\ UNCHANGED <<outstanding, phase, awaiting>>
  /\ UNCHANGED <<wire, fragments, receivedLength, counter, sent, pushes, unanswered>>

-----------------------------------------------------------------------------
(* The server: GameClient::Poll and the managers' handlers *)

\* Mutant of Answers: the login is answered with the configuration alone.
AnswersNoReply(m) ==
  CASE m.kind = "login" -> <<[kind |-> "config", index |-> PushIndex]>>
    [] m.kind \in {"step", "query"} -> <<[kind |-> "reply", index |-> m.index]>>
    [] OTHER -> <<>>

\* Mutant of Answers: what follows the reply is sent as another reply.
AnswersTwice(m) ==
  IF m.kind \in Answered
    THEN <<[kind |-> "reply", index |-> m.index], [kind |-> "reply", index |-> m.index]>>
    ELSE <<>>

\* What a handler that succeeds sends: a reply carries its request's index, and
\* the login's is followed by what the client is to upload.
Answers(m) ==
  CASE m.kind = "login" ->
         <<[kind |-> "reply", index |-> m.index],
           [kind |-> "config", index |-> PushIndex]>>
    [] m.kind \in {"step", "query"} -> <<[kind |-> "reply", index |-> m.index]>>
    [] OTHER -> <<>>

\* A handler that fails answers nothing, and the client stays connected:
\* DISCONNECT_ON_UNHANDLED_MESSAGE is off.
ServerReceive ==
  /\ Receive(Server)
  /\ LET m == Head(receiveQueue[Server])
     IN  IF Understood(Server, m)
           THEN /\ \/ \E size \in Sizes : Queue(Server, Answers(m.msg), size)
                      /\ UNCHANGED unanswered
                   \/ /\ m.msg.kind \in Answered
                      /\ unanswered' = unanswered \cup {m.msg.index}
                      /\ UNCHANGED <<wire, sent>>
                /\ UNCHANGED inErrorState
           ELSE /\ inErrorState' = [inErrorState EXCEPT ![Server] = TRUE]
                /\ UNCHANGED <<wire, sent, unanswered>>
  /\ UNCHANGED <<fragments, receivedLength, outstanding, counter, phase, awaiting,
                 pushes>>

\* What happens to other players is pushed to this one.
ServerPush ==
  /\ ~inErrorState[Server]
  /\ Len(pushes) < PushLimit
  /\ \E kind \in {"sign", "bell"}, size \in Sizes :
       /\ Queue(Server, <<[kind |-> kind, index |-> PushIndex]>>, size)
       /\ pushes' = Append(pushes, kind)
  /\ UNCHANGED <<streamVars, outstanding, counter, inErrorState, phase, awaiting,
                 taken, unanswered>>

-----------------------------------------------------------------------------
Next ==
  \/ \E p \in Peers : Pump(p)
  \/ SendAndAwait \/ IdleSend \/ ClientReceive
  \/ ServerReceive \/ ServerPush

\* Both ends poll again and again, and the packets arrive.  When the session
\* sends once idle, and what the server pushes, is left open.
Fairness ==
  /\ \A p \in Peers : WF_vars(Pump(p))
  /\ WF_vars(SendAndAwait) /\ WF_vars(ClientReceive) /\ WF_vars(ServerReceive)

Spec == Init /\ [][Next]_vars

FairSpec == Spec /\ Fairness

-----------------------------------------------------------------------------
(* What the two layers promise *)

\* Each end takes the other's messages once, in the order they were sent, and
\* puts them together from their own fragments.
InOrder ==
  \A p \in Peers :
    /\ Len(taken[p]) <= sent[p]
    /\ \A i \in DOMAIN taken[p] : taken[p][i] = i
    /\ \A i \in DOMAIN receiveQueue[Other(p)] : receiveQueue[Other(p)][i].whole

\* What is on its way to p.
Messages(s) == {s[i].msg : i \in 1 .. Len(s)}

Underway(p) ==
  Messages(wire[Other(p)]) \cup Messages(fragments[p]) \cup Messages(receiveQueue[p])

Indices(messages, kinds) == {m.index : m \in {o \in messages : o.kind \in kinds}}

Asked == Indices(Underway(Server), Answered)
Replied == Indices(Underway(Client), {"reply"})

\* OutstandingResponses holds the requests that are on their way to the server,
\* or whose reply is on its way back, or that a handler failed to answer, each
\* in one of these states: no reply is left over, and none comes twice.
OutstandingAccounted ==
  /\ outstanding[Client] = Asked \cup Replied \cup unanswered
  /\ Asked \cap Replied = {} /\ Asked \cap unanswered = {} /\ Replied \cap unanswered = {}

\* The streams fall into error over nothing the two layers do: only a push the
\* client cannot read brings the session down.
OnlyPushesFail ==
  /\ ~inErrorState[Server]
  /\ inErrorState[Client] => Contains(pushes, "bell")

\* The reply SendAndAwait takes is the reply to its request, although it does not
\* look: the session never awaits one with another request outstanding.
AwaitedAnswer ==
  [][phase' # phase => Head(receiveQueue[Client]).msg.index \in awaiting]_vars

\* "if we don't reply to some messages the client will deadlock": it ends its
\* login unless a handler failed or a push brought it down.
LoginEnds ==
  <>(phase = Idle \/ inErrorState[Client] \/ unanswered # {})
=============================================================================
