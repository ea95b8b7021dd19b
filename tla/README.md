# Verification of rekindled-server

TLA+ models of the server's own logic, checked with TLC and proved about with
TLAPS. Paths are relative to the repository, under `src/Source/` unless said
otherwise.

## The system

| Part | State | Operations | Talks to |
|---|---|---|---|
| Reliable UDP packet stream (`Server/Server/Streams/Frpg2ReliableUdpPacketStream`) | connection state, four 12-bit ack counters, send queue, retransmit buffer, receive queue, timers | `Connect`, `Send`, `Receive`, `HandledPacket`, `Disconnect`, `Pump` | its peer, by UDP; its owner, by calls |
| Fragment and message streams, on top of it (`Frpg2ReliableUdpFragmentStream`, `...MessageStream`) | fragments so far; message counter, outstanding requests | `Send`, `Receive`, `Pump`, `Reset` | packet stream below, game client above |
| Game service and game client (`GameService/GameService.cpp`, `GameClient.cpp`) | clients, disconnecting clients, authentication states | `Poll`, `HandleClientConnection`, `CreateAuthToken` | message streams, auth service, game managers |
| Auth and login services | one small state machine per connection | ticket and key exchange | game service (`CreateAuthToken`) |
| Game managers, DS3 and DS2 (signs, quick match, break-in, visitor, blood messages, ...) | live caches per area (`OnlineAreaPool`), matches, rows of the database | one handler per request | game clients (replies, pushes), database |
| Server manager (`ServerManager.cpp`) | server instances, callbacks, three mutexes | main loop, start, stop and prune servers, queued callbacks | servers, web UI threads |
| Web UI service | sessions, sharding requests | HTTP handlers on their own threads | server manager |
| Network connections (`Shared/Core/Network`) | socket queues, send and receive threads | `Send`, `Receive`, `Pump` | streams |
| Hub (`hub/src`) | the public list of servers | register, remove, expire | servers, loaders |
| Injector (`Injector`, on the vendored Detours) | installed hooks, detours, patches, active callbacks | install, roll back, detach, unload | the threads of the game; a loader, through a pipe |
| Client session and emulator (`Server/Client`, `Server/ClientEmu`) | a script of requests | drives the client side of a stream | server |
| Database, crypto, utilities, loaders, protocol definitions, generated and vendored code | | | |

A server polls from one thread: `GameService::Poll` polls every `GameClient`,
which pumps its stream and then handles the messages it delivers. The hard
behaviours are therefore between *processes*: two streams that see the network's
losses, delays, repetitions and reorderings and their own timeouts; players who
leave and come back while others still hold what they were told about them. Real
threads meet in the server manager, the web UI, the network connections and the
injector.

What makes each part correct, and where it is stated:

* packet stream: messages arrive in order, once, and are not lost; a stall ends
  in a delivery or a visible failure; a closing stream closes (`ReliableUdp`);
* fragment and message streams: a message is put together from its own fragments;
  a reply reaches its own request (`MessageStream`);
* game service: a client lives on exactly one list and, unless its stream fails on the
  way out, is released within the close timeout; an authentication state outlives its
  client's connection and no longer (`GameService`);
* sign manager: a sign in the cache has a connected owner; a summoned sign is
  released; a player who was told of a sign is told of its removal, unless the pool
  had pushed it out (`SignManager`);
* quick match: a match is listed while its host waits, and not after
  (`QuickMatchManager`);
* server manager: a queued callback runs; nobody waits on a lock or a condition
  that cannot come (`ServerManager`);
* hub: the list holds what was last accepted, until it expires (not modelled);
* injector: the DLL is not removed while a thread can come back into it; a callback
  keeps what it reads; a half-done installation or removal is not taken for a whole
  one (`Injector`).

`PROJECT.json` lists every part with its status, and every place where this code
is hard to test ("hazards"), with the properties that cover it.

## Modules

| Module | Content | Proofs |
|---|---|---|
| `ReliableUdp` | the packet layer: two streams and the network between them | `ReliableUdp_proof`: type correctness |
| `ReliableUdpInv` | its inductive invariant, the hypotheses that needs, and the refinement mapping to `MessageChannel` | `ReliableUdpInv_proof`: the invariant, order, no loss, the refinement |
| `MessageChannel` | what the packet layer promises: a FIFO channel each way | |
| `MessageStream` | fragments and messages over such a channel, a `ClientSession` on one end and `GameClient` with its managers on the other | `MessageStream_proof` |
| `GameService` | authentication, the game service's lists and its `Poll`, the routing of datagrams | `GameService_proof` |
| `GameClients` | the client list as the game managers see it | |
| `SignManager` | `DS3_SignManager` with `OnlineAreaPool`, on `GameClients` | `SignManager_proof`: what each request preserves |
| `QuickMatchManager` | `DS3_QuickMatchManager`, on `GameClients` | in `Matchmaking_proof` |
| `Matchmaking` | both managers on the same clients | `Matchmaking_proof`: the requests of `QuickMatchManager`, and the theorems |
| `ServerManager` | the main loop, its locks and callbacks, against the sharding handlers on web threads | `ServerManager_proof` |
| `Injector` | the worker that installs and removes hooks, its transactions, and the threads of the game that run through them | `Injector_proof` |
| `MC...` and their `.cfg` files | the instances TLC checks | |

Layers meet at what the one below promises. `ReliableUdp` is shown to implement
`MessageChannel`; `MessageStream` is written over such a channel; and
`GameClients` takes from `GameService` that clients are in the order of their
arrival, that two connections may carry one player, and that managers are told of
a loss while the client is still listed. The last two links are by reading, not by
refinement.

Each module ends with its properties; each property is stated in words before it.
Definitions marked "Mutant of" are the ones they precede, changed as a plausible
bug would change the code; every property is violated by one of them.

### How `ReliableUdp` corresponds to the code

The variables are the members of `Frpg2ReliableUdpPacketStream`, per stream, in
lower case (`sendQueue` is `SendQueue`, ...). `retransmitPacket` is the set
`{RetransmitPacket}` while `IsRetransmitting`, and empty otherwise; its index is
`RetransmittingIndex`. `closeTimer` says whether `CloseTimer > 0`.
`PendingReceiveQueue` has no variable: `HandleIncoming` consumes it after every
packet, and only the next packet in sequence is ever put on it.
`start`, `accepted` and `received` are history variables; no guard but
the bound on sending reads them.

A packet is a record of its destination, opcode, the two ack counters and `n`,
its position among the sequenced packets of its sender: the payload, abstracted
to what the properties tell apart.

`Pump` is split into its steps: `PumpClosed` and `PumpCloseTimeout` are the early
ends; `PumpBegin`, `PumpHeartbeat` and `PumpResendSyn` enter it; one action per
opcode of `HandleIncomingPacket`, per packet taken from the socket; and
one of the five outcomes of `HandleOutgoing` ends it (`SendQueued`,
`StartRetransmit`, `RetransmitAgain`, `GiveUp`, `AwaitRetransmit`), each with the
trimming of the retransmit buffer that comes first. `SendQueued` is the whole send
loop. Several packets may be handled in one `Pump`, or none.

The owner's calls are allowed whenever the stream is not inside `Pump`: `Send`
(`ClientSession` sends requests once established, the game managers push at any
time to any client in `GameService`'s list), `HandleMessage` and
`HandleMessageReply` (the loop of `GameClient::Poll`, with and without a reply;
the client's `SendAndAwait` for the other side), `SkipMessage`
(`ClientSession::Pump`) and `Disconnect`. `HandleMessageReply` is allowed on both
sides, as the class is: the game itself is not in the repository.

Clocks: a comparison of an elapsed time with an interval may go either way.

The network: `net` is a set of packets. A packet whose opcode is in
`LastingOpcodes` may be delivered any number of times, at any time; others once
per sending. No action need ever deliver a packet, so losing, delaying and
reordering are all included. `RandIndices` are the values of `rand() % 4096`.

Left out of this component: `RST` and `RACK`, which nothing in the
repository sends; datagrams that cannot be decoded (they set `InErrorState`);
encryption; `DatAckResponses`, which in the loop of `GameClient::Poll` only says
whether the message at hand was replied to with a `DAT_ACK`
(`HandleMessageReply` sends no ACK then), and `ExpectedDatAckResponses`, whose
only use is behind `if (false)`.

### How `MessageStream` corresponds to the code

`wire[p]` is what `p` gave its packet stream and the other end has not taken from
its own: the channel of `MessageChannel`. `fragments`, `receivedLength`,
`receiveQueue`, `outstanding`, `counter` and `inErrorState` are the members of
`Frpg2ReliableUdpFragmentStream` and `...MessageStream`.

* `Fragments(m)` is the cutting loop of `FragmentStream::Send`; `Pump(p)` is one
  turn of the loop in its `Pump`, which looks at lengths alone: the header of the
  first fragment and the bytes so far. Which message comes out is `Combined`: the
  first fragment's, and `whole` only if the parts are exactly its own.
* `Request` is `Send` of a request, `Queue` what a handler or a push sends,
  `Understood` and `Settled` are `Receive`: what it makes of a message, and what is
  left of `OutstandingResponses`.
* `SendAndAwait`, `ClientReceive` and `IdleSend` are `ClientSession`: one request
  after another until it is idle, each awaited by a loop that takes the first reply
  for its own (it compares `msg_index` with itself); then a request now and again,
  with everything that comes back skipped.
* `ServerReceive` is `GameClient::Poll` with a manager's handler, which succeeds
  (`Answers`) or fails and answers nothing; `ServerPush` is what happens to other
  players and is told to this one.

A message is its kind, index and compressed size. The kinds are what the streams
tell apart: requests with a reply and without, replies, and pushes, which carry
no type and are read by the client as one fixed type (`ReadablePushes`).
`n`, `sent`, `taken`, `pushes` and `unanswered` are history.

### How `GameService` corresponds to the code

One player authenticates and plays, again and again; a *session* is one
authentication, its token and key. `auth` is `AuthClient`'s state and
`AuthReceive` its handler for the message it waits for, the last one with
`CreateAuthToken`. `conn[a]` is, for one source address, the `NetConnectionUDP`
child with its queue (`inbox`) and the `GameClient` on it: `role` says which list
it is on ("new" while the server has not accepted it).

The stream, whose inside is `ReliableUdp`, is reduced to what decides its end:
`stream` its state, `err` its `InErrorState`, `queued` and `flight` whether its
`SendQueue` and its `RetransmitBuffer` hold anything, and `closing` its `CloseTimer`.
What a `Pump` does to it is a set of outcomes. `Handled` is what a datagram does to
the state; a FIN queues a FIN_ACK (`FinAcked`), unless the stream was closing.
`HandleIncoming` may take the packets in flight out, if something came that can
acknowledge; `HandleOutgoing` may send what is queued or not (the window may be full,
a packet may be being retransmitted), or give up on what is in flight. `Closes` is the
two ways from `Closing` to `Closed`: an empty `SendQueue` (`.cpp:679`), or the close
timeout (`.cpp:713-720`), which a stream in error never comes to (`.cpp:690`). Only
`Send_FIN` sets the `CloseTimer`: a stream that received a FIN has none. `Queue` is a
handler's answer or a push. Numbers, the window's size and the attempts are left out:
each of their outcomes is allowed at any time.

`Poll` is one step, since nothing else runs on its thread: for each connection
`HandleClientConnection`, then `GameClient::Poll` with what the service does when
it returns true, then the disconnecting clients; then the tokens are refreshed and
dropped. A datagram of another key puts the stream in error, which only the next
`Pump` reports. `Tick` is time passing between two `Poll`s.
`SendSyn`, `RecvSynAck`, `SendData`, `Leave`, `Deliver`, `Lose` are the game and
the network.

### How the game managers correspond to the code

`GameClients`: a connection is numbered by its arrival, so `GameService::Clients`,
a vector in that order, is a set, and `Find(p)`, `FindClientByPlayerId`, is the least
that carries `p`. `Accept`, `Login` and `Lose` are connection, the login request and
`OnLostPlayer`, to which each manager adds its part.

`SignManager`: `cache` and `queue` are `Entries` and `RemoveOrderQueue` of each
area. Ids only grow, so the queue is a set with the least id in front. `Popped` is
`TrimArea`, which `Add` ends with; it takes signs out of the cache without a word to
their owners or to those who were shown them. `RemoveAndNotifyAware`, `Told` and
`StillShown` are the removal and its pushes. The actions are the handlers of
`GetSignList`, `CreateSign`, `RemoveSign`, `SummonSign`, `RejectSign` and
`OnLostPlayer`; a request that only gets a rejection changes nothing and is the
absence of a step. `RemoveSign` has the early return of a sign that is in no cache:
it changes nothing on the server. `view`, `waiting`, `offers` and `laid` are not the
server's state but what its clients know: which signs they show, which they asked
for, which summons they were offered, and which of their own they have laid down and
not asked to remove. The first three advance when the server sends, since the channel
is FIFO.

`QuickMatchManager`: `listed` is `Matches`, by order of registration; the actions
are register, unregister, join, accept and reject (`AnswerJoin`), start, and
`OnLostPlayer`. `AcceptIllFormed` is the acceptance whose data is not what the server
expects (`DS3_QuickMatchManager.cpp:343-357`): the host gets its answer, the joiner
nothing. `phase`, `asked`, `accepted` and `joining` are what the clients know;
`accepted` holds the joiners a host let in whom nobody told.

Requests that only read or only forward (`UpdateSign`, matching areas, search,
update, result) are not actions. Matching rules are a constant (`MatchesWith`).

### How `ServerManager` corresponds to the code

`main` is where the main thread is in `RunUntilQuit` or `Term`, and between which
steps it holds `m_mutex` (recursive, `ManagerFree` when nobody else is kept out) and
`CallbackMutex`. The loop: `Poll`, `PruneOldServers`, one `StopServer` for each
pruned server (it joins that server's web threads), `BeginCallbacks`, one
`RunCallback` for each entry, `EndCallbacks`, `EndWait`. `Term` ends it.

`pc[r]` is where the web thread of request `r` is in `ShardingHandler::HandlePost`:
look up the user, `FindServer`, lock the local mutex and `QueueCallback` ("armed"
until `Wait` gives the mutex up), woken by its callback or spuriously, find the new
server, respond. The callback needs the handler's local mutex, so it cannot run
between `QueueCallback` and `Wait`. A shard is named by the request that started
it; starting one may fail.

### How `Injector` corresponds to the code

`at[t]` is where a thread of the game is, as far as the detours tell it apart:
inside the bytes of a function that a detour overwrites ("target"), in a
trampoline ("jump" towards the callback, "moved" on the copy of those bytes), in
the callback before `CallbackScope` ("enter"), within it ("body"), in the original
function it called ("original"), after it ("leave"), or in runtime code called from
there ("late"). `on[t]` is the hook. A thread is in one callback at a time: a
detoured function called from another callback is left out. Threads start and end
at any time while one of them runs.

The worker's steps follow `RunInjector`: `InstallPatches` and `InstallDetour` are
`InstallAll` with the next hook (`DS2_ReplaceServerAddressHook` patches; the DS3
hook, the port and the file name hook detour), each of which may fail or throw
half-way; `Restore` is one turn of `UninstallAll`'s loop, where a restoration may
fail; `Detach` is the control server's command, `Unexpected` an exception that
reaches `~HookManager`. `detoured` is `Bindings`, `installed` the length of
`InstalledHooks`, `instance` the `s_instance` of each callback, `patches` the length
of each `Patches`, `initialized` the control server's.

`Apply` is `Collect` (the snapshot), one `Enlist` for each thread of it, `Verified`
(the second snapshot and, for a removal, the callback counter and the stacks; one
step, since everybody is suspended when it succeeds), then `CommitAttach` or
`CommitDetach`; `CannotBegin` and `Abort` are its failures, which may come without a
reason the model knows. Detours is modelled from its vendored source: `Enlist`,
`Abort` and the two commits are its `DetourUpdateThread`, `DetourTransactionAbort`
and `DetourTransactionCommitEx`, for x64. A thread that a removal leaves in a freed
trampoline is "lost" and not followed any further.

## Runs

| Run | Shows | Instance |
|---|---|---|
| `data` | `InOrder`, `NoLoss`, `HeldSuffix`, `OldestRetransmitted`, `IInv`, `ImplementsChannel` | two client messages and one server message, window of 2, either side leaves: retransmission, replies, late and repeated ACKs and closing at any moment |
| `live` | `TypeOK`, `NumbersUnique`, `DeliveredOrFailed`, `CloseProgresses` | the server sends a message and the client leaves; a window of 1, a resent SYN, a heartbeat, counters that come round the modulus |
| `wrap` | **violation** of `NoLoss` | counters that start at 14 of 16 |
| `dupsyn` | **violation** of `InOrder` | one resent SYN |
| `close` | **violation** of `CloseTimesOut` | two server messages, a window of 1, the server leaves |
| `messages` | `TypeOK`, `InOrder`, `OutstandingAccounted`, `OnlyPushesFail`, `AwaitedAnswer`, `LoginEnds` | a login of two steps, two requests once idle, two pushes, payloads of one to three fragments |
| `session` | `TypeOK`, `TokenAlive`, `EstablishedReleased`, `Reconnects`, `TokenExpires` | two sessions of one player from one address, two datagrams on their way and two waiting |
| `lobby` | `TypeOK`; signs: `OriginConnected`, `OfferCurrent`, `WaiterReserved`, `RemovalAnnounced`, `KeepsNewest`; matches: `HostConnected`, `ListedWhileHosting`, `JoinerKnown` | three connections of two players, an area that holds one sign, two signs, two matches on two maps |
| `trim` | **violation** of `RemovalTold` | the lobby's instance |
| `shards` | `TypeOK`, `WaiterServed`, `HandlerServerAlive`, `RequestAnswered`, `LoopTurns` | three requests, two of one user, pruning, failing starts, spurious wake-ups, the quit signal |
| `hooks` | `TypeOK`, `UnloadSafe`, `CallbackState`, `Coherent`, `RunningWhole` | three threads; a patch of two places, a detour with an instance and one without; every step of the worker may fail |
| `quit` | **violation** of `QuitEnds` | one request and the quit signal |

### Bounds, and why they are enough to be interesting

*Packet layer.* Counters are modulo 16 with quarters 4 and 12 (4096, 1024 and 3072
in the code: the same proportions), one retransmission attempt (the code allows
160; what the properties tell apart is "may retry" and "gives up"), at most two
messages per stream. `AllButHandshake`: UDP may repeat every packet but `SYN` and
`SYN_ACK`. `SendLimit`, `SynResendLimit`, `HeartbeatLimit` and `Leavers` are bounds,
in guards. Two messages and a window of two are the least for which a later
message can overtake, an acknowledgement can skip one, and the receive queue can
hold two; the index arithmetic below the top quarter does not depend on where the
connection starts, and the two places where it does (top quarter, wrap) have runs
of their own. `live` starts so that the server's message is the last number below its
top quarter, here 14, and the `FIN_ACK` behind it brings the counter round; its
messages go one way only, since with a resent SYN and a heartbeat a second one takes
the liveness out of TLC's time. What the two directions do to each other is in `data`.

*Messages.* Sizes of 1, 3 and 5 with fragments of 2: one, two and three fragments,
with a last one that is not full, so that a wrong length test cuts early or late.
`LoginSteps` is 2 (6 in the code): the login, which is answered and followed by a
push, and a step which is only answered. `IdleLimit` 2 gives two requests
outstanding at once, `PushLimit` 2 a push between a message's predecessor and
itself. `LengthLimit` is 8 and no payload reaches it: `total_payload_length` is 16
bits wide in the code, and that payloads fit is an assumption
(`MessageAssumption`), not a result.

*Sessions.* Two sessions are what it takes for a late datagram of one to meet the
other's connection; one address, because the routing by address is the hazard;
two datagrams on their way, so that they overtake, and two in one `Poll`.
`AuthTimeout` 0 and `ClientTimeout` 1 keep the order of the two (30 s against 120 s
in the code), so that a token can be about to expire while its client still lives;
`CloseTimeout` 1 gives a `Poll` at which it is not over and one at which it is.
When `NetLimit` datagrams are on their way the next one costs one of them: no
sender waits.

*Managers.* Three connections are the least with a reconnecting player (two
connections of one player) and another who watches; `MaxEntries` 1 makes every
second sign push out a first. `CONSTRAINT OneManager` keeps the managers apart:
they share only `clients` and `playerId`, which requests leave alone, and no property
relates them, so a behaviour that uses both is one of each. The proofs are about
`Spec` and do without it.

*Server manager.* Two requests of one user and one of another: both of one user may
start a server, and a server found in the map may have been pruned. `Entrances`,
the servers whose web service is sent sharding requests, is the default server,
which is never pruned.

*Injector.* Three hooks, one of each kind: a patch before the detours, so that its
restoration may fail when the detours are gone, and two detours, so that one is in
while the other is attached. Three threads: one to be enlisted, one to run on
meanwhile, one to be created then; thread names are symmetric. `PatchLimit` 2: a
patch may be half done and half undone.

Deadlock is checked in `session`. It is not where the system really stops: a
connection that ended, a session that has sent all its bound allows, a process that
has quit, threads that were lost in a freed trampoline.

### The violations

Five disagreements between the code and what it says of itself:

* `wrap`: "held on to until they have been acked"
  (`Frpg2ReliableUdpPacketStream.h:151-152`). The client starts at 14; its second
  packet has index 0, and as soon as it is in flight the test
  `InLocalAck <= SequenceIndexAcked` (`.cpp:601`) drops it from the retransmit
  buffer. If the network loses it, it is gone. The header says so of the counters
  at line 123: rolling over is not handled.
* `dupsyn`: "prune duplicate / out of order" (`.cpp:252`). The client resends its
  SYN; one copy is delayed until the connection is established and the first data
  packet taken in. `Handle_SYN` sets the connection back to `SynReceived` and the
  remote index back to the beginning, and after an ACK the same data packet, on the
  way again, is taken in again.
* `close`: "don't bother trying to gracefully disconnect" (`.cpp:713`). The
  server leaves with a message queued behind a full window, the client has gone,
  retransmission gives up: `InErrorState`. From then on `Pump` returns at its
  second test (`.cpp:690`) and never looks at `CloseTimer`; `GameService` keeps the
  client on `DisconnectingClients`.
* `trim`: "Make sure user is marked as aware of the sign so we can clear up when the
  sign is removed" (`DS3_SignManager.cpp:180`) and "Tell anyone who is aware of this sign
  that its been removed" (line 270). The pool pushes the oldest sign of a full area out
  of the cache without a word; when its owner then asks to remove it, the handler does
  not find it and returns (line 261), before it tells anyone and without the response
  that, lines 276-277 say, the client does not work without. Who was shown the sign
  keeps it until its owner is lost.
* `quit`: "Register for Ctrl+C notifications, its the only way the server shuts
  down right now" (`ServerManager.cpp:27`). A sharding request has queued its
  callback and waits (`ShardingHandler.cpp:85`, no time limit); the signal ends the
  loop before the callback runs; `Term` joins the web thread, which never returns.

Met while modelling and not counted among the violations, most because no text of
the repository says otherwise:

* "Grab as many recent signs as we can from the cache" (`DS3_SignManager.cpp:142`):
  `GetRecentSet` (`OnlineAreaPool.h:187`) walks `RemoveOrderQueue` from its front, so
  that the oldest signs are handed out first. `GetSignList` models the walk; that
  much follows from reading it.
* A handler that fails answers nothing and the client stays: `LoginEnds` has to
  allow for it. `DS3_VisitorManager.cpp:224-225` and `DS3_SignManager.cpp:261` return
  without a reply in cases that are not failures of the client.
* `DS3_VisitorManager.cpp:199` sends a push as a second reply to its request, which
  is the mutant `AnswersTwice` of `OutstandingAccounted`.
* Some clients on `DisconnectingClients` are ended by no timeout (`Stuck`): one that
  was dropped before its handshake was complete, or was opened again by a late SYN,
  and one that is in error with packets queued, the case of `close`. They keep their
  address: every datagram from there, a new SYN included, goes to them, and is what
  puts the second kind in error. `Reconnects` has to allow for both.
* The answer to a resent SYN has a new number. When it comes late, it moves the client
  on to the number of a message that is on its way, and what the client then
  acknowledges takes the message out of the server's buffer, unread, with no error on
  either side. `DeliveredOrFailed` therefore speaks of connections whose SYN was not
  resent (the last disjunct); without it TLC finds the loss.
* A received FIN sets no `CloseTimer`: such a stream waits for its `FIN_ACK` to be
  sent, and only the silence of its client ends it.
* An acceptance whose data is ill-formed is answered to the host, who believes the
  joiner is coming; the joiner is told nothing (`DS3_QuickMatchManager.cpp:343-357`).
  `JoinerKnown` has to allow for it.
* `AuthClient` says it disconnects a client of an unsupported version and goes on.
* A summoner who is lost leaves its reservation behind until the owner answers, or
  the sign goes.
* Two sharding requests of one user at the same time start two servers.
* A shard that is pruned while its own web service runs a sharding request would
  hold the main loop for ever: `StopServer` joins a thread that waits for `m_mutex`, or
  for a callback. The `shards` run sends requests to the default server only.
* "Cover the prologue before increment and all return paths after decrement"
  (`DetourLifetime.cpp:146`): a thread suspended in the trampoline, on the jump to the
  callback, is not in the module yet, so `CheckStack` lets it pass, and
  `DetourTransactionCommitEx` takes threads out of the first `sizeof` of a pointer
  bytes only (`detours.cpp:1569`); it goes on in freed memory. In the model it is
  "lost".
* `DetourUpdateThread` allocates after earlier threads were suspended, and `Abort` and
  `Commit` free before they resume any. Should one of those hold the heap's lock, the
  worker waits for it for ever. Locks of the heap are not modelled, which is one
  reason why no liveness is stated of the injector.

### Fairness

`FairSpec` of each module asks only for what its code's scheduling gives.

* `ReliableUdp`. Weak: the owner keeps calling `Pump` on a stream
  (`GameService::Poll` does for both of its lists, `ClientSession` in its wait
  loops), and a `Pump` that began ends. Strong, for the three timeouts: each `Pump`
  compares a time that only grows with an interval, so a `Pump` that finds it too
  short is followed by one that does not if the condition keeps coming back.
  Nothing is asked of the network: it may lose every packet. That is why
  `DeliveredOrFailed` allows for failure, and it is the point of the property that
  there is no third outcome.
* `MessageStream`. Weak: both ends pump and receive, the session sends the request
  it is to send. The channel below delivers. Pushes and idle requests are left
  open.
* `GameService`. Weak: `Poll` is called again and again, and a game that connects
  keeps sending its SYN. Strong: a SYN that is sent again and again is delivered
  again and again. Time and the rest of the network are left open; `TokenExpires`
  has weak fairness of `Tick` as its hypothesis.
* `ServerManager`. Weak for the main thread: it runs whenever it can. Strong for the
  handlers: they wait for mutexes that the main thread holds and frees once per turn
  (it sleeps a second without them).
* `Injector` states none: a removal waits for the game's threads to leave their
  callbacks, which nothing makes them do.

## Proofs

Every theorem holds for all values of the constants that satisfy the `ASSUME`s of
its module; TLC evaluates those in every run.

| Module | Theorems |
|---|---|
| `ReliableUdp_proof` | `TypeCorrect` |
| `ReliableUdpInv_proof` | `Invariant`, `DeliveredInOrder`, `NothingLost`, `ChannelImplemented`; `CountersStayLow`, `TurnInvariant`, `SuffixHeld`, `OldestFirst`, `NumbersNotReused`, `OrderKept` |
| `MessageStream_proof` | `InvariantHolds`, `TypeCorrect`, `MessagesInOrder`, `RepliesAccounted`, `ErrorsArePushes`, `RepliesAwaited` |
| `GameService_proof` | `InvariantHolds`, `TokensAlive`, `EstablishedClientsReleased`, `TypeCorrect` |
| `Matchmaking_proof` | `InvariantHolds`, `TypeCorrect`, `OriginsConnected`, `OffersCurrent`, `WaitersReserved`, `RemovalsAnnounced`, `PoolKeepsNewest`, `HostsConnected`, `ListedWhileHosted`, `JoinersKnown` |
| `ServerManager_proof` | `InvariantHolds`, `TypeCorrect`, `WaitersServed`, `HandlerServersAlive` |
| `Injector_proof` | `InvariantHolds`, `TypeCorrect`, `UnloadIsSafe`, `CallbackStateKept`, `CoherentCode`, `RunningIsWhole` |

### Packet layer

`TypeCorrect == Spec => []TypeOK` needs `StreamAssumption` and `LastingAssumption`
only; the former puts the top quarter at least two below the modulus (3072 of 4096
in the code, 12 of 16 in the runs). `Invariant`, `DeliveredInOrder`, `NothingLost`
and `ChannelImplemented` assume

* `NoWrap`: the connection ends before a counter reaches the top quarter;
* `HandshakeOnce`: the SYN is not resent, and the network repeats neither `SYN` nor
  `SYN_ACK`.

The `wrap` and `dupsyn` runs show that neither can simply be dropped. Everything
else is arbitrary: the modulus, window, attempts and number of messages, which
packets are lost, delayed, reordered or repeated, who leaves and when, heartbeats.

`InOrder` is not inductive: it speaks of what was received, and the next packet to
be taken in comes from the network. The argument has three parts, the conjuncts of
`IInv`:

1. *A number stands for a position.* `Numbered` and `Counter`: below the top
   quarter, the packet at position `n` has index `start + n`, wherever a copy of it
   is (queued, in flight, being retransmitted, in the network), and `sequenceIndex`
   is the next one. This needs that the handshake happens once (`Silent`,
   `SynOnTheWay`, `SynAckOnTheWay`), since each handshake packet advances the
   counter too.
2. *The receiver waits for the next position.* `Expecting`: its
   `remoteSequenceIndex` is `start` plus the number of packets taken in. With 1, the
   only packet it accepts is the next one: `InOrder`.
3. *Nothing is acknowledged before it was received.* `Acknowledged` bounds by the
   receiver's progress every acknowledgement there is: in the sender, the
   receiver, the network, and in the receiver's queues, from which
   `HandledPacket` acknowledges again. Trimming then removes only what was received:
   `Retained`, hence `NoLoss`.

Parts 1 and 3 are about a receiver that may still take something in (`Open`). A
client that saw the server's FIN before its SYN_ACK is closing, and is not any
more when the SYN_ACK comes: found by TLC while checking `IInv`, and the
reason for the second disjunct of `Open` and of `SynAckOnTheWay`.

`ImplementsChannel` maps `accepted` to itself and `delivered` to the `received` of
the other end; `Send`, `HandleMessageReply` and `HandleFin` are `Accept`,
`HandleDat` is `Deliver`, all else stutters.

The order in which a stream sends and lets go (`HeldSuffix`, `OldestRetransmitted`,
`NumbersUnique`) does not depend on the handshake, nor on what the peer makes of the
packets. It has an invariant of its own, `TurnInv`, with `CountersLow` as its only
hypothesis: no stream that is not closed has a counter past the top quarter. SYNs may
be resent and repeated. Each acknowledgement trims what has an index below it, and
that is a beginning of what was accepted because indices go up with positions:
`Increasing`, for every copy wherever it is, and `QueuedLast`, that the retransmit
buffer holds earlier packets than the send queue. `HeldSuffix` is then inductive.
`OldestRetransmitted` is not: the packet being retransmitted may have been
acknowledged since, and only then is it not the oldest (`OldestAgain`). `NumbersLow`
says of every number in the queues and in the network that it is low, so that
`Trim` never takes one that has wrapped for a late one.

`CountersLow` is not left as a hypothesis: `CountersStayLow` proves it from `NoWrap`
and `HandshakeOnce`. `Tallied` follows the counter: it is the start, plus what was
accepted, plus one for the handshake packet; and it is not two for the client that
was already closing when the SYN_ACK came. `OrderKept` is the three properties from
assumptions on the constants alone.

TLC confirms the three invariants before they are proved, outside the listed runs: all
of them in the instance of `data`, `TurnInv` and `CountersLow` in that of `live` with
`RandIndices = {5}`, resent SYN included. As it stands `live` is about counters that
come round the modulus: `NumbersUnique` holds there too,
which the theorem does not say. `wrap` shows what goes wrong beyond.

### Message layers

For any sizes below the length limit, any fragment length and any number of
messages. `InOrder` says that putting together by length alone is right; the
reason is `Channels`, one statement for each direction: the packets on the wire,
after those already held, are the fragments of the messages sent and not yet
taken, in order and without a gap, and the length held is theirs. So the length
is complete exactly at the last fragment. What is outstanding (`Requests`,
`Replies`, `OutstandingAccounted`) is then followed through the three places a
message can be. `OneAtATime`, that a session that awaits has nothing else
outstanding, gives `AwaitedAnswer` although the session compares the index with
itself.

### Game service

`Shape` (the connections are records) and `TokenAlive`. A token is refreshed in the
same `Poll` in which its client is polled, before the expiry is judged: that holds
whatever a stream makes of its datagrams, and the proof does not look into it.

`EstablishedClientsReleased` is about the end of a connection, which depends on what is
still queued. A client whose handshake was complete and that has nothing in its
`SendQueue` leaves `DisconnectingClients` in the `Poll` that put it there, whatever
outcome its `Pump` has; one that was said goodbye to with packets queued leaves in the
first `Poll` after the close timeout, unless its stream is in error. The rest is not
released by any bound, and the theorem does not say so: see `Stuck` and `close`.

`TypeCorrect` looks into the stream: `Pump` leaves the stream in the state that the last
readable datagram puts it in, and `Streams` is a recursive function over them. That
each of its values is a state of a stream is a matter of induction, and so is that
`Streams` exists at all. Both are argued from the least counterexample: `LeastNat`,
that a set of numbers has a least one, follows from the well-foundedness of `<` and
`WFMin`, which take no operator as a parameter. The rest of `TypeInv` is that a
session is running when one plays or authenticates, and that the network is finite,
so that it has a size to bound.

### Game managers

Any number of players, connections, areas, signs and matches. `SignInv` adds to the
sign properties: `Strangers` (a client that is gone or has not logged in has
nothing), `Owned` and `CacheActive` (a cached sign is in its owner's
`ActiveSummonSigns`, and the owner still carries its player), `ShownAware` (who shows
an active sign is on its list), `ShownActive` (a shown sign is active: it stays so
while it is in nobody's cache), `LaidActive` (so are those its owner has laid down),
`OneOffer`. `RemovalAnnounced` follows from `ShownActive`: nobody shows a sign after
its removal by the server. What it does not say is that a sign goes when its owner
asks: with `CacheActive` alone the cache may be smaller than the active signs, and a
sign that was trimmed stays on the screens until its owner is lost. That is the
violation `trim`. `JoinerKnown` needs `accepted`, the joiners whose acceptance was
ill-formed. `WaiterReserved` and `RemovalAnnounced` are about players with one connection
(`Sole`); with two, a push goes to the first. `MatchInv` adds `Newcomers`,
`HostKnown` (the connection of a listed match still carries its host),
`JoinedSeen` and `HostsLast` (a player with one connection lists exactly the match it
registered last, while it hosts).

There is a lemma for each request and for the arrival, login and loss of a client:
those about signs in `SignManager_proof`, those about matches and what puts both
together in `Matchmaking_proof`.

### Server manager

Any number of requests, users and servers. `WaiterServed` and `HandlerServerAlive`
are inductive with types and one fact about the list (`next >= 1` while it is run
through). The argument for the wake-up is that a callback and its handler agree on
the handler's mutex: the callback cannot run between queueing and waiting, and the
list is cleared under the lock under which it was run to its end.

### Injector

Any number of threads, hooks of either kind and patches. `UnloadSafe` and
`CallbackState` are not inductive: they speak of the end of a removal and of threads
in callbacks, but whether a thread may be there depends on the detours. `Inside`
says it: whoever is in the module, or on its way, came through a detour that is
still in; and `Served` that such a detour has its instance. Both survive the removal
because of `Frozen`: when a transaction commits, every thread there is was suspended
by it, and, if it removes detours, none had a frame in the module. The second
snapshot carries that: threads created in between would run on. `Listed` and
`Worker` tie the hooks to the worker's place, so that what is in was put in by a hook
still listed, and `UninstallAll` ends only when none is.

### Only model-checked

Liveness (`DeliveredOrFailed`, `CloseProgresses`, `LoginEnds`, `Reconnects`,
`TokenExpires`, `RequestAnswered`, `LoopTurns`), which is out of the prover's reach.
What packets do once a counter is past the top quarter, and the order of what a
stream takes in when SYNs are resent or repeated: the theorems of the packet layer
assume it away, and `wrap` and `dupsyn` show that they must. Every invariant and
action property that a passing run checks is stated by a theorem.

## Not modelled

* *Most of the repository's lines* are generated protocol code, vendored libraries
  (protobuf, detours, Steam, json, ...), loaders and pages.
  They hold no server logic.
* *`RST`, `RACK`, `Reset`*: nothing in the repository sends the first two, and a
  closed stream is never used again.
* *Login service, TCP framing, database, crypto, files, settings, registration with
  the hub*: one request and one answer, pure functions, or I/O.
* *The other game managers*: a request and a reply from the database or a cache;
  their shape is `ServerReceive`. The DS2 managers have the structure of the DS3
  ones.
* *Threads of the network connections, hub*: candidates for further modules; their
  hazards are listed in `PROJECT.json` with no property.
* *Of the injector*: what callbacks do to the arguments they pass on, the debug hook
  that logs protobufs, configuration and logging, and `InjectorShutdown`, which
  nothing in the worker's path waits for.

## Plan

1. *(done)* Packet layer, its invariant, refinement of `MessageChannel`.
2. *(done)* Fragment and message streams with the session and the handlers.
3. *(done)* Game service, game client and authentication states.
4. *(done)* Online area pool, sign manager and quick match manager, composed.
5. *(done)* Server manager with the sharding handler.
6. *(done)* Injector: hooks, detours and their removal.
7. Threads of the network connections: a send thread that ends on one failed `sendto`.
8. Hub registration.
9. Back in the packet layer: `RST` and `RACK`; *(done)* theorems about the order
   of sending. A refinement between `GameService` and `GameClients`.
