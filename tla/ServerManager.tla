--------------------------- MODULE ServerManager ---------------------------
(***************************************************************************)
(* The server manager's main loop, which polls, prunes and starts servers, *)
(* against the web threads of those servers, where ShardingHandler takes a *)
(* request for a server, queues the work to the main loop and waits.       *)
(*                                                                         *)
(* A shard is named by the request that had it started.  Locks are held    *)
(* by the main thread (m_mutex, CallbackMutex) between the steps that take *)
(* and release them; a lock that a thread takes and releases within one    *)
(* step is a guard that it is free.                                        *)
(***************************************************************************)
EXTENDS Naturals, Sequences

CONSTANTS
  Requests,      \* the POST /sharding requests that arrive
  Users,         \* address and machine id of who asks: RequestHash
  UserOf,        \* the user of each request
  Default,       \* the default server
  Entrances,     \* servers whose web service is sent such requests
  NoServer,
  MayQuit        \* whether Ctrl+C may be pressed

ASSUME ManagerAssumption ==
  /\ UserOf \in [Requests -> Users]
  /\ Default \notin Requests
  /\ NoServer \notin Requests \cup {Default}
  /\ Entrances \subseteq Requests \cup {Default}
  /\ MayQuit \in BOOLEAN

Servers == Requests \cup {Default}

VARIABLES
  main,          \* where RunUntilQuit or Term is
  quit,          \* QuitReceived
  servers,       \* ServerInstances
  stopping,      \* servers whose StopServer was called and has not returned
  callbacks,     \* Callbacks, each the request that queued it
  next,          \* the callback the main loop runs next
  pc,            \* where the handler of each request is
  at,            \* the server whose web thread runs the handler
  found,         \* ServerId in the handler
  succeeded,     \* Success in the handler
  known          \* RequestHashToServerId of each server's handler

mainVars == <<main, quit, servers, stopping, callbacks, next>>
handlerVars == <<pc, at, found, succeeded, known>>
vars == <<mainVars, handlerVars>>

MainSteps == {"top", "polling", "stopping", "callbacks", "waiting", "terminating", "ended"}

HandlerSteps ==
  {"idle", "finding", "queueing", "armed", "waiting", "woken", "refinding",
   "responding", "done"}

TypeOK ==
  /\ main \in MainSteps
  /\ quit \in BOOLEAN
  /\ servers \subseteq Servers
  /\ stopping \subseteq servers
  /\ callbacks \in Seq(Requests)
  /\ next \in 0 .. Len(callbacks) + 1
  /\ pc \in [Requests -> HandlerSteps]
  /\ at \in [Requests -> Servers \cup {NoServer}]
  /\ found \in [Requests -> Servers \cup {NoServer}]
  /\ succeeded \in [Requests -> BOOLEAN]
  /\ known \in [Servers -> [Users -> Servers \cup {NoServer}]]

Init ==
  /\ main = "top" /\ quit = FALSE
  /\ servers = {Default} /\ stopping = {}
  /\ callbacks = <<>> /\ next = 0
  /\ pc = [r \in Requests |-> "idle"]
  /\ at = [r \in Requests |-> NoServer]
  /\ found = [r \in Requests |-> NoServer]
  /\ succeeded = [r \in Requests |-> FALSE]
  /\ known = [s \in Servers |-> [u \in Users |-> NoServer]]

\* m_mutex is recursive: it is busy for the handlers while the main thread
\* has it, in an iteration of the loop and while it stops a server.
ManagerFree == main \notin {"polling", "stopping", "callbacks", "terminating"}

CallbacksFree == main # "callbacks"

-----------------------------------------------------------------------------
(* The main thread *)

\* Every server is polled under m_mutex.
Poll ==
  /\ main = "top" /\ ~quit
  /\ main' = "polling"
  /\ UNCHANGED <<quit, servers, stopping, callbacks, next, handlerVars>>

\* Once a minute the shards nobody has used for SERVER_TIMEOUT are stopped.
PruneOldServers(unused) ==
  /\ main = "polling"
  /\ unused \subseteq servers \ {Default}
  /\ stopping' = unused
  /\ main' = "stopping"
  /\ UNCHANGED <<quit, servers, callbacks, next, handlerVars>>

\* Mutant of StopServer: the handlers are not joined.
StopServerUnjoined(s) ==
  /\ s \in stopping
  /\ servers' = servers \ {s}
  /\ stopping' = stopping \ {s}
  /\ UNCHANGED <<main, quit, callbacks, next, handlerVars>>

\* StopServer: Term stops the web server and joins the thread that listens,
\* which joins the handlers; then the instance is erased.
StopServer(s) ==
  /\ s \in stopping
  /\ \A r \in Requests : at[r] = s => pc[r] = "done"
  /\ servers' = servers \ {s}
  /\ stopping' = stopping \ {s}
  /\ UNCHANGED <<main, quit, callbacks, next, handlerVars>>

\* The loop takes CallbackMutex and keeps it until the list is cleared.
BeginCallbacks ==
  /\ main = "stopping" /\ stopping = {}
  /\ main' = "callbacks" /\ next' = 1
  /\ UNCHANGED <<quit, servers, stopping, callbacks, handlerVars>>

\* Mutants of RunCallback: the handler's mutex is not taken; the handler keeps
\* its mutex while it waits.
RunCallbackUnlocked(started) ==
  /\ main = "callbacks" /\ next <= Len(callbacks)
  /\ LET r == callbacks[next]
     IN  /\ servers' = IF started THEN servers \cup {r} ELSE servers
         /\ found' = [found EXCEPT ![r] = r]
         /\ succeeded' = [succeeded EXCEPT ![r] = started]
         /\ pc' = [pc EXCEPT ![r] = IF @ = "waiting" THEN "woken" ELSE @]
  /\ next' = next + 1
  /\ UNCHANGED <<main, quit, stopping, callbacks, at, known>>

RunCallbackBlocked(started) ==
  /\ main = "callbacks" /\ next <= Len(callbacks)
  /\ LET r == callbacks[next]
     IN  /\ pc[r] \notin {"armed", "waiting"}
         /\ servers' = IF started THEN servers \cup {r} ELSE servers
         /\ found' = [found EXCEPT ![r] = r]
         /\ succeeded' = [succeeded EXCEPT ![r] = started]
         /\ UNCHANGED pc
  /\ next' = next + 1
  /\ UNCHANGED <<main, quit, stopping, callbacks, at, known>>

\* The lambda of HandlePost: it needs the handler's local mutex, which the
\* handler gives up when it waits; NewServer may fail in the server's Init.
RunCallback(started) ==
  /\ main = "callbacks" /\ next <= Len(callbacks)
  /\ LET r == callbacks[next]
     IN  /\ pc[r] # "armed"
         /\ servers' = IF started THEN servers \cup {r} ELSE servers
         /\ found' = [found EXCEPT ![r] = r]
         /\ succeeded' = [succeeded EXCEPT ![r] = started]
         /\ pc' = [pc EXCEPT ![r] = IF @ = "waiting" THEN "woken" ELSE @]
  /\ next' = next + 1
  /\ UNCHANGED <<main, quit, stopping, callbacks, at, known>>

\* Mutant of EndCallbacks: the iterator outlives the list.
EndCallbacksStale ==
  /\ main = "callbacks" /\ next > Len(callbacks)
  /\ callbacks' = <<>>
  /\ main' = "waiting"
  /\ UNCHANGED <<quit, servers, stopping, next, handlerVars>>

EndCallbacks ==
  /\ main = "callbacks" /\ next > Len(callbacks)
  /\ callbacks' = <<>> /\ next' = 0
  /\ main' = "waiting"
  /\ UNCHANGED <<quit, servers, stopping, handlerVars>>

\* Mutant of EndWait: no time limit, so that only QuitReceived ends the wait.
EndWaitOnQuit ==
  /\ main = "waiting" /\ quit
  /\ main' = "top"
  /\ UNCHANGED <<quit, servers, stopping, callbacks, next, handlerVars>>

\* wait_for: the second is over, or QuitReceived.  A notification alone only
\* evaluates the predicate again.
EndWait ==
  /\ main = "waiting"
  /\ main' = "top"
  /\ UNCHANGED <<quit, servers, stopping, callbacks, next, handlerVars>>

\* RunUntilQuit returns and Term stops every server.
Term ==
  /\ main = "top" /\ quit
  /\ main' = "terminating" /\ stopping' = servers
  /\ UNCHANGED <<quit, servers, callbacks, next, handlerVars>>

EndTerm ==
  /\ main = "terminating" /\ stopping = {}
  /\ main' = "ended"
  /\ UNCHANGED <<quit, servers, stopping, callbacks, next, handlerVars>>

\* The Ctrl+C handler.
CtrlSignal ==
  /\ MayQuit /\ ~quit
  /\ quit' = TRUE
  /\ UNCHANGED <<main, servers, stopping, callbacks, next, handlerVars>>

-----------------------------------------------------------------------------
(* ShardingHandler::HandlePost, on a web thread *)

\* The request arrives at a server that listens; the handler looks its user up.
HandlePost(r, s) ==
  /\ pc[r] = "idle"
  /\ s \in (servers \ stopping) \cap Entrances
  /\ at' = [at EXCEPT ![r] = s]
  /\ found' = [found EXCEPT ![r] = known[s][UserOf[r]]]
  /\ pc' = [pc EXCEPT ![r] = IF known[s][UserOf[r]] # NoServer
                               THEN "finding" ELSE "queueing"]
  /\ UNCHANGED <<succeeded, known, mainVars>>

\* The user's server, if it still runs; otherwise a new one is needed.
FindServer(r) ==
  /\ pc[r] = "finding"
  /\ ManagerFree
  /\ pc' = [pc EXCEPT ![r] = IF found[r] \in servers THEN "responding" ELSE "queueing"]
  /\ UNCHANGED <<at, found, succeeded, known, mainVars>>

\* The handler locks its mutex and queues the callback.
QueueCallback(r) ==
  /\ pc[r] = "queueing"
  /\ CallbacksFree
  /\ callbacks' = Append(callbacks, r)
  /\ pc' = [pc EXCEPT ![r] = "armed"]
  /\ UNCHANGED <<main, quit, servers, stopping, next, at, found, succeeded, known>>

\* convar.wait gives the mutex up and sleeps, in one.
Wait(r) ==
  /\ pc[r] = "armed"
  /\ pc' = [pc EXCEPT ![r] = "waiting"]
  /\ UNCHANGED <<at, found, succeeded, known, mainVars>>

\* convar.wait has no predicate: a spurious wake-up reads Success as it was
\* initialised, and the request fails with its callback still queued.
SpuriousWake(r) ==
  /\ pc[r] = "waiting"
  /\ pc' = [pc EXCEPT ![r] = "done"]
  /\ UNCHANGED <<at, found, succeeded, known, mainVars>>

Wake(r) ==
  /\ pc[r] = "woken"
  /\ pc' = [pc EXCEPT ![r] = IF succeeded[r] THEN "refinding" ELSE "done"]
  /\ UNCHANGED <<at, found, succeeded, known, mainVars>>

FindNewServer(r) ==
  /\ pc[r] = "refinding"
  /\ ManagerFree
  /\ pc' = [pc EXCEPT ![r] = IF found[r] \in servers THEN "responding" ELSE "done"]
  /\ UNCHANGED <<at, found, succeeded, known, mainVars>>

\* The user is noted with the server, and its details are sent back.
RespondJson(r) ==
  /\ pc[r] = "responding"
  /\ known' = [known EXCEPT ![at[r]][UserOf[r]] = found[r]]
  /\ pc' = [pc EXCEPT ![r] = "done"]
  /\ UNCHANGED <<at, found, succeeded, mainVars>>

-----------------------------------------------------------------------------
MainThread ==
  \/ Poll
  \/ \E unused \in SUBSET Requests : PruneOldServers(unused)
  \/ \E s \in Servers : StopServer(s)
  \/ BeginCallbacks
  \/ \E started \in BOOLEAN : RunCallback(started)
  \/ EndCallbacks
  \/ EndWait
  \/ Term
  \/ EndTerm

Handler(r) ==
  \/ FindServer(r) \/ QueueCallback(r) \/ Wait(r) \/ Wake(r)
  \/ FindNewServer(r) \/ RespondJson(r)

Next ==
  \/ MainThread
  \/ CtrlSignal
  \/ \E r \in Requests :
       Handler(r) \/ SpuriousWake(r) \/ \E s \in Servers : HandlePost(r, s)

\* Threads that can run do, and one that needs a lock which is free again and
\* again gets it: the main loop gives both up for its second of waiting.
Fairness ==
  /\ WF_vars(MainThread)
  /\ \A r \in Requests : SF_vars(Handler(r))

Spec == Init /\ [][Next]_vars

FairSpec == Spec /\ Fairness

-----------------------------------------------------------------------------
(* What the manager promises *)

\* No lost wake-up: the callback of a handler that waits, or is about to, is
\* in the list and has not been run, however the queueing, the run and the
\* clearing of the list interleave.
WaiterServed ==
  \A r \in Requests : pc[r] \in {"armed", "waiting"} =>
    \E i \in DOMAIN callbacks :
      callbacks[i] = r /\ (main = "callbacks" => i >= next)

\* A handler's service and server outlive it: StopServer erases no server
\* while a request runs on its web threads.
HandlerServerAlive ==
  \A r \in Requests : pc[r] \notin {"idle", "done"} => at[r] \in servers

\* A request for a server is answered, unless the process is told to quit.
RequestAnswered ==
  \A r \in Requests : pc[r] # "idle" ~> pc[r] = "done" \/ quit

\* The main loop keeps turning: neither a callback nor a server it prunes
\* holds it for ever.
LoopTurns == []<>(main = "top" \/ quit)

\* "Register for Ctrl+C notifications, its the only way the server shuts down
\* right now": once the signal came, the manager terminates.
QuitEnds == quit ~> main = "ended"
=============================================================================
