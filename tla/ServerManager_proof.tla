------------------------ MODULE ServerManager_proof ------------------------
(***************************************************************************)
(* Proofs about ServerManager: any number of requests, users and servers.  *)
(***************************************************************************)
EXTENDS ServerManager, SequenceTheorems, TLAPS

\* The inductive invariant: while the callbacks run, the next one is a place
\* in the list or just past it.
IInv ==
  /\ TypeOK
  /\ main = "callbacks" => next >= 1
  /\ WaiterServed
  /\ HandlerServerAlive

LEMMA InitEstablishes == Init => IInv
<1> SUFFICES ASSUME Init PROVE IInv
  OBVIOUS
<1>1. callbacks \in Seq(Requests) /\ next \in 0 .. Len(callbacks) + 1
  BY EmptySeq DEF Init
<1>2. TypeOK
  BY <1>1, ManagerAssumption DEF Init, TypeOK, MainSteps, HandlerSteps, Servers
<1>3. WaiterServed /\ HandlerServerAlive /\ main # "callbacks"
  BY DEF Init, WaiterServed, HandlerServerAlive
<1> QED BY <1>2, <1>3 DEF IInv

\* What the main thread does without running a callback.
LEMMA MainType ==
  ASSUME IInv,
         \/ Poll
         \/ \E unused \in SUBSET Requests : PruneOldServers(unused)
         \/ \E s \in Servers : StopServer(s)
         \/ BeginCallbacks \/ EndCallbacks \/ EndWait \/ Term \/ EndTerm
         \/ CtrlSignal
  PROVE  TypeOK' /\ (main = "callbacks" => next >= 1)'
<1>1. CASE Poll
  BY <1>1 DEF IInv, TypeOK, Poll, handlerVars, MainSteps
<1>2. CASE \E unused \in SUBSET Requests : PruneOldServers(unused)
  BY <1>2 DEF IInv, TypeOK, PruneOldServers, handlerVars, MainSteps
<1>3. CASE \E s \in Servers : StopServer(s)
  BY <1>3 DEF IInv, TypeOK, StopServer, handlerVars, MainSteps
<1>4. CASE BeginCallbacks
  BY <1>4 DEF IInv, TypeOK, BeginCallbacks, handlerVars, MainSteps
<1>5. CASE EndCallbacks
  <2>1. callbacks' \in Seq(Requests) /\ next' \in 0 .. Len(callbacks') + 1
    BY <1>5, EmptySeq DEF EndCallbacks
  <2> QED BY <1>5, <2>1 DEF IInv, TypeOK, EndCallbacks, handlerVars, MainSteps
<1>6. CASE EndWait
  BY <1>6 DEF IInv, TypeOK, EndWait, handlerVars, MainSteps
<1>7. CASE Term
  BY <1>7 DEF IInv, TypeOK, Term, handlerVars, MainSteps
<1>8. CASE EndTerm
  BY <1>8 DEF IInv, TypeOK, EndTerm, handlerVars, MainSteps
<1>9. CASE CtrlSignal
  BY <1>9 DEF IInv, TypeOK, CtrlSignal, handlerVars, MainSteps
<1> QED BY <1>1, <1>2, <1>3, <1>4, <1>5, <1>6, <1>7, <1>8, <1>9

\* The callback that runs is one of the list's.
LEMMA RunsRequest ==
  ASSUME IInv, NEW started \in BOOLEAN, RunCallback(started)
  PROVE  next \in DOMAIN callbacks /\ callbacks[next] \in Requests
<1>1. next \in 1 .. Len(callbacks)
  BY DEF IInv, TypeOK, RunCallback
<1> QED BY <1>1, ElementOfSeq, LenProperties DEF IInv, TypeOK

LEMMA RunCallbackType ==
  ASSUME IInv, NEW started \in BOOLEAN, RunCallback(started)
  PROVE  TypeOK' /\ (main = "callbacks" => next >= 1)'
<1> DEFINE r == callbacks[next]
<1>1. r \in Requests
  BY RunsRequest
<1>2. servers' \subseteq Servers /\ stopping' \subseteq servers'
  BY <1>1 DEF IInv, TypeOK, RunCallback, Servers
<1>3. next' \in 0 .. Len(callbacks') + 1 /\ next' >= 1
  BY DEF IInv, TypeOK, RunCallback
<1>4. pc' \in [Requests -> HandlerSteps]
  BY <1>1 DEF IInv, TypeOK, RunCallback, HandlerSteps
<1>5. /\ found' \in [Requests -> Servers \cup {NoServer}]
      /\ succeeded' \in [Requests -> BOOLEAN]
  BY <1>1 DEF IInv, TypeOK, RunCallback, Servers
<1> QED BY <1>2, <1>3, <1>4, <1>5 DEF IInv, TypeOK, RunCallback

\* A handler's steps leave the main thread's state alone, but for the list.
LEMMA HandlerType ==
  ASSUME IInv, NEW r \in Requests,
         Handler(r) \/ SpuriousWake(r) \/ \E s \in Servers : HandlePost(r, s)
  PROVE  TypeOK' /\ (main = "callbacks" => next >= 1)'
<1>1. CASE FindServer(r)
  BY <1>1 DEF IInv, TypeOK, FindServer, mainVars, HandlerSteps
<1>2. CASE QueueCallback(r)
  <2>1. callbacks' \in Seq(Requests) /\ Len(callbacks') = Len(callbacks) + 1
    BY <1>2, AppendProperties DEF IInv, TypeOK, QueueCallback
  <2>2. next' \in 0 .. Len(callbacks') + 1
    BY <1>2, <2>1, LenProperties DEF IInv, TypeOK, QueueCallback
  <2> QED BY <1>2, <2>1, <2>2 DEF IInv, TypeOK, QueueCallback, HandlerSteps
<1>3. CASE Wait(r)
  BY <1>3 DEF IInv, TypeOK, Wait, mainVars, HandlerSteps
<1>4. CASE Wake(r)
  BY <1>4 DEF IInv, TypeOK, Wake, mainVars, HandlerSteps
<1>5. CASE FindNewServer(r)
  BY <1>5 DEF IInv, TypeOK, FindNewServer, mainVars, HandlerSteps
<1>6. CASE RespondJson(r)
  <2>1. at[r] \in Servers \cup {NoServer} /\ found[r] \in Servers \cup {NoServer}
    BY DEF IInv, TypeOK
  <2>2. known' \in [Servers -> [Users -> Servers \cup {NoServer}]]
    BY <1>6, <2>1, ManagerAssumption DEF IInv, TypeOK, RespondJson
  <2> QED BY <1>6, <2>2 DEF IInv, TypeOK, RespondJson, mainVars, HandlerSteps
<1>7. CASE SpuriousWake(r)
  BY <1>7 DEF IInv, TypeOK, SpuriousWake, mainVars, HandlerSteps
<1>8. CASE \E s \in Servers : HandlePost(r, s)
  <2>1. PICK s \in Servers : HandlePost(r, s)
    BY <1>8
  <2>2. known[s][UserOf[r]] \in Servers \cup {NoServer}
    BY ManagerAssumption DEF IInv, TypeOK
  <2> QED BY <2>1, <2>2 DEF IInv, TypeOK, HandlePost, mainVars, HandlerSteps
<1> QED BY <1>1, <1>2, <1>3, <1>4, <1>5, <1>6, <1>7, <1>8 DEF Handler

-----------------------------------------------------------------------------
(* No lost wake-up *)

\* The main thread's other steps: a handler waits where it waited, and the
\* list is only cleared when every callback in it has been run.
LEMMA MainServes ==
  ASSUME IInv,
         \/ Poll
         \/ \E unused \in SUBSET Requests : PruneOldServers(unused)
         \/ \E s \in Servers : StopServer(s)
         \/ BeginCallbacks \/ EndCallbacks \/ EndWait \/ Term \/ EndTerm
         \/ CtrlSignal
  PROVE  WaiterServed'
<1>1. CASE BeginCallbacks
  BY <1>1, LenProperties DEF IInv, TypeOK, WaiterServed, BeginCallbacks, handlerVars
<1>2. CASE EndCallbacks
  <2>1. \A r \in Requests : pc[r] \notin {"armed", "waiting"}
    <3> SUFFICES ASSUME NEW r \in Requests, pc[r] \in {"armed", "waiting"}
                 PROVE  FALSE
      OBVIOUS
    <3>1. PICK i \in DOMAIN callbacks : i >= next
      BY <1>2 DEF IInv, WaiterServed, EndCallbacks
    <3> QED BY <1>2, <3>1, LenProperties DEF IInv, TypeOK, EndCallbacks
  <2> QED BY <1>2, <2>1 DEF WaiterServed, EndCallbacks, handlerVars
<1>3. CASE /\ UNCHANGED <<callbacks, pc>>
           /\ main' # "callbacks" \/ UNCHANGED <<main, next>>
  BY <1>3 DEF IInv, WaiterServed
<1> QED
  BY <1>1, <1>2, <1>3
  DEF Poll, PruneOldServers, StopServer, EndWait, Term, EndTerm, CtrlSignal, handlerVars

\* The handler whose callback runs is woken; another's comes later in the list.
LEMMA RunCallbackServes ==
  ASSUME IInv, NEW started \in BOOLEAN, RunCallback(started)
  PROVE  WaiterServed'
<1> SUFFICES ASSUME NEW r \in Requests, pc'[r] \in {"armed", "waiting"}
             PROVE  \E i \in DOMAIN callbacks' :
                      callbacks'[i] = r /\ (main' = "callbacks" => i >= next')
  BY DEF WaiterServed
<1>1. r # callbacks[next] /\ pc[r] \in {"armed", "waiting"}
  BY RunsRequest DEF IInv, TypeOK, RunCallback
<1>2. PICK i \in DOMAIN callbacks : callbacks[i] = r /\ i >= next
  BY <1>1 DEF IInv, WaiterServed, RunCallback
<1>3. i >= next + 1
  BY <1>1, <1>2, LenProperties DEF IInv, TypeOK
<1> QED BY <1>2, <1>3 DEF RunCallback

\* A handler queues its callback before it waits, and while none is run.
LEMMA HandlerServes ==
  ASSUME IInv, NEW r \in Requests,
         Handler(r) \/ SpuriousWake(r) \/ \E s \in Servers : HandlePost(r, s)
  PROVE  WaiterServed'
<1>1. CASE QueueCallback(r)
  <2>1. /\ callbacks' \in Seq(Requests)
        /\ DOMAIN callbacks \subseteq DOMAIN callbacks'
        /\ \A i \in DOMAIN callbacks : callbacks'[i] = callbacks[i]
        /\ Len(callbacks) + 1 \in DOMAIN callbacks'
        /\ callbacks'[Len(callbacks) + 1] = r
    BY <1>1, AppendProperties, LenProperties DEF IInv, TypeOK, QueueCallback
  <2>2. main' # "callbacks"
    BY <1>1 DEF QueueCallback, CallbacksFree
  <2>3. \A q \in Requests \ {r} : pc'[q] = pc[q]
    BY <1>1 DEF IInv, TypeOK, QueueCallback
  <2> QED BY <2>1, <2>2, <2>3 DEF IInv, WaiterServed
<1>2. CASE /\ UNCHANGED <<callbacks, main, next>>
           /\ \A q \in Requests : pc'[q] \in {"armed", "waiting"}
                                    => pc[q] \in {"armed", "waiting"}
  BY <1>2 DEF IInv, WaiterServed
<1>3. CASE FindServer(r) \/ Wait(r) \/ Wake(r) \/ FindNewServer(r) \/ RespondJson(r)
             \/ SpuriousWake(r)
  BY <1>2, <1>3
  DEF IInv, TypeOK, FindServer, Wait, Wake, FindNewServer, RespondJson, SpuriousWake, mainVars
<1>4. CASE \E s \in Servers : HandlePost(r, s)
  BY <1>2, <1>4 DEF IInv, TypeOK, HandlePost, mainVars
<1> QED BY <1>1, <1>3, <1>4 DEF Handler

-----------------------------------------------------------------------------
(* The servers of running handlers *)

LEMMA MainKeepsServers ==
  ASSUME IInv, MainThread \/ CtrlSignal
  PROVE  HandlerServerAlive'
<1>1. CASE \E s \in Servers : StopServer(s)
  <2>1. PICK s \in Servers : StopServer(s)
    BY <1>1
  <2> SUFFICES ASSUME NEW r \in Requests, pc'[r] \notin {"idle", "done"}
               PROVE  at'[r] \in servers'
    BY DEF HandlerServerAlive
  <2>2. pc[r] \notin {"idle", "done"} /\ at'[r] = at[r]
    BY <2>1 DEF StopServer, handlerVars
  <2>3. at[r] \in servers /\ at[r] # s
    BY <2>1, <2>2 DEF IInv, HandlerServerAlive, StopServer
  <2> QED BY <2>1, <2>2, <2>3 DEF StopServer
<1>2. CASE \E started \in BOOLEAN : RunCallback(started)
  <2>1. PICK started \in BOOLEAN : RunCallback(started)
    BY <1>2
  <2>2. \A r \in Requests : pc'[r] \notin {"idle", "done"} => pc[r] \notin {"idle", "done"}
    BY <2>1, RunsRequest DEF IInv, TypeOK, RunCallback
  <2> QED BY <2>1, <2>2 DEF IInv, HandlerServerAlive, RunCallback
<1>3. CASE UNCHANGED <<pc, at, servers>>
  BY <1>3 DEF IInv, HandlerServerAlive
<1> QED
  BY <1>1, <1>2, <1>3
  DEF MainThread, Poll, PruneOldServers, BeginCallbacks, EndCallbacks, EndWait, Term,
      EndTerm, CtrlSignal, handlerVars

LEMMA HandlerKeepsServers ==
  ASSUME IInv, NEW r \in Requests,
         Handler(r) \/ SpuriousWake(r) \/ \E s \in Servers : HandlePost(r, s)
  PROVE  HandlerServerAlive'
<1>1. CASE \E s \in Servers : HandlePost(r, s)
  BY <1>1 DEF IInv, TypeOK, HandlerServerAlive, HandlePost, mainVars
<1>2. CASE /\ UNCHANGED <<at, servers>>
           /\ pc[r] \notin {"idle", "done"}
           /\ \A q \in Requests \ {r} : pc'[q] = pc[q]
  BY <1>2 DEF IInv, HandlerServerAlive
<1>3. CASE FindServer(r) \/ QueueCallback(r) \/ Wait(r) \/ Wake(r) \/ FindNewServer(r)
             \/ RespondJson(r) \/ SpuriousWake(r)
  BY <1>2, <1>3
  DEF IInv, TypeOK, FindServer, QueueCallback, Wait, Wake, FindNewServer, RespondJson,
      SpuriousWake, mainVars
<1> QED BY <1>1, <1>3 DEF Handler

-----------------------------------------------------------------------------
LEMMA NextPreserves == IInv /\ [Next]_vars => IInv'
<1> SUFFICES ASSUME IInv, [Next]_vars PROVE IInv'
  OBVIOUS
<1>1. CASE MainThread \/ CtrlSignal
  <2>1. TypeOK' /\ (main = "callbacks" => next >= 1)'
    BY <1>1, MainType, RunCallbackType DEF MainThread
  <2>2. WaiterServed'
    BY <1>1, MainServes, RunCallbackServes DEF MainThread
  <2>3. HandlerServerAlive'
    BY <1>1, MainKeepsServers
  <2> QED BY <2>1, <2>2, <2>3 DEF IInv
<1>2. CASE \E r \in Requests :
             Handler(r) \/ SpuriousWake(r) \/ \E s \in Servers : HandlePost(r, s)
  BY <1>2, HandlerType, HandlerServes, HandlerKeepsServers DEF IInv
<1>3. CASE UNCHANGED vars
  BY <1>3
  DEF IInv, TypeOK, WaiterServed, HandlerServerAlive, vars, mainVars, handlerVars
<1> QED BY <1>1, <1>2, <1>3 DEF Next

THEOREM InvariantHolds == Spec => []IInv
BY InitEstablishes, NextPreserves, PTL DEF Spec

\* The locks, lists and lookups of the manager and of the handlers keep their
\* types: no callback is taken from past the end of the list.
THEOREM TypeCorrect == Spec => []TypeOK
<1>1. IInv => TypeOK
  BY DEF IInv
<1> QED BY <1>1, InvariantHolds, PTL

\* No wake-up of a ShardingHandler that waits for its server is lost.
THEOREM WaitersServed == Spec => []WaiterServed
<1>1. IInv => WaiterServed
  BY DEF IInv
<1> QED BY <1>1, InvariantHolds, PTL

\* No server is erased while a request runs on its web threads.
THEOREM HandlerServersAlive == Spec => []HandlerServerAlive
<1>1. IInv => HandlerServerAlive
  BY DEF IInv
<1> QED BY <1>1, InvariantHolds, PTL
=============================================================================
