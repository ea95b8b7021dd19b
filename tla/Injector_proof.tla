--------------------------- MODULE Injector_proof ---------------------------
(***************************************************************************)
(* Proofs about Injector: any number of threads, hooks of either kind and  *)
(* patches.                                                                *)
(***************************************************************************)
EXTENDS Injector, TLAPS

InTransaction == {"enlist", "commit"}
Detaching == {"collect", "enlist", "commit", "restore"}

\* What is in was put in by a hook that is still listed.
Listed ==
  /\ detoured \union instance \subseteq 1 .. installed
  /\ \A h \in Hooks : h > installed => patches[h] = 0

\* The hooks listed before n are in, whole.
WholeUpTo(n) ==
  /\ detoured = DetourHooks \intersect (1 .. n)
  /\ \A h \in PatchHooks : h <= n => patches[h] = PatchLimit

\* What the worker's place says about the hooks.
Worker ==
  /\ pc \in {"start", "unload", "gone"} => installed = 0
  /\ pc = "restore" => detoured = {}
  /\ pc \in {"start", "install"} => caller = "init"
  /\ pc = "install" => adding = 0 /\ WholeUpTo(installed)
  /\ adding # 0 =>
       /\ caller = "init"
       /\ adding = installed /\ WholeUpTo(installed - 1)
       /\ adding \in StaticHooks \union instance
       /\ pc \in {"collect"} \union InTransaction
  /\ initialized => pc = "serve" \/ (pc \in Detaching /\ adding = 0 /\ caller # "init")

\* What it says about the threads: when a transaction commits nobody runs, and
\* when it removes detours nobody is in a callback.
Frozen ==
  /\ pc \notin InTransaction => suspended = {} /\ handles = {}
  /\ pc = "commit" => AllEnlisted /\ (adding = 0 => Quiescent)

\* Only a detour that is in leads into the module.
Inside == \A t \in Threads : at[t] \in InModule \union {"jump"} => on[t] \in detoured

\* A callback that can be entered has its instance.
Served == detoured \subseteq StaticHooks \union instance

IInv == TypeOK /\ Listed /\ Worker /\ Frozen /\ Inside /\ Served /\ Coherent /\ RunningWhole

hookWork == <<hookVars, pc, adding, caller, initialized>>
apply == <<suspended, handles>>

LEMMA HookSet == Hooks \subseteq Nat /\ 0 \notin Hooks /\ HookCount \in Nat
BY InjectorAssumption DEF Hooks

LEMMA InitEstablishes == Init => IInv
<1> SUFFICES ASSUME Init PROVE IInv
  OBVIOUS
<1>1. at \in [Threads -> Places] /\ \A t \in Threads : at[t] \in {"none", "game"}
  BY DEF Init, Places
<1>2. TypeOK
  <2>1. on \in [Threads -> DetourHooks \union {0}] /\ installed \in 0 .. HookCount
    BY HookSet DEF Init
  <2>2. patches \in [Hooks -> 0 .. PatchLimit]
    BY InjectorAssumption DEF Init
  <2> QED BY <1>1, <2>1, <2>2 DEF Init, TypeOK
<1>3. Listed /\ Served
  BY HookSet DEF Init, Listed, Served
<1>4. Worker /\ Frozen
  BY DEF Init, Worker, Frozen, InTransaction
<1>5. Inside /\ Coherent /\ RunningWhole
  BY <1>1 DEF Init, Inside, InModule, Coherent, RunningWhole
<1> QED BY <1>2, <1>3, <1>4, <1>5 DEF IInv

\* The threads of the game change nothing of the hooks, and none runs while a
\* transaction commits.
LEMMA GamePreserves == IInv /\ GameStep => IInv'
<1> SUFFICES ASSUME IInv, GameStep PROVE IInv'
  OBVIOUS
<1> USE DEF IInv
<1>1. UNCHANGED hookWork /\ UNCHANGED apply
  BY DEF GameStep, Spawn, End, Call, Proceed, hookWork, apply
<1>2. PICK t \in Threads :
        \/ Spawn(t) \/ End(t)
        \/ \E h \in DetourHooks : Call(t, h)
        \/ \E place \in Places : Proceed(t, place)
  BY DEF GameStep
<1>3. pc # "commit"
  BY <1>2 DEF Frozen, AllEnlisted, Spawn, End, Call, Proceed, Running, Alive
<1>4. (Listed /\ Worker /\ Served /\ RunningWhole)'
  BY <1>1 DEF hookWork, hookVars, Listed, Worker, WholeUpTo, Served, RunningWhole
<1>5. Frozen'
  BY <1>1, <1>3 DEF hookWork, apply, Frozen
<1>6. TypeOK' /\ Inside' /\ Coherent'
  <2>1. CASE Spawn(t) \/ End(t)
    BY <2>1, <1>1 DEF Spawn, End, hookWork, hookVars, apply, TypeOK, Inside, Coherent, Places, InModule
  <2>2. CASE \E h \in DetourHooks : Call(t, h)
    BY <2>2, <1>1 DEF Call, hookWork, hookVars, apply, TypeOK, Inside, Coherent, Places, InModule
  <2>3. CASE \E place \in Places : Proceed(t, place)
    <3>1. PICK place \in Places : Proceed(t, place)
      BY <2>3
    <3>2. /\ at' = [at EXCEPT ![t] = place]
          /\ on' = [on EXCEPT ![t] = IF place = "game" THEN 0 ELSE @]
          /\ place # "target" /\ place # "jump"
          /\ place \in InModule => at[t] \in InModule \union {"jump"}
      BY <3>1 DEF Proceed, Flow, InModule
    <3>3. TypeOK'
      BY <3>2, <1>1 DEF TypeOK, hookWork, hookVars, apply
    <3>4. Inside' /\ Coherent'
      BY <3>2, <1>1 DEF TypeOK, Inside, Coherent, InModule, hookWork, hookVars
    <3> QED BY <3>3, <3>4
  <2> QED BY <1>2, <2>1, <2>2, <2>3
<1> QED BY <1>4, <1>5, <1>6

\* Steps of the worker outside a commit leave the threads where they are.
LEMMA ThreadsKept ==
  ASSUME IInv, UNCHANGED <<threadVars, detoured>>
  PROVE  Inside' /\ Coherent'
BY DEF IInv, Inside, Coherent, threadVars

\* Nothing is listed any more once the last hook is out.
LEMMA StartPreserves == IInv /\ (Start \/ InstallEnds \/ Detach \/ Unexpected \/ Unload \/ Load) => IInv'
<1> SUFFICES ASSUME IInv, Start \/ InstallEnds \/ Detach \/ Unexpected \/ Unload \/ Load PROVE IInv'
  OBVIOUS
<1> USE DEF IInv
<1>1. UNCHANGED <<threadVars, hookVars, apply>> /\ pc \notin InTransaction /\ pc' \notin InTransaction
  BY DEF Start, InstallEnds, Detach, Unexpected, Unload, Load, Uninstall, InTransaction, apply
<1>2. (Listed /\ Frozen /\ Inside /\ Served /\ Coherent)'
  BY <1>1, ThreadsKept DEF hookVars, apply, Listed, Frozen, Served, InTransaction
<1>3. TypeOK'
  BY <1>1, HookSet
  DEF TypeOK, Start, InstallEnds, Detach, Unexpected, Unload, Load, Uninstall, hookVars, threadVars, apply
<1>4. Worker'
  <2>1. CASE Start
    <3>1. installed = 0 => WholeUpTo(0)
      BY HookSet, InjectorAssumption DEF Listed, WholeUpTo, TypeOK, Hooks
    <3> QED BY <2>1, <3>1, <1>1 DEF Start, Worker, WholeUpTo, hookVars, InTransaction, Detaching
  <2>4. CASE Unload \/ Load
    BY <2>4, <1>1 DEF Unload, Load, Worker, hookVars, InTransaction, Detaching
  <2>2. CASE InstallEnds
    BY <2>2, <1>1 DEF InstallEnds, Worker, WholeUpTo, hookVars, InTransaction
  <2>3. CASE Detach \/ Unexpected
    BY <2>3, <1>1 DEF Detach, Unexpected, Uninstall, Worker, WholeUpTo, hookVars, Detaching, InTransaction
  <2> QED BY <2>1, <2>2, <2>3, <2>4
<1>5. RunningWhole'
  <2>1. CASE InstallEnds
    BY <2>1, <1>1, HookSet, InjectorAssumption
    DEF InstallEnds, Worker, WholeUpTo, RunningWhole, hookVars, Hooks, DetourHooks
  <2>2. CASE Start \/ Unload \/ Load \/ Detach \/ Unexpected
    BY <2>2 DEF Start, Unload, Load, Detach, Unexpected, Uninstall, Worker, Detaching, RunningWhole
  <2> QED BY <2>1, <2>2
<1> QED BY <1>2, <1>3, <1>4, <1>5

\* Installing the next hook keeps everything it finds; what its own step leaves
\* undone is rolled back or left to a Detach.
LEMMA InstallPreserves == IInv /\ (InstallPatches \/ InstallDetour) => IInv'
<1> SUFFICES ASSUME IInv, InstallPatches \/ InstallDetour PROVE IInv'
  OBVIOUS
<1> USE DEF IInv
<1>1. /\ UNCHANGED <<threadVars, apply, detoured, initialized>>
      /\ pc = "install" /\ pc' \notin InTransaction /\ installed' = installed + 1
      /\ installed' \in Hooks
  BY InjectorAssumption
  DEF InstallPatches, InstallDetour, InstallFails, Uninstall, InTransaction, apply, NextHook, DetourHooks
<1>2. /\ caller = "init" /\ adding = 0 /\ WholeUpTo(installed) /\ ~initialized
      /\ installed \in Nat
  BY <1>1, HookSet DEF Worker, Detaching, TypeOK
<1>3. instance \subseteq instance' /\ instance' \subseteq instance \union {installed'}
  BY DEF InstallPatches, InstallDetour, NextHook
<1>4. \A h \in Hooks : h # installed' => patches'[h] = patches[h]
  <2>1. patches' = patches \/ \E n \in 0 .. PatchLimit : patches' = [patches EXCEPT ![installed'] = n]
    BY DEF InstallPatches, InstallDetour, NextHook
  <2> QED BY <2>1 DEF TypeOK
<1>5. (Frozen /\ Inside /\ Served /\ Coherent /\ RunningWhole)'
  BY <1>1, <1>2, <1>3, ThreadsKept DEF Frozen, Served, RunningWhole, InTransaction, apply
<1>6. Listed'
  BY <1>1, <1>2, <1>3, <1>4, HookSet DEF Listed
<1>7. TypeOK'
  <2>1. CASE InstallPatches
    BY <2>1, <1>1, HookSet
    DEF InstallPatches, InstallFails, Uninstall, NextHook, TypeOK, threadVars, apply, Hooks
  <2>2. CASE InstallDetour
    BY <2>2, <1>1, HookSet
    DEF InstallDetour, InstallFails, Uninstall, NextHook, TypeOK, threadVars, apply, Hooks
  <2> QED BY <2>1, <2>2
<1>8. Worker'
  <2>1. CASE pc' = "install"
    <3>1. InstallPatches /\ patches'[installed'] = PatchLimit /\ UNCHANGED <<adding, caller>>
      BY <2>1, <1>1 DEF InstallPatches, InstallDetour, InstallFails, Uninstall, NextHook, TypeOK
    <3>2. WholeUpTo(installed)'
      BY <3>1, <1>1, <1>2, <1>4, HookSet, InjectorAssumption
      DEF WholeUpTo, InstallPatches, NextHook, DetourHooks, Hooks
    <3> QED BY <2>1, <3>1, <3>2, <1>1, <1>2 DEF Worker, Detaching
  <2>2. CASE adding' # 0
    <3>1. /\ pc' = "collect" /\ adding' = installed' /\ UNCHANGED <<caller, patches>>
          /\ installed' \in StaticHooks \union instance'
      BY <2>2, <1>2 DEF InstallPatches, InstallDetour, InstallFails, Uninstall, NextHook
    <3>2. WholeUpTo(installed - 1)'
      BY <3>1, <1>1, <1>2 DEF WholeUpTo
    <3> QED BY <2>2, <3>1, <3>2, <1>1, <1>2 DEF Worker
  <2>3. CASE pc' # "install" /\ adding' = 0
    <3>1. pc' \in {"serve", "collect", "restore"} /\ (pc' = "restore" => detoured = {})
      BY <2>3, <1>1, HookSet DEF InstallPatches, InstallDetour, InstallFails, Uninstall, NextHook, DetourHooks
    <3> QED BY <2>3, <3>1, <1>1, <1>2 DEF Worker
  <2> QED BY <2>1, <2>2, <2>3
<1> QED BY <1>5, <1>6, <1>7, <1>8

\* What UninstallAll does when it returns, and when it has hooks to restore.
LEMMA RestorePreserves == IInv /\ Restore => IInv'
<1> SUFFICES ASSUME IInv, Restore PROVE IInv'
  OBVIOUS
<1> USE DEF IInv
<1>1. /\ UNCHANGED <<threadVars, apply, detoured, adding, caller>>
      /\ pc = "restore" /\ detoured = {} /\ adding = 0
      /\ pc' \in {"restore", "serve", "unload", "dead"}
      /\ installed \in 0 .. HookCount
  BY DEF Restore, Uninstalled, apply, Worker, TypeOK, InTransaction
<1>2. /\ installed' \in 0 .. HookCount /\ installed' \in {installed, installed - 1}
      /\ instance' \subseteq instance
      /\ installed' # installed => instance' = instance \ {installed}
      /\ patches' \in [Hooks -> 0 .. PatchLimit]
      /\ \A h \in Hooks : h # installed => patches'[h] = patches[h]
      /\ installed' # installed => patches'[installed] = 0
  <2>1. CASE installed = 0
    BY <2>1, <1>1, HookSet DEF Restore, TypeOK, Hooks
  <2>2. CASE installed # 0
    <3>1. PICK n \in 0 .. patches[installed] :
            /\ patches' = [patches EXCEPT ![installed] = n]
            /\ IF n = 0
                 THEN instance' = instance \ {installed} /\ installed' = installed - 1
                 ELSE UNCHANGED <<instance, installed>>
      BY <2>2 DEF Restore
    <3>2. installed \in Hooks /\ patches[installed] \in 0 .. PatchLimit /\ n \in 0 .. PatchLimit
      BY <2>2, <1>1, HookSet, InjectorAssumption DEF TypeOK, Hooks
    <3> QED BY <3>1, <3>2, <2>2, <1>1, HookSet DEF TypeOK, Hooks
  <2> QED BY <2>1, <2>2
<1>3. /\ pc' # "restore" => ~initialized'
      /\ pc' = "restore" => UNCHANGED initialized
      /\ pc' = "unload" => installed' = 0
      /\ initialized' \in BOOLEAN
  BY <1>1 DEF Restore, Uninstalled, TypeOK
<1>4. TypeOK'
  BY <1>1, <1>2, <1>3 DEF TypeOK, threadVars, apply
<1>5. Listed'
  BY <1>1, <1>2, HookSet DEF Listed
<1>6. (Inside /\ Coherent /\ Frozen /\ Served /\ RunningWhole)'
  BY <1>1, <1>3, ThreadsKept DEF Frozen, Served, RunningWhole, InTransaction, apply
<1>7. Worker'
  BY <1>1, <1>3 DEF Worker, Detaching
<1> QED BY <1>4, <1>5, <1>6, <1>7

\* A transaction that fails, or has not yet committed, changes no hook.
LEMMA AttemptPreserves ==
  IInv /\ (Collect \/ CannotBegin \/ OutOfMemory \/ (\E t \in Threads : Enlist(t)) \/ Verified \/ Abort) => IInv'
<1> SUFFICES ASSUME IInv,
                    Collect \/ CannotBegin \/ OutOfMemory \/ (\E t \in Threads : Enlist(t)) \/ Verified \/ Abort
             PROVE  IInv'
  OBVIOUS
<1> USE DEF IInv
<1>1. UNCHANGED <<threadVars, hookVars>> /\ pc \in {"collect", "enlist"}
  BY DEF Collect, CannotBegin, OutOfMemory, Enlist, Verified, Abort
<1>2. (Listed /\ Inside /\ Coherent /\ Served)'
  BY <1>1, ThreadsKept DEF hookVars, Listed, Served
<1>3. /\ pc = "collect" => suspended = {} /\ handles = {}
      /\ adding # 0 => caller = "init" /\ adding = installed /\ WholeUpTo(installed - 1)
                       /\ adding \in StaticHooks \union instance
      /\ initialized => adding = 0 /\ caller # "init"
      /\ WholeUpTo(installed - 1) => WholeUpTo(installed - 1)'
  BY <1>1 DEF Frozen, Worker, InTransaction, WholeUpTo, hookVars
<1>4. CASE Collect \/ (\E t \in Threads : Enlist(t)) \/ Verified
  <2>1. UNCHANGED <<adding, caller, initialized>> /\ pc' \in InTransaction
    BY <1>4 DEF Collect, Enlist, Verified, InTransaction
  <2>2. TypeOK'
    BY <1>4, <1>1, <1>3, <2>1
    DEF TypeOK, threadVars, hookVars, Collect, Enlist, Verified, Alive, InTransaction
  <2>3. Frozen'
    BY <1>4, <1>1 DEF Frozen, threadVars, Collect, Enlist, Verified, InTransaction, AllEnlisted, Alive,
                      Quiescent, ActiveCallbacks, StacksClear
  <2>4. Worker' /\ RunningWhole'
    BY <2>1, <1>1, <1>3 DEF Worker, RunningWhole, hookVars, InTransaction, Detaching
  <2> QED BY <1>2, <2>2, <2>3, <2>4
<1>5. CASE CannotBegin \/ OutOfMemory \/ Abort
  <2>1. /\ suspended' = {} /\ handles' = {} /\ adding' = 0
        /\ caller' \in {"init", "term", "destructor"}
        /\ initialized' \in BOOLEAN
        /\ initialized' => FALSE
        /\ pc' \in {"serve", "dead", "collect", "restore"}
        /\ pc' = "restore" => detoured = {}
    BY <1>5, <1>1, <1>3
    DEF CannotBegin, OutOfMemory, Abort, Refused, Uninstall, Uninstalled, TypeOK
  <2>2. TypeOK'
    BY <2>1, <1>1 DEF TypeOK, threadVars, hookVars
  <2>3. Frozen' /\ Worker' /\ RunningWhole'
    BY <2>1, <1>1 DEF Frozen, Worker, RunningWhole, hookVars, InTransaction
  <2> QED BY <1>2, <2>2, <2>3
<1> QED BY <1>4, <1>5

\* Everybody is suspended: those in the way are moved, and nobody enters before
\* the detour is whole.
LEMMA CommitAttachPreserves == IInv /\ CommitAttach => IInv'
<1> SUFFICES ASSUME IInv, CommitAttach PROVE IInv'
  OBVIOUS
<1> USE DEF IInv
<1>1. /\ adding \in DetourHooks /\ adding = installed /\ WholeUpTo(installed - 1)
      /\ caller = "init" /\ ~initialized /\ adding \in StaticHooks \union instance
      /\ Alive \subseteq suspended
      /\ installed \in 0 .. HookCount
  BY DEF CommitAttach, TypeOK, Worker, Frozen, AllEnlisted
<1>2. /\ at' \in [Threads -> Places]
      /\ \A t \in Threads : /\ at'[t] \in {at[t], "moved"}
                            /\ at'[t] = "target" => at[t] = "target" /\ on[t] # adding
  BY <1>1 DEF CommitAttach, TypeOK, Places, Alive
<1>3. TypeOK'
  BY <1>1, <1>2 DEF CommitAttach, TypeOK
<1>4. Listed'
  BY <1>1, HookSet DEF CommitAttach, Listed
<1>5. WholeUpTo(installed)'
  BY <1>1, HookSet, InjectorAssumption DEF CommitAttach, WholeUpTo, Hooks, DetourHooks
<1>6. Worker' /\ RunningWhole'
  BY <1>1, <1>5 DEF CommitAttach, Worker, RunningWhole
<1>7. Inside' /\ Coherent'
  BY <1>2 DEF CommitAttach, Inside, Coherent, InModule
<1>8. Frozen' /\ Served'
  BY <1>1 DEF CommitAttach, Frozen, InTransaction, Served
<1> QED BY <1>3, <1>4, <1>6, <1>7, <1>8

\* Nobody is in a callback, and nobody stays on the way to one.
LEMMA CommitDetachPreserves == IInv /\ CommitDetach => IInv'
<1> SUFFICES ASSUME IInv, CommitDetach PROVE IInv'
  OBVIOUS
<1> USE DEF IInv
<1>1. Alive \subseteq suspended /\ StacksClear /\ suspended \subseteq handles /\ handles \subseteq Threads
  BY DEF CommitDetach, Frozen, AllEnlisted, Quiescent, TypeOK
<1>2. PICK back \in SUBSET {t \in suspended : at[t] = "moved"} :
        /\ at' = [t \in Threads |->
                    IF t \in back THEN "game"
                    ELSE IF t \in suspended /\ at[t] \in {"jump", "moved"} THEN "lost"
                    ELSE at[t]]
        /\ on' = [t \in Threads |-> IF t \in back \/ at'[t] = "lost" THEN 0 ELSE on[t]]
  BY DEF CommitDetach
<1>3. \A t \in Threads : at'[t] \notin InModule \union {"jump"}
  BY <1>1, <1>2 DEF Alive, StacksClear, InModule
<1>4. at' \in [Threads -> Places] /\ on' \in [Threads -> DetourHooks \union {0}]
  BY <1>2 DEF TypeOK, Places
<1>5. TypeOK'
  BY <1>4 DEF CommitDetach, TypeOK
<1>6. Listed' /\ Served' /\ Inside' /\ Coherent'
  BY <1>3 DEF CommitDetach, Listed, Served, Inside, Coherent
<1>7. Worker' /\ Frozen' /\ RunningWhole'
  BY DEF CommitDetach, Worker, Frozen, RunningWhole, InTransaction, Detaching
<1> QED BY <1>5, <1>6, <1>7

LEMMA NextPreserves == IInv /\ [Next]_vars => IInv'
<1> SUFFICES ASSUME IInv, [Next]_vars PROVE IInv'
  OBVIOUS
<1>1. CASE UNCHANGED vars
  BY <1>1
  DEF IInv, vars, threadVars, hookVars, TypeOK, Listed, Worker, WholeUpTo, Frozen, AllEnlisted, Alive,
      Quiescent, ActiveCallbacks, StacksClear, Inside, Served, Coherent, RunningWhole
<1>2. CASE Next
  BY <1>2, GamePreserves, StartPreserves, InstallPreserves, RestorePreserves, AttemptPreserves,
     CommitAttachPreserves, CommitDetachPreserves
  DEF Next, Transaction
<1> QED BY <1>1, <1>2

\* The inductive invariant holds in every behaviour.
THEOREM InvariantHolds == Spec => []IInv
BY InitEstablishes, NextPreserves, PTL DEF Spec

\* Every variable keeps its type; in particular only threads that the transaction
\* holds a handle of are suspended, so that none stays so when it ends.
THEOREM TypeCorrect == Spec => []TypeOK
<1>1. IInv => TypeOK
  BY DEF IInv
<1> QED BY <1>1, InvariantHolds, PTL

\* However often detaching failed before, the DLL goes only when no thread can come
\* back into it and the game is as it was.
THEOREM UnloadIsSafe == Spec => []UnloadSafe
<1>1. IInv => UnloadSafe
  BY HookSet DEF IInv, UnloadSafe, Worker, Listed, Inside, TypeOK, Hooks
<1> QED BY <1>1, InvariantHolds, PTL

\* A callback that can be entered, or that a thread is in, finds its instance.
THEOREM CallbackStateKept == Spec => []CallbackState
<1>1. IInv => CallbackState
  BY DEF IInv, CallbackState, Served, Inside, InModule
<1> QED BY <1>1, InvariantHolds, PTL

\* No thread is caught inside bytes that are overwritten.
THEOREM CoherentCode == Spec => []Coherent
<1>1. IInv => Coherent
  BY DEF IInv
<1> QED BY <1>1, InvariantHolds, PTL

\* Running is reported only while every hook is in.
THEOREM RunningIsWhole == Spec => []RunningWhole
<1>1. IInv => RunningWhole
  BY DEF IInv
<1> QED BY <1>1, InvariantHolds, PTL
=============================================================================
