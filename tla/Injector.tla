------------------------------ MODULE Injector ------------------------------
(***************************************************************************)
(* The DLL that redirects a game to a private server: a worker thread puts *)
(* the hooks in and takes them out again while the threads of the game run *)
(* through them (src/Source/Injector).                                     *)
(*                                                                         *)
(* A hook is a detour of a game function, put in and taken out by a        *)
(* transaction that suspends every other thread (DetourLifetime.cpp, on    *)
(* top of the vendored Detours library), or a patch of the game's memory.  *)
(* The DLL may go only when no thread can come back into it.               *)
(***************************************************************************)
EXTENDS Integers, FiniteSets

CONSTANTS
  Threads,       \* what threads of the game there may be at a time
  HookCount,     \* the hooks HookManager was given, in their order
  PatchHooks,    \* those that patch memory; the others detour a function
  StaticHooks,   \* detours whose callback does without an s_instance
  PatchLimit     \* places a patch hook writes to

Hooks == 1 .. HookCount
DetourHooks == Hooks \ PatchHooks

ASSUME InjectorAssumption ==
  /\ HookCount \in Nat
  /\ PatchHooks \subseteq Hooks
  /\ StaticHooks \subseteq DetourHooks
  /\ PatchLimit \in Nat \ {0}

VARIABLES
  at,          \* where each thread is, see Places
  on,          \* the hook it is there for, 0 when elsewhere in the game
  suspended,   \* s_pPendingThreads, the threads the transaction suspended
  handles,     \* Threads::Handles, the threads the transaction knows
  detoured,    \* Bindings, and the functions that are detoured
  instance,    \* the hooks whose callback finds them in s_instance
  patches,     \* Patches of every hook, the places that are patched
  installed,   \* InstalledHooks, always the first ones of Hooks
  pc,          \* what the worker does next
  adding,      \* the hook a transaction attaches, 0 when it detaches
  caller,      \* who called UninstallAll
  initialized  \* what the control server reports

threadVars == <<at, on>>
hookVars == <<detoured, instance, patches, installed>>
vars == <<threadVars, suspended, handles, hookVars, pc, adding, caller, initialized>>

\* Where a thread may be.  A call of a detoured function jumps through the
\* trampoline to the callback; "leave" is the callback's code after its
\* CallbackScope is gone, "late" runtime code called from there.
InModule == {"enter", "body", "original", "leave", "late"}
Places == InModule \union
  { "none", "game",
    "target",  \* inside the bytes of the function that a detour overwrites
    "jump",    \* in the trampoline, on the way to the callback
    "moved",   \* in the trampoline, on the copy of those bytes
    "lost" }   \* in a trampoline that was freed: not followed any further

Alive == {t \in Threads : at[t] # "none"}
Running(t) == t \in Alive \ suspended

\* How a thread gets on once it has called a function that may be detoured.
Flow ==
  { <<"target", "game">>, <<"moved", "game">>, <<"jump", "enter">>, <<"enter", "body">>,
    <<"body", "original">>, <<"original", "body">>, <<"body", "leave">>,
    <<"leave", "late">>, <<"late", "leave">>, <<"leave", "game">> }

TypeOK ==
  /\ at \in [Threads -> Places]
  /\ on \in [Threads -> DetourHooks \union {0}]
  /\ suspended \subseteq handles /\ handles \subseteq Threads
  /\ detoured \subseteq DetourHooks
  /\ instance \subseteq DetourHooks \ StaticHooks
  /\ patches \in [Hooks -> 0 .. PatchLimit]
  /\ installed \in 0 .. HookCount
  /\ pc \in {"start", "install", "collect", "enlist", "commit", "restore", "serve",
             "unload", "gone", "dead"}
  /\ adding \in DetourHooks \union {0}
  /\ caller \in {"init", "term", "destructor"}
  /\ initialized \in BOOLEAN

Init ==
  /\ at \in [Threads -> {"none", "game"}]
  /\ Alive # {}
  /\ on = [t \in Threads |-> 0]
  /\ suspended = {} /\ handles = {}
  /\ detoured = {} /\ instance = {} /\ installed = 0
  /\ patches = [h \in Hooks |-> 0]
  /\ pc = "start" /\ adding = 0 /\ caller = "init"
  /\ initialized = FALSE

-----------------------------------------------------------------------------
(* The threads of the game.                                                *)

\* A thread starts another; the id of one whose handle is held is not reused.
Spawn(t) ==
  /\ at[t] = "none" /\ t \notin handles
  /\ \E u \in Threads : Running(u)
  /\ at' = [at EXCEPT ![t] = "game"]
  /\ UNCHANGED <<on, suspended, handles, hookVars, pc, adding, caller, initialized>>

\* A thread ends; the game ends with the last one.
End(t) ==
  /\ Running(t) /\ at[t] = "game"
  /\ Alive # {t}
  /\ at' = [at EXCEPT ![t] = "none"]
  /\ UNCHANGED <<on, suspended, handles, hookVars, pc, adding, caller, initialized>>

\* A thread calls a function that a hook is for.
Call(t, h) ==
  /\ Running(t) /\ at[t] = "game"
  /\ at' = [at EXCEPT ![t] = IF h \in detoured THEN "jump" ELSE "target"]
  /\ on' = [on EXCEPT ![t] = h]
  /\ UNCHANGED <<suspended, handles, hookVars, pc, adding, caller, initialized>>

Proceed(t, place) ==
  /\ Running(t)
  /\ <<at[t], place>> \in Flow
  /\ at' = [at EXCEPT ![t] = place]
  /\ on' = [on EXCEPT ![t] = IF place = "game" THEN 0 ELSE @]
  /\ UNCHANGED <<suspended, handles, hookVars, pc, adding, caller, initialized>>

GameStep ==
  \E t \in Threads :
    \/ Spawn(t)
    \/ End(t)
    \/ \E h \in DetourHooks : Call(t, h)
    \/ \E place \in Places : Proceed(t, place)

-----------------------------------------------------------------------------
(* HookManager and RunInjector.                                            *)

\* UninstallAll goes to DetachAll, which has nothing to do without bindings.
Uninstall(c) ==
  /\ caller' = c /\ adding' = 0
  /\ pc' = IF detoured = {} THEN "restore" ELSE "collect"

\* Mutant of Uninstalled: a Detach that failed leaves the status as it was.
UninstalledUnnoticed(ok) ==
  /\ pc' = CASE caller = "init" -> "serve"
             [] caller = "term" -> IF ok THEN "unload" ELSE "serve"
             [] caller = "destructor" -> "dead"
  /\ UNCHANGED <<adding, caller, initialized>>

\* UninstallAll returns.  InstallAll ignores what it returns and fails; Term's
\* caller releases the DLL, or reports the failure from then on; after an
\* unexpected exception the DLL stays.
Uninstalled(ok) ==
  /\ pc' = CASE caller = "init" -> "serve"
             [] caller = "term" -> IF ok THEN "unload" ELSE "serve"
             [] caller = "destructor" -> "dead"
  /\ initialized' = FALSE
  /\ UNCHANGED <<adding, caller>>

\* RunInjector goes on to install the hooks; or the network, the configuration
\* or the game's module is missing; or there is no control endpoint at all, or an
\* exception before there is anything to release.
Start ==
  /\ pc = "start"
  /\ pc' \in {"install", "serve", "unload", "dead"}
  /\ UNCHANGED <<threadVars, suspended, handles, hookVars, adding, caller, initialized>>

NextHook == installed + 1

\* What may follow when Install fails, even after it has done a part of its work:
\* InstallAll rolls back the hooks so far, this one with them; or Init's caller
\* catches an exception and nobody does.
InstallFails ==
  \/ Uninstall("init")
  \/ pc' = "serve" /\ UNCHANGED <<adding, caller>>

\* InstallAll with the next hook, one that patches memory.
InstallPatches ==
  /\ pc = "install" /\ NextHook \in PatchHooks
  /\ installed' = NextHook
  /\ \E n \in 0 .. PatchLimit :
       /\ patches' = [patches EXCEPT ![NextHook] = n]
       /\ IF n = PatchLimit
            THEN UNCHANGED <<pc, adding, caller>>
            ELSE InstallFails
  /\ UNCHANGED <<threadVars, suspended, handles, detoured, instance, initialized>>

\* InstallAll with the next hook, one that detours a function: s_instance is set
\* before the transaction that attaches the detour.
InstallDetour ==
  /\ pc = "install" /\ NextHook \in DetourHooks
  /\ installed' = NextHook
  /\ \/ /\ instance' = instance \union ({NextHook} \ StaticHooks)
        /\ \/ pc' = "collect" /\ adding' = NextHook /\ UNCHANGED caller
           \/ InstallFails
     \/ InstallFails /\ UNCHANGED instance
  /\ UNCHANGED <<threadVars, suspended, handles, detoured, patches, initialized>>

InstallEnds ==
  /\ pc = "install" /\ installed = HookCount
  /\ pc' = "serve" /\ initialized' = TRUE
  /\ UNCHANGED <<threadVars, suspended, handles, hookVars, adding, caller>>

\* UninstallAll's loop over the hooks, once nothing is detoured.  A hook that
\* cannot restore all of its patches stays, with those that remain.
Restore ==
  /\ pc = "restore"
  /\ IF installed = 0
       THEN Uninstalled(TRUE) /\ UNCHANGED <<instance, patches, installed>>
       ELSE \E n \in 0 .. patches[installed] :
              /\ patches' = [patches EXCEPT ![installed] = n]
              /\ IF n = 0
                   THEN /\ instance' = instance \ {installed}
                        /\ installed' = installed - 1
                        /\ UNCHANGED <<pc, adding, caller, initialized>>
                   ELSE Uninstalled(FALSE) /\ UNCHANGED <<instance, installed>>
  /\ UNCHANGED <<threadVars, suspended, handles, detoured>>

\* A Detach request reaches the control server.
Detach ==
  /\ pc = "serve"
  /\ Uninstall("term")
  /\ UNCHANGED <<threadVars, suspended, handles, hookVars, initialized>>

\* An exception leaves the control server: the destructor of HookManager tries to
\* uninstall once, and leaves the hooks behind when it cannot.
Unexpected ==
  /\ pc = "serve" \/ (pc = "collect" /\ caller = "term" /\ adding = 0)
  /\ Uninstall("destructor")
  /\ UNCHANGED <<threadVars, suspended, handles, hookVars, initialized>>

\* The worker has destroyed its objects and leaves with the DLL.
Unload ==
  /\ pc = "unload"
  /\ pc' = "gone"
  /\ UNCHANGED <<threadVars, suspended, handles, hookVars, adding, caller, initialized>>

\* A loader brings the DLL in again.
Load ==
  /\ pc = "gone"
  /\ pc' = "start" /\ caller' = "init" /\ adding' = 0
  /\ UNCHANGED <<threadVars, suspended, handles, hookVars, initialized>>

-----------------------------------------------------------------------------
(* Apply, the transaction that attaches one detour or removes them all.    *)

\* Mutant of Refused: UninstallAll goes on when the detours could not be removed.
RefusedIgnored ==
  IF adding # 0
    THEN Uninstall("init") /\ UNCHANGED initialized
    ELSE pc' = "restore" /\ UNCHANGED <<adding, caller, initialized>>

\* Apply returns an error: the attaching hook's Install fails, and with it
\* InstallAll; or UninstallAll does.
Refused ==
  IF adding # 0
    THEN Uninstall("init") /\ UNCHANGED initialized
    ELSE Uninstalled(FALSE)

\* Collect takes a snapshot of the threads and the transaction begins.
Collect ==
  /\ pc = "collect"
  /\ handles' = Alive
  /\ pc' = "enlist"
  /\ UNCHANGED <<threadVars, suspended, hookVars, adding, caller, initialized>>

\* A thread that cannot be opened, or a change that cannot be queued: nobody has
\* been suspended yet.
CannotBegin ==
  /\ pc = "collect"
  /\ Refused
  /\ UNCHANGED <<threadVars, suspended, handles, hookVars>>

\* No memory for the snapshot while installing: Init's caller catches that.
OutOfMemory ==
  /\ pc = "collect" /\ caller = "init"
  /\ pc' = "serve" /\ adding' = 0
  /\ UNCHANGED <<threadVars, suspended, handles, hookVars, caller, initialized>>

\* DetourUpdateThread suspends one thread of the snapshot.
Enlist(t) ==
  /\ pc = "enlist"
  /\ t \in (handles \ suspended) \intersect Alive
  /\ suspended' = suspended \union {t}
  /\ UNCHANGED <<threadVars, handles, hookVars, pc, adding, caller, initialized>>

\* Mutant of AllEnlisted: no second snapshot.
AllEnlistedOnce == handles \subseteq suspended

\* No thread was created between the snapshot and the suspension of its creator.
AllEnlisted == handles \subseteq suspended /\ Alive \subseteq handles

\* ActiveCallbacks, which CallbackScope counts.
ActiveCallbacks == {t \in Threads : at[t] \in {"body", "original"}}

\* Mutant of StacksClear: only the instruction a thread is at is looked at.
StacksClearAtTop == \A t \in handles : at[t] \notin {"enter", "body", "leave"}

\* CheckStack finds no frame of the module on any stack.
StacksClear == \A t \in handles : at[t] \notin InModule

Quiescent == ActiveCallbacks = {} /\ StacksClear

Verified ==
  /\ pc = "enlist"
  /\ AllEnlisted
  /\ adding = 0 => Quiescent
  /\ pc' = "commit"
  /\ UNCHANGED <<threadVars, suspended, handles, hookVars, adding, caller, initialized>>

\* Mutant of Abort: Apply returns the error without aborting the transaction.
AbortNothing ==
  /\ pc = "enlist"
  /\ handles' = {}
  /\ Refused
  /\ UNCHANGED <<threadVars, suspended, hookVars>>

\* DetourTransactionAbort, when any of this fails: a thread that has ended cannot
\* be suspended, a new one is running, a stack cannot be read, and so on.
Abort ==
  /\ pc = "enlist"
  /\ suspended' = {} /\ handles' = {}
  /\ Refused
  /\ UNCHANGED <<threadVars, hookVars>>

\* DetourTransactionCommit of an attachment: a suspended thread in the bytes that
\* are overwritten goes on in the trampoline.
CommitAttach ==
  /\ pc = "commit" /\ adding # 0
  /\ detoured' = detoured \union {adding}
  /\ at' = [t \in Threads |->
              IF t \in suspended /\ at[t] = "target" /\ on[t] = adding THEN "moved" ELSE at[t]]
  /\ suspended' = {} /\ handles' = {}
  /\ pc' = "install" /\ adding' = 0
  /\ UNCHANGED <<on, instance, patches, installed, caller, initialized>>

\* DetourTransactionCommit of the removal.  It takes threads back out of the first
\* bytes of a trampoline, as many as a pointer has; one further on is lost.
CommitDetach ==
  /\ pc = "commit" /\ adding = 0
  /\ detoured' = {}
  /\ \E back \in SUBSET {t \in suspended : at[t] = "moved"} :
       /\ at' = [t \in Threads |->
                   IF t \in back THEN "game"
                   ELSE IF t \in suspended /\ at[t] \in {"jump", "moved"} THEN "lost"
                   ELSE at[t]]
       /\ on' = [t \in Threads |-> IF t \in back \/ at'[t] = "lost" THEN 0 ELSE on[t]]
  /\ suspended' = {} /\ handles' = {}
  /\ pc' = "restore"
  /\ UNCHANGED <<instance, patches, installed, adding, caller, initialized>>

-----------------------------------------------------------------------------
Transaction ==
  \/ Collect \/ CannotBegin \/ OutOfMemory
  \/ \E t \in Threads : Enlist(t)
  \/ Verified \/ Abort
  \/ CommitAttach \/ CommitDetach

Next ==
  \/ GameStep
  \/ Start \/ InstallPatches \/ InstallDetour \/ InstallEnds \/ Restore
  \/ Detach \/ Unexpected \/ Unload \/ Load
  \/ Transaction

Spec == Init /\ [][Next]_vars

-----------------------------------------------------------------------------
(* Properties.                                                             *)

\* Once the DLL is gone, no thread can come back into it, whether it is in a
\* function a callback called or about to enter one; no function is detoured and
\* no memory patched (Entry.cpp: "Run returns only when all detours and reversible
\* patches are removed").
UnloadSafe ==
  pc = "gone" =>
    /\ \A t \in Threads : at[t] \notin InModule \union {"jump"}
    /\ detoured = {}
    /\ \A h \in Hooks : patches[h] = 0

\* Whatever fails, and however often detaching is tried again, a callback finds the
\* s_instance it reads (more than once, without a lock) while it can still be
\* entered or a thread is in it.
CallbackState ==
  \A h \in detoured \union {on[t] : t \in {u \in Threads : at[u] \in {"enter", "body", "original"}}} :
    h \in StaticHooks \union instance

\* No thread is inside the bytes of a function while they are overwritten or after:
\* each was suspended and moved, also one created while the others were suspended.
Coherent == \A t \in Threads : at[t] = "target" => on[t] \notin detoured

\* The control server reports Running only while every hook is in, whole: after a
\* failed installation, or a Detach that did part of its work, never again.
RunningWhole ==
  pc = "serve" /\ initialized =>
    /\ installed = HookCount
    /\ detoured = DetourHooks
    /\ \A h \in PatchHooks : patches[h] = PatchLimit
=============================================================================
