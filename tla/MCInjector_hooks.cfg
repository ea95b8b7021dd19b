\* Three threads, and the hooks of a game: a patch, a detour with an instance and
\* one without.
SPECIFICATION Spec

CONSTANTS
  Threads = {t1, t2, t3}
  HookCount = 3
  PatchHooks = {1}
  StaticHooks = {3}
  PatchLimit = 2

SYMMETRY ThreadSymmetry

INVARIANTS
  TypeOK
  UnloadSafe
  CallbackState
  Coherent
  RunningWhole

\* Threads that were lost in a trampoline take no step any more.
CHECK_DEADLOCK FALSE
