----------------------------- MODULE MCInjector -----------------------------
(* Values for the constants of Injector that a .cfg cannot write. *)
EXTENDS Injector, TLC

\* The threads are alike.
ThreadSymmetry == Permutations(Threads)
=============================================================================
