------------------------------- MODULE MemMC -------------------------------
(* The instance of Mem that TLC checks. *)
EXTENDS Mem, TLC

\* The two caches are the same module.
Sym == Permutations(Masters)

\* What follows one of the faults is not explored: the properties say nothing of it.
NoFault == fault = {}
=============================================================================
