------------------------------ MODULE CachesMC ------------------------------
(***************************************************************************)
(* The instance that TLC checks of the two levels of caches.  Each stands  *)
(* on the contract of the other: the data cache takes invalidations at     *)
(* once in Mem, and the level-2 cache is a memory in Dcache.  A behaviour  *)
(* is of one level, and the other stays as it is reset.                    *)
(***************************************************************************)
EXTENDS MemMC, Dcache

VARIABLE level   \* the level that the behaviour is of, 1 or 2

\* Lines are alike, entries are, and so are the two level-2 caches; a behaviour has
\* entries or level-2 caches, and one permutation exchanges both pairs.
Swap(pair) == [x \in pair |-> CHOOSE y \in pair : y # x]
CacheSym   == Permutations(CLines) \cup {Swap(Ids) @@ Swap(Masters)}

\* What follows one of the faults is not explored: the properties say nothing of it.
\* The builds of the DRAM's glue are told apart by two accesses; of the last beat the
\* core asks for its second word only.
NoCacheFault == NoFault /\ dcfault = {} /\ (level = 2 /\ vpi => nops <= 2) /\ s0.word # 2

\* The build of the DRAM's glue (vpi) matters to level 2 only.
CachesInit == MemInit /\ DcInit /\ level \in {1, 2} /\ (level = 1 => vpi)
CachesNext ==
  /\ \/ level = 1 /\ DcNext /\ UNCHANGED memVars
     \/ level = 2 /\ MemNext /\ UNCHANGED allDc
  /\ UNCHANGED level
CachesSpec == CachesInit /\ [][CachesNext]_<<memVars, allDc, level>>
=============================================================================
