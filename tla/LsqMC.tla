------------------------------- MODULE LsqMC -------------------------------
(***************************************************************************)
(* The instances of Lsq that TLC checks.                                   *)
(***************************************************************************)
EXTENDS Lsq, TLC

\* The words of one block may be exchanged: nothing orders addresses.
WordSymmetry == Permutations(Addrs)
=============================================================================
