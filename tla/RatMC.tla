------------------------------- MODULE RatMC -------------------------------
(***************************************************************************)
(* The programs of the instances of Rat that TLC checks.                   *)
(***************************************************************************)
EXTENDS Rat

Reading(ks, rs) == [kinds |-> ks, sources |-> rs]

\* Loads fault; jalr writes its link also to x0; stores retire without asking
\* for their operand, csr accesses run without asking.  Loads and readers of x0
\* do not come together (ZeroReadsAsZero).
Mixed == {Reading({"load"}, {1}),
          Reading({"jalr", "store"}, {0, 1}),
          Reading({"csr"}, {1})}

LoadsAndZero == {Reading({"load"}, {0, 1})}
=============================================================================
