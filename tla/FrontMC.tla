------------------------------ MODULE FrontMC ------------------------------
(***************************************************************************)
(* The instance that TLC checks of the test bench's trace and of fetch.    *)
(* The two have nothing to do with each other: a behaviour is of one part, *)
(* and the registers of the other stay as they are reset.                  *)
(***************************************************************************)
EXTENDS Trace, Fetch

VARIABLE part   \* the part that the behaviour is of, "trace" or "fetch"

\* Every program of MemWords instructions: plain ones, jumps and branches to the third
\* word, and branches to the misaligned pc before it.
FrontInsns == [kind : {"plain", "jalr"}, target : {0}] \cup [kind : {"br", "jal"}, target : {4}]
              \cup [kind : {"br"}, target : {3}]
AllCodes   == [WordsOf -> FrontInsns]

FrontInit ==
  /\ TraceInit /\ FetchInit
  /\ part \in {"trace", "fetch"}
  /\ part = "trace" => code = [w \in WordsOf |-> [kind |-> "plain", target |-> 0]]
  /\ part = "fetch" => decodeFirst /\ dkind = "csr" /\ rrobid = 0

traceAll == <<vars, traceVars>>
FrontNext ==
  /\ \/ part = "trace" /\ TraceNext /\ UNCHANGED fetchVars
     \/ part = "fetch" /\ FetchNext /\ UNCHANGED traceAll
  /\ UNCHANGED part
FrontSpec == /\ FrontInit /\ [][FrontNext]_<<traceAll, fetchVars, part>>
             /\ WF_<<traceAll, fetchVars, part>>(FrontNext)

\* KeepsOffering, of the behaviours of fetch: after every flush, prediction and jump,
\* fetch comes to offer decode the next instruction of the path.
FetchKeepsOffering == part = "fetch" => KeepsOffering
=============================================================================
