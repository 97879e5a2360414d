------------------------------- MODULE Trace -------------------------------
(***************************************************************************)
(* The test bench's view of the core, top.cc: what decode.v, lsq.v, csr.v  *)
(* and rob.v report while an instruction is in the window is kept in an    *)
(* entry per robid and printed when the instruction retires; a store to    *)
(* tohost that retires ends the simulation.                                *)
(*                                                                         *)
(* A report is a call made by a block at a clock edge, with the registers  *)
(* as they were before the edge.  The blocks of one edge run in an order   *)
(* of the simulator's choice.  The registers are those of Rob.             *)
(***************************************************************************)
EXTENDS Rob

VARIABLES
  rob_trace,     \* insn, uses_mem, memop (as a kind) and writes_csr of each robid
  rob_inflight,  \* stats.rob_inflight
  wen,           \* csr.v: the access writes its register
  decodeFirst,   \* the build's order of the blocks of decode.v and rob.v
  finished       \* gotFinish

traceVars == <<rob_trace, rob_inflight, wen, decodeFirst, finished>>

TraceInit ==
  /\ Init
  /\ rob_trace = [s \in Slots |-> [insn |-> dkind, uses_mem |-> FALSE, memop |-> "load",
                                   writes_csr |-> FALSE]]
  /\ rob_inflight = 0 /\ wen = FALSE
  /\ decodeFirst \in BOOLEAN
  /\ finished = FALSE

IsMem(k) == k \in {"load", "store"}

\* What an edge with rename_stall rs reports.
Decodes(rs)    == dvalid /\ ~DecodeStall(rs)
Dispatches(rs) == Dispatch(rs) /\ IsMem(rkind)
CsrWrites      == csrv /\ wen

\* tb_trace_decode starts the entry.
\* (The first definition is a mutant: it keeps the flags of the last user.)
OnDecode_Keep(e) == [e EXCEPT !.insn = dkind]
OnDecode(e)      == [e EXCEPT !.insn = dkind, !.uses_mem = FALSE, !.writes_csr = FALSE]
\* tb_trace_lsq_dispatch, in a flush as well.
OnDispatch(e)    == [e EXCEPT !.uses_mem = TRUE, !.memop = rkind]
\* tb_trace_csr_write
OnCsrWrite(e)    == [e EXCEPT !.writes_csr = TRUE]

\* The calls of one edge are for different entries (TraceIsOwn would notice).
Report(rs) ==
  rob_trace' = [s \in Slots |->
    CASE Decodes(rs) /\ s = Idx(tail)     -> OnDecode(rob_trace[s])
      [] Dispatches(rs) /\ s = rrobid     -> OnDispatch(rob_trace[s])
      [] CsrWrites /\ s = csrrobid        -> OnCsrWrite(rob_trace[s])
      [] OTHER                            -> rob_trace[s]]

\* stats.rob_inflight: tb_trace_rob_retire, then tb_log_rob_flush, from one block;
\* tb_trace_decode from another.
\* (The first definition is a mutant: a flush does not reset the count.)
RobCounts_NoFlush(n) == IF retv THEN n - 1 ELSE n
RobCounts(n)    == IF RobFlush THEN 0 ELSE IF retv THEN n - 1 ELSE n
DecodeCounts(rs, n) == IF Decodes(rs) THEN n + 1 ELSE n
Inflight(rs) ==
  rob_inflight' = IF decodeFirst THEN RobCounts(DecodeCounts(rs, rob_inflight))
                  ELSE DecodeCounts(rs, RobCounts(rob_inflight))

\* The end of tb_trace_rob_retire; the address of a store may be tohost.
Terminates == /\ retv /\ reto # "err"
              /\ rob_trace[Idx(head)].uses_mem /\ rob_trace[Idx(head)].memop = "store"
Retire == finished' \in IF Terminates THEN BOOLEAN ELSE {FALSE}

\* The op of a csr access says whether it writes.
CsrOp == wen' \in IF csrv' /\ ~csrv THEN BOOLEAN ELSE {wen}

\* One tick of the simulation: an edge with its calls.
TraceEdge(f, ustall, cstall) ==
  /\ \/ Quiet(f, ustall, cstall)
     \/ \E w \in Slots : Result(f, ustall, cstall, w)
  /\ Report(RenameStall(ustall, cstall))
  /\ Inflight(RenameStall(ustall, cstall))
  /\ Retire /\ CsrOp
  /\ UNCHANGED decodeFirst

TraceNext ==
  /\ ~finished
  /\ \E ustall \in UnitStalls, cstall \in CsrStalls, f \in Offers : TraceEdge(f, ustall, cstall)

TraceSpec == TraceInit /\ [][TraceNext]_<<vars, traceVars>>
-----------------------------------------------------------------------------
(* Properties *)

\* What is printed for a retiring instruction is what was reported for it, and
\* not for one that had the robid before it or was squashed: the instruction
\* word, an access of memory if it made one, a csr write if it made one.  So
\* only a store that retires can end the simulation (top.cc:588-657).
TraceIsOwn ==
  retv => LET e == rob_trace[Idx(head)]
          IN /\ e.insn = retk
             /\ e.uses_mem <=> IsMem(retk)
             /\ e.uses_mem => e.memop = retk
             /\ e.writes_csr => retk = "csr" /\ wen
             /\ retk = "csr" /\ wen => e.writes_csr

\* The count of instructions in flight is the size of the window, which is what
\* the histogram is of, when decode's call comes first.  In the other order it
\* may be one more until the next flush, for an instruction decoded in the very
\* cycle of a flush: with a full window, one more than the histogram of
\* ROB_SIZE + 1 entries has room for (top.cc:108, 263).
InflightNearWindow ==
  rob_inflight - Dist(head, tail) \in IF decodeFirst THEN {0} ELSE {0, 1}

-----------------------------------------------------------------------------
(* The inductive invariant: why the properties above hold *)

TraceType ==
  /\ rob_trace \in [Slots -> [insn : Kinds, uses_mem : BOOLEAN, memop : Kinds \cup {"load"},
                             writes_csr : BOOLEAN]]
  /\ rob_inflight \in Int /\ wen \in BOOLEAN /\ decodeFirst \in BOOLEAN

\* A csr access that has left rename is the oldest instruction.
CsrIsOldest ==
  \A s \in InFlight : kind[s] = "csr" /\ ~(rvalid /\ rrobid = s) => s = Idx(head)

\* The entry of every instruction in the window says what the instruction has done so far:
\* an access of memory is made when it leaves rename, a csr write when csr.v has had it
\* for a cycle.
TraceFollows ==
  \A s \in InFlight :
    LET e         == rob_trace[s]
        inRename  == rvalid /\ rrobid = s
        inCsr     == csrv /\ csrrobid = s
    IN /\ e.insn = kind[s]
       /\ e.uses_mem <=> IsMem(kind[s]) /\ ~inRename
       /\ e.uses_mem => e.memop = kind[s]
       /\ e.writes_csr => kind[s] = "csr" /\ wen /\ ~inRename
       /\ kind[s] = "csr" /\ wen /\ ~inRename /\ ~inCsr => e.writes_csr

TraceInv == TraceType /\ CsrIsOldest /\ TraceFollows /\ InflightNearWindow
=============================================================================
