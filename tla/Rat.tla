-------------------------------- MODULE Rat --------------------------------
(***************************************************************************)
(* Register renaming: the register alias table (rat.v), the operands that  *)
(* dispatch reads from it (rename.v), the operands that wait for a tag on  *)
(* the writeback bus (exers.v, lsq.v) and the results the reorder buffer   *)
(* keeps and commits, running with Rob.                                    *)
(*                                                                         *)
(* One source operand stands for both (rat.v treats them alike).  An entry *)
(* of the reorder buffer has one copy of rd, of the link address and of    *)
(* the source, read also where rename, wb and the units carry their own.   *)
(* Every edge is an edge of Rob.                                           *)
(***************************************************************************)
EXTENDS Rob

CONSTANTS Regs,      \* the registers programs write, beside x0
          Programs,  \* the programs that run: the kinds of instruction and the registers read
          Vals       \* the values of results

ASSUME RatAssumption ==
  /\ Regs \subseteq Nat \ {0}
  /\ Programs \subseteq [kinds : SUBSET Kinds, sources : (SUBSET (Regs \cup {0})) \ {{}}]
  /\ Vals \subseteq Nat /\ 0 \in Vals

X0 == 0
AllRegs == Regs \cup {X0}

VARIABLES
  drd, dsrc, dlink,          \* decode latch: rd, rs1, target of a jalr's link
  rd, src,                   \* buf_rd, and the rs1 of the instruction
  target, result,            \* buf_target, buf_result
  op,                        \* the operand: in a station, in lsq or in csr
  valid, committed,          \* rat_valid, rat_committed
  commval, specval, tag,     \* rat_comm_val, rat_spec_val, rat_tag
  program                    \* the program that runs, chosen at the start

ratVars == <<drd, dsrc, dlink, rd, src, target, result, op,
             valid, committed, commval, specval, tag, program>>

Ready(v)   == [ready |-> TRUE, val |-> v]
Waiting(t) == [ready |-> FALSE, val |-> t]
Operands   == {Ready(v) : v \in Vals} \cup {Waiting(t) : t \in Slots}

\* The tags are junk at reset: any one slot.
RatInit ==
  /\ Init
  /\ drd = X0 /\ dsrc = X0 /\ dlink = 0
  /\ rd = [s \in Slots |-> X0] /\ src = [s \in Slots |-> X0]
  /\ target = [s \in Slots |-> 0] /\ result = [s \in Slots |-> 0]
  /\ op = [s \in Slots |-> Ready(0)]
  /\ valid = [r \in AllRegs |-> TRUE] /\ committed = [r \in AllRegs |-> TRUE]
  /\ commval = [r \in AllRegs |-> 0] /\ specval = [r \in AllRegs |-> 0]
  /\ \E t \in Slots : tag = [r \in AllRegs |-> t]
  /\ program \in Programs

\* uses_rd and the sources of a kind (decode.v); x0 stands for none.
RdsOf(k)     == IF k \in {"alu", "load", "csr", "jalr"} THEN AllRegs ELSE {X0}
SourcesOf(k) == IF k = "none" \/ IsErr(k) THEN {X0} ELSE program.sources

-----------------------------------------------------------------------------
(* The bus as the alias table sees it: w and o as in Rob, v the result of  *)
(* the unit.  A jalr's forwarded result and a load's result carry an rd    *)
(* even when it is x0 (wb.v, lsq.v); the jalr's own result carries none.   *)

WbError(o) == ~fwdv /\ o = "err"
WbResult(v) == IF fwdv THEN target[fwdrobid] ELSE v
WbRd(w) == IF fwdv THEN rd[fwdrobid] ELSE rd[w]
UnitHasRd(s) == kind[s] = "load" \/ (rd[s] # X0 /\ kind[s] # "jalr")
WbHasRd(w) == IF fwdv THEN TRUE ELSE UnitHasRd(w)

\* A result without error is on the bus; rat.v and exers.v (resolve_valid) also
\* ask for an rd, lsq.v does not.
Delivers(w, o) == WbRobid(w) # None /\ ~WbError(o)
Resolves(w, o) == Delivers(w, o) /\ WbHasRd(w)

\* Mutant: wb_robid is not compared with the tag.
WbWrite_AnyTag(w, o) == Resolves(w, o)

\* rat.v: wb_write and the forwarding of a result that is on the bus.
WbWrite(w, o) == Resolves(w, o) /\ WbRobid(w) = tag[WbRd(w)]
Fwd(r, w, o) == WbWrite(w, o) /\ WbRd(w) = r

\* Mutant: a result that is on the bus is not forwarded.
Lookup_NoForward(r, w, o, v) ==
  IF ~valid[r] THEN Waiting(tag[r])
  ELSE IF r = X0 THEN Ready(0)
  ELSE IF committed[r] THEN Ready(commval[r])
  ELSE Ready(specval[r])

\* rat.v: rat_rs1_valid and rat_rs1_tagval.
Lookup(r, w, o, v) ==
  IF Fwd(r, w, o) THEN Ready(WbResult(v))
  ELSE IF ~valid[r] THEN Waiting(tag[r])
  ELSE IF r = X0 THEN Ready(0)
  ELSE IF committed[r] THEN Ready(commval[r])
  ELSE Ready(specval[r])

\* Mutant: a result has precedence over an allocation.
Flags_ResultWins(alloc, w, o) ==
  /\ valid' = [r \in AllRegs |->
                 \/ RobFlush
                 \/ Fwd(r, w, o)
                 \/ valid[r] /\ ~(alloc /\ r = rd[rrobid])]
  /\ committed' = [r \in AllRegs |->
                     RobFlush \/ (committed[r] /\ ~(alloc /\ r = rd[rrobid]))]

\* rat.v: an allocation has precedence over a result for the same register.
Flags(alloc, w, o) ==
  /\ valid' = [r \in AllRegs |->
                 IF RobFlush THEN TRUE
                 ELSE IF alloc /\ r = rd[rrobid] THEN FALSE
                 ELSE valid[r] \/ Fwd(r, w, o)]
  /\ committed' = [r \in AllRegs |->
                     RobFlush \/ (committed[r] /\ ~(alloc /\ r = rd[rrobid]))]

Tags(alloc) == tag' = IF alloc THEN [tag EXCEPT ![rd[rrobid]] = rrobid] ELSE tag

SpecValues(w, o, v) ==
  specval' = [r \in AllRegs |-> IF Fwd(r, w, o) THEN WbResult(v) ELSE specval[r]]

\* rob.v: rob_ret_commit and rob_ret_result; the retirement latch is a copy of
\* the head entry.
RetResult == IF retk = "jalr" THEN target[Idx(head)] ELSE result[Idx(head)]
Commit ==
  commval' = IF RobRetValid /\ rd[Idx(head)] # X0
             THEN [commval EXCEPT ![rd[Idx(head)]] = RetResult] ELSE commval

\* Nothing reads the data of an entry that is free, or of an idle decode latch,
\* before it is written again: the model keeps none.
Kept(data, empty) ==
  [s \in Slots |-> IF s \in Live(head', tail') THEN data[s] ELSE empty]

\* rename.v: the operand is read at dispatch; exers.v and lsq.v: one that waits
\* takes the result with its tag.  The csr unit does not wait.
OperandReads(rs, w, o, v) ==
  LET read(s) ==
        IF Dispatch(rs) /\ s = rrobid THEN Lookup(src[s], w, o, v)
        ELSE IF /\ ~op[s].ready /\ op[s].val = WbRobid(w) /\ kind[s] # "csr"
                /\ IF kind[s] \in {"load", "store"} THEN Delivers(w, o) ELSE Resolves(w, o)
        THEN Ready(WbResult(v)) ELSE op[s]
  IN op' = Kept([s \in Slots |-> read(s)], Ready(0))

\* decode.v and rob.v: the fields of an instruction enter with it.
Fields(rs, w, v, frd, fsrc, flink) ==
  LET takes == ~RobFlush /\ ~DecodeStall(rs)
      latch(new, old, empty) == IF ~dvalid' THEN empty ELSE IF takes THEN new ELSE old
      insert(new, old) == IF DecodeBeat(rs) THEN [old EXCEPT ![Idx(tail)] = new] ELSE old
      write(old) == IF RobWrite(w) THEN [old EXCEPT ![WbRobid(w)] = WbResult(v)] ELSE old
  IN /\ drd'   = latch(frd, drd, X0)
     /\ dsrc'  = latch(fsrc, dsrc, X0)
     /\ dlink' = latch(flink, dlink, 0)
     /\ rd'     = Kept(insert(drd, rd), X0)
     /\ src'    = Kept(insert(dsrc, src), X0)
     /\ target' = Kept(insert(dlink, target), 0)
     /\ result' = Kept(write(result), 0)

RatEdge(f, ustall, cstall, w, o, v, frd, fsrc, flink) ==
  LET rs    == RenameStall(ustall, cstall)
      alloc == Dispatch(rs) /\ rd[rrobid] # X0
  IN /\ Edge(f, ustall, cstall, w, o)
     /\ Fields(rs, w, v, frd, fsrc, flink)
     /\ OperandReads(rs, w, o, v)
     /\ Flags(alloc, w, o)
     /\ Tags(alloc)
     /\ SpecValues(w, o, v)
     /\ Commit
     /\ UNCHANGED program

\* The values of results and links.  The code only copies them, so one marked
\* value among zeros is enough to see a wrong copy: a result or link is marked
\* only while no other is stored (a bound of the model).
Stored ==
  {dlink} \cup UNION {{target[s], result[s]} : s \in Slots}
          \cup {op[s].val : s \in {t \in Slots : op[t].ready}}
          \cup UNION {{commval[r], specval[r]} : r \in AllRegs}
NewValues  == IF Stored = {0} THEN Vals ELSE {0}
Links(f)   == IF f = "jalr" THEN NewValues ELSE {0}
Results(w) == IF w # None /\ UnitHasRd(w) THEN NewValues ELSE {0}

\* A unit starts, and so reports, only with its operand.
RatNext ==
  \E ustall \in UnitStalls, cstall \in CsrStalls,
     f \in Offers \cap (program.kinds \cup {"none"}),
     w \in {None} \cup (IF fwdv THEN {} ELSE {s \in pending : op[s].ready}) :
    \E o \in (IF w = None THEN {"ok"} ELSE OutcomesOf(kind[w])), v \in Results(w),
       frd \in RdsOf(f), fsrc \in SourcesOf(f), flink \in Links(f) :
      RatEdge(f, ustall, cstall, w, o, v, frd, fsrc, flink)

RatSpec == RatInit /\ [][RatNext]_<<vars, ratVars>>
-----------------------------------------------------------------------------
(* Properties *)

\* The registers as the instructions that have retired left them.
Arch(r) == IF r = X0 THEN 0 ELSE commval[r]

\* Renaming is invisible: an instruction that retires has worked with the value
\* that program order gives its source, whatever tags, forwarding on the bus,
\* reuse of robids and flushes lay in between.  For a store this also says that
\* its operand has arrived: rob.v retires a store without asking.
OperandsAreArchitectural ==
  retv /\ ~IsErr(retk) => op[Idx(head)] = Ready(Arch(src[Idx(head)]))

\* Nobody waits for a result that has passed: a waiting operand names an older
\* instruction in flight that writes the register and whose result is still
\* due, or that has failed and will flush the waiter.
WaitersHaveProducers ==
  \A s \in InFlight : ~op[s].ready =>
    LET t == op[s].val
    IN /\ t \in InFlight /\ Age(head, t) < Age(head, s) /\ rd[t] = src[s]
       /\ \/ t \in pending
          \/ csrv /\ csrrobid = t
          \/ executed[t] /\ outcome[t] = "err"

\* x0 reads as zero: "if rs1=0, force to 0" says the comment on the operand
\* that the gate-level twin of rat.v hands to rename.
ZeroReadsAsZero == \A s \in InFlight : src[s] = X0 => op[s] = Ready(0)

\* csr.v takes its operand without a ready bit: by the time the access is the
\* oldest instruction, the alias table always has the value.
CsrOperandReady == csrv => op[csrrobid].ready
-----------------------------------------------------------------------------
(* The inductive invariant: why renaming is invisible *)

RatTypeOK ==
  /\ drd \in AllRegs /\ dsrc \in AllRegs /\ dlink \in Vals
  /\ rd \in [Slots -> AllRegs] /\ src \in [Slots -> AllRegs]
  /\ target \in [Slots -> Vals] /\ result \in [Slots -> Vals]
  /\ op \in [Slots -> Operands]
  /\ valid \in [AllRegs -> BOOLEAN] /\ committed \in [AllRegs -> BOOLEAN]
  /\ commval \in [AllRegs -> Vals] /\ specval \in [AllRegs -> Vals]
  /\ tag \in [AllRegs -> Slots]
  /\ program \in Programs

InRename(s) == rvalid /\ rrobid = s
Older(t, s) == Age(head, t) < Age(head, s)

\* The instructions in flight that write r and that the alias table knows of.
Writers(r) == {t \in InFlight : rd[t] = r /\ ~InRename(t)}

\* The instructions in flight that program order lets s read its source from.
Producers(s) == {t \in InFlight : rd[t] = src[s] /\ Older(t, s)}

Youngest(S, t) == t \in S /\ \A u \in S : u = t \/ Older(u, t)

\* The result of t has been on the bus and was no error.
Delivered(t) == executed[t] /\ outcome[t] # "err"

\* Fetch stops after a jalr, so a jalr is the youngest instruction in flight:
\* nobody reads the register it writes.
JalrIsLast ==
  /\ dvalid /\ dkind = "jalr" => fhalt
  /\ \A s \in InFlight : kind[s] = "jalr" => fhalt /\ ~dvalid /\ s = Idx(Dec(tail))
  /\ fwdv => kind[fwdrobid] = "jalr"

\* A csr access that has left rename is the oldest instruction.
CsrIsFirst ==
  \A s \in InFlight : kind[s] = "csr" /\ ~InRename(s) => s = Idx(head)

\* Only an instruction that runs on a unit writes a register.
WritersRun ==
  /\ dvalid /\ drd # X0 => ~IsErr(dkind) /\ ~IsStore(dkind)
  /\ \A s \in InFlight : rd[s] # X0 => ~IsErr(kind[s]) /\ ~IsStore(kind[s])

\* x0 always has its value.
ZeroIsValid == valid[X0]

\* The alias table follows the youngest writer of a register: its tag names that
\* writer, and the speculative value is there exactly when its result is.  With
\* no writer in flight the table has what the last one left.
TableFollows ==
  \A r \in Regs :
    IF Writers(r) = {}
    THEN valid[r] /\ (committed[r] \/ specval[r] = commval[r])
    ELSE /\ ~committed[r] /\ Youngest(Writers(r), tag[r])
         /\ kind[tag[r]] # "jalr" =>
              /\ valid[r] <=> Delivered(tag[r])
              /\ valid[r] => specval[r] = result[tag[r]]

\* Nothing is an operand before dispatch.
OperandsStartEmpty ==
  \A s \in Slots : s \notin InFlight \/ InRename(s) \/ IsErr(kind[s]) => op[s] = Ready(0)

\* An instruction that has left rename has, or waits for, the value that program
\* order gives its source.
OperandsFollow ==
  \A s \in InFlight : ~InRename(s) /\ ~IsErr(kind[s]) =>
    IF src[s] = X0 THEN op[s].ready
    ELSE IF Producers(s) = {} THEN op[s] = Ready(commval[src[s]])
    ELSE \E t \in Producers(s) :
           /\ Youngest(Producers(s), t)
           /\ op[s] = IF Delivered(t) THEN Ready(result[t]) ELSE Waiting(t)

RatInv ==
  /\ RatTypeOK
  /\ JalrIsLast
  /\ CsrIsFirst
  /\ WritersRun
  /\ ZeroIsValid
  /\ TableFollows
  /\ OperandsStartEmpty
  /\ OperandsFollow

\* What the theorem about x0 needs: no load to x0 is in flight with a reader of x0.
ZeroUndisturbed ==
  \A s, t \in InFlight :
    kind[s] = "load" /\ rd[s] = X0 /\ src[t] = X0 => IsErr(kind[t])

\* Then every operand read from x0 is zero.
ZeroOperands ==
  \A s \in InFlight :
    src[s] = X0 /\ ~InRename(s) /\ ~IsErr(kind[s]) => op[s] = Ready(0)

\* Renaming is invisible for the registers beside x0, without a condition on the
\* program.
RegistersAreArchitectural ==
  retv /\ ~IsErr(retk) /\ src[Idx(head)] # X0 =>
    op[Idx(head)] = Ready(commval[src[Idx(head)]])
=============================================================================
