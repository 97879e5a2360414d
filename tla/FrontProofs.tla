---------------------------- MODULE FrontProofs ----------------------------
(***************************************************************************)
(* The front: what fetch offers decode is the predicted path, for every    *)
(* buffer, program and history length; register renaming is invisible, for *)
(* a reorder buffer of any size, any registers and values, and any         *)
(* programs; and what the test bench prints of an instruction is its own   *)
(* and its count the size of the window, for every ring and every mix of   *)
(* instructions.  The three have nothing to do with each other.            *)
(***************************************************************************)
EXTENDS Trace, Fetch, Rat, RobProofs

-----------------------------------------------------------------------------
(* The test bench's trace *)

\* The window is empty after reset, and the count is zero.
LEMMA TraceInitInv == TraceInit => IInv /\ TraceInv
<1> SUFFICES ASSUME TraceInit PROVE IInv /\ TraceInv
  OBVIOUS
<1>1. IInv
  BY InitInv DEF TraceInit
<1>2. InFlight = {} /\ Dist(head, tail) = 0
  <2>1. head = 0 /\ tail = 0 /\ 0 \in Ptrs
    BY RingSize DEF TraceInit, Init, Ptrs
  <2>2. QED
    BY <2>1, EmptyRing DEF InFlight, Dist
<1>3. TraceType
  <2>1. dkind \in Kinds
    BY DEF TraceInit, Init
  <2>2. [insn |-> dkind, uses_mem |-> FALSE, memop |-> "load", writes_csr |-> FALSE]
          \in [insn : Kinds, uses_mem : BOOLEAN, memop : Kinds \cup {"load"}, writes_csr : BOOLEAN]
    BY <2>1
  <2>3. rob_trace \in [Slots -> [insn : Kinds, uses_mem : BOOLEAN, memop : Kinds \cup {"load"},
                                writes_csr : BOOLEAN]]
    BY <2>2 DEF TraceInit
  <2>4. rob_inflight = 0 /\ wen = FALSE /\ decodeFirst \in BOOLEAN
    BY Zenon DEF TraceInit
  <2>5. rob_inflight \in Int
    BY <2>4
  <2>6. wen \in BOOLEAN
    BY <2>4, Zenon
  <2>7. QED
    BY <2>3, <2>4, <2>5, <2>6, Zenon DEF TraceType
<1>4. InflightNearWindow
  BY <1>2 DEF TraceInit, InflightNearWindow
<1>5. QED
  BY <1>1, <1>2, <1>3, <1>4 DEF TraceInv, CsrIsOldest, TraceFollows

\* What one edge changes in the entries, the count and wen.
TraceMoves(rs) ==
  Report(rs) /\ Inflight(rs) /\ CsrOp /\ UNCHANGED decodeFirst

\* Every entry keeps its type.
LEMMA TraceTypes ==
  ASSUME TypeOK, TraceType, NEW rs \in BOOLEAN, TraceMoves(rs)
  PROVE  TraceType'
<1> DEFINE Record == [insn : Kinds, uses_mem : BOOLEAN, memop : Kinds \cup {"load"}, writes_csr : BOOLEAN]
<1>1. dkind \in Kinds /\ rkind \in Kinds /\ rob_trace \in [Slots -> Record]
  BY DEF TypeOK, TraceType
<1>2. rob_trace' \in [Slots -> Record]
  <2>1. \A e \in Record : OnDecode(e) \in Record /\ OnDispatch(e) \in Record /\ OnCsrWrite(e) \in Record
    BY <1>1 DEF OnDecode, OnDispatch, OnCsrWrite
  <2>2. Report(rs)
    BY DEF TraceMoves
  <2>3. QED
    BY <1>1, <2>1, <2>2 DEF Report
<1>3. rob_inflight' \in Int
  BY DEF TraceMoves, Inflight, RobCounts, DecodeCounts, TraceType
<1>4. wen' \in BOOLEAN
  BY DEF TraceMoves, CsrOp, TraceType
<1>5. QED
  BY <1>2, <1>3, <1>4 DEF TraceMoves, TraceType

\* A flush leaves nothing in the window that an entry could be wrong about.
LEMMA TraceFlush ==
  ASSUME IInv, TraceInv, RobFlush,
         NEW f \in Kinds \cup {"none"}, NEW ustall \in BOOLEAN, NEW cstall \in BOOLEAN,
         NEW w \in pending \cup {None}, NEW o \in Outcomes,
         Edge(f, ustall, cstall, w, o), TraceMoves(RenameStall(ustall, cstall))
  PROVE  CsrIsOldest' /\ TraceFollows' /\ InflightNearWindow'
<1>1. InFlight' = {} /\ Dist(head', tail') = 0
  <2>1. head' = 0 /\ tail' = 0 /\ 0 \in Ptrs
    BY RingSize DEF Edge, Pointers, Ptrs
  <2>2. QED
    BY <2>1, EmptyRing DEF InFlight, Dist
<1>2. rob_inflight' \in IF decodeFirst' THEN {0} ELSE {0, 1}
  BY DEF TraceMoves, Inflight, RobCounts, DecodeCounts
<1>3. QED
  BY <1>1, <1>2 DEF CsrIsOldest, TraceFollows, InflightNearWindow

\* The count follows the window.
LEMMA CountFollows ==
  ASSUME IInv, TraceInv, ~RobFlush, NEW rs, NEW w, WindowMoves(rs, w), TraceMoves(rs)
  PROVE  InflightNearWindow'
<1>1. head \in Ptrs /\ tail \in Ptrs /\ RetRd \in Ptrs /\ retv \in BOOLEAN /\ rs \in BOOLEAN
  BY PointerTypes DEF IInv, TypeOK, RetRd, WindowMoves
<1>2. Dist(RetRd, tail) = IF retv THEN Dist(head, tail) - 1 ELSE Dist(head, tail)
  BY <1>1, TakeOldest DEF IInv, WindowBounded, RetireStage, RetRd
<1>3. Dist(head', tail') = IF DecodeBeat(rs) THEN Dist(RetRd, tail) + 1 ELSE Dist(RetRd, tail)
  BY <1>1, PutYoungest DEF WindowMoves
<1>4. rob_inflight' = rob_inflight - (IF retv THEN 1 ELSE 0) + (IF DecodeBeat(rs) THEN 1 ELSE 0)
  <2>1. Decodes(rs) <=> DecodeBeat(rs)
    BY DEF Decodes, DecodeBeat, DecodeStall
  <2>2. QED
    BY <2>1 DEF TraceMoves, Inflight, RobCounts, DecodeCounts, TraceInv, TraceType
<1>5. Dist(head, tail) \in Int
  BY <1>1, DistanceType
<1>6. rob_inflight \in Int /\ decodeFirst' = decodeFirst
  BY DEF TraceInv, TraceType, TraceMoves
<1>7. rob_inflight' - Dist(head', tail') = rob_inflight - Dist(head, tail)
  BY <1>2, <1>3, <1>4, <1>5, <1>6
<1>8. QED
  BY <1>6, <1>7 DEF TraceInv, InflightNearWindow

\* An ordinary edge: each instruction's entry follows it.
LEMMA EntriesFollow ==
  ASSUME IInv, TraceInv, ~RobFlush,
         NEW f \in Kinds \cup {"none"}, NEW ustall \in BOOLEAN, NEW cstall \in BOOLEAN,
         NEW w \in pending \cup {None}, NEW o \in Outcomes, w # None => ~fwdv,
         Edge(f, ustall, cstall, w, o), TraceMoves(RenameStall(ustall, cstall))
  PROVE  CsrIsOldest' /\ TraceFollows'
<1> DEFINE rs    == RenameStall(ustall, cstall)
           beat  == DecodeBeat(rs)
           rest  == Live(RetRd, tail)
           write == rvalid /\ rkind = "csr" /\ RenameIsHead /\ ~rs
<1>1. WindowMoves(rs, w)
  BY OrdinaryWindow
<1>2. /\ head \in Ptrs /\ tail \in Ptrs /\ Idx(tail) \in Slots /\ rrobid \in Slots
      /\ dkind \in Kinds /\ rkind \in Kinds /\ rvalid \in BOOLEAN /\ retv \in BOOLEAN
      /\ csrv \in BOOLEAN /\ rs \in BOOLEAN /\ beat \in BOOLEAN /\ wen \in BOOLEAN
  BY <1>1, PointerTypes DEF IInv, TypeOK, WindowMoves, TraceInv, TraceType
(* The window, rename and the csr unit *)
<1>3. InFlight' = rest \cup (IF beat THEN {Idx(tail)} ELSE {})
  BY <1>1 DEF WindowMoves
<1>4. \A s \in rest : /\ s \in InFlight /\ s \in Slots /\ kind'[s] = kind[s]
                      /\ ~(retv /\ s = Idx(head)) /\ (beat => s # Idx(tail))
  BY <1>1 DEF WindowMoves, Live
<1>5. beat => kind'[Idx(tail)] = dkind /\ ~rs
  BY <1>1 DEF WindowMoves, DecodeBeat
<1>6. /\ rs => rvalid /\ rvalid' /\ rrobid' = rrobid
      /\ ~rs => rrobid' = Idx(tail) /\ (rvalid' <=> beat /\ ~IsErr(dkind))
      /\ rvalid => rrobid \in rest /\ kind[rrobid] = rkind
  BY <1>1 DEF WindowMoves, RenameStall, IInv, RenameYoungest
<1>7. rvalid /\ rkind = "csr" /\ ~rs => rrobid = Idx(head') /\ RenameIsHead
  BY <1>1 DEF WindowMoves, RenameStall, RenameIsHead
<1>8. /\ csrv' <=> (csrv /\ cstall) \/ write
      /\ csrv /\ cstall => csrrobid' = csrrobid /\ ~write
      /\ write => csrrobid' = rrobid
  <2>1. CsrLatch(rs, cstall)
    BY DEF Edge
  <2>2. QED
    BY <2>1, <1>2, <1>7 DEF CsrLatch, RenameStall
<1>9. csrv => /\ csrrobid \in InFlight /\ csrrobid = Idx(head) /\ kind[csrrobid] = "csr"
              /\ ~(rvalid /\ rrobid = csrrobid) /\ ~retv /\ ~write
  <2>1. ASSUME csrv PROVE /\ csrrobid = Idx(head) /\ kind[csrrobid] = "csr" /\ ~retv /\ head # tail
                          /\ ~(rvalid /\ rrobid = csrrobid)
    BY <2>1 DEF IInv, CsrOldest
  <2>2. ASSUME csrv PROVE csrrobid \in InFlight
    BY <2>1, <2>2, <1>2, TakeOldest DEF IInv, WindowBounded, InFlight
  <2>3. ASSUME csrv, write PROVE FALSE
    BY <2>1, <2>3 DEF RenameIsHead, RetRd
  <2>4. QED
    BY <2>1, <2>2, <2>3
<1>10. CsrIsOldest'
  <2>1. SUFFICES ASSUME NEW s \in InFlight', kind'[s] = "csr", ~(rvalid' /\ rrobid' = s)
                 PROVE  s = Idx(head')
    BY DEF CsrIsOldest
  <2>2. CASE s \in rest /\ rvalid /\ rrobid = s
    BY <2>1, <2>2, <1>2, <1>4, <1>6, <1>7
  <2>3. CASE s \in rest /\ ~(rvalid /\ rrobid = s)
    <3>1. s = Idx(head) /\ ~retv
      BY <2>1, <2>3, <1>4 DEF TraceInv, CsrIsOldest
    <3>2. QED
      BY <3>1, <1>1 DEF WindowMoves, RetRd
  <2>4. CASE beat /\ s = Idx(tail)
    BY <2>1, <2>4, <1>5, <1>6 DEF IsErr
  <2>5. QED
    BY <2>1, <2>2, <2>3, <2>4, <1>3
(* The entries *)
<1>11. \A s \in Slots : rob_trace[s] \in [insn : Kinds, uses_mem : BOOLEAN,
                                          memop : Kinds \cup {"load"}, writes_csr : BOOLEAN]
  BY DEF TraceInv, TraceType
<1>12. /\ \A s \in rest :
            rob_trace'[s] = IF rvalid /\ ~rs /\ IsMem(rkind) /\ s = rrobid THEN OnDispatch(rob_trace[s])
                            ELSE IF csrv /\ wen /\ s = csrrobid THEN OnCsrWrite(rob_trace[s])
                            ELSE rob_trace[s]
       /\ beat => rob_trace'[Idx(tail)] = OnDecode(rob_trace[Idx(tail)])
  <2>1. Report(rs)
    BY DEF TraceMoves
  <2>2. Decodes(rs) <=> beat
    BY DEF Decodes, DecodeBeat, DecodeStall
  <2>3. /\ rvalid /\ csrv => rrobid # csrrobid
        /\ beat /\ rvalid => rrobid # Idx(tail)
        /\ beat /\ csrv => csrrobid # Idx(tail)
    BY <1>1, <1>4, <1>6, <1>9 DEF WindowMoves
  <2>4. ASSUME NEW s \in Slots, beat => s # Idx(tail)
        PROVE  rob_trace'[s] = IF rvalid /\ ~rs /\ IsMem(rkind) /\ s = rrobid THEN OnDispatch(rob_trace[s])
                               ELSE IF csrv /\ wen /\ s = csrrobid THEN OnCsrWrite(rob_trace[s])
                               ELSE rob_trace[s]
    BY <2>1, <2>2, <2>3, <2>4 DEF Report, Dispatches, Dispatch, CsrWrites
  <2>5. beat => rob_trace'[Idx(tail)] = OnDecode(rob_trace[Idx(tail)])
    BY <2>1, <2>2, <2>3, <1>2 DEF Report, Dispatches, Dispatch, CsrWrites
  <2>6. QED
    BY <2>4, <2>5, <1>4
<1>13. ~(csrv' /\ ~csrv) => wen' = wen
  BY DEF TraceMoves, CsrOp
<1>14. TraceFollows'
  <2>1. SUFFICES ASSUME NEW s \in InFlight'
                 PROVE  LET e         == rob_trace'[s]
                            inRename  == rvalid' /\ rrobid' = s
                            inCsr     == csrv' /\ csrrobid' = s
                        IN /\ e.insn = kind'[s]
                           /\ e.uses_mem <=> IsMem(kind'[s]) /\ ~inRename
                           /\ e.uses_mem => e.memop = kind'[s]
                           /\ e.writes_csr => kind'[s] = "csr" /\ wen' /\ ~inRename
                           /\ kind'[s] = "csr" /\ wen' /\ ~inRename /\ ~inCsr => e.writes_csr
    BY DEF TraceFollows
  <2>2. CASE beat /\ s = Idx(tail)
    <3>1. kind'[s] = dkind /\ (IsErr(dkind) \/ (rvalid' /\ rrobid' = s))
      BY <2>2, <1>5, <1>6
    <3>2. /\ rob_trace'[s].insn = dkind
          /\ rob_trace'[s].uses_mem = FALSE /\ rob_trace'[s].writes_csr = FALSE
      BY <2>2, <1>2, <1>11, <1>12 DEF OnDecode
    <3>3. QED
      BY <3>1, <3>2 DEF IsErr, IsMem
  <2>3. CASE s \in rest
    <3> DEFINE e == rob_trace[s]
    <3>1. /\ s \in InFlight /\ s \in Slots /\ kind'[s] = kind[s] /\ ~(retv /\ s = Idx(head))
          /\ beat => s # Idx(tail)
      BY <2>3, <1>4
    <3>2. /\ e.insn = kind[s]
          /\ e.uses_mem <=> IsMem(kind[s]) /\ ~(rvalid /\ rrobid = s)
          /\ e.uses_mem => e.memop = kind[s]
          /\ e.writes_csr => kind[s] = "csr" /\ wen /\ ~(rvalid /\ rrobid = s)
          /\ kind[s] = "csr" /\ wen /\ ~(rvalid /\ rrobid = s) /\ ~(csrv /\ csrrobid = s) => e.writes_csr
      BY <3>1 DEF TraceInv, TraceFollows
    <3>3. rvalid' /\ rrobid' = s <=> rs /\ rrobid = s
      BY <3>1, <1>2, <1>6
    <3>4. /\ e.insn \in Kinds /\ e.uses_mem \in BOOLEAN /\ e.writes_csr \in BOOLEAN
          /\ OnDispatch(e).insn = e.insn /\ OnDispatch(e).uses_mem = TRUE
          /\ OnDispatch(e).memop = rkind /\ OnDispatch(e).writes_csr = e.writes_csr
          /\ OnCsrWrite(e).insn = e.insn /\ OnCsrWrite(e).uses_mem = e.uses_mem
          /\ OnCsrWrite(e).memop = e.memop /\ OnCsrWrite(e).writes_csr = TRUE
      BY <3>1, <1>11 DEF OnDispatch, OnCsrWrite
    <3>5. CASE rvalid /\ rrobid = s
      <4>1. rkind = kind[s] /\ ~(csrv /\ csrrobid = s)
        BY <3>5, <1>6, <1>9
      <4>2. rob_trace'[s] = IF ~rs /\ IsMem(kind[s]) THEN OnDispatch(e) ELSE e
        BY <2>3, <3>5, <4>1, <1>12
      <4>3. ~rs /\ kind[s] = "csr" => csrv' /\ csrrobid' = s
        BY <3>5, <4>1, <1>2, <1>7, <1>8
      <4>4. ~e.uses_mem /\ ~e.writes_csr
        BY <3>2, <3>4, <3>5
      <4>5. QED
        BY <3>1, <3>2, <3>3, <3>4, <3>5, <4>1, <4>2, <4>3, <4>4, <1>2 DEF IsMem
    <3>6. CASE ~(rvalid /\ rrobid = s)
      <4>1. rob_trace'[s] = IF csrv /\ wen /\ s = csrrobid THEN OnCsrWrite(e) ELSE e
        BY <2>3, <3>6, <1>12
      <4>2. ~(rvalid' /\ rrobid' = s)
        BY <3>3, <3>6, <1>6
      <4>3. kind[s] = "csr" => wen' = wen
        <5>1. SUFFICES ASSUME kind[s] = "csr", csrv', ~csrv PROVE FALSE
          BY <1>13
        <5>2. s = Idx(head) /\ ~retv
          BY <3>1, <3>6, <5>1 DEF TraceInv, CsrIsOldest
        <5>3. rvalid /\ rrobid = Idx(head)
          BY <5>1, <5>2, <1>8 DEF RenameIsHead, RetRd
        <5>4. QED
          BY <3>6, <5>2, <5>3
      <4>4. kind[s] # "csr" => ~(csrv /\ csrrobid = s) /\ ~(csrv' /\ csrrobid' = s)
        BY <3>6, <1>6, <1>8, <1>9
      <4>5. CASE kind[s] = "csr"
        <5>1. CASE csrv /\ wen /\ s = csrrobid
          BY <3>1, <3>2, <3>4, <3>6, <4>1, <4>2, <4>3, <4>5, <5>1
        <5>2. CASE ~(csrv /\ wen /\ s = csrrobid)
          BY <3>1, <3>2, <3>4, <3>6, <4>1, <4>2, <4>3, <4>5, <5>2
        <5>3. QED
          BY <5>1, <5>2
      <4>6. CASE kind[s] # "csr"
        BY <3>1, <3>2, <3>4, <3>6, <4>1, <4>2, <4>4, <4>6
      <4>7. QED
        BY <4>5, <4>6
    <3>7. QED
      BY <3>5, <3>6
  <2>4. QED
    BY <2>1, <2>2, <2>3, <1>3
<1>15. QED
  BY <1>10, <1>14

-----------------------------------------------------------------------------
(* The theorems *)

\* Every tick keeps the invariant of the pipeline and that of the trace.
LEMMA TraceStep == IInv /\ TraceInv /\ [TraceNext]_<<vars, traceVars>> => IInv' /\ TraceInv'
<1> SUFFICES ASSUME IInv, TraceInv, [TraceNext]_<<vars, traceVars>> PROVE IInv' /\ TraceInv'
  OBVIOUS
<1>1. CASE UNCHANGED <<vars, traceVars>>
  <2>1. IInv'
    BY <1>1, StepInv
  <2>2. TraceInv'
    BY <1>1 DEF vars, traceVars, TraceInv, TraceType, CsrIsOldest, TraceFollows,
       InflightNearWindow, InFlight
  <2>3. QED
    BY <2>1, <2>2
<1>2. CASE TraceNext
  <2>1. PICK ustall \in UnitStalls, cstall \in CsrStalls, f \in Offers : TraceEdge(f, ustall, cstall)
    BY <1>2 DEF TraceNext
  <2>2. ustall \in BOOLEAN /\ cstall \in BOOLEAN /\ f \in Kinds \cup {"none"}
    BY <2>1 DEF UnitStalls, CsrStalls, Stalls, Offers
  <2>3. TraceMoves(RenameStall(ustall, cstall))
    BY <2>1 DEF TraceEdge, TraceMoves
  <2>4. PICK w \in pending \cup {None}, o \in Outcomes :
          /\ w # None => ~fwdv
          /\ Edge(f, ustall, cstall, w, o)
    <3>1. CASE Quiet(f, ustall, cstall)
      BY <3>1 DEF Quiet, Outcomes
    <3>2. CASE \E w \in Slots : Result(f, ustall, cstall, w)
      BY <3>2 DEF Result, OutcomesOf, Outcomes
    <3>3. QED
      BY <2>1, <3>1, <3>2 DEF TraceEdge
  <2>5. TraceType'
    <3>1. RenameStall(ustall, cstall) \in BOOLEAN
      BY DEF IInv, TypeOK, RenameStall
    <3>2. QED
      BY <2>3, <3>1, TraceTypes DEF IInv, TraceInv
  <2>6. CASE RobFlush
    <3>1. IInv'
      BY <2>2, <2>4, <2>6, FlushEdge
    <3>2. CsrIsOldest' /\ TraceFollows' /\ InflightNearWindow'
      BY <2>2, <2>3, <2>4, <2>6, TraceFlush
    <3>3. QED
      BY <2>5, <3>1, <3>2 DEF TraceInv
  <2>7. CASE ~RobFlush
    <3>1. IInv'
      BY <2>2, <2>4, <2>7, OrdinaryEdge
    <3>2. CsrIsOldest' /\ TraceFollows'
      BY <2>2, <2>3, <2>4, <2>7, EntriesFollow
    <3>3. InflightNearWindow'
      <4>1. WindowMoves(RenameStall(ustall, cstall), w)
        BY <2>2, <2>4, <2>7, OrdinaryWindow
      <4>2. QED
        BY <2>3, <2>7, <4>1, CountFollows
    <3>4. QED
      BY <2>5, <3>1, <3>2, <3>3 DEF TraceInv
  <2>8. QED
    BY <2>6, <2>7
<1>3. QED
  BY <1>1, <1>2

\* The invariants of the pipeline and of the trace hold in every simulation.
THEOREM TraceInvariance == TraceSpec => [](IInv /\ TraceInv)
BY TraceInitInv, TraceStep, PTL DEF TraceSpec

\* The trace of an instruction that retires is its own (tb_trace_rob_retire).
THEOREM TraceCorrect == TraceSpec => []TraceIsOwn
<1>1. IInv /\ TraceInv => TraceIsOwn
  <2>1. SUFFICES ASSUME IInv, TraceInv, retv
                 PROVE  LET e == rob_trace[Idx(head)]
                        IN /\ e.insn = retk
                           /\ e.uses_mem <=> IsMem(retk)
                           /\ e.uses_mem => e.memop = retk
                           /\ e.writes_csr => retk = "csr" /\ wen
                           /\ retk = "csr" /\ wen => e.writes_csr
    BY DEF TraceIsOwn
  <2>2. head # tail /\ retk = kind[Idx(head)]
    BY <2>1 DEF IInv, RetireStage
  <2>3. Idx(head) \in InFlight
    BY <2>1, <2>2, TakeOldest DEF IInv, TypeOK, WindowBounded, InFlight
  <2>4. ~(rvalid /\ rrobid = Idx(head)) /\ ~csrv
    BY <2>1 DEF IInv, RenameYoungest, CsrOldest
  <2>5. QED
    BY <2>1, <2>2, <2>3, <2>4 DEF TraceInv, TraceFollows
<1>2. QED
  BY <1>1, TraceInvariance, PTL

\* The count in flight is the size of the window, or one more for an instruction that was
\* decoded in the cycle of a flush (tb_trace_decode, tb_log_rob_flush).
THEOREM CountIsNear == TraceSpec => []InflightNearWindow
<1>1. TraceInv => InflightNearWindow
  BY DEF TraceInv
<1>2. QED
  BY <1>1, TraceInvariance, PTL

-----------------------------------------------------------------------------
(* The buffer as a ring of positions *)

\* Positions are slots, different ones different slots, and head, middle, tail and the
\* latest answer are where they are expected.
LEMMA BufferPositions ==
  ASSUME NEW h \in Ptr!Ptrs, NEW m \in Ptr!Ptrs, NEW t \in Ptr!Ptrs,
         Ptr!Dist(h, m) + Ptr!Dist(m, t) = Ptr!Dist(h, t), Ptr!Dist(h, t) <= BufSize
  PROVE  /\ \A p \in 0 .. BufSize - 1 : Ptr!Nth(h, p + 1) \in Entries
         /\ \A p, q \in 0 .. BufSize - 1 : Ptr!Nth(h, p + 1) = Ptr!Nth(h, q + 1) => p = q
         /\ Ptr!Nth(h, 1) = Ptr!Idx(h)
         /\ Ptr!Dist(h, m) < BufSize => Ptr!Idx(m) = Ptr!Nth(h, Ptr!Dist(h, m) + 1)
         /\ Ptr!Dist(h, t) < BufSize => Ptr!Idx(t) = Ptr!Nth(h, Ptr!Dist(h, t) + 1)
         /\ h # m => Ptr!Nth(h, Ptr!Dist(h, m)) =
                       IF Ptr!Idx(m) = 0 THEN BufSize - 1 ELSE Ptr!Idx(m) - 1
         /\ \A p \in 0 .. Ptr!Dist(h, t) - 1 : Ptr!Nth(h, p + 1) \in Ptr!Live(h, t)
<1>1. /\ \A p \in 0 .. BufSize - 1 : Ptr!Nth(h, p + 1) \in Entries
      /\ \A p, q \in 0 .. BufSize - 1 : Ptr!Nth(h, p + 1) = Ptr!Nth(h, q + 1) => p = q
      /\ Ptr!Nth(h, 1) = Ptr!Idx(h)
  BY FetchAssumption DEF Ptr!Ptrs, Ptr!Nth, Ptr!Idx, Entries
<1>2. Ptr!Dist(h, m) < BufSize => Ptr!Idx(m) = Ptr!Nth(h, Ptr!Dist(h, m) + 1)
  BY FetchAssumption DEF Ptr!Ptrs, Ptr!Nth, Ptr!Idx, Ptr!Dist
<1>3. Ptr!Dist(h, t) < BufSize => Ptr!Idx(t) = Ptr!Nth(h, Ptr!Dist(h, t) + 1)
  BY FetchAssumption DEF Ptr!Ptrs, Ptr!Nth, Ptr!Idx, Ptr!Dist
<1>4. h # m => Ptr!Nth(h, Ptr!Dist(h, m)) =
                 IF Ptr!Idx(m) = 0 THEN BufSize - 1 ELSE Ptr!Idx(m) - 1
  BY FetchAssumption DEF Ptr!Ptrs, Ptr!Nth, Ptr!Idx, Ptr!Dist
<1>5. \A p \in 0 .. Ptr!Dist(h, t) - 1 : Ptr!Nth(h, p + 1) \in Ptr!Live(h, t)
  BY FetchAssumption DEF Ptr!Ptrs, Ptr!Nth, Ptr!Idx, Ptr!Dist, Ptr!Live, Ptr!Age, Ptr!Slots
<1>6. QED
  BY <1>1, <1>2, <1>3, <1>4, <1>5

\* What an entry more at the tail, an answer, and an entry less at the head do to the distances.
LEMMA BufferDistances ==
  ASSUME NEW h \in Ptr!Ptrs, NEW t \in Ptr!Ptrs, Ptr!Dist(h, t) <= BufSize
  PROVE  /\ Ptr!Dist(h, t) \in 0 .. BufSize /\ (Ptr!Dist(h, t) = 0 <=> h = t)
         /\ Ptr!IsFull(h, t) <=> Ptr!Dist(h, t) = BufSize
         /\ Ptr!Inc(h) \in Ptr!Ptrs
         /\ Ptr!Dist(h, t) < BufSize => Ptr!Dist(h, Ptr!Inc(t)) = Ptr!Dist(h, t) + 1
         /\ h # t => Ptr!Dist(Ptr!Inc(h), t) = Ptr!Dist(h, t) - 1
         /\ \A p \in 0 .. BufSize - 2 : Ptr!Nth(Ptr!Inc(h), p + 1) = Ptr!Nth(h, p + 2)
<1>1. Ptr!Dist(h, t) \in 0 .. BufSize /\ (Ptr!Dist(h, t) = 0 <=> h = t)
  BY FetchAssumption DEF Ptr!Ptrs, Ptr!Dist
<1>2. Ptr!IsFull(h, t) <=> Ptr!Dist(h, t) = BufSize
  BY FetchAssumption DEF Ptr!Ptrs, Ptr!Dist, Ptr!IsFull, Ptr!Idx
<1>3. Ptr!Inc(h) \in Ptr!Ptrs
  BY FetchAssumption DEF Ptr!Ptrs, Ptr!Inc
<1>4. Ptr!Dist(h, t) < BufSize => Ptr!Dist(h, Ptr!Inc(t)) = Ptr!Dist(h, t) + 1
  BY FetchAssumption DEF Ptr!Ptrs, Ptr!Inc, Ptr!Dist
<1>5. h # t => Ptr!Dist(Ptr!Inc(h), t) = Ptr!Dist(h, t) - 1
  BY FetchAssumption DEF Ptr!Ptrs, Ptr!Inc, Ptr!Dist
<1>6. \A p \in 0 .. BufSize - 2 : Ptr!Nth(Ptr!Inc(h), p + 1) = Ptr!Nth(h, p + 2)
  BY FetchAssumption DEF Ptr!Ptrs, Ptr!Inc, Ptr!Nth, Ptr!Idx
<1>7. QED
  BY <1>1, <1>2, <1>3, <1>4, <1>5, <1>6

\* A pc moved on is a pc, and its word a word.
LEMMA PcTypes ==
  ASSUME NEW p \in Pcs
  PROVE  /\ After(p, 2) \in Pcs /\ WordOf(p) \in WordsOf
         /\ \A w \in WordsOf : 2 * w \in Pcs
<1>1. After(p, 2) \in Pcs
  BY FetchAssumption DEF After, Pcs
<1>2. WordOf(p) \in WordsOf
  BY FetchAssumption DEF WordOf, WordsOf, Pcs
<1>3. \A w \in WordsOf : 2 * w \in Pcs
  BY FetchAssumption DEF WordsOf, Pcs
<1>4. QED
  BY <1>1, <1>2, <1>3

-----------------------------------------------------------------------------
(* An edge without a flush, by positions *)

\* A prediction or a jump redirects fetch, the cache answers, a request is made.
Redirected == BrTaken \/ insn_jal
Answering  == IcacheValid /\ ~Redirected
Requesting == ~FbufFull /\ ~Redirected /\ ~Insn("jalr") /\ ~jalr_halt /\ ~Misaligned(pc)

\* The entries that an edge takes from the head, answers, and adds.
Taken(stall) == IF Offered /\ ~stall THEN 1 ELSE 0
Answer       == IF Answering THEN 1 ELSE 0
Request      == IF Requesting THEN 1 ELSE 0

\* What becomes of the entry at a position, before the head is taken.
NewEntry(q) ==
  IF q = Asked THEN Requested(fbuf[Ptr!Idx(ftail)])
  ELSE IF Answer = 1 /\ q = Answers THEN Answered(Entry(q))
  ELSE IF bp_req /\ q = Answers - 1 THEN Predicted(Entry(q))
  ELSE Entry(q)

\* The counts of an edge fit the buffer.
CountsFit(b) ==
  /\ BufSize \in Nat /\ b \in {0, 1} /\ Answer \in {0, 1} /\ Request \in {0, 1}
  /\ Answers \in 0 .. BufSize /\ Asked \in 0 .. BufSize /\ Answers <= Asked
  /\ b <= Answers /\ Answers + Answer <= Asked
  /\ Asked + Request <= BufSize
  /\ Redirected => Answer = 0 /\ Request = 0

LEMMA EdgeCounts ==
  ASSUME FetchInv, NEW stall \in BOOLEAN
  PROVE  /\ CountsFit(Taken(stall))
         /\ Entry(0) = HeadEntry
         /\ Taken(stall) = 1 => Entry(0).valid
<1>1. /\ fhead \in Ptr!Ptrs /\ fmid \in Ptr!Ptrs /\ ftail \in Ptr!Ptrs
      /\ Ptr!Dist(fhead, fmid) + Ptr!Dist(fmid, ftail) = Ptr!Dist(fhead, ftail)
      /\ Ptr!Dist(fhead, ftail) <= BufSize
  BY DEF FetchInv, FetchTypeOK, RingInParts, Answers, Asked
<1>2. /\ Ptr!Dist(fhead, fmid) \in Nat /\ Ptr!Dist(fmid, ftail) \in Nat
  BY <1>1, FetchAssumption DEF Ptr!Ptrs, Ptr!Dist
<1>3. Answers \in 0 .. BufSize /\ Asked \in 0 .. BufSize /\ Answers <= Asked
  BY <1>1, <1>2, FetchAssumption DEF Answers, Asked
<1>4. Taken(stall) \in {0, 1} /\ Answer \in {0, 1} /\ Request \in {0, 1}
  BY DEF Taken, Answer, Request
<1>5. Redirected => Answer = 0 /\ Request = 0
  BY DEF Answer, Request, Answering, Requesting
<1>6. ASSUME Answer = 1 PROVE Answers + 1 <= Asked
  <2>1. ~jalr_halt /\ s1 # Nothing
    BY <1>6 DEF Answer, Answering, IcacheValid, FetchInv, StagesFollow
  <2>2. Asked - Answers = (IF s0 = Nothing THEN 0 ELSE 1) + 1
    BY <2>1 DEF FetchInv, StagesFollow
  <2>3. QED
    BY <2>2, <1>3, FetchAssumption
<1>7. ASSUME Request = 1 PROVE Asked + 1 <= BufSize
  <2>1. ~Ptr!IsFull(fhead, ftail)
    BY <1>7 DEF Request, Requesting, FbufFull
  <2>2. Asked # BufSize
    BY <2>1, <1>1, BufferDistances DEF Asked
  <2>3. QED
    BY <2>2, <1>3, FetchAssumption
<1>8. Entry(0) = HeadEntry
  BY <1>1, BufferPositions DEF Entry, Slot, HeadEntry
<1>9. ASSUME Offered PROVE Answers >= 1 /\ Entry(0).valid
  <2>1. Entry(0).valid /\ fhead # ftail
    BY <1>8, <1>9 DEF Offered, FbufEmpty
  <2>2. Asked # 0
    BY <1>1, <2>1, BufferDistances DEF Asked
  <2>3. Answers # 0
    BY <2>1, <2>2, <1>3 DEF FetchInv, EntriesHoldWords
  <2>4. QED
    BY <2>1, <2>3, <1>3
<1>10. Taken(stall) = 1 => Offered
  BY DEF Taken
<1>11. CountsFit(Taken(stall))
  <2>1. Taken(stall) <= Answers
    BY <1>3, <1>4, <1>9, <1>10, FetchAssumption
  <2>2. Answers + Answer <= Asked
    BY <1>3, <1>4, <1>6, FetchAssumption
  <2>3. Asked + Request <= BufSize
    BY <1>3, <1>4, <1>7, FetchAssumption
  <2>4. QED
    BY <1>3, <1>4, <1>5, <2>1, <2>2, <2>3, FetchAssumption DEF CountsFit
<1>12. QED
  BY <1>8, <1>9, <1>10, <1>11

\* Head, middle and tail move by these counts; a redirection gives up what is asked for.
PointersMoved(b) ==
  /\ fhead' \in Ptr!Ptrs /\ fmid' \in Ptr!Ptrs /\ ftail' \in Ptr!Ptrs
  /\ Answers' = Answers + Answer - b
  /\ Asked' = (IF Redirected THEN Answers ELSE Asked + Request) - b
  /\ Answers' + Ptr!Dist(fmid', ftail') = Asked' /\ Asked' <= BufSize
  /\ \A p \in 0 .. Asked' - 1 : Ptr!Nth(fhead', p + 1) = Slot(p + b)

LEMMA PointersMove ==
  ASSUME FetchInv, NEW stall \in BOOLEAN, BufPointers(FALSE, stall)
  PROVE  PointersMoved(Taken(stall))
<1> DEFINE b == Taken(stall)
           D(x, y) == Ptr!Dist(x, y)
<1> HIDE DEF b
<1>1. /\ fhead \in Ptr!Ptrs /\ fmid \in Ptr!Ptrs /\ ftail \in Ptr!Ptrs
      /\ D(fhead, fmid) + D(fmid, ftail) = D(fhead, ftail)
      /\ D(fhead, ftail) <= BufSize
  BY DEF FetchInv, FetchTypeOK, RingInParts, Answers, Asked
<1>2. CountsFit(b)
  BY EdgeCounts DEF b
<1>3. /\ fhead' = (IF b = 1 THEN Ptr!Inc(fhead) ELSE fhead)
      /\ fmid' = (IF Answer = 1 THEN Ptr!Inc(fmid) ELSE fmid)
      /\ ftail' = (IF Redirected THEN fmid ELSE IF Request = 1 THEN Ptr!Inc(ftail) ELSE ftail)
  BY DEF BufPointers, Taken, Answer, Request, Answering, Requesting, Redirected, SetPc, IcReq, IcFlush, b
<1>4. D(fmid, ftail) \in 0 .. BufSize /\ D(fmid, ftail) = Asked - Answers
  <2>1. D(fmid, ftail) \in Int
    BY <1>1, FetchAssumption DEF Ptr!Dist, Ptr!Ptrs
  <2>2. QED
    BY <2>1, <1>1, <1>2 DEF CountsFit, Answers, Asked
<1>5. /\ fmid' \in Ptr!Ptrs /\ ftail' \in Ptr!Ptrs /\ fhead' \in Ptr!Ptrs
  BY <1>1, <1>3, FetchAssumption DEF Ptr!Ptrs, Ptr!Inc
\* First the middle and the tail, then the head.
<1>6. /\ D(fhead, fmid') = Answers + Answer
      /\ D(fmid', ftail) = IF Answer = 1 THEN Asked - Answers - 1 ELSE Asked - Answers
  <2>1. CASE Answer = 1
    <3>1. Answers < Asked /\ Asked <= BufSize /\ Answers \in Nat /\ Asked \in Nat
      BY <1>2, <2>1, FetchAssumption DEF CountsFit
    <3>2. D(fhead, Ptr!Inc(fmid)) = Answers + 1
      BY <1>1, <3>1, FetchAssumption, BufferDistances DEF Answers
    <3>3. D(Ptr!Inc(fmid), ftail) = D(fmid, ftail) - 1
      BY <1>1, <1>4, <3>1, FetchAssumption, BufferDistances
    <3>4. QED
      BY <2>1, <3>1, <3>2, <3>3, <1>3, <1>4
  <2>2. CASE Answer = 0
    BY <2>2, <1>2, <1>3, <1>4, FetchAssumption DEF CountsFit, Answers
  <2>3. QED
    BY <2>1, <2>2, <1>2 DEF CountsFit
<1>7. /\ D(fhead, ftail') = (IF Redirected THEN Answers ELSE Asked + Request)
      /\ D(fhead, fmid') + D(fmid', ftail') = D(fhead, ftail')
      /\ D(fhead, ftail') <= BufSize
  <2>1. CASE Redirected
    <3>1. fmid' = fmid /\ ftail' = fmid /\ Answer = 0
      BY <2>1, <1>2, <1>3 DEF CountsFit
    <3>2. D(fmid, fmid) = 0
      BY <1>1, FetchAssumption DEF Ptr!Dist, Ptr!Ptrs
    <3>3. QED
      BY <2>1, <3>1, <3>2, <1>2, FetchAssumption DEF Answers, CountsFit
  <2>2. CASE ~Redirected /\ Request = 1
    <3>1. ftail' = Ptr!Inc(ftail) /\ Asked < BufSize
      BY <2>2, <1>2, <1>3, FetchAssumption DEF CountsFit
    <3>2. D(fhead, Ptr!Inc(ftail)) = Asked + 1
      BY <1>1, <3>1, BufferDistances DEF Asked
    <3>3. D(fmid', ftail) <= BufSize /\ D(fmid', ftail) < BufSize
      BY <1>2, <1>6, <3>1, FetchAssumption DEF CountsFit
    <3>4. D(fmid', Ptr!Inc(ftail)) = D(fmid', ftail) + 1
      BY <3>3, <1>1, <1>5, BufferDistances
    <3>5. QED
      BY <2>2, <3>1, <3>2, <3>4, <1>2, <1>6, FetchAssumption DEF CountsFit
  <2>3. CASE ~Redirected /\ Request = 0
    <3>1. ftail' = ftail
      BY <2>3, <1>3
    <3>2. QED
      BY <2>3, <3>1, <1>2, <1>6, FetchAssumption DEF CountsFit, Asked
  <2>4. QED
    BY <2>1, <2>2, <2>3, <1>2 DEF CountsFit
<1>8. /\ D(fhead', fmid') = Answers + Answer - b
      /\ D(fhead', ftail') = D(fhead, ftail') - b
      /\ \A p \in 0 .. D(fhead', ftail') - 1 : Ptr!Nth(fhead', p + 1) = Slot(p + b)
  <2>0. D(fhead, ftail') \in 0 .. BufSize /\ D(fhead, fmid') \in 0 .. BufSize
    BY <1>2, <1>6, <1>7, FetchAssumption DEF CountsFit
  <2>1. CASE b = 1
    <3>1. fhead' = Ptr!Inc(fhead)
      BY <2>1, <1>3
    <3>2. D(fhead, fmid') >= 1 /\ D(fhead, ftail') >= 1
      BY <2>1, <1>2, <1>6, <1>7, FetchAssumption DEF CountsFit
    <3>3. fhead # fmid' /\ fhead # ftail'
      BY <3>2, <2>0, <1>1, <1>5, BufferDistances
    <3>4. D(fhead', fmid') = D(fhead, fmid') - 1
      BY <3>1, <3>3, <2>0, <1>1, <1>5, BufferDistances
    <3>5. D(fhead', ftail') = D(fhead, ftail') - 1
      BY <3>1, <3>3, <2>0, <1>1, <1>5, BufferDistances
    <3>6. ASSUME NEW p \in 0 .. D(fhead', ftail') - 1 PROVE Ptr!Nth(fhead', p + 1) = Slot(p + 1)
      <4>1. p \in 0 .. BufSize - 2
        BY <3>5, <2>0, FetchAssumption
      <4>2. Ptr!Nth(Ptr!Inc(fhead), p + 1) = Ptr!Nth(fhead, p + 2)
        BY <4>1, <1>1, BufferDistances
      <4>3. p + 2 = (p + 1) + 1
        BY <4>1
      <4>4. QED
        BY <3>1, <4>2, <4>3 DEF Slot
    <3>7. \A p \in 0 .. D(fhead', ftail') - 1 : Ptr!Nth(fhead', p + 1) = Slot(p + b)
      BY <2>1, <3>6
    <3>8. D(fhead', fmid') = Answers + Answer - b
      BY <2>1, <1>2, <1>6, <3>4 DEF CountsFit
    <3>9. D(fhead', ftail') = D(fhead, ftail') - b
      BY <2>1, <3>5
    <3>10. QED
      BY <3>7, <3>8, <3>9
  <2>2. CASE b = 0
    <3>1. fhead' = fhead
      BY <2>2, <1>3
    <3>2. \A p \in 0 .. D(fhead', ftail') - 1 : Ptr!Nth(fhead', p + 1) = Slot(p + b)
      <4>1. \A p \in 0 .. D(fhead', ftail') - 1 : p + b = p
        BY <2>2, <2>0, <3>1
      <4>2. QED
        BY <3>1, <4>1 DEF Slot
    <3>3. QED
      BY <2>2, <3>1, <3>2, <2>0, <1>2, <1>6, FetchAssumption DEF CountsFit
  <2>3. QED
    BY <2>1, <2>2, <1>2 DEF CountsFit
<1>9. Answers' = D(fhead', fmid') /\ Asked' = D(fhead', ftail')
  BY DEF Answers, Asked
<1>10. D(fhead', fmid') + D(fmid', ftail') = D(fhead', ftail') /\ D(fhead', ftail') <= BufSize
  <2>1. D(fmid', ftail') = D(fhead, ftail') - D(fhead, fmid')
    <3>1. D(fmid', ftail') \in Int
      BY <1>5, FetchAssumption DEF Ptr!Dist, Ptr!Ptrs
    <3>2. QED
      BY <3>1, <1>2, <1>6, <1>7, FetchAssumption DEF CountsFit
  <2>2. QED
    BY <2>1, <1>2, <1>6, <1>7, <1>8, FetchAssumption DEF CountsFit
<1>11. QED
  BY <1>5, <1>7, <1>8, <1>9, <1>10 DEF PointersMoved, b

\* The entries, at their new positions.
EntriesMoved(b) ==
  \A p \in 0 .. Asked' - 1 : fbuf'[Ptr!Nth(fhead', p + 1)] = NewEntry(p + b)

LEMMA EntriesMove ==
  ASSUME FetchInv, NEW stall \in BOOLEAN, BufPointers(FALSE, stall), Buffer(FALSE)
  PROVE  EntriesMoved(Taken(stall))
<1> DEFINE b == Taken(stall)
<1> HIDE DEF b
<1>1. /\ fhead \in Ptr!Ptrs /\ fmid \in Ptr!Ptrs /\ ftail \in Ptr!Ptrs
      /\ Ptr!Dist(fhead, fmid) + Ptr!Dist(fmid, ftail) = Ptr!Dist(fhead, ftail)
      /\ Ptr!Dist(fhead, ftail) <= BufSize
  BY DEF FetchInv, FetchTypeOK, RingInParts, Answers, Asked
<1>2. CountsFit(b)
  BY EdgeCounts DEF b
<1>3. PointersMoved(b)
  BY PointersMove DEF b
\* Where the pointers are, by positions.
<1>4. /\ \A p \in 0 .. BufSize - 1 : Slot(p) \in Entries
      /\ \A p, q \in 0 .. BufSize - 1 : Slot(p) = Slot(q) => p = q
      /\ Answers < BufSize => Ptr!Idx(fmid) = Slot(Answers)
      /\ Asked < BufSize => Ptr!Idx(ftail) = Slot(Asked)
      /\ Answers > 0 => MidPrev = Slot(Answers - 1)
  <2>1. /\ \A p \in 0 .. BufSize - 1 : Ptr!Nth(fhead, p + 1) \in Entries
        /\ \A p, q \in 0 .. BufSize - 1 : Ptr!Nth(fhead, p + 1) = Ptr!Nth(fhead, q + 1) => p = q
        /\ Ptr!Dist(fhead, fmid) < BufSize => Ptr!Idx(fmid) = Ptr!Nth(fhead, Ptr!Dist(fhead, fmid) + 1)
        /\ Ptr!Dist(fhead, ftail) < BufSize => Ptr!Idx(ftail) = Ptr!Nth(fhead, Ptr!Dist(fhead, ftail) + 1)
        /\ fhead # fmid => Ptr!Nth(fhead, Ptr!Dist(fhead, fmid)) =
                             IF Ptr!Idx(fmid) = 0 THEN BufSize - 1 ELSE Ptr!Idx(fmid) - 1
    BY <1>1, BufferPositions
  <2>2. Answers > 0 => fhead # fmid
    BY <1>1, FetchAssumption DEF Answers, Ptr!Dist, Ptr!Ptrs
  <2>3. (Answers - 1) + 1 = Answers
    BY <1>2 DEF CountsFit
  <2>4. Answers > 0 => MidPrev = Slot(Answers - 1)
    BY <2>1, <2>2, <2>3 DEF MidPrev, Slot, Answers
  <2>5. QED
    BY <2>1, <2>4 DEF Slot, Answers, Asked
<1>5. ASSUME NEW p \in 0 .. Asked' - 1
      PROVE  fbuf'[Ptr!Nth(fhead', p + 1)] = NewEntry(p + b)
  <2> DEFINE q == p + b
             i == Slot(q)
  <2>1. /\ q \in 0 .. BufSize - 1 /\ q < (IF Redirected THEN Answers ELSE Asked + Request)
        /\ Ptr!Nth(fhead', p + 1) = i
    BY <1>2, <1>3 DEF PointersMoved, CountsFit
  <2>2. i \in Entries
    BY <2>1, <1>4
  <2>3. i \in Ptr!Live(fhead', ftail')
    <3>1. Ptr!Dist(fhead', fmid') + Ptr!Dist(fmid', ftail') = Ptr!Dist(fhead', ftail')
          /\ Ptr!Dist(fhead', ftail') <= BufSize
      BY <1>3 DEF PointersMoved, Answers, Asked
    <3>2. p \in 0 .. Ptr!Dist(fhead', ftail') - 1
      BY DEF Asked
    <3>3. Ptr!Nth(fhead', p + 1) \in Ptr!Live(fhead', ftail')
      BY <3>1, <3>2, <1>3, BufferPositions DEF PointersMoved
    <3>4. QED
      BY <3>3, <2>1
  <2>4. fbuf'[i] = Written(FALSE, i)
    BY <2>2, <2>3 DEF Buffer
  <2> HIDE DEF q, i
  <2>5. bp_req => Answers > 0
    BY DEF FetchInv, LatchesAreLast
  \* Only the position asked for next is at the tail.
  <2>6. i = Ptr!Idx(ftail) /\ q < Asked => ~IcReq(FALSE) /\ ~MisalignErr(FALSE)
    <3>1. SUFFICES ASSUME i = Ptr!Idx(ftail), q < Asked PROVE FbufFull
      BY DEF IcReq, MisalignErr
    <3>2. Asked = BufSize
      BY <3>1, <2>1, <1>2, <1>4 DEF CountsFit, i
    <3>3. QED
      BY <3>2, <1>1, BufferDistances DEF FbufFull, Asked
  <2>7. CASE q < Asked
    <3>1. Written(FALSE, i) =
            LET w == IF IcacheValid /\ i = Ptr!Idx(fmid) THEN Answered(fbuf[i]) ELSE fbuf[i]
            IN IF bp_req /\ i = MidPrev THEN Predicted(w) ELSE w
      BY <2>6, <2>7 DEF Written
    <3>2. bp_req /\ i = MidPrev <=> bp_req /\ q = Answers - 1
      <4>1. Answers > 0 => Answers - 1 \in 0 .. BufSize - 1
        BY <1>2 DEF CountsFit
      <4>2. QED
        BY <2>1, <2>5, <1>4, <4>1 DEF i
    <3>3. Answers \in Nat /\ Asked \in Nat /\ q \in Nat /\ Asked <= BufSize /\ BufSize \in Nat
      BY <1>2, <2>1 DEF CountsFit
    <3>4. IcacheValid /\ i = Ptr!Idx(fmid) <=> Answer = 1 /\ q = Answers
      <4>1. ASSUME IcacheValid PROVE Answers < Asked
        <5>1. ~jalr_halt /\ s1 # Nothing
          BY <4>1 DEF IcacheValid, FetchInv, StagesFollow
        <5>2. Asked - Answers = (IF s0 = Nothing THEN 0 ELSE 1) + 1
          BY <5>1 DEF FetchInv, StagesFollow
        <5>3. QED
          BY <5>2, <3>3
      <4>2. ASSUME IcacheValid PROVE i = Ptr!Idx(fmid) <=> q = Answers
        BY <4>1, <4>2, <1>4, <2>1, <3>3 DEF i
      <4>3. Redirected => q # Answers
        BY <2>1, <3>3
      <4>4. QED
        BY <4>2, <4>3 DEF Answer, Answering
    <3>5. NewEntry(q) = IF Answer = 1 /\ q = Answers THEN Answered(Entry(q))
                        ELSE IF bp_req /\ q = Answers - 1 THEN Predicted(Entry(q)) ELSE Entry(q)
      BY <2>7, <3>3 DEF NewEntry
    <3>6. Entry(q) = fbuf[i]
      BY DEF Entry, i
    <3>7. q = Answers => q # Answers - 1
      BY <3>3
    <3>8. Written(FALSE, i) = NewEntry(q)
      <4>1. CASE Answer = 1 /\ q = Answers
        BY <4>1, <3>1, <3>2, <3>4, <3>5, <3>6, <3>7
      <4>2. CASE ~(Answer = 1 /\ q = Answers) /\ bp_req /\ q = Answers - 1
        BY <4>2, <3>1, <3>2, <3>4, <3>5, <3>6
      <4>3. CASE ~(Answer = 1 /\ q = Answers) /\ ~(bp_req /\ q = Answers - 1)
        BY <4>3, <3>1, <3>2, <3>4, <3>5, <3>6
      <4>4. QED
        BY <4>1, <4>2, <4>3
    <3>9. QED
      BY <3>8, <2>1, <2>4 DEF q
  <2>8. CASE q = Asked
    <3>1. Request = 1 /\ Asked < BufSize /\ Answers \in Nat /\ Asked \in Nat /\ Answers <= Asked
      BY <2>1, <2>8, <1>2 DEF CountsFit
    <3>2. IcReq(FALSE) /\ i = Ptr!Idx(ftail)
      <4>1. Requesting
        BY <3>1 DEF Request
      <4>2. i = Ptr!Idx(ftail)
        BY <3>1, <2>8, <1>4 DEF i
      <4>3. QED
        BY <4>1, <4>2 DEF Requesting, Redirected, IcReq, IcFlush, SetPc
    <3>3. ~(IcacheValid /\ i = Ptr!Idx(fmid))
      <4>1. SUFFICES ASSUME IcacheValid PROVE i # Ptr!Idx(fmid)
        OBVIOUS
      <4>2. Answer = 1
        BY <4>1, <3>2 DEF Answer, Answering, IcReq, IcFlush, SetPc, Redirected
      <4>3. Answers < Asked
        BY <4>2, <1>2 DEF CountsFit
      <4>4. QED
        <5>1. Answers \in 0 .. BufSize - 1 /\ Answers # q /\ Answers < BufSize
          BY <4>3, <3>1, <2>8, <1>2 DEF CountsFit
        <5>2. QED
          BY <5>1, <2>1, <1>4 DEF i
    <3>4. ~(bp_req /\ i = MidPrev)
      <4>1. SUFFICES ASSUME bp_req PROVE i # MidPrev
        OBVIOUS
      <4>2. MidPrev = Slot(Answers - 1) /\ Answers > 0
        BY <4>1, <2>5, <1>4
      <4>3. Answers - 1 \in 0 .. BufSize - 1 /\ Answers - 1 # q
        BY <4>2, <3>1, <2>8, <1>2 DEF CountsFit
      <4>4. QED
        BY <4>2, <4>3, <2>1, <1>4 DEF i
    <3>5. Written(FALSE, i) = Requested(fbuf[Ptr!Idx(ftail)])
      BY <3>2, <3>3, <3>4 DEF Written
    <3>6. NewEntry(q) = Requested(fbuf[Ptr!Idx(ftail)])
      BY <2>8 DEF NewEntry
    <3>7. QED
      BY <3>5, <3>6, <2>1, <2>4 DEF q
  <2>9. QED
    BY <2>1, <2>7, <2>8, <1>2 DEF CountsFit
<1>6. QED
  BY <1>5 DEF EntriesMoved, b

\* The facts of an edge without a flush that take b entries from the head.
OrdinaryFacts(b) ==
  /\ CountsFit(b) /\ PointersMoved(b) /\ EntriesMoved(b)
  /\ Latches(FALSE) /\ Icache(FALSE) /\ Pc(FALSE, 0)
  /\ code' = code

\* Entries are typed, and the latest answer is the last of them.
LEMMA EntryFacts ==
  ASSUME FetchInv, NEW b, CountsFit(b)
  PROVE  /\ \A q \in 0 .. BufSize - 1 : Entry(q) \in EntryTypes
         /\ fbuf[Ptr!Idx(ftail)] \in EntryTypes
         /\ Answers > 0 => Last = Entry(Answers - 1)
         /\ \A w \in WordsOf : code[w] \in Insns
<1>1. /\ fhead \in Ptr!Ptrs /\ fmid \in Ptr!Ptrs /\ ftail \in Ptr!Ptrs
      /\ Ptr!Dist(fhead, fmid) + Ptr!Dist(fmid, ftail) = Ptr!Dist(fhead, ftail)
      /\ Ptr!Dist(fhead, ftail) <= BufSize
  BY DEF FetchInv, FetchTypeOK, RingInParts, Answers, Asked
<1>2. fbuf \in [Entries -> EntryTypes] /\ code \in Codes
  BY DEF FetchInv, FetchTypeOK
<1>3. \A q \in 0 .. BufSize - 1 : Entry(q) \in EntryTypes
  <2>1. \A q \in 0 .. BufSize - 1 : Slot(q) \in Entries
    BY <1>1, BufferPositions DEF Slot
  <2>2. QED
    BY <2>1, <1>2 DEF Entry
<1>4. fbuf[Ptr!Idx(ftail)] \in EntryTypes
  <2>1. Ptr!Idx(ftail) \in Entries
    BY <1>1, FetchAssumption DEF Ptr!Ptrs, Ptr!Idx, Entries
  <2>2. QED
    BY <2>1, <1>2
<1>5. ASSUME Answers > 0 PROVE Last = Entry(Answers - 1)
  <2>1. fhead # fmid
    BY <1>1, <1>5, FetchAssumption DEF Answers, Ptr!Dist, Ptr!Ptrs
  <2>2. (Answers - 1) + 1 = Answers
    BY DEF CountsFit
  <2>3. MidPrev = Slot(Answers - 1)
    BY <1>1, <2>1, <2>2, BufferPositions DEF MidPrev, Slot, Answers
  <2>4. QED
    BY <2>3 DEF Last, Entry
<1>6. \A w \in WordsOf : code[w] \in Insns
  BY <1>2, FetchAssumption
<1>7. QED
  BY <1>3, <1>4, <1>5, <1>6

\* The new entries, by what happened to them.
LEMMA NewEntries ==
  ASSUME FetchInv, NEW b, CountsFit(b)
  PROVE  /\ \A q \in 0 .. Asked - 1 : NewEntry(q).addr = Entry(q).addr
         /\ Request = 1 => /\ ~NewEntry(Asked).valid /\ NewEntry(Asked).addr = pc
                           /\ ~Misaligned(pc)
         /\ \A q \in 0 .. Answers - 1 :
              /\ NewEntry(q).insn = Entry(q).insn /\ NewEntry(q).valid /\ ~NewEntry(q).error
              /\ bp_req /\ q = Answers - 1 => /\ NewEntry(q).taken = pht_data
                                              /\ NewEntry(q).hist = rd_hist
              /\ ~(bp_req /\ q = Answers - 1) => NewEntry(q) = Entry(q)
         /\ Answer = 1 => /\ NewEntry(Answers).insn = s1 /\ ~NewEntry(Answers).error
                          /\ NewEntry(Answers).valid <=> ~Insn("br")
                          /\ s1 \in WordsOf /\ s1 = WordOf(Entry(Answers).addr)
         /\ \A q \in Answers + Answer .. Asked - 1 : NewEntry(q) = Entry(q)
<1>1. /\ Answers \in Nat /\ Asked \in Nat /\ BufSize \in Nat /\ Answer \in {0, 1}
      /\ Answers <= Asked /\ Asked <= BufSize /\ Answers + Answer <= Asked
  BY DEF CountsFit
<1>2. /\ \A q \in 0 .. Asked - 1 : Entry(q) \in EntryTypes
      /\ fbuf[Ptr!Idx(ftail)] \in EntryTypes
  <2>1. \A q \in 0 .. Asked - 1 : q \in 0 .. BufSize - 1
    BY <1>1
  <2>2. QED
    BY <2>1, EntryFacts
<1>3. \A q \in 0 .. Asked - 1 :
        NewEntry(q) = IF Answer = 1 /\ q = Answers THEN Answered(Entry(q))
                      ELSE IF bp_req /\ q = Answers - 1 THEN Predicted(Entry(q)) ELSE Entry(q)
  <2>1. \A q \in 0 .. Asked - 1 : q # Asked
    BY <1>1
  <2>2. QED
    BY <2>1 DEF NewEntry
<1>4. ASSUME NEW e \in EntryTypes
      PROVE  /\ Answered(e).addr = e.addr /\ Answered(e).insn = s1 /\ ~Answered(e).error
             /\ Answered(e).valid <=> e.valid \/ ~Insn("br")
             /\ Predicted(e).addr = e.addr /\ Predicted(e).insn = e.insn /\ Predicted(e).valid
             /\ Predicted(e).error = e.error
             /\ Predicted(e).taken = pht_data /\ Predicted(e).hist = rd_hist
             /\ ~Requested(e).valid /\ Requested(e).addr = pc
  BY DEF EntryTypes, Answered, Predicted, Requested
<1>5. ASSUME NEW q \in 0 .. Asked - 1 PROVE NewEntry(q).addr = Entry(q).addr
  BY <1>2, <1>3, <1>4
<1>6. ASSUME Request = 1
      PROVE  ~NewEntry(Asked).valid /\ NewEntry(Asked).addr = pc /\ ~Misaligned(pc)
  <2>1. NewEntry(Asked) = Requested(fbuf[Ptr!Idx(ftail)])
    BY DEF NewEntry
  <2>2. ~Misaligned(pc)
    BY <1>6 DEF Request, Requesting
  <2>3. QED
    BY <2>1, <2>2, <1>2, <1>4
<1>7. ASSUME NEW q \in 0 .. Answers - 1
      PROVE  /\ NewEntry(q).insn = Entry(q).insn /\ NewEntry(q).valid /\ ~NewEntry(q).error
             /\ bp_req /\ q = Answers - 1 => /\ NewEntry(q).taken = pht_data
                                             /\ NewEntry(q).hist = rd_hist
             /\ ~(bp_req /\ q = Answers - 1) => NewEntry(q) = Entry(q)
  <2>1. q \in 0 .. Asked - 1 /\ q # Answers
    BY <1>1
  <2>2. NewEntry(q) = IF bp_req /\ q = Answers - 1 THEN Predicted(Entry(q)) ELSE Entry(q)
    BY <2>1, <1>3
  <2>3. /\ Entry(q) \in EntryTypes /\ ~Entry(q).error
        /\ Entry(q).valid <=> ~(Open(q) /\ bp_req)
    BY <2>1, <1>2 DEF FetchInv, EntriesHoldWords
  <2>4. CASE bp_req /\ q = Answers - 1
    <3>1. NewEntry(q) = Predicted(Entry(q))
      BY <2>2, <2>4
    <3>2. QED
      BY <3>1, <2>3, <2>4, <1>4
  <2>5. CASE ~(bp_req /\ q = Answers - 1)
    BY <2>2, <2>3, <2>5 DEF Open
  <2>6. QED
    BY <2>4, <2>5
<1>8. ASSUME Answer = 1
      PROVE  /\ NewEntry(Answers).insn = s1 /\ ~NewEntry(Answers).error
             /\ NewEntry(Answers).valid <=> ~Insn("br")
             /\ s1 \in WordsOf /\ s1 = WordOf(Entry(Answers).addr)
  <2>1. Answers \in 0 .. Asked - 1
    BY <1>1, <1>8
  <2>2. NewEntry(Answers) = Answered(Entry(Answers))
    BY <2>1, <1>3, <1>8
  <2>3. ~Entry(Answers).valid
    <3>1. Answers \in Answers .. Asked - 1
      BY <2>1
    <3>2. QED
      BY <3>1 DEF FetchInv, EntriesHoldWords
  <2>4. s1 # Nothing
    BY <1>8 DEF Answer, Answering, IcacheValid
  <2>5. s1 \in WordsOf
    BY <2>4 DEF FetchInv, FetchTypeOK
  <2>6. s1 = WordOf(Entry(Answers).addr)
    BY <2>4 DEF FetchInv, StagesFollow
  <2>7. QED
    BY <2>1, <2>2, <2>3, <2>5, <2>6, <1>2, <1>4
<1>9. ASSUME NEW q \in Answers + Answer .. Asked - 1 PROVE NewEntry(q) = Entry(q)
  <2>1. q \in 0 .. Asked - 1 /\ q # Answers - 1 /\ ~(Answer = 1 /\ q = Answers)
    BY <1>1
  <2>2. QED
    BY <2>1, <1>3
<1>10. QED
  BY <1>5, <1>6, <1>7, <1>8, <1>9

\* What an edge without a flush makes of the entries and their latches.
LEMMA EntriesHold ==
  ASSUME FetchInv, NEW b, OrdinaryFacts(b)
  PROVE  EntriesHoldWords' /\ LatchesAreLast'
<1>1. /\ Answers \in Nat /\ Asked \in Nat /\ BufSize \in Nat /\ Answer \in {0, 1} /\ b \in {0, 1}
      /\ Request \in {0, 1} /\ b <= Answers
      /\ Answers <= Asked /\ Asked <= BufSize /\ Answers + Answer <= Asked
      /\ Asked + Request <= BufSize
      /\ Redirected => Answer = 0 /\ Request = 0
      /\ CountsFit(b)
  BY DEF OrdinaryFacts, CountsFit
<1>2. /\ Answers' = (Answers + Answer) - b
      /\ Asked' = (IF Redirected THEN Answers ELSE Asked + Request) - b
  BY <1>1 DEF OrdinaryFacts, PointersMoved
<1>3. \A p \in 0 .. Asked' - 1 : Entry(p)' = NewEntry(p + b)
  BY DEF OrdinaryFacts, EntriesMoved, Entry, Slot
<1>4. /\ bp_req' <=> Answer = 1 /\ Insn("br")
      /\ insn_jal' <=> Answer = 1 /\ Insn("jal")
  <2>1. SetPc(FALSE) <=> Redirected
    BY DEF SetPc, Redirected
  <2>2. bp_req' = (Insn("br") /\ ~SetPc(FALSE)) /\ insn_jal' = (Insn("jal") /\ ~SetPc(FALSE))
    BY DEF OrdinaryFacts, Latches
  <2>3. Answer = 1 <=> IcacheValid /\ ~Redirected
    BY DEF Answer, Answering
  <2>4. (Insn("br") => IcacheValid) /\ (Insn("jal") => IcacheValid)
    BY DEF Insn
  <2>5. QED
    BY <2>1, <2>2, <2>3, <2>4
<1>5. ASSUME NEW p \in 0 .. Answers' - 1
      PROVE  /\ Entry(p)'.insn = WordOf(Entry(p)'.addr) /\ ~Entry(p)'.error
             /\ Entry(p)'.valid <=> ~(p = Answers' - 1 /\ bp_req')
  <2> DEFINE q == p + b
  <2>1. q \in 0 .. Asked - 1 /\ p \in 0 .. Asked' - 1 /\ q < Answers + Answer
    BY <1>1, <1>2
  <2>2. Entry(p)' = NewEntry(q) /\ NewEntry(q).addr = Entry(q).addr
    BY <2>1, <1>1, <1>3, NewEntries
  <2>3. p = Answers' - 1 <=> q = (Answers + Answer) - 1
    BY <1>1, <1>2
  <2> HIDE DEF q
  <2>4. CASE q < Answers
    <3>1. q \in 0 .. Answers - 1
      BY <2>1, <2>4, <1>1
    <3>2. NewEntry(q).insn = Entry(q).insn /\ NewEntry(q).valid /\ ~NewEntry(q).error
      BY <3>1, <1>1, NewEntries
    <3>3. Entry(q).insn = WordOf(Entry(q).addr)
      BY <3>1 DEF FetchInv, EntriesHoldWords
    <3>4. q = (Answers + Answer) - 1 => Answer = 0
      BY <2>1, <2>4, <1>1
    <3>5. QED
      BY <3>2, <3>3, <3>4, <2>2, <2>3, <1>4
  <2>5. CASE q = Answers
    <3>1. Answer = 1
      BY <2>1, <2>5, <1>1
    <3>2. /\ NewEntry(q).insn = WordOf(Entry(q).addr) /\ ~NewEntry(q).error
          /\ NewEntry(q).valid <=> ~Insn("br")
      BY <3>1, <2>5, <1>1, NewEntries
    <3>3. q = (Answers + Answer) - 1
      BY <3>1, <2>5, <1>1
    <3>4. QED
      BY <3>1, <3>2, <3>3, <2>2, <2>3, <1>4
  <2>6. QED
    BY <2>1, <2>4, <2>5, <1>1
<1>6. ASSUME NEW p \in Answers' .. Asked' - 1
      PROVE  ~Entry(p)'.valid /\ ~Misaligned(Entry(p)'.addr)
  <2> DEFINE q == p + b
  <2>1. ~Redirected /\ q \in Answers + Answer .. (Asked + Request) - 1 /\ p \in 0 .. Asked' - 1
    BY <1>1, <1>2
  <2>2. Entry(p)' = NewEntry(q)
    BY <2>1, <1>3
  <2> HIDE DEF q
  <2>3. CASE q = Asked
    <3>1. Request = 1
      BY <2>1, <2>3, <1>1
    <3>2. QED
      BY <3>1, <2>2, <2>3, <1>1, NewEntries
  <2>4. CASE q < Asked
    <3>1. q \in Answers + Answer .. Asked - 1 /\ q \in Answers .. Asked - 1 /\ q \in 0 .. Asked - 1
      BY <2>1, <2>4, <1>1
    <3>2. NewEntry(q) = Entry(q)
      BY <3>1, <1>1, NewEntries
    <3>3. QED
      BY <3>1, <3>2, <2>2 DEF FetchInv, EntriesHoldWords
  <2>5. QED
    BY <2>1, <2>3, <2>4, <1>1
<1>7. ASSUME NEW p \in 0 .. Answers' - 1 PROVE ~Misaligned(Entry(p)'.addr)
  <2>1. p + b \in 0 .. Asked - 1 /\ p \in 0 .. Asked' - 1
    BY <1>1, <1>2
  <2>2. Entry(p)'.addr = Entry(p + b).addr
    BY <2>1, <1>1, <1>3, NewEntries
  <2>3. ~Misaligned(Entry(p + b).addr)
    BY <2>1 DEF FetchInv, EntriesHoldWords
  <2>4. QED
    BY <2>2, <2>3
<1>8. EntriesHoldWords'
  <2>1. \A p \in 0 .. Asked' - 1 : p \in 0 .. Answers' - 1 \/ p \in Answers' .. Asked' - 1
    BY <1>1, <1>2
  <2>2. \A p \in 0 .. Asked' - 1 : ~Misaligned(Entry(p)'.addr)
    BY <2>1, <1>6, <1>7
  <2>3. QED
    BY <2>2, <1>5, <1>6 DEF EntriesHoldWords, Open
<1>9. LatchesAreLast'
  <2>1. SUFFICES ASSUME Answer = 1
                 PROVE  Answers' > 0 /\ code'[Last'.insn] = code[s1]
    BY <2>1, <1>4 DEF LatchesAreLast, Insn
  <2>2. Answers' > 0 /\ Answers' - 1 \in 0 .. Asked' - 1 /\ (Answers' - 1) + b = Answers
    BY <2>1, <1>1, <1>2
  <2>3. Entry(Answers - 1)' = NewEntry(Answers)
    <3>1. Ptr!Nth(fhead', (Answers' - 1) + 1) = Slot((Answers' - 1) + b)
      BY <2>2 DEF OrdinaryFacts, PointersMoved
    <3>2. fbuf'[Ptr!Nth(fhead', (Answers' - 1) + 1)] = NewEntry((Answers' - 1) + b)
      BY <2>2 DEF OrdinaryFacts, EntriesMoved
    <3>3. QED
      BY <3>2, <2>2 DEF Entry, Slot
  <2>4. Last' = Entry(Answers - 1)'
    <3>1. /\ fhead' \in Ptr!Ptrs /\ fmid' \in Ptr!Ptrs /\ ftail' \in Ptr!Ptrs
          /\ Ptr!Dist(fhead', fmid') + Ptr!Dist(fmid', ftail') = Ptr!Dist(fhead', ftail')
          /\ Ptr!Dist(fhead', ftail') <= BufSize
      BY DEF OrdinaryFacts, PointersMoved, Answers, Asked
    <3>2. fhead' # fmid'
      <4>1. Ptr!Dist(fhead', fmid') # 0
        BY <2>2 DEF Answers
      <4>2. fhead' \in Ptr!Ptrs
        BY <3>1
      <4>3. \A h \in Ptr!Ptrs : Ptr!Dist(h, h) = 0
        BY FetchAssumption DEF Ptr!Dist, Ptr!Ptrs
      <4>4. QED
        BY <4>1, <4>2, <4>3
    <3>3. (Answers' - 1) + 1 = Answers'
      BY <1>1, <1>2
    <3>4. MidPrev' = Slot(Answers - 1)'
      BY <3>1, <3>2, <3>3, BufferPositions DEF MidPrev, Slot, Answers
    <3>5. QED
      BY <3>4 DEF Last, Entry
  <2>5. NewEntry(Answers).insn = s1
    BY <2>1, <1>1, NewEntries
  <2>6. QED
    BY <2>2, <2>3, <2>4, <2>5 DEF OrdinaryFacts
<1>10. QED
  BY <1>8, <1>9

\* What an edge without a flush makes of the cache's stages.
LEMMA StagesMove ==
  ASSUME FetchInv, NEW b, OrdinaryFacts(b)
  PROVE  StagesFollow'
<1>1. /\ Answers \in Nat /\ Asked \in Nat /\ BufSize \in Nat /\ Answer \in {0, 1} /\ b \in {0, 1}
      /\ Request \in {0, 1} /\ b <= Answers
      /\ Answers <= Asked /\ Asked <= BufSize /\ Answers + Answer <= Asked
      /\ Asked + Request <= BufSize
      /\ Redirected => Answer = 0 /\ Request = 0
      /\ CountsFit(b)
  BY DEF OrdinaryFacts, CountsFit
<1>2. /\ Answers' = (Answers + Answer) - b
      /\ Asked' = (IF Redirected THEN Answers ELSE Asked + Request) - b
  BY <1>1 DEF OrdinaryFacts, PointersMoved
<1>3. \A p \in 0 .. Asked' - 1 : Entry(p)' = NewEntry(p + b)
  BY DEF OrdinaryFacts, EntriesMoved, Entry, Slot
<1>4. /\ SetPc(FALSE) <=> Redirected
      /\ IcReq(FALSE) <=> Requesting
      /\ IcFlush(FALSE) <=> Redirected \/ Insn("jalr")
  BY DEF SetPc, Redirected, IcReq, Requesting, IcFlush
<1>5. /\ bp_req' = (Insn("br") /\ ~Redirected) /\ insn_jal' = (Insn("jal") /\ ~Redirected)
      /\ jalr_halt' = ((jalr_halt \/ Insn("jalr")) /\ ~Redirected)
  BY <1>4 DEF OrdinaryFacts, Latches
<1>6. /\ s0' = (IF Requesting THEN WordOf(pc) ELSE Nothing)
      /\ s1' = (IF Redirected \/ Insn("jalr") THEN Nothing ELSE s0)
  BY <1>4 DEF OrdinaryFacts, Icache
<1>7. CASE jalr_halt'
  <2>1. (jalr_halt \/ Insn("jalr")) /\ ~Redirected
    BY <1>5, <1>7
  <2>2. s0' = Nothing
    BY <2>1, <1>6 DEF Requesting
  <2>3. jalr_halt => s0 = Nothing /\ s1 = Nothing
    BY DEF FetchInv, StagesFollow
  <2>4. s1' = Nothing
    BY <2>1, <2>3, <1>6
  <2>5. ~Insn("br") /\ ~Insn("jal")
    BY <2>1, <2>3 DEF Insn, IcacheValid
  <2>6. QED
    BY <2>2, <2>4, <2>5, <1>5, <1>7 DEF StagesFollow
<1>8. CASE ~jalr_halt' /\ Redirected
  <2>1. s0' = Nothing /\ s1' = Nothing
    BY <1>6, <1>8 DEF Requesting
  <2>2. Asked' - Answers' = 0
    BY <1>1, <1>2, <1>8
  <2>3. QED
    BY <2>1, <2>2, <1>8 DEF StagesFollow
<1>9. CASE ~jalr_halt' /\ ~Redirected
  <2>1. ~jalr_halt /\ ~Insn("jalr")
    BY <1>5, <1>9
  <2>2. /\ Asked - Answers = (IF s0 = Nothing THEN 0 ELSE 1) + (IF s1 = Nothing THEN 0 ELSE 1)
        /\ s0 # Nothing => s0 = WordOf(Entry(Asked - 1).addr)
    BY <2>1 DEF FetchInv, StagesFollow
  <2>3. Answer = (IF s1 = Nothing THEN 0 ELSE 1) /\ s1' = s0
    BY <2>1, <1>6, <1>9 DEF Answer, Answering, IcacheValid
  <2>4. Asked - (Answers + Answer) = (IF s1' = Nothing THEN 0 ELSE 1)
    BY <2>2, <2>3, <1>1
  <2>5. Request = (IF s0' = Nothing THEN 0 ELSE 1)
    <3>1. Requesting => s0' # Nothing
      <4>1. WordOf(pc) \in Nat
        BY PcTypes, FetchAssumption DEF FetchInv, FetchTypeOK, WordsOf
      <4>2. QED
        BY <4>1, <1>6 DEF Nothing
    <3>2. QED
      BY <3>1, <1>6 DEF Request
  <2>6. Asked' - Answers' = (IF s0' = Nothing THEN 0 ELSE 1) + (IF s1' = Nothing THEN 0 ELSE 1)
    <3>1. Asked' - Answers' = Request + (Asked - (Answers + Answer))
      BY <1>1, <1>2, <1>9
    <3>2. QED
      BY <3>1, <2>4, <2>5
  <2>7. ASSUME s1' # Nothing PROVE s1' = WordOf(Entry(Answers)'.addr)
    <3>1. Asked - 1 = Answers + Answer /\ Answers' \in 0 .. Asked' - 1 /\ Answers' + b = Asked - 1
      BY <2>4, <2>7, <1>1, <1>2, <1>9
    <3>2. Entry(Answers)' = NewEntry(Asked - 1)
      <4>1. fbuf'[Ptr!Nth(fhead', Answers' + 1)] = NewEntry(Answers' + b)
        BY <3>1 DEF OrdinaryFacts, EntriesMoved
      <4>2. QED
        BY <3>1, <4>1 DEF Entry, Slot
    <3>3. NewEntry(Asked - 1).addr = Entry(Asked - 1).addr
      <4>1. Asked - 1 \in 0 .. Asked - 1
        BY <3>1, <1>1
      <4>2. QED
        BY <4>1, <1>1, NewEntries
    <3>4. QED
      BY <3>2, <3>3, <2>2, <2>3, <2>7
  <2>8. ASSUME s0' # Nothing PROVE s0' = WordOf(Entry(Asked - 1)'.addr)
    <3>1. Request = 1 /\ s0' = WordOf(pc)
      BY <2>5, <2>8, <1>6 DEF Request
    <3>2. Asked' - 1 \in 0 .. Asked' - 1 /\ (Asked' - 1) + b = Asked
      BY <3>1, <1>1, <1>2, <1>9
    <3>3. Entry(Asked - 1)' = NewEntry(Asked)
      <4>1. fbuf'[Ptr!Nth(fhead', (Asked' - 1) + 1)] = NewEntry((Asked' - 1) + b)
        BY <3>2 DEF OrdinaryFacts, EntriesMoved
      <4>2. QED
        BY <3>2, <4>1 DEF Entry, Slot
    <3>4. QED
      BY <3>1, <3>3, <1>1, NewEntries
  <2>9. QED
    BY <2>6, <2>7, <2>8, <1>9 DEF StagesFollow
<1>10. QED
  BY <1>7, <1>8, <1>9

\* What follows an entry after the edge, at its old position, and what is expected there.
FollowedNew(q) ==
  IF q < Answers + Answer /\ ~(q = (Answers + Answer) - 1 /\ (bp_req' \/ insn_jal'))
  THEN Successor(NewEntry(q)) ELSE After(NewEntry(q).addr, 2)
ExpectedNew(q) == IF q = 0 THEN next ELSE FollowedNew(q - 1)

\* The edge makes a difference only to what follows the latest answer.
LEMMA FollowersStay ==
  ASSUME FetchInv, NEW b, OrdinaryFacts(b)
  PROVE  /\ \A q \in 0 .. Answers - 1 :
              ~Redirected \/ q < Answers - 1 => FollowedNew(q) = FollowedBy(q)
         /\ Redirected => Answers > 0 /\ FollowedNew(Answers - 1) = Target
         /\ ~Redirected /\ ~Insn("jalr") =>
              \A q \in Answers .. Asked - 1 : FollowedNew(q) = FollowedBy(q)
         /\ Insn("jalr") /\ ~Redirected => FollowedNew(Answers) = Nothing
         /\ Request = 1 => FollowedNew(Asked) = After(pc, 2)
<1>1. /\ Answers \in Nat /\ Asked \in Nat /\ BufSize \in Nat /\ Answer \in {0, 1}
      /\ Request \in {0, 1}
      /\ Answers <= Asked /\ Asked <= BufSize /\ Answers + Answer <= Asked
      /\ Redirected => Answer = 0 /\ Request = 0
      /\ CountsFit(b)
  BY DEF OrdinaryFacts, CountsFit
<1>2. /\ bp_req' <=> Insn("br") /\ ~Redirected
      /\ insn_jal' <=> Insn("jal") /\ ~Redirected
  <2>1. SetPc(FALSE) <=> Redirected
    BY DEF SetPc, Redirected
  <2>2. QED
    BY <2>1 DEF OrdinaryFacts, Latches
<1>3. Answer = 1 <=> IcacheValid /\ ~Redirected
  BY DEF Answer, Answering
<1>4. bp_req' \/ insn_jal' => Answer = 1
  BY <1>2, <1>3 DEF Insn
<1>5. /\ bp_req => Answers > 0 /\ ~insn_jal /\ code[Entry(Answers - 1).insn].kind = "br"
      /\ insn_jal => Answers > 0 /\ code[Entry(Answers - 1).insn].kind = "jal"
  BY <1>1, EntryFacts DEF FetchInv, LatchesAreLast
<1>6. ASSUME NEW q \in 0 .. Answers - 1
      PROVE  FollowedNew(q) = Successor(NewEntry(q))
  <2>1. q = (Answers + Answer) - 1 => Answer = 0
    BY <1>1
  <2>2. q < Answers + Answer
    BY <1>1
  <2>3. QED
    BY <2>1, <2>2, <1>4 DEF FollowedNew
<1>7. ASSUME NEW q \in 0 .. Answers - 1, ~Redirected \/ q < Answers - 1
      PROVE  FollowedNew(q) = FollowedBy(q)
  <2>1. CASE Open(q)
    <3>1. q = Answers - 1 /\ ~Redirected /\ (bp_req \/ insn_jal)
      BY <2>1, <1>1, <1>7 DEF Open
    <3>2. bp_req /\ ~pht_data
      BY <3>1 DEF Redirected, BrTaken
    <3>3. /\ NewEntry(q).insn = Entry(q).insn /\ NewEntry(q).taken = pht_data
          /\ NewEntry(q).addr = Entry(q).addr
      <4>1. q \in 0 .. Asked - 1
        BY <1>1
      <4>2. QED
        BY <4>1, <3>1, <3>2, <1>1, NewEntries
    <3>4. code[NewEntry(q).insn].kind = "br"
      BY <3>1, <3>2, <3>3, <1>5
    <3>5. Successor(NewEntry(q)) = After(Entry(q).addr, 2)
      BY <3>2, <3>3, <3>4 DEF Successor
    <3>6. FollowedBy(q) = After(Entry(q).addr, 2)
      BY <2>1 DEF FollowedBy
    <3>7. QED
      BY <3>5, <3>6, <1>6
  <2>2. CASE ~Open(q)
    <3>1. NewEntry(q) = Entry(q)
      <4>1. ~(bp_req /\ q = Answers - 1)
        BY <2>2 DEF Open
      <4>2. QED
        BY <4>1, <1>1, NewEntries
    <3>2. FollowedBy(q) = Successor(Entry(q))
      BY <2>2, <1>1 DEF FollowedBy
    <3>3. QED
      BY <3>1, <3>2, <1>6
  <2>3. QED
    BY <2>1, <2>2
<1>8. ASSUME Redirected PROVE Answers > 0 /\ FollowedNew(Answers - 1) = Target
  <2>1. Answers > 0 /\ ((bp_req /\ pht_data) \/ insn_jal)
    BY <1>5, <1>8 DEF Redirected, BrTaken
  <2>2. Answers - 1 \in 0 .. Answers - 1
    BY <2>1, <1>1
  <2>3. NewEntry(Answers - 1).insn = Entry(Answers - 1).insn
    BY <2>2, <1>1, NewEntries
  <2>4. bp_req => NewEntry(Answers - 1).taken = pht_data
    BY <2>2, <1>1, NewEntries
  <2>5. Target = code[Entry(Answers - 1).insn].target
    BY <2>1, <1>1, EntryFacts DEF Target
  <2>6. Successor(NewEntry(Answers - 1)) = Target
    <3>1. CASE insn_jal
      BY <3>1, <2>3, <2>5, <1>5 DEF Successor
    <3>2. CASE bp_req /\ pht_data
      BY <3>2, <2>3, <2>4, <2>5, <1>5 DEF Successor
    <3>3. QED
      BY <3>1, <3>2, <2>1
  <2>7. QED
    BY <2>1, <2>2, <2>6, <1>6
<1>9. ASSUME ~Redirected, ~Insn("jalr"), NEW q \in Answers .. Asked - 1
      PROVE  FollowedNew(q) = FollowedBy(q)
  <2>1. FollowedBy(q) = After(Entry(q).addr, 2)
    BY <1>1 DEF FollowedBy
  <2>2. NewEntry(q).addr = Entry(q).addr
    <3>1. q \in 0 .. Asked - 1
      BY <1>1
    <3>2. QED
      BY <3>1, <1>1, NewEntries
  <2>3. CASE q = Answers /\ Answer = 1
    <3>1. NewEntry(q).insn = s1 /\ s1 \in WordsOf /\ q = (Answers + Answer) - 1
      BY <2>3, <1>1, NewEntries
    <3>2. CASE Insn("br") \/ Insn("jal")
      BY <3>1, <3>2, <2>1, <2>2, <1>2, <1>9 DEF FollowedNew
    <3>3. CASE ~(Insn("br") \/ Insn("jal"))
      <4>1. code[s1].kind \notin {"br", "jal", "jalr"}
        BY <2>3, <3>3, <1>3, <1>9 DEF Insn
      <4>2. Successor(NewEntry(q)) = After(NewEntry(q).addr, 2)
        BY <4>1, <3>1 DEF Successor
      <4>3. QED
        BY <4>2, <2>1, <2>2 DEF FollowedNew
    <3>4. QED
      BY <3>2, <3>3
  <2>4. CASE ~(q = Answers /\ Answer = 1)
    <3>1. ~(q < Answers + Answer)
      BY <2>4, <1>1
    <3>2. QED
      BY <3>1, <2>1, <2>2 DEF FollowedNew
  <2>5. QED
    BY <2>3, <2>4
<1>10. ASSUME Insn("jalr"), ~Redirected PROVE FollowedNew(Answers) = Nothing
  <2>1. Answer = 1 /\ ~Insn("br") /\ ~Insn("jal")
    BY <1>3, <1>10 DEF Insn
  <2>2. NewEntry(Answers).insn = s1
    BY <2>1, <1>1, NewEntries
  <2>3. Successor(NewEntry(Answers)) = Nothing
    BY <2>2, <1>10 DEF Insn, Successor
  <2>4. Answers < Answers + Answer
    BY <2>1, <1>1
  <2>5. QED
    BY <2>1, <2>3, <2>4, <1>2 DEF FollowedNew
<1>11. ASSUME Request = 1 PROVE FollowedNew(Asked) = After(pc, 2)
  <2>1. ~(Asked < Answers + Answer)
    BY <1>1
  <2>2. NewEntry(Asked).addr = pc
    BY <1>1, <1>11, NewEntries
  <2>3. QED
    BY <2>1, <2>2 DEF FollowedNew
<1>12. QED
  BY <1>7, <1>8, <1>9, <1>10, <1>11

\* What an edge without a flush makes of the path.
LEMMA PathGoesOn ==
  ASSUME FetchInv, NEW stall \in BOOLEAN, OrdinaryFacts(Taken(stall)),
         next' = IF Offered /\ ~stall THEN Successor(HeadEntry) ELSE next
  PROVE  PathIsFollowed'
<1> DEFINE b == Taken(stall)
<1> HIDE DEF b
<1>1. /\ Answers \in Nat /\ Asked \in Nat /\ BufSize \in Nat /\ Answer \in {0, 1} /\ b \in {0, 1}
      /\ Request \in {0, 1} /\ b <= Answers
      /\ Answers <= Asked /\ Asked <= BufSize /\ Answers + Answer <= Asked
      /\ Asked + Request <= BufSize
      /\ Redirected => Answer = 0 /\ Request = 0
      /\ CountsFit(b)
  BY DEF OrdinaryFacts, CountsFit, b
<1>2. /\ Answers' = (Answers + Answer) - b
      /\ Asked' = (IF Redirected THEN Answers ELSE Asked + Request) - b
  BY <1>1 DEF OrdinaryFacts, PointersMoved, b
<1>3. \A p \in 0 .. Asked' - 1 : Entry(p)' = NewEntry(p + b)
  BY DEF OrdinaryFacts, EntriesMoved, Entry, Slot, b
<1>4. /\ jalr_halt' = ((jalr_halt \/ Insn("jalr")) /\ ~Redirected)
      /\ Answer = 1 <=> IcacheValid /\ ~Redirected
      /\ pc' = (IF Redirected THEN Target ELSE IF Requesting THEN After(pc, 2) ELSE pc)
      /\ jalr_halt => s1 = Nothing /\ ~bp_req /\ ~insn_jal
  <2>1. /\ SetPc(FALSE) <=> Redirected
        /\ IcReq(FALSE) <=> Requesting
    BY DEF SetPc, Redirected, IcReq, Requesting, IcFlush
  <2>2. jalr_halt' = ((jalr_halt \/ Insn("jalr")) /\ ~Redirected)
    BY <2>1 DEF OrdinaryFacts, Latches
  <2>3. pc' = (IF Redirected THEN Target ELSE IF Requesting THEN After(pc, 2) ELSE pc)
    BY <2>1 DEF OrdinaryFacts, Pc, Redirected
  <2>4. QED
    BY <2>2, <2>3 DEF Answer, Answering, FetchInv, StagesFollow
<1>5. OrdinaryFacts(b)
  BY DEF b
\* The old path, and the new one at its old positions.
<1>6. /\ \A q \in 0 .. Answers - 1 : Entry(q).addr = ExpectedPc(q)
      /\ jalr_halt  => ExpectedPc(Answers) = Nothing
      /\ ~jalr_halt => /\ \A q \in Answers .. Asked - 1 : Entry(q).addr = ExpectedPc(q)
                       /\ pc = ExpectedPc(Asked)
  BY DEF FetchInv, PathIsFollowed
<1>7. ASSUME NEW q \in 0 .. Answers, ~Redirected \/ q < Answers
      PROVE  ExpectedNew(q) = ExpectedPc(q)
  <2>1. CASE q = 0
    BY <2>1 DEF ExpectedNew, ExpectedPc
  <2>2. CASE q # 0
    <3>1. q - 1 \in 0 .. Answers - 1 /\ (~Redirected \/ q - 1 < Answers - 1)
      BY <2>2, <1>1, <1>7
    <3>2. FollowedNew(q - 1) = FollowedBy(q - 1)
      BY <3>1, <1>5, FollowersStay
    <3>3. QED
      BY <2>2, <3>2 DEF ExpectedNew, ExpectedPc
  <2>3. QED
    BY <2>1, <2>2
<1>8. ASSUME ~Redirected, ~Insn("jalr"), NEW q \in 0 .. Asked
      PROVE  ExpectedNew(q) = ExpectedPc(q)
  <2>1. CASE q \in 0 .. Answers
    BY <2>1, <1>7, <1>8
  <2>2. CASE q > Answers
    <3>1. q - 1 \in Answers .. Asked - 1 /\ q # 0
      BY <2>2, <1>1
    <3>2. FollowedNew(q - 1) = FollowedBy(q - 1)
      BY <3>1, <1>5, <1>8, FollowersStay
    <3>3. QED
      BY <3>1, <3>2 DEF ExpectedNew, ExpectedPc
  <2>3. QED
    BY <2>1, <2>2, <1>1
<1>9. ASSUME NEW q \in 0 .. Asked - 1 PROVE NewEntry(q).addr = Entry(q).addr
  BY <1>1, NewEntries
\* The new path at its new positions: an entry taken is what next has passed.
<1>10. ASSUME NEW p \in 0 .. Asked' PROVE ExpectedPc(p)' = ExpectedNew(p + b)
  <2>1. CASE p = 0
    <3>1. ExpectedPc(p)' = next'
      BY <2>1 DEF ExpectedPc
    <3>2. CASE b = 0
      <4>1. ~(Offered /\ ~stall)
        BY <3>2 DEF b, Taken
      <4>2. QED
        BY <2>1, <3>1, <3>2, <4>1 DEF ExpectedNew
    <3>3. CASE b = 1
      <4>1. Offered /\ ~stall
        BY <3>3 DEF b, Taken
      <4>2. HeadEntry = Entry(0) /\ Entry(0).valid
        BY <3>3, EdgeCounts DEF b
      <4>3. 0 \in 0 .. Answers - 1 /\ p + b = 1
        BY <2>1, <3>3, <1>1
      <4>4. ~(Open(0) /\ bp_req)
        BY <4>2, <4>3 DEF FetchInv, EntriesHoldWords
      <4>5. ~(bp_req /\ 0 = Answers - 1)
        BY <4>4 DEF Open
      <4>6. NewEntry(0) = Entry(0)
        BY <4>3, <4>5, <1>1, NewEntries
      <4>7. 0 = (Answers + Answer) - 1 => ~(bp_req' \/ insn_jal')
        <5>1. 0 = (Answers + Answer) - 1 => Answer = 0
          BY <4>3, <1>1
        <5>2. bp_req' \/ insn_jal' => Insn("br") \/ Insn("jal")
          BY DEF OrdinaryFacts, Latches
        <5>3. bp_req' \/ insn_jal' => ~Redirected
          BY DEF OrdinaryFacts, Latches, SetPc, Redirected
        <5>4. QED
          BY <5>1, <5>2, <5>3, <1>4 DEF Insn
      <4>8. FollowedNew(0) = Successor(Entry(0))
        BY <4>3, <4>6, <4>7, <1>1 DEF FollowedNew
      <4>9. ExpectedNew(1) = FollowedNew(0)
        BY DEF ExpectedNew
      <4>10. QED
        BY <3>1, <4>1, <4>2, <4>3, <4>8, <4>9
    <3>4. QED
      BY <3>2, <3>3, <1>1
  <2>2. CASE p # 0
    <3>1. p - 1 \in 0 .. Asked' - 1 /\ (p - 1) + b = (p + b) - 1 /\ p + b # 0
      BY <2>2, <1>1, <1>2
    <3>2. Entry(p - 1)' = NewEntry((p + b) - 1)
      BY <3>1, <1>3
    <3>3. /\ p - 1 < Answers' <=> (p + b) - 1 < Answers + Answer
          /\ p - 1 = Answers' - 1 <=> (p + b) - 1 = (Answers + Answer) - 1
      BY <1>1, <1>2
    <3>4. FollowedBy(p - 1)' = FollowedNew((p + b) - 1)
      <4>1. Successor(Entry(p - 1))' = Successor(NewEntry((p + b) - 1))
        BY <3>2 DEF Successor, OrdinaryFacts
      <4>2. FollowedBy(p - 1)' =
              IF p - 1 < Answers' /\ ~(p - 1 = Answers' - 1 /\ (bp_req' \/ insn_jal'))
              THEN Successor(Entry(p - 1))' ELSE After(Entry(p - 1)'.addr, 2)
        BY DEF FollowedBy, Open, After
      <4>3. QED
        BY <3>2, <3>3, <4>1, <4>2 DEF FollowedNew
    <3>5. QED
      BY <2>2, <3>1, <3>4 DEF ExpectedPc, ExpectedNew
  <2>3. QED
    BY <2>1, <2>2
<1>11. ASSUME NEW p \in 0 .. Answers' - 1 PROVE Entry(p)'.addr = ExpectedPc(p)'
  <2> DEFINE q == p + b
  <2>1. /\ q \in 0 .. Asked - 1 /\ p \in 0 .. Asked' - 1 /\ p \in 0 .. Asked'
        /\ q < Answers + Answer /\ q \in 0 .. Answers
    BY <1>1, <1>2
  <2>2. Entry(p)'.addr = Entry(q).addr /\ ExpectedPc(p)' = ExpectedNew(q)
    BY <2>1, <1>3, <1>9, <1>10
  <2> HIDE DEF q
  <2>3. CASE q < Answers
    <3>1. q \in 0 .. Answers - 1
      BY <2>1, <2>3, <1>1
    <3>2. QED
      BY <2>1, <2>2, <2>3, <3>1, <1>6, <1>7
  <2>4. CASE q = Answers
    <3>1. Answer = 1 /\ ~Redirected /\ ~jalr_halt
      BY <2>1, <2>4, <1>1, <1>4 DEF IcacheValid
    <3>2. q \in Answers .. Asked - 1
      BY <2>1, <2>4, <1>1
    <3>3. QED
      BY <2>1, <2>2, <3>1, <3>2, <1>6, <1>7
  <2>5. QED
    BY <2>1, <2>3, <2>4, <1>1
<1>12. ASSUME jalr_halt' PROVE ExpectedPc(Answers)' = Nothing
  <2>1. (jalr_halt \/ Insn("jalr")) /\ ~Redirected
    BY <1>4, <1>12
  <2>2. Answers' \in 0 .. Asked' /\ Answers' + b = Answers + Answer
    BY <2>1, <1>1, <1>2
  <2>3. ExpectedPc(Answers)' = ExpectedNew(Answers + Answer)
    BY <2>2, <1>10 DEF ExpectedPc, FollowedBy, Open, Entry, Slot
  <2>4. CASE jalr_halt
    <3>1. Answer = 0 /\ Answers \in 0 .. Answers
      BY <2>4, <1>1, <1>4 DEF IcacheValid
    <3>2. Answers + Answer = Answers
      BY <3>1
    <3>3. QED
      BY <2>1, <2>3, <2>4, <3>1, <3>2, <1>6, <1>7
  <2>5. CASE ~jalr_halt
    <3>1. Insn("jalr") /\ Answer = 1
      BY <2>1, <2>5, <1>4 DEF Insn
    <3>2. Answers + Answer # 0 /\ (Answers + Answer) - 1 = Answers
      BY <3>1, <1>1
    <3>3. FollowedNew(Answers) = Nothing
      BY <2>1, <3>1, <1>5, FollowersStay
    <3>4. QED
      BY <2>3, <3>2, <3>3 DEF ExpectedNew
  <2>6. QED
    BY <2>4, <2>5
<1>13. ASSUME ~jalr_halt', NEW p \in Answers' .. Asked' - 1 PROVE Entry(p)'.addr = ExpectedPc(p)'
  <2> DEFINE q == p + b
  <2>1. ~Redirected /\ ~jalr_halt /\ ~Insn("jalr")
    <3>1. ~Redirected
      BY <1>1, <1>2
    <3>2. QED
      BY <3>1, <1>4, <1>13
  <2>2. /\ q \in Answers + Answer .. (Asked + Request) - 1 /\ p \in 0 .. Asked' - 1
        /\ p \in 0 .. Asked' /\ q \in 0 .. Asked
    BY <2>1, <1>1, <1>2
  <2>3. Entry(p)' = NewEntry(q) /\ ExpectedPc(p)' = ExpectedNew(q)
    BY <2>2, <1>3, <1>10
  <2>4. ExpectedNew(q) = ExpectedPc(q)
    BY <2>1, <2>2, <1>8
  <2> HIDE DEF q
  <2>5. CASE q = Asked
    <3>1. Request = 1
      BY <2>2, <2>5, <1>1
    <3>2. NewEntry(q).addr = pc
      BY <2>5, <3>1, <1>1, NewEntries
    <3>3. QED
      BY <2>1, <2>3, <2>4, <2>5, <3>2, <1>6
  <2>6. CASE q < Asked
    <3>1. q \in Answers .. Asked - 1 /\ q \in 0 .. Asked - 1
      BY <2>2, <2>6, <1>1
    <3>2. QED
      BY <2>1, <2>3, <2>4, <3>1, <1>6, <1>9
  <2>7. QED
    BY <2>2, <2>5, <2>6, <1>1
<1>14. ASSUME ~jalr_halt' PROVE pc' = ExpectedPc(Asked)'
  <2>1. Asked' \in 0 .. Asked' /\ Asked' + b = IF Redirected THEN Answers ELSE Asked + Request
    BY <1>1, <1>2
  <2>2. ExpectedPc(Asked)' = ExpectedNew(IF Redirected THEN Answers ELSE Asked + Request)
    BY <2>1, <1>10 DEF ExpectedPc, FollowedBy, Open, Entry, Slot
  <2>3. CASE Redirected
    <3>1. Answers # 0 /\ FollowedNew(Answers - 1) = Target
      BY <2>3, <1>1, <1>5, FollowersStay
    <3>2. QED
      BY <2>2, <2>3, <3>1, <1>4 DEF ExpectedNew
  <2>4. CASE ~Redirected
    <3>1. ~jalr_halt /\ ~Insn("jalr")
      BY <2>4, <1>4, <1>14
    <3>2. CASE Requesting
      <4>1. Request = 1 /\ Asked + Request # 0 /\ (Asked + Request) - 1 = Asked
        BY <3>2, <1>1 DEF Request
      <4>2. FollowedNew(Asked) = After(pc, 2)
        BY <4>1, <1>5, FollowersStay
      <4>3. QED
        BY <2>2, <2>4, <3>2, <4>1, <4>2, <1>4 DEF ExpectedNew
    <3>3. CASE ~Requesting
      <4>1. Asked + Request = Asked /\ Asked \in 0 .. Asked
        BY <3>3, <1>1 DEF Request
      <4>2. QED
        BY <2>2, <2>4, <3>1, <3>3, <4>1, <1>4, <1>6, <1>8
    <3>4. QED
      BY <3>2, <3>3
  <2>5. QED
    BY <2>3, <2>4
<1>15. QED
  BY <1>11, <1>12, <1>13, <1>14 DEF PathIsFollowed

\* What an edge without a flush makes of the predictor's history.
LEMMA HistoryGoesOn ==
  ASSUME FetchInv, NEW stall \in BOOLEAN, OrdinaryFacts(Taken(stall)),
         NEW branch \in BOOLEAN, NEW went \in BOOLEAN, Predictor(FALSE, branch, went),
         path' = IF Offered /\ ~stall /\ code[HeadEntry.insn].kind = "br"
                 THEN Shift(path, HeadEntry.taken) ELSE path,
         polluted' = ((Insn("br") /\ Redirected) \/ polluted),
         spec_bhr' \in History
  PROVE  HistoryFollows'
<1> DEFINE b == Taken(stall)
<1> HIDE DEF b
<1> SUFFICES ASSUME ~polluted' PROVE HistoryFollows'
  BY DEF HistoryFollows
<1>1. /\ Answers \in Nat /\ Asked \in Nat /\ BufSize \in Nat /\ Answer \in {0, 1} /\ b \in {0, 1}
      /\ b <= Answers
      /\ Answers <= Asked /\ Asked <= BufSize /\ Answers + Answer <= Asked
      /\ Redirected => Answer = 0
      /\ CountsFit(b)
  BY DEF OrdinaryFacts, CountsFit, b
<1>2. Answers' = (Answers + Answer) - b
  BY <1>1 DEF OrdinaryFacts, PointersMoved, b
<1>3. \A p \in 0 .. Answers' - 1 : Entry(p)' = NewEntry(p + b)
  <2>1. \A p \in 0 .. Answers' - 1 : p \in 0 .. Asked' - 1
    <3>1. Asked' = (IF Redirected THEN Answers ELSE Asked + Request) - b /\ Request \in {0, 1}
      BY DEF OrdinaryFacts, PointersMoved, CountsFit, b
    <3>2. QED
      BY <3>1, <1>1, <1>2
  <2>2. QED
    BY <2>1 DEF OrdinaryFacts, EntriesMoved, Entry, Slot, b
<1>4. /\ ~polluted /\ ~(Insn("br") /\ Redirected)
      /\ req' = bp_req' /\ bp_req' = (Answer = 1 /\ Insn("br"))
      /\ insn_jal' = (Answer = 1 /\ Insn("jal"))
      /\ Answer = 1 <=> IcacheValid /\ ~Redirected
      /\ code' = code
  <2>1. SetPc(FALSE) <=> Redirected
    BY DEF SetPc, Redirected
  <2>2. Answer = 1 <=> IcacheValid /\ ~Redirected
    BY DEF Answer, Answering
  <2>3. /\ bp_req' = (Insn("br") /\ ~Redirected) /\ insn_jal' = (Insn("jal") /\ ~Redirected)
        /\ req' = Insn("br")
    BY <2>1 DEF OrdinaryFacts, Latches, Predictor
  <2>4. (Insn("br") => IcacheValid) /\ (Insn("jal") => IcacheValid)
    BY DEF Insn
  <2>5. ~polluted /\ ~(Insn("br") /\ Redirected)
    OBVIOUS
  <2>6. bp_req' = (Answer = 1 /\ Insn("br")) /\ insn_jal' = (Answer = 1 /\ Insn("jal"))
    BY <2>2, <2>3, <2>4
  <2>7. (Insn("br") /\ ~Redirected) = Insn("br")
    BY <2>5 DEF Insn
  <2>8. req' = bp_req'
    BY <2>3, <2>7
  <2>9. QED
    BY <2>2, <2>5, <2>6, <2>8 DEF OrdinaryFacts
<1>5. PICK outcomes \in [0 .. BufSize -> History] :
        /\ outcomes[0] = path
        /\ \A p \in 0 .. Answers - 1 :
             /\ outcomes[p + 1] = IF IsBranch(p) /\ ~Open(p) THEN Shift(outcomes[p], Entry(p).taken)
                                  ELSE outcomes[p]
             /\ IsBranch(p) /\ ~Open(p) => Entry(p).hist = outcomes[p]
        /\ spec_bhr = outcomes[Answers]
        /\ req = bp_req
        /\ bp_req => rd_hist = outcomes[Answers]
  BY <1>4 DEF FetchInv, HistoryFollows
<1>6. /\ spec_bhr' = (IF bp_req THEN Shift(spec_bhr, pht_data) ELSE spec_bhr)
      /\ bp_req' => rd_hist' = spec_bhr'
  BY <1>4, <1>5 DEF Predictor, ReadHist
<1>7. /\ bp_req => Answers > 0 /\ ~insn_jal /\ code[Entry(Answers - 1).insn].kind = "br"
      /\ insn_jal => Answers > 0 /\ code[Entry(Answers - 1).insn].kind = "jal"
  BY <1>1, EntryFacts DEF FetchInv, LatchesAreLast
\* The same outcomes, shortened by what is taken, and the prediction of this cycle.
<1> DEFINE after == [p \in 0 .. BufSize |-> IF p + b < Answers THEN outcomes[p + b] ELSE spec_bhr']
<1>8. after \in [0 .. BufSize -> History]
  <2>1. \A p \in 0 .. BufSize : p + b < Answers => p + b \in 0 .. BufSize
    BY <1>1
  <2>2. QED
    BY <2>1
<1>9. /\ \A p \in 0 .. BufSize : p + b < Answers => after[p] = outcomes[p + b]
      /\ \A p \in 0 .. BufSize : p + b >= Answers => after[p] = spec_bhr'
  BY <1>1
<1> HIDE DEF after
\* At every position but the end of an open prediction, the outcomes are the old ones.
<1>10. ASSUME NEW p \in 0 .. BufSize, p + b <= Answers, ~(bp_req /\ p + b = Answers)
       PROVE  after[p] = outcomes[p + b]
  <2>1. CASE p + b < Answers
    BY <2>1, <1>9
  <2>2. CASE p + b = Answers
    <3>1. ~bp_req /\ p + b >= Answers
      BY <2>2, <1>1, <1>10
    <3>2. QED
      BY <3>1, <2>2, <1>5, <1>6, <1>9
  <2>3. QED
    BY <2>1, <2>2, <1>1, <1>10
<1>11. after[0] = path'
  <2>1. CASE b = 0
    <3>1. ~(Offered /\ ~stall)
      BY <2>1 DEF b, Taken
    <3>2. 0 \in 0 .. BufSize /\ 0 + b = 0 /\ 0 + b <= Answers /\ ~(bp_req /\ 0 + b = Answers)
      BY <2>1, <1>1, <1>7
    <3>3. QED
      BY <3>1, <3>2, <1>5, <1>10
  <2>2. CASE b = 1
    <3>1. Offered /\ ~stall
      BY <2>2 DEF b, Taken
    <3>2. HeadEntry = Entry(0) /\ Entry(0).valid
      BY <2>2, EdgeCounts DEF b
    <3>3. 0 \in 0 .. Answers - 1 /\ 0 + b = 1 /\ 0 + 1 = 1 /\ 0 \in 0 .. BufSize /\ 1 <= Answers
      BY <2>2, <1>1
    <3>4. ~(Open(0) /\ bp_req)
      BY <3>2, <3>3 DEF FetchInv, EntriesHoldWords
    <3>5. after[0] = outcomes[1]
      <4>1. ~(bp_req /\ 1 = Answers)
        BY <3>4, <1>1 DEF Open
      <4>2. QED
        BY <4>1, <3>3, <1>10
    <3>6. outcomes[1] = IF IsBranch(0) /\ ~Open(0) THEN Shift(path, Entry(0).taken) ELSE path
      BY <3>3, <1>5
    <3>7. Open(0) => ~IsBranch(0)
      BY <3>4, <1>1, <1>7 DEF Open, IsBranch
    <3>8. QED
      BY <3>1, <3>2, <3>5, <3>6, <3>7 DEF IsBranch
  <2>3. QED
    BY <2>1, <2>2, <1>1
<1>12. ASSUME NEW p \in 0 .. Answers' - 1
       PROVE  /\ after[p + 1] = IF IsBranch(p)' /\ ~Open(p)' THEN Shift(after[p], Entry(p)'.taken)
                                ELSE after[p]
              /\ IsBranch(p)' /\ ~Open(p)' => Entry(p)'.hist = after[p]
  <2> DEFINE q == p + b
  <2>1. /\ q \in 0 .. Answers /\ q < Answers + Answer /\ p \in 0 .. BufSize /\ p + 1 \in 0 .. BufSize
        /\ (p + 1) + b = q + 1
    BY <1>1, <1>2
  <2>2. Entry(p)' = NewEntry(q)
    BY <1>3
  <2>3. IsBranch(p)' <=> code[NewEntry(q).insn].kind = "br"
    BY <2>2, <1>4 DEF IsBranch
  <2>4. Open(p)' <=> q = (Answers + Answer) - 1 /\ (bp_req' \/ insn_jal')
    <3>1. p = Answers' - 1 <=> q = (Answers + Answer) - 1
      BY <1>1, <1>2
    <3>2. Open(p)' <=> p = Answers' - 1 /\ (bp_req' \/ insn_jal')
      BY DEF Open
    <3>3. QED
      BY <3>1, <3>2
  <2>5. CASE q < Answers
    <3>1. q \in 0 .. Answers - 1
      BY <2>1, <2>5, <1>1
    <3>2. ~Open(p)'
      <4>1. q = (Answers + Answer) - 1 => Answer = 0
        BY <2>5, <2>1, <1>1
      <4>2. QED
        BY <4>1, <2>4, <1>4
    <3>3. after[p] = outcomes[q]
      BY <2>1, <2>5, <1>9
    <3>4. NewEntry(q).insn = Entry(q).insn
      BY <3>1, <1>1, NewEntries
    <3>5. IsBranch(p)' <=> IsBranch(q)
      BY <3>4, <2>3 DEF IsBranch
    <3>6. CASE bp_req /\ q = Answers - 1
      <4>1. IsBranch(q) /\ Open(q)
        BY <3>6, <1>7 DEF IsBranch, Open
      <4>2. NewEntry(q).taken = pht_data /\ NewEntry(q).hist = rd_hist
        BY <3>1, <3>6, <1>1, NewEntries
      <4>3. outcomes[Answers] = outcomes[q]
        <5>1. q + 1 = Answers
          BY <3>6, <1>1
        <5>2. QED
          BY <5>1, <4>1, <3>1, <1>5
      <4>4. after[p + 1] = Shift(outcomes[q], pht_data)
        <5>1. (p + 1) + b >= Answers
          BY <2>1, <3>6, <1>1
        <5>2. QED
          BY <5>1, <4>3, <2>1, <3>6, <1>5, <1>6, <1>9
      <4>5. QED
        BY <4>1, <4>2, <4>3, <4>4, <3>2, <3>3, <3>5, <3>6, <2>2, <1>5
    <3>7. CASE ~(bp_req /\ q = Answers - 1)
      <4>1. NewEntry(q) = Entry(q)
        BY <3>1, <3>7, <1>1, NewEntries
      <4>2. Open(q) => ~IsBranch(q)
        BY <3>7, <1>7 DEF Open, IsBranch
      <4>3. after[p + 1] = outcomes[q + 1]
        <5>1. (p + 1) + b <= Answers /\ ~(bp_req /\ (p + 1) + b = Answers)
          BY <2>1, <3>1, <3>7, <1>1
        <5>2. QED
          BY <5>1, <2>1, <1>10
      <4>4. QED
        BY <4>1, <4>2, <4>3, <3>1, <3>2, <3>3, <3>5, <2>2, <1>5
    <3>8. QED
      BY <3>6, <3>7
  <2>6. CASE q = Answers
    <3>1. Answer = 1 /\ q = (Answers + Answer) - 1
      BY <2>1, <2>6, <1>1
    <3>2. NewEntry(q).insn = s1
      BY <2>6, <3>1, <1>1, NewEntries
    <3>3. IsBranch(p)' => Open(p)'
      BY <3>1, <3>2, <2>3, <2>4, <1>4 DEF Insn
    <3>4. after[p] = spec_bhr' /\ after[p + 1] = spec_bhr'
      <4>1. p + b >= Answers /\ (p + 1) + b >= Answers
        BY <2>1, <2>6, <1>1
      <4>2. QED
        BY <4>1, <2>1, <1>9
    <3>5. QED
      BY <3>3, <3>4
  <2>7. QED
    BY <2>1, <2>5, <2>6, <1>1
<1>13. spec_bhr' = after[Answers']
  <2>1. Answers' \in 0 .. BufSize /\ Answers' + b >= Answers
    BY <1>1, <1>2
  <2>2. QED
    BY <2>1, <1>9
<1>14. QED
  BY <1>4, <1>6, <1>8, <1>11, <1>12, <1>13 DEF HistoryFollows

-----------------------------------------------------------------------------
(* The invariant *)

\* Outcomes shifted into a history make a history.
LEMMA HistoryTypes ==
  /\ NoBranches \in History
  /\ \A h \in History, o \in BOOLEAN : Shift(h, o) \in History
BY FetchAssumption DEF NoBranches, History, Shift

\* An edge keeps the types.
LEMMA FetchTypes ==
  ASSUME FetchInv, NEW stall \in BOOLEAN, NEW retires \in BOOLEAN, NEW branch \in BOOLEAN,
         NEW went \in BOOLEAN, NEW flush \in BOOLEAN, NEW to \in WordsOf,
         retires => flight # << >>,
         FetchEdge(stall, retires, branch, went, flush, to)
  PROVE  FetchTypeOK'
<1>1. /\ code \in Codes /\ pc \in Pcs /\ next \in Pcs \cup {Nothing}
      /\ fhead \in Ptr!Ptrs /\ fmid \in Ptr!Ptrs /\ ftail \in Ptr!Ptrs
      /\ fbuf \in [Entries -> EntryTypes]
      /\ bp_req \in BOOLEAN /\ insn_jal \in BOOLEAN /\ jalr_halt \in BOOLEAN
      /\ misalign_err \in BOOLEAN /\ req \in BOOLEAN /\ pht_data \in BOOLEAN
      /\ polluted \in BOOLEAN
      /\ s0 \in WordsOf \cup {Nothing} /\ s1 \in WordsOf \cup {Nothing}
      /\ spec_bhr \in History /\ arch_bhr \in History /\ rd_hist \in History /\ path \in History
      /\ flight \in Seq([word : WordsOf, taken : BOOLEAN])
  BY DEF FetchInv, FetchTypeOK
<1>2. \A w \in WordsOf : code[w] \in Insns
  BY <1>1, FetchAssumption
<1>3. HeadEntry \in EntryTypes /\ Last \in EntryTypes
  <2>1. Ptr!Idx(fhead) \in Entries /\ Ptr!Idx(fmid) \in Entries
    BY <1>1, FetchAssumption DEF Ptr!Ptrs, Ptr!Idx, Entries
  <2>2. MidPrev \in Entries
    BY <2>1, FetchAssumption DEF MidPrev, Entries
  <2>3. QED
    BY <2>1, <2>2, <1>1 DEF HeadEntry, Last
<1>4. code' \in Codes
  BY <1>1 DEF FetchEdge
<1>5. pc' \in Pcs
  <2>1. 2 * to \in Pcs /\ After(pc, 2) \in Pcs
    BY <1>1, PcTypes
  <2>2. Target \in Pcs
    BY <1>2, <1>3 DEF Target, EntryTypes, Insns
  <2>3. QED
    BY <2>1, <2>2, <1>1 DEF FetchEdge, Pc
<1>6. next' \in Pcs \cup {Nothing}
  <2>1. 2 * to \in Pcs /\ After(HeadEntry.addr, 2) \in Pcs
    BY <1>1, <1>3, PcTypes DEF EntryTypes
  <2>2. Successor(HeadEntry) \in Pcs \cup {Nothing}
    <3>1. code[HeadEntry.insn].target \in Pcs
      BY <1>2, <1>3 DEF EntryTypes, Insns
    <3>2. QED
      BY <2>1, <3>1 DEF Successor
  <2>3. QED
    BY <2>1, <2>2, <1>1 DEF FetchEdge
<1>7. fhead' \in Ptr!Ptrs /\ fmid' \in Ptr!Ptrs /\ ftail' \in Ptr!Ptrs
  <2>1. 0 \in Ptr!Ptrs /\ \A p \in Ptr!Ptrs : Ptr!Inc(p) \in Ptr!Ptrs
    BY FetchAssumption DEF Ptr!Ptrs, Ptr!Inc
  <2>2. QED
    BY <2>1, <1>1 DEF FetchEdge, BufPointers
<1>8. fbuf' \in [Entries -> EntryTypes]
  <2>1. ASSUME NEW e \in EntryTypes
        PROVE  /\ Requested(e) \in EntryTypes /\ Erroneous(e) \in EntryTypes
               /\ Predicted(e) \in EntryTypes
               /\ IcacheValid => Answered(e) \in EntryTypes
    <3>1. IcacheValid => s1 \in WordsOf
      BY <1>1 DEF IcacheValid
    <3>2. Insn("br") \in BOOLEAN
      BY DEF Insn, IcacheValid
    <3>3. Requested(e) \in EntryTypes /\ Erroneous(e) \in EntryTypes /\ Predicted(e) \in EntryTypes
      BY <1>1 DEF EntryTypes, Requested, Erroneous, Predicted
    <3>4. IcacheValid => Answered(e) \in EntryTypes
      BY <3>1, <3>2 DEF EntryTypes, Answered
    <3>5. QED
      BY <3>3, <3>4
  <2>2. ASSUME NEW e \in EntryTypes PROVE Unused(e) \in EntryTypes
    <3>1. 0 \in Pcs /\ 0 \in WordsOf
      BY FetchAssumption DEF Pcs, WordsOf
    <3>2. QED
      BY <3>1, HistoryTypes DEF EntryTypes, Unused, EmptyEntry
  <2>3. ASSUME NEW i \in Entries PROVE Written(flush, i) \in EntryTypes
    BY <2>1, <1>1 DEF Written
  <2>4. QED
    BY <2>2, <2>3 DEF FetchEdge, Buffer
<1>9. /\ bp_req' \in BOOLEAN /\ insn_jal' \in BOOLEAN /\ jalr_halt' \in BOOLEAN
      /\ misalign_err' \in BOOLEAN /\ req' \in BOOLEAN /\ pht_data' \in BOOLEAN
      /\ polluted' \in BOOLEAN
  <2>1. bp_req' \in BOOLEAN /\ insn_jal' \in BOOLEAN /\ jalr_halt' \in BOOLEAN
    BY DEF FetchEdge, Latches
  <2>2. misalign_err' \in BOOLEAN
    BY DEF FetchEdge, Latches
  <2>3. req' \in BOOLEAN
    BY DEF FetchEdge, Predictor, Insn, IcacheValid
  <2>4. pht_data' \in BOOLEAN
    BY DEF FetchEdge, Predictor
  <2>5. polluted' \in BOOLEAN
    BY DEF FetchEdge
  <2>6. QED
    BY <2>1, <2>2, <2>3, <2>4, <2>5
<1>10. s0' \in WordsOf \cup {Nothing} /\ s1' \in WordsOf \cup {Nothing}
  <2>1. WordOf(pc) \in WordsOf
    BY <1>1, PcTypes
  <2>2. QED
    BY <2>1, <1>1 DEF FetchEdge, Icache
<1>11. spec_bhr' \in History /\ arch_bhr' \in History /\ rd_hist' \in History
  <2>1. Shift(spec_bhr, pht_data) \in History /\ Shift(arch_bhr, went) \in History
    BY <1>1, HistoryTypes
  <2>2. ReadHist \in History
    BY <2>1, <1>1 DEF ReadHist
  <2>3. QED
    BY <2>1, <2>2, <1>1, HistoryTypes DEF FetchEdge, Predictor
<1>12. path' \in History
  <2>1. Shift(path, HeadEntry.taken) \in History
    BY <1>1, <1>3, HistoryTypes DEF EntryTypes
  <2>2. QED
    BY <2>1, <1>1, <1>11 DEF FetchEdge
<1>13. flight' \in Seq([word : WordsOf, taken : BOOLEAN])
  <2> DEFINE F == [word : WordsOf, taken : BOOLEAN]
             x == [word |-> HeadEntry.insn, taken |-> HeadEntry.taken]
             rest == IF retires THEN Tail(flight) ELSE flight
             new == IF Offered /\ ~stall /\ ~flush THEN << x >> ELSE << >>
  <2>1. x \in F
    BY <1>3 DEF EntryTypes
  <2>2. rest \in Seq(F)
    BY <1>1
  <2>3. new \in Seq(F)
    <3> HIDE DEF x, F
    <3>1. << x >> \in Seq(F) /\ << >> \in Seq(F)
      BY <2>1
    <3>2. QED
      BY <3>1
  <2>4. rest \o new \in Seq(F)
    BY <2>2, <2>3
  <2>5. flight' = IF flush THEN << >> ELSE rest \o new
    BY DEF FetchEdge
  <2> HIDE DEF rest, new
  <2>6. QED
    BY <2>4, <2>5
<1>14. QED
  BY <1>4, <1>5, <1>6, <1>7, <1>8, <1>9, <1>10, <1>11, <1>12, <1>13 DEF FetchTypeOK

\* An empty buffer, with fetch at the pc that is to be offered next, and the history of
\* what came before: after reset, and after a flush.
FetchEmpty ==
  /\ fhead = 0 /\ fmid = 0 /\ ftail = 0
  /\ ~bp_req /\ ~insn_jal /\ ~jalr_halt /\ s0 = Nothing /\ s1 = Nothing
  /\ pc = next /\ (~polluted => spec_bhr = path /\ ~req)

LEMMA EmptyIsInv == FetchTypeOK /\ FetchEmpty => FetchInv
<1> SUFFICES ASSUME FetchTypeOK, FetchEmpty PROVE FetchInv
  OBVIOUS
<1>1. Ptr!Dist(0, 0) = 0 /\ BufSize \in Nat
  BY FetchAssumption DEF Ptr!Dist
<1>2. Answers = 0 /\ Asked = 0
  BY <1>1 DEF FetchEmpty, Answers, Asked
<1>3. RingInParts
  BY <1>1, <1>2 DEF FetchEmpty, RingInParts
<1>4. EntriesHoldWords /\ LatchesAreLast
  BY <1>2 DEF FetchEmpty, EntriesHoldWords, LatchesAreLast
<1>5. StagesFollow
  BY <1>2 DEF FetchEmpty, StagesFollow
<1>6. PathIsFollowed
  BY <1>2 DEF FetchEmpty, PathIsFollowed, ExpectedPc
<1>7. HistoryFollows
  <2>1. SUFFICES ASSUME ~polluted PROVE HistoryFollows
    BY DEF HistoryFollows
  <2> DEFINE outcomes == [i \in 0 .. BufSize |-> path]
  <2>2. outcomes \in [0 .. BufSize -> History] /\ outcomes[0] = path
    BY <1>1 DEF FetchTypeOK
  <2> HIDE DEF outcomes
  <2>3. req = bp_req
    BY <2>1 DEF FetchEmpty, FetchTypeOK
  <2>4. /\ \A p \in 0 .. Answers - 1 : FALSE
        /\ spec_bhr = outcomes[Answers] /\ ~bp_req
    BY <1>2, <2>1, <2>2 DEF FetchEmpty
  <2>5. QED
    BY <2>2, <2>3, <2>4 DEF HistoryFollows
<1>8. QED
  BY <1>3, <1>4, <1>5, <1>6, <1>7 DEF FetchInv

LEMMA EmptyIsInvNext == FetchTypeOK' /\ FetchEmpty' => FetchInv'
BY EmptyIsInv, PTL

LEMMA FetchInitInv == FetchInit => FetchInv
<1> SUFFICES ASSUME FetchInit PROVE FetchInv
  OBVIOUS
<1>1. FetchTypeOK
  <2>1. 0 \in Pcs /\ 0 \in WordsOf /\ 0 \in Ptr!Ptrs
    BY FetchAssumption DEF Pcs, WordsOf, Ptr!Ptrs
  <2>2. EmptyEntry \in EntryTypes
    BY <2>1, HistoryTypes DEF EmptyEntry, EntryTypes
  <2>3. QED
    <3>1. fbuf \in [Entries -> EntryTypes]
      BY <2>2 DEF FetchInit
    <3>2. {spec_bhr, arch_bhr, rd_hist, path} \subseteq History
      BY HistoryTypes DEF FetchInit
    <3>3. {bp_req, insn_jal, jalr_halt, misalign_err, req, pht_data, polluted} \subseteq BOOLEAN
      BY DEF FetchInit
    <3>4. flight \in Seq([word : WordsOf, taken : BOOLEAN])
      BY DEF FetchInit
    <3>5. QED
      BY <2>1, <3>1, <3>2, <3>3, <3>4 DEF FetchInit, FetchTypeOK
<1>2. FetchEmpty
  BY DEF FetchInit, FetchEmpty
<1>3. QED
  BY <1>1, <1>2, EmptyIsInv

\* Every edge keeps the invariant.
LEMMA FetchEdgeInv ==
  ASSUME FetchInv, NEW stall \in BOOLEAN, NEW retires \in BOOLEAN, NEW branch \in BOOLEAN,
         NEW went \in BOOLEAN, NEW flush \in BOOLEAN, NEW to \in WordsOf,
         retires => flight # << >>,
         FetchEdge(stall, retires, branch, went, flush, to)
  PROVE  FetchInv'
<1>1. FetchTypeOK'
  BY FetchTypes
<1>2. CASE flush
  <2>1. SetPc(flush) /\ IcFlush(flush) /\ ~IcReq(flush)
    BY <1>2 DEF SetPc, IcFlush, IcReq
  <2>2. fhead' = 0 /\ fmid' = 0 /\ ftail' = 0
    BY <1>2 DEF FetchEdge, BufPointers
  <2>3. ~bp_req' /\ ~insn_jal' /\ ~jalr_halt'
    BY <2>1 DEF FetchEdge, Latches
  <2>4. s0' = Nothing /\ s1' = Nothing
    BY <2>1 DEF FetchEdge, Icache
  <2>5. pc' = 2 * to /\ next' = 2 * to
    BY <1>2 DEF FetchEdge, Pc
  <2>6. path' = arch_bhr' /\ spec_bhr' = arch_bhr'
    BY <1>2 DEF FetchEdge, Predictor
  <2>7. ~polluted' => ~req'
    <3>1. polluted' = ((Insn("br") /\ SetPc(flush)) \/ (polluted /\ ~flush)) /\ req' = Insn("br")
      BY DEF FetchEdge, Predictor
    <3>2. QED
      BY <3>1, <2>1
  <2>8. req' \in BOOLEAN /\ bp_req' \in BOOLEAN /\ arch_bhr' \in History
    BY <1>1 DEF FetchTypeOK
  <2>9. FetchEmpty'
    BY <2>2, <2>3, <2>4, <2>5, <2>6, <2>7, <2>8 DEF FetchEmpty
  <2>10. QED
    BY <1>1, <2>9, EmptyIsInvNext
<1>3. CASE ~flush
  <2>1. flush = FALSE
    BY <1>3
  <2>2. /\ BufPointers(FALSE, stall) /\ Buffer(FALSE) /\ Latches(FALSE) /\ Icache(FALSE)
        /\ Predictor(FALSE, branch, went) /\ code' = code
    BY <2>1 DEF FetchEdge
  <2>3. Pc(FALSE, 0)
    BY <2>1 DEF FetchEdge, Pc
  <2>4. OrdinaryFacts(Taken(stall))
    BY <2>2, <2>3, EdgeCounts, PointersMove, EntriesMove DEF OrdinaryFacts
  <2>5. next' = IF Offered /\ ~stall THEN Successor(HeadEntry) ELSE next
    BY <2>1 DEF FetchEdge
  <2>6. path' = IF Offered /\ ~stall /\ code[HeadEntry.insn].kind = "br"
                THEN Shift(path, HeadEntry.taken) ELSE path
    BY <2>1 DEF FetchEdge
  <2>7. polluted' = ((Insn("br") /\ Redirected) \/ polluted)
    BY <2>1 DEF FetchEdge, SetPc, Redirected, FetchInv, FetchTypeOK
  <2>8. spec_bhr' \in History
    BY <1>1 DEF FetchTypeOK
  <2>9. RingInParts'
    BY <2>4 DEF OrdinaryFacts, PointersMoved, RingInParts
  <2>10. EntriesHoldWords' /\ LatchesAreLast'
    BY <2>4, EntriesHold
  <2>11. StagesFollow'
    BY <2>4, StagesMove
  <2>12. PathIsFollowed'
    BY <2>4, <2>5, PathGoesOn
  <2>13. HistoryFollows'
    BY <2>2, <2>4, <2>6, <2>7, <2>8, HistoryGoesOn
  <2>14. QED
    BY <1>1, <2>9, <2>10, <2>11, <2>12, <2>13 DEF FetchInv
<1>4. QED
  BY <1>2, <1>3

LEMMA FetchStepInv == FetchInv /\ [FetchNext]_fetchVars => FetchInv'
<1> SUFFICES ASSUME FetchInv, [FetchNext]_fetchVars PROVE FetchInv'
  OBVIOUS
<1>0. /\ 0 \in WordsOf /\ code \in [WordsOf -> Insns]
      /\ flight \in Seq([word : WordsOf, taken : BOOLEAN])
  BY FetchAssumption DEF WordsOf, FetchInv, FetchTypeOK
<1>1. flight # << >> => Oldest \in [word : WordsOf, taken : BOOLEAN]
  BY <1>0 DEF Oldest
<1>2. ASSUME NEW stall \in BOOLEAN, Runs(stall) PROVE FetchInv'
  <2>1. CASE FetchEdge(stall, FALSE, FALSE, FALSE, FALSE, 0)
    BY <2>1, <1>0, FetchEdgeInv
  <2>2. CASE flight # << >> /\ FetchEdge(stall, TRUE, KindOf(Oldest) = "br", Oldest.taken, FALSE, 0)
    <3>1. (KindOf(Oldest) = "br") \in BOOLEAN /\ Oldest.taken \in BOOLEAN
      BY <2>2, <1>1
    <3>2. QED
      BY <2>2, <3>1, <1>0, FetchEdgeInv
  <2>3. QED
    BY <1>2, <2>1, <2>2 DEF Runs
<1>3. CASE Mispredicted
  <2> DEFINE to == IF Oldest.taken THEN WordOf(After(2 * Oldest.word, 2))
                   ELSE WordOf(code[Oldest.word].target)
  <2>1. flight # << >> /\ FetchEdge(TRUE, TRUE, TRUE, ~Oldest.taken, TRUE, to)
    BY <1>3 DEF Mispredicted
  <2>2. Oldest.word \in WordsOf /\ code[Oldest.word].target \in Pcs
    BY <2>1, <1>0, <1>1 DEF Insns
  <2>3. to \in WordsOf
    <3>1. 2 * Oldest.word \in Pcs
      BY <2>2, FetchAssumption DEF WordsOf, Pcs
    <3>2. After(2 * Oldest.word, 2) \in Pcs
      BY <3>1, PcTypes
    <3>3. QED
      BY <2>2, <3>2, PcTypes
  <2> HIDE DEF to
  <2>4. (~Oldest.taken) \in BOOLEAN
    OBVIOUS
  <2>5. QED
    BY <2>1, <2>3, <2>4, FetchEdgeInv
<1>4. CASE Jumps
  <2>1. flight # << >>
    BY <1>4 DEF Jumps
  <2>2. PICK to \in WordsOf : FetchEdge(TRUE, TRUE, FALSE, FALSE, TRUE, to)
    BY <1>4 DEF Jumps
  <2>3. QED
    BY <2>1, <2>2, FetchEdgeInv
<1>5. CASE UNCHANGED fetchVars
  <2>1. FetchTypeOK' /\ RingInParts'
    BY <1>5 DEF FetchInv, FetchTypeOK, RingInParts, Answers, Asked, fetchVars, fetchRegs, predRegs
  <2>2. EntriesHoldWords' /\ LatchesAreLast'
    BY <1>5 DEF FetchInv, EntriesHoldWords, LatchesAreLast, Last, MidPrev, Answers, Asked, Entry, Slot,
                Open, fetchVars, fetchRegs, predRegs
  <2>3. StagesFollow'
    BY <1>5 DEF FetchInv, StagesFollow, Answers, Asked, Entry, Slot, fetchVars, fetchRegs, predRegs
  <2>4. PathIsFollowed'
    BY <1>5 DEF FetchInv, PathIsFollowed, ExpectedPc, FollowedBy, Successor, Open, Answers, Asked,
                Entry, Slot, fetchVars, fetchRegs, predRegs
  <2>5. HistoryFollows'
    BY <1>5 DEF FetchInv, HistoryFollows, IsBranch, Open, Answers, Asked,
                Entry, Slot, fetchVars, fetchRegs, predRegs
  <2>6. QED
    BY <2>1, <2>2, <2>3, <2>4, <2>5 DEF FetchInv
<1>6. QED
  BY <1>2, <1>3, <1>4, <1>5 DEF FetchNext

\* The invariant always holds.
THEOREM FetchInvariance == FetchSpec => []FetchInv
<1>1. FetchInit => FetchInv
  BY FetchInitInv
<1>2. FetchInv /\ [FetchNext]_fetchVars => FetchInv'
  BY FetchStepInv
<1>3. QED
  BY <1>1, <1>2, PTL DEF FetchSpec

\* What is offered is the oldest of the answered entries, and complete.
LEMMA OfferedIsAnswered ==
  ASSUME FetchInv, Offered
  PROVE  /\ HeadEntry = Entry(0) /\ Entry(0).valid /\ 0 \in 0 .. Answers - 1
         /\ 0 \in 0 .. Asked - 1
         /\ IsBranch(0) => ~Open(0)
<1>1. CountsFit(1) /\ HeadEntry = Entry(0) /\ Entry(0).valid
  <2>1. Taken(FALSE) = 1
    BY DEF Taken
  <2>2. QED
    BY <2>1, EdgeCounts
<1>2. 0 \in 0 .. Answers - 1 /\ 0 \in 0 .. Asked - 1
  BY <1>1 DEF CountsFit
<1>3. ~(Open(0) /\ bp_req)
  BY <1>1, <1>2 DEF FetchInv, EntriesHoldWords
<1>4. Open(0) => Last = Entry(0)
  <2>1. Answers > 0 => Last = Entry(Answers - 1)
    BY <1>1, EntryFacts
  <2>2. Answers > 0
    BY <1>1, <1>2 DEF CountsFit
  <2>3. QED
    BY <2>1, <2>2 DEF Open
<1>5. insn_jal /\ Open(0) => ~IsBranch(0)
  BY <1>4 DEF FetchInv, LatchesAreLast, IsBranch
<1>6. QED
  BY <1>1, <1>2, <1>3, <1>5 DEF Open

\* Decode is offered exactly the instructions of the predicted path, each with its own
\* word, for every program, buffer and order of flushes and stalls (fetch.v, icache.v).
THEOREM OffersThePath == FetchSpec => []FetchesPath
<1>1. ASSUME FetchInv PROVE FetchesPath
  <2>1. SUFFICES ASSUME Offered
                 PROVE  /\ HeadEntry.addr = next /\ HeadEntry.insn = WordOf(next)
                        /\ ~HeadEntry.error /\ ~Misaligned(next)
    BY <2>1 DEF FetchesPath
  <2>2. HeadEntry = Entry(0) /\ 0 \in 0 .. Answers - 1 /\ 0 \in 0 .. Asked - 1
    BY <2>1, <1>1, OfferedIsAnswered
  <2>3. Entry(0).addr = next
    BY <2>2, <1>1 DEF FetchInv, PathIsFollowed, ExpectedPc
  <2>4. Entry(0).insn = WordOf(Entry(0).addr) /\ ~Entry(0).error /\ ~Misaligned(Entry(0).addr)
    BY <2>2, <1>1 DEF FetchInv, EntriesHoldWords
  <2>5. QED
    BY <2>2, <2>3, <2>4
<1>2. QED
  BY <1>1, FetchInvariance, PTL

\* A branch is predicted with the outcomes of the branches before it on its path, unless
\* one that fetch dropped is in the history since the last flush (brpred.v).
THEOREM HistoryIsOfThePath == FetchSpec => []HistoryIsPath
<1>1. ASSUME FetchInv PROVE HistoryIsPath
  <2>1. SUFFICES ASSUME Offered, code[HeadEntry.insn].kind = "br", ~polluted
                 PROVE  HeadEntry.hist = path
    BY <2>1 DEF HistoryIsPath
  <2>2. HeadEntry = Entry(0) /\ 0 \in 0 .. Answers - 1 /\ ~Open(0) /\ IsBranch(0)
    BY <2>1, <1>1, OfferedIsAnswered DEF IsBranch
  <2>3. PICK outcomes \in [0 .. BufSize -> History] :
          /\ outcomes[0] = path
          /\ \A p \in 0 .. Answers - 1 : IsBranch(p) /\ ~Open(p) => Entry(p).hist = outcomes[p]
    BY <2>1, <1>1 DEF FetchInv, HistoryFollows
  <2>4. QED
    BY <2>2, <2>3
<1>2. QED
  BY <1>1, FetchInvariance, PTL

-----------------------------------------------------------------------------
(* Register renaming *)

\* After reset nothing is in flight and the table has every register.
LEMMA RatInitInv == RatInit => IInv /\ RatInv
<1> SUFFICES ASSUME RatInit PROVE IInv /\ RatInv
  OBVIOUS
<1>1. IInv
  BY InitInv DEF RatInit
<1>2. InFlight = {} /\ ~dvalid /\ ~fwdv
  BY RingSize, EmptyRing DEF RatInit, Init, InFlight, Ptrs
<1>3. RatTypeOK
  <2>1. X0 \in AllRegs /\ 0 \in Vals
    BY RatAssumption DEF AllRegs
  <2>2. Ready(0) \in Operands
    BY <2>1 DEF Operands
  <2>3. QED
    BY <2>1, <2>2 DEF RatInit, RatTypeOK
<1>4. Writers(X0) = {} /\ \A r : Writers(r) = {}
  BY <1>2 DEF Writers
<1>5. ZeroIsValid /\ TableFollows
  BY <1>4 DEF ZeroIsValid, TableFollows, RatInit, AllRegs
<1>6. QED
  BY <1>1, <1>2, <1>3, <1>5
     DEF RatInv, JalrIsLast, CsrIsFirst, WritersRun, OperandsStartEmpty, OperandsFollow, RatInit

-----------------------------------------------------------------------------
(* One clock edge *)

\* An edge and what is known of its inputs.
RatStep(f, ustall, cstall, w, o, v, frd, fsrc, flink) ==
  /\ f \in Kinds \cup {"none"} /\ (fhalt => f = "none")
  /\ ustall \in BOOLEAN /\ cstall \in BOOLEAN
  /\ w \in pending \cup {None} /\ (w # None => ~fwdv /\ op[w].ready)
  /\ o \in Outcomes
  /\ v \in Vals
  /\ frd \in AllRegs /\ fsrc \in AllRegs /\ flink \in Vals
  /\ frd # X0 => ~IsErr(f) /\ ~IsStore(f)
  /\ RatEdge(f, ustall, cstall, w, o, v, frd, fsrc, flink)

\* Every step of the specification is such an edge.
LEMMA RatNextIsStep ==
  ASSUME RatNext, TypeOK, RatTypeOK
  PROVE  \E f, ustall, cstall, w, o, v, frd, fsrc, flink :
           RatStep(f, ustall, cstall, w, o, v, frd, fsrc, flink)
<1>1. PICK ustall \in UnitStalls, cstall \in CsrStalls,
           f \in Offers \cap (program.kinds \cup {"none"}),
           w \in {None} \cup (IF fwdv THEN {} ELSE {s \in pending : op[s].ready}) :
        \E o \in (IF w = None THEN {"ok"} ELSE OutcomesOf(kind[w])), v \in Results(w),
           frd \in RdsOf(f), fsrc \in SourcesOf(f), flink \in Links(f) :
          RatEdge(f, ustall, cstall, w, o, v, frd, fsrc, flink)
  BY DEF RatNext
<1>2. PICK o \in (IF w = None THEN {"ok"} ELSE OutcomesOf(kind[w])), v \in Results(w),
           frd \in RdsOf(f), fsrc \in SourcesOf(f), flink \in Links(f) :
          RatEdge(f, ustall, cstall, w, o, v, frd, fsrc, flink)
  BY <1>1
<1>3. ustall \in BOOLEAN /\ cstall \in BOOLEAN
  BY DEF UnitStalls, CsrStalls, Stalls
<1>4. f \in Kinds \cup {"none"} /\ (fhalt => f = "none")
  BY DEF Offers
<1>5. w \in pending \cup {None} /\ (w # None => ~fwdv /\ op[w].ready)
  OBVIOUS
<1>6. o \in Outcomes
  BY DEF OutcomesOf, Outcomes
<1>7. v \in Vals /\ flink \in Vals
  BY RatAssumption DEF Results, Links, NewValues
<1>8. frd \in AllRegs /\ (frd # X0 => ~IsErr(f) /\ ~IsStore(f))
  BY DEF RdsOf, AllRegs, IsErr, IsStore
<1>9. fsrc \in AllRegs
  <2>1. program \in Programs
    BY DEF RatTypeOK
  <2>2. program.sources \subseteq Regs \cup {0}
    BY <2>1, RatAssumption
  <2>3. QED
    BY <2>2 DEF SourcesOf, AllRegs, X0
<1>10. QED
  BY <1>2, <1>3, <1>4, <1>5, <1>6, <1>7, <1>8, <1>9 DEF RatStep

\* Every edge of renaming is an edge of the reorder buffer.
LEMMA RatStepIsRobStep == TypeOK /\ RatNext => Next
<1> SUFFICES ASSUME TypeOK, RatNext PROVE Next
  OBVIOUS
<1>1. PICK ustall \in UnitStalls, cstall \in CsrStalls,
           f \in Offers \cap (program.kinds \cup {"none"}),
           w \in {None} \cup (IF fwdv THEN {} ELSE {s \in pending : op[s].ready}) :
        \E o \in (IF w = None THEN {"ok"} ELSE OutcomesOf(kind[w])), v \in Results(w),
           frd \in RdsOf(f), fsrc \in SourcesOf(f), flink \in Links(f) :
          RatEdge(f, ustall, cstall, w, o, v, frd, fsrc, flink)
  BY DEF RatNext
<1>2. \E o \in (IF w = None THEN {"ok"} ELSE OutcomesOf(kind[w])) : Edge(f, ustall, cstall, w, o)
  BY <1>1 DEF RatEdge
<1>3. CASE w = None
  BY <1>2, <1>3 DEF Next, Clock, Quiet
<1>4. CASE w # None
  <2>1. w \in Slots /\ Result(f, ustall, cstall, w)
    BY <1>2, <1>4 DEF Result, TypeOK
  <2>2. QED
    BY <2>1 DEF Next, Clock
<1>5. QED
  BY <1>3, <1>4

\* The values on the bus and in the alias table are values.
LEMMA ValueTypes ==
  ASSUME TypeOK, RatTypeOK, NEW w \in pending \cup {None}, NEW o, NEW v \in Vals
  PROVE  /\ WbResult(v) \in Vals
         /\ RetResult \in Vals
         /\ \A r \in AllRegs : Lookup(r, w, o, v) \in Operands
<1>1. WbResult(v) \in Vals /\ RetResult \in Vals
  BY PointerTypes DEF TypeOK, RatTypeOK, WbResult, RetResult
<1>2. \A x \in Vals : Ready(x) \in Operands
  BY DEF Operands
<1>3. \A s \in Slots : Waiting(s) \in Operands
  BY DEF Operands
<1>4. ASSUME NEW r \in AllRegs PROVE Lookup(r, w, o, v) \in Operands
  <2>1. tag[r] \in Slots /\ commval[r] \in Vals /\ specval[r] \in Vals /\ 0 \in Vals
    BY RatAssumption DEF RatTypeOK
  <2>2. QED
    BY <1>1, <1>2, <1>3, <2>1 DEF Lookup
<1>5. QED
  BY <1>1, <1>4

\* What the ready bit of an operand tells.
LEMMA OperandShape ==
  ASSUME NEW x \in Operands
  PROVE  /\ x.ready => x = Ready(x.val) /\ x.val \in Vals
         /\ ~x.ready => x = Waiting(x.val) /\ x.val \in Slots
         /\ x.ready \in BOOLEAN
<1>1. CASE \E y \in Vals : x = Ready(y)
  <2>1. PICK y \in Vals : x = Ready(y)
    BY <1>1
  <2>2. x.ready = TRUE /\ x.val = y
    BY <2>1 DEF Ready
  <2>3. QED
    BY <2>1, <2>2
<1>2. CASE \E t \in Slots : x = Waiting(t)
  <2>1. PICK t \in Slots : x = Waiting(t)
    BY <1>2
  <2>2. x.ready = FALSE /\ x.val = t
    BY <2>1 DEF Waiting
  <2>3. QED
    BY <2>1, <2>2
<1>3. QED
  BY <1>1, <1>2 DEF Operands

\* Every register of renaming keeps its type.
LEMMA RatEdgeType ==
  ASSUME TypeOK, TypeOK', RatTypeOK,
         NEW f, NEW ustall, NEW cstall, NEW w, NEW o, NEW v, NEW frd, NEW fsrc, NEW flink,
         RatStep(f, ustall, cstall, w, o, v, frd, fsrc, flink)
  PROVE  RatTypeOK'
<1> DEFINE rs == RenameStall(ustall, cstall)
           alloc == Dispatch(rs) /\ rd[rrobid] # X0
<1> USE DEF RatStep
<1>0. RatEdge(f, ustall, cstall, w, o, v, frd, fsrc, flink)
  OBVIOUS
<1>1. /\ Fields(rs, w, v, frd, fsrc, flink) /\ OperandReads(rs, w, o, v)
      /\ Flags(alloc, w, o) /\ Tags(alloc) /\ SpecValues(w, o, v) /\ Commit /\ program' = program
  BY <1>0 DEF RatEdge
<1>2. /\ WbResult(v) \in Vals /\ RetResult \in Vals
      /\ \A r \in AllRegs : Lookup(r, w, o, v) \in Operands
  BY ValueTypes
<1>3. X0 \in AllRegs /\ 0 \in Vals /\ Ready(0) \in Operands /\ Idx(tail) \in Slots /\ Idx(head) \in Slots
  BY RatAssumption, PointerTypes DEF AllRegs, Operands, TypeOK
<1>4. drd' \in AllRegs /\ dsrc' \in AllRegs /\ dlink' \in Vals
  BY <1>1, <1>3 DEF Fields, RatTypeOK
<1>5. rd' \in [Slots -> AllRegs] /\ src' \in [Slots -> AllRegs]
  BY <1>1, <1>3 DEF Fields, Kept, RatTypeOK
<1>6. target' \in [Slots -> Vals]
  BY <1>1, <1>3 DEF Fields, Kept, RatTypeOK
<1>7. result' \in [Slots -> Vals]
  BY <1>1, <1>2, <1>3 DEF Fields, Kept, RatTypeOK
<1>8. op' \in [Slots -> Operands]
  <2>1. Ready(WbResult(v)) \in Operands
    BY <1>2 DEF Operands
  <2>2. \A s \in Slots : op[s] \in Operands /\ Lookup(src[s], w, o, v) \in Operands
    BY <1>2 DEF RatTypeOK
  <2>3. QED
    BY <1>1, <1>3, <2>1, <2>2 DEF OperandReads, Kept
<1>9. valid' \in [AllRegs -> BOOLEAN]
  <2>1. \A r \in AllRegs : Fwd(r, w, o) \in BOOLEAN /\ valid[r] \in BOOLEAN
    BY DEF Fwd, RatTypeOK
  <2>2. QED
    BY <1>1, <2>1 DEF Flags
<1>10. committed' \in [AllRegs -> BOOLEAN]
  BY <1>1 DEF Flags, RatTypeOK
<1>11. commval' \in [AllRegs -> Vals] /\ specval' \in [AllRegs -> Vals]
  BY <1>1, <1>2 DEF Commit, SpecValues, RatTypeOK
<1>12. tag' \in [AllRegs -> Slots]
  BY <1>1 DEF Tags, RatTypeOK, TypeOK
<1>13. QED
  BY <1>1, <1>4, <1>5, <1>6, <1>7, <1>8, <1>9, <1>10, <1>11, <1>12 DEF RatTypeOK

\* What an ordinary edge does to the order of the window, the fields of its
\* entries and the operands, beside WindowMoves.
RatMoves(rs, w, o, v) ==
  LET beat == DecodeBeat(rs)
      rest == Live(RetRd, tail)
  IN
    /\ \A s, t \in rest : Older(s, t)' <=> Older(s, t)
    /\ beat => \A s \in rest : Age(head', s) < Age(head', Idx(tail)) /\ ~(Age(head', Idx(tail)) < Age(head', s))
    /\ retv => \A s \in rest : Older(Idx(head), s) /\ ~Older(s, Idx(head))
    /\ rvalid => \A s \in InFlight : s = rrobid \/ (Older(s, rrobid) /\ ~Older(rrobid, s))
    /\ \A s \in rest : /\ rd'[s] = rd[s] /\ src'[s] = src[s]
                       /\ result'[s] = IF s = w THEN v ELSE result[s]
    /\ beat => rd'[Idx(tail)] = drd /\ src'[Idx(tail)] = dsrc
    /\ \A s \in rest :
         op'[s] = IF Dispatch(rs) /\ s = rrobid THEN Lookup(src[s], w, o, v)
                  ELSE IF /\ ~op[s].ready /\ op[s].val = WbRobid(w) /\ kind[s] # "csr"
                          /\ IF kind[s] \in {"load", "store"} THEN Delivers(w, o) ELSE Resolves(w, o)
                  THEN Ready(WbResult(v)) ELSE op[s]
    /\ \A s \in Slots \ rest : op'[s] = Ready(0)

\* Every ordinary edge does that.
LEMMA OrdinaryRatMoves ==
  ASSUME IInv, RatInv, ~RobFlush,
         NEW f, NEW ustall, NEW cstall, NEW w, NEW o, NEW v, NEW frd, NEW fsrc, NEW flink,
         RatStep(f, ustall, cstall, w, o, v, frd, fsrc, flink)
  PROVE  /\ WindowMoves(RenameStall(ustall, cstall), w)
         /\ RatMoves(RenameStall(ustall, cstall), w, o, v)
<1> DEFINE rs == RenameStall(ustall, cstall)
           beat == DecodeBeat(rs)
           rest == Live(RetRd, tail)
<1>e. /\ w \in pending \cup {None} /\ (w # None => ~fwdv)
      /\ Edge(f, ustall, cstall, w, o)
      /\ Fields(rs, w, v, frd, fsrc, flink) /\ OperandReads(rs, w, o, v)
  BY DEF RatStep, RatEdge
<1>w. WindowMoves(rs, w)
  BY <1>e, OrdinaryWindow DEF RatStep
<1>u. /\ head \in Ptrs /\ tail \in Ptrs /\ Idx(head) \in Slots /\ Idx(tail) \in Slots
      /\ RetRd \in Ptrs /\ retv \in BOOLEAN /\ rrobid \in Slots
      /\ Dist(head, tail) <= N /\ RetRd = IF retv THEN Inc(head) ELSE head
      /\ Dist(RetRd, tail) <= N /\ rest \subseteq InFlight /\ InFlight \subseteq Slots
      /\ head' = RetRd
      /\ Live(head', tail') = rest \cup (IF beat THEN {Idx(tail)} ELSE {})
      /\ \A s \in rest : ~(retv /\ s = Idx(head)) /\ s \in Slots
      /\ beat => Idx(tail) \notin InFlight /\ Dist(RetRd, tail) < N
      /\ Dist(head, tail) \in Int /\ Dist(RetRd, tail) \in Int
  BY <1>w, PointerTypes, DistanceType DEF IInv, TypeOK, WindowBounded, WindowMoves, RetRd, InFlight, Live
<1>a. /\ \A s \in Slots : Age(head, s) \in Nat /\ Age(RetRd, s) \in Nat
      /\ \A s, u \in Slots : Age(head, s) = Age(head, u) => s = u
      /\ Age(head, Idx(head)) = 0
  BY <1>u, AgeOrder, RingSize
<1>1. \A s, t \in rest : Older(s, t)' <=> Older(s, t)
  <2>1. CASE retv
    <3>1. \A s \in rest : Age(head', s) = Age(head, s) - 1
      BY <2>1, <1>u, AgeOrder
    <3>2. QED
      BY <3>1, <1>u, <1>a DEF Older
  <2>2. CASE ~retv
    BY <2>2, <1>u DEF Older
  <2>3. QED
    BY <2>1, <2>2, <1>u
<1>2. beat => \A s \in rest : Age(head', s) < Age(head', Idx(tail)) /\ ~(Age(head', Idx(tail)) < Age(head', s))
  <2>1. SUFFICES ASSUME beat, NEW s \in rest
                 PROVE  Age(RetRd, s) < Age(RetRd, Idx(tail)) /\ ~(Age(RetRd, Idx(tail)) < Age(RetRd, s))
    BY <1>u DEF Older
  <2>2. Age(RetRd, Idx(tail)) = Dist(RetRd, tail)
    BY <2>1, <1>u, AgeOrder
  <2>3. Age(RetRd, s) < Dist(RetRd, tail)
    BY <2>1 DEF Live
  <2>4. QED
    BY <2>2, <2>3, <1>u, <1>a
<1>3. retv => \A s \in rest : Older(Idx(head), s) /\ ~Older(s, Idx(head))
  <2>1. SUFFICES ASSUME retv, NEW s \in rest
                 PROVE  0 < Age(head, s) /\ ~(Age(head, s) < 0)
    BY <1>a DEF Older
  <2>2. s # Idx(head) /\ s \in Slots
    BY <2>1, <1>u
  <2>3. QED
    BY <2>2, <1>u, <1>a
<1>4. rvalid => \A s \in InFlight : s = rrobid \/ (Older(s, rrobid) /\ ~Older(rrobid, s))
  <2>1. SUFFICES ASSUME rvalid, NEW s \in InFlight, s # rrobid
                 PROVE  Age(head, s) < Age(head, rrobid) /\ ~(Age(head, rrobid) < Age(head, s))
    BY DEF Older
  <2>2. rrobid = Idx(Dec(tail)) /\ head # tail
    BY <2>1 DEF IInv, RenameYoungest
  <2>3. Age(head, rrobid) = Dist(head, tail) - 1
    BY <2>2, <1>u, AgeOrder
  <2>4. Age(head, s) < Dist(head, tail) /\ Age(head, s) # Age(head, rrobid) /\ s \in Slots
    BY <2>1, <1>u, <1>a DEF InFlight, Live
  <2>5. QED
    BY <2>3, <2>4, <1>u, <1>a
<1>5. \A s \in rest : rd'[s] = rd[s] /\ src'[s] = src[s]
  BY <1>e, <1>u DEF Fields, Kept
<1>6. \A s \in rest : result'[s] = IF s = w THEN v ELSE result[s]
  <2>1. SUFFICES ASSUME NEW s \in rest
                 PROVE  result'[s] = IF s = w THEN v ELSE result[s]
    OBVIOUS
  <2>2. s \in Slots /\ s \in Live(head', tail') /\ result \in [Slots -> Vals] /\ None \notin Slots
    BY <1>u, RingSize DEF RatInv, RatTypeOK, None, Slots
  <2>3. result'[s] = IF RobWrite(w) /\ WbRobid(w) = s THEN WbResult(v) ELSE result[s]
    BY <1>e, <2>2 DEF Fields, Kept
  <2>4. (RobWrite(w) <=> w # None) /\ (w # None => WbRobid(w) = w /\ ~fwdv)
    BY <1>e, <1>w DEF WindowMoves
  <2>5. QED
    BY <2>2, <2>3, <2>4 DEF WbResult
<1>7. beat => rd'[Idx(tail)] = drd /\ src'[Idx(tail)] = dsrc
  BY <1>e, <1>u DEF Fields, Kept, RatInv, RatTypeOK
<1>8. \A s \in rest :
         op'[s] = IF Dispatch(rs) /\ s = rrobid THEN Lookup(src[s], w, o, v)
                  ELSE IF /\ ~op[s].ready /\ op[s].val = WbRobid(w) /\ kind[s] # "csr"
                          /\ IF kind[s] \in {"load", "store"} THEN Delivers(w, o) ELSE Resolves(w, o)
                  THEN Ready(WbResult(v)) ELSE op[s]
  BY <1>e, <1>u DEF OperandReads, Kept
<1>9. \A s \in Slots \ rest : op'[s] = Ready(0)
  <2>1. SUFFICES ASSUME NEW s \in Slots \ rest PROVE op'[s] = Ready(0)
    OBVIOUS
  <2>2. CASE s \notin Live(head', tail')
    BY <1>e, <2>2 DEF OperandReads, Kept
  <2>3. CASE beat /\ s = Idx(tail)
    <3>1. s \notin InFlight /\ op[s] = Ready(0) /\ op[s].ready
      BY <2>3, <1>u DEF RatInv, OperandsStartEmpty, Ready
    <3>2. ~(Dispatch(rs) /\ s = rrobid)
      BY <1>w DEF WindowMoves, Dispatch
    <3>3. QED
      BY <1>e, <1>u, <2>3, <3>1, <3>2 DEF OperandReads, Kept
  <2>4. QED
    BY <2>2, <2>3, <1>u
<1>10. QED
  BY <1>w, <1>1, <1>2, <1>3, <1>4, <1>5, <1>6, <1>7, <1>8, <1>9 DEF RatMoves

\* A jalr stays the youngest instruction, for fetch has stopped.
LEMMA OrdinaryJalr ==
  ASSUME IInv, RatInv, ~RobFlush,
         NEW f, NEW ustall, NEW cstall, NEW w, NEW o, NEW v, NEW frd, NEW fsrc, NEW flink,
         RatStep(f, ustall, cstall, w, o, v, frd, fsrc, flink)
  PROVE  JalrIsLast'
<1> DEFINE rs == RenameStall(ustall, cstall)
           beat == DecodeBeat(rs)
           rest == Live(RetRd, tail)
<1>w. WindowMoves(rs, w)
  BY OrdinaryRatMoves
<1>e. Edge(f, ustall, cstall, w, o) /\ (fhalt => f = "none")
  BY DEF RatStep, RatEdge
<1>u. tail \in Ptrs /\ rvalid \in BOOLEAN /\ dvalid \in BOOLEAN
  BY DEF IInv, TypeOK
<1>1. IF DecodeStall(rs) THEN dvalid' = dvalid /\ fhalt' = fhalt /\ dkind' = dkind
      ELSE /\ dvalid' = (f # "none")
           /\ dkind' = IF f # "none" THEN f ELSE dkind
           /\ fhalt' = (fhalt \/ f = "jalr")
  BY <1>e DEF Edge, DecodeLatch, decVars
<1>2. beat => ~DecodeStall(rs)
  BY DEF DecodeBeat, DecodeStall
<1>3. dvalid' /\ dkind' = "jalr" => fhalt'
  BY <1>1 DEF RatInv, JalrIsLast
<1>4. ASSUME NEW s \in InFlight', kind'[s] = "jalr"
      PROVE  fhalt' /\ ~dvalid' /\ s = Idx(Dec(tail'))
  <2>1. CASE beat /\ s = Idx(tail)
    <3>1. dkind = "jalr" /\ dvalid /\ tail' = Inc(tail)
      BY <1>4, <1>w, <2>1 DEF WindowMoves, DecodeBeat
    <3>2. fhalt /\ ~dvalid' /\ fhalt'
      BY <1>e, <1>1, <1>2, <2>1, <3>1 DEF RatInv, JalrIsLast
    <3>3. QED
      BY <1>u, <2>1, <3>1, <3>2, PointerTypes
  <2>2. CASE s \in rest
    <3>1. s \in InFlight /\ kind[s] = "jalr"
      BY <1>4, <1>w, <2>2 DEF WindowMoves
    <3>2. fhalt /\ ~dvalid /\ s = Idx(Dec(tail))
      BY <3>1 DEF RatInv, JalrIsLast
    <3>3. ~beat /\ tail' = tail
      BY <1>w, <3>2 DEF WindowMoves, DecodeBeat
    <3>4. QED
      BY <1>e, <1>1, <3>2, <3>3
  <2>3. QED
    BY <1>4, <1>w, <2>1, <2>2 DEF WindowMoves
<1>5. fwdv' => kind'[fwdrobid'] = "jalr"
  <2>1. SUFFICES ASSUME fwdv' PROVE kind'[fwdrobid'] = "jalr"
    OBVIOUS
  <2>2. rvalid /\ rkind = "jalr" /\ fwdrobid' = rrobid
    BY <1>e, <2>1 DEF Edge, Forward, Dispatch
  <2>3. rrobid \in InFlight /\ kind[rrobid] = "jalr"
    BY <1>w, <2>2 DEF WindowMoves, IInv, RenameYoungest
  <2>4. QED
    BY <1>w, <2>2, <2>3 DEF WindowMoves
<1>6. QED
  BY <1>3, <1>4, <1>5 DEF JalrIsLast

\* A csr access leaves rename only as the oldest instruction.
LEMMA OrdinaryCsr ==
  ASSUME IInv, RatInv, ~RobFlush,
         NEW f, NEW ustall, NEW cstall, NEW w, NEW o, NEW v, NEW frd, NEW fsrc, NEW flink,
         RatStep(f, ustall, cstall, w, o, v, frd, fsrc, flink)
  PROVE  CsrIsFirst'
<1> DEFINE rs == RenameStall(ustall, cstall)
           beat == DecodeBeat(rs)
           rest == Live(RetRd, tail)
<1>w. WindowMoves(rs, w)
  BY OrdinaryRatMoves
<1>1. SUFFICES ASSUME NEW s \in InFlight', kind'[s] = "csr", ~InRename(s)'
               PROVE  s = Idx(head')
  BY DEF CsrIsFirst
<1>2. CASE beat /\ s = Idx(tail)
  <2>1. kind'[s] = dkind /\ ~rs
    BY <1>w, <1>2 DEF WindowMoves, DecodeBeat
  <2>2. InRename(s)'
    BY <1>1, <1>2, <1>w, <2>1 DEF WindowMoves, InRename, IsErr
  <2>3. QED
    BY <1>1, <2>2
<1>3. CASE s \in rest
  <2>1. s \in InFlight /\ kind[s] = "csr" /\ ~(retv /\ s = Idx(head)) /\ head' = RetRd
    BY <1>1, <1>3, <1>w DEF WindowMoves
  <2>2. CASE InRename(s)
    <3>1. ~rs /\ rkind = "csr"
      BY <1>1, <2>1, <2>2, <1>w DEF WindowMoves, InRename, IInv, RenameYoungest
    <3>2. QED
      BY <2>1, <2>2, <3>1 DEF RenameStall, RenameIsHead, InRename
  <2>3. CASE ~InRename(s)
    BY <2>1, <2>3 DEF RatInv, CsrIsFirst, RetRd
  <2>4. QED
    BY <2>2, <2>3
<1>4. QED
  BY <1>1, <1>2, <1>3, <1>w DEF WindowMoves

\* Destination registers travel with their instructions; x0 is never renamed.
LEMMA OrdinaryFields ==
  ASSUME IInv, RatInv, ~RobFlush,
         NEW f, NEW ustall, NEW cstall, NEW w, NEW o, NEW v, NEW frd, NEW fsrc, NEW flink,
         RatStep(f, ustall, cstall, w, o, v, frd, fsrc, flink)
  PROVE  WritersRun' /\ ZeroIsValid' /\ OperandsStartEmpty'
<1> DEFINE rs == RenameStall(ustall, cstall)
           alloc == Dispatch(rs) /\ rd[rrobid] # X0
           beat == DecodeBeat(rs)
           rest == Live(RetRd, tail)
<1>w. WindowMoves(rs, w) /\ RatMoves(rs, w, o, v)
  BY OrdinaryRatMoves
<1>e. /\ Edge(f, ustall, cstall, w, o) /\ Fields(rs, w, v, frd, fsrc, flink) /\ Flags(alloc, w, o)
      /\ (frd # X0 => ~IsErr(f) /\ ~IsStore(f))
  BY DEF RatStep, RatEdge
<1>1. dvalid' /\ drd' # X0 => ~IsErr(dkind') /\ ~IsStore(dkind')
  <2>1. SUFFICES ASSUME dvalid', drd' # X0 PROVE ~IsErr(dkind') /\ ~IsStore(dkind')
    OBVIOUS
  <2>2. CASE DecodeStall(rs)
    <3>1. dvalid /\ dkind' = dkind /\ drd' = drd
      BY <1>e, <2>1, <2>2 DEF Edge, DecodeLatch, decVars, Fields
    <3>2. QED
      BY <2>1, <3>1 DEF RatInv, WritersRun
  <2>3. CASE ~DecodeStall(rs)
    <3>1. f # "none" /\ dkind' = f /\ drd' = frd
      BY <1>e, <2>1, <2>3 DEF Edge, DecodeLatch, decVars, Fields
    <3>2. QED
      BY <1>e, <2>1, <3>1
  <2>4. QED
    BY <2>2, <2>3
<1>2. ASSUME NEW s \in InFlight', rd'[s] # X0
      PROVE  ~IsErr(kind'[s]) /\ ~IsStore(kind'[s])
  <2>1. CASE beat /\ s = Idx(tail)
    BY <1>2, <1>w, <2>1 DEF WindowMoves, RatMoves, DecodeBeat, RatInv, WritersRun
  <2>2. CASE s \in rest
    BY <1>2, <1>w, <2>2 DEF WindowMoves, RatMoves, RatInv, WritersRun
  <2>3. QED
    BY <1>2, <1>w, <2>1, <2>2 DEF WindowMoves
<1>3. ZeroIsValid'
  <2>1. X0 \in AllRegs /\ (alloc => X0 # rd[rrobid]) /\ valid[X0]
    BY DEF AllRegs, RatInv, ZeroIsValid
  <2>2. QED
    BY <1>e, <2>1 DEF Flags, ZeroIsValid
<1>4. OperandsStartEmpty'
  <2>1. SUFFICES ASSUME NEW s \in Slots, s \notin InFlight' \/ InRename(s)' \/ IsErr(kind'[s])
                 PROVE  op'[s] = Ready(0)
    BY DEF OperandsStartEmpty
  <2>2. CASE s \notin rest
    BY <1>w, <2>2 DEF RatMoves
  <2>3. CASE s \in rest
    <3>1. s \in InFlight /\ s \in InFlight' /\ kind'[s] = kind[s] /\ (beat => s # Idx(tail))
      BY <1>w, <2>3 DEF WindowMoves
    <3>2. InRename(s)' => rs /\ InRename(s)
      BY <1>w, <3>1 DEF WindowMoves, InRename, RenameStall
    <3>3. ~(Dispatch(rs) /\ s = rrobid) /\ (InRename(s) \/ IsErr(kind[s]))
      BY <2>1, <3>1, <3>2 DEF Dispatch, IInv, RenameYoungest
    <3>4. op[s] = Ready(0) /\ op[s].ready
      BY <3>3 DEF RatInv, OperandsStartEmpty, Ready
    <3>5. QED
      BY <1>w, <2>3, <3>3, <3>4 DEF RatMoves
  <2>4. QED
    BY <2>2, <2>3
<1>5. QED
  BY <1>1, <1>2, <1>3, <1>4 DEF WritersRun

\* What is on the bus for a register: the result of the writer its tag names,
\* or the link address of a jalr.
LEMMA BusWriter ==
  ASSUME IInv, RatInv, NEW w \in pending \cup {None}, w # None => ~fwdv, NEW o, NEW r \in Regs
  PROVE  /\ ~fwdv => (Fwd(r, w, o) <=> /\ w # None /\ w = tag[r] /\ w \in Writers(r)
                                       /\ kind[w] # "jalr" /\ o # "err")
         /\ fwdv /\ Fwd(r, w, o) => tag[r] \in Writers(r) /\ kind[tag[r]] = "jalr"
<1>1. r # X0
  BY RatAssumption DEF X0
<1>2. \A s \in pending : s \in InFlight /\ ~InRename(s) /\ s \in Slots
  BY DEF IInv, TypeOK, ResultsHaveOwners, RenameYoungest, InRename
<1>3. None \notin Slots
  BY RingSize DEF None, Slots
<1>4. CASE ~fwdv
  <2>1. CASE w = None
    BY <1>4, <2>1 DEF Fwd, WbWrite, Resolves, Delivers, WbRobid
  <2>2. CASE w # None
    BY <1>1, <1>2, <1>4, <2>2
       DEF Fwd, WbWrite, Resolves, Delivers, WbRobid, WbError, WbHasRd, UnitHasRd, WbRd, Writers
  <2>3. QED
    BY <1>4, <2>1, <2>2
<1>5. CASE fwdv
  <2>1. SUFFICES ASSUME Fwd(r, w, o) PROVE tag[r] \in Writers(r) /\ kind[tag[r]] = "jalr"
    BY <1>5
  <2>2. tag[r] = fwdrobid /\ rd[fwdrobid] = r
    BY <1>5, <2>1 DEF Fwd, WbWrite, WbRobid, WbRd
  <2>3. fwdrobid \in pending /\ kind[fwdrobid] = "jalr"
    BY <1>5 DEF IInv, ForwardOwned, RatInv, JalrIsLast
  <2>4. QED
    BY <1>2, <2>2, <2>3 DEF Writers
<1>6. QED
  BY <1>4, <1>5

\* What retires without a flush has its result, and leaves it in the committed
\* registers.
LEMMA Retiring ==
  ASSUME IInv, RatInv, ~RobFlush, Commit
  PROVE  /\ retv => /\ Delivered(Idx(head)) /\ kind[Idx(head)] # "jalr" /\ ~InRename(Idx(head))
                    /\ Idx(head) \in InFlight
         /\ \A r \in Regs : commval'[r] = IF retv /\ rd[Idx(head)] = r
                                          THEN result[Idx(head)] ELSE commval[r]
<1>1. retv => /\ Delivered(Idx(head)) /\ kind[Idx(head)] # "jalr" /\ ~InRename(Idx(head))
              /\ retk = kind[Idx(head)] /\ reto = "ok" /\ head # tail
  BY DEF IInv, RetireStage, RenameYoungest, RobFlush, Delivered, InRename
<1>2. retv => Idx(head) \in InFlight
  BY <1>1, TakeOldest DEF IInv, TypeOK, WindowBounded, InFlight
<1>3. \A r \in Regs : r # X0 /\ r \in AllRegs
  BY RatAssumption DEF X0, AllRegs
<1>4. \A r \in Regs : commval'[r] = IF retv /\ rd[Idx(head)] = r
                                    THEN result[Idx(head)] ELSE commval[r]
  <2>1. CASE retv
    BY <1>1, <1>3, <2>1 DEF Commit, RobRetValid, RetResult, RatInv, RatTypeOK
  <2>2. CASE ~retv
    BY <2>2 DEF Commit, RobRetValid
  <2>3. QED
    BY <2>1, <2>2
<1>5. QED
  BY <1>1, <1>2, <1>4

\* The writers of a register after an ordinary edge, and who has his result.
LEMMA WritersMove ==
  ASSUME IInv, RatInv, ~RobFlush,
         NEW f, NEW ustall, NEW cstall, NEW w, NEW o, NEW v, NEW frd, NEW fsrc, NEW flink,
         RatStep(f, ustall, cstall, w, o, v, frd, fsrc, flink)
  PROVE  LET rs   == RenameStall(ustall, cstall)
             rest == Live(RetRd, tail)
         IN /\ \A r \in Regs :
                 Writers(r)' = (Writers(r) \cap rest)
                               \cup (IF Dispatch(rs) /\ rd[rrobid] = r THEN {rrobid} ELSE {})
            /\ \A t \in rest : Delivered(t)' <=> IF t = w THEN o # "err" ELSE Delivered(t)
            /\ w # None => w \in rest /\ ~Delivered(w)
<1> DEFINE rs == RenameStall(ustall, cstall)
           beat == DecodeBeat(rs)
           rest == Live(RetRd, tail)
<1>w. WindowMoves(rs, w) /\ RatMoves(rs, w, o, v)
  BY OrdinaryRatMoves
<1>1. /\ rest \subseteq InFlight /\ rest \subseteq InFlight'
      /\ InFlight' = rest \cup (IF beat THEN {Idx(tail)} ELSE {})
      /\ beat => Idx(tail) \notin rest
      /\ rvalid => rrobid \in rest
  BY <1>w DEF WindowMoves
<1>2. ASSUME NEW t \in rest
      PROVE  InRename(t)' <=> rs /\ InRename(t)
  BY <1>w, <1>1, <1>2 DEF WindowMoves, InRename, RenameStall
<1>3. ASSUME NEW t, beat, t = Idx(tail) PROVE rd'[t] # X0 => InRename(t)'
  BY <1>w, <1>3 DEF WindowMoves, RatMoves, InRename, DecodeBeat, RatInv, WritersRun
<1>4. ASSUME NEW r \in Regs
      PROVE  Writers(r)' = (Writers(r) \cap rest)
                           \cup (IF Dispatch(rs) /\ rd[rrobid] = r THEN {rrobid} ELSE {})
  <2>1. r # X0
    BY RatAssumption DEF X0
  <2>2. Writers(r)' = {t \in InFlight' : rd'[t] = r /\ ~InRename(t)'}
    BY DEF Writers
  <2>3. Writers(r)' = {t \in rest : rd[t] = r /\ ~(rs /\ InRename(t))}
    BY <1>1, <1>2, <1>3, <1>w, <2>1, <2>2 DEF RatMoves
  <2>4. ASSUME NEW t \in rest PROVE ~(rs /\ InRename(t)) <=> ~InRename(t) \/ (Dispatch(rs) /\ t = rrobid)
    BY <1>w DEF InRename, Dispatch, WindowMoves
  <2>5. Dispatch(rs) => rrobid \in rest
    BY <1>1 DEF Dispatch
  <2>6. QED
    BY <1>1, <2>3, <2>4, <2>5 DEF Writers
<1>5. w # None => w \in rest /\ ~Delivered(w) /\ outcome'[w] = o
  <2>1. SUFFICES ASSUME w # None PROVE w \in rest /\ ~Delivered(w) /\ outcome'[w] = o
    OBVIOUS
  <2>2. w \in pending /\ w \in InFlight /\ ~executed[w] /\ RobWrite(w) /\ WbRobid(w) = w
    BY <1>w, <2>1 DEF WindowMoves
  <2>3. w \in rest
    BY <1>w, <2>2 DEF WindowMoves, IInv, RetireStage
  <2>4. outcome'[w] = o
    BY <2>2 DEF RatStep, RatEdge, Edge, BufWrite, IInv, TypeOK
  <2>5. QED
    BY <2>2, <2>3, <2>4 DEF Delivered
<1>6. \A t \in rest : Delivered(t)' <=> IF t = w THEN o # "err" ELSE Delivered(t)
  <2>1. \A t \in rest : t = w => w # None
    BY RingSize DEF Live, Slots, None
  <2>2. QED
    BY <1>w, <1>1, <1>5, <2>1 DEF WindowMoves, Delivered
<1>7. QED
  BY <1>4, <1>5, <1>6

\* The alias table follows the youngest writer: an allocation names the new one,
\* a result with the tag is its result, and retirement takes the last one out
\* only with its result in the committed registers.
LEMMA OrdinaryTable ==
  ASSUME IInv, RatInv, ~RobFlush,
         NEW f, NEW ustall, NEW cstall, NEW w, NEW o, NEW v, NEW frd, NEW fsrc, NEW flink,
         RatStep(f, ustall, cstall, w, o, v, frd, fsrc, flink)
  PROVE  TableFollows'
<1> DEFINE rs == RenameStall(ustall, cstall)
           alloc == Dispatch(rs) /\ rd[rrobid] # X0
           rest == Live(RetRd, tail)
<1>w. WindowMoves(rs, w) /\ RatMoves(rs, w, o, v)
  BY OrdinaryRatMoves
<1>e. /\ Flags(alloc, w, o) /\ Tags(alloc) /\ SpecValues(w, o, v) /\ Commit
      /\ w \in pending \cup {None} /\ (w # None => ~fwdv)
  BY DEF RatStep, RatEdge
<1>m. /\ \A r \in Regs :
           Writers(r)' = (Writers(r) \cap rest)
                         \cup (IF Dispatch(rs) /\ rd[rrobid] = r THEN {rrobid} ELSE {})
      /\ \A t \in rest : Delivered(t)' <=> IF t = w THEN o # "err" ELSE Delivered(t)
      /\ w # None => w \in rest /\ ~Delivered(w)
  BY WritersMove
<1>h. /\ retv => /\ Delivered(Idx(head)) /\ kind[Idx(head)] # "jalr" /\ ~InRename(Idx(head))
                 /\ Idx(head) \in InFlight
      /\ \A r \in Regs : commval'[r] = IF retv /\ rd[Idx(head)] = r
                                       THEN result[Idx(head)] ELSE commval[r]
  BY <1>e, Retiring
<1>r. /\ \A s : s \in rest <=> s \in InFlight /\ ~(retv /\ s = Idx(head))
      /\ retv => \A s \in rest : ~Older(s, Idx(head))
      /\ \A s, t \in rest : Older(s, t)' <=> Older(s, t)
      /\ \A s \in rest : result'[s] = (IF s = w THEN v ELSE result[s]) /\ kind'[s] = kind[s]
  BY <1>w DEF WindowMoves, RatMoves
<1>1. SUFFICES ASSUME NEW r \in Regs, NEW n, n = tag'[r]
               PROVE  IF Writers(r)' = {}
                      THEN valid'[r] /\ (committed'[r] \/ specval'[r] = commval'[r])
                      ELSE /\ ~committed'[r]
                           /\ n \in Writers(r)' /\ \A u \in Writers(r)' : u = n \/ Older(u, n)'
                           /\ kind'[n] # "jalr" =>
                                /\ valid'[r] <=> Delivered(n)'
                                /\ valid'[r] => specval'[r] = result'[n]
  BY DEF TableFollows, Youngest, Older, Delivered
<1>2. r # X0 /\ r \in AllRegs
  BY RatAssumption DEF X0, AllRegs
<1>3. /\ ~fwdv => (Fwd(r, w, o) <=> /\ w # None /\ w = tag[r] /\ w \in Writers(r)
                                    /\ kind[w] # "jalr" /\ o # "err")
      /\ fwdv /\ Fwd(r, w, o) => tag[r] \in Writers(r) /\ kind[tag[r]] = "jalr"
  BY <1>e, BusWriter
<1>4. IF Writers(r) = {}
      THEN valid[r] /\ (committed[r] \/ specval[r] = commval[r])
      ELSE /\ ~committed[r] /\ Youngest(Writers(r), tag[r])
           /\ kind[tag[r]] # "jalr" =>
                /\ valid[r] <=> Delivered(tag[r])
                /\ valid[r] => specval[r] = result[tag[r]]
  BY DEF RatInv, TableFollows
<1>5. Writers(r) \subseteq InFlight
  BY DEF Writers
<1>6. CASE alloc /\ rd[rrobid] = r
  <2>1. rvalid /\ rrobid \in rest /\ n = rrobid
    BY <1>e, <1>w, <1>1, <1>2, <1>6 DEF WindowMoves, Dispatch, Tags, RatInv, RatTypeOK
  <2>2. ~valid'[r] /\ ~committed'[r]
    BY <1>e, <1>2, <1>6 DEF Flags, RobFlush
  <2>3. n \in Writers(r)' /\ \A u \in Writers(r)' : u = n \/ Older(u, n)'
    <3>1. \A u \in Writers(r) \cap rest : u = n \/ Older(u, n)
      BY <1>w, <1>5, <2>1 DEF RatMoves
    <3>2. QED
      BY <1>m, <1>r, <1>6, <2>1, <3>1
  <2>4. ~Delivered(n)'
    <3>1. rrobid \in InFlight /\ ~executed[rrobid] /\ rrobid \notin pending
      BY <1>2, <1>6, <1>r, <2>1 DEF IInv, RenameYoungest, RatInv, WritersRun
    <3>2. rrobid # w
      BY <1>w, <2>1, <3>1 DEF WindowMoves
    <3>3. QED
      BY <1>m, <2>1, <3>1, <3>2 DEF Delivered
  <2>5. Writers(r)' # {}
    BY <2>3
  <2>6. QED
    BY <2>2, <2>3, <2>4, <2>5
<1>7. CASE ~(alloc /\ rd[rrobid] = r)
  <2>1. n = tag[r]
    BY <1>e, <1>1, <1>2, <1>7 DEF Tags, RatInv, RatTypeOK
  <2>2. Writers(r)' = Writers(r) \cap rest
    BY <1>m, <1>2, <1>7
  <2>3. /\ valid'[r] <=> valid[r] \/ Fwd(r, w, o)
        /\ committed'[r] <=> committed[r]
        /\ specval'[r] = IF Fwd(r, w, o) THEN WbResult(v) ELSE specval[r]
    BY <1>e, <1>2, <1>7 DEF Flags, SpecValues
  <2>4. Fwd(r, w, o) => tag[r] \in Writers(r)
    BY <1>3 DEF IInv, TypeOK
  <2>5. CASE Writers(r) = {}
    <3>1. ~(retv /\ rd[Idx(head)] = r)
      BY <1>h, <2>5 DEF Writers
    <3>2. QED
      BY <1>4, <1>h, <2>2, <2>3, <2>4, <2>5, <3>1
  <2>6. CASE Writers(r) # {} /\ Writers(r)' = {}
    <3>1. retv /\ tag[r] = Idx(head) /\ rd[Idx(head)] = r /\ tag[r] \notin rest
      BY <1>4, <1>5, <1>r, <2>2, <2>6 DEF Youngest, Writers
    <3>2. valid[r] /\ specval[r] = result[Idx(head)]
      BY <1>4, <1>h, <2>6, <3>1
    <3>3. ~Fwd(r, w, o)
      BY <1>3, <1>h, <1>m, <3>1 DEF IInv, TypeOK
    <3>4. QED
      BY <1>h, <2>3, <2>6, <3>1, <3>2, <3>3
  <2>7. CASE Writers(r)' # {}
    <3>1. Writers(r) # {} /\ n \in Writers(r) /\ ~committed'[r]
      BY <1>4, <2>1, <2>2, <2>3, <2>7 DEF Youngest
    <3>2. n \in rest
      BY <1>4, <1>5, <1>r, <2>1, <2>2, <2>7, <3>1 DEF Youngest
    <3>3. n \in Writers(r)' /\ \A u \in Writers(r)' : u = n \/ Older(u, n)'
      BY <1>4, <1>r, <2>1, <2>2, <3>1, <3>2 DEF Youngest
    <3>4. ASSUME kind'[n] # "jalr"
          PROVE  (valid'[r] <=> Delivered(n)') /\ (valid'[r] => specval'[r] = result'[n])
      <4>1. kind[n] # "jalr" /\ (valid[r] <=> Delivered(n)) /\ (valid[r] => specval[r] = result[n])
        BY <1>4, <1>r, <2>1, <3>1, <3>2, <3>4
      <4>2. CASE n = w /\ w # None
        <5>1. ~fwdv /\ ~valid[r] /\ (Fwd(r, w, o) <=> o # "err") /\ WbResult(v) = v
          BY <1>3, <1>e, <1>m, <2>1, <3>1, <4>1, <4>2 DEF WbResult
        <5>2. QED
          BY <1>m, <1>r, <2>3, <3>2, <4>2, <5>1
      <4>3. CASE n # w
        <5>1. ~Fwd(r, w, o)
          BY <1>3, <2>1, <4>1, <4>3 DEF IInv, TypeOK
        <5>2. QED
          BY <1>m, <1>r, <2>3, <3>2, <4>1, <4>3, <5>1
      <4>4. n # None
        BY <3>2, RingSize DEF Live, Slots, None
      <4>5. QED
        BY <4>2, <4>3, <4>4
    <3>5. QED
      BY <2>7, <3>1, <3>3, <3>4
  <2>8. QED
    BY <2>2, <2>5, <2>6, <2>7
<1>8. QED
  BY <1>6, <1>7

\* Nothing in flight is older than the head, younger than the entry before the
\* tail, or older than itself.  Nobody reads what a jalr writes.
LEMMA EndsOfWindow ==
  ASSUME IInv, RatInv, NEW s \in InFlight
  PROVE  /\ ~Older(s, Idx(head)) /\ ~Older(Idx(Dec(tail)), s) /\ ~Older(s, s)
         /\ \A t \in InFlight : kind[t] = "jalr" => ~Older(t, s)
<1>1. /\ head \in Ptrs /\ tail \in Ptrs /\ s \in Slots /\ Dist(head, tail) <= N
      /\ Age(head, s) < Dist(head, tail) /\ Dist(head, tail) \in Int
  BY DistanceType DEF IInv, TypeOK, WindowBounded, InFlight, Live
<1>2. Age(head, s) \in Nat /\ Age(head, Idx(head)) = 0
  BY <1>1, AgeOrder, RingSize
<1>3. head # tail
  BY <1>1, <1>2, DistanceType
<1>4. Age(head, Idx(Dec(tail))) = Dist(head, tail) - 1
  BY <1>1, <1>3, AgeOrder
<1>5. ~Older(s, Idx(head)) /\ ~Older(Idx(Dec(tail)), s) /\ ~Older(s, s)
  BY <1>1, <1>2, <1>4 DEF Older
<1>6. QED
  BY <1>5 DEF RatInv, JalrIsLast

\* Retirement takes a producer away, arrival adds none.
LEMMA ProducersMove ==
  ASSUME IInv, RatInv, ~RobFlush,
         NEW f, NEW ustall, NEW cstall, NEW w, NEW o, NEW v, NEW frd, NEW fsrc, NEW flink,
         RatStep(f, ustall, cstall, w, o, v, frd, fsrc, flink),
         NEW s \in Live(RetRd, tail)
  PROVE  Producers(s)' = Producers(s) \cap Live(RetRd, tail)
<1> DEFINE rs == RenameStall(ustall, cstall)
           beat == DecodeBeat(rs)
           rest == Live(RetRd, tail)
<1>w. WindowMoves(rs, w) /\ RatMoves(rs, w, o, v)
  BY OrdinaryRatMoves
<1>1. /\ rest \subseteq InFlight
      /\ InFlight' = rest \cup (IF beat THEN {Idx(tail)} ELSE {})
  BY <1>w DEF WindowMoves
<1>2. \A t \in rest : (Older(t, s)' <=> Older(t, s)) /\ rd'[t] = rd[t]
  BY <1>w DEF RatMoves
<1>3. ASSUME NEW t, beat, t = Idx(tail) PROVE ~Older(t, s)'
  BY <1>w, <1>3 DEF RatMoves, Older
<1>4. src'[s] = src[s]
  BY <1>w DEF RatMoves
<1>5. Producers(s)' = {t \in InFlight' : rd'[t] = src'[s] /\ Older(t, s)'}
  BY DEF Producers
<1>6. QED
  BY <1>1, <1>2, <1>3, <1>4, <1>5 DEF Producers

\* An instruction that waits in a station, in the store queue or in the csr unit
\* keeps what it has, and takes the result it waits for when that passes.
LEMMA HeldOperand ==
  ASSUME IInv, RatInv, ~RobFlush,
         NEW f, NEW ustall, NEW cstall, NEW w, NEW o, NEW v, NEW frd, NEW fsrc, NEW flink,
         RatStep(f, ustall, cstall, w, o, v, frd, fsrc, flink),
         NEW s \in Live(RetRd, tail), ~InRename(s), ~IsErr(kind[s])
  PROVE  IF src[s] = X0 THEN op'[s].ready /\ op'[s] = op[s]
         ELSE IF Producers(s)' = {} THEN op'[s] = Ready(commval'[src[s]])
         ELSE \E t \in Producers(s)' :
                /\ \A u \in Producers(s)' : u = t \/ Older(u, t)'
                /\ op'[s] = IF Delivered(t)' THEN Ready(result'[t]) ELSE Waiting(t)
<1> DEFINE rs == RenameStall(ustall, cstall)
           rest == Live(RetRd, tail)
           r == src[s]
<1>w. WindowMoves(rs, w) /\ RatMoves(rs, w, o, v)
  BY OrdinaryRatMoves
<1>e. Commit /\ w \in pending \cup {None} /\ (w # None => ~fwdv)
  BY DEF RatStep, RatEdge
<1>m. /\ \A t \in rest : Delivered(t)' <=> IF t = w THEN o # "err" ELSE Delivered(t)
      /\ w # None => w \in rest /\ ~Delivered(w)
  BY WritersMove
<1>h. /\ retv => /\ Delivered(Idx(head)) /\ kind[Idx(head)] # "jalr" /\ ~InRename(Idx(head))
                 /\ Idx(head) \in InFlight
      /\ \A x \in Regs : commval'[x] = IF retv /\ rd[Idx(head)] = x
                                       THEN result[Idx(head)] ELSE commval[x]
  BY <1>e, Retiring
<1>r. /\ \A t : t \in rest <=> t \in InFlight /\ ~(retv /\ t = Idx(head))
      /\ retv => \A t \in rest : Older(Idx(head), t) /\ ~Older(t, Idx(head))
      /\ \A t, u \in rest : Older(t, u)' <=> Older(t, u)
      /\ \A t \in rest : result'[t] = (IF t = w THEN v ELSE result[t]) /\ kind'[t] = kind[t]
  BY <1>w DEF WindowMoves, RatMoves
<1>1. s \in InFlight /\ s \in Slots /\ r \in AllRegs /\ (r # X0 => r \in Regs)
  BY <1>r DEF InFlight, Live, RatInv, RatTypeOK, AllRegs
<1>2. op'[s] = IF /\ ~op[s].ready /\ op[s].val = WbRobid(w) /\ kind[s] # "csr"
                  /\ IF kind[s] \in {"load", "store"} THEN Delivers(w, o) ELSE Resolves(w, o)
               THEN Ready(WbResult(v)) ELSE op[s]
  BY <1>w DEF RatMoves, Dispatch, InRename
<1>3. IF r = X0 THEN op[s].ready
      ELSE IF Producers(s) = {} THEN op[s] = Ready(commval[r])
      ELSE \E t \in Producers(s) :
             /\ Youngest(Producers(s), t)
             /\ op[s] = IF Delivered(t) THEN Ready(result[t]) ELSE Waiting(t)
  BY <1>1 DEF RatInv, OperandsFollow
<1>4. Producers(s)' = Producers(s) \cap rest
  BY ProducersMove
<1>5. CASE r = X0
  BY <1>2, <1>3, <1>5
<1>6. CASE r # X0 /\ Producers(s) = {}
  <2>1. op'[s] = Ready(commval[r])
    BY <1>2, <1>3, <1>6 DEF Ready
  <2>2. ~(retv /\ rd[Idx(head)] = r)
    BY <1>6, <1>h, <1>r DEF Producers
  <2>3. QED
    BY <1>1, <1>4, <1>6, <1>h, <2>1, <2>2
<1>7. CASE r # X0 /\ Producers(s) # {}
  <2>1. PICK t \in Producers(s) :
               /\ Youngest(Producers(s), t)
               /\ op[s] = IF Delivered(t) THEN Ready(result[t]) ELSE Waiting(t)
    BY <1>3, <1>7
  <2>2. t \in InFlight /\ rd[t] = r /\ Older(t, s) /\ kind[t] # "jalr"
    BY <1>1, <2>1, EndsOfWindow DEF Producers
  <2>3. CASE t \notin rest
    <3>1. retv /\ t = Idx(head) /\ Delivered(t)
      BY <1>h, <1>r, <2>2, <2>3
    <3>2. Producers(s)' = {}
      BY <1>4, <1>r, <2>1, <3>1 DEF Youngest
    <3>3. op'[s] = Ready(result[t])
      BY <1>2, <2>1, <3>1 DEF Ready
    <3>4. QED
      BY <1>1, <1>7, <1>h, <2>2, <3>1, <3>2, <3>3
  <2>4. CASE t \in rest
    <3>1. t \in Producers(s)' /\ \A u \in Producers(s)' : u = t \/ Older(u, t)'
      BY <1>4, <1>r, <2>1, <2>4 DEF Youngest
    <3>2. op'[s] = IF Delivered(t)' THEN Ready(result'[t]) ELSE Waiting(t)
      <4>1. CASE Delivered(t)
        <5>1. op'[s] = Ready(result[t])
          BY <1>2, <2>1, <4>1 DEF Ready
        <5>2. Delivered(t)' /\ result'[t] = result[t]
          BY <1>m, <1>r, <2>4, <4>1, RingSize DEF Live, Slots, None
        <5>3. QED
          BY <5>1, <5>2
      <4>2. CASE ~Delivered(t)
        <5>1. op[s] = Waiting(t) /\ ~op[s].ready /\ op[s].val = t
          BY <2>1, <4>2 DEF Waiting
        <5>2. kind[s] # "csr"
          BY <1>1, <2>2, EndsOfWindow DEF RatInv, CsrIsFirst
        <5>3. CASE t = w
          <6>1. w # None /\ ~fwdv /\ WbRobid(w) = w /\ WbResult(v) = v
            BY <1>e, <2>4, <5>3, RingSize DEF Live, Slots, None, WbRobid, WbResult
          <6>2. (Delivers(w, o) <=> o # "err") /\ (Resolves(w, o) <=> o # "err")
            BY <1>7, <2>2, <5>3, <6>1 DEF Delivers, Resolves, WbError, WbHasRd, UnitHasRd
          <6>3. op'[s] = IF o # "err" THEN Ready(v) ELSE Waiting(t)
            BY <1>2, <5>1, <5>2, <5>3, <6>1, <6>2
          <6>4. QED
            BY <1>m, <1>r, <2>4, <5>3, <6>3
        <5>4. CASE t # w
          <6>1. WbRobid(w) # t
            BY <2>2, <5>4 DEF WbRobid, RatInv, JalrIsLast
          <6>2. op'[s] = Waiting(t)
            BY <1>2, <5>1, <6>1
          <6>3. QED
            BY <1>m, <2>4, <4>2, <5>4, <6>2
        <5>5. QED
          BY <5>3, <5>4
      <4>3. QED
        BY <4>1, <4>2
    <3>3. QED
      BY <1>7, <3>1, <3>2
  <2>5. QED
    BY <2>3, <2>4
<1>8. QED
  BY <1>5, <1>6, <1>7

\* Dispatch reads the alias table, or the bus, and finds what program order says.
LEMMA DispatchedOperand ==
  ASSUME IInv, RatInv, ~RobFlush,
         NEW f, NEW ustall, NEW cstall, NEW w, NEW o, NEW v, NEW frd, NEW fsrc, NEW flink,
         RatStep(f, ustall, cstall, w, o, v, frd, fsrc, flink),
         Dispatch(RenameStall(ustall, cstall)), NEW s, s = rrobid
  PROVE  /\ op'[s] = Lookup(src[s], w, o, v)
         /\ IF src[s] = X0 THEN op'[s].ready
            ELSE IF Producers(s)' = {} THEN op'[s] = Ready(commval'[src[s]])
            ELSE \E t \in Producers(s)' :
                   /\ \A u \in Producers(s)' : u = t \/ Older(u, t)'
                   /\ op'[s] = IF Delivered(t)' THEN Ready(result'[t]) ELSE Waiting(t)
<1> DEFINE rs == RenameStall(ustall, cstall)
           rest == Live(RetRd, tail)
           r == src[s]
<1>w. WindowMoves(rs, w) /\ RatMoves(rs, w, o, v)
  BY OrdinaryRatMoves
<1>e. Commit /\ w \in pending \cup {None} /\ (w # None => ~fwdv)
  BY DEF RatStep, RatEdge
<1>m. /\ \A t \in rest : Delivered(t)' <=> IF t = w THEN o # "err" ELSE Delivered(t)
      /\ w # None => w \in rest /\ ~Delivered(w)
  BY WritersMove
<1>h. /\ retv => /\ Delivered(Idx(head)) /\ kind[Idx(head)] # "jalr" /\ ~InRename(Idx(head))
                 /\ Idx(head) \in InFlight
      /\ \A x \in Regs : commval'[x] = IF retv /\ rd[Idx(head)] = x
                                       THEN result[Idx(head)] ELSE commval[x]
  BY <1>e, Retiring
<1>r. /\ \A t : t \in rest <=> t \in InFlight /\ ~(retv /\ t = Idx(head))
      /\ retv => \A t \in rest : Older(Idx(head), t) /\ ~Older(t, Idx(head))
      /\ \A t, u \in rest : Older(t, u)' <=> Older(t, u)
      /\ \A t \in rest : result'[t] = (IF t = w THEN v ELSE result[t]) /\ kind'[t] = kind[t]
  BY <1>w DEF WindowMoves, RatMoves
<1>1. /\ rvalid /\ s \in rest /\ s \in InFlight /\ s \in Slots /\ s \notin pending
      /\ r \in AllRegs /\ (r # X0 => r \in Regs)
  BY <1>w, <1>r DEF Dispatch, WindowMoves, InFlight, Live, RatInv, RatTypeOK, AllRegs, IInv, RenameYoungest
<1>2. op'[s] = Lookup(r, w, o, v)
  BY <1>w, <1>1 DEF RatMoves
<1>3. Producers(s)' = Producers(s) \cap rest
  BY <1>1, ProducersMove
<1>4. Producers(s) = Writers(r)
  <2>1. \A t \in InFlight : Older(t, s) <=> ~InRename(t)
    BY <1>w, <1>1, EndsOfWindow DEF RatMoves, InRename
  <2>2. QED
    BY <2>1 DEF Producers, Writers
<1>5. CASE r = X0
  BY <1>2, <1>5 DEF RatInv, ZeroIsValid, Lookup, Ready
<1>6. CASE r # X0
  <2>1. /\ ~fwdv => (Fwd(r, w, o) <=> /\ w # None /\ w = tag[r] /\ w \in Writers(r)
                                      /\ kind[w] # "jalr" /\ o # "err")
        /\ fwdv /\ Fwd(r, w, o) => tag[r] \in Writers(r) /\ kind[tag[r]] = "jalr"
    BY <1>e, <1>1, <1>6, BusWriter
  <2>2. IF Writers(r) = {}
        THEN valid[r] /\ (committed[r] \/ specval[r] = commval[r])
        ELSE /\ ~committed[r] /\ Youngest(Writers(r), tag[r])
             /\ kind[tag[r]] # "jalr" =>
                  /\ valid[r] <=> Delivered(tag[r])
                  /\ valid[r] => specval[r] = result[tag[r]]
    BY <1>1, <1>6 DEF RatInv, TableFollows
  <2>3. \A t \in Writers(r) : t \in InFlight /\ kind[t] # "jalr" /\ rd[t] = r
    BY <1>1, <1>4, EndsOfWindow DEF Producers
  <2>4. Fwd(r, w, o) <=> w # None /\ w = tag[r] /\ w \in Writers(r) /\ o # "err"
    <3>1. CASE fwdv
      BY <1>e, <2>1, <2>3, <3>1 DEF Fwd, WbWrite
    <3>2. CASE ~fwdv
      BY <2>1, <2>3, <3>2
    <3>3. QED
      BY <3>1, <3>2
  <2>5. CASE Writers(r) = {}
    <3>1. op'[s] = Ready(commval[r])
      BY <1>2, <1>6, <2>2, <2>4, <2>5 DEF Lookup
    <3>2. ~(retv /\ rd[Idx(head)] = r)
      BY <1>h, <2>5 DEF Writers
    <3>3. QED
      BY <1>1, <1>2, <1>3, <1>4, <1>6, <1>h, <2>5, <3>1, <3>2
  <2>6. CASE Writers(r) # {}
    <3> DEFINE t == tag[r]
    <3>1. /\ t \in Writers(r) /\ \A u \in Writers(r) : u = t \/ Older(u, t)
          /\ t \in InFlight /\ rd[t] = r
          /\ ~committed[r] /\ (valid[r] <=> Delivered(t)) /\ (valid[r] => specval[r] = result[t])
      BY <2>2, <2>3, <2>6 DEF Youngest
    <3>2. CASE t \notin rest
      <4>1. retv /\ t = Idx(head) /\ Delivered(t)
        BY <1>h, <1>r, <3>1, <3>2
      <4>2. Producers(s)' = {}
        BY <1>3, <1>4, <1>r, <2>3, <3>1, <4>1
      <4>3. ~Fwd(r, w, o)
        BY <1>m, <2>4, <3>2
      <4>4. op'[s] = Ready(result[t])
        BY <1>2, <1>6, <3>1, <4>1, <4>3 DEF Lookup
      <4>5. QED
        BY <1>1, <1>2, <1>6, <1>h, <3>1, <4>1, <4>2, <4>4
    <3>3. CASE t \in rest
      <4>1. t \in Producers(s)'
        BY <1>3, <1>4, <3>1, <3>3
      <4>2. ASSUME NEW y, y = t PROVE \A u \in Producers(s)' : u = y \/ Older(u, y)'
        BY <1>3, <1>4, <1>r, <3>1, <3>3, <4>2
      <4>3. ASSUME NEW y, y = t
            PROVE  op'[s] = IF Delivered(y)' THEN Ready(result'[y]) ELSE Waiting(y)
        <5>1. Delivered(y)' <=> IF y = w THEN o # "err" ELSE Delivered(y)
          BY <1>m, <3>3, <4>3
        <5>2. y # None
          BY <3>3, <4>3, RingSize DEF Live, Slots, None
        <5>3. CASE Fwd(r, w, o)
          <6>1. y = w /\ o # "err" /\ WbResult(v) = v
            BY <1>e, <2>4, <4>3, <5>3 DEF WbResult
          <6>2. op'[s] = Ready(v)
            BY <1>2, <5>3, <6>1 DEF Lookup
          <6>3. QED
            BY <1>r, <3>3, <4>3, <5>1, <6>1, <6>2
        <5>4. CASE ~Fwd(r, w, o) /\ ~valid[r]
          <6>1. op'[s] = Waiting(y)
            BY <1>2, <4>3, <5>4 DEF Lookup
          <6>2. ~Delivered(y)'
            BY <2>4, <3>1, <4>3, <5>1, <5>2, <5>4
          <6>3. QED
            BY <6>1, <6>2
        <5>5. CASE ~Fwd(r, w, o) /\ valid[r]
          <6>1. op'[s] = Ready(result[y]) /\ Delivered(y)
            BY <1>2, <1>6, <3>1, <4>3, <5>5 DEF Lookup
          <6>2. y # w
            BY <1>m, <5>2, <6>1
          <6>3. QED
            BY <1>r, <3>3, <4>3, <5>1, <6>1, <6>2
        <5>6. QED
          BY <5>3, <5>4, <5>5
      <4>4. QED
        BY <1>2, <1>6, <4>1, <4>2, <4>3
    <3>4. QED
      BY <3>2, <3>3
  <2>7. QED
    BY <2>5, <2>6
<1>7. QED
  BY <1>2, <1>5, <1>6

\* Together: the operands of everything that has left rename.
LEMMA OrdinaryOperands ==
  ASSUME IInv, RatInv, ~RobFlush,
         NEW f, NEW ustall, NEW cstall, NEW w, NEW o, NEW v, NEW frd, NEW fsrc, NEW flink,
         RatStep(f, ustall, cstall, w, o, v, frd, fsrc, flink)
  PROVE  OperandsFollow'
<1> DEFINE rs == RenameStall(ustall, cstall)
           beat == DecodeBeat(rs)
           rest == Live(RetRd, tail)
<1>w. WindowMoves(rs, w) /\ RatMoves(rs, w, o, v)
  BY OrdinaryRatMoves
<1>1. SUFFICES ASSUME NEW s \in InFlight', ~InRename(s)', ~IsErr(kind'[s])
               PROVE  IF src'[s] = X0 THEN op'[s].ready
                      ELSE IF Producers(s)' = {} THEN op'[s] = Ready(commval'[src'[s]])
                      ELSE \E t \in Producers(s)' :
                             /\ \A u \in Producers(s)' : u = t \/ Older(u, t)'
                             /\ op'[s] = IF Delivered(t)' THEN Ready(result'[t]) ELSE Waiting(t)
  BY DEF OperandsFollow, Youngest
<1>2. s \in rest
  BY <1>w, <1>1 DEF WindowMoves, InRename, DecodeBeat
<1>3. src'[s] = src[s] /\ kind'[s] = kind[s]
  BY <1>w, <1>2 DEF WindowMoves, RatMoves
<1>4. CASE InRename(s)
  <2>1. Dispatch(rs) /\ s = rrobid
    BY <1>w, <1>1, <1>4 DEF InRename, Dispatch, WindowMoves
  <2>2. QED
    BY <1>3, <2>1, DispatchedOperand
<1>5. CASE ~InRename(s)
  BY <1>1, <1>2, <1>3, <1>5, HeldOperand
<1>6. QED
  BY <1>4, <1>5

\* A flush leaves nothing in flight, and the table with the committed registers.
LEMMA FlushRat ==
  ASSUME IInv, IInv', RatInv, RobFlush,
         NEW f, NEW ustall, NEW cstall, NEW w, NEW o, NEW v, NEW frd, NEW fsrc, NEW flink,
         RatStep(f, ustall, cstall, w, o, v, frd, fsrc, flink)
  PROVE  RatInv'
<1> DEFINE rs == RenameStall(ustall, cstall)
           alloc == Dispatch(rs) /\ rd[rrobid] # X0
<1>e. /\ Edge(f, ustall, cstall, w, o) /\ OperandReads(rs, w, o, v) /\ Flags(alloc, w, o)
  BY DEF RatStep, RatEdge
<1>1. RatTypeOK'
  BY RatEdgeType DEF IInv, RatInv
<1>2. Live(head', tail') = {} /\ InFlight' = {} /\ ~dvalid' /\ ~fwdv'
  <2>1. head' = 0 /\ tail' = 0 /\ ~dvalid' /\ ~fwdv'
    BY <1>e DEF Edge, Pointers, DecodeLatch, Forward
  <2>2. 0 \in Ptrs
    BY RingSize DEF Ptrs
  <2>3. QED
    BY <2>1, <2>2, EmptyRing DEF InFlight
<1>3. \A r : Writers(r)' = {}
  BY <1>2 DEF Writers
<1>4. \A r \in AllRegs : valid'[r] /\ committed'[r]
  BY <1>e DEF Flags
<1>5. \A s \in Slots : op'[s] = Ready(0)
  BY <1>e, <1>2 DEF OperandReads, Kept
<1>6. TableFollows' /\ ZeroIsValid'
  BY <1>3, <1>4 DEF TableFollows, ZeroIsValid, AllRegs
<1>7. QED
  BY <1>1, <1>2, <1>5, <1>6
     DEF RatInv, JalrIsLast, CsrIsFirst, WritersRun, OperandsStartEmpty, OperandsFollow

-----------------------------------------------------------------------------
(* The theorems *)

\* Whatever happens, every edge keeps the invariant of renaming.
THEOREM RatStepInv ==
  IInv /\ RatInv /\ [RatNext]_<<vars, ratVars>> => IInv' /\ RatInv'
<1> SUFFICES ASSUME IInv, RatInv, [RatNext]_<<vars, ratVars>> PROVE IInv' /\ RatInv'
  OBVIOUS
<1>1. [Next]_vars
  BY RatStepIsRobStep DEF IInv
<1>2. IInv'
  BY <1>1, StepInv
<1>3. CASE RatNext
  <2>1. PICK f, ustall, cstall, w, o, v, frd, fsrc, flink :
          RatStep(f, ustall, cstall, w, o, v, frd, fsrc, flink)
    BY <1>3, RatNextIsStep DEF IInv, RatInv
  <2>2. CASE RobFlush
    BY <1>2, <2>1, <2>2, FlushRat
  <2>3. CASE ~RobFlush
    <3>1. RatTypeOK'
      BY <1>2, <2>1, RatEdgeType DEF IInv, RatInv
    <3>2. JalrIsLast' /\ CsrIsFirst'
      BY <2>1, <2>3, OrdinaryJalr, OrdinaryCsr
    <3>3. WritersRun' /\ ZeroIsValid' /\ OperandsStartEmpty'
      BY <2>1, <2>3, OrdinaryFields
    <3>4. TableFollows' /\ OperandsFollow'
      BY <2>1, <2>3, OrdinaryTable, OrdinaryOperands
    <3>5. QED
      BY <1>2, <3>1, <3>2, <3>3, <3>4 DEF RatInv
  <2>4. QED
    BY <2>2, <2>3
<1>4. CASE UNCHANGED <<vars, ratVars>>
  BY <1>2, <1>4
     DEF vars, ratVars, RatInv, RatTypeOK, JalrIsLast, CsrIsFirst, WritersRun, ZeroIsValid,
         TableFollows, OperandsStartEmpty, OperandsFollow, InFlight, InRename, Writers,
         Producers, Youngest, Older, Delivered
<1>5. QED
  BY <1>3, <1>4

\* The invariant holds in every behaviour of the reorder buffer with renaming.
THEOREM RatInvariance == RatSpec => [](IInv /\ RatInv)
<1>1. RatInit => IInv /\ RatInv
  BY RatInitInv
<1>2. IInv /\ RatInv /\ [RatNext]_<<vars, ratVars>> => IInv' /\ RatInv'
  BY RatStepInv
<1>3. QED
  BY <1>1, <1>2, PTL DEF RatSpec

\* Renaming only adds to the reorder buffer: what is proved of Rob holds with it.
THEOREM RatImplementsRob == RatSpec => Spec
<1>1. RatInit => Init
  BY DEF RatInit
<1>2. IInv /\ [RatNext]_<<vars, ratVars>> => [Next]_vars
  BY RatStepIsRobStep DEF IInv, vars
<1>3. QED
  BY <1>1, <1>2, RatInvariance, PTL DEF RatSpec, Spec

\* Nobody waits for a result that has passed (exers.v, lsq.v: an operand that
\* misses its tag on the bus would wait for ever).
THEOREM WaitersAreServed == RatSpec => []WaitersHaveProducers
<1>1. IInv /\ RatInv => WaitersHaveProducers
  <2>1. SUFFICES ASSUME IInv, RatInv, NEW s \in InFlight, ~op[s].ready
                 PROVE  LET t == op[s].val
                        IN /\ t \in InFlight /\ Age(head, t) < Age(head, s) /\ rd[t] = src[s]
                           /\ \/ t \in pending
                              \/ csrv /\ csrrobid = t
                              \/ executed[t] /\ outcome[t] = "err"
    BY DEF WaitersHaveProducers
  <2>2. s \in Slots
    BY DEF InFlight, Live
  <2>3. ~InRename(s) /\ ~IsErr(kind[s])
    BY <2>1, <2>2 DEF RatInv, OperandsStartEmpty, Ready
  <2>a. \A x : Ready(x).ready
    BY DEF Ready
  <2>4. PICK t \in Producers(s) : /\ Youngest(Producers(s), t)
                                  /\ op[s] = IF Delivered(t) THEN Ready(result[t]) ELSE Waiting(t)
    <3>1. IF src[s] = X0 THEN op[s].ready
          ELSE IF Producers(s) = {} THEN op[s] = Ready(commval[src[s]])
          ELSE \E t \in Producers(s) :
                 /\ Youngest(Producers(s), t)
                 /\ op[s] = IF Delivered(t) THEN Ready(result[t]) ELSE Waiting(t)
      BY <2>1, <2>3 DEF RatInv, OperandsFollow
    <3>2. QED
      BY <2>1, <2>a, <3>1
  <2>5. op[s].val = t /\ ~Delivered(t)
    <3>1. op[s] = Waiting(t) /\ ~Delivered(t)
      BY <2>1, <2>4, <2>a
    <3>2. QED
      BY <3>1 DEF Waiting
  <2>6. t \in InFlight /\ Older(t, s) /\ rd[t] = src[s]
    BY <2>4 DEF Producers
  <2>7. ~(rvalid /\ rrobid = t)
    <3>1. ~Older(Idx(Dec(tail)), s)
      BY <2>1, EndsOfWindow
    <3>2. QED
      BY <2>1, <2>6, <3>1 DEF IInv, RenameYoungest
  <2>8. QED
    BY <2>1, <2>5, <2>6, <2>7 DEF IInv, NothingLost, Delivered, Older
<1>2. QED
  BY <1>1, RatInvariance, PTL

\* The csr unit, which does not look at the ready bit, never takes an operand
\* that has not arrived (rename.v, csr.v).
THEOREM CsrOperandIsReady == RatSpec => []CsrOperandReady
<1>1. IInv /\ RatInv => CsrOperandReady
  <2>1. SUFFICES ASSUME IInv, RatInv, csrv PROVE op[csrrobid].ready
    BY DEF CsrOperandReady
  <2>2. /\ csrrobid = Idx(head) /\ csrrobid \in InFlight /\ ~InRename(csrrobid)
        /\ ~IsErr(kind[csrrobid])
    BY <2>1, TakeOldest DEF IInv, TypeOK, CsrOldest, WindowBounded, InFlight, InRename, IsErr
  <2>3. Producers(csrrobid) = {}
    BY <2>1, <2>2, EndsOfWindow DEF Producers
  <2>4. op[csrrobid].ready \/ op[csrrobid] = Ready(commval[src[csrrobid]])
    BY <2>1, <2>2, <2>3 DEF RatInv, OperandsFollow
  <2>5. QED
    BY <2>4 DEF Ready
<1>2. QED
  BY <1>1, RatInvariance, PTL

\* Renaming is invisible: an instruction that retires has worked with the value
\* program order gives its source, for every register but x0 and every program
\* (rat.v, rename.v, exers.v, lsq.v, rob.v).
THEOREM RenamingIsInvisible == RatSpec => []RegistersAreArchitectural
<1>1. IInv /\ RatInv => RegistersAreArchitectural
  <2>1. SUFFICES ASSUME IInv, RatInv, retv, ~IsErr(retk), src[Idx(head)] # X0
                 PROVE  op[Idx(head)] = Ready(commval[src[Idx(head)]])
    BY DEF RegistersAreArchitectural
  <2>2. /\ Idx(head) \in InFlight /\ ~InRename(Idx(head)) /\ ~IsErr(kind[Idx(head)])
    BY <2>1, TakeOldest
       DEF IInv, TypeOK, RetireStage, RenameYoungest, WindowBounded, InFlight, InRename
  <2>3. Producers(Idx(head)) = {}
    BY <2>1, <2>2, EndsOfWindow DEF Producers
  <2>4. QED
    BY <2>1, <2>2, <2>3 DEF RatInv, OperandsFollow
<1>2. QED
  BY <1>1, RatInvariance, PTL

\* x0 reads as zero as long as no load to x0 runs beside a reader of x0: the bus
\* forwards for x0 only what a load says is its register.
LEMMA OrdinaryZero ==
  ASSUME IInv, RatInv, ZeroOperands, ZeroUndisturbed, ~RobFlush,
         NEW f, NEW ustall, NEW cstall, NEW w, NEW o, NEW v, NEW frd, NEW fsrc, NEW flink,
         RatStep(f, ustall, cstall, w, o, v, frd, fsrc, flink)
  PROVE  ZeroOperands'
<1> DEFINE rs == RenameStall(ustall, cstall)
           rest == Live(RetRd, tail)
<1>w. WindowMoves(rs, w) /\ RatMoves(rs, w, o, v)
  BY OrdinaryRatMoves
<1>e. w \in pending \cup {None} /\ (w # None => ~fwdv)
  BY DEF RatStep
<1>1. SUFFICES ASSUME NEW s \in InFlight', src'[s] = X0, ~InRename(s)', ~IsErr(kind'[s])
               PROVE  op'[s] = Ready(0)
  BY DEF ZeroOperands
<1>2. s \in rest
  BY <1>w, <1>1 DEF WindowMoves, InRename, DecodeBeat
<1>3. s \in InFlight /\ src[s] = X0 /\ ~IsErr(kind[s])
  BY <1>w, <1>1, <1>2 DEF WindowMoves, RatMoves
<1>4. CASE InRename(s)
  <2>1. Dispatch(rs) /\ s = rrobid
    BY <1>w, <1>1, <1>4 DEF InRename, Dispatch, WindowMoves
  <2>2. op'[s] = Lookup(X0, w, o, v)
    BY <1>3, <2>1, DispatchedOperand
  <2>3. ~fwdv
    <3>1. fwdv => fwdrobid \in InFlight /\ kind[fwdrobid] = "jalr" /\ fwdrobid # s
      BY <2>1 DEF IInv, ForwardOwned, ResultsHaveOwners, RenameYoungest, Dispatch, RatInv, JalrIsLast
    <3>2. \A t \in InFlight : t # s => Older(t, s)
      BY <1>w, <2>1 DEF RatMoves, Dispatch
    <3>3. \A t \in InFlight : kind[t] = "jalr" => ~Older(t, s)
      BY <1>3, EndsOfWindow
    <3>4. QED
      BY <3>1, <3>2, <3>3
  <2>4. ~Fwd(X0, w, o)
    <3>1. SUFFICES ASSUME Fwd(X0, w, o) PROVE FALSE
      OBVIOUS
    <3>2. w # None /\ rd[w] = X0 /\ kind[w] = "load"
      BY <2>3, <3>1
         DEF Fwd, WbWrite, Resolves, Delivers, WbRobid, WbHasRd, WbRd, UnitHasRd
    <3>3. w \in InFlight
      BY <1>e, <3>2 DEF IInv, ResultsHaveOwners
    <3>4. QED
      BY <1>3, <3>2, <3>3 DEF ZeroUndisturbed
  <2>5. QED
    BY <2>2, <2>4 DEF Lookup, RatInv, ZeroIsValid
<1>5. CASE ~InRename(s)
  <2>1. op[s] = Ready(0)
    BY <1>3, <1>5 DEF ZeroOperands
  <2>2. op'[s] = op[s]
    BY <1>2, <1>3, <1>5, HeldOperand
  <2>3. QED
    BY <2>1, <2>2
<1>6. QED
  BY <1>4, <1>5

\* The same, in every behaviour.
LEMMA ZeroInvariance == RatSpec /\ []ZeroUndisturbed => []ZeroOperands
<1>1. RatInit => ZeroOperands
  BY RingSize, EmptyRing DEF RatInit, Init, InFlight, Ptrs, ZeroOperands
<1>2. IInv /\ IInv' /\ RatInv /\ ZeroOperands /\ ZeroUndisturbed /\ [RatNext]_<<vars, ratVars>>
        => ZeroOperands'
  <2> SUFFICES ASSUME IInv, IInv', RatInv, ZeroOperands, ZeroUndisturbed,
                      [RatNext]_<<vars, ratVars>>
               PROVE  ZeroOperands'
    OBVIOUS
  <2>1. CASE RatNext
    <3>1. PICK f, ustall, cstall, w, o, v, frd, fsrc, flink :
            RatStep(f, ustall, cstall, w, o, v, frd, fsrc, flink)
      BY <2>1, RatNextIsStep DEF IInv, RatInv
    <3>2. CASE RobFlush
      <4>1. head' = tail' /\ head' \in Ptrs
        BY <3>1, <3>2 DEF RatStep, RatEdge, Edge, Pointers, IInv, TypeOK
      <4>2. InFlight' = {}
        BY <4>1, EmptyRing DEF InFlight
      <4>3. QED
        BY <4>2 DEF ZeroOperands
    <3>3. CASE ~RobFlush
      BY <3>1, <3>3, OrdinaryZero
    <3>4. QED
      BY <3>2, <3>3
  <2>2. CASE UNCHANGED <<vars, ratVars>>
    BY <2>2 DEF vars, ratVars, ZeroOperands, InFlight, InRename
  <2>3. QED
    BY <2>1, <2>2
<1>3. QED
  BY <1>1, <1>2, RatInvariance, PTL DEF RatSpec

\* Renaming is invisible for every register, while no load to x0 is in flight
\* with a reader of x0; no other kind of instruction can disturb x0.
THEOREM OperandsFollowProgramOrder ==
  RatSpec /\ []ZeroUndisturbed => []OperandsAreArchitectural
<1>1. IInv /\ RatInv /\ ZeroOperands /\ RegistersAreArchitectural => OperandsAreArchitectural
  <2>1. SUFFICES ASSUME IInv, ZeroOperands, RegistersAreArchitectural, retv, ~IsErr(retk)
                 PROVE  op[Idx(head)] = Ready(Arch(src[Idx(head)]))
    BY DEF OperandsAreArchitectural
  <2>2. /\ Idx(head) \in InFlight /\ ~InRename(Idx(head)) /\ ~IsErr(kind[Idx(head)])
    BY <2>1, TakeOldest
       DEF IInv, TypeOK, RetireStage, RenameYoungest, WindowBounded, InFlight, InRename
  <2>3. CASE src[Idx(head)] = X0
    BY <2>1, <2>2, <2>3 DEF ZeroOperands, Arch
  <2>4. CASE src[Idx(head)] # X0
    BY <2>1, <2>4 DEF RegistersAreArchitectural, Arch
  <2>5. QED
    BY <2>3, <2>4
<1>2. QED
  BY <1>1, RatInvariance, ZeroInvariance, RenamingIsInvisible, PTL

\* A load to x0 beside a reader of x0 is the only way to the disagreement that
\* the run x0_load shows.
THEOREM ZeroIsZeroUnlessLoaded == RatSpec /\ []ZeroUndisturbed => []ZeroReadsAsZero
<1>1. RatInv /\ ZeroOperands => ZeroReadsAsZero
  <2>1. SUFFICES ASSUME RatInv, ZeroOperands, NEW s \in InFlight, src[s] = X0
                 PROVE  op[s] = Ready(0)
    BY DEF ZeroReadsAsZero
  <2>2. s \in Slots
    BY DEF InFlight, Live
  <2>3. QED
    BY <2>1, <2>2 DEF RatInv, OperandsStartEmpty, ZeroOperands
<1>2. QED
  BY <1>1, RatInvariance, ZeroInvariance, PTL
=============================================================================
