----------------------------- MODULE RobProofs -----------------------------
(***************************************************************************)
(* The reorder buffer's invariants hold for a ring of any size and any     *)
(* mix of instructions, and it implements the abstract window.             *)
(***************************************************************************)
EXTENDS RobWindow, CircPtrProofs, SequenceTheorems, TLAPS

\* The window is empty after reset, so there is nothing to get wrong.
LEMMA InitInv == Init => IInv
<1> SUFFICES ASSUME Init PROVE IInv
  OBVIOUS
<1> USE RingSize
<1>1. InFlight = {}
  BY EmptyRing DEF Init, InFlight, Ptrs
<1>2. TypeOK
  <2>1. 0 \in Ptrs /\ 0 \in Slots
    BY DEF Ptrs, Slots
  <2>2. PICK k \in Kinds : dkind = k /\ rkind = k /\ retk = k /\ kind = [s \in Slots |-> k]
    BY DEF Init
  <2>3. QED
    BY <2>1, <2>2 DEF Init, TypeOK, Outcomes
<1>3. WindowBounded
  BY DEF Init, WindowBounded, Dist
<1>4. QED
  BY <1>1, <1>2, <1>3 DEF Init, IInv, RetireStage, RenameYoungest, ForwardOwned,
     CsrOldest, ArriveExecuted, NothingLost, ResultsHaveOwners, StoresMatch,
         RenameRobid, StoreMovesOn

-----------------------------------------------------------------------------
(* One clock edge *)

\* Every register keeps its type.
LEMMA EdgeType ==
  ASSUME TypeOK,
         NEW f \in Kinds \cup {"none"}, NEW ustall \in BOOLEAN, NEW cstall \in BOOLEAN,
         NEW w \in pending \cup {None}, NEW o \in Outcomes,
         Edge(f, ustall, cstall, w, o)
  PROVE  TypeOK'
<1> DEFINE rs == RenameStall(ustall, cstall)
<1>1. /\ head \in Ptrs /\ tail \in Ptrs /\ RetRd \in Ptrs /\ Inc(tail) \in Ptrs
      /\ 0 \in Ptrs /\ Idx(tail) \in Slots /\ Idx(RetRd) \in Slots /\ Idx(head) \in Slots
  BY PointerTypes, RingSize DEF TypeOK, RetRd, Ptrs
<1>2. rs \in BOOLEAN /\ RobFlush \in BOOLEAN /\ RenameIsHead \in BOOLEAN
  BY DEF TypeOK, RenameStall, RobFlush, RenameIsHead
<1>3. dvalid' \in BOOLEAN /\ dkind' \in Kinds /\ fhalt' \in BOOLEAN
  <2>1. DecodeLatch(rs, f)
    BY DEF Edge
  <2>2. QED
    BY <2>1 DEF DecodeLatch, TypeOK, decVars
<1>4. rvalid' \in BOOLEAN /\ rrobid' \in Slots /\ rkind' \in Kinds
  BY <1>1, <1>2 DEF Edge, RenameLatch, TypeOK
<1>5. head' \in Ptrs /\ tail' \in Ptrs
  BY <1>1, <1>2 DEF Edge, Pointers, TypeOK
<1>6. executed' \in [Slots -> BOOLEAN]
  BY <1>1 DEF Edge, BufWrite, TypeOK, IsErr, IsStore
<1>7. kind' \in [Slots -> Kinds] /\ outcome' \in [Slots -> Outcomes]
  BY <1>1 DEF Edge, BufWrite, TypeOK, Outcomes
<1>8. retv' \in BOOLEAN /\ retk' \in Kinds /\ reto' \in Outcomes
  <2>1. RetireLatch
    BY DEF Edge
  <2>2. executed[Idx(RetRd)] \in BOOLEAN /\ kind[Idx(RetRd)] \in Kinds /\ outcome[Idx(RetRd)] \in Outcomes
    BY <1>1 DEF TypeOK
  <2>3. CASE RobFlush
    BY <2>1, <2>3 DEF RetireLatch, TypeOK
  <2>4. CASE ~RobFlush
    <3>1. retk' \in Kinds /\ reto' \in Outcomes
      BY <2>1, <2>2, <2>4 DEF RetireLatch
    <3>2. retv' \in BOOLEAN
      BY <2>1, <2>4 DEF RetireLatch
    <3>3. QED
      BY <3>1, <3>2
  <2>5. QED
    BY <2>3, <2>4
<1>9. inhibit' \in BOOLEAN /\ fwdv' \in BOOLEAN /\ fwdrobid' \in Slots
  BY <1>1 DEF Edge, Forward, TypeOK
<1>10. csrv' \in BOOLEAN /\ csrrobid' \in Slots
  <2>1. CsrLatch(rs, cstall)
    BY DEF Edge
  <2>2. QED
    BY <2>1 DEF CsrLatch, TypeOK
<1>11. pending' \subseteq Slots /\ sqwait' \subseteq Slots
  BY <1>1 DEF Edge, Units, StoreQueue, CsrDone, TypeOK
<1>12. QED
  BY <1>3, <1>4, <1>5, <1>6, <1>7, <1>8, <1>9, <1>10, <1>11 DEF TypeOK

\* A flush empties the window and every place that works for it.  The csr unit
\* is not cleared; it has nothing, for an instruction is retiring.
LEMMA FlushEdge ==
  ASSUME IInv, RobFlush,
         NEW f \in Kinds \cup {"none"}, NEW ustall \in BOOLEAN, NEW cstall \in BOOLEAN,
         NEW w \in pending \cup {None}, NEW o \in Outcomes,
         Edge(f, ustall, cstall, w, o)
  PROVE  IInv'
<1> DEFINE rs == RenameStall(ustall, cstall)
<1>1. TypeOK'
  BY EdgeType DEF IInv
<1>2. head' = 0 /\ tail' = 0 /\ InFlight' = {}
  <2>1. head' = 0 /\ tail' = 0
    BY DEF Edge, Pointers
  <2>2. 0 \in Ptrs
    BY RingSize DEF Ptrs
  <2>3. QED
    BY <2>1, <2>2, EmptyRing DEF InFlight
<1>3. ~rvalid' /\ ~retv' /\ ~inhibit' /\ ~fwdv' /\ pending' = {} /\ sqwait' = {}
  BY DEF Edge, RenameLatch, RetireLatch, Forward, Units, StoreQueue
<1>4. ~csrv'
  BY DEF Edge, CsrLatch, IInv, CsrOldest, RobFlush
<1>5. WindowBounded'
  BY <1>2, RingSize DEF WindowBounded, Dist
<1>6. QED
  BY <1>1, <1>2, <1>3, <1>4, <1>5
     DEF IInv, RetireStage, RenameYoungest, ForwardOwned, CsrOldest,
         ArriveExecuted, NothingLost, ResultsHaveOwners, StoresMatch,
         RenameRobid, StoreMovesOn

\* The hold rob.v puts on a store at the head hits only a store that rename
\* still has.  When rename is idle its robid can equal the head's only in a full
\* buffer, and by then a store at the head has long moved on.
LEMMA HoldIsReal == IInv => StoreHoldIsReal
<1> SUFFICES ASSUME IInv, RetRd # tail, kind[Idx(RetRd)] = "store", RenameIsHead
             PROVE  rvalid /\ rkind = "store"
  BY DEF StoreHoldIsReal
<1>1. /\ head \in Ptrs /\ tail \in Ptrs /\ RetRd \in Ptrs
      /\ rvalid \in BOOLEAN /\ retv \in BOOLEAN
  BY PointerTypes DEF IInv, TypeOK, RetRd
<1>2. head # tail
  BY <1>1 DEF IInv, RetireStage, RetRd
<1>3. CASE rvalid
  BY <1>3 DEF IInv, RenameYoungest, RenameIsHead
<1>4. CASE ~rvalid
  <2>1. rrobid = Idx(RetRd) /\ ~IsErr(kind[rrobid])
    BY DEF RenameIsHead, IsErr
  <2>2. Idx(RetRd) = Idx(tail)
    BY <1>2, <1>4, <2>1 DEF IInv, RenameRobid
  <2>3. CASE retv
    <3>1. Dist(RetRd, tail) = Dist(head, tail) - 1
      BY <1>1, <1>2, <2>3, TakeOldest DEF IInv, WindowBounded, RetRd
    <3>2. Dist(head, tail) \in Int /\ Dist(head, tail) <= N
      BY <1>1, DistanceType, RingSize DEF IInv, WindowBounded
    <3>3. Dist(RetRd, tail) = N
      BY <1>1, <2>2, <3>1, <3>2, FullMeansN, RingSize DEF IsFull
    <3>4. QED
      BY <3>1, <3>2, <3>3, RingSize
  <2>4. CASE ~retv
    <3>1. RetRd = head
      BY <2>4 DEF RetRd
    <3>2. Dist(head, tail) = N
      BY <1>1, <1>2, <2>2, <3>1, FullMeansN DEF IsFull, IInv, WindowBounded
    <3>3. rrobid = Idx(Dec(tail))
      BY <1>2, <2>4, <3>1, <3>2, RingSize DEF IInv, StoreMovesOn
    <3>4. Idx(Dec(tail)) # Idx(tail)
      BY <1>1, RingSize, SMT DEF Ptrs, Idx, Dec
    <3>5. QED
      BY <2>1, <2>2, <3>3, <3>4
  <2>5. QED
    BY <1>1, <2>3, <2>4
<1>5. QED
  BY <1>1, <1>3, <1>4

\* What an ordinary edge does to the window, the fields of its entries and rename: the
\* oldest instruction may leave (rest: those that stay), one may arrive, one may get
\* its result.
WindowMoves(rs, w) ==
  LET beat == DecodeBeat(rs)
      rest == Live(RetRd, tail)
  IN
    /\ rs \in BOOLEAN /\ beat \in BOOLEAN
    /\ Dist(RetRd, tail) <= N
    /\ \A s : s \in rest <=> s \in InFlight /\ ~(retv /\ s = Idx(head))
    /\ retv => Idx(head) \in InFlight
    /\ beat => Dist(head, tail) < N /\ Dist(RetRd, tail) < N /\ Idx(tail) \notin InFlight
    /\ head' = RetRd /\ tail' = IF beat THEN Inc(tail) ELSE tail
    /\ InFlight' = rest \cup (IF beat THEN {Idx(tail)} ELSE {})
    /\ WindowBounded' /\ (beat => head' # tail') /\ (head' = tail' => rest = {})
    /\ RobWrite(w) <=> w # None
    /\ w # None => /\ WbRobid(w) = w /\ w \in pending /\ w \in InFlight /\ ~executed[w]
                   /\ ~IsErr(kind[w]) /\ ~IsStore(kind[w])
    /\ \A s \in InFlight : s = w => s \in pending /\ ~executed[s]
    /\ \A s \in InFlight : /\ kind'[s] = kind[s]
                           /\ executed'[s] <=> s = w \/ executed[s]
                           /\ s # w => outcome'[s] = outcome[s]
    /\ beat => /\ kind'[Idx(tail)] = dkind
               /\ executed'[Idx(tail)] <=> IsErr(dkind) \/ IsStore(dkind)
    /\ rs => rvalid' /\ rrobid' = rrobid /\ rkind' = rkind
    /\ ~rs => /\ rrobid' = Idx(tail)
              /\ rvalid' <=> beat /\ ~IsErr(dkind)
              /\ rkind' = dkind
    /\ RetRd # tail => Idx(RetRd) \in rest
    /\ rvalid => rrobid \in rest

\* Every edge without a flush does that.
LEMMA OrdinaryWindow ==
  ASSUME IInv, ~RobFlush,
         NEW f \in Kinds \cup {"none"}, NEW ustall \in BOOLEAN, NEW cstall \in BOOLEAN,
         NEW w \in pending \cup {None}, NEW o \in Outcomes, w # None => ~fwdv,
         Edge(f, ustall, cstall, w, o)
  PROVE  WindowMoves(RenameStall(ustall, cstall), w)
<1> DEFINE rs == RenameStall(ustall, cstall)
           beat == DecodeBeat(rs)
           rest == Live(RetRd, tail)
<1>t. TypeOK'
  BY EdgeType DEF IInv
<1>u. /\ head \in Ptrs /\ tail \in Ptrs /\ RetRd \in Ptrs
      /\ Idx(tail) \in Slots /\ Idx(RetRd) \in Slots /\ Idx(head) \in Slots
      /\ rs \in BOOLEAN /\ beat \in BOOLEAN
      /\ head' \in Ptrs /\ tail' \in Ptrs
  <2>1. TypeOK
    BY DEF IInv
  <2>2. QED
    BY <2>1, <1>t, PointerTypes DEF TypeOK, RetRd, RenameStall, DecodeBeat

(* The window *)
<1>1. /\ Dist(RetRd, tail) <= N
      /\ \A s : s \in rest <=> s \in InFlight /\ ~(retv /\ s = Idx(head))
      /\ retv => Idx(head) \in InFlight
  <2>1. CASE retv
    BY <2>1, <1>u, TakeOldest, DistanceType, RingSize DEF IInv, RetireStage, WindowBounded, RetRd, InFlight
  <2>2. CASE ~retv
    BY <2>2 DEF IInv, WindowBounded, RetRd, InFlight
  <2>3. QED
    BY <2>1, <2>2, <1>u DEF IInv, TypeOK
<1>2. beat => Dist(head, tail) < N /\ Dist(RetRd, tail) < N /\ Idx(tail) \notin InFlight
  <2>1. ASSUME beat PROVE Dist(head, tail) < N
    BY <2>1, <1>u, FullMeansN, DistanceType, RingSize DEF DecodeBeat, BufFull, IInv, WindowBounded
  <2>2. ASSUME beat PROVE Dist(RetRd, tail) < N
    <3>1. CASE retv
      BY <2>1, <2>2, <3>1, <1>u, TakeOldest, DistanceType, RingSize
         DEF IInv, RetireStage, WindowBounded, RetRd
    <3>2. CASE ~retv
      BY <2>1, <2>2, <3>2 DEF RetRd
    <3>3. QED
      BY <3>1, <3>2 DEF IInv, TypeOK
  <2>3. ASSUME beat PROVE Idx(tail) \notin InFlight
    BY <2>1, <2>3, <1>u, PutYoungest DEF InFlight
  <2>4. QED
    BY <2>1, <2>2, <2>3
<1>3. /\ head' = RetRd
      /\ tail' = IF beat THEN Inc(tail) ELSE tail
  BY DEF Edge, Pointers
<1>4. /\ WindowBounded'
      /\ InFlight' = rest \cup (IF beat THEN {Idx(tail)} ELSE {})
      /\ beat => head' # tail'
      /\ head' = tail' => rest = {}
  <2>1. CASE beat
    BY <2>1, <1>u, <1>2, <1>3, PutYoungest, DistanceType, RingSize DEF WindowBounded, InFlight
  <2>2. CASE ~beat
    BY <2>2, <1>u, <1>1, <1>3, EmptyRing DEF WindowBounded, InFlight
  <2>3. QED
    BY <2>1, <2>2, <1>u

<1>5. /\ RobWrite(w) <=> w # None
      /\ w # None => /\ WbRobid(w) = w /\ w \in pending /\ w \in InFlight /\ ~executed[w]
                     /\ ~IsErr(kind[w]) /\ ~IsStore(kind[w])
      /\ \A s \in InFlight : s = w => s \in pending /\ ~executed[s]
  <2>1. None \notin InFlight
    BY RingSize DEF None, InFlight, Live, Slots
  <2>2. QED
    BY <2>1 DEF IInv, ForwardOwned, ResultsHaveOwners, RobWrite, WbRobid, TypeOK
<1>6. /\ \A s \in InFlight : /\ kind'[s] = kind[s]
                             /\ executed'[s] <=> s = w \/ executed[s]
                             /\ s # w => outcome'[s] = outcome[s]
      /\ beat => /\ kind'[Idx(tail)] = dkind
                 /\ executed'[Idx(tail)] <=> IsErr(dkind) \/ IsStore(dkind)
  <2>1. BufWrite(rs, w, o)
    BY DEF Edge
  <2>2. InFlight \subseteq Slots
    BY DEF InFlight, Live
  <2>3. executed \in [Slots -> BOOLEAN]
    BY DEF IInv, TypeOK
  <2>4. None \notin Slots
    BY RingSize DEF None, Slots
  <2>5. \A s \in InFlight : ~(beat /\ s = Idx(tail))
    BY <1>2
  <2>6. QED
    BY <2>1, <2>2, <2>3, <2>4, <2>5, <1>2, <1>5, <1>u DEF BufWrite
<1>7. rs => rvalid /\ ~beat
  BY DEF RenameStall, DecodeBeat
<1>8. /\ rs => rvalid' /\ rrobid' = rrobid /\ rkind' = rkind
      /\ ~rs => /\ rrobid' = Idx(tail)
                /\ rvalid' <=> beat /\ ~IsErr(dkind)
                /\ rkind' = dkind
  BY <1>7, <1>u DEF Edge, RenameLatch, DecodeBeat, IInv, TypeOK
<1>15. RetRd # tail => Idx(RetRd) \in rest
  BY <1>1, <1>u, TakeOldest
<1>16. rvalid => rrobid \in rest
  BY <1>1, <1>u, YoungestSlot DEF IInv, RenameYoungest, WindowBounded, InFlight
<1>30. QED
  BY <1>u, <1>1, <1>2, <1>3, <1>4, <1>5, <1>6, <1>8, <1>15, <1>16 DEF WindowMoves

\* An ordinary edge: the oldest instruction may leave, one may arrive, one may
\* get its result, and what rename holds moves to its unit.
LEMMA OrdinaryEdge ==
  ASSUME IInv, ~RobFlush,
         NEW f \in Kinds \cup {"none"}, NEW ustall \in BOOLEAN, NEW cstall \in BOOLEAN,
         NEW w \in pending \cup {None}, NEW o \in Outcomes, w # None => ~fwdv,
         Edge(f, ustall, cstall, w, o)
  PROVE  IInv'
<1> DEFINE rs == RenameStall(ustall, cstall)
           beat == DecodeBeat(rs)
           rest == Live(RetRd, tail)
<1>w. WindowMoves(rs, w)
  BY OrdinaryWindow
<1>t. TypeOK'
  BY EdgeType DEF IInv
<1>u. /\ head \in Ptrs /\ tail \in Ptrs /\ RetRd \in Ptrs
      /\ Idx(tail) \in Slots /\ Idx(RetRd) \in Slots /\ Idx(head) \in Slots
      /\ rs \in BOOLEAN /\ beat \in BOOLEAN
      /\ head' \in Ptrs /\ tail' \in Ptrs
  <2>1. TypeOK
    BY DEF IInv
  <2>2. QED
    BY <2>1, <1>t, PointerTypes DEF TypeOK, RetRd, RenameStall, DecodeBeat

(* The window *)
<1>1. /\ Dist(RetRd, tail) <= N
      /\ \A s : s \in rest <=> s \in InFlight /\ ~(retv /\ s = Idx(head))
      /\ retv => Idx(head) \in InFlight
  BY <1>w DEF WindowMoves
<1>2. beat => Dist(head, tail) < N /\ Dist(RetRd, tail) < N /\ Idx(tail) \notin InFlight
  BY <1>w DEF WindowMoves
<1>3. /\ head' = RetRd
      /\ tail' = IF beat THEN Inc(tail) ELSE tail
  BY <1>w DEF WindowMoves
<1>4. /\ WindowBounded'
      /\ InFlight' = rest \cup (IF beat THEN {Idx(tail)} ELSE {})
      /\ beat => head' # tail'
      /\ head' = tail' => rest = {}
  BY <1>w DEF WindowMoves

(* What the bus, the stall of rename and the units do in this cycle *)
<1>5. /\ RobWrite(w) <=> w # None
      /\ w # None => /\ WbRobid(w) = w /\ w \in pending /\ w \in InFlight /\ ~executed[w]
                     /\ ~IsErr(kind[w]) /\ ~IsStore(kind[w])
      /\ \A s \in InFlight : s = w => s \in pending /\ ~executed[s]
  BY <1>w DEF WindowMoves
<1>6. /\ \A s \in InFlight : /\ kind'[s] = kind[s]
                             /\ executed'[s] <=> s = w \/ executed[s]
                             /\ s # w => outcome'[s] = outcome[s]
      /\ beat => /\ kind'[Idx(tail)] = dkind
                 /\ executed'[Idx(tail)] <=> IsErr(dkind) \/ IsStore(dkind)
  BY <1>w DEF WindowMoves
<1>7. /\ rs => rvalid /\ ~beat
      /\ rvalid /\ rkind = "csr" =>
           (rs <=> ~RenameIsHead \/ (csrv /\ cstall))
  BY DEF RenameStall, DecodeBeat
<1>8. /\ rs => rvalid' /\ rrobid' = rrobid /\ rkind' = rkind
      /\ ~rs => /\ rrobid' = Idx(tail)
                /\ rvalid' <=> beat /\ ~IsErr(dkind)
                /\ rkind' = dkind
  BY <1>w DEF WindowMoves
<1> DEFINE write == rvalid /\ rkind = "csr" /\ RenameIsHead /\ ~rs
<1>10. /\ csrv' <=> (csrv /\ cstall) \/ write
       /\ csrv /\ cstall => csrrobid' = csrrobid /\ ~write
       /\ write => csrrobid' = rrobid
  <2>1. CsrLatch(rs, cstall)
    BY DEF Edge
  <2>2. QED
    BY <2>1, <1>7 DEF CsrLatch, IInv, TypeOK
<1>11. pending' = (pending \ {w}) \cup (IF csrv /\ ~cstall THEN {csrrobid} ELSE {})
                  \cup (IF rvalid /\ ~rs /\ rkind \in {"alu", "br", "jalr", "load"}
                        THEN {rrobid} ELSE {})
  BY DEF Edge, Units, CsrDone, Dispatch
<1>12. sqwait' = (sqwait \ (IF RobRetStore THEN {Idx(head)} ELSE {}))
                 \cup (IF rvalid /\ ~rs /\ rkind = "store" THEN {rrobid} ELSE {})
  BY DEF Edge, StoreQueue, Dispatch
<1>13. retv' <=> /\ executed[Idx(RetRd)]
                 /\ RetRd # tail
                 /\ ~(IsStore(kind[Idx(RetRd)]) /\ RenameIsHead)
  BY DEF Edge, RetireLatch
<1>14. retk' = kind[Idx(RetRd)] /\ reto' = outcome[Idx(RetRd)]
  BY DEF Edge, RetireLatch
<1>15. RetRd # tail => Idx(RetRd) \in rest
  BY <1>w DEF WindowMoves
<1>16. rvalid => rrobid \in rest
  BY <1>w DEF WindowMoves

(* The invariant, conjunct by conjunct *)
<1>17. rest \subseteq InFlight' /\ rest \subseteq InFlight
  BY <1>1, <1>4
<1>18. csrv => csrrobid \in rest /\ csrrobid = Idx(head) /\ RetRd = head
  BY <1>15, <1>u DEF IInv, CsrOldest, RetRd
<1>20. RetireStage'
  <2>1. retv' => /\ head' # tail' /\ Idx(head') \in InFlight /\ executed[Idx(head')]
                 /\ Idx(head') # w
    BY <1>3, <1>4, <1>5, <1>13, <1>15, <1>17
  <2>2. QED
    BY <2>1, <1>3, <1>6, <1>14 DEF RetireStage
<1>21. RenameYoungest'
  <2>1. CASE rs
    <3>1. /\ rvalid /\ rrobid \in rest /\ rrobid \in InFlight /\ rrobid # w
          /\ rrobid = Idx(Dec(tail)) /\ kind[rrobid] = rkind /\ ~IsErr(rkind)
          /\ executed[rrobid] <=> IsStore(rkind)
      BY <2>1, <1>5, <1>7, <1>16, <1>17 DEF IInv, RenameYoungest
    <3>2. rrobid \notin pending'
      BY <2>1, <3>1, <1>11 DEF IInv, RenameYoungest, CsrOldest
    <3>3. ~(retv' /\ rrobid = Idx(head'))
      BY <3>1, <1>3, <1>13 DEF RenameIsHead
    <3>4. head' # tail' /\ tail' = tail
      BY <2>1, <3>1, <1>3, <1>4, <1>7
    <3>5. QED
      BY <2>1, <3>1, <3>2, <3>3, <3>4, <1>6, <1>8 DEF RenameYoungest
  <2>2. CASE ~rs /\ rvalid'
    <3>1. /\ beat /\ ~IsErr(dkind) /\ rrobid' = Idx(tail) /\ rkind' = dkind
          /\ tail' = Inc(tail) /\ head' # tail' /\ Dec(tail') = tail
      BY <2>2, <1>u, <1>3, <1>4, <1>8, PointerTypes
    <3>2. Idx(tail) \notin InFlight
      BY <3>1, <1>2
    <3>3. Idx(tail) \notin pending'
      BY <3>2, <1>11, <1>16, <1>17, <1>18 DEF IInv, ResultsHaveOwners
    <3>4. ~(retv' /\ Idx(tail) = Idx(head'))
      BY <3>2, <1>3, <1>13, <1>15, <1>17
    <3>5. QED
      BY <3>1, <3>3, <3>4, <1>6 DEF RenameYoungest
  <2>3. QED
    BY <2>1, <2>2, <1>u DEF RenameYoungest
<1>22. ForwardOwned'
  BY <1>11, <1>5 DEF Edge, Forward, Dispatch, ForwardOwned
<1>23. CsrOldest'
  <2>1. CASE csrv /\ cstall
    <3>1. /\ csrrobid' = csrrobid /\ ~write /\ csrrobid \in InFlight /\ csrrobid # w
          /\ kind[csrrobid] = "csr" /\ ~executed[csrrobid] /\ csrrobid \notin pending
          /\ ~(rvalid /\ rrobid = csrrobid) /\ head' = head
      BY <2>1, <1>3, <1>5, <1>10, <1>17, <1>18 DEF IInv, CsrOldest
    <3>2. csrrobid \notin pending'
      BY <2>1, <3>1, <1>11
    <3>3. ~(rvalid' /\ rrobid' = csrrobid)
      BY <3>1, <1>u, <1>2, <1>7, <1>8
    <3>4. ~retv' /\ csrrobid = Idx(head') /\ head' # tail'
      BY <2>1, <3>1, <1>3, <1>4, <1>13, <1>18
    <3>5. QED
      BY <3>1, <3>2, <3>3, <3>4, <1>6 DEF CsrOldest
  <2>2. CASE write
    <3>1. /\ csrrobid' = rrobid /\ rrobid \in InFlight /\ rrobid # w
          /\ kind[rrobid] = "csr" /\ ~executed[rrobid] /\ rrobid \notin pending
          /\ rrobid = Idx(head')
      BY <2>2, <1>3, <1>5, <1>10, <1>16, <1>17
         DEF IInv, RenameYoungest, IsStore, RenameIsHead
    <3>2. rrobid \notin pending'
      BY <2>2, <3>1, <1>11 DEF IInv, CsrOldest
    <3>3. ~(rvalid' /\ rrobid' = rrobid)
      BY <2>2, <3>1, <1>2, <1>8
    <3>4. ~retv' /\ head' # tail'
      BY <2>2, <3>1, <1>3, <1>4, <1>13, <1>16
    <3>5. QED
      BY <3>1, <3>2, <3>3, <3>4, <1>6 DEF CsrOldest
  <2>3. QED
    BY <2>1, <2>2, <1>10 DEF CsrOldest
<1>24. ArriveExecuted'
  BY <1>1, <1>4, <1>6, <1>17 DEF ArriveExecuted, IInv
<1>25. NothingLost'
  <2>1. SUFFICES ASSUME NEW s \in InFlight', ~executed'[s]
                 PROVE  LET inRename == rvalid' /\ rrobid' = s
                            inCsr    == csrv' /\ csrrobid' = s
                            inUnit   == s \in pending'
                        IN \/ inRename /\ ~inCsr /\ ~inUnit
                           \/ ~inRename /\ inCsr /\ ~inUnit
                           \/ ~inRename /\ ~inCsr /\ inUnit
    BY DEF NothingLost
  <2>2. CASE beat /\ s = Idx(tail)
    <3>1. rvalid' /\ rrobid' = s /\ s \notin InFlight
      BY <2>1, <2>2, <1>2, <1>6, <1>7, <1>8
    <3>2. s \notin pending' /\ ~(csrv' /\ csrrobid' = s)
      BY <3>1, <1>10, <1>11, <1>16, <1>17, <1>18 DEF IInv, ResultsHaveOwners
    <3>3. QED
      BY <3>1, <3>2
  <2>3. CASE s \in rest
    <3>1. /\ s \in InFlight /\ ~executed[s] /\ s # w /\ (beat => s # Idx(tail))
          /\ ~IsStore(kind[s]) /\ ~IsErr(kind[s])
      BY <2>1, <2>3, <1>2, <1>6, <1>17 DEF IInv, ArriveExecuted
    <3>2. CASE rvalid /\ rrobid = s
      <4>1. /\ s \notin pending /\ ~(csrv /\ csrrobid = s) /\ rkind = kind[s]
            /\ rkind \in Kinds
        BY <3>2 DEF IInv, RenameYoungest, CsrOldest, TypeOK
      <4>2. CASE rs
        BY <3>2, <4>1, <4>2, <1>8, <1>10, <1>11
      <4>3. CASE ~rs /\ rkind = "csr"
        BY <3>1, <3>2, <4>1, <4>3, <1>7, <1>8, <1>10, <1>11
      <4>4. CASE ~rs /\ rkind # "csr"
        <5>1. rkind \in {"alu", "br", "jalr", "load"}
          BY <3>1, <4>1, <4>4, KindsAssumption DEF AllKinds, IsStore, IsErr
        <5>2. QED
          BY <3>1, <3>2, <4>1, <4>4, <5>1, <1>8, <1>10, <1>11
      <4>5. QED
        BY <4>2, <4>3, <4>4, <1>u
    <3>3. CASE csrv /\ csrrobid = s
      <4>1. s \notin pending /\ ~(rvalid /\ rrobid = s)
        BY <3>3 DEF IInv, CsrOldest
      <4>2. QED
        BY <3>1, <3>3, <4>1, <1>u, <1>7, <1>8, <1>10, <1>11
    <3>4. CASE s \in pending
      <4>1. ~(csrv /\ csrrobid = s) /\ ~(rvalid /\ rrobid = s)
        BY <3>4 DEF IInv, CsrOldest, RenameYoungest
      <4>2. QED
        BY <3>1, <3>4, <4>1, <1>u, <1>7, <1>8, <1>10, <1>11
    <3>5. QED
      BY <3>1, <3>2, <3>3, <3>4 DEF IInv, NothingLost
  <2>4. QED
    BY <2>1, <2>2, <2>3, <1>4
<1>26. ResultsHaveOwners'
  <2>1. SUFFICES ASSUME NEW s \in pending'
                 PROVE  /\ s \in InFlight' /\ ~executed'[s]
                        /\ ~IsErr(kind'[s]) /\ ~IsStore(kind'[s])
    BY DEF ResultsHaveOwners
  <2>2. CASE s \in pending /\ s # w
    <3>1. s \in InFlight /\ ~executed[s] /\ ~IsErr(kind[s]) /\ ~IsStore(kind[s])
      BY <2>2 DEF IInv, ResultsHaveOwners
    <3>2. s \in rest
      BY <3>1, <1>1 DEF IInv, RetireStage
    <3>3. QED
      BY <2>2, <3>1, <3>2, <1>6, <1>17
  <2>3. CASE csrv /\ s = csrrobid
    <3>1. /\ s \in rest /\ ~executed[s] /\ kind[s] = "csr" /\ s # w
      BY <2>3, <1>5, <1>17, <1>18 DEF IInv, CsrOldest
    <3>2. QED
      BY <3>1, <1>6, <1>17 DEF IsErr, IsStore
  <2>4. CASE rvalid /\ s = rrobid /\ rkind \in {"alu", "br", "jalr", "load"}
    <3>1. s \in rest /\ ~executed[s] /\ kind[s] = rkind /\ s # w
      BY <2>4, <1>5, <1>16, <1>17 DEF IInv, RenameYoungest, IsStore
    <3>2. QED
      BY <2>4, <3>1, <1>6, <1>17 DEF IsErr, IsStore
  <2>5. QED
    BY <2>1, <2>2, <2>3, <2>4, <1>11
<1>27. StoresMatch'
  <2>1. SUFFICES ASSUME NEW s
                 PROVE  s \in sqwait' <=> /\ s \in InFlight' /\ kind'[s] = "store"
                                          /\ ~(rvalid' /\ rrobid' = s)
    BY <1>t DEF StoresMatch, InFlight, Live, TypeOK
  <2>2. CASE s \in rest
    <3>1. /\ s \in InFlight /\ s \in InFlight' /\ kind'[s] = kind[s]
          /\ ~(retv /\ s = Idx(head)) /\ (beat => s # Idx(tail))
      BY <2>2, <1>1, <1>2, <1>6, <1>17
    <3>2. s \in sqwait <=> kind[s] = "store" /\ ~(rvalid /\ rrobid = s)
      BY <3>1 DEF IInv, StoresMatch
    <3>3. rvalid /\ rrobid = s => rkind = kind[s]
      BY DEF IInv, RenameYoungest
    <3>4. RobRetStore => s # Idx(head)
      BY <3>1 DEF RobRetStore, RobRetValid
    <3>5. QED
      BY <3>1, <3>2, <3>3, <3>4, <1>8, <1>12, <1>7
  <2>3. CASE beat /\ s = Idx(tail)
    <3>1. /\ s \notin InFlight /\ s \in InFlight' /\ kind'[s] = dkind /\ ~rs
      BY <2>3, <1>2, <1>4, <1>6, <1>7
    <3>2. s \notin sqwait /\ ~(rvalid /\ rrobid = s)
      BY <3>1, <1>16, <1>17 DEF IInv, StoresMatch
    <3>3. kind'[s] = "store" => rvalid' /\ rrobid' = s
      BY <2>3, <3>1, <1>8 DEF IsErr
    <3>4. QED
      BY <3>1, <3>2, <3>3, <1>12
  <2>4. CASE s \notin InFlight'
    <3>1. s \notin rest
      BY <2>4, <1>17
    <3>2. s \in sqwait => RobRetStore /\ s = Idx(head)
      <4>1. SUFFICES ASSUME s \in sqwait PROVE RobRetStore /\ s = Idx(head)
        OBVIOUS
      <4>2. s \in InFlight /\ kind[s] = "store"
        BY <4>1 DEF IInv, StoresMatch
      <4>3. retv /\ s = Idx(head) /\ retk = "store"
        BY <3>1, <4>2, <1>1 DEF IInv, RetireStage
      <4>4. QED
        BY <4>3 DEF RobFlush, RobRetStore, RobRetValid, IsStore
    <3>3. ~(rvalid /\ rrobid = s)
      BY <3>1, <1>16
    <3>4. QED
      BY <2>4, <3>2, <3>3, <1>12
  <2>5. QED
    BY <2>2, <2>3, <2>4, <1>4
<1>28. RenameRobid'
  <2>1. CASE beat
    BY <2>1, <1>u, <1>3, <1>6, <1>7, <1>8, PointerTypes DEF RenameRobid
  <2>2. CASE ~beat
    BY <2>2, <1>3, <1>8 DEF RenameRobid
  <2>3. QED
    BY <2>1, <2>2
<1>29. StoreMovesOn'
  <2>1. SUFFICES ASSUME ~retv', head' # tail', kind'[Idx(head')] = "store"
                 PROVE  \/ Dist(head', tail') = 1
                        \/ Dist(head', tail') = 2 /\ rrobid' = Idx(Dec(tail'))
    BY DEF StoreMovesOn
  <2>2. CASE RetRd = tail
    <3>1. beat /\ head' = tail /\ tail' = Inc(tail)
      BY <2>1, <2>2, <1>3
    <3>2. Dist(tail, tail) = 0
      BY <1>u, DistanceType
    <3>3. Dist(tail, Inc(tail)) = 1
      BY <3>2, <1>u, PutYoungest, RingSize
    <3>4. QED
      BY <3>1, <3>3
  <2>3. CASE RetRd # tail
    <3>1. kind[Idx(RetRd)] = "store" /\ executed[Idx(RetRd)]
      BY <2>1, <2>3, <1>3, <1>6, <1>15, <1>17 DEF IInv, ArriveExecuted, IsStore
    <3>2. RenameIsHead
      BY <2>1, <2>3, <3>1, <1>13
    <3>3. rvalid /\ rrobid = Idx(Dec(tail)) /\ rrobid = Idx(RetRd)
      BY <2>3, <3>1, <3>2, HoldIsReal DEF StoreHoldIsReal, RenameIsHead, IInv, RenameYoungest
    <3>4. Dist(RetRd, tail) = 1
      BY <2>3, <3>3, <1>u, <1>1, YoungestSlot
    <3>5. CASE beat
      BY <3>4, <3>5, <1>u, <1>2, <1>3, <1>7, <1>8, PutYoungest, PointerTypes, RingSize
    <3>6. CASE ~beat
      BY <3>4, <3>6, <1>3
    <3>7. QED
      BY <3>5, <3>6
  <2>4. QED
    BY <2>2, <2>3
<1>30. QED
  BY <1>t, <1>4, <1>20, <1>21, <1>22, <1>23, <1>24, <1>25, <1>26, <1>27, <1>28, <1>29
     DEF IInv

-----------------------------------------------------------------------------
(* The theorems *)

\* Whatever happens, every edge keeps the invariant.
THEOREM StepInv == IInv /\ [Next]_vars => IInv'
<1>1. SUFFICES ASSUME IInv, [Next]_vars PROVE IInv'
  OBVIOUS
<1>2. CASE UNCHANGED vars
  BY <1>1, <1>2 DEF vars, IInv, TypeOK, WindowBounded, RetireStage, RenameYoungest,
     ForwardOwned, CsrOldest, ArriveExecuted, NothingLost, ResultsHaveOwners,
     StoresMatch, RenameRobid, StoreMovesOn, InFlight
<1>3. CASE Next
  <2>1. PICK ustall \in BOOLEAN, cstall \in BOOLEAN : Clock(ustall, cstall)
    BY <1>3 DEF Next, UnitStalls, CsrStalls, Stalls
  <2>2. PICK f \in Offers : \/ Quiet(f, ustall, cstall)
                            \/ \E w \in Slots : Result(f, ustall, cstall, w)
    BY <2>1 DEF Clock
  <2>3. f \in Kinds \cup {"none"}
    BY <2>2 DEF Offers
  <2>4. PICK w \in pending \cup {None}, o \in Outcomes :
          /\ w # None => ~fwdv
          /\ Edge(f, ustall, cstall, w, o)
    <3>1. CASE Quiet(f, ustall, cstall)
      BY <3>1 DEF Quiet, Outcomes
    <3>2. CASE \E w \in Slots : Result(f, ustall, cstall, w)
      BY <3>2 DEF Result, OutcomesOf, Outcomes
    <3>3. QED
      BY <2>2, <3>1, <3>2
  <2>5. CASE RobFlush
    BY <1>1, <2>3, <2>4, <2>5, FlushEdge
  <2>6. CASE ~RobFlush
    BY <1>1, <2>3, <2>4, <2>6, OrdinaryEdge
  <2>7. QED
    BY <2>5, <2>6
<1>4. QED
  BY <1>1, <1>2, <1>3

\* The invariant holds in every behaviour of the reorder buffer.
THEOREM Invariance == Spec => []IInv
<1>1. Init => IInv
  BY InitInv
<1>2. IInv /\ [Next]_vars => IInv'
  BY StepInv
<1>3. QED
  BY <1>1, <1>2, PTL DEF Spec

\* All registers keep their types (rob.v, rename.v, decode.v, csr.v).
THEOREM TypeCorrect == Spec => []TypeOK
<1>1. IInv => TypeOK
  BY DEF IInv
<1>2. QED
  BY <1>1, Invariance, PTL

\* No instruction in the window loses its result, or is owed two.
THEOREM NothingIsLost == Spec => []NothingLost
<1>1. IInv => NothingLost
  BY DEF IInv
<1>2. QED
  BY <1>1, Invariance, PTL

\* Robid reuse is safe: every result due belongs to a live, waiting entry.
THEOREM ResultsAreOwned == Spec => []ResultsHaveOwners
<1>1. IInv => ResultsHaveOwners
  BY DEF IInv
<1>2. QED
  BY <1>1, Invariance, PTL

\* What retires is finished in rename, in the units and on the bus.
THEOREM RetirementIsFinal == Spec => []RetiresFinished
<1>1. IInv => RetiresFinished
  <2>1. SUFFICES ASSUME IInv, retv
                 PROVE  LET s == Idx(head)
                        IN /\ s \in InFlight /\ executed[s]
                           /\ s \notin pending
                           /\ ~(rvalid /\ rrobid = s)
                           /\ ~(csrv /\ csrrobid = s)
                           /\ ~(fwdv /\ fwdrobid = s)
    BY DEF RetiresFinished
  <2>2. Idx(head) \in InFlight /\ executed[Idx(head)]
    BY <2>1, TakeOldest DEF IInv, TypeOK, RetireStage, WindowBounded, InFlight
  <2>3. Idx(head) \notin pending /\ ~(fwdv /\ fwdrobid = Idx(head))
    BY <2>1, <2>2 DEF IInv, ResultsHaveOwners, ForwardOwned
  <2>4. ~(rvalid /\ rrobid = Idx(head)) /\ ~csrv
    BY <2>1 DEF IInv, RenameYoungest, CsrOldest
  <2>5. QED
    BY <2>2, <2>3, <2>4
<1>2. QED
  BY <1>1, Invariance, PTL

\* The store queue holds exactly the dispatched, unretired stores.
THEOREM StoreQueueAgrees == Spec => []StoresMatch
<1>1. IInv => StoresMatch
  BY DEF IInv
<1>2. QED
  BY <1>1, Invariance, PTL

\* A csr access is never squashed, though csr.v ignores the flush.
THEOREM CsrIsNonSpeculative == Spec => []CsrNonSpeculative
<1>1. IInv => CsrNonSpeculative
  BY TakeOldest DEF IInv, TypeOK, CsrOldest, CsrNonSpeculative, WindowBounded, InFlight, RobFlush
<1>2. QED
  BY <1>1, Invariance, PTL

\* The hold on a store at the head never outlives its dispatch.
THEOREM StoreHoldOnlyInRename == Spec => []StoreHoldIsReal
BY Invariance, HoldIsReal, PTL

-----------------------------------------------------------------------------
(* The abstract window: read from the head to the tail, the ring is the    *)
(* queue, and every clock edge is one of its steps.                        *)

\* What the ring holds after the retiring instruction has left, oldest first.
RestBar == [i \in 1 .. Dist(RetRd, tail) |->
              [kind |-> kind[Nth(RetRd, i)], done |-> executed[Nth(RetRd, i)],
               outcome |-> outcome[Nth(RetRd, i)]]]

WindowEntries == [kind : Kinds, done : BOOLEAN, outcome : Outcomes]

\* A function on 1 .. n is a sequence.
LEMMA SeqOf ==
  ASSUME NEW S, NEW n \in Nat, NEW g \in [1 .. n -> S]
  PROVE  g \in Seq(S) /\ Len(g) = n
OBVIOUS

\* Reading the ring from an entry on gives a queue of entries.
LEMMA ReadRing ==
  ASSUME IInv
  PROVE  /\ head \in Ptrs /\ tail \in Ptrs /\ RetRd \in Ptrs
         /\ Dist(head, tail) \in 0 .. N /\ Dist(RetRd, tail) \in 0 .. N
         /\ retv => Dist(RetRd, tail) = Dist(head, tail) - 1
         /\ \A i \in 1 .. Dist(head, tail) : Nth(head, i) \in Slots
         /\ \A i \in 1 .. Dist(RetRd, tail) : Nth(RetRd, i) \in Slots
         /\ windowBar \in Seq(WindowEntries) /\ Len(windowBar) = Dist(head, tail)
         /\ RestBar \in Seq(WindowEntries) /\ Len(RestBar) = Dist(RetRd, tail)
<1>1. head \in Ptrs /\ tail \in Ptrs /\ RetRd \in Ptrs /\ retv \in BOOLEAN
  BY PointerTypes DEF IInv, TypeOK, RetRd
<1>2. Dist(head, tail) \in 0 .. N
  BY <1>1, RingSize, DistanceType DEF IInv, WindowBounded
<1>3. retv => Dist(RetRd, tail) = Dist(head, tail) - 1 /\ Dist(head, tail) # 0
  BY <1>1, <1>2, TakeOldest, DistanceType DEF IInv, RetireStage, RetRd
<1>4. Dist(RetRd, tail) \in 0 .. N
  BY <1>1, <1>2, <1>3, RingSize DEF RetRd
<1>5. /\ \A i \in 1 .. Dist(head, tail) : Nth(head, i) \in Slots
      /\ \A i \in 1 .. Dist(RetRd, tail) : Nth(RetRd, i) \in Slots
  BY <1>1, <1>2, <1>4, RingSize, NthSlot
<1>6. kind \in [Slots -> Kinds] /\ executed \in [Slots -> BOOLEAN] /\ outcome \in [Slots -> Outcomes]
  BY DEF IInv, TypeOK
<1>7. windowBar \in Seq(WindowEntries) /\ Len(windowBar) = Dist(head, tail)
  <2>1. \A i \in 1 .. Dist(head, tail) : EntryAt(i) \in WindowEntries
    BY <1>5, <1>6 DEF EntryAt, WindowEntries
  <2>2. windowBar \in [1 .. Dist(head, tail) -> WindowEntries]
    BY <2>1 DEF windowBar
  <2>3. QED
    BY <1>2, <2>2, SeqOf, RingSize
<1>8. RestBar \in Seq(WindowEntries) /\ Len(RestBar) = Dist(RetRd, tail)
  <2>1. RestBar \in [1 .. Dist(RetRd, tail) -> WindowEntries]
    BY <1>5, <1>6 DEF RestBar, WindowEntries
  <2>2. QED
    BY <1>4, <2>1, SeqOf, RingSize
<1>9. QED
  BY <1>1, <1>2, <1>3, <1>4, <1>5, <1>7, <1>8

\* The abstract queue without the instruction that is shown.
LEMMA RestIsRest ==
  ASSUME IInv
  PROVE  Abstract!Rest = RestBar
<1>1. CASE retv
  <2>1. outBar # Abstract!Nothing
    BY <1>1 DEF outBar, Abstract!Nothing, Abstract!Entry
  <2>2. \A i \in 1 .. Dist(RetRd, tail) : Nth(RetRd, i) = Nth(head, i + 1)
    BY <1>1, ReadRing, NthSlot, RingSize DEF RetRd
  <2>3. windowBar # << >>
    BY <1>1, ReadRing, RingSize
  <2>4. \A i \in 1 .. Dist(RetRd, tail) : windowBar[i + 1] = RestBar[i]
    BY <1>1, <2>2, ReadRing DEF windowBar, EntryAt, RestBar
  <2>5. Tail(windowBar) = RestBar
    <3>1. /\ Tail(windowBar) \in Seq(WindowEntries) /\ Len(Tail(windowBar)) = Dist(RetRd, tail)
          /\ \A i \in 1 .. Len(Tail(windowBar)) : Tail(windowBar)[i] = windowBar[i + 1]
      BY <1>1, <2>3, ReadRing, HeadTailProperties
    <3>2. QED
      BY <2>4, <3>1, ReadRing, SeqEqual
  <2>6. QED
    BY <2>1, <2>5 DEF Abstract!Rest
<1>2. CASE ~retv
  <2>1. outBar = Abstract!Nothing
    BY <1>2 DEF outBar, Abstract!Nothing, Abstract!Entry
  <2>2. windowBar = RestBar
    BY <1>2 DEF windowBar, EntryAt, RestBar, RetRd
  <2>3. QED
    BY <2>1, <2>2 DEF Abstract!Rest
<1>3. QED
  BY <1>1, <1>2 DEF IInv, TypeOK

\* The instruction that is shown redirects fetch in the cycle of a flush.
LEMMA RedirectIsFlush == ASSUME IInv PROVE Abstract!Redirects(outBar) <=> RobFlush
<1>1. retv \in BOOLEAN /\ "none" # "jalr"
  BY DEF IInv, TypeOK
<1>2. CASE retv
  BY <1>2 DEF outBar, Abstract!Redirects, RobFlush
<1>3. CASE ~retv
  BY <1>1, <1>3 DEF outBar, Abstract!Redirects, RobFlush
<1>4. QED
  BY <1>1, <1>2, <1>3

\* A flush takes the whole queue.
LEMMA FlushSquashes ==
  ASSUME IInv, RobFlush, NEW f, NEW ustall, NEW cstall, NEW w, NEW o,
         Edge(f, ustall, cstall, w, o)
  PROVE  Abstract!Squash
<1>1. Abstract!Redirects(outBar)
  BY RedirectIsFlush
<1>2. head' = 0 /\ tail' = 0 /\ ~retv'
  BY DEF Edge, Pointers, RetireLatch
<1>3. windowBar' = << >>
  <2>1. Dist(head, tail)' = 0
    BY <1>2 DEF Dist
  <2>2. QED
    BY <2>1 DEF windowBar
<1>4. outBar' = Abstract!Nothing
  BY <1>2 DEF outBar, Abstract!Nothing, Abstract!Entry
<1>5. QED
  BY <1>1, <1>3, <1>4 DEF Abstract!Squash

\* The entry of a slot after the edge.
NewWindowEntry(s) == [kind |-> kind'[s], done |-> executed'[s], outcome |-> outcome'[s]]

Arrival == [kind |-> dkind, done |-> IsErr(dkind) \/ IsStore(dkind),
            outcome |-> IF IsErr(dkind) THEN "err" ELSE "ok"]

\* What an ordinary edge makes of the entries that stay, and of the arriving one.
WindowEntriesFollow(beat, w, o) ==
  /\ \A i \in 1 .. Dist(RetRd, tail) :
       NewWindowEntry(Nth(RetRd, i)) =
         IF Nth(RetRd, i) = w
         THEN [kind |-> RestBar[i].kind, done |-> TRUE, outcome |-> o] ELSE RestBar[i]
  /\ beat => NewWindowEntry(Idx(tail)) = Arrival

LEMMA WindowEntriesMove ==
  ASSUME IInv, ~RobFlush,
         NEW f \in Kinds \cup {"none"}, NEW ustall \in BOOLEAN, NEW cstall \in BOOLEAN,
         NEW w \in pending \cup {None}, NEW o \in Outcomes, w # None => ~fwdv,
         Edge(f, ustall, cstall, w, o)
  PROVE  WindowEntriesFollow(DecodeBeat(RenameStall(ustall, cstall)), w, o)
<1> DEFINE rs == RenameStall(ustall, cstall)
           beat == DecodeBeat(rs)
<1>1. WindowMoves(rs, w)
  BY OrdinaryWindow
<1>2. BufWrite(rs, w, o)
  BY DEF Edge
<1>3. /\ RobWrite(w) <=> w # None
      /\ w # None => WbRobid(w) = w
      /\ beat => Idx(tail) \notin InFlight
      /\ \A s : s \in Live(RetRd, tail) => s \in InFlight
      /\ w # None => w \in InFlight
  BY <1>1 DEF WindowMoves
<1>4. None \notin Slots /\ Idx(tail) \in Slots /\ InFlight \subseteq Slots
      /\ executed \in [Slots -> BOOLEAN] /\ IsErr(dkind) \in BOOLEAN /\ IsStore(dkind) \in BOOLEAN
  BY RingSize, PointerTypes DEF None, Slots, IInv, TypeOK, InFlight, Live, IsErr, IsStore
<1>5. \A s \in InFlight : /\ kind'[s] = kind[s]
                          /\ executed'[s] = IF s = w THEN TRUE ELSE executed[s]
                          /\ outcome'[s] = IF s = w THEN o ELSE outcome[s]
  <2>1. \A s \in InFlight : ~(beat /\ s = Idx(tail)) /\ s \in Slots /\ s # None
    BY <1>3, <1>4
  <2>2. \A s \in InFlight : RobWrite(w) /\ s = WbRobid(w) <=> s = w
    BY <1>3, <2>1
  <2>3. QED
    BY <1>2, <2>1, <2>2 DEF BufWrite
<1>6. beat => /\ kind'[Idx(tail)] = dkind
              /\ executed'[Idx(tail)] = (IsErr(dkind) \/ IsStore(dkind))
              /\ outcome'[Idx(tail)] = IF IsErr(dkind) THEN "err" ELSE "ok"
  <2>1. beat => ~(RobWrite(w) /\ Idx(tail) = WbRobid(w))
    BY <1>3
  <2>2. QED
    BY <1>2, <1>4, <2>1 DEF BufWrite
<1>7. ASSUME NEW i \in 1 .. Dist(RetRd, tail)
      PROVE  Nth(RetRd, i) \in InFlight
  <2>1. RetRd \in Ptrs /\ tail \in Ptrs /\ Dist(RetRd, tail) \in 0 .. N
    BY ReadRing
  <2>2. Nth(RetRd, i) \in Slots /\ Age(RetRd, Nth(RetRd, i)) < Dist(RetRd, tail)
    BY <2>1, NthSlot, RingSize
  <2>3. Nth(RetRd, i) \in Live(RetRd, tail)
    BY <2>2 DEF Live
  <2>4. QED
    BY <1>3, <2>3
<1>8. QED
  BY <1>5, <1>6, <1>7 DEF RestBar, NewWindowEntry, Arrival, WindowEntriesFollow

\* Any other edge advances the queue.
LEMMA OrdinaryAdvances ==
  ASSUME IInv, IInv', ~RobFlush,
         NEW f \in Kinds \cup {"none"}, NEW ustall \in BOOLEAN, NEW cstall \in BOOLEAN,
         NEW w \in pending \cup {None}, NEW o \in Outcomes, w # None => ~fwdv,
         w # None => o \in OutcomesOf(kind[w]),
         Edge(f, ustall, cstall, w, o)
  PROVE  Abstract!Advance
<1> DEFINE rs == RenameStall(ustall, cstall)
           beat == DecodeBeat(rs)
           n == Dist(RetRd, tail)
           q == [i \in 1 .. n |-> NewWindowEntry(Nth(RetRd, i))]
<1>1. WindowMoves(rs, w)
  BY OrdinaryWindow
<1>2. /\ RetRd \in Ptrs /\ tail \in Ptrs /\ n \in 0 .. N /\ n \in Nat
      /\ RestBar \in Seq(WindowEntries) /\ Len(RestBar) = n
      /\ windowBar \in Seq(WindowEntries) /\ Len(windowBar) = Dist(head, tail)
      /\ \A i \in 1 .. n : Nth(RetRd, i) \in Slots
  BY ReadRing, RingSize
<1>3. /\ head' = RetRd /\ tail' = IF beat THEN Inc(tail) ELSE tail
      /\ beat => Dist(head, tail) < N /\ n < N
  BY <1>1 DEF WindowMoves
<1>4. /\ \A i \in 1 .. n : NewWindowEntry(Nth(RetRd, i)) =
           IF Nth(RetRd, i) = w
           THEN [kind |-> RestBar[i].kind, done |-> TRUE, outcome |-> o] ELSE RestBar[i]
      /\ beat => NewWindowEntry(Idx(tail)) = Arrival
  <2>1. WindowEntriesFollow(beat, w, o)
    BY WindowEntriesMove
  <2>2. QED
    BY <2>1 DEF WindowEntriesFollow
<1>5. \A s \in Slots : NewWindowEntry(s) \in WindowEntries
  BY DEF IInv, TypeOK, WindowEntries, NewWindowEntry
<1>6. /\ q \in Seq(WindowEntries) /\ Len(q) = n
      /\ \A i \in 1 .. n : q[i] = NewWindowEntry(Nth(RetRd, i))
  <2>1. q \in [1 .. n -> WindowEntries]
    BY <1>2, <1>5
  <2>2. QED
    BY <1>2, <2>1, SeqOf
<1>w. windowBar' = [i \in 1 .. Dist(head', tail') |-> NewWindowEntry(Nth(head', i))]
  BY DEF windowBar, EntryAt, NewWindowEntry
<1>v. windowBar' = q \/ beat
  BY <1>3, <1>w
<1>u. \A i \in 1 .. n : RestBar[i] = [kind |-> kind[Nth(RetRd, i)], done |-> executed[Nth(RetRd, i)],
                                    outcome |-> outcome[Nth(RetRd, i)]]
  BY DEF RestBar
<1> HIDE DEF q, n
<1>7. q \in Abstract!Finishings
  <2>1. Abstract!Rest = RestBar
    BY RestIsRest
  <2>2. CASE w = None
    <3>1. \A i \in 1 .. n : q[i] = RestBar[i]
      <4>1. \A i \in 1 .. n : Nth(RetRd, i) # w
        BY <1>2, <2>2, RingSize DEF None, Slots
      <4>2. QED
        BY <1>4, <1>6, <4>1
    <3>2. q = RestBar
      BY <1>2, <1>6, <3>1, SeqEqual
    <3>3. QED
      BY <2>1, <3>2 DEF Abstract!Finishings
  <2>3. CASE w # None
    <3> DEFINE k == Age(RetRd, w) + 1
    <3>1. w \in Live(RetRd, tail) /\ ~executed[w]
      BY <1>1, <2>3 DEF WindowMoves, IInv, RetireStage
    <3>2. w \in Slots /\ k \in 1 .. n /\ Nth(RetRd, k) = w
      <4>1. w \in Slots /\ Age(RetRd, w) < n
        BY <3>1 DEF Live, n
      <4>2. Age(RetRd, w) \in Nat /\ Nth(RetRd, k) = w
        BY <1>2, <4>1, NthSlot, AgeOrder, RingSize DEF n
      <4>3. QED
        BY <1>2, <4>1, <4>2
    <3>3. RestBar[k] = [kind |-> kind[w], done |-> executed[w], outcome |-> outcome[w]]
      BY <1>u, <3>2
    <3>4. \A i \in 1 .. n : Nth(RetRd, i) = w <=> i = k
      <4>1. \A i \in 1 .. n : Age(RetRd, Nth(RetRd, i)) = i - 1
        BY <1>2, NthSlot, RingSize DEF n
      <4>2. QED
        BY <1>2, <3>2, <4>1
    <3> DEFINE g == [kind |-> RestBar[k].kind, done |-> TRUE, outcome |-> o]
    <3>5. q = [RestBar EXCEPT ![k] = g]
      <4>1. \A i \in 1 .. n : q[i] = IF i = k THEN g ELSE RestBar[i]
        BY <1>4, <1>6, <3>2, <3>4
      <4>2. g \in WindowEntries
        BY <3>3, <3>2 DEF IInv, TypeOK, WindowEntries
      <4>3. /\ [RestBar EXCEPT ![k] = g] \in Seq(WindowEntries) /\ Len([RestBar EXCEPT ![k] = g]) = n
            /\ \A j \in 1 .. n : [RestBar EXCEPT ![k] = g][j] = IF j = k THEN g ELSE RestBar[j]
        BY <1>2, <3>2, <4>2, ExceptSeq
      <4> DEFINE x == [RestBar EXCEPT ![k] = g]
      <4>4. x \in Seq(WindowEntries) /\ Len(x) = n /\ \A i \in 1 .. n : q[i] = x[i]
        BY <4>1, <4>3
      <4> HIDE DEF x, g
      <4>5. q = x
        BY <1>6, <4>4, SeqEqual
      <4>6. QED
        BY <4>5 DEF x
    <3>6. k \in DOMAIN RestBar /\ ~RestBar[k].done /\ o \in OutcomesOf(RestBar[k].kind)
      BY <1>2, <2>3, <3>1, <3>2, <3>3
    <3>7. q = [RestBar EXCEPT ![k] = Abstract!Entry(RestBar[k].kind, TRUE, o)]
      BY <3>5 DEF Abstract!Entry
    <3> HIDE DEF k
    <3> DEFINE Choices(i) == {[RestBar EXCEPT ![i] = Abstract!Entry(@.kind, TRUE, oo)] :
                                oo \in OutcomesOf(RestBar[i].kind)}
    <3>8. q \in Choices(k)
      BY <3>6, <3>7
    <3>9. Choices(k) \in {Choices(i) : i \in {j \in DOMAIN RestBar : ~RestBar[j].done}}
      BY <3>6
    <3>10. Abstract!Finishings = {RestBar} \cup
             UNION {Choices(i) : i \in {j \in DOMAIN RestBar : ~RestBar[j].done}}
      BY <2>1 DEF Abstract!Finishings
    <3> HIDE DEF Choices
    <3>11. QED
      BY <3>8, <3>9, <3>10
  <2>4. QED
    BY <2>2, <2>3
<1>8. \/ windowBar' = q
      \/ /\ Len(windowBar) < N
         /\ \E a \in Abstract!Arrivals : windowBar' = Append(q, a)
  <2>1. CASE ~beat
    BY <1>v, <2>1
  <2>2. CASE beat
    <3>1. Dist(head', tail') = n + 1 /\ Nth(RetRd, n + 1) = Idx(tail)
      BY <1>2, <1>3, <2>2, PutYoungest, NthSlot, RingSize DEF n
    <3>2. Arrival \in WindowEntries
      BY DEF IInv, TypeOK, WindowEntries, Outcomes, IsErr, IsStore, Arrival
    <3>3. windowBar' = Append(q, Arrival)
      <4>1. windowBar' \in Seq(WindowEntries) /\ Len(windowBar') = n + 1
        <5>1. \A i \in 1 .. n + 1 : Nth(head', i) \in Slots
          BY <1>2, <1>3, <3>1, PointerTypes
        <5>2. windowBar' \in [1 .. n + 1 -> WindowEntries]
          BY <1>5, <1>w, <3>1, <5>1
        <5>3. QED
          BY <1>2, <5>2, SeqOf
      <4>2. \A i \in 1 .. n : windowBar'[i] = q[i]
        BY <1>2, <1>3, <1>6, <1>w, <3>1
      <4>3. windowBar'[n + 1] = Arrival
        BY <1>2, <1>3, <1>4, <1>w, <2>2, <3>1
      <4>4. /\ Append(q, Arrival) \in Seq(WindowEntries) /\ Len(Append(q, Arrival)) = n + 1
            /\ \A i \in 1 .. n : Append(q, Arrival)[i] = q[i]
            /\ Append(q, Arrival)[n + 1] = Arrival
        BY <1>6, <3>2, AppendProperties
      <4>5. \A i \in 1 .. n + 1 : windowBar'[i] = Append(q, Arrival)[i]
        BY <1>2, <4>2, <4>3, <4>4
      <4>6. QED
        BY <4>1, <4>4, <4>5, SeqEqual
    <3>4. Arrival \in Abstract!Arrivals
      BY DEF Abstract!Arrivals, Abstract!Entry, IInv, TypeOK, Arrival
    <3>5. QED
      BY <1>2, <1>3, <2>2, <3>3, <3>4
  <2>3. QED
    BY <2>1, <2>2
<1>9. \/ outBar' = Abstract!Nothing
      \/ RestBar # << >> /\ RestBar[1].done /\ outBar' = RestBar[1]
  <2>1. CASE ~retv'
    BY <2>1 DEF outBar, Abstract!Nothing, Abstract!Entry
  <2>2. CASE retv'
    <3>1. /\ executed[Idx(RetRd)] /\ RetRd # tail /\ retk' = kind[Idx(RetRd)] /\ reto' = outcome[Idx(RetRd)]
      BY <2>2 DEF Edge, RetireLatch
    <3>2. n >= 1 /\ Nth(RetRd, 1) = Idx(RetRd)
      BY <1>2, <3>1, NthSlot, DistanceType DEF n
    <3>3. RestBar[1] = [kind |-> kind[Idx(RetRd)], done |-> executed[Idx(RetRd)], outcome |-> outcome[Idx(RetRd)]]
      BY <1>2, <1>u, <3>2
    <3>4. executed[Idx(RetRd)] = TRUE
      BY <3>1, <1>2, PointerTypes DEF IInv, TypeOK
    <3>5. QED
      BY <1>2, <2>2, <3>1, <3>2, <3>3, <3>4 DEF outBar
  <2>3. QED
    BY <2>1, <2>2
<1>10. ~Abstract!Redirects(outBar)
  BY RedirectIsFlush
<1>11. Abstract!Rest = RestBar
  BY RestIsRest
<1>12. QED
  BY <1>7, <1>8, <1>9, <1>10, <1>11 DEF Abstract!Advance

\* After reset the queue is empty and nothing is shown.
LEMMA WindowInit == Init => Abstract!Init
<1> SUFFICES ASSUME Init PROVE Abstract!Init
  OBVIOUS
<1>1. head = 0 /\ tail = 0 /\ ~retv
  BY DEF Init
<1>2. Dist(head, tail) = 0
  BY <1>1 DEF Dist
<1>3. windowBar = << >>
  BY <1>2 DEF windowBar
<1>4. outBar = Abstract!Nothing
  BY <1>1 DEF outBar, Abstract!Nothing, Abstract!Entry
<1>5. QED
  BY <1>3, <1>4 DEF Abstract!Init

\* Every edge of the pipeline is a step of the abstract window.
LEMMA WindowStep == IInv /\ IInv' /\ [Next]_vars => [Abstract!Next]_<<windowBar, outBar>>
<1> SUFFICES ASSUME IInv, IInv', [Next]_vars PROVE [Abstract!Next]_<<windowBar, outBar>>
  OBVIOUS
<1>1. CASE UNCHANGED vars
  BY <1>1 DEF vars, windowBar, EntryAt, outBar
<1>2. CASE Next
  <2>1. PICK ustall \in BOOLEAN, cstall \in BOOLEAN : Clock(ustall, cstall)
    BY <1>2 DEF Next, UnitStalls, CsrStalls, Stalls
  <2>2. PICK f \in Offers : \/ Quiet(f, ustall, cstall)
                            \/ \E w \in Slots : Result(f, ustall, cstall, w)
    BY <2>1 DEF Clock
  <2>3. f \in Kinds \cup {"none"}
    BY <2>2 DEF Offers
  <2>4. PICK w \in pending \cup {None}, o \in Outcomes :
          /\ w # None => ~fwdv /\ o \in OutcomesOf(kind[w])
          /\ Edge(f, ustall, cstall, w, o)
    <3>1. CASE Quiet(f, ustall, cstall)
      BY <3>1 DEF Quiet, Outcomes
    <3>2. CASE \E w \in Slots : Result(f, ustall, cstall, w)
      BY <3>2 DEF Result, OutcomesOf, Outcomes
    <3>3. QED
      BY <2>2, <3>1, <3>2
  <2>5. CASE RobFlush
    BY <2>4, <2>5, FlushSquashes DEF Abstract!Next
  <2>6. CASE ~RobFlush
    BY <2>3, <2>4, <2>6, OrdinaryAdvances DEF Abstract!Next
  <2>7. QED
    BY <2>5, <2>6
<1>3. QED
  BY <1>1, <1>2

\* The reorder buffer implements the abstract window, for every ring and every mix
\* of instructions: they leave in program order, once each, only when finished, with
\* the outcome that their unit reported, and only the one that leaves squashes the
\* rest (rob.v).
THEOREM RobImplementsWindow == Spec => ImplementsWindow
<1>1. Init => Abstract!Init
  BY WindowInit
<1>2. IInv /\ IInv' /\ [Next]_vars => [Abstract!Next]_<<windowBar, outBar>>
  BY WindowStep
<1>3. QED
  BY <1>1, <1>2, Invariance, PTL DEF Spec, ImplementsWindow, Abstract!Spec
=============================================================================
