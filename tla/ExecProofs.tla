----------------------------- MODULE ExecProofs -----------------------------
(***************************************************************************)
(* The stations, the units and the prioritised bus do what the reorder     *)
(* buffer's model lets the units do, and hold every result that is due in  *)
(* exactly one place: for any number of entries and stations and any       *)
(* programs.                                                               *)
(***************************************************************************)
EXTENDS Exec, RobProofs, FiniteSetTheorems

\* At most one latch drives the bus, and it drives what it holds.
LEMMA OneDriver ==
  ASSUME ExecTypeOK
  PROVE  /\ \A x, y \in Sources : Drives(x) /\ Drives(y) => x = y
         /\ \A x \in Sources : Drives(x) => BusRobid = latch[x]
         /\ BusRobid # None => ~fwdv /\ \E x \in Sources : Drives(x)
<1>1. ASSUME NEW x \in Sources, NEW y \in Sources, Drives(x), Drives(y) PROVE x = y
  <2>1. x \notin Before(y) /\ y \notin Before(x)
    BY <1>1 DEF Drives
  <2>2. QED
    BY <2>1 DEF Sources, Before
<1>2. ASSUME NEW x \in Sources, Drives(x) PROVE BusRobid = latch[x]
  <2>1. (CHOOSE y \in Sources : Drives(y)) = x
    BY <1>1, <1>2
  <2>2. QED
    BY <1>2, <2>1 DEF BusRobid
<1>3. BusRobid # None => ~fwdv /\ \E x \in Sources : Drives(x)
  BY DEF BusRobid, Drives
<1>4. QED
  BY <1>1, <1>2, <1>3

\* After reset every place is empty.
LEMMA ExecInitInv == ExecInit => IInv /\ ExecInv /\ CsrMeetsNobody /\ DueIsPlaced
<1> SUFFICES ASSUME ExecInit PROVE IInv /\ ExecInv /\ CsrMeetsNobody /\ DueIsPlaced
  OBVIOUS
<1>1. IInv
  BY InitInv DEF ExecInit
<1>2. pending = {} /\ ~csrv
  BY DEF ExecInit, Init
<1>3. ExecTypeOK /\ StretchesAccess
  BY DEF ExecInit, ExecTypeOK, StretchesAccess
<1>4. \A u \in Units4 : unit[u] = None
  BY DEF ExecInit
<1>5. \A x \in Sources : latch[x] = None
  BY DEF ExecInit
<1>6. InUnits = {} /\ InLatches = {} /\ stations = {} /\ loads = {}
  BY <1>4, <1>5 DEF InUnits, InLatches, ExecInit
<1>7. PlacesDisjoint /\ PlacesAreDue
  BY <1>4, <1>5, <1>6 DEF PlacesDisjoint, PlacesAreDue, InStations, InLoads
<1>8. StationsBounded
  <2>1. Cardinality({}) = 0
    BY FS_EmptySet
  <2>2. QED
    BY <1>6, <2>1, ExecAssumption DEF StationsBounded
<1>9. QED
  BY <1>1, <1>2, <1>3, <1>7, <1>8 DEF ExecInv, CsrMeetsNobody, DueIsPlaced

-----------------------------------------------------------------------------
(* One clock edge *)

\* An edge and what is known of its inputs; o is the outcome of the result on
\* the bus.
ExecStep(f, mul, class, i, done, ready, lsqfull, l2req, o) ==
  /\ f \in Offers /\ o \in Outcomes
  /\ class \in CsrClasses \cup {"plain"}
  /\ i \in stations \cup {None} /\ ready \in loads \cup {None}
  /\ done \subseteq Units4
  /\ lsqfull \in BOOLEAN /\ l2req \in BOOLEAN
  /\ l2req => csrv /\ csrclass = "l2"
  /\ BusRobid # None => o \in OutcomesOf(kind[BusRobid])
  /\ BusRobid = None => o = "ok"
  /\ LET ustall == UnitFull(lsqfull)
         cstall == CsrStall(l2req)
         stall  == RenameStall(ustall, cstall)
     IN /\ Stations(stall, i, done, mul)
        /\ LoadQueue(stall, ready)
        /\ UnitLatches(i, done)
        /\ WbLatches(done, ready, l2req)
        /\ Edge(f, ustall, cstall, BusRobid, o)
        /\ CsrTimer(cstall, class, l2req)
        /\ program' = program

\* Every step of the specification is such an edge.
LEMMA ExecNextIsStep ==
  ASSUME ExecNext
  PROVE  \E f, mul, class, i, done, ready, lsqfull, l2req, o :
           ExecStep(f, mul, class, i, done, ready, lsqfull, l2req, o)
<1>1. PICK f \in Offers \cap (program \cup {"none"}), i \in stations \cup {None}, done \in Finishing,
           ready \in loads \cup {None}, lsqfull \in LsqFulls, l2req \in L2Reqs, mul \in Muls,
           class \in Classes :
        ExecEdge(f, mul, class, i, done, ready, lsqfull, l2req)
  BY DEF ExecNext, ExecClock
<1>2. PICK o \in (IF BusRobid = None THEN {"ok"} ELSE OutcomesOf(kind[BusRobid])) :
        Edge(f, UnitFull(lsqfull), CsrStall(l2req), BusRobid, o)
  BY <1>1 DEF ExecEdge
<1>3. o \in Outcomes
  BY DEF Outcomes, OutcomesOf
<1>4. class \in CsrClasses \cup {"plain"}
  BY DEF Classes
<1>5. lsqfull \in BOOLEAN /\ l2req \in BOOLEAN /\ (l2req => csrv /\ csrclass = "l2")
  BY DEF LsqFulls, L2Reqs
<1>6. done \subseteq Units4
  BY DEF Finishing, Units4
<1>7. QED
  BY <1>1, <1>2, <1>3, <1>4, <1>5, <1>6 DEF ExecStep, ExecEdge

\* An edge of the stations, the units and the bus is an edge of the reorder
\* buffer: the bus brings a result that is due, and no other input goes beyond
\* what Rob allows.
LEMMA ExecStepIsRobStep == IInv /\ ExecInv /\ ExecNext => Next
<1> SUFFICES ASSUME IInv, ExecInv, ExecNext PROVE Next
  OBVIOUS
<1>1. PICK f, mul, class, i, done, ready, lsqfull, l2req, o :
        ExecStep(f, mul, class, i, done, ready, lsqfull, l2req, o)
  BY ExecNextIsStep
<1> DEFINE cstall == CsrStall(l2req)
           full == UnitFull(lsqfull)
           ustall == IF rvalid /\ rkind # "csr" THEN full ELSE FALSE
<1>2. Edge(f, full, cstall, BusRobid, o)
  BY <1>1 DEF ExecStep
<1>3. Edge(f, ustall, cstall, BusRobid, o)
  <2>1. RenameStall(ustall, cstall) = RenameStall(full, cstall)
    BY DEF RenameStall
  <2>2. QED
    BY <1>2, <2>1 DEF Edge
<1>4. ustall \in UnitStalls
  <2>1. full \in BOOLEAN
    BY <1>1 DEF UnitFull, ExecStep
  <2>2. QED
    BY <2>1 DEF UnitStalls, Stalls
<1>5. cstall \in CsrStalls
  <2>1. cstall \in BOOLEAN
    BY <1>1 DEF CsrStall, ExecInv, ExecTypeOK
  <2>2. ~csrv => ~cstall
    BY DEF CsrStall, ExecInv, StretchesAccess
  <2>3. QED
    BY <2>1, <2>2 DEF CsrStalls, Stalls, IInv, TypeOK
<1>6. CASE BusRobid = None
  <2>1. Quiet(f, ustall, cstall)
    BY <1>1, <1>3, <1>6 DEF Quiet, ExecStep
  <2>2. QED
    BY <1>1, <1>4, <1>5, <2>1 DEF Next, Clock, ExecStep
<1>7. CASE BusRobid # None
  <2>1. BusRobid \in pending /\ ~fwdv
    BY <1>7, OneDriver DEF ExecInv, PlacesAreDue, InLatches
  <2>2. BusRobid \in Slots
    BY <2>1 DEF IInv, TypeOK
  <2>3. Result(f, ustall, cstall, BusRobid)
    BY <1>1, <1>3, <1>7, <2>1 DEF Result, ExecStep
  <2>4. QED
    BY <1>1, <1>4, <1>5, <2>2, <2>3 DEF Next, Clock, ExecStep
<1>8. QED
  BY <1>6, <1>7

\* Who works where after an ordinary edge, and where he was before.
PlaceMoves(i, done, ready, l2req, stall) ==
  LET csrDone == csrv /\ ~CsrStall(l2req)
      leaves  == i # None /\ IssueTo(i, done) # "none"
  IN
    /\ \A s : s \in stations' <=> \/ s \in stations /\ ~(leaves /\ s = i)
                                  \/ Dispatch(stall) /\ rkind \in {"alu", "br", "jalr"} /\ s = rrobid
    /\ \A s : s \in loads' <=> \/ s \in loads /\ (s = ready => WbStall("lsq"))
                               \/ Dispatch(stall) /\ rkind = "load" /\ s = rrobid
    /\ \A u \in Units4 :
         unit'[u] = IF UnitStall(u, done) THEN unit[u]
                    ELSE IF i # None /\ IssueTo(i, done) = u THEN i ELSE None
    /\ leaves => IssueTo(i, done) \in Units4 /\ ~UnitStall(IssueTo(i, done), done)
    /\ latch'["lsq"] = IF WbStall("lsq") THEN latch["lsq"] ELSE ready
    /\ \A u \in Units4 :
         latch'[u] = IF WbStall(u) THEN latch[u]
                     ELSE IF u = "sc0" /\ csrDone THEN csrrobid
                     ELSE IF ~UnitStall(u, done) THEN unit[u] ELSE None

LEMMA OrdinaryPlaceMoves ==
  ASSUME ~RobFlush,
         NEW f, NEW mul, NEW class, NEW i, NEW done, NEW ready, NEW lsqfull, NEW l2req, NEW o,
         ExecStep(f, mul, class, i, done, ready, lsqfull, l2req, o)
  PROVE  PlaceMoves(i, done, ready, l2req, RenameStall(UnitFull(lsqfull), CsrStall(l2req)))
<1> DEFINE stall == RenameStall(UnitFull(lsqfull), CsrStall(l2req))
           leaves == i # None /\ IssueTo(i, done) # "none"
           csrDone == csrv /\ ~CsrStall(l2req)
<1>1. /\ Stations(stall, i, done, mul) /\ LoadQueue(stall, ready) /\ UnitLatches(i, done)
      /\ WbLatches(done, ready, l2req)
  BY DEF ExecStep
<1>2. \A s : s \in stations' <=> \/ s \in stations /\ ~(leaves /\ s = i)
                                 \/ Dispatch(stall) /\ rkind \in {"alu", "br", "jalr"} /\ s = rrobid
  BY <1>1 DEF Stations
<1>3. \A s : s \in loads' <=> \/ s \in loads /\ (s = ready => WbStall("lsq"))
                              \/ Dispatch(stall) /\ rkind = "load" /\ s = rrobid
  BY <1>1 DEF LoadQueue
<1>4. \A u \in Units4 :
         unit'[u] = IF UnitStall(u, done) THEN unit[u]
                    ELSE IF i # None /\ IssueTo(i, done) = u THEN i ELSE None
  BY <1>1 DEF UnitLatches
<1>5. leaves => IssueTo(i, done) \in Units4 /\ ~UnitStall(IssueTo(i, done), done)
  BY DEF IssueTo, Units4
<1>6. latch'["lsq"] = IF WbStall("lsq") THEN latch["lsq"] ELSE ready
  BY <1>1 DEF WbLatches, Sources
<1>7. ASSUME NEW u \in Units4
      PROVE  latch'[u] = IF WbStall(u) THEN latch[u]
                         ELSE IF u = "sc0" /\ csrDone THEN csrrobid
                         ELSE IF ~UnitStall(u, done) THEN unit[u] ELSE None
  <2>1. u \in Sources /\ u # "lsq"
    BY DEF Units4, Sources
  <2>2. latch'[u] = IF WbStall(u) THEN latch[u]
                    ELSE IF u = "sc0" /\ csrDone THEN csrrobid
                    ELSE IF UnitValid(u, done) THEN unit[u] ELSE None
    BY <1>1, <2>1 DEF WbLatches
  <2>3. ~WbStall(u) => (IF UnitValid(u, done) THEN unit[u] ELSE None)
                         = (IF ~UnitStall(u, done) THEN unit[u] ELSE None)
    BY DEF UnitValid, UnitStall
  <2>4. QED
    BY <2>2, <2>3
<1>8. QED
  BY <1>2, <1>3, <1>4, <1>5, <1>6, <1>7 DEF PlaceMoves

\* A result that is due in one place is due in no other, and the instructions
\* that rename and the csr unit hold are due in none.
LEMMA Newcomers ==
  ASSUME IInv, ExecInv
  PROVE  /\ \A s \in stations \cup loads : s \in pending /\ s # None
         /\ \A u \in Units4 : unit[u] # None => unit[u] \in pending
         /\ \A x \in Sources : latch[x] # None => latch[x] \in pending
         /\ rvalid => rrobid \notin pending /\ rrobid # None
         /\ csrv => csrrobid \notin pending /\ csrrobid # None /\ ~(rvalid /\ rrobid = csrrobid)
<1>1. None \notin Slots
  BY RingSize DEF None, Slots
<1>2. /\ \A s \in stations \cup loads : s \in pending /\ s # None
      /\ \A u \in Units4 : unit[u] # None => unit[u] \in pending
      /\ \A x \in Sources : latch[x] # None => latch[x] \in pending
  BY <1>1 DEF ExecInv, PlacesAreDue, InStations, InLoads, InUnits, InLatches, IInv, TypeOK
<1>3. QED
  BY <1>1, <1>2 DEF IInv, TypeOK, RenameYoungest, CsrOldest

\* Every register of the stations, the units and the latches keeps its type.
LEMMA ExecEdgeType ==
  ASSUME IInv, IInv', ExecInv,
         NEW f, NEW mul, NEW class, NEW i, NEW done, NEW ready, NEW lsqfull, NEW l2req, NEW o,
         ExecStep(f, mul, class, i, done, ready, lsqfull, l2req, o)
  PROVE  ExecTypeOK' /\ StretchesAccess'
<1> DEFINE cstall == CsrStall(l2req)
           stall == RenameStall(UnitFull(lsqfull), cstall)
<1>1. /\ Stations(stall, i, done, mul) /\ LoadQueue(stall, ready) /\ UnitLatches(i, done)
      /\ WbLatches(done, ready, l2req) /\ CsrTimer(cstall, class, l2req) /\ program' = program
      /\ Edge(f, UnitFull(lsqfull), cstall, BusRobid, o)
      /\ i \in stations \cup {None} /\ ready \in loads \cup {None}
      /\ class \in CsrClasses \cup {"plain"} /\ l2req \in BOOLEAN
  BY DEF ExecStep
<1>2. rrobid \in Slots /\ csrrobid \in Slots /\ csrv \in BOOLEAN
  BY DEF IInv, TypeOK
<1>3. stations' \subseteq Slots /\ long' \subseteq Slots /\ loads' \subseteq Slots
  BY <1>1, <1>2 DEF Stations, LoadQueue, ExecInv, ExecTypeOK
<1>4. unit' \in [Units4 -> Slots \cup {None}]
  BY <1>1 DEF UnitLatches, ExecInv, ExecTypeOK
<1>5. latch' \in [Sources -> Slots \cup {None}]
  <2> DEFINE offer(x) == IF x = "lsq" THEN ready
                         ELSE IF x = "sc0" /\ csrv /\ ~CsrStall(l2req) THEN csrrobid
                         ELSE IF UnitValid(x, done) THEN unit[x] ELSE None
  <2>1. ASSUME NEW x \in Sources PROVE offer(x) \in Slots \cup {None} /\ latch[x] \in Slots \cup {None}
    <3>1. x = "lsq" \/ x \in Units4
      BY DEF Sources, Units4
    <3>2. QED
      BY <1>1, <1>2, <3>1 DEF ExecInv, ExecTypeOK
  <2>2. latch' = [x \in Sources |-> IF RobFlush THEN None ELSE IF WbStall(x) THEN latch[x] ELSE offer(x)]
    BY <1>1 DEF WbLatches
  <2> HIDE DEF offer
  <2>3. QED
    BY <2>1, <2>2
<1>6. csrclass' \in {"plain", "bfs", "l2"}
  BY <1>1, ExecAssumption DEF CsrTimer, ExecInv, ExecTypeOK
<1>7. bfsreq' \in BOOLEAN /\ l2stall' \in BOOLEAN
  BY <1>1, <1>2 DEF CsrTimer, ExecInv, ExecTypeOK
<1>8. program' \in Programs
  BY <1>1 DEF ExecInv, ExecTypeOK
<1>9. StretchesAccess'
  <2>1. CsrLatch(stall, cstall) /\ CsrTimer(cstall, class, l2req)
    BY <1>1 DEF Edge
  <2>2. bfsreq' => csrv /\ csrclass = "bfs" /\ cstall
    BY <2>1 DEF CsrTimer, CsrStall
  <2>3. l2stall' => csrv /\ csrclass = "l2" /\ cstall
    BY <2>1, <1>1 DEF CsrTimer, CsrStall, ExecInv, StretchesAccess
  <2>4. csrv /\ cstall => csrv' /\ csrclass' = csrclass
    BY <2>1 DEF CsrLatch, CsrTimer
  <2>5. QED
    BY <2>2, <2>3, <2>4 DEF StretchesAccess
<1>10. QED
  BY <1>3, <1>4, <1>5, <1>6, <1>7, <1>8, <1>9 DEF ExecTypeOK

\* No ordinary edge puts a result in two places, or in one without its being due,
\* or in a station that is taken.
LEMMA OrdinaryPlaces ==
  ASSUME IInv, ExecInv, ~RobFlush,
         NEW f, NEW mul, NEW class, NEW i, NEW done, NEW ready, NEW lsqfull, NEW l2req, NEW o,
         ExecStep(f, mul, class, i, done, ready, lsqfull, l2req, o)
  PROVE  PlacesDisjoint' /\ PlacesAreDue' /\ StationsBounded'
<1> DEFINE cstall == CsrStall(l2req)
           stall == RenameStall(UnitFull(lsqfull), cstall)
           leaves == i # None /\ IssueTo(i, done) # "none"
           csrDone == csrv /\ ~cstall
           enters == Dispatch(stall) /\ rkind \in {"alu", "br", "jalr"}
           loads2 == Dispatch(stall) /\ rkind = "load"
<1>1. PlaceMoves(i, done, ready, l2req, stall)
  BY OrdinaryPlaceMoves
<1>2. i \in stations \cup {None} /\ ready \in loads \cup {None}
  BY DEF ExecStep
<1>3. Dispatch(stall) => rvalid /\ rrobid \notin pending /\ rrobid # None
  BY Newcomers DEF Dispatch
<1>4. csrDone => csrrobid \notin pending /\ csrrobid # None /\ (Dispatch(stall) => rrobid # csrrobid)
  BY Newcomers DEF Dispatch
<1>5. /\ \A s \in stations \cup loads : s \in pending /\ s # None
      /\ \A u \in Units4 : unit[u] # None => unit[u] \in pending
      /\ \A x \in Sources : latch[x] # None => latch[x] \in pending
  BY Newcomers
<1>6. PlacesDisjoint
  BY DEF ExecInv
\* who is in a station or a load entry, and in which unit and latch, by origin
<1>7. \A s \in stations' : \/ s \in stations /\ ~(leaves /\ s = i)
                           \/ enters /\ s = rrobid
  BY <1>1 DEF PlaceMoves
<1>8. \A s \in loads' : \/ s \in loads /\ (s = ready => WbStall("lsq"))
                        \/ loads2 /\ s = rrobid
  BY <1>1 DEF PlaceMoves
<1>9. \A u \in Units4 : \/ UnitStall(u, done) /\ unit'[u] = unit[u]
                        \/ leaves /\ IssueTo(i, done) = u /\ unit'[u] = i
                        \/ unit'[u] = None
  BY <1>1 DEF PlaceMoves, Units4, IssueTo
<1>10. \A x \in Sources : \/ WbStall(x) /\ latch'[x] = latch[x]
                          \/ x = "lsq" /\ ~WbStall(x) /\ latch'[x] = ready
                          \/ x = "sc0" /\ csrDone /\ latch'[x] = csrrobid
                          \/ x \in Units4 /\ ~UnitStall(x, done) /\ latch'[x] = unit[x]
                          \/ latch'[x] = None
  <2>1. \A x \in Sources : x = "lsq" \/ x \in Units4
    BY DEF Sources, Units4
  <2>2. QED
    BY <1>1, <2>1 DEF PlaceMoves
<1> HIDE DEF leaves, csrDone, enters, loads2
<1>11. /\ enters => Dispatch(stall) /\ ~loads2
       /\ loads2 => Dispatch(stall)
       /\ leaves => i \in stations
  BY <1>2 DEF enters, loads2, leaves
<1>12. PlacesDisjoint'
  <2>1. (stations \cap loads = {})'
    BY <1>3, <1>5, <1>6, <1>7, <1>8, <1>11 DEF PlacesDisjoint
  <2>2. \A u \in Units4 : unit'[u] \notin stations' \cup loads'
    BY <1>3, <1>5, <1>6, <1>7, <1>8, <1>9, <1>11 DEF PlacesDisjoint
  <2>3. \A x \in Sources : latch'[x] \notin stations' \cup loads'
    BY <1>2, <1>3, <1>4, <1>5, <1>6, <1>7, <1>8, <1>10, <1>11 DEF PlacesDisjoint
  <2>4. \A u \in Units4, x \in Sources : unit'[u] = latch'[x] => unit'[u] = None
    BY <1>2, <1>4, <1>5, <1>6, <1>9, <1>10, <1>11 DEF PlacesDisjoint
  <2>5. \A u, v \in Units4 : unit'[u] = unit'[v] /\ unit'[u] # None => u = v
    BY <1>5, <1>6, <1>9, <1>11 DEF PlacesDisjoint
  <2>6. \A x, y \in Sources : latch'[x] = latch'[y] /\ latch'[x] # None => x = y
    BY <1>2, <1>4, <1>5, <1>6, <1>10 DEF PlacesDisjoint
  <2>7. QED
    BY <2>1, <2>2, <2>3, <2>4, <2>5, <2>6 DEF PlacesDisjoint
<1>13. PlacesAreDue'
  <2>1. pending' = (pending \ {BusRobid}) \cup CsrDone(cstall)
                   \cup (IF Dispatch(stall) /\ rkind \in {"alu", "br", "jalr", "load"} THEN {rrobid} ELSE {})
    BY DEF ExecStep, Edge, Units
  <2>2. BusRobid # None =>
          \E d \in Sources : BusRobid = latch[d] /\ ~WbStall(d)
    BY OneDriver DEF WbStall, ExecInv
  <2>3. /\ \A s \in stations \cup loads : s # BusRobid
        /\ \A u \in Units4 : unit[u] # None => unit[u] # BusRobid
        /\ \A x \in Sources : WbStall(x) => latch[x] # BusRobid
    <3>1. \A x \in Sources : WbStall(x) => latch[x] # None
      BY DEF WbStall
    <3>2. QED
      BY <1>5, <1>6, <2>2, <3>1 DEF PlacesDisjoint
  <2>4. \A s \in pending : s # BusRobid => s \in pending'
    BY <2>1
  <2>5. /\ enters \/ loads2 => rrobid \in pending'
        /\ csrDone => csrrobid \in pending'
    BY <2>1 DEF enters, loads2, csrDone, CsrDone
  <2>6. stations' \subseteq pending' /\ loads' \subseteq pending'
    BY <1>5, <1>7, <1>8, <2>3, <2>4, <2>5
  <2>7. \A u \in Units4 : unit'[u] # None => unit'[u] \in pending'
    BY <1>5, <1>9, <1>11, <2>3, <2>4
  <2>8. \A x \in Sources : latch'[x] # None => latch'[x] \in pending'
    BY <1>2, <1>5, <1>10, <2>3, <2>4, <2>5
  <2>9. QED
    BY <2>6, <2>7, <2>8 DEF PlacesAreDue, InStations, InLoads, InUnits, InLatches
<1>14. StationsBounded'
  <2>1. IsFiniteSet(stations)
    <3>1. IsFiniteSet(Slots)
      BY RingSize, FS_Interval DEF Slots
    <3>2. QED
      BY <3>1, FS_Subset DEF ExecInv, ExecTypeOK
  <2>2. Cardinality(stations) \in Nat /\ Cardinality(stations) <= RsEntries /\ RsEntries \in Nat
    BY <2>1, FS_CardinalityType, ExecAssumption DEF ExecInv, StationsBounded
  <2>3. CASE ~enters
    <3>1. stations' \subseteq stations
      BY <1>7, <2>3
    <3>2. Cardinality(stations') <= Cardinality(stations) /\ Cardinality(stations') \in Nat
      BY <2>1, <3>1, FS_Subset, FS_CardinalityType
    <3>3. QED
      BY <2>2, <3>2 DEF StationsBounded
  <2>4. CASE enters
    <3>1. Cardinality(stations) # RsEntries
      BY <2>4 DEF enters, Dispatch, RenameStall, UnitFull
    <3>2. stations' \subseteq stations \cup {rrobid}
      BY <1>7
    <3>3. IsFiniteSet(stations \cup {rrobid}) /\ Cardinality(stations \cup {rrobid}) <= Cardinality(stations) + 1
          /\ Cardinality(stations \cup {rrobid}) \in Nat
      <4>1. /\ IsFiniteSet(stations \cup {rrobid})
            /\ Cardinality(stations \cup {rrobid})
                 = IF rrobid \in stations THEN Cardinality(stations) ELSE Cardinality(stations) + 1
        BY <2>1, FS_AddElement
      <4>2. Cardinality(stations \cup {rrobid}) \in Nat
        BY <4>1, FS_CardinalityType
      <4>3. QED
        BY <2>2, <4>1, <4>2
    <3>4. Cardinality(stations') <= Cardinality(stations \cup {rrobid}) /\ Cardinality(stations') \in Nat
      BY <3>2, <3>3, FS_Subset, FS_CardinalityType
    <3>5. QED
      BY <2>2, <3>1, <3>3, <3>4 DEF StationsBounded
  <2>5. QED
    BY <2>3, <2>4
<1>15. QED
  BY <1>12, <1>13, <1>14

\* A flush leaves no result behind.
LEMMA FlushPlaces ==
  ASSUME IInv, ExecInv, RobFlush,
         NEW f, NEW mul, NEW class, NEW i, NEW done, NEW ready, NEW lsqfull, NEW l2req, NEW o,
         ExecStep(f, mul, class, i, done, ready, lsqfull, l2req, o)
  PROVE  /\ PlacesDisjoint' /\ PlacesAreDue' /\ StationsBounded'
         /\ CsrMeetsNobody' /\ DueIsPlaced'
<1> DEFINE cstall == CsrStall(l2req)
           stall == RenameStall(UnitFull(lsqfull), cstall)
<1>1. /\ Stations(stall, i, done, mul) /\ LoadQueue(stall, ready) /\ UnitLatches(i, done)
      /\ WbLatches(done, ready, l2req)
      /\ Edge(f, UnitFull(lsqfull), cstall, BusRobid, o)
  BY DEF ExecStep
<1>2. stations' = {} /\ loads' = {}
  BY <1>1 DEF Stations, LoadQueue
<1>3. \A u \in Units4 : unit'[u] = None
  BY <1>1 DEF UnitLatches
<1>4. \A x \in Sources : latch'[x] = None
  BY <1>1 DEF WbLatches
<1>5. pending' = {}
  BY <1>1 DEF Edge, Units
<1>6. InUnits' = {} /\ InLatches' = {}
  BY <1>3, <1>4 DEF InUnits, InLatches
<1>7. PlacesDisjoint' /\ PlacesAreDue' /\ DueIsPlaced'
  BY <1>2, <1>3, <1>4, <1>5, <1>6 DEF PlacesDisjoint, PlacesAreDue, DueIsPlaced, InStations, InLoads
<1>8. CsrMeetsNobody'
  BY <1>2, <1>3, <1>4 DEF CsrMeetsNobody
<1>9. StationsBounded'
  <2>1. Cardinality({}) = 0
    BY FS_EmptySet
  <2>2. QED
    BY <1>2, <2>1, ExecAssumption DEF StationsBounded
<1>10. QED
  BY <1>7, <1>8, <1>9

\* The invariant of the stations, the units and the latches is inductive.
THEOREM ExecStepInv == IInv /\ ExecInv /\ [ExecNext]_allVars => IInv' /\ ExecInv'
<1> SUFFICES ASSUME IInv, ExecInv, [ExecNext]_allVars PROVE IInv' /\ ExecInv'
  OBVIOUS
<1>1. CASE UNCHANGED allVars
  <2>1. UNCHANGED vars /\ UNCHANGED execVars
    BY <1>1 DEF allVars
  <2>2. IInv'
    BY <2>1, StepInv
  <2>3. UNCHANGED pending /\ UNCHANGED csrv
    BY <2>1 DEF vars
  <2>4. ExecInv'
    BY <2>1, <2>3 DEF execVars, ExecInv, ExecTypeOK, StretchesAccess, PlacesDisjoint, PlacesAreDue,
       StationsBounded, InStations, InLoads, InUnits, InLatches
  <2>5. QED
    BY <2>2, <2>4
<1>2. CASE ExecNext
  <2>1. IInv'
    BY <1>2, ExecStepIsRobStep, StepInv
  <2>2. PICK f, mul, class, i, done, ready, lsqfull, l2req, o :
          ExecStep(f, mul, class, i, done, ready, lsqfull, l2req, o)
    BY <1>2, ExecNextIsStep
  <2>3. ExecTypeOK' /\ StretchesAccess'
    BY <2>1, <2>2, ExecEdgeType
  <2>4. PlacesDisjoint' /\ PlacesAreDue' /\ StationsBounded'
    <3>1. CASE RobFlush
      BY <2>2, <3>1, FlushPlaces
    <3>2. CASE ~RobFlush
      BY <2>2, <3>2, OrdinaryPlaces
    <3>3. QED
      BY <3>1, <3>2
  <2>5. QED
    BY <2>1, <2>3, <2>4 DEF ExecInv
<1>3. QED
  BY <1>1, <1>2

\* Whatever the l2 fifo does, no result is in two places of the execution side or
\* in one without its being due, and no instruction takes a station that is taken.
THEOREM ExecInvariance == ExecSpec => [](IInv /\ ExecInv)
<1>1. ExecInit => IInv /\ ExecInv
  BY ExecInitInv
<1>2. IInv /\ ExecInv /\ [ExecNext]_allVars => (IInv /\ ExecInv)'
  BY ExecStepInv
<1>3. QED
  BY <1>1, <1>2, PTL DEF ExecSpec

\* The prioritised bus, the stations and the units implement the reorder buffer's
\* arbitrary bus, so that every theorem of Spec holds of them (wb.v, exers.v,
\* scalu.v, mcalu.v, csr.v), accesses to ml2stat included.
THEOREM ExecImplementsRob == ExecSpec => ImplementsRob
<1>1. ExecInit => Init
  BY DEF ExecInit
<1>2. IInv /\ ExecInv /\ [ExecNext]_allVars => [Next]_vars
  <2>1. UNCHANGED allVars => UNCHANGED vars
    BY DEF allVars
  <2>2. QED
    BY <2>1, ExecStepIsRobStep
<1>3. QED
  BY <1>1, <1>2, ExecInvariance, PTL DEF ExecSpec, ImplementsRob, Spec

-----------------------------------------------------------------------------
(* Nothing that is due is anywhere else *)

\* A csr access starts as the only instruction of the window that is not done.
LEMMA AccessStartsAlone ==
  ASSUME IInv, rvalid, rkind = "csr", RenameIsHead
  PROVE  pending = {} /\ ~csrv
<1>1. /\ head \in Ptrs /\ tail \in Ptrs /\ Dist(head, tail) <= N /\ retv \in BOOLEAN /\ pending \subseteq Slots
      /\ head # tail /\ rrobid = Idx(Dec(tail)) /\ ~(retv /\ rrobid = Idx(head)) /\ rrobid \notin pending
      /\ rrobid = Idx(RetRd)
  BY DEF IInv, TypeOK, WindowBounded, RenameYoungest, RenameIsHead
<1>2. ~csrv
  BY <1>1 DEF IInv, CsrOldest, RetRd
<1>3. \A s \in pending : s \in Live(head, tail) /\ (retv => s # Idx(head))
  BY DEF IInv, ResultsHaveOwners, RetireStage, InFlight
<1>4. /\ RetRd \in Ptrs /\ RetRd # tail /\ Dist(RetRd, tail) <= N
      /\ \A s \in pending : s \in Live(RetRd, tail)
  <2>1. CASE ~retv
    BY <1>1, <1>3, <2>1 DEF RetRd
  <2>2. CASE retv
    <3>1. Dist(head, tail) # 1 /\ Dist(head, tail) \in Nat
      <4>1. Idx(Dec(tail)) = Idx(head) <=> Dist(head, tail) = 1
        BY <1>1, YoungestSlot
      <4>2. Dist(head, tail) \in Nat
        BY <1>1, RingSize, DistanceType
      <4>3. QED
        BY <1>1, <2>2, <4>1, <4>2
    <3>2. /\ Dist(Inc(head), tail) = Dist(head, tail) - 1
          /\ Live(Inc(head), tail) = Live(head, tail) \ {Idx(head)}
          /\ Inc(head) \in Ptrs
      BY <1>1, TakeOldest, PointerTypes
    <3>3. Inc(head) # tail
      BY <1>1, <3>1, <3>2, DistanceType
    <3>4. Dist(Inc(head), tail) <= N
      BY <1>1, <3>1, <3>2, RingSize
    <3>5. QED
      BY <1>3, <2>2, <3>2, <3>3, <3>4 DEF RetRd
  <2>3. QED
    BY <1>1, <2>1, <2>2
<1>5. Dist(RetRd, tail) = 1
  BY <1>1, <1>4, YoungestSlot
<1>6. Live(RetRd, tail) = {rrobid}
  <2>1. Dist(Inc(RetRd), tail) = 0 /\ Live(Inc(RetRd), tail) = Live(RetRd, tail) \ {Idx(RetRd)}
        /\ Inc(RetRd) \in Ptrs /\ Idx(RetRd) \in Live(RetRd, tail)
    BY <1>1, <1>4, <1>5, TakeOldest, PointerTypes
  <2>2. Inc(RetRd) = tail
    BY <1>1, <2>1, DistanceType
  <2>3. Live(tail, tail) = {}
    BY <1>1, EmptyRing
  <2>4. QED
    BY <1>1, <2>1, <2>2, <2>3
<1>7. QED
  BY <1>1, <1>2, <1>4, <1>6

\* When nothing is due, every place is empty.
LEMMA NothingDueNothingPlaced ==
  ASSUME IInv, ExecInv, pending = {}
  PROVE  /\ stations = {} /\ loads = {}
         /\ \A u \in Units4 : unit[u] = None
         /\ \A x \in Sources : latch[x] = None
BY Newcomers

\* While an access that the l2 fifo cannot stall is in the csr unit, it is alone.
LEMMA CsrKeepsAlone ==
  ASSUME IInv, ExecInv, CsrMeetsNobody, NoL2Access, ~RobFlush,
         NEW f, NEW mul, NEW class, NEW i, NEW done, NEW ready, NEW lsqfull, NEW l2req, NEW o,
         ExecStep(f, mul, class, i, done, ready, lsqfull, l2req, o)
  PROVE  CsrMeetsNobody'
<1> DEFINE cstall == CsrStall(l2req)
           stall == RenameStall(UnitFull(lsqfull), cstall)
<1>1. PlaceMoves(i, done, ready, l2req, stall)
  BY OrdinaryPlaceMoves
<1>2. /\ i \in stations \cup {None} /\ ready \in loads \cup {None}
      /\ CsrLatch(stall, cstall) /\ CsrTimer(cstall, class, l2req)
  BY DEF ExecStep, Edge
<1>3. Sources = Units4 \cup {"lsq"}
  BY DEF Sources, Units4
<1>4. ASSUME csrv, cstall
      PROVE  CsrMeetsNobody'
  <2>1. csrclass = "bfs" /\ ~bfsreq
    BY <1>4 DEF CsrStall, NoL2Access, ExecInv, StretchesAccess
  <2>2. /\ stations = {} /\ loads = {} /\ \A u \in Units4 : unit[u] = None
        /\ \A x \in Sources : latch[x] = None
    BY <1>4, <2>1 DEF CsrMeetsNobody
  <2>3. i = None /\ ready = None
    BY <1>2, <2>2
  <2>4. \A u \in Units4 : unit'[u] = None
    BY <1>1, <2>2, <2>3 DEF PlaceMoves
  <2>5. \A x \in Sources : latch'[x] = None
    BY <1>1, <1>3, <1>4, <2>2, <2>3 DEF PlaceMoves
  <2>6. bfsreq'
    BY <1>2, <1>4, <2>1 DEF CsrTimer
  <2>7. QED
    BY <2>4, <2>5, <2>6 DEF CsrMeetsNobody
<1>5. ASSUME ~(csrv /\ cstall), csrv'
      PROVE  CsrMeetsNobody'
  <2>1. rvalid /\ rkind = "csr" /\ RenameIsHead
    BY <1>2, <1>5 DEF CsrLatch
  <2>2. pending = {} /\ ~csrv
    BY <2>1, AccessStartsAlone
  <2>3. /\ stations = {} /\ loads = {} /\ \A u \in Units4 : unit[u] = None
        /\ \A x \in Sources : latch[x] = None
    BY <2>2, NothingDueNothingPlaced
  <2>4. i = None /\ ready = None
    BY <1>2, <2>3
  <2>5. \A u \in Units4 : unit'[u] = None
    BY <1>1, <2>3, <2>4 DEF PlaceMoves
  <2>6. \A x \in Sources : latch'[x] = None
    BY <1>1, <1>3, <2>2, <2>3, <2>4 DEF PlaceMoves
  <2>7. stations' = {} /\ loads' = {}
    <3>1. /\ \A s : s \notin stations'
          /\ \A s : s \notin loads'
      BY <1>1, <2>1, <2>3 DEF PlaceMoves
    <3>2. QED
      BY <3>1
  <2>8. QED
    BY <2>5, <2>6, <2>7 DEF CsrMeetsNobody
<1>6. ~csrv' => CsrMeetsNobody'
  BY DEF CsrMeetsNobody
<1>7. QED
  BY <1>4, <1>5, <1>6

\* No ordinary edge drops a result, unless the csr unit meets one.
LEMMA NoneFallsBetween ==
  ASSUME IInv, ExecInv, CsrMeetsNobody, DueIsPlaced, ~RobFlush,
         NEW f, NEW mul, NEW class, NEW i, NEW done, NEW ready, NEW lsqfull, NEW l2req, NEW o,
         ExecStep(f, mul, class, i, done, ready, lsqfull, l2req, o)
  PROVE  DueIsPlaced'
<1> DEFINE cstall == CsrStall(l2req)
           stall == RenameStall(UnitFull(lsqfull), cstall)
           placed == InStations \cup InLoads \cup InUnits \cup InLatches
<1>1. PlaceMoves(i, done, ready, l2req, stall)
  BY OrdinaryPlaceMoves
<1>2. i \in stations \cup {None} /\ ready \in loads \cup {None}
  BY DEF ExecStep
<1>3. Sources = Units4 \cup {"lsq"} /\ "sc0" \in Units4
  BY DEF Sources, Units4
<1>4. pending' = (pending \ {BusRobid}) \cup CsrDone(cstall)
                 \cup (IF Dispatch(stall) /\ rkind \in {"alu", "br", "jalr", "load"} THEN {rrobid} ELSE {})
  BY DEF ExecStep, Edge, Units
<1>5. /\ \A s \in stations' : s \in placed'
      /\ \A s \in loads' : s \in placed'
      /\ \A u \in Units4 : unit'[u] # None => unit'[u] \in placed'
      /\ \A x \in Sources : latch'[x] # None => latch'[x] \in placed'
  BY DEF InStations, InLoads, InUnits, InLatches
<1> HIDE DEF placed
<1>6. ASSUME NEW s \in stations, s # None PROVE s \in placed'
  BY <1>1, <1>2, <1>5, <1>6 DEF PlaceMoves
<1>7. ASSUME NEW s \in loads, s # None PROVE s \in placed'
  BY <1>1, <1>3, <1>5, <1>7 DEF PlaceMoves
<1>8. ASSUME NEW u \in Units4, unit[u] # None PROVE unit[u] \in placed'
  <2>1. ~csrv
    BY <1>8 DEF CsrMeetsNobody
  <2>2. ~UnitStall(u, done) => ~WbStall(u)
    BY <1>8 DEF UnitStall
  <2>3. \/ unit'[u] = unit[u]
        \/ latch'[u] = unit[u]
    BY <1>1, <2>1, <2>2 DEF PlaceMoves
  <2>4. QED
    BY <1>3, <1>5, <1>8, <2>3
<1>9. ASSUME NEW x \in Sources, latch[x] # None, latch[x] # BusRobid PROVE latch[x] \in placed'
  <2>1. WbStall(x)
    BY <1>9, OneDriver DEF WbStall, ExecInv
  <2>2. latch'[x] = latch[x]
    BY <1>1, <1>3, <2>1 DEF PlaceMoves
  <2>3. QED
    BY <1>5, <1>9, <2>2
<1>10. ASSUME csrv, ~cstall PROVE csrrobid \in placed'
  <2>1. latch["sc0"] = None
    BY <1>3, <1>10 DEF CsrMeetsNobody
  <2>2. latch'["sc0"] = csrrobid
    BY <1>1, <1>3, <1>10, <2>1 DEF PlaceMoves, WbStall
  <2>3. QED
    BY <1>3, <1>5, <1>10, <2>2, Newcomers
<1>11. ASSUME Dispatch(stall), rkind \in {"alu", "br", "jalr", "load"} PROVE rrobid \in placed'
  BY <1>1, <1>5, <1>11 DEF PlaceMoves
<1>12. ASSUME NEW s \in pending, s # BusRobid PROVE s \in placed'
  <2>1. \/ s \in stations \/ s \in loads
        \/ \E u \in Units4 : s = unit[u] /\ unit[u] # None
        \/ \E x \in Sources : s = latch[x] /\ latch[x] # None
    BY DEF DueIsPlaced, InStations, InLoads, InUnits, InLatches
  <2>2. s \in stations \cup loads => s # None
    BY Newcomers
  <2>3. QED
    BY <1>6, <1>7, <1>8, <1>9, <1>12, <2>1, <2>2
<1>13. pending' \subseteq placed'
  BY <1>4, <1>10, <1>11, <1>12 DEF CsrDone
<1>14. QED
  BY <1>13 DEF DueIsPlaced, placed

\* While no access to ml2stat runs, the csr unit meets nobody and nothing is lost.
LEMMA CompleteStep ==
  IInv /\ ExecInv /\ CsrMeetsNobody /\ DueIsPlaced /\ NoL2Access /\ [ExecNext]_allVars
    => CsrMeetsNobody' /\ DueIsPlaced'
<1> SUFFICES ASSUME IInv, ExecInv, CsrMeetsNobody, DueIsPlaced, NoL2Access, [ExecNext]_allVars
             PROVE  CsrMeetsNobody' /\ DueIsPlaced'
  OBVIOUS
<1>1. CASE UNCHANGED allVars
  BY <1>1 DEF allVars, vars, execVars, CsrMeetsNobody, DueIsPlaced, InStations, InLoads, InUnits, InLatches
<1>2. CASE ExecNext
  <2>1. PICK f, mul, class, i, done, ready, lsqfull, l2req, o :
          ExecStep(f, mul, class, i, done, ready, lsqfull, l2req, o)
    BY <1>2, ExecNextIsStep
  <2>2. CASE RobFlush
    BY <2>1, <2>2, FlushPlaces
  <2>3. CASE ~RobFlush
    BY <2>1, <2>3, CsrKeepsAlone, NoneFallsBetween
  <2>4. QED
    BY <2>2, <2>3
<1>3. QED
  BY <1>1, <1>2

\* What a row of registers holds, each result once, is as many as the registers
\* that hold something.
LEMMA HeldOnce ==
  ASSUME NEW S, NEW g, IsFiniteSet(S),
         \A u, v \in S : g[u] = g[v] /\ g[u] # None => u = v
  PROVE  LET held == {u \in S : g[u] # None}
             what == {g[u] : u \in S} \ {None}
         IN /\ IsFiniteSet(what) /\ Cardinality(what) = Cardinality(held)
            /\ Cardinality(held) \in Nat
<1> DEFINE held == {u \in S : g[u] # None}
           what == {g[u] : u \in S} \ {None}
           h == [u \in held |-> g[u]]
<1>1. IsFiniteSet(held)
  BY FS_Subset
<1>2. h \in [held -> what] /\ \A a, b \in held : h[a] = h[b] => a = b
  OBVIOUS
<1>3. \A t \in what : \E u \in held : h[u] = t
  OBVIOUS
<1>4. h \in Bijection(held, what)
  BY <1>2, <1>3 DEF Bijection, Injection, Surjection, IsInjective
<1>5. ExistsBijection(held, what)
  BY <1>4 DEF ExistsBijection
<1> HIDE DEF held, what
<1>6. IsFiniteSet(what) /\ Cardinality(what) = Cardinality(held) /\ Cardinality(held) \in Nat
  BY <1>1, <1>5, FS_Bijection, FS_CardinalityType
<1>7. QED
  BY <1>6 DEF held, what

\* Sets that share nothing are counted apart.
LEMMA DisjointCount ==
  ASSUME NEW S, NEW T, IsFiniteSet(S), IsFiniteSet(T), S \cap T = {}
  PROVE  /\ IsFiniteSet(S \cup T)
         /\ Cardinality(S \cup T) = Cardinality(S) + Cardinality(T)
         /\ Cardinality(S) \in Nat /\ Cardinality(T) \in Nat
<1>1. IsFiniteSet(S \cup T) /\ Cardinality(S \cup T) = Cardinality(S) + Cardinality(T) - Cardinality(S \cap T)
  BY FS_Union
<1>2. Cardinality(S \cap T) = 0
  BY FS_EmptySet
<1>3. Cardinality(S) \in Nat /\ Cardinality(T) \in Nat
  BY FS_CardinalityType
<1> DEFINE s == Cardinality(S)
           t == Cardinality(T)
<1>4. s \in Nat /\ t \in Nat => s + t - 0 = s + t
  OBVIOUS
<1>5. QED
  BY <1>1, <1>2, <1>3, <1>4

\* What is due, each in one place, is counted by the places.
LEMMA PlacesCount == IInv /\ ExecInv /\ DueIsPlaced => EveryResultHasAPlace
<1> SUFFICES ASSUME IInv, ExecInv, DueIsPlaced PROVE EveryResultHasAPlace
  OBVIOUS
<1>1. pending = InStations \cup InLoads \cup InUnits \cup InLatches
  BY DEF DueIsPlaced, ExecInv, PlacesAreDue
<1>2. IsFiniteSet(Slots)
  BY RingSize, FS_Interval DEF Slots
<1>3. IsFiniteSet(stations) /\ IsFiniteSet(loads)
  BY <1>2, FS_Subset DEF ExecInv, ExecTypeOK
<1>4. IsFiniteSet(Units4) /\ IsFiniteSet(Sources)
  <2>1. IsFiniteSet({}) /\ IsFiniteSet({"mc0"})
    BY FS_EmptySet, FS_Singleton
  <2>2. IsFiniteSet({"mc0"} \cup {"mc1"})
    BY <2>1, FS_AddElement
  <2>3. IsFiniteSet(({"mc0"} \cup {"mc1"}) \cup {"sc0"})
    BY <2>2, FS_AddElement
  <2>4. IsFiniteSet((({"mc0"} \cup {"mc1"}) \cup {"sc0"}) \cup {"sc1"})
    BY <2>3, FS_AddElement
  <2>5. IsFiniteSet(Units4)
    <3>1. Units4 = (({"mc0"} \cup {"mc1"}) \cup {"sc0"}) \cup {"sc1"}
      BY DEF Units4
    <3>2. QED
      BY <2>4, <3>1
  <2>6. IsFiniteSet(Units4 \cup {"lsq"})
    BY <2>5, FS_AddElement
  <2>7. QED
    <3>1. Sources = Units4 \cup {"lsq"}
      BY DEF Sources, Units4
    <3>2. QED
      BY <2>5, <2>6, <3>1
<1> DEFINE nu == Cardinality({u \in Units4 : unit[u] # None})
           nl == Cardinality({x \in Sources : latch[x] # None})
<1>5. PlacesDisjoint
  BY DEF ExecInv
<1>6. IsFiniteSet(InUnits) /\ Cardinality(InUnits) = nu /\ nu \in Nat
  BY <1>4, <1>5, HeldOnce DEF PlacesDisjoint, InUnits
<1>7. IsFiniteSet(InLatches) /\ Cardinality(InLatches) = nl /\ nl \in Nat
  BY <1>4, <1>5, HeldOnce DEF PlacesDisjoint, InLatches
<1>8. /\ stations \cap loads = {}
      /\ (stations \cup loads) \cap InUnits = {}
      /\ (stations \cup loads \cup InUnits) \cap InLatches = {}
  BY <1>5 DEF PlacesDisjoint, InUnits, InLatches
<1> HIDE DEF nu, nl
<1>9. /\ IsFiniteSet(stations \cup loads)
      /\ Cardinality(stations \cup loads) = Cardinality(stations) + Cardinality(loads)
      /\ Cardinality(stations) \in Nat /\ Cardinality(loads) \in Nat
  BY <1>3, <1>8, DisjointCount
<1>10. /\ IsFiniteSet(stations \cup loads \cup InUnits)
       /\ Cardinality(stations \cup loads \cup InUnits) = Cardinality(stations \cup loads) + nu
  BY <1>6, <1>8, <1>9, DisjointCount
<1>11. Cardinality(stations \cup loads \cup InUnits \cup InLatches)
         = Cardinality(stations \cup loads \cup InUnits) + nl
  BY <1>7, <1>8, <1>10, DisjointCount
<1>12. Cardinality(pending) = Cardinality(InStations) + Cardinality(InLoads) + nu + nl
  BY <1>1, <1>9, <1>10, <1>11 DEF InStations, InLoads
<1>13. Cardinality(stations) <= RsEntries
  BY DEF ExecInv, StationsBounded
<1>14. QED
  BY <1>1, <1>12, <1>13 DEF EveryResultHasAPlace, nu, nl

\* In a program that never gets an access to ml2stat into the csr unit, no result
\* falls between two latches: whatever the number of stations and entries, what is
\* due is in exactly one station, load entry, unit or latch (exers.v, scalu.v,
\* mcalu.v, wb.v), and the csr unit, which nothing stalls, never meets a result of
\* scalu0 (csr.v).  The hypothesis excludes what the finding on ml2stat is about
\* and nothing else.
THEOREM ResultsKeepTheirPlacesUnlessL2 == ExecSpec /\ []NoL2Access => []EveryResultHasAPlace
<1>1. ExecInit => CsrMeetsNobody /\ DueIsPlaced
  BY ExecInitInv
<1>2. IInv /\ ExecInv /\ CsrMeetsNobody /\ DueIsPlaced /\ NoL2Access /\ [ExecNext]_allVars
        => CsrMeetsNobody' /\ DueIsPlaced'
  BY CompleteStep
<1>3. ExecSpec => [](IInv /\ ExecInv)
  BY ExecInvariance
<1>4. ExecSpec /\ []NoL2Access => [](CsrMeetsNobody /\ DueIsPlaced)
  BY <1>1, <1>2, <1>3, PTL DEF ExecSpec
<1>5. IInv /\ ExecInv /\ DueIsPlaced => EveryResultHasAPlace
  BY PlacesCount
<1>6. QED
  BY <1>3, <1>4, <1>5, PTL

\* The same of a core whose csr accesses are not to ml2stat, from the constants
\* alone.
THEOREM ResultsKeepTheirPlaces ==
  ASSUME "l2" \notin CsrClasses
  PROVE  ExecSpec => []EveryResultHasAPlace
<1> DEFINE Never == csrclass # "l2"
<1>1. ExecInit => Never
  BY DEF ExecInit
<1>2. Never /\ [ExecNext]_allVars => Never'
  <2>1. ASSUME Never, UNCHANGED allVars PROVE Never'
    BY <2>1 DEF allVars, execVars
  <2>2. ASSUME Never, ExecNext PROVE Never'
    <3>1. PICK f, mul, class, i, done, ready, lsqfull, l2req, o :
            ExecStep(f, mul, class, i, done, ready, lsqfull, l2req, o)
      BY <2>2, ExecNextIsStep
    <3>2. class # "l2" /\ CsrTimer(CsrStall(l2req), class, l2req)
      BY <3>1 DEF ExecStep
    <3>3. QED
      BY <2>2, <3>2 DEF CsrTimer
  <2>3. QED
    BY <2>1, <2>2
<1>3. Never => NoL2Access
  BY DEF NoL2Access
<1> HIDE DEF Never
<1>4. QED
  BY <1>1, <1>2, <1>3, ResultsKeepTheirPlacesUnlessL2, PTL DEF ExecSpec
=============================================================================
