-------------------------------- MODULE Exec --------------------------------
(***************************************************************************)
(* The execution side of the core: the reservation stations (exers.v), the *)
(* two simple and the two multi-cycle units (scalu.v, mcalu.v), the stall  *)
(* of the csr unit (csr.v) and the writeback bus with one latch per source *)
(* (wb.v), running with the reorder buffer of Rob.                         *)
(*                                                                         *)
(* Rob only knows the set of results that are due (pending) and lets the   *)
(* bus bring any of them.  Here each result has a place, the bus has its   *)
(* fixed priority, and every clock edge is also an edge of Rob.            *)
(***************************************************************************)
EXTENDS Rob, FiniteSets

CONSTANTS
  RsEntries,    \* reservation stations (32)
  CsrClasses,   \* how csr accesses stall: a subset of {"plain", "bfs", "l2"}
  Programs      \* the programs that run: each the set of the kinds it contains

ASSUME ExecAssumption ==
  /\ RsEntries \in Nat \ {0}
  /\ CsrClasses \subseteq {"plain", "bfs", "l2"}
  /\ Programs \subseteq SUBSET Kinds

Sources == {"lsq", "mc0", "mc1", "sc0", "sc1"}

VARIABLES
  stations,    \* robids waiting in the stations
  long,        \* of these and those in the units, mul and div not yet finished
  unit,        \* what scalu0/1 and mcalu0/1 work on (None: not valid)
  loads,       \* robids of the loads in the load queue
  latch,       \* what wb's latches hold (None: not valid)
  csrclass,    \* the kind of access the csr unit does
  bfsreq,      \* csr: bfs_req_r
  l2stall,     \* csr: l2fifo_stall_r
  program      \* the program that runs, chosen at the start

execVars == <<stations, long, unit, loads, latch, csrclass, bfsreq, l2stall, program>>
allVars == <<vars, execVars>>

Units4 == {"mc0", "mc1", "sc0", "sc1"}

ExecInit ==
  /\ Init
  /\ stations = {} /\ long = {} /\ loads = {}
  /\ unit = [u \in Units4 |-> None]
  /\ latch = [x \in Sources |-> None]
  /\ csrclass = "plain" /\ bfsreq = FALSE /\ l2stall = FALSE
  /\ program \in Programs

-----------------------------------------------------------------------------
(* wb.v: the bus *)

\* Mutant: mcalu0 and scalu0 wait for each other.
Before_Cyclic(x) == IF x = "mc0" THEN {"lsq", "sc0"}
                    ELSE {"lsq", "mc0", "mc1", "sc0"} \ {x, "sc1"}
Before(x) == CASE x = "lsq" -> {}
               [] x = "mc0" -> {"lsq"}
               [] x = "mc1" -> {"lsq", "mc0"}
               [] x = "sc0" -> {"lsq", "mc0", "mc1"}
               [] x = "sc1" -> {"lsq", "mc0", "mc1", "sc0"}

\* Mutant: the latches do not see that rename has the bus.
Drives_UnderRename(x) == latch[x] # None /\ \A y \in Before(x) : latch[y] = None

\* rename's latch first, then the fixed order of the sources.
Drives(x) == /\ ~fwdv /\ latch[x] # None
             /\ \A y \in Before(x) : latch[y] = None

BusRobid == IF \E x \in Sources : Drives(x)
            THEN latch[CHOOSE x \in Sources : Drives(x)] ELSE None

WbStall(x) == latch[x] # None /\ ~Drives(x)

\* csr.v: csr_stall; l2req is l2fifo_l2_req.
CsrStall(l2req) ==
  \/ csrv /\ csrclass = "bfs" /\ ~bfsreq
  \/ csrv /\ csrclass = "l2" /\ l2req
  \/ l2stall

\* done: the multi-cycle units whose mul or div is finished.
UnitDone(u, done) == unit[u] \notin long \/ u \in done
UnitValid(u, done) == unit[u] # None /\ UnitDone(u, done)
\* (The first of the two is a mutant: a full wb latch does not stop the unit.)
UnitStall_IgnoresWb(u, done) == unit[u] # None /\ ~UnitDone(u, done)
UnitStall(u, done) == unit[u] # None /\ (~UnitDone(u, done) \/ WbStall(u))

\* exers.v: the first unit that can take the instruction; a mul or div waits
\* for a multi-cycle unit.
IssueTo(i, done) ==
  IF ~UnitStall("mc0", done) THEN "mc0"
  ELSE IF ~UnitStall("mc1", done) THEN "mc1"
  ELSE IF i \notin long /\ ~UnitStall("sc0", done) THEN "sc0"
  ELSE IF i \notin long /\ ~UnitStall("sc1", done) THEN "sc1"
  ELSE "none"

\* exers.v: a dispatched instruction takes a station, an issued one leaves it.
Stations(stall, i, done, mul) ==
  LET enters == Dispatch(stall) /\ rkind \in {"alu", "br", "jalr"}
      leaves == i # None /\ IssueTo(i, done) # "none"
  IN /\ stations' = IF RobFlush THEN {}
              ELSE (IF leaves THEN stations \ {i} ELSE stations)
                   \cup (IF enters THEN {rrobid} ELSE {})
     /\ long' = IF RobFlush THEN {}
                ELSE (long \ {unit[u] : u \in done})
                     \cup (IF enters /\ rkind = "alu" /\ mul THEN {rrobid} ELSE {})

\* Mutant: an instruction that issues in the cycle of a flush survives it.
UnitLatches_IssueWins(i, done) ==
  unit' = [u \in Units4 |->
             IF i # None /\ ~UnitStall(u, done) /\ IssueTo(i, done) = u THEN i
             ELSE IF RobFlush \/ ~UnitStall(u, done) THEN None
             ELSE unit[u]]

\* scalu.v and mcalu.v: valid and robid.
UnitLatches(i, done) ==
  unit' = [u \in Units4 |->
             IF RobFlush THEN None
             ELSE IF UnitStall(u, done) THEN unit[u]
             ELSE IF i # None /\ IssueTo(i, done) = u THEN i ELSE None]

\* wb.v: each latch reloads when it is free or drives the bus.  The csr unit
\* shares scalu0's and does not look at its stall.
WbLatches(done, ready, l2req) ==
  LET csrValid == csrv /\ ~CsrStall(l2req)
      offer(x) == IF x = "lsq" THEN ready
                  ELSE IF x = "sc0" /\ csrValid THEN csrrobid
                  ELSE IF UnitValid(x, done) THEN unit[x] ELSE None
  IN latch' = [x \in Sources |->
                 IF RobFlush THEN None
                 ELSE IF WbStall(x) THEN latch[x] ELSE offer(x)]

\* lsq.v, as far as the bus sees it: loads wait, one that is complete (ready)
\* moves to the bus latch when that is free.
LoadQueue(stall, ready) ==
  loads' = IF RobFlush THEN {}
           ELSE (IF WbStall("lsq") THEN loads ELSE loads \ {ready})
                \cup (IF Dispatch(stall) /\ rkind = "load" THEN {rrobid} ELSE {})

CsrTimer(cstall, class, l2req) ==
  /\ csrclass' = IF ~cstall /\ csrv' THEN class ELSE csrclass
  /\ bfsreq' = (csrv /\ csrclass = "bfs" /\ ~bfsreq)
  /\ l2stall' = (l2req /\ (l2stall \/ (csrv /\ csrclass = "l2")))

\* exers_stall or lsq_stall, whichever rename looks at.
UnitFull(lsqfull) ==
  IF rkind \in {"load", "store"} THEN lsqfull ELSE Cardinality(stations) = RsEntries

-----------------------------------------------------------------------------
(***************************************************************************)
(* One edge.  Inputs: the instruction fetch offers, whether the one rename *)
(* dispatches is a mul or div (mul) or which class of csr access (class),  *)
(* the station that issues (i), the units that finish (done), the load     *)
(* that is complete (ready), a full load or store queue (lsqfull), and     *)
(* l2fifo_l2_req.  An input that nothing looks at is given one value.      *)
(***************************************************************************)
ExecEdge(f, mul, class, i, done, ready, lsqfull, l2req) ==
  LET ustall == UnitFull(lsqfull)
      cstall == CsrStall(l2req)
      stall  == RenameStall(ustall, cstall)
      w      == BusRobid
  IN /\ Stations(stall, i, done, mul)
     /\ LoadQueue(stall, ready)
     /\ UnitLatches(i, done)
     /\ WbLatches(done, ready, l2req)
     /\ \E o \in (IF w = None THEN {"ok"} ELSE OutcomesOf(kind[w])) :
          Edge(f, ustall, cstall, w, o)
     /\ CsrTimer(cstall, class, l2req)
     /\ UNCHANGED program

Muls      == IF rvalid /\ rkind = "alu" THEN BOOLEAN ELSE {FALSE}
Classes   == IF rvalid /\ rkind = "csr" THEN CsrClasses ELSE {"plain"}
Finishing == SUBSET {u \in {"mc0", "mc1"} : unit[u] \in long}
LsqFulls  == IF rvalid /\ rkind \in {"load", "store"} THEN BOOLEAN ELSE {FALSE}
L2Reqs    == IF csrv /\ csrclass = "l2" THEN BOOLEAN ELSE {FALSE}

ExecClock(is, dones, readies, lsqfulls, l2reqs) ==
  \E f \in Offers \cap (program \cup {"none"}), i \in is, done \in dones, ready \in readies,
     lsqfull \in lsqfulls, l2req \in l2reqs, mul \in Muls, class \in Classes :
       ExecEdge(f, mul, class, i, done, ready, lsqfull, l2req)

ExecNext ==
  ExecClock(stations \cup {None}, Finishing, loads \cup {None}, LsqFulls, L2Reqs)

(***************************************************************************)
(* Fairness: stations issue, a mul or div finishes, a load completes, the  *)
(* load and store queues have room, and the l2 fifo is idle when the csr   *)
(* unit looks (again and again, for it looks only every other cycle).  The *)
(* bus needs no assumption: its priority is in the model.                  *)
(***************************************************************************)
Issues      == stations # {} /\ ExecClock(stations, Finishing, loads \cup {None}, LsqFulls, L2Reqs)
Finishes    == /\ Finishing # {{}}
               /\ ExecClock(stations \cup {None}, Finishing \ {{}}, loads \cup {None}, LsqFulls, L2Reqs)
Completes   == loads # {} /\ ExecClock(stations \cup {None}, Finishing, loads, LsqFulls, L2Reqs)
QueueTakes  == /\ rvalid /\ rkind \in {"load", "store"}
               /\ ExecClock(stations \cup {None}, Finishing, loads \cup {None}, {FALSE}, L2Reqs)
FifoIdle    == /\ l2stall
               /\ ExecClock(stations \cup {None}, Finishing, loads \cup {None}, LsqFulls, {FALSE})
FifoIdleNow == /\ csrv /\ csrclass = "l2" /\ ~l2stall
               /\ ExecClock(stations \cup {None}, Finishing, loads \cup {None}, LsqFulls, {FALSE})

ExecFairness ==
  /\ WF_allVars(ExecNext) /\ WF_allVars(Issues) /\ WF_allVars(Completes)
  /\ WF_allVars(QueueTakes) /\ WF_allVars(Finishes)
  /\ WF_allVars(FifoIdle) /\ SF_allVars(FifoIdleNow)

ExecSpec == ExecInit /\ [][ExecNext]_allVars
ExecFairSpec == ExecSpec /\ ExecFairness
-----------------------------------------------------------------------------
(* Properties *)

\* Where the results that are due are.
InStations == stations
InLoads    == loads
InUnits    == {unit[u] : u \in Units4} \ {None}
InLatches  == {latch[x] : x \in Sources} \ {None}

\* No result that the reorder buffer waits for falls between two latches and
\* none is held twice: the stations, the load queue, the units and wb's latches
\* hold exactly the results that are due, each in one place, and none is put in a
\* station when there is none free (exers.v:146).  The csr unit has
\* no stall from wb.v and takes scalu0's latch: this says that it never meets
\* a full latch nor a result of scalu0.
EveryResultHasAPlace ==
  /\ pending = InStations \cup InLoads \cup InUnits \cup InLatches
  /\ Cardinality(InStations) + Cardinality(InLoads)
       + Cardinality({u \in Units4 : unit[u] # None})
       + Cardinality({x \in Sources : latch[x] # None}) = Cardinality(pending)
  /\ Cardinality(stations) <= RsEntries

\* The bus priority starves no one for good: a result that waits in any latch
\* is delivered or flushed, though rename, the load queue and two units come
\* first (wb.v).
BusServesAll == \A x \in Sources : latch[x] # None ~> (Drives(x) \/ RobFlush)

\* The reorder buffer with its arbitrary bus allows everything the units and
\* the prioritised bus do, and its fairness follows from theirs: the theorems
\* proved of Rob hold here.
ImplementsRob == Spec
-----------------------------------------------------------------------------
(* The inductive invariant: why the properties above hold *)

ExecTypeOK ==
  /\ stations \subseteq Slots /\ long \subseteq Slots /\ loads \subseteq Slots
  /\ unit \in [Units4 -> Slots \cup {None}]
  /\ latch \in [Sources -> Slots \cup {None}]
  /\ csrclass \in {"plain", "bfs", "l2"} /\ bfsreq \in BOOLEAN /\ l2stall \in BOOLEAN
  /\ program \in Programs

\* The two registers that stretch a csr access are set only during one that they
\* stretch.
StretchesAccess ==
  /\ bfsreq => csrv /\ csrclass = "bfs"
  /\ l2stall => csrv /\ csrclass = "l2"

\* Nothing is in two places.
PlacesDisjoint ==
  /\ stations \cap loads = {}
  /\ \A u \in Units4 : unit[u] \notin stations \cup loads
  /\ \A x \in Sources : latch[x] \notin stations \cup loads
  /\ \A u \in Units4, x \in Sources : unit[u] = latch[x] => unit[u] = None
  /\ \A u, v \in Units4 : unit[u] = unit[v] /\ unit[u] # None => u = v
  /\ \A x, y \in Sources : latch[x] = latch[y] /\ latch[x] # None => x = y

\* Every place works for a result that is due.
PlacesAreDue == InStations \cup InLoads \cup InUnits \cup InLatches \subseteq pending

\* No station is taken that is not there.
StationsBounded == Cardinality(stations) <= RsEntries

ExecInv ==
  /\ ExecTypeOK
  /\ StretchesAccess
  /\ PlacesDisjoint
  /\ PlacesAreDue
  /\ StationsBounded

\* What completeness needs: no access to ml2stat, which the l2 fifo can stall
\* for any time, is in the csr unit.
NoL2Access == csrv => csrclass # "l2"

\* An access starts when nothing else is due, so that it finds scalu0 and the
\* latches empty: in its second cycle what follows it is at most in a station or
\* in the load queue.
CsrMeetsNobody ==
  csrv => /\ \A u \in Units4 : unit[u] = None
          /\ \A x \in Sources : latch[x] = None
          /\ ~bfsreq => stations = {} /\ loads = {}

\* Everything due is somewhere.
DueIsPlaced == pending \subseteq InStations \cup InLoads \cup InUnits \cup InLatches
=============================================================================
