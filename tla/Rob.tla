-------------------------------- MODULE Rob --------------------------------
(***************************************************************************)
(* The reorder buffer and the in-order stages around it: the latch of      *)
(* decode.v, rob.v, the latch of rename.v, the valid bit of csr.v, and of  *)
(* wb.v the latch that carries rename's forwarded link address.            *)
(*                                                                         *)
(* One action is one rising clock edge of all of them.  What the model     *)
(* does not contain is an input of the edge: the instruction fetch offers, *)
(* the stalls of the reservation stations, of the load/store queue and of  *)
(* the csr unit, and the result the writeback bus carries.                 *)
(***************************************************************************)
EXTENDS CircPtr

AllKinds == {"alu", "br", "jalr", "load", "store", "csr", "err", "errst"}

CONSTANT Kinds   \* the kinds of instruction the program contains

ASSUME KindsAssumption == Kinds \subseteq AllKinds

Outcomes == {"ok", "err", "mis"}

\* decode_error: a fetch fault or an invalid encoding.  The instruction word
\* of a faulting fetch is junk, so it may look like a store ("errst").
IsErr(k) == k \in {"err", "errst"}

\* decode_retop[3], the bit that makes the reorder buffer treat an entry as a
\* store and count it as executed from the start.
IsStore(k) == k \in {"store", "errst"}

\* How the unit that runs an instruction can report back.  Loads and csr
\* accesses may fault; a branch may disagree with its prediction.
OutcomesOf(k) ==
  CASE k \in {"load", "csr"} -> {"ok", "err"}
    [] k = "br"              -> {"ok", "mis"}
    [] OTHER                 -> {"ok"}

None == N   \* "no result": not a slot

VARIABLES
  dvalid, dkind,              \* decode latch
  fhalt,                      \* fetch has handed over a jalr and waits for its flush
  rvalid, rrobid, rkind,      \* rename latch: valid, robid, op
  head, tail,                 \* {buf_head_pol, buf_head}, {buf_tail_pol, buf_tail}
  executed, kind, outcome,    \* buf_executed, buf_retop, buf_error and the branch bit of buf_result
  retv, retk, reto,           \* ret_valid, ret_retop, ret_error and br_result ^ ret_bptaken
  inhibit,                    \* rename_inhibit_r
  fwdv, fwdrobid,             \* wb: rename_valid_r, rename_robid_r
  csrv, csrrobid,             \* csr: valid, robid
  pending,                    \* dispatched to a unit or held in its wb latch, result not yet on the bus
  sqwait                      \* stores in the store queue that have not retired

decVars  == <<dvalid, dkind, fhalt>>
vars == <<dvalid, dkind, fhalt, rvalid, rrobid, rkind, head, tail,
          executed, kind, outcome, retv, retk, reto, inhibit, fwdv, fwdrobid,
          csrv, csrrobid, pending, sqwait>>

TypeOK ==
  /\ dvalid \in BOOLEAN /\ dkind \in Kinds /\ fhalt \in BOOLEAN
  /\ rvalid \in BOOLEAN /\ rrobid \in Slots /\ rkind \in Kinds
  /\ head \in Ptrs /\ tail \in Ptrs
  /\ executed \in [Slots -> BOOLEAN]
  /\ kind \in [Slots -> Kinds]
  /\ outcome \in [Slots -> Outcomes]
  /\ retv \in BOOLEAN /\ retk \in Kinds /\ reto \in Outcomes
  /\ inhibit \in BOOLEAN
  /\ fwdv \in BOOLEAN /\ fwdrobid \in Slots
  /\ csrv \in BOOLEAN /\ csrrobid \in Slots
  /\ pending \subseteq Slots
  /\ sqwait \subseteq Slots

\* Reset clears the valid bits and the pointers.  The other registers keep
\* junk: any one kind, in entries marked executed (the junk that would retire
\* if the pointers did not hide it).
Init ==
  /\ dvalid = FALSE /\ fhalt = FALSE
  /\ rvalid = FALSE /\ rrobid \in Slots
  /\ head = 0 /\ tail = 0
  /\ executed = [s \in Slots |-> TRUE]
  /\ outcome = [s \in Slots |-> "ok"]
  /\ \E k \in Kinds : /\ dkind = k /\ rkind = k /\ retk = k
                      /\ kind = [s \in Slots |-> k]
  /\ retv = FALSE /\ reto = "ok"
  /\ inhibit = FALSE
  /\ fwdv = FALSE /\ fwdrobid = 0
  /\ csrv = FALSE /\ csrrobid = 0
  /\ pending = {}
  /\ sqwait = {}

-----------------------------------------------------------------------------
(* Combinational signals *)

\* ret_rd_addr: the entry read for retirement, one ahead while one retires.
RetRd == IF retv THEN Inc(head) ELSE head

BufFull == IsFull(head, tail)

\* rob_rename_ishead.  The comparison ignores whether rename is valid.
\* (The first definition is a mutant: the next one passes for the head.)
RenameIsHead_Early == rrobid \in {Idx(RetRd), Idx(Inc(RetRd))}
RenameIsHead == rrobid = Idx(RetRd)

\* rob_flush = ret_exc | ret_mispred: a jalr always redirects fetch.
RobFlush == retv /\ (retk = "jalr" \/ reto # "ok")

\* rob_ret_valid: the instruction retires without an exception.
RobRetValid == retv /\ reto # "err"
RobRetStore == RobRetValid /\ IsStore(retk)

\* rename_stall; ustall is the stall of the unit rename wants.
RenameStall(ustall, cstall) ==
  /\ rvalid
  /\ IF rkind = "csr" THEN ~RenameIsHead \/ (csrv /\ cstall) ELSE ustall

DecodeStall(rs) == BufFull \/ rs
DecodeBeat(rs)  == dvalid /\ ~rs /\ ~BufFull
Dispatch(rs)    == rvalid /\ ~rs

-----------------------------------------------------------------------------
(* The clocked blocks; rs is rename_stall *)

\* decode.v: the decode latch.  Fetch offers nothing after a jalr until the
\* jalr's own flush gives it a target.
DecodeLatch(rs, f) ==
  IF RobFlush
  THEN dvalid' = FALSE /\ fhalt' = FALSE /\ UNCHANGED dkind
  ELSE IF DecodeStall(rs)
  THEN UNCHANGED decVars
  ELSE /\ dvalid' = (f # "none")
       /\ dkind' = IF f # "none" THEN f ELSE dkind
       /\ fhalt' = (fhalt \/ f = "jalr")

\* Mutant: an idle rename keeps the robid of the instruction that left it.
RenameLatch_Stale(rs) ==
  /\ rvalid' = IF RobFlush THEN FALSE
               ELSE IF rs THEN rvalid
               ELSE dvalid /\ ~IsErr(dkind) /\ ~BufFull
  /\ rrobid' = IF rs \/ ~dvalid THEN rrobid ELSE Idx(tail)
  /\ rkind'  = IF rs THEN rkind ELSE dkind

\* rename.v: the latch takes the next free robid even when decode has nothing.
RenameLatch(rs) ==
  /\ rvalid' = IF RobFlush THEN FALSE
               ELSE IF rs THEN rvalid
               ELSE dvalid /\ ~IsErr(dkind) /\ ~BufFull
  /\ rrobid' = IF rs THEN rrobid ELSE Idx(tail)
  /\ rkind'  = IF rs THEN rkind ELSE dkind

\* rob.v: buf_head and buf_tail.
Pointers(rs) ==
  /\ head' = IF RobFlush THEN 0 ELSE RetRd
  /\ tail' = IF RobFlush THEN 0 ELSE IF DecodeBeat(rs) THEN Inc(tail) ELSE tail

\* Mutant: retirement does not wait for a store's dispatch.
RetireLatch_NoHold ==
  IF RobFlush
  THEN retv' = FALSE /\ UNCHANGED <<retk, reto>>
  ELSE /\ retv' = (executed[Idx(RetRd)] /\ RetRd # tail)
       /\ retk' = kind[Idx(RetRd)]
       /\ reto' = outcome[Idx(RetRd)]

\* Mutant: every instruction, not only a store, waits while rename has its robid.
RetireLatch_HoldAll ==
  IF RobFlush
  THEN retv' = FALSE /\ UNCHANGED <<retk, reto>>
  ELSE /\ retv' = (executed[Idx(RetRd)] /\ RetRd # tail /\ ~RenameIsHead)
       /\ retk' = kind[Idx(RetRd)]
       /\ reto' = outcome[Idx(RetRd)]

\* rob.v, buf read: a store is not read while rename still holds it.
RetireLatch ==
  IF RobFlush
  THEN retv' = FALSE /\ UNCHANGED <<retk, reto>>
  ELSE /\ retv' = /\ executed[Idx(RetRd)]
                  /\ RetRd # tail
                  /\ ~(IsStore(kind[Idx(RetRd)]) /\ RenameIsHead)
       /\ retk' = kind[Idx(RetRd)]
       /\ reto' = outcome[Idx(RetRd)]

\* The robid on the writeback bus: rename's forwarded result comes first, w is
\* what another unit brings.  rob.v ignores the bus while rename_inhibit_r.
WbRobid(w) == IF fwdv THEN fwdrobid ELSE w
\* (The first definition is a mutant: rob.v does not inhibit the cycle.)
RobWrite_Uninhibited(w) == WbRobid(w) # None
RobWrite(w) == WbRobid(w) # None /\ ~inhibit

\* Mutant: buf_error keeps its old value on insertion.
BufWrite_StaleError(rs, w, o) ==
  LET ins(s) == DecodeBeat(rs) /\ s = Idx(tail)
      res(s) == RobWrite(w) /\ s = WbRobid(w)
  IN /\ executed' = [s \in Slots |->
                      IF res(s) THEN TRUE
                      ELSE IF ins(s) THEN IsErr(dkind) \/ IsStore(dkind)
                      ELSE executed[s]]
     /\ kind' = [s \in Slots |-> IF ins(s) THEN dkind ELSE kind[s]]
     /\ outcome' = [s \in Slots |->
                      IF res(s) THEN o
                      ELSE IF ins(s) /\ IsErr(dkind) THEN "err"
                      ELSE outcome[s]]

\* rob.v, buf write: insertion at the tail, then the result, which wins.
BufWrite(rs, w, o) ==
  LET ins(s) == DecodeBeat(rs) /\ s = Idx(tail)
      res(s) == RobWrite(w) /\ s = WbRobid(w)
  IN /\ executed' = [s \in Slots |->
                      IF res(s) THEN TRUE
                      ELSE IF ins(s) THEN IsErr(dkind) \/ IsStore(dkind)
                      ELSE executed[s]]
     /\ kind' = [s \in Slots |-> IF ins(s) THEN dkind ELSE kind[s]]
     /\ outcome' = [s \in Slots |->
                      IF res(s) THEN o
                      ELSE IF ins(s) THEN (IF IsErr(dkind) THEN "err" ELSE "ok")
                      ELSE outcome[s]]

\* rename.v and wb.v: a dispatched jalr forwards its link address, which takes
\* the bus in the next cycle, and tells rob.v to ignore that cycle.
Forward(rs) ==
  LET jalr == Dispatch(rs) /\ rkind = "jalr"
  IN /\ fwdv' = (jalr /\ ~RobFlush)
     /\ fwdrobid' = IF RobFlush THEN fwdrobid ELSE rrobid
     /\ inhibit' = (jalr /\ ~RobFlush)

\* Mutant: rename_csr_write does not look at the flush.
CsrLatch_DuringFlush(rs, cstall) ==
  IF csrv /\ cstall
  THEN UNCHANGED <<csrv, csrrobid>>
  ELSE LET write == rvalid /\ rkind = "csr" /\ RenameIsHead
       IN /\ csrv' = write
          /\ csrrobid' = IF write THEN rrobid ELSE csrrobid

\* csr.v: one access at a time, started at the head of the window.  A flush
\* does not clear it.
CsrLatch(rs, cstall) ==
  IF csrv /\ cstall
  THEN UNCHANGED <<csrv, csrrobid>>
  ELSE LET write == rvalid /\ rkind = "csr" /\ RenameIsHead /\ ~RobFlush
       IN /\ csrv' = write
          /\ csrrobid' = IF write THEN rrobid ELSE csrrobid

CsrDone(cstall) == IF csrv /\ ~cstall THEN {csrrobid} ELSE {}

\* Mutant: a flush leaves the units alone.
Units_SurviveFlush(rs, cstall, w) ==
  pending' = (pending \ {w}) \cup CsrDone(cstall)
             \cup (IF Dispatch(rs) /\ ~RobFlush /\ rkind \in {"alu", "br", "jalr", "load"}
                   THEN {rrobid} ELSE {})

\* Mutant: a jalr is only forwarded, not dispatched as well.
Units_ForwardOnly(rs, cstall, w) ==
  pending' =
    IF RobFlush THEN {}
    ELSE (pending \ {w}) \cup CsrDone(cstall)
         \cup (IF Dispatch(rs) /\ rkind \in {"alu", "br", "load"}
               THEN {rrobid} ELSE {})

\* The units: what dispatch puts in, what the bus takes out, and the flush that
\* empties stations, pipelines and wb latches.
Units(rs, cstall, w) ==
  pending' =
    IF RobFlush THEN {}
    ELSE (pending \ {w}) \cup CsrDone(cstall)
         \cup (IF Dispatch(rs) /\ rkind \in {"alu", "br", "jalr", "load"}
               THEN {rrobid} ELSE {})

\* lsq.v, as far as retirement sees it: unretired stores.  rob_ret_store
\* releases the oldest; a flush drops the rest.
StoreQueue(rs) ==
  sqwait' =
    IF RobFlush THEN {}
    ELSE (sqwait \ (IF RobRetStore THEN {Idx(head)} ELSE {}))
         \cup (IF Dispatch(rs) /\ rkind = "store" THEN {rrobid} ELSE {})

Edge(f, ustall, cstall, w, o) ==
  LET rs == RenameStall(ustall, cstall)
  IN /\ DecodeLatch(rs, f)
     /\ RenameLatch(rs)
     /\ Pointers(rs)
     /\ RetireLatch
     /\ BufWrite(rs, w, o)
     /\ Forward(rs)
     /\ CsrLatch(rs, cstall)
     /\ Units(rs, cstall, w)
     /\ StoreQueue(rs)

\* The inputs of an edge.  One that no register looks at has one value.
Offers == {"none"} \cup (IF fhalt \/ BufFull \/ RobFlush THEN {} ELSE Kinds)
Stalls(looked) == IF looked THEN BOOLEAN ELSE {FALSE}
UnitStalls == Stalls(rvalid /\ rkind # "csr")
CsrStalls  == Stalls(csrv)

\* An edge with no result of a unit on the bus (it is idle, or rename's).
Quiet(f, ustall, cstall) == Edge(f, ustall, cstall, None, "ok")

\* An edge at which the bus carries the result of the instruction in slot w.
Result(f, ustall, cstall, w) ==
  /\ w \in pending /\ ~fwdv
  /\ \E o \in OutcomesOf(kind[w]) : Edge(f, ustall, cstall, w, o)

Clock(ustall, cstall) ==
  \E f \in Offers :
    \/ Quiet(f, ustall, cstall)
    \/ \E w \in Slots : Result(f, ustall, cstall, w)

Next == \E ustall \in UnitStalls, cstall \in CsrStalls : Clock(ustall, cstall)

(***************************************************************************)
(* Fairness.  The clock runs; a unit that stalls rename makes room again   *)
(* (stations and queues drain); the csr unit's stall ends (the bfs unit    *)
(* answers in the next cycle, the l2 fifo empties); and a result that is   *)
(* due reaches the bus: some result, not a particular one, for wb.v gives  *)
(* the lowest unit no promise but never idles while a latch is full.       *)
(***************************************************************************)
UnitFrees  == rvalid /\ \E cstall \in CsrStalls : Clock(FALSE, cstall)
CsrFrees   == csrv /\ \E ustall \in UnitStalls : Clock(ustall, FALSE)
SomeResult == \E f \in Offers, ustall \in UnitStalls, cstall \in CsrStalls, w \in Slots :
                Result(f, ustall, cstall, w)

Fairness == WF_vars(Next) /\ WF_vars(UnitFrees) /\ WF_vars(CsrFrees)
            /\ WF_vars(SomeResult)

Spec == Init /\ [][Next]_vars
FairSpec == Spec /\ Fairness
-----------------------------------------------------------------------------
(* Properties *)

InFlight == Live(head, tail)

\* Every entry of the window that is not executed has exactly one place where
\* its result can still come from: the rename latch, a unit, or the csr unit.
\* A dispatch or a result that falls between two latches, or one counted
\* twice, would leave a hole here and stop retirement for good.
NothingLost ==
  \A s \in InFlight : ~executed[s] =>
    LET inRename == rvalid /\ rrobid = s
        inCsr    == csrv /\ csrrobid = s
        inUnit   == s \in pending
    IN \/ inRename /\ ~inCsr /\ ~inUnit
       \/ ~inRename /\ inCsr /\ ~inUnit
       \/ ~inRename /\ ~inCsr /\ inUnit

\* Robids are reused as soon as a slot is free.  No unit ever owes a result to
\* a slot that is free, that holds a later instruction, or that has its result
\* already: every result due belongs to a live entry that waits for it and runs
\* on a unit (flush empties rename, units and wb in the cycle the pointers
\* return to zero).
ResultsHaveOwners ==
  \A s \in pending :
    s \in InFlight /\ ~executed[s] /\ ~IsErr(kind[s]) /\ ~IsStore(kind[s])

\* An instruction in the retirement stage is finished everywhere: not in
\* rename, in no unit, not in the csr unit, and no cycle of the bus is still
\* reserved for it.  For a jalr, whose forwarded link address passes on the bus
\* with its robid, this says that the forwarded cycle never counts as the
\* result (rename_inhibit_r).
RetiresFinished ==
  retv => LET s == Idx(head)
          IN /\ s \in InFlight /\ executed[s]
             /\ s \notin pending
             /\ ~(rvalid /\ rrobid = s)
             /\ ~(csrv /\ csrrobid = s)
             /\ ~(fwdv /\ fwdrobid = s)

\* rob.v retires a store with a signal that names no entry, and lsq.v releases
\* the oldest store it holds.  The two agree only if every unretired store that
\* has left rename is in the queue and nothing else is.
StoresMatch ==
  sqwait = {s \in InFlight : kind[s] = "store" /\ ~(rvalid /\ rrobid = s)}

\* A csr access changes machine state when it executes and csr.v is not cleared
\* by a flush: it runs only as the oldest instruction, with nothing retiring
\* before it that could still flush it.
CsrNonSpeculative ==
  csrv => /\ csrrobid = Idx(head) /\ csrrobid \in InFlight
          /\ kind[csrrobid] = "csr" /\ ~RobFlush

\* rob.v holds back a store whose robid equals rename's, valid or not, and
\* rename's idle robid is the tail, the head's own index when the buffer is
\* full.  The hold never hits a store that has left rename.
StoreHoldIsReal ==
  LET s == Idx(RetRd)
  IN RetRd # tail /\ kind[s] = "store" /\ RenameIsHead
       => rvalid /\ rkind = "store"

\* While anything is in the window, something retires: the test bench reports
\* an error when 2000 cycles pass without a retirement.
KeepsRetiring == head # tail ~> retv

-----------------------------------------------------------------------------
(* The inductive invariant: why the properties above hold *)

\* The ring never overfills.
WindowBounded == Dist(head, tail) <= N

\* The retirement latch is a copy of the head entry.
RetireStage ==
  retv => /\ head # tail
          /\ executed[Idx(head)]
          /\ retk = kind[Idx(head)] /\ reto = outcome[Idx(head)]

\* Rename holds the youngest instruction, and that one is not retiring.
RenameYoungest ==
  rvalid => /\ head # tail /\ rrobid = Idx(Dec(tail))
            /\ kind[rrobid] = rkind /\ ~IsErr(rkind)
            /\ (executed[rrobid] <=> IsStore(rkind))
            /\ ~(retv /\ rrobid = Idx(head))
            /\ rrobid \notin pending

\* The cycle rename takes on the bus belongs to a jalr that is in a unit.
ForwardOwned ==
  /\ inhibit <=> fwdv
  /\ fwdv => fwdrobid \in pending

\* The csr unit works for the oldest instruction, and nothing retires.
CsrOldest ==
  csrv => /\ head # tail /\ csrrobid = Idx(head) /\ ~retv
          /\ kind[csrrobid] = "csr" /\ ~executed[csrrobid]
          /\ csrrobid \notin pending
          /\ ~(rvalid /\ rrobid = csrrobid)

\* Stores and faulting fetches are executed on arrival.
ArriveExecuted ==
  \A s \in InFlight : IsErr(kind[s]) \/ IsStore(kind[s]) => executed[s]

\* Idle, rename's robid is the tail, or the entry of the fault that just passed.
RenameRobid ==
  ~rvalid /\ head # tail =>
    \/ rrobid = Idx(tail)
    \/ rrobid = Idx(Dec(tail)) /\ IsErr(kind[rrobid])

\* A store at the head that is not retiring has just arrived.
StoreMovesOn ==
  ~retv /\ head # tail /\ kind[Idx(head)] = "store" =>
    \/ Dist(head, tail) = 1
    \/ Dist(head, tail) = 2 /\ rrobid = Idx(Dec(tail))

IInv ==
  /\ TypeOK
  /\ WindowBounded
  /\ RetireStage
  /\ RenameYoungest
  /\ ForwardOwned
  /\ CsrOldest
  /\ ArriveExecuted
  /\ NothingLost
  /\ ResultsHaveOwners
  /\ StoresMatch
  /\ RenameRobid
  /\ StoreMovesOn
=============================================================================
