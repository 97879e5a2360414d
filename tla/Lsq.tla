-------------------------------- MODULE Lsq --------------------------------
(***************************************************************************)
(* The load/store queue (lsq.v) with its age matrices (agemat.v,           *)
(* agearr.v) and arbiters (priarb.v), between rename, the writeback bus,   *)
(* the reorder buffer and the data cache.                                  *)
(*                                                                         *)
(* One action is one clock edge.  Its inputs are the memory instruction    *)
(* rename dispatches, the operand that the result on the bus completes,    *)
(* the retirement of a store, the flush, and what the data cache and the   *)
(* bus do.  The data cache is what lsq.v relies on: it performs what it    *)
(* accepts in that order, answers every load some time later and drops the *)
(* answers that are outstanding when a flush comes.                        *)
(*                                                                         *)
(* prog, arch and goal are history: the memory instructions that the       *)
(* reorder buffer holds in program order, memory as the retired stores     *)
(* leave it, and what every load has to return.                            *)
(***************************************************************************)
EXTENDS CircPtr, Sequences

CONSTANTS LqSize,   \* load queue entries (16); N is the size of the store ring (16)
          Window,   \* entries of the reorder buffer (128)
          Addrs,    \* addresses of words
          Blocks,   \* the 32-byte blocks that the words make up
          Widths,   \* the loads programs do: a subset of {"word", "block"}
          Mark,     \* the value that tells one store from the others; 0: none
          Late      \* the operands that may come after dispatch (a bound)

ASSUME LsqAssumption ==
  /\ {LqSize, Window} \subseteq Nat \ {0} /\ Mark \in Nat
  /\ Addrs # {} /\ UNION Blocks = Addrs
  /\ Widths \subseteq {"word", "block"}
  /\ Late \subseteq {"lbase", "lop2", "sbase", "sdata"}

LSlots == 0 .. LqSize - 1
Vals   == {0, Mark}      \* values of words
None   == -1             \* no entry, or an address that is not computed

SameBlock(a, b) == \E B \in Blocks : {a, b} \subseteq B

\* The words a load reads: one, or for lbcmp the whole block.
ReadBy(width, addr) ==
  {a \in Addrs : a = addr \/ (width = "block" /\ SameBlock(a, addr))}
Read(width, addr, m) == [a \in ReadBy(width, addr) |-> m[a]]

Loads   == [addr : Addrs, width : Widths]
Stores  == [addr : Addrs, val : Vals]
NoLoad  == [addr |-> None, width |-> "word"]
NoStore == [addr |-> None, val |-> 0]
Answers == UNION {[A -> Vals] : A \in SUBSET Addrs}
NoAnswer == << >>        \* the function without arguments
Done     == <<"done", 0>>

VARIABLES
  lvalid, lbase, lop2, laddr, lissued, lcomplete,  \* lq_valid, lq_base_rdy, ...: sets of entries
  load, lhw, ldata,            \* the load of an entry, lq_addr, lq_data
  younger,                     \* agemat: <<k, i>> when i was inserted after k
  older,                       \* agearr: <<i, s>> when store s is older than load i
  head, mid, tail,             \* sq_head, sq_mid, sq_tail with polarity
  svalid, sbase, sdata, saddr, sretired,           \* sq_valid, ..., sq_issue_rdy
  store, shw,                  \* the store of an entry, sq_addr
  lsel, ssel,                  \* lq_addrgen_sel_r, sq_addrgen_sel_r
  empty,                       \* rename's latch was cleared by a flush in the last cycle
  mem, asked,                  \* the data cache: memory, loads accepted and not answered
  prog, arch, goal             \* history

lqVars   == <<lvalid, lbase, lop2, laddr, lissued, lcomplete, load, lhw, ldata, younger, older, lsel>>
sqVars   == <<head, mid, tail, svalid, sbase, sdata, saddr, sretired, store, shw, ssel>>
lsqVars  == <<lqVars, sqVars, empty, mem, asked, prog, arch, goal>>

LsqInit ==
  /\ lvalid = {} /\ lbase = {} /\ lop2 = {} /\ laddr = {} /\ lissued = {} /\ lcomplete = {}
  /\ load = [i \in LSlots |-> NoLoad] /\ lhw = [i \in LSlots |-> None]
  /\ ldata = [i \in LSlots |-> NoAnswer]
  /\ younger = {} /\ older = {}
  /\ head = 0 /\ mid = 0 /\ tail = 0
  /\ svalid = {} /\ sbase = {} /\ sdata = {} /\ saddr = {} /\ sretired = {}
  /\ store = [s \in Slots |-> NoStore] /\ shw = [s \in Slots |-> None]
  /\ lsel = None /\ ssel = None /\ empty = FALSE
  /\ mem = [a \in Addrs |-> 0] /\ arch = [a \in Addrs |-> 0]
  /\ asked = [i \in LSlots |-> NoAnswer] /\ goal = [i \in LSlots |-> NoAnswer]
  /\ prog = << >>

-----------------------------------------------------------------------------
(* Signals.  op is the instruction in rename's latch, or NoOp. *)

\* priarb.v: the lowest index wins.
Grant(req) == IF req = {} THEN None ELSE CHOOSE i \in req : \A k \in req : i <= k

NoOp      == [kind |-> "none"]
IsLoad(op)  == op.kind = "load"
IsStore(op) == op.kind = "store"

LqInsertSel    == Grant(LSlots \ lvalid)
LqInsert(op)   == IsLoad(op) /\ LqInsertSel # None
SqInsert(op)   == IsStore(op) /\ ~IsFull(head, tail)

\* (The first definition is a mutant: a load passes a store of unknown address.)
Conflicts_Known(i, s) ==
  /\ SameBlock(shw[s], lhw[i])
  /\ load[i].width = "block" \/ shw[s] = lhw[i]

\* lq_sq_hit for one store: its address is unknown, or in the same word, or for
\* lbcmp in the same block.
Conflicts(i, s) ==
  \/ s \notin saddr
  \/ /\ SameBlock(shw[s], lhw[i])
     /\ load[i].width = "block" \/ shw[s] = lhw[i]

LqSqHit(i) == \E s \in svalid : <<i, s>> \in older /\ Conflicts(i, s)

\* agemat.v: the requesting load that is younger than no requesting load.
LqIssueReady == (lvalid \cap laddr) \ lissued
LqIssueSel ==
  LET oldest == {i \in LqIssueReady : \A k \in LqIssueReady : <<k, i>> \notin younger}
  IN IF oldest = {} THEN None ELSE CHOOSE i \in oldest : TRUE

LqIssueReq(flush) == LqIssueSel # None /\ ~LqSqHit(LqIssueSel) /\ ~flush
SqIssueReq(flush) == Idx(head) \in svalid \cap saddr \cap sretired /\ ~flush

\* The load has the cache's port before the store.  (The mutant also holds the
\* store back while the load waits for it.)
SqIssueBeat_LoadFirst(flush, ready) ==
  SqIssueReq(flush) /\ LqIssueSel = None /\ ready
LqIssueBeat(flush, ready) == LqIssueReq(flush) /\ ready
SqIssueBeat(flush, ready) == SqIssueReq(flush) /\ ~LqIssueReq(flush) /\ ready

LqRemoveSel == Grant(lvalid \cap lcomplete)

-----------------------------------------------------------------------------
(* One edge.  woken: the operands that the result on the bus completes.  ret: *)
(* rob_ret_store.  ready: dcache_lsq_ready.  ans: the load the cache answers. *)
(* wbok: ~wb_lsq_stall.                                                       *)

Put(f, at, b, v) == IF b THEN [f EXCEPT ![at] = v] ELSE f
Flag(set, at, b, on) == IF ~b THEN set ELSE IF on THEN set \cup {at} ELSE set \ {at}

\* agemat.v and agearr.v, also in the cycle of a flush.  (The mutants leave the
\* column alone.)
Younger_NoClear(op) ==
  younger' = IF LqInsert(op)
             THEN younger \cup {<<k, LqInsertSel>> : k \in LSlots \ {LqInsertSel}}
             ELSE younger
Younger(op) ==
  younger' = IF LqInsert(op)
             THEN {p \in younger : p[1] # LqInsertSel}
                    \cup {<<k, LqInsertSel>> : k \in LSlots \ {LqInsertSel}}
             ELSE younger
Older_NoClear(op) ==
  older' = IF LqInsert(op) THEN older \cup ({LqInsertSel} \X Slots) ELSE older
Older(op) ==
  older' = IF LqInsert(op) THEN older \cup ({LqInsertSel} \X Slots)
           ELSE IF SqInsert(op) THEN {p \in older : p[2] # Idx(tail)}
           ELSE older

\* The address registers: the slot is chosen in one cycle, in a flush too, and
\* its address written in the next.
AddrGen ==
  /\ lsel' = Grant((lvalid \cap lbase) \ (laddr \cup {lsel}))
  /\ ssel' = Grant((svalid \cap sbase) \ (saddr \cup {ssel}))

\* What the load queue keeps of an entry beyond its flags is not read once the
\* entry is free: the model keeps none.
KeptLoads(f, none) == [i \in LSlots |-> IF i \in lvalid' THEN f[i] ELSE none]

LoadQueue(op, woken, flush, ready, ans, wbok) ==
  LET new == LqInsertSel
      ins == LqInsert(op) /\ ~flush
      gen == lsel # None /\ ~flush
      iss == LqIssueBeat(flush, ready)
      got == ans # None /\ ~flush
      set(flags, on) == Flag(flags, new, ins, on)
  IN /\ lvalid' = IF flush THEN {}
                  ELSE Flag(Flag(lvalid, LqRemoveSel, LqRemoveSel # None /\ wbok, FALSE),
                            new, ins, TRUE)
     /\ lbase' = set(lbase, ins /\ op.base)
                   \cup {i \in lvalid : ~flush /\ <<"lbase", i>> \in woken}
     /\ lop2'  = set(lop2, ins /\ (op.op2 \/ op.what.width = "word"))
                   \cup {i \in lvalid : ~flush /\ <<"lop2", i>> \in woken}
     /\ laddr' = Flag(set(laddr, FALSE), lsel, gen, TRUE)
     /\ lissued' = Flag(set(lissued, FALSE), LqIssueSel, iss, TRUE)
     /\ lcomplete' = Flag(set(lcomplete, FALSE), ans, got, TRUE)
     /\ load'  = KeptLoads(Put(load, new, ins, op.what), NoLoad)
     /\ lhw'   = KeptLoads(Put(Put(lhw, new, ins, None), lsel, gen,
                   IF lsel \in lbase THEN load[lsel].addr ELSE None), None)
     /\ ldata' = KeptLoads(Put(Put(ldata, new, ins, NoAnswer), ans, got, asked[ans]), NoAnswer)

\* The mutant clears the retired stores too.
SqValidAtFlush_None == {}
SqValidAtFlush == svalid \cap sretired

KeptStores(f, none) == [s \in Slots |-> IF s \in svalid' THEN f[s] ELSE none]

StoreQueue(op, woken, ret, flush, ready) ==
  LET new == Idx(tail)
      ins == SqInsert(op) /\ ~flush
      gen == ssel # None /\ ~flush
      iss == SqIssueBeat(flush, ready)
      set(flags, on) == Flag(flags, new, ins, on)
  IN /\ head' = IF iss THEN Inc(head) ELSE head
     /\ mid'  = IF ret THEN Inc(mid) ELSE mid
     /\ tail' = IF flush THEN mid ELSE IF SqInsert(op) THEN Inc(tail) ELSE tail
     /\ svalid' = IF flush THEN SqValidAtFlush
                  ELSE Flag(set(svalid, TRUE), Idx(head), iss, FALSE)
     /\ sbase' = set(sbase, ins /\ op.base)
                   \cup {s \in svalid : ~flush /\ <<"sbase", s>> \in woken}
     /\ sdata' = set(sdata, ins /\ op.op2)
                   \cup {s \in svalid : ~flush /\ <<"sdata", s>> \in woken}
     /\ saddr' = Flag(set(saddr, FALSE), ssel, gen, TRUE)
     /\ sretired' = Flag(set(sretired, FALSE), Idx(mid), ret /\ ~flush, TRUE)
     /\ store' = KeptStores(Put(store, new, ins, op.what), NoStore)
     /\ shw'   = KeptStores(Put(Put(shw, new, ins, None), ssel, gen,
                   IF ssel \in sbase THEN store[ssel].addr ELSE None), None)

\* The data cache, as lsq.v relies on it.
DataCache(flush, ready, ans) ==
  LET iss == LqIssueBeat(flush, ready)
      value == Read(load[LqIssueSel].width, lhw[LqIssueSel], mem)
  IN /\ mem' = IF SqIssueBeat(flush, ready)
               THEN [mem EXCEPT ![shw[Idx(head)]] = store[Idx(head)].val] ELSE mem
     /\ asked' = IF flush THEN [i \in LSlots |-> NoAnswer]
                 ELSE Put(Put(asked, ans, ans # None, NoAnswer), LqIssueSel, iss, value)

-----------------------------------------------------------------------------
(* History *)

Apply(m, s) == [m EXCEPT ![store[s].addr] = store[s].val]

\* Memory m after the stores of p, in the order of p: of each word the last store.
StoresTo(a, p) == {n \in DOMAIN p : p[n][1] = "store" /\ store[p[n][2]].addr = a}
Latest(ns) == CHOOSE n \in ns : \A k \in ns : k <= n
AfterStores(m, p) ==
  [a \in Addrs |-> IF StoresTo(a, p) = {} THEN m[a] ELSE store[p[Latest(StoresTo(a, p))][2]].val]

\* A load that has left the queue keeps its place in the reorder buffer until
\* everything older has retired.
RetireDone(p) ==
  LET live == {n \in DOMAIN p : p[n] # Done}
  IN IF live = {} THEN << >> ELSE SubSeq(p, Grant(live), Len(p))

History(op, ret, flush, wbok) ==
  LET done(e) == IF wbok /\ e = <<"load", LqRemoveSel>> THEN Done ELSE e
      rest == IF ret THEN Tail(prog) ELSE prog
      left == RetireDone([n \in DOMAIN rest |-> done(rest[n])])
  IN /\ prog' = IF flush THEN << >>
                ELSE IF LqInsert(op) THEN Append(left, <<"load", LqInsertSel>>)
                ELSE IF SqInsert(op) THEN Append(left, <<"store", Idx(tail)>>)
                ELSE left
     /\ arch' = IF ret THEN Apply(arch, prog[1][2]) ELSE arch
     /\ goal' = KeptLoads(Put(goal, LqInsertSel, LqInsert(op),
                  Read(op.what.width, op.what.addr, AfterStores(arch, prog))), NoAnswer)

\* rename.v: a flush empties the latch.  (The mutant: it does not.)
EmptyAfter_Never(flush) == FALSE
EmptyAfter(flush) == flush

LsqEdge(op, woken, ret, flush, ready, ans, wbok) ==
  /\ LoadQueue(op, woken, flush, ready, ans, wbok)
  /\ StoreQueue(op, woken, ret, flush, ready)
  /\ Younger(op) /\ Older(op)
  /\ AddrGen
  /\ DataCache(flush, ready, ans)
  /\ History(op, ret, flush, wbok)
  /\ empty' = EmptyAfter(flush)

\* Values are only copied, so one marked value among zeros shows a wrong copy: a
\* store carries it when no other is stored (a bound of the model).
Marked == \/ \E a \in Addrs : mem[a] # 0 \/ arch[a] # 0
          \/ \E s \in Slots : store[s].val # 0
          \/ \E i \in LSlots, f \in {ldata, asked, goal} : \E a \in DOMAIN f[i] : f[i][a] # 0

\* An instruction that lsq_stall holds back does what none does: it is not varied.
Comes(operand) == IF operand \in Late THEN BOOLEAN ELSE {TRUE}
\* A load of a block is alone in the load queue (a bound of the model).
NewWidths == IF lvalid = {} THEN Widths
             ELSE IF \E i \in lvalid : load[i].width = "block" THEN {}
             ELSE Widths \ {"block"}
NewLoads  == IF LqInsertSel = None THEN {}
             ELSE [kind : {"load"}, what : [addr : Addrs, width : NewWidths],
                   base : Comes("lbase"), op2 : Comes("lop2")]
NewStores == IF IsFull(head, tail) THEN {}
             ELSE [kind : {"store"}, base : Comes("sbase"), op2 : Comes("sdata"),
                   what : {st \in Stores : st.val = IF Marked THEN 0 ELSE Mark}]
Offers == {NoOp} \cup IF empty \/ Len(prog) = Window THEN {} ELSE NewLoads \cup NewStores

Waiting == {<<"lbase", i>> : i \in lvalid \ lbase} \cup {<<"lop2", i>> : i \in lvalid \ lop2}
           \cup {<<"sbase", s>> : s \in svalid \ sbase} \cup {<<"sdata", s>> : s \in svalid \ sdata}

\* rob.v retires in program order, and a store only after its operands have come.
OldestIsStore == prog # << >> /\ prog[1][1] = "store"
CanRetire == OldestIsStore /\ prog[1][2] \in sbase \cap sdata

Outstanding == {i \in LSlots : asked[i] # NoAnswer}

\* An input that no logic looks at in this cycle is not varied.
Readys(flush) == IF LqIssueReq(flush) \/ SqIssueReq(flush) THEN BOOLEAN ELSE {FALSE}
WbOks == IF LqRemoveSel = None THEN {FALSE} ELSE BOOLEAN

\* A cycle without a flush that completes the operands of some set in wakes, and
\* so on.
CycleWith(wakes, rets, readys, answers, wboks) ==
  \E op \in Offers, woken \in wakes, ret \in rets, ready \in readys,
     ans \in answers, wbok \in wboks :
    LsqEdge(op, woken, ret, FALSE, ready, ans, wbok)

Wakes == SUBSET Waiting
Rets  == {FALSE, CanRetire}
Answering == {None} \cup Outstanding

Cycle == CycleWith(Wakes, Rets, Readys(FALSE), Answering, WbOks)
FlushCycle == \E op \in Offers : LsqEdge(op, {}, FALSE, TRUE, FALSE, None, FALSE)

LsqNext == Cycle \/ FlushCycle

(***************************************************************************)
(* Fairness.  The clock runs; an operand that is due comes; the oldest     *)
(* store retires once it may; the cache accepts a request that stands and  *)
(* answers what it has accepted; the bus takes the result of a load.       *)
(***************************************************************************)
OperandComes(w) ==
  w \in Waiting /\ CycleWith({S \in Wakes : w \in S}, Rets, Readys(FALSE), Answering, WbOks)
StoreRetires ==
  CanRetire /\ CycleWith(Wakes, {TRUE}, Readys(FALSE), Answering, WbOks)
CacheAccepts ==
  TRUE \in Readys(FALSE) /\ CycleWith(Wakes, Rets, {TRUE}, Answering, WbOks)
CacheAnswers(i) ==
  i \in Outstanding /\ CycleWith(Wakes, Rets, Readys(FALSE), {i}, WbOks)
BusTakes ==
  TRUE \in WbOks /\ CycleWith(Wakes, Rets, Readys(FALSE), Answering, {TRUE})

Operands ==
  {w \in ({"lbase", "lop2"} \X LSlots) \cup ({"sbase", "sdata"} \X Slots) : w[1] \in Late}
LsqFairness ==
  /\ WF_lsqVars(Cycle)
  /\ \A w \in Operands : WF_lsqVars(OperandComes(w))
  /\ WF_lsqVars(StoreRetires)
  /\ WF_lsqVars(CacheAccepts)
  /\ \A i \in LSlots : WF_lsqVars(CacheAnswers(i))
  /\ WF_lsqVars(BusTakes)

LsqSpec == LsqInit /\ [][LsqNext]_lsqVars
LsqFairSpec == LsqSpec /\ LsqFairness

-----------------------------------------------------------------------------
(* Properties *)

Position(e) == CHOOSE n \in DOMAIN prog : prog[n] = e

\* A load that has its answer has the value that program order gives it: that of
\* the last older store to each word, whatever the generation of addresses, the age
\* matrices, reused entries and flushes did in between.
LoadsSeeProgramOrder == \A i \in lvalid \cap lcomplete : ldata[i] = goal[i]

\* No retired store is lost, doubled or reordered, and none that a flush removed
\* reaches memory: what the cache has performed and the retired stores that the
\* ring still holds make up the memory of program order.
Retired == [n \in 1 .. Dist(head, mid) |-> <<"store", Nth(head, n)>>]
MemoryIsArchitectural == AfterStores(mem, Retired) = arch

\* The matrices know program order, however often the entries have been reused:
\* between two loads in flight, and between a load and every store that is in
\* flight or retired and not yet performed.
AgesAreProgramOrder ==
  \A i \in lvalid :
    /\ \A k \in lvalid \ {i} :
         <<k, i>> \in younger <=> Position(<<"load", k>>) < Position(<<"load", i>>)
    /\ \A s \in svalid :
         <<i, s>> \in older <=>
           s \in sretired \/ Position(<<"store", s>>) < Position(<<"load", i>>)

\* An address that is marked as computed was computed from the entry's own base,
\* though the slot is chosen a cycle before the address is written and a flush
\* may free and refill it.
AddressesAreOwn ==
  /\ \A i \in lvalid \cap laddr : lhw[i] = load[i].addr
  /\ \A s \in svalid \cap saddr : shw[s] = store[s].addr

\* "used for lbcmp" (lsq.v, on lq_op2_rdy and lq_op2): the byte that lbcmp
\* searches for goes to the cache with the request, so it has to be there.
IssuedLoadsHaveOperands == \A i \in lvalid \cap lissued : i \in lop2

\* Every load ends: it leaves with its value, or a flush removes it.  A load that
\* waits for a store, the store for retirement and the port, and the port for
\* another load, do not wait for each other.
LoadsComplete == \A i \in LSlots : i \in lvalid ~> i \notin lvalid
-----------------------------------------------------------------------------
(* The inductive invariant: why the properties above hold *)

Events == ({"load"} \X LSlots) \cup ({"store"} \X Slots) \cup {Done}

LsqTypeOK ==
  /\ lvalid \subseteq LSlots /\ svalid \subseteq Slots
  /\ head \in Ptrs /\ mid \in Ptrs /\ tail \in Ptrs
  /\ lsel \in LSlots \cup {None} /\ ssel \in Slots \cup {None}
  /\ load \in [LSlots -> Loads \cup {NoLoad}] /\ \A i \in lvalid : load[i] \in Loads
  /\ store \in [Slots -> Stores \cup {NoStore}] /\ \A s \in svalid : store[s] \in Stores
  /\ DOMAIN lhw = LSlots /\ DOMAIN ldata = LSlots /\ DOMAIN shw = Slots
  /\ DOMAIN asked = LSlots /\ DOMAIN goal = LSlots
  /\ mem \in [Addrs -> Vals] /\ arch \in [Addrs -> Vals]
  /\ prog \in Seq(Events)

\* The ring holds the retired stores, then the others, and never overfills.
StoreRing ==
  /\ Dist(head, mid) + Dist(mid, tail) = Dist(head, tail) /\ Dist(head, tail) <= N
  /\ svalid = Live(head, tail)
  /\ svalid \cap sretired = Live(head, mid)

\* Whether p holds e, and whether it holds e before f.
Held(p, e) == \E n \in DOMAIN p : p[n] = e
Before(p, e, f) == \E n, k \in DOMAIN p : n < k /\ p[n] = e /\ p[k] = f

\* The queues hold the instructions of the reorder buffer, each once, and the ring
\* has its stores in program order.
QueuesFollow ==
  /\ \A i \in LSlots : i \in lvalid <=> Held(prog, <<"load", i>>)
  /\ \A s \in Slots : s \in Live(mid, tail) <=> Held(prog, <<"store", s>>)
  /\ \A e \in Events \ {Done} : ~Before(prog, e, e)
  /\ \A s, t \in Slots :
       Before(prog, <<"store", s>>, <<"store", t>>) => Age(mid, s) < Age(mid, t)

\* A load is answered after it was issued, and issued after its address was computed.
LoadStages == (lvalid \cap lcomplete \subseteq lissued) /\ (lvalid \cap lissued \subseteq laddr)

\* A slot is chosen for the address registers while its entry has the base and no
\* address; only in the cycle after a flush, when rename offers nothing, may the entry
\* be gone.
ChosenWaits ==
  /\ lsel # None => empty \/ lsel \in (lvalid \cap lbase) \ laddr
  /\ ssel # None => \/ ssel \in (svalid \cap sbase) \ saddr
                    \/ empty /\ ssel \notin svalid
  /\ empty => lvalid = {}

\* The value of a word before a load (or, for arch, before the unretired stores): that
\* of the youngest of the older stores to it (those in olds), or that of memory.
IsValue(v, a, olds) ==
  LET ws == {s \in olds : store[s].addr = a}
  IN /\ ws = {} => v = mem[a]
     /\ \A s \in ws : (\A t \in ws : t = s \/ Age(head, t) < Age(head, s)) => v = store[s].val

OlderThan(i) == {s \in svalid : <<i, s>> \in older}

GoalsFollow ==
  \A i \in lvalid : /\ goal[i] \in [ReadBy(load[i].width, load[i].addr) -> Vals]
                    /\ \A a \in DOMAIN goal[i] : IsValue(goal[i][a], a, OlderThan(i))

ArchFollows == \A a \in Addrs : IsValue(arch[a], a, Live(head, mid))

\* What the cache is asked for is what the load has to return.
AskedFollow ==
  \A i \in LSlots : asked[i] # NoAnswer =>
    i \in (lvalid \cap lissued) \ lcomplete /\ asked[i] = goal[i]

LsqInv ==
  /\ LsqTypeOK
  /\ StoreRing
  /\ QueuesFollow
  /\ LoadStages
  /\ ChosenWaits
  /\ AddressesAreOwn
  /\ AgesAreProgramOrder
  /\ GoalsFollow
  /\ ArchFollows
  /\ AskedFollow
  /\ LoadsSeeProgramOrder
=============================================================================
