# A verification development for the out-of-order RISC-V core

The repository describes one RV32IM processor twice: as a behavioural model
(`behavioral/*.v`) and as a gate-level twin with the same module ports
(`rtl/src/*.v` over `rtl/lib`). Around it stand a data cache, an L2 with a
snooping bus, a memory controller, a breadth-first-search accelerator, a test
bench and programs that are compared with Spike instruction by instruction.

The modules here are translated from the behavioural model. Everything in it is
clocked by one clock, so **one action of a module is one rising edge** of all
the registers it models: guards and next values are the combinational signals
as they stand before the edge. What lies outside a module is an input of the
edge, chosen by an existential quantifier over what that part can drive.

## 1. Inventory

| component | files | state | operations | talks to |
|---|---|---|---|---|
| fetch | `fetch.v`, `icache.v` | pc, 16-entry buffer with head, mid and tail pointers, jalr halt | request, answer, predict, redirect, hand over | icache, brpred, decode, rob (flush) |
| branch predictor | `brpred.v` | pattern table, speculative and architectural history | predict, train at retirement, repair at flush | fetch, rob |
| decode | `decode.v` | one latch | decode, insert into the rob, pass to rename | fetch, rob, rename |
| reorder buffer | `rob.v` | 128 entries, head and tail with polarity bits, retirement latch, inhibit bit | insert, take a result, read the head, retire, flush | decode, rename, wb, rat, csr, lsq, fetch, brpred |
| rename | `rename.v` | one latch | allocate a tag, read operands, dispatch, forward a link address | decode, rat, exers, lsq, csr, wb |
| alias table | `rat.v` | per register: valid, committed, tag, speculative and committed value | allocate, write a result, look up, commit, flush | rename, wb, rob |
| reservation stations | `exers.v` | 32 entries | insert, wake up, issue to one of four units, flush | rename, wb, units |
| units | `scalu.v`, `mcalu.v`, `mul.v`, `div.v`, `alu_simple.v` | one instruction each, multiplier and divider state | start, iterate, finish, wait for wb, flush | exers, wb |
| csr unit | `csr.v` | one access, counters, stall bits | start at the head, wait for bfs or the l2 fifo, finish | rename, wb, bfs, l2fifo, rob |
| writeback bus | `wb.v` | one latch per source | reload, arbitrate (rename, lsq, mcalu0, mcalu1, scalu0, scalu1) | everybody with results; rob, rat, exers, lsq |
| load/store queue | `lsq.v`, `agearr.v`, `agemat.v`, `priarb.v` | 16 loads; ring of 16 stores with head, mid (retired) and tail | insert, wake up, generate address, issue, complete, retire, flush | rename, wb, dcache, rob |
| data cache | `dcache.v`, `pmacheck.v` | 4 ways, three stages, one miss register, refill buffer | read, write through, miss, merge, refill, invalidate, flush | lsq, l2fifo, l2 |
| l2 | `l2.v`, `l2tag.v`, `l2data.v`, `l2trans.v`, `l2fifo.v`, `l2bank.v`, `fifo.v` | line states, pending transaction, data, fifos | request, snoop, nack, retry, fill, evict, invalidate | dcache, bus |
| bus | `bus.v`, `buscmd.vh` | eight-beat round, grant | arbitrate, broadcast, nack | both l2s, memory, rom |
| memory | `dramctl.v`, `rom.v` | the command taken, the answer to give | accept or nack, read, fill | bus, DRAM glue |
| DRAM glue | `dramsim/dramsim_verilator.*`, `dramsim/dramsim_vpi.cc`, parts of `top.cc` | queues of reads and of write data, clock accumulator or clock callback | command, answer, clock | dramctl.v, DRAMsim3, the simulator |
| bfs accelerator | `bfs/*.v` | core state machine, queue with spill and restore | csr access, mark, enqueue, dequeue, spill, restore | csr, its own l2 |
| gate-level twin | `rtl/src`, `rtl/lib` | as above | as above | as above |
| test bench | `top.v`, `top.cc` | an entry per robid, statistics, dump events, simulated time | trace, count, dump, tick, stop | everything |
| hash set benchmark | `perf/hashset.c` | table, metadata, values inserted | insert, find, fill to a load factor, measure | runs on the core |
| reference search | `behavioral/bfs/graph_test/graph.c` | graph, memory image, ring of nodes, marks and parents | build, write image, search, read the path off | gives the accelerator its graph |
| scripts | `checkmem.py`, `runtest.sh`, `formal.tcl` | none | compare with Spike, check loads | logs of the test bench |

What is hard here:

* **speculation and reuse**: robids, tags and queue slots are reused the cycle
  after a flush while results, pipeline latches and cache answers of the
  squashed instructions are being cleared elsewhere;
* **values that pass once**: a result is on the bus for one cycle, in which
  stations, load/store queue, alias table, rename and reorder buffer must all
  agree about whom it concerns;
* **agreements without names**: retirement of a store is one bit, "rename is the
  head" is a comparison of two indices, "executed" has a single setter;
* **no back-pressure where it was thought unnecessary**: the csr unit into wb.v,
  the operand of a csr access, the data of a store;
* **fixed priorities** on the bus and in the queues, and one clock in which
  insertion, removal, flush and stall all meet;
* **coherence**: refills, merged stores, invalidations and nacks interleave;
* **glue in C++**: callbacks at clock edges in an order of the simulator's
  choice, members that are never initialised, arrays exactly as long as the
  longest expected case.

What makes the components correct:

* the reorder buffer: instructions leave in program order, once, finished, with
  the outcome their unit reported; a flush leaves no trace; retirement goes on;
* units and bus: every result due is in exactly one place until it is
  delivered, and is delivered;
* renaming: every instruction works with the values program order gives it;
* load/store queue and cache: a load returns what the last older store to that
  address wrote (`checkmem.py`), squashed stores never reach memory, retired
  ones always do;
* data cache: a load gets the newest value it may, once, and nobody else's;
* l2, bus and memory: at most one modified copy, a store is always somewhere,
  whoever waits for a line gets it, from one place;
* test bench: what is printed of an instruction was reported of that instruction;
  the DRAM's clock keeps time; what is dumped is what was asked for;
* host programs: the table is a set, the search finds exactly what is reachable;
* arithmetic: the iterative multiplier and divider compute RV32M.

`PROJECT.json` lists every hazard with its line and the properties aimed at it.

## 2. Modules

```
CircPtr        ring pointers {polarity, index}
  CircPtrProofs  lemmas about them
  Rob          in-order pipeline: decode latch, reorder buffer, rename latch, csr latch
    RobProofs  its inductive invariant and its theorems, used by those below
    RobWindow  --- implements ---> Window   (a queue without ring, pointers or latches)
    Exec       stations, units, csr stalls, writeback bus   --- implements ---> Rob
      ExecProofs
    Rat        alias table, operands, wake-up, commit, on top of Rob      (RatMC)
    Trace      the test bench's entries per robid and its count, on top of Rob
  Fetch        fetch unit, instruction cache pipeline, prediction history
    FrontMC    instances of Trace and Fetch
    FrontProofs  theorems of Rat, Trace and Fetch
  Lsq          load/store queue over a memory that keeps the data cache's contract   (LsqMC)
    LsqProofs
Dcache         data cache over a level-2 cache that keeps its contract
  DcacheProofs
Dram           the DRAM glue, both builds, over DRAMsim3
  Mem          two level-2 caches, bus, memory controller, rom       (MemMC)
    MemProofs
    CachesMC   instances of Dcache and Mem
HashSet        the benchmark's table   --- implements ---> ValueSet
GraphBfs       the reference search
BfsCore        the bfs accelerator and its queue over an in-order cache
Sim, VpiClock  the simulator's main program; the clock under VPI
  ProgramsMC   instances of HashSet, GraphBfs, BfsCore, Sim and VpiClock
  ProgramsProofs  theorems of these five
```

Modules named `...MC` hold instances for the model checker, `...Proofs`
theorems. Definitions marked as mutants are plausible mistakes: put in the place
of the definition they stand before, each makes one of the properties fail.

### CircPtr
A pointer is the number `{pol, idx}` in `0 .. 2N-1`, which the code increments
as a concatenation. `Inc`, `Idx` and `IsFull` are `buf_head_next`,
`ret_rd_addr` and `buf_full` of `rob.v`; `Dist`, `Age` and `Live` say which
entries lie between two pointers. `N` is 128 in the code.

### Rob
| variables | registers |
|---|---|
| `dvalid dkind`, `fhalt` | latch of decode.v; jalr_halt_r of fetch.v as decode sees it |
| `rvalid rrobid rkind` | latch of rename.v |
| `head tail` | buf_head, buf_tail with polarity |
| `executed kind outcome` | buf_executed, buf_retop, buf_error and the branch bit of buf_result |
| `retv retk reto` | ret_valid, ret_retop, ret_error and the misprediction |
| `inhibit`, `fwdv fwdrobid` | rename_inhibit_r; wb.v's latch for rename |
| `csrv csrrobid` | latch of csr.v |
| `pending` | robids in stations, units, load queue or wb latches |
| `sqwait` | stores in the store queue that have not retired |

`Edge(f, ustall, cstall, w, o)` is the clock edge; its conjuncts are the
`always` blocks. Inputs: what fetch offers, the stall of the unit rename wants,
the stall of the csr unit, and the robid and outcome on the bus. `Quiet` and
`Result` are edges without and with a unit's result. An instruction is one of
eight kinds; only what the control distinguishes is kept of it. `errst` is an
instruction that arrives with a fetch fault and whose junk encoding looks like a
store, since `decode_retop` is formed without a look at `decode_error`. (The
instruction cache of the repository ties its error to 0; the kind is what the
interface allows.)

### Window, RobWindow
`Window` is what the pipeline promises: a queue whose members finish in any
order, at most one per step, and leave from the front in the cycle after they
were shown. `RobWindow` reads the ring from head to tail as that queue
(`windowBar`) and the retirement latch as what is shown (`outBar`), and
`ImplementsWindow` is the refinement. It speaks about order, about
completeness, about the outcome of every entry and about flushes in one
formula.

### Exec
`pending` of Rob gets places: `stations`, `unit`, `latch` and `loads`; `long` are
multiplications and divisions not finished. `Drives` is the priority of
`wb.v`, `IssueTo` the choice of `exers.v`, `CsrStall` and `CsrTimer` the waiting of
the csr unit for the accelerator (`bfs`), for the l2 fifo (`l2`), or not at all.
`ExecEdge` is those edges conjoined with `Edge` of Rob, whose inputs they now
compute. Which station issues and which load completes is left open.

### Rat
The five stores of `rat.v`, the fields of entries that have to do with values
(`rd`, `target`, `result`) and the operand `op` of every instruction in flight,
ready or waiting for a tag. `RatEdge` is conjoined with `Edge`. Two
simplifications are named in the module: the two source operands of an
instruction are treated alike by the code, so there is one; and fields that
rename, wb and units carry along are read from the entry. Reset leaves the tags
with junk, and any junk is allowed. The code only copies values, so one marked
value among zeros shows every wrong copy; `NewValues` marks one only when no
other mark is stored.

### Lsq
| variables | registers |
|---|---|
| `lvalid lbase lop2 laddr lissued lcomplete` | lq_valid, lq_base_rdy, lq_op2_rdy, lq_addr_rdy, lq_issued, lq_complete, as sets of entries |
| `load lhw ldata` | what an entry loads, lq_addr, lq_data |
| `younger`, `older` | the matrices of agemat.v and agearr.v |
| `head mid tail`, `svalid sbase sdata saddr sretired` | sq_head, sq_mid, sq_tail with polarity; sq_valid ... sq_issue_rdy |
| `store shw` | what an entry stores, sq_addr |
| `lsel ssel` | lq_addrgen_sel_r, sq_addrgen_sel_r (no entry: the request bit is clear) |
| `empty` | rename's latch is empty because of a flush |
| `mem asked` | the data cache: memory, and the answers it owes |
| `prog arch goal` | history: the reorder buffer's memory instructions in order, memory as retired stores leave it, what each load must return |

`LsqEdge` is the clock edge; `LoadQueue`, `StoreQueue`, `Younger`, `Older` and
`AddrGen` are the `always` blocks. Inputs: the instruction in rename, the operands
the bus completes, the retirement of a store, the flush, the cache's ready and
answer, and the stall of the bus. Flags keep their stale values when an entry is
free, as in the code; addresses and data that nothing can read are dropped.
`DataCache` is what lsq.v relies on: the cache performs what it accepts in that
order, answers each load later and in any order, and forgets the answers it owes
at a flush. Retirement is constrained by what the other modules show: program
order, and a store only with its operands (`OperandsAreArchitectural`). The unit
of memory is a word, which is what the conflict check compares.

### Dcache
| variables | registers |
|---|---|
| `s0` | s0_req_r, s0_inv_r, s0_op_r and the fields of the access |
| `s1`, `s1w`, `s2` | the reading half of stage 1, the write port of the data, the answer |
| `tagmem datamem` | tags with valid bits, data, for the ways of one set |
| `mshr` | mshr_valid, mshr_obsolete, mshr_addr, mshr_way, mshr_req_*, mshr_wen, mshr_wmask |
| `rbuf` | rbuf_started and rbuf_data; rbuf_valid and rbuf_filled are shifted in from below, so they are two counts |
| `l2q l2mem resp inv` | l2fifo.v; the level-2 cache: its memory, the line it sends, the head of invfifo |
| `writes seen goal dcfault` | history: versions, what a load may return, faults (below) |

`CacheEdge` is the clock edge; `Stage0`, `Stage1`, `WritePort`, `Stage2`, `TagMem`,
`Refill` and `DataMem` are the `always` blocks. Inputs: an access of lsq.v, a flush,
and whether the level-2 cache has a beat (it may pause). The
level-2 cache takes requests in order, reads a line as a whole, and tells of a
line that another master writes. `LoadsAreCoherent` is the oracle of `checkmem.py`
made precise about other masters: a load returns what the last store accepted
before it left in the word, or a later write of another master, and nothing
older once the invalidation has been accepted. `LoadsAreInOnePlace` follows a
load from its acceptance to its answer through the stages and the miss
register; a flush empties all those places, so an answer never finds the next
user of a load queue entry. lsq.v does not send a store to a word while a load
of it is out (`LoadsSeeProgramOrder` of `Lsq` rests on that order), and `Asks`
says so.

Both properties hold up to the first of five steps, recorded in `dcfault`, after
which the cache as written does not keep the promise. Each of them is a
counterexample to `LoadsAreCoherent` when it is not set aside:

* *invalidation flushed*: dcache.v:240 clears stage 0 by the op it holds, a load's,
  in the cycle in which an invalidation is accepted (line 236): it is lost;
* *invalidation meets refill*: lines 516-521 write one valid bit per cycle, and a
  refill's goes first; the invalidation of another way has no effect;
* *old line overwritten*: a store merged into a miss is written at once (line 420)
  to the way that is to be refilled, whose old line is valid until the first beat;
* *read overtaken*: stage 1 is held (line 217) with a read of the data that the
  write port changes meanwhile; the load returns a younger store's value;
* *last beat late*: a store holds up the last beat (line 612), which counts as
  done all the same (517, 585): the line is valid without it and the miss
  register free for the next miss.

### Dram, Mem
`Dram` is the glue of both builds: `cmddata`, `respdata` and the two callbacks in
the C++ of the Verilator build and in the VPI build, over a library that finishes its
commands in any order. `Mem` composes it with `dramctl.v`, `rom.v`, `bus.v` and the two
level-2 caches (`l2tag.v`, `l2data.v`, `l2trans.v`), of the core and of the
accelerator.

| variables | registers |
|---|---|
| `op way pend` | s1 of l2tag.v; one way of tagmem with its banks; pend_* |
| `req snoop rtag` | request and flush of l2data.v and l2trans.v; req_tag_r |
| `bus turn half hit nack` | the round, req_pri_r, its half, bus_hit_r, bus_nack_r |
| `dnack dcmd dreq`, `rcmd rreq` | dramctl.v, rom.v |
| `nops latest hurt fault` | history: accesses, stores to a line, caches whose read was nacked, faults |

A round of the bus has eight beats, but decides at two places: `FirstHalf` (the caches
snoop, memory and rom act on the command) and `SecondHalf` (confirmation, grant).
Between them `Start`, `Schedule`, `Ready` and the library's `ClockTick` interleave
freely. Responses go before requests; of two requests `turn` says which is granted, and without it the flush
that repeats what rom has answered already could wait until its tag is in use again. A store to a copy
that lacks other stores goes on lacking them (`Stored`), so that a lost store shows. `EveryWaitHasAnAnswer` counts the answers on their way to a cache that waits:
at least one, and for lines of ram exactly one. (rom.v looks at hit and nack before the
caches have answered, so for a line of rom there may be two.) `CopiesAreLatest`:
every copy has the last store, a writable one is alone, and a line that is nowhere
else is in memory.

Again both hold up to the first of the steps that the module names and records in
`fault`: a flush that the controller does not take is not repeated (dramctl.v looks at
the nack of the round before); an upgrade whose line was taken is sent as a read but ends as an
upgrade (l2trans.v:93), and in the cycle before l2tag.v hands it on it is not even sent as a read
(l2tag.v:283); a tag comes round again after eight requests while the library still has a write
under it; a flush reads the banks before the store behind a fill is
in them (l2data.v:157); a second flush finds the first still there; an access starts with
the tags of the edge before a snoop's write; a grant that falls to a cache
whose flush is on the bus is not seen; an upgrade is nacked and the line becomes
M all the same. `mem_lost` (section 3) shows the mechanism of the last. The
slot that l2data.v has for a second flush is not modelled: that step ends the
scope of the model rather than a promise of the code.

### HashSet, ValueSet
`perf/hashset.c` with one action per iteration of a loop. The hash function, chosen
at the start, is any function; so is the junk malloc leaves behind the free slots.
`ValueSet` is a set of values with insertion and lookup; `ImplementsSet` maps the
table to it by its taken slots.

### GraphBfs
`graph.c` with one action per iteration: building a random graph, the memory image,
the ring of node pointers, marks, parents and the way back. `lost` records that the
ring, which does not know that it is full, was overrun; `FoundIsReachable` speaks of
the runs without. `MemfileIsGraph` decodes the image the way `bfs_core.v` reads it.

### BfsCore
| variables | registers |
|---|---|
| `bstate neighCt bfound dcBeat` | state, neigh_ct, found, dc_beat of bfs_core.v |
| `mainQ inQ` | main_q and in_q: rows of one or two nodes, with queue_main.v's order of words |
| `outHead outTail outRow` | out_q: pointers with polarity, and the two places of each row with their valid bits |
| `qstate ct` | the spilling state machine of bfs_queue.v |
| `swq line` | the lines of memory from swq_head to swq_tail; the one being written |
| `asked` | the requests that the level-2 cache has taken and not answered (dc_rbuf_empty: none) |
| `special marks bfsFault` | history: where one chosen neighbor is in its life, nodes marked, faults |

`BfsEdge` is the clock edge. The queue computes its three limits differently:
the inner parts are full by pointers and polarity, the outgoing one when its tail is
one row behind its head, whatever the polarity, and saturated a line of rows after
the head; a row there may have one node. The cache is a contract: it takes a request
when it has room, answers in order, beat by beat, and may pause before a line. The idle signal
of the level-2 cache may come later than `asked` is empty, but nothing moves in between.

Three things end what the properties speak of (`bfsFault`). *overflow*: saturation stops new marks,
not the answers to those that the cache holds, and a row that finds no room is dropped
(queue_out.v:55). At the scale of the run, a row a mark, two held marks are absorbed and three are not; in
the code a mark may bring seven rows and seven are to spare. *gap*: a pause within a line, which l2data.v:159 makes
for a snoop: ADD_NEIGHS takes a pair in every cycle. *late*: a search that has found its
target leaves answers due, and the next search, started at once, takes them for its own. The
graph is not in the model: a header says of a node that is new how many neighbors it has, and
one neighbor, `Special`, is followed.

### Sim, VpiClock
`Sim` is `main` of `top.cc`: options, files, dump ranges, reset, ticks, and the clock
accumulator of `DRAM::tick`. Every error exit is an action. An uninitialised member is
any value (`Junk`, and both outcomes of `initialized()`). `VpiClock` is the clock of
the VPI build: a callback on each change of `dramclk` turns over a value of its own.
Two things in `top.cc` are in the model without being a violation of anything written
down: the overlap check (line 175) refuses disjoint ranges that come in another
order, although line 195 sorts them afterwards, and a range of no length is accepted and
inverts the dump from there on (`DumpFollowsRanges` sets those aside).

### Trace
The calls `tb_trace_*` of decode.v, lsq.v, csr.v and rob.v at an edge of `Rob`, and the
entry per robid they fill. Verilog leaves open which of decode.v's and rob.v's blocks
runs first at an edge; `decodeFirst` is the build's choice. With the other order the
count in flight is one too large for an instruction decoded in the cycle of a flush,
and with a full window the histogram of `ROB_SIZE + 1` places (top.cc:108, 263) is
written one place past its end.

### Fetch
| variables | registers |
|---|---|
| `pc`, `bp_req insn_jal jalr_halt misalign_err` | the registers of fetch.v with these names |
| `fhead fmid ftail`, `fbuf` | buf_head, buf_mid (next answer), buf_tail with polarity; the buffer's fields |
| `s0 s1` | the two stages of icache.v |
| `req spec_bhr arch_bhr rd_hist pht_data` | brpred.v: the request of the last cycle, both histories, the history and the answer of the read |
| `flight` | the instructions between decode and retirement, oldest first |
| `next path polluted` | history: what decode must be offered next, the outcomes before it, and whether the exception below has happened |

`FetchEdge` is the clock edge; `Pc`, `BufPointers`, `Buffer`, `Latches`, `Icache` and
`Predictor` are the `always` blocks. Inputs: the stall of decode, what the table of counters
says, and the retirement of the oldest instruction in `flight`: as predicted
(`Runs`), as a branch that was not (`Mispredicted`), or as a jalr or a failure with
any target (`Jumps`). Redirections come from there only, so a flush always has a
reason and its target lies on a path of the program. Memory is a program, `code`; that a
word is read as its own address makes every wrong pairing of answer and entry show.

Two things the code does are kept out of the properties by name. A branch that fetch drops in
the cycle of a redirection still shifts the speculative history (brpred.v:69), until
the next flush: `polluted`. And a misaligned pc stops fetch: its error entry is written at the
tail (fetch.v:163), but the tail does not move, so decode, which has a cause for it
(`ERR_IALIGN`, decode.v:146), is never offered it: `KeepsOffering` claims nothing there.

## 3. Runs

| run | configuration | asks |
|---|---|---|
| `rob_window` | N = 3; jalr, store, csr, br, errst; FairSpec | type; the safety properties of Rob; refinement of Window; retirement goes on |
| `exec` | N = 3; three programs of load and br, alu and jalr, jalr and csr; 2 stations; ExecFairSpec | every result has one place; Exec implements Rob; the bus serves all |
| `rat` | N = 3; loads, jalr, stores, csr accesses in mixed programs; one register and x0 | operands are architectural; waiters have producers; a csr access finds its operand |
| `lsq` | 2 stores, 2 loads of a word or 1 of a block; window of 3; two words; late store bases | loads see program order; memory is architectural; ages; addresses |
| `lsq_live` | 2 stores, 2 loads, one word; LsqFairSpec | every load ends |
| `programs` | the four host programs and the accelerator, see *Bounds* | the table is a set and its size counts; the search is right and ends; the image is the graph; the dump follows the ranges; both clocks keep time; the accelerator's queue loses no node and its searches end |
| `mem` | level 2: 2 caches, 2 lines of ram, 1 of rom, 4 accesses; level 1: 2 lines, 1 way, 2 beats, 2 loads, 1 write | every wait has an answer; copies are latest; loads are coherent and in one place |
| `front` | N = 2; load, store, csr, jalr, errst; fetch: a buffer of 3, all programs of three words, 1 bit of history | the trace is of the instruction; the count in flight; decode is offered the predicted path, with its history; fetch goes on |
| `csr_loss` | N = 4; alu, csr; 1 station; ml2stat | **violation** of `KeepsRetiring` |
| `x0_load` | N = 2; loads; x0 is read | **violation** of `ZeroReadsAsZero` |
| `lbcmp` | 2 loads of a block, late bytes | **violation** of `IssuedLoadsHaveOperands` |
| `mem_lost` | 2 caches, 1 line, 2 accesses | **violation** of `NackedIsRetried` |

The properties, with what they are for, are stated above each definition.

*Bounds.* A ring of three has every relation of head, tail, rename's robid and
the retirement latch that a larger one has: empty, one, full, the two oldest and
the youngest all different, both polarities. (The proofs cover every size.)
Two stations are full and not full with an instruction issuing. Kinds are divided
among runs and programs by which interact: jalr with the forwarded cycle, csr with the
head, stores with retirement, br and errst with flushes behind younger
instructions. In Rat, three entries hold two writers of a register and a reader;
one register is enough for tags, since registers meet only at x0.

In Lsq, two entries on each side are reused in either order, the ring wraps and is
full, and two words make conflicts and their absence; `Window` bounds the memory
instructions in flight (retired stores that wait for the cache come on top), `Late`
names the operands that may come after dispatch, and `Mark` is the marked value, as
in Rat (0 where values do not matter). The two words are symmetric; the liveness
run has one and uses no symmetry.

In Mem, four accesses of two caches to lines that share a way are the shortest
in which a line is taken, given back and taken again while another is evicted.
With the VPI build of the DRAM's glue it is two. In
Dcache, two lines of one way evict each other, two beats have a first and a last,
two words a beat make a beat wait for a second load, and a fifo of one is full.
One write is a store or another master's, and the core asks for both words of the first
beat and one of the last. The same properties were checked, outside
the run for the time it takes, with all words, with a fifo of two, and with two ways
and three lines. The two levels have nothing to do with each other in `CachesMC`: a behaviour
is of one. `NoCacheFault` is a constraint: since the properties speak only of
behaviours without a fault, nothing beyond one is explored.

In `programs`, the table has four slots of which the last load factor leaves one free, with
every choice of first slots and equal or different partial hashes; the graph has
three nodes, six edges to try and a ring of three, so that the ring may overflow;
a cycle of five units stands against DRAM periods of 2, 3 and 7, and 16 for the
width of the accumulator. The accelerator has lines of two beats, the shortest with a header and a
row of neighbors, a main queue of one row, so that the outer queues are in use at once, and
outer queues of twice a line; fourteen marks are the fewest after which two lines wait in
memory while one is restored, and a search may always follow another. The programs are
independent, and a behaviour is of one.

In Fetch, a buffer of three has an entry asked for, one answered and one offered at
the same time, and is full; three words are enough for a branch, what it jumps over and
what it jumps to, and the 125 programs put every kind of jump, and one to a
misaligned pc, at every place. A bit of history distinguishes a prediction that was
forwarded from one that was not. `MaxFlight` bounds the instructions between decode and
retirement, which only supply redirections; the safety properties were checked outside
the run with two bits of history and with 216 programs. `FrontMC` puts the test bench's trace beside it:
a behaviour is of one of them.

*Deadlock* is checked, since the clock never stops, except in `programs` and `front`,
whose programs and simulations end, and where a fault of the accelerator ends what is claimed of it.

*Fairness.* In `Rob`, weak fairness of the edge itself; of the unit that rename
waits for making room; of the csr unit finishing; and of *some* result due
reaching the bus. `Exec` discharges the last one: it assumes only that
stations issue, a started multiplication or division finishes, a load completes,
the queues of lsq.v have room again, and the l2 fifo, looked at again and again,
is at some time idle (strong fairness, for csr.v looks at it every other
cycle). No fairness is assumed of the bus, whose priority is in the model.

`Lsq` assumes of its surroundings what these runs show of them: a waiting operand
comes, the oldest store retires once it may, the bus takes a load's result when
there is one; and of the data cache that it accepts a request that stands and
answers what it accepted. No fairness is assumed between loads: lower entries come
first at the address generator and at the bus, and only the reorder buffer's
size (`Window`) keeps younger loads from overtaking one for ever; with no bound on
the window `LoadsComplete` fails. A flush is never forced. That stores drain is
not claimed: loads come first at the port.

`Fetch` assumes only that the clock goes on: neither that decode takes what it is
offered nor that anything retires.

The host programs are sequential: weak fairness of their next step, a program that
can go on does. Of the accelerator's cache, that now and then it takes a request if it has
room and sends a beat if one is due (`Serves`). No liveness is claimed of `Mem` and `Dcache`: nothing in bus.v keeps
two caches from nacking each other for ever.

### Findings

1. **`csr_loss`**. An access to a csr begins only as the oldest instruction, so
   nothing older competes with it. But one that writes `ml2stat` waits in
   `csr.v` for the l2 fifo while younger instructions execute, and its result
   enters wb.v through scalu0's latch without being stalled. If scalu0 finishes
   in that cycle, scalu0's result is dropped (wb.v:134-139 take csr's fields);
   if the latch is occupied, the csr result is. The entry stays unexecuted and
   retirement stops: what the test bench reports as "ERROR: 2000 cycles elapsed
   since last insn retired" (top.v:341). `tests/graph.cpp:216` does such a write.
2. **`x0_load`**. Results of loads carry an rd even if it is x0 (lsq.v:189). The
   tag of x0 is never allocated and keeps what it had at power-up; a load to x0
   with that robid is taken for the producer of x0, and rat.v:109 forwards it to
   a reader of x0 before line 111 would force zero. The twin forces zero last
   (rtl/src/rat.v:125, "if rs1=0, force to 0"). Only the cycle of the result is
   affected, no register is.
3. **`lbcmp`**. The byte an lbcmp searches for is `lq_op2`, with a ready bit that
   insertion and the bus maintain ("used for lbcmp", lsq.v:66) and nothing reads:
   the request of line 207 needs the address only. If rs2 is still being computed
   the cache gets the low bits of its tag. The twin is the same (rtl/src/lsq.v:404).
4. **`mem_lost`**. `bus_nack` is "asserted during request to indicate that it should
   be tried again later" (bus.v:157). l2trans.v:154 sets `req_sent_r` when the
   request is granted and nothing clears it after a nack, so the cache does not
   ask for the bus again (116-118), and the next round without a nack, whatever
   was on the bus in it, confirms the request (107-108).

One more difference was met in reading: the exception cause in rtl/src/rob.v:175 is
or-ed with `{5{wb_robid_en[i]}}` where an and is meant (the behavioural model stores
`wb_ecause`).

## 4. Proofs

The proofs hold for every value of the constants under the assumptions that the modules
name. Before an invariant was proved, TLC checked it on the instance of the run of its
component. None of the properties is inductive alone; what each proof adds is the
definition named after it, at the end of the component's module.

| module proved about | invariant | assumptions | theorems |
|---|---|---|---|
| `Rob` | `IInv` | `RingSize` (N at least 2), `KindsAssumption` | `RobProofs` |
| `RobWindow` | `IInv` | the same | `RobProofs` |
| `Exec` | `ExecInv` | the same, `ExecAssumption` | `ExecProofs` |
| `Rat` | `RatInv` | the same, `RatAssumption` | `FrontProofs` |
| `Trace` | `TraceInv` | the same | `FrontProofs` |
| `Fetch` | `FetchInv` | `FetchAssumption` | `FrontProofs` |
| `Lsq` | `LsqInv` | `LsqAssumption` | `LsqProofs` |
| `Dcache` | `DcInv` | `DcacheAssumption`, `NilAssumption` (that nothing is not something) | `DcacheProofs` |
| `Mem` | `WaitInv` with `StoreInv` | `DramAssumption`, `MemAssumption` (two caches), `NoneAssumption` | `MemProofs` |
| `HashSet`, `GraphBfs`, `Sim`, `VpiClock` | `TableInv` with `CountInv`; `BfsInv`, `PathInv`, `RankInv`, `LevelInv`, `ImageInv`; `ClockInv`, `DumpInv`; `VpiInv` | `HashSetAssumption`; `GraphBfsAssumption`; `ClockAssumption`, `DumpsAssumption`; none | `ProgramsProofs` |
| `BfsCore` | `BfsCoreInv` | `BfsCoreAssumption` (lines of at least two beats, an outgoing queue of at least two lines), `NodesAssumption` (the names of nodes differ) | `ProgramsProofs` |

**Ring pointers.** `CircPtrProofs`: taking the oldest entry or adding one at the
tail changes `Live` and `Age` as expected, `IsFull` means N entries, ages order the slots
(`AgeOrder`, `NthSlot`), and a pointer between head and tail cuts the ring into two parts
that a move of it changes by one slot (`TwoParts`, `MiddleMoves`): the retired stores of
the store queue, the answered entries of fetch.

**Reorder buffer.** `IInv` adds to the properties the facts that tie the latches to the ring:

* `RetireStage`: the retirement latch is a copy of the head entry, so a flush
  speaks about the oldest instruction;
* `RenameYoungest`: a valid rename holds the youngest entry, which is in no unit
  and not retiring, so a dispatch never doubles;
* `ForwardOwned`: the cycle rename takes on the bus belongs to a jalr that is in a
  unit, so the forwarded pass meets an unexecuted entry, inhibited;
* `CsrOldest`: the csr unit works for the head while nothing retires, so its not
  being cleared by a flush never matters;
* `RenameRobid` and `StoreMovesOn`: an idle rename's robid is the tail, and a
  store at the head has only just arrived: together they show that
  `rob_rename_ishead`, which ignores rename's valid bit, never holds back a store
  that has left rename, not even with a full ring.

The argument follows the clock edge: `InitInv`; `EdgeType`, that an edge preserves
types; `FlushEdge`, that one with `RobFlush` leads to an empty window; `OrdinaryEdge`,
one step per conjunct of `IInv` for one without; `StepInv` puts them together.
`OrdinaryWindow` says how head, tail and the set of occupied slots move in an edge without a
flush; the proofs of `Exec`, `Rat` and `Trace` stand on it.

**Refinement of the window** (`RobImplementsWindow`). Read from head to tail, the ring is a
queue: every edge adds, finishes, shows, removes or flushes what one step of `Window` does,
or does nothing to it.

**Execution.** `ExecInv` says that nothing is in two places of `Exec` (`PlacesDisjoint`), that every
place works for a result that `Rob` still expects (`PlacesAreDue`), that the station count never passes
its limit, and that the two registers that stretch a csr access are set only during one
(`StretchesAccess`). With it `ExecImplementsRob` is proved for every edge: what the bus, the
units and the stalls compute are inputs that an edge of `Rob` allows. The other direction, that everything
expected is in some place (`EveryResultHasAPlace`), needs that a csr access begins alone
(`CsrMeetsNobody`, `AccessStartsAlone`) so that its result meets no other one in wb.v. That
is true unless an access waits for the l2 fifo: `ResultsKeepTheirPlacesUnlessL2` has this
hypothesis (`NoL2Access`), which is exactly the cause that `csr_loss` shows, and
`ResultsKeepTheirPlaces` concludes it from the constants when the programs make no such access.

**Renaming.** `RatInv` says that the tag of a register names its youngest writer in flight, with
the value there once its result has been delivered (`TableFollows`), and that every operand is, or waits
for, the value that program order gives it (`OperandsFollow`); `JalrIsLast` and `CsrIsFirst` say where the
instructions stand that take their operands by a way of their own. From it follow
`WaitersAreServed`, that a waiting operand's producer is older and its result still due;
`CsrOperandIsReady`, that a csr access finds its operand when it begins; and
`RenamingIsInvisible`, that what retires has worked with the value that program order gives its
source, for every register but x0. For x0, `OperandsFollowProgramOrder` and `ZeroIsZeroUnlessLoaded` need that no
load to x0 is in flight with a reader of x0 (`ZeroUndisturbed`): the hypothesis is exactly the cause
that `x0_load` shows. `RatImplementsRob`: renaming changes nothing of the window.

**Load/store queue.** `LsqInv` relates both queues to the history of program order: the entries in use are
the instructions that have not retired, the matrices hold their order, the store ring is theirs from
mid on and holds retired stores before (`StoreRing`, `QueuesFollow`), and the goal of a load is
what the youngest older store to its word has, or memory if there is none (`GoalsFollow`, by
`IsValue`; `ArchFollows` says the same of the memory of program order). Only loads without an
older store that may conflict are sent, so memory, with retired stores still to be written, has
their value when the cache performs them (`AskedFollow`). A flush leaves the
retired stores only. The steps are `LoadFlags`, `LoadData`, `StoreFlags`, `StoreData`, `AgesMove` and
`ProgMoves`, one for each part of the edge.

**Data cache.** `DcInv` holds up to the first of the five steps of `dcfault`, for every number of lines, ways,
beats and load queue entries, every depth of the fifo, and writes without bound. Its parts:

* `MissIsServed`, `RequestsFit`: a miss is once in the fifo, then answered, then all there; the
  requests of the register are for words that have not come;
* `LinesAreOnce`: a line is in one way or in the register; when the way becomes valid the last
  beat is there or about to be (`Late`);
* `MaskIsOfStores`: the mask has every store that follows the read in the fifo, so nothing that
  comes overwrites a store; and the way still has its old line only while a merged store waits in stage 0;
* `MemoryIsSeen`, `InvIsCurrent`: behind the stores in the fifo memory has a version that may be
  returned (`Newest`), and an invalidation that waits speaks of memory as it is;
* `WaysAreGood`, `BufferIsGood`: what a valid way has when the write in stage 1 is done, what comes
  for the words that a refill lacks, and what has come may be returned, or stage 0 holds the
  store or invalidation that is going to change it;
* `PlacesAreOne`, `LoadsGetTheirs`: a load is in one place, and what it is going to read there is in its goal.

The clock edge is first taken apart: what the control signals imply (`MissControl`, `HitControl`,
`LoadControl`), then what each block does under them (the lemmas `...Moves`), then one lemma for each part of the
invariant (`EdgeType` to `EdgeLoads`). This is where each of the five steps is needed not to happen (`NoFaults`).
`LoadsCoherent` and `LoadsInOnePlace` follow.

**Test bench.** `TraceInv` says of every occupied slot what its entry must
hold by now (`TraceFollows`), and that a csr access outside rename is the oldest
instruction (`CsrIsOldest`), so that csr.v never writes into the entry of another. Both orders of
the Verilog blocks are covered.

**Fetch.** `FetchInv` counts positions from the head of the buffer: first entries that are answered, then
those asked for, which the two stages of the instruction cache hold in order. Every entry and
the pc follow from the entry before it (`FollowedBy`), an open one counted as not jumping until
its word and the prediction are known; the outcomes from the head on are the speculative
history. A jalr halts fetch with entries behind it whose answers never count. An edge without a flush is proved
position by position (`EntryTypes`, `RingInParts`, `LatchesAreLast`, then `PathIsFollowed` and `HistoryFollows`), one with a flush
leads to the empty buffer. `OffersThePath` and `HistoryIsOfThePath` need nothing of the program in memory.

**Hash set.** The heart of `TableInv` is `ProbeChains`, that no slot between a value's first slot and its own is
free, and `ProbePassed`, that the running probe has seen only taken slots and not its
value: a free slot then means that the value is absent (`FreeMeansAbsent`), so an
insertion makes no duplicate. Hence the table implements `ValueSet`, and `size` and `elems` count
the slots in use. `MetadataAligned` is the arithmetic of the padding of `create_hashset`.

**Reference search.** `BfsInv` says that whatever is reachable is visited or behind a neighbour that waits in
the ring (`NothingMissed`) and that nothing else gets in (`OnlyReachable`); `PathInv`
follows parents back to the start. Reachability is defined by closed sets of nodes, so
no induction is needed. Without an overrun of the ring a node is found exactly if it is reachable;
with or without one, what is printed is a path. `RankInv`: nodes can be ranked in the order of their
expansion, so the way back meets none twice and fits into its array. `LevelInv`: unless the ring overruns it holds
slots of level L, then of level L + 1, and the level of a node is that of its first slot though copies of it
follow, so its parent is on the level below. `PathShortest` compares this with `Ball`, whose equation is
shown to have a solution with a least counterexample (`StepsExist`). `ImageCorrect` decodes the image of every graph.

**Simulator.** The DRAM's two clocks keep time for every cycle length, period and initial junk for
which `ClockAssumption` holds: the cycle and the period together stay below the width of the
accumulator, so that it never wraps. `DumpInv` says which events of the dump are past and which is due;
that the ranges are in order once they have been accepted (`AcceptedAreSorted`) needs an induction, which is done
with a least counterexample (`LeastNumber`), since the library's induction theorems take operators.

**Accelerator.** `NodesAreSearched` counts the places of one node and says nothing of how a row may
move. `BfsCoreInv` says that, up to the first of the three steps of `bfsFault`, for every length of the queues, of
the lines, of the search and every number of requests the cache may hold:

* `RowsAreLive`: between the pointers of the outgoing queue every row is full, the one at the tail has
  at most a first node, all others are empty, and one is free: so a row that is not dropped
  never lands on another, and `OutEmpty`, which looks at the first place only, is right;
* `SearchStarts`: nothing is queued outside a search, so the reset of the queues loses nothing;
* `LineIsLongEnough`: as long as neighbors are added, the line that has them is the one being answered
  and has that many left;
* `Spills`: a spill that has begun finds a full row for each beat that its line lacks, so it cannot
  write half a row; the line being written exists only then;
* `Restores`: reading back begins only when nothing is queued or asked for, has the only request there is, and
  the incoming queue has at most the beats that have come, so it has room for the next;
* `SpecialIsOnce`: the places of the node are one place if it is open and none if not.

An edge is taken apart like the code: which spots of a row, of a queue of rows, of the ring, of the
lines and of the requests are the node's, and what taking from or adding to each does to them (`PopSpots`, `QueueSpots`,
`RowsFlow`, `OutStep`, `WrittenSpots`, `ReadSpots`, `DueFlows`); then which of these moves the limits and the
states of the machines let happen in one edge of a running search (`RunMain` to `RunDue`). `RunPlace` puts them
together: the node leaves one part exactly if it enters another. `RunTypes` to `RunRestores` are the other
parts of the invariant, and the `Quiet...` lemmas the edges outside a search. The fault *overflow* is the row that meets a
full queue, *gap* what breaks `LineIsLongEnough`, *late* what breaks `SearchStarts`.

**Level-2 caches.** `WaitInv`, defined in `MemProofs`, is behind `EveryWaitHasAnAnswer`: up to the first fault,

* `RequestsFollow`: a cache has a request exactly if its access waits without a tag, and it is the
  one the access makes; one that waits under a tag waits for a read, with the tag before `rtag`;
* `RoundIsOf`: a command on the bus is the request or the flush that its cache remembers as sent
  (for a request in both directions, if the cache was not nacked), and rom
  and the controller hold what they ask the bus for;
* `AnswersCome`: of each of the eight tags of a cache. A tag that is waited for, or whose read
  has just been heard, has an answer in one of the places of `AnswersFor`; for a line of ram there is only one, for
  a line of rom none of the DRAM's. Any other has at most what is left over: the second answer for a line
  of rom, or the flush that came with an upgrade. `LeftInRom`, `LeftInFlush` and `LeftInRound` say
  how many requests ago that tag was (`Lag`), whose turn it is and what the access still has to do:
  nothing is left of a tag when it is used again, eight requests later.

The last part is what the order of the bus is for: without `turn` the other cache could send request after
request before the flush of the first, until its tag comes round. The proof treats the two halves of a
round apart: where an answer is created (`DramHears`, `RomHears`, a flush) for the request on the bus, how
each place hands it on to the next, and that no step puts one under a tag that is not on the bus. It
does not cover a cache whose read was nacked or not heard (`hurt`), as the property does not: that a nack is
forgotten is the finding of the run mem_lost. TLC checked the parts of `WaitInv` on the instance of the run,
to the end for four accesses and by simulation for thirty, before they were proved.

`StoreInv`, in the same module, is behind `CopiesAreLatest`. That property speaks about copies and memory only;
what makes a step keep it is what is between them, so the invariant follows each line through the system:

* `WaysFollow`: only lines of ram are in state M; an eviction has its line in M until its flush is
  scheduled, an upgrade has the line in S, a store in the banks has it in M;
* `SentOnce`: what is on the bus has the data of the request or the flush that was sent, and the controller
  has taken the flush of a line of ram by the end of its round;
* `OneOf`, for each line of ram: at most one answer is under way for it (in the controller, a read of the
  library, a finished read, a flush for another cache, the round of the bus); whoever it is for waits
  for it or is just being told (`Expected`); and no cache has the line meanwhile, but the
  giver of a flush, in S, if the other one only reads (`Held`);
* `Exclusive`: a line in M is in one cache; an upgrade that was not nacked finds the line
  in no other cache and nothing under way for it;
* `DataIsLatest`: copies, flushes, fills and finished reads have the last store of their line;
* `Library`: the data of the writes are under tags of their own, and no read of a line is ahead of a write to it;
* `MemoryFollows`: a line of ram that no cache has in M and nobody gives away is in memory, or in the last write on its
  way there (`RamLine`); so is one that is being read, and one whose eviction has been flushed;
* `FlushesFirst`: a cache may give a line to one that writes while its own flush of that line waits for
  the bus. That flush has what will be old data, so it must be in memory before the new
  owner's. `Handing` and `Handed` count the beats that each still has to send: the
  owner first has to have its fill, store, miss and send a whole line again, and the old flush, with at most two
  beats left when the first is ready, is granted before;
* `RomAnswers`: who waits under the tag of an answer for rom asked for that line, although there may be two such answers.

`StoreInv` is not inductive alone: that an answer for a tag finds the access that asked for it is what
`WaitInv` proves, and `StoreInvariance` proves the two together. The steps are taken
one kind at a time (`CacheStore`, `TickStore`, `FirstStore`, `SecondStore`), and in the two halves of a round
one part at a time. TLC checked `StoreInv` on the instance of the run before it was proved. Like the
property, the theorem ends at the first fault; it does cover the caches in `hurt`, which
`WaitInv` leaves out.

**Only model-checked:** liveness, since leads-to under fairness is outside the prover's reach.

## 5. Not modelled

* Instruction encodings, immediates, addresses, exception causes, the counters and
  the uart of csr.v: the control does not branch on them.
* `alu_simple.v`, `mul.v`, `div.v`: functions of two words. What their loops compute for
  every operand is an induction over data.
* The table of counters of `brpred.v`: a prediction is any, which is all that the path and its
  history rest on. `Fetch` and `Rob` meet only at decode's latch, where `Rob` lets fetch offer
  anything, so no property of the window rests on fetch; they are not composed.
* `fifo.v`, `l2bank.v`: fifos and banks appear as sequences and arrays of the modules
  that use them.
* Of the accelerator, the registers for root, target, queue and result as such, of which `sw_queue_size` is
  read by nothing: memory for the queue has no bound in the model either. `bfs_cache.v` and `testbenches/` are
  a bench of their own.
* In Dcache: the bursts of lbcmp, lru bits, accesses that pmacheck.v refuses, and those
  below a word. In Mem: sets and ways beyond one, the whole-line write (OP_WR64), the slot
  for a second flush.
* In the test bench: logs, the operands and data that lsq.v reports late, the
  histograms of its queues. `vpi_user.h` is the simulator's interface, DRAMsim3 a
  library; the gate library and the gate-level twin describe the same modules again.
* Programs under `tests/` and the scripts that compare the core with Spike: inputs and
  observers of the design.

## 6. Plan

1. `Lsq` over `Dcache` in the place of its contract, and `Dcache` over `Mem`: the lines
   that the level-2 cache evicts without telling (l2tag.v:315) show only there.
2. The second flush of l2data.v and the whole-line write, in `Mem`.
