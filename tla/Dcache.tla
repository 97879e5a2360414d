------------------------------- MODULE Dcache -------------------------------
(***************************************************************************)
(* The data cache (dcache.v).  Stage 0 looks an access up, merges it into  *)
(* the one miss register or waits for it; stage 1 reads or writes the      *)
(* data; stage 2 answers.  Stores go to the level-2 cache as well, and     *)
(* refills, beat by beat, and invalidations come from there.               *)
(*                                                                         *)
(* CacheEdge is the clock edge; rv is l2_resp_valid.  The level-2 cache    *)
(* moves between edges: it takes what is in its fifo in order, reads a     *)
(* line at once, and tells of every line that another bus master writes.   *)
(*                                                                         *)
(* All lines are of one set.  Accesses are whole words, which pmacheck.v   *)
(* accepts; lbcmp, which reads four beats, is left out.  A refill goes to  *)
(* any invalid way, or to any way: lru bits are left out.                  *)
(***************************************************************************)
EXTENDS Integers, Sequences, FiniteSets

CONSTANTS
  CLines,     \* the lines, all of one set
  Ways,       \* 4
  Beats,      \* 64-bit words of a line, 8
  Ids,        \* entries of the load queue, 16
  FifoDepth,  \* of l2fifo.v, 8
  MaxWrites,  \* bound: stores and writes by other masters together
  Nil         \* nothing

ASSUME DcacheAssumption ==
  Beats \in Nat \ {0} /\ FifoDepth \in Nat \ {0} /\ MaxWrites \in Nat

CWords  == 0 .. 2 * Beats - 1     \* the 32-bit words of a line
Beat(w) == w \div 2

\* A word of data tells where it belongs and which write it is from.
DataWord(l, w, v) == <<l, w, v>>
DataWords == (CLines \cup {Nil}) \X CWords \X Nat

\* What the stages, the level-2 cache and its fifos hold, if anything.
Requests0 == [req : BOOLEAN, kind : {"load", "store", "inv"}, line : CLines \cup {Nil},
              word : CWords, id : Ids \cup {Nil}, ver : Nat]
Reads1    == [forward : BOOLEAN, way : Ways \cup {Nil}, word : CWords, id : Ids]
Writes1   == [way : Ways, words : SUBSET CWords, data : [CWords -> DataWords]]
Answers2  == [id : Ids, data : DataWords]
FifoReqs  == [read : BOOLEAN, line : CLines, word : CWords, ver : Nat]
Responses == [line : CLines, beat : 0 .. Beats - 1, vers : [CWords -> Nat]]
Invs      == [line : CLines, from : [CWords -> Nat]]
ASSUME NilAssumption ==
  Nil \notin Ids \cup Requests0 \cup Reads1 \cup Writes1 \cup Answers2 \cup Responses \cup Invs

VARIABLES
  s0,        \* stage 0: s0_req_r, what it is ("load", "store", "inv") and its fields
  s1, s1w,   \* stage 1: what is read, and what is written
  s2,        \* stage 2: the answer
  tagmem, datamem,
  mshr,      \* the miss register
  rbuf,      \* refill data; how many beats are in rbuf_valid and in rbuf_filled
  \* the level-2 cache
  l2q,       \* l2fifo.v
  l2mem,     \* the version of each word
  resp,      \* the line it sends, and the beat that comes next
  inv,       \* head of invfifo: the line, and its versions after the other's write
  \* history
  writes,    \* writes so far; a version is the number of a write
  seen,      \* the versions of a word that a load accepted now may return
  goal,      \* what each load may return
  dcfault    \* what has gone wrong (see the end)

dcVars  == <<s0, s1, s1w, s2, tagmem, datamem, mshr, rbuf>>
l2Vars  == <<l2q, l2mem, resp, inv>>
dcHist  == <<writes, seen, goal, dcfault>>
allDc   == <<dcVars, l2Vars, dcHist>>

Unread == <<Nil, 0, 0>>
NoData == [x \in CWords |-> Unread]

\* An empty stage 0 still has an op: only whether it is a load matters.
NoReq(kind) == [req |-> FALSE, kind |-> kind, line |-> Nil, word |-> 0, id |-> Nil, ver |-> 0]
NoMiss == [valid |-> FALSE, obsolete |-> FALSE, line |-> Nil, way |-> Nil,
           reqs |-> [x \in CWords |-> Nil], wen |-> FALSE, wmask |-> {}]
EmptyBuffer == [started |-> FALSE, got |-> 0, filled |-> 0, data |-> NoData]

DcInit ==
  /\ s0 = NoReq("load") /\ s1 = Nil /\ s1w = Nil /\ s2 = Nil
  /\ tagmem = [w \in Ways |-> [valid |-> FALSE, line |-> Nil]]
  /\ datamem = [w \in Ways |-> NoData]
  /\ mshr = NoMiss /\ rbuf = EmptyBuffer
  /\ l2q = << >> /\ l2mem = [l \in CLines |-> [x \in CWords |-> 0]]
  /\ resp = Nil /\ inv = Nil
  /\ writes = 0 /\ seen = [l \in CLines |-> [x \in CWords |-> {0}]]
  /\ goal = [i \in Ids |-> {}] /\ dcfault = {}

-----------------------------------------------------------------------------
(* Stage 0: the look-up *)

Is(kind) == s0.req /\ s0.kind = kind
MshrHit  == mshr.valid /\ mshr.line = s0.line
TagHits  == {w \in Ways : tagmem[w].valid /\ tagmem[w].line = s0.line}
TagMiss  == TagHits = {}
FifoHasRoom == Len(l2q) < FifoDepth     \* l2fifo_dc_ready

\* A beat that has arrived answers, unless a store has been merged into the miss.
\* (The first definition is a mutant: it answers all the same.)
RdForward_Merged == Is("load") /\ MshrHit /\ Beat(s0.word) < rbuf.got
RdForward == Is("load") /\ MshrHit /\ ~mshr.wen /\ Beat(s0.word) < rbuf.got
RdMerge(rv) ==
  /\ Is("load") /\ MshrHit /\ ~mshr.wen /\ Beat(s0.word) >= rbuf.got
  /\ ~rv /\ ~rbuf.started /\ mshr.reqs[s0.word] = Nil /\ ~mshr.obsolete
WrMerge == Is("store") /\ MshrHit /\ Beat(s0.word) >= rbuf.filled
Alloc   == Is("load") /\ TagMiss /\ FifoHasRoom /\ ~mshr.valid

\* The loads that a beat answers, one per cycle; none of before a flush.
\* (The first definition is a mutant: a beat that two loads wait for goes with the first.)
BeatDone_Always == TRUE
FwdValid(h) == ~mshr.obsolete /\ mshr.reqs[h] # Nil
BeatDone   == ~(FwdValid(0) /\ FwdValid(1))
S1Stall(rv) == s1 # Nil /\ rv /\ (FwdValid(0) \/ FwdValid(1))

S0Stall(rv) ==
  \/ Is("inv") /\ MshrHit
  \/ Is("load") /\ MshrHit /\ (~RdForward \/ S1Stall(rv)) /\ ~RdMerge(rv)
  \/ Is("load") /\ ~MshrHit /\ TagMiss /\ (~FifoHasRoom \/ mshr.valid)
  \/ Is("load") /\ ~MshrHit /\ ~TagMiss /\ S1Stall(rv)
  \/ Is("store") /\ (~FifoHasRoom \/ (MshrHit /\ ~WrMerge))

\* A flush clears the stage by its op, whatever comes in.
Stage0(lsq, flush, rv) ==
  s0' = IF flush /\ s0.kind = "load" THEN NoReq("load")
        ELSE IF S0Stall(rv) THEN s0
        ELSE IF inv # Nil THEN [NoReq("inv") EXCEPT !.req = TRUE, !.line = inv.line]
        ELSE IF lsq # Nil THEN lsq
        ELSE NoReq(IF s0.kind = "inv" THEN "store" ELSE s0.kind)

\* dcache_l2fifo_req
Request ==
  l2q' = IF Alloc THEN Append(l2q, [read |-> TRUE, line |-> s0.line, word |-> 0, ver |-> 0])
         ELSE IF Is("store") /\ FifoHasRoom /\ (~MshrHit \/ WrMerge)
         THEN Append(l2q, [read |-> FALSE, line |-> s0.line, word |-> s0.word, ver |-> s0.ver])
         ELSE l2q

-----------------------------------------------------------------------------
(* Stages 1 and 2 *)

HitWay == CHOOSE w \in TagHits : TRUE

Stage1(flush, rv) ==
  s1' = IF flush THEN Nil
        ELSE IF S1Stall(rv) THEN s1
        ELSE IF RdForward THEN [forward |-> TRUE, way |-> Nil, word |-> s0.word, id |-> s0.id]
        ELSE IF Is("load") /\ ~MshrHit /\ ~TagMiss
        THEN [forward |-> FALSE, way |-> HitWay, word |-> s0.word, id |-> s0.id]
        ELSE Nil

\* A store writes the way it hits or the way of the refill; it goes before a refill.
Wen == Is("store") /\ FifoHasRoom /\ (~TagMiss \/ WrMerge)
FillWen  == rbuf.filled < rbuf.got
FillDone == FillWen /\ rbuf.filled = Beats - 1
FillMoves(rv) == FillWen /\ (~Wen \/ S0Stall(rv))

WritePort ==
  s1w' = IF Wen
         THEN [way |-> IF MshrHit THEN mshr.way ELSE HitWay, words |-> {s0.word},
               data |-> [NoData EXCEPT ![s0.word] = DataWord(s0.line, s0.word, s0.ver)]]
         ELSE IF FillWen
         THEN LET ws == {w \in CWords : Beat(w) = rbuf.filled /\ w \notin mshr.wmask}
              IN [way |-> mshr.way, words |-> ws,
                  data |-> [x \in CWords |-> IF x \in ws THEN rbuf.data[x] ELSE Unread]]
         ELSE Nil

\* What nothing can read is dropped: the data of a way that is invalid, is not being
\* refilled and is not read by stage 1.
InUse(w) == tagmem'[w].valid \/ (mshr'.valid /\ mshr'.way = w) \/ (s1' # Nil /\ s1'.way = w)
DataMem ==
  datamem' = [w \in Ways |-> [x \in CWords |->
                IF ~InUse(w) THEN Unread
                ELSE IF s1w # Nil /\ s1w.way = w /\ x \in s1w.words THEN s1w.data[x]
                ELSE datamem[w][x]]]

\* The beat on l2_resp_rdata.
RespWord(h) == DataWord(resp.line, 2 * resp.beat + h, resp.vers[2 * resp.beat + h])
Stage2(flush, rv) ==
  s2' = IF flush THEN Nil
        ELSE IF rv /\ FwdValid(0) THEN [id |-> mshr.reqs[0], data |-> RespWord(0)]
        ELSE IF rv /\ FwdValid(1) THEN [id |-> mshr.reqs[1], data |-> RespWord(1)]
        ELSE IF s1 = Nil THEN Nil
        ELSE [id |-> s1.id, data |-> IF s1.forward THEN rbuf.data[s1.word] ELSE datamem[s1.way][s1.word]]

-----------------------------------------------------------------------------
(* The refill *)

\* The valid bit goes with the first beat and comes with the last.
TagMem(rv) ==
  tagmem' = IF FillDone THEN [tagmem EXCEPT ![mshr.way] = [valid |-> TRUE, line |-> mshr.line]]
            ELSE IF FillMoves(rv) THEN [tagmem EXCEPT ![mshr.way].valid = FALSE]
            ELSE IF Is("inv") /\ ~MshrHit
            THEN [w \in Ways |-> IF w \in TagHits THEN [tagmem[w] EXCEPT !.valid = FALSE] ELSE tagmem[w]]
            ELSE tagmem

AllocWays == LET invalid == {w \in Ways : ~tagmem[w].valid}
             IN IF invalid # {} THEN invalid ELSE Ways

NextReqs(rv) ==
  IF rv THEN IF BeatDone
             THEN [x \in CWords |-> IF x + 2 \in CWords THEN mshr.reqs[x + 2] ELSE Nil]
             ELSE [mshr.reqs EXCEPT ![0] = Nil]
  ELSE IF Alloc THEN [x \in CWords |-> IF x = s0.word THEN s0.id ELSE Nil]
  ELSE IF RdMerge(rv) THEN [mshr.reqs EXCEPT ![s0.word] = s0.id]
  ELSE mshr.reqs

Miss(flush, rv, way) ==
  [valid    |-> (mshr.valid \/ Alloc) /\ ~FillDone,
   obsolete |-> flush \/ (mshr.obsolete /\ ~Alloc),
   line     |-> IF Alloc THEN s0.line ELSE mshr.line,
   way      |-> way,
   reqs     |-> NextReqs(rv),
   wen      |-> IF Alloc THEN FALSE ELSE mshr.wen \/ WrMerge,
   wmask    |-> IF Alloc THEN {} ELSE mshr.wmask \cup IF WrMerge THEN {s0.word} ELSE {}]
Buffer(rv) ==
  LET beat == rv /\ BeatDone
  IN [started |-> beat \/ (rbuf.started /\ ~Alloc),
      got     |-> IF Alloc THEN 0 ELSE rbuf.got + IF beat THEN 1 ELSE 0,
      filled  |-> IF Alloc THEN 0 ELSE rbuf.filled + IF FillMoves(rv) THEN 1 ELSE 0,
      data    |-> [x \in CWords |-> IF beat /\ Beat(x) = rbuf.got THEN RespWord(x % 2)
                                    ELSE rbuf.data[x]]]

\* Of a free register with nothing left to fill, nothing is read but the data a load
\* in stage 1 is to get: the rest is dropped.
Refill(flush, rv) ==
  \E way \in IF Alloc THEN AllocWays ELSE {mshr.way} :
    LET m == Miss(flush, rv, way)
        b == Buffer(rv)
    IN IF m.valid \/ b.filled < b.got
       THEN mshr' = m /\ rbuf' = b
       ELSE /\ mshr' = NoMiss
            /\ rbuf' = [EmptyBuffer EXCEPT !.data = IF s1' # Nil /\ s1'.forward THEN b.data ELSE NoData]

-----------------------------------------------------------------------------
(* History *)

CacheHistory(lsq, flush, rv) ==
  LET load  == lsq # Nil /\ lsq.kind = "load"
      store == lsq # Nil /\ lsq.kind = "store"
  IN /\ writes' = IF store THEN writes + 1 ELSE writes
     /\ seen' = IF store THEN [seen EXCEPT ![lsq.line][lsq.word] = {lsq.ver}]
                ELSE IF inv # Nil /\ ~S0Stall(rv)
                THEN [seen EXCEPT ![inv.line] = [x \in CWords |-> {v \in @[x] : v >= inv.from[x]}]]
                ELSE seen
     /\ goal' = [i \in Ids |->
                   IF flush THEN {}
                   ELSE IF load /\ lsq.id = i
                   THEN {DataWord(lsq.line, lsq.word, v) : v \in seen[lsq.line][lsq.word]}
                   ELSE IF s2 # Nil /\ s2.id = i THEN {} ELSE goal[i]]

Cached(l) == (\E w \in Ways : tagmem[w].valid /\ tagmem[w].line = l) \/ (mshr.valid /\ mshr.line = l)

\* The steps after which this design, as it is written, no longer keeps its promises;
\* the properties speak of the behaviours without them.
\*   invalidation flushed:       it is accepted in the cycle in which a flush clears stage 0;
\*   invalidation meets refill:  the valid bit of its line is not written, for a refill
\*                               of another way is writing one;
\*   old line overwritten:       a store is merged into the way of a refill whose old line
\*                               is valid until the first beat;
\*   read overtaken:             the word that stage 1 waits to read is written;
\*   last beat late:             a store has held it up, the line is valid without it and the
\*                               miss register free, and one of them is used.
DcFaults(flush, rv) ==
     {f \in {"invalidation flushed"} :
        flush /\ s0.kind = "load" /\ inv # Nil /\ ~S0Stall(rv) /\ Cached(inv.line)}
\cup {f \in {"invalidation meets refill"} :
        Is("inv") /\ ~MshrHit /\ FillWen /\ ~TagMiss /\ TagHits # {mshr.way}}
\cup {f \in {"old line overwritten"} : WrMerge /\ FifoHasRoom /\ tagmem[mshr.way].valid}
\cup {f \in {"read overtaken"} :
        S1Stall(rv) /\ ~s1.forward /\ s1w # Nil /\ s1w.way = s1.way /\ s1.word \in s1w.words}
\cup {f \in {"last beat late"} :
        s0.req /\ ~mshr.valid /\ FillWen /\ (Alloc \/ s0.line = mshr.line)}

-----------------------------------------------------------------------------
(* The edge, and the level-2 cache *)

\* What lsq.v asks for: nothing in a flush, and no store to a word that a load is out for.
Asks == [req : {TRUE}, kind : {"load"}, line : CLines, word : CWords, ver : {0},
         id : {i \in Ids : goal[i] = {}}]
   \cup {r \in [req : {TRUE}, kind : {"store"}, line : CLines, word : CWords, id : {Nil},
                ver : IF writes < MaxWrites THEN {writes + 1} ELSE {}] :
           \A i \in Ids, v \in 0 .. writes : DataWord(r.line, r.word, v) \notin goal[i]}

CacheEdge(lsq, flush, rv) ==
  /\ Stage0(lsq, flush, rv) /\ Stage1(flush, rv) /\ WritePort /\ Stage2(flush, rv)
  /\ TagMem(rv) /\ Refill(flush, rv) /\ DataMem
  /\ Request
  /\ resp' = IF ~(rv /\ BeatDone) THEN resp
             ELSE IF resp.beat = Beats - 1 THEN Nil ELSE [resp EXCEPT !.beat = @ + 1]
  /\ inv' = IF S0Stall(rv) THEN inv ELSE Nil
  /\ UNCHANGED l2mem
  /\ CacheHistory(lsq, flush, rv) /\ dcfault' = dcfault \cup DcFaults(flush, rv)

CacheClock ==
  \E rv \in IF resp = Nil THEN {FALSE} ELSE BOOLEAN :
    \/ CacheEdge(Nil, FALSE, rv)
    \/ CacheEdge(Nil, TRUE, rv)
    \/ /\ ~S0Stall(rv) /\ inv = Nil     \* dcache_lsq_ready
       /\ \E lsq \in Asks : CacheEdge(lsq, FALSE, rv)

\* A request leaves the fifo; a line is read when the one before has been sent.
L2Takes ==
  /\ l2q # << >>
  /\ LET q == Head(l2q)
     IN \/ /\ q.read /\ resp = Nil
           /\ resp' = [line |-> q.line, beat |-> 0, vers |-> l2mem[q.line]]
           /\ UNCHANGED l2mem
        \/ /\ ~q.read
           /\ l2mem' = [l2mem EXCEPT ![q.line][q.word] = q.ver]
           /\ UNCHANGED resp
  /\ l2q' = Tail(l2q)
  /\ UNCHANGED <<dcVars, inv, dcHist>>

\* Another master writes a word, after this core's stores to the line and the last
\* invalidation (bounds of the model).
OtherWrites ==
  /\ writes < MaxWrites /\ inv = Nil
  /\ \E l \in CLines, x \in CWords :
       /\ ~(Is("store") /\ s0.line = l)
       /\ \A i \in DOMAIN l2q : l2q[i].read \/ l2q[i].line # l
       /\ l2mem' = [l2mem EXCEPT ![l][x] = writes + 1]
       /\ inv' = [line |-> l, from |-> l2mem'[l]]
       /\ seen' = [seen EXCEPT ![l][x] = @ \cup {writes + 1}]
       /\ goal' = [i \in Ids |-> IF \E v \in 0 .. writes : DataWord(l, x, v) \in goal[i]
                                  THEN goal[i] \cup {DataWord(l, x, writes + 1)} ELSE goal[i]]
  /\ writes' = writes + 1
  /\ UNCHANGED <<dcVars, l2q, resp, dcfault>>

DcNext == CacheClock \/ L2Takes \/ OtherWrites
DcSpec == DcInit /\ [][DcNext]_allDc
-----------------------------------------------------------------------------
(* Properties *)

\* An answer is what checkmem.py expects of a load: the word it asked for, as the last
\* store that was accepted before it left it, or as another master has written it since;
\* and once an invalidation has been accepted, nothing from before the other's write.
LoadsAreCoherent == dcfault = {} /\ s2 # Nil => s2.data \in goal[s2.id]

\* A load that was accepted is in exactly one place until it is answered, and a load
\* that was flushed is in none, so that no late answer finds a new load in its entry
\* (lsq.v:305), whatever the miss register and the stages still do for it.
InS0(i) == Is("load") /\ s0.id = i
InS1(i) == s1 # Nil /\ s1.id = i
InS2(i) == s2 # Nil /\ s2.id = i
InReqs(i, x) == ~mshr.obsolete /\ mshr.reqs[x] = i
Places(i) == {p \in {"s0"} : InS0(i)} \cup {p \in {"s1"} : InS1(i)} \cup {p \in {"s2"} : InS2(i)}
        \cup {x \in CWords : InReqs(i, x)}
LoadsAreInOnePlace ==
  dcfault = {} => \A i \in Ids : Cardinality(Places(i)) = IF goal[i] = {} THEN 0 ELSE 1
-----------------------------------------------------------------------------
(* The inductive invariant: why the properties above hold *)

DcTypeOK ==
  /\ s0 \in Requests0 /\ (s0.req => s0.line \in CLines) /\ (Is("load") => s0.id \in Ids)
  /\ s1 \in Reads1 \cup {Nil} /\ (s1 # Nil /\ ~s1.forward => s1.way \in Ways)
  /\ s1w \in Writes1 \cup {Nil}
  /\ s2 \in Answers2 \cup {Nil}
  /\ tagmem \in [Ways -> [valid : BOOLEAN, line : CLines \cup {Nil}]]
  /\ datamem \in [Ways -> [CWords -> DataWords]]
  /\ mshr \in [valid : BOOLEAN, obsolete : BOOLEAN, line : CLines \cup {Nil}, way : Ways \cup {Nil},
               reqs : [CWords -> Ids \cup {Nil}], wen : BOOLEAN, wmask : SUBSET CWords]
  /\ mshr.valid => mshr.line \in CLines /\ mshr.way \in Ways
  /\ rbuf \in [started : BOOLEAN, got : 0 .. Beats, filled : 0 .. Beats, data : [CWords -> DataWords]]
  /\ l2q \in Seq(FifoReqs)
  /\ l2mem \in [CLines -> [CWords -> Nat]]
  /\ resp \in Responses \cup {Nil} /\ inv \in Invs \cup {Nil}
  /\ writes \in Nat
  /\ seen \in [CLines -> [CWords -> SUBSET (0 .. writes)]]
  /\ goal \in [Ids -> SUBSET (CLines \X CWords \X (0 .. writes))]

\* The register of a miss is waiting in the fifo, being answered, or all there.
InFifo == {i \in DOMAIN l2q : l2q[i].read}
MissIsServed ==
  /\ rbuf.filled <= rbuf.got /\ (rbuf.started <=> rbuf.got > 0)
  /\ IF mshr.valid
     THEN \/ /\ \E i \in InFifo : InFifo = {i} /\ l2q[i].line = mshr.line
             /\ resp = Nil /\ rbuf.got = 0
          \/ InFifo = {} /\ resp # Nil /\ resp.line = mshr.line /\ resp.beat = rbuf.got
          \/ InFifo = {} /\ resp = Nil /\ rbuf.got = Beats
     ELSE InFifo = {} /\ resp = Nil

\* The requests of the register are for the words that have not come.
Late == ~mshr.valid /\ rbuf.filled < rbuf.got
RequestsFit ==
  \A x \in CWords : mshr.reqs[x] # Nil => mshr.valid /\ 2 * rbuf.got + x \in CWords

\* A line is in one way or in the register; only its last beat may be missing when
\* the way becomes valid; and the first beat has made the way invalid.
LinesAreOnce ==
  /\ \A w \in Ways : tagmem[w].valid => tagmem[w].line \in CLines
  /\ \A w, v \in Ways : tagmem[w].valid /\ tagmem[v].valid /\ tagmem[w].line = tagmem[v].line => w = v
  /\ mshr.valid => /\ \A w \in Ways : tagmem[w].valid => tagmem[w].line # mshr.line
                   /\ rbuf.filled > 0 => ~tagmem[mshr.way].valid
  /\ Late => /\ rbuf.got = Beats /\ rbuf.filled = Beats - 1
             /\ mshr.way \in Ways /\ mshr.line \in CLines
             /\ tagmem[mshr.way] = [valid |-> TRUE, line |-> mshr.line]

\* The words that are masked are those of stores merged into the miss: all the stores to
\* the line behind the read in the fifo, and, as long as the way has its old line, only
\* one that still waits in stage 0.
MaskIsOfStores ==
  mshr.valid =>
    /\ ~mshr.wen => mshr.wmask = {}
    /\ \A i, j \in DOMAIN l2q : l2q[i].read /\ i < j /\ l2q[j].line = mshr.line => l2q[j].word \in mshr.wmask
    /\ tagmem[mshr.way].valid => \A x \in mshr.wmask : Is("store") /\ s0.line = mshr.line /\ s0.word = x

\* The version of a word that the level-2 cache will have when the fifo is empty.
StoresTo(l, x) == {i \in DOMAIN l2q : ~l2q[i].read /\ l2q[i].line = l /\ l2q[i].word = x}
Newest(l, x) ==
  IF StoresTo(l, x) = {} THEN {l2mem[l][x]}
  ELSE {l2q[i].ver : i \in {j \in StoresTo(l, x) : \A k \in StoresTo(l, x) : k <= j}}

\* What memory has, and what a store in stage 0 brings, may be returned.
MemoryIsSeen ==
  /\ \A l \in CLines, x \in CWords :
       /\ seen[l][x] # {}
       /\ ~(Is("store") /\ s0.line = l /\ s0.word = x) =>
            Newest(l, x) \subseteq seen[l][x]
       /\ l2mem[l][x] <= writes
  /\ Is("store") => s0.ver \in seen[s0.line][s0.word]
  /\ \A i \in DOMAIN l2q : l2q[i].ver <= writes

\* An invalidation that has not been accepted speaks of memory as it is.
InvIsCurrent ==
  inv # Nil => /\ inv.from = l2mem[inv.line]
               /\ ~(Is("store") /\ s0.line = inv.line)
               /\ \A i \in DOMAIN l2q : l2q[i].read \/ l2q[i].line # inv.line

\* Loads are in one place.
PlacesAreOne ==
  \A i \in Ids :
    /\ goal[i] # {} <=> InS0(i) \/ InS1(i) \/ InS2(i) \/ \E x \in CWords : InReqs(i, x)
    /\ InS0(i) => ~InS1(i) /\ ~InS2(i)
    /\ InS1(i) => ~InS2(i)
    /\ \A x \in CWords : InReqs(i, x) =>
         /\ ~InS0(i) /\ ~InS1(i) /\ ~InS2(i)
         /\ \A y \in CWords : InReqs(i, y) => x = y

\* What a word may be, and whether stage 0 is just about to change what is kept of it.
Allowed(l, x) == {DataWord(l, x, v) : v \in seen[l][x]}
Changing(l, x) == s0.req /\ s0.line = l /\ (s0.kind = "inv" \/ (s0.kind = "store" /\ s0.word = x))
Good(l, x, d) == Changing(l, x) \/ d \in Allowed(l, x)

\* What a way has when the write in stage 1 is done, and what comes for a word.
Kept(w, x) == IF s1w # Nil /\ s1w.way = w /\ x \in s1w.words THEN s1w.data[x] ELSE datamem[w][x]
Coming(x) ==
  IF Beat(x) < rbuf.got THEN {rbuf.data[x]}
  ELSE IF resp # Nil THEN {DataWord(mshr.line, x, resp.vers[x])}
  ELSE {DataWord(mshr.line, x, v) : v \in Newest(mshr.line, x)}

\* The ways hold what loads may return, and so does what a refill will write.
Filling  == mshr.valid \/ Late
Lacks(x) == Beat(x) >= rbuf.filled /\ x \notin mshr.wmask
WaysAreGood ==
  /\ \A w \in Ways, x \in CWords :
       tagmem[w].valid /\ ~(Filling /\ w = mshr.way /\ tagmem[w].line = mshr.line) =>
         Good(tagmem[w].line, x, Kept(w, x))
  /\ Filling => \A x \in CWords :
       IF Lacks(x) THEN \A d \in Coming(x) : Good(mshr.line, x, d)
       ELSE Good(mshr.line, x, Kept(mshr.way, x))

\* As long as no store has been merged, the beats that have come are good as well.
BufferIsGood ==
  mshr.valid /\ ~mshr.wen =>
    \A x \in CWords : Beat(x) < rbuf.got => Good(mshr.line, x, rbuf.data[x])

\* Every load is going to read what it may return.
LoadsGetTheirs ==
  /\ Is("load") => Allowed(s0.line, s0.word) \subseteq goal[s0.id]
  /\ s1 # Nil /\ ~s1.forward => datamem[s1.way][s1.word] \in goal[s1.id]
  /\ s1 # Nil /\ s1.forward => /\ rbuf.data[s1.word] \in goal[s1.id]
                               /\ mshr.valid => Beat(s1.word) < rbuf.got
  /\ s2 # Nil => s2.data \in goal[s2.id]
  /\ \A x, w \in CWords : mshr.reqs[x] # Nil /\ ~mshr.obsolete /\ w = 2 * rbuf.got + x =>
       /\ w \notin mshr.wmask /\ Coming(w) \subseteq goal[mshr.reqs[x]]
       /\ \E v \in 0 .. writes : DataWord(mshr.line, w, v) \in goal[mshr.reqs[x]]
  /\ Is("store") => \A i \in Ids, v \in 0 .. writes : DataWord(s0.line, s0.word, v) \notin goal[i]

DcInv ==
  dcfault = {} =>
    /\ DcTypeOK
    /\ MissIsServed
    /\ RequestsFit
    /\ LinesAreOnce
    /\ MaskIsOfStores
    /\ MemoryIsSeen
    /\ InvIsCurrent
    /\ PlacesAreOne
    /\ WaysAreGood
    /\ BufferIsGood
    /\ LoadsGetTheirs
=============================================================================
