------------------------------ MODULE BfsCore ------------------------------
(***************************************************************************)
(* The bfs accelerator: its core (bfs_core.v), which asks the level-2      *)
(* cache to mark a node and puts the neighbors of a node that was not yet  *)
(* marked into a queue, and that queue (bfs_queue.v): a main part, which   *)
(* both ends use first (queue_main.v), an outgoing part for what does not  *)
(* fit (queue_out.v), an incoming one (queue_main.v), and lines of memory  *)
(* between those two when both are full.                                   *)
(*                                                                         *)
(* BfsEdge is the clock edge.  Its inputs are whether the level-2 cache    *)
(* takes a request and whether it sends a beat of the line it owes first,  *)
(* and what that beat says.  The cache answers in order; a write has no    *)
(* answer and is in memory at once.                                        *)
(*                                                                         *)
(* The unit of data is a node.  The queue only moves nodes about, so one   *)
(* of them, Special, is told apart and the others are alike.               *)
(***************************************************************************)
EXTENDS Integers, Sequences, FiniteSets

CONSTANTS
  LineBeats,   \* beats of a line, 8; each is a header or two nodes
  MainRows,    \* rows of the main queue, 16
  BufRows,     \* rows of the outgoing and of the incoming queue, 16
  MaxAsked,    \* requests the cache holds, 3
  MaxMarks,    \* bound: nodes that a search finds unmarked
  Plain, Special, NoNode   \* a node, the node told apart, a place without a valid bit

ASSUME BfsCoreAssumption ==
  /\ LineBeats \in Nat \ {0, 1} /\ MainRows \in Nat \ {0} /\ MaxAsked \in Nat \ {0}
  /\ BufRows \in Nat /\ BufRows >= 2 * LineBeats
  /\ MaxMarks \in Nat
ASSUME NodesAssumption == Plain # Special /\ NoNode \notin {Plain, Special}

OutRing == INSTANCE CircPtr WITH N <- BufRows

VARIABLES
  \* bfs_core.v
  bstate, neighCt, bfound, dcBeat,
  \* queues: rows of one or two nodes in the order in which they leave
  mainQ, inQ,
  outHead, outTail, outRow,   \* pointers with polarity; the row's two places
  qstate, ct,
  \* memory from swq_head to swq_tail, the line being written; the level-2 cache
  swq, line, asked,
  \* history
  special,     \* "unseen", "open" or "answered" in this search
  marks,       \* nodes found unmarked in this search
  bfsFault     \* what has gone wrong (see the end), or "none"

coreRegs    == <<bstate, neighCt, bfound, dcBeat>>
queueRegs   == <<mainQ, inQ, outHead, outTail, outRow, qstate, ct>>
bfsCoreVars   == <<coreRegs, queueRegs, swq, line, asked, special, marks, bfsFault>>

Empty == [s \in OutRing!Slots |-> <<NoNode, NoNode>>]

Reset ==
  /\ bstate = "IDLE" /\ neighCt = 0 /\ bfound = FALSE /\ dcBeat = 0
  /\ mainQ = << >> /\ inQ = << >>
  /\ outHead = 0 /\ outTail = 0 /\ outRow = Empty
  /\ qstate = "CORE" /\ ct = 0
  /\ swq = << >> /\ line = << >> /\ asked = << >>
  /\ special = "unseen" /\ marks = 0

BfsCoreInit == Reset /\ bfsFault = "none"

-----------------------------------------------------------------------------
(* What the queues say before the edge *)

MainFull  == Len(mainQ) = MainRows
InFull    == Len(inQ) = BufRows
Active    == bstate \in {"NODE_HEADER", "ADD_NEIGHS"}
RbufEmpty == asked = << >>              \* dc_rbuf_empty

HeadRow    == outRow[OutRing!Idx(outHead)]
TailRow    == outRow[OutRing!Idx(outTail)]
OutEmpty   == HeadRow[1] = NoNode
OutFilled  == HeadRow[2] # NoNode
TailSingle == TailRow[1] # NoNode
\* One row early: the pointers' polarities are not compared.
OutFull    == OutRing!Idx(OutRing!Inc(outTail)) = OutRing!Idx(outHead)

\* queue_sat: a line's worth of rows.
Eight  == (outHead + LineBeats) % (2 * BufRows)
Pol(p) == p >= BufRows
OutSat == (OutRing!Idx(Eight) <= OutRing!Idx(outTail)) # (Pol(Eight) # Pol(outTail))

\* (The first definition is a mutant: it does not wait for the answers that are due.)
Pend_NotIdle == Active /\ inQ = << >> /\ mainQ = << >> /\ OutEmpty
PendEmpty == Active /\ inQ = << >> /\ mainQ = << >> /\ OutEmpty /\ RbufEmpty
\* The last row of the outgoing queue has one node.
\* (The first definition is a mutant: such a row waits for a second node.)
SingleFinal_Never == FALSE
SingleFinal == RbufEmpty /\ inQ = << >> /\ mainQ = << >> /\ ~OutFilled /\ ~OutEmpty

SpillReq == qstate \in {"INIT_SPILL", "INIT_RESTORE", "SPILL"}
DeqReq(ready) == (mainQ # << >> \/ inQ # << >>) /\ ready /\ ~SpillReq
Dequeued == IF mainQ # << >> THEN Head(mainQ)[1] ELSE Head(inQ)[1]

-----------------------------------------------------------------------------
(* The edge.  b is the beat, a record:                                     *)
(*   kind  "none", "mark" or "rd"                                          *)
(*   new   in the first beat of a mark, that the node was not marked;      *)
(*   hit   and that it has the value looked for;  n  its neighbors;        *)
(*   data  the nodes of a later beat, low word first                       *)

Header(b) == b.kind = "mark" /\ dcBeat = 0 /\ b.new
Hit(b)    == Header(b) /\ b.hit

\* Core: what it enqueues, low word first.
Enq(root, b) ==
  CASE bstate = "INIT"       -> <<root>>
    [] bstate = "ADD_NEIGHS" -> IF neighCt > 1 THEN b.data ELSE <<b.data[1]>>
    [] OTHER                 -> << >>

\* done: the target, or nothing left in the queue and in memory.
Done(b) == Hit(b) \/ (PendEmpty /\ swq = << >>)

Core(start, b) ==
  /\ bstate' = IF Hit(b) THEN "IDLE" ELSE
       CASE bstate = "IDLE"        -> IF start THEN "INIT" ELSE "IDLE"
         [] bstate = "INIT"        -> "NODE_HEADER"
         [] bstate = "NODE_HEADER" -> IF Done(b) THEN "IDLE"
                                      ELSE IF Header(b) /\ b.n > 0 THEN "ADD_NEIGHS" ELSE "NODE_HEADER"
         [] bstate = "ADD_NEIGHS"  -> IF neighCt <= 2 THEN "NODE_HEADER" ELSE "ADD_NEIGHS"
  /\ neighCt' = CASE bstate = "NODE_HEADER" /\ Header(b) /\ ~b.hit -> b.n
                  [] bstate = "ADD_NEIGHS" /\ neighCt > 2          -> neighCt - 2
                  [] OTHER                                         -> 0
  /\ bfound' = (Hit(b) \/ (bfound /\ bstate # "INIT"))
  /\ dcBeat' = IF b.kind = "none" THEN dcBeat ELSE (dcBeat + 1) % LineBeats

\* queue_main.v: one row in, one node out.
Pop(q) == IF Len(Head(q)) = 1 THEN Tail(q) ELSE <<Tail(Head(q))>> \o Tail(q)
HighFirst(row) == IF Len(row) = 2 THEN <<row[2], row[1]>> ELSE row
RowIn(q, rows, row) == IF row = << >> \/ Len(q) = rows THEN << >> ELSE <<HighFirst(row)>>

\* What leaves the outgoing queue, and what enters the incoming one.
OutDeq(ready) ==
  \/ qstate = "CORE" /\ ~InFull /\ (OutFilled \/ SingleFinal)
  \/ qstate \in {"INIT_SPILL", "SPILL"} /\ ready
InRow(ready, b) ==
  CASE qstate = "CORE" /\ OutDeq(ready)         -> IF SingleFinal THEN <<HeadRow[1]>> ELSE HeadRow
    [] qstate = "RESTORE" /\ b.kind # "none"    -> b.data
    [] OTHER                                    -> << >>

InnerQueues(ready, enq, b) ==
  /\ mainQ' = (IF DeqReq(ready) /\ mainQ # << >> THEN Pop(mainQ) ELSE mainQ)
              \o RowIn(mainQ, MainRows, enq)
  /\ inQ' = (IF DeqReq(ready) /\ mainQ = << >> THEN Pop(inQ) ELSE inQ)
            \o RowIn(inQ, BufRows, InRow(ready, b))

\* queue_out.v: one row out; up to two nodes in, which may complete a row and start one.
OutQueue(ready, enq) ==
  LET taken == OutDeq(ready) /\ ~OutEmpty
      adds  == enq # << >> /\ ~OutFull
      after == OutRing!Inc(outTail)
      fills == adds /\ (TailSingle \/ Len(enq) = 2)
      Left(s)   == IF taken /\ s = OutRing!Idx(outHead) THEN <<NoNode, NoNode>> ELSE outRow[s]
      AtTail(r) == IF TailSingle THEN <<r[1], enq[1]>>
                   ELSE IF Len(enq) = 2 THEN enq ELSE <<enq[1], r[2]>>
  IN /\ outRow' = [s \in OutRing!Slots |->
           IF adds /\ s = OutRing!Idx(outTail) THEN AtTail(Left(s))
           ELSE IF adds /\ TailSingle /\ Len(enq) = 2 /\ s = OutRing!Idx(after) THEN <<enq[2], Left(s)[2]>>
           ELSE Left(s)]
     /\ outTail' = IF fills THEN after ELSE outTail
     /\ outHead' = IF taken /\ OutFilled THEN OutRing!Inc(outHead) ELSE outHead

\* bfs_queue.v: spill and restore, a line at a time.
Moves(ready, b)     == (qstate = "SPILL" /\ ready) \/ (qstate = "RESTORE" /\ b.kind # "none")
SpillDone(ready, b) == Moves(ready, b) /\ ct = 0
Control(ready, b) ==
  /\ qstate' =
       CASE qstate = "CORE"         -> IF OutSat /\ InFull THEN "INIT_SPILL"
                                       ELSE IF PendEmpty THEN "INIT_RESTORE" ELSE "CORE"
         [] qstate = "INIT_SPILL"   -> IF ready THEN "SPILL" ELSE "INIT_SPILL"
         [] qstate = "INIT_RESTORE" -> IF ready THEN "RESTORE" ELSE "INIT_RESTORE"
         [] qstate \in {"SPILL", "RESTORE"} -> IF SpillDone(ready, b) THEN "CORE" ELSE qstate
  /\ ct' = CASE qstate = "INIT_SPILL"   -> LineBeats - 2
             [] qstate = "INIT_RESTORE" -> LineBeats - 1
             [] Moves(ready, b) /\ ct > 0 -> ct - 1
             [] OTHER                     -> ct

\* bfs_rst, in the cycle of done, empties everything and forgets the memory.
Queue(ready, enq, b) ==
  IF Done(b)
  THEN /\ mainQ' = << >> /\ inQ' = << >> /\ outHead' = 0 /\ outTail' = 0 /\ outRow' = Empty
       /\ qstate' = "CORE" /\ ct' = 0 /\ swq' = << >> /\ line' = << >>
  ELSE /\ InnerQueues(ready, enq, b)
       /\ OutQueue(ready, IF MainFull THEN enq ELSE << >>)
       /\ Control(ready, b)
       /\ LET written == IF SpillReq /\ OutDeq(ready) THEN Append(line, HeadRow) ELSE line
              done    == SpillDone(ready, b)
          IN /\ line' = IF done THEN << >> ELSE written
             /\ swq' = IF done /\ qstate = "SPILL" THEN Append(swq, written)
                       ELSE IF done THEN Tail(swq) ELSE swq

\* The level-2 cache: a mark or a read per request; it is answered by its last beat.
Cache(ready, b) ==
  LET request == IF DeqReq(ready) THEN <<[op |-> "mark", node |-> Dequeued]>>
                 ELSE IF qstate = "INIT_RESTORE" /\ ready THEN <<[op |-> "rd", node |-> Plain]>>
                 ELSE << >>
      last    == b.kind # "none" /\ dcBeat = LineBeats - 1
  IN asked' = (IF last THEN Tail(asked) ELSE asked) \o request

NoBeat == [kind |-> "none", new |-> FALSE, hit |-> FALSE, n |-> 0, data |-> <<Plain, Plain>>]
MaxNeighs == 2 * (LineBeats - 1)

\* What the first beat of a mark says.  Special is queued once, so it is new when it is
\* asked for; no node is marked by anybody else.
Headers(node) ==
  [kind : {"mark"}, hit : BOOLEAN, n : 0 .. MaxNeighs, data : {NoBeat.data},
   new : IF node = Special THEN {TRUE} ELSE IF marks < MaxMarks THEN BOOLEAN ELSE {FALSE}]
\* A later beat: the neighbors that are looked at, of which Special may be one, once.
Neighbors ==
  LET seen == IF neighCt > 2 THEN 2 ELSE neighCt
  IN {[NoBeat EXCEPT !.kind = "mark", !.data = d] :
        d \in {<<Plain, Plain>>} \cup
              IF special # "unseen" \/ bstate # "ADD_NEIGHS" THEN {}
              ELSE {<<Special, Plain>>} \cup (IF seen = 2 THEN {<<Plain, Special>>} ELSE {})}

\* The beats that the cache may send for the oldest request.
BeatsDue ==
  IF asked = << >> THEN {}
  ELSE IF Head(asked).op = "rd" THEN {[NoBeat EXCEPT !.kind = "rd", !.data = Head(swq)[dcBeat + 1]]}
  ELSE IF dcBeat = 0 THEN {h \in Headers(Head(asked).node) : (h.hit => h.new) /\ (~h.new \/ h.hit => h.n = 0)}
  ELSE Neighbors

BfsEdge(start, root, ready, b) ==
  LET enq == Enq(root, b)
  IN /\ Core(start, b)
     /\ Queue(ready, enq, b)
     /\ Cache(ready, b)
     /\ marks' = IF start THEN 0 ELSE IF Header(b) THEN marks + 1 ELSE marks
     /\ special' = IF start THEN "unseen"
                   ELSE IF Header(b) /\ Head(asked).node = Special THEN "answered"
                   ELSE IF \E i \in DOMAIN enq : enq[i] = Special THEN "open"
                   ELSE special
     /\ bfsFault' = IF start /\ asked # << >> THEN "late"
                    ELSE IF bstate = "ADD_NEIGHS" /\ b.kind = "none" THEN "gap"
                    ELSE IF enq # << >> /\ MainFull /\ OutFull /\ ~Done(b) THEN "overflow"
                    ELSE "none"

\* A search is started by a write to REG_STAT, when software has seen that none is active.
BfsTick(ready, b) ==
  /\ bfsFault = "none"
  /\ ready => Len(asked) < MaxAsked
  /\ \E start \in BOOLEAN, root \in {Plain, Special} :
       /\ start => bstate = "IDLE"
       /\ root = Special => bstate = "INIT"
       /\ BfsEdge(start, root, ready, b)

BfsCoreNext == \E ready \in BOOLEAN, b \in BeatsDue \cup {NoBeat} : BfsTick(ready, b)

\* Now and then the cache does what it can: it takes a request if it has room, and sends
\* a beat if one is due.
Serves == \E b \in IF asked = << >> THEN {NoBeat} ELSE BeatsDue : BfsTick(Len(asked) < MaxAsked, b)
BfsCoreSpec == BfsCoreInit /\ [][BfsCoreNext]_bfsCoreVars /\ WF_bfsCoreVars(Serves)
-----------------------------------------------------------------------------
(* Properties                                                              *)
(*                                                                         *)
(* They hold up to the first of three steps, recorded in bfsFault:         *)
(*   overflow  a row is lost because the outgoing queue is full: spilling  *)
(*             has begun (OutSat), but the answers to the marks that the   *)
(*             cache holds arrive before it has made room (queue_out.v:55) *)
(*   gap       the level-2 cache pauses within a line, for a snoop;        *)
(*             ADD_NEIGHS counts cycles and not beats (bfs_core.v:202)     *)
(*   late      a search begins while the cache still has marks of one that *)
(*             has found its target; their answers are taken for its own,  *)
(*             and what they mark stays marked (bfs_core.v:147)            *)

\* Where Special is: the rows of the queues, the line being written, the lines in memory
\* (without what a restore has moved), the requests that are not being answered.
Spots(rows) == {p \in (1 .. Len(rows)) \X {1, 2} :
                  p[2] <= Len(rows[p[1]]) /\ rows[p[1]][p[2]] = Special}
OutSpots    == {p \in OutRing!Slots \X {1, 2} : outRow[p[1]][p[2]] = Special}
Moved       == IF qstate = "RESTORE" THEN dcBeat ELSE 0
SwqSpots    == {p \in (1 .. Len(swq)) \X (1 .. LineBeats) \X {1, 2} :
                  (p[1] = 1 => p[2] > Moved) /\ swq[p[1]][p[2]][p[3]] = Special}
Due         == IF dcBeat > 0 THEN Tail(asked) ELSE asked
DueSpots    == {i \in 1 .. Len(Due) : Due[i].node = Special}
Places == ({"main"} \X Spots(mainQ)) \cup ({"in"} \X Spots(inQ)) \cup ({"line"} \X Spots(line))
          \cup ({"out"} \X OutSpots) \cup ({"memory"} \X SwqSpots) \cup ({"asked"} \X DueSpots)

\* A neighbor that was put into the queue is in one place until it has been looked at,
\* through forwarding, spilling and restoring, half rows and full queues; and a search
\* ends without the target only when it has been.
NodesAreSearched ==
  bfsFault = "none" =>
    /\ Active => Cardinality(Places) = IF special = "open" THEN 1 ELSE 0
    /\ bstate = "IDLE" /\ ~bfound => special # "open"

\* The search is over: no row is left that nobody moves, and spilling and restoring do
\* not wait for each other.
SearchOver == bstate = "IDLE" \/ bfsFault # "none"
-----------------------------------------------------------------------------
(* The inductive invariant: how the parts of the queue hold together *)

Node == {Plain, Special}
Row  == {<<n>> : n \in Node} \cup (Node \X Node)

BfsCoreTypes ==
  /\ bstate \in {"IDLE", "INIT", "NODE_HEADER", "ADD_NEIGHS"}
  /\ neighCt \in Nat /\ bfound \in BOOLEAN /\ dcBeat \in 0 .. LineBeats - 1
  /\ mainQ \in Seq(Row) /\ inQ \in Seq(Row)
  /\ outHead \in OutRing!Ptrs /\ outTail \in OutRing!Ptrs
  /\ outRow \in [OutRing!Slots -> (Node \cup {NoNode}) \X (Node \cup {NoNode})]
  /\ qstate \in {"CORE", "INIT_SPILL", "SPILL", "INIT_RESTORE", "RESTORE"}
  /\ ct \in 0 .. LineBeats - 1
  /\ line \in Seq(Node \X Node)
  /\ swq \in Seq([1 .. LineBeats -> Node \X Node])
  /\ asked \in Seq([op : {"mark", "rd"}, node : Node])
  /\ special \in {"unseen", "open", "answered"}

Held == OutRing!Dist(outHead, outTail)

\* The rows between the pointers are full, the one at the tail has at most one node, and
\* one row is always free.
RowsAreLive ==
  /\ Held < BufRows
  /\ \A s \in OutRing!Live(outHead, outTail) : outRow[s] \in Node \X Node
  /\ TailRow[2] = NoNode
  /\ \A s \in OutRing!Slots \ OutRing!Live(outHead, outTail) :
       s # OutRing!Idx(outTail) => outRow[s] = <<NoNode, NoNode>>

\* Nothing is queued before the start of a search and after its end.
SearchStarts ==
  /\ bstate \in {"IDLE", "INIT"} =>
       /\ mainQ = << >> /\ inQ = << >> /\ swq = << >>
       /\ outHead = 0 /\ outTail = 0 /\ outRow = Empty /\ qstate = "CORE"
  /\ bstate = "INIT" => asked = << >> /\ special = "unseen"
  /\ bstate = "IDLE" /\ ~bfound => special # "open"

\* While neighbors are added their line is being answered, with enough beats to come.
LineIsLongEnough ==
  /\ asked = << >> => dcBeat = 0
  /\ bstate = "ADD_NEIGHS" =>
       /\ asked # << >> /\ asked[1].op = "mark"
       /\ dcBeat >= 1 /\ neighCt >= 1 /\ neighCt <= 2 * (LineBeats - dcBeat)

\* A line is spilled when there is one, and read back when nothing else is left.
Spills ==
  /\ qstate \in {"INIT_SPILL", "SPILL"} => inQ # << >> /\ Held >= LineBeats - Len(line)
  /\ line # << >> => qstate = "SPILL"
  /\ qstate = "SPILL" => Len(line) = LineBeats - 1 - ct
Restores ==
  /\ \A i \in DOMAIN asked : asked[i].op = "rd" =>
       i = 1 /\ qstate = "RESTORE" /\ asked[i].node = Plain
  /\ qstate = "INIT_RESTORE" => PendEmpty /\ swq # << >>
  /\ qstate = "RESTORE" =>
       /\ asked # << >> /\ asked[1].op = "rd" /\ swq # << >>
       /\ bstate = "NODE_HEADER" /\ ct = LineBeats - 1 - dcBeat /\ Len(inQ) <= dcBeat

SpecialIsOnce ==
  bstate # "IDLE" => IF special = "open" THEN \E p \in Places : Places = {p} ELSE Places = {}

BfsCoreInv ==
  bfsFault = "none" =>
    /\ BfsCoreTypes /\ RowsAreLive /\ SearchStarts /\ LineIsLongEnough /\ Spills /\ Restores
    /\ SpecialIsOnce
=============================================================================
