--------------------------- MODULE ProgramsProofs ---------------------------
(***************************************************************************)
(* What ProgramsMC puts side by side, for every value of the parameters.   *)
(* The hash set of perf/hashset.c answers like a set for every capacity,   *)
(* hash function and junk in its array; the reference search of graph.c    *)
(* finds exactly what is reachable, by a shortest path, while its ring has *)
(* not overflowed, and what it prints is a path even if it has; the two    *)
(* clocks of the DRAM keep time for every cycle length, period and initial *)
(* value; and the accelerator (bfs_core.v, bfs_queue.v) has each queued    *)
(* node in exactly one place for every length of its queues, of its bus    *)
(* lines and of the search, until one of the three faults it can meet.     *)
(***************************************************************************)
EXTENDS HashSet, GraphBfs, Sim, VpiClock, BfsCore, FiniteSetTheorems, WellFoundedInduction, TLAPS

-----------------------------------------------------------------------------
(* Numbers *)

\* The least number of a set, from the library's well-ordering of the numbers.
Less == OpToRel(<, Nat)

LEMMA LeastNumber ==
  ASSUME NEW T, T \subseteq Nat, T # {}
  PROVE  \E x \in T : \A y \in T : x <= y
<1>1. \A a, b \in Nat : <<a, b>> \in Less <=> a < b
  BY DEF Less, OpToRel
<1>2. IsWellFoundedOn(Less, Nat)
  BY NatLessThanWellFounded DEF Less
<1>3. PICK x \in T : \A y \in T : ~(<<y, x>> \in Less)
  BY <1>2, WFMin, Zenon
<1>4. ASSUME NEW y \in T PROVE x <= y
  <2>1. ~(y < x)
    BY <1>1, <1>3, <1>4, Zenon
  <2> QED
    BY <2>1
<1> QED
  BY <1>4, Zenon

-----------------------------------------------------------------------------
(* The hash set (hashset.c) *)

\* The metadata starts on a multiple of 32 and ends within the allocation of
\* cap + 31 bytes, wherever malloc puts it (create_hashset).
THEOREM MetadataAligned ==
  ASSUME NEW base \in Nat
  PROVE  (base + Padding(base)) % 32 = 0 /\ Padding(base) + Cap <= Cap + 31
BY HashSetAssumption DEF Padding

LEMMA NoValueType == NoValue \in Values
BY HashSetAssumption DEF NoValue, Values

LEMMA HashType ==
  ASSUME TableTypeOK, NEW v \in Values
  PROVE  hash.home[v] \in Slots /\ hash.phash[v] \in 0 .. 127 /\ Tag(v) \in 128 .. 255
<1>1. hash \in [home : [Values -> Slots], phash : [Values -> PHashes]]
  BY HashSetAssumption DEF TableTypeOK
<1>2. hash.home[v] \in Slots /\ hash.phash[v] \in PHashes
  BY <1>1
<1>3. hash.phash[v] \in 0 .. 127
  BY <1>2, HashSetAssumption
<1>4. 128 + hash.phash[v] \in 128 .. 255
  BY <1>3
<1> QED
  BY <1>2, <1>3, <1>4 DEF Tag

LEMMA OffsetType ==
  ASSUME NEW h \in Slots, NEW i \in Slots
  PROVE  Offset(h, i) \in Slots
BY HashSetAssumption DEF Offset, Slots

LEMMA OffsetInjective ==
  ASSUME NEW h \in Slots, NEW i \in Slots, NEW j \in Slots, Offset(h, i) = Offset(h, j)
  PROVE  i = j
BY HashSetAssumption DEF Offset, Slots

\* A step of the probe passes one slot more, or it is back at the first.
LEMMA OffsetAfter ==
  ASSUME NEW h \in Slots, NEW i \in Slots
  PROVE  /\ After(i) \in Slots
         /\ Offset(h, After(i)) \in {Offset(h, i) + 1, 0}
BY HashSetAssumption DEF Offset, After, Slots

LEMMA OffsetHome == ASSUME NEW h \in Slots PROVE Offset(h, h) = 0
BY HashSetAssumption DEF Offset, Slots

-----------------------------------------------------------------------------
(* The table's invariant *)

LEMMA TableInitial == HashSetInit => TableInv
<1> SUFFICES ASSUME HashSetInit PROVE TableInv
  OBVIOUS
<1>1. TableTypeOK
  BY HashSetAssumption, NoValueType
     DEF HashSetInit, Created, TableTypeOK, Slots, Free, Stages, Reply
<1>2. \A i \in Slots : ~Tagged(i)
  BY DEF HashSetInit, Created, Tagged, Free
<1> QED
  BY <1>1, <1>2 DEF TableInv, ProbeChains, ProbePassed, NoDuplicates, HashSetInit, Created

\* A step that leaves the table alone and does not probe.
LEMMA TableKept ==
  ASSUME TableInv, TableTypeOK', UNCHANGED <<hash, arr, mdata>>, ProbePassed'
  PROVE  TableInv'
BY DEF TableInv, ProbeChains, NoDuplicates, Tagged, Tag, Offset

\* A probe that starts has passed nothing.
LEMMA ProbeStarts ==
  ASSUME TableInv, NEW o \in {"insert", "find"}, NEW v \in Values,
         o = "insert" => v \in Vals,
         StartProbe(o, v), UNCHANGED <<hash, arr, mdata, size, elems, answer>>
  PROVE  TableInv'
<1>1. hash.home[v] \in Slots
  BY HashType DEF TableInv
<1>2. TableTypeOK'
  BY <1>1 DEF TableInv, TableTypeOK, StartProbe, Stages
<1>3. ProbePassed'
  <2> SUFFICES ASSUME NEW i \in Slots, Offset(hash.home[v], i) < Offset(hash.home[v], hash.home[v])
               PROVE FALSE
    BY DEF ProbePassed, StartProbe, Offset
  <2>1. Offset(hash.home[v], hash.home[v]) = 0 /\ Offset(hash.home[v], i) \in Slots
    BY <1>1, OffsetHome, OffsetType
  <2> QED
    BY <2>1 DEF Slots
<1> QED
  BY <1>2, <1>3, TableKept

\* The step to the next slot.
LEMMA ProbeMoves == TableInv /\ ProbeNext => TableInv'
<1> SUFFICES ASSUME TableInv, ProbeNext PROVE TableInv'
  OBVIOUS
<1> DEFINE h == hash.home[val]
<1>1. h \in Slots /\ idx \in Slots /\ val \in Values
  BY HashType DEF TableInv, TableTypeOK
<1>2. After(idx) \in Slots /\ Offset(h, After(idx)) \in {Offset(h, idx) + 1, 0}
  BY <1>1, OffsetAfter
<1>3. TableTypeOK'
  BY <1>2 DEF TableInv, TableTypeOK, ProbeNext, table
<1>4. arr[idx] # val
  BY <1>1 DEF TableInv, ProbeChains, ProbeNext, Match
<1>5. ProbePassed'
  <2> SUFFICES ASSUME NEW i \in Slots, Offset(h, i) < Offset(h, After(idx))
               PROVE  Tagged(i) /\ arr[i] # val
    BY DEF ProbePassed, ProbeNext, table, Tagged, Offset
  <2>1. Offset(h, i) \in Slots /\ Offset(h, idx) \in Slots
    BY <1>1, OffsetType
  <2>2. Offset(h, i) < Offset(h, idx) \/ Offset(h, i) = Offset(h, idx)
    BY <1>2, <2>1 DEF Slots
  <2>3. CASE Offset(h, i) < Offset(h, idx)
    BY <2>3 DEF TableInv, ProbePassed, ProbeNext
  <2>4. CASE Offset(h, i) = Offset(h, idx)
    <3>1. i = idx
      BY <1>1, <2>4, OffsetInjective
    <3> QED
      BY <3>1, <1>4 DEF ProbeNext
  <2> QED
    BY <2>2, <2>3, <2>4
<1> QED
  BY <1>3, <1>5, TableKept DEF ProbeNext, table

\* At a free slot the probe has seen that its value is nowhere in the table.
LEMMA FreeMeansAbsent ==
  ASSUME TableInv, stage = "probe", ~Tagged(idx)
  PROVE  \A j \in Slots : Tagged(j) => arr[j] # val
<1> SUFFICES ASSUME NEW j \in Slots, Tagged(j), arr[j] = val PROVE FALSE
  OBVIOUS
<1> DEFINE h == hash.home[val]
<1>1. h \in Slots /\ idx \in Slots
  BY HashType DEF TableInv, TableTypeOK
<1>2. Offset(h, idx) \in Slots /\ Offset(h, j) \in Slots
  BY <1>1, OffsetType
<1>3. ~(Offset(h, idx) < Offset(h, j))
  BY <1>1 DEF TableInv, ProbeChains
<1>4. ~(Offset(h, j) < Offset(h, idx))
  BY <1>1 DEF TableInv, ProbePassed
<1>5. Offset(h, idx) = Offset(h, j)
  BY <1>2, <1>3, <1>4 DEF Slots
<1>6. idx = j
  BY <1>1, <1>5, OffsetInjective
<1> QED
  BY <1>6

LEMMA InsertKeeps == TableInv /\ InsertFree => TableInv'
<1> SUFFICES ASSUME TableInv, InsertFree PROVE TableInv'
  OBVIOUS
<1>1. /\ stage = "probe" /\ ~Tagged(idx) /\ op = "insert" /\ idx \in Slots
      /\ val \in Vals /\ val \in Values
      /\ mdata' = [mdata EXCEPT ![idx] = Tag(val)] /\ arr' = [arr EXCEPT ![idx] = val]
      /\ stage' = "fill" /\ UNCHANGED <<hash, op, val, idx>>
  BY DEF TableInv, TableTypeOK, InsertFree, Store, Return, Values
<1>2. /\ arr \in [Slots -> Values]
      /\ mdata \in [Slots -> {Free} \cup {128 + p : p \in PHashes}]
      /\ hash \in Hashes /\ Tag(val) \in {128 + p : p \in PHashes} /\ Tag(val) >= 128
  <2>1. hash \in [home : [Values -> Slots], phash : [Values -> PHashes]]
    BY HashSetAssumption DEF TableInv, TableTypeOK
  <2>2. hash.phash[val] \in PHashes
    BY <1>1, <2>1
  <2>3. Tag(val) \in 128 .. 255
    BY <1>1, HashType DEF TableInv
  <2>4. Tag(val) \in {128 + p : p \in PHashes}
    BY <2>2 DEF Tag
  <2>5. Tag(val) >= 128
    BY <2>3
  <2> QED
    BY <2>4, <2>5 DEF TableInv, TableTypeOK
<1>3. \A j \in Slots : /\ arr'[j] = IF j = idx THEN val ELSE arr[j]
                       /\ Tagged(j)' <=> j = idx \/ Tagged(j)
  BY <1>1, <1>2 DEF Tagged
<1>4. TableTypeOK'
  <2>1. arr' \in [Slots -> Values] /\ mdata' \in [Slots -> {Free} \cup {128 + p : p \in PHashes}]
    BY <1>1, <1>2
  <2>2. size' \in Nat /\ elems' \in Seq(Vals)
    BY <1>1 DEF TableInv, TableTypeOK, InsertFree
  <2>3. answer' \in [op : {"none", "insert", "find"}, val : Values, yes : BOOLEAN]
    BY <1>1 DEF InsertFree, Return, Reply
  <2> QED
    BY <1>1, <2>1, <2>2, <2>3 DEF TableInv, TableTypeOK, Stages
<1>5. ProbeChains'
  <2> SUFFICES ASSUME NEW j \in Slots, Tagged(j)'
               PROVE  /\ mdata'[j] = Tag(arr'[j])
                      /\ \A i \in Slots :
                           Offset(hash.home[arr'[j]], i) < Offset(hash.home[arr'[j]], j)
                             => Tagged(i)'
    BY <1>1 DEF ProbeChains, Tag, Offset
  <2>1. CASE j = idx
    BY <1>1, <1>2, <1>3, <2>1 DEF TableInv, ProbePassed
  <2>2. CASE j # idx
    <3>1. Tagged(j) /\ arr'[j] = arr[j] /\ mdata'[j] = mdata[j]
      BY <1>1, <1>2, <1>3, <2>2
    <3> QED
      BY <1>3, <3>1 DEF TableInv, ProbeChains
  <2> QED
    BY <2>1, <2>2
<1>6. NoDuplicates'
  <2>1. \A j \in Slots : Tagged(j) => arr[j] # val
    BY <1>1, FreeMeansAbsent
  <2> QED
    BY <1>1, <1>3, <2>1 DEF TableInv, NoDuplicates
<1>7. ProbePassed'
  BY <1>1 DEF ProbePassed
<1> QED
  BY <1>4, <1>5, <1>6, <1>7 DEF TableInv

LEMMA TableStep == TableInv /\ [HashSetNext]_hsVars => TableInv'
<1> SUFFICES ASSUME TableInv, [HashSetNext]_hsVars PROVE TableInv'
  OBVIOUS
<1>1. CASE StartLevel \/ FillEnd \/ SampleEnd
  <2>1. TableTypeOK' /\ UNCHANGED <<hash, arr, mdata>> /\ ProbePassed'
    BY <1>1 DEF TableInv, TableTypeOK, StartLevel, FillEnd, SampleEnd, table, Stages, ProbePassed
  <2> QED
    BY <2>1, TableKept
<1>2. CASE FillNext
  <2>1. PICK v \in Vals : StartProbe("insert", v)
    BY <1>2 DEF FillNext
  <2> QED
    BY <1>2, <2>1, ProbeStarts DEF FillNext, table, Values
<1>3. CASE SampleNext
  <2>1. PICK v \in Values : StartProbe("find", v)
    <3>1. \A n \in DOMAIN elems : elems[n] \in Values
      BY DEF TableInv, TableTypeOK, Values
    <3> QED
      BY <1>3, <3>1 DEF SampleNext, Values
  <2> QED
    BY <1>3, <2>1, ProbeStarts DEF SampleNext, table
<1>4. CASE ProbeNext
  BY <1>4, ProbeMoves
<1>5. CASE InsertFree
  BY <1>5, InsertKeeps
<1>6. CASE ProbeHit \/ FindFree
  <2>0. PICK y \in BOOLEAN : Return(y) /\ UNCHANGED <<table, mdata>>
    BY <1>6 DEF ProbeHit, FindFree, table
  <2>1. /\ UNCHANGED <<hash, arr, mdata, size, elems, op, val, idx>>
        /\ stage' \in {"fill", "sample"}
    BY <2>0 DEF Return, table
  <2>2. answer' \in [op : {"none", "insert", "find"}, val : Values, yes : BOOLEAN]
    BY <2>0 DEF TableInv, TableTypeOK, Return, Reply
  <2>3. TableTypeOK' /\ ProbePassed'
    BY <2>1, <2>2 DEF TableInv, TableTypeOK, Stages, ProbePassed
  <2> QED
    BY <2>1, <2>3, TableKept
<1>7. CASE UNCHANGED hsVars
  <2>1. TableTypeOK' /\ UNCHANGED <<hash, arr, mdata>> /\ ProbePassed'
    BY <1>7 DEF TableInv, TableTypeOK, hsVars, table, program, ProbePassed, Tagged, Offset
  <2> QED
    BY <2>1, TableKept
<1> QED
  BY <1>1, <1>2, <1>3, <1>4, <1>5, <1>6, <1>7 DEF HashSetNext, Probe

\* Probe chains have no gap, a value has one slot, and a running probe has
\* passed neither a free slot nor its value.
THEOREM TableInvariance == HashSetSpec => []TableInv
BY TableInitial, TableStep, PTL DEF HashSetSpec

-----------------------------------------------------------------------------
(* The answers are those of a set *)

LEMMA IdealInitial == HashSetInit => Ideal!Init
<1> SUFFICES ASSUME HashSetInit PROVE Ideal!Init
  OBVIOUS
<1>1. Content = {}
  BY DEF HashSetInit, Created, Content, Taken, Tagged, Free
<1> QED
  BY <1>1, NoValueType DEF HashSetInit, Created, Ideal!Init, Ideal!Answers, Reply

\* An insertion takes one more slot and adds its value.
LEMMA InsertContent ==
  ASSUME TableInv, InsertFree
  PROVE  /\ Taken' = Taken \cup {idx} /\ idx \notin Taken
         /\ Content' = Content \cup {val}
<1>1. /\ idx \in Slots /\ val \in Values /\ ~Tagged(idx)
      /\ arr \in [Slots -> Values] /\ DOMAIN mdata = Slots
      /\ mdata' = [mdata EXCEPT ![idx] = Tag(val)] /\ arr' = [arr EXCEPT ![idx] = val]
  BY DEF TableInv, TableTypeOK, InsertFree, Store
<1>2. Tag(val) >= 128
  BY <1>1, HashType DEF TableInv
<1>3. \A j \in Slots : /\ arr'[j] = IF j = idx THEN val ELSE arr[j]
                       /\ Tagged(j)' <=> j = idx \/ Tagged(j)
  BY <1>1, <1>2 DEF Tagged
<1> QED
  BY <1>1, <1>3 DEF Content, Taken

LEMMA IdealStep ==
  TableInv /\ [HashSetNext]_hsVars => [Ideal!Next]_<<Content, answer>>
<1> SUFFICES ASSUME TableInv, [HashSetNext]_hsVars
             PROVE  Ideal!Next \/ UNCHANGED <<Content, answer>>
  OBVIOUS
<1>0. idx \in Slots /\ val \in Values /\ op \in {"insert", "find"}
  BY DEF TableInv, TableTypeOK
<1>1. CASE StartLevel \/ FillNext \/ FillEnd \/ SampleNext \/ SampleEnd \/ ProbeNext \/ UNCHANGED hsVars
  BY <1>1 DEF StartLevel, FillNext, FillEnd, SampleNext, SampleEnd, ProbeNext,
              hsVars, table, program, Content, Taken, Tagged
<1>2. CASE ProbeHit
  <2>1. val \in Content /\ Content' = Content
    BY <1>0, <1>2 DEF ProbeHit, Match, Content, Taken, Tagged, table
  <2>2. answer' = [op |-> op, val |-> val, yes |-> (op = "find")]
    BY <1>2 DEF ProbeHit, Return, Reply
  <2>3. CASE op = "find"
    BY <1>0, <2>1, <2>2, <2>3 DEF Ideal!Next, Ideal!Find
  <2>4. CASE op = "insert"
    <3>1. Ideal!Insert(val)
      BY <2>1, <2>2, <2>4 DEF Ideal!Insert
    <3> QED
      BY <1>0, <3>1 DEF Ideal!Next
  <2> QED
    BY <1>0, <2>3, <2>4
<1>3. CASE FindFree
  <2>1. val \notin Content
    BY <1>3, FreeMeansAbsent DEF FindFree, Content, Taken
  <2>2. Content' = Content /\ answer' = [op |-> "find", val |-> val, yes |-> FALSE]
    BY <1>3 DEF FindFree, Return, Reply, table, Content, Taken, Tagged
  <2>3. (val \in Content) = FALSE
    BY <2>1
  <2>4. Ideal!Find(val)
    BY <2>2, <2>3, Zenon DEF Ideal!Find
  <2> QED
    BY <1>0, <2>4 DEF Ideal!Next
<1>4. CASE InsertFree
  <2>1. val \notin Content
    BY <1>4, FreeMeansAbsent DEF InsertFree, Content, Taken
  <2>2. Content' = Content \cup {val}
    BY <1>4, InsertContent
  <2>3. answer' = [op |-> "insert", val |-> val, yes |-> TRUE]
    BY <1>4 DEF InsertFree, Return, Reply
  <2>4. Ideal!Insert(val)
    BY <2>1, <2>2, <2>3 DEF Ideal!Insert
  <2> QED
    BY <1>0, <2>4 DEF Ideal!Next
<1> QED
  BY <1>1, <1>2, <1>3, <1>4 DEF HashSetNext, Probe

\* Every insertion and lookup is answered as a set answers it.
THEOREM Refinement == HashSetSpec => ImplementsSet
<1>1. HashSetSpec => [][HashSetNext]_hsVars /\ HashSetInit
  BY PTL DEF HashSetSpec
<1> QED
  BY <1>1, TableInvariance, IdealInitial, IdealStep, PTL DEF ImplementsSet, Ideal!Spec
-----------------------------------------------------------------------------
(* The counters *)

CountInv == SizeIsContent /\ IsFiniteSet(Taken) /\ IsFiniteSet(Content)

LEMMA CountInitial == HashSetInit => CountInv
<1> SUFFICES ASSUME HashSetInit PROVE CountInv
  OBVIOUS
<1>1. Taken = {} /\ Content = {} /\ size = 0 /\ elems = << >>
  BY DEF HashSetInit, Created, Content, Taken, Tagged, Free
<1>2. {elems[n] : n \in DOMAIN elems} = {} /\ Len(elems) = 0
  BY <1>1
<1> QED
  BY <1>1, <1>2, FS_EmptySet DEF CountInv, SizeIsContent

LEMMA CountKept ==
  ASSUME CountInv, UNCHANGED <<arr, mdata, size, elems>>
  PROVE  CountInv'
BY DEF CountInv, SizeIsContent, Content, Taken, Tagged

LEMMA CountInsert == ASSUME TableInv, CountInv, InsertFree PROVE CountInv'
<1>1. /\ Taken' = Taken \cup {idx} /\ idx \notin Taken
      /\ Content' = Content \cup {val}
  BY InsertContent
<1>2. val \notin Content
  BY FreeMeansAbsent DEF InsertFree, Content, Taken
<1>3. size \in Nat /\ elems \in Seq(Vals) /\ val \in Vals
  BY DEF TableInv, TableTypeOK, InsertFree
<1>4. size' = size + 1 /\ elems' = Append(elems, val)
  BY DEF InsertFree
<1>5. /\ IsFiniteSet(Taken') /\ IsFiniteSet(Content')
      /\ Cardinality(Taken') = Cardinality(Taken) + 1
      /\ Cardinality(Content') = Cardinality(Content) + 1
  BY <1>1, <1>2, FS_AddElement DEF CountInv
<1>6. Len(elems') = Len(elems) + 1
  BY <1>3, <1>4
<1>7. {elems'[n] : n \in DOMAIN elems'} = {elems[n] : n \in DOMAIN elems} \cup {val}
  <2>1. /\ DOMAIN elems' = 1 .. Len(elems) + 1 /\ DOMAIN elems = 1 .. Len(elems)
        /\ Len(elems) \in Nat
        /\ elems'[Len(elems) + 1] = val
        /\ \A n \in 1 .. Len(elems) : elems'[n] = elems[n]
    BY <1>3, <1>4
  <2>2. 1 .. Len(elems) + 1 = (1 .. Len(elems)) \cup {Len(elems) + 1}
    BY <2>1
  <2> QED
    BY <2>1, <2>2
<1> QED
  BY <1>1, <1>3, <1>4, <1>5, <1>6, <1>7 DEF CountInv, SizeIsContent

LEMMA CountStep ==
  TableInv /\ CountInv /\ [HashSetNext]_hsVars => CountInv'
<1> SUFFICES ASSUME TableInv, CountInv, [HashSetNext]_hsVars PROVE CountInv'
  OBVIOUS
<1>1. CASE InsertFree
  BY <1>1, CountInsert
<1>2. CASE ~InsertFree
  <2>1. UNCHANGED <<arr, mdata, size, elems>>
    BY <1>2 DEF HashSetNext, Probe, StartLevel, FillNext, FillEnd, SampleNext, SampleEnd,
                ProbeNext, ProbeHit, FindFree, hsVars, table
  <2> QED
    BY <2>1, CountKept
<1> QED
  BY <1>1, <1>2

\* set->size counts the taken slots, and elems lists the values in them, each once.
THEOREM SizeCounts == HashSetSpec => []SizeIsContent
<1>1. CountInv => SizeIsContent
  BY DEF CountInv
<1> QED
  BY <1>1, TableInvariance, CountInitial, CountStep, PTL DEF HashSetSpec

-----------------------------------------------------------------------------
(* The reference search (graph.c) *)

-----------------------------------------------------------------------------
(* Reachability *)

LEMMA ReachableSelf == ASSUME NEW a PROVE Reachable(a, a)
BY DEF Reachable

LEMMA ReachableEdge ==
  ASSUME NEW a, NEW n \in Nodes, NEW m \in Nodes, Reachable(a, n), IsEdge(n, m)
  PROVE  Reachable(a, m)
BY DEF Reachable, Closed

-----------------------------------------------------------------------------
(* The ring *)

LEMMA RingNextType == ASSUME NEW s \in Nodes PROVE RingNext(s) \in Nodes
BY GraphBfsAssumption DEF RingNext, Nodes

LEMMA EnqueueSlots ==
  ASSUME BfsTypeOK, NEW n \in Nodes, Enqueue(n), UNCHANGED qhead
  PROVE  /\ ring' \in [Nodes -> Nodes] /\ qtail' \in Nodes /\ lost' \in BOOLEAN
         /\ ring'[qtail] = n
         /\ \A s \in Nodes : s # qtail => ring'[s] = ring[s]
         /\ ~LiveSlot(qtail)
         /\ qtail' = qhead => \A s \in Nodes : ~LiveSlot(s)'
         /\ qtail' # qhead => \A s \in Nodes : LiveSlot(s)' <=> LiveSlot(s) \/ s = qtail
<1>1. /\ qhead \in Nodes /\ qtail \in Nodes /\ ring \in [Nodes -> Nodes] /\ lost \in BOOLEAN
      /\ qtail' = RingNext(qtail) /\ ring' = [ring EXCEPT ![qtail] = n]
      /\ qhead' = qhead
  BY DEF BfsTypeOK, Enqueue
<1>2. ~LiveSlot(qtail)
  BY <1>1, GraphBfsAssumption DEF LiveSlot, Nodes
<1>3. qtail' = qhead => \A s \in Nodes : ~LiveSlot(s)'
  BY <1>1, GraphBfsAssumption DEF LiveSlot, Nodes
<1>4. qtail' # qhead => \A s \in Nodes : LiveSlot(s)' <=> LiveSlot(s) \/ s = qtail
  BY <1>1, GraphBfsAssumption DEF LiveSlot, Nodes, RingNext
<1>5. lost' \in BOOLEAN
  BY <1>1 DEF Enqueue
<1> QED
  BY <1>1, <1>2, <1>3, <1>4, <1>5, RingNextType

\* An insertion brings in its node and keeps the others, or empties the queue.
LEMMA EnqueueQueued ==
  ASSUME BfsTypeOK, NEW n \in Nodes, Enqueue(n), UNCHANGED qhead
  PROVE  /\ \A m \in Nodes : Queued(m)' => Queued(m) \/ m = n
         /\ ~lost' => ~lost /\ Queued(n)' /\ \A m \in Nodes : Queued(m) => Queued(m)'
<1>1. qtail \in Nodes
  BY DEF BfsTypeOK
<1>2. ~lost' => ~lost /\ qtail' # qhead
  BY DEF Enqueue
<1> QED
  BY <1>1, <1>2, EnqueueSlots DEF Queued

\* A removal takes out one slot.
LEMMA DequeueQueued ==
  ASSUME BfsTypeOK, qhead # qtail, qhead' = RingNext(qhead), UNCHANGED <<ring, qtail>>
  PROVE  /\ ring[qhead] \in Nodes /\ Queued(ring[qhead])
         /\ \A m \in Nodes : Queued(m)' => Queued(m)
         /\ \A m \in Nodes : Queued(m) => Queued(m)' \/ m = ring[qhead]
<1>1. qhead \in Nodes /\ qtail \in Nodes /\ ring \in [Nodes -> Nodes]
  BY DEF BfsTypeOK
<1>2. LiveSlot(qhead)
  BY <1>1, GraphBfsAssumption DEF LiveSlot, Nodes
<1>3. \A s \in Nodes : LiveSlot(s)' <=> LiveSlot(s) /\ s # qhead
  BY <1>1, GraphBfsAssumption DEF LiveSlot, Nodes, RingNext
<1> QED
  BY <1>1, <1>2, <1>3 DEF Queued

LEMMA EmptyQueue ==
  ASSUME BfsTypeOK, qhead = qtail
  PROVE  \A m \in Nodes : ~Queued(m)
BY GraphBfsAssumption DEF BfsTypeOK, Queued, LiveSlot, Nodes

-----------------------------------------------------------------------------
(* Types *)

LEMMA NeighbourType ==
  ASSUME BfsTypeOK, NEW n \in Nodes, NEW i \in 1 .. Len(neigh[n])
  PROVE  neigh[n][i] \in Nodes /\ IsEdge(n, neigh[n][i])
BY DEF BfsTypeOK, IsEdge

LEMMA TypesInitial == BfsInit => BfsTypeOK
<1> SUFFICES ASSUME BfsInit PROVE BfsTypeOK
  OBVIOUS
<1>1. 0 \in Nodes
  BY GraphBfsAssumption DEF Nodes
<1>2. << >> \in Seq(Nodes) /\ Len(<< >>) = 0
  OBVIOUS
<1>3. Len(Queries) \in Nat
  BY GraphBfsAssumption
<1> QED
  BY <1>1, <1>2, <1>3, GraphBfsAssumption DEF BfsInit, EmptyGraph, BfsTypeOK, Phases

LEMMA TypesStep == BfsTypeOK /\ PhaseInv /\ [BfsNext]_bfsVars => BfsTypeOK'
<1> SUFFICES ASSUME BfsTypeOK, PhaseInv, [BfsNext]_bfsVars PROVE BfsTypeOK'
  OBVIOUS
<1> USE DEF BfsTypeOK
<1>1. ASSUME NEW f \in Nodes, NEW t \in Nodes, AddEdge(f, t) PROVE BfsTypeOK'
  <2>1. tries' \in 0 .. EdgeCt /\ phase' \in Phases
    BY <1>1, GraphBfsAssumption DEF AddEdge, Phases
  <2>2. neigh' \in [Nodes -> Seq(Nodes)] /\ \A n \in Nodes : Len(neigh'[n]) <= NMax
    <3>1. CASE UNCHANGED neigh
      BY <3>1
    <3>2. CASE Len(neigh[f]) # NMax /\ neigh' = [neigh EXCEPT ![f] = Append(@, t)]
      <4>1. /\ Append(neigh[f], t) \in Seq(Nodes)
            /\ Len(Append(neigh[f], t)) = Len(neigh[f]) + 1
            /\ Len(neigh[f]) \in Nat /\ Len(neigh[f]) <= NMax
        OBVIOUS
      <4>2. Len(neigh[f]) + 1 <= NMax
        BY <3>2, <4>1, GraphBfsAssumption
      <4> QED
        BY <3>2, <4>1, <4>2
    <3> QED
      BY <1>1, <3>1, <3>2 DEF AddEdge
  <2> QED
    BY <1>1, <2>1, <2>2 DEF AddEdge, queue, search
<1>2. CASE WriteMemfile \/ Finish \/ PathEnd \/ Answered
  BY <1>2 DEF WriteMemfile, Finish, PathEnd, Answered, graph, queue, search, Phases
<1>3. CASE StartSearch
  <2>1. calls + 1 \in 1 .. Len(Queries)
    BY <1>3, GraphBfsAssumption DEF StartSearch
  <2>2. Queries[calls + 1] \subseteq Nodes \X Nodes
    BY <2>1, GraphBfsAssumption
  <2>2a. PICK e \in Nodes \X Nodes : /\ from' = e[1] /\ to' = e[2]
                                     /\ ring' = [ring EXCEPT ![0] = e[1]]
    <3>1. PICK e \in Queries[calls + 1] : /\ from' = e[1] /\ to' = e[2]
                                          /\ ring' = [ring EXCEPT ![0] = e[1]]
      BY <1>3 DEF StartSearch
    <3> QED
      BY <2>2, <3>1
  <2>3. 0 \in Nodes /\ 1 \in Nodes
    BY GraphBfsAssumption DEF Nodes
  <2>4. from' \in Nodes /\ to' \in Nodes /\ ring' \in [Nodes -> Nodes]
    BY <2>2a, <2>3
  <2>5. path' \in Seq(Nodes) /\ calls' \in 0 .. Len(Queries)
    BY <1>3, <2>1 DEF StartSearch
  <2> QED
    BY <1>3, <2>3, <2>4, <2>5 DEF StartSearch, ResetMarks, graph, Phases
<1>4. CASE Dequeue
  <2>1. ring[qhead] \in Nodes
    OBVIOUS
  <2>2. /\ cur' \in Nodes /\ found' \in BOOLEAN /\ phase' \in Phases
        /\ qhead' \in Nodes /\ nth' \in Nat
    BY <1>4, <2>1, RingNextType DEF Dequeue, Phases
  <2> QED
    BY <1>4, <2>2 DEF Dequeue, graph
<1>5. CASE ExpandNext
  <2>1. cur \in Nodes /\ nth \in 1 .. Len(neigh[cur])
    BY <1>5 DEF ExpandNext, PhaseInv
  <2>2. neigh[cur][nth] \in Nodes
    BY <2>1, NeighbourType
  <2>3. Enqueue(neigh[cur][nth]) /\ UNCHANGED qhead
    BY <1>5 DEF ExpandNext
  <2>4. ring' \in [Nodes -> Nodes] /\ qtail' \in Nodes /\ lost' \in BOOLEAN
    BY <2>2, <2>3, EnqueueSlots
  <2>5. parent' \in [Nodes -> Nodes] /\ nth' \in Nat
    BY <1>5, <2>1, <2>2 DEF ExpandNext
  <2> QED
    BY <1>5, <2>4, <2>5 DEF ExpandNext, graph
<1>6. CASE ExpandEnd
  BY <1>6 DEF ExpandEnd, graph, queue, Phases
<1>7. CASE SearchEnd
  BY <1>7 DEF SearchEnd, graph, queue, Phases
<1>8. CASE PathNext
  <2>1. path' \in Seq(Nodes) /\ cur' \in Nodes
    BY <1>8 DEF PathNext
  <2> QED
    BY <1>8, <2>1 DEF PathNext, graph, queue
<1>9. CASE UNCHANGED bfsVars
  BY <1>9 DEF bfsVars, graph, queue, search
<1> QED
  BY <1>1, <1>2, <1>3, <1>4, <1>5, <1>6, <1>7, <1>8, <1>9 DEF BfsNext

-----------------------------------------------------------------------------
(* What is found is reachable, and nothing is missed *)

\* The phases and the queue: an ended search has emptied it.
LEMMA PhaseStep == BfsTypeOK /\ PhaseInv /\ [BfsNext]_bfsVars => PhaseInv'
<1> SUFFICES ASSUME BfsTypeOK, PhaseInv, [BfsNext]_bfsVars PROVE PhaseInv'
  OBVIOUS
<1> USE DEF PhaseInv
<1>1. nth \in Nat
  BY DEF BfsTypeOK
<1>2. ASSUME NEW f \in Nodes, NEW t \in Nodes, AddEdge(f, t) PROVE PhaseInv'
  BY <1>2 DEF AddEdge, queue, search
<1>3. CASE WriteMemfile \/ Finish \/ PathEnd \/ Answered
  BY <1>3 DEF WriteMemfile, Finish, PathEnd, Answered, queue, search
<1>4. CASE StartSearch
  BY <1>4 DEF StartSearch
<1>5. CASE Dequeue
  BY <1>5 DEF Dequeue
<1>6. CASE ExpandNext
  BY <1>1, <1>6 DEF ExpandNext
<1>7. CASE ExpandEnd \/ SearchEnd \/ PathNext
  BY <1>7 DEF ExpandEnd, SearchEnd, PathNext, queue
<1>8. CASE UNCHANGED bfsVars
  BY <1>8 DEF bfsVars, queue, search
<1> QED
  BY <1>2, <1>3, <1>4, <1>5, <1>6, <1>7, <1>8 DEF BfsNext

\* A step of a search leaves the graph alone, and with it what is reachable.
LEMMA ReachableFixed ==
  ASSUME UNCHANGED <<neigh, from, to>>
  PROVE  /\ \A n, m \in Nodes : IsEdge(n, m)' <=> IsEdge(n, m)
         /\ \A n \in Nodes : Reachable(from, n)' <=> Reachable(from, n)
         /\ Reachable(from, to)' <=> Reachable(from, to)
<1>1. \A n, m \in Nodes : IsEdge(n, m)' <=> IsEdge(n, m)
  BY DEF IsEdge
<1>2. \A S \in SUBSET Nodes : Closed(S)' <=> Closed(S)
  BY <1>1 DEF Closed
<1> QED
  BY <1>1, <1>2 DEF Reachable

\* The start of a search: only from is queued.
LEMMA StartQueued ==
  ASSUME BfsTypeOK, BfsTypeOK', StartSearch
  PROVE  /\ \A n \in Nodes : Queued(n)' <=> n = from'
         /\ \A n \in Nodes : Visited(n)' <=> n = from'
         /\ \A n \in Nodes : ~marked'[n] /\ ~Expanding(n)'
         /\ ~found'
<1>1. qhead' = 0 /\ qtail' = 1 /\ phase' = "loop" /\ ~found'
  BY DEF StartSearch
<1>2. 0 \in Nodes /\ \A s \in Nodes : LiveSlot(s)' <=> s = 0
  BY <1>1, GraphBfsAssumption DEF LiveSlot, Nodes
<1>3. ring'[0] = from'
  BY <1>2 DEF StartSearch, BfsTypeOK
<1>4. \A n \in Nodes : Queued(n)' <=> n = from'
  BY <1>2, <1>3 DEF Queued
<1>5. \A n \in Nodes : ~marked'[n] /\ ~Expanding(n)'
  BY <1>1 DEF StartSearch, ResetMarks, Expanding
<1> QED
  BY <1>1, <1>4, <1>5 DEF Visited

\* Every kind of step: which nodes it makes visited, and which it takes out.
LEMMA DequeueVisited ==
  ASSUME BfsTypeOK, BfsTypeOK', Dequeue
  PROVE  /\ \A m \in Nodes : Visited(m)' <=> Visited(m)
         /\ Visited(cur') /\ cur' \in Nodes
         /\ \A m \in Nodes : Expanding(m)' => m = cur'
<1>1. /\ phase = "loop" /\ qhead # qtail /\ cur' = ring[qhead]
      /\ phase' = IF Unexpanded(cur') THEN "expand" ELSE "loop"
      /\ qhead' = RingNext(qhead) /\ UNCHANGED <<ring, qtail, marked>>
  BY DEF Dequeue
<1>2. /\ cur' \in Nodes /\ Queued(cur')
      /\ \A m \in Nodes : Queued(m)' => Queued(m)
      /\ \A m \in Nodes : Queued(m) => Queued(m)' \/ m = cur'
  BY <1>1, DequeueQueued
<1>3. \A m \in Nodes : ~Expanding(m)
  BY <1>1 DEF Expanding
<1>4. \A m \in Nodes : Expanding(m)' <=> ~marked[m] /\ m = cur'
  BY <1>1 DEF Expanding, Unexpanded
<1> QED
  BY <1>1, <1>2, <1>3, <1>4 DEF Visited

LEMMA ExpandNextVisited ==
  ASSUME BfsTypeOK, BfsTypeOK', PhaseInv, ExpandNext,
         NEW CONSTANT n, n = neigh[cur][nth]
  PROVE  /\ n \in Nodes /\ IsEdge(cur, n)
         /\ \A m \in Nodes : Expanding(m)' <=> Expanding(m)
         /\ \A m \in Nodes : Visited(m)' => Visited(m) \/ m = n
         /\ ~lost' => ~lost /\ Visited(n)' /\ \A m \in Nodes : Visited(m) => Visited(m)'
<1>1. cur \in Nodes /\ nth \in 1 .. Len(neigh[cur])
  BY DEF ExpandNext, PhaseInv, BfsTypeOK
<1>2. n \in Nodes /\ IsEdge(cur, n)
  BY <1>1, NeighbourType
<1>3. Enqueue(n) /\ UNCHANGED <<qhead, phase, cur, marked>>
  BY DEF ExpandNext
<1>4. /\ \A m \in Nodes : Queued(m)' => Queued(m) \/ m = n
      /\ ~lost' => ~lost /\ Queued(n)' /\ \A m \in Nodes : Queued(m) => Queued(m)'
  BY <1>2, <1>3, EnqueueQueued
<1>5. \A m \in Nodes : Expanding(m)' <=> Expanding(m)
  BY <1>3 DEF Expanding
<1>6. \A m \in Nodes : Visited(m)' => Visited(m) \/ m = n
  BY <1>3, <1>4, <1>5 DEF Visited
<1>7. ~lost' => ~lost /\ Visited(n)' /\ \A m \in Nodes : Visited(m) => Visited(m)'
  BY <1>2, <1>3, <1>4, <1>5 DEF Visited
<1> QED
  BY <1>2, <1>5, <1>6, <1>7

\* The steps that leave the queue alone.
LEMMA QuietVisited ==
  ASSUME BfsTypeOK, UNCHANGED <<ring, qhead, qtail>>,
         \A m \in Nodes : (marked'[m] \/ Expanding(m)') <=> (marked[m] \/ Expanding(m))
  PROVE  \A m \in Nodes : Visited(m)' <=> Visited(m)
<1>1. \A m \in Nodes : Queued(m)' <=> Queued(m)
  BY DEF Queued, LiveSlot
<1> QED
  BY <1>1 DEF Visited

LEMMA OnlyReachableStep ==
  BfsTypeOK /\ BfsTypeOK' /\ PhaseInv /\ OnlyReachable /\ [BfsNext]_bfsVars => OnlyReachable'
<1> SUFFICES ASSUME BfsTypeOK, BfsTypeOK', PhaseInv, OnlyReachable, [BfsNext]_bfsVars
             PROVE  OnlyReachable'
  OBVIOUS
<1>0. from \in Nodes /\ to \in Nodes /\ cur \in Nodes /\ from' \in Nodes /\ to' \in Nodes
  BY DEF BfsTypeOK
<1>1. ASSUME NEW f \in Nodes, NEW t \in Nodes, AddEdge(f, t) PROVE OnlyReachable'
  BY <1>1 DEF AddEdge, search, OnlyReachable, Searching
<1>2. CASE WriteMemfile \/ Finish \/ Answered
  BY <1>2 DEF WriteMemfile, Finish, Answered, OnlyReachable, Searching
<1>3. CASE StartSearch
  <2>1. Reachable(from, from)'
    BY ReachableSelf DEF Reachable, Closed
  <2> QED
    BY <1>3, <2>1, StartQueued DEF OnlyReachable
<1>4. ASSUME Searching, UNCHANGED <<neigh, from, to>>, found' => found \/ Visited(to),
             \A m \in Nodes : Visited(m)' => Visited(m) \/ (Reachable(from, m))
      PROVE  OnlyReachable'
  BY <1>0, <1>4, ReachableFixed DEF OnlyReachable
<1>5. CASE Dequeue
  <2>1. Searching /\ UNCHANGED <<neigh, from, to>> /\ (found' => found \/ cur' = to)
    BY <1>5 DEF Dequeue, Searching, graph
  <2> QED
    BY <1>4, <1>5, <2>1, DequeueVisited
<1>6. CASE ExpandNext
  <2>1. Searching /\ UNCHANGED <<neigh, from, to, found>> /\ Expanding(cur)
    BY <1>6 DEF ExpandNext, Searching, graph, Expanding
  <2>2. Reachable(from, cur)
    BY <1>0, <2>1 DEF OnlyReachable, Visited
  <2>3. PICK n : n = neigh[cur][nth]
    OBVIOUS
  <2>4. n \in Nodes /\ IsEdge(cur, n) /\ \A m \in Nodes : Visited(m)' => Visited(m) \/ m = n
    BY <1>6, <2>3, ExpandNextVisited
  <2>5. Reachable(from, n)
    BY <1>0, <2>2, <2>4, ReachableEdge
  <2> QED
    BY <1>4, <2>1, <2>4, <2>5
<1>7. CASE ExpandEnd
  <2>1. Searching /\ UNCHANGED <<neigh, from, to, found, ring, qhead, qtail>>
    BY <1>7 DEF ExpandEnd, Searching, graph, queue
  <2>2. \A m \in Nodes : (marked'[m] \/ Expanding(m)') <=> (marked[m] \/ Expanding(m))
    BY <1>7 DEF ExpandEnd, Expanding, BfsTypeOK
  <2> QED
    BY <1>4, <2>1, <2>2, QuietVisited
<1>8. CASE SearchEnd \/ PathNext \/ PathEnd
  <2>1. Searching /\ UNCHANGED <<neigh, from, to, found, ring, qhead, qtail, marked>>
    BY <1>8 DEF SearchEnd, PathNext, PathEnd, Searching, graph, queue, search
  <2>2. \A m \in Nodes : ~Expanding(m) /\ ~Expanding(m)'
    BY <1>8 DEF SearchEnd, PathNext, PathEnd, Expanding
  <2> QED
    BY <1>4, <2>1, <2>2, QuietVisited
<1>9. CASE UNCHANGED bfsVars
  <2>1. /\ Searching' <=> Searching
        /\ UNCHANGED <<neigh, from, to, found, ring, qhead, qtail, marked, phase, cur>>
    BY <1>9 DEF bfsVars, graph, queue, search, Searching
  <2>2. \A m \in Nodes : Expanding(m)' <=> Expanding(m)
    BY <2>1 DEF Expanding
  <2>3. \A m \in Nodes : Visited(m)' <=> Visited(m)
    BY <2>1, <2>2, QuietVisited
  <2> QED
    BY <1>4, <2>1, <2>3 DEF OnlyReachable
<1> QED
  BY <1>1, <1>2, <1>3, <1>5, <1>6, <1>7, <1>8, <1>9 DEF BfsNext

LEMMA NothingMissedStep ==
  BfsTypeOK /\ BfsTypeOK' /\ PhaseInv /\ NothingMissed /\ [BfsNext]_bfsVars => NothingMissed'
<1> SUFFICES ASSUME BfsTypeOK, BfsTypeOK', PhaseInv, NothingMissed, [BfsNext]_bfsVars,
                    Searching', ~lost'
             PROVE  NothingMissed'
  BY DEF NothingMissed
<1>0. /\ from \in Nodes /\ to \in Nodes /\ cur \in Nodes /\ from' \in Nodes /\ to' \in Nodes
      /\ nth \in Nat
  BY DEF BfsTypeOK
<1>1. ASSUME NEW f \in Nodes, NEW t \in Nodes, AddEdge(f, t) PROVE FALSE
  BY <1>1 DEF AddEdge, Searching
<1>2. ASSUME WriteMemfile \/ Finish \/ Answered PROVE FALSE
  BY <1>2 DEF WriteMemfile, Finish, Answered, Searching
<1>3. CASE StartSearch
  <2>1. phase' = "loop"
    BY <1>3 DEF StartSearch
  <2> QED
    BY <1>0, <1>3, <2>1, StartQueued DEF NothingMissed
<1>4. CASE Dequeue
  <2>1. /\ Searching /\ UNCHANGED <<neigh, from, to, lost, marked>> /\ nth' = 1
        /\ found' = (found \/ cur' = to)
    BY <1>4 DEF Dequeue, Searching, graph
  <2>2. \A m \in Nodes : ~Handled(m)'
    BY <2>1 DEF Handled
  <2> QED
    BY <1>0, <1>4, <2>1, <2>2, DequeueVisited, ReachableFixed DEF NothingMissed
<1>5. CASE ExpandNext
  <2>1. /\ Searching /\ UNCHANGED <<neigh, from, to, marked, found, cur, phase>>
        /\ phase = "expand" /\ nth' = nth + 1
    BY <1>5 DEF ExpandNext, Searching, graph
  <2>n. PICK n : n = neigh[cur][nth]
    OBVIOUS
  <2>2. ~lost /\ Visited(n)' /\ \A m \in Nodes : Visited(m) => Visited(m)'
    BY <1>5, <2>n, ExpandNextVisited
  <2>3. \A m \in Nodes : Expanding(m)' <=> Expanding(m)
    BY <1>5, <2>n, ExpandNextVisited
  <2>4. \A m \in Nodes : Handled(m)' => Handled(m) \/ m = n
    BY <1>0, <2>n, <2>1 DEF Handled
  <2>5. Visited(from)' /\ (marked'[to'] \/ Expanding(to)' => found')
    BY <1>0, <2>1, <2>2, <2>3 DEF NothingMissed
  <2>6. \A a, b \in Nodes : marked'[a] /\ IsEdge(a, b)' => Visited(b)'
    BY <2>1, <2>2, ReachableFixed DEF NothingMissed
  <2> QED
    BY <2>1, <2>2, <2>4, <2>5, <2>6 DEF NothingMissed
<1>6. CASE ExpandEnd
  <2>1. /\ Searching /\ UNCHANGED <<neigh, from, to, found, ring, qhead, qtail, lost>>
        /\ phase = "expand" /\ nth > Len(neigh[cur]) /\ phase' = "loop"
        /\ marked' = [marked EXCEPT ![cur] = TRUE]
    BY <1>6 DEF ExpandEnd, Searching, graph, queue
  <2>2. \A m \in Nodes : /\ (marked'[m] \/ Expanding(m)') <=> (marked[m] \/ Expanding(m))
                         /\ ~Expanding(m)'
    BY <2>1 DEF Expanding, BfsTypeOK
  <2>3. \A m \in Nodes : Visited(m)' <=> Visited(m)
    BY <2>1, <2>2, QuietVisited
  <2>4. \A m \in Nodes : IsEdge(cur, m) => Visited(m)
    <3> SUFFICES ASSUME NEW m \in Nodes, IsEdge(cur, m) PROVE Visited(m)
      OBVIOUS
    <3>1. Handled(m)
      BY <1>0, <2>1 DEF IsEdge, Handled, BfsTypeOK
    <3> QED
      BY <2>1, <3>1 DEF NothingMissed
  <2>5. \A n, m \in Nodes : marked'[n] /\ IsEdge(n, m)' => Visited(m)'
    <3> SUFFICES ASSUME NEW n \in Nodes, NEW m \in Nodes, marked'[n], IsEdge(n, m)
                 PROVE  Visited(m)
      BY <2>1, <2>3, ReachableFixed
    <3>1. marked[n] \/ n = cur
      BY <2>1 DEF BfsTypeOK
    <3> QED
      BY <2>1, <2>4, <3>1 DEF NothingMissed
  <2>6. Visited(from)' /\ (marked'[to'] \/ Expanding(to)' => found')
    BY <1>0, <2>1, <2>2, <2>3 DEF NothingMissed
  <2> QED
    BY <2>1, <2>5, <2>6 DEF NothingMissed
<1>7. CASE SearchEnd \/ PathNext \/ PathEnd
  <2>1. /\ Searching
        /\ UNCHANGED <<neigh, from, to, found, ring, qhead, qtail, marked, lost>>
        /\ phase # "expand" /\ phase' # "expand"
    BY <1>7 DEF SearchEnd, PathNext, PathEnd, Searching, graph, queue, search
  <2>2. \A m \in Nodes : ~Expanding(m) /\ ~Expanding(m)'
    BY <2>1 DEF Expanding
  <2>3. \A m \in Nodes : Visited(m)' <=> Visited(m)
    BY <2>1, <2>2, QuietVisited
  <2> QED
    BY <1>0, <2>1, <2>2, <2>3, ReachableFixed DEF NothingMissed
<1>8. CASE UNCHANGED bfsVars
  <2>1. /\ Searching /\ ~lost
        /\ UNCHANGED <<neigh, from, to, found, ring, qhead, qtail, marked, lost, phase, cur, nth>>
    BY <1>8 DEF bfsVars, graph, queue, search, Searching
  <2>2. \A m \in Nodes : Expanding(m)' <=> Expanding(m)
    BY <2>1 DEF Expanding
  <2>3. \A m \in Nodes : Visited(m)' <=> Visited(m)
    BY <2>1, <2>2, QuietVisited
  <2>4. \A m \in Nodes : Handled(m)' <=> Handled(m)
    BY <2>1 DEF Handled
  <2>6. /\ Visited(from)' /\ (marked'[to'] \/ Expanding(to)' => found')
        /\ \A n, m \in Nodes : marked'[n] /\ IsEdge(n, m)' => Visited(m)'
    BY <1>0, <2>1, <2>2, <2>3, ReachableFixed DEF NothingMissed
  <2> QED
    BY <2>1, <2>3, <2>4, <2>6 DEF NothingMissed
<1> QED
  BY <1>1, <1>2, <1>3, <1>4, <1>5, <1>6, <1>7, <1>8 DEF BfsNext

-----------------------------------------------------------------------------
(* The theorems *)

\* The inductive invariant of the search: the queue, the marks and the node in
\* work are exactly the visited nodes, all of them reachable, none dropped.
THEOREM SearchInvariance == BfsSpec => []BfsInv
<1>1. BfsInit => BfsInv
  BY TypesInitial DEF BfsInit, BfsInv, PhaseInv, OnlyReachable, NothingMissed, Searching
<1>2. BfsInv /\ [BfsNext]_bfsVars => BfsInv'
  BY TypesStep, PhaseStep, OnlyReachableStep, NothingMissedStep DEF BfsInv
<1> QED
  BY <1>1, <1>2, PTL DEF BfsSpec

\* For every graph, bfs_reachable returns true exactly if the destination can be
\* reached, unless the ring of G_SIZE slots has overflowed.
THEOREM ReachabilityCorrect == BfsSpec => []FoundIsReachable
<1>1. BfsInv => FoundIsReachable
  <2> SUFFICES ASSUME BfsInv, phase = "answer", ~lost PROVE found <=> Reachable(from, to)
    BY DEF FoundIsReachable
  <2>1. from \in Nodes /\ to \in Nodes /\ qhead = qtail
    BY DEF BfsInv, BfsTypeOK, PhaseInv
  <2>2. \A n \in Nodes : Visited(n) <=> marked[n]
    BY <2>1, EmptyQueue DEF BfsInv, Visited, Expanding
  <2>3. found => Reachable(from, to)
    BY DEF BfsInv, OnlyReachable, Searching
  <2>4. ASSUME Reachable(from, to) PROVE found
    <3> DEFINE Marked == {n \in Nodes : marked[n]}
    <3>1. from \in Marked /\ Closed(Marked)
      BY <2>1, <2>2 DEF BfsInv, NothingMissed, Searching, Closed
    <3>2. to \in Marked
      BY <2>4, <3>1 DEF Reachable
    <3> QED
      BY <3>2 DEF BfsInv, NothingMissed, Searching
  <2> QED
    BY <2>3, <2>4
<1> QED
  BY <1>1, SearchInvariance, PTL

\* The number of every node, ring slot and neighbour stays in its array.
THEOREM SearchTypes == BfsSpec => []BfsTypeOK
<1>1. BfsInv => BfsTypeOK
  BY DEF BfsInv
<1> QED
  BY <1>1, SearchInvariance, PTL

-----------------------------------------------------------------------------
(* The path *)

LEMMA ParentsStep ==
  BfsTypeOK /\ BfsTypeOK' /\ PhaseInv /\ ParentsAreEdges /\ [BfsNext]_bfsVars => ParentsAreEdges'
<1> SUFFICES ASSUME BfsTypeOK, BfsTypeOK', PhaseInv, ParentsAreEdges, [BfsNext]_bfsVars,
                    Searching'
             PROVE  ParentsAreEdges'
  BY DEF ParentsAreEdges
<1>0. /\ from \in Nodes /\ to \in Nodes /\ cur \in Nodes /\ from' \in Nodes /\ to' \in Nodes
      /\ parent \in [Nodes -> Nodes] /\ parent' \in [Nodes -> Nodes]
  BY DEF BfsTypeOK
<1>1. ASSUME NEW f \in Nodes, NEW t \in Nodes, AddEdge(f, t) PROVE FALSE
  BY <1>1 DEF AddEdge, Searching
<1>2. ASSUME WriteMemfile \/ Finish \/ Answered PROVE FALSE
  BY <1>2 DEF WriteMemfile, Finish, Answered, Searching
<1>3. CASE StartSearch
  <2>1. parent' = [n \in Nodes |-> n]
    BY <1>3 DEF StartSearch
  <2> QED
    BY <1>3, <2>1, StartQueued DEF ParentsAreEdges
<1>4. ASSUME Searching, UNCHANGED <<neigh, from, to, parent>>,
             \A m \in Nodes : Visited(m)' => Visited(m),
             \A m \in Nodes : marked[m] \/ Expanding(m) => marked'[m] \/ Expanding(m)',
             found' => found \/ marked'[to] \/ Expanding(to)'
      PROVE  ParentsAreEdges'
  BY <1>0, <1>4, ReachableFixed DEF ParentsAreEdges
<1>5. CASE Dequeue
  <2>1. /\ Searching /\ UNCHANGED <<neigh, from, to, parent, marked>>
        /\ phase = "loop" /\ found' = (found \/ cur' = to)
        /\ phase' = IF Unexpanded(cur') THEN "expand" ELSE "loop"
    BY <1>5 DEF Dequeue, Searching, graph
  <2>2. \A m \in Nodes : ~Expanding(m)
    BY <2>1 DEF Expanding
  <2>3. marked'[cur'] \/ (\A m \in Nodes : m = cur' => Expanding(m)')
    BY <2>1 DEF Expanding, Unexpanded
  <2> QED
    BY <1>0, <1>4, <1>5, <2>1, <2>2, <2>3, DequeueVisited
<1>6. CASE ExpandNext
  <2>1. PICK n : n = neigh[cur][nth]
    OBVIOUS
  <2>2. /\ Searching /\ UNCHANGED <<neigh, from, to, found, marked, cur, phase>>
        /\ parent' = IF NewParent(n) THEN [parent EXCEPT ![n] = cur] ELSE parent
        /\ Expanding(cur)
    BY <1>6, <2>1 DEF ExpandNext, Searching, graph, Expanding
  <2>3. /\ n \in Nodes /\ IsEdge(cur, n)
        /\ \A m \in Nodes : Expanding(m)' <=> Expanding(m)
        /\ \A m \in Nodes : Visited(m)' => Visited(m) \/ m = n
    BY <1>6, <2>1, ExpandNextVisited
  <2>4. \A m \in Nodes : parent'[m] # parent[m] => m = n /\ parent'[n] = cur /\ parent[n] = n
    BY <1>0, <2>2, <2>3 DEF NewParent
  <2>5. \A m \in Nodes : parent'[m] # m =>
          IsEdge(parent'[m], m) /\ (marked[parent'[m]] \/ Expanding(parent'[m]))
    BY <1>0, <2>2, <2>3, <2>4 DEF ParentsAreEdges
  <2>6. \A k, m \in Nodes : k = parent'[m] /\ k # m =>
          IsEdge(k, m)' /\ (marked'[k] \/ Expanding(k)')
    BY <1>0, <2>2, <2>3, <2>5, ReachableFixed
  <2>7. cur # from => parent[cur] # cur
    BY <1>0, <2>2 DEF ParentsAreEdges, Visited
  <2>8. n # from => parent'[n] # n
    BY <1>0, <2>2, <2>3, <2>7 DEF NewParent
  <2>9. \A m \in Nodes : Visited(m)' /\ m # from' => parent'[m] # m
    BY <1>0, <2>2, <2>3, <2>4, <2>8 DEF ParentsAreEdges
  <2>10. found' => marked'[to'] \/ Expanding(to)'
    BY <1>0, <2>2, <2>3 DEF ParentsAreEdges
  <2>11. \A m \in Nodes : (parent[m] # m =>
           IsEdge(parent[m], m) /\ (marked[parent[m]] \/ Expanding(parent[m])))'
    BY <1>0, <2>6 DEF IsEdge, Expanding
  <2> QED
    BY <2>9, <2>10, <2>11 DEF ParentsAreEdges
<1>7. CASE ExpandEnd
  <2>1. Searching /\ UNCHANGED <<neigh, from, to, found, ring, qhead, qtail, parent>>
    BY <1>7 DEF ExpandEnd, Searching, graph, queue
  <2>2. \A m \in Nodes : (marked'[m] \/ Expanding(m)') <=> (marked[m] \/ Expanding(m))
    BY <1>7 DEF ExpandEnd, Expanding, BfsTypeOK
  <2> QED
    BY <1>4, <2>1, <2>2, QuietVisited
<1>8. CASE SearchEnd \/ PathNext \/ PathEnd
  <2>1. Searching /\ UNCHANGED <<neigh, from, to, found, ring, qhead, qtail, marked, parent>>
    BY <1>8 DEF SearchEnd, PathNext, PathEnd, Searching, graph, queue, search
  <2>2. \A m \in Nodes : ~Expanding(m) /\ ~Expanding(m)'
    BY <1>8 DEF SearchEnd, PathNext, PathEnd, Expanding
  <2> QED
    BY <1>4, <2>1, <2>2, QuietVisited
<1>9. CASE UNCHANGED bfsVars
  <2>1. /\ Searching
        /\ UNCHANGED <<neigh, from, to, found, ring, qhead, qtail, marked, phase, cur, parent>>
    BY <1>9 DEF bfsVars, graph, queue, search, Searching
  <2>2. \A m \in Nodes : Expanding(m)' <=> Expanding(m)
    BY <2>1 DEF Expanding
  <2>3. \A m \in Nodes : Visited(m)' <=> Visited(m)
    BY <2>1, <2>2, QuietVisited
  <2> QED
    BY <1>4, <2>1, <2>2, <2>3
<1> QED
  BY <1>1, <1>2, <1>3, <1>5, <1>6, <1>7, <1>8, <1>9 DEF BfsNext

LEMMA PathStep ==
  /\ BfsTypeOK /\ BfsTypeOK' /\ PhaseInv /\ ParentsAreEdges /\ PathSoFar
  /\ [BfsNext]_bfsVars
  => PathSoFar'
<1> SUFFICES ASSUME BfsTypeOK, BfsTypeOK', PhaseInv, ParentsAreEdges, PathSoFar,
                    [BfsNext]_bfsVars
             PROVE  PathSoFar'
  OBVIOUS
<1>0. /\ from \in Nodes /\ to \in Nodes /\ cur \in Nodes /\ path \in Seq(Nodes)
      /\ parent \in [Nodes -> Nodes] /\ (qhead = qtail => \A n \in Nodes : ~Queued(n))
  BY EmptyQueue DEF BfsTypeOK
<1>1. ASSUME NEW f \in Nodes, NEW t \in Nodes, AddEdge(f, t) PROVE PathSoFar'
  BY <1>1 DEF AddEdge, search, PathSoFar
<1>2. CASE WriteMemfile \/ Finish \/ Answered
  BY <1>2 DEF WriteMemfile, Finish, Answered, PathSoFar
<1>3. CASE StartSearch
  BY <1>3 DEF StartSearch, PathSoFar
<1>4. CASE Dequeue \/ ExpandNext \/ ExpandEnd
  <2>1. UNCHANGED path /\ phase \in {"loop", "expand"} /\ phase' \in {"loop", "expand"}
    BY <1>4 DEF Dequeue, ExpandNext, ExpandEnd
  <2> QED
    BY <2>1 DEF PathSoFar
<1>5. CASE SearchEnd
  <2>1. /\ phase = "loop" /\ path = << >> /\ UNCHANGED <<path, found, marked, to, from>>
        /\ phase' \in {"path", "answer"} /\ (found => cur' = to /\ phase' = "path")
        /\ (~found => phase' = "answer")
    BY <1>5 DEF SearchEnd, PathSoFar
  <2>2. found => marked[to]
    BY <2>1 DEF ParentsAreEdges, Searching, Expanding
  <2> QED
    BY <2>1, <2>2 DEF PathSoFar
<1>6. CASE PathNext
  <2>1. /\ phase = "path" /\ cur # from /\ path' = Append(path, cur) /\ cur' = parent[cur]
        /\ UNCHANGED <<neigh, phase, from, to, marked, parent, found>>
    BY <1>6 DEF PathNext, graph
  <2>2. marked[cur] /\ parent[cur] # cur
    BY <1>0, <2>1 DEF PathSoFar, ParentsAreEdges, Searching, Visited
  <2>3. IsEdge(parent[cur], cur) /\ marked[parent[cur]]
    BY <1>0, <2>1, <2>2 DEF ParentsAreEdges, Searching, Expanding
  <2>4. /\ Len(path') = Len(path) + 1 /\ path'[Len(path')] = cur /\ path' # << >>
        /\ \A i \in 1 .. Len(path) : path'[i] = path[i]
        /\ Len(path) \in Nat /\ (path # << >> <=> Len(path) >= 1)
    BY <1>0, <2>1
  <2>5. path'[1] = to'
    BY <2>1, <2>4 DEF PathSoFar
  <2>6. \A i \in 1 .. Len(path') - 1 : IsEdge(path'[i + 1], path'[i])
    <3> SUFFICES ASSUME NEW i \in 1 .. Len(path) PROVE IsEdge(path'[i + 1], path'[i])
      BY <2>4
    <3>1. CASE i = Len(path)
      BY <2>1, <2>4, <3>1 DEF PathSoFar
    <3>2. CASE i # Len(path)
      <4>1. i \in 1 .. Len(path) - 1 /\ i + 1 \in 1 .. Len(path)
        BY <2>4, <3>2
      <4> QED
        BY <2>1, <2>4, <4>1 DEF PathSoFar
    <3> QED
      BY <3>1, <3>2
  <2>7. (\A i \in 1 .. Len(path) - 1 : IsEdge(path[i + 1], path[i]))'
    BY <2>1, <2>6 DEF IsEdge
  <2>8. IsEdge(cur, path[Len(path)])'
    BY <2>1, <2>3, <2>4 DEF IsEdge
  <2> QED
    BY <2>1, <2>3, <2>4, <2>5, <2>7, <2>8 DEF PathSoFar
<1>7. CASE PathEnd
  <2>1. /\ phase = "path" /\ phase' = "answer" /\ cur = from
        /\ UNCHANGED <<neigh, path, from, to, found>>
    BY <1>7 DEF PathEnd, graph, search
  <2>2. /\ path = << >> => from = to
        /\ path # << >> => IsEdge(from, path[Len(path)]) /\ path[1] = to
        /\ \A i \in 1 .. Len(path) - 1 : IsEdge(path[i + 1], path[i])
    BY <2>1 DEF PathSoFar
  <2> QED
    BY <2>1, <2>2 DEF PathSoFar, IsEdge
<1>8. CASE UNCHANGED bfsVars
  <2>1. UNCHANGED <<neigh, from, to, found, marked, phase, cur, path>>
    BY <1>8 DEF bfsVars, graph, search
  <2> QED
    BY <2>1 DEF PathSoFar, IsEdge
<1> QED
  BY <1>1, <1>2, <1>3, <1>4, <1>5, <1>6, <1>7, <1>8 DEF BfsNext

\* What the search prints is a path of the graph from the start to the destination,
\* whether or not the ring has overflowed.
THEOREM PathCorrect == BfsSpec => []PathIsReal
<1>1. BfsInit => PathInv
  BY DEF BfsInit, EmptyGraph, PathInv, ParentsAreEdges, PathSoFar, Searching
<1>2. BfsInv /\ BfsInv' /\ PathInv /\ [BfsNext]_bfsVars => PathInv'
  BY ParentsStep, PathStep DEF BfsInv, PathInv
<1>3. BfsInv /\ PathInv => PathIsReal
  <2> SUFFICES ASSUME BfsInv, PathInv, phase = "answer", found PROVE PathIsReal
    BY DEF PathIsReal
  <2>1. /\ path \in Seq(Nodes) /\ Len(path) \in Nat /\ (path = << >> <=> Len(path) = 0)
        /\ path = << >> => from = to
        /\ path # << >> => IsEdge(from, path[Len(path)]) /\ path[1] = to
        /\ \A i \in 1 .. Len(path) - 1 : IsEdge(path[i + 1], path[i])
    BY DEF BfsInv, BfsTypeOK, PathInv, PathSoFar
  <2>2. way(Len(path)) = to
    BY <2>1 DEF way
  <2>3. ASSUME NEW i \in 1 .. Len(path) PROVE IsEdge(way(i - 1), way(i))
    <3>1. CASE i = 1
      BY <2>1, <3>1 DEF way
    <3>2. CASE i # 1
      <4> DEFINE j == Len(path) + 1 - i
      <4>1. j \in 1 .. Len(path) - 1 /\ way(i) = path[j] /\ way(i - 1) = path[j + 1]
        BY <2>1, <3>2 DEF way
      <4> QED
        BY <2>1, <4>1
    <3> QED
      BY <3>1, <3>2
  <2> QED
    BY <2>2, <2>3 DEF PathIsReal
<1> QED
  BY <1>1, <1>2, <1>3, SearchInvariance, PTL DEF BfsSpec

-----------------------------------------------------------------------------
(* The path is a shortest one *)

Expanded(n) == marked[n] \/ Expanding(n)

\* The nodes are ranked in the order in which they were taken to be expanded; the
\* ranks go down along the parents, so the way back meets no node twice.
RankFits(rank, R) ==
  /\ \A n \in Nodes : Expanded(n) => rank[n] <= R
  /\ \A n \in Nodes : Expanded(n) /\ n # from => rank[parent[n]] < rank[n]
  /\ \A i \in 1 .. Len(path) : path[i] # from
  /\ \A i, j \in 1 .. Len(path) : i < j => rank[path[j]] < rank[path[i]]
  /\ phase = "path" => \A i \in 1 .. Len(path) : rank[cur] < rank[path[i]]
RankInv == Searching => \E rank \in [Nodes -> Nat], R \in Nat : RankFits(rank, R)

\* The place of a slot behind the head.
Pos(s) == IF s >= qhead THEN s - qhead ELSE s + GSize - qhead

\* The queue holds neighbours of nodes of level L, found on level L + 1, behind b
\* slots that were filled from level L - 1.  A node may be in the queue more than
\* once, or after it was expanded: its level is that of its first slot.
SlotLevel(s, L, b) == IF Pos(s) < b THEN L ELSE L + 1

QueueLevels(lev, L, b) ==
  /\ b <= Pos(qtail)
  /\ \A s \in Nodes : LiveSlot(s) => lev[ring[s]] <= SlotLevel(s, L, b)
  /\ \A n \in Nodes : ~Expanded(n) /\ Queued(n) =>
       \E s \in Nodes : LiveSlot(s) /\ ring[s] = n /\ lev[n] = SlotLevel(s, L, b)
TreeLevels(lev, L) ==
  /\ lev[from] = 0
  /\ \A n \in Nodes : Expanded(n) => lev[n] <= L
  /\ \A n \in Nodes : Expanding(n) => lev[n] = L
  /\ \A n \in Nodes : Visited(n) /\ n # from => lev[n] = lev[parent[n]] + 1
  /\ \A n \in Nodes : parent[n] # n => Visited(n)
EdgeLevels(lev, L) ==
  /\ \A n, m \in Nodes : marked[n] /\ IsEdge(n, m) => lev[m] <= lev[n] + 1
  /\ phase = "expand" => \A m \in Nodes : Handled(m) => lev[m] <= L + 1
WayLevels(lev) ==
  /\ phase \in {"loop", "expand"} => path = << >>
  /\ phase = "path" => lev[cur] + Len(path) = lev[to]
  /\ phase = "answer" /\ found => Len(path) = lev[to]
LevelsFit(lev, L, b) ==
  QueueLevels(lev, L, b) /\ TreeLevels(lev, L) /\ EdgeLevels(lev, L) /\ WayLevels(lev)
LevelInv ==
  Searching /\ ~lost =>
    \E lev \in [Nodes -> Nat], L \in Nat, b \in Nat : LevelsFit(lev, L, b)

LEMMA ExpandedDequeue ==
  ASSUME BfsTypeOK, BfsTypeOK', Dequeue
  PROVE  /\ \A m \in Nodes : Expanded(m)' <=> Expanded(m) \/ m = cur'
         /\ \A m \in Nodes : Expanded(m) <=> marked[m]
         /\ \A m \in Nodes : Expanding(m)' <=> m = cur' /\ ~marked[m]
         /\ cur' = ring[qhead] /\ cur' \in Nodes
<1>1. /\ phase = "loop" /\ cur' = ring[qhead] /\ UNCHANGED marked
      /\ phase' = IF Unexpanded(cur') THEN "expand" ELSE "loop"
  BY DEF Dequeue
<1>2. cur' \in Nodes
  BY DEF BfsTypeOK
<1> QED
  BY <1>1, <1>2 DEF Expanded, Expanding, Unexpanded

LEMMA RankStart == StartSearch /\ BfsTypeOK /\ BfsTypeOK' => RankInv'
<1> SUFFICES ASSUME StartSearch, BfsTypeOK, BfsTypeOK' PROVE RankInv'
  OBVIOUS
<1> DEFINE rank == [n \in Nodes |-> 0]
<1>1. path' = << >> /\ phase' = "loop"
  BY DEF StartSearch
<1>2. \A n \in Nodes : ~Expanded(n)'
  BY StartQueued DEF Expanded
<1>3. RankFits(rank, 0)'
  BY <1>1, <1>2 DEF RankFits
<1>4. rank \in [Nodes -> Nat] /\ 0 \in Nat
  OBVIOUS
<1> QED
  BY <1>3, <1>4 DEF RankInv

LEMMA RankDequeue ==
  BfsTypeOK /\ BfsTypeOK' /\ ParentsAreEdges /\ PathSoFar /\ RankInv /\ Dequeue => RankInv'
<1> SUFFICES ASSUME BfsTypeOK, BfsTypeOK', ParentsAreEdges, PathSoFar, RankInv, Dequeue
             PROVE  RankInv'
  OBVIOUS
<1>1. /\ phase = "loop" /\ phase' \in {"loop", "expand"} /\ path = << >>
      /\ UNCHANGED <<path, parent, from>> /\ Searching
  BY DEF Dequeue, PathSoFar, Searching
<1>2. PICK rank \in [Nodes -> Nat], R \in Nat : RankFits(rank, R)
  BY <1>1 DEF RankInv
<1>3. /\ \A m \in Nodes : Expanded(m)' <=> Expanded(m) \/ m = cur'
      /\ \A m \in Nodes : Expanded(m) <=> marked[m]
      /\ cur' \in Nodes
  BY ExpandedDequeue
<1>4. CASE Expanded(cur')
  <2>1. RankFits(rank, R)'
    BY <1>1, <1>2, <1>3, <1>4 DEF RankFits
  <2> QED
    BY <1>2, <2>1 DEF RankInv
<1>5. CASE ~Expanded(cur')
  <2>0. PICK c \in Nodes : c = cur'
    BY <1>3
  <2> DEFINE new == [rank EXCEPT ![c] = R + 1]
  <2>1. new \in [Nodes -> Nat] /\ R + 1 \in Nat
    BY <1>2, <1>3
  <2>2. parent \in [Nodes -> Nodes]
    BY DEF BfsTypeOK
  <2>3. \A n \in Nodes : Expanded(n)' => new[n] <= R + 1
    BY <1>2, <1>3, <2>0 DEF RankFits
  <2>4. ASSUME NEW n \in Nodes, Expanded(n)', n # from PROVE new[parent[n]] < new[n]
    <3>1. Visited(n)
      BY <1>3, <2>4, DequeueVisited DEF Visited, Expanded
    <3>2. parent[n] # n /\ Expanded(parent[n]) /\ parent[n] \in Nodes
      BY <2>2, <2>4, <3>1, <1>1 DEF ParentsAreEdges, Expanded
    <3>3. rank[parent[n]] <= R /\ new[parent[n]] = rank[parent[n]]
      BY <1>2, <1>5, <2>0, <3>2 DEF RankFits
    <3>4. CASE n = c
      BY <1>2, <3>2, <3>3, <3>4
    <3>5. CASE n # c
      BY <1>2, <1>3, <2>0, <2>4, <3>3, <3>5 DEF RankFits
    <3> QED
      BY <3>4, <3>5
  <2> HIDE DEF new
  <2>5. RankFits(new, R + 1)'
    BY <1>1, <2>3, <2>4 DEF RankFits
  <2> QED
    BY <2>1, <2>5 DEF RankInv
<1> QED
  BY <1>4, <1>5

LEMMA RankExpandNext ==
  /\ BfsTypeOK /\ BfsTypeOK' /\ PhaseInv /\ ParentsAreEdges /\ PathSoFar /\ RankInv
  /\ ExpandNext
  => RankInv'
<1> SUFFICES ASSUME BfsTypeOK, BfsTypeOK', PhaseInv, ParentsAreEdges, PathSoFar, RankInv,
                    ExpandNext
             PROVE  RankInv'
  OBVIOUS
<1>n. PICK n : n = neigh[cur][nth]
  OBVIOUS
<1>1. /\ phase = "expand" /\ path = << >> /\ Searching
      /\ UNCHANGED <<path, from, marked, cur, phase>>
      /\ parent' = IF NewParent(n) THEN [parent EXCEPT ![n] = cur] ELSE parent
  BY <1>n DEF ExpandNext, PathSoFar, Searching
<1>2. n \in Nodes /\ \A m \in Nodes : Expanding(m)' <=> Expanding(m)
  BY <1>n, ExpandNextVisited
<1>3. PICK rank \in [Nodes -> Nat], R \in Nat : RankFits(rank, R)
  BY <1>1 DEF RankInv
<1>4. \A m \in Nodes : Expanded(m)' <=> Expanded(m)
  BY <1>1, <1>2 DEF Expanded
<1>5. parent \in [Nodes -> Nodes]
  BY DEF BfsTypeOK
<1>6. ASSUME NEW m \in Nodes, Expanded(m), m # from PROVE rank[parent'[m]] < rank[m]
  <2>1. parent[m] # m
    BY <1>1, <1>6 DEF ParentsAreEdges, Visited, Expanded
  <2>2. parent'[m] = parent[m]
    BY <1>1, <1>2, <1>5, <2>1 DEF NewParent
  <2> QED
    BY <1>3, <1>6, <2>2 DEF RankFits
<1>7. RankFits(rank, R)'
  BY <1>1, <1>3, <1>4, <1>6 DEF RankFits
<1> QED
  BY <1>3, <1>7 DEF RankInv

LEMMA RankPathNext ==
  BfsTypeOK /\ BfsTypeOK' /\ ParentsAreEdges /\ PathSoFar /\ RankInv /\ PathNext => RankInv'
<1> SUFFICES ASSUME BfsTypeOK, BfsTypeOK', ParentsAreEdges, PathSoFar, RankInv, PathNext
             PROVE  RankInv'
  OBVIOUS
<1>1. /\ phase = "path" /\ cur # from /\ path' = Append(path, cur) /\ cur' = parent[cur]
      /\ UNCHANGED <<phase, from, marked, parent>> /\ Searching
  BY DEF PathNext, Searching
<1>2. PICK rank \in [Nodes -> Nat], R \in Nat : RankFits(rank, R)
  BY <1>1 DEF RankInv
<1>0. path \in Seq(Nodes) /\ cur \in Nodes /\ parent \in [Nodes -> Nodes]
  BY DEF BfsTypeOK
<1>3. /\ path \in Seq(Nodes) /\ Len(path) \in Nat /\ cur \in Nodes /\ cur' \in Nodes
      /\ parent \in [Nodes -> Nodes]
  BY <1>0, <1>1
<1>4. /\ Len(path') = Len(path) + 1 /\ path'[Len(path) + 1] = cur
      /\ \A i \in 1 .. Len(path) : path'[i] = path[i] /\ path[i] \in Nodes
  BY <1>1, <1>3
<1>5. \A m \in Nodes : Expanded(m)' <=> Expanded(m)
  BY <1>1 DEF Expanded, Expanding
<1>6. marked[cur] /\ Expanded(cur)
  BY <1>1 DEF PathSoFar, Expanded
<1>7. rank[cur'] < rank[cur]
  BY <1>1, <1>2, <1>3, <1>6 DEF RankFits
<1>8. \A i \in 1 .. Len(path') : path'[i] # from
  BY <1>1, <1>2, <1>3, <1>4 DEF RankFits
<1>9. ASSUME NEW i \in 1 .. Len(path'), NEW j \in 1 .. Len(path'), i < j
      PROVE  rank[path'[j]] < rank[path'[i]]
  <2>1. i \in 1 .. Len(path) /\ path'[i] = path[i]
    BY <1>3, <1>4, <1>9
  <2>2. CASE j = Len(path) + 1
    BY <1>1, <1>2, <1>4, <2>1, <2>2 DEF RankFits
  <2>3. CASE j # Len(path) + 1
    <3>1. j \in 1 .. Len(path) /\ path'[j] = path[j]
      BY <1>3, <1>4, <2>3
    <3> QED
      BY <1>2, <1>9, <2>1, <3>1 DEF RankFits
  <2> QED
    BY <2>2, <2>3
<1>10. ASSUME NEW i \in 1 .. Len(path') PROVE rank[cur'] < rank[path'[i]]
  <2>1. CASE i = Len(path) + 1
    BY <1>4, <1>7, <2>1
  <2>2. CASE i # Len(path) + 1
    <3>1. i \in 1 .. Len(path)
      BY <1>3, <1>4, <2>2
    <3>2. rank[cur] < rank[path[i]] /\ path'[i] = path[i] /\ path[i] \in Nodes
      BY <1>1, <1>2, <1>4, <3>1 DEF RankFits
    <3>3. rank[cur'] \in Nat /\ rank[cur] \in Nat /\ rank[path[i]] \in Nat
      BY <1>2, <1>3, <3>2
    <3> QED
      BY <1>7, <3>2, <3>3
  <2> QED
    BY <2>1, <2>2
<1>11. RankFits(rank, R)'
  BY <1>1, <1>2, <1>5, <1>8, <1>9, <1>10 DEF RankFits
<1> QED
  BY <1>2, <1>11 DEF RankInv

LEMMA RankStep ==
  /\ BfsTypeOK /\ BfsTypeOK' /\ PhaseInv /\ ParentsAreEdges /\ PathSoFar /\ RankInv
  /\ [BfsNext]_bfsVars
  => RankInv'
<1> SUFFICES ASSUME BfsTypeOK, BfsTypeOK', PhaseInv, ParentsAreEdges, PathSoFar, RankInv,
                    [BfsNext]_bfsVars, Searching'
             PROVE  RankInv'
  BY DEF RankInv
<1>1. ASSUME NEW f \in Nodes, NEW t \in Nodes, AddEdge(f, t) PROVE FALSE
  BY <1>1 DEF AddEdge, Searching
<1>2. ASSUME WriteMemfile \/ Finish \/ Answered PROVE FALSE
  BY <1>2 DEF WriteMemfile, Finish, Answered, Searching
<1>3. ASSUME Searching, UNCHANGED <<parent, from, path>>,
             \A m \in Nodes : Expanded(m)' <=> Expanded(m),
             phase' = "path" => path = << >> \/ (phase = "path" /\ cur' = cur)
      PROVE  RankInv'
  <2>1. PICK rank \in [Nodes -> Nat], R \in Nat : RankFits(rank, R)
    BY <1>3 DEF RankInv
  <2>2. RankFits(rank, R)'
    BY <1>3, <2>1 DEF RankFits
  <2> QED
    BY <2>1, <2>2 DEF RankInv
<1>4. CASE ExpandEnd
  <2>1. Searching /\ UNCHANGED <<parent, from, path>> /\ phase' = "loop"
    BY <1>4 DEF ExpandEnd, Searching
  <2>2. \A m \in Nodes : Expanded(m)' <=> Expanded(m)
    BY <1>4 DEF ExpandEnd, Expanding, Expanded, BfsTypeOK
  <2> QED
    BY <1>3, <2>1, <2>2
<1>5. CASE SearchEnd \/ PathEnd
  <2>1. /\ Searching /\ UNCHANGED <<parent, from, path, marked>>
        /\ phase' = "path" => path = << >>
    BY <1>5 DEF SearchEnd, PathEnd, Searching, PathSoFar, search
  <2>2. \A m \in Nodes : Expanded(m)' <=> Expanded(m)
    BY <1>5, <2>1 DEF SearchEnd, PathEnd, Expanding, Expanded
  <2> QED
    BY <1>3, <2>1, <2>2
<1>6. CASE UNCHANGED bfsVars
  <2>1. Searching /\ UNCHANGED <<parent, from, path, marked, phase, cur>>
    BY <1>6 DEF bfsVars, search, Searching
  <2>2. \A m \in Nodes : Expanded(m)' <=> Expanded(m)
    BY <2>1 DEF Expanding, Expanded
  <2> QED
    BY <1>3, <2>1, <2>2
<1> QED
  BY <1>1, <1>2, <1>4, <1>5, <1>6, RankStart, RankDequeue, RankExpandNext, RankPathNext
     DEF BfsNext

\* The nodes of the path are all different, and from is none of them.
LEMMA PathFits ==
  ASSUME BfsTypeOK, Searching, RankInv
  PROVE  Len(path) < GSize
<1>1. PICK rank \in [Nodes -> Nat], R \in Nat : RankFits(rank, R)
  BY DEF RankInv
<1>2. path \in Seq(Nodes) /\ Len(path) \in Nat /\ from \in Nodes
  BY DEF BfsTypeOK
<1> DEFINE S == 1 .. Len(path)
           T == Nodes \ {from}
<1>3. IsFiniteSet(Nodes) /\ Cardinality(Nodes) = GSize /\ GSize \in Nat
  BY FS_Interval, GraphBfsAssumption DEF Nodes
<1>4. IsFiniteSet(T) /\ Cardinality(T) = GSize - 1
  BY <1>2, <1>3, FS_RemoveElement
<1>5. IsFiniteSet(S) /\ Cardinality(S) = Len(path)
  <2>1. 1 \in Int /\ Len(path) \in Int
    BY <1>2
  <2>2. IsFiniteSet(S) /\ Cardinality(S) = IF 1 > Len(path) THEN 0 ELSE Len(path) - 1 + 1
    BY <2>1, FS_Interval
  <2> QED
    BY <1>2, <2>2
<1> DEFINE f == [i \in S |-> path[i]]
<1>6. f \in [S -> T]
  BY <1>1, <1>2 DEF RankFits
<1>7. ~ \E x, y \in S : x # y /\ f[x] = f[y]
  <2> SUFFICES ASSUME NEW x \in S, NEW y \in S, x # y, path[x] = path[y] PROVE FALSE
    OBVIOUS
  <2>1. x < y \/ y < x
    BY <1>2
  <2>2. rank[path[x]] \in Nat
    BY <1>1, <1>2
  <2> QED
    BY <1>1, <2>1, <2>2 DEF RankFits
<1>8. ~ (Cardinality(T) < Cardinality(S))
  <2> HIDE DEF S, T, f
  <2> QED
    BY <1>4, <1>5, <1>6, <1>7, FS_PigeonHole
<1> QED
  BY <1>2, <1>3, <1>4, <1>5, <1>8

LEMMA LiveIsPos ==
  ASSUME BfsTypeOK
  PROVE  \A s \in Nodes : Pos(s) \in Nat /\ (LiveSlot(s) <=> Pos(s) < Pos(qtail))
<1>1. qhead \in Nodes /\ qtail \in Nodes
  BY DEF BfsTypeOK
<1> QED
  BY <1>1, GraphBfsAssumption DEF Pos, LiveSlot, Nodes

LEMMA LevelStart == StartSearch /\ BfsTypeOK /\ BfsTypeOK' => LevelInv'
<1> SUFFICES ASSUME StartSearch, BfsTypeOK, BfsTypeOK' PROVE LevelInv'
  OBVIOUS
<1> DEFINE lev == [n \in Nodes |-> 0]
<1>1. /\ path' = << >> /\ phase' = "loop" /\ qhead' = 0 /\ qtail' = 1
      /\ parent' = [n \in Nodes |-> n]
  BY DEF StartSearch
<1>2. /\ \A n \in Nodes : Queued(n)' <=> n = from'
      /\ \A n \in Nodes : Visited(n)' <=> n = from'
      /\ \A n \in Nodes : ~marked'[n] /\ ~Expanding(n)'
  BY StartQueued
<1>3. 0 \in Nodes /\ 1 \in Nodes /\ from' \in Nodes /\ ring' \in [Nodes -> Nodes]
  <2>1. 0 \in Nodes /\ 1 \in Nodes
    BY GraphBfsAssumption DEF Nodes
  <2> QED
    BY <2>1 DEF BfsTypeOK
<1>4. ring'[0] = from' /\ LiveSlot(0)' /\ Pos(0)' = 0 /\ Pos(qtail)' = 1
  BY <1>1, <1>3, GraphBfsAssumption DEF StartSearch, BfsTypeOK, LiveSlot, Pos
<1>5. QueueLevels(lev, 0, 1)'
  BY <1>1, <1>2, <1>3, <1>4 DEF QueueLevels, SlotLevel
<1>6. TreeLevels(lev, 0)'
  BY <1>1, <1>2, <1>3 DEF TreeLevels, Expanded
<1>7. EdgeLevels(lev, 0)' /\ WayLevels(lev)'
  BY <1>1, <1>2 DEF EdgeLevels, WayLevels
<1>8. lev \in [Nodes -> Nat] /\ 0 \in Nat /\ 1 \in Nat
  OBVIOUS
<1> HIDE DEF lev
<1> QED
  BY <1>5, <1>6, <1>7, <1>8 DEF LevelInv, LevelsFit

\* The head of the queue is a node of level L, or the first of level L + 1.
LEMMA LevelDequeue ==
  /\ BfsTypeOK /\ BfsTypeOK' /\ ParentsAreEdges /\ LevelInv /\ Dequeue /\ ~lost'
  => LevelInv'
<1> SUFFICES ASSUME BfsTypeOK, BfsTypeOK', ParentsAreEdges, LevelInv, Dequeue, ~lost'
             PROVE  LevelInv'
  OBVIOUS
<1>1. /\ phase = "loop" /\ phase' \in {"loop", "expand"} /\ qhead # qtail
      /\ qhead' = RingNext(qhead) /\ nth' = 1 /\ Searching /\ ~lost
      /\ UNCHANGED <<neigh, marked, path, parent, from, to, ring, qtail>>
  BY DEF Dequeue, Searching, graph
<1>2. PICK lev \in [Nodes -> Nat], L \in Nat, b \in Nat : LevelsFit(lev, L, b)
  BY <1>1 DEF LevelInv
<1>3. /\ \A m \in Nodes : Expanded(m)' <=> Expanded(m) \/ m = cur'
      /\ \A m \in Nodes : Expanded(m) <=> marked[m]
      /\ \A m \in Nodes : Expanding(m)' <=> m = cur' /\ ~marked[m]
      /\ cur' = ring[qhead] /\ cur' \in Nodes
  BY ExpandedDequeue
<1>4. \A m \in Nodes : Visited(m)' <=> Visited(m)
  BY DequeueVisited
<1>5. /\ qhead \in Nodes /\ qtail \in Nodes /\ ring \in [Nodes -> Nodes]
      /\ from \in Nodes /\ to \in Nodes
  BY DEF BfsTypeOK
<1>6. /\ \A s \in Nodes : Pos(s) \in Nat /\ (LiveSlot(s) <=> Pos(s) < Pos(qtail))
      /\ LiveSlot(qhead) /\ Pos(qhead) = 0
      /\ \A s \in Nodes : LiveSlot(s)' <=> LiveSlot(s) /\ s # qhead
      /\ \A s \in Nodes : s # qhead => Pos(s)' = Pos(s) - 1 /\ Pos(s) # 0
      /\ Pos(qtail)' = Pos(qtail) - 1
  <2>1. \A s \in Nodes : LiveSlot(s)' <=> LiveSlot(s) /\ s # qhead
    BY <1>1, <1>5, GraphBfsAssumption DEF LiveSlot, Nodes, RingNext
  <2>2. \A s \in Nodes : s # qhead => Pos(s)' = Pos(s) - 1 /\ Pos(s) # 0
    BY <1>1, <1>5, GraphBfsAssumption DEF Pos, Nodes, RingNext
  <2>3. LiveSlot(qhead) /\ Pos(qhead) = 0
    BY <1>1, <1>5, GraphBfsAssumption DEF Pos, LiveSlot, Nodes
  <2>4. Pos(qtail)' = Pos(qtail) - 1
    BY <1>1, <1>5, GraphBfsAssumption DEF Pos, Nodes, RingNext
  <2> QED
    BY <2>1, <2>2, <2>3, <2>4, LiveIsPos
<1> DEFINE l == SlotLevel(qhead, L, b)
           c == IF b = 0 THEN Pos(qtail) - 1 ELSE b - 1
<1>a. PICK h, d : h = l /\ d = c
  OBVIOUS
<1>7. /\ h \in Nat /\ d \in Nat /\ d <= Pos(qtail) - 1 /\ L <= h
      /\ \A s \in Nodes : LiveSlot(s)' => SlotLevel(s, h, d)' = SlotLevel(s, L, b)
  <2>1. b <= Pos(qtail) /\ Pos(qtail) \in Nat /\ Pos(qtail) > 0
    BY <1>2, <1>5, <1>6 DEF LevelsFit, QueueLevels
  <2>2. h = IF b = 0 THEN L + 1 ELSE L
    BY <1>2, <1>6, <1>a DEF SlotLevel
  <2>3. h \in Nat /\ d \in Nat /\ d <= Pos(qtail) - 1 /\ L <= h
    BY <1>2, <1>a, <2>1, <2>2
  <2>4. ASSUME NEW s \in Nodes, LiveSlot(s)' PROVE SlotLevel(s, h, d)' = SlotLevel(s, L, b)
    <3>1. Pos(s)' = Pos(s) - 1 /\ Pos(s) < Pos(qtail) /\ Pos(s) \in Nat /\ Pos(s) # 0
      BY <1>6, <2>4
    <3>2. SlotLevel(s, h, d)' = IF Pos(s)' < d THEN h ELSE h + 1
      BY DEF SlotLevel
    <3> QED
      BY <1>2, <1>a, <2>1, <2>2, <3>1, <3>2 DEF SlotLevel
  <2> QED
    BY <2>3, <2>4
<1>8. ~marked[cur'] => lev[cur'] = h
  <2> SUFFICES ASSUME ~marked[cur'] PROVE lev[cur'] = h
    OBVIOUS
  <2>1. Queued(cur') /\ ~Expanded(cur')
    BY <1>3, <1>5, <1>6 DEF Queued
  <2>2. PICK s \in Nodes : LiveSlot(s) /\ ring[s] = cur' /\ lev[cur'] = SlotLevel(s, L, b)
    BY <1>2, <1>3, <2>1 DEF LevelsFit, QueueLevels
  <2>3. lev[cur'] <= h
    BY <1>2, <1>3, <1>5, <1>6, <1>a DEF LevelsFit, QueueLevels
  <2>4. SlotLevel(s, L, b) >= h
    <3>1. s = qhead \/ LiveSlot(s)'
      BY <1>6, <2>2
    <3>2. h = IF b = 0 THEN L + 1 ELSE L
      BY <1>2, <1>6, <1>a DEF SlotLevel
    <3>3. Pos(s) \in Nat
      BY <1>6
    <3> QED
      BY <1>2, <3>2, <3>3 DEF SlotLevel
  <2> QED
    BY <1>2, <1>3, <1>7, <2>2, <2>3, <2>4
<1>9. QueueLevels(lev, h, d)'
  <2>1. ASSUME NEW s \in Nodes, LiveSlot(s)' PROVE (lev[ring[s]] <= SlotLevel(s, h, d))'
    BY <1>1, <1>2, <1>6, <1>7, <2>1 DEF LevelsFit, QueueLevels
  <2>2. ASSUME NEW n \in Nodes, ~Expanded(n)', Queued(n)'
        PROVE  \E s \in Nodes : LiveSlot(s)' /\ ring'[s] = n /\ lev[n] = SlotLevel(s, h, d)'
    <3>1. ~Expanded(n) /\ n # ring[qhead] /\ Queued(n)
      BY <1>1, <1>3, <1>6, <2>2 DEF Queued
    <3>2. PICK s \in Nodes : LiveSlot(s) /\ ring[s] = n /\ lev[n] = SlotLevel(s, L, b)
      BY <1>2, <3>1 DEF LevelsFit, QueueLevels
    <3>3. LiveSlot(s)'
      BY <1>6, <3>1, <3>2
    <3> QED
      BY <1>1, <1>7, <3>2, <3>3
  <2>3. d <= Pos(qtail)'
    BY <1>6, <1>7
  <2>4. (d <= Pos(qtail))'
    BY <2>3
  <2> QED
    BY <2>1, <2>2, <2>4 DEF QueueLevels
<1>10. TreeLevels(lev, h)'
  <2>1. lev[from] = 0 /\ \A n \in Nodes : Expanded(n) => lev[n] <= L
    BY <1>2 DEF LevelsFit, TreeLevels
  <2>2. \A n \in Nodes : Expanded(n)' => lev[n] <= h
    BY <1>2, <1>3, <1>7, <1>8, <2>1
  <2>3. \A n \in Nodes : Expanding(n)' => lev[n] = h
    BY <1>3, <1>8
  <2> QED
    BY <1>1, <1>2, <1>4, <2>1, <2>2, <2>3 DEF LevelsFit, TreeLevels
<1>11. EdgeLevels(lev, h)'
  <2>1. \A m \in Nodes : ~Handled(m)'
    BY <1>1 DEF Handled
  <2>2. \A n, m \in Nodes : IsEdge(n, m)' <=> IsEdge(n, m)
    BY <1>1 DEF IsEdge
  <2> QED
    BY <1>1, <1>2, <2>1, <2>2 DEF LevelsFit, EdgeLevels
<1>12. WayLevels(lev)'
  BY <1>1, <1>2 DEF LevelsFit, WayLevels
<1> HIDE DEF l, c
<1> QED
  BY <1>2, <1>7, <1>9, <1>10, <1>11, <1>12 DEF LevelInv, LevelsFit

\* A neighbour of a node of level L gets level L + 1, or has a level that is no higher.
LEMMA LevelExpandNext ==
  /\ BfsTypeOK /\ BfsTypeOK' /\ PhaseInv /\ NothingMissed /\ ParentsAreEdges /\ LevelInv
  /\ ExpandNext /\ ~lost'
  => LevelInv'
<1> SUFFICES ASSUME BfsTypeOK, BfsTypeOK', PhaseInv, NothingMissed, ParentsAreEdges, LevelInv,
                    ExpandNext, ~lost'
             PROVE  LevelInv'
  OBVIOUS
<1>n. PICK n : n = neigh[cur][nth]
  OBVIOUS
<1>1. /\ phase = "expand" /\ Searching /\ nth' = nth + 1
      /\ UNCHANGED <<neigh, path, from, to, marked, cur, phase, qhead>>
      /\ Enqueue(n)
      /\ parent' = IF NewParent(n) THEN [parent EXCEPT ![n] = cur] ELSE parent
  BY <1>n DEF ExpandNext, Searching, graph
<1>2. /\ n \in Nodes /\ IsEdge(cur, n)
      /\ \A m \in Nodes : Expanding(m)' <=> Expanding(m)
      /\ \A m \in Nodes : Visited(m)' => Visited(m) \/ m = n
      /\ ~lost /\ Visited(n)' /\ \A m \in Nodes : Visited(m) => Visited(m)'
  BY <1>n, ExpandNextVisited
<1>3. PICK lev \in [Nodes -> Nat], L \in Nat, b \in Nat : LevelsFit(lev, L, b)
  BY <1>1, <1>2 DEF LevelInv
<1>4. \A m \in Nodes : Expanded(m)' <=> Expanded(m)
  BY <1>1, <1>2 DEF Expanded
<1>5. /\ parent \in [Nodes -> Nodes] /\ parent' \in [Nodes -> Nodes] /\ cur \in Nodes
      /\ from \in Nodes /\ qhead \in Nodes /\ qtail \in Nodes /\ ring \in [Nodes -> Nodes]
      /\ nth \in Nat
  BY DEF BfsTypeOK
<1>6. Expanding(cur) /\ Expanded(cur) /\ Visited(cur) /\ lev[cur] = L
  BY <1>1, <1>3, <1>5 DEF Expanding, Expanded, Visited, LevelsFit, TreeLevels
<1>7. /\ ring'[qtail] = n /\ qtail' # qhead
      /\ \A s \in Nodes : s # qtail => ring'[s] = ring[s]
      /\ ~LiveSlot(qtail)
      /\ \A s \in Nodes : LiveSlot(s)' <=> LiveSlot(s) \/ s = qtail
  BY <1>1, <1>2, EnqueueSlots DEF Enqueue
<1>8. /\ \A s \in Nodes : Pos(s)' = Pos(s) /\ Pos(s) \in Nat
      /\ Pos(qtail') = Pos(qtail) + 1
  <2>1. qtail' = RingNext(qtail)
    BY <1>1 DEF Enqueue
  <2>2. \A s \in Nodes : Pos(s)' = Pos(s)
    BY <1>1 DEF Pos
  <2>3. qtail' \in Nodes /\ (qtail' = IF qtail + 1 = GSize THEN 0 ELSE qtail + 1)
    BY <2>1 DEF BfsTypeOK, RingNext
  <2>4. Pos(qtail') = Pos(qtail) + 1
    <3>1. /\ GSize \in Nat /\ qhead \in 0 .. GSize - 1 /\ qtail \in 0 .. GSize - 1
          /\ qtail' # qhead
      BY <1>5, <1>7, GraphBfsAssumption DEF Nodes
    <3>2. CASE qtail + 1 = GSize
      BY <2>3, <3>1, <3>2 DEF Pos
    <3>3. CASE qtail + 1 # GSize
      BY <2>3, <3>1, <3>3 DEF Pos
    <3> QED
      BY <3>2, <3>3
  <2> QED
    BY <2>2, <2>4, LiveIsPos
<1> DEFINE new == IF Visited(n) THEN lev ELSE [lev EXCEPT ![n] = L + 1]
<1>a. PICK lv : lv = new
  OBVIOUS
<1>9. /\ lv \in [Nodes -> Nat]
      /\ \A m \in Nodes : m # n \/ Visited(n) => lv[m] = lev[m]
      /\ ~Visited(n) => lv[n] = L + 1
  BY <1>2, <1>3, <1>a
<1> HIDE DEF new
<1>10. lv[n] <= L + 1
  <2>1. CASE Expanded(n)
    BY <1>2, <1>3, <1>9, <2>1 DEF LevelsFit, TreeLevels, Expanded, Visited
  <2>2. CASE Queued(n)
    <3>1. PICK s \in Nodes : LiveSlot(s) /\ ring[s] = n
      BY <2>2 DEF Queued
    <3>2. lev[n] <= SlotLevel(s, L, b)
      BY <1>3, <3>1 DEF LevelsFit, QueueLevels
    <3>3. Visited(n)
      BY <2>2 DEF Visited
    <3> QED
      BY <1>2, <1>3, <1>9, <3>2, <3>3 DEF SlotLevel
  <2> QED
    BY <1>2, <1>3, <1>9, <2>1, <2>2 DEF Visited, Expanded
<1>11. \A m \in Nodes : Visited(m) => lv[m] = lev[m]
  BY <1>9
<1>12. QueueLevels(lv, L, b)'
  <2>1. b <= Pos(qtail) /\ Pos(qtail) \in Nat
    BY <1>3, <1>5, <1>8 DEF LevelsFit, QueueLevels
  <2>2. (b <= Pos(qtail))'
    <3>1. Pos(qtail)' = Pos(qtail) + 1
      BY <1>1, <1>8 DEF Pos
    <3> QED
      BY <1>3, <2>1, <3>1
  <2>3. \A s \in Nodes : SlotLevel(s, L, b)' = SlotLevel(s, L, b)
    BY <1>8 DEF SlotLevel
  <2>4. SlotLevel(qtail, L, b) = L + 1
    BY <1>3, <2>1 DEF SlotLevel
  <2>5. ASSUME NEW s \in Nodes, LiveSlot(s)' PROVE (lv[ring[s]] <= SlotLevel(s, L, b))'
    <3>1. CASE s = qtail
      <4>1. ring'[s] = n /\ SlotLevel(s, L, b)' = L + 1
        BY <1>7, <2>3, <2>4, <3>1
      <4> QED
        BY <1>10, <4>1
    <3>2. CASE s # qtail
      <4>1. LiveSlot(s) /\ ring'[s] = ring[s] /\ ring[s] \in Nodes
        BY <1>5, <1>7, <2>5, <3>2
      <4>2. lv[ring[s]] = lev[ring[s]]
        BY <1>11, <4>1 DEF Visited, Queued
      <4>3. lev[ring[s]] <= SlotLevel(s, L, b)
        BY <1>3, <4>1 DEF LevelsFit, QueueLevels
      <4> QED
        BY <2>3, <4>1, <4>2, <4>3
    <3> QED
      BY <3>1, <3>2
  <2>6. ASSUME NEW m \in Nodes, ~Expanded(m)', Queued(m)'
        PROVE  \E s \in Nodes : LiveSlot(s)' /\ ring'[s] = m /\ lv[m] = SlotLevel(s, L, b)'
    <3>1. CASE Visited(m)
      <4>1. ~Expanded(m) /\ Queued(m)
        BY <1>4, <2>6, <3>1 DEF Visited, Expanded
      <4>2. PICK s \in Nodes : LiveSlot(s) /\ ring[s] = m /\ lev[m] = SlotLevel(s, L, b)
        BY <1>3, <4>1 DEF LevelsFit, QueueLevels
      <4>3. LiveSlot(s)' /\ ring'[s] = m
        BY <1>7, <4>2
      <4> QED
        BY <1>11, <2>3, <3>1, <4>2, <4>3
    <3>2. CASE ~Visited(m)
      <4>1. m = n /\ lv[m] = L + 1
        BY <1>2, <1>9, <2>6, <3>2 DEF Visited
      <4> QED
        BY <1>5, <1>7, <2>3, <2>4, <4>1
    <3> QED
      BY <3>1, <3>2
  <2> QED
    BY <2>2, <2>5, <2>6 DEF QueueLevels
<1>13. TreeLevels(lv, L)'
  <2>1. Visited(from)
    BY <1>1, <1>2 DEF NothingMissed
  <2>2. lv[from] = 0
    BY <1>3, <1>5, <1>11, <2>1 DEF LevelsFit, TreeLevels
  <2>3. \A m \in Nodes : Expanded(m) => lv[m] <= L
    BY <1>3, <1>11 DEF LevelsFit, TreeLevels, Visited, Expanded
  <2>4. \A m \in Nodes : Expanding(m) => lv[m] = L
    BY <1>3, <1>11 DEF LevelsFit, TreeLevels, Visited
  <2>5. \A m \in Nodes : parent'[m] # m => Visited(m)'
    BY <1>1, <1>2, <1>3, <1>5 DEF LevelsFit, TreeLevels
  <2>6. ASSUME NEW m \in Nodes, Visited(m)', m # from PROVE lv[m] = lv[parent'[m]] + 1
    <3>1. CASE Visited(m)
      <4>1. parent[m] # m /\ parent[m] \in Nodes
        BY <1>1, <1>5, <2>6, <3>1 DEF ParentsAreEdges
      <4>2. parent'[m] = parent[m]
        BY <1>1, <1>2, <1>5, <4>1 DEF NewParent
      <4>3. Visited(parent[m])
        BY <1>1, <4>1 DEF ParentsAreEdges, Visited
      <4>4. lev[m] = lev[parent[m]] + 1
        BY <1>3, <2>6, <3>1 DEF LevelsFit, TreeLevels
      <4> QED
        BY <1>11, <3>1, <4>1, <4>2, <4>3, <4>4
    <3>2. CASE ~Visited(m)
      <4>1. m = n /\ lv[m] = L + 1
        BY <1>2, <1>9, <2>6, <3>2
      <4>2. parent[m] = m
        BY <1>3, <3>2 DEF LevelsFit, TreeLevels
      <4>3. parent'[m] = cur
        BY <1>1, <1>5, <4>1, <4>2 DEF NewParent
      <4>4. lv[cur] = L
        BY <1>5, <1>6, <1>11
      <4> QED
        BY <4>1, <4>3, <4>4
    <3> QED
      BY <3>1, <3>2
  <2> QED
    BY <1>1, <1>2, <1>4, <2>2, <2>3, <2>4, <2>5, <2>6 DEF TreeLevels
<1>14. EdgeLevels(lv, L)'
  <2>1. \A k, m \in Nodes : IsEdge(k, m)' <=> IsEdge(k, m)
    BY <1>1 DEF IsEdge
  <2>2. ASSUME NEW k \in Nodes, NEW m \in Nodes, marked[k], IsEdge(k, m)
        PROVE  lv[m] <= lv[k] + 1
    <3>1. Visited(k) /\ Visited(m)
      BY <1>1, <1>2, <2>2 DEF NothingMissed, Visited
    <3> QED
      BY <1>3, <1>11, <2>2, <3>1 DEF LevelsFit, EdgeLevels
  <2>3. ASSUME NEW m \in Nodes, Handled(m)' PROVE lv[m] <= L + 1
    <3>1. CASE Handled(m)
      <4>1. Visited(m)
        BY <1>1, <1>2, <3>1 DEF NothingMissed
      <4> QED
        BY <1>1, <1>3, <1>11, <3>1, <4>1 DEF LevelsFit, EdgeLevels
    <3>2. CASE ~Handled(m)
      <4>1. m = n
        BY <1>1, <1>5, <1>n, <2>3, <3>2 DEF Handled
      <4> QED
        BY <1>10, <4>1
    <3> QED
      BY <3>1, <3>2
  <2> QED
    BY <1>1, <2>1, <2>2, <2>3 DEF EdgeLevels
<1>15. WayLevels(lv)'
  BY <1>1, <1>3 DEF LevelsFit, WayLevels
<1> QED
  BY <1>3, <1>9, <1>12, <1>13, <1>14, <1>15 DEF LevelInv, LevelsFit

LEMMA LevelPathNext ==
  /\ BfsTypeOK /\ BfsTypeOK' /\ ParentsAreEdges /\ PathSoFar /\ LevelInv /\ PathNext /\ ~lost'
  => LevelInv'
<1> SUFFICES ASSUME BfsTypeOK, BfsTypeOK', ParentsAreEdges, PathSoFar, LevelInv, PathNext,
                    ~lost'
             PROVE  LevelInv'
  OBVIOUS
<1>1. /\ phase = "path" /\ cur # from /\ path' = Append(path, cur) /\ cur' = parent[cur]
      /\ UNCHANGED <<neigh, phase, from, to, marked, parent, found, ring, qhead, qtail, lost>>
      /\ Searching
  BY DEF PathNext, Searching, graph, queue
<1>2. PICK lev \in [Nodes -> Nat], L \in Nat, b \in Nat : LevelsFit(lev, L, b)
  BY <1>1 DEF LevelInv
<1>3. path \in Seq(Nodes) /\ cur \in Nodes /\ parent \in [Nodes -> Nodes] /\ to \in Nodes
  BY DEF BfsTypeOK
<1>4. \A m \in Nodes : ~Expanding(m) /\ ~Expanding(m)'
  BY <1>1 DEF Expanding
<1>5. /\ \A m \in Nodes : Visited(m)' <=> Visited(m)
      /\ \A m \in Nodes : Expanded(m)' <=> Expanded(m)
  BY <1>1, <1>4, QuietVisited DEF Expanded
<1>6. lev[cur] = lev[cur'] + 1
  BY <1>1, <1>2, <1>3 DEF LevelsFit, TreeLevels, PathSoFar, Visited
<1>7. lev[cur'] + Len(path') = lev[to]
  <2>1. lev[cur] + Len(path) = lev[to]
    BY <1>1, <1>2 DEF LevelsFit, WayLevels
  <2>2. Len(path') = Len(path) + 1 /\ Len(path) \in Nat
    BY <1>1, <1>3
  <2>3. lev[cur'] \in Nat /\ lev[to] \in Nat
    BY <1>1, <1>2, <1>3
  <2> QED
    BY <1>6, <2>1, <2>2, <2>3
<1>8. WayLevels(lev)'
  BY <1>1, <1>7 DEF WayLevels
<1>9. QueueLevels(lev, L, b)'
  <2>1. /\ \A s \in Nodes : LiveSlot(s)' <=> LiveSlot(s)
        /\ \A s \in Nodes : SlotLevel(s, L, b)' = SlotLevel(s, L, b)
        /\ Pos(qtail)' = Pos(qtail)
        /\ \A m \in Nodes : Queued(m)' <=> Queued(m)
    BY <1>1 DEF LiveSlot, SlotLevel, Pos, Queued
  <2> QED
    BY <1>1, <1>2, <1>5, <2>1 DEF LevelsFit, QueueLevels
<1>10. TreeLevels(lev, L)' /\ EdgeLevels(lev, L)'
  BY <1>1, <1>2, <1>4, <1>5 DEF LevelsFit, TreeLevels, EdgeLevels, IsEdge
<1> QED
  BY <1>2, <1>8, <1>9, <1>10 DEF LevelInv, LevelsFit

\* The other steps of a search leave the queue and the parents alone.
LEMMA LevelQuiet ==
  ASSUME BfsTypeOK, BfsTypeOK', LevelInv, Searching,
         ExpandEnd \/ SearchEnd \/ PathEnd \/ UNCHANGED bfsVars, ~lost', ParentsAreEdges
  PROVE  LevelInv'
<1>1. UNCHANGED <<neigh, from, to, parent, path, found, ring, qhead, qtail, lost>>
  BY DEF ExpandEnd, SearchEnd, PathEnd, bfsVars, graph, queue, search
<1>2. PICK lev \in [Nodes -> Nat], L \in Nat, b \in Nat : LevelsFit(lev, L, b)
  BY <1>1 DEF LevelInv
<1>3. /\ \A m \in Nodes : Expanded(m)' <=> Expanded(m)
      /\ \A m \in Nodes : Expanding(m)' => Expanding(m)
  BY DEF ExpandEnd, SearchEnd, PathEnd, bfsVars, search, Expanding, Expanded, BfsTypeOK
<1>4. \A m \in Nodes : Visited(m)' <=> Visited(m)
  BY <1>1, <1>3, QuietVisited DEF Expanded
<1>5. QueueLevels(lev, L, b)'
  <2>1. /\ \A s \in Nodes : LiveSlot(s)' <=> LiveSlot(s)
        /\ \A s \in Nodes : SlotLevel(s, L, b)' = SlotLevel(s, L, b)
        /\ Pos(qtail)' = Pos(qtail)
        /\ \A m \in Nodes : Queued(m)' <=> Queued(m)
    BY <1>1 DEF LiveSlot, SlotLevel, Pos, Queued
  <2> QED
    BY <1>1, <1>2, <1>3, <2>1 DEF LevelsFit, QueueLevels
<1>6. TreeLevels(lev, L)'
  BY <1>1, <1>2, <1>3, <1>4 DEF LevelsFit, TreeLevels
<1>7. EdgeLevels(lev, L)'
  <2>1. \A k, m \in Nodes : IsEdge(k, m)' <=> IsEdge(k, m)
    BY <1>1 DEF IsEdge
  <2>2. CASE ExpandEnd
    <3>1. /\ phase = "expand" /\ nth > Len(neigh[cur]) /\ phase' = "loop"
          /\ marked' = [marked EXCEPT ![cur] = TRUE]
          /\ cur \in Nodes /\ nth \in Nat /\ neigh[cur] \in Seq(Nodes)
          /\ marked \in [Nodes -> BOOLEAN]
      BY <2>2 DEF ExpandEnd, BfsTypeOK
    <3>2. \A m \in Nodes : IsEdge(cur, m) => Handled(m)
      BY <3>1 DEF IsEdge, Handled
    <3>3. lev[cur] = L /\ \A m \in Nodes : IsEdge(cur, m) => lev[m] <= lev[cur] + 1
      BY <1>2, <3>1, <3>2 DEF LevelsFit, TreeLevels, EdgeLevels, Expanding
    <3>4. \A k, m \in Nodes : marked'[k] /\ IsEdge(k, m) => lev[m] <= lev[k] + 1
      BY <1>2, <3>1, <3>3 DEF LevelsFit, EdgeLevels
    <3> QED
      BY <2>1, <3>1, <3>4 DEF EdgeLevels
  <2>3. CASE SearchEnd \/ PathEnd
    <3>1. phase' # "expand" /\ UNCHANGED marked
      BY <2>3 DEF SearchEnd, PathEnd, search
    <3> QED
      BY <1>2, <2>1, <3>1 DEF LevelsFit, EdgeLevels
  <2>4. CASE UNCHANGED bfsVars
    <3>1. UNCHANGED <<phase, marked, cur, nth>>
      BY <2>4 DEF bfsVars, search
    <3>2. \A m \in Nodes : Handled(m)' <=> Handled(m)
      BY <1>1, <3>1 DEF Handled
    <3> QED
      BY <1>2, <2>1, <3>1, <3>2 DEF LevelsFit, EdgeLevels
  <2> QED
    BY <2>2, <2>3, <2>4
<1>8. WayLevels(lev)'
  <2>0. to \in Nodes /\ lev[to] \in Nat
    BY <1>2 DEF BfsTypeOK
  <2>1. CASE ExpandEnd
    BY <1>1, <1>2, <2>1 DEF ExpandEnd, LevelsFit, WayLevels
  <2>2. CASE SearchEnd
    BY <1>1, <1>2, <2>0, <2>2 DEF SearchEnd, LevelsFit, WayLevels
  <2>3. CASE PathEnd
    <3>1. path \in Seq(Nodes) /\ Len(path) \in Nat
      BY DEF BfsTypeOK
    <3>2. phase = "path" /\ phase' = "answer" /\ cur = from
      BY <2>3 DEF PathEnd
    <3>3. lev[from] + Len(path) = lev[to] /\ lev[from] = 0
      BY <1>2, <3>2 DEF LevelsFit, WayLevels, TreeLevels
    <3> QED
      BY <1>1, <3>1, <3>2, <3>3 DEF WayLevels
  <2>4. CASE UNCHANGED bfsVars
    BY <1>2, <2>4 DEF bfsVars, search, LevelsFit, WayLevels
  <2> QED
    BY <2>1, <2>2, <2>3, <2>4
<1> QED
  BY <1>2, <1>5, <1>6, <1>7, <1>8 DEF LevelInv, LevelsFit

LEMMA LevelStep ==
  /\ BfsTypeOK /\ BfsTypeOK' /\ PhaseInv /\ NothingMissed /\ ParentsAreEdges /\ PathSoFar
  /\ LevelInv /\ [BfsNext]_bfsVars
  => LevelInv'
<1> SUFFICES ASSUME BfsTypeOK, BfsTypeOK', PhaseInv, NothingMissed, ParentsAreEdges, PathSoFar,
                    LevelInv, [BfsNext]_bfsVars, Searching', ~lost'
             PROVE  LevelInv'
  BY DEF LevelInv
<1>1. ASSUME NEW f \in Nodes, NEW t \in Nodes, AddEdge(f, t) PROVE FALSE
  BY <1>1 DEF AddEdge, Searching
<1>2. ASSUME WriteMemfile \/ Finish \/ Answered PROVE FALSE
  BY <1>2 DEF WriteMemfile, Finish, Answered, Searching
<1>3. CASE ExpandEnd \/ SearchEnd \/ PathEnd \/ UNCHANGED bfsVars
  <2>1. Searching
    BY <1>3 DEF ExpandEnd, SearchEnd, PathEnd, bfsVars, Searching
  <2> QED
    BY <1>3, <2>1, LevelQuiet
<1> QED
  BY <1>1, <1>2, <1>3, LevelStart, LevelDequeue, LevelExpandNext, LevelPathNext DEF BfsNext

Grown(S) == S \cup {m \in Nodes : \E n \in S : IsEdge(n, m)}

\* The function that defines the balls exists, and so obeys its equation.
LEMMA StepsExist ==
  \A k \in Nat : \E g : g = [j \in 0 .. k |-> IF j = 0 THEN {from} ELSE Grown(g[j - 1])]
<1> DEFINE Steps(k, g) == g = [j \in 0 .. k |-> IF j = 0 THEN {from} ELSE Grown(g[j - 1])]
           T == {k \in Nat : ~ \E g : Steps(k, g)}
<1> SUFFICES ASSUME T # {} PROVE FALSE
  OBVIOUS
<1>1. PICK k \in T : \A j \in T : k <= j
  <2>1. T \subseteq Nat
    OBVIOUS
  <2> HIDE DEF T
  <2> QED
    BY <2>1, LeastNumber
<1>2. k \in Nat
  OBVIOUS
<1>3. CASE k = 0
  <2>1. Steps(0, [j \in 0 .. 0 |-> {from}])
    OBVIOUS
  <2> QED
    BY <1>3, <2>1
<1>4. CASE k # 0
  <2>1. k - 1 \in Nat /\ k - 1 \notin T
    <3>1. k - 1 \in Nat /\ ~(k <= k - 1)
      BY <1>2, <1>4
    <3> HIDE DEF T
    <3> QED
      BY <1>1, <3>1
  <2>2. PICK g : Steps(k - 1, g)
    BY <2>1
  <2> DEFINE h == [j \in 0 .. k |-> IF j = k THEN Grown(g[k - 1]) ELSE g[j]]
  <2>3. ASSUME NEW j \in 0 .. k PROVE h[j] = IF j = 0 THEN {from} ELSE Grown(h[j - 1])
    <3>1. CASE j = 0
      BY <1>2, <1>4, <2>2, <3>1
    <3>2. CASE j # 0
      <4>1. j - 1 \in 0 .. k /\ j - 1 # k /\ h[j - 1] = g[j - 1]
        BY <1>2, <3>2
      <4>2. h[j] = Grown(g[j - 1])
        <5>1. CASE j = k
          BY <5>1
        <5>2. CASE j # k
          <6>1. j \in 0 .. (k - 1)
            BY <1>2, <5>2
          <6>2. g[j] = Grown(g[j - 1])
            BY <2>2, <3>2, <6>1
          <6> QED
            BY <5>2, <6>2
        <5> QED
          BY <5>1, <5>2
      <4> QED
        BY <3>2, <4>1, <4>2
    <3> QED
      BY <3>1, <3>2
  <2>4. h = [j \in 0 .. k |-> h[j]]
    OBVIOUS
  <2>5. Steps(k, h)
    <3> HIDE DEF h
    <3> QED
      BY <2>3, <2>4
  <2> QED
    BY <2>5
<1> QED
  BY <1>3, <1>4

\* When the search has ended, a node within k edges of the start has at most level k.
LEMMA BallLevels ==
  ASSUME NEW lev, lev \in [Nodes -> Nat], from \in Nodes, lev[from] = 0, marked[from],
         \A n, m \in Nodes : marked[n] /\ IsEdge(n, m) => marked[m] /\ lev[m] <= lev[n] + 1,
         NEW k \in Nodes, NEW n \in Ball[k]
  PROVE  lev[n] <= k
<1>0. k \in Nat
  BY GraphBfsAssumption DEF Nodes
<1> DEFINE steps == CHOOSE g : g = [j \in 0 .. k |->
                      IF j = 0 THEN {from}
                      ELSE g[j - 1] \cup {m \in Nodes : \E i \in g[j - 1] : IsEdge(i, m)}]
<1>1. Ball[k] = steps[k]
  BY DEF Ball
<1>2. \E g : g = [j \in 0 .. k |->
               IF j = 0 THEN {from}
               ELSE g[j - 1] \cup {m \in Nodes : \E i \in g[j - 1] : IsEdge(i, m)}]
  BY <1>0, StepsExist DEF Grown
<1>3. steps = [j \in 0 .. k |-> IF j = 0 THEN {from} ELSE Grown(steps[j - 1])]
  BY <1>2 DEF Grown
<1> HIDE DEF steps
<1> DEFINE Good(j) == \A i \in steps[j] : i \in Nodes /\ marked[i] /\ lev[i] <= j
           T == {j \in Nat : j <= k /\ ~Good(j)}
<1>4. T = {}
  <2> SUFFICES ASSUME T # {} PROVE FALSE
    OBVIOUS
  <2>1. PICK j \in T : \A i \in T : j <= i
    <3>1. T \subseteq Nat
      OBVIOUS
    <3> HIDE DEF T
    <3> QED
      BY <3>1, LeastNumber
  <2>2. j \in Nat /\ j <= k /\ ~Good(j)
    OBVIOUS
  <2>3. CASE j = 0
    BY <1>0, <1>3, <2>2, <2>3
  <2>4. CASE j # 0
    <3>1. j - 1 \in Nat /\ j - 1 <= k /\ ~(j <= j - 1)
      BY <1>0, <2>2, <2>4
    <3>2. j - 1 \notin T
      <4> HIDE DEF T
      <4> QED
        BY <2>1, <3>1
    <3>3. Good(j - 1)
      BY <3>1, <3>2
    <3>4. steps[j] = steps[j - 1] \cup {m \in Nodes : \E i \in steps[j - 1] : IsEdge(i, m)}
      <4>1. j \in 0 .. k
        BY <1>0, <2>2
      <4>2. steps[j] = Grown(steps[j - 1])
        BY <1>3, <2>4, <4>1
      <4> QED
        BY <4>2 DEF Grown
    <3>5. ASSUME NEW m \in steps[j] PROVE m \in Nodes /\ marked[m] /\ lev[m] <= j
      <4>1. CASE m \in steps[j - 1]
        BY <2>2, <3>3, <4>1
      <4>2. CASE m \in Nodes /\ \E i \in steps[j - 1] : IsEdge(i, m)
        <5>1. PICK i \in steps[j - 1] : IsEdge(i, m)
          BY <4>2
        <5>2. i \in Nodes /\ marked[i] /\ lev[i] <= j - 1
          BY <3>3
        <5>3. marked[m] /\ lev[m] <= lev[i] + 1 /\ lev[m] \in Nat /\ lev[i] \in Nat
          BY <4>2, <5>1, <5>2
        <5> QED
          BY <2>2, <4>2, <5>2, <5>3
      <4> QED
        BY <3>4, <4>1, <4>2
    <3> QED
      BY <2>2, <3>5
  <2> QED
    BY <2>3, <2>4
<1>5. Good(k)
  BY <1>0, <1>4
<1> QED
  BY <1>1, <1>5

\* The path fits into the array path, and unless the ring has dropped nodes no path
\* from the start to the destination is shorter, for every graph: the ring keeps its
\* nodes in the order of their levels, and a node has the parent of its first slot.
THEOREM PathShortest == BfsSpec => []PathIsShortest
<1>1. BfsInit => PathInv /\ RankInv /\ LevelInv
  BY DEF BfsInit, EmptyGraph, PathInv, ParentsAreEdges, PathSoFar, RankInv, LevelInv, Searching
<1>2. /\ BfsInv /\ BfsInv' /\ PathInv /\ RankInv /\ LevelInv /\ [BfsNext]_bfsVars
      => PathInv' /\ RankInv' /\ LevelInv'
  BY ParentsStep, PathStep, RankStep, LevelStep DEF BfsInv, PathInv
<1>3. PathIsReal /\ BfsInv /\ PathInv /\ RankInv /\ LevelInv => PathIsShortest
  <2> SUFFICES ASSUME PathIsReal, BfsInv, PathInv, RankInv, LevelInv, phase = "answer", found
               PROVE  /\ Len(path) < GSize
                      /\ ~lost /\ path # << >> => to \notin Ball[Len(path) - 1]
    BY DEF PathIsShortest
  <2>1. Searching /\ BfsTypeOK
    BY DEF Searching, BfsInv
  <2>2. Len(path) < GSize
    BY <2>1, PathFits
  <2>3. ASSUME ~lost, path # << >>, to \in Ball[Len(path) - 1] PROVE FALSE
    <3>1. PICK lev \in [Nodes -> Nat], L \in Nat, b \in Nat : LevelsFit(lev, L, b)
      BY <2>1, <2>3 DEF LevelInv
    <3>2. from \in Nodes /\ path \in Seq(Nodes) /\ qhead = qtail
      BY <2>1 DEF BfsTypeOK, BfsInv, PhaseInv
    <3>3. Len(path) \in Nat /\ Len(path) # 0
      BY <2>3, <3>2
    <3>4. Len(path) - 1 \in Nodes
      BY <2>2, <3>3, GraphBfsAssumption DEF Nodes
    <3>5. \A n \in Nodes : Visited(n) <=> marked[n]
      BY <2>1, <3>2, EmptyQueue DEF Visited, Expanding
    <3>6. marked[from] /\ \A n, m \in Nodes : marked[n] /\ IsEdge(n, m) => marked[m]
      BY <2>1, <2>3, <3>2, <3>5 DEF BfsInv, NothingMissed
    <3>7. /\ lev[from] = 0 /\ Len(path) = lev[to]
          /\ \A n, m \in Nodes : marked[n] /\ IsEdge(n, m) => lev[m] <= lev[n] + 1
      BY <3>1 DEF LevelsFit, TreeLevels, EdgeLevels, WayLevels
    <3>8. lev[to] <= Len(path) - 1
      BY <2>3, <3>1, <3>2, <3>4, <3>6, <3>7, BallLevels
    <3> QED
      BY <3>3, <3>7, <3>8
  <2> QED
    BY <2>2, <2>3
<1> QED
  BY <1>1, <1>2, <1>3, SearchInvariance, PathCorrect, PTL DEF BfsSpec

-----------------------------------------------------------------------------
(* The memory image *)

\* Where a word of a node is found, and what it was made from.
LEMMA ImageWord ==
  ASSUME NEW n \in Nodes, NEW w \in 0 .. 15
  PROVE  Image[(Base + 64 * n) \div 4 + w] = NodeWord(n, w)
<1>1. GSize \in Nat /\ n \in Nat /\ n < GSize
  BY GraphBfsAssumption DEF Nodes
<1>2. (Base + 64 * n) \div 4 + w = 16 * n + w
  BY <1>1 DEF Base
<1>3. (16 * n + w) \div 16 = n /\ (16 * n + w) % 16 = w /\ 16 * n + w \in 0 .. 16 * GSize - 1
  BY <1>1
<1> HIDE DEF Base
<1> QED
  BY <1>2, <1>3 DEF Image, WordsPerNode

\* The low bits of a word below 16.
LEMMA CountBits == \A c \in 0 .. 13 : c % 16 = c /\ (c \div 2 ^ 24) % 2 = 0
OBVIOUS

LEMMA NeighbourWord ==
  ASSUME NEW c \in 0 .. 13, NEW i \in 1 .. c
  PROVE  1 + i \in 0 .. 15 /\ 1 + i # 0 /\ 1 + i # 1 /\ (1 + i) - 2 < c /\ (1 + i) - 1 = i
OBVIOUS

LEMMA ImageIsGraph ==
  ASSUME BfsTypeOK, \A n \in Nodes : ~marked[n], memfile' = Image, UNCHANGED neigh
  PROVE  MemfileIsGraph'
<1> SUFFICES ASSUME NEW n \in Nodes
             PROVE  LET word(w) == Image[(Base + 64 * n) \div 4 + w]
                        count   == word(1) % 16
                    IN /\ count = Len(neigh[n])
                       /\ (word(1) \div 2 ^ 24) % 2 = 0
                       /\ \A i \in 1 .. count : word(1 + i) = Base + 64 * neigh[n][i]
  BY DEF MemfileIsGraph
<1>1. Len(neigh[n]) \in 0 .. 13
  <2>1. neigh[n] \in Seq(Nodes) /\ Len(neigh[n]) <= NMax
    BY DEF BfsTypeOK
  <2>2. Len(neigh[n]) \in Nat
    BY <2>1
  <2>3. NMax \in Nat /\ NMax <= 13
    BY GraphBfsAssumption
  <2>4. Len(neigh[n]) <= NMax
    BY <2>1
  <2> DEFINE c == Len(neigh[n])
  <2> HIDE DEF c
  <2>5. c \in 0 .. 13
    <3>1. c \in Nat /\ c <= NMax
      BY <2>2, <2>4 DEF c
    <3> QED
      BY <2>3, <3>1
  <2> QED
    BY <2>5 DEF c
<1>2. Image[(Base + 64 * n) \div 4 + 1] = Len(neigh[n])
  <2>1. Image[(Base + 64 * n) \div 4 + 1] = NodeWord(n, 1)
    BY ImageWord
  <2>2. NodeWord(n, 1) = Len(neigh[n]) + 0
    <3>1. ~marked[n]
      OBVIOUS
    <3>2. NodeWord(n, 1) = Len(neigh[n]) + (IF marked[n] THEN 2 ^ 31 ELSE 0)
      BY DEF NodeWord
    <3> QED
      BY <3>1, <3>2, Zenon
  <2> QED
    BY <1>1, <2>1, <2>2
<1>3. ASSUME NEW i \in 1 .. Len(neigh[n])
      PROVE  Image[(Base + 64 * n) \div 4 + (1 + i)] = Base + 64 * neigh[n][i]
  <2>1. 1 + i \in 0 .. 15 /\ 1 + i # 0 /\ 1 + i # 1 /\ (1 + i) - 2 < Len(neigh[n]) /\ (1 + i) - 1 = i
    BY <1>1, NeighbourWord
  <2>2. Image[(Base + 64 * n) \div 4 + (1 + i)] = NodeWord(n, 1 + i)
    BY <2>1, ImageWord
  <2>3. NodeWord(n, 1 + i) = Base + 64 * neigh[n][i]
    BY <2>1 DEF NodeWord
  <2> QED
    BY <2>2, <2>3
<1>4. Len(neigh[n]) % 16 = Len(neigh[n]) /\ (Len(neigh[n]) \div 2 ^ 24) % 2 = 0
  BY <1>1, CountBits
<1> QED
  BY <1>2, <1>3, <1>4

LEMMA ImageStep == BfsTypeOK /\ ImageInv /\ [BfsNext]_bfsVars => ImageInv'
<1> SUFFICES ASSUME BfsTypeOK, ImageInv, [BfsNext]_bfsVars PROVE ImageInv'
  OBVIOUS
<1>1. ASSUME NEW f \in Nodes, NEW t \in Nodes, AddEdge(f, t) PROVE ImageInv'
  BY <1>1 DEF AddEdge, ImageInv, MemfileIsGraph, search
<1>2. CASE WriteMemfile
  <2>1. UNCHANGED neigh /\ phase' = "call" /\ \A n \in Nodes : ~marked[n]
    BY <1>2 DEF WriteMemfile, ImageInv
  <2>2. CASE memfile' = Image
    BY <2>1, <2>2, ImageIsGraph DEF ImageInv
  <2>3. CASE memfile' = NoFile
    BY <2>1, <2>3 DEF ImageInv, MemfileIsGraph
  <2> QED
    BY <1>2, <2>2, <2>3 DEF WriteMemfile
<1>3. CASE \/ StartSearch \/ Finish \/ Dequeue \/ ExpandNext \/ ExpandEnd \/ SearchEnd
           \/ PathNext \/ PathEnd \/ Answered
  <2>1. UNCHANGED <<neigh, memfile>> /\ phase' # "build"
    BY <1>3 DEF StartSearch, Finish, Dequeue, ExpandNext, ExpandEnd, SearchEnd, PathNext,
                PathEnd, Answered, graph
  <2> QED
    BY <2>1 DEF ImageInv, MemfileIsGraph
<1>4. CASE UNCHANGED bfsVars
  BY <1>4 DEF bfsVars, graph, search, ImageInv, MemfileIsGraph
<1> QED
  BY <1>1, <1>2, <1>3, <1>4 DEF BfsNext

\* The accelerator finds in the image the graph that the reference searches, for every
\* graph: the counts, no mark, and the addresses of the neighbours.
THEOREM ImageCorrect == BfsSpec => []MemfileIsGraph
<1>1. BfsInit => ImageInv
  BY DEF BfsInit, EmptyGraph, ImageInv, MemfileIsGraph
<1>2. ImageInv => MemfileIsGraph
  BY DEF ImageInv
<1> QED
  BY <1>1, <1>2, ImageStep, SearchTypes, PTL DEF BfsSpec

-----------------------------------------------------------------------------
(* The clock under an event-driven simulator *)

\* What the callback relies on: before the init task the register is not driven
\* and the clock's own value is high; then the two alternate together.
VpiInv ==
  /\ vpc = "start" => signal = Unknown /\ dramclkVal = ClkStart /\ edges = 0 /\ vclocks = 0
  /\ vpc = "run" => /\ signal \in {0, 1} /\ due = 1 - signal
                    /\ dramclkVal \in BOOLEAN /\ (dramclkVal <=> signal = 1)
                    /\ vclocks \in Nat /\ edges = (2 * vclocks) + 1 - signal

LEMMA VpiInitInv == VpiInit => VpiInv
BY DEF VpiInit, VpiInv

LEMMA Turned ==
  ASSUME NEW d, OnChange(d)
  PROVE  dramclkVal' \in BOOLEAN /\ (dramclkVal' <=> ~dramclkVal)
BY Zenon DEF OnChange

LEMMA VpiStepInv == VpiInv /\ [VpiNext]_vpiVars => VpiInv'
<1> SUFFICES ASSUME VpiInv, [VpiNext]_vpiVars PROVE VpiInv'
  OBVIOUS
<1>1. CASE InitTask
  <2>1. signal = Unknown /\ dramclkVal /\ edges = 0 /\ vclocks = 0
    BY <1>1 DEF InitTask, VpiInv, ClkStart
  <2>2. edges' = edges + 1 /\ signal' = 0 /\ OnChange(dramsim')
    BY <1>1, <2>1 DEF InitTask, Drive, Unknown
  <2>3. dramclkVal' \in BOOLEAN /\ ~dramclkVal'
    BY <2>1, <2>2, Turned
  <2>4. vclocks' = vclocks /\ vpc' = "run" /\ due' = 1
    BY <2>2, <2>3 DEF OnChange
  <2> QED
    BY <2>1, <2>2, <2>3, <2>4 DEF VpiInv
<1>2. CASE ClockChange
  <2>1. /\ signal \in {0, 1} /\ due = 1 - signal /\ (dramclkVal <=> signal = 1)
        /\ vclocks \in Nat /\ edges = (2 * vclocks) + 1 - signal
    BY <1>2 DEF ClockChange, VpiInv
  <2>2. edges' = edges + 1 /\ signal' = 1 - signal /\ OnChange(dramsim)
    <3>1. Drive(due, dramsim) /\ due # signal
      BY <1>2, <2>1 DEF ClockChange
    <3> QED
      BY <2>1, <3>1 DEF Drive
  <2>3. dramclkVal' \in BOOLEAN /\ (dramclkVal' <=> signal' = 1)
    BY <2>1, <2>2, Turned
  <2>4. CASE signal = 0
    <3>1. vclocks' = vclocks + 1 /\ due' = 0
      BY <2>2, <2>3, <2>4 DEF OnChange
    <3> QED
      BY <1>2, <2>1, <2>2, <2>3, <2>4, <3>1 DEF VpiInv, ClockChange, OnChange
  <2>5. CASE signal = 1
    <3>1. vclocks' = vclocks /\ due' = 1
      BY <2>2, <2>3, <2>5 DEF OnChange
    <3> QED
      BY <1>2, <2>1, <2>2, <2>3, <2>5, <3>1 DEF VpiInv, ClockChange, OnChange
  <2> QED
    BY <2>1, <2>4, <2>5
<1>3. CASE EndSim
  BY <1>3 DEF EndSim, VpiInv
<1>4. CASE UNCHANGED vpiVars
  BY <1>4 DEF vpiVars, VpiInv
<1> QED
  BY <1>1, <1>2, <1>3, <1>4 DEF VpiNext

LEMMA VpiInvPhase == VpiInv => VpiClockInPhase
<1> SUFFICES ASSUME VpiInv, vpc = "run"
             PROVE  /\ dramclkVal = (signal = 1)
                    /\ vclocks = edges \div 2
                    /\ due = 1 - signal
  BY DEF VpiClockInPhase
<1>1. /\ signal \in {0, 1} /\ due = 1 - signal /\ edges = (2 * vclocks) + 1 - signal
      /\ vclocks \in Nat /\ dramclkVal \in BOOLEAN /\ (dramclkVal <=> signal = 1)
  BY DEF VpiInv
<1>2. dramclkVal = (signal = 1)
  BY <1>1, Zenon
<1>3. vclocks = edges \div 2
  BY <1>1
<1> QED
  BY <1>1, <1>2, <1>3

\* While the simulation runs, dramclk_val is the value of the register and the
\* DRAM has had one clock for each of its rising edges.
THEOREM VpiClockCorrect == VpiSpec => []VpiClockInPhase
<1>1. VpiInit => VpiInv
  BY VpiInitInv
<1>2. VpiInv /\ [VpiNext]_vpiVars => VpiInv'
  BY VpiStepInv
<1>3. VpiInv => VpiClockInPhase
  BY VpiInvPhase
<1> QED
  BY <1>1, <1>2, <1>3, PTL DEF VpiSpec
-----------------------------------------------------------------------------
(* The clock of DRAM::tick *)

\* How far the DRAM's clocks are behind the core's since the first tick.
Behind == ((now - 1) * ClkUnit) - ((clocks - clocks0) * period)

\* After the first tick, what clk_elapsed holds is what it held then, and what the
\* DRAM is behind since.
ClockInv ==
  /\ period \in Periods
  /\ elapsed \in Nat /\ clocks \in Nat /\ clocks0 \in Nat
  /\ now \in Nat
  /\ simpc = "start" => now = 0
  /\ now = 0 => clocks = 0
  /\ now >= 1 => /\ elapsed < period
                 /\ elapsed - Behind \in 0 .. period - 1

LEMMA ClockInitInv == SimInit => ClockInv
BY ClockAssumption DEF SimInit, ClockInv

LEMMA Division ==
  ASSUME NEW a \in Nat, NEW b \in Nat \ {0}
  PROVE  /\ a \div b \in Nat /\ a % b \in Nat /\ a % b < b
         /\ a = ((a \div b) * b) + (a % b)
OBVIOUS

LEMMA TickInv == ASSUME ClockInv, Tick, simpc' # "start" PROVE ClockInv'
<1> DEFINE total == (elapsed + ClkUnit) % ClkWrap
           q     == total \div period
           r     == total % period
<1>1. /\ period \in Nat \ {0} /\ ClkUnit \in Nat /\ ClkWrap \in Nat \ {0}
      /\ ClkUnit + period <= ClkWrap
      /\ elapsed \in Nat /\ clocks \in Nat /\ clocks0 \in Nat /\ now \in Nat
  BY ClockAssumption DEF ClockInv
<1>2. /\ elapsed' = r /\ clocks' = clocks + q /\ period' = period /\ now' = now + 1
      /\ clocks0' = IF now = 0 THEN q ELSE clocks0
  BY DEF Tick, DramTick, Remainder
<1>3. total \in Nat
  BY <1>1, Division
<1>4. q \in Nat /\ r \in Nat /\ r < period /\ total = (q * period) + r
  BY <1>1, <1>3, Division
<1>5. elapsed' - Behind' \in 0 .. period' - 1
  <2>1. CASE now = 0
    <3>1. Behind' = 0
      <4>1. clocks' = q /\ clocks0' = q /\ now' - 1 = 0
        BY <1>1, <1>2, <1>4, <2>1 DEF ClockInv
      <4>2. 0 * ClkUnit = 0 /\ 0 * period' = 0 /\ q - q = 0
        BY <1>1, <1>2, <1>4
      <4> QED
        BY <4>1, <4>2 DEF Behind
    <3> QED
      BY <1>1, <1>2, <1>4, <3>1
  <2>2. CASE now >= 1
    <3>1. total = elapsed + ClkUnit
      BY <1>1, <2>2 DEF ClockInv
    <3>2. Behind' = (Behind + ClkUnit) - (q * period)
      <4> HIDE DEF total, q, r
      <4>1. Behind' = (now * ClkUnit) - (((clocks + q) - clocks0) * period)
        BY <1>1, <1>2, <2>2 DEF Behind
      <4>2. now * ClkUnit = ((now - 1) * ClkUnit) + ClkUnit
        BY <1>1
      <4>3. ((clocks + q) - clocks0) * period = ((clocks - clocks0) * period) + (q * period)
        BY <1>1, <1>4
      <4> QED
        BY <1>1, <1>4, <4>1, <4>2, <4>3 DEF Behind
    <3>3. elapsed - Behind \in 0 .. period - 1 /\ Behind \in Int
      BY <1>1, <2>2 DEF ClockInv, Behind
    <3>4. q * period \in Int
      BY <1>1, <1>4
    <3> HIDE DEF total, q, r
    <3> QED
      BY <1>1, <1>2, <1>4, <3>1, <3>2, <3>3, <3>4
  <2> QED
    BY <1>1, <2>1, <2>2
<1> HIDE DEF total, q, r
<1> QED
  BY <1>1, <1>2, <1>4, <1>5 DEF ClockInv

LEMMA ClockStepInv == ClockInv /\ [SimNext]_simVars => ClockInv'
<1> SUFFICES ASSUME ClockInv, [SimNext]_simVars PROVE ClockInv'
  OBVIOUS
<1>1. CASE simpc = "start" /\ (FileMissing \/ NoDram \/ BadRanges \/ StartReset)
  <2>1. now' = 0 /\ now = 0 /\ UNCHANGED clock
    BY <1>1 DEF FileMissing, NoDram, BadRanges, StartReset, ClockInv
  <2> QED
    BY <2>1 DEF ClockInv, clock
<1>2. CASE ResetTick
  BY <1>2, TickInv DEF ResetTick
<1>3. CASE RunTick
  BY <1>3, TickInv DEF RunTick
<1>4. CASE UNCHANGED simVars
  BY <1>4 DEF simVars, clock, ClockInv, Behind
<1> QED
  BY <1>1, <1>2, <1>3, <1>4 DEF SimNext, FileMissing, NoDram, BadRanges, StartReset

LEMMA ClockInvTime == ClockInv => DramKeepsTime
<1> SUFFICES ASSUME ClockInv, now >= 1 PROVE -period < Behind /\ Behind < period
  BY DEF DramKeepsTime, Behind
<1>1. /\ elapsed \in Nat /\ elapsed < period /\ elapsed - Behind \in 0 .. period - 1
      /\ period \in Nat \ {0}
  BY ClockAssumption DEF ClockInv
<1>2. Behind \in Int
  BY ClockAssumption DEF ClockInv, Behind
<1> QED
  BY <1>1, <1>2

\* Whatever clk_elapsed holds at the start, and however the cycle and the period
\* divide, the DRAM is within one of its periods of the core from the first tick on.
THEOREM DramClockCorrect == SimSpec => []DramKeepsTime
<1>1. SimInit => ClockInv
  BY ClockInitInv
<1>2. ClockInv /\ [SimNext]_simVars => ClockInv'
  BY ClockStepInv
<1>3. ClockInv => DramKeepsTime
  BY ClockInvTime
<1> QED
  BY <1>1, <1>2, <1>3, PTL DEF SimSpec

-----------------------------------------------------------------------------
(* The dump ranges of top.cc *)

\* Only the identity keeps the order.
LEMMA OrderIsUnique ==
  ASSUME NEW n \in Nat, NEW p \in Bijection(1 .. n, 1 .. n),
         \A i, j \in 1 .. n : i < j => p[i] <= p[j]
  PROVE  \A i \in 1 .. n : p[i] = i
<1>1. /\ p \in [1 .. n -> 1 .. n]
      /\ \A i, j \in 1 .. n : p[i] = p[j] => i = j
      /\ \A k \in 1 .. n : \E i \in 1 .. n : p[i] = k
  BY DEF Bijection, Injection, Surjection, IsInjective
<1> DEFINE moved == {i \in 1 .. n : p[i] # i}
<1>2. ASSUME moved # {} PROVE FALSE
  <2> moved \subseteq Nat
    OBVIOUS
  <2>1. PICK i \in moved : \A k \in moved : i <= k
    <3> HIDE DEF moved
    <3> QED
      BY <1>2, LeastNumber
  <2>2. \A k \in 1 .. n : k < i => p[k] = k
    BY <2>1
  <2>3. i \in 1 .. n /\ p[i] \in 1 .. n /\ p[i] # i
    BY <1>1, <2>1
  <2>4. ~(p[i] < i)
    <3>1. p[i] < i => p[p[i]] = p[i]
      BY <2>2, <2>3
    <3> QED
      BY <1>1, <2>3, <3>1
  <2>5. PICK j \in 1 .. n : p[j] = i
    BY <1>1, <2>3
  <2>6. j > i
    BY <2>2, <2>3, <2>5
  <2>7. p[i] <= p[j]
    BY <2>3, <2>6
  <2> QED
    BY <2>3, <2>4, <2>5, <2>7
<1> QED
  BY <1>2

DumpRange == [base : Nat, len : Nat]

\* The check of the ranges leaves them in order: the sorting changes nothing.
LEMMA AcceptedAreSorted ==
  ASSUME NEW rs \in Seq(DumpRange), Accepted(rs)
  PROVE  /\ \A i, j \in 1 .. Len(rs) : i < j => End(rs[i]) < rs[j].base
         /\ \A i \in 1 .. Len(rs) : Sorted(rs)[i] = rs[i]
<1>1. Len(rs) \in Nat /\ DOMAIN rs = 1 .. Len(rs) /\ \A i \in 1 .. Len(rs) : rs[i] \in DumpRange
  OBVIOUS
<1>2. \A i \in 1 .. Len(rs) : rs[i].base \in Nat /\ rs[i].len \in Nat /\ End(rs[i]) \in Nat
  BY <1>1 DEF DumpRange, End
<1>3. ASSUME NEW i \in 1 .. Len(rs), NEW j \in 1 .. Len(rs), i < j
      PROVE  End(rs[i]) < rs[j].base
  <2>1. ~Overlap(rs[j], rs[i])
    BY <1>1, <1>3 DEF Accepted
  <2> QED
    BY <1>2, <2>1 DEF Overlap
<1>4. ASSUME NEW i \in 1 .. Len(rs), NEW j \in 1 .. Len(rs), i < j
      PROVE  rs[i].base < rs[j].base
  <2>1. End(rs[i]) < rs[j].base
    BY <1>3, <1>4
  <2> QED
    BY <1>2, <2>1 DEF End
<1> DEFINE n == Len(rs)
           InOrder(p) == \A i, j \in 1 .. n : i < j => rs[p[i]].base <= rs[p[j]].base
           order == CHOOSE p \in Bijection(1 .. n, 1 .. n) : InOrder(p)
           same == [i \in 1 .. n |-> i]
<1>5. same \in Bijection(1 .. n, 1 .. n) /\ InOrder(same)
  <2>1. InOrder(same)
    BY <1>2, <1>4
  <2>2. same \in [1 .. n -> 1 .. n] /\ \A i \in 1 .. n : same[i] = i
    OBVIOUS
  <2> HIDE DEF same, n
  <2>3. same \in Injection(1 .. n, 1 .. n)
    BY <2>2 DEF Injection, IsInjective
  <2>4. same \in Surjection(1 .. n, 1 .. n)
    BY <2>2 DEF Surjection
  <2> QED
    BY <2>1, <2>3, <2>4 DEF Bijection
<1>6. order \in Bijection(1 .. n, 1 .. n) /\ InOrder(order)
  <2> HIDE DEF same, InOrder
  <2> QED
    BY <1>5
<1>7. Sorted(rs) = [i \in 1 .. n |-> rs[order[i]]]
  BY <1>1 DEF Sorted
<1> HIDE DEF order
<1>8. order \in [1 .. n -> 1 .. n]
  BY <1>6 DEF Bijection, Injection
<1>9. \A i, j \in 1 .. n : i < j => order[i] <= order[j]
  <2> SUFFICES ASSUME NEW i \in 1 .. n, NEW j \in 1 .. n, i < j PROVE order[i] <= order[j]
    OBVIOUS
  <2>1. rs[order[i]].base <= rs[order[j]].base
    BY <1>6
  <2>2. order[i] \in 1 .. n /\ order[j] \in 1 .. n
    BY <1>8
  <2>3. order[j] < order[i] => rs[order[j]].base < rs[order[i]].base
    BY <1>4, <2>2
  <2>4. rs[order[i]].base \in Nat /\ rs[order[j]].base \in Nat
    BY <1>2, <2>2
  <2> QED
    BY <2>1, <2>2, <2>3, <2>4
<1>10. \A i \in 1 .. n : order[i] = i
  <2> HIDE DEF n, InOrder
  <2>1. n \in Nat
    BY <1>1 DEF n
  <2> QED
    BY <1>6, <1>9, <2>1, OrderIsUnique
<1> QED
  BY <1>1, <1>3, <1>7, <1>10

\* Which range the k-th event is of, and which events are those of the i-th range.
LEMMA HalfOf ==
  ASSUME NEW n \in Nat, NEW k \in 1 .. 2 * n
  PROVE  /\ (k + 1) \div 2 \in 1 .. n
         /\ k = IF k % 2 = 1 THEN 2 * ((k + 1) \div 2) - 1 ELSE 2 * ((k + 1) \div 2)
OBVIOUS

LEMMA DoubleOf ==
  ASSUME NEW n \in Nat, NEW i \in 1 .. n
  PROVE  /\ 2 * i - 1 \in 1 .. 2 * n /\ (2 * i - 1) % 2 = 1 /\ ((2 * i - 1) + 1) \div 2 = i
         /\ 2 * i \in 1 .. 2 * n /\ (2 * i) % 2 = 0 /\ ((2 * i) + 1) \div 2 = i
OBVIOUS

\* The events of ranges that have a length: starts and ends in turn, each later than
\* the one before.
LEMMA EventFacts ==
  ASSUME NEW rs \in Seq(DumpRange), Accepted(rs), \A i \in 1 .. Len(rs) : rs[i].len > 0
  PROVE  /\ EventsOf(rs) \in Seq(Nat) /\ Len(EventsOf(rs)) = 2 * Len(rs)
         /\ \A i \in 1 .. Len(rs) : /\ EventsOf(rs)[2 * i - 1] = rs[i].base
                                    /\ EventsOf(rs)[2 * i] = End(rs[i])
         /\ \A a, b \in 1 .. 2 * Len(rs) : a < b => EventsOf(rs)[a] < EventsOf(rs)[b]
<1> DEFINE n == Len(rs)
           E == EventsOf(rs)
<1>1. n \in Nat /\ \A i \in 1 .. n : rs[i] \in DumpRange
  OBVIOUS
<1>2. \A i \in 1 .. n : /\ rs[i].base \in Nat /\ End(rs[i]) \in Nat
                        /\ rs[i].base < End(rs[i])
  BY <1>1 DEF DumpRange, End
<1>3. \A i, j \in 1 .. n : i < j => End(rs[i]) < rs[j].base
  BY AcceptedAreSorted
<1>4. ASSUME NEW k \in 1 .. 2 * n
      PROVE  /\ (k + 1) \div 2 \in 1 .. n
             /\ k = IF k % 2 = 1 THEN 2 * ((k + 1) \div 2) - 1 ELSE 2 * ((k + 1) \div 2)
             /\ E[k] = IF k % 2 = 1 THEN rs[(k + 1) \div 2].base ELSE End(rs[(k + 1) \div 2])
  <2>1. /\ (k + 1) \div 2 \in 1 .. n
        /\ k = IF k % 2 = 1 THEN 2 * ((k + 1) \div 2) - 1 ELSE 2 * ((k + 1) \div 2)
    BY <1>1, HalfOf
  <2>2. Sorted(rs)[(k + 1) \div 2] = rs[(k + 1) \div 2]
    BY <2>1, AcceptedAreSorted
  <2> QED
    BY <2>1, <2>2 DEF EventsOf
<1>5. /\ E \in Seq(Nat) /\ Len(E) = 2 * n
  <2>1. \A k \in 1 .. 2 * n : E[k] \in Nat
    <3> HIDE DEF E, n
    <3> QED
      BY <1>1, <1>2, <1>4
  <2>2. DOMAIN E = 1 .. 2 * n /\ E = [k \in 1 .. 2 * n |-> E[k]]
    BY DEF EventsOf
  <2> HIDE DEF E, n
  <2> QED
    BY <1>1, <2>1, <2>2
<1> HIDE DEF E, n
<1>6. ASSUME NEW i \in 1 .. n PROVE E[2 * i - 1] = rs[i].base /\ E[2 * i] = End(rs[i])
  <2>1. /\ 2 * i - 1 \in 1 .. 2 * n /\ (2 * i - 1) % 2 = 1 /\ ((2 * i - 1) + 1) \div 2 = i
        /\ 2 * i \in 1 .. 2 * n /\ (2 * i) % 2 = 0 /\ ((2 * i) + 1) \div 2 = i
    BY <1>1, DoubleOf
  <2> QED
    BY <1>4, <2>1
<1>7. ASSUME NEW a \in 1 .. 2 * n, NEW b \in 1 .. 2 * n, a < b PROVE E[a] < E[b]
  <2> DEFINE i == (a + 1) \div 2
             j == (b + 1) \div 2
  <2>1. i \in 1 .. n /\ j \in 1 .. n /\ (i < j \/ (i = j /\ a % 2 = 1 /\ b % 2 # 1))
    BY <1>1, <1>7
  <2>2. /\ E[a] = IF a % 2 = 1 THEN rs[i].base ELSE End(rs[i])
        /\ E[b] = IF b % 2 = 1 THEN rs[j].base ELSE End(rs[j])
    BY <1>4
  <2> HIDE DEF i, j
  <2>3. /\ rs[i].base \in Nat /\ End(rs[i]) \in Nat /\ rs[i].base < End(rs[i])
        /\ rs[j].base \in Nat /\ End(rs[j]) \in Nat /\ rs[j].base < End(rs[j])
    BY <1>2, <2>1
  <2>4. i < j => End(rs[i]) < rs[j].base
    BY <1>3, <2>1
  <2> QED
    BY <2>1, <2>2, <2>3, <2>4
<1> QED
  BY <1>5, <1>6, <1>7 DEF E, n

LEMMA Parity ==
  ASSUME NEW n \in Nat, NEW k \in 0 .. 2 * n
  PROVE  /\ k % 2 = 1 => (k + 1) \div 2 \in 1 .. n /\ k = 2 * ((k + 1) \div 2) - 1
         /\ k % 2 # 1 => \A i \in 1 .. n : 2 * i <= k \/ 2 * i - 1 > k
<1>1. k % 2 = 1 => (k + 1) \div 2 \in 1 .. n /\ k = 2 * ((k + 1) \div 2) - 1
  OBVIOUS
<1>2. ASSUME k % 2 # 1, NEW i \in 1 .. n PROVE 2 * i <= k \/ 2 * i - 1 > k
  BY <1>2
<1> QED
  BY <1>1, <1>2

\* Between one event and the next, the dump is on exactly if a range covers the time.
LEMMA BetweenEvents ==
  ASSUME NEW rs \in Seq(DumpRange), Accepted(rs), \A i \in 1 .. Len(rs) : rs[i].len > 0,
         NEW t \in Nat, NEW k \in 0 .. 2 * Len(rs),
         k > 0 => EventsOf(rs)[k] <= t,
         k < 2 * Len(rs) => t < EventsOf(rs)[k + 1]
  PROVE  (k % 2 = 1) <=> \E i \in 1 .. Len(rs) : rs[i].base <= t /\ t < End(rs[i])
<1> DEFINE n == Len(rs)
           E == EventsOf(rs)
<1>1. /\ n \in Nat
      /\ \A a \in 1 .. 2 * n : E[a] \in Nat
      /\ \A i \in 1 .. n : E[2 * i - 1] = rs[i].base /\ E[2 * i] = End(rs[i])
      /\ \A a, b \in 1 .. 2 * n : a < b => E[a] < E[b]
  BY EventFacts
<1>2. k \in 0 .. 2 * n /\ (k > 0 => E[k] <= t) /\ (k < 2 * n => t < E[k + 1])
  OBVIOUS
<1> HIDE DEF n, E
<1>3. \A a \in 1 .. 2 * n : a <= k => E[a] <= t
  <2> SUFFICES ASSUME NEW a \in 1 .. 2 * n, a <= k PROVE E[a] <= t
    OBVIOUS
  <2>1. k \in 1 .. 2 * n /\ E[k] <= t /\ E[k] \in Nat /\ E[a] \in Nat
    BY <1>1, <1>2
  <2>2. a = k \/ E[a] < E[k]
    BY <1>1, <2>1
  <2> QED
    BY <2>1, <2>2
<1>4. \A a \in 1 .. 2 * n : a > k => t < E[a]
  <2> SUFFICES ASSUME NEW a \in 1 .. 2 * n, a > k PROVE t < E[a]
    OBVIOUS
  <2>1. k + 1 \in 1 .. 2 * n /\ t < E[k + 1]
    BY <1>1, <1>2
  <2>2. E[k + 1] \in Nat /\ E[a] \in Nat
    BY <1>1, <2>1
  <2>3. a = k + 1 \/ E[k + 1] < E[a]
    BY <1>1, <1>2, <2>1
  <2> QED
    BY <2>1, <2>2, <2>3
<1>5. CASE k % 2 = 1
  <2> DEFINE i == (k + 1) \div 2
  <2>1. i \in 1 .. n /\ k = 2 * i - 1
    BY <1>1, <1>2, <1>5, Parity
  <2> HIDE DEF i
  <2>2. 2 * i - 1 \in 1 .. 2 * n /\ 2 * i \in 1 .. 2 * n
    BY <1>1, <2>1
  <2>3. E[2 * i - 1] <= t /\ t < E[2 * i]
    BY <1>3, <1>4, <2>1, <2>2
  <2>4. rs[i].base <= t /\ t < End(rs[i])
    BY <1>1, <2>1, <2>3
  <2> QED
    BY <1>5, <2>1, <2>4 DEF n
<1>6. CASE k % 2 # 1
  <2>1. ASSUME NEW i \in 1 .. n PROVE ~(rs[i].base <= t /\ t < End(rs[i]))
    <3>1. 2 * i - 1 \in 1 .. 2 * n /\ 2 * i \in 1 .. 2 * n /\ (2 * i <= k \/ 2 * i - 1 > k)
      <4>1. 2 * i <= k \/ 2 * i - 1 > k
        BY <1>1, <1>2, <1>6, Parity
      <4> QED
        BY <1>1, <4>1
    <3>2. /\ E[2 * i - 1] = rs[i].base /\ E[2 * i] = End(rs[i])
          /\ E[2 * i - 1] \in Nat /\ E[2 * i] \in Nat
      BY <1>1, <3>1
    <3>3. E[2 * i] <= t \/ t < E[2 * i - 1]
      BY <1>3, <1>4, <3>1
    <3> QED
      BY <3>2, <3>3
  <2> QED
    BY <1>6, <2>1 DEF n
<1> QED
  BY <1>5, <1>6

LEMMA NextParity == \A p \in Nat : ((p + 1) % 2 = 1) <=> ~(p % 2 = 1)
OBVIOUS

\* A position counted from the end.
LEMMA FromTheEnd ==
  ASSUME NEW n \in Nat, NEW m \in Nat
  PROVE  /\ (n - m) + 1 = (n - m - 1) + 2
         /\ \A i \in Nat : (n - m) + (i + 1) = (n - (m - 1)) + i
OBVIOUS

LEMMA DumpInitInv == SimInit => DumpInv
BY DEF SimInit, DumpInv, Ticking

\* The first event is due first.
LEMMA StartDumpInv == ASSUME DumpInv, StartReset PROVE DumpInv'
<1> DEFINE rs == options.ranges
           E == EventsOf(rs)
<1>1. /\ options' = options /\ simpc = "start" /\ simpc' = "reset" /\ now' = 0
      /\ options.dumpon => Accepted(options.ranges)
      /\ dumped' = {} /\ events = << >> /\ rs \in Dumps
  BY DEF StartReset, DumpInv
<1>2. rs \in Seq(DumpRange)
  BY <1>1, DumpsAssumption DEF DumpRange
<1>3. {t \in 0 .. now' - 1 : Asked(t)'} = {}
  BY <1>1
<1>4. ASSUME options.dumpon, rs # << >>, \A i \in 1 .. Len(rs) : rs[i].len > 0
      PROVE  EventsAreDue'
  <2>1. /\ E \in Seq(Nat) /\ Len(E) = 2 * Len(rs) /\ Len(rs) \in Nat /\ Len(rs) > 0
    <3>1. E \in Seq(Nat) /\ Len(E) = 2 * Len(rs)
      BY <1>1, <1>2, <1>4, EventFacts
    <3>2. Len(rs) \in Nat /\ (Len(rs) = 0 => rs = << >>)
      BY <1>2
    <3> QED
      BY <1>4, <3>1, <3>2
  <2>2. dumping' = FALSE /\ nextEvent' = E[1] /\ events' = Tail(E)
    BY <1>4 DEF StartReset, StartDump
  <2> HIDE DEF E
  <2>3. /\ E # << >> /\ E[1] \in Nat /\ Tail(E) \in Seq(Nat) /\ Len(Tail(E)) = Len(E) - 1
        /\ \A i \in 1 .. Len(Tail(E)) : Tail(E)[i] = E[i + 1]
    BY <2>1
  <2>4. E' = E
    BY <1>1 DEF E
  <2>5. Past(E)' = 0
    BY <2>1, <2>2, <2>3, <2>4 DEF Past, Never
  <2>6. nextEvent' # Never
    BY <2>2, <2>3 DEF Never
  <2>7. \A i \in 1 .. Len(events') : events'[i] = E[Len(E) - Len(events') + i]
    BY <2>1, <2>2, <2>3
  <2>8. (EventsOf(options.ranges))' = E
    BY <1>1 DEF E
  <2> QED
    <3>1. /\ events' \in Seq(Nat) /\ nextEvent' = E[0 + 1] /\ now' <= nextEvent'
          /\ ~(0 > 0) /\ 0 \in 0 .. Len(E)
      BY <1>1, <2>1, <2>2, <2>3
    <3>2. dumping' = (0 % 2 = 1)
      <4>1. (0 % 2 = 1) = FALSE
        OBVIOUS
      <4> QED
        BY <2>2, <4>1, Zenon
    <3> QED
      BY <2>4, <2>5, <2>6, <2>7, <2>8, <3>1, <3>2 DEF EventsAreDue
<1>5. ~(options.dumpon /\ rs # << >>) => dumping' = options.dumpon /\ nextEvent' = Never
  BY DEF StartReset, StartDump
<1> QED
  BY <1>1, <1>3, <1>4, <1>5 DEF DumpInv, Ticking

\* A tick takes the event that is due now, if one is; the next is later, so the switch
\* stands as the ranges ask.
LEMMA DumpTickInv ==
  ASSUME DumpInv, simpc \in {"reset", "run"}, Tick, simpc' \in {"reset", "run", "finished"}
  PROVE  DumpInv'
<1> DEFINE rs == options.ranges
           E == EventsOf(rs)
<1>1. /\ options' = options /\ now' = now + 1 /\ now \in Nat /\ rs \in Dumps
      /\ options.dumpon => Accepted(rs)
      /\ DumpTick
  BY DEF Tick, DumpInv, Ticking
<1>2. rs \in Seq(DumpRange)
  BY <1>1, DumpsAssumption DEF DumpRange
<1>3. \A t : Asked(t)' <=> Asked(t)
  BY <1>1 DEF Asked
<1>4. ASSUME \A i \in 1 .. Len(rs) : rs[i].len > 0
      PROVE  /\ IF options.dumpon /\ rs # << >> THEN EventsAreDue'
                ELSE dumping' = options.dumpon /\ nextEvent' = Never
             /\ dumped' = {t \in 0 .. now' - 1 : Asked(t)}
  <2>1. /\ IF options.dumpon /\ rs # << >> THEN EventsAreDue
           ELSE dumping = options.dumpon /\ nextEvent = Never
        /\ dumped = {t \in 0 .. now - 1 : Asked(t)}
    BY <1>4 DEF DumpInv, Ticking
  <2>2. SUFFICES /\ IF options.dumpon /\ rs # << >> THEN EventsAreDue'
                    ELSE dumping' = options.dumpon /\ nextEvent' = Never
                 /\ dumping' <=> Asked(now)
    <3>1. dumped' = IF dumping' THEN dumped \cup {now} ELSE dumped
      BY <1>1 DEF DumpTick
    <3>2. 0 .. now' - 1 = (0 .. now - 1) \cup {now}
      BY <1>1
    <3> QED
      BY <2>1, <3>1, <3>2
  <2>3. CASE ~(options.dumpon /\ rs # << >>)
    <3>1. dumping' = options.dumpon /\ nextEvent' = Never
      BY <1>1, <2>1, <2>3 DEF DumpTick, Never
    <3> QED
      BY <1>2, <2>3, <3>1 DEF Asked
  <2>4. CASE options.dumpon /\ rs # << >>
    <3>1. E \in Seq(Nat) /\ Len(E) = 2 * Len(rs) /\ Len(rs) \in Nat /\ Len(E) \in Nat
      <4>1. E \in Seq(Nat) /\ Len(E) = 2 * Len(rs)
        BY <1>1, <1>2, <1>4, <2>4, EventFacts
      <4> QED
        BY <1>2, <4>1
    <3>m. \A a, b \in 1 .. Len(E) : a < b => E[a] < E[b]
      BY <1>1, <1>2, <1>4, <2>4, EventFacts
    <3>2. /\ events \in Seq(Nat) /\ Past(E) \in 0 .. Len(E)
          /\ nextEvent = Never => events = << >>
          /\ nextEvent # Never => nextEvent = E[Past(E) + 1] /\ now <= nextEvent
          /\ \A i \in 1 .. Len(events) : events[i] = E[Len(E) - Len(events) + i]
          /\ Past(E) > 0 => E[Past(E)] < now
          /\ dumping = (Past(E) % 2 = 1)
      BY <2>1, <2>4 DEF EventsAreDue
    <3>3. E' = E
      BY <1>1 DEF E
    <3>a. Past(E) = Len(E) - Len(events) - (IF nextEvent = Never THEN 0 ELSE 1)
      BY DEF Past
    <3>b. Past(E)' = Len(E) - Len(events') - (IF nextEvent' = Never THEN 0 ELSE 1)
      BY <3>3 DEF Past
    <3> DEFINE p == Past(E)
               q == Past(E)'
    <3> HIDE DEF E, p, q
    <3>4. /\ events' \in Seq(Nat) /\ q \in 0 .. Len(E)
          /\ nextEvent' = Never => events' = << >>
          /\ nextEvent' # Never => nextEvent' = E[q + 1] /\ now < nextEvent'
          /\ \A i \in 1 .. Len(events') : events'[i] = E[Len(E) - Len(events') + i]
          /\ q > 0 => E[q] <= now
          /\ dumping' = (q % 2 = 1)
      <4>1. CASE now # nextEvent
        <5>1. UNCHANGED <<dumping, nextEvent, events>>
          BY <1>1, <4>1 DEF DumpTick
        <5>2. q = p
          BY <3>a, <3>b, <5>1 DEF p, q
        <5>3. nextEvent # Never => now < nextEvent
          <6>1. nextEvent # Never => nextEvent = E[p + 1] /\ now <= nextEvent
            BY <3>2 DEF p
          <6>2. nextEvent # Never => p + 1 \in 1 .. Len(E)
            <7>1. Len(events) \in Nat /\ p \in Nat
              BY <3>2 DEF p
            <7>2. nextEvent # Never => p = Len(E) - Len(events) - 1
              BY <3>a DEF p
            <7> QED
              BY <3>1, <7>1, <7>2
          <6>3. nextEvent # Never => nextEvent \in Nat
            BY <3>1, <6>1, <6>2
          <6> QED
            BY <1>1, <4>1, <6>1, <6>3
        <5>4. p > 0 => E[p] <= now
          <6>1. p > 0 => p \in 1 .. Len(E) /\ E[p] < now
            BY <3>1, <3>2 DEF p
          <6>2. p > 0 => E[p] \in Nat
            BY <3>1, <6>1
          <6> QED
            BY <1>1, <6>1, <6>2
        <5> QED
          BY <3>2, <5>1, <5>2, <5>3, <5>4 DEF p
      <4>2. CASE now = nextEvent
        <5>1. nextEvent # Never
          BY <1>1, <4>2 DEF Never
        <5>0. Len(events) \in Nat /\ p \in Nat
          BY <3>2 DEF p
        <5>2. p = Len(E) - Len(events) - 1 /\ p + 1 \in 1 .. Len(E) /\ E[p + 1] = now
          <6>1. p = Len(E) - Len(events) - 1
            BY <3>a, <5>1 DEF p
          <6>2. E[p + 1] = now
            BY <3>2, <4>2, <5>1 DEF p
          <6> QED
            BY <3>1, <5>0, <6>1, <6>2
        <5>3. dumping' = ~dumping
          BY <1>1, <4>2 DEF DumpTick
        <5>4. CASE events = << >>
          <6>1. nextEvent' = Never /\ events' = << >>
            BY <1>1, <4>2, <5>4 DEF DumpTick
          <6>2. q = Len(E) /\ q = p + 1
            BY <3>1, <3>b, <5>2, <5>4, <6>1 DEF q
          <6>3. (q % 2 = 1) <=> ~(p % 2 = 1)
            BY <5>0, <6>2, NextParity
          <6>4. E[q] <= now /\ q \in 0 .. Len(E)
            BY <1>1, <3>1, <5>2, <6>2
          <6>5. dumping' = (q % 2 = 1)
            BY <3>2, <5>3, <6>3 DEF p
          <6> QED
            BY <3>2, <6>1, <6>4, <6>5
        <5>5. CASE events # << >>
          <6>1. nextEvent' = Head(events) /\ events' = Tail(events)
            BY <1>1, <4>2, <5>5 DEF DumpTick
          <6>2. /\ Len(events) \in Nat \ {0} /\ Head(events) = events[1] /\ Head(events) \in Nat
                /\ Tail(events) \in Seq(Nat) /\ Len(Tail(events)) = Len(events) - 1
                /\ \A i \in 1 .. Len(Tail(events)) : Tail(events)[i] = events[i + 1]
            BY <3>2, <5>5
          <6>3. nextEvent' # Never
            BY <6>1, <6>2 DEF Never
          <6>4. q = p + 1
            BY <3>1, <3>b, <5>2, <6>1, <6>2, <6>3 DEF q
          <6>5. events[1] = E[Len(E) - Len(events) + 1] /\ Len(E) - Len(events) + 1 = p + 2
            <7>1. events[1] = E[Len(E) - Len(events) + 1]
              <8>1. 1 \in 1 .. Len(events)
                BY <6>2
              <8> QED
                BY <3>2, <8>1
            <7>2. Len(E) - Len(events) + 1 = (Len(E) - Len(events) - 1) + 2
              BY <3>1, <5>0, FromTheEnd
            <7> QED
              BY <5>2, <7>1, <7>2
          <6>6. nextEvent' = E[q + 1] /\ q + 1 \in 1 .. Len(E) /\ q \in 1 .. Len(E) /\ E[q] = now
            BY <3>1, <5>2, <6>1, <6>2, <6>4, <6>5
          <6>7. now < nextEvent'
            <7>1. E[q] < E[q + 1]
              <8>1. q < q + 1
                BY <5>0, <6>4
              <8> QED
                BY <3>m, <6>6, <8>1
            <7> QED
              BY <6>6, <7>1
          <6>8. \A i \in 1 .. Len(events') : events'[i] = E[Len(E) - Len(events') + i]
            <7> SUFFICES ASSUME NEW i \in 1 .. Len(events')
                         PROVE  events'[i] = E[Len(E) - Len(events') + i]
              OBVIOUS
            <7>1. events'[i] = events[i + 1] /\ i + 1 \in 1 .. Len(events)
              BY <6>1, <6>2
            <7>2. events[i + 1] = E[Len(E) - Len(events) + (i + 1)]
              BY <3>2, <7>1
            <7>3. Len(E) - Len(events) + (i + 1) = Len(E) - Len(events') + i
              <8>1. i \in Nat
                BY <6>1, <6>2
              <8>2. (Len(E) - Len(events)) + (i + 1) = (Len(E) - (Len(events) - 1)) + i
                BY <3>1, <5>0, <8>1, FromTheEnd
              <8>3. Len(events') = Len(events) - 1
                BY <6>1, <6>2
              <8> QED
                BY <8>2, <8>3
            <7> QED
              BY <7>1, <7>2, <7>3
          <6>9. (q % 2 = 1) <=> ~(p % 2 = 1)
            BY <5>0, <6>4, NextParity
          <6>10. events' \in Seq(Nat) /\ E[q] <= now /\ q \in 0 .. Len(E)
            BY <1>1, <6>1, <6>2, <6>6
          <6>11. dumping' = (q % 2 = 1)
            BY <3>2, <5>3, <6>9 DEF p
          <6> QED
            BY <6>3, <6>6, <6>7, <6>8, <6>10, <6>11
        <5> QED
          BY <5>4, <5>5
      <4> QED
        BY <4>1, <4>2
    <3>5. EventsAreDue'
      <4>1. nextEvent' # Never => now' <= nextEvent'
        <5>1. nextEvent' # Never => q + 1 \in 1 .. Len(E)
          <6>1. Len(events') \in Nat /\ q \in Nat
            BY <3>4
          <6>2. nextEvent' # Never => q = Len(E) - Len(events') - 1
            BY <3>b DEF q
          <6> QED
            BY <3>1, <6>1, <6>2
        <5>2. nextEvent' # Never => nextEvent' \in Nat
          BY <3>1, <3>4, <5>1
        <5> QED
          BY <1>1, <3>4, <5>2
      <4>2. q > 0 => E[q] < now'
        <5>1. q > 0 => q \in 1 .. Len(E)
          BY <3>4
        <5>2. q > 0 => E[q] \in Nat
          BY <3>1, <5>1
        <5> QED
          BY <1>1, <3>4, <5>2
      <4>3. (EventsOf(options.ranges))' = E
        BY <1>1 DEF E
      <4> QED
        BY <3>4, <4>1, <4>2, <4>3 DEF EventsAreDue, q, E
    <3>6. dumping' <=> Asked(now)
      <4>1. q \in 0 .. 2 * Len(rs)
        BY <3>1, <3>4
      <4>2. q < 2 * Len(rs) => now < E[q + 1]
        <5>1. q < 2 * Len(rs) => nextEvent' # Never
          <6>1. nextEvent' = Never => events' = << >>
            BY <3>4
          <6>2. nextEvent' = Never => q = Len(E)
            <7>1. nextEvent' = Never => Len(events') = 0
              BY <6>1
            <7>2. nextEvent' = Never => q = Len(E) - Len(events')
              BY <3>1, <3>4, <3>b DEF q
            <7> QED
              BY <3>1, <7>1, <7>2
          <6> QED
            BY <3>1, <6>2
        <5> QED
          BY <3>4, <5>1
      <4>3. q > 0 => E[q] <= now
        BY <3>4
      <4>4. (q % 2 = 1) <=> \E i \in 1 .. Len(rs) : rs[i].base <= now /\ now < End(rs[i])
        BY <1>1, <1>2, <1>4, <2>4, <4>1, <4>2, <4>3, BetweenEvents DEF E
      <4> QED
        BY <2>4, <3>4, <4>4 DEF Asked
    <3> QED
      BY <2>4, <3>5, <3>6
  <2> QED
    BY <2>3, <2>4
<1> QED
  BY <1>1, <1>3, <1>4 DEF DumpInv, Ticking

LEMMA DumpStepInv == DumpInv /\ [SimNext]_simVars => DumpInv'
<1> SUFFICES ASSUME DumpInv, [SimNext]_simVars PROVE DumpInv'
  OBVIOUS
<1>1. CASE FileMissing \/ NoDram \/ BadRanges
  BY <1>1 DEF FileMissing, NoDram, BadRanges, DumpInv, Ticking, dump
<1>2. CASE StartReset
  BY <1>2, StartDumpInv
<1>3. CASE ResetTick
  BY <1>3, DumpTickInv DEF ResetTick
<1>4. CASE RunTick
  BY <1>4, DumpTickInv DEF RunTick
<1>5. CASE UNCHANGED simVars
  BY <1>5 DEF simVars, dump, DumpInv, Ticking, EventsAreDue, Past, Asked
<1> QED
  BY <1>1, <1>2, <1>3, <1>4, <1>5 DEF SimNext

\* What is dumped is what the ranges ask for, whatever ranges were accepted: one queue of
\* events and one switch stand for them all.
THEOREM DumpIsWhatWasAsked == SimSpec => []DumpFollowsRanges
<1>1. DumpInv => DumpFollowsRanges
  BY DEF DumpInv, DumpFollowsRanges
<1> QED
  BY <1>1, DumpInitInv, DumpStepInv, PTL DEF SimSpec

-----------------------------------------------------------------------------
(* The bfs accelerator (bfs_core.v, bfs_queue.v) *)

\* An edge and what is known of its inputs, none of the three faults among it.
GoodEdge(start, root, ready, b) ==
  /\ start \in BOOLEAN /\ ready \in BOOLEAN /\ root \in Node
  /\ b \in BeatsDue \cup {NoBeat}
  /\ start => bstate = "IDLE"
  /\ root = Special => bstate = "INIT"
  /\ BfsEdge(start, root, ready, b)
  /\ bfsFault' = "none"

\* What the edges need of the state.
GoodState ==
  /\ BfsCoreTypes /\ RowsAreLive /\ SearchStarts /\ LineIsLongEnough /\ Spills /\ Restores
  /\ SpecialIsOnce

LEMMA NodeFacts == Plain \in Node /\ Special \in Node /\ NoNode \notin Node /\ Plain # Special
BY NodesAssumption DEF Node

LEMMA FrontFacts ==
  ASSUME NEW S, NEW q \in Seq(S), q # << >>
  PROVE  /\ Head(q) = q[1] /\ q[1] \in S /\ Tail(q) \in Seq(S) /\ Len(q) \in Nat \ {0}
         /\ Len(Tail(q)) = Len(q) - 1 /\ \A i \in 1 .. Len(q) - 1 : Tail(q)[i] = q[i + 1]
OBVIOUS

LEMMA ConcatFacts ==
  ASSUME NEW S, NEW q \in Seq(S), NEW r \in Seq(S)
  PROVE  (q \o r) \in Seq(S) /\ Len(q \o r) = Len(q) + Len(r)
OBVIOUS

LEMMA RowFacts ==
  ASSUME NEW row \in Row
  PROVE  /\ Len(row) \in {1, 2} /\ row[1] \in Node /\ row # << >>
         /\ Len(row) = 2 => row = <<row[1], row[2]>> /\ row[2] \in Node
         /\ Len(row) = 1 => row = <<row[1]>>
         /\ Len(row) = 2 <=> row \in Node \X Node
<1>1. CASE row \in Node \X Node
  BY <1>1
<1>2. CASE row \in {<<n>> : n \in Node}
  BY <1>2
<1> QED
  BY <1>1, <1>2 DEF Row

LEMMA BeatFacts ==
  ASSUME BfsCoreTypes, Restores, NEW b \in BeatsDue \cup {NoBeat}
  PROVE  /\ b.kind \in {"none", "mark", "rd"} /\ b.new \in BOOLEAN /\ b.hit \in BOOLEAN
         /\ b.n \in 0 .. MaxNeighs /\ b.data \in Node \X Node
         /\ b.kind = "none" => b = NoBeat
         /\ b.kind # "none" => asked # << >> /\ asked[1] = Head(asked) /\ b.kind = Head(asked).op
         /\ b.kind = "rd" => b.data = Head(swq)[dcBeat + 1]
         /\ b.kind = "mark" /\ dcBeat = 0 /\ Head(asked).node = Special => b.new
         /\ b.kind = "mark" /\ Special \in {b.data[1], b.data[2]} =>
              /\ bstate = "ADD_NEIGHS" /\ special = "unseen"
              /\ b.data[1] = Special => b.data[2] = Plain
              /\ b.data[2] = Special => neighCt >= 2
         /\ b.hit => b.new
<1> USE NodeFacts
<1>0. MaxNeighs \in Nat /\ LineBeats \in Nat
  BY BfsCoreAssumption DEF MaxNeighs
<1>1. CASE b = NoBeat
  BY <1>0, <1>1 DEF NoBeat
<1>2. CASE b # NoBeat
  <2>1. b \in BeatsDue /\ asked # << >>
    BY <1>2 DEF BeatsDue
  <2>2. /\ asked[1] = Head(asked) /\ Head(asked).op \in {"mark", "rd"}
        /\ Head(asked).node \in Node
    <3> DEFINE R == [op : {"mark", "rd"}, node : Node]
    <3>1. asked \in Seq(R) /\ asked # << >>
      BY <2>1 DEF BfsCoreTypes
    <3>2. asked[1] = Head(asked) /\ Head(asked) \in R
      <4> HIDE DEF R
      <4> QED
        BY <3>1, FrontFacts
    <3> QED
      BY <3>2
  <2>3. CASE Head(asked).op = "rd"
    <3>1. b = [NoBeat EXCEPT !.kind = "rd", !.data = Head(swq)[dcBeat + 1]]
      BY <2>1, <2>3 DEF BeatsDue
    <3>2. swq # << >> /\ Head(swq) \in [1 .. LineBeats -> Node \X Node] /\ dcBeat + 1 \in 1 .. LineBeats
      <4>1. qstate = "RESTORE" /\ swq # << >>
        BY <2>1, <2>2, <2>3 DEF Restores, BfsCoreTypes
      <4> QED
        BY <1>0, <4>1 DEF BfsCoreTypes
    <3> QED
      BY <1>0, <2>1, <2>2, <2>3, <3>1, <3>2 DEF NoBeat
  <2>4. CASE Head(asked).op = "mark" /\ dcBeat = 0
    <3>1. b \in Headers(Head(asked).node)
      BY <2>1, <2>4 DEF BeatsDue
    <3>2. b.hit => b.new
      BY <2>1, <2>4 DEF BeatsDue
    <3>3. /\ b.kind = "mark" /\ b.new \in BOOLEAN /\ b.hit \in BOOLEAN
          /\ b.n \in 0 .. MaxNeighs /\ b.data = <<Plain, Plain>>
          /\ Head(asked).node = Special => b.new
      BY <3>1 DEF Headers, NoBeat
    <3> QED
      BY <1>0, <2>1, <2>2, <2>4, <3>2, <3>3
  <2>5. CASE Head(asked).op = "mark" /\ dcBeat # 0
    <3>1. b \in Neighbors
      BY <2>1, <2>5 DEF BeatsDue
    <3> DEFINE seen == IF neighCt > 2 THEN 2 ELSE neighCt
    <3>2. PICK d \in {<<Plain, Plain>>} \cup
                 (IF special # "unseen" \/ bstate # "ADD_NEIGHS" THEN {}
                  ELSE {<<Special, Plain>>} \cup (IF seen = 2 THEN {<<Plain, Special>>} ELSE {})) :
            b = [NoBeat EXCEPT !.kind = "mark", !.data = d]
      BY <3>1 DEF Neighbors
    <3>3. d \in Node \X Node
      BY <3>2
    <3>4. Special \in {d[1], d[2]} => /\ bstate = "ADD_NEIGHS" /\ special = "unseen"
                                      /\ d[1] = Special => d[2] = Plain
                                      /\ d[2] = Special => neighCt >= 2
      BY <3>2 DEF BfsCoreTypes
    <3> QED
      BY <1>0, <2>1, <2>2, <2>5, <3>2, <3>3, <3>4 DEF NoBeat
  <2> QED
    BY <2>2, <2>3, <2>4, <2>5
<1> QED
  BY <1>1, <1>2

-----------------------------------------------------------------------------
(* The ring of the outgoing queue *)

LEMMA SizeFacts ==
  /\ BufRows \in Nat /\ LineBeats \in Nat /\ BufRows >= 2 * LineBeats /\ LineBeats >= 2
  /\ MainRows \in Nat \ {0} /\ BufRows \in Nat \ {0, 1}
BY BfsCoreAssumption

LEMMA RingFacts ==
  ASSUME NEW h \in OutRing!Ptrs, NEW t \in OutRing!Ptrs, OutRing!Dist(h, t) < BufRows
  PROVE  /\ OutRing!Dist(h, t) \in 0 .. BufRows - 1 /\ (OutRing!Dist(h, t) = 0 <=> h = t)
         /\ OutRing!Idx(h) \in OutRing!Slots /\ OutRing!Idx(t) \in OutRing!Slots
         /\ OutRing!Idx(t) \notin OutRing!Live(h, t)
         /\ h # t => OutRing!Idx(h) # OutRing!Idx(t)
         /\ h # t => OutRing!Idx(h) \in OutRing!Live(h, t)
         /\ h = t => OutRing!Live(h, t) = {}
         /\ OutRing!Live(h, t) \subseteq OutRing!Slots
<1> USE SizeFacts
<1>1. OutRing!Dist(h, t) \in 0 .. BufRows - 1 /\ (OutRing!Dist(h, t) = 0 <=> h = t)
  BY DEF OutRing!Ptrs, OutRing!Dist
<1>2. OutRing!Idx(h) \in OutRing!Slots /\ OutRing!Idx(t) \in OutRing!Slots
  BY DEF OutRing!Ptrs, OutRing!Idx, OutRing!Slots
<1>3. OutRing!Idx(t) \notin OutRing!Live(h, t)
  BY DEF OutRing!Ptrs, OutRing!Idx, OutRing!Slots, OutRing!Dist, OutRing!Live, OutRing!Age
<1>4. h # t => OutRing!Idx(h) # OutRing!Idx(t)
  BY DEF OutRing!Ptrs, OutRing!Idx, OutRing!Dist
<1>5. h # t => OutRing!Idx(h) \in OutRing!Live(h, t)
  BY <1>1, <1>2 DEF OutRing!Live, OutRing!Age, OutRing!Slots
<1>6. h = t => OutRing!Live(h, t) = {}
  BY DEF OutRing!Ptrs, OutRing!Idx, OutRing!Slots, OutRing!Dist, OutRing!Live, OutRing!Age
<1>7. OutRing!Live(h, t) \subseteq OutRing!Slots
  BY DEF OutRing!Live
<1> QED
  BY <1>1, <1>2, <1>3, <1>4, <1>5, <1>6, <1>7

\* A row taken at the head.
LEMMA RingTakes ==
  ASSUME NEW h \in OutRing!Ptrs, NEW t \in OutRing!Ptrs, OutRing!Dist(h, t) < BufRows, h # t
  PROVE  /\ OutRing!Inc(h) \in OutRing!Ptrs
         /\ OutRing!Dist(OutRing!Inc(h), t) = OutRing!Dist(h, t) - 1
         /\ OutRing!Live(OutRing!Inc(h), t) = OutRing!Live(h, t) \ {OutRing!Idx(h)}
<1> USE SizeFacts
<1>1. OutRing!Inc(h) \in OutRing!Ptrs
  BY DEF OutRing!Ptrs, OutRing!Inc
<1>2. OutRing!Dist(OutRing!Inc(h), t) = OutRing!Dist(h, t) - 1
  BY DEF OutRing!Ptrs, OutRing!Inc, OutRing!Dist
<1>3. ASSUME NEW s \in OutRing!Slots
      PROVE  (OutRing!Age(OutRing!Inc(h), s) < OutRing!Dist(h, t) - 1) <=>
             (OutRing!Age(h, s) < OutRing!Dist(h, t) /\ s # OutRing!Idx(h))
  BY DEF OutRing!Ptrs, OutRing!Inc, OutRing!Dist, OutRing!Idx, OutRing!Slots, OutRing!Age
<1>4. OutRing!Live(OutRing!Inc(h), t) = OutRing!Live(h, t) \ {OutRing!Idx(h)}
  BY <1>2, <1>3 DEF OutRing!Live
<1> QED
  BY <1>1, <1>2, <1>4

\* A row added at the tail, and when the queue says that it is full.
LEMMA RingAdds ==
  ASSUME NEW h \in OutRing!Ptrs, NEW t \in OutRing!Ptrs, OutRing!Dist(h, t) < BufRows
  PROVE  /\ OutRing!Inc(t) \in OutRing!Ptrs
         /\ (OutRing!Idx(OutRing!Inc(t)) = OutRing!Idx(h)) <=> (OutRing!Dist(h, t) = BufRows - 1)
         /\ OutRing!Dist(h, t) # BufRows - 1 =>
              /\ OutRing!Dist(h, OutRing!Inc(t)) = OutRing!Dist(h, t) + 1
              /\ OutRing!Live(h, OutRing!Inc(t)) = OutRing!Live(h, t) \cup {OutRing!Idx(t)}
              /\ OutRing!Idx(OutRing!Inc(t)) # OutRing!Idx(t)
              /\ OutRing!Idx(OutRing!Inc(t)) \notin OutRing!Live(h, t)
<1> USE SizeFacts
<1>1. OutRing!Inc(t) \in OutRing!Ptrs
  BY DEF OutRing!Ptrs, OutRing!Inc
<1>2. (OutRing!Idx(OutRing!Inc(t)) = OutRing!Idx(h)) <=> (OutRing!Dist(h, t) = BufRows - 1)
  BY DEF OutRing!Ptrs, OutRing!Inc, OutRing!Dist, OutRing!Idx
<1>3. CASE OutRing!Dist(h, t) # BufRows - 1
  <2>1. OutRing!Dist(h, OutRing!Inc(t)) = OutRing!Dist(h, t) + 1
    BY <1>3 DEF OutRing!Ptrs, OutRing!Inc, OutRing!Dist
  <2>2. ASSUME NEW s \in OutRing!Slots
        PROVE  (OutRing!Age(h, s) < OutRing!Dist(h, t) + 1) <=>
               (OutRing!Age(h, s) < OutRing!Dist(h, t) \/ s = OutRing!Idx(t))
    BY <1>3 DEF OutRing!Ptrs, OutRing!Dist, OutRing!Idx, OutRing!Slots, OutRing!Age
  <2>3. OutRing!Idx(t) \in OutRing!Slots
    BY RingFacts
  <2>4. OutRing!Live(h, OutRing!Inc(t)) = OutRing!Live(h, t) \cup {OutRing!Idx(t)}
    BY <2>1, <2>2, <2>3 DEF OutRing!Live
  <2>5. OutRing!Idx(OutRing!Inc(t)) # OutRing!Idx(t)
    BY DEF OutRing!Ptrs, OutRing!Inc, OutRing!Idx
  <2>6. OutRing!Idx(OutRing!Inc(t)) \notin OutRing!Live(h, OutRing!Inc(t))
    BY <1>1, <1>3, <2>1, RingFacts DEF OutRing!Dist, OutRing!Ptrs
  <2> QED
    BY <1>1, <1>2, <2>1, <2>4, <2>5, <2>6
<1> QED
  BY <1>1, <1>2, <1>3

\* The outgoing queue asks for spilling only when it has a line's worth of full rows.
LEMMA SatHasALine ==
  ASSUME outHead \in OutRing!Ptrs, outTail \in OutRing!Ptrs, Held < BufRows, OutSat
  PROVE  Held >= LineBeats
<1> USE SizeFacts
<1> DEFINE e == IF outHead + LineBeats >= 2 * BufRows THEN outHead + LineBeats - 2 * BufRows
                ELSE outHead + LineBeats
<1>1. Eight = e
  BY DEF Eight, OutRing!Ptrs
<1>2. (OutRing!Idx(e) <= OutRing!Idx(outTail)) # ((e >= BufRows) # (outTail >= BufRows))
  BY <1>1 DEF OutSat, Pol
<1> QED
  BY <1>2 DEF Held, OutRing!Ptrs, OutRing!Idx, OutRing!Dist

-----------------------------------------------------------------------------
(* Where Special is in a sequence of rows *)

\* The set has one element if the condition holds, and none otherwise.
OneIf(S, x) == IF x THEN \E p \in S : S = {p} ELSE S = {}

\* The same, position by position.
At(q, i, j) == i \in 1 .. Len(q) /\ j \in {1, 2} /\ j <= Len(q[i]) /\ q[i][j] = Special
OneAt(q, x) == IF x THEN \E i, j : At(q, i, j) /\ \A u, v : At(q, u, v) => u = i /\ v = j
               ELSE \A i, j : ~At(q, i, j)

LEMMA SpotFacts ==
  ASSUME NEW q \in Seq(Row), NEW x \in BOOLEAN
  PROVE  OneIf(Spots(q), x) <=> OneAt(q, x)
<1>1. \A i, j : At(q, i, j) <=> <<i, j>> \in Spots(q)
  BY DEF At, Spots
<1>2. \A p \in Spots(q) : p = <<p[1], p[2]>>
  BY DEF Spots
<1>3. CASE x
  <2>1. OneIf(Spots(q), x) => OneAt(q, x)
    <3>1. SUFFICES ASSUME NEW p \in Spots(q), Spots(q) = {p}
                   PROVE  OneAt(q, x)
      BY <1>3 DEF OneIf
    <3>2. At(q, p[1], p[2])
      BY <1>1, <1>2, <3>1
    <3>3. ASSUME NEW u, NEW v, At(q, u, v) PROVE u = p[1] /\ v = p[2]
      <4>1. <<u, v>> = p
        BY <1>1, <3>1, <3>3
      <4> QED
        BY <4>1
    <3> QED
      BY <1>3, <3>2, <3>3 DEF OneAt
  <2>2. OneAt(q, x) => OneIf(Spots(q), x)
    <3>1. SUFFICES ASSUME NEW i, NEW j, At(q, i, j), \A u, v : At(q, u, v) => u = i /\ v = j
                   PROVE  OneIf(Spots(q), x)
      BY <1>3 DEF OneAt
    <3>2. <<i, j>> \in Spots(q)
      BY <1>1, <3>1
    <3>3. \A p \in Spots(q) : p = <<i, j>>
      <4> TAKE p \in Spots(q)
      <4>1. At(q, p[1], p[2])
        BY <1>1, <1>2
      <4>2. p[1] = i /\ p[2] = j
        BY <3>1, <4>1
      <4> QED
        BY <1>2, <4>2
    <3> QED
      BY <1>3, <3>2, <3>3 DEF OneIf
  <2> QED
    BY <2>1, <2>2
<1>4. CASE ~x
  <2>1. (Spots(q) = {}) <=> \A i, j : ~At(q, i, j)
    <3>1. (\E p : p \in Spots(q)) => \E i, j : At(q, i, j)
      BY <1>1, <1>2
    <3>2. (\E i, j : At(q, i, j)) => \E p : p \in Spots(q)
      BY <1>1
    <3> QED
      BY <3>1, <3>2
  <2> QED
    BY <1>4, <2>1 DEF OneIf, OneAt
<1> QED
  BY <1>3, <1>4

\* A row holds Special in at most one place.
Single(row) == ~(Len(row) = 2 /\ row[1] = Special /\ row[2] = Special)
Holds(row)  == row[1] = Special \/ (Len(row) = 2 /\ row[2] = Special)

LEMMA RowSpots ==
  ASSUME NEW row \in Row, Single(row)
  PROVE  OneAt(<<row>>, Holds(row))
<1> DEFINE q == <<row>>
<1>1. Len(q) = 1 /\ q[1] = row
  OBVIOUS
<1>2. Len(row) \in {1, 2}
  BY RowFacts
<1> HIDE DEF q
<1>3. \A i, j : At(q, i, j) <=> i = 1 /\ j \in {1, 2} /\ j <= Len(row) /\ row[j] = Special
  BY <1>1 DEF At
<1>4. OneAt(q, Holds(row))
  <2>1. CASE row[1] = Special
    <3>1. At(q, 1, 1) /\ \A u, v : At(q, u, v) => u = 1 /\ v = 1
      BY <1>2, <1>3, <2>1 DEF Single
    <3> QED
      BY <2>1, <3>1 DEF Holds, OneAt
  <2>2. CASE row[1] # Special /\ Len(row) = 2 /\ row[2] = Special
    <3>1. At(q, 1, 2) /\ \A u, v : At(q, u, v) => u = 1 /\ v = 2
      BY <1>2, <1>3, <2>2
    <3> QED
      BY <2>2, <3>1 DEF Holds, OneAt
  <2>3. CASE ~Holds(row)
    <3>1. \A i, j : ~At(q, i, j)
      BY <1>2, <1>3, <2>3 DEF Holds
    <3> QED
      BY <2>3, <3>1 DEF OneAt
  <2> QED
    BY <2>1, <2>2, <2>3 DEF Holds
<1> QED
  BY <1>4 DEF q

LEMMA CatSpots ==
  ASSUME NEW q \in Seq(Row), NEW r \in Seq(Row), NEW x \in BOOLEAN, NEW y \in BOOLEAN,
         OneAt(q, x), OneAt(r, y), ~(x /\ y)
  PROVE  OneAt(q \o r, x \/ y)
<1> DEFINE c == q \o r
<1>1. /\ c \in Seq(Row) /\ Len(q) \in Nat /\ Len(r) \in Nat /\ Len(c) = Len(q) + Len(r)
      /\ \A i \in 1 .. Len(q) : c[i] = q[i]
      /\ \A i \in 1 .. Len(r) : c[Len(q) + i] = r[i]
  OBVIOUS
<1> HIDE DEF c
<1>2. \A i, j : At(q, i, j) => At(c, i, j)
  BY <1>1 DEF At
<1>3. \A i, j : At(r, i, j) => At(c, Len(q) + i, j)
  BY <1>1 DEF At
<1>4. ASSUME NEW i, NEW j, At(c, i, j)
      PROVE  i \in Int /\ (At(q, i, j) \/ At(r, i - Len(q), j))
  <2>1. CASE i <= Len(q)
    BY <1>1, <1>4, <2>1 DEF At
  <2>2. CASE i > Len(q)
    <3>1. i - Len(q) \in 1 .. Len(r) /\ i = Len(q) + (i - Len(q))
      BY <1>1, <1>4, <2>2 DEF At
    <3>2. c[i] = r[i - Len(q)]
      BY <1>1, <3>1
    <3> QED
      BY <1>4, <2>2, <3>1, <3>2 DEF At
  <2> QED
    BY <1>1, <1>4, <2>1, <2>2 DEF At
<1>5. CASE ~x /\ ~y
  BY <1>4, <1>5 DEF OneAt, c
<1>6. CASE x
  <2>1. PICK i, j : At(q, i, j) /\ \A u, v : At(q, u, v) => u = i /\ v = j
    BY <1>6 DEF OneAt
  <2>2. \A u, v : ~At(r, u, v)
    BY <1>6 DEF OneAt
  <2>3. At(c, i, j) /\ \A u, v : At(c, u, v) => u = i /\ v = j
    BY <1>2, <1>4, <2>1, <2>2
  <2> QED
    BY <1>6, <2>3 DEF OneAt, c
<1>7. CASE y
  <2>1. PICK i, j : At(r, i, j) /\ \A u, v : At(r, u, v) => u = i /\ v = j
    BY <1>7 DEF OneAt
  <2>2. \A u, v : ~At(q, u, v)
    BY <1>7 DEF OneAt
  <2>3. At(c, Len(q) + i, j)
    BY <1>3, <2>1
  <2>4. ASSUME NEW u, NEW v, At(c, u, v) PROVE u = Len(q) + i /\ v = j
    <3>1. At(r, u - Len(q), v) /\ u \in Int
      BY <1>4, <2>2, <2>4
    <3>2. u - Len(q) = i /\ v = j
      BY <2>1, <3>1
    <3> QED
      BY <1>1, <3>1, <3>2
  <2> QED
    BY <1>7, <2>3, <2>4 DEF OneAt, c
<1> QED
  BY <1>5, <1>6, <1>7

\* What is left when the first node of the first row is taken.
LEMMA PopFacts ==
  ASSUME NEW q \in Seq(Row), q # << >>
  PROVE  /\ Pop(q) \in Seq(Row) /\ Head(q) = q[1] /\ Head(q) \in Row
         /\ Head(q)[1] \in Node
         /\ Len(Pop(q)) = Len(q) - (IF Len(q[1]) = 1 THEN 1 ELSE 0)
         /\ Len(q[1]) = 1 => q = <<q[1]>> \o Pop(q)
         /\ Len(q[1]) = 2 => Pop(q) = <<<<q[1][2]>>>> \o Tail(q) /\ q = <<q[1]>> \o Tail(q)
         /\ Tail(q) \in Seq(Row) /\ Len(q) \in Nat \ {0} /\ Len(Tail(q)) = Len(q) - 1
<1>1. /\ Head(q) = q[1] /\ Head(q) \in Row /\ Tail(q) \in Seq(Row) /\ q = <<q[1]>> \o Tail(q)
      /\ Len(q) \in Nat \ {0} /\ Len(Tail(q)) = Len(q) - 1
  OBVIOUS
<1> DEFINE row == q[1]
<1>2. row \in Row
  BY <1>1
<1>3. /\ Len(row) \in {1, 2} /\ row[1] \in Node
      /\ Len(row) = 2 => row = <<row[1], row[2]>> /\ row[2] \in Node
  BY <1>2, RowFacts
<1>4. CASE Len(row) = 1
  <2>1. Pop(q) = Tail(q)
    BY <1>1, <1>4 DEF Pop
  <2> QED
    BY <1>1, <1>3, <1>4, <2>1
<1>5. CASE Len(row) = 2
  <2>1. Tail(row) = <<row[2]>> /\ <<row[2]>> \in Row
    <3>1. \A a, b : Tail(<<a, b>>) = <<b>>
      OBVIOUS
    <3>2. row[2] \in Node /\ Tail(row) = <<row[2]>>
      BY <1>3, <1>5, <3>1
    <3> QED
      BY <3>2 DEF Row
  <2>2. Pop(q) = <<Tail(row)>> \o Tail(q)
    <3>1. Head(q) = q[1] /\ Len(Head(q)) # 1
      BY <1>1, <1>5
    <3> QED
      BY <3>1, Zenon DEF Pop
  <2>3. Pop(q) = <<<<row[2]>>>> \o Tail(q)
    BY <2>1, <2>2
  <2>4. Pop(q) \in Seq(Row) /\ Len(Pop(q)) = 1 + Len(Tail(q))
    <3> DEFINE S == Tail(q)
               e == <<row[2]>>
    <3>1. S \in Seq(Row) /\ e \in Row
      BY <1>1, <2>1
    <3> HIDE DEF S, e
    <3>2. (<<e>> \o S) \in Seq(Row) /\ Len(<<e>> \o S) = 1 + Len(S)
      BY <3>1
    <3> QED
      BY <2>3, <3>2 DEF S, e
  <2> QED
    BY <1>1, <1>3, <1>5, <2>3, <2>4
<1> QED
  BY <1>3, <1>4, <1>5

LEMMA PopSpots ==
  ASSUME NEW q \in Seq(Row), q # << >>, NEW x \in BOOLEAN, OneAt(q, x)
  PROVE  /\ Head(q)[1] = Special => x
         /\ OneAt(Pop(q), x /\ Head(q)[1] # Special)
<1> DEFINE c == Pop(q)
           row == q[1]
           T == Tail(q)
<1>0. Len(row) = 2 => c = <<<<row[2]>>>> \o T
  BY PopFacts
<1>1. /\ c \in Seq(Row) /\ T \in Seq(Row) /\ Len(q) \in Nat \ {0} /\ Len(T) = Len(q) - 1
      /\ Len(c) = Len(q) - (IF Len(row) = 1 THEN 1 ELSE 0)
  BY PopFacts
<1>2. \A i \in 1 .. Len(q) - 1 : T[i] = q[i + 1]
  OBVIOUS
<1>3. Len(row) \in {1, 2} /\ \A i \in 1 .. Len(q) : q[i] \in Row
  <2>1. row \in Row /\ \A i \in 1 .. Len(q) : q[i] \in Row
    OBVIOUS
  <2> HIDE DEF row
  <2> QED
    BY <2>1, RowFacts
<1>4. Head(q) = row /\ (Len(row) = 1 => c = T)
  <2>1. Head(q) = row
    BY PopFacts
  <2> QED
    BY <2>1 DEF Pop
<1>5. At(q, 1, 1) <=> Head(q)[1] = Special
  <2>1. 1 \in 1 .. Len(q) /\ 1 <= Len(row)
    <3>1. Len(q) \in Nat \ {0}
      OBVIOUS
    <3> QED
      BY <1>3, <3>1
  <2>2. At(q, 1, 1) <=> q[1][1] = Special
    BY <2>1 DEF At
  <2> QED
    BY <1>4, <2>2
<1> HIDE DEF c, T
<1>6. CASE Len(row) = 1
  <2>1. \A i \in Int : \A j : At(c, i, j) <=> i >= 1 /\ At(q, i + 1, j)
    BY <1>1, <1>2, <1>4, <1>6 DEF At
  <2>2. \A i, j : At(q, i, j) => (i = 1 /\ j = 1) \/ At(c, i - 1, j)
    <3> TAKE i, j
    <3> HAVE At(q, i, j)
    <3>1. i \in 1 .. Len(q) /\ j \in {1, 2} /\ j <= Len(q[i])
      BY DEF At
    <3>2. CASE i = 1
      <4>1. j \in {1, 2} /\ j <= 1
        BY <1>6, <3>1, <3>2
      <4> QED
        BY <3>2, <4>1
    <3>3. CASE i # 1
      <4>1. i - 1 \in Int /\ i - 1 >= 1 /\ (i - 1) + 1 = i
        BY <1>1, <3>1, <3>3
      <4> QED
        BY <2>1, <4>1
    <3> QED
      BY <3>2, <3>3
  <2>3. \A i, j : At(c, i, j) => i \in Int /\ At(q, i + 1, j) /\ i >= 1
    BY <2>1 DEF At
  <2>4. \A i, j : At(q, i, j) => i \in Int
    BY DEF At
  <2>5. CASE Head(q)[1] = Special
    <3>1. x
      BY <1>5, <2>5 DEF OneAt
    <3>2. PICK i0, j0 : At(q, i0, j0) /\ \A u, v : At(q, u, v) => u = i0 /\ v = j0
      BY <3>1 DEF OneAt
    <3>3. i0 = 1 /\ j0 = 1
      BY <1>5, <2>5, <3>2
    <3>4. \A i, j : ~At(c, i, j)
      BY <2>3, <3>2, <3>3
    <3> QED
      BY <2>5, <3>1, <3>4 DEF OneAt, c
  <2>6. CASE Head(q)[1] # Special /\ x
    <3>1. PICK i0, j0 : At(q, i0, j0) /\ \A u, v : At(q, u, v) => u = i0 /\ v = j0
      BY <2>6 DEF OneAt
    <3>2. At(c, i0 - 1, j0)
      BY <1>5, <2>2, <2>6, <3>1
    <3>3. \A u, v : At(c, u, v) => u = i0 - 1 /\ v = j0
      BY <2>3, <2>4, <3>1
    <3> QED
      BY <2>6, <3>2, <3>3 DEF OneAt, c
  <2>7. CASE Head(q)[1] # Special /\ ~x
    <3>1. \A i, j : ~At(c, i, j)
      BY <2>3, <2>7 DEF OneAt
    <3> QED
      BY <2>7, <3>1 DEF OneAt, c
  <2> QED
    BY <2>5, <2>6, <2>7
<1>7. CASE Len(row) = 2
  <2>1. /\ c[1] = <<row[2]>> /\ Len(c[1]) = 1 /\ c[1][1] = row[2] /\ Len(c) = Len(q)
        /\ \A i \in 2 .. Len(q) : c[i] = q[i]
    <3> DEFINE e == <<row[2]>>
    <3>1. c = <<e>> \o T /\ Len(e) = 1 /\ e[1] = row[2]
      BY <1>0, <1>7
    <3> HIDE DEF e
    <3>2. c[1] = e /\ Len(c) = 1 + Len(T) /\ \A i \in 1 .. Len(T) : c[i + 1] = T[i]
      BY <1>1, <3>1
    <3>3. \A i \in 2 .. Len(q) : c[i] = q[i]
      <4> TAKE i \in 2 .. Len(q)
      <4>1. i - 1 \in 1 .. Len(T) /\ (i - 1) + 1 = i
        BY <1>1
      <4> QED
        BY <1>1, <1>2, <3>2, <4>1
    <3> QED
      BY <1>1, <3>1, <3>2, <3>3 DEF e
  <2>2. \A i, j : At(c, i, j) <=> (i = 1 /\ j = 1 /\ At(q, 1, 2)) \/ (i # 1 /\ At(q, i, j))
    <3> TAKE i, j
    <3>1. CASE i = 1
      <4>1. 1 \in 1 .. Len(q) /\ 1 \in 1 .. Len(c)
        BY <1>1, <2>1
      <4>2. At(c, 1, j) <=> j = 1 /\ row[2] = Special
        BY <2>1, <4>1 DEF At
      <4>3. At(q, 1, 2) <=> row[2] = Special
        BY <1>7, <4>1 DEF At
      <4> QED
        BY <3>1, <4>2, <4>3
    <3>2. CASE i # 1
      <4>1. i \in 1 .. Len(c) <=> i \in 2 .. Len(q)
        BY <1>1, <2>1, <3>2
      <4>2. i \in 1 .. Len(q) <=> i \in 2 .. Len(q)
        BY <1>1, <3>2
      <4> QED
        BY <2>1, <3>2, <4>1, <4>2 DEF At
    <3> QED
      BY <3>1, <3>2
  <2>3. \A j : At(q, 1, j) => j = 1 \/ j = 2
    BY DEF At
  <2>4. CASE Head(q)[1] = Special
    <3>1. x
      BY <1>5, <2>4 DEF OneAt
    <3>2. PICK i0, j0 : At(q, i0, j0) /\ \A u, v : At(q, u, v) => u = i0 /\ v = j0
      BY <3>1 DEF OneAt
    <3>3. i0 = 1 /\ j0 = 1
      BY <1>5, <2>4, <3>2
    <3>4. \A i, j : ~At(c, i, j)
      BY <2>2, <3>2, <3>3
    <3> QED
      BY <2>4, <3>1, <3>4 DEF OneAt, c
  <2>5. CASE Head(q)[1] # Special /\ x
    <3>1. PICK i0, j0 : At(q, i0, j0) /\ \A u, v : At(q, u, v) => u = i0 /\ v = j0
      BY <2>5 DEF OneAt
    <3>2. CASE i0 = 1
      <4>1. j0 = 2
        BY <1>5, <2>3, <2>5, <3>1, <3>2
      <4>2. At(c, 1, 1) /\ \A u, v : At(c, u, v) => u = 1 /\ v = 1
        BY <2>2, <3>1, <3>2, <4>1
      <4> QED
        BY <2>5, <4>2 DEF OneAt, c
    <3>3. CASE i0 # 1
      <4>1. At(c, i0, j0) /\ \A u, v : At(c, u, v) => u = i0 /\ v = j0
        BY <2>2, <3>1, <3>3
      <4> QED
        BY <2>5, <4>1 DEF OneAt, c
    <3> QED
      BY <3>2, <3>3
  <2>6. CASE Head(q)[1] # Special /\ ~x
    <3>1. \A i, j : ~At(c, i, j)
      BY <2>2, <2>6 DEF OneAt
    <3> QED
      BY <2>6, <3>1 DEF OneAt, c
  <2> QED
    BY <2>4, <2>5, <2>6
<1> QED
  BY <1>3, <1>6, <1>7 DEF c

LEMMA HighFirstFacts ==
  ASSUME NEW row \in Row
  PROVE  /\ HighFirst(row) \in Row /\ (Holds(HighFirst(row)) <=> Holds(row))
         /\ Single(HighFirst(row)) <=> Single(row)
<1>1. CASE Len(row) = 2
  <2>1. row[1] \in Node /\ row[2] \in Node /\ HighFirst(row) = <<row[2], row[1]>>
    BY <1>1, RowFacts DEF HighFirst
  <2>2. HighFirst(row) \in Row
    BY <2>1 DEF Row
  <2> QED
    BY <1>1, <2>1, <2>2 DEF Holds, Single
<1>2. CASE Len(row) # 2
  <2>1. HighFirst(row) = row
    BY <1>2 DEF HighFirst
  <2> QED
    BY <2>1
<1> QED
  BY <1>1, <1>2

\* A queue that gives a node, if d, and takes a row, if it is offered one and is not full.
LEMMA QueueSpots ==
  ASSUME NEW q \in Seq(Row), NEW d \in BOOLEAN, d => q # << >>, NEW rows,
         NEW row, row # << >> => row \in Row /\ Single(row),
         NEW x \in BOOLEAN, OneAt(q, x),
         ~(x /\ row # << >> /\ Holds(row))
  PROVE  LET r == (IF d THEN Pop(q) ELSE q) \o RowIn(q, rows, row)
             in == row # << >> /\ Len(q) # rows
         IN /\ r \in Seq(Row)
            /\ OneAt(r, (x /\ ~(d /\ Head(q)[1] = Special)) \/ (in /\ Holds(row)))
            /\ d /\ Head(q)[1] = Special => x
            /\ Len(r) <= Len(q) + 1 /\ Len(r) >= Len(q) - 1
            /\ in => Len(r) >= 1
            /\ ~d => Len(r) >= Len(q)
            /\ ~in => Len(r) <= Len(q)
            /\ q = << >> /\ ~in => r = << >>
<1> DEFINE a == IF d THEN Pop(q) ELSE q
           e == RowIn(q, rows, row)
           in == row # << >> /\ Len(q) # rows
           y == x /\ ~(d /\ Head(q)[1] = Special)
<1>1. /\ a \in Seq(Row) /\ Len(a) <= Len(q) /\ Len(a) >= Len(q) - 1 /\ Len(a) \in Nat
      /\ ~d => a = q
  <2>1. CASE d
    <3>1. /\ Pop(q) \in Seq(Row) /\ Len(Pop(q)) = Len(q) - (IF Len(q[1]) = 1 THEN 1 ELSE 0)
      BY <2>1, PopFacts
    <3> DEFINE c == Pop(q)
               g == IF Len(q[1]) = 1 THEN 1 ELSE 0
    <3>2. a = c /\ c \in Seq(Row) /\ Len(c) = Len(q) - g /\ g \in 0 .. 1
      BY <2>1, <3>1
    <3> HIDE DEF a, c, g
    <3> QED
      BY <2>1, <3>2
  <2>2. CASE ~d
    BY <2>2
  <2> QED
    BY <2>1, <2>2
<1>2. OneAt(a, y) /\ (d /\ Head(q)[1] = Special => x)
  BY PopSpots
<1>3. CASE in
  <2>1. /\ HighFirst(row) \in Row /\ Single(HighFirst(row))
        /\ Holds(HighFirst(row)) <=> Holds(row)
    BY <1>3, HighFirstFacts
  <2>2. e = <<HighFirst(row)>>
    BY <1>3 DEF RowIn
  <2>3. e \in Seq(Row) /\ Len(e) = 1
    BY <2>1, <2>2
  <2>4. OneAt(e, Holds(row))
    <3>1. OneAt(<<HighFirst(row)>>, Holds(HighFirst(row)))
      BY <2>1, RowSpots
    <3> QED
      BY <2>1, <2>2, <3>1 DEF OneAt
  <2>5. y \in BOOLEAN /\ Holds(row) \in BOOLEAN /\ ~(y /\ Holds(row))
    BY <1>3 DEF Holds
  <2> HIDE DEF a, e, y
  <2>6. OneAt(a \o e, y \/ Holds(row))
    BY <1>1, <1>2, <2>3, <2>4, <2>5, CatSpots
  <2>7. (a \o e) \in Seq(Row) /\ Len(a \o e) = Len(a) + 1
    <3>1. a \in Seq(Row) /\ e \in Seq(Row)
      BY <1>1, <2>3
    <3>2. (a \o e) \in Seq(Row) /\ Len(a \o e) = Len(a) + Len(e)
      BY <3>1, ConcatFacts
    <3> QED
      BY <2>3, <3>2
  <2>8. OneAt(a \o e, y \/ (in /\ Holds(row)))
    BY <1>3, <2>6 DEF OneAt
  <2> QED
    BY <1>1, <1>2, <1>3, <2>7, <2>8 DEF a, e, y
<1>4. CASE ~in
  <2>1. e = << >>
    BY <1>4 DEF RowIn
  <2>2. a \o e = a
    BY <1>1, <2>1
  <2>3. OneAt(a \o e, y \/ (in /\ Holds(row)))
    <3>1. (y \/ (in /\ Holds(row))) <=> y
      BY <1>4
    <3> HIDE DEF a, e, y
    <3>2. OneAt(a \o e, y)
      BY <1>2, <2>2
    <3> QED
      BY <3>1, <3>2 DEF OneAt
  <2>4. q = << >> => ~d /\ a = << >>
    OBVIOUS
  <2>5. /\ (a \o e) \in Seq(Row) /\ Len(a \o e) = Len(a) /\ (q = << >> => a \o e = << >>)
    <3> HIDE DEF a, e
    <3> QED
      BY <1>1, <2>2, <2>4
  <2> DEFINE r == a \o e
  <2> HIDE DEF a, e, y, r
  <2>6. /\ Len(r) <= Len(q) + 1 /\ Len(r) >= Len(q) - 1
        /\ ~d => Len(r) >= Len(q)
        /\ Len(r) <= Len(q)
    BY <1>1, <2>5 DEF r
  <2> QED
    BY <1>2, <1>4, <2>3, <2>5, <2>6 DEF r, a, e, y
<1> QED
  BY <1>3, <1>4

-----------------------------------------------------------------------------
(* Where Special is in memory *)

InMemory(q, m, k, i, j) ==
  /\ k \in 1 .. Len(q) /\ i \in 1 .. LineBeats /\ j \in {1, 2}
  /\ (k = 1 => i > m) /\ q[k][i][j] = Special
OneInMemory(q, m, x) ==
  IF x THEN \E k, i, j : /\ InMemory(q, m, k, i, j)
                         /\ \A u, v, w : InMemory(q, m, u, v, w) => u = k /\ v = i /\ w = j
  ELSE \A k, i, j : ~InMemory(q, m, k, i, j)

Lines == [1 .. LineBeats -> Node \X Node]

LEMMA MemorySpots ==
  ASSUME NEW x \in BOOLEAN
  PROVE  OneIf(SwqSpots, x) <=> OneInMemory(swq, Moved, x)
<1>1. \A k, i, j : InMemory(swq, Moved, k, i, j) <=> <<k, i, j>> \in SwqSpots
  BY DEF InMemory, SwqSpots
<1>2. \A p \in SwqSpots : p = <<p[1], p[2], p[3]>>
  BY DEF SwqSpots
<1>3. CASE x
  <2>1. OneIf(SwqSpots, x) => OneInMemory(swq, Moved, x)
    <3>1. SUFFICES ASSUME NEW p \in SwqSpots, SwqSpots = {p}
                   PROVE  OneInMemory(swq, Moved, x)
      BY <1>3 DEF OneIf
    <3>2. InMemory(swq, Moved, p[1], p[2], p[3])
      BY <1>1, <1>2, <3>1
    <3>3. ASSUME NEW u, NEW v, NEW w, InMemory(swq, Moved, u, v, w)
          PROVE  u = p[1] /\ v = p[2] /\ w = p[3]
      <4>1. <<u, v, w>> = p
        BY <1>1, <3>1, <3>3
      <4> QED
        BY <4>1
    <3> QED
      BY <1>3, <3>2, <3>3 DEF OneInMemory
  <2>2. OneInMemory(swq, Moved, x) => OneIf(SwqSpots, x)
    <3>1. SUFFICES ASSUME NEW k, NEW i, NEW j, InMemory(swq, Moved, k, i, j),
                          \A u, v, w : InMemory(swq, Moved, u, v, w) => u = k /\ v = i /\ w = j
                   PROVE  OneIf(SwqSpots, x)
      BY <1>3 DEF OneInMemory
    <3>2. <<k, i, j>> \in SwqSpots
      BY <1>1, <3>1
    <3>3. \A p \in SwqSpots : p = <<k, i, j>>
      <4> TAKE p \in SwqSpots
      <4>1. InMemory(swq, Moved, p[1], p[2], p[3])
        BY <1>1, <1>2
      <4>2. p[1] = k /\ p[2] = i /\ p[3] = j
        BY <3>1, <4>1
      <4> QED
        BY <1>2, <4>2
    <3> QED
      BY <1>3, <3>2, <3>3 DEF OneIf
  <2> QED
    BY <2>1, <2>2
<1>4. CASE ~x
  <2>1. (SwqSpots = {}) <=> \A k, i, j : ~InMemory(swq, Moved, k, i, j)
    <3>1. (\E p : p \in SwqSpots) => \E k, i, j : InMemory(swq, Moved, k, i, j)
      BY <1>1, <1>2
    <3>2. (\E k, i, j : InMemory(swq, Moved, k, i, j)) => \E p : p \in SwqSpots
      BY <1>1
    <3> QED
      BY <3>1, <3>2
  <2> QED
    BY <1>4, <2>1 DEF OneIf, OneInMemory
<1> QED
  BY <1>3, <1>4

\* A line is written behind the others.
LEMMA WrittenSpots ==
  ASSUME NEW q \in Seq(Lines), NEW r \in Seq(Node \X Node), Len(r) = LineBeats,
         NEW x \in BOOLEAN, NEW y \in BOOLEAN, OneInMemory(q, 0, x), OneAt(r, y), ~(x /\ y)
  PROVE  Append(q, r) \in Seq(Lines) /\ OneInMemory(Append(q, r), 0, x \/ y)
<1> DEFINE c == Append(q, r)
           n == Len(q) + 1
<1> USE SizeFacts
<1>0. r \in Lines
  <2>1. r \in [1 .. Len(r) -> Node \X Node]
    OBVIOUS
  <2> QED
    BY <2>1 DEF Lines
<1>1. /\ c \in Seq(Lines) /\ Len(q) \in Nat /\ Len(c) = n /\ n \in Nat \ {0} /\ c[n] = r
      /\ \A k \in 1 .. Len(q) : c[k] = q[k]
  BY <1>0
<1>2. \A i \in 1 .. LineBeats : Len(r[i]) = 2
  BY <1>0 DEF Lines
<1> HIDE DEF c, n
<1>3. \A k, i, j : InMemory(c, 0, k, i, j) <=> InMemory(q, 0, k, i, j) \/ (k = n /\ At(r, i, j))
  <2> TAKE k, i, j
  <2>1. CASE k \in 1 .. Len(q)
    <3>1. k # n /\ k \in 1 .. Len(c) /\ c[k] = q[k]
      BY <1>1, <2>1 DEF n
    <3> QED
      BY <2>1, <3>1 DEF InMemory
  <2>2. CASE k = n
    <3>1. k \notin 1 .. Len(q) /\ k \in 1 .. Len(c) /\ c[k] = r
      BY <1>1, <2>2 DEF n
    <3>2. At(r, i, j) <=> i \in 1 .. LineBeats /\ j \in {1, 2} /\ r[i][j] = Special
      BY <1>2 DEF At
    <3>3. i \in 1 .. LineBeats => i > 0
      OBVIOUS
    <3> QED
      BY <2>2, <3>1, <3>2, <3>3 DEF InMemory
  <2>3. CASE k \notin 1 .. Len(q) /\ k # n
    <3>1. k \notin 1 .. Len(c)
      BY <1>1, <2>3 DEF n
    <3> QED
      BY <2>3, <3>1 DEF InMemory
  <2> QED
    BY <2>1, <2>2, <2>3
<1>4. OneInMemory(c, 0, x \/ y)
  <2>1. CASE x
    <3>1. PICK k, i, j : /\ InMemory(q, 0, k, i, j)
                         /\ \A u, v, w : InMemory(q, 0, u, v, w) => u = k /\ v = i /\ w = j
      BY <2>1 DEF OneInMemory
    <3>2. \A u, v : ~At(r, u, v)
      BY <2>1 DEF OneAt
    <3>3. /\ InMemory(c, 0, k, i, j)
          /\ \A u, v, w : InMemory(c, 0, u, v, w) => u = k /\ v = i /\ w = j
      BY <1>3, <3>1, <3>2
    <3> QED
      BY <2>1, <3>3 DEF OneInMemory
  <2>2. CASE y
    <3>1. PICK i, j : At(r, i, j) /\ \A u, v : At(r, u, v) => u = i /\ v = j
      BY <2>2 DEF OneAt
    <3>2. \A u, v, w : ~InMemory(q, 0, u, v, w)
      BY <2>2 DEF OneInMemory
    <3>3. /\ InMemory(c, 0, n, i, j)
          /\ \A u, v, w : InMemory(c, 0, u, v, w) => u = n /\ v = i /\ w = j
      BY <1>3, <3>1, <3>2
    <3> QED
      BY <2>2, <3>3 DEF OneInMemory
  <2>3. CASE ~x /\ ~y
    <3>1. \A u, v, w : ~InMemory(c, 0, u, v, w)
      BY <1>3, <2>3 DEF OneAt, OneInMemory
    <3> QED
      BY <2>3, <3>1 DEF OneInMemory
  <2> QED
    BY <2>1, <2>2, <2>3
<1> QED
  BY <1>1, <1>4 DEF c

\* A beat of the oldest line is read back.
LEMMA ReadSpots ==
  ASSUME NEW q \in Seq(Lines), q # << >>, NEW m \in 0 .. LineBeats - 1,
         NEW x \in BOOLEAN, OneInMemory(q, m, x)
  PROVE  LET row == Head(q)[m + 1]
         IN /\ Holds(row) => x
            /\ row \in Node \X Node /\ row \in Row /\ Single(row)
            /\ OneInMemory(q, m + 1, x /\ ~Holds(row))
<1> USE SizeFacts
<1> DEFINE row == q[1][m + 1]
<1>1. Len(q) \in Nat \ {0} /\ Head(q) = q[1] /\ 1 \in 1 .. Len(q) /\ q[1] \in Lines
  OBVIOUS
<1>2. row \in Node \X Node /\ m + 1 \in 1 .. LineBeats
  BY <1>1 DEF Lines
<1>3. row \in Row /\ Len(row) = 2
  BY <1>2 DEF Row
<1> HIDE DEF row
<1>4. \A j : InMemory(q, m, 1, m + 1, j) <=> j \in {1, 2} /\ row[j] = Special
  BY <1>1, <1>2 DEF InMemory, row
<1>5. \A k, i, j : InMemory(q, m + 1, k, i, j) <=> InMemory(q, m, k, i, j) /\ ~(k = 1 /\ i = m + 1)
  BY <1>2 DEF InMemory
<1>6. Holds(row) <=> \E j : InMemory(q, m, 1, m + 1, j)
  BY <1>3, <1>4 DEF Holds
<1>7. Single(row)
  <2>1. SUFFICES ASSUME row[1] = Special, row[2] = Special PROVE FALSE
    BY DEF Single
  <2>2. InMemory(q, m, 1, m + 1, 1) /\ InMemory(q, m, 1, m + 1, 2)
    BY <1>4, <2>1
  <2> QED
    BY <2>2 DEF OneInMemory
<1>8. Holds(row) => x
  BY <1>6 DEF OneInMemory
<1>9. OneInMemory(q, m + 1, x /\ ~Holds(row))
  <2>1. CASE ~x
    BY <1>5, <2>1 DEF OneInMemory
  <2>2. CASE x
    <3>1. PICK k, i, j : /\ InMemory(q, m, k, i, j)
                         /\ \A u, v, w : InMemory(q, m, u, v, w) => u = k /\ v = i /\ w = j
      BY <2>2 DEF OneInMemory
    <3>2. CASE Holds(row)
      <4>1. k = 1 /\ i = m + 1
        BY <1>6, <3>1, <3>2
      <4>2. \A u, v, w : ~InMemory(q, m + 1, u, v, w)
        BY <1>5, <3>1, <4>1
      <4> QED
        BY <3>2, <4>2 DEF OneInMemory
    <3>3. CASE ~Holds(row)
      <4>1. ~(k = 1 /\ i = m + 1)
        BY <1>6, <3>1, <3>3
      <4>2. /\ InMemory(q, m + 1, k, i, j)
            /\ \A u, v, w : InMemory(q, m + 1, u, v, w) => u = k /\ v = i /\ w = j
        BY <1>5, <3>1, <4>1
      <4> QED
        BY <2>2, <3>3, <4>2 DEF OneInMemory
    <3> QED
      BY <3>2, <3>3
  <2> QED
    BY <2>1, <2>2
<1> QED
  BY <1>1, <1>2, <1>3, <1>7, <1>8, <1>9 DEF row

\* The oldest line has been read back.
LEMMA ReadLineSpots ==
  ASSUME NEW q \in Seq(Lines), q # << >>, NEW x \in BOOLEAN, OneInMemory(q, LineBeats, x)
  PROVE  Tail(q) \in Seq(Lines) /\ OneInMemory(Tail(q), 0, x)
<1> USE SizeFacts
<1> DEFINE c == Tail(q)
<1>1. /\ Len(q) \in Nat \ {0} /\ c \in Seq(Lines) /\ Len(c) = Len(q) - 1
      /\ \A k \in 1 .. Len(q) - 1 : c[k] = q[k + 1]
  OBVIOUS
<1> HIDE DEF c
<1>2. ASSUME NEW k \in Int, NEW i, NEW j
      PROVE  InMemory(c, 0, k, i, j) <=> k # 0 /\ InMemory(q, LineBeats, k + 1, i, j)
  <2>1. k \in 1 .. Len(c) <=> k # 0 /\ k + 1 \in 1 .. Len(q)
    BY <1>1
  <2>2. k \in 1 .. Len(c) => c[k] = q[k + 1] /\ k + 1 # 1
    BY <1>1
  <2>3. i \in 1 .. LineBeats => i > 0
    OBVIOUS
  <2> QED
    BY <2>1, <2>2, <2>3 DEF InMemory
<1>3. \A k, i, j : InMemory(q, LineBeats, k, i, j) => k - 1 \in Int /\ (k - 1) + 1 = k /\ k # 1
  BY DEF InMemory
<1>4. \A k, i, j : InMemory(c, 0, k, i, j) => k \in Int
  BY DEF InMemory
<1>5. OneInMemory(c, 0, x)
  <2>1. CASE ~x
    BY <1>2, <1>4, <2>1 DEF OneInMemory
  <2>2. CASE x
    <3>1. PICK k, i, j : /\ InMemory(q, LineBeats, k, i, j)
                         /\ \A u, v, w : InMemory(q, LineBeats, u, v, w) => u = k /\ v = i /\ w = j
      BY <2>2 DEF OneInMemory
    <3>2. InMemory(c, 0, k - 1, i, j)
      <4>1. k - 1 \in Int /\ (k - 1) + 1 = k /\ k - 1 # 0
        BY <1>3, <3>1
      <4> QED
        BY <1>2, <3>1, <4>1
    <3>3. ASSUME NEW u, NEW v, NEW w, InMemory(c, 0, u, v, w)
          PROVE  u = k - 1 /\ v = i /\ w = j
      <4>1. u \in Int /\ InMemory(q, LineBeats, u + 1, v, w)
        BY <1>2, <1>4, <3>3
      <4>2. u + 1 = k /\ v = i /\ w = j
        BY <3>1, <4>1
      <4> QED
        BY <4>1, <4>2
    <3> QED
      BY <2>2, <3>2, <3>3 DEF OneInMemory
  <2> QED
    BY <2>1, <2>2
<1> QED
  BY <1>1, <1>5 DEF c

-----------------------------------------------------------------------------
(* Where Special is among the requests, and in the outgoing queue *)

Requests == [op : {"mark", "rd"}, node : Node]
Asks(q, i) == i \in 1 .. Len(q) /\ q[i].node = Special
OneAsks(q, x) == IF x THEN \E i : Asks(q, i) /\ \A u : Asks(q, u) => u = i
                 ELSE \A i : ~Asks(q, i)

LEMMA AskSpots ==
  ASSUME NEW x \in BOOLEAN
  PROVE  OneIf(DueSpots, x) <=> OneAsks(Due, x)
<1>1. \A i : Asks(Due, i) <=> i \in DueSpots
  BY DEF Asks, DueSpots
<1>2. CASE x
  BY <1>1, <1>2 DEF OneIf, OneAsks
<1>3. CASE ~x
  BY <1>1, <1>3 DEF OneIf, OneAsks
<1> QED
  BY <1>2, <1>3

LEMMA AskedCat ==
  ASSUME NEW q \in Seq(Requests), NEW r \in Seq(Requests), NEW x \in BOOLEAN, NEW y \in BOOLEAN,
         OneAsks(q, x), OneAsks(r, y), ~(x /\ y)
  PROVE  OneAsks(q \o r, x \/ y)
<1> DEFINE c == q \o r
<1>1. /\ Len(q) \in Nat /\ Len(r) \in Nat /\ Len(c) = Len(q) + Len(r)
      /\ \A i \in 1 .. Len(q) : c[i] = q[i]
      /\ \A i \in 1 .. Len(r) : c[Len(q) + i] = r[i]
  OBVIOUS
<1> HIDE DEF c
<1>2. \A i : Asks(q, i) => Asks(c, i)
  BY <1>1 DEF Asks
<1>3. \A i : Asks(r, i) => Asks(c, Len(q) + i)
  BY <1>1 DEF Asks
<1>4. ASSUME NEW i, Asks(c, i)
      PROVE  i \in Int /\ (Asks(q, i) \/ Asks(r, i - Len(q)))
  <2>1. CASE i <= Len(q)
    BY <1>1, <1>4, <2>1 DEF Asks
  <2>2. CASE i > Len(q)
    <3>1. i - Len(q) \in 1 .. Len(r) /\ i = Len(q) + (i - Len(q))
      BY <1>1, <1>4, <2>2 DEF Asks
    <3>2. c[i] = r[i - Len(q)]
      BY <1>1, <3>1
    <3> QED
      BY <1>4, <2>2, <3>1, <3>2 DEF Asks
  <2> QED
    BY <1>1, <1>4, <2>1, <2>2 DEF Asks
<1>5. OneAsks(c, x \/ y)
  <2>1. CASE ~x /\ ~y
    BY <1>4, <2>1 DEF OneAsks
  <2>2. CASE x
    <3>1. PICK i : Asks(q, i) /\ \A u : Asks(q, u) => u = i
      BY <2>2 DEF OneAsks
    <3>2. \A u : ~Asks(r, u)
      BY <2>2 DEF OneAsks
    <3>3. Asks(c, i) /\ \A u : Asks(c, u) => u = i
      BY <1>2, <1>4, <3>1, <3>2
    <3> QED
      BY <2>2, <3>3 DEF OneAsks
  <2>3. CASE y
    <3>1. PICK i : Asks(r, i) /\ \A u : Asks(r, u) => u = i
      BY <2>3 DEF OneAsks
    <3>2. \A u : ~Asks(q, u)
      BY <2>3 DEF OneAsks
    <3>3. Asks(c, Len(q) + i)
      BY <1>3, <3>1
    <3>4. ASSUME NEW u, Asks(c, u) PROVE u = Len(q) + i
      <4>1. Asks(r, u - Len(q)) /\ u \in Int
        BY <1>4, <3>2, <3>4
      <4>2. u - Len(q) = i
        BY <3>1, <4>1
      <4> QED
        BY <1>1, <4>1, <4>2
    <3> QED
      BY <2>3, <3>3, <3>4 DEF OneAsks
  <2> QED
    BY <2>1, <2>2, <2>3
<1> QED
  BY <1>5 DEF c

LEMMA AskedTail ==
  ASSUME NEW q \in Seq(Requests), q # << >>, NEW x \in BOOLEAN, OneAsks(q, x)
  PROVE  /\ Head(q).node = Special => x
         /\ OneAsks(Tail(q), x /\ Head(q).node # Special)
<1> DEFINE c == Tail(q)
<1>1. /\ Len(q) \in Nat \ {0} /\ Len(c) = Len(q) - 1 /\ Head(q) = q[1]
      /\ \A k \in 1 .. Len(q) - 1 : c[k] = q[k + 1]
  OBVIOUS
<1> HIDE DEF c
<1>2. Asks(q, 1) <=> Head(q).node = Special
  BY <1>1 DEF Asks
<1>3. \A i : Asks(c, i) => i \in Int /\ i # 0 /\ Asks(q, i + 1)
  BY <1>1 DEF Asks
<1>4. \A i : Asks(q, i) => i \in Int /\ (i = 1 \/ Asks(c, i - 1))
  <2> TAKE i
  <2> HAVE Asks(q, i)
  <2>1. CASE i = 1
    BY <2>1
  <2>2. CASE i # 1
    <3>1. i - 1 \in 1 .. Len(q) - 1 /\ (i - 1) + 1 = i
      BY <1>1, <2>2 DEF Asks
    <3>2. c[i - 1] = q[i]
      BY <1>1, <3>1
    <3> QED
      BY <1>1, <3>1, <3>2 DEF Asks
  <2> QED
    BY <2>1, <2>2
<1>5. Head(q).node = Special => x
  BY <1>2 DEF OneAsks
<1>6. OneAsks(c, x /\ Head(q).node # Special)
  <2>1. CASE ~x
    BY <1>3, <2>1 DEF OneAsks
  <2>2. CASE x
    <3>1. PICK k : Asks(q, k) /\ \A u : Asks(q, u) => u = k
      BY <2>2 DEF OneAsks
    <3>2. CASE k = 1
      <4>1. Head(q).node = Special
        BY <1>2, <3>1, <3>2
      <4>2. \A u : ~Asks(c, u)
        BY <1>3, <3>1, <3>2
      <4> QED
        BY <4>1, <4>2 DEF OneAsks
    <3>3. CASE k # 1
      <4>1. Head(q).node # Special
        BY <1>2, <3>1, <3>3
      <4>2. Asks(c, k - 1)
        BY <1>4, <3>1, <3>3
      <4>3. \A u : Asks(c, u) => u = k - 1
        BY <1>3, <1>4, <3>1
      <4> QED
        BY <2>2, <4>1, <4>2, <4>3 DEF OneAsks
    <3> QED
      BY <3>2, <3>3
  <2> QED
    BY <2>1, <2>2
<1> QED
  BY <1>5, <1>6 DEF c

LEMMA NextBeat ==
  ASSUME NEW d \in 0 .. LineBeats - 1
  PROVE  (d + 1) % LineBeats = IF d = LineBeats - 1 THEN 0 ELSE d + 1
<1> DEFINE n == LineBeats
<1>1. n \in Nat /\ n >= 2 /\ d \in 0 .. n - 1
  BY SizeFacts
<1> HIDE DEF n
<1>2. (d + 1) % n = IF d = n - 1 THEN 0 ELSE d + 1
  BY <1>1
<1> QED
  BY <1>2 DEF n

\* The requests whose answer has not begun, over an edge.
DueOf(q, d) == IF d > 0 THEN Tail(q) ELSE q

DueMoves(q, d, kind, r, q2, d2) ==
  /\ q \in Seq(Requests) /\ d \in 0 .. LineBeats - 1 /\ (q = << >> => d = 0)
  /\ r \in Seq(Requests) /\ (kind # "none" => q # << >>)
  /\ d2 = IF kind = "none" THEN d ELSE IF d = LineBeats - 1 THEN 0 ELSE d + 1
  /\ q2 = (IF kind # "none" /\ d = LineBeats - 1 THEN Tail(q) ELSE q) \o r
DueMoved(q, d, kind, r, q2, d2) ==
  /\ q2 \in Seq(Requests) /\ d2 \in 0 .. LineBeats - 1 /\ (q2 = << >> => d2 = 0)
  /\ DueOf(q, d) \in Seq(Requests)
  /\ DueOf(q2, d2) = (IF kind # "none" /\ d = 0 THEN Tail(DueOf(q, d)) ELSE DueOf(q, d)) \o r
  /\ kind # "none" /\ d = 0 => DueOf(q, d) = q

LEMMA DueFlows ==
  ASSUME NEW q, NEW d, NEW kind, NEW r, NEW q2, NEW d2, DueMoves(q, d, kind, r, q2, d2)
  PROVE  DueMoved(q, d, kind, r, q2, d2)
<1> USE SizeFacts
<1>0. SUFFICES
        ASSUME NEW beat \in BOOLEAN, beat <=> kind # "none",
               q \in Seq(Requests), d \in 0 .. LineBeats - 1, q = << >> => d = 0,
               r \in Seq(Requests), beat => q # << >>,
               d2 = (IF ~beat THEN d ELSE IF d = LineBeats - 1 THEN 0 ELSE d + 1),
               q2 = (IF beat /\ d = LineBeats - 1 THEN Tail(q) ELSE q) \o r
        PROVE  /\ q2 \in Seq(Requests) /\ d2 \in 0 .. LineBeats - 1 /\ (q2 = << >> => d2 = 0)
               /\ DueOf(q, d) \in Seq(Requests)
               /\ DueOf(q2, d2) = (IF beat /\ d = 0 THEN Tail(DueOf(q, d)) ELSE DueOf(q, d)) \o r
               /\ beat /\ d = 0 => DueOf(q, d) = q
  BY DEF DueMoves, DueMoved
<1> USE <1>0
<1>1. d2 \in 0 .. LineBeats - 1
  OBVIOUS
<1>2. q # << >> =>
        /\ Tail(q) \in Seq(Requests) /\ Tail(q \o r) = Tail(q) \o r
        /\ (q \o r) # << >>
  <2>1. q # << >> => Tail(q) \in Seq(Requests)
    BY FrontFacts
  <2>2. q # << >> => Tail(q \o r) = Tail(q) \o r /\ (q \o r) # << >>
    OBVIOUS
  <2> QED
    BY <2>1, <2>2
<1>3. (q \o r) \in Seq(Requests) /\ (q # << >> => (Tail(q) \o r) \in Seq(Requests))
  BY <1>2, ConcatFacts
<1>4. CASE ~beat
  <2>1. q2 = q \o r /\ d2 = d
    BY <1>4
  <2> QED
    BY <1>2, <1>3, <1>4, <2>1 DEF DueOf
<1>5. CASE beat /\ d = 0
  <2>0. d # LineBeats - 1
    BY <1>5
  <2>1. q2 = q \o r
    BY <1>5, <2>0
  <2>2. d2 > 0 /\ ~(d > 0)
    BY <1>5, <2>0
  <2>3. DueOf(q, d) = q /\ DueOf(q2, d2) = Tail(q2)
    BY <2>2 DEF DueOf
  <2> QED
    <3>1. Tail(q2) = Tail(q) \o r /\ q2 # << >>
      BY <1>2, <1>5, <2>1
    <3>2. q2 \in Seq(Requests) /\ q \in Seq(Requests)
      BY <1>3, <2>1
    <3> QED
      BY <1>1, <1>5, <2>3, <3>1, <3>2
<1>6. CASE beat /\ d # 0 /\ d # LineBeats - 1
  <2>1. q2 = q \o r /\ d2 > 0 /\ d > 0
    BY <1>1, <1>6
  <2> QED
    BY <1>1, <1>2, <1>3, <1>6, <2>1 DEF DueOf
<1>7. CASE beat /\ d = LineBeats - 1
  <2>1. q2 = Tail(q) \o r /\ d2 = 0 /\ d > 0
    BY <1>7
  <2>2. DueOf(q, d) = Tail(q) /\ DueOf(q2, d2) = Tail(q) \o r
    BY <1>7, <2>1 DEF DueOf
  <2>3. /\ q2 \in Seq(Requests) /\ Tail(q) \in Seq(Requests)
    BY <1>2, <1>3, <1>7, <2>1
  <2>4. ~(d = 0)
    BY <1>7, SizeFacts
  <2> QED
    BY <1>1, <2>1, <2>2, <2>3, <2>4, Zenon
<1> QED
  BY <1>4, <1>5, <1>6, <1>7

OutNodes == Node \cup {NoNode}
OutAt(R, s, j) == s \in DOMAIN R /\ j \in {1, 2} /\ R[s][j] = Special
OneOut(R, x) == IF x THEN \E s, j : OutAt(R, s, j) /\ \A u, v : OutAt(R, u, v) => u = s /\ v = j
                ELSE \A s, j : ~OutAt(R, s, j)

LEMMA RowOutSpots ==
  ASSUME BfsCoreTypes, NEW x \in BOOLEAN
  PROVE  OneIf(OutSpots, x) <=> OneOut(outRow, x)
<1>1. \A s, j : OutAt(outRow, s, j) <=> <<s, j>> \in OutSpots
  BY DEF OutAt, OutSpots, BfsCoreTypes
<1>2. \A p \in OutSpots : p = <<p[1], p[2]>>
  BY DEF OutSpots
<1>3. CASE x
  <2>1. OneIf(OutSpots, x) => OneOut(outRow, x)
    <3>1. SUFFICES ASSUME NEW p \in OutSpots, OutSpots = {p}
                   PROVE  OneOut(outRow, x)
      BY <1>3 DEF OneIf
    <3>2. OutAt(outRow, p[1], p[2])
      BY <1>1, <1>2, <3>1
    <3>3. ASSUME NEW u, NEW v, OutAt(outRow, u, v) PROVE u = p[1] /\ v = p[2]
      <4>1. <<u, v>> = p
        BY <1>1, <3>1, <3>3
      <4> QED
        BY <4>1
    <3> QED
      BY <1>3, <3>2, <3>3 DEF OneOut
  <2>2. OneOut(outRow, x) => OneIf(OutSpots, x)
    <3>1. SUFFICES ASSUME NEW s, NEW j, OutAt(outRow, s, j),
                          \A u, v : OutAt(outRow, u, v) => u = s /\ v = j
                   PROVE  OneIf(OutSpots, x)
      BY <1>3 DEF OneOut
    <3>2. <<s, j>> \in OutSpots
      BY <1>1, <3>1
    <3>3. \A p \in OutSpots : p = <<s, j>>
      <4> TAKE p \in OutSpots
      <4>1. OutAt(outRow, p[1], p[2])
        BY <1>1, <1>2
      <4>2. p[1] = s /\ p[2] = j
        BY <3>1, <4>1
      <4> QED
        BY <1>2, <4>2
    <3> QED
      BY <1>3, <3>2, <3>3 DEF OneIf
  <2> QED
    BY <2>1, <2>2
<1>4. CASE ~x
  <2>1. (OutSpots = {}) <=> \A s, j : ~OutAt(outRow, s, j)
    <3>1. (\E p : p \in OutSpots) => \E s, j : OutAt(outRow, s, j)
      BY <1>1, <1>2
    <3>2. (\E s, j : OutAt(outRow, s, j)) => \E p : p \in OutSpots
      BY <1>1
    <3> QED
      BY <3>1, <3>2
  <2> QED
    BY <1>4, <2>1 DEF OneIf, OneOut
<1> QED
  BY <1>3, <1>4

\* What an edge does to the rows R of the outgoing queue, of which those in L are full, z
\* is the tail and n the one behind it: the rows in gone are taken, the nodes of e enter.
RowsAre(S, L, z, R) ==
  /\ R \in [S -> OutNodes \X OutNodes]
  /\ \A s \in L : R[s] \in Node \X Node
  /\ R[z][2] = NoNode
  /\ \A s \in S \ L : s # z => R[s] = <<NoNode, NoNode>>
RowsReady(S, L, gone, z, n, R, e) ==
  /\ L \in SUBSET S /\ gone \in SUBSET S /\ z \in S /\ n \in S /\ z \notin L /\ RowsAre(S, L, z, R)
  /\ e = << >> \/ e \in Row
  /\ \A s \in gone : s \in L \/ (s = z /\ e = << >>)
  /\ e # << >> => n # z /\ n \notin L /\ n \notin gone
RowsFill(z, R, e) == e # << >> /\ (R[z][1] # NoNode \/ Len(e) = 2)
RowsLeft(gone, R, s) == IF s \in gone THEN <<NoNode, NoNode>> ELSE R[s]
RowsNext(S, gone, z, n, R, e) ==
  [s \in S |->
     IF e # << >> /\ s = z
     THEN IF R[z][1] # NoNode THEN <<RowsLeft(gone, R, s)[1], e[1]>>
          ELSE IF Len(e) = 2 THEN e ELSE <<e[1], RowsLeft(gone, R, s)[2]>>
     ELSE IF e # << >> /\ R[z][1] # NoNode /\ Len(e) = 2 /\ s = n
          THEN <<e[2], RowsLeft(gone, R, s)[2]>>
     ELSE RowsLeft(gone, R, s)]

RowsPut(gone, z, n, R, e, s, j) ==
  LET first == IF R[z][1] # NoNode THEN 2 ELSE 1
  IN IF e # << >> /\ s = z /\ j = first THEN e[1]
     ELSE IF e # << >> /\ Len(e) = 2 /\ s = z /\ first = 1 /\ j = 2 THEN e[2]
     ELSE IF e # << >> /\ Len(e) = 2 /\ s = n /\ first = 2 /\ j = 1 THEN e[2]
     ELSE IF s \in gone THEN NoNode ELSE R[s][j]

RowsMoved(S, gone, z, n, R, e) ==
  \A s \in S, j \in {1, 2} : RowsNext(S, gone, z, n, R, e)[s][j] = RowsPut(gone, z, n, R, e, s, j)
RowsLive(L, gone, z, R, e) == (L \ gone) \cup (IF RowsFill(z, R, e) THEN {z} ELSE {})
RowsTail(z, n, R, e) == IF RowsFill(z, R, e) THEN n ELSE z

\* Where a node is after the edge.
LEMMA RowsMove ==
  ASSUME NEW S, NEW L, NEW gone, NEW z, NEW n, NEW R, NEW e,
         RowsReady(S, L, gone, z, n, R, e)
  PROVE  /\ RowsAre(S, RowsLive(L, gone, z, R, e), RowsTail(z, n, R, e), RowsNext(S, gone, z, n, R, e))
         /\ RowsMoved(S, gone, z, n, R, e)
<1> USE NodeFacts
<1> DEFINE T == RowsNext(S, gone, z, n, R, e)
           K == (L \ gone) \cup (IF RowsFill(z, R, e) THEN {z} ELSE {})
           y == IF RowsFill(z, R, e) THEN n ELSE z
           first == IF R[z][1] # NoNode THEN 2 ELSE 1
<1>0. /\ L \in SUBSET S /\ gone \in SUBSET S /\ z \in S /\ n \in S /\ z \notin L /\ RowsAre(S, L, z, R)
      /\ e = << >> \/ e \in Row
      /\ \A s \in gone : s \in L \/ (s = z /\ e = << >>)
      /\ e # << >> => n # z /\ n \notin L /\ n \notin gone
  BY DEF RowsReady
<1> USE <1>0
<1>1. e # << >> => /\ Len(e) \in {1, 2} /\ e[1] \in Node
                   /\ Len(e) = 2 => e[2] \in Node /\ e = <<e[1], e[2]>> /\ e \in Node \X Node
  BY RowFacts
<1>2. /\ R \in [S -> OutNodes \X OutNodes] /\ R[z][2] = NoNode
      /\ \A s \in L : R[s] \in Node \X Node
      /\ \A s \in S \ L : s # z => R[s] = <<NoNode, NoNode>>
  BY DEF RowsAre
<1>3. \A s \in S : R[s][1] \in OutNodes /\ R[s][2] \in OutNodes /\ R[s] = <<R[s][1], R[s][2]>>
  BY <1>2
<1>4. ASSUME e = << >>
      PROVE  \A s \in S : T[s] = IF s \in gone THEN <<NoNode, NoNode>> ELSE R[s]
  BY <1>4 DEF RowsNext, RowsLeft
<1>5. CASE e = << >>
  <2>1. /\ \A s \in S, j \in {1, 2} : T[s][j] = IF s \in gone THEN NoNode ELSE R[s][j]
        /\ T \in [S -> OutNodes \X OutNodes]
    <3>1. T = [s \in S |-> T[s]]
      BY DEF RowsNext
    <3>2. \A s \in S : T[s] \in OutNodes \X OutNodes
      BY <1>2, <1>4, <1>5 DEF OutNodes
    <3>3. \A s \in S, j \in {1, 2} : T[s][j] = IF s \in gone THEN NoNode ELSE R[s][j]
      BY <1>4, <1>5
    <3> HIDE DEF T
    <3> QED
      BY <3>1, <3>2, <3>3
  <2>2. ~RowsFill(z, R, e) /\ y = z /\ K = L \ gone
    BY <1>5 DEF RowsFill
  <2> HIDE DEF T, K, y
  <2>3. \A s \in K : T[s] \in Node \X Node
    BY <1>2, <1>4, <1>5, <2>2
  <2>4. T[y][2] = NoNode
    BY <1>2, <2>1, <2>2
  <2>5. \A s \in S \ K : s # y => T[s] = <<NoNode, NoNode>>
    BY <1>2, <1>4, <1>5, <2>2
  <2>6. RowsAre(S, K, y, T)
    BY <2>1, <2>3, <2>4, <2>5 DEF RowsAre
  <2>7. \A s \in S, j \in {1, 2} : T[s][j] = RowsPut(gone, z, n, R, e, s, j)
    BY <1>5, <2>1 DEF RowsPut
  <2> QED
    BY <2>6, <2>7 DEF T, K, y, RowsMoved, RowsLive, RowsTail
<1>6. CASE e # << >>
  <2>1. n # z /\ n \notin L /\ n \notin gone /\ R[n] = <<NoNode, NoNode>> /\ z \notin gone
    BY <1>2, <1>6
  <2>2. /\ \A s \in S : s # z /\ s # n => T[s] = IF s \in gone THEN <<NoNode, NoNode>> ELSE R[s]
        /\ T[z] = IF first = 2 THEN <<R[z][1], e[1]>>
                  ELSE IF Len(e) = 2 THEN <<e[1], e[2]>> ELSE <<e[1], NoNode>>
        /\ T[n] = IF first = 2 /\ Len(e) = 2 THEN <<e[2], NoNode>> ELSE <<NoNode, NoNode>>
    <3>1. \A s \in S : s # z /\ s # n => T[s] = IF s \in gone THEN <<NoNode, NoNode>> ELSE R[s]
      BY <2>1 DEF RowsNext, RowsLeft
    <3>2. RowsLeft(gone, R, z) = R[z] /\ RowsLeft(gone, R, n) = <<NoNode, NoNode>>
      BY <2>1 DEF RowsLeft
    <3>3. T[z] = IF first = 2 THEN <<R[z][1], e[1]>>
                 ELSE IF Len(e) = 2 THEN <<e[1], e[2]>> ELSE <<e[1], NoNode>>
      BY <1>1, <1>2, <1>6, <3>2 DEF RowsNext
    <3>4. T[n] = IF first = 2 /\ Len(e) = 2 THEN <<e[2], NoNode>> ELSE <<NoNode, NoNode>>
      BY <1>6, <2>1, <3>2 DEF RowsNext
    <3> QED
      BY <3>1, <3>3, <3>4
  <2>3. T = [s \in S |-> T[s]]
    BY DEF RowsNext
  <2>4. first \in {1, 2} /\ (first = 2 <=> R[z][1] # NoNode) /\ (first = 1 => R[z] = <<NoNode, NoNode>>)
    BY <1>2, <1>3
  <2>5. first = 2 => R[z][1] \in Node
    BY <1>3, <2>4 DEF OutNodes
  <2>6. RowsFill(z, R, e) <=> first = 2 \/ Len(e) = 2
    BY <1>6 DEF RowsFill
  <2> HIDE DEF T, first
  <2>7. \A s \in S : T[s] \in OutNodes \X OutNodes
    <3> TAKE s \in S
    <3>1. CASE s = z
      BY <1>1, <1>6, <2>2, <2>5, <3>1 DEF OutNodes
    <3>2. CASE s = n
      BY <1>1, <1>6, <2>2, <3>2 DEF OutNodes
    <3>3. CASE s # z /\ s # n
      BY <1>2, <2>2, <3>3 DEF OutNodes
    <3> QED
      BY <3>1, <3>2, <3>3
  <2>8. \A s \in K : T[s] \in Node \X Node
    <3> TAKE s \in K
    <3>1. CASE s = z
      <4>1. RowsFill(z, R, e)
        BY <3>1
      <4> QED
        BY <1>1, <1>6, <2>2, <2>4, <2>5, <2>6, <3>1, <4>1
    <3>2. CASE s # z
      <4>1. s \in L /\ s # n /\ s \notin gone
        BY <2>1, <3>2
      <4> QED
        BY <1>2, <2>2, <3>2, <4>1
    <3> QED
      BY <3>1, <3>2
  <2>9. T[y][2] = NoNode
    <3>1. CASE RowsFill(z, R, e)
      BY <2>2, <3>1
    <3>2. CASE ~RowsFill(z, R, e)
      <4>1. y = z /\ first = 1 /\ Len(e) # 2
        BY <2>4, <2>6, <3>2
      <4> QED
        BY <2>2, <4>1
    <3> QED
      BY <3>1, <3>2
  <2>10. \A s \in S \ K : s # y => T[s] = <<NoNode, NoNode>>
    <3> TAKE s \in S \ K
    <3> HAVE s # y
    <3>1. CASE s = n
      <4>1. ~RowsFill(z, R, e)
        BY <3>1
      <4> QED
        BY <2>2, <2>6, <3>1, <4>1
    <3>2. CASE s = z
      <4>1. RowsFill(z, R, e)
        BY <3>2
      <4> QED
        BY <3>2, <4>1
    <3>3. CASE s # z /\ s # n
      BY <1>2, <2>2, <3>3
    <3> QED
      BY <3>1, <3>2, <3>3
  <2>11. \A s \in S, j \in {1, 2} :
           T[s][j] = IF e # << >> /\ s = z /\ j = first THEN e[1]
                     ELSE IF e # << >> /\ Len(e) = 2 /\ s = z /\ first = 1 /\ j = 2 THEN e[2]
                     ELSE IF e # << >> /\ Len(e) = 2 /\ s = n /\ first = 2 /\ j = 1 THEN e[2]
                     ELSE IF s \in gone THEN NoNode ELSE R[s][j]
    <3> TAKE s \in S, j \in {1, 2}
    <3>1. CASE s = z
      BY <1>6, <2>1, <2>2, <2>4, <1>2, <3>1
    <3>2. CASE s = n
      BY <1>6, <2>1, <2>2, <2>4, <3>2
    <3>3. CASE s # z /\ s # n
      BY <2>2, <3>3
    <3> QED
      BY <3>1, <3>2, <3>3
  <2>12. RowsAre(S, K, y, T)
    BY <2>3, <2>7, <2>8, <2>9, <2>10 DEF RowsAre
  <2>13. \A s \in S, j \in {1, 2} : T[s][j] = RowsPut(gone, z, n, R, e, s, j)
    BY <2>11 DEF RowsPut, first
  <2> QED
    BY <2>12, <2>13 DEF T, RowsMoved, RowsLive, RowsTail
<1> QED
  BY <1>5, <1>6

LEMMA RowsFlow ==
  ASSUME NEW S, NEW L, NEW gone, NEW z, NEW n, NEW R, NEW e,
         RowsReady(S, L, gone, z, n, R, e), e # << >> => Single(e),
         NEW x \in BOOLEAN, OneOut(R, x), ~(x /\ e # << >> /\ Holds(e))
  PROVE  LET g == \E s \in gone : R[s][1] = Special \/ R[s][2] = Special
         IN /\ g => x
            /\ OneOut(RowsNext(S, gone, z, n, R, e), (x /\ ~g) \/ (e # << >> /\ Holds(e)))
<1> USE NodeFacts
<1> DEFINE T == RowsNext(S, gone, z, n, R, e)
           first == IF R[z][1] # NoNode THEN 2 ELSE 1
           g == \E s \in gone : R[s][1] = Special \/ R[s][2] = Special
           f == e # << >> /\ Holds(e)
<1>0. /\ L \in SUBSET S /\ gone \in SUBSET S /\ z \in S /\ n \in S /\ z \notin L /\ RowsAre(S, L, z, R)
      /\ e = << >> \/ e \in Row
      /\ \A s \in gone : s \in L \/ (s = z /\ e = << >>)
      /\ e # << >> => n # z /\ n \notin L /\ n \notin gone
  BY DEF RowsReady
<1> USE <1>0
<1>1. \A s \in S, j \in {1, 2} :
        T[s][j] = IF e # << >> /\ s = z /\ j = first THEN e[1]
                  ELSE IF e # << >> /\ Len(e) = 2 /\ s = z /\ first = 1 /\ j = 2 THEN e[2]
                  ELSE IF e # << >> /\ Len(e) = 2 /\ s = n /\ first = 2 /\ j = 1 THEN e[2]
                  ELSE IF s \in gone THEN NoNode ELSE R[s][j]
  <2>1. \A s \in S, j \in {1, 2} : T[s][j] = RowsPut(gone, z, n, R, e, s, j)
    <3>1. RowsMoved(S, gone, z, n, R, e)
      BY RowsMove
    <3> QED
      BY <3>1 DEF RowsMoved
  <2> HIDE DEF T
  <2> QED
    BY <2>1 DEF RowsPut
<1>2. DOMAIN T = S /\ DOMAIN R = S
  BY DEF RowsNext, RowsAre
<1>3. first \in {1, 2} /\ (first = 1 => R[z][1] = NoNode) /\ R[z][2] = NoNode
  BY DEF RowsAre
<1>4. e # << >> => R[n] = <<NoNode, NoNode>> /\ n # z
  BY DEF RowsAre
<1>5. e # << >> => Len(e) \in {1, 2}
  BY RowFacts
<1> HIDE DEF T, first
<1>6. \A s, j : OutAt(R, s, j) <=> s \in S /\ j \in {1, 2} /\ R[s][j] = Special
  BY <1>2 DEF OutAt
<1>7. \A s, j : OutAt(T, s, j) <=> s \in S /\ j \in {1, 2} /\ T[s][j] = Special
  BY <1>2 DEF OutAt
<1>8. g => x
  BY <1>6 DEF OneOut
<1>9. CASE f
  <2>1. ~x /\ e # << >> /\ Single(e) /\ (e[1] = Special \/ (Len(e) = 2 /\ e[2] = Special))
    BY <1>9 DEF Holds
  <2>2. \A s \in S, j \in {1, 2} : R[s][j] # Special
    BY <1>6, <2>1 DEF OneOut
  <2>3. \E s, j : OutAt(T, s, j) /\ \A u, v : OutAt(T, u, v) => u = s /\ v = j
    <3>1. CASE e[1] = Special
      <4>1. \A s \in S, j \in {1, 2} : T[s][j] = Special <=> s = z /\ j = first
        BY <1>1, <1>3, <1>4, <2>1, <2>2, <3>1 DEF Single
      <4>2. OutAt(T, z, first) /\ \A u, v : OutAt(T, u, v) => u = z /\ v = first
        BY <1>3, <1>7, <4>1
      <4> QED
        BY <4>2
    <3>2. CASE e[1] # Special /\ first = 1
      <4>1. \A s \in S, j \in {1, 2} : T[s][j] = Special <=> s = z /\ j = 2
        BY <1>1, <1>3, <1>4, <2>1, <2>2, <3>2
      <4>2. OutAt(T, z, 2) /\ \A u, v : OutAt(T, u, v) => u = z /\ v = 2
        BY <1>3, <1>7, <4>1
      <4> QED
        BY <4>2
    <3>3. CASE e[1] # Special /\ first = 2
      <4>1. \A s \in S, j \in {1, 2} : T[s][j] = Special <=> s = n /\ j = 1
        BY <1>1, <1>3, <1>4, <2>1, <2>2, <3>3
      <4>2. OutAt(T, n, 1) /\ \A u, v : OutAt(T, u, v) => u = n /\ v = 1
        BY <1>3, <1>7, <4>1
      <4> QED
        BY <4>2
    <3> QED
      BY <1>3, <3>1, <3>2, <3>3
  <2> QED
    BY <1>8, <1>9, <2>3 DEF OneOut, T
<1>10. CASE ~f
  <2>1. e # << >> => e[1] # Special /\ (Len(e) = 2 => e[2] # Special)
    BY <1>10 DEF Holds
  <2>2. \A s \in S, j \in {1, 2} : T[s][j] = Special <=> s \notin gone /\ R[s][j] = Special
    BY <1>1, <1>3, <1>4, <2>1
  <2>3. \A s, j : OutAt(T, s, j) <=> OutAt(R, s, j) /\ s \notin gone
    BY <1>6, <1>7, <2>2
  <2>4. g <=> \E s \in gone, j \in {1, 2} : OutAt(R, s, j)
    BY <1>6
  <2>5. OneOut(T, x /\ ~g)
    <3>1. CASE ~x
      BY <2>3, <3>1 DEF OneOut
    <3>2. CASE x
      <4>1. PICK s, j : OutAt(R, s, j) /\ \A u, v : OutAt(R, u, v) => u = s /\ v = j
        BY <3>2 DEF OneOut
      <4>2. CASE g
        <5>1. s \in gone
          BY <2>4, <4>1, <4>2
        <5>2. \A u, v : ~OutAt(T, u, v)
          BY <2>3, <2>4, <4>1, <4>2, <5>1
        <5> QED
          BY <4>2, <5>2 DEF OneOut
      <4>3. CASE ~g
        <5>1. s \notin gone
          BY <1>6, <2>4, <4>1, <4>3
        <5>2. OutAt(T, s, j) /\ \A u, v : OutAt(T, u, v) => u = s /\ v = j
          BY <2>3, <4>1, <5>1
        <5> QED
          BY <3>2, <4>3, <5>2 DEF OneOut
      <4> QED
        BY <4>2, <4>3
    <3> QED
      BY <3>1, <3>2
  <2>6. ((x /\ ~g) \/ (e # << >> /\ Holds(e))) <=> (x /\ ~g)
    BY <1>10
  <2> QED
    BY <1>8, <2>5, <2>6 DEF OneOut, T
<1> QED
  BY <1>9, <1>10

\* Whether the head of the outgoing queue leaves, and whether Special leaves with it.
OutTaken(ready) == OutDeq(ready) /\ ~OutEmpty
GoesOut(ready) == OutTaken(ready) /\ (HeadRow[1] = Special \/ HeadRow[2] = Special)

LEMMA LiveRows ==
  ASSUME BfsCoreTypes, RowsAreLive
  PROVE  /\ RowsAre(OutRing!Slots, OutRing!Live(outHead, outTail), OutRing!Idx(outTail), outRow)
         /\ outHead \in OutRing!Ptrs /\ outTail \in OutRing!Ptrs
         /\ OutRing!Dist(outHead, outTail) < BufRows
         /\ OutFilled <=> outHead # outTail
         /\ outHead # outTail => HeadRow \in Node \X Node /\ ~OutEmpty
         /\ outHead = outTail /\ ~OutEmpty => HeadRow[1] \in Node /\ HeadRow = <<HeadRow[1], NoNode>>
<1> USE NodeFacts
<1>1. /\ outHead \in OutRing!Ptrs /\ outTail \in OutRing!Ptrs
      /\ OutRing!Dist(outHead, outTail) < BufRows
      /\ outRow \in [OutRing!Slots -> OutNodes \X OutNodes]
  BY DEF BfsCoreTypes, RowsAreLive, Held, OutNodes
<1>2. RowsAre(OutRing!Slots, OutRing!Live(outHead, outTail), OutRing!Idx(outTail), outRow)
  BY <1>1 DEF RowsAre, RowsAreLive, TailRow
<1>3. outHead # outTail => OutRing!Idx(outHead) \in OutRing!Live(outHead, outTail)
  BY <1>1, RingFacts
<1>4. outHead # outTail => HeadRow \in Node \X Node
  BY <1>2, <1>3 DEF RowsAre, HeadRow
<1>5. outHead = outTail => HeadRow[2] = NoNode
  BY <1>2 DEF RowsAre, HeadRow
<1>6. HeadRow \in OutNodes \X OutNodes
  BY <1>1, RingFacts DEF HeadRow
<1>7. HeadRow[1] \in OutNodes /\ HeadRow = <<HeadRow[1], HeadRow[2]>>
  BY <1>6
<1> QED
  BY <1>1, <1>2, <1>4, <1>5, <1>7 DEF OutFilled, OutEmpty, OutNodes

\* An edge of the outgoing queue, which takes the row or part of a row e.
LEMMA OutStep ==
  ASSUME BfsCoreTypes, RowsAreLive, NEW ready \in BOOLEAN, NEW e, e = << >> \/ e \in Row,
         e # << >> => ~OutFull, OutTaken(ready) /\ ~OutFilled => e = << >>,
         OutQueue(ready, e)
  PROVE  /\ outHead' \in OutRing!Ptrs /\ outTail' \in OutRing!Ptrs
         /\ RowsAre(OutRing!Slots, OutRing!Live(outHead', outTail'), OutRing!Idx(outTail'), outRow')
         /\ OutRing!Dist(outHead', outTail') < BufRows
         /\ OutRing!Dist(outHead', outTail') >= Held - 1
         /\ ~OutTaken(ready) => OutRing!Dist(outHead', outTail') >= Held
         /\ \A x \in BOOLEAN :
              OneOut(outRow, x) /\ (e # << >> => Single(e)) /\ ~(x /\ e # << >> /\ Holds(e)) =>
                /\ GoesOut(ready) => x
                /\ OneOut(outRow', (x /\ ~GoesOut(ready)) \/ (e # << >> /\ Holds(e)))
         /\ e = << >> /\ ~OutTaken(ready) => UNCHANGED <<outHead, outTail, outRow>>
<1> DEFINE h == outHead
           t == outTail
           a == OutRing!Idx(h)
           z == OutRing!Idx(t)
           n == OutRing!Idx(OutRing!Inc(t))
           L == OutRing!Live(h, t)
           gone == IF OutTaken(ready) THEN {a} ELSE {}
           fill == RowsFill(z, outRow, e)
<1>1. /\ h \in OutRing!Ptrs /\ t \in OutRing!Ptrs /\ OutRing!Dist(h, t) < BufRows
      /\ RowsAre(OutRing!Slots, L, z, outRow)
      /\ OutFilled <=> h # t
  BY LiveRows
<1>2. /\ a \in OutRing!Slots /\ z \in OutRing!Slots /\ L \subseteq OutRing!Slots /\ z \notin L
      /\ h # t => a \in L /\ a # z
      /\ h = t => L = {} /\ a = z
      /\ OutRing!Dist(h, t) \in 0 .. BufRows - 1 /\ (OutRing!Dist(h, t) = 0 <=> h = t)
  BY <1>1, RingFacts
<1>3. /\ OutRing!Inc(t) \in OutRing!Ptrs /\ (OutFull <=> OutRing!Dist(h, t) = BufRows - 1)
      /\ OutRing!Dist(h, t) # BufRows - 1 =>
           /\ OutRing!Dist(h, OutRing!Inc(t)) = OutRing!Dist(h, t) + 1
           /\ OutRing!Live(h, OutRing!Inc(t)) = L \cup {z}
           /\ n # z /\ n \notin L
  BY <1>1, RingAdds DEF OutFull
<1>4. n \in OutRing!Slots
  BY <1>3, SizeFacts DEF OutRing!Idx, OutRing!Ptrs, OutRing!Slots
<1>5. e # << >> => n # a /\ OutRing!Dist(h, t) # BufRows - 1
  BY <1>3 DEF OutFull
<1>6. OutTaken(ready) => h # t \/ e = << >>
  BY <1>1
<1>7. RowsReady(OutRing!Slots, L, gone, z, n, outRow, e)
  <2> HIDE DEF a, z, n, L
  <2> QED
    BY <1>1, <1>2, <1>3, <1>4, <1>5, <1>6 DEF RowsReady
<1>8. outRow' = RowsNext(OutRing!Slots, gone, z, n, outRow, e)
  <2> DEFINE Left(s) == IF OutTaken(ready) /\ s = a THEN <<NoNode, NoNode>> ELSE outRow[s]
  <2>1. outRow' = [s \in OutRing!Slots |->
          IF e # << >> /\ ~OutFull /\ s = z
          THEN IF TailSingle THEN <<Left(s)[1], e[1]>>
               ELSE IF Len(e) = 2 THEN e ELSE <<e[1], Left(s)[2]>>
          ELSE IF e # << >> /\ ~OutFull /\ TailSingle /\ Len(e) = 2 /\ s = n
               THEN <<e[2], Left(s)[2]>>
          ELSE Left(s)]
    BY DEF OutQueue, OutTaken
  <2>2. \A s : Left(s) = RowsLeft(gone, outRow, s)
    BY DEF RowsLeft
  <2>3. TailSingle <=> outRow[z][1] # NoNode
    BY DEF TailSingle, TailRow
  <2>4. e # << >> => ~OutFull
    OBVIOUS
  <2> HIDE DEF a, z, n, gone, Left
  <2>5. outRow' = [s \in OutRing!Slots |->
          IF e # << >> /\ s = z
          THEN IF outRow[z][1] # NoNode THEN <<RowsLeft(gone, outRow, s)[1], e[1]>>
               ELSE IF Len(e) = 2 THEN e ELSE <<e[1], RowsLeft(gone, outRow, s)[2]>>
          ELSE IF e # << >> /\ outRow[z][1] # NoNode /\ Len(e) = 2 /\ s = n
               THEN <<e[2], RowsLeft(gone, outRow, s)[2]>>
          ELSE RowsLeft(gone, outRow, s)]
    BY <2>1, <2>2, <2>3, <2>4
  <2> QED
    BY <2>5 DEF RowsNext
<1>9. /\ outTail' = IF fill THEN OutRing!Inc(t) ELSE t
      /\ outHead' = IF OutTaken(ready) /\ h # t THEN OutRing!Inc(h) ELSE h
  <2>1. outTail' = IF e # << >> /\ ~OutFull /\ (TailSingle \/ Len(e) = 2) THEN OutRing!Inc(t) ELSE t
    BY DEF OutQueue
  <2>2. outHead' = IF OutTaken(ready) /\ OutFilled THEN OutRing!Inc(h) ELSE h
    BY DEF OutQueue, OutTaken
  <2> QED
    BY <1>1, <2>1, <2>2 DEF RowsFill, TailSingle, TailRow
<1>10. /\ RowsAre(OutRing!Slots, RowsLive(L, gone, z, outRow, e), RowsTail(z, n, outRow, e), outRow')
       /\ RowsMoved(OutRing!Slots, gone, z, n, outRow, e)
  <2> HIDE DEF a, z, n, L, gone
  <2> QED
    BY <1>7, <1>8, RowsMove
<1>11. fill => e # << >>
  BY DEF RowsFill
<1>12. PICK t2 \in OutRing!Ptrs : /\ outTail' = t2 /\ OutRing!Idx(t2) = RowsTail(z, n, outRow, e)
                                  /\ OutRing!Dist(h, t2) = OutRing!Dist(h, t) + (IF fill THEN 1 ELSE 0)
                                  /\ OutRing!Live(h, t2) = L \cup (IF fill THEN {z} ELSE {})
  <2>1. CASE fill
    <3> OutRing!Inc(t) \in OutRing!Ptrs
      BY <1>3
    <3> WITNESS OutRing!Inc(t) \in OutRing!Ptrs
    <3> QED
      BY <1>3, <1>5, <1>9, <1>11, <2>1 DEF RowsTail
  <2>2. CASE ~fill
    <3> t \in OutRing!Ptrs
      BY <1>1
    <3> WITNESS t \in OutRing!Ptrs
    <3> QED
      BY <1>2, <1>9, <2>2 DEF RowsTail
  <2> QED
    BY <2>1, <2>2
<1>13. /\ OutRing!Dist(h, t2) < BufRows /\ OutRing!Dist(h, t2) >= OutRing!Dist(h, t)
       /\ OutRing!Dist(h, t2) \in Nat /\ OutRing!Dist(h, t) \in Nat
       /\ h # t => OutRing!Dist(h, t) >= 1
  <2> DEFINE d == OutRing!Dist(h, t)
             k == IF fill THEN 1 ELSE 0
  <2>1. d \in 0 .. BufRows - 1 /\ k \in 0 .. 1 /\ (k = 1 => d # BufRows - 1) /\ BufRows \in Nat
    BY <1>2, <1>5, <1>11, SizeFacts
  <2>2. OutRing!Dist(h, t2) = d + k /\ (h # t => d # 0)
    BY <1>2, <1>12
  <2> HIDE DEF d, k
  <2>3. d + k < BufRows /\ d + k >= d /\ d + k \in Nat /\ d \in Nat /\ (h # t => d >= 1)
    BY <2>1, <2>2
  <2> QED
    BY <2>2, <2>3 DEF d
<1>14. PICK h2 \in OutRing!Ptrs :
         /\ outHead' = h2 /\ OutRing!Live(h2, t2) = RowsLive(L, gone, z, outRow, e)
         /\ OutRing!Dist(h2, t2) < BufRows /\ OutRing!Dist(h2, t2) >= OutRing!Dist(h, t) - 1
         /\ ~OutTaken(ready) => OutRing!Dist(h2, t2) >= OutRing!Dist(h, t)
  <2>1. CASE OutTaken(ready) /\ h # t
    <3>1. h # t2
      <4>1. OutRing!Dist(h, t2) # 0
        BY <1>13, <2>1
      <4> QED
        BY <1>1, <1>13, <4>1, RingFacts
    <3>2. /\ OutRing!Inc(h) \in OutRing!Ptrs
          /\ OutRing!Dist(OutRing!Inc(h), t2) = OutRing!Dist(h, t2) - 1
          /\ OutRing!Live(OutRing!Inc(h), t2) = OutRing!Live(h, t2) \ {a}
      BY <1>1, <1>13, <3>1, RingTakes
    <3>3. OutRing!Live(OutRing!Inc(h), t2) = RowsLive(L, gone, z, outRow, e)
      <4> HIDE DEF a, z, n, L
      <4> QED
        BY <1>2, <1>12, <2>1, <3>2 DEF RowsLive
    <3>4. OutRing!Dist(h, t2) - 1 < BufRows /\ OutRing!Dist(h, t2) - 1 >= OutRing!Dist(h, t) - 1
      BY <1>13, SizeFacts
    <3>5. outHead' = OutRing!Inc(h)
      BY <1>9, <2>1
    <3> OutRing!Inc(h) \in OutRing!Ptrs
      BY <3>2
    <3> WITNESS OutRing!Inc(h) \in OutRing!Ptrs
    <3> QED
      BY <2>1, <3>2, <3>3, <3>4, <3>5
  <2>2. CASE ~(OutTaken(ready) /\ h # t)
    <3>1. OutRing!Live(h, t2) = RowsLive(L, gone, z, outRow, e)
      <4>1. L \ gone = L
        <5> HIDE DEF a, z, n, L
        <5> QED
          BY <1>2, <2>2
      <4> HIDE DEF gone, L, z
      <4> QED
        BY <1>12, <4>1 DEF RowsLive
    <3> h \in OutRing!Ptrs
      BY <1>1
    <3> WITNESS h \in OutRing!Ptrs
    <3> QED
      <4>1. outHead' = h
        BY <1>9, <2>2
      <4>2. OutRing!Dist(h, t2) >= OutRing!Dist(h, t) - 1
        BY <1>13
      <4> QED
        BY <1>13, <3>1, <4>1, <4>2
  <2> QED
    BY <2>1, <2>2
<1>15. /\ outHead' \in OutRing!Ptrs /\ outTail' \in OutRing!Ptrs
       /\ RowsAre(OutRing!Slots, OutRing!Live(outHead', outTail'), OutRing!Idx(outTail'), outRow')
       /\ OutRing!Dist(outHead', outTail') < BufRows
       /\ OutRing!Dist(outHead', outTail') >= Held - 1
       /\ ~OutTaken(ready) => OutRing!Dist(outHead', outTail') >= Held
  BY <1>10, <1>12, <1>14 DEF Held
<1>16. ASSUME NEW x \in BOOLEAN, OneOut(outRow, x), e # << >> => Single(e),
              ~(x /\ e # << >> /\ Holds(e))
       PROVE  /\ GoesOut(ready) => x
              /\ OneOut(outRow', (x /\ ~GoesOut(ready)) \/ (e # << >> /\ Holds(e)))
  <2> DEFINE g == \E s \in gone : outRow[s][1] = Special \/ outRow[s][2] = Special
  <2>1. GoesOut(ready) <=> g
    BY DEF GoesOut, HeadRow
  <2>2. /\ g => x
        /\ OneOut(RowsNext(OutRing!Slots, gone, z, n, outRow, e), (x /\ ~g) \/ (e # << >> /\ Holds(e)))
    <3> HIDE DEF a, z, n, L, gone
    <3> QED
      BY <1>7, <1>16, RowsFlow
  <2> HIDE DEF g, gone, z, n
  <2>3. ((x /\ ~GoesOut(ready)) \/ (e # << >> /\ Holds(e))) <=> ((x /\ ~g) \/ (e # << >> /\ Holds(e)))
    BY <2>1
  <2> QED
    BY <1>8, <2>1, <2>2, <2>3 DEF OneOut
<1>17. e = << >> /\ ~OutTaken(ready) => UNCHANGED <<outHead, outTail, outRow>>
  <2> SUFFICES ASSUME e = << >>, ~OutTaken(ready) PROVE UNCHANGED <<outHead, outTail, outRow>>
    OBVIOUS
  <2>1. outRow' = [s \in OutRing!Slots |-> outRow[s]]
    BY <1>8 DEF RowsNext, RowsLeft
  <2>2. outRow = [s \in OutRing!Slots |-> outRow[s]]
    BY <1>1 DEF RowsAre
  <2> QED
    BY <1>9, <1>11, <2>1, <2>2
<1> QED
  BY <1>15, <1>16, <1>17

-----------------------------------------------------------------------------
(* Special in one part of the machine *)

Parts == {"main", "in", "line", "out", "memory", "asked"}
PartSpots(part) ==
  CASE part = "main"   -> Spots(mainQ)
    [] part = "in"     -> Spots(inQ)
    [] part = "line"   -> Spots(line)
    [] part = "out"    -> OutSpots
    [] part = "memory" -> SwqSpots
    [] part = "asked"  -> DueSpots

Where(part) ==
  /\ OneAt(mainQ, part = "main") /\ OneAt(inQ, part = "in") /\ OneAt(line, part = "line")
  /\ OneOut(outRow, part = "out") /\ OneInMemory(swq, Moved, part = "memory")
  /\ OneAsks(Due, part = "asked")

LEMMA LineRows ==
  ASSUME NEW q \in Seq(Node \X Node)
  PROVE  q \in Seq(Row)
<1>1. Node \X Node \subseteq Row
  BY DEF Row
<1>2. \A i \in 1 .. Len(q) : q[i] \in Row
  BY <1>1
<1> QED
  BY <1>2

LEMMA PartsAre ==
  BfsCoreTypes => \A part : Where(part) <=> \A u \in Parts : OneIf(PartSpots(u), part = u)
<1> SUFFICES ASSUME BfsCoreTypes, NEW part
             PROVE  Where(part) <=> \A u \in Parts : OneIf(PartSpots(u), part = u)
  OBVIOUS
<1>1. mainQ \in Seq(Row) /\ inQ \in Seq(Row) /\ line \in Seq(Row)
  BY LineRows DEF BfsCoreTypes
<1>2. /\ OneIf(Spots(mainQ), part = "main") <=> OneAt(mainQ, part = "main")
      /\ OneIf(Spots(inQ), part = "in") <=> OneAt(inQ, part = "in")
      /\ OneIf(Spots(line), part = "line") <=> OneAt(line, part = "line")
  BY <1>1, SpotFacts
<1>3. /\ OneIf(OutSpots, part = "out") <=> OneOut(outRow, part = "out")
      /\ OneIf(SwqSpots, part = "memory") <=> OneInMemory(swq, Moved, part = "memory")
      /\ OneIf(DueSpots, part = "asked") <=> OneAsks(Due, part = "asked")
  BY RowOutSpots, MemorySpots, AskSpots
<1>4. (\A u \in Parts : OneIf(PartSpots(u), part = u)) <=>
        /\ OneIf(Spots(mainQ), part = "main") /\ OneIf(Spots(inQ), part = "in")
        /\ OneIf(Spots(line), part = "line") /\ OneIf(OutSpots, part = "out")
        /\ OneIf(SwqSpots, part = "memory") /\ OneIf(DueSpots, part = "asked")
  BY DEF Parts, PartSpots
<1> QED
  BY <1>2, <1>3, <1>4 DEF Where

LEMMA PlacesAre ==
  BfsCoreTypes =>
    ((IF special = "open" THEN \E p \in Places : Places = {p} ELSE Places = {})
      <=> \E part \in Parts \cup {"none"} : Where(part) /\ (part # "none" <=> special = "open"))
<1> SUFFICES ASSUME BfsCoreTypes
             PROVE  (IF special = "open" THEN \E p \in Places : Places = {p} ELSE Places = {})
                      <=> \E part \in Parts \cup {"none"} :
                            Where(part) /\ (part # "none" <=> special = "open")
  OBVIOUS
<1>1. \A part : Where(part) <=> \A u \in Parts : OneIf(PartSpots(u), part = u)
  BY PartsAre
<1>2. \A p \in Places : p = <<p[1], p[2]>> /\ p[1] \in Parts /\ p[2] \in PartSpots(p[1])
  BY DEF Places, Parts, PartSpots
<1>3. \A u \in Parts : \A q \in PartSpots(u) : <<u, q>> \in Places
  <2>1. /\ \A q \in PartSpots("main") : <<"main", q>> \in Places
        /\ \A q \in PartSpots("in") : <<"in", q>> \in Places
        /\ \A q \in PartSpots("line") : <<"line", q>> \in Places
    BY DEF Places, PartSpots
  <2>2. /\ \A q \in PartSpots("out") : <<"out", q>> \in Places
        /\ \A q \in PartSpots("memory") : <<"memory", q>> \in Places
        /\ \A q \in PartSpots("asked") : <<"asked", q>> \in Places
    BY DEF Places, PartSpots
  <2> QED
    BY <2>1, <2>2 DEF Parts
<1> HIDE DEF Places, PartSpots, Parts
<1>4. "none" \notin Parts
  BY DEF Parts
<1>5. (Places = {}) <=> Where("none")
  <2>1. ASSUME Places = {} PROVE Where("none")
    <3>1. \A u \in Parts : PartSpots(u) = {}
      BY <1>3, <2>1
    <3> QED
      BY <1>1, <1>4, <3>1 DEF OneIf
  <2>2. ASSUME Where("none") PROVE Places = {}
    <3>1. \A u \in Parts : PartSpots(u) = {}
      BY <1>1, <1>4, <2>2 DEF OneIf
    <3> QED
      BY <1>2, <3>1
  <2> QED
    BY <2>1, <2>2
<1>6. (\E p \in Places : Places = {p}) <=> \E part \in Parts : Where(part)
  <2>1. ASSUME NEW p \in Places, Places = {p} PROVE \E part \in Parts : Where(part)
    <3>1. p = <<p[1], p[2]>> /\ p[1] \in Parts /\ p[2] \in PartSpots(p[1])
      BY <1>2
    <3>2. ASSUME NEW u \in Parts PROVE OneIf(PartSpots(u), p[1] = u)
      <4>1. \A q \in PartSpots(u) : u = p[1] /\ q = p[2]
        <5> TAKE q \in PartSpots(u)
        <5>1. <<u, q>> = p
          BY <1>3, <2>1
        <5> QED
          BY <5>1
      <4>2. CASE u = p[1]
        BY <3>1, <4>1, <4>2 DEF OneIf
      <4>3. CASE u # p[1]
        BY <4>1, <4>3 DEF OneIf
      <4> QED
        BY <4>2, <4>3
    <3> QED
      BY <1>1, <3>1, <3>2
  <2>2. ASSUME NEW part \in Parts, Where(part) PROVE \E p \in Places : Places = {p}
    <3>1. PICK q \in PartSpots(part) : PartSpots(part) = {q}
      BY <1>1, <2>2 DEF OneIf
    <3>2. \A u \in Parts : u # part => PartSpots(u) = {}
      BY <1>1, <2>2 DEF OneIf
    <3>3. <<part, q>> \in Places
      BY <1>3
    <3>4. \A p \in Places : p = <<part, q>>
      BY <1>2, <3>1, <3>2
    <3> QED
      BY <3>3, <3>4
  <2> QED
    BY <2>1, <2>2
<1> QED
  BY <1>4, <1>5, <1>6

-----------------------------------------------------------------------------
(* An edge of a search that goes on *)

Runs(start, root, ready, b) ==
  GoodState /\ GoodEdge(start, root, ready, b) /\ bstate # "IDLE" /\ ~Done(b)

Beat(b)       == b.kind # "none"
Spilling      == qstate \in {"INIT_SPILL", "SPILL"}
AskedNow(ready)  == IF DeqReq(ready) THEN <<[op |-> "mark", node |-> Dequeued]>>
                 ELSE IF qstate = "INIT_RESTORE" /\ ready THEN <<[op |-> "rd", node |-> Plain]>>
                 ELSE << >>
Written(ready) == IF Spilling /\ ready THEN Append(line, HeadRow) ELSE line
ToOut(root, b) == IF MainFull THEN Enq(root, b) ELSE << >>
Sees(root, b)  == \E i \in DOMAIN Enq(root, b) : Enq(root, b)[i] = Special

LEMMA RunEdge ==
  ASSUME NEW start, NEW root, NEW ready, NEW b, Runs(start, root, ready, b)
  PROVE  /\ start = FALSE /\ ready \in BOOLEAN /\ root \in Node /\ b \in BeatsDue \cup {NoBeat}
         /\ root = Special => bstate = "INIT"
         /\ Core(start, b) /\ InnerQueues(ready, Enq(root, b), b) /\ OutQueue(ready, ToOut(root, b))
         /\ Control(ready, b)
         /\ line' = IF SpillDone(ready, b) THEN << >> ELSE Written(ready)
         /\ swq' = IF SpillDone(ready, b) /\ qstate = "SPILL" THEN Append(swq, Written(ready))
                   ELSE IF SpillDone(ready, b) THEN Tail(swq) ELSE swq
         /\ asked' = (IF Beat(b) /\ dcBeat = LineBeats - 1 THEN Tail(asked) ELSE asked) \o AskedNow(ready)
         /\ special' = IF Header(b) /\ Head(asked).node = Special THEN "answered"
                       ELSE IF Sees(root, b) THEN "open" ELSE special
         /\ bstate = "ADD_NEIGHS" => Beat(b)
         /\ ToOut(root, b) # << >> => ~OutFull
<1>1. /\ start \in BOOLEAN /\ ready \in BOOLEAN /\ root \in Node /\ b \in BeatsDue \cup {NoBeat}
      /\ (start => bstate = "IDLE") /\ (root = Special => bstate = "INIT")
      /\ BfsEdge(start, root, ready, b) /\ bfsFault' = "none" /\ bstate # "IDLE" /\ ~Done(b)
  BY DEF Runs, GoodEdge
<1>2. start = FALSE
  BY <1>1
<1>3. /\ Core(start, b) /\ Queue(ready, Enq(root, b), b) /\ Cache(ready, b)
  BY <1>1 DEF BfsEdge
<1>4. special' = IF Header(b) /\ Head(asked).node = Special THEN "answered"
                 ELSE IF Sees(root, b) THEN "open" ELSE special
  BY <1>1, <1>2 DEF BfsEdge, Sees
<1>5. /\ bstate = "ADD_NEIGHS" => Beat(b)
      /\ Enq(root, b) # << >> /\ MainFull => ~OutFull
  <2>1. bfsFault' = IF start /\ asked # << >> THEN "late"
                    ELSE IF bstate = "ADD_NEIGHS" /\ b.kind = "none" THEN "gap"
                    ELSE IF Enq(root, b) # << >> /\ MainFull /\ OutFull /\ ~Done(b) THEN "overflow"
                    ELSE "none"
    BY <1>1 DEF BfsEdge
  <2>2. ~(bstate = "ADD_NEIGHS" /\ b.kind = "none")
    BY <1>1, <1>2, <2>1
  <2>3. ~(Enq(root, b) # << >> /\ MainFull /\ OutFull)
    BY <1>1, <1>2, <2>1, <2>2
  <2> QED
    BY <2>2, <2>3 DEF Beat
<1>6. /\ InnerQueues(ready, Enq(root, b), b) /\ OutQueue(ready, ToOut(root, b)) /\ Control(ready, b)
  BY <1>1, <1>3 DEF Queue, ToOut
<1>7. (SpillReq /\ OutDeq(ready)) <=> (Spilling /\ ready)
  BY DEF SpillReq, OutDeq, Spilling
<1>8. /\ line' = IF SpillDone(ready, b) THEN << >> ELSE Written(ready)
      /\ swq' = IF SpillDone(ready, b) /\ qstate = "SPILL" THEN Append(swq, Written(ready))
                ELSE IF SpillDone(ready, b) THEN Tail(swq) ELSE swq
  <2>1. Written(ready) = IF SpillReq /\ OutDeq(ready) THEN Append(line, HeadRow) ELSE line
    BY <1>7 DEF Written
  <2> QED
    BY <1>1, <1>3, <2>1 DEF Queue
<1>9. asked' = (IF Beat(b) /\ dcBeat = LineBeats - 1 THEN Tail(asked) ELSE asked) \o AskedNow(ready)
  BY <1>3 DEF Cache, Beat, AskedNow
<1>10. ToOut(root, b) # << >> => ~OutFull
  BY <1>5 DEF ToOut
<1> QED
  BY <1>1, <1>2, <1>3, <1>4, <1>5, <1>6, <1>8, <1>9, <1>10

\* What the beat may be in the states of the machine.
LEMMA RunBeat ==
  ASSUME NEW start, NEW root, NEW ready, NEW b, Runs(start, root, ready, b)
  PROVE  /\ b.kind \in {"none", "mark", "rd"} /\ b.new \in BOOLEAN /\ b.hit \in BOOLEAN
         /\ b.n \in 0 .. MaxNeighs /\ b.data \in Node \X Node
         /\ Beat(b) => asked # << >> /\ asked[1] = Head(asked) /\ b.kind = Head(asked).op
         /\ Beat(b) /\ qstate = "RESTORE" => b.kind = "rd" /\ b.data = Head(swq)[dcBeat + 1]
         /\ b.kind = "rd" => qstate = "RESTORE" /\ bstate = "NODE_HEADER"
         /\ bstate = "ADD_NEIGHS" => b.kind = "mark" /\ dcBeat >= 1
         /\ (Header(b) /\ Head(asked).node = Special) <=>
              (Beat(b) /\ dcBeat = 0 /\ Head(asked).node = Special)
<1>1. BfsCoreTypes /\ Restores /\ LineIsLongEnough /\ b \in BeatsDue \cup {NoBeat}
  BY RunEdge DEF Runs, GoodState
<1>2. /\ b.kind \in {"none", "mark", "rd"} /\ b.new \in BOOLEAN /\ b.hit \in BOOLEAN
      /\ b.n \in 0 .. MaxNeighs /\ b.data \in Node \X Node
      /\ b.kind # "none" => asked # << >> /\ asked[1] = Head(asked) /\ b.kind = Head(asked).op
      /\ b.kind = "rd" => b.data = Head(swq)[dcBeat + 1]
      /\ b.kind = "mark" /\ dcBeat = 0 /\ Head(asked).node = Special => b.new
  BY <1>1, BeatFacts
<1>3. /\ qstate = "RESTORE" => asked # << >> /\ asked[1].op = "rd" /\ bstate = "NODE_HEADER"
      /\ asked # << >> /\ asked[1].op = "rd" => qstate = "RESTORE" /\ asked[1].node = Plain
  <2>1. asked # << >> => 1 \in DOMAIN asked
    BY <1>1 DEF BfsCoreTypes
  <2> QED
    BY <1>1, <2>1 DEF Restores
<1>4. bstate = "ADD_NEIGHS" => asked[1].op = "mark" /\ dcBeat >= 1 /\ Beat(b)
  BY <1>1, RunEdge DEF LineIsLongEnough
<1>5. Beat(b) /\ Head(asked).node = Special => b.kind = "mark"
  <2>1. Plain # Special
    BY NodeFacts
  <2> QED
    BY <1>2, <1>3, <2>1 DEF Beat
<1>6. (Header(b) /\ Head(asked).node = Special) <=>
        (Beat(b) /\ dcBeat = 0 /\ Head(asked).node = Special)
  BY <1>2, <1>5 DEF Beat, Header
<1> QED
  BY <1>2, <1>3, <1>4, <1>6 DEF Beat

\* What the core enqueues: a row that holds Special at most once, and only if it was unseen.
LEMMA RunEnq ==
  ASSUME NEW start, NEW root, NEW ready, NEW b, Runs(start, root, ready, b)
  PROVE  LET enq == Enq(root, b)
         IN /\ enq = << >> \/ (enq \in Row /\ Single(enq))
            /\ enq # << >> /\ Holds(enq) => special = "unseen"
            /\ Sees(root, b) <=> (enq # << >> /\ Holds(enq))
<1> DEFINE enq == Enq(root, b)
           sees == \E i \in DOMAIN enq : enq[i] = Special
<1>0. SUFFICES /\ enq = << >> \/ (enq \in Row /\ Single(enq))
               /\ enq # << >> /\ Holds(enq) => special = "unseen"
               /\ sees <=> (enq # << >> /\ Holds(enq))
  BY DEF Sees
<1> USE NodeFacts
<1>1. /\ BfsCoreTypes /\ Restores /\ SearchStarts /\ b \in BeatsDue \cup {NoBeat} /\ root \in Node
      /\ bstate # "IDLE"
  BY RunEdge DEF Runs, GoodState
<1>2. /\ b.data \in Node \X Node /\ bstate = "ADD_NEIGHS" => b.kind = "mark"
  BY RunBeat
<1>3. b.kind = "mark" /\ Special \in {b.data[1], b.data[2]} =>
              /\ bstate = "ADD_NEIGHS" /\ special = "unseen"
              /\ b.data[1] = Special => b.data[2] = Plain
  BY <1>1, BeatFacts
<1>4. b.data[1] \in Node /\ b.data[2] \in Node /\ Len(b.data) = 2
  <2>1. b.data \in Node \X Node
    BY RunBeat
  <2> QED
    BY <2>1
<1>5. CASE bstate = "INIT"
  <2>1. enq = <<root>> /\ special = "unseen"
    BY <1>1, <1>5 DEF Enq, SearchStarts
  <2>2. enq \in Row /\ Len(enq) = 1 /\ enq[1] = root /\ DOMAIN enq = {1} /\ enq # << >>
    BY <1>1, <2>1 DEF Row
  <2> HIDE DEF enq
  <2>3. Single(enq) /\ (sees <=> Holds(enq))
    BY <2>2 DEF Single, Holds
  <2> QED
    BY <2>1, <2>2, <2>3 DEF enq
<1>6. CASE bstate = "NODE_HEADER"
  <2>1. enq = << >>
    BY <1>6 DEF Enq
  <2> QED
    BY <2>1
<1>7. CASE bstate = "ADD_NEIGHS"
  <2>0. b.kind = "mark"
    BY <1>7, RunBeat
  <2>1. CASE neighCt > 1
    <3>1. enq = b.data
      BY <1>7, <2>1 DEF Enq
    <3>2. enq \in Row /\ Len(enq) = 2 /\ DOMAIN enq = {1, 2} /\ enq # << >>
      <4>1. enq \in Node \X Node
        BY <3>1, RunBeat
      <4> QED
        BY <4>1 DEF Row
    <3>3. Single(enq) /\ (Holds(enq) => special = "unseen")
      <4> HIDE DEF enq
      <4>1. enq[1] = b.data[1] /\ enq[2] = b.data[2]
        BY <3>1
      <4> QED
        BY <1>3, <2>0, <4>1 DEF Single, Holds
    <3> HIDE DEF enq
    <3>4. sees <=> Holds(enq)
      BY <3>2 DEF Holds
    <3> QED
      BY <3>2, <3>3, <3>4 DEF enq
  <2>2. CASE ~(neighCt > 1)
    <3>1. enq = <<b.data[1]>>
      BY <1>7, <2>2 DEF Enq
    <3>2. enq \in Row /\ Len(enq) = 1 /\ enq[1] = b.data[1] /\ DOMAIN enq = {1} /\ enq # << >>
      BY <1>4, <3>1 DEF Row
    <3> HIDE DEF enq
    <3>3. /\ Single(enq) /\ (Holds(enq) => special = "unseen")
          /\ sees <=> Holds(enq)
      BY <1>3, <2>0, <3>2 DEF Single, Holds
    <3> QED
      BY <3>2, <3>3 DEF enq
  <2> QED
    BY <2>1, <2>2
<1> QED
  BY <1>1, <1>5, <1>6, <1>7 DEF BfsCoreTypes

\* What leaves the outgoing queue, and what enters the incoming one.
LEMMA RunTakes ==
  ASSUME NEW start, NEW root, NEW ready, NEW b, Runs(start, root, ready, b)
  PROVE  /\ OutTaken(ready) <=> OutDeq(ready)
         /\ Spilling => outHead # outTail /\ Held >= 1 /\ (OutDeq(ready) <=> ready)
         /\ qstate \notin {"CORE", "INIT_SPILL", "SPILL"} => ~OutDeq(ready)
         /\ OutTaken(ready) /\ ~OutFilled => ToOut(root, b) = << >>
         /\ LET row == InRow(ready, b)
            IN /\ row = << >> \/ row \in Row
               /\ row # << >> => Len(inQ) # BufRows
               /\ row # << >> <=>
                    (qstate = "CORE" /\ OutTaken(ready)) \/ (qstate = "RESTORE" /\ Beat(b))
               /\ qstate = "CORE" /\ OutTaken(ready) => (Holds(row) <=> GoesOut(ready))
               /\ qstate = "RESTORE" /\ Beat(b) => row = b.data
               /\ qstate = "CORE" /\ OutTaken(ready) =>
                    Single(row) \/ (HeadRow[1] = Special /\ HeadRow[2] = Special)
<1> USE NodeFacts, SizeFacts
<1>1. BfsCoreTypes /\ RowsAreLive /\ Spills /\ Restores /\ ready \in BOOLEAN
  BY RunEdge DEF Runs, GoodState
<1>2. /\ OutFilled <=> outHead # outTail
      /\ outHead # outTail => HeadRow \in Node \X Node /\ ~OutEmpty
      /\ outHead = outTail /\ ~OutEmpty => HeadRow[1] \in Node /\ HeadRow = <<HeadRow[1], NoNode>>
      /\ outHead \in OutRing!Ptrs /\ outTail \in OutRing!Ptrs /\ Held < BufRows
  BY <1>1, LiveRows DEF Held
<1>3. Held \in 0 .. BufRows - 1 /\ (Held = 0 <=> outHead = outTail)
  BY <1>2, RingFacts DEF Held
<1>4. Spilling => Len(line) <= LineBeats - 1 /\ Held >= LineBeats - Len(line) /\ Len(line) \in Nat
  <2>1. Len(line) \in Nat /\ ct \in 0 .. LineBeats - 1
    BY <1>1 DEF BfsCoreTypes
  <2>2. CASE qstate = "SPILL"
    BY <1>1, <2>1, <2>2 DEF Spills, Spilling
  <2>3. CASE qstate = "INIT_SPILL"
    <3>1. line = << >>
      BY <1>1, <2>3 DEF Spills
    <3> QED
      BY <1>1, <2>1, <2>3, <3>1 DEF Spills, Spilling
  <2> QED
    BY <2>2, <2>3 DEF Spilling
<1>5. Spilling => outHead # outTail /\ Held >= 1 /\ (OutDeq(ready) <=> ready)
  <2>1. Spilling => Held >= 1
    BY <1>3, <1>4
  <2>2. Spilling => (OutDeq(ready) <=> ready)
    BY DEF OutDeq, Spilling
  <2> QED
    BY <1>3, <2>1, <2>2
<1>6. qstate = "CORE" => (OutDeq(ready) <=> ~InFull /\ (OutFilled \/ SingleFinal))
  BY DEF OutDeq
<1>7. qstate \notin {"CORE", "INIT_SPILL", "SPILL"} => ~OutDeq(ready)
  BY DEF OutDeq
<1>8. OutDeq(ready) => ~OutEmpty
  <2>1. CASE Spilling
    BY <1>2, <1>5, <2>1
  <2>2. CASE qstate = "CORE"
    BY <1>2, <1>6, <2>2 DEF SingleFinal
  <2> QED
    BY <1>7, <2>1, <2>2 DEF Spilling
<1>9. OutTaken(ready) <=> OutDeq(ready)
  BY <1>8 DEF OutTaken
<1>10. SingleFinal => mainQ = << >> /\ ~OutFilled /\ ~OutEmpty
  BY DEF SingleFinal
<1>11. OutTaken(ready) /\ ~OutFilled => ToOut(root, b) = << >>
  <2> SUFFICES ASSUME OutTaken(ready), ~OutFilled PROVE ToOut(root, b) = << >>
    OBVIOUS
  <2>1. qstate = "CORE" /\ SingleFinal
    BY <1>2, <1>5, <1>6, <1>7, <1>9 DEF Spilling
  <2>2. ~MainFull
    BY <1>10, <2>1 DEF MainFull
  <2> QED
    BY <2>2 DEF ToOut
<1> DEFINE row == InRow(ready, b)
<1>12. b.data \in Node \X Node
  BY RunBeat
<1>13. CASE qstate = "CORE" /\ OutTaken(ready)
  <2>1. row = IF SingleFinal THEN <<HeadRow[1]>> ELSE HeadRow
    BY <1>9, <1>13 DEF InRow
  <2>2. Len(inQ) # BufRows
    BY <1>6, <1>9, <1>13 DEF InFull
  <2>3. CASE SingleFinal
    <3>1. HeadRow[1] \in Node /\ HeadRow[2] = NoNode
      BY <1>2, <1>10, <2>3
    <3>2. row = <<HeadRow[1]>> /\ row \in Row /\ Len(row) = 1 /\ row[1] = HeadRow[1] /\ row # << >>
      BY <2>1, <2>3, <3>1 DEF Row
    <3> HIDE DEF row
    <3>3. (Holds(row) <=> GoesOut(ready)) /\ Single(row)
      BY <1>13, <3>1, <3>2 DEF Holds, GoesOut, Single
    <3> QED
      BY <1>5, <1>7, <1>9, <1>11, <1>13, <2>2, <3>2, <3>3 DEF row
  <2>4. CASE ~SingleFinal
    <3>1. HeadRow \in Node \X Node
      BY <1>2, <1>6, <1>9, <1>13, <2>4
    <3>2. row = HeadRow /\ row \in Row /\ Len(row) = 2 /\ row # << >>
      BY <2>1, <2>4, <3>1 DEF Row
    <3> HIDE DEF row
    <3>3. (Holds(row) <=> GoesOut(ready)) /\ (Single(row) \/ (HeadRow[1] = Special /\ HeadRow[2] = Special))
      BY <1>13, <3>1, <3>2 DEF Holds, GoesOut, Single
    <3> QED
      BY <1>5, <1>7, <1>9, <1>11, <1>13, <2>2, <3>2, <3>3 DEF row
  <2> QED
    BY <2>3, <2>4
<1>14. CASE qstate = "RESTORE" /\ Beat(b)
  <2>1. row = b.data
    BY <1>14 DEF InRow, Beat
  <2>2. row \in Row /\ row # << >>
    BY <1>12, <2>1 DEF Row
  <2>3. Len(inQ) # BufRows
    <3>1. Len(inQ) <= dcBeat /\ dcBeat \in 0 .. LineBeats - 1 /\ Len(inQ) \in Nat
      BY <1>1, <1>14 DEF Restores, BfsCoreTypes
    <3> QED
      BY <3>1
  <2> QED
    BY <1>5, <1>7, <1>9, <1>11, <1>14, <2>1, <2>2, <2>3
<1>15. CASE ~(qstate = "CORE" /\ OutTaken(ready)) /\ ~(qstate = "RESTORE" /\ Beat(b))
  <2>1. row = << >>
    BY <1>9, <1>15 DEF InRow, Beat
  <2> QED
    BY <1>5, <1>7, <1>9, <1>11, <1>15, <2>1
<1> QED
  BY <1>13, <1>14, <1>15

-----------------------------------------------------------------------------
(* Where Special goes on such an edge *)

Entered(root, b) == Enq(root, b) # << >> /\ Holds(Enq(root, b))
FromMain(ready)  == DeqReq(ready) /\ mainQ # << >> /\ Head(mainQ)[1] = Special
FromIn(ready)    == DeqReq(ready) /\ mainQ = << >> /\ Head(inQ)[1] = Special
ReadBack(b)      == qstate = "RESTORE" /\ Beat(b) /\ Holds(b.data)
IsAnswered(b)      == Beat(b) /\ dcBeat = 0 /\ Head(asked).node = Special

\* The same edge, with Special in one part, or in none.
RunsFrom(start, root, ready, b, part) ==
  /\ Runs(start, root, ready, b) /\ Where(part) /\ part \in Parts \cup {"none"}
  /\ part # "none" <=> special = "open"

LEMMA FromFacts ==
  ASSUME NEW start, NEW root, NEW ready, NEW b, NEW part, RunsFrom(start, root, ready, b, part)
  PROVE  /\ Runs(start, root, ready, b)
         /\ BfsCoreTypes /\ RowsAreLive /\ SearchStarts /\ LineIsLongEnough /\ Spills /\ Restores
         /\ Entered(root, b) => part = "none"
         /\ OneAt(mainQ, part = "main") /\ OneAt(inQ, part = "in") /\ OneAt(line, part = "line")
         /\ OneOut(outRow, part = "out") /\ OneInMemory(swq, Moved, part = "memory")
         /\ OneAsks(Due, part = "asked")
<1>1. Runs(start, root, ready, b) /\ Where(part) /\ (part # "none" <=> special = "open")
  BY DEF RunsFrom
<1>2. Entered(root, b) => special = "unseen"
  BY <1>1, RunEnq DEF Entered
<1> QED
  BY <1>1, <1>2 DEF Where, Runs, GoodState

LEMMA RunMain ==
  ASSUME NEW start, NEW root, NEW ready, NEW b, NEW part, RunsFrom(start, root, ready, b, part)
  PROVE  /\ mainQ' \in Seq(Row)
         /\ FromMain(ready) => part = "main"
         /\ OneAt(mainQ', (part = "main" /\ ~FromMain(ready)) \/ (Entered(root, b) /\ ~MainFull))
         /\ Enq(root, b) = << >> => Len(mainQ') <= Len(mainQ)
<1> DEFINE enq == Enq(root, b)
           d == DeqReq(ready) /\ mainQ # << >>
           x == part = "main"
<1>1. /\ Runs(start, root, ready, b) /\ BfsCoreTypes /\ (Entered(root, b) => part = "none")
      /\ OneAt(mainQ, x)
  BY FromFacts
<1>2. mainQ \in Seq(Row) /\ d \in BOOLEAN /\ x \in BOOLEAN /\ (d => mainQ # << >>)
  BY <1>1 DEF BfsCoreTypes
<1>3. (enq # << >> => enq \in Row /\ Single(enq)) /\ ~(x /\ enq # << >> /\ Holds(enq))
  BY <1>1, RunEnq DEF Entered
<1>4. mainQ' = (IF d THEN Pop(mainQ) ELSE mainQ) \o RowIn(mainQ, MainRows, enq)
  <2>1. InnerQueues(ready, enq, b)
    BY <1>1, RunEdge
  <2> QED
    BY <2>1 DEF InnerQueues
<1>5. /\ (FromMain(ready) <=> d /\ Head(mainQ)[1] = Special) /\ (MainFull <=> Len(mainQ) = MainRows)
      /\ Entered(root, b) <=> enq # << >> /\ Holds(enq)
  BY DEF FromMain, MainFull, Entered
<1> HIDE DEF d, x, enq
<1>6. /\ mainQ' \in Seq(Row)
      /\ OneAt(mainQ', (x /\ ~(d /\ Head(mainQ)[1] = Special))
                         \/ ((enq # << >> /\ Len(mainQ) # MainRows) /\ Holds(enq)))
      /\ d /\ Head(mainQ)[1] = Special => x
      /\ enq = << >> => Len(mainQ') <= Len(mainQ)
  BY <1>1, <1>2, <1>3, <1>4, QueueSpots
<1>7. ((x /\ ~(d /\ Head(mainQ)[1] = Special)) \/ ((enq # << >> /\ Len(mainQ) # MainRows) /\ Holds(enq)))
       = ((x /\ ~FromMain(ready)) \/ (Entered(root, b) /\ ~MainFull))
  BY <1>5
<1>8. OneAt(mainQ', (x /\ ~FromMain(ready)) \/ (Entered(root, b) /\ ~MainFull))
  BY <1>6, <1>7
<1> QED
  BY <1>5, <1>6, <1>8 DEF x, enq

LEMMA RunIn ==
  ASSUME NEW start, NEW root, NEW ready, NEW b, NEW part, RunsFrom(start, root, ready, b, part),
         ReadBack(b) => part = "memory", GoesOut(ready) => part = "out",
         ~(qstate = "CORE" /\ OutTaken(ready) /\ HeadRow[1] = Special /\ HeadRow[2] = Special)
  PROVE  /\ inQ' \in Seq(Row)
         /\ FromIn(ready) => part = "in"
         /\ OneAt(inQ', (part = "in" /\ ~FromIn(ready)) \/ ReadBack(b)
                          \/ (qstate = "CORE" /\ GoesOut(ready)))
         /\ Len(inQ') <= Len(inQ) + 1 /\ Len(inQ') >= Len(inQ) - 1
         /\ ~(DeqReq(ready) /\ mainQ = << >>) => Len(inQ') >= Len(inQ)
         /\ ~(qstate = "CORE" /\ OutTaken(ready)) /\ ~(qstate = "RESTORE" /\ Beat(b)) => Len(inQ') <= Len(inQ)
<1> DEFINE row == InRow(ready, b)
           d == DeqReq(ready) /\ mainQ = << >>
           x == part = "in"
<1>1. Runs(start, root, ready, b) /\ BfsCoreTypes /\ OneAt(inQ, x)
  BY FromFacts
<1>2. inQ \in Seq(Row) /\ d \in BOOLEAN /\ x \in BOOLEAN /\ (d => inQ # << >>)
  BY <1>1 DEF BfsCoreTypes, DeqReq
<1>3. /\ row = << >> \/ row \in Row
      /\ row # << >> => Len(inQ) # BufRows
      /\ row # << >> <=> (qstate = "CORE" /\ OutTaken(ready)) \/ (qstate = "RESTORE" /\ Beat(b))
      /\ qstate = "CORE" /\ OutTaken(ready) => (Holds(row) <=> GoesOut(ready))
      /\ qstate = "RESTORE" /\ Beat(b) => row = b.data
      /\ qstate = "CORE" /\ OutTaken(ready) =>
           Single(row) \/ (HeadRow[1] = Special /\ HeadRow[2] = Special)
  BY <1>1, RunTakes
<1>4. qstate = "RESTORE" /\ Beat(b) => Single(row)
  <2> SUFFICES ASSUME qstate = "RESTORE", Beat(b) PROVE Single(row)
    OBVIOUS
  <2>1. row = Head(swq)[dcBeat + 1]
    BY <1>1, <1>3, RunBeat
  <2>2. OneInMemory(swq, dcBeat, part = "memory") /\ swq # << >>
    BY FromFacts DEF Moved, Restores
  <2>3. swq \in Seq(Lines) /\ dcBeat \in 0 .. LineBeats - 1 /\ (part = "memory") \in BOOLEAN
    BY <1>1 DEF BfsCoreTypes, Lines
  <2> HIDE DEF row
  <2> QED
    BY <2>1, <2>2, <2>3, ReadSpots
<1>5. GoesOut(ready) => OutTaken(ready)
  BY DEF GoesOut
<1>6. (row # << >> /\ Holds(row)) <=> ReadBack(b) \/ (qstate = "CORE" /\ GoesOut(ready))
  BY <1>3, <1>5 DEF ReadBack
<1>7. (row # << >> => row \in Row /\ Single(row)) /\ ~(x /\ row # << >> /\ Holds(row))
  BY <1>3, <1>4, <1>6
<1>8. inQ' = (IF d THEN Pop(inQ) ELSE inQ) \o RowIn(inQ, BufRows, row)
  <2>1. InnerQueues(ready, Enq(root, b), b)
    BY <1>1, RunEdge
  <2> QED
    BY <2>1 DEF InnerQueues
<1>9. FromIn(ready) <=> d /\ Head(inQ)[1] = Special
  BY DEF FromIn
<1> HIDE DEF d, x, row
<1>10. /\ inQ' \in Seq(Row)
       /\ OneAt(inQ', (x /\ ~(d /\ Head(inQ)[1] = Special))
                          \/ ((row # << >> /\ Len(inQ) # BufRows) /\ Holds(row)))
       /\ d /\ Head(inQ)[1] = Special => x
       /\ Len(inQ') <= Len(inQ) + 1 /\ Len(inQ') >= Len(inQ) - 1
       /\ ~d => Len(inQ') >= Len(inQ)
       /\ row = << >> => Len(inQ') <= Len(inQ)
  BY <1>1, <1>2, <1>7, <1>8, QueueSpots
<1>11. ((x /\ ~(d /\ Head(inQ)[1] = Special)) \/ ((row # << >> /\ Len(inQ) # BufRows) /\ Holds(row)))
       = ((x /\ ~FromIn(ready)) \/ ReadBack(b) \/ (qstate = "CORE" /\ GoesOut(ready)))
  BY <1>3, <1>6, <1>9
<1>12. OneAt(inQ', (x /\ ~FromIn(ready)) \/ ReadBack(b) \/ (qstate = "CORE" /\ GoesOut(ready)))
  BY <1>10, <1>11
<1>13. ~(qstate = "CORE" /\ OutTaken(ready)) /\ ~(qstate = "RESTORE" /\ Beat(b)) => Len(inQ') <= Len(inQ)
  BY <1>3, <1>10
<1> QED
  BY <1>9, <1>10, <1>12, <1>13 DEF x, d

LEMMA RunOut ==
  ASSUME NEW start, NEW root, NEW ready, NEW b, NEW part, RunsFrom(start, root, ready, b, part)
  PROVE  /\ outHead' \in OutRing!Ptrs /\ outTail' \in OutRing!Ptrs
         /\ RowsAre(OutRing!Slots, OutRing!Live(outHead', outTail'), OutRing!Idx(outTail'), outRow')
         /\ Held' < BufRows /\ Held' >= Held - 1 /\ (~OutTaken(ready) => Held' >= Held)
         /\ GoesOut(ready) => part = "out"
         /\ OneOut(outRow', (part = "out" /\ ~GoesOut(ready)) \/ (Entered(root, b) /\ MainFull))
         /\ ToOut(root, b) = << >> /\ ~OutTaken(ready) => UNCHANGED <<outHead, outTail, outRow>>
         /\ ~(OutTaken(ready) /\ HeadRow[1] = Special /\ HeadRow[2] = Special)
<1> DEFINE e == ToOut(root, b)
           x == part = "out"
           y == e # << >> /\ Holds(e)
<1>1. /\ Runs(start, root, ready, b) /\ BfsCoreTypes /\ RowsAreLive
      /\ Entered(root, b) => part = "none"
      /\ OneOut(outRow, x)
  BY FromFacts
<1>2. /\ ready \in BOOLEAN /\ OutQueue(ready, e) /\ (e # << >> => ~OutFull)
      /\ OutTaken(ready) /\ ~OutFilled => e = << >>
  <2>1. ready \in BOOLEAN /\ OutQueue(ready, e)
    BY <1>1, RunEdge
  <2>2. ASSUME e # << >> PROVE ~OutFull
    <3>1. Runs(start, root, ready, b)
      BY <1>1
    <3> QED
      BY <2>2, <3>1, RunEdge
  <2>3. OutTaken(ready) /\ ~OutFilled => e = << >>
    BY <1>1, RunTakes
  <2> QED
    BY <2>1, <2>2, <2>3
<1>3. (e = << >> \/ (e \in Row /\ Single(e))) /\ (y <=> Entered(root, b) /\ MainFull)
  <2>1. Enq(root, b) = << >> \/ (Enq(root, b) \in Row /\ Single(Enq(root, b)))
    BY <1>1, RunEnq
  <2> QED
    BY <2>1 DEF ToOut, Entered
<1>4. x \in BOOLEAN /\ ~(x /\ e # << >> /\ Holds(e))
  BY <1>1, <1>3
<1> HIDE DEF x, e
<1>5. /\ outHead' \in OutRing!Ptrs /\ outTail' \in OutRing!Ptrs
      /\ RowsAre(OutRing!Slots, OutRing!Live(outHead', outTail'), OutRing!Idx(outTail'), outRow')
      /\ OutRing!Dist(outHead', outTail') < BufRows
      /\ OutRing!Dist(outHead', outTail') >= Held - 1
      /\ ~OutTaken(ready) => OutRing!Dist(outHead', outTail') >= Held
      /\ \A v \in BOOLEAN :
           OneOut(outRow, v) /\ (e # << >> => Single(e)) /\ ~(v /\ e # << >> /\ Holds(e)) =>
             /\ GoesOut(ready) => v
             /\ OneOut(outRow', (v /\ ~GoesOut(ready)) \/ (e # << >> /\ Holds(e)))
      /\ e = << >> /\ ~OutTaken(ready) => UNCHANGED <<outHead, outTail, outRow>>
  BY <1>1, <1>2, <1>3, OutStep
<1>6. /\ GoesOut(ready) => x
      /\ OneOut(outRow', (x /\ ~GoesOut(ready)) \/ (e # << >> /\ Holds(e)))
  BY <1>1, <1>3, <1>4, <1>5
<1>7. ((x /\ ~GoesOut(ready)) \/ (e # << >> /\ Holds(e)))
       = ((x /\ ~GoesOut(ready)) \/ (Entered(root, b) /\ MainFull))
  BY <1>3
<1>8. OneOut(outRow', (x /\ ~GoesOut(ready)) \/ (Entered(root, b) /\ MainFull))
  BY <1>6, <1>7
<1>9. ~(OutTaken(ready) /\ HeadRow[1] = Special /\ HeadRow[2] = Special)
  <2> SUFFICES ASSUME HeadRow[1] = Special, HeadRow[2] = Special PROVE FALSE
    OBVIOUS
  <2>1. OutRing!Idx(outHead) \in DOMAIN outRow
    <3>1. OutRing!Idx(outHead) \in OutRing!Slots
      BY <1>1, LiveRows, RingFacts
    <3> QED
      BY <1>1, <3>1 DEF BfsCoreTypes
  <2>2. OutAt(outRow, OutRing!Idx(outHead), 1) /\ OutAt(outRow, OutRing!Idx(outHead), 2)
    BY <2>1 DEF OutAt, HeadRow
  <2> QED
    BY <1>1, <2>2 DEF OneOut
<1>10. Held' = OutRing!Dist(outHead', outTail')
  BY DEF Held
<1> QED
  BY <1>5, <1>6, <1>8, <1>9, <1>10 DEF x, e

\* What is in the line and in memory.
LEMMA RunLine ==
  ASSUME NEW start, NEW root, NEW ready, NEW b, NEW part, RunsFrom(start, root, ready, b, part)
  PROVE  LET full == SpillDone(ready, b) /\ qstate = "SPILL"
             held == part = "line" \/ (Spilling /\ GoesOut(ready))
         IN /\ Written(ready) \in Seq(Node \X Node)
            /\ OneAt(Written(ready), held)
            /\ Len(Written(ready)) = Len(line) + (IF Spilling /\ ready THEN 1 ELSE 0)
            /\ full => Len(Written(ready)) = LineBeats
            /\ line' \in Seq(Node \X Node)
            /\ OneAt(line', held /\ ~full)
<1> USE SizeFacts
<1> DEFINE full == SpillDone(ready, b) /\ qstate = "SPILL"
           held == part = "line" \/ (Spilling /\ GoesOut(ready))
           w == Written(ready)
           x == part = "line"
<1>1. /\ Runs(start, root, ready, b) /\ BfsCoreTypes /\ RowsAreLive /\ Spills
      /\ OneAt(line, x)
  BY FromFacts
<1>2. /\ OutTaken(ready) <=> OutDeq(ready)
      /\ Spilling => outHead # outTail /\ (OutDeq(ready) <=> ready)
  BY <1>1, RunTakes
<1>3. /\ Spilling => HeadRow \in Node \X Node
      /\ ~(OutTaken(ready) /\ HeadRow[1] = Special /\ HeadRow[2] = Special)
      /\ GoesOut(ready) => part = "out"
  BY <1>1, <1>2, LiveRows, RunOut
<1>4. line \in Seq(Node \X Node) /\ Len(line) \in Nat
  BY <1>1 DEF BfsCoreTypes
<1>5. /\ w \in Seq(Node \X Node) /\ OneAt(w, held)
      /\ Len(w) = Len(line) + (IF Spilling /\ ready THEN 1 ELSE 0)
  <2>1. CASE Spilling /\ ready
    <3>1. HeadRow \in Row /\ HeadRow \in Node \X Node /\ Len(HeadRow) = 2 /\ Single(HeadRow)
      BY <1>2, <1>3, <2>1 DEF Row, Single
    <3>2. w = Append(line, HeadRow) /\ w = line \o <<HeadRow>>
      BY <1>4, <2>1, <3>1 DEF Written
    <3>3. <<HeadRow>> \in Seq(Row) /\ line \in Seq(Row)
      BY <1>4, <3>1, LineRows
    <3>4. OneAt(<<HeadRow>>, Holds(HeadRow)) /\ Holds(HeadRow) \in BOOLEAN
      BY <3>1, RowSpots DEF Holds
    <3>5. (Holds(HeadRow) <=> Spilling /\ GoesOut(ready)) /\ ~(x /\ Holds(HeadRow))
      BY <1>2, <1>3, <2>1, <3>1 DEF Holds, GoesOut
    <3>6. OneAt(w, x \/ Holds(HeadRow))
      <4> DEFINE y == Holds(HeadRow)
                 r == <<HeadRow>>
      <4>1. x \in BOOLEAN /\ y \in BOOLEAN /\ r \in Seq(Row) /\ OneAt(r, y) /\ ~(x /\ y)
        BY <3>3, <3>4, <3>5
      <4> HIDE DEF x, w, y, r
      <4>2. OneAt(line \o r, x \/ y)
        BY <1>1, <3>3, <4>1, CatSpots
      <4> QED
        BY <3>2, <4>2 DEF y, r
    <3>7. (x \/ Holds(HeadRow)) = held
      BY <3>4, <3>5
    <3>8. OneAt(w, held)
      BY <3>6, <3>7
    <3> HIDE DEF held, w
    <3>9. w \in Seq(Node \X Node) /\ Len(w) = Len(line) + 1
      <4> DEFINE S == Node \X Node
      <4> HIDE DEF S
      <4>1. line \in Seq(S) /\ HeadRow \in S
        BY <1>4, <3>1 DEF S
      <4>2. w \in Seq(S) /\ Len(w) = Len(line) + 1
        BY <3>2, <4>1
      <4> QED
        BY <4>2 DEF S
    <3> QED
      BY <2>1, <3>8, <3>9
  <2>2. CASE ~(Spilling /\ ready)
    <3>1. w = line
      BY <2>2 DEF Written
    <3>2. held = x
      BY <1>2, <2>2 DEF GoesOut, OutTaken
    <3> HIDE DEF held, x, w
    <3> QED
      BY <1>1, <1>4, <2>2, <3>1, <3>2
  <2> QED
    BY <2>1, <2>2
<1>6. full => Len(w) = LineBeats
  <2> SUFFICES ASSUME full PROVE Len(w) = LineBeats
    OBVIOUS
  <2>1. ready /\ ct = 0 /\ qstate = "SPILL"
    BY DEF SpillDone, Moves
  <2>2. Len(line) = LineBeats - 1 - ct
    BY <1>1, <2>1 DEF Spills
  <2>3. Spilling /\ ready
    BY <2>1 DEF Spilling
  <2> HIDE DEF w
  <2> QED
    BY <1>4, <1>5, <2>1, <2>2, <2>3
<1>7. line' \in Seq(Node \X Node) /\ OneAt(line', held /\ ~full)
  <2>1. line' = IF SpillDone(ready, b) THEN << >> ELSE w
    BY <1>1, RunEdge
  <2>2. SpillDone(ready, b) /\ ~full => ~held
    <3> SUFFICES ASSUME SpillDone(ready, b), ~full PROVE ~held
      OBVIOUS
    <3>1. qstate = "RESTORE" /\ line = << >>
      BY <1>1 DEF SpillDone, Moves, Spills
    <3>2. ~x
      <4>1. ~x \/ \E i, j : At(line, i, j)
        BY <1>1 DEF OneAt
      <4> QED
        BY <3>1, <4>1 DEF At
    <3> QED
      BY <3>1, <3>2 DEF Spilling
  <2>3. CASE SpillDone(ready, b)
    <3>1. line' = << >> /\ (held /\ ~full) = FALSE
      BY <2>1, <2>2, <2>3
    <3>2. OneAt(line', FALSE)
      BY <3>1 DEF OneAt, At
    <3> DEFINE z == held /\ ~full
    <3> HIDE DEF z
    <3>3. z = FALSE /\ line' = << >>
      BY <3>1 DEF z
    <3>4. OneAt(line', z)
      BY <3>2, <3>3
    <3> QED
      BY <3>3, <3>4 DEF z
  <2>4. CASE ~SpillDone(ready, b)
    <3>1. line' = w /\ (held /\ ~full) = held
      BY <2>1, <2>4
    <3> HIDE DEF w, held, full
    <3> QED
      BY <1>5, <3>1
  <2> QED
    BY <2>3, <2>4
<1> HIDE DEF w, held, full
<1>8. /\ w \in Seq(Node \X Node) /\ OneAt(w, held)
      /\ Len(w) = Len(line) + (IF Spilling /\ ready THEN 1 ELSE 0)
      /\ full => Len(w) = LineBeats
      /\ line' \in Seq(Node \X Node) /\ OneAt(line', held /\ ~full)
  BY <1>5, <1>6, <1>7
<1> QED
  BY <1>8 DEF w, held, full

\* The states of spilling and restoring.
LEMMA RunControl ==
  ASSUME NEW start, NEW root, NEW ready, NEW b, Runs(start, root, ready, b)
  PROVE  /\ dcBeat' = IF ~Beat(b) THEN dcBeat ELSE IF dcBeat = LineBeats - 1 THEN 0 ELSE dcBeat + 1
         /\ qstate = "CORE" =>
              /\ qstate' = IF OutSat /\ InFull THEN "INIT_SPILL"
                           ELSE IF PendEmpty THEN "INIT_RESTORE" ELSE "CORE"
              /\ ct' = ct /\ ~SpillDone(ready, b)
         /\ qstate = "INIT_SPILL" =>
              /\ qstate' = IF ready THEN "SPILL" ELSE "INIT_SPILL"
              /\ ct' = LineBeats - 2 /\ ~SpillDone(ready, b)
         /\ qstate = "INIT_RESTORE" =>
              /\ qstate' = IF ready THEN "RESTORE" ELSE "INIT_RESTORE"
              /\ ct' = LineBeats - 1 /\ ~SpillDone(ready, b)
              /\ asked = << >> /\ dcBeat = 0 /\ ~Beat(b)
         /\ qstate = "SPILL" =>
              /\ qstate' = IF SpillDone(ready, b) THEN "CORE" ELSE "SPILL"
              /\ ct' = IF ready /\ ct > 0 THEN ct - 1 ELSE ct
              /\ SpillDone(ready, b) <=> ready /\ ct = 0
         /\ qstate = "RESTORE" =>
              /\ qstate' = IF SpillDone(ready, b) THEN "CORE" ELSE "RESTORE"
              /\ ct' = IF Beat(b) /\ ct > 0 THEN ct - 1 ELSE ct
              /\ SpillDone(ready, b) <=> Beat(b) /\ dcBeat = LineBeats - 1
<1>1. BfsCoreTypes /\ Restores /\ LineIsLongEnough
  BY DEF Runs, GoodState
<1>2. Core(start, b) /\ Control(ready, b)
  BY RunEdge
<1>3. dcBeat \in 0 .. LineBeats - 1 /\ ct \in 0 .. LineBeats - 1
  BY <1>1 DEF BfsCoreTypes
<1>4. dcBeat' = IF ~Beat(b) THEN dcBeat ELSE IF dcBeat = LineBeats - 1 THEN 0 ELSE dcBeat + 1
  <2>1. dcBeat' = IF b.kind = "none" THEN dcBeat ELSE (dcBeat + 1) % LineBeats
    BY <1>2 DEF Core
  <2> QED
    BY <1>3, <2>1, NextBeat DEF Beat
<1>5. /\ qstate' =
           CASE qstate = "CORE"         -> IF OutSat /\ InFull THEN "INIT_SPILL"
                                           ELSE IF PendEmpty THEN "INIT_RESTORE" ELSE "CORE"
             [] qstate = "INIT_SPILL"   -> IF ready THEN "SPILL" ELSE "INIT_SPILL"
             [] qstate = "INIT_RESTORE" -> IF ready THEN "RESTORE" ELSE "INIT_RESTORE"
             [] qstate \in {"SPILL", "RESTORE"} -> IF SpillDone(ready, b) THEN "CORE" ELSE qstate
      /\ ct' = CASE qstate = "INIT_SPILL"   -> LineBeats - 2
                 [] qstate = "INIT_RESTORE" -> LineBeats - 1
                 [] Moves(ready, b) /\ ct > 0 -> ct - 1
                 [] OTHER                     -> ct
  BY <1>2 DEF Control
<1>6. CASE qstate = "CORE"
  <2>1. ~Moves(ready, b) /\ ~SpillDone(ready, b)
    BY <1>6 DEF Moves, SpillDone
  <2> QED
    BY <1>4, <1>5, <1>6, <2>1
<1>7. CASE qstate = "INIT_SPILL"
  <2>1. ~Moves(ready, b) /\ ~SpillDone(ready, b)
    BY <1>7 DEF Moves, SpillDone
  <2> QED
    BY <1>4, <1>5, <1>7, <2>1
<1>8. CASE qstate = "INIT_RESTORE"
  <2>1. ~Moves(ready, b) /\ ~SpillDone(ready, b)
    BY <1>8 DEF Moves, SpillDone
  <2>2. asked = << >> /\ dcBeat = 0
    BY <1>1, <1>8 DEF Restores, PendEmpty, RbufEmpty, LineIsLongEnough
  <2>3. ~Beat(b)
    BY <2>2, RunBeat
  <2> QED
    BY <1>4, <1>5, <1>8, <2>1, <2>2, <2>3
<1>9. CASE qstate = "SPILL"
  <2>1. (Moves(ready, b) <=> ready) /\ (SpillDone(ready, b) <=> ready /\ ct = 0)
    <3>1. ready \in BOOLEAN
      BY RunEdge
    <3> QED
      BY <1>9, <3>1 DEF Moves, SpillDone
  <2>2. ct' = IF ready /\ ct > 0 THEN ct - 1 ELSE ct
    BY <1>5, <1>9, <2>1
  <2>3. qstate' = IF SpillDone(ready, b) THEN "CORE" ELSE "SPILL"
    BY <1>5, <1>9
  <2> QED
    BY <1>4, <1>9, <2>1, <2>2, <2>3
<1>10. CASE qstate = "RESTORE"
  <2>1. (Moves(ready, b) <=> Beat(b)) /\ (SpillDone(ready, b) <=> Beat(b) /\ ct = 0)
    BY <1>10 DEF Moves, SpillDone, Beat
  <2>2. ct = 0 <=> dcBeat = LineBeats - 1
    <3>1. ct = LineBeats - 1 - dcBeat
      BY <1>1, <1>10 DEF Restores
    <3> QED
      BY <1>3, <3>1, SizeFacts
  <2>3. ct' = IF Beat(b) /\ ct > 0 THEN ct - 1 ELSE ct
    BY <1>5, <1>10, <2>1
  <2>4. qstate' = IF SpillDone(ready, b) THEN "CORE" ELSE "RESTORE"
    BY <1>5, <1>10
  <2> QED
    BY <1>4, <1>10, <2>1, <2>2, <2>3, <2>4
<1> QED
  BY <1>1, <1>6, <1>7, <1>8, <1>9, <1>10 DEF BfsCoreTypes

LEMMA RunMemory ==
  ASSUME NEW start, NEW root, NEW ready, NEW b, NEW part, RunsFrom(start, root, ready, b, part)
  PROVE  LET full == SpillDone(ready, b) /\ qstate = "SPILL"
             held == part = "line" \/ (Spilling /\ GoesOut(ready))
         IN /\ swq' \in Seq(Lines)
            /\ ReadBack(b) => part = "memory"
            /\ OneInMemory(swq', Moved', (part = "memory" /\ ~ReadBack(b)) \/ (full /\ held))
<1> USE SizeFacts
<1> DEFINE full == SpillDone(ready, b) /\ qstate = "SPILL"
           held == part = "line" \/ (Spilling /\ GoesOut(ready))
           x == part = "memory"
           w == Written(ready)
<1>1. /\ Runs(start, root, ready, b) /\ BfsCoreTypes /\ Restores /\ OneInMemory(swq, Moved, x)
  BY FromFacts
<1>2. swq \in Seq(Lines) /\ dcBeat \in 0 .. LineBeats - 1 /\ x \in BOOLEAN
  BY <1>1 DEF BfsCoreTypes, Lines
<1>3. swq' = IF full THEN Append(swq, w) ELSE IF SpillDone(ready, b) THEN Tail(swq) ELSE swq
  <2>1. swq' = IF SpillDone(ready, b) /\ qstate = "SPILL" THEN Append(swq, Written(ready))
               ELSE IF SpillDone(ready, b) THEN Tail(swq) ELSE swq
    BY <1>1, RunEdge
  <2> QED
    BY <2>1
<1>4. Moved' = IF qstate' = "RESTORE" THEN dcBeat' ELSE 0
  BY DEF Moved
<1>5. CASE qstate = "RESTORE" /\ Beat(b)
  <2> DEFINE row == Head(swq)[dcBeat + 1]
  <2>1. swq # << >> /\ Moved = dcBeat
    BY <1>1, <1>5 DEF Restores, Moved
  <2>2. b.data = row
    BY <1>1, <1>5, RunBeat
  <2>3. /\ Holds(row) => x
        /\ OneInMemory(swq, dcBeat + 1, x /\ ~Holds(row))
    <3>1. OneInMemory(swq, dcBeat, x)
      BY <1>1, <2>1
    <3> HIDE DEF x
    <3> QED
      BY <1>2, <2>1, <3>1, ReadSpots
  <2>4. (ReadBack(b) <=> Holds(row)) /\ ~full
    BY <1>5, <2>2 DEF ReadBack
  <2> HIDE DEF row
  <2> DEFINE z == x /\ ~Holds(row)
  <2>5. z = ((x /\ ~ReadBack(b)) \/ (full /\ held)) /\ z \in BOOLEAN /\ OneInMemory(swq, dcBeat + 1, z)
    BY <2>3, <2>4
  <2>6. CASE dcBeat = LineBeats - 1
    <3>1. SpillDone(ready, b) /\ qstate' = "CORE"
      BY <1>1, <1>5, <2>6, RunControl
    <3>2. swq' = Tail(swq) /\ Moved' = 0
      BY <1>3, <1>4, <2>4, <3>1
    <3> HIDE DEF z
    <3>3. OneInMemory(swq, LineBeats, z)
      BY <2>5, <2>6
    <3>4. Tail(swq) \in Seq(Lines) /\ OneInMemory(Tail(swq), 0, z)
      BY <1>2, <2>1, <2>5, <3>3, ReadLineSpots
    <3>5. swq' \in Seq(Lines) /\ OneInMemory(swq', Moved', z)
      BY <3>2, <3>4
    <3> QED
      BY <2>3, <2>4, <2>5, <3>5
  <2>7. CASE dcBeat # LineBeats - 1
    <3>1. ~SpillDone(ready, b) /\ qstate' = "RESTORE" /\ dcBeat' = dcBeat + 1
      BY <1>1, <1>5, <2>7, RunControl
    <3>2. swq' = swq /\ Moved' = dcBeat + 1
      BY <1>3, <1>4, <2>4, <3>1
    <3> HIDE DEF z
    <3>3. swq' \in Seq(Lines) /\ OneInMemory(swq', Moved', z)
      BY <1>2, <2>5, <3>2
    <3> QED
      BY <2>3, <2>4, <2>5, <3>3
  <2> QED
    BY <2>6, <2>7
<1>6. CASE full
  <2>1. qstate = "SPILL" /\ SpillDone(ready, b) /\ qstate' = "CORE" /\ ~ReadBack(b)
    BY <1>1, <1>6, RunControl DEF ReadBack
  <2>2. swq' = Append(swq, w) /\ Moved' = 0 /\ Moved = 0
    BY <1>3, <1>4, <1>6, <2>1 DEF Moved
  <2>3. w \in Seq(Node \X Node) /\ Len(w) = LineBeats /\ OneAt(w, held)
    BY <1>6, RunLine
  <2>4. ~(x /\ held)
    <3>1. GoesOut(ready) => part = "out"
      BY RunOut
    <3> QED
      BY <3>1
  <2>5. held \in BOOLEAN /\ OneInMemory(swq, 0, x)
    BY <1>1, <2>2
  <2> HIDE DEF x, held, w
  <2>6. Append(swq, w) \in Seq(Lines) /\ OneInMemory(Append(swq, w), 0, x \/ held)
    BY <1>2, <2>3, <2>4, <2>5, WrittenSpots
  <2> DEFINE z == x \/ held
  <2>7. z = ((x /\ ~ReadBack(b)) \/ (full /\ held))
    BY <1>2, <1>6, <2>1, <2>5
  <2> HIDE DEF z
  <2>8. swq' \in Seq(Lines) /\ OneInMemory(swq', Moved', z)
    BY <2>2, <2>6 DEF z
  <2> QED
    BY <2>1, <2>7, <2>8 DEF x, held
<1>7. CASE ~full /\ ~(qstate = "RESTORE" /\ Beat(b))
  <2>1. ~SpillDone(ready, b) /\ ~ReadBack(b)
    BY <1>7 DEF SpillDone, Moves, ReadBack, Beat
  <2>2. swq' = swq
    BY <1>3, <1>7, <2>1
  <2>3. Moved' = Moved
    <3>1. CASE qstate = "RESTORE"
      BY <1>1, <1>4, <1>7, <2>1, <3>1, RunControl DEF Moved
    <3>2. CASE qstate = "INIT_RESTORE"
      BY <1>1, <1>4, <3>2, RunControl DEF Moved
    <3>3. CASE qstate \in {"CORE", "INIT_SPILL", "SPILL"}
      <4>1. qstate' # "RESTORE"
        BY <1>1, <3>3, RunControl
      <4> QED
        BY <1>4, <3>3, <4>1 DEF Moved
    <3> QED
      BY <1>1, <3>1, <3>2, <3>3 DEF BfsCoreTypes
  <2> DEFINE z == (x /\ ~ReadBack(b)) \/ (full /\ held)
  <2>4. z = x
    BY <1>7, <2>1
  <2> HIDE DEF z
  <2>5. swq' \in Seq(Lines) /\ OneInMemory(swq', Moved', z)
    BY <1>1, <1>2, <2>2, <2>3, <2>4
  <2> QED
    BY <2>1, <2>5 DEF z
<1> QED
  BY <1>5, <1>6, <1>7

\* What is asked for, and what has been answered.
LEMMA RunAsked ==
  ASSUME NEW start, NEW root, NEW ready, NEW b, NEW part, RunsFrom(start, root, ready, b, part)
  PROVE  /\ AskedNow(ready) \in Seq(Requests) /\ Len(AskedNow(ready)) \in {0, 1}
         /\ AskedNow(ready) # << >> => AskedNow(ready)[1].op = "mark" \/ qstate = "INIT_RESTORE"
         /\ AskedNow(ready) # << >> /\ AskedNow(ready)[1].op = "rd" => AskedNow(ready)[1].node = Plain
         /\ OneAsks(AskedNow(ready), FromMain(ready) \/ FromIn(ready))
<1> USE NodeFacts
<1> DEFINE r == AskedNow(ready)
           f == FromMain(ready) \/ FromIn(ready)
<1>1. BfsCoreTypes
  BY FromFacts
<1>2. CASE DeqReq(ready)
  <2>1. r = <<[op |-> "mark", node |-> Dequeued]>>
    BY <1>2 DEF AskedNow
  <2>2. Dequeued \in Node /\ (f <=> Dequeued = Special)
    <3>1. CASE mainQ # << >>
      <4>1. Head(mainQ)[1] \in Node
        BY <1>1, <3>1, PopFacts DEF BfsCoreTypes
      <4> QED
        BY <1>2, <3>1, <4>1 DEF Dequeued, FromMain, FromIn
    <3>2. CASE mainQ = << >>
      <4>1. inQ # << >> /\ inQ \in Seq(Row)
        BY <1>1, <1>2, <3>2 DEF DeqReq, BfsCoreTypes
      <4>2. Head(inQ)[1] \in Node
        BY <4>1, PopFacts
      <4> QED
        BY <1>2, <3>2, <4>2 DEF Dequeued, FromMain, FromIn
    <3> QED
      BY <3>1, <3>2
  <2>3. r \in Seq(Requests) /\ Len(r) = 1 /\ r[1].op = "mark" /\ r[1].node = Dequeued
    BY <2>1, <2>2 DEF Requests
  <2> HIDE DEF r, f
  <2>4. \A i : Asks(r, i) <=> i = 1 /\ f
    BY <2>2, <2>3 DEF Asks
  <2>5. OneAsks(r, f)
    <3>1. f \in BOOLEAN
      BY DEF f, FromMain, FromIn
    <3>2. CASE f
      BY <2>4, <3>2 DEF OneAsks
    <3>3. CASE ~f
      BY <2>4, <3>3 DEF OneAsks
    <3> QED
      BY <3>2, <3>3
  <2> QED
    BY <2>3, <2>5 DEF r, f
<1>3. CASE ~DeqReq(ready) /\ qstate = "INIT_RESTORE" /\ ready
  <2>1. r = <<[op |-> "rd", node |-> Plain]>> /\ ~f
    BY <1>3 DEF AskedNow, FromMain, FromIn
  <2>2. r \in Seq(Requests) /\ Len(r) = 1 /\ r[1].op = "rd" /\ r[1].node = Plain
    BY <2>1 DEF Requests
  <2> HIDE DEF r
  <2>3. \A i : ~Asks(r, i)
    BY <2>2 DEF Asks
  <2>4. OneAsks(r, f)
    BY <2>1, <2>3 DEF OneAsks
  <2> QED
    BY <1>3, <2>2, <2>4 DEF r, f
<1>4. CASE ~DeqReq(ready) /\ ~(qstate = "INIT_RESTORE" /\ ready)
  <2>1. r = << >> /\ ~f
    BY <1>4 DEF AskedNow, FromMain, FromIn
  <2>2. OneAsks(r, f)
    BY <2>1 DEF OneAsks, Asks
  <2> QED
    BY <2>1, <2>2
<1> QED
  BY <1>2, <1>3, <1>4

LEMMA RunDue ==
  ASSUME NEW start, NEW root, NEW ready, NEW b, NEW part, RunsFrom(start, root, ready, b, part),
         FromMain(ready) => part = "main", FromIn(ready) => part = "in"
  PROVE  /\ asked' \in Seq(Requests) /\ dcBeat' \in 0 .. LineBeats - 1
         /\ asked' = << >> => dcBeat' = 0
         /\ IsAnswered(b) => part = "asked"
         /\ OneAsks(Due', (part = "asked" /\ ~IsAnswered(b)) \/ FromMain(ready) \/ FromIn(ready))
<1> USE SizeFacts
<1> DEFINE x == part = "asked"
           f == FromMain(ready) \/ FromIn(ready)
           r == AskedNow(ready)
           beat == Beat(b)
           q == DueOf(asked, dcBeat)
           z == x /\ ~IsAnswered(b)
<1>1. Runs(start, root, ready, b) /\ BfsCoreTypes /\ LineIsLongEnough /\ OneAsks(Due, x)
  BY FromFacts
<1>2. /\ asked \in Seq(Requests) /\ dcBeat \in 0 .. LineBeats - 1 /\ (asked = << >> => dcBeat = 0)
      /\ beat \in BOOLEAN /\ (beat => asked # << >>)
  <2>1. beat => asked # << >>
    BY <1>1, RunBeat
  <2> QED
    BY <1>1, <2>1 DEF BfsCoreTypes, LineIsLongEnough, Requests, Beat
<1>3. r \in Seq(Requests) /\ OneAsks(r, f)
  BY RunAsked
<1>4. dcBeat' = IF ~beat THEN dcBeat ELSE IF dcBeat = LineBeats - 1 THEN 0 ELSE dcBeat + 1
  BY <1>1, RunControl
<1>5. asked' = (IF beat /\ dcBeat = LineBeats - 1 THEN Tail(asked) ELSE asked) \o r
  BY <1>1, RunEdge
<1>6. Due = q /\ Due' = DueOf(asked', dcBeat')
  BY DEF Due, DueOf
<1>7. IsAnswered(b) <=> beat /\ dcBeat = 0 /\ Head(asked).node = Special
  BY DEF IsAnswered
<1>8. f \in BOOLEAN /\ z \in BOOLEAN /\ ~(x /\ f) /\ x \in BOOLEAN
  BY DEF FromMain, FromIn
<1> HIDE DEF r, f, x
<1>9. /\ asked' \in Seq(Requests) /\ dcBeat' \in 0 .. LineBeats - 1 /\ (asked' = << >> => dcBeat' = 0)
      /\ q \in Seq(Requests)
      /\ DueOf(asked', dcBeat') = (IF beat /\ dcBeat = 0 THEN Tail(q) ELSE q) \o r
      /\ beat /\ dcBeat = 0 => q = asked
  <2>1. DueMoves(asked, dcBeat, b.kind, r, asked', dcBeat')
    BY <1>2, <1>3, <1>4, <1>5 DEF DueMoves, Beat
  <2>2. DueMoved(asked, dcBeat, b.kind, r, asked', dcBeat')
    BY <2>1, DueFlows
  <2> QED
    BY <2>2 DEF DueMoved, Beat
<1> HIDE DEF q, beat
<1> DEFINE s == IF beat /\ dcBeat = 0 THEN Tail(q) ELSE q
<1>10. s \in Seq(Requests) /\ (IsAnswered(b) => x) /\ OneAsks(s, z)
  <2>1. CASE beat /\ dcBeat = 0
    <3>1. q # << >> /\ OneAsks(q, x) /\ Head(q) = Head(asked) /\ s = Tail(q)
      BY <1>1, <1>2, <1>6, <1>9, <2>1
    <3>2. /\ Head(q).node = Special => x
          /\ OneAsks(Tail(q), x /\ Head(q).node # Special)
      BY <1>8, <1>9, <3>1, AskedTail
    <3>3. z = (x /\ Head(q).node # Special)
      BY <1>7, <1>8, <2>1, <3>1
    <3>4. Tail(q) \in Seq(Requests)
      BY <1>9, <3>1, FrontFacts
    <3>5. IsAnswered(b) => x
      BY <1>7, <3>1, <3>2
    <3> HIDE DEF z, s
    <3> QED
      BY <3>1, <3>2, <3>3, <3>4, <3>5
  <2>2. CASE ~(beat /\ dcBeat = 0)
    <3>1. s = q /\ ~IsAnswered(b) /\ z = x
      BY <1>7, <1>8, <2>2
    <3> HIDE DEF z, s
    <3> QED
      BY <1>1, <1>6, <1>9, <3>1
  <2> QED
    BY <2>1, <2>2
<1>11. OneAsks(Due', z \/ f)
  <2>1. ~(z /\ f)
    BY <1>8
  <2> HIDE DEF z, s
  <2>2. OneAsks(s \o r, z \/ f)
    BY <1>3, <1>8, <1>10, <2>1, AskedCat
  <2>3. Due' = s \o r
    BY <1>6, <1>9 DEF s
  <2> QED
    BY <2>2, <2>3
<1> DEFINE y == z \/ f
<1>12. y = (z \/ FromMain(ready) \/ FromIn(ready))
  BY DEF f
<1> HIDE DEF y, z
<1>13. OneAsks(Due', z \/ FromMain(ready) \/ FromIn(ready))
  BY <1>11, <1>12 DEF y
<1> QED
  BY <1>9, <1>10, <1>13 DEF z, x

\* Special is in one part after the edge if it was in one before it, and moves when it should.
LEMMA RunPlace ==
  ASSUME NEW start, NEW root, NEW ready, NEW b, Runs(start, root, ready, b)
  PROVE  \E place \in Parts \cup {"none"} : Where(place)' /\ (place # "none" <=> special' = "open")
<1>1. BfsCoreTypes /\ SpecialIsOnce /\ bstate # "IDLE"
  BY DEF Runs, GoodState
<1>2. PICK part \in Parts \cup {"none"} : Where(part) /\ (part # "none" <=> special = "open")
  <2>1. IF special = "open" THEN \E p \in Places : Places = {p} ELSE Places = {}
    BY <1>1 DEF SpecialIsOnce
  <2> QED
    BY <1>1, <2>1, PlacesAre
<1>3. RunsFrom(start, root, ready, b, part)
  BY <1>2 DEF RunsFrom
<1> DEFINE full == SpillDone(ready, b) /\ qstate = "SPILL"
           held == part = "line" \/ (Spilling /\ GoesOut(ready))
           e == Entered(root, b)
           m == FromMain(ready)
           i == FromIn(ready)
           r == ReadBack(b)
           o == GoesOut(ready)
           a == IsAnswered(b)
           place == IF e THEN (IF MainFull THEN "out" ELSE "main")
                 ELSE IF m \/ i THEN "asked"
                 ELSE IF r THEN "in"
                 ELSE IF o THEN (IF qstate = "CORE" THEN "in" ELSE IF full THEN "memory" ELSE "line")
                 ELSE IF a THEN "none"
                 ELSE IF part = "line" /\ full THEN "memory" ELSE part
<1>4. /\ m => part = "main"
      /\ OneAt(mainQ', (part = "main" /\ ~m) \/ (e /\ ~MainFull))
  BY <1>3, RunMain
<1>5. /\ o => part = "out"
      /\ OneOut(outRow', (part = "out" /\ ~o) \/ (e /\ MainFull))
      /\ ~(OutTaken(ready) /\ HeadRow[1] = Special /\ HeadRow[2] = Special)
  BY <1>3, RunOut
<1>6. /\ r => part = "memory"
      /\ OneInMemory(swq', Moved', (part = "memory" /\ ~r) \/ (full /\ held))
  BY <1>3, RunMemory
<1>7. OneAt(line', held /\ ~full)
  BY <1>3, RunLine
<1>8. /\ i => part = "in"
      /\ OneAt(inQ', (part = "in" /\ ~i) \/ r \/ (qstate = "CORE" /\ o))
  BY <1>3, <1>5, <1>6, RunIn
<1>9. /\ a => part = "asked"
      /\ OneAsks(Due', (part = "asked" /\ ~a) \/ m \/ i)
  BY <1>3, <1>4, <1>8, RunDue
<1>10. e => part = "none"
  BY <1>3, FromFacts
<1>11. o => qstate = "CORE" \/ Spilling
  <2>1. o => OutDeq(ready)
    BY DEF GoesOut, OutTaken
  <2> QED
    BY <2>1 DEF OutDeq, Spilling
<1>12. full => qstate # "CORE" /\ Spilling
  BY DEF Spilling
<1>13. Spilling => qstate # "CORE"
  BY DEF Spilling
<1>14. special' = IF a THEN "answered" ELSE IF e THEN "open" ELSE special
  <2>1. (Header(b) /\ Head(asked).node = Special) <=> a
    BY RunBeat DEF IsAnswered
  <2>2. Sees(root, b) <=> e
    BY RunEnq DEF Entered
  <2>3. special' = IF Header(b) /\ Head(asked).node = Special THEN "answered"
                   ELSE IF Sees(root, b) THEN "open" ELSE special
    BY RunEdge
  <2> QED
    BY <2>1, <2>2, <2>3
<1>15. part \in {"main", "in", "line", "out", "memory", "asked", "none"}
  BY <1>2 DEF Parts
<1> HIDE DEF full, e, m, i, r, o, a
<1>16. /\ (place = "main") = ((part = "main" /\ ~m) \/ (e /\ ~MainFull))
       /\ (place = "out") = ((part = "out" /\ ~o) \/ (e /\ MainFull))
       /\ (place = "in") = ((part = "in" /\ ~i) \/ r \/ (qstate = "CORE" /\ o))
  BY <1>4, <1>5, <1>6, <1>8, <1>9, <1>10, <1>11, <1>12, <1>13, <1>15
<1>17. /\ (place = "asked") = ((part = "asked" /\ ~a) \/ m \/ i)
       /\ place \in Parts \cup {"none"}
       /\ place # "none" <=> special' = "open"
  BY <1>2, <1>4, <1>5, <1>6, <1>8, <1>9, <1>10, <1>14, <1>15 DEF Parts
<1>18. held <=> part = "line" \/ (Spilling /\ o)
  BY DEF o
<1> HIDE DEF held
<1>19. /\ (place = "line") = (held /\ ~full)
       /\ (place = "memory") = ((part = "memory" /\ ~r) \/ (full /\ held))
  BY <1>4, <1>5, <1>6, <1>8, <1>9, <1>10, <1>11, <1>12, <1>13, <1>15, <1>18
<1> HIDE DEF place
<1>20. PICK there : there = place
  OBVIOUS
<1>21. Where(there)'
  <2>1. OneAt(mainQ', there = "main") /\ OneAt(inQ', there = "in") /\ OneAt(line', there = "line")
    BY <1>4, <1>7, <1>8, <1>16, <1>19, <1>20
  <2>2. OneOut(outRow', there = "out") /\ OneInMemory(swq', Moved', there = "memory")
        /\ OneAsks(Due', there = "asked")
    BY <1>5, <1>6, <1>9, <1>16, <1>17, <1>19, <1>20
  <2> QED
    BY <2>1, <2>2 DEF Where
<1> QED
  BY <1>17, <1>20, <1>21

-----------------------------------------------------------------------------
(* The rest of the invariant over such an edge *)

LEMMA RunSizes ==
  ASSUME NEW start, NEW root, NEW ready, NEW b, Runs(start, root, ready, b)
  PROVE  /\ mainQ' \in Seq(Row) /\ inQ' \in Seq(Row)
         /\ Enq(root, b) = << >> => Len(mainQ') <= Len(mainQ)
         /\ Len(inQ') <= Len(inQ) + 1 /\ Len(inQ') >= Len(inQ) - 1
         /\ ~DeqReq(ready) => Len(inQ') >= Len(inQ)
         /\ ~(qstate = "CORE" /\ OutTaken(ready)) /\ ~(qstate = "RESTORE" /\ Beat(b)) =>
              Len(inQ') <= Len(inQ)
         /\ outHead' \in OutRing!Ptrs /\ outTail' \in OutRing!Ptrs
         /\ RowsAre(OutRing!Slots, OutRing!Live(outHead', outTail'), OutRing!Idx(outTail'), outRow')
         /\ Held' < BufRows /\ Held' >= Held - 1 /\ (~OutTaken(ready) => Held' >= Held)
         /\ ToOut(root, b) = << >> /\ ~OutTaken(ready) => UNCHANGED <<outHead, outTail, outRow>>
         /\ line' \in Seq(Node \X Node) /\ swq' \in Seq(Lines)
         /\ Len(Written(ready)) = Len(line) + (IF Spilling /\ ready THEN 1 ELSE 0)
         /\ asked' \in Seq(Requests) /\ dcBeat' \in 0 .. LineBeats - 1
         /\ asked' = << >> => dcBeat' = 0
         /\ AskedNow(ready) \in Seq(Requests) /\ Len(AskedNow(ready)) \in {0, 1}
         /\ AskedNow(ready) # << >> => AskedNow(ready)[1].op = "mark" \/ qstate = "INIT_RESTORE"
         /\ AskedNow(ready) # << >> /\ AskedNow(ready)[1].op = "rd" => AskedNow(ready)[1].node = Plain
<1>1. BfsCoreTypes /\ SpecialIsOnce /\ bstate # "IDLE"
  BY DEF Runs, GoodState
<1>2. PICK part \in Parts \cup {"none"} : Where(part) /\ (part # "none" <=> special = "open")
  <2>1. IF special = "open" THEN \E p \in Places : Places = {p} ELSE Places = {}
    BY <1>1 DEF SpecialIsOnce
  <2> QED
    BY <1>1, <2>1, PlacesAre
<1>3. RunsFrom(start, root, ready, b, part)
  BY <1>2 DEF RunsFrom
<1>4. /\ FromMain(ready) => part = "main"
      /\ mainQ' \in Seq(Row) /\ (Enq(root, b) = << >> => Len(mainQ') <= Len(mainQ))
  BY <1>3, RunMain
<1>5. /\ GoesOut(ready) => part = "out"
      /\ ~(OutTaken(ready) /\ HeadRow[1] = Special /\ HeadRow[2] = Special)
      /\ outHead' \in OutRing!Ptrs /\ outTail' \in OutRing!Ptrs
      /\ RowsAre(OutRing!Slots, OutRing!Live(outHead', outTail'), OutRing!Idx(outTail'), outRow')
      /\ Held' < BufRows /\ Held' >= Held - 1 /\ (~OutTaken(ready) => Held' >= Held)
      /\ ToOut(root, b) = << >> /\ ~OutTaken(ready) => UNCHANGED <<outHead, outTail, outRow>>
  BY <1>3, RunOut
<1>6. (ReadBack(b) => part = "memory") /\ swq' \in Seq(Lines)
  BY <1>3, RunMemory
<1>7. /\ FromIn(ready) => part = "in"
      /\ inQ' \in Seq(Row)
      /\ Len(inQ') <= Len(inQ) + 1 /\ Len(inQ') >= Len(inQ) - 1
      /\ ~DeqReq(ready) => Len(inQ') >= Len(inQ)
      /\ ~(qstate = "CORE" /\ OutTaken(ready)) /\ ~(qstate = "RESTORE" /\ Beat(b)) =>
           Len(inQ') <= Len(inQ)
  BY <1>3, <1>5, <1>6, RunIn
<1>8. /\ line' \in Seq(Node \X Node)
      /\ Len(Written(ready)) = Len(line) + (IF Spilling /\ ready THEN 1 ELSE 0)
  BY <1>3, RunLine
<1>9. asked' \in Seq(Requests) /\ dcBeat' \in 0 .. LineBeats - 1 /\ (asked' = << >> => dcBeat' = 0)
  BY <1>3, <1>4, <1>7, RunDue
<1>10. /\ AskedNow(ready) \in Seq(Requests) /\ Len(AskedNow(ready)) \in {0, 1}
       /\ AskedNow(ready) # << >> => AskedNow(ready)[1].op = "mark" \/ qstate = "INIT_RESTORE"
       /\ AskedNow(ready) # << >> /\ AskedNow(ready)[1].op = "rd" => AskedNow(ready)[1].node = Plain
  BY <1>3, RunAsked
<1> QED
  BY <1>4, <1>5, <1>6, <1>7, <1>8, <1>9, <1>10

LEMMA RunCore ==
  ASSUME NEW start, NEW root, NEW ready, NEW b, Runs(start, root, ready, b)
  PROVE  /\ bstate \in {"INIT", "NODE_HEADER", "ADD_NEIGHS"} /\ bfound' \in BOOLEAN
         /\ bstate = "INIT" => bstate' = "NODE_HEADER" /\ neighCt' = 0
         /\ bstate = "NODE_HEADER" =>
              IF Header(b) /\ b.n > 0 THEN bstate' = "ADD_NEIGHS" /\ neighCt' = b.n
              ELSE bstate' = "NODE_HEADER" /\ neighCt' \in Nat
         /\ bstate = "ADD_NEIGHS" =>
              IF neighCt > 2 THEN bstate' = "ADD_NEIGHS" /\ neighCt' = neighCt - 2
              ELSE bstate' = "NODE_HEADER" /\ neighCt' = 0
<1>1. BfsCoreTypes /\ bstate # "IDLE" /\ ~Done(b)
  BY DEF Runs, GoodState
<1>2. ~Hit(b)
  BY <1>1 DEF Done
<1>3. /\ bstate' =
           CASE bstate = "IDLE"        -> IF start THEN "INIT" ELSE "IDLE"
             [] bstate = "INIT"        -> "NODE_HEADER"
             [] bstate = "NODE_HEADER" -> IF Done(b) THEN "IDLE"
                                          ELSE IF Header(b) /\ b.n > 0 THEN "ADD_NEIGHS" ELSE "NODE_HEADER"
             [] bstate = "ADD_NEIGHS"  -> IF neighCt <= 2 THEN "NODE_HEADER" ELSE "ADD_NEIGHS"
      /\ neighCt' = CASE bstate = "NODE_HEADER" /\ Header(b) /\ ~b.hit -> b.n
                      [] bstate = "ADD_NEIGHS" /\ neighCt > 2          -> neighCt - 2
                      [] OTHER                                         -> 0
      /\ bfound' = (Hit(b) \/ (bfound /\ bstate # "INIT"))
  <2>1. Core(start, b)
    BY RunEdge
  <2> QED
    BY <1>2, <2>1 DEF Core
<1>4. bstate \in {"INIT", "NODE_HEADER", "ADD_NEIGHS"} /\ neighCt \in Nat
  BY <1>1 DEF BfsCoreTypes
<1>5. bfound' \in BOOLEAN
  BY <1>3
<1>6. CASE bstate = "INIT"
  <2>1. bstate' = "NODE_HEADER" /\ neighCt' = 0
    BY <1>3, <1>6
  <2> QED
    BY <1>4, <1>5, <1>6, <2>1
<1>7. CASE bstate = "NODE_HEADER"
  <2>1. Header(b) => ~b.hit
    BY <1>2 DEF Hit
  <2>2. bstate' = IF Header(b) /\ b.n > 0 THEN "ADD_NEIGHS" ELSE "NODE_HEADER"
    BY <1>1, <1>3, <1>7
  <2>3. neighCt' = IF Header(b) THEN b.n ELSE 0
    BY <1>3, <1>7, <2>1
  <2>4. b.n \in Nat
    <3>1. b.n \in 0 .. MaxNeighs
      BY RunBeat
    <3> QED
      BY <3>1
  <2> QED
    BY <1>4, <1>5, <1>7, <2>2, <2>3, <2>4
<1>8. CASE bstate = "ADD_NEIGHS"
  <2>1. bstate' = IF neighCt <= 2 THEN "NODE_HEADER" ELSE "ADD_NEIGHS"
    BY <1>3, <1>8
  <2>2. neighCt' = IF neighCt > 2 THEN neighCt - 2 ELSE 0
    BY <1>3, <1>8
  <2> QED
    BY <1>4, <1>5, <1>8, <2>1, <2>2
<1> QED
  BY <1>4, <1>6, <1>7, <1>8

LEMMA RunTypes ==
  ASSUME NEW start, NEW root, NEW ready, NEW b, Runs(start, root, ready, b)
  PROVE  BfsCoreTypes' /\ RowsAreLive' /\ SearchStarts'
<1> USE SizeFacts
<1>1. BfsCoreTypes
  BY DEF Runs, GoodState
<1>2. /\ bstate' \in {"NODE_HEADER", "ADD_NEIGHS"} /\ bfound' \in BOOLEAN /\ neighCt' \in Nat
  <2>1. neighCt \in Nat /\ b.n \in 0 .. MaxNeighs
    BY <1>1, RunBeat DEF BfsCoreTypes
  <2> QED
    BY <2>1, RunCore DEF MaxNeighs
<1>3. /\ mainQ' \in Seq(Row) /\ inQ' \in Seq(Row)
      /\ outHead' \in OutRing!Ptrs /\ outTail' \in OutRing!Ptrs
      /\ RowsAre(OutRing!Slots, OutRing!Live(outHead', outTail'), OutRing!Idx(outTail'), outRow')
      /\ Held' < BufRows
      /\ line' \in Seq(Node \X Node) /\ swq' \in Seq(Lines)
      /\ asked' \in Seq(Requests) /\ dcBeat' \in 0 .. LineBeats - 1
  BY RunSizes
<1>4. qstate' \in {"CORE", "INIT_SPILL", "SPILL", "INIT_RESTORE", "RESTORE"}
      /\ ct' \in 0 .. LineBeats - 1
  <2>1. ct \in 0 .. LineBeats - 1 /\ qstate \in {"CORE", "INIT_SPILL", "SPILL", "INIT_RESTORE", "RESTORE"}
    BY <1>1 DEF BfsCoreTypes
  <2>2. qstate' \in {"CORE", "INIT_SPILL", "SPILL", "INIT_RESTORE", "RESTORE"}
    BY <2>1, RunControl
  <2>3. ct' \in {ct, ct - 1, LineBeats - 1, LineBeats - 2} /\ (ct' = ct - 1 => ct > 0 \/ ct' \in {ct, LineBeats - 1, LineBeats - 2})
    BY <2>1, RunControl
  <2> QED
    BY <2>1, <2>2, <2>3
<1>5. special' \in {"unseen", "open", "answered"}
  <2>1. special' = IF Header(b) /\ Head(asked).node = Special THEN "answered"
                   ELSE IF Sees(root, b) THEN "open" ELSE special
    BY RunEdge
  <2>2. special \in {"unseen", "open", "answered"}
    BY <1>1 DEF BfsCoreTypes
  <2> QED
    BY <2>1, <2>2
<1>6. outRow' \in [OutRing!Slots -> (Node \cup {NoNode}) \X (Node \cup {NoNode})]
  BY <1>3 DEF RowsAre, OutNodes
<1>7. BfsCoreTypes'
  BY <1>2, <1>3, <1>4, <1>5, <1>6 DEF BfsCoreTypes, Lines, Requests
<1>8. RowsAreLive'
  BY <1>3 DEF RowsAreLive, RowsAre, TailRow
<1>9. SearchStarts'
  BY <1>2 DEF SearchStarts
<1> QED
  BY <1>7, <1>8, <1>9

\* The oldest request stays until it has been answered.
LEMMA RunOldest ==
  ASSUME NEW start, NEW root, NEW ready, NEW b, Runs(start, root, ready, b)
  PROVE  /\ asked # << >> /\ ~(Beat(b) /\ dcBeat = LineBeats - 1) =>
              /\ asked' = asked \o AskedNow(ready) /\ asked' # << >> /\ asked'[1] = asked[1]
              /\ \A i \in DOMAIN asked' : i # 1 =>
                   (i \in DOMAIN asked /\ asked'[i] = asked[i]) \/ asked'[i] = AskedNow(ready)[1]
         /\ asked = << >> => asked' = AskedNow(ready)
         /\ Beat(b) /\ dcBeat = LineBeats - 1 => asked' = Tail(asked) \o AskedNow(ready)
<1> DEFINE r == AskedNow(ready)
<1>1. /\ asked' = (IF Beat(b) /\ dcBeat = LineBeats - 1 THEN Tail(asked) ELSE asked) \o r
      /\ Beat(b) => asked # << >>
  BY RunEdge, RunBeat
<1>2. asked \in Seq(Requests) /\ r \in Seq(Requests) /\ Len(r) \in {0, 1}
  <2>1. BfsCoreTypes
    BY DEF Runs, GoodState
  <2> QED
    BY <2>1, RunSizes DEF BfsCoreTypes, Requests
<1> HIDE DEF r
<1>3. ASSUME asked # << >>, ~(Beat(b) /\ dcBeat = LineBeats - 1)
      PROVE  /\ asked' = asked \o r /\ asked' # << >> /\ asked'[1] = asked[1]
             /\ \A i \in DOMAIN asked' : i # 1 =>
                  (i \in DOMAIN asked /\ asked'[i] = asked[i]) \/ asked'[i] = r[1]
  <2> DEFINE c == asked \o r
  <2>1. asked' = c
    BY <1>1, <1>3
  <2>2. /\ Len(asked) \in Nat \ {0} /\ Len(c) = Len(asked) + Len(r) /\ Len(r) \in {0, 1}
        /\ DOMAIN c = 1 .. Len(c) /\ DOMAIN asked = 1 .. Len(asked)
        /\ \A i \in 1 .. Len(asked) : c[i] = asked[i]
        /\ \A i \in 1 .. Len(r) : c[Len(asked) + i] = r[i]
    BY <1>2, <1>3
  <2> HIDE DEF c
  <2>3. c # << >> /\ c[1] = asked[1]
    BY <2>2
  <2>4. ASSUME NEW i \in DOMAIN c, i # 1
        PROVE  (i \in DOMAIN asked /\ c[i] = asked[i]) \/ c[i] = r[1]
    <3>1. CASE i <= Len(asked)
      BY <2>2, <3>1
    <3>2. CASE i > Len(asked)
      <4>1. i = Len(asked) + 1 /\ Len(r) = 1
        BY <2>2, <3>2
      <4>2. c[Len(asked) + 1] = r[1]
        BY <2>2, <4>1
      <4> QED
        BY <4>1, <4>2
    <3> QED
      BY <2>2, <3>1, <3>2
  <2> QED
    BY <2>1, <2>3, <2>4 DEF c
<1>4. asked = << >> => asked' = r
  BY <1>1, <1>2
<1>5. Beat(b) /\ dcBeat = LineBeats - 1 => asked' = Tail(asked) \o r
  BY <1>1
<1> QED
  BY <1>3, <1>4, <1>5 DEF r

LEMMA RunLong ==
  ASSUME NEW start, NEW root, NEW ready, NEW b, Runs(start, root, ready, b)
  PROVE  LineIsLongEnough'
<1> USE SizeFacts
<1>1. BfsCoreTypes /\ LineIsLongEnough
  BY DEF Runs, GoodState
<1>2. dcBeat \in 0 .. LineBeats - 1 /\ neighCt \in Nat
  BY <1>1 DEF BfsCoreTypes
<1>3. asked' = << >> => dcBeat' = 0
  BY RunSizes
<1>4. ASSUME bstate' = "ADD_NEIGHS"
      PROVE  /\ asked' # << >> /\ asked'[1].op = "mark"
             /\ dcBeat' >= 1 /\ neighCt' >= 1 /\ neighCt' <= 2 * (LineBeats - dcBeat')
  <2>1. CASE bstate = "NODE_HEADER"
    <3>1. Header(b) /\ b.n > 0 /\ neighCt' = b.n
      BY <1>4, <2>1, RunCore
    <3>2. Beat(b) /\ b.kind = "mark" /\ dcBeat = 0
      BY <3>1 DEF Header, Beat
    <3>3. asked # << >> /\ asked[1].op = "mark" /\ b.n \in 0 .. MaxNeighs
      <4>1. asked # << >> /\ asked[1] = Head(asked) /\ b.kind = Head(asked).op
        BY <3>2, RunBeat
      <4>2. b.n \in 0 .. MaxNeighs
        BY RunBeat
      <4> QED
        BY <3>2, <4>1, <4>2
    <3>4. dcBeat' = 1 /\ dcBeat # LineBeats - 1
      BY <3>2, RunControl
    <3>5. asked' # << >> /\ asked'[1] = asked[1]
      BY <3>3, <3>4, RunOldest
    <3>6. neighCt' >= 1 /\ neighCt' <= 2 * (LineBeats - 1)
      BY <3>1, <3>3 DEF MaxNeighs
    <3> QED
      BY <3>3, <3>4, <3>5, <3>6
  <2>2. CASE bstate = "ADD_NEIGHS"
    <3>1. neighCt > 2 /\ neighCt' = neighCt - 2
      BY <1>4, <2>2, RunCore
    <3>2. /\ asked # << >> /\ asked[1].op = "mark"
          /\ dcBeat >= 1 /\ neighCt <= 2 * (LineBeats - dcBeat)
      BY <1>1, <2>2 DEF LineIsLongEnough
    <3>3. Beat(b)
      BY <2>2, RunEdge
    <3>4. dcBeat # LineBeats - 1
      BY <1>2, <3>1, <3>2
    <3>5. dcBeat' = dcBeat + 1
      BY <3>3, <3>4, RunControl
    <3>6. asked' # << >> /\ asked'[1] = asked[1]
      BY <3>2, <3>4, RunOldest
    <3>7. neighCt' >= 1 /\ neighCt' <= 2 * (LineBeats - dcBeat')
      BY <1>2, <3>1, <3>2, <3>5
    <3> QED
      BY <1>2, <3>2, <3>5, <3>6, <3>7
  <2>3. bstate # "INIT"
    <3>1. bstate = "INIT" => bstate' = "NODE_HEADER"
      BY RunCore
    <3> QED
      BY <1>4, <3>1
  <2>4. bstate \in {"INIT", "NODE_HEADER", "ADD_NEIGHS"}
    BY RunCore
  <2> QED
    BY <2>1, <2>2, <2>3, <2>4
<1> QED
  BY <1>3, <1>4 DEF LineIsLongEnough

LEMMA RunSpills ==
  ASSUME NEW start, NEW root, NEW ready, NEW b, Runs(start, root, ready, b)
  PROVE  Spills'
<1> USE SizeFacts
<1>1. BfsCoreTypes /\ RowsAreLive /\ Spills
  BY DEF Runs, GoodState
<1>2. /\ Len(inQ) \in Nat /\ Len(inQ') \in Nat /\ Len(line) \in Nat /\ Len(line') \in Nat
      /\ ct \in 0 .. LineBeats - 1 /\ Held \in 0 .. BufRows - 1 /\ Held' \in Int
      /\ inQ \in Seq(Row) /\ line' \in Seq(Node \X Node)
      /\ outHead \in OutRing!Ptrs /\ outTail \in OutRing!Ptrs
      /\ qstate \in {"CORE", "INIT_SPILL", "SPILL", "INIT_RESTORE", "RESTORE"}
  <2>1. inQ \in Seq(Row) /\ inQ' \in Seq(Row) /\ line \in Seq(Node \X Node) /\ line' \in Seq(Node \X Node)
    BY <1>1, RunSizes DEF BfsCoreTypes
  <2>2. outHead \in OutRing!Ptrs /\ outTail \in OutRing!Ptrs /\ Held < BufRows
    BY <1>1 DEF BfsCoreTypes, RowsAreLive
  <2>3. Held \in 0 .. BufRows - 1
    BY <2>2, RingFacts DEF Held
  <2>4. Held' \in Int
    <3>1. outHead' \in OutRing!Ptrs /\ outTail' \in OutRing!Ptrs
      BY RunSizes
    <3>2. Held' = OutRing!Dist(outHead', outTail')
      BY DEF Held
    <3> QED
      BY <3>1, <3>2 DEF OutRing!Dist, OutRing!Ptrs
  <2>5. /\ ct \in 0 .. LineBeats - 1
        /\ qstate \in {"CORE", "INIT_SPILL", "SPILL", "INIT_RESTORE", "RESTORE"}
    BY <1>1 DEF BfsCoreTypes
  <2> QED
    BY <2>1, <2>2, <2>3, <2>4, <2>5
<1>3. /\ Len(inQ') >= Len(inQ) - 1 /\ (~DeqReq(ready) => Len(inQ') >= Len(inQ))
      /\ Held' >= Held - 1 /\ (~OutTaken(ready) => Held' >= Held)
      /\ Len(Written(ready)) = Len(line) + (IF Spilling /\ ready THEN 1 ELSE 0)
  BY RunSizes
<1>4. line' = IF SpillDone(ready, b) THEN << >> ELSE Written(ready)
  BY RunEdge
<1>5. /\ OutTaken(ready) <=> OutDeq(ready)
      /\ Spilling => (OutDeq(ready) <=> ready)
  BY RunTakes
<1>6. (Spilling => ~DeqReq(ready)) /\ ready \in BOOLEAN
  BY RunEdge DEF DeqReq, SpillReq, Spilling
<1>7. CASE qstate = "CORE"
  <2>1. line = << >> /\ ~Spilling /\ ~SpillDone(ready, b)
    BY <1>1, <1>7, RunControl DEF Spills, Spilling
  <2>2. line' = << >>
    BY <1>4, <2>1 DEF Written
  <2>3. qstate' # "SPILL"
    BY <1>7, RunControl
  <2>4. ASSUME qstate' = "INIT_SPILL" PROVE inQ' # << >> /\ Held' >= LineBeats - Len(line')
    <3>1. OutSat /\ InFull
      BY <1>7, <2>4, RunControl
    <3>2. Held >= LineBeats
      BY <1>2, <3>1, SatHasALine
    <3>3. ~OutTaken(ready)
      BY <1>5, <1>7, <3>1 DEF OutDeq
    <3>4. Len(inQ') >= BufRows - 1
      BY <1>2, <1>3, <3>1 DEF InFull
    <3>5. inQ' # << >>
      BY <1>2, <3>4
    <3> QED
      BY <1>2, <1>3, <2>2, <3>2, <3>3, <3>5
  <2> QED
    BY <2>2, <2>3, <2>4 DEF Spills
<1>8. CASE qstate = "INIT_SPILL"
  <2>1. /\ line = << >> /\ Spilling /\ ~SpillDone(ready, b) /\ ~DeqReq(ready)
        /\ inQ # << >> /\ Held >= LineBeats
    BY <1>1, <1>2, <1>6, <1>8, RunControl DEF Spills, Spilling
  <2>2. /\ line' = Written(ready) /\ Len(line') = IF ready THEN 1 ELSE 0
        /\ qstate' = IF ready THEN "SPILL" ELSE "INIT_SPILL"
        /\ ct' = LineBeats - 2
    <3>1. line' = Written(ready)
      BY <1>4, <2>1
    <3>2. Len(line') = IF ready THEN 1 ELSE 0
      BY <1>3, <2>1, <3>1
    <3> QED
      BY <1>8, <3>1, <3>2, RunControl
  <2>3. inQ' # << >>
    <3>1. Len(inQ') >= Len(inQ) /\ Len(inQ) > 0
      BY <1>2, <1>3, <2>1
    <3> QED
      BY <1>2, <3>1
  <2>4. Held' >= LineBeats - Len(line')
    <3>1. CASE ready
      <4>1. Len(line') = 1 /\ Held' >= Held - 1
        BY <1>3, <2>2, <3>1
      <4> QED
        BY <1>2, <2>1, <4>1
    <3>2. CASE ~ready
      <4>1. ~OutTaken(ready)
        BY <1>5, <2>1, <3>2
      <4>2. Len(line') = 0 /\ Held' >= Held
        BY <1>3, <2>2, <3>2, <4>1
      <4> QED
        BY <1>2, <2>1, <4>2
    <3> QED
      BY <3>1, <3>2
  <2>5. line' # << >> => ready
    <3>1. ~ready => Written(ready) = line
      BY DEF Written
    <3> QED
      BY <2>1, <2>2, <3>1
  <2>6. qstate' = "SPILL" => Len(line') = LineBeats - 1 - ct'
    BY <2>2
  <2> QED
    BY <2>2, <2>3, <2>4, <2>5, <2>6 DEF Spills
<1>9. CASE qstate = "SPILL"
  <2>1. /\ Spilling /\ ~DeqReq(ready) /\ inQ # << >> /\ Held >= LineBeats - Len(line)
        /\ Len(line) = LineBeats - 1 - ct
    BY <1>1, <1>6, <1>9 DEF Spills, Spilling
  <2>2. CASE SpillDone(ready, b)
    <3>1. line' = << >> /\ qstate' = "CORE"
      BY <1>4, <1>9, <2>2, RunControl
    <3> QED
      BY <3>1 DEF Spills
  <2>3. CASE ~SpillDone(ready, b)
    <3>1. line' = Written(ready) /\ Len(line') = Len(line) + IF ready THEN 1 ELSE 0
      BY <1>3, <1>4, <2>1, <2>3
    <3>2. qstate' = "SPILL" /\ ct' = IF ready /\ ct > 0 THEN ct - 1 ELSE ct
      BY <1>9, <2>3, RunControl
    <3>3. ready => ct > 0
      <4>1. ready /\ ct = 0 => SpillDone(ready, b)
        BY <1>9, RunControl
      <4>2. ct # 0 => ct > 0
        BY <1>2
      <4> QED
        BY <2>3, <4>1, <4>2
    <3>4. Len(line') = LineBeats - 1 - ct'
      BY <1>2, <2>1, <3>1, <3>2, <3>3
    <3>5. inQ' # << >>
      <4>1. Len(inQ') >= Len(inQ) /\ Len(inQ) > 0
        BY <1>2, <1>3, <2>1
      <4> QED
        BY <1>2, <4>1
    <3>6. Held' >= LineBeats - Len(line')
      BY <1>2, <1>3, <1>5, <2>1, <3>1
    <3> QED
      BY <3>2, <3>4, <3>5, <3>6 DEF Spills
  <2> QED
    BY <2>2, <2>3
<1>10. CASE qstate \in {"INIT_RESTORE", "RESTORE"}
  <2>1. line = << >> /\ ~Spilling
    BY <1>1, <1>10 DEF Spills, Spilling
  <2>2. line' = << >>
    BY <1>4, <2>1 DEF Written
  <2>3. qstate' \notin {"INIT_SPILL", "SPILL"}
    BY <1>10, RunControl
  <2> QED
    BY <2>2, <2>3 DEF Spills
<1> QED
  BY <1>2, <1>7, <1>8, <1>9, <1>10

\* When nothing is left but memory, nothing moves until a line has been asked for.
LEMMA RunRests ==
  ASSUME NEW start, NEW root, NEW ready, NEW b, Runs(start, root, ready, b),
         PendEmpty, qstate \in {"CORE", "INIT_RESTORE"}
  PROVE  /\ swq # << >> /\ swq' = swq /\ bstate' = "NODE_HEADER"
         /\ mainQ' = << >> /\ inQ' = << >> /\ UNCHANGED <<outHead, outTail, outRow>>
         /\ asked = << >> /\ dcBeat' = 0
         /\ ~(qstate = "INIT_RESTORE" /\ ready) => asked' = << >>
         /\ qstate = "INIT_RESTORE" /\ ready =>
              asked' # << >> /\ asked'[1] = [op |-> "rd", node |-> Plain]
<1>1. BfsCoreTypes /\ LineIsLongEnough /\ ~Done(b)
  BY DEF Runs, GoodState
<1>2. Active /\ inQ = << >> /\ mainQ = << >> /\ OutEmpty /\ asked = << >>
  BY DEF PendEmpty, RbufEmpty
<1>3. swq # << >>
  BY <1>1 DEF Done
<1>4. ~Beat(b)
  BY <1>2, RunBeat
<1>5. bstate = "NODE_HEADER" /\ ~Header(b)
  BY <1>1, <1>2, <1>4 DEF Active, LineIsLongEnough, Header, Beat
<1>6. bstate' = "NODE_HEADER"
  BY <1>5, RunCore
<1>7. Enq(root, b) = << >>
  BY <1>5 DEF Enq
<1>8. ~OutTaken(ready) /\ ToOut(root, b) = << >>
  BY <1>2, <1>7 DEF OutTaken, ToOut
<1>9. UNCHANGED <<outHead, outTail, outRow>>
  BY <1>8, RunSizes
<1>10. mainQ' = << >> /\ inQ' = << >>
  <2>1. /\ mainQ' \in Seq(Row) /\ inQ' \in Seq(Row)
        /\ Len(mainQ') <= Len(mainQ) /\ Len(inQ') <= Len(inQ)
    BY <1>4, <1>7, <1>8, RunSizes
  <2>2. Len(mainQ) = 0 /\ Len(inQ) = 0
    BY <1>2
  <2> QED
    BY <2>1, <2>2
<1>11. swq' = swq /\ ~DeqReq(ready)
  <2>1. ~SpillDone(ready, b)
    BY RunControl
  <2>2. swq' = IF SpillDone(ready, b) /\ qstate = "SPILL" THEN Append(swq, Written(ready))
               ELSE IF SpillDone(ready, b) THEN Tail(swq) ELSE swq
    BY RunEdge
  <2> QED
    BY <1>2, <2>1, <2>2 DEF DeqReq
<1>12. asked' = AskedNow(ready) /\ dcBeat' = 0
  <2>1. asked' = AskedNow(ready)
    BY <1>2, RunOldest
  <2>2. dcBeat = 0
    BY <1>1, <1>2 DEF LineIsLongEnough
  <2>3. dcBeat' = dcBeat
    BY <1>4, RunControl
  <2> QED
    BY <2>1, <2>2, <2>3
<1>13. /\ ~(qstate = "INIT_RESTORE" /\ ready) => asked' = << >>
       /\ qstate = "INIT_RESTORE" /\ ready =>
            asked' # << >> /\ asked'[1] = [op |-> "rd", node |-> Plain]
  BY <1>11, <1>12 DEF AskedNow
<1> QED
  BY <1>2, <1>3, <1>6, <1>9, <1>10, <1>11, <1>12, <1>13

LEMMA RunReads ==
  ASSUME NEW start, NEW root, NEW ready, NEW b, Runs(start, root, ready, b)
  PROVE  \A i \in DOMAIN asked' : asked'[i].op = "rd" =>
           i = 1 /\ qstate' = "RESTORE" /\ asked'[i].node = Plain
<1> USE SizeFacts
<1> DEFINE r == AskedNow(ready)
<1>1. BfsCoreTypes /\ Restores
  BY DEF Runs, GoodState
<1>2. asked \in Seq(Requests) /\ asked' \in Seq(Requests) /\ r \in Seq(Requests) /\ Len(r) \in {0, 1}
  BY <1>1, RunSizes DEF BfsCoreTypes, Requests
<1>3. r # << >> => r[1].op = "mark" \/ (qstate = "INIT_RESTORE" /\ ready /\ r[1].node = Plain)
  <2>1. /\ r # << >> => r[1].op = "mark" \/ qstate = "INIT_RESTORE"
        /\ r # << >> /\ r[1].op = "rd" => r[1].node = Plain
    BY RunSizes
  <2>2. qstate = "INIT_RESTORE" /\ r # << >> => ready
    BY DEF AskedNow, DeqReq, SpillReq
  <2>3. r # << >> => r[1].op \in {"mark", "rd"}
    <3>1. r # << >> => r[1] \in Requests
      BY <1>2, FrontFacts
    <3> QED
      BY <3>1 DEF Requests
  <2> QED
    BY <2>1, <2>2, <2>3
<1>4. \A i \in DOMAIN asked : asked[i].op = "rd" => i = 1 /\ qstate = "RESTORE" /\ asked[i].node = Plain
  BY <1>1 DEF Restores
<1>5. CASE asked = << >>
  <2>1. asked' = r
    BY <1>5, RunOldest
  <2>2. qstate # "RESTORE"
    BY <1>1, <1>5 DEF Restores
  <2>3. qstate = "INIT_RESTORE" /\ ready => qstate' = "RESTORE"
    BY RunControl
  <2> HIDE DEF r
  <2>4. DOMAIN r \subseteq {1} /\ (DOMAIN r # {} => r # << >>)
    BY <1>2
  <2> QED
    BY <1>3, <2>1, <2>2, <2>3, <2>4
<1>6. CASE asked # << >> /\ ~(Beat(b) /\ dcBeat = LineBeats - 1)
  <2>1. /\ asked'[1] = asked[1] /\ asked' # << >>
        /\ \A i \in DOMAIN asked' : i # 1 =>
             (i \in DOMAIN asked /\ asked'[i] = asked[i]) \/ asked'[i] = r[1]
        /\ asked' = asked \o r
    BY <1>6, RunOldest
  <2>2. qstate = "RESTORE" => qstate' = "RESTORE"
    BY <1>6, RunControl
  <2>3. qstate # "INIT_RESTORE"
    BY <1>1, <1>6 DEF Restores, PendEmpty, RbufEmpty
  <2>4. r # << >> => r[1].op = "mark"
    BY <1>3, <2>3
  <2> HIDE DEF r
  <2>5. ASSUME NEW i \in DOMAIN asked', asked'[i].op = "rd"
        PROVE  i = 1 /\ qstate' = "RESTORE" /\ asked'[i].node = Plain
    <3>0. 1 \in DOMAIN asked
      BY <1>2, <1>6
    <3>1. CASE i = 1
      BY <1>4, <2>1, <2>2, <2>5, <3>0, <3>1
    <3>2. CASE i # 1
      <4>1. ~(i \in DOMAIN asked /\ asked'[i] = asked[i])
        BY <1>4, <2>5, <3>2
      <4>2. asked'[i] = r[1]
        BY <2>1, <3>2, <4>1
      <4>3. r = << >>
        BY <2>4, <2>5, <4>2
      <4>4. asked' = asked
        BY <1>2, <2>1, <4>3
      <4> QED
        BY <2>5, <4>1, <4>4
    <3> QED
      BY <3>1, <3>2
  <2> QED
    BY <2>5
<1>7. CASE asked # << >> /\ Beat(b) /\ dcBeat = LineBeats - 1
  <2>1. asked' = Tail(asked) \o r
    BY <1>7, RunOldest
  <2>2. qstate # "INIT_RESTORE"
    BY <1>1, <1>7 DEF Restores, PendEmpty, RbufEmpty
  <2>3. r # << >> => r[1].op = "mark"
    BY <1>3, <2>2
  <2> HIDE DEF r
  <2> DEFINE t == Tail(asked)
  <2>4. /\ t \in Seq(Requests) /\ DOMAIN t = 1 .. Len(t) /\ Len(t) \in Nat
        /\ \A i \in DOMAIN t : t[i] = asked[i + 1] /\ i + 1 \in DOMAIN asked /\ i + 1 # 1
    BY <1>2, <1>7
  <2>5. \A i \in DOMAIN t : t[i].op # "rd"
    BY <1>4, <2>4
  <2> HIDE DEF t
  <2>6. \A i \in DOMAIN (t \o r) : (i \in DOMAIN t /\ (t \o r)[i] = t[i]) \/ (r # << >> /\ (t \o r)[i] = r[1])
    BY <1>2, <2>4
  <2>7. \A i \in DOMAIN asked' : asked'[i].op # "rd"
    <3>1. asked' = t \o r
      BY <2>1 DEF t
    <3> QED
      BY <2>3, <2>5, <2>6, <3>1
  <2> QED
    BY <2>7
<1> QED
  BY <1>5, <1>6, <1>7

LEMMA RunRestores ==
  ASSUME NEW start, NEW root, NEW ready, NEW b, Runs(start, root, ready, b)
  PROVE  Restores'
<1> USE SizeFacts
<1>1. BfsCoreTypes /\ Restores
  BY DEF Runs, GoodState
<1>2. \A i \in DOMAIN asked' : asked'[i].op = "rd" =>
        i = 1 /\ qstate' = "RESTORE" /\ asked'[i].node = Plain
  BY RunReads
<1>3. ASSUME qstate' = "INIT_RESTORE" PROVE PendEmpty' /\ swq' # << >>
  <2>1. qstate \in {"CORE", "INIT_RESTORE"} /\ PendEmpty /\ ~(qstate = "INIT_RESTORE" /\ ready)
    <3>1. qstate \in {"CORE", "INIT_SPILL", "SPILL", "INIT_RESTORE", "RESTORE"}
      BY <1>1 DEF BfsCoreTypes
    <3>2. qstate = "CORE" => PendEmpty
      BY <1>3, RunControl
    <3>3. qstate = "INIT_RESTORE" => PendEmpty /\ ~ready
      BY <1>1, <1>3, RunControl DEF Restores
    <3>4. qstate \notin {"INIT_SPILL", "SPILL", "RESTORE"}
      BY <1>3, RunControl
    <3> QED
      BY <3>1, <3>2, <3>3, <3>4
  <2>2. /\ swq # << >> /\ swq' = swq /\ bstate' = "NODE_HEADER"
        /\ mainQ' = << >> /\ inQ' = << >> /\ UNCHANGED <<outHead, outTail, outRow>>
        /\ asked' = << >>
    BY <2>1, RunRests
  <2>3. OutEmpty
    BY <2>1 DEF PendEmpty
  <2>4. OutEmpty'
    BY <2>2, <2>3 DEF OutEmpty, HeadRow
  <2> QED
    BY <2>2, <2>4 DEF PendEmpty, Active, RbufEmpty
<1>4. ASSUME qstate' = "RESTORE"
      PROVE  /\ asked' # << >> /\ asked'[1].op = "rd" /\ swq' # << >>
             /\ bstate' = "NODE_HEADER" /\ ct' = LineBeats - 1 - dcBeat' /\ Len(inQ') <= dcBeat'
  <2>1. CASE qstate = "INIT_RESTORE"
    <3>1. ready /\ ct' = LineBeats - 1
      BY <1>4, <2>1, RunControl
    <3>2. PendEmpty
      BY <1>1, <2>1 DEF Restores
    <3>3. /\ swq # << >> /\ swq' = swq /\ bstate' = "NODE_HEADER" /\ inQ' = << >> /\ dcBeat' = 0
          /\ asked' # << >> /\ asked'[1] = [op |-> "rd", node |-> Plain]
      BY <2>1, <3>1, <3>2, RunRests
    <3> QED
      BY <3>1, <3>3
  <2>2. CASE qstate = "RESTORE"
    <3>1. /\ asked # << >> /\ asked[1].op = "rd" /\ swq # << >>
          /\ bstate = "NODE_HEADER" /\ ct = LineBeats - 1 - dcBeat /\ Len(inQ) <= dcBeat
      BY <1>1, <2>2 DEF Restores
    <3>2. ~SpillDone(ready, b) /\ ~(Beat(b) /\ dcBeat = LineBeats - 1)
      BY <1>4, <2>2, RunControl
    <3>3. asked' # << >> /\ asked'[1] = asked[1]
      BY <3>1, <3>2, RunOldest
    <3>4. swq' = swq
      <4>1. swq' = IF SpillDone(ready, b) /\ qstate = "SPILL" THEN Append(swq, Written(ready))
                   ELSE IF SpillDone(ready, b) THEN Tail(swq) ELSE swq
        BY RunEdge
      <4> QED
        BY <3>2, <4>1
    <3>5. bstate' = "NODE_HEADER"
      <4>1. ~Header(b)
        <5>1. Beat(b) => b.kind = "rd"
          BY <2>2, RunBeat
        <5> QED
          BY <5>1 DEF Header, Beat
      <4> QED
        BY <3>1, <4>1, RunCore
    <3>6. /\ Len(inQ) \in Nat /\ Len(inQ') \in Nat /\ dcBeat \in 0 .. LineBeats - 1
          /\ Len(inQ') <= Len(inQ) + 1 /\ (~Beat(b) => Len(inQ') <= Len(inQ))
      <4>1. inQ \in Seq(Row) /\ inQ' \in Seq(Row)
        BY <1>1, RunSizes DEF BfsCoreTypes
      <4>2. Len(inQ') <= Len(inQ) + 1 /\ (~Beat(b) => Len(inQ') <= Len(inQ))
        BY <2>2, RunSizes
      <4> QED
        BY <1>1, <4>1, <4>2 DEF BfsCoreTypes
    <3>7. CASE Beat(b)
      <4>1. dcBeat' = dcBeat + 1 /\ dcBeat # LineBeats - 1
        BY <3>2, <3>7, RunControl
      <4>2. ct' = ct - 1
        <5>1. ct' = IF Beat(b) /\ ct > 0 THEN ct - 1 ELSE ct
          BY <2>2, RunControl
        <5>2. ct > 0
          BY <3>1, <3>6, <4>1
        <5> QED
          BY <3>7, <5>1, <5>2
      <4>3. ct' = LineBeats - 1 - dcBeat' /\ Len(inQ') <= dcBeat'
        BY <3>1, <3>6, <4>1, <4>2
      <4> QED
        BY <3>1, <3>3, <3>4, <3>5, <4>3
    <3>8. CASE ~Beat(b)
      <4>1. dcBeat' = dcBeat /\ ct' = ct
        BY <2>2, <3>8, RunControl
      <4> QED
        BY <3>1, <3>3, <3>4, <3>5, <3>6, <3>8, <4>1
    <3> QED
      BY <3>7, <3>8
  <2>3. qstate \in {"INIT_RESTORE", "RESTORE"}
    <3>1. qstate \in {"CORE", "INIT_SPILL", "SPILL", "INIT_RESTORE", "RESTORE"}
      BY <1>1 DEF BfsCoreTypes
    <3>2. qstate \notin {"CORE", "INIT_SPILL", "SPILL"}
      BY <1>4, RunControl
    <3> QED
      BY <3>1, <3>2
  <2> QED
    BY <2>1, <2>2, <2>3
<1> QED
  BY <1>2, <1>3, <1>4 DEF Restores

-----------------------------------------------------------------------------
(* Before the start of a search and after its end *)

Quiet ==
  /\ bstate \in {"IDLE", "INIT"} /\ neighCt \in Nat /\ bfound \in BOOLEAN
  /\ dcBeat \in 0 .. LineBeats - 1 /\ ct \in 0 .. LineBeats - 1
  /\ special \in {"unseen", "open", "answered"}
  /\ mainQ = << >> /\ inQ = << >> /\ swq = << >> /\ line = << >>
  /\ outHead = 0 /\ outTail = 0 /\ outRow = Empty /\ qstate = "CORE"
  /\ asked \in Seq(Requests) /\ (\A i \in DOMAIN asked : asked[i].op # "rd")
  /\ asked = << >> => dcBeat = 0
  /\ bstate = "INIT" => asked = << >> /\ special = "unseen"
  /\ bstate = "IDLE" /\ ~bfound => special # "open"

LEMMA EmptyRing ==
  ASSUME outHead = 0, outTail = 0, outRow = Empty
  PROVE  /\ outHead \in OutRing!Ptrs /\ outTail \in OutRing!Ptrs
         /\ outRow \in [OutRing!Slots -> (Node \cup {NoNode}) \X (Node \cup {NoNode})]
         /\ HeadRow = <<NoNode, NoNode>>
         /\ RowsAreLive
<1> USE SizeFacts
<1>1. outHead \in OutRing!Ptrs /\ outTail \in OutRing!Ptrs
  BY DEF OutRing!Ptrs
<1>2. OutRing!Dist(outHead, outTail) = 0
  BY DEF OutRing!Dist
<1>3. OutRing!Idx(outHead) \in OutRing!Slots /\ OutRing!Idx(outTail) \in OutRing!Slots
  BY <1>1, <1>2, RingFacts
<1>4. OutRing!Live(outHead, outTail) = {}
  BY <1>1, <1>2, RingFacts
<1>5. \A s \in OutRing!Slots : outRow[s] = <<NoNode, NoNode>>
  BY DEF Empty
<1>6. outRow \in [OutRing!Slots -> (Node \cup {NoNode}) \X (Node \cup {NoNode})]
  BY DEF Empty
<1>7. RowsAreLive
  BY <1>2, <1>3, <1>4, <1>5 DEF RowsAreLive, Held, TailRow
<1> QED
  BY <1>1, <1>3, <1>5, <1>6, <1>7 DEF HeadRow

LEMMA QuietIsGood == Quiet => GoodState
<1> SUFFICES ASSUME Quiet PROVE GoodState
  OBVIOUS
<1>1. /\ bstate \in {"IDLE", "INIT"} /\ neighCt \in Nat /\ bfound \in BOOLEAN
      /\ dcBeat \in 0 .. LineBeats - 1 /\ ct \in 0 .. LineBeats - 1
      /\ special \in {"unseen", "open", "answered"}
      /\ mainQ = << >> /\ inQ = << >> /\ swq = << >> /\ line = << >>
      /\ outHead = 0 /\ outTail = 0 /\ outRow = Empty /\ qstate = "CORE"
      /\ asked \in Seq(Requests) /\ (\A i \in DOMAIN asked : asked[i].op # "rd")
      /\ asked = << >> => dcBeat = 0
      /\ bstate = "INIT" => asked = << >> /\ special = "unseen"
      /\ bstate = "IDLE" /\ ~bfound => special # "open"
  BY DEF Quiet
<1>2. /\ outHead \in OutRing!Ptrs /\ outTail \in OutRing!Ptrs
      /\ outRow \in [OutRing!Slots -> (Node \cup {NoNode}) \X (Node \cup {NoNode})]
      /\ RowsAreLive
  BY <1>1, EmptyRing
<1>3. mainQ \in Seq(Row) /\ inQ \in Seq(Row) /\ line \in Seq(Node \X Node) /\ swq \in Seq(Lines)
  BY <1>1
<1>4. BfsCoreTypes
  BY <1>1, <1>2, <1>3 DEF BfsCoreTypes, Lines, Requests
<1>5. SearchStarts /\ LineIsLongEnough /\ Spills /\ Restores
  <2>1. SearchStarts
    BY <1>1 DEF SearchStarts
  <2>2. LineIsLongEnough
    BY <1>1 DEF LineIsLongEnough
  <2>3. Spills
    BY <1>1 DEF Spills
  <2>4. Restores
    BY <1>1 DEF Restores
  <2> QED
    BY <2>1, <2>2, <2>3, <2>4
<1>6. SpecialIsOnce
  <2> SUFFICES ASSUME bstate = "INIT"
               PROVE  IF special = "open" THEN \E p \in Places : Places = {p} ELSE Places = {}
    BY <1>1 DEF SpecialIsOnce
  <2>1. asked = << >> /\ special = "unseen" /\ dcBeat = 0
    BY <1>1
  <2>2. /\ OneAt(mainQ, FALSE) /\ OneAt(inQ, FALSE) /\ OneAt(line, FALSE)
    BY <1>1 DEF OneAt, At
  <2>3. OneInMemory(swq, Moved, FALSE) /\ OneAsks(Due, FALSE)
    <3>1. Due = << >>
      BY <2>1 DEF Due
    <3> QED
      BY <1>1, <3>1 DEF OneInMemory, InMemory, OneAsks, Asks
  <2>4. OneOut(outRow, FALSE)
    BY <1>1, NodesAssumption DEF OneOut, OutAt, Empty
  <2>5. Where("none")
    BY <2>2, <2>3, <2>4 DEF Where
  <2> QED
    BY <1>4, <2>1, <2>5, PlacesAre
<1> QED
  BY <1>2, <1>4, <1>5, <1>6 DEF GoodState

\* An edge that is not one of a search, or the last one of a search.
Rests(start, root, ready, b) ==
  GoodState /\ GoodEdge(start, root, ready, b) /\ (bstate = "IDLE" \/ Done(b))

LEMMA QuietCore ==
  ASSUME NEW start, NEW root, NEW ready, NEW b, Rests(start, root, ready, b)
  PROVE  /\ start \in BOOLEAN /\ ready \in BOOLEAN /\ (start => bstate = "IDLE" /\ asked = << >>)
         /\ Queue(ready, Enq(root, b), b) /\ Cache(ready, b)
         /\ special' = IF start THEN "unseen"
                       ELSE IF Header(b) /\ Head(asked).node = Special THEN "answered"
                       ELSE IF Sees(root, b) THEN "open"
                       ELSE special
         /\ Beat(b) => asked # << >> /\ asked[1] = Head(asked) /\ b.kind = Head(asked).op
         /\ Hit(b) => Beat(b) /\ b.kind = "mark" /\ dcBeat = 0
         /\ PendEmpty => asked = << >> /\ ~Beat(b) /\ bstate = "NODE_HEADER" /\ ~start
         /\ bstate' = IF start THEN "INIT" ELSE "IDLE"
         /\ neighCt' \in Nat /\ bfound' \in BOOLEAN
         /\ bfound' = (Hit(b) \/ (bfound /\ bstate # "INIT"))
         /\ dcBeat' = IF ~Beat(b) THEN dcBeat ELSE IF dcBeat = LineBeats - 1 THEN 0 ELSE dcBeat + 1
         /\ dcBeat' \in 0 .. LineBeats - 1
<1> USE SizeFacts, NodeFacts
<1>1. /\ BfsCoreTypes /\ RowsAreLive /\ SearchStarts /\ LineIsLongEnough /\ Spills /\ Restores
      /\ SpecialIsOnce
      /\ start \in BOOLEAN /\ ready \in BOOLEAN /\ root \in Node /\ b \in BeatsDue \cup {NoBeat}
      /\ (start => bstate = "IDLE") /\ BfsEdge(start, root, ready, b) /\ bfsFault' = "none"
      /\ bstate = "IDLE" \/ Done(b)
  BY DEF Rests, GoodState, GoodEdge
<1>2. /\ b.kind \in {"none", "mark", "rd"} /\ b.n \in 0 .. MaxNeighs /\ b.hit \in BOOLEAN
      /\ Beat(b) => asked # << >> /\ asked[1] = Head(asked) /\ b.kind = Head(asked).op
  BY <1>1, BeatFacts DEF Beat
<1>3. start => asked = << >>
  BY <1>1 DEF BfsEdge
<1>4. Hit(b) => Beat(b) /\ b.kind = "mark" /\ dcBeat = 0 /\ asked # << >> /\ ~start
  BY <1>2, <1>3 DEF Hit, Header, Beat
<1>5. PendEmpty => asked = << >> /\ ~Beat(b) /\ bstate = "NODE_HEADER" /\ ~start
  BY <1>1, <1>2 DEF PendEmpty, RbufEmpty, Active, LineIsLongEnough
<1>6. /\ Core(start, b) /\ Queue(ready, Enq(root, b), b) /\ Cache(ready, b)
      /\ special' = IF start THEN "unseen"
                    ELSE IF Header(b) /\ Head(asked).node = Special THEN "answered"
                    ELSE IF Sees(root, b) THEN "open"
                    ELSE special
  BY <1>1 DEF BfsEdge, Sees
<1>7. bstate' = IF start THEN "INIT" ELSE "IDLE"
  <2>0. bstate' = IF Hit(b) THEN "IDLE" ELSE
           CASE bstate = "IDLE"        -> IF start THEN "INIT" ELSE "IDLE"
             [] bstate = "INIT"        -> "NODE_HEADER"
             [] bstate = "NODE_HEADER" -> IF Done(b) THEN "IDLE"
                                          ELSE IF Header(b) /\ b.n > 0 THEN "ADD_NEIGHS" ELSE "NODE_HEADER"
             [] bstate = "ADD_NEIGHS"  -> IF neighCt <= 2 THEN "NODE_HEADER" ELSE "ADD_NEIGHS"
    BY <1>6 DEF Core
  <2>1. CASE Hit(b)
    BY <1>4, <2>0, <2>1
  <2>2. CASE ~Hit(b) /\ bstate = "IDLE"
    BY <2>0, <2>2
  <2>3. CASE ~Hit(b) /\ bstate # "IDLE"
    <3>1. Done(b) /\ PendEmpty
      BY <1>1, <2>3 DEF Done
    <3>2. bstate = "NODE_HEADER" /\ ~start
      BY <1>5, <3>1
    <3> QED
      BY <2>0, <2>3, <3>1, <3>2
  <2> QED
    BY <2>1, <2>2, <2>3
<1>8. /\ neighCt' \in Nat /\ bfound' \in BOOLEAN
      /\ bfound' = (Hit(b) \/ (bfound /\ bstate # "INIT"))
      /\ dcBeat' = IF ~Beat(b) THEN dcBeat ELSE IF dcBeat = LineBeats - 1 THEN 0 ELSE dcBeat + 1
      /\ dcBeat' \in 0 .. LineBeats - 1
  <2>1. bfound' = (Hit(b) \/ (bfound /\ bstate # "INIT"))
    BY <1>6 DEF Core
  <2>2. neighCt' = CASE bstate = "NODE_HEADER" /\ Header(b) /\ ~b.hit -> b.n
                     [] bstate = "ADD_NEIGHS" /\ neighCt > 2          -> neighCt - 2
                     [] OTHER                                         -> 0
    BY <1>6 DEF Core
  <2>3. dcBeat' = IF b.kind = "none" THEN dcBeat ELSE (dcBeat + 1) % LineBeats
    BY <1>6 DEF Core
  <2>4. dcBeat \in 0 .. LineBeats - 1 /\ neighCt \in Nat /\ b.n \in Nat
    BY <1>1, <1>2 DEF BfsCoreTypes, MaxNeighs
  <2>5. neighCt' \in Nat
    <3>1. CASE bstate = "NODE_HEADER" /\ Header(b) /\ ~b.hit
      BY <2>2, <2>4, <3>1
    <3>2. CASE bstate = "ADD_NEIGHS" /\ neighCt > 2
      <4>1. neighCt' = neighCt - 2
        BY <2>2, <3>2
      <4> QED
        BY <2>4, <3>2, <4>1
    <3>3. CASE ~(bstate = "NODE_HEADER" /\ Header(b) /\ ~b.hit) /\ ~(bstate = "ADD_NEIGHS" /\ neighCt > 2)
      BY <2>2, <3>3
    <3> QED
      BY <3>1, <3>2, <3>3
  <2>6. dcBeat' = IF ~Beat(b) THEN dcBeat ELSE IF dcBeat = LineBeats - 1 THEN 0 ELSE dcBeat + 1
    BY <2>3, <2>4, NextBeat DEF Beat
  <2>7. bfound' \in BOOLEAN
    BY <2>1
  <2> QED
    BY <2>1, <2>4, <2>5, <2>6, <2>7
<1> QED
  BY <1>1, <1>2, <1>3, <1>4, <1>5, <1>6, <1>7, <1>8

LEMMA QuietQueues ==
  ASSUME NEW start, NEW root, NEW ready, NEW b, Rests(start, root, ready, b)
  PROVE  /\ mainQ' = << >> /\ inQ' = << >> /\ swq' = << >> /\ line' = << >>
         /\ outHead' = 0 /\ outTail' = 0 /\ outRow' = Empty /\ qstate' = "CORE"
         /\ ct' \in 0 .. LineBeats - 1
<1> USE SizeFacts
<1>1. /\ BfsCoreTypes /\ RowsAreLive /\ SearchStarts /\ Spills /\ (bstate = "IDLE" \/ Done(b))
  BY DEF Rests, GoodState
<1>2. ready \in BOOLEAN /\ Queue(ready, Enq(root, b), b)
  BY QuietCore
<1>3. CASE Done(b)
  <2>1. /\ mainQ' = << >> /\ inQ' = << >> /\ outHead' = 0 /\ outTail' = 0 /\ outRow' = Empty
        /\ qstate' = "CORE" /\ ct' = 0 /\ swq' = << >> /\ line' = << >>
    BY <1>2, <1>3 DEF Queue
  <2> QED
    BY <2>1
<1>4. CASE ~Done(b)
  <2>1. /\ bstate = "IDLE" /\ mainQ = << >> /\ inQ = << >> /\ swq = << >> /\ line = << >>
        /\ outHead = 0 /\ outTail = 0 /\ outRow = Empty /\ qstate = "CORE"
    BY <1>1, <1>4 DEF SearchStarts, Spills
  <2>2. Enq(root, b) = << >>
    BY <2>1 DEF Enq
  <2>3. HeadRow = <<NoNode, NoNode>>
    BY <2>1, EmptyRing
  <2>4. OutEmpty /\ ~OutFilled /\ ~OutDeq(ready) /\ ~OutTaken(ready) /\ ~DeqReq(ready)
    <3>1. OutEmpty /\ ~OutFilled
      BY <2>3 DEF OutEmpty, OutFilled
    <3>2. ~OutDeq(ready)
      BY <2>1, <3>1 DEF OutDeq, SingleFinal
    <3> QED
      BY <2>1, <3>1, <3>2 DEF OutTaken, DeqReq
  <2>5. InRow(ready, b) = << >>
    BY <2>1, <2>4 DEF InRow
  <2>6. mainQ' = << >> /\ inQ' = << >>
    <3>1. InnerQueues(ready, << >>, b)
      BY <1>2, <1>4, <2>2 DEF Queue
    <3>2. /\ mainQ' = mainQ \o RowIn(mainQ, MainRows, << >>)
          /\ inQ' = inQ \o RowIn(inQ, BufRows, << >>)
      BY <2>4, <2>5, <3>1 DEF InnerQueues
    <3>3. mainQ' = << >> \o << >> /\ inQ' = << >> \o << >>
      BY <2>1, <3>2 DEF RowIn
    <3> QED
      BY <3>3
  <2>7. UNCHANGED <<outHead, outTail, outRow>>
    <3>1. OutQueue(ready, << >>)
      BY <1>2, <1>4, <2>2 DEF Queue
    <3> DEFINE e == << >>
    <3>2. e = << >> /\ OutQueue(ready, e)
      BY <3>1
    <3> HIDE DEF e
    <3> QED
      BY <1>1, <1>2, <2>4, <3>2, OutStep
  <2>8. /\ ~OutSat \/ ~InFull
        /\ ~PendEmpty
    BY <2>1 DEF InFull, PendEmpty, Active
  <2>9. ~Moves(ready, b) /\ ~SpillDone(ready, b)
    BY <2>1 DEF Moves, SpillDone
  <2>10. qstate' = "CORE" /\ ct' = ct
    <3>1. Control(ready, b)
      BY <1>2, <1>4 DEF Queue
    <3>2. /\ qstate' =
               CASE qstate = "CORE"         -> IF OutSat /\ InFull THEN "INIT_SPILL"
                                               ELSE IF PendEmpty THEN "INIT_RESTORE" ELSE "CORE"
                 [] qstate = "INIT_SPILL"   -> IF ready THEN "SPILL" ELSE "INIT_SPILL"
                 [] qstate = "INIT_RESTORE" -> IF ready THEN "RESTORE" ELSE "INIT_RESTORE"
                 [] qstate \in {"SPILL", "RESTORE"} -> IF SpillDone(ready, b) THEN "CORE" ELSE qstate
          /\ ct' = CASE qstate = "INIT_SPILL"   -> LineBeats - 2
                     [] qstate = "INIT_RESTORE" -> LineBeats - 1
                     [] Moves(ready, b) /\ ct > 0 -> ct - 1
                     [] OTHER                     -> ct
      BY <3>1 DEF Control
    <3> QED
      BY <2>1, <2>8, <2>9, <3>2
  <2>11. line' = << >> /\ swq' = << >>
    <3>1. ~SpillReq
      BY <2>1 DEF SpillReq
    <3>2. line' = line /\ swq' = swq
      BY <1>2, <1>4, <2>9, <3>1 DEF Queue
    <3> QED
      BY <2>1, <3>2
  <2> QED
    BY <1>1, <2>1, <2>6, <2>7, <2>10, <2>11 DEF BfsCoreTypes
<1> QED
  BY <1>3, <1>4

LEMMA QuietAsked ==
  ASSUME NEW start, NEW root, NEW ready, NEW b, Rests(start, root, ready, b)
  PROVE  /\ asked' \in Seq(Requests) /\ (\A i \in DOMAIN asked' : asked'[i].op # "rd")
         /\ asked' = << >> => dcBeat' = 0
         /\ start => asked' = << >>
<1> USE SizeFacts
<1> DEFINE r == AskedNow(ready)
           last == Beat(b) /\ dcBeat = LineBeats - 1
           kept == IF last THEN Tail(asked) ELSE asked
<1>1. /\ BfsCoreTypes /\ SearchStarts /\ LineIsLongEnough /\ Restores /\ (bstate = "IDLE" \/ Done(b))
  BY DEF Rests, GoodState
<1>2. /\ (start => bstate = "IDLE" /\ asked = << >>)
      /\ Beat(b) => asked # << >> /\ asked[1] = Head(asked) /\ b.kind = Head(asked).op
      /\ Hit(b) => Beat(b) /\ b.kind = "mark" /\ dcBeat = 0
      /\ PendEmpty => asked = << >> /\ ~Beat(b) /\ bstate = "NODE_HEADER"
      /\ dcBeat' = IF ~Beat(b) THEN dcBeat ELSE IF dcBeat = LineBeats - 1 THEN 0 ELSE dcBeat + 1
      /\ Cache(ready, b)
  BY QuietCore
<1>3. asked \in Seq(Requests)
  BY <1>1 DEF BfsCoreTypes, Requests
<1>4. asked' = kept \o r
  BY <1>2 DEF Cache, Beat, AskedNow
<1>5. qstate # "INIT_RESTORE" /\ \A i \in DOMAIN asked : asked[i].op # "rd"
  <2>1. CASE Done(b) /\ Hit(b)
    <3>1. asked # << >> /\ asked[1].op = "mark"
      BY <1>2, <2>1
    <3>2. qstate # "INIT_RESTORE" /\ qstate # "RESTORE"
      BY <1>1, <3>1 DEF Restores, PendEmpty, RbufEmpty
    <3> QED
      BY <1>1, <3>2 DEF Restores
  <2>2. CASE Done(b) /\ ~Hit(b)
    <3>1. asked = << >> /\ swq = << >>
      BY <1>2, <2>2 DEF Done
    <3> QED
      BY <1>1, <3>1 DEF Restores
  <2>3. CASE bstate = "IDLE"
    <3>1. qstate = "CORE"
      BY <1>1, <2>3 DEF SearchStarts
    <3> QED
      BY <1>1, <3>1 DEF Restores
  <2> QED
    BY <1>1, <2>1, <2>2, <2>3
<1>6. r \in Seq(Requests) /\ (\A i \in DOMAIN r : r[i].op # "rd")
  <2>1. CASE DeqReq(ready)
    <3>1. r = <<[op |-> "mark", node |-> Dequeued]>>
      BY <2>1 DEF AskedNow
    <3>2. Dequeued \in Node
      <4>1. CASE mainQ # << >>
        <5>1. mainQ \in Seq(Row)
          BY <1>1 DEF BfsCoreTypes
        <5>2. Head(mainQ)[1] \in Node
          BY <4>1, <5>1, PopFacts
        <5> QED
          BY <4>1, <5>2 DEF Dequeued
      <4>2. CASE mainQ = << >>
        <5>1. inQ # << >> /\ inQ \in Seq(Row)
          BY <1>1, <2>1, <4>2 DEF DeqReq, BfsCoreTypes
        <5>2. Head(inQ)[1] \in Node
          BY <5>1, PopFacts
        <5> QED
          BY <4>2, <5>2 DEF Dequeued
      <4> QED
        BY <4>1, <4>2
    <3> QED
      BY <3>1, <3>2 DEF Requests
  <2>2. CASE ~DeqReq(ready)
    <3>1. r = << >>
      BY <1>5, <2>2 DEF AskedNow
    <3> QED
      BY <3>1
  <2> QED
    BY <2>1, <2>2
<1> HIDE DEF r
<1>7. kept \in Seq(Requests) /\ (\A i \in DOMAIN kept : kept[i].op # "rd")
  <2>1. CASE last
    <3> DEFINE t == Tail(asked)
    <3>1. asked # << >>
      BY <1>2, <2>1
    <3>2. /\ t \in Seq(Requests) /\ DOMAIN t = 1 .. Len(t)
          /\ \A i \in DOMAIN t : t[i] = asked[i + 1] /\ i + 1 \in DOMAIN asked
      BY <1>3, <3>1
    <3> HIDE DEF t
    <3>3. \A i \in DOMAIN t : t[i].op # "rd"
      BY <1>5, <3>2
    <3>4. kept = t
      BY <2>1 DEF t
    <3> QED
      BY <3>2, <3>3, <3>4
  <2>2. CASE ~last
    BY <1>3, <1>5, <2>2
  <2> QED
    BY <2>1, <2>2
<1> HIDE DEF kept, last
<1>8. asked' \in Seq(Requests) /\ (\A i \in DOMAIN asked' : asked'[i].op # "rd")
  <2> DEFINE c == kept \o r
  <2>1. /\ c \in Seq(Requests)
        /\ \A i \in DOMAIN c : (i \in DOMAIN kept /\ c[i] = kept[i])
                                 \/ (i - Len(kept) \in DOMAIN r /\ c[i] = r[i - Len(kept)])
    BY <1>6, <1>7
  <2> HIDE DEF c
  <2>2. asked' = c
    BY <1>4 DEF c
  <2> QED
    BY <1>6, <1>7, <2>1, <2>2
<1>9. asked' = << >> => dcBeat' = 0
  <2> SUFFICES ASSUME asked' = << >> PROVE dcBeat' = 0
    OBVIOUS
  <2>1. kept = << >>
    <3>1. Len(kept \o r) = Len(kept) + Len(r) /\ Len(kept) \in Nat /\ Len(r) \in Nat
      BY <1>6, <1>7, ConcatFacts
    <3>2. Len(asked') = 0 /\ asked' = kept \o r
      BY <1>4
    <3>3. Len(kept) = 0
      <4>1. Len(kept \o r) = 0
        BY <3>2, Zenon
      <4> QED
        BY <3>1, <4>1
    <3> QED
      BY <1>7, <3>3
  <2>2. CASE last
    BY <1>2, <2>2 DEF last
  <2>3. CASE ~last
    <3>1. asked = << >>
      BY <2>1, <2>3 DEF kept
    <3>2. dcBeat = 0 /\ ~Beat(b)
      BY <1>1, <1>2, <3>1 DEF LineIsLongEnough
    <3> QED
      BY <1>2, <3>2
  <2> QED
    BY <2>2, <2>3
<1>10. start => asked' = << >>
  <2> SUFFICES ASSUME start PROVE asked' = << >>
    OBVIOUS
  <2>1. asked = << >> /\ ~Beat(b) /\ mainQ = << >> /\ inQ = << >>
    BY <1>1, <1>2 DEF SearchStarts
  <2>2. kept = << >> /\ r = << >>
    BY <1>5, <2>1 DEF kept, last, r, AskedNow, DeqReq
  <2> QED
    BY <1>4, <2>2
<1> QED
  BY <1>8, <1>9, <1>10

LEMMA QuietSpecial ==
  ASSUME NEW start, NEW root, NEW ready, NEW b, Rests(start, root, ready, b)
  PROVE  /\ special' \in {"unseen", "open", "answered"}
         /\ start => special' = "unseen"
         /\ ~start /\ ~bfound' => special' # "open"
<1>1. /\ BfsCoreTypes /\ RowsAreLive /\ SearchStarts /\ Spills /\ LineIsLongEnough /\ SpecialIsOnce
      /\ bstate = "IDLE" \/ Done(b)
  BY DEF Rests, GoodState
<1>2. /\ (start => bstate = "IDLE")
      /\ special' = IF start THEN "unseen"
                    ELSE IF Header(b) /\ Head(asked).node = Special THEN "answered"
                    ELSE IF Sees(root, b) THEN "open"
                    ELSE special
      /\ PendEmpty => asked = << >> /\ ~Beat(b) /\ bstate = "NODE_HEADER" /\ ~start
      /\ bfound' = (Hit(b) \/ (bfound /\ bstate # "INIT"))
  BY QuietCore
<1>3. special \in {"unseen", "open", "answered"}
  BY <1>1 DEF BfsCoreTypes
<1>4. special' \in {"unseen", "open", "answered"}
  BY <1>2, <1>3
<1>5. bstate \in {"IDLE", "NODE_HEADER"} => ~Sees(root, b)
  BY DEF Sees, Enq
<1>6. ASSUME ~start, ~bfound' PROVE special' # "open"
  <2>1. CASE bstate = "IDLE"
    <3>1. ~bfound
      BY <1>2, <1>6, <2>1
    <3>2. special # "open"
      BY <1>1, <2>1, <3>1 DEF SearchStarts
    <3> QED
      BY <1>2, <1>5, <1>6, <2>1, <3>2
  <2>2. CASE bstate # "IDLE"
    <3>1. PendEmpty /\ swq = << >>
      BY <1>1, <1>2, <1>6, <2>2 DEF Done
    <3>2. asked = << >> /\ ~Beat(b) /\ bstate = "NODE_HEADER" /\ mainQ = << >> /\ inQ = << >> /\ OutEmpty
      BY <1>2, <3>1 DEF PendEmpty
    <3>3. line = << >> /\ dcBeat = 0
      BY <1>1, <3>2 DEF Spills, LineIsLongEnough
    <3>4. OneAt(mainQ, FALSE) /\ OneAt(inQ, FALSE) /\ OneAt(line, FALSE)
      BY <3>2, <3>3 DEF OneAt, At
    <3>5. OneInMemory(swq, Moved, FALSE) /\ OneAsks(Due, FALSE)
      <4>1. Due = << >>
        BY <3>2, <3>3 DEF Due
      <4> QED
        BY <3>1, <4>1 DEF OneInMemory, InMemory, OneAsks, Asks
    <3>6. OneOut(outRow, FALSE)
      <4>1. outHead = outTail
        BY <1>1, <3>2, LiveRows
      <4>2. /\ outHead \in OutRing!Ptrs /\ outTail \in OutRing!Ptrs
            /\ OutRing!Dist(outHead, outTail) < BufRows
            /\ RowsAre(OutRing!Slots, OutRing!Live(outHead, outTail), OutRing!Idx(outTail), outRow)
        BY <1>1, LiveRows
      <4>3. OutRing!Live(outHead, outTail) = {}
        BY <4>1, <4>2, RingFacts
      <4>4. \A s \in OutRing!Slots : s # OutRing!Idx(outTail) => outRow[s] = <<NoNode, NoNode>>
        BY <4>2, <4>3 DEF RowsAre
      <4>5. outRow[OutRing!Idx(outTail)][1] = NoNode /\ outRow[OutRing!Idx(outTail)][2] = NoNode
        BY <3>2, <4>1, <4>2 DEF RowsAre, OutEmpty, HeadRow
      <4>6. \A s \in OutRing!Slots : outRow[s][1] = NoNode /\ outRow[s][2] = NoNode
        BY <4>4, <4>5
      <4>7. DOMAIN outRow = OutRing!Slots
        BY <4>2 DEF RowsAre
      <4> QED
        BY <4>6, <4>7, NodesAssumption DEF OneOut, OutAt
    <3>7. Where("none")
      BY <3>4, <3>5, <3>6 DEF Where
    <3>8. special # "open"
      <4>1. IF special = "open" THEN \E p \in Places : Places = {p} ELSE Places = {}
        BY <1>1, <2>2 DEF SpecialIsOnce
      <4>2. PICK part \in Parts \cup {"none"} : Where(part) /\ (part # "none" <=> special = "open")
        BY <1>1, <4>1, PlacesAre
      <4>3. part = "none"
        <5>1. (\A u \in Parts : OneIf(PartSpots(u), part = u)) /\ (\A u \in Parts : OneIf(PartSpots(u), "none" = u))
          BY <1>1, <3>7, <4>2, PartsAre
        <5>2. \A u \in Parts : PartSpots(u) = {}
          BY <5>1 DEF OneIf, Parts
        <5>3. \A u \in Parts : part # u
          BY <5>1, <5>2 DEF OneIf
        <5> QED
          BY <5>3
      <4> QED
        BY <4>2, <4>3
    <3>9. ~Header(b)
      BY <3>2 DEF Header, Beat
    <3> QED
      BY <1>2, <1>5, <1>6, <3>2, <3>8, <3>9
  <2> QED
    BY <2>1, <2>2
<1> QED
  BY <1>2, <1>4, <1>6

LEMMA QuietStep ==
  ASSUME NEW start, NEW root, NEW ready, NEW b, Rests(start, root, ready, b)
  PROVE  Quiet'
<1>1. /\ start \in BOOLEAN /\ bstate' = IF start THEN "INIT" ELSE "IDLE"
      /\ neighCt' \in Nat /\ bfound' \in BOOLEAN /\ dcBeat' \in 0 .. LineBeats - 1
  BY QuietCore
<1>2. /\ mainQ' = << >> /\ inQ' = << >> /\ swq' = << >> /\ line' = << >>
      /\ outHead' = 0 /\ outTail' = 0 /\ outRow' = Empty /\ qstate' = "CORE"
      /\ ct' \in 0 .. LineBeats - 1
  BY QuietQueues
<1>3. /\ asked' \in Seq(Requests) /\ (\A i \in DOMAIN asked' : asked'[i].op # "rd")
      /\ asked' = << >> => dcBeat' = 0
      /\ start => asked' = << >>
  BY QuietAsked
<1>4. /\ special' \in {"unseen", "open", "answered"}
      /\ start => special' = "unseen"
      /\ ~start /\ ~bfound' => special' # "open"
  BY QuietSpecial
<1>5. bstate' \in {"IDLE", "INIT"}
  BY <1>1
<1>6. bstate' = "INIT" => asked' = << >> /\ special' = "unseen"
  BY <1>1, <1>3, <1>4
<1>7. bstate' = "IDLE" /\ ~bfound' => special' # "open"
  BY <1>1, <1>4
<1> QED
  BY <1>1, <1>2, <1>3, <1>4, <1>5, <1>6, <1>7 DEF Quiet

-----------------------------------------------------------------------------
(* The theorems *)

LEMMA BfsStarts == BfsCoreInit => Quiet /\ bfsFault = "none"
<1> SUFFICES ASSUME BfsCoreInit PROVE Quiet /\ bfsFault = "none"
  OBVIOUS
<1> USE SizeFacts
<1>1. /\ bstate = "IDLE" /\ neighCt = 0 /\ bfound = FALSE /\ dcBeat = 0
      /\ mainQ = << >> /\ inQ = << >>
      /\ outHead = 0 /\ outTail = 0 /\ outRow = Empty
      /\ qstate = "CORE" /\ ct = 0
      /\ swq = << >> /\ line = << >> /\ asked = << >>
      /\ special = "unseen" /\ bfsFault = "none"
  BY DEF BfsCoreInit, Reset
<1>2. asked \in Seq(Requests) /\ (\A i \in DOMAIN asked : asked[i].op # "rd")
  <2>1. asked = << >>
    BY <1>1
  <2> QED
    BY <2>1
<1>3. 0 \in 0 .. LineBeats - 1
  OBVIOUS
<1> QED
  BY <1>1, <1>2, <1>3 DEF Quiet

LEMMA BfsRuns ==
  ASSUME NEW start, NEW root, NEW ready, NEW b, Runs(start, root, ready, b)
  PROVE  GoodState'
<1>1. BfsCoreTypes' /\ RowsAreLive' /\ SearchStarts'
  BY RunTypes
<1>2. LineIsLongEnough' /\ Spills' /\ Restores'
  BY RunLong, RunSpills, RunRestores
<1>3. SpecialIsOnce'
  <2>1. \E place \in Parts \cup {"none"} : Where(place)' /\ (place # "none" <=> special' = "open")
    BY RunPlace
  <2>2. (BfsCoreTypes =>
          ((IF special = "open" THEN \E p \in Places : Places = {p} ELSE Places = {})
            <=> \E part \in Parts \cup {"none"} : Where(part) /\ (part # "none" <=> special = "open")))'
    BY PlacesAre, PTL
  <2>3. (IF special = "open" THEN \E p \in Places : Places = {p} ELSE Places = {})'
    BY <1>1, <2>1, <2>2
  <2> QED
    BY <2>3 DEF SpecialIsOnce
<1> QED
  BY <1>1, <1>2, <1>3 DEF GoodState

LEMMA BfsSteps ==
  ASSUME BfsCoreInv, BfsCoreNext
  PROVE  BfsCoreInv'
<1>1. GoodState /\ bfsFault = "none"
  BY DEF BfsCoreInv, BfsCoreNext, BfsTick, GoodState
<1>2. SUFFICES ASSUME bfsFault' = "none" PROVE GoodState'
  BY DEF BfsCoreInv, GoodState
<1>3. PICK ready \in BOOLEAN, b \in BeatsDue \cup {NoBeat} : BfsTick(ready, b)
  BY DEF BfsCoreNext
<1>4. PICK start \in BOOLEAN, root \in {Plain, Special} :
        /\ start => bstate = "IDLE"
        /\ root = Special => bstate = "INIT"
        /\ BfsEdge(start, root, ready, b)
  BY <1>3 DEF BfsTick
<1>5. GoodEdge(start, root, ready, b)
  BY <1>2, <1>4 DEF GoodEdge, Node
<1>6. CASE bstate = "IDLE" \/ Done(b)
  <2>1. Rests(start, root, ready, b)
    BY <1>1, <1>5, <1>6 DEF Rests
  <2>2. Quiet'
    BY <2>1, QuietStep
  <2>3. (Quiet => GoodState)'
    BY QuietIsGood, PTL
  <2> QED
    BY <2>2, <2>3
<1>7. CASE bstate # "IDLE" /\ ~Done(b)
  <2>1. Runs(start, root, ready, b)
    BY <1>1, <1>5, <1>7 DEF Runs
  <2> QED
    BY <2>1, BfsRuns
<1> QED
  BY <1>6, <1>7

\* The parts of the queue hold together: what is between the pointers of the outgoing queue
\* is full and never more than it has room for, a line is spilled when there is one and read
\* back when nothing else is left, and Special is in one place while it is open.
THEOREM BfsCoreInvariant == BfsCoreSpec => []BfsCoreInv
<1>1. BfsCoreInit => BfsCoreInv
  BY BfsStarts, QuietIsGood DEF BfsCoreInv, GoodState
<1>2. BfsCoreInv /\ [BfsCoreNext]_bfsCoreVars => BfsCoreInv'
  <2> SUFFICES ASSUME BfsCoreInv, [BfsCoreNext]_bfsCoreVars PROVE BfsCoreInv'
    OBVIOUS
  <2>1. CASE BfsCoreNext
    BY <2>1, BfsSteps
  <2>2. CASE UNCHANGED bfsCoreVars
    <3>1. UNCHANGED <<bstate, neighCt, bfound, dcBeat, mainQ, inQ, outHead, outTail, outRow,
                      qstate, ct, swq, line, asked, special, marks, bfsFault>>
      BY <2>2 DEF bfsCoreVars, coreRegs, queueRegs
    <3>2. BfsCoreTypes' = BfsCoreTypes /\ RowsAreLive' = RowsAreLive /\ SearchStarts' = SearchStarts
      BY <3>1 DEF BfsCoreTypes, RowsAreLive, SearchStarts, Held, TailRow
    <3>3. LineIsLongEnough' = LineIsLongEnough /\ Spills' = Spills /\ Restores' = Restores
      BY <3>1 DEF LineIsLongEnough, Spills, Restores, Held, PendEmpty, Active, OutEmpty, HeadRow, RbufEmpty
    <3>4. Places' = Places
      BY <3>1 DEF Places, Spots, OutSpots, SwqSpots, Moved, DueSpots, Due
    <3>5. SpecialIsOnce' = SpecialIsOnce
      BY <3>1, <3>4 DEF SpecialIsOnce
    <3> QED
      BY <3>1, <3>2, <3>3, <3>5 DEF BfsCoreInv
  <2> QED
    BY <2>1, <2>2
<1> QED
  BY <1>1, <1>2, PTL DEF BfsCoreSpec

\* A node that is queued is in one place until it has been looked at, and a search ends
\* without the target only when every queued node has been.
THEOREM NodesSearched == BfsCoreSpec => []NodesAreSearched
<1>1. BfsCoreInv => NodesAreSearched
  <2> SUFFICES ASSUME BfsCoreInv, bfsFault = "none"
               PROVE  /\ Active => Cardinality(Places) = IF special = "open" THEN 1 ELSE 0
                      /\ bstate = "IDLE" /\ ~bfound => special # "open"
    BY DEF NodesAreSearched
  <2>1. SpecialIsOnce /\ SearchStarts
    BY DEF BfsCoreInv
  <2>2. ASSUME Active PROVE Cardinality(Places) = IF special = "open" THEN 1 ELSE 0
    <3>1. bstate # "IDLE"
      BY <2>2 DEF Active
    <3>2. IF special = "open" THEN \E p \in Places : Places = {p} ELSE Places = {}
      BY <2>1, <3>1 DEF SpecialIsOnce
    <3>3. CASE special = "open"
      <4>1. PICK p \in Places : Places = {p}
        BY <3>2, <3>3
      <4>2. Cardinality({p}) = 1
        BY FS_Singleton
      <4> QED
        BY <3>3, <4>1, <4>2
    <3>4. CASE special # "open"
      <4>1. Cardinality({}) = 0
        BY FS_EmptySet
      <4> QED
        BY <3>2, <3>4, <4>1
    <3> QED
      BY <3>3, <3>4
  <2>3. bstate = "IDLE" /\ ~bfound => special # "open"
    BY <2>1 DEF SearchStarts
  <2> QED
    BY <2>2, <2>3
<1> QED
  BY <1>1, BfsCoreInvariant, PTL
=============================================================================
