---------------------------- MODULE DcacheProofs ----------------------------
(***************************************************************************)
(* A load of the data cache is in one place until it is answered, and its  *)
(* answer is coherent, for every number of lines, ways, beats and load     *)
(* queue entries, and every depth of the fifo.                             *)
(***************************************************************************)
EXTENDS Dcache, FiniteSetTheorems, SequenceTheorems, TLAPS

\* Two words are a beat.
LEMMA WordsOfBeats ==
  /\ \A x \in CWords : /\ x \in Nat /\ Beat(x) \in 0 .. Beats - 1 /\ x % 2 \in {0, 1}
                       /\ 2 * Beat(x) + (x % 2) = x
  /\ \A n \in 0 .. Beats - 1 : /\ 2 * n \in CWords /\ Beat(2 * n) = n
                               /\ 2 * n + 1 \in CWords /\ Beat(2 * n + 1) = n
  /\ \A n \in Nat, x \in CWords : 2 * n + x \in CWords => Beat(2 * n + x) = n + Beat(x)
  /\ 0 \in CWords /\ 1 \in CWords
BY DcacheAssumption DEF CWords, Beat

\* Nothing is told from what is there.
LEMMA NilIsNothing ==
  /\ Nil \notin Ids /\ Nil \notin Requests0 /\ Nil \notin Reads1 /\ Nil \notin Writes1
  /\ Nil \notin Answers2 /\ Nil \notin Responses /\ Nil \notin Invs
BY NilAssumption

\* Reset is in the invariant: nothing is valid, and memory is what everybody may see.
LEMMA DcInitInv == DcInit => DcInv
<1> SUFFICES ASSUME DcInit PROVE DcInv
  OBVIOUS
<1>1. 0 \in CWords /\ Unread \in DataWords /\ NoData \in [CWords -> DataWords]
  BY WordsOfBeats DEF Unread, NoData, DataWords
<1>2. DcTypeOK
  BY <1>1, DcacheAssumption DEF DcInit, DcTypeOK, NoReq, NoMiss, EmptyBuffer, Requests0, Is
<1>3. l2q = << >> /\ InFifo = {} /\ DOMAIN l2q = {} /\ \A l, x : StoresTo(l, x) = {}
  BY DEF DcInit, InFifo, StoresTo
<1>4. MissIsServed /\ RequestsFit /\ LinesAreOnce /\ MaskIsOfStores /\ InvIsCurrent
  BY <1>1, <1>3 DEF DcInit, MissIsServed, RequestsFit, LinesAreOnce, MaskIsOfStores, InvIsCurrent,
     NoMiss, EmptyBuffer, Late
<1>5. MemoryIsSeen
  BY <1>3 DEF DcInit, MemoryIsSeen, Newest, NoReq, Is
<1>6. PlacesAreOne
  <2>1. \A i \in Ids : ~InS0(i) /\ ~InS1(i) /\ ~InS2(i) /\ \A x \in CWords : ~InReqs(i, x)
    BY NilIsNothing DEF DcInit, InS0, InS1, InS2, InReqs, NoReq, NoMiss, Is
  <2> QED
    BY <2>1 DEF DcInit, PlacesAreOne
<1>7. WaysAreGood /\ BufferIsGood /\ LoadsGetTheirs
  BY DEF DcInit, WaysAreGood, BufferIsGood, LoadsGetTheirs, Filling, Late, NoMiss, EmptyBuffer, NoReq, Is
<1> QED
  BY <1>2, <1>4, <1>5, <1>6, <1>7 DEF DcInv

-----------------------------------------------------------------------------
(* The fifo *)

\* A new request is the newest of its word, if it is a store.
LEMMA NewestAppended ==
  ASSUME l2q \in Seq(FifoReqs), NEW r \in FifoReqs, l2q' = Append(l2q, r), l2mem' = l2mem,
         NEW l, NEW x, NEW v, v \in Newest(l, x)'
  PROVE  IF ~r.read /\ r.line = l /\ r.word = x THEN v = r.ver ELSE v \in Newest(l, x)
<1> DEFINE n == Len(l2q) + 1
<1>1. /\ DOMAIN l2q' = (DOMAIN l2q) \cup {n} /\ l2q'[n] = r /\ n \notin DOMAIN l2q
      /\ \A i \in DOMAIN l2q : l2q'[i] = l2q[i] /\ i \in Nat /\ i < n
      /\ n \in Nat
  OBVIOUS
<1> HIDE DEF n
<1>2. CASE ~r.read /\ r.line = l /\ r.word = x
  <2>1. n \in StoresTo(l, x)' /\ \A j \in StoresTo(l, x)' : j <= n
    BY <1>1, <1>2 DEF StoresTo
  <2>2. PICK i \in StoresTo(l, x)' : v = l2q'[i].ver /\ \A j \in StoresTo(l, x)' : j <= i
    BY <2>1 DEF Newest
  <2>3. i \in DOMAIN l2q'
    BY DEF StoresTo
  <2>4. n <= i /\ i <= n /\ i \in Nat
    BY <1>1, <2>1, <2>2, <2>3
  <2>5. i = n
    BY <1>1, <2>4
  <2> QED
    BY <1>1, <1>2, <2>2, <2>5
<1>3. CASE ~(~r.read /\ r.line = l /\ r.word = x)
  <2>1. StoresTo(l, x)' = StoresTo(l, x)
    BY <1>1, <1>3 DEF StoresTo
  <2>2. \A i \in StoresTo(l, x) : l2q'[i] = l2q[i]
    BY <1>1 DEF StoresTo
  <2> QED
    BY <1>3, <2>1, <2>2 DEF Newest
<1> QED
  BY <1>2, <1>3

\* What the level-2 cache takes is no longer in the fifo but in memory.
LEMMA NewestTaken ==
  ASSUME l2q \in Seq(FifoReqs), L2Takes, l2mem \in [CLines -> [CWords -> Nat]],
         NEW l \in CLines, NEW x \in CWords, NEW v, v \in Newest(l, x)'
  PROVE  v \in Newest(l, x)
<1>1. /\ l2q # << >> /\ l2q' = Tail(l2q) /\ Len(l2q) \in Nat /\ Len(l2q) > 0
      /\ DOMAIN l2q = 1 .. Len(l2q) /\ DOMAIN l2q' = 1 .. Len(l2q) - 1
      /\ \A i \in 1 .. Len(l2q) - 1 : l2q'[i] = l2q[i + 1]
      /\ Head(l2q) = l2q[1] /\ l2q[1] \in FifoReqs
  BY DEF L2Takes
<1> DEFINE n == Len(l2q)
           q == l2q[1]
<1>2. \A i \in Nat : i + 1 \in StoresTo(l, x) /\ i > 0 => i \in StoresTo(l, x)'
  BY <1>1 DEF StoresTo
<1>3. \A i \in StoresTo(l, x)' : i \in Nat /\ i > 0 /\ i + 1 \in StoresTo(l, x) /\ l2q'[i] = l2q[i + 1]
  BY <1>1 DEF StoresTo
<1>4. \A i \in StoresTo(l, x) : i \in Nat /\ i >= 1
  BY <1>1 DEF StoresTo
<1>5. l2mem'[l][x] = IF ~q.read /\ q.line = l /\ q.word = x THEN q.ver ELSE l2mem[l][x]
  <2>1. q.read \in BOOLEAN /\ q.line \in CLines /\ q.word \in CWords
    BY <1>1 DEF FifoReqs
  <2> QED
    BY <1>1, <2>1 DEF L2Takes
<1>6. 1 \in StoresTo(l, x) <=> ~q.read /\ q.line = l /\ q.word = x
  BY <1>1 DEF StoresTo
<1> HIDE DEF n, q
<1>7. ASSUME StoresTo(l, x) = {} PROVE v \in Newest(l, x)
  <2>1. StoresTo(l, x)' = {}
    BY <1>3, <1>7
  <2> QED
    BY <1>5, <1>6, <1>7, <2>1 DEF Newest
<1>8. ASSUME StoresTo(l, x) # {} PROVE v \in Newest(l, x)
  <2>1. CASE StoresTo(l, x)' = {}
    <3>1. StoresTo(l, x) = {1}
      <4> SUFFICES ASSUME NEW i \in StoresTo(l, x), i # 1 PROVE FALSE
        BY <1>8
      <4>1. i - 1 \in Nat /\ i - 1 > 0 /\ (i - 1) + 1 = i
        BY <1>4
      <4> QED
        BY <1>2, <2>1, <4>1
    <3>2. v = q.ver
      BY <1>5, <1>6, <2>1, <3>1 DEF Newest
    <3> QED
      BY <3>1, <3>2 DEF Newest, q
  <2>2. CASE StoresTo(l, x)' # {}
    <3>1. PICK i \in StoresTo(l, x)' : v = l2q'[i].ver /\ \A j \in StoresTo(l, x)' : j <= i
      BY <2>2 DEF Newest
    <3>2. i \in Nat /\ i > 0 /\ i + 1 \in StoresTo(l, x) /\ v = l2q[i + 1].ver
      BY <1>3, <3>1
    <3>3. ASSUME NEW k \in StoresTo(l, x) PROVE k <= i + 1
      <4>1. CASE k = 1
        BY <3>2, <4>1
      <4>2. CASE k # 1
        <5>1. k - 1 \in Nat /\ k - 1 > 0 /\ (k - 1) + 1 = k
          BY <1>4, <4>2
        <5>2. k - 1 <= i
          BY <1>2, <3>1, <5>1
        <5> QED
          BY <3>2, <5>1, <5>2
      <4> QED
        BY <4>1, <4>2
    <3> QED
      BY <1>8, <3>2, <3>3 DEF Newest
  <2> QED
    BY <2>1, <2>2
<1> QED
  BY <1>7, <1>8

\* A read is answered with what memory has, a store changes one word of it.
LEMMA TakenParts ==
  ASSUME DcTypeOK, L2Takes
  PROVE  /\ l2q[1] \in FifoReqs /\ l2q # << >> /\ l2q' = Tail(l2q) /\ Len(l2q) \in Nat /\ Len(l2q) > 0
         /\ l2mem' \in [CLines -> [CWords -> Nat]] /\ resp' \in Responses \cup {Nil}
         /\ \/ /\ l2q[1].read /\ resp = Nil /\ l2mem' = l2mem
               /\ resp' # Nil /\ resp'.line = l2q[1].line /\ resp'.beat = 0
               /\ resp'.vers = l2mem[l2q[1].line]
            \/ /\ ~l2q[1].read /\ resp' = resp
               /\ \A l \in CLines, x \in CWords :
                    l2mem'[l][x] = IF l2q[1].line = l /\ l2q[1].word = x THEN l2q[1].ver ELSE l2mem[l][x]
<1>1. /\ l2q \in Seq(FifoReqs) /\ l2mem \in [CLines -> [CWords -> Nat]] /\ resp \in Responses \cup {Nil}
  BY DEF DcTypeOK
<1>2. /\ l2q # << >> /\ l2q' = Tail(l2q) /\ Len(l2q) \in Nat /\ Len(l2q) > 0
      /\ Head(l2q) = l2q[1] /\ l2q[1] \in FifoReqs
  BY <1>1 DEF L2Takes
<1> DEFINE q == l2q[1]
<1>3. /\ q.read \in BOOLEAN /\ q.line \in CLines /\ q.word \in CWords /\ q.ver \in Nat
  BY <1>2 DEF FifoReqs
<1>4. \/ /\ q.read /\ resp = Nil /\ l2mem' = l2mem
         /\ resp' = [line |-> q.line, beat |-> 0, vers |-> l2mem[q.line]]
      \/ ~q.read /\ resp' = resp /\ l2mem' = [l2mem EXCEPT ![q.line][q.word] = q.ver]
  BY <1>2 DEF L2Takes
<1> HIDE DEF q
<1>5. CASE q.read
  <2>1. /\ resp = Nil /\ l2mem' = l2mem /\ resp' = [line |-> q.line, beat |-> 0, vers |-> l2mem[q.line]]
    BY <1>4, <1>5
  <2>2. l2mem[q.line] \in [CWords -> Nat] /\ 0 \in 0 .. Beats - 1
    BY <1>1, <1>3, DcacheAssumption
  <2>3. resp' \in Responses
    BY <1>3, <2>1, <2>2 DEF Responses
  <2> QED
    BY <1>1, <1>2, <1>5, <2>1, <2>3, NilIsNothing DEF q
<1>6. CASE ~q.read
  <2>1. resp' = resp /\ l2mem' = [l2mem EXCEPT ![q.line] = [l2mem[q.line] EXCEPT ![q.word] = q.ver]]
    BY <1>4, <1>6
  <2>2. [l2mem[q.line] EXCEPT ![q.word] = q.ver] \in [CWords -> Nat]
    BY <1>1, <1>3
  <2>3. l2mem' \in [CLines -> [CWords -> Nat]]
    BY <1>1, <1>3, <2>1, <2>2
  <2>4. \A l \in CLines, x \in CWords :
          l2mem'[l][x] = IF q.line = l /\ q.word = x THEN q.ver ELSE l2mem[l][x]
    BY <1>1, <1>3, <2>1
  <2> QED
    BY <1>1, <1>2, <1>6, <2>1, <2>3, <2>4 DEF q
<1> QED
  BY <1>5, <1>6

\* What comes for a word that no store has been merged into was to come before.
LEMMA ComingTaken ==
  ASSUME DcTypeOK, MissIsServed, MaskIsOfStores, MemoryIsSeen, LinesAreOnce, L2Takes, Filling,
         NEW x \in CWords, x \notin mshr.wmask
  PROVE  Coming(x)' \subseteq Coming(x)
<1>1. /\ l2q \in Seq(FifoReqs) /\ l2mem \in [CLines -> [CWords -> Nat]]
      /\ UNCHANGED <<mshr, rbuf, writes>>
      /\ Beat(x) \in 0 .. Beats - 1
  BY WordsOfBeats DEF DcTypeOK, L2Takes, dcVars, dcHist
<1>2. CASE Beat(x) < rbuf.got
  BY <1>1, <1>2 DEF Coming
<1>3. CASE ~(Beat(x) < rbuf.got)
  <2>1. mshr.valid /\ mshr.line \in CLines
    BY <1>1, <1>3 DEF Filling, Late, LinesAreOnce, DcTypeOK
  <2>2. \A v : v \in Newest(mshr.line, x)' => v \in Newest(mshr.line, x)
    BY <1>1, <2>1, NewestTaken
  <2>3. CASE resp' = resp
    BY <1>1, <1>3, <2>2, <2>3 DEF Coming
  <2>4. CASE resp' # resp
    <3>1. /\ l2q # << >> /\ l2q[1].read /\ resp = Nil /\ 1 \in DOMAIN l2q
          /\ resp'.vers = l2mem[l2q[1].line] /\ resp' # Nil
      BY <1>1, <2>4, TakenParts
    <3>2. 1 \in InFifo
      BY <3>1 DEF InFifo
    <3>3. InFifo = {1} /\ l2q[1].line = mshr.line
      BY <2>1, <3>2 DEF MissIsServed
    <3>4. StoresTo(mshr.line, x) = {}
      <4> SUFFICES ASSUME NEW i \in StoresTo(mshr.line, x) PROVE FALSE
        OBVIOUS
      <4>1. i \in DOMAIN l2q /\ ~l2q[i].read /\ l2q[i].line = mshr.line /\ l2q[i].word = x
        BY DEF StoresTo
      <4>2. 1 < i
        BY <1>1, <3>1, <4>1
      <4> QED
        BY <2>1, <3>1, <4>1, <4>2 DEF MaskIsOfStores
    <3>5. l2mem[mshr.line][x] \in 0 .. writes
      BY <1>1, <2>1 DEF MemoryIsSeen
    <3>6. l2mem[mshr.line][x] \in Newest(mshr.line, x)
      BY <3>4 DEF Newest
    <3>7. Coming(x)' \subseteq {DataWord(mshr.line, x, l2mem[mshr.line][x])}
      BY <1>1, <1>3, <3>1, <3>3 DEF Coming
    <3>8. DataWord(mshr.line, x, l2mem[mshr.line][x]) \in Coming(x)
      BY <1>3, <3>1, <3>5, <3>6 DEF Coming
    <3> QED
      BY <3>7, <3>8
  <2> QED
    BY <2>3, <2>4
<1> QED
  BY <1>2, <1>3

\* The level-2 cache takes a request: it reads the line with all the stores before the read.
LEMMA TakesInv ==
  ASSUME DcInv, dcfault = {}, L2Takes
  PROVE  DcInv'
<1>1. /\ DcTypeOK /\ MissIsServed /\ RequestsFit /\ LinesAreOnce /\ MaskIsOfStores
      /\ MemoryIsSeen /\ InvIsCurrent /\ PlacesAreOne /\ WaysAreGood /\ BufferIsGood /\ LoadsGetTheirs
  BY DEF DcInv
<1>2. /\ UNCHANGED <<s0, s1, s1w, s2, tagmem, datamem, mshr, rbuf, inv, writes, seen, goal, dcfault>>
      /\ l2q # << >> /\ l2q' = Tail(l2q)
  BY DEF L2Takes, dcVars, dcHist
<1>3. /\ l2q \in Seq(FifoReqs) /\ l2mem \in [CLines -> [CWords -> Nat]]
      /\ Len(l2q) \in Nat /\ Len(l2q) > 0 /\ l2q' \in Seq(FifoReqs)
      /\ DOMAIN l2q = 1 .. Len(l2q) /\ DOMAIN l2q' = 1 .. Len(l2q) - 1
      /\ \A i \in 1 .. Len(l2q) - 1 : l2q'[i] = l2q[i + 1]
      /\ Head(l2q) = l2q[1] /\ l2q[1] \in FifoReqs
  BY <1>1, <1>2 DEF DcTypeOK
<1>4. /\ l2q[1].read \in BOOLEAN /\ l2q[1].line \in CLines /\ l2q[1].word \in CWords
      /\ l2q[1].ver \in Nat
  BY <1>3 DEF FifoReqs
<1>5. \/ /\ l2q[1].read /\ resp = Nil /\ l2mem' = l2mem
         /\ resp' # Nil /\ resp'.line = l2q[1].line /\ resp'.beat = 0
      \/ /\ ~l2q[1].read /\ resp' = resp
         /\ \A l \in CLines, x \in CWords :
              l2mem'[l][x] = IF l2q[1].line = l /\ l2q[1].word = x THEN l2q[1].ver ELSE l2mem[l][x]
  BY <1>1, TakenParts
<1>6. \A i \in DOMAIN l2q' : i + 1 \in DOMAIN l2q /\ l2q'[i] = l2q[i + 1] /\ i \in Nat
  BY <1>3
<1>t. DcTypeOK'
  <2>1. /\ l2mem' \in [CLines -> [CWords -> Nat]] /\ resp' \in Responses \cup {Nil}
    BY <1>1, TakenParts
  <2> QED
    BY <1>1, <1>2, <1>3, <2>1 DEF DcTypeOK, Is
<1>a. MissIsServed'
  <2>1. CASE l2q[1].read
    <3>1. 1 \in InFifo
      BY <1>3, <2>1 DEF InFifo
    <3>2. mshr.valid /\ InFifo = {1} /\ l2q[1].line = mshr.line /\ rbuf.got = 0
      BY <1>1, <3>1 DEF MissIsServed
    <3>3. InFifo' = {}
      <4> SUFFICES ASSUME NEW i \in InFifo' PROVE FALSE
        OBVIOUS
      <4>1. i \in DOMAIN l2q' /\ l2q'[i].read
        BY DEF InFifo
      <4>2. i + 1 \in InFifo /\ i \in Nat /\ i > 0
        BY <1>3, <1>6, <4>1 DEF InFifo
      <4> QED
        BY <3>2, <4>2
    <3>4. resp' # Nil /\ resp'.line = mshr.line /\ resp'.beat = 0
      BY <1>5, <2>1, <3>2
    <3> QED
      BY <1>1, <1>2, <3>2, <3>3, <3>4 DEF MissIsServed
  <2>2. CASE ~l2q[1].read
    <3>1. resp' = resp
      BY <1>5, <2>2
    <3>2. CASE InFifo = {}
      <4>1. InFifo' = {}
        <5> SUFFICES ASSUME NEW i \in InFifo' PROVE FALSE
          OBVIOUS
        <5>1. i \in DOMAIN l2q' /\ l2q'[i].read
          BY DEF InFifo
        <5>2. i + 1 \in InFifo
          BY <1>6, <5>1 DEF InFifo
        <5> QED
          BY <3>2, <5>2
      <4> QED
        BY <1>1, <1>2, <3>1, <3>2, <4>1 DEF MissIsServed
    <3>3. CASE InFifo # {}
      <4>1. PICK i \in InFifo : InFifo = {i} /\ l2q[i].line = mshr.line /\ mshr.valid /\ resp = Nil
                                /\ rbuf.got = 0
        BY <1>1, <3>3 DEF MissIsServed
      <4>2. i \in 1 .. Len(l2q) /\ i # 1 /\ l2q[i].read
        BY <1>3, <2>2, <4>1 DEF InFifo
      <4>3. i - 1 \in DOMAIN l2q' /\ l2q'[i - 1] = l2q[i]
        <5>1. i - 1 \in 1 .. Len(l2q) - 1 /\ (i - 1) + 1 = i
          BY <1>3, <4>2
        <5> QED
          BY <1>3, <5>1
      <4>4. InFifo' = {i - 1}
        <5>1. i - 1 \in InFifo'
          BY <4>2, <4>3 DEF InFifo
        <5>2. ASSUME NEW j \in InFifo' PROVE j = i - 1
          <6>1. j \in DOMAIN l2q' /\ l2q'[j].read
            BY DEF InFifo
          <6>2. j + 1 \in InFifo /\ j \in Nat
            BY <1>6, <6>1 DEF InFifo
          <6> QED
            BY <4>1, <6>2
        <5> QED
          BY <5>1, <5>2
      <4>5. \E k \in InFifo' : InFifo' = {k} /\ l2q'[k].line = mshr.line
        BY <4>1, <4>3, <4>4
      <4> QED
        BY <1>1, <1>2, <3>1, <4>1, <4>5 DEF MissIsServed
    <3> QED
      BY <3>2, <3>3
  <2> QED
    BY <1>4, <2>1, <2>2
<1>b. RequestsFit' /\ LinesAreOnce'
  BY <1>1, <1>2 DEF RequestsFit, LinesAreOnce, Late
<1>c. MaskIsOfStores'
  <2>1. ASSUME mshr.valid, NEW i \in DOMAIN l2q', NEW j \in DOMAIN l2q', l2q'[i].read, i < j,
               l2q'[j].line = mshr.line
        PROVE  l2q'[j].word \in mshr.wmask
    <3>1. /\ i + 1 \in DOMAIN l2q /\ l2q[i + 1].read /\ j + 1 \in DOMAIN l2q /\ l2q[j + 1].line = mshr.line
          /\ l2q'[j] = l2q[j + 1] /\ i \in Nat /\ j \in Nat
      BY <1>6, <2>1
    <3>2. i + 1 < j + 1
      BY <2>1, <3>1
    <3> QED
      BY <1>1, <2>1, <3>1, <3>2 DEF MaskIsOfStores
  <2> QED
    BY <1>1, <1>2, <2>1 DEF MaskIsOfStores, Is
<1>d. MemoryIsSeen'
  <2>1. \A l \in CLines, x \in CWords : \A v : v \in Newest(l, x)' => v \in Newest(l, x)
    BY <1>3, NewestTaken
  <2>2. \A l \in CLines, x \in CWords : l2mem'[l][x] <= writes
    <3>1. l2q[1].ver <= writes /\ \A l \in CLines, x \in CWords : l2mem[l][x] <= writes
      BY <1>1, <1>3 DEF MemoryIsSeen
    <3> QED
      BY <1>5, <3>1
  <2>3. \A i \in DOMAIN l2q' : l2q'[i].ver <= writes
    BY <1>1, <1>6 DEF MemoryIsSeen
  <2> QED
    BY <1>1, <1>2, <2>1, <2>2, <2>3 DEF MemoryIsSeen, Is
<1>e. InvIsCurrent'
  <2> SUFFICES ASSUME inv # Nil
               PROVE  /\ inv.from = l2mem'[inv.line]
                      /\ ~(Is("store") /\ s0.line = inv.line)
                      /\ \A i \in DOMAIN l2q' : l2q'[i].read \/ l2q'[i].line # inv.line
    BY <1>2 DEF InvIsCurrent, Is
  <2>1. inv.line \in CLines
    BY <1>1 DEF DcTypeOK, Invs
  <2>2. l2mem'[inv.line] = l2mem[inv.line]
    <3>1. l2q[1].read \/ l2q[1].line # inv.line
      BY <1>1, <1>3 DEF InvIsCurrent
    <3>2. l2mem'[inv.line] \in [CWords -> Nat] /\ l2mem[inv.line] \in [CWords -> Nat]
      BY <1>1, <1>3, <2>1, TakenParts
    <3>3. \A x \in CWords : l2mem'[inv.line][x] = l2mem[inv.line][x]
      BY <1>5, <2>1, <3>1
    <3> QED
      BY <3>2, <3>3
  <2> QED
    BY <1>1, <1>6, <2>2 DEF InvIsCurrent
<1>f. PlacesAreOne'
  BY <1>1, <1>2 DEF PlacesAreOne, InS0, InS1, InS2, InReqs, Is
<1>g. WaysAreGood' /\ LoadsGetTheirs'
  <2>1. ASSUME Filling, NEW x \in CWords, x \notin mshr.wmask PROVE Coming(x)' \subseteq Coming(x)
    BY <1>1, <2>1, ComingTaken
  <2>2. \A l, x, d : (Good(l, x, d)' <=> Good(l, x, d)) /\ (\A w : Kept(w, x)' = Kept(w, x))
                     /\ (Lacks(x)' <=> Lacks(x)) /\ Allowed(l, x)' = Allowed(l, x)
    BY <1>2 DEF Good, Changing, Allowed, Kept, Lacks
  <2>3. Filling' <=> Filling
    BY <1>2 DEF Filling, Late
  <2>4. \A x : Lacks(x) => x \notin mshr.wmask
    BY DEF Lacks
  <2>5. WaysAreGood'
    <3>1. ASSUME Filling, NEW x \in CWords
          PROVE  IF Lacks(x)' THEN \A d \in Coming(x)' : Good(mshr.line, x, d)'
                 ELSE Good(mshr.line, x, Kept(mshr.way, x))'
      <4>1. CASE Lacks(x)
        <5>1. Lacks(x)' /\ Coming(x)' \subseteq Coming(x)
          BY <2>1, <2>2, <2>4, <3>1, <4>1
        <5>2. \A d \in Coming(x) : Good(mshr.line, x, d)
          BY <1>1, <3>1, <4>1 DEF WaysAreGood
        <5>3. ASSUME NEW d \in Coming(x)' PROVE Good(mshr.line, x, d)'
          <6>1. Good(mshr.line, x, d)
            BY <5>1, <5>2, <5>3
          <6> QED
            BY <1>2, <6>1 DEF Good, Changing, Allowed
        <5> QED
          BY <5>1, <5>3
      <4>2. CASE ~Lacks(x)
        <5>1. Good(mshr.line, x, Kept(mshr.way, x))
          BY <1>1, <3>1, <4>2 DEF WaysAreGood
        <5>2. Good(mshr.line, x, Kept(mshr.way, x))'
          BY <1>2, <5>1 DEF Good, Changing, Allowed, Kept
        <5> QED
          BY <2>2, <4>2, <5>2
      <4> QED
        BY <4>1, <4>2
    <3>2. ASSUME NEW w \in Ways, NEW x \in CWords, tagmem[w].valid,
                 ~(Filling /\ w = mshr.way /\ tagmem[w].line = mshr.line)
          PROVE  Good(tagmem[w].line, x, Kept(w, x))'
      <4>1. Good(tagmem[w].line, x, Kept(w, x))
        BY <1>1, <3>2 DEF WaysAreGood
      <4> QED
        BY <1>2, <4>1 DEF Good, Changing, Allowed, Kept
    <3> QED
      BY <1>2, <2>3, <3>1, <3>2 DEF WaysAreGood
  <2>6. LoadsGetTheirs'
    <3>1. ASSUME NEW x \in CWords, NEW w \in CWords, mshr.reqs[x] # Nil, ~mshr.obsolete,
                 w = 2 * rbuf.got + x
          PROVE  Coming(w)' \subseteq goal[mshr.reqs[x]]
      <4>1. Filling
        BY <1>1, <3>1 DEF RequestsFit, Filling
      <4>2. w \notin mshr.wmask /\ Coming(w) \subseteq goal[mshr.reqs[x]]
        BY <1>1, <3>1 DEF LoadsGetTheirs
      <4>3. Coming(w)' \subseteq Coming(w)
        BY <2>1, <4>1, <4>2
      <4> QED
        BY <4>2, <4>3
    <3> QED
      BY <1>1, <1>2, <3>1 DEF LoadsGetTheirs, Is, Allowed
  <2> QED
    BY <2>5, <2>6
<1>h. BufferIsGood'
  BY <1>1, <1>2 DEF BufferIsGood, Good, Changing, Allowed
<1> QED
  BY <1>t, <1>a, <1>b, <1>c, <1>d, <1>e, <1>f, <1>g, <1>h DEF DcInv

-----------------------------------------------------------------------------
(* Another master writes *)

\* Another master writes: its version may be returned from now on, and the old ones until the
\* invalidation has been accepted.
LEMMA OtherInv ==
  ASSUME DcInv, dcfault = {}, OtherWrites
  PROVE  DcInv'
<1>1. /\ DcTypeOK /\ MissIsServed /\ RequestsFit /\ LinesAreOnce /\ MaskIsOfStores
      /\ MemoryIsSeen /\ InvIsCurrent /\ PlacesAreOne /\ WaysAreGood /\ BufferIsGood /\ LoadsGetTheirs
  BY DEF DcInv
<1>2. PICK l \in CLines, x \in CWords :
        /\ ~(Is("store") /\ s0.line = l)
        /\ \A i \in DOMAIN l2q : l2q[i].read \/ l2q[i].line # l
        /\ l2mem' = [l2mem EXCEPT ![l][x] = writes + 1]
        /\ inv' = [line |-> l, from |-> l2mem'[l]]
        /\ seen' = [seen EXCEPT ![l][x] = @ \cup {writes + 1}]
        /\ goal' = [i \in Ids |-> IF \E v \in 0 .. writes : DataWord(l, x, v) \in goal[i]
                                  THEN goal[i] \cup {DataWord(l, x, writes + 1)} ELSE goal[i]]
  BY DEF OtherWrites
<1>3. /\ UNCHANGED <<s0, s1, s1w, s2, tagmem, datamem, mshr, rbuf, l2q, resp, dcfault>>
      /\ writes' = writes + 1 /\ writes \in Nat /\ inv = Nil
  BY <1>1 DEF OtherWrites, dcVars, DcTypeOK
<1>4. /\ l2mem' \in [CLines -> [CWords -> Nat]]
      /\ \A k \in CLines, y \in CWords :
           l2mem'[k][y] = IF k = l /\ y = x THEN writes + 1 ELSE l2mem[k][y]
  <2>1. l2mem' = [l2mem EXCEPT ![l] = [l2mem[l] EXCEPT ![x] = writes + 1]]
    BY <1>2
  <2>2. l2mem \in [CLines -> [CWords -> Nat]]
    BY <1>1 DEF DcTypeOK
  <2>3. [l2mem[l] EXCEPT ![x] = writes + 1] \in [CWords -> Nat]
    BY <1>3, <2>2
  <2> QED
    BY <2>1, <2>2, <2>3
<1>5. /\ seen' \in [CLines -> [CWords -> SUBSET (0 .. writes')]]
      /\ \A k \in CLines, y \in CWords :
           seen'[k][y] = IF k = l /\ y = x THEN seen[k][y] \cup {writes + 1} ELSE seen[k][y]
  <2>1. seen' = [seen EXCEPT ![l] = [seen[l] EXCEPT ![x] = seen[l][x] \cup {writes + 1}]]
    BY <1>2
  <2>2. seen \in [CLines -> [CWords -> SUBSET (0 .. writes')]] /\ writes + 1 \in 0 .. writes'
    <3>1. 0 .. writes \subseteq 0 .. writes' /\ writes + 1 \in 0 .. writes'
      BY <1>3
    <3>2. seen \in [CLines -> [CWords -> SUBSET (0 .. writes)]]
      BY <1>1 DEF DcTypeOK
    <3> QED
      BY <3>1, <3>2
  <2>3. [seen[l] EXCEPT ![x] = seen[l][x] \cup {writes + 1}] \in [CWords -> SUBSET (0 .. writes')]
    BY <2>2
  <2> QED
    BY <2>1, <2>2, <2>3
<1>6. /\ goal \in [Ids -> SUBSET (CLines \X CWords \X (0 .. writes))]
      /\ goal' \in [Ids -> SUBSET (CLines \X CWords \X (0 .. writes'))]
      /\ \A i \in Ids : goal[i] \subseteq goal'[i] /\ (goal'[i] = {} <=> goal[i] = {})
      /\ \A i \in Ids : (\E v \in 0 .. writes : DataWord(l, x, v) \in goal[i]) =>
                          DataWord(l, x, writes + 1) \in goal'[i]
      /\ \A i \in Ids : \A k, y, v : DataWord(k, y, v) \in goal'[i] =>
           DataWord(k, y, v) \in goal[i] \/ (k = l /\ y = x)
  <2>1. goal \in [Ids -> SUBSET (CLines \X CWords \X (0 .. writes))]
    BY <1>1 DEF DcTypeOK
  <2>2. DataWord(l, x, writes + 1) \in CLines \X CWords \X (0 .. writes')
    BY <1>3 DEF DataWord
  <2>3. CLines \X CWords \X (0 .. writes) \subseteq CLines \X CWords \X (0 .. writes')
    BY <1>3
  <2>4. \A k, y, v : DataWord(k, y, v) = DataWord(l, x, writes + 1) => k = l /\ y = x
    BY DEF DataWord
  <2>5. \A i \in Ids : goal'[i] = IF \E v \in 0 .. writes : DataWord(l, x, v) \in goal[i]
                                  THEN goal[i] \cup {DataWord(l, x, writes + 1)} ELSE goal[i]
    BY <1>2
  <2>6. goal' \in [Ids -> SUBSET (CLines \X CWords \X (0 .. writes'))]
    BY <1>2, <2>1, <2>2, <2>3
  <2> QED
    BY <2>1, <2>4, <2>5, <2>6
<1>7. \A k \in CLines, y \in CWords :
        Newest(k, y)' = IF k = l /\ y = x THEN {writes + 1} ELSE Newest(k, y)
  <2> SUFFICES ASSUME NEW k \in CLines, NEW y \in CWords
               PROVE  Newest(k, y)' = IF k = l /\ y = x THEN {writes + 1} ELSE Newest(k, y)
    OBVIOUS
  <2>1. StoresTo(k, y)' = StoresTo(k, y)
    BY <1>3 DEF StoresTo
  <2>2. k = l => StoresTo(k, y) = {}
    BY <1>2 DEF StoresTo
  <2>3. CASE k = l /\ y = x
    BY <1>4, <2>1, <2>2, <2>3 DEF Newest
  <2>4. CASE ~(k = l /\ y = x)
    BY <1>3, <1>4, <2>1, <2>4 DEF Newest
  <2> QED
    BY <2>3, <2>4
<1>t. DcTypeOK'
  <2>1. inv' \in Invs
    BY <1>2, <1>4 DEF Invs
  <2> QED
    BY <1>1, <1>3, <1>4, <1>5, <1>6, <2>1 DEF DcTypeOK, Is
<1>a. MissIsServed' /\ RequestsFit' /\ LinesAreOnce' /\ MaskIsOfStores'
  BY <1>1, <1>3 DEF MissIsServed, RequestsFit, LinesAreOnce, MaskIsOfStores, InFifo, Late, Is
<1>b. MemoryIsSeen'
  <2>1. ASSUME NEW k \in CLines, NEW y \in CWords
        PROVE  /\ seen'[k][y] # {} /\ l2mem'[k][y] <= writes'
               /\ ~(Is("store") /\ s0.line = k /\ s0.word = y) => Newest(k, y)' \subseteq seen'[k][y]
    <3>1. l2mem[k][y] \in Nat /\ l2mem[k][y] <= writes /\ seen[k][y] # {}
      BY <1>1 DEF MemoryIsSeen, DcTypeOK
    <3>2. ~(Is("store") /\ s0.line = k /\ s0.word = y) => Newest(k, y) \subseteq seen[k][y]
      BY <1>1 DEF MemoryIsSeen
    <3>3. l2mem'[k][y] <= writes'
      BY <1>3, <1>4, <3>1
    <3>4. seen[k][y] \subseteq seen'[k][y] /\ (k = l /\ y = x => writes + 1 \in seen'[k][y])
      BY <1>5
    <3>5. Newest(k, y)' = IF k = l /\ y = x THEN {writes + 1} ELSE Newest(k, y)
      BY <1>7
    <3> QED
      BY <3>1, <3>2, <3>3, <3>4, <3>5
  <2>2. ASSUME Is("store") PROVE s0.ver \in seen'[s0.line][s0.word]
    <3>1. s0.line \in CLines /\ s0.word \in CWords
      BY <1>1, <2>2 DEF DcTypeOK, Is, Requests0
    <3> QED
      BY <1>1, <1>5, <2>2, <3>1 DEF MemoryIsSeen
  <2>3. ASSUME NEW i \in DOMAIN l2q PROVE l2q[i].ver <= writes'
    <3>1. l2q[i].ver <= writes /\ l2q[i].ver \in Nat
      <4>1. l2q[i] \in FifoReqs /\ l2q[i].ver <= writes
        BY <1>1 DEF MemoryIsSeen, DcTypeOK
      <4> QED
        BY <4>1 DEF FifoReqs
    <3> QED
      BY <1>3, <3>1
  <2> QED
    BY <1>3, <2>1, <2>2, <2>3 DEF MemoryIsSeen, Is
<1>c. InvIsCurrent'
  BY <1>2, <1>3 DEF InvIsCurrent, Is
<1>d. PlacesAreOne'
  BY <1>1, <1>3, <1>6 DEF PlacesAreOne, InS0, InS1, InS2, InReqs, Is
<1>e. \A k, y : (Changing(k, y)' <=> Changing(k, y)) /\ (Lacks(y)' <=> Lacks(y))
  BY <1>3 DEF Changing, Lacks
<1>f. \A k \in CLines, y \in CWords : Allowed(k, y) \subseteq Allowed(k, y)'
  BY <1>5 DEF Allowed
<1>g. Filling' <=> Filling
  BY <1>3 DEF Filling, Late
<1>h. \A y \in CWords : mshr.valid =>
        \A d \in Coming(y)' : \/ d \in Coming(y)
                              \/ mshr.line = l /\ y = x /\ d = DataWord(l, x, writes + 1)
  <2> SUFFICES ASSUME NEW y \in CWords, mshr.valid, NEW d \in Coming(y)'
               PROVE  d \in Coming(y) \/ (mshr.line = l /\ y = x /\ d = DataWord(l, x, writes + 1))
    OBVIOUS
  <2>1. mshr.line \in CLines
    BY <1>1 DEF DcTypeOK
  <2> QED
    BY <1>3, <1>7, <2>1 DEF Coming
<1>i. \A y \in CWords : Filling /\ ~mshr.valid => Coming(y)' = Coming(y)
  <2> SUFFICES ASSUME NEW y \in CWords, Filling, ~mshr.valid PROVE Coming(y)' = Coming(y)
    OBVIOUS
  <2>1. Beat(y) < rbuf.got
    <3>1. rbuf.got = Beats
      BY <1>1 DEF Filling, LinesAreOnce
    <3>2. Beat(y) \in 0 .. Beats - 1
      BY WordsOfBeats
    <3> QED
      BY <3>1, <3>2, DcacheAssumption
  <2> QED
    BY <1>3, <2>1 DEF Coming
<1>j. WaysAreGood'
  <2>1. ASSUME NEW w \in Ways, NEW y \in CWords, tagmem[w].valid,
               ~(Filling /\ w = mshr.way /\ tagmem[w].line = mshr.line)
        PROVE  Good(tagmem[w].line, y, Kept(w, y))'
    <3>1. Good(tagmem[w].line, y, Kept(w, y)) /\ tagmem[w].line \in CLines
      BY <1>1, <2>1 DEF WaysAreGood, LinesAreOnce
    <3> QED
      BY <1>3, <1>f, <3>1 DEF Good, Changing, Kept
  <2>2. ASSUME Filling, NEW y \in CWords
        PROVE  IF Lacks(y) THEN \A d \in Coming(y)' : Good(mshr.line, y, d)'
               ELSE Good(mshr.line, y, Kept(mshr.way, y))'
    <3>1. mshr.line \in CLines
      BY <1>1, <2>2 DEF Filling, LinesAreOnce, DcTypeOK
    <3>2. \A d : Good(mshr.line, y, d) => Good(mshr.line, y, d)'
      BY <1>3, <1>f, <3>1 DEF Good, Changing
    <3>3. ASSUME Lacks(y), NEW d \in Coming(y)' PROVE Good(mshr.line, y, d)'
      <4>1. CASE d \in Coming(y)
        BY <1>1, <2>2, <3>2, <3>3, <4>1 DEF WaysAreGood
      <4>2. CASE d \notin Coming(y)
        <5>1. mshr.line = l /\ y = x /\ d = DataWord(l, x, writes + 1)
          BY <1>h, <1>i, <2>2, <3>3, <4>2
        <5>2. writes + 1 \in seen'[l][x]
          BY <1>5
        <5> QED
          BY <1>3, <5>1, <5>2 DEF Good, Allowed
      <4> QED
        BY <4>1, <4>2
    <3>4. ASSUME ~Lacks(y) PROVE Good(mshr.line, y, Kept(mshr.way, y))'
      <4>1. Good(mshr.line, y, Kept(mshr.way, y))
        BY <1>1, <2>2, <3>4 DEF WaysAreGood
      <4> QED
        BY <1>3, <1>f, <3>1, <4>1 DEF Good, Changing, Kept
    <3> QED
      BY <3>3, <3>4
  <2>3. \A w \in Ways, y \in CWords : tagmem'[w] = tagmem[w] /\ mshr' = mshr
    BY <1>3
  <2> QED
    BY <1>3, <1>e, <1>g, <2>1, <2>2 DEF WaysAreGood
<1>l. BufferIsGood'
  <2>1. mshr.valid => mshr.line \in CLines
    BY <1>1 DEF DcTypeOK
  <2> QED
    BY <1>1, <1>3, <1>f, <2>1 DEF BufferIsGood, Good, Changing
<1>k. LoadsGetTheirs'
  <2>1. ASSUME Is("load") PROVE Allowed(s0.line, s0.word)' \subseteq goal'[s0.id]
    <3>1. /\ s0.line \in CLines /\ s0.word \in CWords /\ s0.id \in Ids
          /\ Allowed(s0.line, s0.word) \subseteq goal[s0.id]
          /\ seen[s0.line][s0.word] # {}
      BY <1>1, <2>1 DEF DcTypeOK, Is, Requests0, LoadsGetTheirs, MemoryIsSeen
    <3>2. ASSUME NEW v \in seen'[s0.line][s0.word] PROVE DataWord(s0.line, s0.word, v) \in goal'[s0.id]
      <4>1. CASE v \in seen[s0.line][s0.word]
        BY <1>6, <3>1, <4>1 DEF Allowed
      <4>2. CASE v \notin seen[s0.line][s0.word]
        <5>1. s0.line = l /\ s0.word = x /\ v = writes + 1
          <6>1. seen'[s0.line][s0.word] = IF s0.line = l /\ s0.word = x
                                          THEN seen[s0.line][s0.word] \cup {writes + 1}
                                          ELSE seen[s0.line][s0.word]
            BY <1>5, <3>1
          <6> QED
            BY <3>2, <4>2, <6>1
        <5>2. PICK u \in seen[l][x] : TRUE
          BY <3>1, <5>1
        <5>3. u \in 0 .. writes
          BY <1>1, <5>2 DEF DcTypeOK
        <5>4. DataWord(l, x, u) \in goal[s0.id]
          BY <3>1, <5>1, <5>2 DEF Allowed
        <5> QED
          BY <1>6, <3>1, <5>1, <5>3, <5>4
      <4> QED
        BY <4>1, <4>2
    <3> QED
      BY <1>3, <3>2 DEF Allowed
  <2>2. ASSUME NEW y \in CWords, NEW w \in CWords, mshr.reqs[y] # Nil, ~mshr.obsolete, w = 2 * rbuf.got + y
        PROVE  /\ w \notin mshr.wmask /\ Coming(w)' \subseteq goal'[mshr.reqs[y]]
               /\ \E v \in 0 .. writes' : DataWord(mshr.line, w, v) \in goal'[mshr.reqs[y]]
    <3>1. /\ mshr.valid /\ w \notin mshr.wmask /\ Coming(w) \subseteq goal[mshr.reqs[y]]
          /\ \E v \in 0 .. writes : DataWord(mshr.line, w, v) \in goal[mshr.reqs[y]]
          /\ mshr.reqs[y] \in Ids
      BY <1>1, <2>2 DEF RequestsFit, LoadsGetTheirs, DcTypeOK
    <3>2. goal[mshr.reqs[y]] \subseteq goal'[mshr.reqs[y]]
      BY <1>6, <3>1
    <3>3. ASSUME NEW d \in Coming(w)' PROVE d \in goal'[mshr.reqs[y]]
      BY <1>6, <1>h, <3>1, <3>2, <3>3
    <3>4. 0 .. writes \subseteq 0 .. writes'
      BY <1>3
    <3> QED
      BY <3>1, <3>2, <3>3, <3>4
  <2>3. ASSUME Is("store"), NEW i \in Ids, NEW v \in 0 .. writes'
        PROVE  DataWord(s0.line, s0.word, v) \notin goal'[i]
    <3>1. \A u \in 0 .. writes : DataWord(s0.line, s0.word, u) \notin goal[i]
      BY <1>1, <2>3 DEF LoadsGetTheirs
    <3>2. \A k, y, u : DataWord(k, y, u) \in goal[i] => u \in 0 .. writes
      BY <1>6 DEF DataWord
    <3> QED
      BY <1>2, <1>6, <2>3, <3>1, <3>2
  <2>4. s1 # Nil => s1.id \in Ids
    BY <1>1 DEF DcTypeOK, Reads1
  <2>5. s2 # Nil => s2.id \in Ids
    BY <1>1 DEF DcTypeOK, Answers2
  <2>6. /\ s1 # Nil /\ ~s1.forward => datamem[s1.way][s1.word] \in goal'[s1.id]
        /\ s1 # Nil /\ s1.forward => /\ rbuf.data[s1.word] \in goal'[s1.id]
                                     /\ mshr.valid => Beat(s1.word) < rbuf.got
        /\ s2 # Nil => s2.data \in goal'[s2.id]
    BY <1>1, <1>6, <2>4, <2>5 DEF LoadsGetTheirs
  <2> QED
    BY <1>3, <2>1, <2>2, <2>3, <2>6 DEF LoadsGetTheirs, Is
<1> QED
  BY <1>t, <1>a, <1>b, <1>c, <1>d, <1>j, <1>k, <1>l DEF DcInv

-----------------------------------------------------------------------------
(* The clock edge: what the control signals say *)

\* A clock edge with the inputs that CacheClock allows and without a fault.
Edge(lsq, flush, rv) ==
  /\ DcInv /\ dcfault = {} /\ dcfault' = {}
  /\ flush \in BOOLEAN /\ rv \in BOOLEAN /\ (rv => resp # Nil)
  /\ lsq # Nil => lsq \in Asks /\ ~flush /\ ~S0Stall(rv) /\ inv = Nil
  /\ CacheEdge(lsq, flush, rv)

Parts ==
  /\ DcTypeOK /\ MissIsServed /\ RequestsFit /\ LinesAreOnce /\ MaskIsOfStores
  /\ MemoryIsSeen /\ InvIsCurrent /\ PlacesAreOne /\ WaysAreGood /\ BufferIsGood /\ LoadsGetTheirs

\* What an edge starts from.
LEMMA EdgeParts ==
  ASSUME NEW lsq, NEW flush, NEW rv, Edge(lsq, flush, rv)
  PROVE  /\ Parts /\ flush \in BOOLEAN /\ rv \in BOOLEAN /\ (rv => resp # Nil)
         /\ lsq # Nil => lsq \in Asks /\ ~flush /\ ~S0Stall(rv) /\ inv = Nil
         /\ CacheEdge(lsq, flush, rv)
BY DEF Edge, Parts, DcInv

\* None of the five steps is taken.
LEMMA NoFaults ==
  ASSUME NEW lsq, NEW flush, NEW rv, Edge(lsq, flush, rv)
  PROVE  /\ ~(flush /\ s0.kind = "load" /\ inv # Nil /\ ~S0Stall(rv) /\ Cached(inv.line))
         /\ ~(Is("inv") /\ ~MshrHit /\ FillWen /\ ~TagMiss /\ TagHits # {mshr.way})
         /\ ~(WrMerge /\ FifoHasRoom /\ tagmem[mshr.way].valid)
         /\ ~(S1Stall(rv) /\ ~s1.forward /\ s1w # Nil /\ s1w.way = s1.way /\ s1.word \in s1w.words)
         /\ ~(s0.req /\ ~mshr.valid /\ FillWen /\ (Alloc \/ s0.line = mshr.line))
<1>1. DcFaults(flush, rv) = {}
  BY DEF Edge, CacheEdge
<1>2. \A P \in BOOLEAN : \A f : {g \in {f} : P} = {} => ~P
  OBVIOUS
<1> QED
  BY <1>1, Zenon DEF DcFaults

\* The beat that comes is the next one of the miss, and a new miss finds the register free.
LEMMA MissControl ==
  ASSUME NEW lsq, NEW flush, NEW rv, Edge(lsq, flush, rv)
  PROVE  /\ rv => /\ mshr.valid /\ resp # Nil /\ resp.line = mshr.line /\ resp.beat = rbuf.got
                  /\ rbuf.got \in 0 .. Beats - 1 /\ InFifo = {}
         /\ Alloc => /\ ~mshr.valid /\ ~rv /\ InFifo = {} /\ resp = Nil /\ ~FillWen /\ Is("load")
                     /\ s0.line \in CLines /\ s0.word \in CWords /\ s0.id \in Ids /\ TagHits = {}
                     /\ FifoHasRoom
         /\ rbuf.got \in 0 .. Beats /\ rbuf.filled \in 0 .. Beats /\ rbuf.filled <= rbuf.got
         /\ FillWen <=> rbuf.filled < rbuf.got
         /\ FillDone => rbuf.got = Beats /\ rbuf.filled = Beats - 1 /\ ~rv /\ FillWen
         /\ Late => FillDone /\ ~mshr.valid /\ mshr.way \in Ways /\ (s0.req => s0.line # mshr.line)
         /\ FillWen => mshr.way \in Ways /\ mshr.line \in CLines
         /\ S1Stall(rv) => rv /\ s1 # Nil
<1>1. /\ Parts /\ flush \in BOOLEAN /\ rv \in BOOLEAN /\ (rv => resp # Nil)
  BY EdgeParts
<1>2. rbuf.got \in 0 .. Beats /\ rbuf.filled \in 0 .. Beats /\ rbuf.filled <= rbuf.got
  BY <1>1 DEF Parts, DcTypeOK, MissIsServed
<1>3. FillWen <=> rbuf.filled < rbuf.got
  BY DEF FillWen
<1>4. ASSUME rv
      PROVE  /\ mshr.valid /\ resp # Nil /\ resp.line = mshr.line /\ resp.beat = rbuf.got
             /\ rbuf.got \in 0 .. Beats - 1 /\ InFifo = {}
  <2>1. resp # Nil /\ resp \in Responses
    BY <1>1, <1>4 DEF Parts, DcTypeOK
  <2>2. mshr.valid /\ resp.line = mshr.line /\ resp.beat = rbuf.got /\ InFifo = {}
    BY <1>1, <2>1 DEF Parts, MissIsServed
  <2> QED
    BY <2>1, <2>2 DEF Responses
<1>5. ASSUME FillDone PROVE rbuf.got = Beats /\ rbuf.filled = Beats - 1 /\ ~rv /\ FillWen
  <2>1. FillWen /\ rbuf.filled = Beats - 1
    BY <1>5 DEF FillDone
  <2>2. rbuf.got = Beats
    BY <1>2, <1>3, <2>1, DcacheAssumption
  <2> QED
    BY <1>1, <1>4, <2>1, <2>2, DcacheAssumption
<1>6. Late => FillDone /\ ~mshr.valid /\ mshr.way \in Ways /\ (s0.req => s0.line # mshr.line)
  BY <1>1, <1>3, NoFaults DEF Parts, LinesAreOnce, Late, FillDone
<1>7. FillWen => mshr.way \in Ways /\ mshr.line \in CLines
  BY <1>1, <1>3 DEF Parts, LinesAreOnce, DcTypeOK, Late
<1>8. Alloc => /\ ~mshr.valid /\ ~rv /\ InFifo = {} /\ resp = Nil /\ ~FillWen /\ Is("load")
               /\ s0.line \in CLines /\ s0.word \in CWords /\ s0.id \in Ids /\ TagHits = {}
               /\ FifoHasRoom
  <2> SUFFICES ASSUME Alloc
               PROVE  /\ ~mshr.valid /\ ~rv /\ InFifo = {} /\ resp = Nil /\ ~FillWen /\ Is("load")
                      /\ s0.line \in CLines /\ s0.word \in CWords /\ s0.id \in Ids /\ TagHits = {}
                      /\ FifoHasRoom
    OBVIOUS
  <2>1. Is("load") /\ TagMiss /\ FifoHasRoom /\ ~mshr.valid
    BY DEF Alloc
  <2>2. InFifo = {} /\ resp = Nil
    BY <1>1, <2>1 DEF Parts, MissIsServed
  <2>3. ~FillWen
    BY <2>1, NoFaults DEF Is
  <2>4. s0.line \in CLines /\ s0.word \in CWords /\ s0.id \in Ids
    BY <1>1, <2>1 DEF Parts, DcTypeOK, Requests0, Is
  <2> QED
    BY <1>1, <2>1, <2>2, <2>3, <2>4 DEF TagMiss
<1>9. S1Stall(rv) => rv /\ s1 # Nil
  BY DEF S1Stall
<1> QED
  BY <1>2, <1>3, <1>4, <1>5, <1>6, <1>7, <1>8, <1>9

\* A line is hit in one way or in the register; a store writes as it leaves stage 0, and a
\* beat is written unless a store is.
LEMMA HitControl ==
  ASSUME NEW lsq, NEW flush, NEW rv, Edge(lsq, flush, rv)
  PROVE  /\ MshrHit => TagHits = {} /\ mshr.valid /\ mshr.line = s0.line
         /\ TagHits # {} => /\ HitWay \in Ways /\ TagHits = {HitWay}
                            /\ tagmem[HitWay].valid /\ tagmem[HitWay].line = s0.line
         /\ Wen => /\ Is("store") /\ ~S0Stall(rv)
                   /\ IF MshrHit THEN WrMerge /\ mshr.way \in Ways ELSE TagHits # {} /\ HitWay \in Ways
         /\ Is("store") /\ ~S0Stall(rv) =>
              /\ FifoHasRoom /\ (MshrHit => WrMerge)
              /\ MshrHit \/ TagHits # {} => Wen
         /\ WrMerge => Is("store") /\ MshrHit /\ Beat(s0.word) >= rbuf.filled
         /\ FillMoves(rv) <=> FillWen /\ ~Wen
<1>1. Parts
  BY EdgeParts
<1>2. MshrHit => TagHits = {} /\ mshr.valid /\ mshr.line = s0.line
  BY <1>1 DEF MshrHit, TagHits, Parts, LinesAreOnce
<1>3. ASSUME TagHits # {}
      PROVE  /\ HitWay \in Ways /\ TagHits = {HitWay}
             /\ tagmem[HitWay].valid /\ tagmem[HitWay].line = s0.line
  <2>1. HitWay \in TagHits
    BY <1>3 DEF HitWay
  <2>2. \A w, v \in TagHits : w = v
    BY <1>1 DEF TagHits, Parts, LinesAreOnce
  <2> QED
    BY <2>1, <2>2 DEF TagHits
<1>4. WrMerge => Is("store") /\ MshrHit /\ Beat(s0.word) >= rbuf.filled
  BY DEF WrMerge
<1>5. Is("store") => (S0Stall(rv) <=> ~FifoHasRoom \/ (MshrHit /\ ~WrMerge))
  BY DEF S0Stall, Is
<1>6. MshrHit => mshr.way \in Ways
  BY <1>1 DEF MshrHit, Parts, DcTypeOK
<1>7. Wen <=> Is("store") /\ FifoHasRoom /\ (TagHits # {} \/ WrMerge)
  BY DEF Wen, TagMiss
<1>8. Wen => Is("store") /\ ~S0Stall(rv)
  BY <1>2, <1>4, <1>5, <1>7
<1>9. FillMoves(rv) <=> FillWen /\ ~Wen
  BY <1>8 DEF FillMoves
<1> QED
  BY <1>2, <1>3, <1>4, <1>5, <1>6, <1>7, <1>8, <1>9

\* A load leaves stage 0 in exactly one way.
LEMMA LoadControl ==
  ASSUME NEW lsq, NEW flush, NEW rv, Edge(lsq, flush, rv), Is("load")
  PROVE  /\ ~S0Stall(rv) =>
              \/ RdForward /\ ~S1Stall(rv) /\ ~RdMerge(rv) /\ ~Alloc
              \/ RdMerge(rv) /\ ~RdForward /\ ~Alloc /\ MshrHit
              \/ ~MshrHit /\ ~TagMiss /\ ~S1Stall(rv) /\ ~RdForward /\ ~RdMerge(rv) /\ ~Alloc
              \/ Alloc /\ ~MshrHit /\ TagMiss /\ ~RdForward /\ ~RdMerge(rv)
         /\ S0Stall(rv) => /\ ~RdMerge(rv) /\ ~Alloc
                           /\ RdForward \/ (~MshrHit /\ ~TagMiss) => S1Stall(rv)
<1>1. S0Stall(rv) <=> \/ MshrHit /\ (~RdForward \/ S1Stall(rv)) /\ ~RdMerge(rv)
                      \/ ~MshrHit /\ TagMiss /\ (~FifoHasRoom \/ mshr.valid)
                      \/ ~MshrHit /\ ~TagMiss /\ S1Stall(rv)
  BY DEF S0Stall, Is
<1>2. /\ RdForward => MshrHit /\ Beat(s0.word) < rbuf.got
      /\ RdMerge(rv) => MshrHit /\ Beat(s0.word) >= rbuf.got
      /\ Alloc <=> TagMiss /\ FifoHasRoom /\ ~mshr.valid
      /\ MshrHit => mshr.valid
  BY DEF RdForward, RdMerge, Alloc, MshrHit
<1>3. ~(RdForward /\ RdMerge(rv))
  <2>1. rbuf.got \in 0 .. Beats
    BY MissControl
  <2>2. s0.word \in CWords
    BY EdgeParts DEF Parts, DcTypeOK, Requests0
  <2>3. Beat(s0.word) \in 0 .. Beats - 1
    BY <2>2, WordsOfBeats
  <2> QED
    BY <1>2, <2>1, <2>3
<1> QED
  BY <1>1, <1>2, <1>3

-----------------------------------------------------------------------------
(* The clock edge: the miss register and its buffer *)

Beats1(rv)  == rv /\ BeatDone
Got1(rv)    == IF Beats1(rv) THEN rbuf.got + 1 ELSE rbuf.got
Filled1(rv) == IF FillMoves(rv) THEN rbuf.filled + 1 ELSE rbuf.filled
Stays(rv)   == (mshr.valid /\ ~FillDone) \/ Filled1(rv) < Got1(rv)
Merged      == IF WrMerge THEN mshr.wmask \cup {s0.word} ELSE mshr.wmask

\* The words of a beat in the order of the bus.
LEMMA BeatWords ==
  ASSUME NEW lsq, NEW flush, NEW rv, Edge(lsq, flush, rv), rv,
         NEW x \in CWords, Beat(x) = rbuf.got
  PROVE  RespWord(x % 2) = DataWord(mshr.line, x, resp.vers[x]) /\ resp.vers[x] \in Nat
<1>1. resp.line = mshr.line /\ resp.beat = rbuf.got /\ resp # Nil
  BY MissControl
<1>2. 2 * rbuf.got + (x % 2) = x
  BY WordsOfBeats
<1>3. resp \in Responses
  BY <1>1, EdgeParts DEF Parts, DcTypeOK
<1>4. 2 * resp.beat + (x % 2) = 2 * rbuf.got + (x % 2)
  BY <1>1
<1>5. RespWord(x % 2) = DataWord(mshr.line, x, resp.vers[x])
  BY <1>1, <1>2 DEF RespWord
<1> QED
  BY <1>3, <1>5 DEF Responses

\* A new miss has one request and nothing else.
LEMMA NewMiss ==
  ASSUME NEW lsq, NEW flush, NEW rv, Edge(lsq, flush, rv), Alloc
  PROVE  /\ mshr'.valid = TRUE /\ mshr'.obsolete = flush /\ mshr'.line = s0.line /\ mshr'.way \in Ways
         /\ mshr'.wen = FALSE /\ mshr'.wmask = {}
         /\ mshr'.reqs = [x \in CWords |-> IF x = s0.word THEN s0.id ELSE Nil]
         /\ mshr' = [valid |-> TRUE, obsolete |-> flush, line |-> s0.line, way |-> mshr'.way,
                     reqs |-> mshr'.reqs, wen |-> FALSE, wmask |-> {}]
         /\ rbuf' = [started |-> FALSE, got |-> 0, filled |-> 0, data |-> rbuf.data]
<1>1. /\ ~mshr.valid /\ ~rv /\ ~FillWen /\ Is("load")
      /\ rbuf.got \in 0 .. Beats /\ rbuf.filled \in 0 .. Beats
  BY MissControl
<1>2. Refill(flush, rv)
  BY EdgeParts DEF CacheEdge
<1>3. PICK wy \in AllocWays :
        IF Miss(flush, rv, wy).valid \/ Buffer(rv).filled < Buffer(rv).got
        THEN mshr' = Miss(flush, rv, wy) /\ rbuf' = Buffer(rv)
        ELSE /\ mshr' = NoMiss
             /\ rbuf' = [EmptyBuffer EXCEPT !.data = IF s1' # Nil /\ s1'.forward THEN Buffer(rv).data ELSE NoData]
  BY <1>2 DEF Refill
<1>4. ~FillDone
  BY <1>1 DEF FillDone
<1>5. Miss(flush, rv, wy) =
        [valid |-> TRUE, obsolete |-> flush, line |-> s0.line, way |-> wy,
         reqs |-> [x \in CWords |-> IF x = s0.word THEN s0.id ELSE Nil], wen |-> FALSE, wmask |-> {}]
  <2>1. flush \in BOOLEAN
    BY EdgeParts
  <2> QED
    BY <1>1, <1>4, <2>1 DEF Miss, NextReqs
<1>6. Buffer(rv) = [started |-> FALSE, got |-> 0, filled |-> 0, data |-> rbuf.data]
  <2>1. [x \in CWords |-> rbuf.data[x]] = rbuf.data
    BY EdgeParts DEF Parts, DcTypeOK
  <2> QED
    BY <1>1, <2>1 DEF Buffer
<1>7. mshr' = Miss(flush, rv, wy) /\ rbuf' = Buffer(rv)
  BY <1>3, <1>5
<1>8. wy \in Ways
  BY DEF AllocWays
<1> QED
  BY <1>5, <1>6, <1>7, <1>8

\* The register of a miss goes on, or is free and forgotten.
LEMMA OldMiss ==
  ASSUME NEW lsq, NEW flush, NEW rv, Edge(lsq, flush, rv), ~Alloc
  PROVE  /\ Got1(rv) \in 0 .. Beats /\ Filled1(rv) \in 0 .. Beats /\ Filled1(rv) <= Got1(rv)
         /\ Stays(rv) =>
              /\ mshr' = [valid |-> mshr.valid /\ ~FillDone, obsolete |-> flush \/ mshr.obsolete,
                          line |-> mshr.line, way |-> mshr.way, reqs |-> NextReqs(rv),
                          wen |-> mshr.wen \/ WrMerge, wmask |-> Merged]
              /\ rbuf'.started = (Beats1(rv) \/ rbuf.started)
         /\ ~Stays(rv) => mshr' = NoMiss /\ rbuf'.started = FALSE
         /\ rbuf' = [started |-> rbuf'.started, got |-> rbuf'.got, filled |-> rbuf'.filled, data |-> rbuf'.data]
         /\ rbuf'.got = IF Stays(rv) THEN Got1(rv) ELSE 0
         /\ rbuf'.filled = IF Stays(rv) THEN Filled1(rv) ELSE 0
         /\ rbuf'.data \in [CWords -> DataWords]
         /\ Stays(rv) \/ (s1' # Nil /\ s1'.forward) =>
              \A x \in CWords : rbuf'.data[x] = IF Beats1(rv) /\ Beat(x) = rbuf.got
                                               THEN DataWord(mshr.line, x, resp.vers[x]) ELSE rbuf.data[x]
<1>1. /\ rv => mshr.valid /\ mshr.line \in CLines /\ rbuf.got \in 0 .. Beats - 1
      /\ rbuf.got \in 0 .. Beats /\ rbuf.filled \in 0 .. Beats /\ rbuf.filled <= rbuf.got
      /\ FillWen <=> rbuf.filled < rbuf.got
      /\ FillMoves(rv) => FillWen
  BY MissControl, HitControl, EdgeParts DEF Parts, DcTypeOK
<1>2. /\ mshr \in [valid : BOOLEAN, obsolete : BOOLEAN, line : CLines \cup {Nil}, way : Ways \cup {Nil},
                   reqs : [CWords -> Ids \cup {Nil}], wen : BOOLEAN, wmask : SUBSET CWords]
      /\ rbuf.started \in BOOLEAN /\ rbuf.data \in [CWords -> DataWords]
      /\ flush \in BOOLEAN /\ rv \in BOOLEAN
  BY EdgeParts DEF Parts, DcTypeOK
<1>3. Got1(rv) \in 0 .. Beats /\ Filled1(rv) \in 0 .. Beats /\ Filled1(rv) <= Got1(rv)
  BY <1>1, DcacheAssumption DEF Got1, Filled1, Beats1
<1>4. Miss(flush, rv, mshr.way) =
        [valid |-> mshr.valid /\ ~FillDone, obsolete |-> flush \/ mshr.obsolete,
         line |-> mshr.line, way |-> mshr.way, reqs |-> NextReqs(rv),
         wen |-> mshr.wen \/ WrMerge, wmask |-> Merged]
  <2>1. mshr.wmask \cup (IF WrMerge THEN {s0.word} ELSE {}) = Merged
    BY DEF Merged
  <2> QED
    BY <2>1 DEF Miss
<1> DEFINE dat == [x \in CWords |-> IF Beats1(rv) /\ Beat(x) = rbuf.got THEN RespWord(x % 2) ELSE rbuf.data[x]]
<1>5. Buffer(rv) = [started |-> Beats1(rv) \/ rbuf.started, got |-> Got1(rv), filled |-> Filled1(rv), data |-> dat]
  <2>1. rbuf.got + (IF Beats1(rv) THEN 1 ELSE 0) = Got1(rv) /\ rbuf.filled + (IF FillMoves(rv) THEN 1 ELSE 0) = Filled1(rv)
    BY <1>1 DEF Got1, Filled1
  <2> QED
    BY <2>1 DEF Buffer, Beats1
<1>6. /\ dat \in [CWords -> DataWords]
      /\ \A x \in CWords : dat[x] = IF Beats1(rv) /\ Beat(x) = rbuf.got
                                    THEN DataWord(mshr.line, x, resp.vers[x]) ELSE rbuf.data[x]
  <2>1. ASSUME NEW x \in CWords, Beats1(rv), Beat(x) = rbuf.got
        PROVE  /\ RespWord(x % 2) = DataWord(mshr.line, x, resp.vers[x])
               /\ RespWord(x % 2) \in DataWords
    <3>1. rv
      BY <2>1 DEF Beats1
    <3>2. RespWord(x % 2) = DataWord(mshr.line, x, resp.vers[x]) /\ resp.vers[x] \in Nat
      BY <2>1, <3>1, BeatWords
    <3> QED
      BY <1>1, <3>1, <3>2 DEF DataWord, DataWords
  <2> QED
    BY <1>2, <2>1
<1>7. IF Stays(rv)
      THEN mshr' = Miss(flush, rv, mshr.way) /\ rbuf' = Buffer(rv)
      ELSE /\ mshr' = NoMiss
           /\ rbuf' = [EmptyBuffer EXCEPT !.data = IF s1' # Nil /\ s1'.forward THEN Buffer(rv).data ELSE NoData]
  <2>1. Refill(flush, rv)
    BY EdgeParts DEF CacheEdge
  <2>2. (Miss(flush, rv, mshr.way).valid \/ Buffer(rv).filled < Buffer(rv).got) <=> Stays(rv)
    <3>1. Miss(flush, rv, mshr.way).valid = ((mshr.valid \/ Alloc) /\ ~FillDone)
      BY DEF Miss
    <3>2. Buffer(rv).filled = Filled1(rv) /\ Buffer(rv).got = Got1(rv)
      BY <1>5
    <3> QED
      BY <3>1, <3>2 DEF Stays
  <2> QED
    BY <2>1, <2>2 DEF Refill
<1> HIDE DEF dat
<1>8. CASE Stays(rv)
  BY <1>3, <1>4, <1>5, <1>6, <1>7, <1>8
<1>9. CASE ~Stays(rv)
  <2>1. rbuf' = [started |-> FALSE, got |-> 0, filled |-> 0,
                 data |-> IF s1' # Nil /\ s1'.forward THEN dat ELSE NoData]
    BY <1>5, <1>7, <1>9 DEF EmptyBuffer
  <2>2. NoData \in [CWords -> DataWords]
    BY WordsOfBeats DEF NoData, Unread, DataWords
  <2> QED
    BY <1>3, <1>6, <1>7, <1>9, <2>1, <2>2
<1> QED
  BY <1>8, <1>9

\* The same, field by field.
LEMMA NewFields ==
  ASSUME NEW lsq, NEW flush, NEW rv, Edge(lsq, flush, rv), Alloc
  PROVE  /\ mshr'.valid = TRUE /\ mshr'.obsolete = flush /\ mshr'.line = s0.line /\ mshr'.way \in Ways
         /\ mshr'.wen = FALSE /\ mshr'.wmask = {}
         /\ mshr'.reqs = [x \in CWords |-> IF x = s0.word THEN s0.id ELSE Nil]
         /\ rbuf'.started = FALSE /\ rbuf'.got = 0 /\ rbuf'.filled = 0 /\ rbuf'.data = rbuf.data
<1>1. /\ mshr'.valid = TRUE /\ mshr'.obsolete = flush /\ mshr'.line = s0.line /\ mshr'.way \in Ways
      /\ mshr'.wen = FALSE /\ mshr'.wmask = {}
      /\ mshr'.reqs = [x \in CWords |-> IF x = s0.word THEN s0.id ELSE Nil]
  BY NewMiss, Zenon
<1>2. rbuf' = [started |-> FALSE, got |-> 0, filled |-> 0, data |-> rbuf.data]
  BY NewMiss, Zenon
<1>3. rbuf'.started = FALSE /\ rbuf'.got = 0 /\ rbuf'.filled = 0 /\ rbuf'.data = rbuf.data
  BY <1>2
<1> QED
  BY <1>1, <1>3

\* An old miss goes on or is forgotten.
LEMMA OldFields ==
  ASSUME NEW lsq, NEW flush, NEW rv, Edge(lsq, flush, rv), ~Alloc
  PROVE  /\ Got1(rv) \in 0 .. Beats /\ Filled1(rv) \in 0 .. Beats /\ Filled1(rv) <= Got1(rv)
         /\ Stays(rv) =>
              /\ mshr'.valid = (mshr.valid /\ ~FillDone) /\ mshr'.obsolete = (flush \/ mshr.obsolete)
              /\ mshr'.line = mshr.line /\ mshr'.way = mshr.way /\ mshr'.reqs = NextReqs(rv)
              /\ mshr'.wen = (mshr.wen \/ WrMerge) /\ mshr'.wmask = Merged
              /\ rbuf'.started = (Beats1(rv) \/ rbuf.started)
              /\ rbuf'.got = Got1(rv) /\ rbuf'.filled = Filled1(rv)
         /\ ~Stays(rv) =>
              /\ mshr'.valid = FALSE /\ mshr'.obsolete = FALSE /\ (\A x \in CWords : mshr'.reqs[x] = Nil)
              /\ mshr'.wen = FALSE /\ mshr'.wmask = {}
              /\ rbuf'.started = FALSE /\ rbuf'.got = 0 /\ rbuf'.filled = 0
         /\ rbuf'.data \in [CWords -> DataWords]
         /\ Stays(rv) \/ (s1' # Nil /\ s1'.forward) =>
              \A x \in CWords : rbuf'.data[x] = IF Beats1(rv) /\ Beat(x) = rbuf.got
                                               THEN DataWord(mshr.line, x, resp.vers[x]) ELSE rbuf.data[x]
<1>1. /\ Got1(rv) \in 0 .. Beats /\ Filled1(rv) \in 0 .. Beats /\ Filled1(rv) <= Got1(rv)
      /\ rbuf'.data \in [CWords -> DataWords]
      /\ Stays(rv) => rbuf'.started = (Beats1(rv) \/ rbuf.started)
      /\ ~Stays(rv) => rbuf'.started = FALSE
      /\ rbuf'.got = IF Stays(rv) THEN Got1(rv) ELSE 0
      /\ rbuf'.filled = IF Stays(rv) THEN Filled1(rv) ELSE 0
  BY OldMiss, Zenon
<1>2. Stays(rv) \/ (s1' # Nil /\ s1'.forward) =>
              \A x \in CWords : rbuf'.data[x] = IF Beats1(rv) /\ Beat(x) = rbuf.got
                                               THEN DataWord(mshr.line, x, resp.vers[x]) ELSE rbuf.data[x]
  BY OldMiss, Zenon
<1>3. Stays(rv) => mshr' = [valid |-> mshr.valid /\ ~FillDone, obsolete |-> flush \/ mshr.obsolete,
                          line |-> mshr.line, way |-> mshr.way, reqs |-> NextReqs(rv),
                          wen |-> mshr.wen \/ WrMerge, wmask |-> Merged]
  BY OldMiss, Zenon
<1>4. ~Stays(rv) => mshr' = NoMiss
  BY OldMiss, Zenon
<1>5. Stays(rv) =>
              /\ mshr'.valid = (mshr.valid /\ ~FillDone) /\ mshr'.obsolete = (flush \/ mshr.obsolete)
              /\ mshr'.line = mshr.line /\ mshr'.way = mshr.way /\ mshr'.reqs = NextReqs(rv)
              /\ mshr'.wen = (mshr.wen \/ WrMerge) /\ mshr'.wmask = Merged
  BY <1>3
<1>6. ~Stays(rv) =>
              /\ mshr'.valid = FALSE /\ mshr'.obsolete = FALSE /\ (\A x \in CWords : mshr'.reqs[x] = Nil)
              /\ mshr'.wen = FALSE /\ mshr'.wmask = {}
  BY <1>4 DEF NoMiss
<1> QED
  BY <1>1, <1>2, <1>5, <1>6, Zenon

\* The requests move up with a beat; the first one leaves when two wait for it.
LEMMA OldRequests ==
  ASSUME NEW lsq, NEW flush, NEW rv, Edge(lsq, flush, rv), ~Alloc
  PROVE  /\ NextReqs(rv) \in [CWords -> Ids \cup {Nil}]
         /\ \A x \in CWords :
              NextReqs(rv)[x] =
                IF Beats1(rv) THEN IF x + 2 \in CWords THEN mshr.reqs[x + 2] ELSE Nil
                ELSE IF rv THEN IF x = 0 THEN Nil ELSE mshr.reqs[x]
                ELSE IF RdMerge(rv) /\ x = s0.word THEN s0.id ELSE mshr.reqs[x]
<1>1. mshr.reqs \in [CWords -> Ids \cup {Nil}]
  BY EdgeParts DEF Parts, DcTypeOK
<1>2. RdMerge(rv) => s0.id \in Ids /\ ~rv
  BY EdgeParts DEF Parts, DcTypeOK, RdMerge
<1>3. CASE rv /\ BeatDone
  BY <1>1, <1>3 DEF NextReqs, Beats1
<1>4. CASE rv /\ ~BeatDone
  BY <1>1, <1>4, WordsOfBeats DEF NextReqs, Beats1
<1>5. CASE ~rv /\ RdMerge(rv)
  BY <1>1, <1>2, <1>5 DEF NextReqs, Beats1
<1>6. CASE ~rv /\ ~RdMerge(rv)
  BY <1>1, <1>6 DEF NextReqs, Beats1
<1> QED
  BY <1>3, <1>4, <1>5, <1>6, EdgeParts

-----------------------------------------------------------------------------
(* The clock edge: the stages, the fifos and the history *)

Loads(lsq)  == lsq # Nil /\ lsq.kind = "load"
Stores(lsq) == lsq # Nil /\ lsq.kind = "store"

\* What the load/store queue asks for.
LEMMA AskedFor ==
  ASSUME NEW lsq, NEW flush, NEW rv, Edge(lsq, flush, rv), lsq # Nil
  PROVE  /\ lsq \in Requests0 /\ lsq.req = TRUE /\ lsq.line \in CLines /\ lsq.word \in CWords
         /\ Loads(lsq) \/ Stores(lsq)
         /\ Loads(lsq) => lsq.id \in Ids /\ goal[lsq.id] = {} /\ ~Stores(lsq)
         /\ Stores(lsq) => /\ lsq.ver = writes + 1
                           /\ \A i \in Ids, v \in 0 .. writes : DataWord(lsq.line, lsq.word, v) \notin goal[i]
<1>1. lsq \in Asks /\ writes \in Nat
  BY EdgeParts DEF Parts, DcTypeOK
<1>2. CASE lsq \in [req : {TRUE}, kind : {"load"}, line : CLines, word : CWords, ver : {0},
                     id : {i \in Ids : goal[i] = {}}]
  <2>1. /\ lsq.req = TRUE /\ lsq.kind = "load" /\ lsq.ver = 0
        /\ lsq.line \in CLines /\ lsq.word \in CWords /\ lsq.id \in Ids /\ goal[lsq.id] = {}
    BY <1>2
  <2>2. lsq \in Requests0
    <3> DEFINE free == {i \in Ids : goal[i] = {}}
    <3>1. free \subseteq Ids /\ 0 \in Nat
      OBVIOUS
    <3>2. lsq \in [req : {TRUE}, kind : {"load"}, line : CLines, word : CWords, ver : {0}, id : free]
      BY <1>2
    <3> HIDE DEF free
    <3> QED
      BY <3>1, <3>2 DEF Requests0
  <2> QED
    BY <2>1, <2>2 DEF Loads, Stores
<1>3. CASE /\ lsq \in [req : {TRUE}, kind : {"store"}, line : CLines, word : CWords, id : {Nil},
                        ver : IF writes < MaxWrites THEN {writes + 1} ELSE {}]
           /\ \A i \in Ids, v \in 0 .. writes : DataWord(lsq.line, lsq.word, v) \notin goal[i]
  <2>1. /\ lsq.req = TRUE /\ lsq.kind = "store" /\ lsq.id = Nil /\ lsq.ver = writes + 1
        /\ lsq.line \in CLines /\ lsq.word \in CWords
    BY <1>3
  <2>2. lsq \in Requests0
    <3>1. (IF writes < MaxWrites THEN {writes + 1} ELSE {}) \subseteq Nat
      BY <1>1
    <3> QED
      BY <1>3, <3>1 DEF Requests0
  <2> QED
    BY <1>3, <2>1, <2>2 DEF Loads, Stores
<1> QED
  BY <1>1, <1>2, <1>3 DEF Asks

\* What stage 0 has next.
LEMMA Stage0Moves ==
  ASSUME NEW lsq, NEW flush, NEW rv, Edge(lsq, flush, rv)
  PROVE  /\ s0' \in Requests0 /\ (s0'.req => s0'.line \in CLines) /\ (Is("load")' => s0'.id \in Ids)
         /\ \/ flush /\ s0.kind = "load" /\ ~s0'.req /\ lsq = Nil
            \/ ~(flush /\ s0.kind = "load") /\ S0Stall(rv) /\ s0' = s0 /\ lsq = Nil
            \/ /\ ~(flush /\ s0.kind = "load") /\ ~S0Stall(rv) /\ inv # Nil /\ lsq = Nil
               /\ s0'.req /\ s0'.kind = "inv" /\ s0'.line = inv.line
            \/ ~(flush /\ s0.kind = "load") /\ ~S0Stall(rv) /\ inv = Nil /\ lsq # Nil /\ s0' = lsq
            \/ ~(flush /\ s0.kind = "load") /\ ~S0Stall(rv) /\ inv = Nil /\ lsq = Nil /\ ~s0'.req
<1>1. /\ s0 \in Requests0 /\ (s0.req => s0.line \in CLines) /\ (Is("load") => s0.id \in Ids)
      /\ lsq # Nil => ~flush /\ ~S0Stall(rv) /\ inv = Nil
      /\ inv # Nil => inv \in Invs
      /\ Stage0(lsq, flush, rv)
  BY EdgeParts DEF Parts, DcTypeOK, CacheEdge
<1>2. \A k \in {"load", "store", "inv"} : NoReq(k) \in Requests0 /\ ~NoReq(k).req
  BY WordsOfBeats DEF NoReq, Requests0
<1>3. CASE flush /\ s0.kind = "load"
  <2>1. s0' = NoReq("load")
    BY <1>1, <1>3 DEF Stage0
  <2> QED
    BY <1>1, <1>2, <1>3, <2>1 DEF Is
<1>4. CASE ~(flush /\ s0.kind = "load") /\ S0Stall(rv)
  <2>1. s0' = s0
    BY <1>1, <1>4 DEF Stage0
  <2> QED
    BY <1>1, <1>4, <2>1 DEF Is
<1>5. CASE ~(flush /\ s0.kind = "load") /\ ~S0Stall(rv) /\ inv # Nil
  <2>1. s0' = [NoReq("inv") EXCEPT !.req = TRUE, !.line = inv.line]
    BY <1>1, <1>5 DEF Stage0
  <2>2. inv.line \in CLines
    BY <1>1, <1>5 DEF Invs
  <2>3. s0' = [req |-> TRUE, kind |-> "inv", line |-> inv.line, word |-> 0, id |-> Nil, ver |-> 0]
    BY <2>1 DEF NoReq
  <2> QED
    BY <1>1, <1>5, <2>2, <2>3, WordsOfBeats DEF Is, Requests0
<1>6. CASE ~(flush /\ s0.kind = "load") /\ ~S0Stall(rv) /\ inv = Nil /\ lsq # Nil
  <2>1. s0' = lsq
    BY <1>1, <1>6 DEF Stage0
  <2> QED
    BY <1>1, <1>6, <2>1, AskedFor DEF Is, Loads, Stores
<1>7. CASE ~(flush /\ s0.kind = "load") /\ ~S0Stall(rv) /\ inv = Nil /\ lsq = Nil
  <2>1. s0' = NoReq(IF s0.kind = "inv" THEN "store" ELSE s0.kind)
    BY <1>1, <1>7 DEF Stage0
  <2>2. (IF s0.kind = "inv" THEN "store" ELSE s0.kind) \in {"load", "store", "inv"}
    BY <1>1 DEF Requests0
  <2> QED
    BY <1>1, <1>2, <1>7, <2>1, <2>2 DEF Is
<1> QED
  BY <1>3, <1>4, <1>5, <1>6, <1>7

\* The two words of the beat on the bus.
LEMMA BeatData ==
  ASSUME NEW lsq, NEW flush, NEW rv, Edge(lsq, flush, rv), rv, NEW h \in {0, 1}
  PROVE  /\ 2 * rbuf.got + h \in CWords /\ Beat(2 * rbuf.got + h) = rbuf.got
         /\ RespWord(h) = DataWord(mshr.line, 2 * rbuf.got + h, resp.vers[2 * rbuf.got + h])
         /\ RespWord(h) \in DataWords
<1>1. /\ mshr.valid /\ resp # Nil /\ resp.line = mshr.line /\ resp.beat = rbuf.got
      /\ rbuf.got \in 0 .. Beats - 1
  BY MissControl
<1>2. resp \in Responses
  BY <1>1, EdgeParts DEF Parts, DcTypeOK
<1>3. 2 * rbuf.got + h \in CWords /\ Beat(2 * rbuf.got + h) = rbuf.got
  <2>1. CASE h = 0
    <3>1. 2 * rbuf.got + 0 = 2 * rbuf.got
      BY <1>1
    <3> QED
      BY <1>1, <2>1, <3>1, WordsOfBeats
  <2>2. CASE h = 1
    BY <1>1, <2>2, WordsOfBeats
  <2> QED
    BY <2>1, <2>2
<1>4. RespWord(h) = DataWord(mshr.line, 2 * rbuf.got + h, resp.vers[2 * rbuf.got + h])
  BY <1>1 DEF RespWord
<1>5. resp.vers[2 * rbuf.got + h] \in Nat /\ mshr.line \in CLines
  BY <1>1, <1>2, <1>3 DEF Responses
<1> QED
  BY <1>3, <1>4, <1>5 DEF DataWord, DataWords

\* What stages 1 and 2 have next.
LEMMA Stage1Moves ==
  ASSUME NEW lsq, NEW flush, NEW rv, Edge(lsq, flush, rv)
  PROVE  /\ s1' \in Reads1 \cup {Nil}
         /\ \/ flush /\ s1' = Nil
            \/ ~flush /\ S1Stall(rv) /\ s1' = s1 /\ s1 # Nil
            \/ /\ ~flush /\ ~S1Stall(rv) /\ RdForward
               /\ s1' # Nil /\ s1'.forward = TRUE /\ s1'.word = s0.word /\ s1'.id = s0.id
            \/ /\ ~flush /\ ~S1Stall(rv) /\ ~RdForward /\ Is("load") /\ ~MshrHit /\ ~TagMiss
               /\ s1' # Nil /\ s1'.forward = FALSE /\ s1'.word = s0.word /\ s1'.id = s0.id
               /\ s1'.way = HitWay /\ HitWay \in Ways
            \/ /\ ~flush /\ ~S1Stall(rv) /\ ~RdForward /\ ~(Is("load") /\ ~MshrHit /\ ~TagMiss)
               /\ s1' = Nil
<1>1. /\ s1 \in Reads1 \cup {Nil} /\ Stage1(flush, rv)
      /\ Is("load") => s0.word \in CWords /\ s0.id \in Ids
  BY EdgeParts DEF Parts, DcTypeOK, CacheEdge, Requests0
<1>2. S1Stall(rv) => s1 # Nil
  BY DEF S1Stall
<1>3. RdForward => Is("load")
  BY DEF RdForward
<1>4. CASE flush
  BY <1>1, <1>4 DEF Stage1
<1>5. CASE ~flush /\ S1Stall(rv)
  BY <1>1, <1>2, <1>5 DEF Stage1
<1>6. CASE ~flush /\ ~S1Stall(rv) /\ RdForward
  <2>1. s1' = [forward |-> TRUE, way |-> Nil, word |-> s0.word, id |-> s0.id]
    BY <1>1, <1>6 DEF Stage1
  <2>2. s1' \in Reads1
    BY <1>1, <1>3, <1>6, <2>1 DEF Reads1
  <2> QED
    BY <1>6, <2>1, <2>2, NilIsNothing
<1>7. CASE ~flush /\ ~S1Stall(rv) /\ ~RdForward /\ Is("load") /\ ~MshrHit /\ ~TagMiss
  <2>1. s1' = [forward |-> FALSE, way |-> HitWay, word |-> s0.word, id |-> s0.id]
    BY <1>1, <1>7 DEF Stage1
  <2>2. HitWay \in Ways
    BY <1>7, HitControl DEF TagMiss
  <2>3. s1' \in Reads1
    BY <1>1, <1>7, <2>1, <2>2 DEF Reads1
  <2> QED
    BY <1>7, <2>1, <2>2, <2>3, NilIsNothing
<1>8. CASE ~flush /\ ~S1Stall(rv) /\ ~RdForward /\ ~(Is("load") /\ ~MshrHit /\ ~TagMiss)
  <2>1. s1' = Nil
    BY <1>1, <1>8 DEF Stage1
  <2> QED
    BY <1>8, <2>1
<1> QED
  BY <1>4, <1>5, <1>6, <1>7, <1>8

\* A beat answers before stage 1 does.
LEMMA Stage2Moves ==
  ASSUME NEW lsq, NEW flush, NEW rv, Edge(lsq, flush, rv)
  PROVE  /\ s2' \in Answers2 \cup {Nil}
         /\ \/ flush /\ s2' = Nil
            \/ /\ ~flush /\ rv /\ FwdValid(0) /\ s2' # Nil
               /\ s2'.id = mshr.reqs[0] /\ s2'.data = RespWord(0)
            \/ /\ ~flush /\ rv /\ ~FwdValid(0) /\ FwdValid(1) /\ s2' # Nil
               /\ s2'.id = mshr.reqs[1] /\ s2'.data = RespWord(1)
            \/ /\ ~flush /\ ~(rv /\ (FwdValid(0) \/ FwdValid(1))) /\ s1 = Nil /\ s2' = Nil
            \/ /\ ~flush /\ ~(rv /\ (FwdValid(0) \/ FwdValid(1))) /\ s1 # Nil /\ s2' # Nil
               /\ s2'.id = s1.id
               /\ s2'.data = IF s1.forward THEN rbuf.data[s1.word] ELSE datamem[s1.way][s1.word]
<1>1. /\ s1 # Nil => /\ s1.id \in Ids /\ s1.word \in CWords
                     /\ ~s1.forward => s1.way \in Ways
      /\ rbuf.data \in [CWords -> DataWords] /\ datamem \in [Ways -> [CWords -> DataWords]]
      /\ mshr.reqs \in [CWords -> Ids \cup {Nil}]
      /\ Stage2(flush, rv)
  BY EdgeParts DEF Parts, DcTypeOK, CacheEdge, Reads1
<1>2. \A h \in {0, 1} : FwdValid(h) => mshr.reqs[h] \in Ids
  BY <1>1, WordsOfBeats DEF FwdValid
<1>3. rv => \A h \in {0, 1} : RespWord(h) \in DataWords
  BY BeatData
<1>4. CASE flush
  BY <1>1, <1>4 DEF Stage2
<1>5. CASE ~flush /\ rv /\ FwdValid(0)
  <2>1. s2' = [id |-> mshr.reqs[0], data |-> RespWord(0)]
    BY <1>1, <1>5 DEF Stage2
  <2>2. s2' \in Answers2
    BY <1>2, <1>3, <1>5, <2>1 DEF Answers2
  <2> QED
    BY <1>5, <2>1, <2>2, NilIsNothing
<1>6. CASE ~flush /\ rv /\ ~FwdValid(0) /\ FwdValid(1)
  <2>1. s2' = [id |-> mshr.reqs[1], data |-> RespWord(1)]
    BY <1>1, <1>6 DEF Stage2
  <2>2. s2' \in Answers2
    BY <1>2, <1>3, <1>6, <2>1 DEF Answers2
  <2> QED
    BY <1>6, <2>1, <2>2, NilIsNothing
<1>7. CASE ~flush /\ ~(rv /\ (FwdValid(0) \/ FwdValid(1))) /\ s1 = Nil
  BY <1>1, <1>7 DEF Stage2
<1>8. CASE ~flush /\ ~(rv /\ (FwdValid(0) \/ FwdValid(1))) /\ s1 # Nil
  <2>1. s2' = [id |-> s1.id, data |-> IF s1.forward THEN rbuf.data[s1.word] ELSE datamem[s1.way][s1.word]]
    BY <1>1, <1>8 DEF Stage2
  <2>2. s2' \in Answers2
    BY <1>1, <1>8, <2>1 DEF Answers2
  <2> QED
    BY <1>8, <2>1, <2>2, NilIsNothing
<1> QED
  BY <1>4, <1>5, <1>6, <1>7, <1>8

\* Stage 1 writes the word of a store, or what is left of a beat.
LEMMA WriteMoves ==
  ASSUME NEW lsq, NEW flush, NEW rv, Edge(lsq, flush, rv)
  PROVE  /\ s1w' \in Writes1 \cup {Nil}
         /\ Wen => /\ s1w' # Nil /\ s1w'.way = (IF MshrHit THEN mshr.way ELSE HitWay)
                   /\ s1w'.words = {s0.word} /\ s1w'.data[s0.word] = DataWord(s0.line, s0.word, s0.ver)
         /\ ~Wen /\ FillWen =>
              /\ s1w' # Nil /\ s1w'.way = mshr.way
              /\ s1w'.words = {x \in CWords : Beat(x) = rbuf.filled /\ x \notin mshr.wmask}
              /\ \A x \in s1w'.words : s1w'.data[x] = rbuf.data[x]
         /\ ~Wen /\ ~FillWen => s1w' = Nil
<1>1. /\ WritePort /\ rbuf.data \in [CWords -> DataWords]
  BY EdgeParts DEF Parts, DcTypeOK, CacheEdge
<1>2. Unread \in DataWords /\ NoData \in [CWords -> DataWords]
  BY WordsOfBeats DEF Unread, DataWords, NoData
<1>3. CASE Wen
  <2> DEFINE wy == IF MshrHit THEN mshr.way ELSE HitWay
             d == DataWord(s0.line, s0.word, s0.ver)
  <2>1. Is("store") /\ wy \in Ways
    BY <1>3, HitControl
  <2>2. s0.line \in CLines /\ s0.word \in CWords /\ s0.ver \in Nat
    BY <2>1, EdgeParts DEF Parts, DcTypeOK, Requests0, Is
  <2>3. s1w' = [way |-> wy, words |-> {s0.word}, data |-> [NoData EXCEPT ![s0.word] = d]]
    BY <1>1, <1>3 DEF WritePort
  <2>4. d \in DataWords
    BY <2>2 DEF DataWord, DataWords
  <2> HIDE DEF wy, d
  <2>5. [NoData EXCEPT ![s0.word] = d] \in [CWords -> DataWords] /\ [NoData EXCEPT ![s0.word] = d][s0.word] = d
    BY <1>2, <2>2, <2>4
  <2>6. s1w' \in Writes1
    BY <2>1, <2>2, <2>3, <2>5 DEF Writes1
  <2> QED
    BY <1>3, <2>3, <2>5, <2>6, NilIsNothing DEF wy, d
<1>4. CASE ~Wen /\ FillWen
  <2> DEFINE ws == {x \in CWords : Beat(x) = rbuf.filled /\ x \notin mshr.wmask}
             dat == [x \in CWords |-> IF x \in ws THEN rbuf.data[x] ELSE Unread]
  <2>1. s1w' = [way |-> mshr.way, words |-> ws, data |-> dat]
    BY <1>1, <1>4 DEF WritePort
  <2>2. mshr.way \in Ways
    BY <1>4, MissControl
  <2>3. ws \subseteq CWords /\ dat \in [CWords -> DataWords] /\ \A x \in ws : dat[x] = rbuf.data[x]
    BY <1>1, <1>2
  <2> HIDE DEF ws, dat
  <2>4. s1w' \in Writes1
    BY <2>1, <2>2, <2>3 DEF Writes1
  <2> QED
    BY <1>4, <2>1, <2>3, <2>4, NilIsNothing DEF ws
<1>5. CASE ~Wen /\ ~FillWen
  BY <1>1, <1>5 DEF WritePort
<1> QED
  BY <1>3, <1>4, <1>5

\* What a way in use has next.
LEMMA KeptMoves ==
  ASSUME NEW lsq, NEW flush, NEW rv, Edge(lsq, flush, rv)
  PROVE  /\ datamem' \in [Ways -> [CWords -> DataWords]]
         /\ \A w \in Ways, x \in CWords : InUse(w) =>
              /\ datamem'[w][x] = Kept(w, x)
              /\ Kept(w, x)' =
                   IF Wen /\ w = (IF MshrHit THEN mshr.way ELSE HitWay) /\ x = s0.word
                   THEN DataWord(s0.line, s0.word, s0.ver)
                   ELSE IF ~Wen /\ FillWen /\ w = mshr.way /\ Beat(x) = rbuf.filled /\ x \notin mshr.wmask
                   THEN rbuf.data[x]
                   ELSE Kept(w, x)
<1>1. /\ DataMem /\ datamem \in [Ways -> [CWords -> DataWords]] /\ s1w \in Writes1 \cup {Nil}
  BY EdgeParts DEF Parts, DcTypeOK, CacheEdge
<1>2. Unread \in DataWords
  BY WordsOfBeats DEF Unread, DataWords
<1>3. \A w \in Ways, x \in CWords : Kept(w, x) \in DataWords
  BY <1>1 DEF Kept, Writes1
<1>4. datamem' = [w \in Ways |-> [x \in CWords |-> IF ~InUse(w) THEN Unread ELSE Kept(w, x)]]
  BY <1>1 DEF DataMem, Kept
<1>5. datamem' \in [Ways -> [CWords -> DataWords]]
  BY <1>2, <1>3, <1>4
<1>6. ASSUME NEW w \in Ways, NEW x \in CWords, InUse(w)
      PROVE  /\ datamem'[w][x] = Kept(w, x)
             /\ Kept(w, x)' = IF s1w' # Nil /\ s1w'.way = w /\ x \in s1w'.words THEN s1w'.data[x] ELSE Kept(w, x)
  <2>1. datamem'[w][x] = Kept(w, x)
    BY <1>4, <1>6
  <2> QED
    BY <2>1 DEF Kept
<1>7. ASSUME NEW w \in Ways, NEW x \in CWords, InUse(w)
      PROVE  Kept(w, x)' =
                   IF Wen /\ w = (IF MshrHit THEN mshr.way ELSE HitWay) /\ x = s0.word
                   THEN DataWord(s0.line, s0.word, s0.ver)
                   ELSE IF ~Wen /\ FillWen /\ w = mshr.way /\ Beat(x) = rbuf.filled /\ x \notin mshr.wmask
                   THEN rbuf.data[x]
                   ELSE Kept(w, x)
  <2>1. CASE Wen
    BY <1>6, <1>7, <2>1, WriteMoves
  <2>2. CASE ~Wen /\ FillWen
    BY <1>6, <1>7, <2>2, WriteMoves
  <2>3. CASE ~Wen /\ ~FillWen
    BY <1>6, <1>7, <2>3, WriteMoves
  <2> QED
    BY <2>1, <2>2, <2>3
<1> QED
  BY <1>5, <1>6, <1>7

\* The valid bits that the edge changes.
LEMMA TagMoves ==
  ASSUME NEW lsq, NEW flush, NEW rv, Edge(lsq, flush, rv)
  PROVE  /\ tagmem' \in [Ways -> [valid : BOOLEAN, line : CLines \cup {Nil}]]
         /\ FillDone => tagmem'[mshr.way] = [valid |-> TRUE, line |-> mshr.line]
         /\ FillMoves(rv) /\ ~FillDone => ~tagmem'[mshr.way].valid
         /\ \A w \in Ways : \/ tagmem'[w] = tagmem[w] \/ ~tagmem'[w].valid
                            \/ FillDone /\ w = mshr.way
         /\ Is("inv") /\ ~MshrHit =>
              \A w \in TagHits : ~tagmem'[w].valid \/ (FillDone /\ w = mshr.way)
<1>1. /\ TagMem(rv) /\ tagmem \in [Ways -> [valid : BOOLEAN, line : CLines \cup {Nil}]]
  BY EdgeParts DEF Parts, DcTypeOK, CacheEdge
<1>2. /\ FillDone => FillWen
      /\ FillMoves(rv) <=> FillWen /\ ~Wen
      /\ FillWen => mshr.way \in Ways /\ mshr.line \in CLines
      /\ Wen => Is("store")
  BY MissControl, HitControl
<1>3. Is("inv") => ~Wen
  BY <1>2 DEF Is
<1>4. ~(Is("inv") /\ ~MshrHit /\ FillWen /\ ~TagMiss /\ TagHits # {mshr.way})
  BY NoFaults
<1>5. Is("inv") /\ ~MshrHit /\ FillWen => TagHits \subseteq {mshr.way}
  BY <1>4 DEF TagMiss
<1>6. TagHits \subseteq Ways
  BY DEF TagHits
<1>7. CASE FillDone
  <2>1. tagmem' = [tagmem EXCEPT ![mshr.way] = [valid |-> TRUE, line |-> mshr.line]]
    BY <1>1, <1>7 DEF TagMem
  <2>2. [valid |-> TRUE, line |-> mshr.line] \in [valid : BOOLEAN, line : CLines \cup {Nil}]
    BY <1>2, <1>7
  <2> QED
    BY <1>1, <1>2, <1>5, <1>7, <2>1, <2>2
<1>8. CASE ~FillDone /\ FillMoves(rv)
  <2>1. tagmem' = [tagmem EXCEPT ![mshr.way] = [tagmem[mshr.way] EXCEPT !.valid = FALSE]]
    BY <1>1, <1>8 DEF TagMem
  <2>2. mshr.way \in Ways
    BY <1>2, <1>8
  <2>3. [tagmem[mshr.way] EXCEPT !.valid = FALSE] \in [valid : BOOLEAN, line : CLines \cup {Nil}]
        /\ [tagmem[mshr.way] EXCEPT !.valid = FALSE].valid = FALSE
    BY <1>1, <2>2
  <2> QED
    BY <1>1, <1>2, <1>5, <1>8, <2>1, <2>2, <2>3
<1>9. CASE ~FillDone /\ ~FillMoves(rv) /\ Is("inv") /\ ~MshrHit
  <2>1. tagmem' = [w \in Ways |-> IF w \in TagHits THEN [tagmem[w] EXCEPT !.valid = FALSE] ELSE tagmem[w]]
    BY <1>1, <1>9 DEF TagMem
  <2>2. \A w \in Ways : /\ [tagmem[w] EXCEPT !.valid = FALSE] \in [valid : BOOLEAN, line : CLines \cup {Nil}]
                        /\ [tagmem[w] EXCEPT !.valid = FALSE].valid = FALSE
    BY <1>1
  <2> QED
    BY <1>1, <1>6, <1>9, <2>1, <2>2
<1>10. CASE ~FillDone /\ ~FillMoves(rv) /\ ~(Is("inv") /\ ~MshrHit)
  <2>1. tagmem' = tagmem
    BY <1>1, <1>10 DEF TagMem
  <2> QED
    BY <1>1, <1>10, <2>1
<1> QED
  BY <1>7, <1>8, <1>9, <1>10

\* The fifo gets the read of a new miss, or the store that leaves stage 0.
LEMMA FifoMoves ==
  ASSUME NEW lsq, NEW flush, NEW rv, Edge(lsq, flush, rv)
  PROVE  /\ l2mem' = l2mem
         /\ \/ /\ Alloc
               /\ \E r \in FifoReqs : /\ l2q' = Append(l2q, r)
                                      /\ r.read = TRUE /\ r.line = s0.line
                                      /\ r = [read |-> TRUE, line |-> s0.line, word |-> 0, ver |-> 0]
            \/ /\ ~Alloc /\ Is("store") /\ ~S0Stall(rv)
               /\ \E r \in FifoReqs : /\ l2q' = Append(l2q, r)
                                      /\ r.read = FALSE /\ r.line = s0.line /\ r.word = s0.word /\ r.ver = s0.ver
            \/ ~Alloc /\ ~(Is("store") /\ ~S0Stall(rv)) /\ l2q' = l2q
<1>1. Request /\ l2mem' = l2mem
  BY EdgeParts DEF CacheEdge
<1>2. CASE Alloc
  <2>1. l2q' = Append(l2q, [read |-> TRUE, line |-> s0.line, word |-> 0, ver |-> 0])
    BY <1>1, <1>2 DEF Request
  <2>2. s0.line \in CLines
    BY <1>2, MissControl
  <2>3. [read |-> TRUE, line |-> s0.line, word |-> 0, ver |-> 0] \in FifoReqs
    BY <2>2, WordsOfBeats DEF FifoReqs
  <2> QED
    BY <1>1, <1>2, <2>1, <2>3
<1>3. CASE ~Alloc /\ Is("store") /\ ~S0Stall(rv)
  <2>1. FifoHasRoom /\ (MshrHit => WrMerge)
    BY <1>3, HitControl
  <2>2. l2q' = Append(l2q, [read |-> FALSE, line |-> s0.line, word |-> s0.word, ver |-> s0.ver])
    BY <1>1, <1>3, <2>1 DEF Request
  <2>3. s0.line \in CLines /\ s0.word \in CWords /\ s0.ver \in Nat
    BY <1>3, EdgeParts DEF Parts, DcTypeOK, Requests0, Is
  <2>4. [read |-> FALSE, line |-> s0.line, word |-> s0.word, ver |-> s0.ver] \in FifoReqs
    BY <2>3 DEF FifoReqs
  <2> QED
    BY <1>1, <1>3, <2>2, <2>4
<1>4. CASE ~Alloc /\ ~(Is("store") /\ ~S0Stall(rv))
  <2>1. ~(Is("store") /\ FifoHasRoom /\ (~MshrHit \/ WrMerge))
    BY <1>4 DEF S0Stall, Is
  <2> QED
    BY <1>1, <1>4, <2>1 DEF Request
<1> QED
  BY <1>2, <1>3, <1>4

\* The response moves on with a beat.
LEMMA RespMoves ==
  ASSUME NEW lsq, NEW flush, NEW rv, Edge(lsq, flush, rv)
  PROVE  /\ ~Beats1(rv) => resp' = resp
         /\ Beats1(rv) /\ rbuf.got = Beats - 1 => resp' = Nil
         /\ Beats1(rv) /\ rbuf.got # Beats - 1 =>
              /\ resp' \in Responses /\ resp' # Nil /\ resp'.line = resp.line /\ resp'.vers = resp.vers
              /\ resp'.beat = rbuf.got + 1
         /\ resp' \in Responses \cup {Nil}
<1>1. /\ resp' = IF ~(rv /\ BeatDone) THEN resp
                 ELSE IF resp.beat = Beats - 1 THEN Nil ELSE [resp EXCEPT !.beat = @ + 1]
      /\ resp \in Responses \cup {Nil}
  BY EdgeParts DEF Parts, DcTypeOK, CacheEdge
<1>2. CASE ~Beats1(rv)
  BY <1>1, <1>2 DEF Beats1
<1>3. CASE Beats1(rv)
  <2>1. resp # Nil /\ resp.beat = rbuf.got /\ rbuf.got \in 0 .. Beats - 1
    BY <1>3, MissControl DEF Beats1
  <2>2. resp' = IF rbuf.got = Beats - 1 THEN Nil ELSE [resp EXCEPT !.beat = rbuf.got + 1]
    BY <1>1, <1>3, <2>1 DEF Beats1
  <2>3. rbuf.got # Beats - 1 => rbuf.got + 1 \in 0 .. Beats - 1
    BY <2>1, DcacheAssumption
  <2>4. rbuf.got # Beats - 1 => [resp EXCEPT !.beat = rbuf.got + 1] \in Responses
    BY <1>1, <2>1, <2>3 DEF Responses
  <2>5. resp \in Responses
    BY <1>1, <2>1
  <2> QED
    BY <1>3, <2>2, <2>4, <2>5, NilIsNothing DEF Responses
<1> QED
  BY <1>2, <1>3

\* Versions and what loads may return.
LEMMA HistoryMoves ==
  ASSUME NEW lsq, NEW flush, NEW rv, Edge(lsq, flush, rv)
  PROVE  /\ writes' = IF Stores(lsq) THEN writes + 1 ELSE writes
         /\ writes \in Nat /\ writes' \in Nat /\ writes <= writes'
         /\ inv' = IF S0Stall(rv) THEN inv ELSE Nil
         /\ seen' \in [CLines -> [CWords -> SUBSET (0 .. writes')]]
         /\ \A l \in CLines, x \in CWords :
              seen'[l][x] = IF Stores(lsq)
                            THEN IF l = lsq.line /\ x = lsq.word THEN {writes + 1} ELSE seen[l][x]
                            ELSE IF inv # Nil /\ ~S0Stall(rv) /\ l = inv.line
                            THEN {v \in seen[l][x] : v >= inv.from[x]}
                            ELSE seen[l][x]
         /\ goal' \in [Ids -> SUBSET (CLines \X CWords \X (0 .. writes'))]
         /\ \A i \in Ids : goal'[i] = IF flush THEN {}
                                      ELSE IF Loads(lsq) /\ lsq.id = i THEN Allowed(lsq.line, lsq.word)
                                      ELSE IF s2 # Nil /\ s2.id = i THEN {} ELSE goal[i]
<1>1. /\ writes \in Nat /\ seen \in [CLines -> [CWords -> SUBSET (0 .. writes)]]
      /\ goal \in [Ids -> SUBSET (CLines \X CWords \X (0 .. writes))]
      /\ inv \in Invs \cup {Nil}
      /\ CacheHistory(lsq, flush, rv)
      /\ inv' = IF S0Stall(rv) THEN inv ELSE Nil
  BY EdgeParts DEF Parts, DcTypeOK, CacheEdge
<1>2. writes' = IF Stores(lsq) THEN writes + 1 ELSE writes
  BY <1>1 DEF CacheHistory, Stores
<1>3. /\ writes' \in Nat /\ writes <= writes' /\ 0 .. writes \subseteq 0 .. writes'
      /\ Stores(lsq) => writes + 1 \in 0 .. writes'
  BY <1>1, <1>2
<1>4. seen \in [CLines -> [CWords -> SUBSET (0 .. writes')]]
  BY <1>1, <1>3
<1>5. /\ seen' \in [CLines -> [CWords -> SUBSET (0 .. writes')]]
      /\ \A l \in CLines, x \in CWords :
              seen'[l][x] = IF Stores(lsq)
                            THEN IF l = lsq.line /\ x = lsq.word THEN {writes + 1} ELSE seen[l][x]
                            ELSE IF inv # Nil /\ ~S0Stall(rv) /\ l = inv.line
                            THEN {v \in seen[l][x] : v >= inv.from[x]}
                            ELSE seen[l][x]
  <2>1. CASE Stores(lsq)
    <3>1. lsq.ver = writes + 1 /\ lsq.line \in CLines /\ lsq.word \in CWords
      BY <2>1, AskedFor DEF Stores
    <3>2. seen' = [seen EXCEPT ![lsq.line] = [seen[lsq.line] EXCEPT ![lsq.word] = {writes + 1}]]
      BY <1>1, <2>1, <3>1 DEF CacheHistory, Stores
    <3>3. [seen[lsq.line] EXCEPT ![lsq.word] = {writes + 1}] \in [CWords -> SUBSET (0 .. writes')]
      BY <1>3, <1>4, <2>1, <3>1
    <3> QED
      BY <1>4, <2>1, <3>1, <3>2, <3>3
  <2>2. CASE ~Stores(lsq) /\ inv # Nil /\ ~S0Stall(rv)
    <3> DEFINE new == [x \in CWords |-> {v \in seen[inv.line][x] : v >= inv.from[x]}]
    <3>1. inv.line \in CLines
      BY <1>1, <2>2 DEF Invs
    <3>2. seen' = [seen EXCEPT ![inv.line] = new]
      BY <1>1, <2>2 DEF CacheHistory, Stores
    <3>3. new \in [CWords -> SUBSET (0 .. writes')]
      BY <1>4, <3>1
    <3>4. \A x \in CWords : new[x] = {v \in seen[inv.line][x] : v >= inv.from[x]}
      OBVIOUS
    <3> HIDE DEF new
    <3> QED
      BY <1>4, <2>2, <3>1, <3>2, <3>3, <3>4
  <2>3. CASE ~Stores(lsq) /\ ~(inv # Nil /\ ~S0Stall(rv))
    <3>1. seen' = seen
      BY <1>1, <2>3 DEF CacheHistory, Stores
    <3> QED
      BY <1>4, <2>3, <3>1
  <2> QED
    BY <2>1, <2>2, <2>3
<1>6. Loads(lsq) => /\ lsq.line \in CLines /\ lsq.word \in CWords
                    /\ Allowed(lsq.line, lsq.word) \subseteq CLines \X CWords \X (0 .. writes')
  <2> SUFFICES ASSUME Loads(lsq)
               PROVE  /\ lsq.line \in CLines /\ lsq.word \in CWords
                      /\ Allowed(lsq.line, lsq.word) \subseteq CLines \X CWords \X (0 .. writes')
    OBVIOUS
  <2>1. lsq.line \in CLines /\ lsq.word \in CWords
    BY AskedFor DEF Loads
  <2> QED
    BY <1>4, <2>1 DEF Allowed, DataWord
<1>7. goal' = [i \in Ids |-> IF flush THEN {}
                             ELSE IF Loads(lsq) /\ lsq.id = i THEN Allowed(lsq.line, lsq.word)
                             ELSE IF s2 # Nil /\ s2.id = i THEN {} ELSE goal[i]]
  BY <1>1 DEF CacheHistory, Loads, Allowed
<1>8. goal \in [Ids -> SUBSET (CLines \X CWords \X (0 .. writes'))]
  <2>1. CLines \X CWords \X (0 .. writes) \subseteq CLines \X CWords \X (0 .. writes')
    BY <1>3
  <2> QED
    BY <1>1, <2>1
<1> QED
  BY <1>1, <1>2, <1>3, <1>5, <1>6, <1>7, <1>8

-----------------------------------------------------------------------------
(* The clock edge keeps each part of the invariant *)

\* The registers keep their types.
LEMMA EdgeType ==
  ASSUME NEW lsq, NEW flush, NEW rv, Edge(lsq, flush, rv)
  PROVE  DcTypeOK'
<1>1. Parts /\ flush \in BOOLEAN /\ rv \in BOOLEAN
  BY EdgeParts
<1>2. /\ s0' \in Requests0 /\ (s0'.req => s0'.line \in CLines) /\ (Is("load")' => s0'.id \in Ids)
  BY Stage0Moves
<1>3. s1' \in Reads1 \cup {Nil} /\ (s1' # Nil /\ ~s1'.forward => s1'.way \in Ways)
  BY <1>1, Stage1Moves DEF Parts, DcTypeOK
<1>4. s2' \in Answers2 \cup {Nil}
  BY Stage2Moves
<1>5. s1w' \in Writes1 \cup {Nil}
  BY WriteMoves
<1>6. datamem' \in [Ways -> [CWords -> DataWords]]
  BY KeptMoves
<1>7. tagmem' \in [Ways -> [valid : BOOLEAN, line : CLines \cup {Nil}]]
  BY TagMoves
<1>8. /\ l2q' \in Seq(FifoReqs) /\ l2mem' \in [CLines -> [CWords -> Nat]]
  <2>1. l2q \in Seq(FifoReqs) /\ l2mem \in [CLines -> [CWords -> Nat]]
    BY <1>1 DEF Parts, DcTypeOK
  <2>2. l2mem' = l2mem /\ (l2q' = l2q \/ \E r \in FifoReqs : l2q' = Append(l2q, r))
    BY FifoMoves
  <2>3. ASSUME NEW r \in FifoReqs, l2q' = Append(l2q, r) PROVE l2q' \in Seq(FifoReqs)
    BY <2>1, <2>3
  <2> QED
    BY <2>1, <2>2, <2>3
<1>9. resp' \in Responses \cup {Nil}
  BY RespMoves
<1>10. /\ inv' \in Invs \cup {Nil} /\ writes' \in Nat
       /\ seen' \in [CLines -> [CWords -> SUBSET (0 .. writes')]]
       /\ goal' \in [Ids -> SUBSET (CLines \X CWords \X (0 .. writes'))]
  BY <1>1, HistoryMoves DEF Parts, DcTypeOK
<1> DEFINE Misses == [valid : BOOLEAN, obsolete : BOOLEAN, line : CLines \cup {Nil}, way : Ways \cup {Nil},
               reqs : [CWords -> Ids \cup {Nil}], wen : BOOLEAN, wmask : SUBSET CWords]
           Buffers == [started : BOOLEAN, got : 0 .. Beats, filled : 0 .. Beats, data : [CWords -> DataWords]]
<1>11. /\ mshr \in Misses /\ (mshr.valid => mshr.line \in CLines /\ mshr.way \in Ways) /\ rbuf \in Buffers
  BY <1>1 DEF Parts, DcTypeOK
<1>12. NoMiss \in Misses /\ ~NoMiss.valid
  BY DEF NoMiss
<1>13. CASE Alloc
  <2>1. mshr' \in Misses
    <3>1. s0.line \in CLines /\ s0.id \in Ids
      BY <1>13, MissControl
    <3> DEFINE rq == [x \in CWords |-> IF x = s0.word THEN s0.id ELSE Nil]
    <3>2. rq \in [CWords -> Ids \cup {Nil}]
      BY <3>1
    <3>3. mshr' = [valid |-> TRUE, obsolete |-> flush, line |-> s0.line, way |-> mshr'.way,
                     reqs |-> mshr'.reqs, wen |-> FALSE, wmask |-> {}]
      BY <1>13, NewMiss
    <3>4. mshr'.reqs = rq /\ mshr'.way \in Ways
      BY <1>13, NewMiss
    <3> HIDE DEF rq
    <3>5. mshr' = [valid |-> TRUE, obsolete |-> flush, line |-> s0.line, way |-> mshr'.way,
                     reqs |-> rq, wen |-> FALSE, wmask |-> {}]
      BY <3>3, <3>4
    <3> DEFINE wy == mshr'.way
    <3>6. wy \in Ways /\ mshr' = [valid |-> TRUE, obsolete |-> flush, line |-> s0.line, way |-> wy,
                     reqs |-> rq, wen |-> FALSE, wmask |-> {}]
      BY <3>4, <3>5
    <3> HIDE DEF wy
    <3> QED
      BY <1>1, <3>1, <3>2, <3>6
  <2>2. mshr'.line \in CLines /\ mshr'.way \in Ways
    BY <1>13, NewMiss, MissControl
  <2>3. rbuf' \in Buffers
    <3>1. rbuf' = [started |-> FALSE, got |-> 0, filled |-> 0, data |-> rbuf.data]
      BY <1>13, NewMiss
    <3> QED
      BY <1>11, <3>1, DcacheAssumption
  <2> HIDE DEF Misses, Buffers
  <2> QED
    BY <1>2, <1>3, <1>4, <1>5, <1>6, <1>7, <1>8, <1>9, <1>10, <2>1, <2>2, <2>3 DEF DcTypeOK, Misses, Buffers
<1>14. CASE ~Alloc
  <2>1. mshr' \in Misses /\ (mshr'.valid => mshr'.line \in CLines /\ mshr'.way \in Ways)
    <3>1. CASE Stays(rv)
      <4>1. mshr' = [valid |-> mshr.valid /\ ~FillDone, obsolete |-> flush \/ mshr.obsolete,
                     line |-> mshr.line, way |-> mshr.way, reqs |-> NextReqs(rv),
                     wen |-> mshr.wen \/ WrMerge, wmask |-> Merged]
        BY <1>14, <3>1, OldMiss
      <4>2. Merged \in SUBSET CWords
        BY <1>1, <1>11 DEF Merged, Parts, DcTypeOK, Requests0
      <4>3. NextReqs(rv) \in [CWords -> Ids \cup {Nil}]
        BY <1>14, OldRequests
      <4>4. (mshr.valid /\ ~FillDone) \in BOOLEAN /\ (mshr.wen \/ WrMerge) \in BOOLEAN
        BY <1>11
      <4>5. (flush \/ mshr.obsolete) \in BOOLEAN
        BY <1>1, <1>11
      <4>6. mshr.line \in CLines \cup {Nil} /\ mshr.way \in Ways \cup {Nil}
        BY <1>11
      <4>7. mshr' \in Misses
        BY <4>1, <4>2, <4>3, <4>4, <4>5, <4>6
      <4> QED
        BY <1>11, <4>1, <4>7
    <3>2. CASE ~Stays(rv)
      BY <1>12, <1>14, <3>2, OldMiss
    <3> QED
      BY <3>1, <3>2
  <2>2. rbuf' \in Buffers
    <3>1. /\ rbuf' = [started |-> rbuf'.started, got |-> rbuf'.got, filled |-> rbuf'.filled, data |-> rbuf'.data]
          /\ rbuf'.got = IF Stays(rv) THEN Got1(rv) ELSE 0
          /\ rbuf'.filled = IF Stays(rv) THEN Filled1(rv) ELSE 0
          /\ rbuf'.data \in [CWords -> DataWords]
          /\ Got1(rv) \in 0 .. Beats /\ Filled1(rv) \in 0 .. Beats
      BY <1>14, OldMiss
    <3>2. rbuf'.started \in BOOLEAN
      <4>1. Beats1(rv) \in BOOLEAN /\ rbuf.started \in BOOLEAN
        BY <1>1, <1>11 DEF Beats1, BeatDone
      <4> QED
        BY <1>14, <4>1, OldMiss
    <3>3. rbuf'.got \in 0 .. Beats /\ rbuf'.filled \in 0 .. Beats
      BY <3>1, DcacheAssumption
    <3> DEFINE st == rbuf'.started
               gt == rbuf'.got
               fl == rbuf'.filled
               da == rbuf'.data
    <3>4. /\ rbuf' = [started |-> st, got |-> gt, filled |-> fl, data |-> da]
          /\ st \in BOOLEAN /\ gt \in 0 .. Beats /\ fl \in 0 .. Beats /\ da \in [CWords -> DataWords]
      BY <3>1, <3>2, <3>3
    <3> HIDE DEF st, gt, fl, da
    <3> QED
      BY <3>4
  <2> HIDE DEF Misses, Buffers
  <2> QED
    BY <1>2, <1>3, <1>4, <1>5, <1>6, <1>7, <1>8, <1>9, <1>10, <2>1, <2>2 DEF DcTypeOK, Misses, Buffers
<1> QED
  BY <1>13, <1>14

\* Where the requests of the fifo are after an edge.
LEMMA FifoIndex ==
  ASSUME NEW lsq, NEW flush, NEW rv, Edge(lsq, flush, rv)
  PROVE  /\ l2mem' = l2mem
         /\ \A i \in DOMAIN l2q : i \in DOMAIN l2q' /\ l2q'[i] = l2q[i]
         /\ \A i \in DOMAIN l2q' : i \in Nat
         /\ \A i \in DOMAIN l2q' : i \notin DOMAIN l2q =>
              /\ \A j \in DOMAIN l2q' : j <= i
              /\ l2q'[i].line = s0.line
              /\ \/ Alloc /\ l2q'[i].read /\ l2q'[i].ver = 0
                 \/ Is("store") /\ ~S0Stall(rv) /\ ~l2q'[i].read /\ l2q'[i].word = s0.word /\ l2q'[i].ver = s0.ver
         /\ Alloc => \E i \in DOMAIN l2q' : i \notin DOMAIN l2q
<1>1. l2q \in Seq(FifoReqs)
  BY EdgeParts DEF Parts, DcTypeOK
<1>2. ASSUME NEW r \in FifoReqs, l2q' = Append(l2q, r)
      PROVE  /\ DOMAIN l2q' = (DOMAIN l2q) \cup {Len(l2q) + 1} /\ l2q'[Len(l2q) + 1] = r
             /\ Len(l2q) + 1 \notin DOMAIN l2q /\ Len(l2q) + 1 \in Nat
             /\ \A i \in DOMAIN l2q : l2q'[i] = l2q[i] /\ i \in Nat /\ i <= Len(l2q) + 1
  BY <1>1, <1>2
<1>3. l2mem' = l2mem
  BY FifoMoves
<1>4. CASE Alloc
  <2>1. PICK r \in FifoReqs : /\ l2q' = Append(l2q, r)
                              /\ r = [read |-> TRUE, line |-> s0.line, word |-> 0, ver |-> 0]
    BY <1>4, FifoMoves
  <2>2. r.read /\ r.line = s0.line /\ r.ver = 0
    BY <2>1
  <2> QED
    BY <1>2, <1>3, <1>4, <2>1, <2>2
<1>5. CASE ~Alloc /\ Is("store") /\ ~S0Stall(rv)
  <2>1. PICK r \in FifoReqs : /\ l2q' = Append(l2q, r)
                              /\ r.read = FALSE /\ r.line = s0.line /\ r.word = s0.word /\ r.ver = s0.ver
    BY <1>5, FifoMoves
  <2> QED
    BY <1>2, <1>3, <1>5, <2>1
<1>6. CASE ~Alloc /\ ~(Is("store") /\ ~S0Stall(rv))
  <2>1. l2q' = l2q
    BY <1>6, FifoMoves
  <2>2. \A i \in DOMAIN l2q : i \in Nat
    BY <1>1
  <2> QED
    BY <1>3, <1>6, <2>1, <2>2
<1> QED
  BY <1>4, <1>5, <1>6

\* A miss is in the fifo once, then answered beat by beat, until all are there.
LEMMA EdgeServed ==
  ASSUME NEW lsq, NEW flush, NEW rv, Edge(lsq, flush, rv)
  PROVE  MissIsServed'
<1>1. /\ Parts /\ flush \in BOOLEAN /\ rv \in BOOLEAN /\ (rv => resp # Nil)
  BY EdgeParts
<1>2. MissIsServed /\ rbuf.got \in 0 .. Beats /\ rbuf.filled \in 0 .. Beats
  BY <1>1 DEF Parts, DcTypeOK
<1>3. CASE Alloc
  <2>1. /\ mshr'.valid /\ mshr'.line = s0.line /\ rbuf'.started = FALSE /\ rbuf'.got = 0 /\ rbuf'.filled = 0
    BY <1>3, NewFields
  <2>2. ~rv /\ InFifo = {} /\ resp = Nil
    BY <1>3, MissControl
  <2>3. resp' = Nil
    BY <2>2, RespMoves DEF Beats1
  <2>4. PICK i \in DOMAIN l2q' : i \notin DOMAIN l2q
    BY <1>3, FifoIndex
  <2>5. l2q'[i].read /\ l2q'[i].line = s0.line
    BY <1>3, <2>4, FifoIndex DEF Alloc, Is
  <2>6. ASSUME NEW j \in InFifo' PROVE j = i
    <3>1. j \in DOMAIN l2q' /\ l2q'[j].read
      BY DEF InFifo
    <3>2. j \notin DOMAIN l2q
      BY <2>2, <3>1, FifoIndex DEF InFifo
    <3> QED
      BY <2>4, <3>1, <3>2, FifoIndex
  <2>7. InFifo' = {i}
    BY <2>4, <2>5, <2>6 DEF InFifo
  <2>8. \E k \in InFifo' : InFifo' = {k} /\ l2q'[k].line = mshr'.line
    BY <2>1, <2>5, <2>7
  <2> QED
    BY <2>1, <2>3, <2>8 DEF MissIsServed
<1>4. CASE ~Alloc
  <2>1. InFifo' = InFifo /\ \A i \in InFifo : l2q'[i] = l2q[i]
    <3>1. \A i \in DOMAIN l2q' : i \notin DOMAIN l2q => ~l2q'[i].read
      BY <1>4, FifoIndex
    <3> QED
      BY <3>1, FifoIndex DEF InFifo
  <2>2. /\ rbuf'.filled <= rbuf'.got /\ (rbuf'.started <=> rbuf'.got > 0)
    <3>1. CASE Stays(rv)
      <4>1. /\ rbuf'.got = Got1(rv) /\ rbuf'.filled = Filled1(rv) /\ Filled1(rv) <= Got1(rv)
            /\ rbuf'.started = (Beats1(rv) \/ rbuf.started)
        BY <1>4, <3>1, OldFields
      <4>2. rbuf.started <=> rbuf.got > 0
        BY <1>2 DEF MissIsServed
      <4>3. (Beats1(rv) \/ rbuf.started) <=> Got1(rv) > 0
        BY <1>2, <4>2, DcacheAssumption DEF Got1
      <4> QED
        BY <4>1, <4>3
    <3>2. CASE ~Stays(rv)
      <4>1. rbuf'.started = FALSE /\ rbuf'.got = 0 /\ rbuf'.filled = 0
        BY <1>4, <3>2, OldFields, Zenon
      <4> QED
        BY <4>1
    <3> QED
      BY <3>1, <3>2
  <2>3. /\ mshr'.valid <=> mshr.valid /\ ~FillDone
        /\ mshr'.valid => mshr'.line = mshr.line /\ rbuf'.got = Got1(rv)
    <3>1. CASE Stays(rv)
      BY <1>4, <3>1, OldFields
    <3>2. CASE ~Stays(rv)
      <4>1. ~mshr'.valid
        BY <1>4, <3>2, OldFields
      <4> QED
        BY <3>2, <4>1 DEF Stays
    <3> QED
      BY <3>1, <3>2
  <2>4. CASE ~mshr.valid
    <3>1. InFifo = {} /\ resp = Nil /\ ~rv
      BY <1>1, <1>2, <2>4 DEF MissIsServed
    <3>2. resp' = Nil
      BY <3>1, RespMoves DEF Beats1
    <3> QED
      BY <2>1, <2>2, <2>3, <2>4, <3>1, <3>2 DEF MissIsServed
  <2>5. CASE mshr.valid /\ resp = Nil
    <3>1. ~Beats1(rv) /\ ~rv
      BY <1>1, <2>5 DEF Beats1
    <3>2. resp' = Nil /\ Got1(rv) = rbuf.got
      BY <2>5, <3>1, RespMoves DEF Got1
    <3>3. FillDone => rbuf.got # 0
      BY MissControl, DcacheAssumption
    <3>4. CASE InFifo = {}
      <4>1. rbuf.got = Beats
        BY <1>2, <2>5, <3>4 DEF MissIsServed
      <4> QED
        BY <2>1, <2>2, <2>3, <3>2, <3>4, <4>1 DEF MissIsServed
    <3>5. CASE InFifo # {}
      <4>1. PICK i \in InFifo : InFifo = {i} /\ l2q[i].line = mshr.line /\ rbuf.got = 0
        BY <1>2, <2>5, <3>5 DEF MissIsServed
      <4>2. \E k \in InFifo' : InFifo' = {k} /\ l2q'[k].line = mshr.line
        BY <2>1, <4>1
      <4>3. mshr'.valid /\ mshr'.line = mshr.line /\ rbuf'.got = 0
        BY <2>3, <2>5, <3>2, <3>3, <4>1
      <4> QED
        BY <2>2, <3>2, <4>2, <4>3 DEF MissIsServed
    <3> QED
      BY <3>4, <3>5
  <2>6. CASE mshr.valid /\ resp # Nil
    <3>1. InFifo = {} /\ resp.line = mshr.line /\ resp.beat = rbuf.got
      BY <1>2, <2>6 DEF MissIsServed
    <3>2. rbuf.got \in 0 .. Beats - 1
      BY <1>1, <2>6, <3>1 DEF Parts, DcTypeOK, Responses
    <3>3. ~FillDone
      BY <3>2, MissControl, DcacheAssumption
    <3>4. mshr'.valid /\ mshr'.line = mshr.line /\ rbuf'.got = Got1(rv)
      BY <2>3, <2>6, <3>3
    <3>5. CASE Beats1(rv)
      <4>1. Got1(rv) = rbuf.got + 1
        BY <3>5 DEF Got1
      <4>2. rbuf.got = Beats - 1 => Got1(rv) = Beats
        BY <4>1, DcacheAssumption
      <4>3. CASE rbuf.got = Beats - 1
        BY <2>1, <2>2, <3>1, <3>4, <3>5, <4>2, <4>3, RespMoves DEF MissIsServed
      <4>4. CASE rbuf.got # Beats - 1
        <5>1. resp' # Nil /\ resp'.line = resp.line /\ resp'.beat = rbuf.got + 1
          BY <3>5, <4>4, RespMoves
        <5> QED
          BY <2>1, <2>2, <3>1, <3>4, <4>1, <5>1 DEF MissIsServed
      <4> QED
        BY <4>3, <4>4
    <3>6. CASE ~Beats1(rv)
      <4>1. resp' = resp /\ Got1(rv) = rbuf.got
        BY <3>6, RespMoves DEF Got1
      <4> QED
        BY <2>1, <2>2, <2>6, <3>1, <3>4, <4>1 DEF MissIsServed
    <3> QED
      BY <3>5, <3>6
  <2> QED
    BY <2>4, <2>5, <2>6
<1> QED
  BY <1>3, <1>4

\* The requests move up with the beats, and none is left behind.
LEMMA EdgeRequests ==
  ASSUME NEW lsq, NEW flush, NEW rv, Edge(lsq, flush, rv)
  PROVE  RequestsFit'
<1>1. /\ Parts /\ mshr.reqs \in [CWords -> Ids \cup {Nil}] /\ rbuf.got \in 0 .. Beats
  BY EdgeParts DEF Parts, DcTypeOK
<1>2. CASE Alloc
  <2>1. /\ mshr'.valid /\ rbuf'.got = 0
        /\ mshr'.reqs = [x \in CWords |-> IF x = s0.word THEN s0.id ELSE Nil]
    BY <1>2, NewFields
  <2>2. \A x \in CWords : 2 * 0 + x \in CWords
    BY WordsOfBeats DEF CWords
  <2> QED
    BY <2>1, <2>2 DEF RequestsFit
<1>3. CASE ~Alloc
  <2> SUFFICES ASSUME NEW x \in CWords, mshr'.reqs[x] # Nil
               PROVE  mshr'.valid /\ 2 * rbuf'.got + x \in CWords
    BY DEF RequestsFit
  <2>1. Stays(rv)
    BY <1>3, OldFields
  <2>2. mshr'.reqs = NextReqs(rv) /\ mshr'.valid = (mshr.valid /\ ~FillDone) /\ rbuf'.got = Got1(rv)
    BY <1>3, <2>1, OldFields
  <2>3. \A y \in CWords : mshr.reqs[y] # Nil => mshr.valid /\ 2 * rbuf.got + y \in CWords
    BY <1>1 DEF Parts, RequestsFit
  <2>4. \A y \in CWords : 2 * rbuf.got + y \in CWords => ~FillDone
    <3>1. FillDone => rbuf.got = Beats
      BY MissControl
    <3>2. \A y \in CWords : 2 * Beats + y \notin CWords
      BY DcacheAssumption DEF CWords
    <3> QED
      BY <3>1, <3>2
  <2>5. CASE Beats1(rv)
    <3>1. x + 2 \in CWords /\ mshr.reqs[x + 2] # Nil
      BY <1>3, <2>2, <2>5, OldRequests
    <3>2. mshr.valid /\ 2 * rbuf.got + (x + 2) \in CWords /\ ~FillDone
      BY <2>3, <2>4, <3>1
    <3>3. 2 * (rbuf.got + 1) + x = 2 * rbuf.got + (x + 2)
      <4>1. rbuf.got \in Nat
        BY <1>1, DcacheAssumption
      <4>2. x \in Nat
        BY DEF CWords
      <4> QED
        BY <4>1, <4>2
    <3> QED
      BY <2>2, <2>5, <3>2, <3>3 DEF Got1
  <2>6. CASE ~Beats1(rv) /\ mshr.reqs[x] # Nil
    BY <2>2, <2>3, <2>4, <2>6 DEF Got1
  <2>7. CASE ~Beats1(rv) /\ mshr.reqs[x] = Nil
    <3>1. RdMerge(rv) /\ x = s0.word
      BY <1>3, <2>2, <2>7, OldRequests
    <3>2. mshr.valid /\ ~rbuf.started
      BY <3>1 DEF RdMerge, MshrHit
    <3>3. rbuf.got = 0
      BY <1>1, <3>2 DEF Parts, MissIsServed
    <3>4. 2 * rbuf.got + x \in CWords
      BY <3>3 DEF CWords
    <3> QED
      BY <2>2, <2>4, <2>7, <3>2, <3>4 DEF Got1
  <2> QED
    BY <2>5, <2>6, <2>7
<1> QED
  BY <1>2, <1>3

\* A refill makes its way invalid before it writes there, and no line gets a second place.
LEMMA EdgeLines ==
  ASSUME NEW lsq, NEW flush, NEW rv, Edge(lsq, flush, rv)
  PROVE  LinesAreOnce'
<1>1. /\ Parts /\ LinesAreOnce /\ rbuf.got \in 0 .. Beats /\ rbuf.filled \in 0 .. Beats
      /\ mshr.valid \in BOOLEAN
      /\ mshr.valid => mshr.line \in CLines /\ mshr.way \in Ways
  BY EdgeParts DEF Parts, DcTypeOK
<1>2. /\ FillDone => /\ rbuf.got = Beats /\ rbuf.filled = Beats - 1 /\ ~rv
                     /\ mshr.way \in Ways /\ mshr.line \in CLines
      /\ rv => mshr.valid
      /\ FillWen <=> rbuf.filled < rbuf.got
      /\ FillDone => FillWen
      /\ Late => FillDone
      /\ Alloc => ~FillWen /\ TagHits = {} /\ s0.line \in CLines
  BY MissControl
<1>3. /\ FillDone => tagmem'[mshr.way] = [valid |-> TRUE, line |-> mshr.line]
      /\ FillMoves(rv) /\ ~FillDone => ~tagmem'[mshr.way].valid
      /\ \A w \in Ways : \/ tagmem'[w] = tagmem[w] \/ ~tagmem'[w].valid
                         \/ FillDone /\ w = mshr.way
  BY TagMoves
<1>4. FillDone => tagmem'[mshr.way].valid = TRUE /\ tagmem'[mshr.way].line = mshr.line
  BY <1>3
<1>5. FillDone => \A w \in Ways : tagmem[w].valid /\ tagmem[w].line = mshr.line => w = mshr.way
  <2> SUFFICES ASSUME FillDone, NEW w \in Ways, tagmem[w].valid, tagmem[w].line = mshr.line
               PROVE  w = mshr.way
    OBVIOUS
  <2>1. ~mshr.valid
    BY <1>1 DEF LinesAreOnce
  <2>2. Late
    BY <1>2, <2>1 DEF Late
  <2>3. tagmem[mshr.way].valid /\ tagmem[mshr.way].line = mshr.line
    BY <1>1, <2>2 DEF LinesAreOnce
  <2> QED
    BY <1>1, <1>2, <2>3 DEF LinesAreOnce
<1>6. \A w \in Ways : tagmem'[w].valid => tagmem'[w].line \in CLines
  BY <1>1, <1>2, <1>3, <1>4 DEF LinesAreOnce
<1>7. \A w, v \in Ways : tagmem'[w].valid /\ tagmem'[v].valid /\ tagmem'[w].line = tagmem'[v].line => w = v
  <2> SUFFICES ASSUME NEW w \in Ways, NEW v \in Ways, tagmem'[w].valid, tagmem'[v].valid,
                      tagmem'[w].line = tagmem'[v].line
               PROVE  w = v
    OBVIOUS
  <2>1. CASE FillDone /\ w = mshr.way
    BY <1>3, <1>4, <1>5, <2>1
  <2>2. CASE FillDone /\ v = mshr.way
    BY <1>3, <1>4, <1>5, <2>2
  <2>3. CASE ~(FillDone /\ w = mshr.way) /\ ~(FillDone /\ v = mshr.way)
    BY <1>1, <1>3, <2>3 DEF LinesAreOnce
  <2> QED
    BY <2>1, <2>2, <2>3
<1>8. CASE Alloc
  <2>1. mshr'.valid = TRUE /\ mshr'.line = s0.line /\ rbuf'.filled = 0
    BY <1>8, NewFields
  <2>2. ~FillDone
    BY <1>2, <1>8
  <2>3. \A w \in Ways : tagmem'[w].valid => tagmem'[w].line # s0.line
    BY <1>2, <1>3, <1>8, <2>2 DEF TagHits
  <2>4. ~(rbuf'.filled > 0)
    BY <2>1
  <2>5. ~Late'
    BY <2>1 DEF Late
  <2> QED
    BY <1>6, <1>7, <2>1, <2>3, <2>4, <2>5 DEF LinesAreOnce
<1>9. CASE ~Alloc
  <2>1. ASSUME mshr'.valid
        PROVE  /\ \A w \in Ways : tagmem'[w].valid => tagmem'[w].line # mshr'.line
               /\ rbuf'.filled > 0 => ~tagmem'[mshr'.way].valid
    <3>1. Stays(rv)
      BY <1>9, <2>1, OldFields
    <3>2. /\ mshr.valid /\ ~FillDone /\ mshr'.line = mshr.line /\ mshr'.way = mshr.way
          /\ rbuf'.filled = Filled1(rv)
      BY <1>9, <2>1, <3>1, OldFields
    <3>3. \A w \in Ways : tagmem[w].valid => tagmem[w].line # mshr.line
      BY <1>1, <3>2 DEF LinesAreOnce
    <3>4. \A w \in Ways : tagmem'[w].valid => tagmem'[w].line # mshr.line
      BY <1>3, <3>2, <3>3
    <3>5. ASSUME Filled1(rv) > 0 PROVE ~tagmem'[mshr.way].valid
      <4>1. CASE FillMoves(rv)
        BY <1>3, <3>2, <4>1
      <4>2. CASE ~FillMoves(rv)
        <5>1. rbuf.filled > 0
          BY <3>5, <4>2 DEF Filled1
        <5>2. ~tagmem[mshr.way].valid /\ mshr.way \in Ways
          BY <1>1, <3>2, <5>1 DEF LinesAreOnce
        <5> QED
          BY <1>3, <3>2, <5>2
      <4> QED
        BY <4>1, <4>2
    <3> QED
      BY <3>2, <3>4, <3>5
  <2>2. ASSUME Late'
        PROVE  /\ rbuf'.got = Beats /\ rbuf'.filled = Beats - 1
               /\ mshr'.way \in Ways /\ mshr'.line \in CLines
               /\ tagmem'[mshr'.way] = [valid |-> TRUE, line |-> mshr'.line]
    <3>1. ~mshr'.valid /\ rbuf'.filled < rbuf'.got
      BY <2>2 DEF Late
    <3>2. Stays(rv)
      <4> SUFFICES ASSUME ~Stays(rv) PROVE FALSE
        OBVIOUS
      <4>1. rbuf'.filled = 0 /\ rbuf'.got = 0
        BY <1>9, OldFields, Zenon
      <4> QED
        BY <3>1, <4>1
    <3>3. /\ (~mshr.valid \/ FillDone) /\ mshr'.line = mshr.line /\ mshr'.way = mshr.way
          /\ rbuf'.filled = Filled1(rv) /\ rbuf'.got = Got1(rv)
      BY <1>9, <3>1, <3>2, OldFields
    <3>4. FillDone
      <4> SUFFICES ASSUME ~mshr.valid PROVE FillDone
        BY <3>3
      <4>1. Got1(rv) = rbuf.got /\ rbuf.filled <= Filled1(rv)
        BY <1>1, <1>2, DcacheAssumption DEF Got1, Filled1, Beats1
      <4>2. rbuf.filled < rbuf.got
        <5>1. Filled1(rv) \in 0 .. Beats
          BY <1>9, OldFields
        <5> QED
          BY <1>1, <3>1, <3>3, <4>1, <5>1
      <4> QED
        BY <1>2, <4>2 DEF Late
    <3>5. Got1(rv) = Beats
      BY <1>2, <3>4 DEF Got1, Beats1
    <3>6. Filled1(rv) = Beats - 1
      BY <1>2, <3>1, <3>3, <3>4, <3>5, DcacheAssumption DEF Filled1
    <3> QED
      BY <1>2, <1>3, <3>3, <3>4, <3>5, <3>6
  <2> QED
    BY <1>6, <1>7, <2>1, <2>2 DEF LinesAreOnce
<1> QED
  BY <1>8, <1>9

\* A store merged into the miss is masked, and so are all that follow the read in the fifo.
LEMMA EdgeMask ==
  ASSUME NEW lsq, NEW flush, NEW rv, Edge(lsq, flush, rv)
  PROVE  MaskIsOfStores'
<1>1. MaskIsOfStores /\ LinesAreOnce /\ (mshr.valid => mshr.way \in Ways)
  BY EdgeParts DEF Parts, DcTypeOK
<1>2. CASE Alloc
  <2>1. mshr'.valid = TRUE /\ mshr'.wmask = {}
    BY <1>2, NewFields
  <2>2. InFifo = {}
    BY <1>2, MissControl
  <2>3. \A i, j \in DOMAIN l2q' : l2q'[i].read => ~(i < j)
    <3> SUFFICES ASSUME NEW i \in DOMAIN l2q', NEW j \in DOMAIN l2q', l2q'[i].read, i < j PROVE FALSE
      OBVIOUS
    <3>1. i \notin DOMAIN l2q
      BY <2>2, FifoIndex DEF InFifo
    <3>2. j <= i /\ i \in Nat /\ j \in Nat
      BY <3>1, FifoIndex
    <3> QED
      BY <3>2
  <2> QED
    BY <2>1, <2>3 DEF MaskIsOfStores
<1>3. CASE ~Alloc
  <2> SUFFICES ASSUME mshr'.valid
               PROVE  /\ ~mshr'.wen => mshr'.wmask = {}
                      /\ \A i, j \in DOMAIN l2q' :
                           l2q'[i].read /\ i < j /\ l2q'[j].line = mshr'.line => l2q'[j].word \in mshr'.wmask
                      /\ tagmem'[mshr'.way].valid =>
                           \A x \in mshr'.wmask : Is("store")' /\ s0'.line = mshr'.line /\ s0'.word = x
    BY DEF MaskIsOfStores
  <2>1. /\ mshr.valid /\ ~FillDone /\ mshr'.line = mshr.line /\ mshr'.way = mshr.way
        /\ mshr'.wen = (mshr.wen \/ WrMerge) /\ mshr'.wmask = Merged
    <3>1. Stays(rv)
      BY <1>3, OldFields
    <3> QED
      BY <1>3, <3>1, OldFields
  <2>2. ~mshr'.wen => mshr'.wmask = {}
    BY <1>1, <2>1 DEF MaskIsOfStores, Merged
  <2>3. ASSUME NEW i \in DOMAIN l2q', NEW j \in DOMAIN l2q', l2q'[i].read, i < j, l2q'[j].line = mshr.line
        PROVE  l2q'[j].word \in Merged
    <3>1. i \in DOMAIN l2q /\ i \in Nat /\ j \in Nat
      BY <1>3, <2>3, FifoIndex
    <3>2. CASE j \in DOMAIN l2q
      BY <1>1, <2>1, <2>3, <3>1, <3>2, FifoIndex DEF MaskIsOfStores, Merged
    <3>3. CASE j \notin DOMAIN l2q
      <4>1. Is("store") /\ ~S0Stall(rv) /\ l2q'[j].word = s0.word /\ s0.line = mshr.line
        BY <1>3, <2>3, <3>3, FifoIndex
      <4>2. WrMerge
        BY <2>1, <4>1, HitControl DEF MshrHit
      <4> QED
        BY <4>1, <4>2 DEF Merged
    <3> QED
      BY <3>2, <3>3
  <2>4. ASSUME tagmem'[mshr.way].valid, NEW x \in Merged
        PROVE  Is("store")' /\ s0'.line = mshr.line /\ s0'.word = x
    <3>1. tagmem[mshr.way].valid
      BY <1>1, <2>1, <2>4, TagMoves
    <3>2. Is("store") /\ s0.line = mshr.line /\ s0.word = x
      BY <1>1, <2>1, <2>4, <3>1, HitControl DEF MaskIsOfStores, Merged, MshrHit
    <3>3. S0Stall(rv)
      <4> SUFFICES ASSUME ~S0Stall(rv) PROVE FALSE
        OBVIOUS
      <4>1. WrMerge /\ FifoHasRoom
        BY <2>1, <3>2, HitControl DEF MshrHit
      <4> QED
        BY <3>1, <4>1, NoFaults
    <3>4. s0' = s0
      BY <3>2, <3>3, Stage0Moves DEF Is
    <3> QED
      BY <3>2, <3>4 DEF Is
  <2> QED
    BY <2>1, <2>2, <2>3, <2>4
<1> QED
  BY <1>2, <1>3

\* What memory is going to have is a store's that left, or was before.
LEMMA NewestMoves ==
  ASSUME NEW lsq, NEW flush, NEW rv, Edge(lsq, flush, rv),
         NEW l, NEW x, NEW v, v \in Newest(l, x)'
  PROVE  \/ /\ Is("store") /\ ~S0Stall(rv) /\ s0.line = l /\ s0.word = x /\ v = s0.ver
         \/ /\ ~(Is("store") /\ ~S0Stall(rv) /\ s0.line = l /\ s0.word = x) /\ v \in Newest(l, x)
<1>1. l2q \in Seq(FifoReqs) /\ l2mem' = l2mem
  BY EdgeParts, FifoMoves DEF Parts, DcTypeOK
<1>2. CASE Alloc
  <2>1. PICK r \in FifoReqs : l2q' = Append(l2q, r) /\ r.read = TRUE
    BY <1>2, FifoMoves
  <2>2. v \in Newest(l, x)
    BY <1>1, <2>1, NewestAppended
  <2> QED
    BY <1>2, <2>2 DEF Alloc, Is
<1>3. CASE ~Alloc /\ Is("store") /\ ~S0Stall(rv)
  <2>1. PICK r \in FifoReqs : /\ l2q' = Append(l2q, r)
                              /\ r.read = FALSE /\ r.line = s0.line /\ r.word = s0.word /\ r.ver = s0.ver
    BY <1>3, FifoMoves
  <2>2. IF ~r.read /\ r.line = l /\ r.word = x THEN v = r.ver ELSE v \in Newest(l, x)
    BY <1>1, <2>1, NewestAppended
  <2> QED
    BY <1>3, <2>1, <2>2
<1>4. CASE ~Alloc /\ ~(Is("store") /\ ~S0Stall(rv))
  <2>1. l2q' = l2q
    BY <1>4, FifoMoves
  <2>2. v \in Newest(l, x)
    BY <1>1, <2>1 DEF Newest, StoresTo
  <2> QED
    BY <1>4, <2>2
<1> QED
  BY <1>2, <1>3, <1>4

\* Of a line that an invalidation speaks of, memory is what it says.
LEMMA InvNewest ==
  ASSUME NEW lsq, NEW flush, NEW rv, Edge(lsq, flush, rv), inv # Nil, NEW x \in CWords
  PROVE  /\ inv.line \in CLines /\ inv.from[x] \in Nat /\ Newest(inv.line, x) = {inv.from[x]}
         /\ inv.from[x] \in seen[inv.line][x]
<1>1. /\ inv \in Invs /\ inv.from = l2mem[inv.line]
      /\ ~(Is("store") /\ s0.line = inv.line)
      /\ \A i \in DOMAIN l2q : l2q[i].read \/ l2q[i].line # inv.line
  BY EdgeParts DEF Parts, DcTypeOK, InvIsCurrent
<1>2. inv.line \in CLines /\ inv.from[x] \in Nat
  BY <1>1 DEF Invs
<1>3. StoresTo(inv.line, x) = {}
  BY <1>1 DEF StoresTo
<1>4. Newest(inv.line, x) = {inv.from[x]}
  BY <1>1, <1>3 DEF Newest
<1>5. Newest(inv.line, x) \subseteq seen[inv.line][x]
  BY <1>1, <1>2, EdgeParts DEF Parts, MemoryIsSeen
<1> QED
  BY <1>2, <1>4, <1>5

\* Memory has, behind the fifo, what may be returned; so does an invalidation that waits.
LEMMA EdgeMemory ==
  ASSUME NEW lsq, NEW flush, NEW rv, Edge(lsq, flush, rv)
  PROVE  MemoryIsSeen' /\ InvIsCurrent'
<1>1. /\ Parts /\ MemoryIsSeen /\ InvIsCurrent /\ writes \in Nat
      /\ l2mem \in [CLines -> [CWords -> Nat]] /\ l2q \in Seq(FifoReqs)
      /\ seen \in [CLines -> [CWords -> SUBSET (0 .. writes)]]
      /\ lsq # Nil => lsq \in Asks /\ ~flush /\ ~S0Stall(rv) /\ inv = Nil
      /\ Is("store") => s0.line \in CLines /\ s0.word \in CWords /\ s0.ver \in Nat
  BY EdgeParts DEF Parts, DcTypeOK, Is, Requests0
<1>2. /\ writes' \in Nat /\ writes <= writes' /\ writes' = IF Stores(lsq) THEN writes + 1 ELSE writes
      /\ inv' = IF S0Stall(rv) THEN inv ELSE Nil
      /\ \A l \in CLines, x \in CWords :
              seen'[l][x] = IF Stores(lsq)
                            THEN IF l = lsq.line /\ x = lsq.word THEN {writes + 1} ELSE seen[l][x]
                            ELSE IF inv # Nil /\ ~S0Stall(rv) /\ l = inv.line
                            THEN {v \in seen[l][x] : v >= inv.from[x]}
                            ELSE seen[l][x]
  BY HistoryMoves
<1>3. Stores(lsq) => Is("store")' /\ s0' = lsq /\ lsq.ver = writes + 1
                     /\ lsq.line \in CLines /\ lsq.word \in CWords
  <2> SUFFICES ASSUME Stores(lsq)
               PROVE  Is("store")' /\ s0' = lsq /\ lsq.ver = writes + 1
                      /\ lsq.line \in CLines /\ lsq.word \in CWords
    OBVIOUS
  <2>1. lsq # Nil /\ lsq.kind = "store"
    BY DEF Stores
  <2>2. lsq.req = TRUE /\ lsq.ver = writes + 1 /\ lsq.line \in CLines /\ lsq.word \in CWords
    BY <2>1, AskedFor
  <2>3. s0' = lsq
    BY <1>1, <2>1, Stage0Moves
  <2> QED
    BY <2>1, <2>2, <2>3 DEF Is
<1>4. Is("store") /\ S0Stall(rv) => s0' = s0 /\ ~Stores(lsq) /\ writes' = writes
  BY <1>1, <1>2, Stage0Moves DEF Is, Stores
<1>5. ASSUME NEW l \in CLines, NEW x \in CWords, NEW v \in seen[l][x],
             ~(Stores(lsq) /\ l = lsq.line /\ x = lsq.word),
             (inv # Nil /\ l = inv.line) => v >= inv.from[x]
      PROVE  v \in seen'[l][x]
  BY <1>2, <1>5
<1>6. \A l \in CLines, x \in CWords : seen'[l][x] # {}
  <2> SUFFICES ASSUME NEW l \in CLines, NEW x \in CWords PROVE seen'[l][x] # {}
    OBVIOUS
  <2>1. CASE Stores(lsq)
    BY <1>1, <1>2, <2>1 DEF MemoryIsSeen
  <2>2. CASE ~Stores(lsq) /\ inv # Nil /\ l = inv.line
    <3>1. inv.from[x] \in seen[l][x] /\ inv.from[x] >= inv.from[x]
      BY <2>2, InvNewest
    <3> QED
      BY <1>5, <2>2, <3>1
  <2>3. CASE ~Stores(lsq) /\ ~(inv # Nil /\ l = inv.line)
    BY <1>1, <1>2, <2>3 DEF MemoryIsSeen
  <2> QED
    BY <2>1, <2>2, <2>3
<1>7. ASSUME NEW l \in CLines, NEW x \in CWords, ~(Is("store")' /\ s0'.line = l /\ s0'.word = x),
             NEW v, v \in Newest(l, x)'
      PROVE  v \in seen'[l][x]
  <2>1. ~(Stores(lsq) /\ l = lsq.line /\ x = lsq.word)
    BY <1>3, <1>7
  <2>2. CASE Is("store") /\ s0.line = l /\ s0.word = x
    <3>1. v = s0.ver
      BY <1>4, <1>7, <2>2, NewestMoves DEF Is
    <3>2. v \in seen[l][x]
      BY <1>1, <2>2, <3>1 DEF MemoryIsSeen
    <3>3. ~(inv # Nil /\ l = inv.line)
      BY <1>1, <2>2 DEF InvIsCurrent
    <3> QED
      BY <1>5, <2>1, <3>2, <3>3
  <2>3. CASE ~(Is("store") /\ s0.line = l /\ s0.word = x)
    <3>1. v \in Newest(l, x)
      BY <1>7, <2>3, NewestMoves
    <3>2. v \in seen[l][x]
      BY <1>1, <2>3, <3>1 DEF MemoryIsSeen
    <3>3. (inv # Nil /\ l = inv.line) => v >= inv.from[x]
      BY <3>1, InvNewest
    <3> QED
      BY <1>5, <2>1, <3>2, <3>3
  <2> QED
    BY <2>2, <2>3
<1>8. \A l \in CLines, x \in CWords : l2mem'[l][x] <= writes'
  <2> SUFFICES ASSUME NEW l \in CLines, NEW x \in CWords PROVE l2mem'[l][x] <= writes'
    OBVIOUS
  <2>1. l2mem'[l][x] = l2mem[l][x] /\ l2mem[l][x] <= writes /\ l2mem[l][x] \in Nat
    BY <1>1, FifoIndex DEF MemoryIsSeen
  <2> QED
    BY <1>1, <1>2, <2>1
<1>9. Is("store")' => s0'.ver \in seen'[s0'.line][s0'.word]
  <2> SUFFICES ASSUME Is("store")' PROVE s0'.ver \in seen'[s0'.line][s0'.word]
    OBVIOUS
  <2>1. s0'.req /\ s0'.kind = "store"
    BY DEF Is
  <2>2. \/ S0Stall(rv) /\ s0' = s0 /\ lsq = Nil
        \/ lsq # Nil /\ s0' = lsq
    BY <2>1, Stage0Moves
  <2>3. CASE S0Stall(rv) /\ s0' = s0 /\ lsq = Nil
    <3>1. Is("store") /\ ~Stores(lsq)
      BY <2>1, <2>3 DEF Is, Stores
    <3> DEFINE l == s0.line
               x == s0.word
    <3>2. l \in CLines /\ x \in CWords /\ s0.ver \in seen[l][x]
      BY <1>1, <3>1 DEF MemoryIsSeen
    <3> HIDE DEF l, x
    <3>3. seen'[l][x] = seen[l][x]
      BY <1>2, <2>3, <3>1, <3>2
    <3> QED
      BY <2>3, <3>2, <3>3 DEF l, x
  <2>4. CASE lsq # Nil /\ s0' = lsq
    <3>1. Stores(lsq)
      BY <2>1, <2>4 DEF Stores
    <3> QED
      BY <1>2, <1>3, <2>4, <3>1
  <2> QED
    BY <2>2, <2>3, <2>4
<1>10. \A i \in DOMAIN l2q' : l2q'[i].ver <= writes'
  <2> SUFFICES ASSUME NEW i \in DOMAIN l2q' PROVE l2q'[i].ver <= writes'
    OBVIOUS
  <2>1. CASE i \in DOMAIN l2q
    <3>1. l2q'[i] = l2q[i] /\ l2q[i].ver <= writes
      BY <1>1, <2>1, FifoIndex DEF MemoryIsSeen
    <3>2. l2q[i].ver \in Nat
      <4>1. l2q[i] \in FifoReqs
        BY <1>1, <2>1
      <4> QED
        BY <4>1 DEF FifoReqs
    <3> QED
      BY <1>1, <1>2, <3>1, <3>2
  <2>2. CASE i \notin DOMAIN l2q
    <3>1. CASE l2q'[i].ver = 0
      BY <1>2, <3>1
    <3>2. CASE Is("store") /\ l2q'[i].ver = s0.ver
      <4>1. s0.ver \in seen[s0.line][s0.word]
        BY <1>1, <3>2 DEF MemoryIsSeen
      <4>2. s0.ver \in 0 .. writes
        BY <1>1, <3>2, <4>1
      <4> QED
        BY <1>1, <1>2, <3>2, <4>2
    <3> QED
      BY <2>2, <3>1, <3>2, FifoIndex
  <2> QED
    BY <2>1, <2>2
<1>11. MemoryIsSeen'
  BY <1>6, <1>7, <1>8, <1>9, <1>10 DEF MemoryIsSeen
<1>12. InvIsCurrent'
  <2> SUFFICES ASSUME inv' # Nil
               PROVE  /\ inv'.from = l2mem'[inv'.line]
                      /\ ~(Is("store")' /\ s0'.line = inv'.line)
                      /\ \A i \in DOMAIN l2q' : l2q'[i].read \/ l2q'[i].line # inv'.line
    BY DEF InvIsCurrent
  <2>1. S0Stall(rv) /\ inv' = inv
    BY <1>2
  <2>2. l2mem' = l2mem
    BY FifoIndex
  <2>3. ~(Is("store")' /\ s0'.line = inv.line)
    BY <1>1, <2>1, Stage0Moves DEF Is, InvIsCurrent
  <2>4. \A i \in DOMAIN l2q' : l2q'[i].read \/ l2q'[i].line # inv.line
    BY <1>1, <2>1, FifoIndex DEF InvIsCurrent
  <2> QED
    BY <1>1, <2>1, <2>2, <2>3, <2>4 DEF InvIsCurrent
<1> QED
  BY <1>11, <1>12

\* Where a load of after an edge was before it.
LEMMA PlaceFrom ==
  ASSUME NEW lsq, NEW flush, NEW rv, Edge(lsq, flush, rv), NEW i \in Ids
  PROVE  /\ InS0(i)' => ~flush /\ ((Loads(lsq) /\ lsq.id = i) \/ (InS0(i) /\ S0Stall(rv)))
         /\ InS1(i)' => ~flush /\ \/ InS1(i) /\ S1Stall(rv)
                                  \/ InS0(i) /\ ~S0Stall(rv) /\ ~RdMerge(rv) /\ ~Alloc
         /\ InS2(i)' => ~flush /\ \/ rv /\ InReqs(i, 0)
                                  \/ Beats1(rv) /\ InReqs(i, 1)
                                  \/ InS1(i) /\ ~S1Stall(rv)
         /\ \A x \in CWords : InReqs(i, x)' =>
              ~flush /\ \/ InS0(i) /\ ~S0Stall(rv) /\ (Alloc \/ RdMerge(rv)) /\ x = s0.word
                        \/ InReqs(i, x) /\ ~rv
                        \/ InReqs(i, x) /\ rv /\ ~BeatDone /\ x # 0
                        \/ Beats1(rv) /\ x + 2 \in CWords /\ InReqs(i, x + 2)
<1>1. i # Nil
  BY NilIsNothing
<1>2. InS0(i)' => ~flush /\ ((Loads(lsq) /\ lsq.id = i) \/ (InS0(i) /\ S0Stall(rv)))
  <2> SUFFICES ASSUME InS0(i)' PROVE ~flush /\ ((Loads(lsq) /\ lsq.id = i) \/ (InS0(i) /\ S0Stall(rv)))
    OBVIOUS
  <2>1. s0'.req /\ s0'.kind = "load" /\ s0'.id = i
    BY DEF InS0, Is
  <2>2. \/ ~(flush /\ s0.kind = "load") /\ S0Stall(rv) /\ s0' = s0
        \/ lsq # Nil /\ s0' = lsq
    BY <2>1, Stage0Moves
  <2>3. lsq # Nil => ~flush
    BY EdgeParts
  <2> QED
    BY <2>1, <2>2, <2>3 DEF InS0, Is, Loads
<1>3. RdForward => Is("load") /\ MshrHit
  BY DEF RdForward
<1>4. RdMerge(rv) => MshrHit /\ ~rv
  BY DEF RdMerge
<1>5. InS1(i)' => ~flush /\ \/ InS1(i) /\ S1Stall(rv)
                            \/ InS0(i) /\ ~S0Stall(rv) /\ ~RdMerge(rv) /\ ~Alloc
  <2> SUFFICES ASSUME s1' # Nil, s1'.id = i
               PROVE  ~flush /\ \/ InS1(i) /\ S1Stall(rv)
                                \/ InS0(i) /\ ~S0Stall(rv) /\ ~RdMerge(rv) /\ ~Alloc
    BY DEF InS1
  <2>1. CASE ~flush /\ S1Stall(rv) /\ s1' = s1 /\ s1 # Nil
    BY <2>1 DEF InS1
  <2>2. CASE ~flush /\ ~S1Stall(rv) /\ RdForward /\ s1'.id = s0.id
    <3>1. Is("load") /\ s0.id = i
      BY <1>3, <2>2
    <3>2. ~S0Stall(rv) /\ ~RdMerge(rv) /\ ~Alloc
      BY <1>3, <2>2, <3>1, LoadControl
    <3> QED
      BY <2>2, <3>1, <3>2 DEF InS0
  <2>3. CASE ~flush /\ ~S1Stall(rv) /\ ~RdForward /\ Is("load") /\ ~MshrHit /\ ~TagMiss /\ s1'.id = s0.id
    <3>1. ~S0Stall(rv) /\ ~RdMerge(rv) /\ ~Alloc
      BY <1>4, <2>3, LoadControl DEF Alloc
    <3> QED
      BY <2>3, <3>1 DEF InS0
  <2> QED
    BY <2>1, <2>2, <2>3, Stage1Moves
<1>6. InS2(i)' => ~flush /\ \/ rv /\ InReqs(i, 0)
                            \/ Beats1(rv) /\ InReqs(i, 1)
                            \/ InS1(i) /\ ~S1Stall(rv)
  <2> SUFFICES ASSUME s2' # Nil, s2'.id = i
               PROVE  ~flush /\ \/ rv /\ InReqs(i, 0)
                                \/ Beats1(rv) /\ InReqs(i, 1)
                                \/ InS1(i) /\ ~S1Stall(rv)
    BY DEF InS2
  <2>1. CASE ~flush /\ rv /\ FwdValid(0) /\ s2'.id = mshr.reqs[0]
    BY <2>1 DEF FwdValid, InReqs
  <2>2. CASE ~flush /\ rv /\ ~FwdValid(0) /\ FwdValid(1) /\ s2'.id = mshr.reqs[1]
    <3>1. ~mshr.obsolete /\ mshr.reqs[1] = i
      BY <2>2 DEF FwdValid
    <3>2. Beats1(rv)
      BY <2>2 DEF Beats1, BeatDone
    <3> QED
      BY <2>2, <3>1, <3>2 DEF InReqs
  <2>3. CASE ~flush /\ ~(rv /\ (FwdValid(0) \/ FwdValid(1))) /\ s1 # Nil /\ s2'.id = s1.id
    BY <2>3 DEF InS1, S1Stall
  <2> QED
    BY <2>1, <2>2, <2>3, Stage2Moves
<1>7. ASSUME NEW x \in CWords, InReqs(i, x)'
      PROVE  ~flush /\ \/ InS0(i) /\ ~S0Stall(rv) /\ (Alloc \/ RdMerge(rv)) /\ x = s0.word
                       \/ InReqs(i, x) /\ ~rv
                       \/ InReqs(i, x) /\ rv /\ ~BeatDone /\ x # 0
                       \/ Beats1(rv) /\ x + 2 \in CWords /\ InReqs(i, x + 2)
  <2>1. ~mshr'.obsolete /\ mshr'.reqs[x] = i
    BY <1>7 DEF InReqs
  <2>2. CASE Alloc
    <3>1. mshr'.obsolete = flush /\ mshr'.reqs = [y \in CWords |-> IF y = s0.word THEN s0.id ELSE Nil]
      BY <2>2, NewFields
    <3>2. x = s0.word /\ s0.id = i /\ ~flush
      BY <1>1, <2>1, <3>1
    <3>3. Is("load")
      BY <2>2 DEF Alloc
    <3>4. ~S0Stall(rv)
      BY <2>2, <3>3, LoadControl
    <3> QED
      BY <2>2, <3>2, <3>3, <3>4 DEF InS0
  <2>3. CASE ~Alloc
    <3>1. Stays(rv)
      BY <1>1, <2>1, <2>3, OldFields
    <3>2. ~flush /\ ~mshr.obsolete /\ NextReqs(rv)[x] = i
      BY <2>1, <2>3, <3>1, OldFields
    <3>3. i = IF Beats1(rv) THEN IF x + 2 \in CWords THEN mshr.reqs[x + 2] ELSE Nil
                ELSE IF rv THEN IF x = 0 THEN Nil ELSE mshr.reqs[x]
                ELSE IF RdMerge(rv) /\ x = s0.word THEN s0.id ELSE mshr.reqs[x]
      BY <2>3, <3>2, OldRequests
    <3>4. CASE Beats1(rv)
      <4>1. x + 2 \in CWords /\ mshr.reqs[x + 2] = i
        BY <1>1, <3>3, <3>4
      <4> QED
        BY <3>2, <3>4, <4>1 DEF InReqs
    <3>5. CASE ~Beats1(rv) /\ rv
      <4>1. x # 0 /\ mshr.reqs[x] = i
        BY <1>1, <3>3, <3>5
      <4> QED
        BY <3>2, <3>5, <4>1 DEF InReqs, Beats1
    <3>6. CASE ~Beats1(rv) /\ ~rv /\ RdMerge(rv) /\ x = s0.word
      <4>1. s0.id = i /\ Is("load")
        BY <3>3, <3>6 DEF RdMerge
      <4>2. ~S0Stall(rv)
        BY <3>6, <4>1, LoadControl
      <4> QED
        BY <3>2, <3>6, <4>1, <4>2 DEF InS0
    <3>7. CASE ~Beats1(rv) /\ ~rv /\ ~(RdMerge(rv) /\ x = s0.word)
      BY <3>2, <3>3, <3>7 DEF InReqs
    <3> QED
      BY <3>4, <3>5, <3>6, <3>7
  <2> QED
    BY <2>2, <2>3
<1> QED
  BY <1>2, <1>5, <1>6, <1>7

\* A load is somewhere after an edge, if it was before and neither answered nor flushed.
LEMMA PlaceTo ==
  ASSUME NEW lsq, NEW flush, NEW rv, Edge(lsq, flush, rv), ~flush, NEW i \in Ids,
         InS0(i) \/ InS1(i) \/ \E x \in CWords : InReqs(i, x)
  PROVE  InS0(i)' \/ InS1(i)' \/ InS2(i)' \/ \E x \in CWords : InReqs(i, x)'
<1>1. i # Nil /\ flush \in BOOLEAN
  BY NilIsNothing, EdgeParts
<1>2. CASE InS0(i)
  <2>1. Is("load") /\ s0.id = i /\ s0.kind = "load" /\ s0.word \in CWords
    BY <1>2, EdgeParts DEF InS0, Is, Parts, DcTypeOK, Requests0
  <2>2. CASE S0Stall(rv)
    <3>1. s0' = s0
      BY <1>1, <2>2, Stage0Moves
    <3> QED
      BY <2>1, <3>1 DEF InS0, Is
  <2>3. CASE ~S0Stall(rv) /\ RdForward /\ ~S1Stall(rv)
    <3>1. s1' # Nil /\ s1'.id = s0.id
      BY <1>1, <2>3, Stage1Moves
    <3> QED
      BY <2>1, <3>1 DEF InS1
  <2>4. CASE ~S0Stall(rv) /\ RdMerge(rv) /\ ~Alloc /\ MshrHit
    <3>1. ~mshr.obsolete /\ ~rv /\ mshr.valid /\ Beat(s0.word) >= rbuf.got
      BY <2>4 DEF RdMerge, MshrHit
    <3>2. ~FillDone
      <4>1. rbuf.got \in 0 .. Beats /\ (FillDone => rbuf.got = Beats)
        BY MissControl
      <4>2. Beat(s0.word) \in 0 .. Beats - 1
        BY <2>1, WordsOfBeats
      <4> QED
        BY <3>1, <4>1, <4>2, DcacheAssumption
    <3>3. Stays(rv)
      BY <3>1, <3>2 DEF Stays
    <3>4. ~mshr'.obsolete /\ mshr'.reqs = NextReqs(rv)
      BY <1>1, <2>4, <3>1, <3>3, OldFields
    <3>5. NextReqs(rv)[s0.word] = s0.id
      BY <2>1, <2>4, <3>1, OldRequests DEF Beats1
    <3> QED
      BY <2>1, <3>1, <3>4, <3>5 DEF InReqs
  <2>5. CASE ~S0Stall(rv) /\ ~MshrHit /\ ~TagMiss /\ ~S1Stall(rv) /\ ~RdForward
    <3>1. s1' # Nil /\ s1'.id = s0.id
      BY <1>1, <2>1, <2>5, Stage1Moves
    <3> QED
      BY <2>1, <3>1 DEF InS1
  <2>6. CASE Alloc
    <3>1. mshr'.obsolete = flush /\ mshr'.reqs = [y \in CWords |-> IF y = s0.word THEN s0.id ELSE Nil]
      BY <2>6, NewFields
    <3> QED
      BY <2>1, <3>1 DEF InReqs
  <2> QED
    BY <2>1, <2>2, <2>3, <2>4, <2>5, <2>6, LoadControl
<1>3. CASE InS1(i)
  <2>1. s1 # Nil /\ s1.id = i
    BY <1>3 DEF InS1
  <2>2. CASE S1Stall(rv)
    BY <1>1, <2>1, <2>2, Stage1Moves DEF InS1
  <2>3. CASE ~S1Stall(rv)
    <3>1. ~(rv /\ (FwdValid(0) \/ FwdValid(1)))
      BY <2>1, <2>3 DEF S1Stall
    <3> QED
      BY <1>1, <2>1, <3>1, Stage2Moves DEF InS2
  <2> QED
    BY <2>2, <2>3
<1>4. ASSUME NEW x \in CWords, InReqs(i, x) PROVE InS2(i)' \/ \E y \in CWords : InReqs(i, y)'
  <2>1. ~mshr.obsolete /\ mshr.reqs[x] = i
    BY <1>4 DEF InReqs
  <2>2. mshr.valid /\ 2 * rbuf.got + x \in CWords
    BY <1>1, <2>1, EdgeParts DEF Parts, RequestsFit
  <2>3. ~Alloc
    BY <2>2 DEF Alloc
  <2>4. ~FillDone
    <3>1. FillDone => rbuf.got = Beats
      BY MissControl
    <3>2. 2 * Beats + x \notin CWords
      BY DcacheAssumption DEF CWords
    <3> QED
      BY <2>2, <3>1, <3>2
  <2>5. Stays(rv)
    BY <2>2, <2>4 DEF Stays
  <2>6. ~mshr'.obsolete /\ mshr'.reqs = NextReqs(rv)
    BY <1>1, <2>1, <2>3, <2>5, OldFields
  <2>7. \A y \in CWords : NextReqs(rv)[y] =
                IF Beats1(rv) THEN IF y + 2 \in CWords THEN mshr.reqs[y + 2] ELSE Nil
                ELSE IF rv THEN IF y = 0 THEN Nil ELSE mshr.reqs[y]
                ELSE IF RdMerge(rv) /\ y = s0.word THEN s0.id ELSE mshr.reqs[y]
    BY <2>3, OldRequests
  <2>8. CASE rv /\ x = 0
    <3>1. FwdValid(0)
      BY <1>1, <2>1, <2>8 DEF FwdValid
    <3> QED
      <4>1. s2' # Nil /\ s2'.id = mshr.reqs[0]
        BY <1>1, <2>8, <3>1, Stage2Moves
      <4> QED
        BY <2>1, <2>8, <4>1 DEF InS2
  <2>9. CASE rv /\ x = 1 /\ ~FwdValid(0)
    <3>1. FwdValid(1)
      BY <1>1, <2>1, <2>9 DEF FwdValid
    <3> QED
      <4>1. s2' # Nil /\ s2'.id = mshr.reqs[1]
        BY <1>1, <2>9, <3>1, Stage2Moves
      <4> QED
        BY <2>1, <2>9, <4>1 DEF InS2
  <2>10. CASE rv /\ x # 0 /\ ~BeatDone
    <3>1. NextReqs(rv)[x] = i
      BY <2>1, <2>7, <2>10 DEF Beats1
    <3> QED
      BY <2>1, <2>6, <3>1 DEF InReqs
  <2>11. CASE rv /\ x # 0 /\ x # 1 /\ BeatDone
    <3>1. x - 2 \in CWords /\ (x - 2) + 2 = x
      BY <2>11, DcacheAssumption DEF CWords
    <3>2. NextReqs(rv)[x - 2] = i
      BY <2>1, <2>7, <2>11, <3>1 DEF Beats1
    <3> QED
      BY <2>1, <2>6, <3>1, <3>2 DEF InReqs
  <2>12. CASE rv /\ x = 1 /\ FwdValid(0) /\ BeatDone
    <3>1. FwdValid(1)
      BY <1>1, <2>1, <2>12 DEF FwdValid
    <3> QED
      BY <2>12, <3>1 DEF BeatDone
  <2>13. CASE ~rv
    <3>1. ~(RdMerge(rv) /\ x = s0.word)
      BY <1>1, <2>1 DEF RdMerge
    <3>2. NextReqs(rv)[x] = i
      BY <2>1, <2>7, <2>13, <3>1 DEF Beats1
    <3> QED
      BY <2>1, <2>6, <3>2 DEF InReqs
  <2> QED
    BY <2>8, <2>9, <2>10, <2>11, <2>12, <2>13
<1> QED
  BY <1>2, <1>3, <1>4

\* A load moves from place to place and is never copied.
LEMMA EdgePlaces ==
  ASSUME NEW lsq, NEW flush, NEW rv, Edge(lsq, flush, rv)
  PROVE  PlacesAreOne'
<1> SUFFICES ASSUME NEW i \in Ids
             PROVE  /\ goal'[i] # {} <=> InS0(i)' \/ InS1(i)' \/ InS2(i)' \/ \E x \in CWords : InReqs(i, x)'
                    /\ InS0(i)' => ~InS1(i)' /\ ~InS2(i)'
                    /\ InS1(i)' => ~InS2(i)'
                    /\ \A x \in CWords : InReqs(i, x)' =>
                         /\ ~InS0(i)' /\ ~InS1(i)' /\ ~InS2(i)'
                         /\ \A y \in CWords : InReqs(i, y)' => x = y
  BY DEF PlacesAreOne
<1> DEFINE New == Loads(lsq) /\ lsq.id = i
<1>1. /\ goal[i] # {} <=> InS0(i) \/ InS1(i) \/ InS2(i) \/ \E x \in CWords : InReqs(i, x)
      /\ InS0(i) => ~InS1(i) /\ ~InS2(i)
      /\ InS1(i) => ~InS2(i)
      /\ \A x \in CWords : InReqs(i, x) =>
           /\ ~InS0(i) /\ ~InS1(i) /\ ~InS2(i)
           /\ \A y \in CWords : InReqs(i, y) => x = y
  BY EdgeParts DEF Parts, PlacesAreOne
<1>2. /\ InS0(i)' => ~flush /\ (New \/ (InS0(i) /\ S0Stall(rv)))
      /\ InS1(i)' => ~flush /\ \/ InS1(i) /\ S1Stall(rv)
                               \/ InS0(i) /\ ~S0Stall(rv) /\ ~RdMerge(rv) /\ ~Alloc
      /\ InS2(i)' => ~flush /\ \/ rv /\ InReqs(i, 0)
                               \/ Beats1(rv) /\ InReqs(i, 1)
                               \/ InS1(i) /\ ~S1Stall(rv)
      /\ \A x \in CWords : InReqs(i, x)' =>
           ~flush /\ \/ InS0(i) /\ ~S0Stall(rv) /\ (Alloc \/ RdMerge(rv)) /\ x = s0.word
                     \/ InReqs(i, x) /\ ~rv
                     \/ InReqs(i, x) /\ rv /\ ~BeatDone /\ x # 0
                     \/ Beats1(rv) /\ x + 2 \in CWords /\ InReqs(i, x + 2)
  BY PlaceFrom
<1>3. /\ 0 \in CWords /\ 1 \in CWords /\ (Beats1(rv) => rv /\ BeatDone)
      /\ \A x \in CWords : x \in Nat /\ x + 2 # 0 /\ x + 2 # 1
      /\ \A x, y \in CWords : x + 2 = y + 2 => x = y
  <2>1. \A x \in CWords : x \in Nat /\ x + 2 # 0 /\ x + 2 # 1
    BY DEF CWords
  <2>2. \A x, y \in CWords : x + 2 = y + 2 => x = y
    BY DEF CWords
  <2> QED
    BY <2>1, <2>2, WordsOfBeats DEF Beats1
<1>4. New => goal[i] = {} /\ ~flush /\ goal'[i] # {} /\ InS0(i)'
  <2> SUFFICES ASSUME New PROVE goal[i] = {} /\ ~flush /\ goal'[i] # {} /\ InS0(i)'
    OBVIOUS
  <2>1. lsq # Nil /\ lsq.kind = "load" /\ lsq.id = i /\ Loads(lsq)
    BY DEF Loads
  <2>2. lsq.req = TRUE /\ goal[i] = {} /\ ~flush /\ lsq.line \in CLines /\ lsq.word \in CWords
    BY <2>1, AskedFor, EdgeParts
  <2>3. s0' = lsq
    BY <2>1, Stage0Moves
  <2>4. goal'[i] = Allowed(lsq.line, lsq.word)
    BY <2>1, <2>2, HistoryMoves
  <2>5. seen[lsq.line][lsq.word] # {}
    BY <2>2, EdgeParts DEF Parts, MemoryIsSeen
  <2> QED
    BY <2>1, <2>2, <2>3, <2>4, <2>5 DEF InS0, Is, Allowed
<1>5. ~New => (goal'[i] # {} <=> ~flush /\ goal[i] # {} /\ ~InS2(i))
  BY HistoryMoves DEF InS2
<1> HIDE DEF New
<1>6. CASE New
  BY <1>1, <1>2, <1>3, <1>4, <1>6
<1>7. CASE ~New
  <2>1. ASSUME goal'[i] # {}
        PROVE  InS0(i)' \/ InS1(i)' \/ InS2(i)' \/ \E x \in CWords : InReqs(i, x)'
    BY <1>1, <1>5, <1>7, <2>1, PlaceTo
  <2>2. ASSUME InS0(i)' \/ InS1(i)' \/ InS2(i)' \/ \E x \in CWords : InReqs(i, x)'
        PROVE  goal'[i] # {}
    <3>1. ~flush /\ (InS0(i) \/ InS1(i) \/ \E x \in CWords : InReqs(i, x))
      BY <1>2, <1>3, <1>7, <2>2
    <3> QED
      BY <1>1, <1>5, <1>7, <3>1
  <2>3. InS0(i)' => ~InS1(i)' /\ ~InS2(i)'
    BY <1>1, <1>2, <1>3, <1>7
  <2>4. InS1(i)' => ~InS2(i)'
    BY <1>1, <1>2, <1>3
  <2>5. \A x \in CWords : InReqs(i, x)' => ~InS0(i)' /\ ~InS1(i)'
    BY <1>1, <1>2, <1>3, <1>7
  <2>6. \A x \in CWords : InReqs(i, x)' => ~InS2(i)'
    BY <1>1, <1>2, <1>3
  <2>7. ASSUME NEW x \in CWords, NEW y \in CWords, InReqs(i, x)', InReqs(i, y)' PROVE x = y
    BY <1>1, <1>2, <1>3, <2>7
  <2> QED
    BY <2>1, <2>2, <2>3, <2>4, <2>5, <2>6, <2>7
<1> QED
  BY <1>6, <1>7

\* A version may still be returned, or a store or an invalidation comes in.
LEMMA SeenMoves ==
  ASSUME NEW lsq, NEW flush, NEW rv, Edge(lsq, flush, rv)
  PROVE  /\ \A l \in CLines, x \in CWords : \A v \in seen[l][x] :
              \/ v \in seen'[l][x]
              \/ Stores(lsq) /\ l = lsq.line /\ x = lsq.word
              \/ inv # Nil /\ ~S0Stall(rv) /\ l = inv.line
         /\ ~Stores(lsq) /\ (S0Stall(rv) \/ inv = Nil) =>
              \A l \in CLines, x \in CWords : seen'[l][x] = seen[l][x]
<1>1. /\ writes' \in Nat /\ writes <= writes' /\ writes' = IF Stores(lsq) THEN writes + 1 ELSE writes
      /\ inv' = IF S0Stall(rv) THEN inv ELSE Nil
      /\ \A l \in CLines, x \in CWords :
              seen'[l][x] = IF Stores(lsq)
                            THEN IF l = lsq.line /\ x = lsq.word THEN {writes + 1} ELSE seen[l][x]
                            ELSE IF inv # Nil /\ ~S0Stall(rv) /\ l = inv.line
                            THEN {v \in seen[l][x] : v >= inv.from[x]}
                            ELSE seen[l][x]
  BY HistoryMoves
<1>2. ASSUME NEW l \in CLines, NEW x \in CWords, NEW v \in seen[l][x],
             ~(Stores(lsq) /\ l = lsq.line /\ x = lsq.word),
             ~(inv # Nil /\ ~S0Stall(rv) /\ l = inv.line)
      PROVE  v \in seen'[l][x]
  BY <1>1, <1>2
<1>3. ASSUME ~Stores(lsq), S0Stall(rv) \/ inv = Nil, NEW l \in CLines, NEW x \in CWords
      PROVE  seen'[l][x] = seen[l][x]
  BY <1>1, <1>3
<1> QED
  BY <1>2, <1>3

\* What may be returned may still be, or stage 0 is about to change it.
LEMMA AllowedMoves ==
  ASSUME NEW lsq, NEW flush, NEW rv, Edge(lsq, flush, rv),
         NEW l \in CLines, NEW x \in CWords, NEW d \in Allowed(l, x), Cached(l)
  PROVE  Good(l, x, d)'
<1>1. /\ flush \in BOOLEAN /\ rv \in BOOLEAN
      /\ lsq # Nil => lsq \in Asks /\ ~flush /\ ~S0Stall(rv) /\ inv = Nil
  BY EdgeParts
<1>2. PICK v \in seen[l][x] : d = DataWord(l, x, v)
  BY DEF Allowed
<1>3. CASE v \in seen'[l][x]
  BY <1>2, <1>3 DEF Good, Allowed
<1>4. CASE Stores(lsq) /\ l = lsq.line /\ x = lsq.word
  <2>1. lsq # Nil /\ lsq.kind = "store" /\ lsq.req = TRUE
    BY <1>4, AskedFor DEF Stores
  <2>2. s0' = lsq
    BY <1>1, <2>1, Stage0Moves
  <2> QED
    BY <1>4, <2>1, <2>2 DEF Good, Changing
<1>5. CASE inv # Nil /\ ~S0Stall(rv) /\ l = inv.line
  <2>1. ~(flush /\ s0.kind = "load")
    BY <1>1, <1>5, NoFaults
  <2>2. s0'.req /\ s0'.kind = "inv" /\ s0'.line = inv.line
    BY <1>1, <1>5, <2>1, Stage0Moves
  <2> QED
    BY <1>5, <2>2 DEF Good, Changing
<1>6. \/ v \in seen'[l][x]
      \/ Stores(lsq) /\ l = lsq.line /\ x = lsq.word
      \/ inv # Nil /\ ~S0Stall(rv) /\ l = inv.line
  BY SeenMoves
<1> QED
  BY <1>2, <1>3, <1>4, <1>5, <1>6

\* What is good stays good, unless the access that changes it leaves stage 0.
LEMMA GoodMoves ==
  ASSUME NEW lsq, NEW flush, NEW rv, Edge(lsq, flush, rv),
         NEW l \in CLines, NEW x \in CWords, NEW d, Good(l, x, d), Cached(l),
         Changing(l, x) => S0Stall(rv)
  PROVE  Good(l, x, d)'
<1>1. CASE Changing(l, x)
  <2>1. s0.kind # "load" /\ S0Stall(rv)
    BY <1>1 DEF Changing
  <2>2. s0' = s0
    BY <2>1, Stage0Moves
  <2> QED
    BY <1>1, <2>2 DEF Good, Changing
<1>2. CASE ~Changing(l, x)
  <2>1. d \in Allowed(l, x)
    BY <1>2 DEF Good
  <2> QED
    BY <2>1, AllowedMoves
<1> QED
  BY <1>1, <1>2

\* What a store brings is good.
LEMMA StoreIsGood ==
  ASSUME NEW lsq, NEW flush, NEW rv, Edge(lsq, flush, rv), Is("store"),
         NEW l, NEW x, NEW d, l = s0.line, x = s0.word, d = DataWord(s0.line, s0.word, s0.ver), Cached(l)
  PROVE  Good(l, x, d)'
<1>1. l \in CLines /\ x \in CWords /\ s0.ver \in seen[l][x]
  BY EdgeParts DEF Parts, DcTypeOK, Requests0, Is, MemoryIsSeen
<1>2. d \in Allowed(l, x)
  BY <1>1 DEF Allowed
<1> QED
  BY <1>1, <1>2, AllowedMoves

\* A register that is filling was filling, for the same line and way, or is a new miss.
LEMMA FillingMoves ==
  ASSUME NEW lsq, NEW flush, NEW rv, Edge(lsq, flush, rv), ~Alloc
  PROVE  /\ Filling' <=> Stays(rv)
         /\ Filling' => /\ Filling /\ mshr'.line = mshr.line /\ mshr'.way = mshr.way
                        /\ mshr.line \in CLines /\ mshr.way \in Ways /\ Cached(mshr.line)
                        /\ rbuf'.got = Got1(rv) /\ rbuf'.filled = Filled1(rv)
                        /\ mshr'.wmask = Merged /\ InUse(mshr.way)
<1>1. /\ Parts /\ LinesAreOnce /\ rbuf.got \in 0 .. Beats /\ rbuf.filled \in 0 .. Beats
      /\ mshr.valid => mshr.line \in CLines /\ mshr.way \in Ways
  BY EdgeParts DEF Parts, DcTypeOK
<1>2. CASE ~Stays(rv)
  <2>1. ~mshr'.valid /\ rbuf'.got = 0 /\ rbuf'.filled = 0
    BY <1>2, OldFields, Zenon
  <2>2. ~Filling'
    BY <2>1 DEF Filling, Late
  <2> QED
    BY <1>2, <2>2
<1>3. CASE Stays(rv)
  <2>1. /\ mshr'.valid = (mshr.valid /\ ~FillDone) /\ mshr'.line = mshr.line /\ mshr'.way = mshr.way
        /\ mshr'.wmask = Merged /\ rbuf'.got = Got1(rv) /\ rbuf'.filled = Filled1(rv)
    BY <1>3, OldFields
  <2>2. Filling'
    BY <1>3, <2>1 DEF Filling, Late, Stays
  <2>3. Filling
    <3> SUFFICES ASSUME ~mshr.valid PROVE Late
      BY DEF Filling
    <3>1. ~rv
      BY MissControl
    <3>2. Filled1(rv) < Got1(rv)
      BY <1>3 DEF Stays
    <3>3. rbuf.filled < rbuf.got
      BY <1>1, <3>1, <3>2, DcacheAssumption DEF Filled1, Got1, Beats1
    <3> QED
      BY <3>3 DEF Late
  <2>4. mshr.line \in CLines /\ mshr.way \in Ways /\ Cached(mshr.line)
    <3>1. CASE mshr.valid
      BY <1>1, <3>1 DEF Cached
    <3>2. CASE Late
      <4>1. mshr.way \in Ways /\ mshr.line \in CLines /\ tagmem[mshr.way].valid /\ tagmem[mshr.way].line = mshr.line
        BY <1>1, <3>2 DEF LinesAreOnce
      <4> QED
        BY <4>1 DEF Cached
    <3> QED
      BY <2>3, <3>1, <3>2 DEF Filling
  <2>5. InUse(mshr.way)
    <3>1. CASE mshr'.valid
      BY <2>1, <3>1 DEF InUse
    <3>2. CASE ~mshr'.valid
      <4>1. Late'
        BY <2>2, <3>2 DEF Filling
      <4>2. tagmem'[mshr'.way].valid
        BY <4>1, EdgeLines DEF LinesAreOnce
      <4> QED
        BY <2>1, <4>2 DEF InUse
    <3> QED
      BY <3>1, <3>2
  <2> QED
    BY <1>3, <2>1, <2>2, <2>3, <2>4, <2>5
<1> QED
  BY <1>2, <1>3

\* What comes for a word that no store has been merged into was to come before.
LEMMA ComingMoves ==
  ASSUME NEW lsq, NEW flush, NEW rv, Edge(lsq, flush, rv), ~Alloc, Filling',
         NEW x \in CWords, x \notin Merged
  PROVE  Coming(x)' \subseteq Coming(x)
<1>1. /\ Stays(rv) /\ mshr'.line = mshr.line /\ rbuf'.got = Got1(rv) /\ Filling
  BY FillingMoves
<1>2. rbuf.got \in 0 .. Beats /\ Beat(x) \in 0 .. Beats - 1 /\ rv \in BOOLEAN
  BY MissControl, WordsOfBeats, EdgeParts
<1>3. rbuf'.data[x] = IF Beats1(rv) /\ Beat(x) = rbuf.got
                      THEN DataWord(mshr.line, x, resp.vers[x]) ELSE rbuf.data[x]
  BY <1>1, OldFields
<1>4. CASE Beat(x) < rbuf.got
  <2>1. Beat(x) < rbuf'.got /\ rbuf'.data[x] = rbuf.data[x]
    BY <1>1, <1>2, <1>3, <1>4 DEF Got1
  <2> QED
    BY <1>4, <2>1 DEF Coming
<1>5. CASE ~(Beat(x) < rbuf.got) /\ resp # Nil
  <2>1. Coming(x) = {DataWord(mshr.line, x, resp.vers[x])}
    BY <1>5 DEF Coming
  <2>2. CASE Beats1(rv) /\ Beat(x) = rbuf.got
    <3>1. Beat(x) < rbuf'.got
      BY <1>1, <1>2, <2>2 DEF Got1
    <3> QED
      BY <1>3, <2>1, <2>2, <3>1 DEF Coming
  <2>3. CASE Beats1(rv) /\ Beat(x) # rbuf.got
    <3>1. ~(Beat(x) < rbuf'.got) /\ rbuf.got # Beats - 1
      BY <1>1, <1>2, <1>5, <2>3, DcacheAssumption DEF Got1
    <3>2. resp' # Nil /\ resp'.vers = resp.vers
      BY <2>3, <3>1, RespMoves
    <3> QED
      BY <1>1, <2>1, <3>1, <3>2 DEF Coming
  <2>4. CASE ~Beats1(rv)
    <3>1. resp' = resp /\ rbuf'.got = rbuf.got
      BY <1>1, <2>4, RespMoves DEF Got1
    <3> QED
      BY <1>1, <1>5, <2>1, <3>1 DEF Coming
  <2> QED
    BY <2>2, <2>3, <2>4
<1>6. CASE ~(Beat(x) < rbuf.got) /\ resp = Nil
  <2>1. ~Beats1(rv)
    BY <1>6, EdgeParts DEF Beats1
  <2>2. resp' = Nil /\ rbuf'.got = rbuf.got
    BY <1>1, <1>6, <2>1, RespMoves DEF Got1
  <2>3. mshr.valid
    BY <1>1, <1>2, <1>6, MissControl, DcacheAssumption DEF Filling
  <2>4. ASSUME NEW v, v \in Newest(mshr.line, x)' PROVE v \in Newest(mshr.line, x)
    <3> SUFFICES ASSUME Is("store"), ~S0Stall(rv), s0.line = mshr.line, s0.word = x PROVE FALSE
      BY <1>1, <2>4, NewestMoves
    <3>1. WrMerge
      BY <2>3, HitControl DEF MshrHit
    <3> QED
      BY <3>1 DEF Merged
  <2>5. Coming(x) = {DataWord(mshr.line, x, v) : v \in Newest(mshr.line, x)}
    BY <1>6 DEF Coming
  <2>6. Coming(x)' = {DataWord(mshr.line, x, v) : v \in Newest(mshr.line, x)'}
    BY <1>1, <1>6, <2>2 DEF Coming
  <2> QED
    BY <2>4, <2>5, <2>6
<1> QED
  BY <1>4, <1>5, <1>6

\* A way that is valid has what may be returned, also when its last beat is being written.
LEMMA EdgeWays ==
  ASSUME NEW lsq, NEW flush, NEW rv, Edge(lsq, flush, rv)
  PROVE  /\ \A w \in Ways, x \in CWords :
              tagmem'[w].valid /\ ~(Filling' /\ w = mshr'.way /\ tagmem'[w].line = mshr'.line) =>
                Good(tagmem[w].line, x, Kept(w, x))'
<1>1. /\ Parts /\ WaysAreGood /\ LinesAreOnce /\ (mshr.valid => mshr.way \in Ways)
      /\ rbuf.got \in 0 .. Beats /\ rbuf.filled \in 0 .. Beats
      /\ mshr.valid \in BOOLEAN
      /\ s0.kind \in {"load", "store", "inv"}
  BY EdgeParts DEF Parts, DcTypeOK, Requests0
<1> SUFFICES ASSUME NEW w \in Ways, NEW x \in CWords, tagmem'[w].valid,
                    ~(Filling' /\ w = mshr'.way /\ tagmem'[w].line = mshr'.line)
             PROVE  Good(tagmem[w].line, x, Kept(w, x))'
  OBVIOUS
<1>2. InUse(w)
  BY DEF InUse
<1>3. Kept(w, x)' = IF Wen /\ w = (IF MshrHit THEN mshr.way ELSE HitWay) /\ x = s0.word
                    THEN DataWord(s0.line, s0.word, s0.ver)
                    ELSE IF ~Wen /\ FillWen /\ w = mshr.way /\ Beat(x) = rbuf.filled /\ x \notin mshr.wmask
                    THEN rbuf.data[x]
                    ELSE Kept(w, x)
  BY <1>2, KeptMoves
\* The line and the data that the way has next.
<1>4. PICK l, d : l = tagmem'[w].line /\ d = Kept(w, x)'
  OBVIOUS
<1>5. l \in CLines
  BY <1>4, EdgeLines DEF LinesAreOnce
<1> SUFFICES Good(l, x, d)'
  BY <1>4 DEF Good, Changing, Allowed
\* The last beat is being written: the line comes to be whole.
<1>6. CASE FillDone /\ w = mshr.way
  <2>1. l = mshr.line
    BY <1>4, <1>6, TagMoves
  <2>2. ~Alloc /\ FillWen /\ rbuf.got = Beats /\ rbuf.filled = Beats - 1
    BY <1>6, MissControl
  <2>3. ~Stays(rv)
    <3> SUFFICES ASSUME Stays(rv) PROVE FALSE
      OBVIOUS
    <3>1. Filling' /\ mshr'.way = mshr.way /\ mshr'.line = mshr.line
      BY <2>2, FillingMoves
    <3> QED
      BY <1>4, <1>6, <2>1, <3>1
  <2>4. FillMoves(rv) /\ ~Wen
    <3>1. FillMoves(rv)
      <4> SUFFICES ASSUME ~FillMoves(rv) PROVE FALSE
        OBVIOUS
      <4>1. Filled1(rv) = Beats - 1 /\ Got1(rv) = Beats
        BY <2>2, <1>6, MissControl DEF Filled1, Got1, Beats1
      <4> QED
        BY <2>3, <4>1, DcacheAssumption DEF Stays
    <3> QED
      BY <3>1, HitControl
  <2>5. Filling /\ Cached(mshr.line)
    <3>1. Filling
      BY <2>2, DcacheAssumption DEF Filling, Late
    <3>2. CASE mshr.valid
      BY <3>1, <3>2 DEF Cached
    <3>3. CASE ~mshr.valid
      <4>1. mshr.way \in Ways /\ tagmem[mshr.way].valid /\ tagmem[mshr.way].line = mshr.line
        <5>1. Late
          BY <3>1, <3>3 DEF Filling
        <5>2. mshr.way \in Ways /\ tagmem[mshr.way] = [valid |-> TRUE, line |-> mshr.line]
          BY <1>1, <5>1 DEF LinesAreOnce
        <5> QED
          BY <5>2
      <4> QED
        BY <3>1, <4>1 DEF Cached
    <3> QED
      BY <3>1, <3>2, <3>3
  <2>6. Good(l, x, d)
    <3>1. CASE Lacks(x)
      <4>1. Beat(x) = rbuf.filled /\ x \notin mshr.wmask
        <5>1. Beat(x) \in 0 .. Beats - 1 /\ Beat(x) >= rbuf.filled
          BY <3>1, WordsOfBeats DEF Lacks
        <5> QED
          BY <2>2, <3>1, <5>1, DcacheAssumption DEF Lacks
      <4>2. d = rbuf.data[x]
        BY <1>3, <1>4, <1>6, <2>2, <2>4, <4>1
      <4>3. Coming(x) = {rbuf.data[x]}
        BY <2>2, <4>1, DcacheAssumption DEF Coming
      <4> QED
        BY <1>1, <2>1, <2>5, <3>1, <4>2, <4>3 DEF WaysAreGood
    <3>2. CASE ~Lacks(x)
      <4>1. d = Kept(w, x)
        <5>1. ~(Beat(x) = rbuf.filled /\ x \notin mshr.wmask)
          <6>1. Beat(x) = rbuf.filled => Beat(x) >= rbuf.filled
            BY <2>2, DcacheAssumption
          <6> QED
            BY <3>2, <6>1 DEF Lacks
        <5> QED
          BY <1>3, <1>4, <2>4, <5>1
      <4> QED
        BY <1>1, <1>6, <2>1, <2>5, <3>2, <4>1 DEF WaysAreGood
    <3> QED
      BY <3>1, <3>2
  <2>7. Changing(l, x) => S0Stall(rv)
    <3> SUFFICES ASSUME Changing(l, x), ~S0Stall(rv) PROVE FALSE
      OBVIOUS
    <3>1. s0.req /\ s0.line = mshr.line /\ s0.kind \in {"inv", "store"}
      BY <2>1 DEF Changing
    <3>2. MshrHit
      BY <2>5, <3>1, MissControl DEF MshrHit, Filling
    <3>3. CASE s0.kind = "inv"
      BY <3>1, <3>2, <3>3 DEF S0Stall, Is
    <3>4. CASE s0.kind = "store"
      BY <2>4, <3>1, <3>2, <3>4, HitControl DEF Is
    <3> QED
      BY <3>1, <3>3, <3>4
  <2> QED
    BY <1>5, <2>1, <2>5, <2>6, <2>7, GoodMoves
\* The way is what it was.
<1>7. CASE ~(FillDone /\ w = mshr.way)
  <2>1. tagmem'[w] = tagmem[w] /\ tagmem[w].valid /\ l = tagmem[w].line /\ Cached(l)
    <3>1. tagmem'[w] = tagmem[w]
      BY <1>7, TagMoves
    <3> QED
      BY <1>4, <3>1 DEF Cached
  <2>2. ~(Filling /\ w = mshr.way /\ l = mshr.line)
    <3> SUFFICES ASSUME Filling, w = mshr.way, l = mshr.line PROVE FALSE
      OBVIOUS
    <3>1. ~mshr.valid
      BY <1>1, <2>1 DEF LinesAreOnce
    <3>2. FillDone
      BY <3>1, MissControl DEF Filling
    <3> QED
      BY <1>7, <3>2
  <2>3. Good(l, x, Kept(w, x))
    BY <1>1, <2>1, <2>2 DEF WaysAreGood
  <2>4. s0.line = l => w = HitWay /\ TagHits = {HitWay} /\ ~MshrHit
    <3> SUFFICES ASSUME s0.line = l PROVE w = HitWay /\ TagHits = {HitWay} /\ ~MshrHit
      OBVIOUS
    <3>1. w \in TagHits
      BY <2>1 DEF TagHits
    <3> QED
      BY <3>1, HitControl
  <2>5. CASE Wen /\ w = (IF MshrHit THEN mshr.way ELSE HitWay) /\ x = s0.word
    <3>1. d = DataWord(s0.line, s0.word, s0.ver) /\ Is("store") /\ FifoHasRoom
      BY <1>3, <1>4, <2>5 DEF Wen
    <3>2. ~MshrHit
      <4> SUFFICES ASSUME MshrHit PROVE FALSE
        OBVIOUS
      <4>1. WrMerge /\ w = mshr.way
        BY <2>5, HitControl
      <4> QED
        BY <2>1, <3>1, <4>1, NoFaults
    <3>3. l = s0.line
      BY <2>1, <2>5, <3>2, HitControl
    <3> QED
      BY <2>1, <2>5, <3>1, <3>3, StoreIsGood
  <2>6. CASE ~Wen /\ FillWen /\ w = mshr.way
    <3>1. ~FillDone /\ FillMoves(rv)
      BY <1>7, <2>6, HitControl
    <3> QED
      BY <2>6, <3>1, TagMoves
  <2>7. CASE ~(Wen /\ w = (IF MshrHit THEN mshr.way ELSE HitWay) /\ x = s0.word) /\ ~(~Wen /\ FillWen /\ w = mshr.way)
    <3>1. d = Kept(w, x)
      BY <1>3, <1>4, <2>7
    <3>2. Changing(l, x) => S0Stall(rv)
      <4> SUFFICES ASSUME Changing(l, x), ~S0Stall(rv) PROVE FALSE
        OBVIOUS
      <4>1. /\ s0.req /\ s0.line = l /\ (s0.kind = "inv" \/ (s0.kind = "store" /\ s0.word = x))
            /\ w = HitWay /\ TagHits = {HitWay} /\ ~MshrHit
        BY <2>4 DEF Changing
      <4>2. CASE s0.kind = "inv"
        <5>1. ~tagmem'[w].valid \/ (FillDone /\ w = mshr.way)
          BY <4>1, <4>2, TagMoves DEF Is
        <5> QED
          BY <1>7, <5>1
      <4>3. CASE s0.kind = "store" /\ s0.word = x
        <5>1. Wen
          BY <4>1, <4>3, HitControl DEF Is
        <5> QED
          BY <2>7, <4>1, <4>3, <5>1
      <4> QED
        BY <4>1, <4>2, <4>3
    <3> QED
      BY <1>5, <2>1, <2>3, <3>1, <3>2, GoodMoves
  <2> QED
    BY <2>5, <2>6, <2>7
<1> QED
  BY <1>6, <1>7

\* So has, of the line that is being filled, what is there and what is still to come.
LEMMA EdgeFill ==
  ASSUME NEW lsq, NEW flush, NEW rv, Edge(lsq, flush, rv)
  PROVE  Filling' => \A x \in CWords :
           (IF Lacks(x) THEN \A d \in Coming(x) : Good(mshr.line, x, d)
            ELSE Good(mshr.line, x, Kept(mshr.way, x)))'
<1>1. /\ Parts /\ WaysAreGood /\ LinesAreOnce /\ MaskIsOfStores
      /\ rbuf.got \in 0 .. Beats /\ rbuf.filled \in 0 .. Beats
      /\ s0.kind \in {"load", "store", "inv"}
  BY EdgeParts DEF Parts, DcTypeOK, Requests0
<1> SUFFICES ASSUME Filling', NEW x \in CWords
             PROVE  /\ Lacks(x)' => \A d \in Coming(x)' : Good(mshr.line, x, d)'
                    /\ ~Lacks(x)' => Good(mshr.line, x, Kept(mshr.way, x))'
  OBVIOUS
<1>2. Beat(x) \in 0 .. Beats - 1
  BY WordsOfBeats
\* All of a new miss is to come from memory.
<1>3. CASE Alloc
  <2>1. PICK l : l = mshr'.line
    OBVIOUS
  <2>2. mshr'.wmask = {} /\ rbuf'.got = 0 /\ rbuf'.filled = 0 /\ l = s0.line /\ l \in CLines
    BY <1>3, <2>1, NewFields, MissControl
  <2>3. resp' = Nil
    BY <1>3, MissControl, RespMoves DEF Beats1
  <2>4. Lacks(x)' /\ Coming(x)' = {DataWord(l, x, v) : v \in Newest(l, x)'}
    <3>1. Beat(x) >= rbuf'.filled /\ ~(Beat(x) < rbuf'.got)
      BY <1>2, <2>2, DcacheAssumption
    <3> QED
      BY <2>1, <2>2, <2>3, <3>1 DEF Lacks, Coming
  <2>5. ASSUME NEW d \in Coming(x)' PROVE Good(l, x, d)'
    <3>1. PICK v \in Newest(l, x)' : d = DataWord(l, x, v)
      BY <2>4, <2>5
    <3>2. CASE (Is("store") /\ s0.line = l /\ s0.word = x)'
      BY <3>2 DEF Good, Changing, Is
    <3>3. CASE ~(Is("store") /\ s0.line = l /\ s0.word = x)'
      <4>1. Newest(l, x)' \subseteq seen'[l][x]
        BY <2>2, <3>3, EdgeMemory DEF MemoryIsSeen
      <4>2. v \in seen'[l][x]
        BY <3>1, <4>1
      <4> QED
        BY <3>1, <4>2 DEF Good, Allowed
    <3> QED
      BY <3>2, <3>3
  <2>6. ASSUME NEW d \in Coming(x)' PROVE Good(mshr.line, x, d)'
    BY <2>1, <2>5, <2>6 DEF Good, Changing, Allowed
  <2> QED
    BY <2>4, <2>6
\* An old one goes on.
<1>4. CASE ~Alloc
  <2>1. PICK l, w : l = mshr.line /\ w = mshr.way
    OBVIOUS
  <2>2. /\ Filling /\ mshr'.line = l /\ mshr'.way = w /\ l \in CLines /\ w \in Ways /\ Cached(l)
        /\ rbuf'.got = Got1(rv) /\ rbuf'.filled = Filled1(rv) /\ mshr'.wmask = Merged /\ InUse(w)
    BY <1>4, <2>1, FillingMoves
  <2>3. /\ Lacks(x) => \A d \in Coming(x) : Good(l, x, d)
        /\ ~Lacks(x) => Good(l, x, Kept(w, x))
    BY <1>1, <2>1, <2>2 DEF WaysAreGood
  <2>4. s0.req /\ s0.line = l => MshrHit
    BY <2>1, <2>2, MissControl DEF MshrHit, Filling
  <2>5. Changing(l, x) /\ ~S0Stall(rv) => Wen /\ WrMerge /\ MshrHit /\ x = s0.word
    <3> SUFFICES ASSUME Changing(l, x), ~S0Stall(rv) PROVE Wen /\ WrMerge /\ MshrHit /\ x = s0.word
      OBVIOUS
    <3>1. s0.req /\ MshrHit /\ (s0.kind = "inv" \/ (s0.kind = "store" /\ s0.word = x))
      BY <2>4 DEF Changing
    <3>2. s0.kind # "inv"
      BY <3>1 DEF S0Stall, Is
    <3> QED
      BY <3>1, <3>2, HitControl DEF Is
  <2>6. Filled1(rv) = (IF FillWen /\ ~Wen THEN rbuf.filled + 1 ELSE rbuf.filled)
    BY HitControl DEF Filled1
  <2>7. Lacks(x)' <=> Beat(x) >= Filled1(rv) /\ x \notin Merged
    BY <2>2 DEF Lacks
  <2>8. ASSUME Lacks(x)', NEW d \in Coming(x)' PROVE Good(l, x, d)'
    <3>1. Lacks(x)
      <4>1. Beat(x) >= rbuf.filled
        BY <1>1, <1>2, <2>6, <2>7, <2>8, DcacheAssumption
      <4>2. x \notin mshr.wmask
        BY <2>7, <2>8 DEF Merged
      <4> QED
        BY <4>1, <4>2 DEF Lacks
    <3>2. d \in Coming(x)
      BY <1>4, <2>7, <2>8, ComingMoves
    <3>3. ~(WrMerge /\ x = s0.word)
      BY <2>7, <2>8 DEF Merged
    <3> QED
      BY <2>2, <2>3, <2>5, <3>1, <3>2, <3>3, GoodMoves
  <2>9. ASSUME ~Lacks(x)' PROVE Good(l, x, Kept(w, x))'
    <3>1. PICK d : d = Kept(w, x)'
      OBVIOUS
    <3>2. d = IF Wen /\ w = (IF MshrHit THEN mshr.way ELSE HitWay) /\ x = s0.word
              THEN DataWord(s0.line, s0.word, s0.ver)
              ELSE IF ~Wen /\ FillWen /\ w = mshr.way /\ Beat(x) = rbuf.filled /\ x \notin mshr.wmask
              THEN rbuf.data[x]
              ELSE Kept(w, x)
      BY <2>2, <3>1, KeptMoves
    <3> SUFFICES Good(l, x, d)'
      BY <3>1 DEF Good, Changing, Allowed
    <3>3. CASE Wen /\ w = (IF MshrHit THEN mshr.way ELSE HitWay) /\ x = s0.word
      <4>1. MshrHit
        <5> SUFFICES ASSUME ~MshrHit PROVE FALSE
          OBVIOUS
        <5>1. /\ Is("store") /\ s0.line # l /\ TagHits # {} /\ ~WrMerge
              /\ tagmem[mshr.way].valid /\ tagmem[mshr.way].line = s0.line
          BY <2>1, <2>4, <3>3, HitControl DEF Is
        <5>2. mshr.valid
          <6> SUFFICES ASSUME ~mshr.valid PROVE FALSE
            OBVIOUS
          <6>1. Late
            BY <2>2 DEF Filling
          <6>2. tagmem[mshr.way] = [valid |-> TRUE, line |-> mshr.line]
            BY <1>1, <6>1 DEF LinesAreOnce
          <6> QED
            BY <2>1, <5>1, <6>2
        <5>3. rbuf.filled = 0
          BY <1>1, <5>1, <5>2 DEF LinesAreOnce
        <5>4. x \in mshr.wmask
          <6>1. Filled1(rv) = 0
            BY <2>6, <3>3, <5>3
          <6>2. Beat(x) >= Filled1(rv)
            BY <1>2, <6>1, DcacheAssumption
          <6> QED
            BY <2>7, <2>9, <5>1, <6>2 DEF Merged
        <5> QED
          BY <1>1, <2>1, <5>1, <5>2, <5>4 DEF MaskIsOfStores
      <4>2. l = s0.line
        BY <2>1, <4>1, HitControl
      <4> QED
        BY <2>2, <3>2, <3>3, <4>2, HitControl, StoreIsGood
    <3>4. CASE ~Wen /\ FillWen /\ Beat(x) = rbuf.filled /\ x \notin mshr.wmask
      <4>1. d = rbuf.data[x]
        BY <2>1, <3>2, <3>4
      <4>2. Beat(x) < rbuf.got /\ Beat(x) >= rbuf.filled
        BY <1>1, <1>2, <3>4, MissControl, DcacheAssumption
      <4>3. Lacks(x) /\ Coming(x) = {rbuf.data[x]}
        BY <3>4, <4>2 DEF Lacks, Coming
      <4>4. Good(l, x, d)
        BY <2>3, <4>1, <4>3
      <4> QED
        BY <2>2, <2>5, <3>4, <4>4, GoodMoves
    <3>5. CASE /\ ~(Wen /\ w = (IF MshrHit THEN mshr.way ELSE HitWay) /\ x = s0.word)
               /\ ~(~Wen /\ FillWen /\ Beat(x) = rbuf.filled /\ x \notin mshr.wmask)
      <4>1. d = Kept(w, x)
        BY <3>2, <3>5
      <4>2. ~(Wen /\ MshrHit /\ x = s0.word)
        BY <2>1, <3>5
      <4>3. CASE ~Lacks(x)
        BY <2>2, <2>3, <2>5, <4>1, <4>2, <4>3, GoodMoves
      <4>4. CASE Lacks(x)
        <5>1. x \notin mshr.wmask /\ Beat(x) >= rbuf.filled
          BY <4>4 DEF Lacks
        <5>2. Beat(x) >= Filled1(rv)
          BY <1>1, <1>2, <2>6, <3>5, <5>1, DcacheAssumption
        <5>3. WrMerge /\ x = s0.word
          BY <2>7, <2>9, <5>1, <5>2 DEF Merged
        <5>4. Is("store") /\ MshrHit /\ s0.line = l
          BY <2>1, <5>3, HitControl
        <5>5. S0Stall(rv)
          BY <4>2, <5>3, <5>4, HitControl
        <5>6. s0' = s0
          BY <5>4, <5>5, Stage0Moves DEF Is
        <5> QED
          BY <5>3, <5>4, <5>6 DEF Good, Changing, Is
      <4> QED
        BY <4>3, <4>4
    <3> QED
      BY <3>3, <3>4, <3>5
  <2>10. ASSUME NEW d, Good(l, x, d)' PROVE Good(mshr.line, x, d)'
    BY <2>2, <2>10 DEF Good, Changing, Allowed
  <2>11. PICK d : d = Kept(w, x)'
    OBVIOUS
  <2>12. Kept(mshr.way, x)' = d
    BY <2>2, <2>11 DEF Kept
  <2>13. ~Lacks(x)' => Good(mshr.line, x, Kept(mshr.way, x))'
    <3> SUFFICES ASSUME ~Lacks(x)' PROVE Good(mshr.line, x, Kept(mshr.way, x))'
      OBVIOUS
    <3>1. Good(l, x, d)'
      BY <2>9, <2>11 DEF Good, Changing, Allowed
    <3>2. Good(mshr.line, x, d)'
      BY <2>10, <3>1
    <3> QED
      BY <2>12, <3>2 DEF Good, Changing, Allowed
  <2> QED
    BY <2>8, <2>10, <2>13
<1> QED
  BY <1>3, <1>4

\* Beats that have come are good as long as no store has been merged.
LEMMA EdgeBuffer ==
  ASSUME NEW lsq, NEW flush, NEW rv, Edge(lsq, flush, rv)
  PROVE  BufferIsGood'
<1>1. /\ Parts /\ WaysAreGood /\ BufferIsGood /\ MaskIsOfStores
      /\ rbuf.got \in 0 .. Beats /\ rbuf.filled \in 0 .. Beats /\ rbuf.filled <= rbuf.got
      /\ mshr.valid => mshr.line \in CLines
  BY EdgeParts DEF Parts, DcTypeOK, MissIsServed
<1> SUFFICES ASSUME mshr'.valid, ~mshr'.wen, NEW x \in CWords, Beat(x) < rbuf'.got
             PROVE  (Good(mshr.line, x, rbuf.data[x]))'
  BY DEF BufferIsGood
<1>2. Beat(x) \in 0 .. Beats - 1
  BY WordsOfBeats
<1>3. ~Alloc
  <2> SUFFICES ASSUME Alloc PROVE FALSE
    OBVIOUS
  <2>1. rbuf'.got = 0
    BY NewFields
  <2> QED
    BY <1>2, <2>1, DcacheAssumption
<1>4. Stays(rv)
  BY <1>3, OldFields
<1>5. /\ mshr.valid /\ mshr'.line = mshr.line /\ ~mshr.wen /\ ~WrMerge /\ rbuf'.got = Got1(rv)
      /\ rbuf'.data[x] = IF Beats1(rv) /\ Beat(x) = rbuf.got
                         THEN DataWord(mshr.line, x, resp.vers[x]) ELSE rbuf.data[x]
  BY <1>3, <1>4, OldFields
<1>6. PICK l, d : l = mshr.line /\ d = rbuf'.data[x]
  OBVIOUS
<1>7. Changing(l, x) => S0Stall(rv)
  <2> SUFFICES ASSUME Changing(l, x), ~S0Stall(rv) PROVE FALSE
    OBVIOUS
  <2>1. s0.req /\ MshrHit /\ (s0.kind = "inv" \/ (s0.kind = "store" /\ s0.word = x))
    BY <1>5, <1>6 DEF Changing, MshrHit
  <2>2. s0.kind # "inv"
    BY <2>1 DEF S0Stall, Is
  <2> QED
    BY <1>5, <2>1, <2>2, HitControl DEF Is
<1>8. Good(l, x, d)
  <2>1. CASE Beats1(rv) /\ Beat(x) = rbuf.got
    <3>1. resp # Nil
      BY <2>1, MissControl DEF Beats1
    <3>2. ~(Beat(x) < rbuf.got) /\ Beat(x) >= rbuf.filled
      BY <1>1, <1>2, <2>1, DcacheAssumption
    <3>3. Lacks(x) /\ Coming(x) = {d}
      BY <1>1, <1>5, <1>6, <2>1, <3>1, <3>2 DEF Lacks, Coming, MaskIsOfStores
    <3> QED
      BY <1>1, <1>5, <1>6, <3>3 DEF WaysAreGood, Filling
  <2>2. CASE ~(Beats1(rv) /\ Beat(x) = rbuf.got)
    <3>1. Beat(x) < rbuf.got
      BY <1>1, <1>2, <1>5, <2>2, DcacheAssumption DEF Got1
    <3> QED
      BY <1>1, <1>5, <1>6, <2>2, <3>1 DEF BufferIsGood
  <2> QED
    BY <2>1, <2>2
<1>9. Good(l, x, d)'
  BY <1>1, <1>5, <1>6, <1>7, <1>8, GoodMoves DEF Cached
<1> QED
  BY <1>5, <1>6, <1>9 DEF Good, Changing, Allowed

\* What a load that is not being answered may return stays.
LEMMA GoalMoves ==
  ASSUME NEW lsq, NEW flush, NEW rv, Edge(lsq, flush, rv), ~flush, NEW i \in Ids,
         InS0(i) \/ InS1(i) \/ \E x \in CWords : InReqs(i, x)
  PROVE  goal'[i] = goal[i]
<1>1. PlacesAreOne
  BY EdgeParts DEF Parts
<1>2. goal[i] # {} /\ ~InS2(i)
  BY <1>1 DEF PlacesAreOne
<1>3. ~(Loads(lsq) /\ lsq.id = i)
  BY <1>2, AskedFor DEF Loads
<1>4. goal'[i] = IF flush THEN {}
                 ELSE IF Loads(lsq) /\ lsq.id = i THEN Allowed(lsq.line, lsq.word)
                 ELSE IF s2 # Nil /\ s2.id = i THEN {} ELSE goal[i]
  BY HistoryMoves
<1> QED
  BY <1>2, <1>3, <1>4 DEF InS2

\* A load in stage 0 may return what it could; a store changes what no load is out for.
LEMMA EdgeStage0 ==
  ASSUME NEW lsq, NEW flush, NEW rv, Edge(lsq, flush, rv)
  PROVE  /\ (Is("load") => Allowed(s0.line, s0.word) \subseteq goal[s0.id])'
         /\ (Is("store") => \A i \in Ids, v \in 0 .. writes : DataWord(s0.line, s0.word, v) \notin goal[i])'
<1>1. /\ Parts /\ LoadsGetTheirs /\ writes \in Nat /\ flush \in BOOLEAN
      /\ goal \in [Ids -> SUBSET (CLines \X CWords \X (0 .. writes))]
      /\ s0.req => s0.line \in CLines
      /\ s0.word \in CWords /\ (Is("load") => s0.id \in Ids)
      /\ lsq # Nil => lsq \in Asks /\ ~flush /\ ~S0Stall(rv) /\ inv = Nil
  BY EdgeParts DEF Parts, DcTypeOK, Requests0
<1>2. ASSUME ~Stores(lsq), S0Stall(rv) \/ inv = Nil, NEW l \in CLines, NEW x \in CWords
      PROVE  Allowed(l, x)' = Allowed(l, x)
  <2>1. seen'[l][x] = seen[l][x]
    BY <1>2, SeenMoves
  <2> QED
    BY <2>1 DEF Allowed
<1>3. ASSUME Is("load")'
      PROVE  Allowed(s0.line, s0.word)' \subseteq goal'[s0'.id]
  <2>1. PICK l, x, i : l = s0'.line /\ x = s0'.word /\ i = s0'.id
    OBVIOUS
  <2>2. i \in Ids /\ InS0(i)'
    BY <1>3, <2>1, Stage0Moves DEF InS0
  <2>3. ~flush /\ ((Loads(lsq) /\ lsq.id = i) \/ (InS0(i) /\ S0Stall(rv)))
    BY <2>2, PlaceFrom
  <2>4. CASE Loads(lsq) /\ lsq.id = i
    <3>1. /\ lsq # Nil /\ ~Stores(lsq) /\ inv = Nil /\ lsq.line \in CLines /\ lsq.word \in CWords
      BY <1>1, <2>4, AskedFor DEF Loads
    <3>2. s0' = lsq
      BY <2>3, <3>1, Stage0Moves
    <3>3. goal'[i] = Allowed(l, x)
      BY <2>1, <2>2, <2>3, <2>4, <3>2, HistoryMoves
    <3>4. Allowed(l, x)' = Allowed(l, x)
      BY <1>2, <2>1, <3>1, <3>2
    <3> QED
      BY <2>1, <3>3, <3>4 DEF Allowed
  <2>5. CASE InS0(i) /\ S0Stall(rv)
    <3>1. lsq = Nil /\ s0' = s0
      BY <1>1, <2>3, <2>5, Stage0Moves
    <3>2. goal'[i] = goal[i]
      BY <2>2, <2>3, <2>5, GoalMoves
    <3>3. Allowed(l, x)' = Allowed(l, x)
      BY <1>1, <1>2, <2>1, <2>5, <3>1 DEF Stores, InS0, Is
    <3>4. Allowed(l, x) \subseteq goal[i]
      BY <1>1, <2>1, <2>5, <3>1 DEF LoadsGetTheirs, InS0
    <3> QED
      BY <2>1, <3>2, <3>3, <3>4 DEF Allowed
  <2> QED
    BY <2>3, <2>4, <2>5
<1>4. ASSUME Is("store")', NEW i \in Ids, NEW v \in 0 .. writes'
      PROVE  DataWord(s0'.line, s0'.word, v) \notin goal'[i]
  <2>1. s0'.req /\ s0'.kind = "store"
    BY <1>4 DEF Is
  <2>2. CASE lsq = Nil
    <3>1. s0' = s0
      BY <2>1, <2>2, Stage0Moves
    <3>2. writes' = writes /\ goal'[i] \subseteq goal[i]
      BY <2>2, HistoryMoves DEF Stores, Loads
    <3> QED
      BY <1>1, <1>4, <2>1, <3>1, <3>2 DEF LoadsGetTheirs, Is
  <2>3. CASE lsq # Nil
    <3>1. s0' = lsq
      BY <1>1, <2>1, <2>3, Stage0Moves
    <3>2. Stores(lsq) /\ ~Loads(lsq)
      BY <2>1, <2>3, <3>1 DEF Stores, Loads
    <3>3. writes' = writes + 1 /\ goal'[i] \subseteq goal[i]
      BY <3>2, HistoryMoves
    <3>4. CASE v \in 0 .. writes
      BY <2>3, <3>1, <3>2, <3>3, <3>4, AskedFor
    <3>5. CASE v \notin 0 .. writes
      <4>1. goal[i] \subseteq CLines \X CWords \X (0 .. writes)
        BY <1>1
      <4> QED
        BY <3>3, <3>5, <4>1 DEF DataWord
    <3> QED
      BY <3>4, <3>5
  <2> QED
    BY <2>2, <2>3
<1> QED
  BY <1>3, <1>4

\* What stage 1 reads it may return, and goes on to be there while it waits.
LEMMA EdgeStage1 ==
  ASSUME NEW lsq, NEW flush, NEW rv, Edge(lsq, flush, rv)
  PROVE  /\ (s1 # Nil /\ ~s1.forward => datamem[s1.way][s1.word] \in goal[s1.id])'
         /\ (s1 # Nil /\ s1.forward => /\ rbuf.data[s1.word] \in goal[s1.id]
                                       /\ mshr.valid => Beat(s1.word) < rbuf.got)'
<1>1. /\ Parts /\ LoadsGetTheirs /\ WaysAreGood /\ BufferIsGood /\ LinesAreOnce /\ flush \in BOOLEAN
      /\ s1 \in Reads1 \cup {Nil} /\ (s1 # Nil /\ ~s1.forward => s1.way \in Ways)
      /\ Is("load") => s0.id \in Ids
      /\ s0.word \in CWords /\ rbuf.got \in 0 .. Beats
  BY EdgeParts DEF Parts, DcTypeOK, Requests0
<1>2. s1 # Nil => s1 \in Reads1 /\ s1.id \in Ids /\ s1.word \in CWords
  BY <1>1 DEF Reads1
<1>3. CASE ~flush /\ S1Stall(rv) /\ s1' = s1 /\ s1 # Nil
  <2>1. goal'[s1.id] = goal[s1.id]
    BY <1>2, <1>3, GoalMoves DEF InS1
  <2>2. ASSUME ~s1.forward PROVE datamem'[s1.way][s1.word] \in goal[s1.id]
    <3>1. InUse(s1.way) /\ s1.way \in Ways
      BY <1>1, <1>3, <2>2 DEF InUse
    <3>2. datamem'[s1.way][s1.word] = Kept(s1.way, s1.word)
      BY <1>2, <1>3, <3>1, KeptMoves
    <3>3. Kept(s1.way, s1.word) = datamem[s1.way][s1.word]
      BY <1>3, <2>2, NoFaults DEF Kept
    <3> QED
      BY <1>1, <1>3, <2>2, <3>2, <3>3 DEF LoadsGetTheirs
  <2>3. ASSUME s1.forward
        PROVE  rbuf'.data[s1.word] \in goal[s1.id] /\ (mshr'.valid => Beat(s1.word) < rbuf'.got)
    <3>1. mshr.valid /\ ~Alloc
      BY <1>3, MissControl
    <3>2. rbuf.data[s1.word] \in goal[s1.id] /\ Beat(s1.word) < rbuf.got
      BY <1>1, <1>3, <2>3, <3>1 DEF LoadsGetTheirs
    <3>3. Beat(s1.word) # rbuf.got /\ Beat(s1.word) < Got1(rv)
      <4>1. Beat(s1.word) \in 0 .. Beats - 1 /\ rbuf.got \in 0 .. Beats
        BY <1>1, <1>2, <1>3, WordsOfBeats
      <4> QED
        BY <3>2, <4>1, DcacheAssumption DEF Got1
    <3>4. rbuf'.data[s1.word] = rbuf.data[s1.word]
      BY <1>2, <1>3, <2>3, <3>1, <3>3, OldFields
    <3>5. mshr'.valid => rbuf'.got = Got1(rv)
      BY <3>1, OldFields
    <3> QED
      BY <3>2, <3>3, <3>4, <3>5
  <2> QED
    BY <1>3, <2>1, <2>2, <2>3
<1>4. CASE /\ ~flush /\ ~S1Stall(rv) /\ RdForward
           /\ s1' # Nil /\ s1'.forward = TRUE /\ s1'.word = s0.word /\ s1'.id = s0.id
  <2>1. /\ Is("load") /\ MshrHit /\ ~mshr.wen /\ Beat(s0.word) < rbuf.got
        /\ mshr.valid /\ mshr.line = s0.line /\ ~Alloc /\ s0.id \in Ids
    BY <1>1, <1>4, MissControl DEF RdForward, MshrHit
  <2>2. goal'[s0.id] = goal[s0.id]
    BY <1>4, <2>1, GoalMoves DEF InS0
  <2>3. Beat(s0.word) # rbuf.got /\ Beat(s0.word) < Got1(rv)
    <3>1. Beat(s0.word) \in 0 .. Beats - 1 /\ rbuf.got \in 0 .. Beats /\ Beat(s0.word) < rbuf.got
      BY <1>1, <2>1, WordsOfBeats
    <3> QED
      BY <3>1, DcacheAssumption DEF Got1
  <2>4. rbuf'.data[s0.word] = rbuf.data[s0.word]
    BY <1>1, <1>4, <2>1, <2>3, OldFields
  <2>5. mshr'.valid => rbuf'.got = Got1(rv)
    BY <2>1, OldFields
  <2>6. Good(s0.line, s0.word, rbuf.data[s0.word])
    BY <1>1, <2>1 DEF BufferIsGood
  <2>7. rbuf.data[s0.word] \in goal[s0.id]
    BY <1>1, <2>1, <2>6 DEF Good, Changing, LoadsGetTheirs, Is
  <2> QED
    BY <1>4, <2>2, <2>3, <2>4, <2>5, <2>7
<1>5. CASE /\ ~flush /\ ~S1Stall(rv) /\ Is("load") /\ ~MshrHit /\ ~TagMiss
           /\ s1' # Nil /\ s1'.forward = FALSE /\ s1'.word = s0.word /\ s1'.id = s0.id
           /\ s1'.way = HitWay /\ HitWay \in Ways
  <2>1. tagmem[HitWay].valid /\ tagmem[HitWay].line = s0.line /\ s0.id \in Ids
    BY <1>1, <1>5, HitControl DEF TagMiss
  <2>2. goal'[s0.id] = goal[s0.id]
    BY <1>5, <2>1, GoalMoves DEF InS0
  <2>3. datamem'[HitWay][s0.word] = Kept(HitWay, s0.word)
    BY <1>1, <1>5, KeptMoves DEF InUse
  <2>4. ~(Filling /\ tagmem[HitWay].line = mshr.line)
    BY <1>5, <2>1, MissControl DEF Filling, MshrHit, Is
  <2>5. Good(s0.line, s0.word, Kept(HitWay, s0.word))
    BY <1>1, <1>5, <2>1, <2>4 DEF WaysAreGood
  <2>6. Kept(HitWay, s0.word) \in goal[s0.id]
    BY <1>1, <1>5, <2>5 DEF Good, Changing, LoadsGetTheirs, Is
  <2> QED
    BY <1>5, <2>2, <2>3, <2>6
<1>6. CASE s1' = Nil
  BY <1>6
<1> QED
  BY <1>3, <1>4, <1>5, <1>6, Stage1Moves

\* The answer is what comes for the request, or what stage 1 has read.
LEMMA EdgeStage2 ==
  ASSUME NEW lsq, NEW flush, NEW rv, Edge(lsq, flush, rv)
  PROVE  (s2 # Nil => s2.data \in goal[s2.id])'
<1>1. /\ Parts /\ LoadsGetTheirs /\ s1 \in Reads1 \cup {Nil}
      /\ mshr.reqs \in [CWords -> Ids \cup {Nil}] /\ rbuf.got \in 0 .. Beats
  BY EdgeParts DEF Parts, DcTypeOK
<1>2. ASSUME ~flush, rv, NEW h \in {0, 1}, FwdValid(h)
      PROVE  RespWord(h) \in goal'[mshr.reqs[h]]
  <2>1. h \in CWords /\ mshr.reqs[h] # Nil /\ ~mshr.obsolete /\ mshr.reqs[h] \in Ids
    BY <1>1, <1>2, WordsOfBeats DEF FwdValid
  <2>2. PICK w \in CWords : w = 2 * rbuf.got + h /\ Beat(w) = rbuf.got
    BY <1>2, BeatData
  <2>3. RespWord(h) = DataWord(mshr.line, w, resp.vers[w])
    BY <1>2, <2>2, BeatData
  <2>4. Coming(w) = {RespWord(h)}
    <3>1. ~(Beat(w) < rbuf.got)
      BY <1>1, <2>2, DcacheAssumption
    <3>2. resp # Nil
      BY <1>2, MissControl
    <3> QED
      BY <2>3, <3>1, <3>2 DEF Coming
  <2>5. Coming(w) \subseteq goal[mshr.reqs[h]]
    BY <1>1, <2>1, <2>2 DEF LoadsGetTheirs
  <2>6. goal'[mshr.reqs[h]] = goal[mshr.reqs[h]]
    <3>1. PICK i \in Ids : i = mshr.reqs[h]
      BY <2>1
    <3>2. InReqs(i, h)
      BY <2>1, <3>1 DEF InReqs
    <3>3. \E y \in CWords : InReqs(i, y)
      BY <2>1, <3>2
    <3>4. ~flush /\ flush \in BOOLEAN
      BY <1>2, EdgeParts
    <3>5. goal'[i] = goal[i]
      BY <3>3, <3>4, GoalMoves
    <3> QED
      BY <3>1, <3>5
  <2> QED
    BY <2>4, <2>5, <2>6
<1>3. CASE ~flush /\ rv /\ FwdValid(0) /\ s2' # Nil /\ s2'.id = mshr.reqs[0] /\ s2'.data = RespWord(0)
  BY <1>2, <1>3
<1>4. CASE ~flush /\ rv /\ FwdValid(1) /\ s2' # Nil /\ s2'.id = mshr.reqs[1] /\ s2'.data = RespWord(1)
  BY <1>2, <1>4
<1>5. CASE /\ ~flush /\ s1 # Nil /\ s2' # Nil /\ s2'.id = s1.id
           /\ s2'.data = IF s1.forward THEN rbuf.data[s1.word] ELSE datamem[s1.way][s1.word]
  <2>1. s1.id \in Ids
    BY <1>1, <1>5 DEF Reads1
  <2>2. goal'[s1.id] = goal[s1.id]
    BY <1>5, <2>1, GoalMoves DEF InS1
  <2>3. s2'.data \in goal[s1.id]
    BY <1>1, <1>5 DEF LoadsGetTheirs
  <2> QED
    BY <1>5, <2>2, <2>3
<1>6. CASE s2' = Nil
  BY <1>6
<1> QED
  BY <1>3, <1>4, <1>5, <1>6, Stage2Moves

\* What comes for a request it may return: the word is the one the load asked for, and no
\* store to it is merged while the load waits.
LEMMA EdgeReqs ==
  ASSUME NEW lsq, NEW flush, NEW rv, Edge(lsq, flush, rv),
         NEW x \in CWords, NEW w \in CWords,
         mshr'.reqs[x] # Nil, ~mshr'.obsolete, w = 2 * rbuf'.got + x
  PROVE  /\ w \notin mshr'.wmask /\ Coming(w)' \subseteq goal'[mshr'.reqs[x]]
         /\ \E v \in 0 .. writes' : DataWord(mshr'.line, w, v) \in goal'[mshr'.reqs[x]]
<1>1. /\ Parts /\ LoadsGetTheirs /\ WaysAreGood /\ MaskIsOfStores /\ MemoryIsSeen /\ MissIsServed /\ RequestsFit
      /\ mshr.reqs \in [CWords -> Ids \cup {Nil}] /\ rv \in BOOLEAN
      /\ rbuf.got \in 0 .. Beats /\ rbuf.filled \in 0 .. Beats /\ rbuf.filled <= rbuf.got
      /\ (rbuf.started <=> rbuf.got > 0)
      /\ seen \in [CLines -> [CWords -> SUBSET (0 .. writes)]]
      /\ Is("load") => s0.id \in Ids /\ s0.line \in CLines /\ s0.word \in CWords
  BY EdgeParts DEF Parts, DcTypeOK, Requests0, MissIsServed, Is
<1>2. writes \in Nat /\ writes' \in Nat /\ writes <= writes'
  BY HistoryMoves
<1>3. PICK i : i = mshr'.reqs[x]
  OBVIOUS
<1>4. i \in Ids /\ i # Nil /\ InReqs(i, x)'
  BY <1>3, EdgeType DEF DcTypeOK, InReqs
<1>5. /\ ~flush
      /\ \/ InS0(i) /\ ~S0Stall(rv) /\ (Alloc \/ RdMerge(rv)) /\ x = s0.word
         \/ InReqs(i, x) /\ ~rv
         \/ InReqs(i, x) /\ rv /\ ~BeatDone /\ x # 0
         \/ Beats1(rv) /\ x + 2 \in CWords /\ InReqs(i, x + 2)
  BY <1>4, PlaceFrom
<1> SUFFICES /\ w \notin mshr'.wmask /\ Coming(w)' \subseteq goal'[i]
             /\ \E v \in 0 .. writes' : DataWord(mshr'.line, w, v) \in goal'[i]
  BY <1>3
<1>6. ~Alloc => Stays(rv)
  <2> SUFFICES ASSUME ~Alloc, ~Stays(rv) PROVE FALSE
    OBVIOUS
  <2>1. mshr'.reqs[x] = Nil
    BY OldFields
  <2> QED
    BY <2>1
<1>7. Beat(w) \in 0 .. Beats - 1
  BY WordsOfBeats
<1>8. rbuf'.got = 0 => w = x
  <2>1. x \in Nat
    BY WordsOfBeats
  <2> QED
    BY <2>1
\* A load that comes from stage 0.
<1>9. CASE InS0(i) /\ ~S0Stall(rv) /\ (Alloc \/ RdMerge(rv)) /\ x = s0.word
  <2>1. /\ Is("load") /\ s0.id = i /\ s0.line \in CLines /\ s0.kind # "store"
        /\ goal'[i] = goal[i]
    BY <1>1, <1>4, <1>5, <1>9, GoalMoves DEF InS0, Is
  <2>2. Allowed(s0.line, s0.word) \subseteq goal'[i]
    BY <1>1, <2>1 DEF LoadsGetTheirs
  <2>3. \E v \in 0 .. writes' : DataWord(s0.line, s0.word, v) \in goal'[i]
    <3>1. PICK v : v \in seen[s0.line][s0.word]
      BY <1>1, <1>9, <2>1 DEF MemoryIsSeen
    <3>2. v \in 0 .. writes
      BY <1>1, <1>9, <2>1, <3>1
    <3>3. v \in 0 .. writes'
      BY <1>2, <3>2
    <3>4. DataWord(s0.line, s0.word, v) \in Allowed(s0.line, s0.word)
      BY <3>1 DEF Allowed
    <3> QED
      BY <2>2, <3>3, <3>4
  <2>4. CASE Alloc
    <3>1. mshr'.wmask = {} /\ rbuf'.got = 0 /\ mshr'.line = s0.line
      BY <2>4, NewFields
    <3>2. w = s0.word
      BY <1>9, <1>8, <3>1
    <3>3. resp' = Nil
      BY <2>4, MissControl, RespMoves DEF Beats1
    <3>4. ~(Beat(w) < rbuf'.got)
      BY <1>7, <3>1, DcacheAssumption
    <3>5. PICK l : l = s0.line
      OBVIOUS
    <3>6. Coming(w)' = {DataWord(l, w, v) : v \in Newest(l, w)'}
      BY <3>1, <3>3, <3>4, <3>5 DEF Coming
    <3>7. ASSUME NEW v \in Newest(l, w)' PROVE DataWord(l, w, v) \in goal'[i]
      <4>1. v \in Newest(l, w)
        BY <2>1, <3>7, NewestMoves DEF Is
      <4>2. Newest(l, w) \subseteq seen[l][w]
        BY <1>1, <2>1, <3>5 DEF MemoryIsSeen, Is
      <4>3. DataWord(l, w, v) \in Allowed(l, w)
        BY <4>1, <4>2 DEF Allowed
      <4> QED
        BY <2>2, <3>2, <3>5, <4>3
    <3> QED
      BY <2>3, <3>1, <3>2, <3>6, <3>7
  <2>5. CASE RdMerge(rv) /\ ~Alloc
    <3>1. ~rv /\ ~rbuf.started /\ MshrHit /\ ~mshr.wen
      BY <2>5 DEF RdMerge
    <3>2. rbuf.got = 0 /\ ~Beats1(rv) /\ mshr.valid /\ mshr.line = s0.line
      BY <1>1, <3>1, DcacheAssumption DEF MshrHit, Beats1
    <3>3. rbuf'.got = 0 /\ mshr'.line = s0.line /\ mshr'.wmask = Merged
      BY <1>6, <2>5, <3>2, OldFields DEF Got1
    <3>4. w = s0.word
      BY <1>9, <1>8, <3>3
    <3>5. Merged = {} /\ mshr.wmask = {}
      BY <1>1, <2>1, <3>1, <3>2 DEF Merged, WrMerge, Is, MaskIsOfStores
    <3>6. Coming(w)' \subseteq Coming(w)
      BY <1>6, <2>5, <3>5, FillingMoves, ComingMoves
    <3>7. Lacks(w)
      <4>1. Beat(w) >= rbuf.filled
        BY <1>1, <1>7, <3>2, DcacheAssumption
      <4> QED
        BY <3>5, <4>1 DEF Lacks
    <3>8. \A d \in Coming(w) : Good(s0.line, s0.word, d)
      BY <1>1, <3>2, <3>4, <3>7 DEF WaysAreGood, Filling
    <3>9. Coming(w) \subseteq Allowed(s0.line, s0.word)
      BY <2>1, <3>8 DEF Good, Changing, Is
    <3> QED
      BY <2>2, <2>3, <3>3, <3>4, <3>5, <3>6, <3>9
  <2> QED
    BY <1>9, <2>4, <2>5
\* A request that was there.
<1>10. CASE \E y \in CWords : InReqs(i, y) /\ w = 2 * rbuf.got + y
  <2>1. PICK y \in CWords : InReqs(i, y) /\ w = 2 * rbuf.got + y
    BY <1>10
  <2>2. mshr.reqs[y] = i /\ ~mshr.obsolete /\ mshr.valid /\ ~Alloc
    BY <1>1, <1>4, <2>1, MissControl DEF InReqs, RequestsFit
  <2>3. /\ w \notin mshr.wmask /\ Coming(w) \subseteq goal[i]
        /\ \E v \in 0 .. writes : DataWord(mshr.line, w, v) \in goal[i]
    BY <1>1, <1>4, <2>1, <2>2 DEF LoadsGetTheirs
  <2>4. goal'[i] = goal[i]
    BY <1>4, <1>5, <2>1, GoalMoves
  <2>5. mshr'.line = mshr.line /\ mshr'.wmask = Merged /\ Filling'
    BY <1>6, <2>2, OldFields, FillingMoves
  <2>6. w \notin Merged
    <3> SUFFICES ASSUME WrMerge, w = s0.word PROVE FALSE
      BY <2>3 DEF Merged
    <3>1. Is("store") /\ s0.line = mshr.line
      BY HitControl
    <3>2. \A v \in 0 .. writes : DataWord(s0.line, s0.word, v) \notin goal[i]
      BY <1>1, <1>4, <3>1 DEF LoadsGetTheirs
    <3> QED
      BY <2>3, <3>1, <3>2
  <2>7. Coming(w)' \subseteq Coming(w)
    BY <2>2, <2>5, <2>6, ComingMoves
  <2>8. \E v \in 0 .. writes' : DataWord(mshr.line, w, v) \in goal[i]
    <3>1. PICK v \in 0 .. writes : DataWord(mshr.line, w, v) \in goal[i]
      BY <2>3
    <3>2. v \in 0 .. writes'
      BY <1>2
    <3> QED
      BY <3>1, <3>2
  <2> QED
    BY <2>3, <2>4, <2>5, <2>6, <2>7, <2>8
<1>11. CASE ~(InS0(i) /\ ~S0Stall(rv) /\ (Alloc \/ RdMerge(rv)) /\ x = s0.word)
  <2>1. ~Alloc
    <3> SUFFICES ASSUME Alloc PROVE FALSE
      OBVIOUS
    <3>1. \E y \in CWords : InReqs(i, y)
      BY <1>5, <1>11
    <3>2. mshr.valid
      BY <1>1, <1>4, <3>1 DEF InReqs, RequestsFit
    <3> QED
      BY <3>2, MissControl
  <2>2. rbuf'.got = Got1(rv)
    BY <1>6, <2>1, OldFields
  <2>3. x \in Int
    BY WordsOfBeats
  <2>4. CASE InReqs(i, x) /\ ~Beats1(rv)
    <3>1. w = 2 * rbuf.got + x
      BY <2>2, <2>4 DEF Got1
    <3> QED
      BY <1>10, <2>4, <3>1
  <2>5. CASE Beats1(rv) /\ x + 2 \in CWords /\ InReqs(i, x + 2)
    <3>1. rbuf'.got = rbuf.got + 1
      BY <2>2, <2>5 DEF Got1
    <3>2. w = 2 * rbuf.got + (x + 2)
      BY <1>1, <2>3, <3>1, DcacheAssumption
    <3> QED
      BY <1>10, <2>5, <3>2
  <2> QED
    BY <1>5, <1>11, <2>4, <2>5 DEF Beats1
<1> QED
  BY <1>9, <1>11

\* Every load goes on to read what it may return.
LEMMA EdgeLoads ==
  ASSUME NEW lsq, NEW flush, NEW rv, Edge(lsq, flush, rv)
  PROVE  LoadsGetTheirs'
<1>1. (\A x, w \in CWords : mshr.reqs[x] # Nil /\ ~mshr.obsolete /\ w = 2 * rbuf.got + x =>
         /\ w \notin mshr.wmask /\ Coming(w) \subseteq goal[mshr.reqs[x]]
         /\ \E v \in 0 .. writes : DataWord(mshr.line, w, v) \in goal[mshr.reqs[x]])'
  BY EdgeReqs
<1> QED
  BY <1>1, EdgeStage0, EdgeStage1, EdgeStage2 DEF LoadsGetTheirs

-----------------------------------------------------------------------------
(* The invariant, and what it shows *)

\* All parts together.
LEMMA EdgeInv ==
  ASSUME NEW lsq, NEW flush, NEW rv, Edge(lsq, flush, rv)
  PROVE  DcInv'
<1>1. WaysAreGood'
  BY EdgeWays, EdgeFill DEF WaysAreGood
<1> QED
  BY <1>1, EdgeType, EdgeServed, EdgeRequests, EdgeLines, EdgeMask, EdgeMemory, EdgePlaces,
     EdgeBuffer, EdgeLoads DEF DcInv

\* An edge has one of the three kinds of inputs.
LEMMA ClockIsEdge ==
  ASSUME DcInv, dcfault = {}, dcfault' = {}, CacheClock
  PROVE  \E lsq, flush, rv : Edge(lsq, flush, rv)
<1>1. PICK rv \in (IF resp = Nil THEN {FALSE} ELSE BOOLEAN) :
        \/ CacheEdge(Nil, FALSE, rv)
        \/ CacheEdge(Nil, TRUE, rv)
        \/ /\ ~S0Stall(rv) /\ inv = Nil
           /\ \E lsq \in Asks : CacheEdge(lsq, FALSE, rv)
  BY DEF CacheClock
<1>2. rv \in BOOLEAN /\ (rv => resp # Nil)
  BY <1>1
<1>3. CASE CacheEdge(Nil, FALSE, rv)
  <2>1. Edge(Nil, FALSE, rv)
    BY <1>2, <1>3 DEF Edge
  <2> QED
    BY <2>1
<1>4. CASE CacheEdge(Nil, TRUE, rv)
  <2>1. Edge(Nil, TRUE, rv)
    BY <1>2, <1>4 DEF Edge
  <2> QED
    BY <2>1
<1>5. ASSUME ~S0Stall(rv), inv = Nil, NEW lsq \in Asks, CacheEdge(lsq, FALSE, rv)
      PROVE  \E q, flush, r : Edge(q, flush, r)
  <2>1. Edge(lsq, FALSE, rv)
    BY <1>2, <1>5 DEF Edge
  <2> QED
    BY <2>1
<1> QED
  BY <1>1, <1>3, <1>4, <1>5

\* Every step keeps the invariant.
LEMMA DcStepInv == DcInv /\ [DcNext]_allDc => DcInv'
<1> SUFFICES ASSUME DcInv, [DcNext]_allDc, dcfault' = {} PROVE DcInv'
  BY DEF DcInv
<1>1. dcfault = {}
  <2>1. dcfault \subseteq dcfault'
    BY DEF DcNext, CacheClock, CacheEdge, L2Takes, OtherWrites, dcHist, allDc
  <2> QED
    BY <2>1
<1>2. CASE CacheClock
  BY <1>1, <1>2, ClockIsEdge, EdgeInv
<1>3. CASE L2Takes
  BY <1>1, <1>3, TakesInv
<1>4. CASE OtherWrites
  BY <1>1, <1>4, OtherInv
<1>5. CASE UNCHANGED allDc
  <2>1. /\ UNCHANGED <<s0, s1, s1w, s2, tagmem, datamem>>
        /\ UNCHANGED <<mshr, rbuf, l2q, l2mem, resp, inv, writes, seen, goal>>
    BY <1>5 DEF allDc, dcVars, l2Vars, dcHist
  <2>2. DcTypeOK' = DcTypeOK
    BY <2>1 DEF DcTypeOK, Is
  <2>3. MissIsServed' = MissIsServed
    BY <2>1 DEF MissIsServed, InFifo
  <2>4. RequestsFit' = RequestsFit
    BY <2>1 DEF RequestsFit
  <2>5. LinesAreOnce' = LinesAreOnce
    BY <2>1 DEF LinesAreOnce, Late
  <2>6. MaskIsOfStores' = MaskIsOfStores
    BY <2>1 DEF MaskIsOfStores, Is
  <2>7. MemoryIsSeen' = MemoryIsSeen
    BY <2>1 DEF MemoryIsSeen, Is, Newest, StoresTo
  <2>8. InvIsCurrent' = InvIsCurrent
    BY <2>1 DEF InvIsCurrent, Is
  <2>9. PlacesAreOne' = PlacesAreOne
    BY <2>1 DEF PlacesAreOne, InS0, InS1, InS2, InReqs, Is
  <2>10. WaysAreGood' = WaysAreGood
    BY <2>1 DEF WaysAreGood, Filling, Late, Good, Changing, Allowed, Kept, Lacks, Coming, Newest, StoresTo
  <2>11. BufferIsGood' = BufferIsGood
    BY <2>1 DEF BufferIsGood, Good, Changing, Allowed
  <2>12. LoadsGetTheirs' = LoadsGetTheirs
    BY <2>1 DEF LoadsGetTheirs, Is, Allowed, Coming, Newest, StoresTo
  <2> QED
    BY <1>1, <2>2, <2>3, <2>4, <2>5, <2>6, <2>7, <2>8, <2>9, <2>10, <2>11, <2>12 DEF DcInv
<1> QED
  BY <1>2, <1>3, <1>4, <1>5 DEF DcNext

\* The invariant holds in every behaviour without one of the five steps.
THEOREM DcInvariance == DcSpec => []DcInv
<1> QED
  BY DcInitInv, DcStepInv, PTL DEF DcSpec

\* An answer is a version of the word that the load may return: of the accesses before it,
\* and of the other masters' writes and invalidations since (dcache.v's stages 0 to 2).
THEOREM LoadsCoherent == DcSpec => []LoadsAreCoherent
<1>1. DcInv => LoadsAreCoherent
  BY DEF DcInv, LoadsGetTheirs, LoadsAreCoherent
<1> QED
  BY <1>1, DcInvariance, PTL

\* A load that is out is in one of the stages or in one request of the miss register, and
\* one that is not is nowhere.
THEOREM LoadsInOnePlace == DcSpec => []LoadsAreInOnePlace
<1>1. ASSUME DcInv, dcfault = {}, NEW i \in Ids
      PROVE  Cardinality(Places(i)) = IF goal[i] = {} THEN 0 ELSE 1
  <2>1. PlacesAreOne /\ DcTypeOK
    BY <1>1 DEF DcInv
  <2>2. /\ goal[i] # {} <=> InS0(i) \/ InS1(i) \/ InS2(i) \/ \E x \in CWords : InReqs(i, x)
        /\ InS0(i) => ~InS1(i) /\ ~InS2(i)
        /\ InS1(i) => ~InS2(i)
        /\ \A x \in CWords : InReqs(i, x) =>
             /\ ~InS0(i) /\ ~InS1(i) /\ ~InS2(i)
             /\ \A y \in CWords : InReqs(i, y) => x = y
    BY <2>1 DEF PlacesAreOne
  <2>3. CASE goal[i] = {}
    <3>1. Places(i) = {}
      BY <2>2, <2>3 DEF Places
    <3> QED
      BY <2>3, <3>1, FS_EmptySet
  <2>4. CASE goal[i] # {}
    <3>1. \E p : Places(i) = {p}
      <4>1. CASE InS0(i)
        <5>1. Places(i) = {"s0"}
          BY <2>2, <4>1 DEF Places
        <5> QED
          BY <5>1
      <4>2. CASE InS1(i)
        <5>1. Places(i) = {"s1"}
          BY <2>2, <4>2 DEF Places
        <5> QED
          BY <5>1
      <4>3. CASE InS2(i)
        <5>1. Places(i) = {"s2"}
          BY <2>2, <4>3 DEF Places
        <5> QED
          BY <5>1
      <4>4. CASE \E x \in CWords : InReqs(i, x)
        <5>1. PICK x \in CWords : InReqs(i, x)
          BY <4>4
        <5>2. Places(i) = {x}
          BY <2>2, <5>1 DEF Places
        <5> QED
          BY <5>2
      <4> QED
        BY <2>2, <2>4, <4>1, <4>2, <4>3, <4>4
    <3> QED
      BY <2>4, <3>1, FS_Singleton
  <2> QED
    BY <2>3, <2>4
<1>2. DcInv => LoadsAreInOnePlace
  BY <1>1 DEF LoadsAreInOnePlace
<1> QED
  BY <1>2, DcInvariance, PTL
=============================================================================
