----------------------------- MODULE LsqProofs -----------------------------
(***************************************************************************)
(* Why every load sees program order, for any number of entries and        *)
(* addresses.  An edge without a flush is reduced to what it does to the   *)
(* flags (LoadMoves, StoreMoves) and to program order (ProgMoves); the     *)
(* parts of the invariant follow from these one by one.                    *)
(***************************************************************************)
EXTENDS Lsq, CircPtrProofs, SequenceTheorems, WellFoundedInduction

-----------------------------------------------------------------------------
(* Choices *)

\* Among numbers there is a least one.
LEMMA LeastExists ==
  ASSUME NEW S, S \subseteq Nat, S # {}
  PROVE  \E i \in S : \A k \in S : i <= k
<1>1. PICK i \in S : \A k \in S : ~(<<k, i>> \in OpToRel(<, Nat))
  BY NatLessThanWellFounded, WFMin
<1>2. \A k \in S : ~(k < i)
  BY <1>1 DEF OpToRel
<1>3. QED
  BY <1>2

\* Among numbers up to n there is a greatest one.
LEMMA GreatestExists ==
  ASSUME NEW S, NEW n \in Nat, S \subseteq 0 .. n, S # {}
  PROVE  \E i \in S : \A k \in S : k <= i
<1> DEFINE T == {n - i : i \in S}
<1>1. T \subseteq Nat
  OBVIOUS
<1>2. T # {}
  <2>1. PICK s \in S : TRUE
    OBVIOUS
  <2>2. n - s \in T
    BY <2>1
  <2>3. QED
    BY <2>2
<1>3. PICK j \in T : \A k \in T : j <= k
  BY <1>1, <1>2, LeastExists
<1>4. PICK i \in S : j = n - i
  BY <1>3
<1>5. ASSUME NEW k \in S
      PROVE  k <= i
  <2>1. n - k \in T
    OBVIOUS
  <2>2. n - i <= n - k
    BY <2>1, <1>3, <1>4
  <2>3. QED
    BY <2>2
<1>6. QED
  BY <1>5

\* Entries are numbers.
LEMMA SlotsAreNumbers ==
  LSlots \subseteq Nat /\ None \notin LSlots /\ Slots \subseteq Nat /\ None \notin Slots
BY RingSize, LsqAssumption, SMT DEF LSlots, Slots, None

\* priarb.v grants the least request, and none only when there is none.
LEMMA GrantIsLeast ==
  ASSUME NEW req, req \subseteq Nat
  PROVE  /\ req = {} => Grant(req) = None
         /\ req # {} => Grant(req) \in req /\ Grant(req) # None
                        /\ \A k \in req : Grant(req) <= k
<1>1. req = {} => Grant(req) = None
  BY DEF Grant
<1>2. CASE req # {}
  <2>1. \E i \in req : \A k \in req : i <= k
    BY <1>2, LeastExists
  <2>2. Grant(req) \in req /\ \A k \in req : Grant(req) <= k
    BY <1>2, <2>1 DEF Grant
  <2>3. Grant(req) \in Nat
    BY <2>2
  <2>4. Grant(req) # None
    BY <2>3 DEF None
  <2>5. QED
    BY <2>2, <2>4, <1>2
<1>3. QED
  BY <1>1, <1>2

\* agemat.v chooses among the loads that may be sent.
LEMMA IssueSelIsReady ==
  LqIssueSel # None => LqIssueSel \in LqIssueReady
BY DEF LqIssueSel

\* What a word is after the stores of p: as it was, or as the last of them leaves it.
LEMMA AfterStoresIsLatest ==
  ASSUME NEW m, NEW p, NEW n \in Nat, DOMAIN p = 1 .. n, NEW a \in Addrs
  PROVE  /\ StoresTo(a, p) = {} => AfterStores(m, p)[a] = m[a]
         /\ StoresTo(a, p) # {} =>
              \E k \in StoresTo(a, p) : /\ \A l \in StoresTo(a, p) : l <= k
                                        /\ AfterStores(m, p)[a] = store[p[k][2]].val
<1>1. AfterStores(m, p)[a] = IF StoresTo(a, p) = {} THEN m[a]
                             ELSE store[p[Latest(StoresTo(a, p))][2]].val
  BY DEF AfterStores
<1>2. StoresTo(a, p) \subseteq 0 .. n
  BY DEF StoresTo
<1>3. CASE StoresTo(a, p) # {}
  <2>1. \E k \in StoresTo(a, p) : \A l \in StoresTo(a, p) : l <= k
    BY <1>2, <1>3, GreatestExists
  <2>2. /\ Latest(StoresTo(a, p)) \in StoresTo(a, p)
        /\ \A l \in StoresTo(a, p) : l <= Latest(StoresTo(a, p))
    BY <2>1 DEF Latest
  <2>3. QED
    BY <1>1, <1>3, <2>2
<1>4. QED
  BY <1>1, <1>3

-----------------------------------------------------------------------------
(* Program order *)

Instr == Events \ {Done}

\* q is what is left of p without the instructions in gone and with those in new.
OrderMoves(p, q, gone, new) ==
  \A e, f \in Instr :
    /\ Held(q, e) <=> (Held(p, e) /\ e \notin gone) \/ e \in new
    /\ Before(q, e, f) <=> \/ Before(p, e, f) /\ e \notin gone /\ f \notin gone
                           \/ Held(p, e) /\ e \notin gone /\ f \in new

\* Retirement of the oldest.
LEMMA OldestLeaves ==
  ASSUME NEW p \in Seq(Events), p # << >>, p[1] # Done,
         \A e \in Instr : ~Before(p, e, e)
  PROVE  Tail(p) \in Seq(Events) /\ OrderMoves(p, Tail(p), {p[1]}, {})
<1> DEFINE q == Tail(p)
           l == Len(p)
<1>1. /\ q \in Seq(Events) /\ l \in Nat /\ l # 0 /\ DOMAIN p = 1 .. l /\ DOMAIN q = 1 .. l - 1
      /\ \A n \in 1 .. l - 1 : q[n] = p[n + 1]
  BY HeadTailProperties
<1>2. p[1] \in Instr
  BY <1>1 DEF Instr
<1>3. \A n \in 2 .. l : p[n] # p[1]
  BY <1>1, <1>2 DEF Before
<1> HIDE DEF q, l
<1>4. ASSUME NEW e \in Instr
      PROVE  Held(q, e) <=> Held(p, e) /\ e # p[1]
  <2>1. Held(q, e) => Held(p, e) /\ e # p[1]
    BY <1>1, <1>3, SMT DEF Held
  <2>2. ASSUME NEW n \in 1 .. l, p[n] = e, e # p[1]
        PROVE  n - 1 \in DOMAIN q /\ q[n - 1] = e
    BY <1>1, <2>2, SMT
  <2>3. QED
    BY <2>1, <2>2, <1>1 DEF Held
<1>5. ASSUME NEW e \in Instr, NEW f \in Instr
      PROVE  Before(q, e, f) <=> Before(p, e, f) /\ e # p[1] /\ f # p[1]
  <2>1. ASSUME NEW n \in 1 .. l - 1, NEW k \in 1 .. l - 1, n < k, q[n] = e, q[k] = f
        PROVE  Before(p, e, f) /\ e # p[1] /\ f # p[1]
    <3>1. n + 1 \in 2 .. l /\ k + 1 \in 2 .. l /\ n + 1 < k + 1
      BY <1>1, <2>1
    <3>2. p[n + 1] = e /\ p[k + 1] = f
      BY <1>1, <2>1
    <3>3. QED
      BY <3>1, <3>2, <1>1, <1>3 DEF Before
  <2>2. ASSUME NEW n \in 1 .. l, NEW k \in 1 .. l, n < k, p[n] = e, p[k] = f,
               e # p[1], f # p[1]
        PROVE  Before(q, e, f)
    <3>1. n - 1 \in 1 .. l - 1 /\ k - 1 \in 1 .. l - 1 /\ n - 1 < k - 1
      BY <1>1, <2>2, SMT
    <3>2. q[n - 1] = e /\ q[k - 1] = f
      BY <3>1, <1>1, <2>2
    <3>3. QED
      BY <3>1, <3>2, <1>1 DEF Before
  <2>3. QED
    BY <2>1, <2>2, <1>1 DEF Before
<1>6. QED
  BY <1>1, <1>4, <1>5 DEF OrderMoves, q

\* A load leaves its queue and is done.
LEMMA LoadIsDone ==
  ASSUME NEW p \in Seq(Events), NEW gone \in SUBSET Instr, NEW q,
         q = [n \in DOMAIN p |-> IF p[n] \in gone THEN Done ELSE p[n]]
  PROVE  q \in Seq(Events) /\ OrderMoves(p, q, gone, {})
<1>1. Len(p) \in Nat /\ DOMAIN p = 1 .. Len(p) /\ \A n \in DOMAIN p : p[n] \in Events
  OBVIOUS
<1>2. Done \in Events
  BY DEF Events
<1>3. q \in [1 .. Len(p) -> Events]
  BY <1>1, <1>2
<1>4. q \in Seq(Events)
  BY <1>1, <1>3, SMT
<1>5. DOMAIN q = DOMAIN p
  OBVIOUS
<1>6. \A n \in DOMAIN p, e \in Instr : q[n] = e <=> p[n] = e /\ e \notin gone
  BY DEF Instr
<1> HIDE DEF Held, Before
<1>7. ASSUME NEW e \in Instr, NEW f \in Instr
      PROVE  /\ Held(q, e) <=> Held(p, e) /\ e \notin gone
             /\ Before(q, e, f) <=> Before(p, e, f) /\ e \notin gone /\ f \notin gone
  BY <1>5, <1>6 DEF Held, Before
<1>8. QED
  BY <1>4, <1>7 DEF OrderMoves

\* What is done retires once it is the oldest.
LEMMA DoneRetires ==
  ASSUME NEW p \in Seq(Events)
  PROVE  RetireDone(p) \in Seq(Events) /\ OrderMoves(p, RetireDone(p), {}, {})
<1> DEFINE live == {n \in DOMAIN p : p[n] # Done}
           q == RetireDone(p)
           l == Len(p)
           d == Grant(live)
<1>1. l \in Nat /\ DOMAIN p = 1 .. l /\ \A n \in DOMAIN p : p[n] \in Events
  OBVIOUS
<1>2. q = IF live = {} THEN << >> ELSE SubSeq(p, d, l)
  BY DEF RetireDone
<1>3. live \subseteq Nat
  BY <1>1
<1>4. CASE live = {}
  <2>1. q = << >>
    BY <1>2, <1>4
  <2>2. \A e \in Instr : ~Held(p, e) /\ ~Held(q, e)
    BY <2>1, <1>4 DEF Held, Instr
  <2>3. \A e, f \in Instr : ~Before(p, e, f) /\ ~Before(q, e, f)
    BY <2>2 DEF Before, Held
  <2>4. QED
    BY <2>1, <2>2, <2>3 DEF OrderMoves
<1>5. CASE live # {}
  <2>1. d \in live /\ \A n \in live : d <= n
    BY <1>3, <1>5, GrantIsLeast
  <2>2. d \in 1 .. l
    BY <2>1, <1>1
  <2>3. q = SubSeq(p, d, l)
    BY <1>2, <1>5
  <2> HIDE DEF q, d, l
  <2>4. q = [n \in 1 .. l - d + 1 |-> p[d + n - 1]]
    BY <2>2, <2>3, <1>1, SMT
  <2>5. q \in Seq(Events)
    BY <2>2, <2>3, <1>1, SubSeqProperties DEF l
  <2>6. DOMAIN q = 1 .. l - d + 1
    BY <2>4
  <2>7. ASSUME NEW n \in 1 .. l, p[n] # Done
        PROVE  n - d + 1 \in DOMAIN q /\ q[n - d + 1] = p[n]
    <3>1. d <= n
      BY <2>1, <2>7, <1>1
    <3>2. n - d + 1 \in 1 .. l - d + 1 /\ d + (n - d + 1) - 1 = n
      BY <3>1, <2>2, <1>1
    <3>3. QED
      BY <3>2, <2>4
  <2>8. ASSUME NEW n \in DOMAIN q
        PROVE  d + n - 1 \in DOMAIN p /\ p[d + n - 1] = q[n]
    BY <2>2, <2>4, <1>1
  <2>9. ASSUME NEW e \in Instr
        PROVE  Held(q, e) <=> Held(p, e)
    BY <2>7, <2>8, <1>1 DEF Held, Instr
  <2>10. ASSUME NEW e \in Instr, NEW f \in Instr
         PROVE  Before(q, e, f) <=> Before(p, e, f)
    <3>1. ASSUME NEW n \in DOMAIN q, NEW k \in DOMAIN q, n < k, q[n] = e, q[k] = f
          PROVE  Before(p, e, f)
      <4>1. d + n - 1 < d + k - 1
        BY <3>1, <2>6, <2>2, <1>1
      <4>2. QED
        BY <4>1, <3>1, <2>8 DEF Before
    <3>2. ASSUME NEW n \in 1 .. l, NEW k \in 1 .. l, n < k, p[n] = e, p[k] = f
          PROVE  Before(q, e, f)
      <4>1. n - d + 1 < k - d + 1
        BY <3>2, <2>2, <1>1
      <4>2. p[n] # Done /\ p[k] # Done
        BY <3>2 DEF Instr
      <4>3. QED
        BY <4>1, <4>2, <3>2, <2>7 DEF Before
    <3>3. QED
      BY <3>1, <3>2, <1>1 DEF Before
  <2>11. QED
    BY <2>5, <2>9, <2>10 DEF OrderMoves, q
<1>6. QED
  BY <1>4, <1>5

\* Dispatch of the youngest.
LEMMA YoungestComes ==
  ASSUME NEW p \in Seq(Events), NEW x \in Instr
  PROVE  Append(p, x) \in Seq(Events) /\ OrderMoves(p, Append(p, x), {}, {x})
<1> DEFINE q == Append(p, x)
           l == Len(p)
<1>1. x \in Events /\ l \in Nat /\ DOMAIN p = 1 .. l
  BY DEF Instr
<1>2. /\ q \in Seq(Events) /\ DOMAIN q = 1 .. l + 1
      /\ \A n \in 1 .. l : q[n] = p[n]
      /\ q[l + 1] = x
  BY <1>1, AppendProperties
<1> HIDE DEF q, l
<1>3. \A n \in DOMAIN q : n \in DOMAIN p \/ n = l + 1
  BY <1>1, <1>2
<1>4. \A n \in DOMAIN p : n \in DOMAIN q /\ q[n] = p[n] /\ n < l + 1
  BY <1>1, <1>2
<1>5. l + 1 \in DOMAIN q
  BY <1>1, <1>2
<1>6. \A e \in Instr : Held(q, e) <=> Held(p, e) \/ e = x
  BY <1>2, <1>3, <1>4, <1>5 DEF Held
<1>7. ASSUME NEW e \in Instr, NEW f \in Instr
      PROVE  Before(q, e, f) <=> Before(p, e, f) \/ (Held(p, e) /\ f = x)
  <2>1. ASSUME NEW n \in DOMAIN q, NEW k \in DOMAIN q, n < k, q[n] = e, q[k] = f
        PROVE  Before(p, e, f) \/ (Held(p, e) /\ f = x)
    <3>1. n # l + 1
      BY <2>1, <1>1, <1>2
    <3>2. n \in DOMAIN p /\ p[n] = e
      BY <3>1, <2>1, <1>3, <1>4
    <3>3. CASE k = l + 1
      BY <3>2, <3>3, <2>1, <1>2 DEF Held
    <3>4. CASE k # l + 1
      BY <3>2, <3>4, <2>1, <1>3, <1>4 DEF Before
    <3>5. QED
      BY <3>3, <3>4
  <2>2. Before(p, e, f) => Before(q, e, f)
    BY <1>4 DEF Before
  <2>3. Held(p, e) /\ f = x => Before(q, e, f)
    BY <1>2, <1>4, <1>5 DEF Before, Held
  <2>4. QED
    BY <2>1, <2>2, <2>3 DEF Before
<1>8. QED
  BY <1>2, <1>6, <1>7 DEF OrderMoves, q

\* One after the other.
LEMMA OrderComposes ==
  ASSUME NEW p, NEW q, NEW r, NEW g1, NEW g2, NEW new,
         OrderMoves(p, q, g1, {}), OrderMoves(q, r, g2, new)
  PROVE  OrderMoves(p, r, g1 \cup g2, new)
BY DEF OrderMoves

-----------------------------------------------------------------------------
(* What an edge without a flush does *)

Ordinary(op, woken, ret, ready, ans, wbok) ==
  /\ op \in Offers /\ ret \in {FALSE, CanRetire}
  /\ ready \in BOOLEAN /\ wbok \in BOOLEAN /\ ans \in Answering
  /\ LsqEdge(op, woken, ret, FALSE, ready, ans, wbok)

\* What rename offers.
LEMMA OfferKinds ==
  ASSUME NEW op \in Offers
  PROVE  /\ IsLoad(op) \in BOOLEAN /\ IsStore(op) \in BOOLEAN
         /\ ~(IsLoad(op) /\ IsStore(op))
         /\ IsLoad(op) => op.what \in Loads
         /\ IsStore(op) => op.what \in Stores
         /\ empty => ~IsLoad(op) /\ ~IsStore(op)
<1>1. CASE op = NoOp
  BY <1>1 DEF NoOp, IsLoad, IsStore
<1>2. CASE ~empty /\ op \in NewLoads
  <2>1. NewWidths \subseteq Widths
    BY DEF NewWidths
  <2>2. op.kind = "load" /\ op.what \in Loads
    BY <1>2, <2>1 DEF NewLoads, Loads
  <2>3. QED
    BY <1>2, <2>2 DEF IsLoad, IsStore
<1>3. CASE ~empty /\ op \in NewStores
  <2>1. op.kind = "store" /\ op.what \in Stores
    BY <1>3 DEF NewStores
  <2>2. QED
    BY <1>3, <2>1 DEF IsLoad, IsStore
<1>4. QED
  BY <1>1, <1>2, <1>3 DEF Offers

\* The flags of the load queue: an entry is filled (new), leaves (out), gets its
\* address (gen), is sent to the cache (sent) or answered (got).
LoadFlags(new, out, gen, sent, got) ==
  /\ new \subseteq LSlots \ lvalid
  /\ out \subseteq lvalid \cap lcomplete
  /\ gen \subseteq (lvalid \cap lbase) \ laddr
  /\ sent \subseteq LqIssueReady /\ \A i \in sent : ~LqSqHit(i)
  /\ got \subseteq Outstanding
  /\ lvalid' = (lvalid \ out) \cup new
  /\ lvalid \cap lbase \subseteq lbase'
  /\ lvalid' \cap laddr' = lvalid' \cap ((laddr \ new) \cup gen)
  /\ lissued' = (lissued \ new) \cup sent
  /\ lcomplete' = (lcomplete \ new) \cup got
  /\ lsel' \in ((lvalid \cap lbase) \ (laddr \cup gen)) \cup {None}

\* Its entries.
LoadData(new, gen, sent, got, what) ==
  /\ new # {} => what \in Loads
  /\ load' \in [LSlots -> Loads \cup {NoLoad}]
  /\ \A i \in lvalid' \ new :
       /\ load'[i] = load[i] /\ goal'[i] = goal[i]
       /\ lhw'[i] = IF i \in gen THEN load[i].addr ELSE lhw[i]
       /\ ldata'[i] = IF i \in got THEN asked[i] ELSE ldata[i]
  /\ \A i \in new : /\ load'[i] = what
                    /\ goal'[i] = Read(what.width, what.addr, AfterStores(arch, prog))
  /\ \A i \in LSlots :
       asked'[i] = IF i \in sent THEN Read(load[i].width, lhw[i], mem)
                   ELSE IF i \in got THEN NoAnswer ELSE asked[i]

\* The flags of the store ring: a slot is filled (new), its store retires (ret), gets
\* its address (gen) or goes to memory (out).
StoreFlags(new, ret, gen, out) ==
  /\ new \subseteq {Idx(tail)} /\ (new # {} => Dist(head, tail) < N)
  /\ ret \subseteq {Idx(mid)} /\ (ret # {} => mid # tail)
  /\ gen \subseteq (svalid \cap sbase) \ saddr
  /\ out \subseteq {Idx(head)} \cap svalid \cap saddr \cap sretired
  /\ head' = IF out = {} THEN head ELSE Inc(head)
  /\ mid'  = IF ret = {} THEN mid ELSE Inc(mid)
  /\ tail' = IF new = {} THEN tail ELSE Inc(tail)
  /\ svalid' = (svalid \ out) \cup new
  /\ svalid \cap sbase \subseteq sbase'
  /\ svalid' \cap saddr' = svalid' \cap ((saddr \ new) \cup gen)
  /\ sretired' = (sretired \ new) \cup ret
  /\ ssel' \in ((svalid \cap sbase) \ (saddr \cup gen)) \cup {None}

\* Its entries, and memory.
StoreData(new, ret, gen, out, what) ==
  /\ new # {} => what \in Stores
  /\ store' \in [Slots -> Stores \cup {NoStore}]
  /\ \A s \in svalid' \ new : /\ store'[s] = store[s]
                              /\ shw'[s] = IF s \in gen THEN store[s].addr ELSE shw[s]
  /\ \A s \in new : store'[s] = what
  /\ mem' = IF out = {} THEN mem
            ELSE [mem EXCEPT ![shw[Idx(head)]] = store[Idx(head)].val]
  /\ arch' = IF ret = {} THEN arch ELSE Apply(arch, Idx(mid))

\* The age matrices.
AgesMove(newl, news) ==
  \A i \in LSlots :
    /\ \A k \in LSlots : <<k, i>> \in younger' <=> \/ <<k, i>> \in younger /\ k \notin newl
                                                   \/ i \in newl /\ k # i
    /\ \A s \in Slots : <<i, s>> \in older' <=> \/ <<i, s>> \in older /\ s \notin news
                                                \/ i \in newl

\* Program order.
ProgMoves(newl, outl, news, ret) ==
  /\ prog' \in Seq(Events)
  /\ ret # {} => prog # << >> /\ prog[1] = <<"store", Idx(mid)>>
  /\ OrderMoves(prog, prog', ({"load"} \X outl) \cup ({"store"} \X ret),
                ({"load"} \X newl) \cup ({"store"} \X news))

\* The store that retires is the oldest one that has not.
LEMMA OldestRetires ==
  ASSUME LsqInv, OldestIsStore
  PROVE  mid # tail /\ prog # << >> /\ prog[1] = <<"store", Idx(mid)>>
<1>1. /\ head \in Ptrs /\ mid \in Ptrs /\ tail \in Ptrs /\ prog \in Seq(Events)
      /\ prog # << >> /\ prog[1][1] = "store"
  BY DEF LsqInv, LsqTypeOK, OldestIsStore
<1>2. 1 \in DOMAIN prog /\ prog[1] \in Events
  BY <1>1
<1>3. PICK s \in Slots : prog[1] = <<"store", s>>
  BY <1>1, <1>2 DEF Events, Done
<1>4. Held(prog, <<"store", s>>)
  BY <1>2, <1>3 DEF Held
<1>5. s \in Live(mid, tail)
  BY <1>4 DEF LsqInv, QueuesFollow
<1>6. mid # tail
  BY <1>1, <1>5, EmptyRing
<1>7. Dist(head, mid) \in Nat /\ Dist(mid, tail) \in Nat /\ Dist(mid, tail) <= N
  <2>1. Dist(head, mid) \in Nat /\ Dist(mid, tail) \in Nat /\ Dist(head, tail) \in Nat
    BY <1>1, DistanceType, RingSize
  <2>2. QED
    BY <2>1, RingSize DEF LsqInv, StoreRing
<1>8. Idx(mid) \in Live(mid, tail) /\ Idx(mid) \in Slots
  BY <1>1, <1>6, <1>7, TakeOldest, PointerTypes
<1>9. PICK n \in DOMAIN prog : prog[n] = <<"store", Idx(mid)>>
  BY <1>8 DEF LsqInv, QueuesFollow, Held
<1>10. CASE n = 1
  BY <1>1, <1>6, <1>9, <1>10
<1>11. CASE n # 1
  <2>1. 1 < n
    BY <1>1, <1>11
  <2>2. Before(prog, <<"store", s>>, <<"store", Idx(mid)>>)
    BY <2>1, <1>2, <1>3, <1>9 DEF Before
  <2>3. Age(mid, s) < Age(mid, Idx(mid))
    BY <2>2, <1>8 DEF LsqInv, QueuesFollow
  <2>4. Age(mid, s) \in 0 .. N - 1 /\ Age(mid, Idx(mid)) = 0
    BY <1>1, <1>7, AgeOrder
  <2>5. QED
    BY <2>3, <2>4, RingSize
<1>12. QED
  BY <1>10, <1>11

\* Sets of at most one slot.
One(slot, b) == IF b THEN {slot} ELSE {}

\* The history of an edge without a flush.
LEMMA ProgramMoves ==
  ASSUME LsqInv, NEW op, NEW woken, NEW ret, NEW ready, NEW ans, NEW wbok,
         Ordinary(op, woken, ret, ready, ans, wbok)
  PROVE  ProgMoves(One(LqInsertSel, LqInsert(op)),
                   One(LqRemoveSel, LqRemoveSel # None /\ wbok),
                   One(Idx(tail), SqInsert(op)), One(Idx(mid), ret))
<1> DEFINE done(e) == IF wbok /\ e = <<"load", LqRemoveSel>> THEN Done ELSE e
           rest == IF ret THEN Tail(prog) ELSE prog
           marked == [n \in DOMAIN rest |-> done(rest[n])]
           left == RetireDone(marked)
           outl == One(LqRemoveSel, LqRemoveSel # None /\ wbok)
           rets == One(Idx(mid), ret)
           gl == {"load"} \X outl
           gs == {"store"} \X rets
           newl == One(LqInsertSel, LqInsert(op))
           news == One(Idx(tail), SqInsert(op))
<1>1. /\ prog \in Seq(Events) /\ tail \in Ptrs /\ lvalid \subseteq LSlots
      /\ \A e \in Instr : ~Before(prog, e, e)
  BY DEF LsqInv, LsqTypeOK, QueuesFollow, Instr
<1>2. /\ op \in Offers /\ ret \in BOOLEAN /\ wbok \in BOOLEAN
      /\ History(op, ret, FALSE, wbok)
      /\ ret => OldestIsStore
  BY DEF Ordinary, LsqEdge, CanRetire
<1>3. /\ rest \in Seq(Events)
      /\ OrderMoves(prog, rest, gs, {})
      /\ ret => prog # << >> /\ prog[1] = <<"store", Idx(mid)>>
  <2>1. CASE ret
    <3>1. prog # << >> /\ prog[1] = <<"store", Idx(mid)>>
      BY <2>1, <1>2, OldestRetires
    <3>2. prog[1] # Done
      BY <3>1 DEF Done
    <3>3. gs = {prog[1]}
      BY <2>1, <3>1 DEF One
    <3>4. QED
      BY <2>1, <3>1, <3>2, <3>3, <1>1, OldestLeaves
  <2>2. CASE ~ret
    BY <2>2, <1>1 DEF OrderMoves, One
  <2>3. QED
    BY <2>1, <2>2, <1>2
<1>4. /\ marked \in Seq(Events)
      /\ OrderMoves(rest, marked, gl, {})
  <2>1. lvalid \cap lcomplete \subseteq LSlots /\ lvalid \cap lcomplete \subseteq Nat
    BY <1>1, SlotsAreNumbers
  <2>2. LqRemoveSel # None => LqRemoveSel \in LSlots
    BY <2>1, GrantIsLeast DEF LqRemoveSel
  <2>3. gl \in SUBSET Instr
    BY <2>2 DEF One, Instr, Events, Done
  <2>4. \A n \in DOMAIN rest : rest[n] \in Events
    BY <1>3
  <2>5. None \notin LSlots
    BY SlotsAreNumbers
  <2>6. \A e \in Events : done(e) = IF e \in gl THEN Done ELSE e
    <3>1. CASE LqRemoveSel = None
      <4>1. <<"load", None>> \notin Events
        BY <2>5 DEF Events, Done
      <4>2. QED
        BY <3>1, <4>1 DEF One
    <3>2. CASE LqRemoveSel # None
      BY <3>2, <1>2 DEF One
    <3>3. QED
      BY <3>1, <3>2
  <2> HIDE DEF gl, rest, done
  <2>7. marked = [n \in DOMAIN rest |-> IF rest[n] \in gl THEN Done ELSE rest[n]]
    BY <2>4, <2>6
  <2>8. QED
    BY <2>3, <2>7, <1>3, LoadIsDone
<1> HIDE DEF rest, marked, gl, gs, done
<1>5. left \in Seq(Events) /\ OrderMoves(marked, left, {}, {})
  BY <1>4, DoneRetires
<1>6. OrderMoves(prog, left, gl \cup gs, {})
  <2>1. OrderMoves(prog, marked, gs \cup gl, {})
    BY <1>3, <1>4, OrderComposes
  <2>2. OrderMoves(prog, left, (gs \cup gl) \cup {}, {})
    BY <2>1, <1>5, OrderComposes
  <2>3. (gs \cup gl) \cup {} = gl \cup gs
    OBVIOUS
  <2>4. QED
    BY <2>2, <2>3
<1> HIDE DEF left
<1>7. prog' = IF LqInsert(op) THEN Append(left, <<"load", LqInsertSel>>)
              ELSE IF SqInsert(op) THEN Append(left, <<"store", Idx(tail)>>)
              ELSE left
  BY <1>2 DEF History, left, marked, rest, done
<1>8. ASSUME NEW x \in Instr, prog' = Append(left, x)
      PROVE  prog' \in Seq(Events) /\ OrderMoves(prog, prog', gl \cup gs, {x})
  <2>1. Append(left, x) \in Seq(Events) /\ OrderMoves(left, Append(left, x), {}, {x})
    BY <1>5, YoungestComes
  <2>2. OrderMoves(prog, Append(left, x), (gl \cup gs) \cup {}, {x})
    BY <1>6, <2>1, OrderComposes
  <2>3. (gl \cup gs) \cup {} = gl \cup gs
    OBVIOUS
  <2>4. QED
    BY <1>8, <2>1, <2>2, <2>3
<1>9. LqInsert(op) => LqInsertSel \in LSlots
  <2>1. LSlots \ lvalid \subseteq Nat
    BY SlotsAreNumbers
  <2>2. QED
    BY <2>1, GrantIsLeast DEF LqInsert, LqInsertSel
<1>10. Idx(tail) \in Slots
  BY <1>1, PointerTypes
<1>11. /\ prog' \in Seq(Events)
       /\ OrderMoves(prog, prog', gl \cup gs, ({"load"} \X newl) \cup ({"store"} \X news))
  <2>1. LqInsert(op) => ~SqInsert(op)
    BY <1>2, OfferKinds DEF LqInsert, SqInsert
  <2>2. CASE LqInsert(op)
    <3>1. ({"load"} \X newl) \cup ({"store"} \X news) = {<<"load", LqInsertSel>>}
      BY <2>1, <2>2 DEF One
    <3>2. <<"load", LqInsertSel>> \in Instr
      BY <2>2, <1>9 DEF Instr, Events, Done
    <3>3. QED
      BY <2>2, <3>1, <3>2, <1>7, <1>8
  <2>3. CASE ~LqInsert(op) /\ SqInsert(op)
    <3>1. ({"load"} \X newl) \cup ({"store"} \X news) = {<<"store", Idx(tail)>>}
      BY <2>3 DEF One
    <3>2. <<"store", Idx(tail)>> \in Instr
      BY <1>10 DEF Instr, Events, Done
    <3>3. QED
      BY <2>3, <3>1, <3>2, <1>7, <1>8
  <2>4. CASE ~LqInsert(op) /\ ~SqInsert(op)
    <3>1. ({"load"} \X newl) \cup ({"store"} \X news) = {}
      BY <2>4 DEF One
    <3>2. QED
      BY <2>4, <3>1, <1>5, <1>6, <1>7
  <2>5. QED
    BY <2>2, <2>3, <2>4
<1>12. rets # {} => ret
  BY DEF One
<1>13. QED
  BY <1>3, <1>11, <1>12 DEF ProgMoves, gl, gs

\* The loads that an edge without a flush sends, answers and gives their addresses.
Sent(ready) == One(LqIssueSel, LqIssueBeat(FALSE, ready))
Got(ans)    == One(ans, ans # None)
LoadGen     == One(lsel, lsel \in lvalid)
StoreGen    == One(ssel, ssel \in svalid)
NewLoad(op) == One(LqInsertSel, LqInsert(op))
OutLoad(wbok) == One(LqRemoveSel, LqRemoveSel # None /\ wbok)
NewStore(op)  == One(Idx(tail), SqInsert(op))
OutStore(ready) == One(Idx(head), SqIssueBeat(FALSE, ready))
RetStore(ret) == One(Idx(mid), ret)

\* The slots that the arbiters choose.
LEMMA LoadChoices ==
  ASSUME LsqInv, NEW op, NEW woken, NEW ret, NEW ready, NEW ans, NEW wbok,
         Ordinary(op, woken, ret, ready, ans, wbok)
  PROVE  /\ NewLoad(op) \subseteq LSlots \ lvalid
         /\ OutLoad(wbok) \subseteq lvalid \cap lcomplete
         /\ LoadGen \subseteq (lvalid \cap lbase) \ laddr
         /\ Sent(ready) \subseteq LqIssueReady /\ \A i \in Sent(ready) : ~LqSqHit(i)
         /\ Got(ans) \subseteq Outstanding
         /\ lsel # None /\ lsel \notin lvalid => NewLoad(op) = {} /\ lvalid = {}
<1>1. lvalid \subseteq LSlots /\ LSlots \subseteq Nat
  BY SlotsAreNumbers DEF LsqInv, LsqTypeOK
<1>2. op \in Offers /\ ans \in Answering
  BY DEF Ordinary
<1>3. NewLoad(op) \subseteq LSlots \ lvalid
  <2>1. LqInsertSel # None => LqInsertSel \in LSlots \ lvalid
    BY <1>1, GrantIsLeast DEF LqInsertSel
  <2>2. QED
    BY <2>1 DEF NewLoad, One, LqInsert
<1>4. OutLoad(wbok) \subseteq lvalid \cap lcomplete
  <2>1. LqRemoveSel # None => LqRemoveSel \in lvalid \cap lcomplete
    BY <1>1, GrantIsLeast DEF LqRemoveSel
  <2>2. QED
    BY <2>1 DEF OutLoad, One
<1>5. /\ LoadGen \subseteq (lvalid \cap lbase) \ laddr
      /\ lsel # None /\ lsel \notin lvalid => NewLoad(op) = {} /\ lvalid = {}
  <2>1. None \notin lvalid
    BY <1>1, SlotsAreNumbers
  <2>2. lsel \in lvalid => lsel \in (lvalid \cap lbase) \ laddr
    BY <2>1 DEF LsqInv, ChosenWaits
  <2>3. lsel # None /\ lsel \notin lvalid => empty
    BY DEF LsqInv, ChosenWaits
  <2>4. empty => NewLoad(op) = {} /\ lvalid = {}
    BY <1>2, OfferKinds DEF LsqInv, ChosenWaits, NewLoad, One, LqInsert
  <2>5. QED
    BY <2>2, <2>3, <2>4 DEF LoadGen, One
<1>6. Sent(ready) \subseteq LqIssueReady /\ \A i \in Sent(ready) : ~LqSqHit(i)
  BY IssueSelIsReady DEF Sent, One, LqIssueBeat, LqIssueReq
<1>7. Got(ans) \subseteq Outstanding
  BY <1>2 DEF Answering, Got, One
<1>8. QED
  BY <1>3, <1>4, <1>5, <1>6, <1>7

\* The flags of the load queue.
LEMMA LoadFlagsMove ==
  ASSUME LsqInv, NEW op, NEW woken, NEW ret, NEW ready, NEW ans, NEW wbok,
         Ordinary(op, woken, ret, ready, ans, wbok)
  PROVE  LoadFlags(NewLoad(op), OutLoad(wbok), LoadGen, Sent(ready), Got(ans))
<1>1. /\ LoadQueue(op, woken, FALSE, ready, ans, wbok) /\ AddrGen
      /\ wbok \in BOOLEAN /\ lvalid \subseteq LSlots
  BY DEF Ordinary, LsqEdge, LsqInv, LsqTypeOK
<1>2. /\ NewLoad(op) \subseteq LSlots \ lvalid
      /\ OutLoad(wbok) \subseteq lvalid \cap lcomplete
      /\ LoadGen \subseteq (lvalid \cap lbase) \ laddr
      /\ Sent(ready) \subseteq LqIssueReady /\ \A i \in Sent(ready) : ~LqSqHit(i)
      /\ Got(ans) \subseteq Outstanding
      /\ lsel # None /\ lsel \notin lvalid => NewLoad(op) = {} /\ lvalid = {}
  BY LoadChoices
<1>3. lvalid' = (lvalid \ OutLoad(wbok)) \cup NewLoad(op)
  BY <1>1, <1>2 DEF LoadQueue, Flag, OutLoad, NewLoad, One
<1>4. lvalid \cap lbase \subseteq lbase'
  BY <1>1, <1>2 DEF LoadQueue, Flag, NewLoad, One
<1>5. lvalid' \cap laddr' = lvalid' \cap ((laddr \ NewLoad(op)) \cup LoadGen)
  <2>1. laddr' = (laddr \ NewLoad(op)) \cup One(lsel, lsel # None)
    BY <1>1 DEF LoadQueue, Flag, NewLoad, One
  <2>2. CASE lsel # None /\ lsel \notin lvalid
    BY <2>2, <1>2, <1>3
  <2>3. CASE lsel = None \/ lsel \in lvalid
    <3>1. None \notin lvalid
      BY <1>1, SlotsAreNumbers
    <3>2. One(lsel, lsel # None) = LoadGen
      BY <2>3, <3>1 DEF LoadGen, One
    <3>3. QED
      BY <2>1, <3>2
  <2>4. QED
    BY <2>2, <2>3
<1>6. lissued' = (lissued \ NewLoad(op)) \cup Sent(ready)
  BY <1>1 DEF LoadQueue, Flag, NewLoad, Sent, One
<1>7. lcomplete' = (lcomplete \ NewLoad(op)) \cup Got(ans)
  BY <1>1 DEF LoadQueue, Flag, NewLoad, Got, One
<1>8. lsel' \in ((lvalid \cap lbase) \ (laddr \cup LoadGen)) \cup {None}
  <2>1. lsel' = Grant((lvalid \cap lbase) \ (laddr \cup {lsel}))
    BY <1>1 DEF AddrGen
  <2>2. (lvalid \cap lbase) \ (laddr \cup {lsel}) \subseteq Nat
    BY <1>1, SlotsAreNumbers
  <2>3. lsel' \in ((lvalid \cap lbase) \ (laddr \cup {lsel})) \cup {None}
    BY <2>1, <2>2, GrantIsLeast
  <2>4. QED
    BY <2>3 DEF LoadGen, One
<1>9. QED
  BY <1>2, <1>3, <1>4, <1>5, <1>6, <1>7, <1>8 DEF LoadFlags

\* Its entries.
LEMMA LoadDataMoves ==
  ASSUME LsqInv, NEW op, NEW woken, NEW ret, NEW ready, NEW ans, NEW wbok,
         Ordinary(op, woken, ret, ready, ans, wbok)
  PROVE  LoadData(NewLoad(op), LoadGen, Sent(ready), Got(ans), op.what)
<1>1. /\ LoadQueue(op, woken, FALSE, ready, ans, wbok) /\ DataCache(FALSE, ready, ans)
      /\ History(op, ret, FALSE, wbok)
      /\ op \in Offers /\ lvalid \subseteq LSlots
      /\ load \in [LSlots -> Loads \cup {NoLoad}]
      /\ DOMAIN lhw = LSlots /\ DOMAIN ldata = LSlots
      /\ DOMAIN asked = LSlots /\ DOMAIN goal = LSlots
      /\ asked' = Put(Put(asked, ans, ans # None, NoAnswer), LqIssueSel,
                      LqIssueBeat(FALSE, ready),
                      Read(load[LqIssueSel].width, lhw[LqIssueSel], mem))
  BY DEF Ordinary, LsqEdge, LsqInv, LsqTypeOK, DataCache
<1>2. LoadFlags(NewLoad(op), OutLoad(wbok), LoadGen, Sent(ready), Got(ans))
  BY LoadFlagsMove
<1>3. /\ NewLoad(op) \subseteq LSlots \ lvalid /\ lvalid' \subseteq LSlots
      /\ LoadGen \subseteq lvalid \cap lbase
      /\ Sent(ready) \subseteq LqIssueReady /\ Got(ans) \subseteq Outstanding
      /\ Sent(ready) \cap Got(ans) = {}
      /\ Outstanding \subseteq lvalid /\ None \notin LSlots
      /\ lvalid' \ NewLoad(op) \subseteq lvalid
  <2>1. Outstanding \subseteq (lvalid \cap lissued) \ lcomplete
    BY DEF LsqInv, AskedFollow, Outstanding
  <2>2. QED
    BY <1>1, <1>2, <2>1, SlotsAreNumbers DEF LoadFlags, LqIssueReady
<1>4. NewLoad(op) # {} => op.what \in Loads
  BY <1>1, OfferKinds DEF NewLoad, One, LqInsert
<1>5. /\ load' = KeptLoads(Put(load, LqInsertSel, LqInsert(op), op.what), NoLoad)
      /\ goal' = KeptLoads(Put(goal, LqInsertSel, LqInsert(op),
                   Read(op.what.width, op.what.addr, AfterStores(arch, prog))), NoAnswer)
      /\ lhw' = KeptLoads(Put(Put(lhw, LqInsertSel, LqInsert(op), None), lsel, lsel # None,
                   IF lsel \in lbase THEN load[lsel].addr ELSE None), None)
      /\ ldata' = KeptLoads(Put(Put(ldata, LqInsertSel, LqInsert(op), NoAnswer), ans,
                   ans # None, asked[ans]), NoAnswer)
  <2>1. (LqInsert(op) /\ ~FALSE) = LqInsert(op) /\ (lsel # None /\ ~FALSE) = (lsel # None)
        /\ (ans # None /\ ~FALSE) = (ans # None)
    BY DEF LqInsert
  <2>2. load' = KeptLoads(Put(load, LqInsertSel, LqInsert(op), op.what), NoLoad)
    BY <1>1, <2>1 DEF LoadQueue
  <2>3. lhw' = KeptLoads(Put(Put(lhw, LqInsertSel, LqInsert(op), None), lsel, lsel # None,
                 IF lsel \in lbase THEN load[lsel].addr ELSE None), None)
    BY <1>1, <2>1 DEF LoadQueue
  <2>4. ldata' = KeptLoads(Put(Put(ldata, LqInsertSel, LqInsert(op), NoAnswer), ans,
                   ans # None, asked[ans]), NoAnswer)
    BY <1>1, <2>1 DEF LoadQueue
  <2>5. goal' = KeptLoads(Put(goal, LqInsertSel, LqInsert(op),
                  Read(op.what.width, op.what.addr, AfterStores(arch, prog))), NoAnswer)
    BY <1>1 DEF History
  <2>6. QED
    BY <2>2, <2>3, <2>4, <2>5
<1>6. ASSUME NEW i \in lvalid' \ NewLoad(op)
      PROVE  /\ i \in LSlots /\ i # None
             /\ ~(LqInsert(op) /\ i = LqInsertSel)
             /\ i \in LoadGen <=> i = lsel
             /\ i \in Got(ans) <=> i = ans
  BY <1>3 DEF NewLoad, LoadGen, Got, One
<1>7. ASSUME NEW i \in lvalid' \ NewLoad(op)
      PROVE  load'[i] = load[i] /\ goal'[i] = goal[i]
  BY <1>1, <1>5, <1>6 DEF KeptLoads, Put
<1>8. ASSUME NEW i \in lvalid' \ NewLoad(op)
      PROVE  lhw'[i] = IF i \in LoadGen THEN load[i].addr ELSE lhw[i]
  BY <1>1, <1>3, <1>5, <1>6 DEF KeptLoads, Put
<1>9. ASSUME NEW i \in lvalid' \ NewLoad(op)
      PROVE  ldata'[i] = IF i \in Got(ans) THEN asked[i] ELSE ldata[i]
  BY <1>1, <1>3, <1>5, <1>6 DEF KeptLoads, Put
<1>10. ASSUME NEW i \in NewLoad(op)
       PROVE  /\ load'[i] = op.what
              /\ goal'[i] = Read(op.what.width, op.what.addr, AfterStores(arch, prog))
  BY <1>1, <1>3, <1>5, <1>2 DEF KeptLoads, Put, NewLoad, One, LoadFlags
<1>11. ASSUME NEW i \in LSlots
       PROVE  asked'[i] = IF i \in Sent(ready) THEN Read(load[i].width, lhw[i], mem)
                          ELSE IF i \in Got(ans) THEN NoAnswer ELSE asked[i]
  BY <1>1, <1>3 DEF Put, Sent, Got, One
<1>12. load' \in [LSlots -> Loads \cup {NoLoad}]
  BY <1>1, <1>4, <1>5 DEF KeptLoads, Put, NewLoad, One
<1>13. QED
  BY <1>4, <1>7, <1>8, <1>9, <1>10, <1>11, <1>12 DEF LoadData

\* The slots of the store ring that change.
LEMMA StoreChoices ==
  ASSUME LsqInv, NEW op, NEW woken, NEW ret, NEW ready, NEW ans, NEW wbok,
         Ordinary(op, woken, ret, ready, ans, wbok)
  PROVE  /\ NewStore(op) \subseteq {Idx(tail)} /\ (NewStore(op) # {} => Dist(head, tail) < N)
         /\ RetStore(ret) \subseteq {Idx(mid)} /\ (RetStore(ret) # {} => mid # tail)
         /\ StoreGen \subseteq (svalid \cap sbase) \ saddr
         /\ OutStore(ready) \subseteq {Idx(head)} \cap svalid \cap saddr \cap sretired
         /\ ssel # None /\ ssel \notin svalid => NewStore(op) = {}
         /\ NewStore(op) \cap svalid = {}
<1>1. /\ head \in Ptrs /\ tail \in Ptrs /\ Dist(head, tail) <= N /\ Dist(head, tail) \in Nat
      /\ svalid = Live(head, tail) /\ svalid \subseteq Slots
  <2>1. head \in Ptrs /\ tail \in Ptrs /\ Dist(head, tail) <= N /\ svalid = Live(head, tail)
        /\ svalid \subseteq Slots
    BY DEF LsqInv, LsqTypeOK, StoreRing
  <2>2. QED
    BY <2>1, DistanceType, RingSize
<1>2. op \in Offers /\ (ret => OldestIsStore)
  BY DEF Ordinary, CanRetire
<1>3. /\ NewStore(op) \subseteq {Idx(tail)} /\ (NewStore(op) # {} => Dist(head, tail) < N)
      /\ NewStore(op) \cap svalid = {}
  <2>1. NewStore(op) # {} => ~IsFull(head, tail)
    BY DEF NewStore, One, SqInsert
  <2>2. NewStore(op) # {} => Dist(head, tail) < N
    BY <1>1, <2>1, FullMeansN, RingSize
  <2>3. NewStore(op) \cap svalid = {}
    BY <1>1, <2>2, PutYoungest DEF NewStore, One
  <2>4. QED
    BY <2>2, <2>3 DEF NewStore, One
<1>4. RetStore(ret) \subseteq {Idx(mid)} /\ (RetStore(ret) # {} => mid # tail)
  BY <1>2, OldestRetires DEF RetStore, One
<1>5. /\ StoreGen \subseteq (svalid \cap sbase) \ saddr
      /\ ssel # None /\ ssel \notin svalid => NewStore(op) = {}
  <2>1. None \notin svalid
    BY <1>1, SlotsAreNumbers
  <2>2. ssel \in svalid => ssel \in (svalid \cap sbase) \ saddr
    BY <2>1 DEF LsqInv, ChosenWaits
  <2>3. ssel # None /\ ssel \notin svalid => empty
    BY DEF LsqInv, ChosenWaits
  <2>4. empty => NewStore(op) = {}
    BY <1>2, OfferKinds DEF NewStore, One, SqInsert
  <2>5. QED
    BY <2>2, <2>3, <2>4 DEF StoreGen, One
<1>6. OutStore(ready) \subseteq {Idx(head)} \cap svalid \cap saddr \cap sretired
  BY DEF OutStore, One, SqIssueBeat, SqIssueReq
<1>7. QED
  BY <1>3, <1>4, <1>5, <1>6

\* The flags of the store ring.
LEMMA StoreFlagsMove ==
  ASSUME LsqInv, NEW op, NEW woken, NEW ret, NEW ready, NEW ans, NEW wbok,
         Ordinary(op, woken, ret, ready, ans, wbok)
  PROVE  StoreFlags(NewStore(op), RetStore(ret), StoreGen, OutStore(ready))
<1>1. /\ StoreQueue(op, woken, ret, FALSE, ready) /\ AddrGen
      /\ svalid \subseteq Slots /\ ret \in BOOLEAN
  BY DEF Ordinary, LsqEdge, LsqInv, LsqTypeOK, CanRetire
<1>2. /\ NewStore(op) \subseteq {Idx(tail)} /\ (NewStore(op) # {} => Dist(head, tail) < N)
      /\ RetStore(ret) \subseteq {Idx(mid)} /\ (RetStore(ret) # {} => mid # tail)
      /\ StoreGen \subseteq (svalid \cap sbase) \ saddr
      /\ OutStore(ready) \subseteq {Idx(head)} \cap svalid \cap saddr \cap sretired
      /\ ssel # None /\ ssel \notin svalid => NewStore(op) = {}
      /\ NewStore(op) \cap svalid = {}
  BY StoreChoices
<1>3. svalid' = (svalid \ OutStore(ready)) \cup NewStore(op)
  BY <1>1, <1>2 DEF StoreQueue, Flag, OutStore, NewStore, One
<1>4. svalid \cap sbase \subseteq sbase'
  BY <1>1, <1>2 DEF StoreQueue, Flag, NewStore, One
<1>5. svalid' \cap saddr' = svalid' \cap ((saddr \ NewStore(op)) \cup StoreGen)
  <2>1. saddr' = (saddr \ NewStore(op)) \cup One(ssel, ssel # None)
    BY <1>1 DEF StoreQueue, Flag, NewStore, One
  <2>2. CASE ssel # None /\ ssel \notin svalid
    <3>1. ssel \notin svalid'
      BY <2>2, <1>2, <1>3
    <3>2. One(ssel, ssel # None) \subseteq {ssel} /\ StoreGen \subseteq {ssel}
      BY DEF One, StoreGen
    <3>3. QED
      BY <2>1, <3>1, <3>2
  <2>3. CASE ssel = None \/ ssel \in svalid
    <3>1. None \notin svalid
      BY <1>1, SlotsAreNumbers
    <3>2. One(ssel, ssel # None) = StoreGen
      BY <2>3, <3>1 DEF StoreGen, One
    <3>3. QED
      BY <2>1, <3>2
  <2>4. QED
    BY <2>2, <2>3
<1>6. sretired' = (sretired \ NewStore(op)) \cup RetStore(ret)
  BY <1>1 DEF StoreQueue, Flag, NewStore, RetStore, One
<1>7. /\ head' = IF OutStore(ready) = {} THEN head ELSE Inc(head)
      /\ mid'  = IF RetStore(ret) = {} THEN mid ELSE Inc(mid)
      /\ tail' = IF NewStore(op) = {} THEN tail ELSE Inc(tail)
  BY <1>1 DEF StoreQueue, NewStore, OutStore, RetStore, One
<1>8. ssel' \in ((svalid \cap sbase) \ (saddr \cup StoreGen)) \cup {None}
  <2>1. ssel' = Grant((svalid \cap sbase) \ (saddr \cup {ssel}))
    BY <1>1 DEF AddrGen
  <2>2. (svalid \cap sbase) \ (saddr \cup {ssel}) \subseteq Nat
    BY <1>1, SlotsAreNumbers
  <2>3. ssel' \in ((svalid \cap sbase) \ (saddr \cup {ssel})) \cup {None}
    BY <2>1, <2>2, GrantIsLeast
  <2>4. QED
    BY <2>3 DEF StoreGen, One
<1>9. QED
  BY <1>2, <1>3, <1>4, <1>5, <1>6, <1>7, <1>8 DEF StoreFlags

\* Its entries, and memory.
LEMMA StoreDataMoves ==
  ASSUME LsqInv, NEW op, NEW woken, NEW ret, NEW ready, NEW ans, NEW wbok,
         Ordinary(op, woken, ret, ready, ans, wbok)
  PROVE  StoreData(NewStore(op), RetStore(ret), StoreGen, OutStore(ready), op.what)
<1>1. /\ StoreQueue(op, woken, ret, FALSE, ready) /\ DataCache(FALSE, ready, ans)
      /\ History(op, ret, FALSE, wbok) /\ ret \in BOOLEAN
      /\ op \in Offers /\ svalid \subseteq Slots /\ tail \in Ptrs
      /\ store \in [Slots -> Stores \cup {NoStore}] /\ DOMAIN shw = Slots
  BY DEF Ordinary, LsqEdge, LsqInv, LsqTypeOK, CanRetire
<1>2. StoreFlags(NewStore(op), RetStore(ret), StoreGen, OutStore(ready))
  BY StoreFlagsMove
<1>3. /\ NewStore(op) \subseteq {Idx(tail)} /\ Idx(tail) \in Slots
      /\ StoreGen \subseteq svalid \cap sbase
      /\ svalid' \ NewStore(op) \subseteq svalid /\ None \notin svalid
      /\ NewStore(op) \subseteq svalid'
  BY <1>1, <1>2, PointerTypes, SlotsAreNumbers DEF StoreFlags
<1>4. NewStore(op) # {} => op.what \in Stores
  BY <1>1, OfferKinds DEF NewStore, One, SqInsert
<1>5. /\ store' = KeptStores(Put(store, Idx(tail), SqInsert(op), op.what), NoStore)
      /\ shw' = KeptStores(Put(Put(shw, Idx(tail), SqInsert(op), None), ssel, ssel # None,
                  IF ssel \in sbase THEN store[ssel].addr ELSE None), None)
  <2>1. (SqInsert(op) /\ ~FALSE) = SqInsert(op) /\ (ssel # None /\ ~FALSE) = (ssel # None)
    BY DEF SqInsert
  <2>2. QED
    BY <1>1, <2>1 DEF StoreQueue
<1>6. ASSUME NEW s \in svalid' \ NewStore(op)
      PROVE  /\ s \in Slots /\ s # None
             /\ ~(SqInsert(op) /\ s = Idx(tail))
             /\ s \in StoreGen <=> s = ssel
  BY <1>1, <1>3 DEF NewStore, StoreGen, One
<1>7. ASSUME NEW s \in svalid' \ NewStore(op)
      PROVE  store'[s] = store[s]
  BY <1>1, <1>5, <1>6 DEF KeptStores, Put
<1>8. ASSUME NEW s \in svalid' \ NewStore(op)
      PROVE  shw'[s] = IF s \in StoreGen THEN store[s].addr ELSE shw[s]
  BY <1>1, <1>3, <1>5, <1>6 DEF KeptStores, Put
<1>9. ASSUME NEW s \in NewStore(op)
      PROVE  store'[s] = op.what
  BY <1>1, <1>3, <1>5 DEF KeptStores, Put, NewStore, One
<1>10. store' \in [Slots -> Stores \cup {NoStore}]
  BY <1>1, <1>4, <1>5 DEF KeptStores, Put, NewStore, One
<1>11. mem' = IF OutStore(ready) = {} THEN mem
              ELSE [mem EXCEPT ![shw[Idx(head)]] = store[Idx(head)].val]
  BY <1>1 DEF DataCache, OutStore, One
<1>12. arch' = IF RetStore(ret) = {} THEN arch ELSE Apply(arch, Idx(mid))
  <2>1. ret => prog[1] = <<"store", Idx(mid)>>
    BY OldestRetires DEF Ordinary, CanRetire
  <2>2. QED
    BY <1>1, <2>1 DEF History, RetStore, One
<1>13. QED
  BY <1>4, <1>7, <1>8, <1>9, <1>10, <1>11, <1>12 DEF StoreData

\* The age matrices.
LEMMA MatricesMove ==
  ASSUME LsqInv, NEW op, NEW woken, NEW ret, NEW ready, NEW ans, NEW wbok,
         Ordinary(op, woken, ret, ready, ans, wbok)
  PROVE  AgesMove(NewLoad(op), NewStore(op))
<1>1. Younger(op) /\ Older(op) /\ op \in Offers
  BY DEF Ordinary, LsqEdge
<1>2. LqInsert(op) => ~SqInsert(op)
  BY <1>1, OfferKinds DEF LqInsert, SqInsert
<1>3. ASSUME NEW i \in LSlots, NEW k \in LSlots
      PROVE  <<k, i>> \in younger' <=> \/ <<k, i>> \in younger /\ k \notin NewLoad(op)
                                       \/ i \in NewLoad(op) /\ k # i
  BY <1>1 DEF Younger, NewLoad, One
<1>4. ASSUME NEW i \in LSlots, NEW s \in Slots
      PROVE  <<i, s>> \in older' <=> \/ <<i, s>> \in older /\ s \notin NewStore(op)
                                     \/ i \in NewLoad(op)
  BY <1>1, <1>2 DEF Older, NewLoad, NewStore, One
<1>5. QED
  BY <1>3, <1>4 DEF AgesMove

-----------------------------------------------------------------------------
(* What follows from these moves, part by part *)

\* The moves of an edge without a flush: of loads nl comes, ol leaves, gl gets its address,
\* sl goes to the cache, al is answered; of stores ns comes, rs retires, gs gets its
\* address, os goes to memory.
Moves(nl, ol, gl, sl, al, ns, rs, gs, os, what) ==
  /\ LoadFlags(nl, ol, gl, sl, al) /\ LoadData(nl, gl, sl, al, what)
  /\ StoreFlags(ns, rs, gs, os) /\ StoreData(ns, rs, gs, os, what)
  /\ AgesMove(nl, ns) /\ ProgMoves(nl, ol, ns, rs)
  /\ \A i, k \in nl : i = k
  /\ nl = {} \/ ns = {}
  /\ empty' = FALSE

\* What happens to the ring of stores.
RingFollows(ns, rs, os) ==
  /\ head' \in Ptrs /\ mid' \in Ptrs /\ tail' \in Ptrs
  /\ StoreRing'
  /\ os \subseteq Live(head, mid) /\ rs \subseteq Live(mid, tail) /\ ns \cap svalid = {}
  /\ Live(head', mid') = (Live(head, mid) \ os) \cup rs
  /\ Live(mid', tail') = (Live(mid, tail) \ rs) \cup ns

\* The order of the stores stays.
RingOrder(ns, rs, os) ==
  /\ \A s, t \in Slots \ os : Age(head', s) < Age(head', t) <=> Age(head, s) < Age(head, t)
  /\ \A s, t \in Slots \ rs : Age(mid', s) < Age(mid', t) <=> Age(mid, s) < Age(mid, t)
  /\ \A s \in Live(head, mid) \ os, t \in rs : Age(head', s) < Age(head', t)
  /\ \A s \in Live(mid, tail) \ rs, t \in ns : Age(mid', s) < Age(mid', t)

\* Both follow from the pointers, moved one after the other.
LEMMA RingMoves ==
  ASSUME LsqInv, NEW ns, NEW rs, NEW gs, NEW os, StoreFlags(ns, rs, gs, os)
  PROVE  RingFollows(ns, rs, os) /\ RingOrder(ns, rs, os)
<1>1. /\ head \in Ptrs /\ mid \in Ptrs /\ tail \in Ptrs
      /\ Dist(head, mid) + Dist(mid, tail) = Dist(head, tail) /\ Dist(head, tail) <= N
      /\ svalid = Live(head, tail) /\ svalid \cap sretired = Live(head, mid)
  BY DEF LsqInv, LsqTypeOK, StoreRing
<1>2. /\ Dist(head, mid) \in Nat /\ Dist(mid, tail) \in Nat /\ Dist(head, tail) \in Nat
      /\ N \in Nat
  BY <1>1, DistanceType, RingSize
<1>3. /\ ns \subseteq {Idx(tail)} /\ (ns # {} => Dist(head, tail) < N)
      /\ rs \subseteq {Idx(mid)} /\ (rs # {} => mid # tail)
      /\ os \subseteq {Idx(head)} /\ os \subseteq Live(head, mid) /\ os \subseteq svalid
      /\ head' = IF os = {} THEN head ELSE Inc(head)
      /\ mid'  = IF rs = {} THEN mid ELSE Inc(mid)
      /\ tail' = IF ns = {} THEN tail ELSE Inc(tail)
      /\ svalid' = (svalid \ os) \cup ns
      /\ sretired' = (sretired \ ns) \cup rs
  BY <1>1 DEF StoreFlags
<1>4. head' \in Ptrs /\ mid' \in Ptrs /\ tail' \in Ptrs
  BY <1>1, <1>3, PointerTypes
\* First the head moves.
<1>5. /\ Dist(head', mid) + Dist(mid, tail) = Dist(head', tail)
      /\ Dist(head', tail) <= Dist(head, tail)
      /\ Live(head', mid) = Live(head, mid) \ os
      /\ Live(head', tail) = Live(head, tail) \ os
  <2>1. CASE os = {}
    BY <2>1, <1>1, <1>2, <1>3
  <2>2. CASE os # {}
    <3>1. os = {Idx(head)} /\ head # mid /\ head # tail
      BY <2>2, <1>1, <1>3, EmptyRing
    <3>2. Dist(head, mid) <= N
      BY <1>1, <1>2
    <3>3. /\ Dist(Inc(head), mid) = Dist(head, mid) - 1
          /\ Live(Inc(head), mid) = Live(head, mid) \ {Idx(head)}
      BY <3>1, <3>2, <1>1, TakeOldest
    <3>4. /\ Dist(Inc(head), tail) = Dist(head, tail) - 1
          /\ Live(Inc(head), tail) = Live(head, tail) \ {Idx(head)}
      BY <3>1, <1>1, TakeOldest
    <3>5. QED
      BY <2>2, <3>1, <3>3, <3>4, <1>1, <1>2, <1>3
  <2>3. QED
    BY <2>1, <2>2
<1>6. /\ Dist(head', mid) \in Nat /\ Dist(head', tail) \in Nat /\ Dist(head', tail) <= N
      /\ Dist(mid', tail) \in Nat
  <2>1. /\ Dist(head', mid) \in Nat /\ Dist(head', tail) \in Nat /\ Dist(mid', tail) \in Nat
    BY <1>1, <1>4, DistanceType, RingSize
  <2>2. QED
    BY <2>1, <1>1, <1>2, <1>5
\* Then the pointer to the next store that retires.
<1>7. /\ Dist(head', mid') + Dist(mid', tail) = Dist(head', tail)
      /\ Live(head', mid') = Live(head', mid) \cup rs
      /\ Live(mid', tail) = Live(mid, tail) \ rs /\ rs \subseteq Live(mid, tail)
  <2>1. CASE rs = {}
    BY <2>1, <1>3, <1>5
  <2>2. CASE rs # {}
    <3>1. rs = {Idx(mid)} /\ mid # tail /\ mid' = Inc(mid)
      BY <2>2, <1>3
    <3>2. /\ Dist(head', Inc(mid)) + Dist(Inc(mid), tail) = Dist(head', tail)
          /\ Live(head', Inc(mid)) = Live(head', mid) \cup {Idx(mid)}
          /\ Live(mid, tail) = Live(Inc(mid), tail) \cup {Idx(mid)}
          /\ Idx(mid) \notin Live(Inc(mid), tail)
      BY <3>1, <1>1, <1>4, <1>5, <1>6, MiddleMoves
    <3>3. QED
      BY <3>1, <3>2
  <2>3. QED
    BY <2>1, <2>2
<1>8. Dist(head', mid') \in Nat /\ Dist(mid', tail) <= Dist(head', tail)
  <2>1. Dist(head', mid') \in Nat
    BY <1>4, DistanceType, RingSize
  <2>2. QED
    BY <2>1, <1>6, <1>7
\* Then the tail.
<1>9. /\ Dist(head', mid') + Dist(mid', tail') = Dist(head', tail')
      /\ Dist(head', tail') <= N
      /\ Live(head', tail') = Live(head', tail) \cup ns
      /\ Live(mid', tail') = Live(mid', tail) \cup ns
  <2>1. CASE ns = {}
    BY <2>1, <1>3, <1>6, <1>7
  <2>2. CASE ns # {}
    <3>1. ns = {Idx(tail)} /\ tail' = Inc(tail) /\ Dist(head', tail) < N
      BY <2>2, <1>2, <1>3, <1>5, <1>6
    <3>2. Dist(mid', tail) < N
      BY <3>1, <1>2, <1>6, <1>8
    <3>3. /\ Dist(head', Inc(tail)) = Dist(head', tail) + 1
          /\ Live(head', Inc(tail)) = Live(head', tail) \cup {Idx(tail)}
      BY <3>1, <1>1, <1>4, PutYoungest
    <3>4. /\ Dist(mid', Inc(tail)) = Dist(mid', tail) + 1
          /\ Live(mid', Inc(tail)) = Live(mid', tail) \cup {Idx(tail)}
      BY <3>2, <1>1, <1>4, PutYoungest
    <3>5. QED
      BY <3>1, <3>3, <3>4, <1>2, <1>6, <1>7, <1>8
  <2>3. QED
    BY <2>1, <2>2
<1>10. Live(head, tail) = Live(head, mid) \cup Live(mid, tail)
       /\ Live(head, mid) \cap Live(mid, tail) = {}
  BY <1>1, TwoParts
<1>11. ns \cap svalid = {}
  <2>1. ns # {} => Idx(tail) \notin Live(head, tail)
    BY <1>1, <1>3, PutYoungest
  <2>2. QED
    BY <2>1, <1>1, <1>3
<1>12. RingFollows(ns, rs, os)
  <2>1. svalid' = Live(head', tail')
    BY <1>1, <1>3, <1>5, <1>9
  <2>2. svalid' \cap sretired' = Live(head', mid')
    BY <1>1, <1>3, <1>5, <1>7, <1>10, <1>11
  <2>3. StoreRing'
    BY <2>1, <2>2, <1>9 DEF StoreRing
  <2>4. QED
    BY <2>3, <1>3, <1>4, <1>5, <1>7, <1>9, <1>11 DEF RingFollows
<1>13. RingOrder(ns, rs, os)
  <2>1. ASSUME NEW p \in Ptrs, NEW s \in Slots \ {Idx(p)}, NEW t \in Slots \ {Idx(p)}
        PROVE  Age(Inc(p), s) < Age(Inc(p), t) <=> Age(p, s) < Age(p, t)
    <3>1. Dist(p, p) <= N
      BY RingSize, SMT DEF Dist, Ptrs
    <3>2. /\ Age(p, s) \in 0 .. N - 1 /\ Age(p, t) \in 0 .. N - 1
          /\ Age(Inc(p), s) = Age(p, s) - 1 /\ Age(Inc(p), t) = Age(p, t) - 1
      BY <3>1, AgeOrder
    <3>3. QED
      BY <3>2, <1>2
  <2>2. \A s, t \in Slots \ os : Age(head', s) < Age(head', t) <=> Age(head, s) < Age(head, t)
    BY <2>1, <1>1, <1>3
  <2>3. \A s, t \in Slots \ rs : Age(mid', s) < Age(mid', t) <=> Age(mid, s) < Age(mid, t)
    BY <2>1, <1>1, <1>3
  <2>4. ASSUME NEW s \in Live(head, mid) \ os, NEW t \in rs
        PROVE  Age(head', s) < Age(head', t)
    <3>1. s \in Live(head', mid)
      BY <2>4, <1>5
    <3>2. s \in Slots /\ Age(head', s) < Dist(head', mid)
      BY <3>1 DEF Live
    <3>3. Dist(mid, tail) # 0
      BY <2>4, <1>1, <1>3, DistanceType
    <3>4. t = Idx(mid) /\ Dist(head', mid) < N
      BY <2>4, <3>3, <1>2, <1>3, <1>5, <1>6
    <3>5. Age(head', t) = Dist(head', mid)
      BY <3>4, <1>1, <1>2, <1>4, <1>6, AgeOrder
    <3>6. QED
      BY <3>2, <3>5
  <2>5. ASSUME NEW s \in Live(mid, tail) \ rs, NEW t \in ns
        PROVE  Age(mid', s) < Age(mid', t)
    <3>1. s \in Live(mid', tail)
      BY <2>5, <1>7
    <3>2. Age(mid', s) < Dist(mid', tail)
      BY <3>1 DEF Live
    <3>3. t = Idx(tail) /\ Dist(mid', tail) < N
      BY <2>5, <1>2, <1>3, <1>5, <1>6, <1>8
    <3>4. Age(mid', t) = Dist(mid', tail)
      BY <3>3, <1>1, <1>2, <1>4, <1>6, AgeOrder
    <3>5. QED
      BY <3>2, <3>4
  <2>6. QED
    BY <2>2, <2>3, <2>4, <2>5 DEF RingOrder
<1>14. QED
  BY <1>12, <1>13

\* Program order, instruction by instruction.
L(i) == <<"load", i>>
S(s) == <<"store", s>>
OrderFacts(nl, ol, ns, rs) ==
  /\ \A i \in LSlots : Held(prog', L(i)) <=> (Held(prog, L(i)) /\ i \notin ol) \/ i \in nl
  /\ \A s \in Slots : Held(prog', S(s)) <=> (Held(prog, S(s)) /\ s \notin rs) \/ s \in ns
  /\ \A k, i \in LSlots :
       Before(prog', L(k), L(i)) <=> \/ Before(prog, L(k), L(i)) /\ k \notin ol /\ i \notin ol
                                     \/ Held(prog, L(k)) /\ k \notin ol /\ i \in nl
  /\ \A s \in Slots, i \in LSlots :
       Before(prog', S(s), L(i)) <=> \/ Before(prog, S(s), L(i)) /\ s \notin rs /\ i \notin ol
                                     \/ Held(prog, S(s)) /\ s \notin rs /\ i \in nl
  /\ \A s, t \in Slots :
       Before(prog', S(s), S(t)) <=> \/ Before(prog, S(s), S(t)) /\ s \notin rs /\ t \notin rs
                                     \/ Held(prog, S(s)) /\ s \notin rs /\ t \in ns

\* This is what the moves of program order say of single instructions.
LEMMA OrderOfSlots ==
  ASSUME NEW nl, NEW ol, NEW ns, NEW rs, ProgMoves(nl, ol, ns, rs)
  PROVE  OrderFacts(nl, ol, ns, rs)
<1> DEFINE gone == ({"load"} \X ol) \cup ({"store"} \X rs)
           new == ({"load"} \X nl) \cup ({"store"} \X ns)
<1>1. /\ \A i \in LSlots : L(i) \in Instr
      /\ \A s \in Slots : S(s) \in Instr
  BY DEF L, S, Instr, Events, Done
<1>2. /\ \A i \in LSlots : (L(i) \in gone <=> i \in ol) /\ (L(i) \in new <=> i \in nl)
      /\ \A s \in Slots : (S(s) \in gone <=> s \in rs) /\ (S(s) \in new <=> s \in ns)
  BY DEF L, S
<1>3. OrderMoves(prog, prog', gone, new)
  BY DEF ProgMoves
<1> HIDE DEF gone, new, L, S
<1>4. QED
  BY <1>1, <1>2, <1>3 DEF OrderMoves, OrderFacts

\* QueuesFollow is kept.
LEMMA QueuesStep ==
  ASSUME LsqInv, NEW nl, NEW ol, NEW gl, NEW sl, NEW al, NEW ns, NEW rs, NEW gs, NEW os,
         NEW what, Moves(nl, ol, gl, sl, al, ns, rs, gs, os, what)
  PROVE  QueuesFollow'
<1>1. RingFollows(ns, rs, os) /\ RingOrder(ns, rs, os)
  BY RingMoves DEF Moves
<1>2. OrderFacts(nl, ol, ns, rs)
  BY OrderOfSlots DEF Moves
<1>3. /\ \A i \in LSlots : i \in lvalid <=> Held(prog, L(i))
      /\ \A s \in Slots : s \in Live(mid, tail) <=> Held(prog, S(s))
      /\ \A e \in Instr : ~Before(prog, e, e)
      /\ \A s, t \in Slots : Before(prog, S(s), S(t)) => Age(mid, s) < Age(mid, t)
  BY DEF LsqInv, QueuesFollow, Instr, L, S
<1>4. \A i \in LSlots : i \in lvalid' <=> Held(prog', L(i))
  <2>1. lvalid' = (lvalid \ ol) \cup nl
    BY DEF Moves, LoadFlags
  <2>2. QED
    BY <2>1, <1>2, <1>3 DEF OrderFacts
<1>5. \A s \in Slots : s \in Live(mid', tail') <=> Held(prog', S(s))
  BY <1>1, <1>2, <1>3 DEF RingFollows, OrderFacts
<1>6. ASSUME NEW e \in Instr
      PROVE  ~Before(prog', e, e)
  <2>1. CASE \E i \in LSlots : e = L(i)
    <3>1. nl \cap lvalid = {}
      BY DEF Moves, LoadFlags
    <3>2. QED
      BY <2>1, <3>1, <1>2, <1>3 DEF OrderFacts
  <2>2. CASE \E s \in Slots : e = S(s)
    <3>1. PICK s \in Slots : e = S(s)
      BY <2>2
    <3>2. s \in ns => s \notin Live(mid, tail)
      <4>1. Live(mid, tail) \subseteq svalid
        BY TwoParts DEF LsqInv, LsqTypeOK, StoreRing
      <4>2. QED
        BY <4>1, <1>1 DEF RingFollows
    <3>3. QED
      BY <3>1, <3>2, <1>2, <1>3 DEF OrderFacts
  <2>3. QED
    BY <2>1, <2>2 DEF Instr, Events, L, S
<1>7. ASSUME NEW s \in Slots, NEW t \in Slots, Before(prog', S(s), S(t))
      PROVE  Age(mid', s) < Age(mid', t)
  <2>1. \/ Before(prog, S(s), S(t)) /\ s \notin rs /\ t \notin rs
        \/ Held(prog, S(s)) /\ s \notin rs /\ t \in ns
    BY <1>2, <1>7 DEF OrderFacts
  <2>2. QED
    BY <2>1, <1>1, <1>3 DEF RingOrder
<1>8. QED
  BY <1>4, <1>5, <1>6, <1>7 DEF QueuesFollow, Instr, L, S

\* So are the steps of a load, and the choice for the address registers.
LEMMA LoadStagesStep ==
  ASSUME LsqInv, NEW nl, NEW ol, NEW gl, NEW sl, NEW al, NEW ns, NEW rs, NEW gs, NEW os,
         NEW what, Moves(nl, ol, gl, sl, al, ns, rs, gs, os, what)
  PROVE  LoadStages' /\ ChosenWaits'
<1>1. LoadFlags(nl, ol, gl, sl, al) /\ StoreFlags(ns, rs, gs, os) /\ ~empty'
  BY DEF Moves
<1>2. /\ lvalid \cap lcomplete \subseteq lissued /\ lvalid \cap lissued \subseteq laddr
      /\ Outstanding \subseteq (lvalid \cap lissued) \ lcomplete
  BY DEF LsqInv, LoadStages, AskedFollow, Outstanding
<1>3. lvalid' \cap lcomplete' \subseteq lissued'
  BY <1>1, <1>2 DEF LoadFlags
<1>4. lvalid' \cap lissued' \subseteq laddr'
  BY <1>1, <1>2 DEF LoadFlags, LqIssueReady
<1>5. lsel' # None => lsel' \in (lvalid' \cap lbase') \ laddr'
  BY <1>1, <1>2 DEF LoadFlags
<1>6. ssel' # None => ssel' \in (svalid' \cap sbase') \ saddr'
  <2>1. ns \cap svalid = {}
    BY <1>1, RingMoves DEF RingFollows
  <2>2. QED
    BY <1>1, <2>1 DEF StoreFlags
<1>7. QED
  BY <1>1, <1>3, <1>4, <1>5, <1>6 DEF LoadStages, ChosenWaits

\* Addresses stay the entries' own.
LEMMA AddressesStep ==
  ASSUME LsqInv, NEW nl, NEW ol, NEW gl, NEW sl, NEW al, NEW ns, NEW rs, NEW gs, NEW os,
         NEW what, Moves(nl, ol, gl, sl, al, ns, rs, gs, os, what)
  PROVE  AddressesAreOwn'
<1>1. /\ LoadFlags(nl, ol, gl, sl, al) /\ LoadData(nl, gl, sl, al, what)
      /\ StoreFlags(ns, rs, gs, os) /\ StoreData(ns, rs, gs, os, what)
      /\ AddressesAreOwn
  BY DEF Moves, LsqInv
<1>2. ASSUME NEW i \in lvalid' \cap laddr'
      PROVE  lhw'[i] = load'[i].addr
  <2>1. i \in lvalid' \ nl /\ i \in lvalid /\ (i \in gl \/ i \in laddr)
    BY <1>1 DEF LoadFlags
  <2>2. load'[i] = load[i] /\ lhw'[i] = IF i \in gl THEN load[i].addr ELSE lhw[i]
    BY <2>1, <1>1 DEF LoadData
  <2>3. QED
    BY <2>1, <2>2, <1>1 DEF AddressesAreOwn
<1>3. ASSUME NEW s \in svalid' \cap saddr'
      PROVE  shw'[s] = store'[s].addr
  <2>1. ns \cap svalid = {}
    BY <1>1, RingMoves DEF RingFollows
  <2>2. s \in svalid' \ ns /\ s \in svalid /\ (s \in gs \/ s \in saddr)
    BY <2>1, <1>1 DEF StoreFlags
  <2>3. store'[s] = store[s] /\ shw'[s] = IF s \in gs THEN store[s].addr ELSE shw[s]
    BY <2>2, <1>1 DEF StoreData
  <2>4. QED
    BY <2>2, <2>3, <1>1 DEF AddressesAreOwn
<1>4. QED
  BY <1>2, <1>3 DEF AddressesAreOwn

\* A position is less than another exactly when its instruction comes before.
LEMMA PositionIsBefore ==
  ASSUME NEW p \in Seq(Events), NEW e, NEW f,
         Held(p, e), Held(p, f), ~Before(p, e, e), ~Before(p, f, f)
  PROVE  (CHOOSE n \in DOMAIN p : p[n] = e) < (CHOOSE n \in DOMAIN p : p[n] = f)
           <=> Before(p, e, f)
<1> DEFINE pe == CHOOSE n \in DOMAIN p : p[n] = e
           pf == CHOOSE n \in DOMAIN p : p[n] = f
<1>1. DOMAIN p \subseteq Nat
  OBVIOUS
<1>2. pe \in DOMAIN p /\ p[pe] = e /\ pf \in DOMAIN p /\ p[pf] = f
  BY DEF Held
<1> HIDE DEF pe, pf
<1>3. \A n \in DOMAIN p : (p[n] = e => n = pe) /\ (p[n] = f => n = pf)
  <2>1. ASSUME NEW n \in DOMAIN p, p[n] = e
        PROVE  n = pe
    <3>1. ~(n < pe) /\ ~(pe < n)
      BY <2>1, <1>2 DEF Before
    <3>2. QED
      BY <3>1, <1>1, <1>2
  <2>2. ASSUME NEW n \in DOMAIN p, p[n] = f
        PROVE  n = pf
    <3>1. ~(n < pf) /\ ~(pf < n)
      BY <2>2, <1>2 DEF Before
    <3>2. QED
      BY <3>1, <1>1, <1>2
  <2>3. QED
    BY <2>1, <2>2
<1>4. pe < pf <=> Before(p, e, f)
  BY <1>2, <1>3 DEF Before
<1>5. QED
  BY <1>4 DEF pe, pf

\* What the matrices say, without positions.
AgesByOrder ==
  \A i \in lvalid :
    /\ \A k \in lvalid \ {i} : <<k, i>> \in younger <=> Before(prog, L(k), L(i))
    /\ \A s \in svalid : <<i, s>> \in older <=> s \in sretired \/ Before(prog, S(s), L(i))

\* In a state of the invariant the matrices agree with Before.
LEMMA AgesNow ==
  ASSUME LsqInv
  PROVE  AgesByOrder
<1>1. /\ prog \in Seq(Events) /\ lvalid \subseteq LSlots /\ svalid \subseteq Slots
      /\ \A i \in lvalid : Held(prog, L(i)) /\ ~Before(prog, L(i), L(i))
  BY DEF LsqInv, LsqTypeOK, QueuesFollow, L, Events, Done
<1>2. \A s \in svalid \ sretired : Held(prog, S(s)) /\ ~Before(prog, S(s), S(s))
  <2>1. svalid \ sretired \subseteq Live(mid, tail)
    BY TwoParts DEF LsqInv, LsqTypeOK, StoreRing
  <2>2. QED
    BY <1>1, <2>1 DEF LsqInv, QueuesFollow, S, Events, Done
<1>3. ASSUME NEW i \in lvalid, NEW k \in lvalid
      PROVE  Position(L(k)) < Position(L(i)) <=> Before(prog, L(k), L(i))
  BY <1>1, PositionIsBefore DEF Position
<1>4. ASSUME NEW i \in lvalid, NEW s \in svalid \ sretired
      PROVE  Position(S(s)) < Position(L(i)) <=> Before(prog, S(s), L(i))
  BY <1>1, <1>2, PositionIsBefore DEF Position
<1>5. ASSUME NEW i \in lvalid, NEW s \in svalid, s \in sretired
      PROVE  <<i, s>> \in older
  BY <1>5 DEF LsqInv, AgesAreProgramOrder
<1>6. QED
  BY <1>3, <1>4, <1>5 DEF LsqInv, AgesAreProgramOrder, AgesByOrder, L, S

\* When they do in the next state, they know its positions.
LEMMA AgesNext ==
  ASSUME prog' \in Seq(Events), lvalid' \subseteq LSlots, svalid' \subseteq Slots,
         svalid' \ sretired' \subseteq Live(mid', tail'), QueuesFollow', AgesByOrder'
  PROVE  AgesAreProgramOrder'
<1>1. /\ \A i \in lvalid' : Held(prog', L(i)) /\ ~Before(prog', L(i), L(i))
      /\ \A s \in svalid' \ sretired' : Held(prog', S(s)) /\ ~Before(prog', S(s), S(s))
  BY DEF QueuesFollow, L, S, Events, Done
<1>2. ASSUME NEW i \in lvalid', NEW k \in lvalid'
      PROVE  Position(L(k))' < Position(L(i))' <=> Before(prog', L(k), L(i))
  BY <1>1, PositionIsBefore DEF Position
<1>3. ASSUME NEW i \in lvalid', NEW s \in svalid' \ sretired'
      PROVE  Position(S(s))' < Position(L(i))' <=> Before(prog', S(s), L(i))
  BY <1>1, PositionIsBefore DEF Position
<1>4. ASSUME NEW i \in lvalid'
      PROVE  /\ \A k \in lvalid' \ {i} :
                  <<k, i>> \in younger' <=> Position(L(k))' < Position(L(i))'
             /\ \A s \in svalid' :
                  <<i, s>> \in older' <=> s \in sretired' \/ Position(S(s))' < Position(L(i))'
  BY <1>2, <1>3 DEF AgesByOrder
<1>5. QED
  BY <1>4 DEF AgesAreProgramOrder, L, S

\* The matrices keep knowing program order.
LEMMA AgesStep ==
  ASSUME LsqInv, NEW nl, NEW ol, NEW gl, NEW sl, NEW al, NEW ns, NEW rs, NEW gs, NEW os,
         NEW what, Moves(nl, ol, gl, sl, al, ns, rs, gs, os, what)
  PROVE  AgesAreProgramOrder'
<1>1. RingFollows(ns, rs, os)
  BY RingMoves DEF Moves
<1>2. OrderFacts(nl, ol, ns, rs)
  BY OrderOfSlots DEF Moves
<1>3. AgesByOrder
  BY AgesNow
<1>4. /\ AgesMove(nl, ns) /\ (\A i, k \in nl : i = k) /\ (nl = {} \/ ns = {})
      /\ nl \subseteq LSlots \ lvalid /\ lvalid' = (lvalid \ ol) \cup nl
      /\ svalid' = (svalid \ os) \cup ns /\ sretired' = (sretired \ ns) \cup rs
      /\ prog' \in Seq(Events)
  BY DEF Moves, LoadFlags, StoreFlags, ProgMoves
<1>5. /\ lvalid \subseteq LSlots /\ svalid \subseteq Slots
      /\ head \in Ptrs /\ mid \in Ptrs /\ tail \in Ptrs
      /\ \A i \in LSlots : i \in lvalid <=> Held(prog, L(i))
      /\ \A s \in Slots : s \in Live(mid, tail) <=> Held(prog, S(s))
  BY DEF LsqInv, LsqTypeOK, QueuesFollow, L, S
<1>6. svalid = Live(head, mid) \cup Live(mid, tail)
      /\ Live(head, mid) = svalid \cap sretired /\ Live(head, mid) \cap Live(mid, tail) = {}
  BY TwoParts DEF LsqInv, LsqTypeOK, StoreRing
<1>7. QueuesFollow'
  BY QueuesStep
<1>8. lvalid' \subseteq LSlots /\ svalid' \subseteq Slots /\ ns \subseteq Slots
      /\ ns \cap svalid = {} /\ rs \subseteq Live(mid, tail)
  <2>1. svalid' = Live(head', tail')
    BY <1>1 DEF RingFollows, StoreRing
  <2>2. svalid' \subseteq Slots
    BY <2>1 DEF Live
  <2>3. QED
    BY <2>2, <1>1, <1>4, <1>5 DEF RingFollows
<1>9. svalid' \ sretired' \subseteq Live(mid', tail')
  BY <1>1, <1>4, <1>6, <1>8 DEF RingFollows
<1>10. ASSUME NEW i \in lvalid', NEW k \in lvalid' \ {i}
       PROVE  <<k, i>> \in younger' <=> Before(prog', L(k), L(i))
  <2>1. <<k, i>> \in younger' <=> (<<k, i>> \in younger /\ k \notin nl) \/ i \in nl
    BY <1>4, <1>8 DEF AgesMove
  <2>2. Before(prog', L(k), L(i)) <=> \/ Before(prog, L(k), L(i)) /\ k \notin ol /\ i \notin ol
                                      \/ Held(prog, L(k)) /\ k \notin ol /\ i \in nl
    BY <1>2, <1>8 DEF OrderFacts
  <2>3. CASE i \in nl
    <3>1. k \in lvalid /\ k \notin ol
      BY <2>3, <1>4
    <3>2. QED
      BY <2>1, <2>2, <2>3, <3>1, <1>5
  <2>4. CASE i \notin nl /\ k \in nl
    <3>1. ~Before(prog, L(k), L(i))
      <4>1. ~Held(prog, L(k))
        BY <2>4, <1>4, <1>5
      <4>2. QED
        BY <4>1 DEF Before, Held
    <3>2. QED
      BY <2>1, <2>2, <2>4, <3>1
  <2>5. CASE i \notin nl /\ k \notin nl
    <3>1. i \in lvalid \ ol /\ k \in lvalid \ ol
      BY <2>5, <1>4
    <3>2. <<k, i>> \in younger <=> Before(prog, L(k), L(i))
      BY <3>1, <1>3 DEF AgesByOrder
    <3>3. QED
      BY <2>1, <2>2, <2>5, <3>1, <3>2
  <2>6. QED
    BY <2>3, <2>4, <2>5
<1>11. ASSUME NEW i \in lvalid', NEW s \in svalid'
       PROVE  <<i, s>> \in older' <=> s \in sretired' \/ Before(prog', S(s), L(i))
  <2>1. <<i, s>> \in older' <=> (<<i, s>> \in older /\ s \notin ns) \/ i \in nl
    BY <1>4, <1>8 DEF AgesMove
  <2>2. Before(prog', S(s), L(i)) <=> \/ Before(prog, S(s), L(i)) /\ s \notin rs /\ i \notin ol
                                      \/ Held(prog, S(s)) /\ s \notin rs /\ i \in nl
    BY <1>2, <1>8 DEF OrderFacts
  <2>3. CASE i \in nl
    <3>1. s \in svalid /\ s \notin ns
      BY <2>3, <1>4
    <3>2. s \in sretired \/ Held(prog, S(s))
      BY <3>1, <1>5, <1>6
    <3>3. QED
      BY <2>1, <2>2, <2>3, <3>1, <3>2, <1>4
  <2>4. CASE i \notin nl /\ s \in ns
    <3>1. s \notin Live(mid, tail) /\ s \notin rs
      BY <2>4, <1>6, <1>8
    <3>2. ~Held(prog, S(s)) /\ ~Before(prog, S(s), L(i))
      BY <3>1, <1>5, <1>8 DEF Before, Held
    <3>3. QED
      BY <2>1, <2>2, <2>4, <3>1, <3>2, <1>4
  <2>5. CASE i \notin nl /\ s \notin ns
    <3>1. i \in lvalid \ ol /\ s \in svalid
      BY <2>5, <1>4
    <3>2. <<i, s>> \in older <=> s \in sretired \/ Before(prog, S(s), L(i))
      BY <3>1, <1>3 DEF AgesByOrder
    <3>3. s \in rs => Before(prog, S(s), L(i))
      <4>1. SUFFICES ASSUME s \in rs PROVE Before(prog, S(s), L(i))
        OBVIOUS
      <4>2. prog # << >> /\ prog[1] = S(Idx(mid)) /\ s = Idx(mid) /\ prog \in Seq(Events)
        BY <4>1 DEF Moves, ProgMoves, StoreFlags, S, LsqInv, LsqTypeOK
      <4>3. PICK n \in DOMAIN prog : prog[n] = L(i)
        BY <3>1, <1>5 DEF Held
      <4>4. n # 1
        BY <4>2, <4>3 DEF L, S
      <4>5. 1 \in DOMAIN prog /\ 1 < n
        BY <4>2, <4>4
      <4>6. QED
        BY <4>2, <4>3, <4>5 DEF Before
    <3>4. QED
      BY <2>1, <2>2, <2>5, <3>1, <3>2, <3>3, <1>4
  <2>6. QED
    BY <2>3, <2>4, <2>5
<1>12. AgesByOrder'
  BY <1>10, <1>11 DEF AgesByOrder, L, S
<1>13. QED
  BY <1>4, <1>7, <1>8, <1>9, <1>12, AgesNext

-----------------------------------------------------------------------------
(* Values *)

\* IsValue in the next state.
NewValue(v, a, olds) ==
  LET ws == {s \in olds : store'[s].addr = a}
  IN /\ ws = {} => v = mem'[a]
     /\ \A s \in ws : (\A t \in ws : t = s \/ Age(head', t) < Age(head', s)) =>
          v = store'[s].val

\* The value of a word before an instruction survives the step: the store that goes to
\* memory is the oldest, and its value is then the one that memory has.
LEMMA ValueStays ==
  ASSUME LsqInv, NEW nl, NEW ol, NEW gl, NEW sl, NEW al, NEW ns, NEW rs, NEW gs, NEW os,
         NEW what, Moves(nl, ol, gl, sl, al, ns, rs, gs, os, what),
         NEW v, NEW a \in Addrs, NEW olds \in SUBSET svalid, os \subseteq olds,
         IsValue(v, a, olds)
  PROVE  NewValue(v, a, olds \ os)
<1> DEFINE ws == {s \in olds : store[s].addr = a}
           wt == {s \in olds \ os : store'[s].addr = a}
<1>1. RingFollows(ns, rs, os) /\ RingOrder(ns, rs, os)
  BY RingMoves DEF Moves
<1>2. /\ svalid' = (svalid \ os) \cup ns /\ ns \cap svalid = {} /\ svalid \subseteq Slots
      /\ os \subseteq {Idx(head)} /\ os \subseteq svalid \cap saddr
      /\ mem \in [Addrs -> Vals] /\ head \in Ptrs
      /\ mem' = IF os = {} THEN mem
                ELSE [mem EXCEPT ![shw[Idx(head)]] = store[Idx(head)].val]
      /\ \A s \in svalid' \ ns : store'[s] = store[s]
  BY <1>1 DEF Moves, StoreFlags, StoreData, RingFollows, LsqInv, LsqTypeOK
<1>3. \A s \in olds \ os : store'[s] = store[s] /\ s \in Slots
  BY <1>2
<1>4. wt = ws \ os
  BY <1>3
<1>5. /\ ws = {} => v = mem[a]
      /\ \A s \in ws : (\A t \in ws : t = s \/ Age(head, t) < Age(head, s)) => v = store[s].val
  BY DEF IsValue
<1>6. \A s \in os : \A t \in Slots \ os : Age(head, s) < Age(head, t)
  <2>1. Dist(head, head) <= N
    BY <1>2, RingSize, SMT DEF Dist, Ptrs
  <2>2. /\ \A s \in Slots : Age(head, s) \in 0 .. N - 1
        /\ \A s, u \in Slots : Age(head, s) = Age(head, u) => s = u
        /\ Age(head, Idx(head)) = 0
    BY <2>1, <1>2, AgeOrder
  <2>3. Idx(head) \in Slots
    BY <1>2, PointerTypes
  <2>4. QED
    BY <2>2, <2>3, <1>2
<1>7. \A s \in os : shw[s] = store[s].addr /\ store[s].addr \in Addrs
  BY <1>2 DEF LsqInv, LsqTypeOK, AddressesAreOwn, Stores
<1>8. wt = {} => v = mem'[a]
  <2>1. SUFFICES ASSUME wt = {} PROVE v = mem'[a]
    OBVIOUS
  <2>2. CASE ws = {}
    <3>1. \A s \in os : store[s].addr # a
      BY <2>2
    <3>2. mem'[a] = mem[a]
      BY <3>1, <1>2, <1>7
    <3>3. QED
      BY <2>2, <3>2, <1>5
  <2>3. CASE ws # {}
    <3>1. os = {Idx(head)} /\ ws = {Idx(head)}
      BY <2>1, <2>3, <1>2, <1>4
    <3>2. v = store[Idx(head)].val
      BY <3>1, <1>5
    <3>3. shw[Idx(head)] = a
      BY <3>1, <1>7
    <3>4. QED
      BY <3>1, <3>2, <3>3, <1>2
  <2>4. QED
    BY <2>2, <2>3
<1>9. ASSUME NEW s \in wt, \A t \in wt : t = s \/ Age(head', t) < Age(head', s)
      PROVE  v = store'[s].val
  <2>1. s \in ws /\ s \in Slots \ os
    BY <1>3, <1>4
  <2>2. ASSUME NEW t \in ws
        PROVE  t = s \/ Age(head, t) < Age(head, s)
    <3>1. CASE t \in os
      BY <3>1, <2>1, <1>6
    <3>2. CASE t \notin os
      <4>1. t \in wt /\ t \in Slots \ os
        BY <3>2, <1>3, <1>4
      <4>2. QED
        BY <4>1, <2>1, <1>1, <1>9 DEF RingOrder
    <3>3. QED
      BY <3>1, <3>2
  <2>3. v = store[s].val
    BY <2>1, <2>2, <1>5
  <2>4. QED
    BY <2>3, <2>1, <1>3
<1>10. QED
  BY <1>8, <1>9 DEF NewValue

\* What a new load has to return: of each word the youngest store, or memory.
LEMMA GoalIsValue ==
  ASSUME LsqInv, NEW a \in Addrs
  PROVE  /\ AfterStores(arch, prog)[a] \in Vals
         /\ IsValue(AfterStores(arch, prog)[a], a, svalid)
<1> DEFINE v == AfterStores(arch, prog)[a]
           ns == StoresTo(a, prog)
<1>1. /\ prog \in Seq(Events) /\ arch \in [Addrs -> Vals]
      /\ store \in [Slots -> Stores \cup {NoStore}]
      /\ head \in Ptrs /\ mid \in Ptrs /\ tail \in Ptrs /\ svalid \subseteq Slots
      /\ \A s \in Slots : s \in Live(mid, tail) <=> Held(prog, S(s))
      /\ \A s, t \in Slots : Before(prog, S(s), S(t)) => Age(mid, s) < Age(mid, t)
      /\ IsValue(arch[a], a, Live(head, mid))
  BY DEF LsqInv, LsqTypeOK, QueuesFollow, ArchFollows, S
<1>2. /\ svalid = Live(head, mid) \cup Live(mid, tail)
      /\ \A s \in Live(mid, tail) : Age(head, s) = Dist(head, mid) + Age(mid, s)
  BY TwoParts DEF LsqInv, LsqTypeOK, StoreRing
<1>3. Len(prog) \in Nat /\ DOMAIN prog = 1 .. Len(prog)
  BY <1>1
<1>4. /\ ns = {} => v = arch[a]
      /\ ns # {} => \E k \in ns : /\ \A l \in ns : l <= k
                                  /\ v = store[prog[k][2]].val
  BY <1>3, AfterStoresIsLatest
<1>5. ASSUME NEW n \in ns
      PROVE  \E s \in Slots : prog[n] = S(s) /\ s = prog[n][2] /\ store[s].addr = a
  <2>1. n \in DOMAIN prog /\ prog[n][1] = "store" /\ store[prog[n][2]].addr = a
    BY DEF StoresTo
  <2>2. prog[n] \in Events
    BY <2>1, <1>1
  <2>3. QED
    BY <2>1, <2>2 DEF Events, Done, S
<1>6. \A s \in Slots : store[s].val \in Vals
  BY <1>1 DEF Stores, NoStore, Vals
<1>7. ASSUME NEW s \in Live(mid, tail), store[s].addr = a
      PROVE  \E n \in ns : prog[n] = S(s)
  <2>1. s \in Slots
    BY DEF Live
  <2>2. PICK n \in DOMAIN prog : prog[n] = S(s)
    BY <2>1, <1>1 DEF Held
  <2>3. QED
    BY <2>2, <1>7 DEF StoresTo, S
<1> HIDE DEF v, ns
<1>8. CASE ns = {}
  <2>1. v = arch[a]
    BY <1>4, <1>8
  <2>2. {s \in svalid : store[s].addr = a} = {s \in Live(head, mid) : store[s].addr = a}
    BY <1>2, <1>7, <1>8
  <2>3. IsValue(v, a, svalid)
    BY <2>1, <2>2, <1>1 DEF IsValue
  <2>4. QED
    BY <2>1, <2>3, <1>1 DEF v
<1>9. CASE ns # {}
  <2>1. PICK k \in ns : (\A l \in ns : l <= k) /\ v = store[prog[k][2]].val
    BY <1>4, <1>9
  <2>2. PICK y \in Slots : prog[k] = S(y) /\ y = prog[k][2] /\ store[y].addr = a
    BY <1>5
  <2>3. y \in Live(mid, tail) /\ v = store[y].val
    <3>1. k \in DOMAIN prog
      BY DEF ns, StoresTo
    <3>2. QED
      BY <3>1, <2>1, <2>2, <1>1 DEF Held
  <2>4. ASSUME NEW s \in svalid, store[s].addr = a, s # y
        PROVE  ~(Age(head, y) < Age(head, s))
    <3>1. /\ Age(head, y) = Dist(head, mid) + Age(mid, y)
          /\ Dist(head, mid) \in Nat /\ Age(mid, y) \in Nat
          /\ Age(head, s) \in Nat /\ Age(mid, s) \in Nat
      <4>1. Dist(head, head) <= N /\ Dist(mid, mid) <= N
        BY <1>1, RingSize, SMT DEF Dist, Ptrs
      <4>2. Age(mid, y) \in 0 .. N - 1 /\ Age(mid, s) \in 0 .. N - 1
            /\ Age(head, s) \in 0 .. N - 1
        BY <4>1, <1>1, AgeOrder
      <4>3. Dist(head, mid) \in Nat
        BY <1>1, DistanceType, RingSize
      <4>4. QED
        BY <4>2, <4>3, <2>3, <1>2
    <3>2. CASE s \in Live(head, mid)
      <4>1. Age(head, s) < Dist(head, mid)
        BY <3>2 DEF Live
      <4>2. QED
        BY <4>1, <3>1
    <3>3. CASE s \in Live(mid, tail)
      <4>1. PICK n \in ns : prog[n] = S(s)
        BY <3>3, <2>4, <1>7
      <4>2. n <= k /\ n \in DOMAIN prog /\ k \in DOMAIN prog
        BY <2>1 DEF ns, StoresTo
      <4>3. n # k
        BY <4>1, <2>2, <2>4 DEF S
      <4>4. n < k
        BY <4>2, <4>3, <1>3
      <4>5. Age(mid, s) < Age(mid, y)
        BY <4>1, <4>2, <4>4, <2>2, <1>1 DEF Before
      <4>6. Age(head, s) = Dist(head, mid) + Age(mid, s)
        BY <3>3, <1>2
      <4>7. QED
        BY <4>5, <4>6, <3>1
    <3>4. QED
      BY <3>2, <3>3, <1>2
  <2>5. y \in svalid
    BY <2>3, <1>2
  <2>6. IsValue(v, a, svalid)
    BY <2>2, <2>3, <2>4, <2>5 DEF IsValue
  <2>7. v \in Vals
    BY <2>3, <1>6
  <2>8. QED
    BY <2>6, <2>7 DEF v
<1>10. QED
  BY <1>8, <1>9

\* What every load has to return is kept.
LEMMA GoalsStep ==
  ASSUME LsqInv,
         NEW nl, NEW ol, NEW gl, NEW sl, NEW al, NEW ns, NEW rs, NEW gs, NEW os,
         NEW what, Moves(nl, ol, gl, sl, al, ns, rs, gs, os, what)
  PROVE  GoalsFollow'
<1>1. RingFollows(ns, rs, os)
  BY RingMoves DEF Moves
<1>2. /\ AgesMove(nl, ns) /\ (nl = {} \/ ns = {})
      /\ nl \subseteq LSlots \ lvalid /\ lvalid' = (lvalid \ ol) \cup nl
      /\ svalid' = (svalid \ os) \cup ns /\ os \subseteq svalid \cap sretired
      /\ LoadData(nl, gl, sl, al, what)
  BY DEF Moves, LoadFlags, StoreFlags
<1>3. /\ lvalid \subseteq LSlots /\ svalid \subseteq Slots /\ ns \cap svalid = {}
      /\ ns \subseteq Slots
  <2>1. svalid' = Live(head', tail')
    BY <1>1 DEF RingFollows, StoreRing
  <2>2. svalid' \subseteq Slots
    BY <2>1 DEF Live
  <2>3. QED
    BY <2>2, <1>1, <1>2 DEF LsqInv, LsqTypeOK, RingFollows
<1>4. ASSUME NEW i \in lvalid', i \notin nl
      PROVE  /\ goal'[i] \in [ReadBy(load'[i].width, load'[i].addr) -> Vals]
             /\ \A a \in DOMAIN goal'[i] : NewValue(goal'[i][a], a, OlderThan(i)')
  <2>1. i \in lvalid /\ i \in LSlots /\ i \in lvalid' \ nl
    BY <1>2, <1>3, <1>4
  <2>2. goal'[i] = goal[i] /\ load'[i] = load[i]
    BY <2>1, <1>2 DEF LoadData
  <2>3. OlderThan(i)' = OlderThan(i) \ os
    <3>1. \A s \in Slots : <<i, s>> \in older' <=> <<i, s>> \in older /\ s \notin ns
      BY <2>1, <1>2, <1>4 DEF AgesMove
    <3>2. QED
      BY <3>1, <1>2, <1>3 DEF OlderThan
  <2>4. os \subseteq OlderThan(i) /\ OlderThan(i) \in SUBSET svalid
    BY <2>1, <1>2 DEF LsqInv, AgesAreProgramOrder, OlderThan
  <2>5. /\ goal[i] \in [ReadBy(load[i].width, load[i].addr) -> Vals]
        /\ \A a \in DOMAIN goal[i] : IsValue(goal[i][a], a, OlderThan(i))
    BY <2>1 DEF LsqInv, GoalsFollow
  <2>6. ASSUME NEW a \in DOMAIN goal[i]
        PROVE  NewValue(goal[i][a], a, OlderThan(i) \ os)
    <3>1. a \in Addrs
      BY <2>5, <2>6 DEF ReadBy
    <3>2. QED
      BY <3>1, <2>4, <2>5, ValueStays
  <2>7. QED
    BY <2>2, <2>3, <2>5, <2>6
<1>5. ASSUME NEW i \in nl
      PROVE  /\ goal'[i] \in [ReadBy(load'[i].width, load'[i].addr) -> Vals]
             /\ \A a \in DOMAIN goal'[i] : NewValue(goal'[i][a], a, OlderThan(i)')
  <2>1. goal'[i] = Read(what.width, what.addr, AfterStores(arch, prog)) /\ load'[i] = what
    BY <1>2 DEF LoadData
  <2>2. OlderThan(i)' = svalid \ os
    <3>1. \A s \in Slots : <<i, s>> \in older'
      BY <1>2, <1>5 DEF AgesMove
    <3>2. svalid' = svalid \ os
      BY <1>2, <1>5
    <3>3. QED
      BY <3>1, <3>2, <1>3 DEF OlderThan
  <2>3. ReadBy(what.width, what.addr) \subseteq Addrs
    BY DEF ReadBy
  <2>4. \A a \in Addrs : /\ AfterStores(arch, prog)[a] \in Vals
                         /\ IsValue(AfterStores(arch, prog)[a], a, svalid)
    BY GoalIsValue
  <2>5. ASSUME NEW a \in Addrs
        PROVE  NewValue(AfterStores(arch, prog)[a], a, svalid \ os)
    <3>1. svalid \in SUBSET svalid /\ os \subseteq svalid
      BY <1>2
    <3>2. QED
      BY <3>1, <2>4, ValueStays
  <2>6. QED
    BY <2>1, <2>2, <2>3, <2>4, <2>5 DEF Read
<1>6. ASSUME NEW i \in lvalid'
      PROVE  /\ goal'[i] \in [ReadBy(load'[i].width, load'[i].addr) -> Vals]
             /\ \A a \in DOMAIN goal'[i] : NewValue(goal'[i][a], a, OlderThan(i)')
  BY <1>4, <1>5
<1>7. QED
  BY <1>6 DEF GoalsFollow, IsValue, NewValue

\* And what the retired stores leave.
LEMMA ArchStep ==
  ASSUME LsqInv, NEW nl, NEW ol, NEW gl, NEW sl, NEW al, NEW ns, NEW rs, NEW gs, NEW os,
         NEW what, Moves(nl, ol, gl, sl, al, ns, rs, gs, os, what)
  PROVE  ArchFollows'
<1>1. RingFollows(ns, rs, os) /\ RingOrder(ns, rs, os)
  BY RingMoves DEF Moves
<1>2. /\ svalid' = (svalid \ os) \cup ns /\ ns \cap svalid = {} /\ rs \subseteq {Idx(mid)}
      /\ os \subseteq Live(head, mid) /\ rs \subseteq Live(mid, tail)
      /\ Live(head', mid') = (Live(head, mid) \ os) \cup rs
      /\ arch \in [Addrs -> Vals]
      /\ arch' = IF rs = {} THEN arch ELSE Apply(arch, Idx(mid))
      /\ \A s \in svalid' \ ns : store'[s] = store[s]
  BY <1>1 DEF Moves, StoreFlags, StoreData, RingFollows, LsqInv, LsqTypeOK
<1>3. /\ svalid = Live(head, mid) \cup Live(mid, tail)
      /\ Live(head, mid) \cap Live(mid, tail) = {}
  BY TwoParts DEF LsqInv, LsqTypeOK, StoreRing
<1>4. ASSUME NEW a \in Addrs
      PROVE  NewValue(arch'[a], a, Live(head', mid'))
  <2>1. NewValue(arch[a], a, Live(head, mid) \ os)
    <3>1. Live(head, mid) \in SUBSET svalid /\ IsValue(arch[a], a, Live(head, mid))
      BY <1>3 DEF LsqInv, ArchFollows
    <3>2. QED
      BY <3>1, <1>2, ValueStays
  <2>2. CASE rs = {}
    BY <2>1, <2>2, <1>2
  <2>3. CASE rs # {}
    <3> DEFINE r == Idx(mid)
               olds == Live(head, mid) \ os
    <3>1. rs = {r} /\ r \in svalid /\ r \notin os /\ r \notin ns /\ r \in svalid' \ ns
      BY <2>3, <1>2, <1>3
    <3>2. store'[r] = store[r] /\ arch' = [arch EXCEPT ![store[r].addr] = store[r].val]
      BY <2>3, <3>1, <1>2 DEF Apply
    <3>3. \A s \in olds : Age(head', s) < Age(head', r) /\ s \in Slots
      BY <3>1, <1>1 DEF RingOrder, Live
    <3>4. \A s \in Slots : Age(head', s) \in Int
      <4>1. head' \in Ptrs
        BY <1>1 DEF RingFollows
      <4>2. Dist(head', head') = 0 /\ Dist(head', head') <= N
        BY <4>1, DistanceType, RingSize
      <4>3. \A s \in Slots : Age(head', s) \in 0 .. N - 1
        BY <4>1, <4>2, AgeOrder
      <4>4. QED
        BY <4>3
    <3>5. r \in Slots /\ Live(head', mid') = olds \cup {r}
      <4>1. svalid \subseteq Slots
        BY DEF LsqInv, LsqTypeOK
      <4>2. QED
        BY <4>1, <3>1, <1>2
    <3> HIDE DEF r, olds
    <3>6. CASE store[r].addr = a
      <4>1. arch'[a] = store'[r].val
        BY <3>2, <3>6, <1>2
      <4>2. ASSUME NEW s \in olds \cup {r}, store'[s].addr = a,
                   \A t \in olds \cup {r} :
                     store'[t].addr = a => t = s \/ Age(head', t) < Age(head', s)
            PROVE  s = r
        <5>1. r = s \/ Age(head', r) < Age(head', s)
          BY <4>2, <3>2, <3>6
        <5>2. QED
          BY <5>1, <4>2, <3>3, <3>4, <3>5
      <4>3. r \in {s \in olds \cup {r} : store'[s].addr = a}
        BY <3>2, <3>6
      <4>4. QED
        BY <4>1, <4>2, <4>3, <3>5 DEF NewValue
    <3>7. CASE store[r].addr # a
      <4>1. arch'[a] = arch[a]
        BY <3>2, <3>7, <1>2
      <4>2. {s \in olds \cup {r} : store'[s].addr = a} = {s \in olds : store'[s].addr = a}
        BY <3>2, <3>7
      <4>3. NewValue(arch[a], a, olds)
        BY <2>1 DEF olds
      <4>4. NewValue(arch[a], a, olds \cup {r})
        BY <4>2, <4>3 DEF NewValue
      <4>5. QED
        BY <4>1, <4>4, <3>5
    <3>8. QED
      BY <3>6, <3>7
  <2>4. QED
    BY <2>2, <2>3
<1>5. QED
  BY <1>4 DEF ArchFollows, IsValue, NewValue

\* A load that is sent finds in memory what it has to return: no older store to what it
\* reads is left.
LEMMA SentGetGoal ==
  ASSUME LsqInv, NEW i \in LqIssueReady, ~LqSqHit(i)
  PROVE  Read(load[i].width, lhw[i], mem) = goal[i]
<1>1. /\ i \in lvalid \cap laddr /\ svalid \subseteq Slots
      /\ lhw[i] = load[i].addr /\ load[i] \in Loads
      /\ \A s \in svalid \cap saddr : shw[s] = store[s].addr
      /\ goal[i] \in [ReadBy(load[i].width, load[i].addr) -> Vals]
      /\ \A a \in DOMAIN goal[i] : IsValue(goal[i][a], a, OlderThan(i))
  BY DEF LqIssueReady, LsqInv, LsqTypeOK, AddressesAreOwn, GoalsFollow
<1>2. ASSUME NEW a \in ReadBy(load[i].width, load[i].addr)
      PROVE  goal[i][a] = mem[a]
  <2>1. ASSUME NEW s \in OlderThan(i), store[s].addr = a
        PROVE  FALSE
    <3>1. s \in svalid /\ <<i, s>> \in older /\ ~Conflicts(i, s)
      BY DEF OlderThan, LqSqHit
    <3>2. /\ shw[s] = a
          /\ ~(SameBlock(a, load[i].addr) /\ (load[i].width = "block" \/ a = load[i].addr))
      BY <3>1, <1>1, <2>1 DEF Conflicts
    <3>3. a \in Addrs /\ (a = load[i].addr \/ (load[i].width = "block" /\ SameBlock(a, load[i].addr)))
      BY DEF ReadBy
    <3>4. SameBlock(a, a)
      <4>1. PICK B \in Blocks : a \in B
        BY <3>3, LsqAssumption
      <4>2. QED
        BY <4>1 DEF SameBlock
    <3>5. QED
      BY <3>2, <3>3, <3>4
  <2>2. {s \in OlderThan(i) : store[s].addr = a} = {}
    BY <2>1
  <2>3. IsValue(goal[i][a], a, OlderThan(i))
    BY <1>1
  <2>4. QED
    BY <2>2, <2>3 DEF IsValue
<1>3. Read(load[i].width, lhw[i], mem) =
        [a \in ReadBy(load[i].width, load[i].addr) |-> mem[a]]
  BY <1>1 DEF Read
<1>4. QED
  BY <1>1, <1>2, <1>3

\* The cache is asked for what loads have to return, and so they return it.
LEMMA AnswersStep ==
  ASSUME LsqInv,
         NEW nl, NEW ol, NEW gl, NEW sl, NEW al, NEW ns, NEW rs, NEW gs, NEW os,
         NEW what, Moves(nl, ol, gl, sl, al, ns, rs, gs, os, what)
  PROVE  AskedFollow' /\ LoadsSeeProgramOrder'
<1>1. LoadFlags(nl, ol, gl, sl, al) /\ LoadData(nl, gl, sl, al, what)
  BY DEF Moves
<1>2. /\ lvalid \cap lcomplete \subseteq lissued
      /\ \A i \in LSlots : asked[i] # NoAnswer =>
           i \in (lvalid \cap lissued) \ lcomplete /\ asked[i] = goal[i]
      /\ \A i \in lvalid \cap lcomplete : ldata[i] = goal[i]
      /\ lvalid \subseteq LSlots
  BY DEF LsqInv, LsqTypeOK, LoadStages, AskedFollow, LoadsSeeProgramOrder
<1>3. al \subseteq (lvalid \cap lissued) \ lcomplete /\ \A i \in al : asked[i] = goal[i]
  BY <1>1, <1>2 DEF LoadFlags, Outstanding
<1>4. sl \subseteq lvalid \ lissued /\ sl \subseteq LSlots
      /\ \A i \in sl : Read(load[i].width, lhw[i], mem) = goal[i]
  BY <1>1, <1>2, SentGetGoal DEF LoadFlags, LqIssueReady
<1>5. ASSUME NEW i \in LSlots, asked'[i] # NoAnswer
      PROVE  i \in (lvalid' \cap lissued') \ lcomplete' /\ asked'[i] = goal'[i]
  <2>1. asked'[i] = IF i \in sl THEN Read(load[i].width, lhw[i], mem)
                    ELSE IF i \in al THEN NoAnswer ELSE asked[i]
    BY <1>1 DEF LoadData
  <2>2. CASE i \in sl
    <3>1. i \in lvalid \ lcomplete /\ i \notin al /\ i \notin nl /\ i \in lvalid' \ nl
      BY <2>2, <1>1, <1>2, <1>3, <1>4 DEF LoadFlags
    <3>2. goal'[i] = goal[i]
      BY <3>1, <1>1 DEF LoadData
    <3>3. i \in (lvalid' \cap lissued') \ lcomplete'
      BY <2>2, <3>1, <1>1 DEF LoadFlags
    <3>4. QED
      BY <2>1, <2>2, <3>2, <3>3, <1>4
  <2>3. CASE i \notin sl
    <3>1. i \notin al /\ asked'[i] = asked[i] /\ asked[i] # NoAnswer
      BY <2>1, <2>3, <1>5
    <3>2. i \in (lvalid \cap lissued) \ lcomplete /\ asked[i] = goal[i]
      BY <3>1, <1>2
    <3>3. i \in lvalid' \ nl
      BY <3>2, <1>1 DEF LoadFlags
    <3>4. goal'[i] = goal[i]
      BY <3>3, <1>1 DEF LoadData
    <3>5. i \in (lvalid' \cap lissued') \ lcomplete'
      BY <3>1, <3>2, <3>3, <1>1 DEF LoadFlags
    <3>6. QED
      BY <3>1, <3>2, <3>4, <3>5
  <2>4. QED
    BY <2>2, <2>3
<1>6. ASSUME NEW i \in lvalid' \cap lcomplete'
      PROVE  ldata'[i] = goal'[i]
  <2>1. i \in lvalid' \ nl /\ i \in lvalid /\ (i \in al \/ i \in lcomplete)
    BY <1>1, <1>3 DEF LoadFlags
  <2>2. goal'[i] = goal[i] /\ ldata'[i] = IF i \in al THEN asked[i] ELSE ldata[i]
    BY <2>1, <1>1 DEF LoadData
  <2>3. QED
    BY <2>1, <2>2, <1>2, <1>3
<1>7. QED
  BY <1>5, <1>6 DEF AskedFollow, LoadsSeeProgramOrder

\* Types are kept.
LEMMA TypeStep ==
  ASSUME LsqInv,
         NEW op, NEW woken, NEW ret, NEW ready, NEW ans, NEW wbok,
         Ordinary(op, woken, ret, ready, ans, wbok),
         NEW nl, NEW ol, NEW gl, NEW sl, NEW al, NEW ns, NEW rs, NEW gs, NEW os,
         NEW what, Moves(nl, ol, gl, sl, al, ns, rs, gs, os, what)
  PROVE  LsqTypeOK'
<1>1. RingFollows(ns, rs, os)
  BY RingMoves DEF Moves
<1>2. /\ LoadFlags(nl, ol, gl, sl, al) /\ LoadData(nl, gl, sl, al, what)
      /\ StoreFlags(ns, rs, gs, os) /\ StoreData(ns, rs, gs, os, what)
      /\ LsqTypeOK /\ prog' \in Seq(Events)
  BY DEF Moves, LsqInv, ProgMoves
<1>3. /\ LoadQueue(op, woken, FALSE, ready, ans, wbok)
      /\ StoreQueue(op, woken, ret, FALSE, ready)
      /\ DataCache(FALSE, ready, ans) /\ History(op, ret, FALSE, wbok)
  BY DEF Ordinary, LsqEdge
<1>4. svalid' \subseteq Slots /\ ns \cap svalid = {}
  <2>1. svalid' = Live(head', tail')
    BY <1>1 DEF RingFollows, StoreRing
  <2>2. QED
    BY <2>1, <1>1 DEF Live, RingFollows
<1>5. lvalid' \subseteq LSlots
  BY <1>2 DEF LoadFlags, LsqTypeOK
<1>6. head' \in Ptrs /\ mid' \in Ptrs /\ tail' \in Ptrs
  BY <1>1 DEF RingFollows
<1>7. lsel' \in LSlots \cup {None} /\ ssel' \in Slots \cup {None}
  BY <1>2 DEF LoadFlags, StoreFlags, LsqTypeOK
<1>8. load' \in [LSlots -> Loads \cup {NoLoad}] /\ \A i \in lvalid' : load'[i] \in Loads
  <2>1. ASSUME NEW i \in lvalid'
        PROVE  load'[i] \in Loads
    <3>1. i \in nl => load'[i] = what /\ what \in Loads
      BY <1>2 DEF LoadData
    <3>2. i \notin nl => load'[i] = load[i] /\ i \in lvalid
      BY <1>2 DEF LoadData, LoadFlags
    <3>3. QED
      BY <3>1, <3>2, <1>2 DEF LsqTypeOK
  <2>2. QED
    BY <2>1, <1>2 DEF LoadData
<1>9. store' \in [Slots -> Stores \cup {NoStore}] /\ \A s \in svalid' : store'[s] \in Stores
  <2>1. ASSUME NEW s \in svalid'
        PROVE  store'[s] \in Stores
    <3>1. s \in ns => store'[s] = what /\ what \in Stores
      BY <1>2 DEF StoreData
    <3>2. s \notin ns => store'[s] = store[s] /\ s \in svalid
      BY <1>2 DEF StoreData, StoreFlags
    <3>3. QED
      BY <3>1, <3>2, <1>2 DEF LsqTypeOK
  <2>2. QED
    BY <2>1, <1>2 DEF StoreData
<1>10. /\ DOMAIN lhw' = LSlots /\ DOMAIN ldata' = LSlots
       /\ DOMAIN asked' = LSlots /\ DOMAIN goal' = LSlots
  <2>1. DOMAIN lhw' = LSlots /\ DOMAIN ldata' = LSlots
    BY <1>3 DEF LoadQueue, KeptLoads
  <2>2. DOMAIN goal' = LSlots
    BY <1>3 DEF History, KeptLoads
  <2>3. DOMAIN asked' = LSlots
    BY <1>2, <1>3 DEF DataCache, Put, LsqTypeOK
  <2>4. QED
    BY <2>1, <2>2, <2>3
<1>11. DOMAIN shw' = Slots
  BY <1>3 DEF StoreQueue, KeptStores
<1>12. mem' \in [Addrs -> Vals] /\ arch' \in [Addrs -> Vals]
  <2>1. \A s \in Slots : store[s].val \in Vals
    BY <1>2 DEF LsqTypeOK, Stores, NoStore, Vals
  <2>2. Idx(head) \in Slots /\ Idx(mid) \in Slots
    BY <1>2, PointerTypes DEF LsqTypeOK
  <2>3. mem \in [Addrs -> Vals] /\ arch \in [Addrs -> Vals]
    BY <1>2 DEF LsqTypeOK
  <2>4. mem' \in [Addrs -> Vals]
    BY <2>1, <2>2, <2>3, <1>2 DEF StoreData
  <2>5. arch' \in [Addrs -> Vals]
    BY <2>1, <2>2, <2>3, <1>2 DEF StoreData, Apply
  <2>6. QED
    BY <2>4, <2>5
<1>13. QED
  BY <1>2, <1>4, <1>5, <1>6, <1>7, <1>8, <1>9, <1>10, <1>11, <1>12 DEF LsqTypeOK

\* An edge without a flush keeps the invariant.
LEMMA OrdinaryStep ==
  ASSUME LsqInv, NEW op, NEW woken, NEW ret, NEW ready, NEW ans, NEW wbok,
         Ordinary(op, woken, ret, ready, ans, wbok)
  PROVE  LsqInv'
<1> DEFINE nl == NewLoad(op)
           ol == OutLoad(wbok)
           sl == Sent(ready)
           al == Got(ans)
           ns == NewStore(op)
           rs == RetStore(ret)
           os == OutStore(ready)
<1>1. \A i, k \in nl : i = k
  BY DEF NewLoad, One
<1>2. nl = {} \/ ns = {}
  BY OfferKinds DEF Ordinary, NewLoad, NewStore, One, LqInsert, SqInsert
<1>3. empty' = FALSE
  BY DEF Ordinary, LsqEdge, EmptyAfter
<1>4. ProgMoves(nl, ol, ns, rs)
  BY ProgramMoves DEF NewLoad, OutLoad, NewStore, RetStore
<1>5. Moves(nl, ol, LoadGen, sl, al, ns, rs, StoreGen, os, op.what)
  <2>1. LoadFlags(nl, ol, LoadGen, sl, al) /\ LoadData(nl, LoadGen, sl, al, op.what)
    BY LoadFlagsMove, LoadDataMoves
  <2>2. StoreFlags(ns, rs, StoreGen, os) /\ StoreData(ns, rs, StoreGen, os, op.what)
    BY StoreFlagsMove, StoreDataMoves
  <2>3. AgesMove(nl, ns)
    BY MatricesMove
  <2>4. QED
    BY <2>1, <2>2, <2>3, <1>1, <1>2, <1>3, <1>4 DEF Moves
<1> HIDE DEF nl, ol, sl, al, ns, rs, os
<1>6. LsqTypeOK'
  BY <1>5, TypeStep
<1>7. StoreRing'
  BY <1>5, RingMoves DEF Moves, RingFollows
<1>8. QueuesFollow'
  BY <1>5, QueuesStep
<1>9. LoadStages' /\ ChosenWaits'
  BY <1>5, LoadStagesStep
<1>10. AddressesAreOwn'
  BY <1>5, AddressesStep
<1>11. AgesAreProgramOrder'
  BY <1>5, AgesStep
<1>12. GoalsFollow'
  BY <1>5, GoalsStep
<1>13. ArchFollows'
  BY <1>5, ArchStep
<1>14. AskedFollow' /\ LoadsSeeProgramOrder'
  BY <1>5, AnswersStep
<1>15. QED
  BY <1>6, <1>7, <1>8, <1>9, <1>10, <1>11, <1>12, <1>13, <1>14 DEF LsqInv

-----------------------------------------------------------------------------
(* A flush *)

\* What a flush leaves: the retired stores.
FlushMoves ==
  /\ lvalid' = {} /\ svalid' = svalid \cap sretired
  /\ head' = head /\ mid' = mid /\ tail' = mid
  /\ sbase' = sbase /\ saddr' = saddr /\ sretired' = sretired
  /\ \A s \in svalid' : store'[s] = store[s] /\ shw'[s] = shw[s]
  /\ lsel' \in LSlots \cup {None}
  /\ ssel' \in ((svalid \cap sbase) \ saddr) \cup {None}
  /\ mem' = mem /\ arch' = arch /\ prog' = << >>
  /\ asked' = [i \in LSlots |-> NoAnswer]
  /\ empty' = TRUE

\* The edge of a flush does that.
LEMMA FlushIsFlush ==
  ASSUME LsqInv, NEW op, LsqEdge(op, {}, FALSE, TRUE, FALSE, None, FALSE)
  PROVE  FlushMoves
<1>1. /\ LoadQueue(op, {}, TRUE, FALSE, None, FALSE) /\ StoreQueue(op, {}, FALSE, TRUE, FALSE)
      /\ AddrGen /\ DataCache(TRUE, FALSE, None) /\ History(op, FALSE, TRUE, FALSE)
      /\ empty' = EmptyAfter(TRUE)
      /\ lvalid \subseteq LSlots /\ svalid \subseteq Slots
  BY DEF LsqEdge, LsqInv, LsqTypeOK
<1>2. ~SqIssueBeat(TRUE, FALSE)
  BY DEF SqIssueBeat
<1>3. lvalid' = {}
  BY <1>1 DEF LoadQueue
<1>4. svalid' = svalid \cap sretired /\ head' = head /\ mid' = mid /\ tail' = mid
  BY <1>1, <1>2 DEF StoreQueue, SqValidAtFlush
<1>5. sbase' = sbase /\ saddr' = saddr /\ sretired' = sretired
  BY <1>1 DEF StoreQueue, Flag
<1>6. \A s \in svalid' : store'[s] = store[s] /\ shw'[s] = shw[s]
  BY <1>1, <1>4 DEF StoreQueue, KeptStores, Put
<1>7. lsel' \in LSlots \cup {None}
  <2>1. (lvalid \cap lbase) \ (laddr \cup {lsel}) \subseteq Nat
    BY <1>1, SlotsAreNumbers
  <2>2. QED
    BY <2>1, <1>1, GrantIsLeast DEF AddrGen
<1>8. ssel' \in ((svalid \cap sbase) \ saddr) \cup {None}
  <2>1. (svalid \cap sbase) \ (saddr \cup {ssel}) \subseteq Nat
    BY <1>1, SlotsAreNumbers
  <2>2. QED
    BY <2>1, <1>1, GrantIsLeast DEF AddrGen
<1>9. mem' = mem /\ arch' = arch /\ prog' = << >> /\ asked' = [i \in LSlots |-> NoAnswer]
  BY <1>1, <1>2 DEF DataCache, History
<1>10. empty' = TRUE
  BY <1>1 DEF EmptyAfter
<1>11. QED
  BY <1>3, <1>4, <1>5, <1>6, <1>7, <1>8, <1>9, <1>10 DEF FlushMoves

\* A flush keeps the invariant: what is left is retired.
LEMMA FlushStep ==
  ASSUME LsqInv, NEW op, LsqEdge(op, {}, FALSE, TRUE, FALSE, None, FALSE)
  PROVE  LsqInv'
<1>1. FlushMoves
  BY FlushIsFlush
<1>2. /\ LoadQueue(op, {}, TRUE, FALSE, None, FALSE) /\ StoreQueue(op, {}, FALSE, TRUE, FALSE)
      /\ History(op, FALSE, TRUE, FALSE)
      /\ LsqTypeOK /\ tail \in Ptrs
  BY DEF LsqEdge, LsqInv, LsqTypeOK
<1>3. /\ svalid \cap sretired = Live(head, mid) /\ head \in Ptrs /\ mid \in Ptrs
      /\ Dist(head, mid) \in Nat /\ Dist(head, mid) <= N /\ Dist(mid, mid) = 0
      /\ Live(mid, mid) = {}
  <2>1. /\ svalid \cap sretired = Live(head, mid) /\ head \in Ptrs /\ mid \in Ptrs
        /\ tail \in Ptrs
        /\ Dist(head, mid) + Dist(mid, tail) = Dist(head, tail) /\ Dist(head, tail) <= N
    BY DEF LsqInv, LsqTypeOK, StoreRing
  <2>2. /\ Dist(head, mid) \in Nat /\ Dist(mid, tail) \in Nat /\ Dist(head, tail) \in Nat
        /\ Dist(mid, mid) = 0
    BY <2>1, DistanceType, RingSize
  <2>3. Dist(head, mid) <= N
    BY <2>1, <2>2, RingSize
  <2>4. QED
    BY <2>1, <2>2, <2>3, EmptyRing
<1>4. LsqTypeOK'
  <2>1. /\ lvalid' \subseteq LSlots /\ svalid' \subseteq Slots
        /\ head' \in Ptrs /\ mid' \in Ptrs /\ tail' \in Ptrs
        /\ lsel' \in LSlots \cup {None} /\ ssel' \in Slots \cup {None}
        /\ mem' \in [Addrs -> Vals] /\ arch' \in [Addrs -> Vals]
        /\ prog' \in Seq(Events)
    BY <1>1, <1>2 DEF FlushMoves, LsqTypeOK
  <2>2. load' \in [LSlots -> Loads \cup {NoLoad}] /\ \A i \in lvalid' : load'[i] \in Loads
    BY <1>1, <1>2 DEF FlushMoves, LoadQueue, KeptLoads
  <2>3. store' \in [Slots -> Stores \cup {NoStore}] /\ \A s \in svalid' : store'[s] \in Stores
    BY <1>1, <1>2, <2>1 DEF FlushMoves, LsqTypeOK, StoreQueue, KeptStores
  <2>4. /\ DOMAIN lhw' = LSlots /\ DOMAIN ldata' = LSlots
        /\ DOMAIN asked' = LSlots /\ DOMAIN goal' = LSlots
    <3>1. DOMAIN lhw' = LSlots /\ DOMAIN ldata' = LSlots
      BY <1>2 DEF LoadQueue, KeptLoads
    <3>2. DOMAIN goal' = LSlots
      BY <1>2 DEF History, KeptLoads
    <3>3. DOMAIN asked' = LSlots
      BY <1>1 DEF FlushMoves
    <3>4. QED
      BY <3>1, <3>2, <3>3
  <2>5. DOMAIN shw' = Slots
    BY <1>2 DEF StoreQueue, KeptStores
  <2>6. QED
    BY <2>1, <2>2, <2>3, <2>4, <2>5 DEF LsqTypeOK
<1>5. StoreRing'
  BY <1>1, <1>3 DEF FlushMoves, StoreRing
<1>6. QueuesFollow'
  BY <1>1, <1>3 DEF FlushMoves, QueuesFollow, Held, Before
<1>7. LoadStages' /\ ChosenWaits'
  BY <1>1 DEF FlushMoves, LoadStages, ChosenWaits
<1>8. AddressesAreOwn'
  BY <1>1 DEF FlushMoves, AddressesAreOwn, LsqInv
<1>9. AgesAreProgramOrder' /\ GoalsFollow' /\ LoadsSeeProgramOrder'
  BY <1>1 DEF FlushMoves, AgesAreProgramOrder, GoalsFollow, LoadsSeeProgramOrder
<1>10. AskedFollow'
  BY <1>1 DEF FlushMoves, AskedFollow
<1>11. ArchFollows'
  <2>1. \A s \in Live(head, mid) : store'[s] = store[s]
    BY <1>1, <1>3 DEF FlushMoves
  <2>2. \A a \in Addrs : {s \in Live(head, mid) : store'[s].addr = a}
                         = {s \in Live(head, mid) : store[s].addr = a}
    BY <2>1
  <2>3. head' = head /\ mid' = mid /\ mem' = mem /\ arch' = arch
    BY <1>1 DEF FlushMoves
  <2>4. \A a \in Addrs : IsValue(arch[a], a, Live(head, mid))
    BY DEF LsqInv, ArchFollows
  <2>5. QED
    BY <2>1, <2>2, <2>3, <2>4 DEF ArchFollows, IsValue
<1>12. QED
  BY <1>4, <1>5, <1>6, <1>7, <1>8, <1>9, <1>10, <1>11 DEF LsqInv

-----------------------------------------------------------------------------
(* The theorems *)

\* It holds at the start.
LEMMA LsqInitInv ==
  ASSUME LsqInit
  PROVE  LsqInv
<1>1. 0 \in Ptrs /\ Dist(0, 0) = 0 /\ Live(0, 0) = {} /\ N \in Nat
  <2>1. 0 \in Ptrs
    BY RingSize DEF Ptrs
  <2>2. QED
    BY <2>1, DistanceType, EmptyRing, RingSize
<1>2. LsqTypeOK
  <2>1. 0 \in Vals
    BY DEF Vals
  <2>2. << >> \in Seq(Events)
    OBVIOUS
  <2>3. QED
    BY <1>1, <2>1, <2>2 DEF LsqInit, LsqTypeOK
<1>3. StoreRing
  BY <1>1 DEF LsqInit, StoreRing
<1>4. QueuesFollow
  BY <1>1 DEF LsqInit, QueuesFollow, Held, Before
<1>5. LoadStages /\ ChosenWaits /\ AddressesAreOwn /\ AgesAreProgramOrder /\ GoalsFollow
      /\ LoadsSeeProgramOrder
  BY DEF LsqInit, LoadStages, ChosenWaits, AddressesAreOwn, AgesAreProgramOrder, GoalsFollow,
         LoadsSeeProgramOrder
<1>6. AskedFollow
  BY DEF LsqInit, AskedFollow
<1>7. ArchFollows
  BY <1>1 DEF LsqInit, ArchFollows, IsValue
<1>8. QED
  BY <1>2, <1>3, <1>4, <1>5, <1>6, <1>7 DEF LsqInv

\* Every clock edge keeps the inductive invariant.
THEOREM LsqStepInv ==
  ASSUME LsqInv, [LsqNext]_lsqVars
  PROVE  LsqInv'
<1>1. CASE Cycle
  <2>1. PICK op, woken, ret, ready, ans, wbok :
               Ordinary(op, woken, ret, ready, ans, wbok)
    <3>1. PICK op \in Offers, woken \in Wakes, ret \in Rets, ready \in Readys(FALSE),
               ans \in Answering, wbok \in WbOks :
               LsqEdge(op, woken, ret, FALSE, ready, ans, wbok)
      BY <1>1 DEF Cycle, CycleWith
    <3>2. ready \in BOOLEAN /\ wbok \in BOOLEAN /\ ret \in {FALSE, CanRetire}
      BY DEF Readys, WbOks, Rets
    <3>3. Ordinary(op, woken, ret, ready, ans, wbok)
      BY <3>1, <3>2 DEF Ordinary
    <3>4. QED
      BY <3>3
  <2>2. QED
    BY <2>1, OrdinaryStep
<1>2. CASE FlushCycle
  BY <1>2, FlushStep DEF FlushCycle
<1>3. CASE UNCHANGED lsqVars
  <2>1. UNCHANGED lqVars /\ UNCHANGED sqVars /\ UNCHANGED <<empty, mem, asked, prog, arch, goal>>
    BY <1>3 DEF lsqVars
  <2>2. LsqTypeOK' /\ StoreRing' /\ LoadStages' /\ ChosenWaits' /\ AddressesAreOwn'
    BY <2>1 DEF lqVars, sqVars, LsqInv, LsqTypeOK, StoreRing, LoadStages, ChosenWaits,
       AddressesAreOwn
  <2>3. QueuesFollow'
    BY <2>1 DEF lqVars, sqVars, LsqInv, QueuesFollow
  <2>4. AgesAreProgramOrder'
    <3>1. \A e : Position(e)' = Position(e)
      BY <2>1 DEF Position
    <3>2. /\ lvalid' = lvalid /\ svalid' = svalid /\ younger' = younger /\ older' = older
          /\ sretired' = sretired
      BY <2>1 DEF lqVars, sqVars
    <3>3. QED
      BY <3>1, <3>2 DEF LsqInv, AgesAreProgramOrder
  <2>5. GoalsFollow' /\ ArchFollows'
    BY <2>1 DEF lqVars, sqVars, LsqInv, GoalsFollow, ArchFollows, OlderThan, IsValue
  <2>6. AskedFollow' /\ LoadsSeeProgramOrder'
    BY <2>1 DEF lqVars, sqVars, LsqInv, AskedFollow, LoadsSeeProgramOrder
  <2>7. QED
    BY <2>2, <2>3, <2>4, <2>5, <2>6 DEF LsqInv
<1>4. QED
  BY <1>1, <1>2, <1>3 DEF LsqNext

\* The inductive invariant holds in every state.
THEOREM LsqInvariance ==
  LsqSpec => []LsqInv
<1>1. LsqInit => LsqInv
  BY LsqInitInv
<1>2. LsqInv /\ [LsqNext]_lsqVars => LsqInv'
  BY LsqStepInv
<1>3. QED
  BY <1>1, <1>2, PTL DEF LsqSpec

\* A load returns what the last older store to each word left.
THEOREM LoadsSeeOlderStores ==
  LsqSpec => []LoadsSeeProgramOrder
<1>1. LsqInv => LoadsSeeProgramOrder
  BY DEF LsqInv
<1>2. QED
  BY <1>1, LsqInvariance, PTL

\* What the cache has performed and the retired stores in the ring make up the memory of
\* program order.
THEOREM MemoryFollowsRetirement ==
  LsqSpec => []MemoryIsArchitectural
<1>1. LsqInv => MemoryIsArchitectural
  <2> SUFFICES ASSUME LsqInv PROVE MemoryIsArchitectural
    OBVIOUS
  <2> DEFINE d == Dist(head, mid)
  <2>1. /\ head \in Ptrs /\ mid \in Ptrs /\ arch \in [Addrs -> Vals]
        /\ \A a \in Addrs : IsValue(arch[a], a, Live(head, mid))
    BY DEF LsqInv, LsqTypeOK, ArchFollows
  <2>2. d \in Nat /\ d <= N /\ N \in Nat
    <3>1. /\ Dist(head, mid) \in Nat /\ Dist(mid, tail) \in Nat /\ Dist(head, tail) \in Nat
      BY DistanceType, RingSize DEF LsqInv, LsqTypeOK
    <3>2. QED
      BY <3>1, RingSize DEF LsqInv, StoreRing
  <2>3. /\ \A n \in 1 .. d : Nth(head, n) \in Live(head, mid) /\ Age(head, Nth(head, n)) = n - 1
        /\ \A s \in Live(head, mid) : \E n \in 1 .. d : Nth(head, n) = s
    <3>1. /\ \A n \in 1 .. N : Nth(head, n) \in Slots /\ Age(head, Nth(head, n)) = n - 1
          /\ \A s \in Slots : Nth(head, Age(head, s) + 1) = s
          /\ \A s \in Slots : Age(head, s) \in 0 .. N - 1
      BY <2>1, <2>2, NthSlot, AgeOrder
    <3>2. \A n \in 1 .. d : Nth(head, n) \in Live(head, mid) /\ Age(head, Nth(head, n)) = n - 1
      BY <3>1, <2>2 DEF Live
    <3>3. ASSUME NEW s \in Live(head, mid)
          PROVE  \E n \in 1 .. d : Nth(head, n) = s
      <4>1. s \in Slots /\ Age(head, s) < d
        BY DEF Live
      <4>2. Age(head, s) + 1 \in 1 .. d
        BY <4>1, <3>1, <2>2
      <4>3. QED
        BY <4>1, <4>2, <3>1
    <3>4. QED
      BY <3>2, <3>3
  <2>4. DOMAIN Retired = 1 .. d /\ \A n \in 1 .. d : Retired[n] = <<"store", Nth(head, n)>>
    BY DEF Retired
  <2> HIDE DEF d
  <2>5. ASSUME NEW a \in Addrs
        PROVE  AfterStores(mem, Retired)[a] = arch[a]
    <3>1. \A n \in 1 .. d : n \in StoresTo(a, Retired) <=> store[Nth(head, n)].addr = a
      BY <2>4 DEF StoresTo
    <3>2. StoresTo(a, Retired) \subseteq 1 .. d
      BY <2>4 DEF StoresTo
    <3>3. CASE StoresTo(a, Retired) = {}
      <4>1. {s \in Live(head, mid) : store[s].addr = a} = {}
        BY <3>1, <3>3, <2>3
      <4>2. arch[a] = mem[a]
        BY <4>1, <2>1 DEF IsValue
      <4>3. QED
        BY <4>2, <3>3, <2>2, <2>4, AfterStoresIsLatest
    <3>4. CASE StoresTo(a, Retired) # {}
      <4>1. PICK k \in StoresTo(a, Retired) :
                   /\ \A l \in StoresTo(a, Retired) : l <= k
                   /\ AfterStores(mem, Retired)[a] = store[Retired[k][2]].val
        BY <3>4, <2>2, <2>4, AfterStoresIsLatest
      <4>2. k \in 1 .. d /\ Retired[k][2] = Nth(head, k)
        BY <3>2, <2>4
      <4>3. Nth(head, k) \in {s \in Live(head, mid) : store[s].addr = a}
        BY <4>2, <3>1, <2>3
      <4>4. ASSUME NEW t \in Live(head, mid), store[t].addr = a
            PROVE  t = Nth(head, k) \/ Age(head, t) < Age(head, Nth(head, k))
        <5>1. PICK n \in 1 .. d : Nth(head, n) = t
          BY <2>3
        <5>2. n <= k
          BY <5>1, <4>1, <4>4, <3>1
        <5>3. Age(head, t) = n - 1 /\ Age(head, Nth(head, k)) = k - 1
          BY <5>1, <4>2, <2>3
        <5>4. QED
          BY <5>1, <5>2, <5>3, <4>2, <2>2
      <4>5. arch[a] = store[Nth(head, k)].val
        BY <4>3, <4>4, <2>1 DEF IsValue
      <4>6. QED
        BY <4>1, <4>2, <4>5
    <3>5. QED
      BY <3>3, <3>4
  <2>6. AfterStores(mem, Retired) = [a \in Addrs |-> AfterStores(mem, Retired)[a]]
    BY DEF AfterStores
  <2>7. QED
    BY <2>1, <2>5, <2>6 DEF MemoryIsArchitectural
<1>2. QED
  BY <1>1, LsqInvariance, PTL

\* The age matrices are program order.
THEOREM AgesFollowProgramOrder ==
  LsqSpec => []AgesAreProgramOrder
<1>1. LsqInv => AgesAreProgramOrder
  BY DEF LsqInv
<1>2. QED
  BY <1>1, LsqInvariance, PTL

\* No address is left from an entry that a flush freed.
THEOREM AddressesFollowEntries ==
  LsqSpec => []AddressesAreOwn
<1>1. LsqInv => AddressesAreOwn
  BY DEF LsqInv
<1>2. QED
  BY <1>1, LsqInvariance, PTL
=============================================================================
