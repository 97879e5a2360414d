--------------------------- MODULE CircPtrProofs ---------------------------
(***************************************************************************)
(* What the ring pointers guarantee, for every size of ring.               *)
(***************************************************************************)
EXTENDS CircPtr, TLAPS

\* The pointer arithmetic stays in range.
LEMMA PointerTypes ==
  ASSUME NEW p \in Ptrs
  PROVE  /\ Idx(p) \in Slots
         /\ Inc(p) \in Ptrs /\ Dec(p) \in Ptrs
         /\ Dec(Inc(p)) = p /\ Inc(p) # p
BY RingSize, SMT DEF Ptrs, Slots, Idx, Inc, Dec

\* Distances are counts.
LEMMA DistanceType ==
  ASSUME NEW h \in Ptrs, NEW t \in Ptrs
  PROVE  /\ Dist(h, t) \in 0 .. 2 * N - 1
         /\ (Dist(h, t) = 0) <=> (h = t)
BY RingSize, SMT DEF Ptrs, Dist

\* A ring that never overfills is full exactly when it holds N entries: the
\* polarity bits are enough to tell full from empty.
LEMMA FullMeansN ==
  ASSUME NEW h \in Ptrs, NEW t \in Ptrs, Dist(h, t) <= N
  PROVE  IsFull(h, t) <=> Dist(h, t) = N
BY RingSize, SMT DEF Ptrs, Dist, IsFull, Idx

\* Taking the oldest entry out frees its slot and no other.
LEMMA TakeOldest ==
  ASSUME NEW h \in Ptrs, NEW t \in Ptrs, Dist(h, t) <= N, h # t
  PROVE  /\ Dist(Inc(h), t) = Dist(h, t) - 1
         /\ Idx(h) \in Live(h, t)
         /\ Live(Inc(h), t) = Live(h, t) \ {Idx(h)}
<1>1. Dist(Inc(h), t) = Dist(h, t) - 1
  BY RingSize, SMT DEF Ptrs, Dist, Inc
<1>2. Idx(h) \in Live(h, t)
  BY RingSize, SMT DEF Ptrs, Slots, Dist, Idx, Live, Age
<1>3. ASSUME NEW s \in Slots
      PROVE  Age(Inc(h), s) < Dist(Inc(h), t) <=> Age(h, s) < Dist(h, t) /\ s # Idx(h)
  BY <1>1, RingSize, SMT DEF Ptrs, Slots, Dist, Idx, Inc, Age
<1>4. QED
  BY <1>1, <1>2, <1>3 DEF Live

\* Putting an entry in uses the tail's slot, which was free.
LEMMA PutYoungest ==
  ASSUME NEW h \in Ptrs, NEW t \in Ptrs, Dist(h, t) < N
  PROVE  /\ Dist(h, Inc(t)) = Dist(h, t) + 1
         /\ h # Inc(t)
         /\ Idx(t) \notin Live(h, t)
         /\ Live(h, Inc(t)) = Live(h, t) \cup {Idx(t)}
<1>1. Dist(h, Inc(t)) = Dist(h, t) + 1 /\ h # Inc(t)
  BY RingSize, SMT DEF Ptrs, Dist, Inc
<1>2. Idx(t) \notin Live(h, t)
  BY RingSize, SMT DEF Ptrs, Slots, Dist, Idx, Live, Age
<1>3. ASSUME NEW s \in Slots
      PROVE  Age(h, s) < Dist(h, Inc(t)) <=> Age(h, s) < Dist(h, t) \/ s = Idx(t)
  BY <1>1, RingSize, SMT DEF Ptrs, Slots, Dist, Idx, Inc, Age
<1>4. Idx(t) \in Slots
  BY PointerTypes
<1>5. QED
  BY <1>1, <1>2, <1>3, <1>4 DEF Live

\* The youngest entry is in the slot before the tail; it is the oldest one too
\* only when it is alone.
LEMMA YoungestSlot ==
  ASSUME NEW h \in Ptrs, NEW t \in Ptrs, Dist(h, t) <= N, h # t
  PROVE  /\ Idx(Dec(t)) \in Live(h, t)
         /\ Idx(Dec(t)) = Idx(h) <=> Dist(h, t) = 1
<1>1. Idx(Dec(t)) \in Live(h, t)
  BY RingSize, SMT DEF Ptrs, Slots, Dist, Idx, Dec, Live, Age
<1>2. Idx(Dec(t)) = Idx(h) <=> Dist(h, t) = 1
  BY RingSize, SMT DEF Ptrs, Slots, Dist, Idx, Dec
<1>3. QED
  BY <1>1, <1>2

\* An empty ring uses no slot.
LEMMA EmptyRing ==
  ASSUME NEW p \in Ptrs
  PROVE  Live(p, p) = {}
BY RingSize, SMT DEF Ptrs, Slots, Dist, Idx, Live, Age

\* Ages order the slots from the oldest entry on: the youngest entry and the
\* next free slot come last, and the order outlives the oldest entry.
LEMMA AgeOrder ==
  ASSUME NEW h \in Ptrs, NEW t \in Ptrs, Dist(h, t) <= N
  PROVE  /\ \A s \in Slots : Age(h, s) \in 0 .. N - 1
         /\ \A s, u \in Slots : Age(h, s) = Age(h, u) => s = u
         /\ Age(h, Idx(h)) = 0
         /\ h # t => Age(h, Idx(Dec(t))) = Dist(h, t) - 1
         /\ Dist(h, t) < N => Age(h, Idx(t)) = Dist(h, t)
         /\ \A s \in Slots \ {Idx(h)} : Age(Inc(h), s) = Age(h, s) - 1
<1>1. /\ \A s \in Slots : Age(h, s) \in 0 .. N - 1
      /\ \A s, u \in Slots : Age(h, s) = Age(h, u) => s = u
      /\ Age(h, Idx(h)) = 0
  BY RingSize, SMT DEF Ptrs, Slots, Idx, Age
<1>2. h # t => Age(h, Idx(Dec(t))) = Dist(h, t) - 1
  BY RingSize, SMT DEF Ptrs, Dist, Idx, Dec, Age
<1>3. Dist(h, t) < N => Age(h, Idx(t)) = Dist(h, t)
  BY RingSize, SMT DEF Ptrs, Dist, Idx, Age
<1>4. \A s \in Slots \ {Idx(h)} : Age(Inc(h), s) = Age(h, s) - 1
  BY RingSize, SMT DEF Ptrs, Slots, Idx, Inc, Age
<1>5. QED
  BY <1>1, <1>2, <1>3, <1>4

\* The i-th entry from the oldest on, and the slot where the next one goes.
LEMMA NthSlot ==
  ASSUME NEW h \in Ptrs, NEW t \in Ptrs, Dist(h, t) <= N
  PROVE  /\ Nth(h, 1) = Idx(h)
         /\ \A i \in 1 .. N : Nth(h, i) \in Slots /\ Age(h, Nth(h, i)) = i - 1
         /\ \A s \in Slots : Nth(h, Age(h, s) + 1) = s
         /\ \A i \in 1 .. N - 1 : Nth(Inc(h), i) = Nth(h, i + 1)
         /\ Dist(h, t) < N => Nth(h, Dist(h, t) + 1) = Idx(t)
<1>1. /\ Nth(h, 1) = Idx(h)
      /\ \A i \in 1 .. N : Nth(h, i) \in Slots /\ Age(h, Nth(h, i)) = i - 1
  BY RingSize, SMT DEF Ptrs, Slots, Idx, Age, Nth
<1>2. \A s \in Slots : Nth(h, Age(h, s) + 1) = s
  BY RingSize, SMT DEF Ptrs, Slots, Idx, Age, Nth
<1>3. \A i \in 1 .. N - 1 : Nth(Inc(h), i) = Nth(h, i + 1)
  BY RingSize, SMT DEF Ptrs, Idx, Inc, Nth
<1>4. Dist(h, t) < N => Nth(h, Dist(h, t) + 1) = Idx(t)
  BY RingSize, SMT DEF Ptrs, Dist, Idx, Nth
<1>5. QED
  BY <1>1, <1>2, <1>3, <1>4

\* A ring whose entries between h and m differ from those between m and t: it is made
\* up of the two parts, and the ages of the second go on where the first ends.
LEMMA TwoParts ==
  ASSUME NEW h \in Ptrs, NEW m \in Ptrs, NEW t \in Ptrs,
         Dist(h, m) + Dist(m, t) = Dist(h, t), Dist(h, t) <= N
  PROVE  /\ Live(h, t) = Live(h, m) \cup Live(m, t)
         /\ Live(h, m) \cap Live(m, t) = {}
         /\ \A s \in Live(m, t) : Age(h, s) = Dist(h, m) + Age(m, s)
<1>1. /\ Dist(h, m) \in Nat /\ Dist(m, t) \in Nat /\ Dist(h, t) \in Nat
      /\ Dist(h, m) <= N
  <2>1. Dist(h, m) \in Nat /\ Dist(m, t) \in Nat /\ Dist(h, t) \in Nat
    BY DistanceType, RingSize
  <2>2. QED
    BY <2>1, RingSize
<1>2. ASSUME NEW s \in Slots, Age(m, s) < N - Dist(h, m)
      PROVE  Age(h, s) = Dist(h, m) + Age(m, s)
  BY <1>1, <1>2, RingSize, SMT DEF Ptrs, Slots, Dist, Idx, Age
<1>3. ASSUME NEW s \in Slots, Age(m, s) >= N - Dist(h, m)
      PROVE  Age(h, s) < Dist(h, m)
  BY <1>1, <1>3, RingSize, SMT DEF Ptrs, Slots, Dist, Idx, Age
<1>4. \A s \in Slots : Age(m, s) \in Nat /\ Age(h, s) \in Nat
  BY RingSize, SMT DEF Ptrs, Slots, Idx, Age
<1>5. ASSUME NEW s \in Slots
      PROVE  /\ s \in Live(h, t) <=> s \in Live(h, m) \/ s \in Live(m, t)
             /\ ~(s \in Live(h, m) /\ s \in Live(m, t))
             /\ s \in Live(m, t) => Age(h, s) = Dist(h, m) + Age(m, s)
  <2>1. s \in Live(m, t) => Age(m, s) < N - Dist(h, m)
    BY <1>1, <1>4, RingSize DEF Live
  <2>2. CASE Age(m, s) < N - Dist(h, m)
    BY <2>2, <1>2, <1>1, <1>4 DEF Live
  <2>3. CASE Age(m, s) >= N - Dist(h, m)
    <3>1. Age(h, s) < Dist(h, m) /\ s \in Live(h, m) /\ s \notin Live(m, t)
      BY <2>3, <2>1, <1>3, <1>1, <1>4, RingSize DEF Live
    <3>2. s \in Live(h, t)
      BY <3>1, <1>1, <1>4 DEF Live
    <3>3. QED
      BY <3>1, <3>2
  <2>4. QED
    BY <2>2, <2>3, <1>1, <1>4, RingSize
<1>6. QED
  BY <1>5 DEF Live

\* The pointer between the parts goes on through the ring, behind the tail.
LEMMA MiddleMoves ==
  ASSUME NEW h \in Ptrs, NEW m \in Ptrs, NEW t \in Ptrs,
         Dist(h, m) + Dist(m, t) = Dist(h, t), Dist(h, t) <= N, m # t
  PROVE  /\ Dist(h, Inc(m)) + Dist(Inc(m), t) = Dist(h, t)
         /\ Live(h, Inc(m)) = Live(h, m) \cup {Idx(m)}
         /\ Live(m, t) = Live(Inc(m), t) \cup {Idx(m)} /\ Idx(m) \notin Live(Inc(m), t)
<1>1. /\ Dist(h, m) \in Nat /\ Dist(m, t) \in Nat /\ Dist(h, t) \in Nat
      /\ Dist(m, t) # 0
  BY DistanceType
<1>2. Dist(h, m) < N /\ Dist(m, t) <= N
  BY <1>1, RingSize
<1>3. /\ Dist(h, Inc(m)) = Dist(h, m) + 1
      /\ Live(h, Inc(m)) = Live(h, m) \cup {Idx(m)}
  BY <1>2, PutYoungest
<1>4. /\ Dist(Inc(m), t) = Dist(m, t) - 1
      /\ Idx(m) \in Live(m, t)
      /\ Live(Inc(m), t) = Live(m, t) \ {Idx(m)}
  BY <1>2, TakeOldest
<1>5. QED
  BY <1>1, <1>3, <1>4
=============================================================================
