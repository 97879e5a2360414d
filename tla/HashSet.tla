------------------------------ MODULE HashSet ------------------------------
(***************************************************************************)
(* The hash set benchmark (perf/hashset.c): an open-addressing table with  *)
(* one metadata byte per slot (a tag bit and seven bits of the hash) and   *)
(* linear probing, and the main program that fills it to one load factor   *)
(* after the other and looks up values it has inserted and values it has   *)
(* not.                                                                    *)
(*                                                                         *)
(* One action is one iteration of a loop of the program; a probe sees one  *)
(* slot.  The hash function is any function: hash_fn's two results that    *)
(* matter, the first slot and the partial hash, are chosen at the start.   *)
(* So is the junk that malloc leaves in the value array.                   *)
(***************************************************************************)
EXTENDS Integers, Sequences, FiniteSets

CONSTANTS
  Cap,       \* capacity (table_size)
  Vals,      \* the values that may be inserted (rand() % VAL_RANGE)
  Far,       \* the values VAL_RANGE and above
  PHashes,   \* partial hashes (0 .. 127)
  Hashes,    \* the hash functions: records of home, the first slot, and phash
  Targets,   \* table_size * TARGET_LF[i], the sizes the table is filled to
  Samples    \* lookups per load factor (10000)

Slots  == 0 .. Cap - 1
Values == Vals \cup Far

ASSUME HashSetAssumption ==
  /\ Cap \in Nat \ {0}
  /\ Vals # {} /\ Vals \cap Far = {}
  /\ PHashes \subseteq 0 .. 127
  /\ Hashes \subseteq [home : [Values -> Slots], phash : [Values -> PHashes]]
  /\ Targets \in Seq(Nat) /\ Samples \in Nat

VARIABLES
  hash,             \* the hash function of this run
  arr, mdata,       \* set->arr, set->mdata
  size,             \* set->size
  elems,            \* the first elem_ct entries of elems
  level,            \* i of main's inner loop: the current load factor
  stage,            \* where the program is
  left,             \* iterations left of the loop that fills or samples
  op, val, idx,     \* the probe that runs: findNode or insertNode, val, hashIdx
  foundct,          \* found_ct of measure_perf
  answer            \* what findNode or insertNode returned last

table   == <<arr, mdata, size, elems>>
program == <<level, stage, left, op, val, idx, foundct, answer>>
hsVars  == <<hash, table, program>>

Free   == 0
Tag(v) == 128 + hash.phash[v]            \* (1 << 7) | partial hash
Tagged(i) == mdata[i] >= 128             \* mdata[i] >> 7

\* (The first definition is a mutant: the probe skips every other slot.)
After_Skip(i) == (i + 2) % Cap
After(i) == IF i + 1 = Cap THEN 0 ELSE i + 1

Stages == {"level", "fill", "sample", "probe", "done"}
NoValue == CHOOSE v \in Values : TRUE
Reply(o, v, y) == [op |-> o, val |-> v, yes |-> y]

\* The types of the table and of the running probe, which stays within the table.
TableTypeOK ==
  /\ hash \in Hashes
  /\ arr \in [Slots -> Values] /\ mdata \in [Slots -> {Free} \cup {128 + p : p \in PHashes}]
  /\ size \in Nat /\ elems \in Seq(Vals)
  /\ stage \in Stages
  /\ op \in {"insert", "find"} /\ val \in Values /\ idx \in Slots
  /\ stage = "probe" /\ op = "insert" => val \in Vals
  /\ answer \in [op : {"none", "insert", "find"}, val : Values, yes : BOOLEAN]

\* create_hashset: the metadata is cleared, the value array is not.
Created ==
  /\ hash \in Hashes
  /\ \E junk \in Values : arr = [i \in Slots |-> junk]
  /\ mdata = [i \in Slots |-> Free]
  /\ size = 0 /\ elems = << >>
  /\ level = 1 /\ left = 0
  /\ op = "find" /\ val = NoValue /\ idx = 0 /\ foundct = 0
  /\ answer = Reply("none", NoValue, FALSE)

HashSetInit == Created /\ stage = "level"

\* create_hashset aligns mdata to 32 bytes within cap + 31 bytes.
Padding(base) == (32 - (base % 32)) % 32

-----------------------------------------------------------------------------
(* main: one load factor *)

\* MAX_ELEM_CT, the number of insertions to try; measure_perf and the table's
\* end after the last load factor.
StartLevel ==
  /\ stage = "level"
  /\ IF level > Len(Targets)
     THEN stage' = "done" /\ UNCHANGED left
     ELSE stage' = "fill" /\ left' = Targets[level] - size
  /\ UNCHANGED <<hash, table, level, op, val, idx, foundct, answer>>

\* hash_fn, at the start of findNode and insertNode.
StartProbe(o, v) ==
  /\ stage' = "probe" /\ op' = o /\ val' = v /\ idx' = hash.home[v]

FillNext ==
  /\ stage = "fill" /\ left > 0
  /\ \E v \in Vals : StartProbe("insert", v)
  /\ left' = left - 1
  /\ UNCHANGED <<hash, table, level, foundct, answer>>

FillEnd ==
  /\ stage = "fill" /\ left = 0
  /\ stage' = "sample" /\ left' = Samples /\ foundct' = 0
  /\ UNCHANGED <<hash, table, level, op, val, idx, answer>>

\* measure_perf: even samples look up an inserted value, odd ones a value that
\* no insertion can have used.
Even(i) == i % 2 = 0
SampleNext ==
  /\ stage = "sample" /\ left > 0
  /\ IF Even(Samples - left)
     THEN \E n \in DOMAIN elems : StartProbe("find", elems[n])
     ELSE \E v \in Far : StartProbe("find", v)
  /\ left' = left - 1
  /\ UNCHANGED <<hash, table, level, foundct, answer>>

SampleEnd ==
  /\ stage = "sample" /\ left = 0
  /\ stage' = "level" /\ level' = level + 1
  /\ UNCHANGED <<hash, table, left, op, val, idx, foundct, answer>>

-----------------------------------------------------------------------------
(* findNode and insertNode *)

\* Back in the loop that called.
Return(y) ==
  /\ answer' = Reply(op, val, y)
  /\ stage' = IF op = "insert" THEN "fill" ELSE "sample"
  /\ UNCHANGED <<hash, level, left, op, val, idx>>

\* The slot is taken: the partial hashes and then the values are compared.
\* (The first two definitions are mutants: equal partial hashes are enough; an insertion
\* does not look for its value.)
Match_Partial(i) == mdata[i] = Tag(val)
Match_FindOnly(i) == op = "find" /\ mdata[i] = Tag(val) /\ arr[i] = val
Match(i) == mdata[i] = Tag(val) /\ arr[i] = val

ProbeNext ==
  /\ stage = "probe" /\ Tagged(idx) /\ ~Match(idx)
  /\ idx' = After(idx)
  /\ UNCHANGED <<hash, table, level, stage, left, op, val, foundct, answer>>

ProbeHit ==
  /\ stage = "probe" /\ Tagged(idx) /\ Match(idx)
  /\ Return(op = "find")
  /\ foundct' = IF op = "find" THEN foundct + 1 ELSE foundct
  /\ UNCHANGED table

\* The slot takes the partial hash and the value.
Store == mdata' = [mdata EXCEPT ![idx] = Tag(val)] /\ arr' = [arr EXCEPT ![idx] = val]

InsertFree ==
  /\ stage = "probe" /\ ~Tagged(idx) /\ op = "insert"
  /\ Store
  /\ size' = size + 1 /\ elems' = Append(elems, val)
  /\ Return(TRUE)
  /\ UNCHANGED foundct

FindFree ==
  /\ stage = "probe" /\ ~Tagged(idx) /\ op = "find"
  /\ Return(FALSE)
  /\ UNCHANGED <<table, foundct>>

Probe == ProbeNext \/ ProbeHit \/ InsertFree \/ FindFree
HashSetNext ==
  StartLevel \/ FillNext \/ FillEnd \/ SampleNext \/ SampleEnd \/ Probe

\* A sequential program: it runs on.
HashSetSpec == HashSetInit /\ [][HashSetNext]_hsVars
HashSetFairSpec == HashSetSpec /\ WF_hsVars(HashSetNext)
-----------------------------------------------------------------------------
(* Properties *)

Taken   == {i \in Slots : Tagged(i)}
Content == {arr[i] : i \in Taken}

\* Whatever the hash function, colliding partial hashes, wrapped probe chains
\* and junk in the value array: the table answers every insertion and lookup
\* like a set.
Ideal == INSTANCE ValueSet WITH content <- Content
ImplementsSet == Ideal!Spec

\* main computes the next number of insertions from set->size and measure_perf
\* draws from elems: both are exactly the slots in use, no value in two slots.
SizeIsContent ==
  /\ size = Cardinality(Taken)
  /\ Len(elems) = size /\ {elems[n] : n \in DOMAIN elems} = Content
  /\ Cardinality(Content) = size

\* The probe loops have no bound of their own: they end because the last load
\* factor leaves a slot free.
Finishes == <>(stage = "done")
-----------------------------------------------------------------------------
(* The inductive invariant: why the table answers like a set *)

\* How many slots a probe that starts at h passes before it comes to i.
Offset(h, i) == IF i >= h THEN i - h ELSE i - h + Cap

\* Between the first slot of a value and the slot it is in, no slot is free.
ProbeChains ==
  \A j \in Slots : Tagged(j) =>
    /\ mdata[j] = Tag(arr[j])
    /\ \A i \in Slots :
         Offset(hash.home[arr[j]], i) < Offset(hash.home[arr[j]], j) => Tagged(i)

\* The running probe has passed taken slots only, and not its value.
ProbePassed ==
  stage = "probe" =>
    \A i \in Slots : Offset(hash.home[val], i) < Offset(hash.home[val], idx) =>
      Tagged(i) /\ arr[i] # val

NoDuplicates ==
  \A i, j \in Slots : Tagged(i) /\ Tagged(j) /\ arr[i] = arr[j] => i = j

TableInv == TableTypeOK /\ ProbeChains /\ ProbePassed /\ NoDuplicates
=============================================================================
