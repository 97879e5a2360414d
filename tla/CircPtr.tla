------------------------------ MODULE CircPtr ------------------------------
(***************************************************************************)
(* The ring pointers of the core.  The reorder buffer, the store queue,    *)
(* the fetch buffer and the generic FIFO all keep an index register and a  *)
(* polarity bit, and increment the concatenation {pol, idx}.  A pointer is *)
(* therefore a number in 0 .. 2N-1: pol is p >= N, idx is p mod N.  Two    *)
(* equal indices mean "empty" when the polarities agree and "full" when    *)
(* they differ.                                                            *)
(***************************************************************************)
EXTENDS Integers

CONSTANT N   \* entries of the ring (128 in the reorder buffer)

ASSUME RingSize == N \in Nat \ {0, 1}

Slots == 0 .. N - 1
Ptrs  == 0 .. 2 * N - 1

Idx(p) == IF p >= N THEN p - N ELSE p
Inc_NoWrap(p) == p + 1   \* mutant: the polarity bit is not carried
Inc(p) == IF p = 2 * N - 1 THEN 0 ELSE p + 1
Dec(p) == IF p = 0 THEN 2 * N - 1 ELSE p - 1

IsFull(h, t) == Idx(h) = Idx(t) /\ h # t

\* How many entries lie between two pointers.
Dist(h, t) == IF t >= h THEN t - h ELSE t - h + 2 * N

\* The slot of the i-th entry, from the oldest one on.
Nth(h, i) == Idx(Idx(h) + i - 1)

\* How far behind the oldest entry a slot is.
Age(h, s) == IF s >= Idx(h) THEN s - Idx(h) ELSE s - Idx(h) + N

\* The slots in use when the oldest entry is at h and the next free one at t.
Live(h, t) == {s \in Slots : Age(h, s) < Dist(h, t)}
=============================================================================
