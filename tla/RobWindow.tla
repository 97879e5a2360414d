----------------------------- MODULE RobWindow -----------------------------
(***************************************************************************)
(* The reorder buffer implements the abstract window: reading the ring     *)
(* from the head to the tail gives the queue, the retirement latch is what *)
(* the queue shows.                                                        *)
(***************************************************************************)
EXTENDS Rob, Sequences

EntryAt(i) ==
  LET s == Nth(head, i)
  IN [kind |-> kind[s], done |-> executed[s], outcome |-> outcome[s]]

windowBar == [i \in 1 .. Dist(head, tail) |-> EntryAt(i)]

outBar == IF retv THEN [kind |-> retk, done |-> TRUE, outcome |-> reto]
                  ELSE [kind |-> "none", done |-> FALSE, outcome |-> "ok"]

Abstract == INSTANCE Window WITH
  window <- windowBar, out <- outBar, Size <- N,
  Immediate <- {k \in Kinds : IsErr(k) \/ IsStore(k)},
  Faulty <- {k \in Kinds : IsErr(k)}

\* Every clock edge of the real pipeline is a step of the abstract window or
\* invisible to it: instructions leave in program order, once each, only when
\* finished, with the outcome their unit reported, and only the one leaving
\* squashes the rest (rob.v).
ImplementsWindow == Abstract!Spec
=============================================================================
