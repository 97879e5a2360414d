------------------------------- MODULE Window -------------------------------
(***************************************************************************)
(* What the in-order part of the core promises, with no ring, no pointers  *)
(* and no pipeline latches: a queue of instructions that finish in any     *)
(* order and leave from the front.                                         *)
(*                                                                         *)
(* window is the queue, oldest first.  out is what the retirement signals  *)
(* show in this cycle: nothing, or the front of the queue, finished.  An   *)
(* instruction leaves in the cycle after it was shown; one that redirects  *)
(* fetch takes the whole queue with it.                                    *)
(***************************************************************************)
EXTENDS Sequences, Naturals

CONSTANTS Size,            \* entries
          Kinds,           \* kinds of instruction
          Immediate,       \* the kinds that are finished on arrival
          Faulty,          \* of these, the ones that arrive with an exception
          OutcomesOf(_)    \* how an instruction of a kind can finish

VARIABLES window, out

Entry(k, d, o) == [kind |-> k, done |-> d, outcome |-> o]
Nothing == Entry("none", FALSE, "ok")

Redirects(e) == e.kind = "jalr" \/ e.outcome # "ok"

Init == window = << >> /\ out = Nothing

\* What stays in the queue after the instruction shown has left.
Rest == IF out = Nothing THEN window ELSE Tail(window)

\* At most one instruction finishes.
Finishings ==
  {Rest} \cup
  UNION {{[Rest EXCEPT ![i] = Entry(@.kind, TRUE, o)] : o \in OutcomesOf(Rest[i].kind)} :
           i \in {j \in DOMAIN Rest : ~Rest[j].done}}

\* At most one instruction arrives, behind the others.
Arrivals ==
  {Entry(k, k \in Immediate, IF k \in Faulty THEN "err" ELSE "ok") : k \in Kinds}

Advance ==
  /\ ~Redirects(out)
  /\ \E q \in Finishings :
       \/ window' = q
       \/ Len(window) < Size /\ \E e \in Arrivals : window' = Append(q, e)
  /\ \/ out' = Nothing
     \/ Rest # << >> /\ Rest[1].done /\ out' = Rest[1]

Squash == Redirects(out) /\ window' = << >> /\ out' = Nothing

Next == Advance \/ Squash

Spec == Init /\ [][Next]_<<window, out>>
=============================================================================
