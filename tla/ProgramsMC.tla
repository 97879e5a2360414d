----------------------------- MODULE ProgramsMC -----------------------------
(***************************************************************************)
(* The instance that TLC checks of the programs of the repository that run *)
(* on the host (the hash set benchmark, the reference search, the          *)
(* simulator's main program and the clock of the DRAM under VPI) and of    *)
(* the bfs accelerator, which does the search in hardware.  They have      *)
(* nothing to do with each other: a behaviour runs one of them, chosen at  *)
(* the start, and the others have ended.                                   *)
(***************************************************************************)
EXTENDS HashSet, GraphBfs, Sim, VpiClock, BfsCore

\* Every choice of first slots; equal partial hashes, or one value that differs.
FirstVal == CHOOSE v \in Vals : TRUE
AllHashes ==
  [home : [Values -> Slots],
   phash : {[v \in Values |-> 0], [v \in Values |-> IF v = FirstVal THEN 0 ELSE 1]}]

\* Load factors 0.5 and 0.75 of four slots.
TwoTargets == <<2, 3>>

\* From one node to every node, then from another: nodes are alike.
TwoQueries == <<{0} \X Nodes, {<<1, 0>>}>>

\* Up to two ranges of at most two cycles; an order of three; lengths of zero.
RangeSet == [base : 0 .. 3, len : 0 .. 2]
SomeDumps == {<< >>} \cup {<<r>> : r \in RangeSet} \cup {<<r, q>> : r, q \in RangeSet}
             \cup {<<[base |-> 0, len |-> 1], [base |-> 2, len |-> 1], [base |-> 4, len |-> 2]>>}

OneTable == /\ hash = CHOOSE h \in Hashes : TRUE
            /\ arr = [i \in Slots |-> NoValue]

\* The programs that do not run have ended.
NoHashSet == Created /\ OneTable /\ stage = "done"
NoBfs     == EmptyGraph /\ phase = "done"
NoSim     == /\ options = [dumpon |-> FALSE, ranges |-> << >>, dramcfg |-> FALSE, files |-> FALSE]
             /\ simpc = "exit" /\ now = 0
             /\ dumping = FALSE /\ nextEvent = 0 /\ events = << >> /\ dumped = {}
             /\ period = 1 /\ elapsed = 0 /\ clocks = 0 /\ clocks0 = 0
NoVpi     == /\ vpc = "ended" /\ signal = Unknown /\ due = NotDue /\ dramclkVal = TRUE
             /\ dramsim = "deleted" /\ finish = TRUE /\ edges = 0 /\ vclocks = 0

NoBfsCore == Reset /\ bfsFault = "off"

Init == \/ HashSetInit /\ NoBfs /\ NoSim /\ NoVpi /\ NoBfsCore
        \/ NoHashSet /\ BfsInit /\ NoSim /\ NoVpi /\ NoBfsCore
        \/ NoHashSet /\ NoBfs /\ SimInit /\ NoVpi /\ NoBfsCore
        \/ NoHashSet /\ NoBfs /\ NoSim /\ VpiInit /\ NoBfsCore
        \/ NoHashSet /\ NoBfs /\ NoSim /\ NoVpi /\ BfsCoreInit

allVars == <<hsVars, bfsVars, simVars, vpiVars, bfsCoreVars>>
HostNext ==
  /\ \/ HashSetNext /\ UNCHANGED <<bfsVars, simVars, vpiVars>>
     \/ BfsNext /\ UNCHANGED <<hsVars, simVars, vpiVars>>
     \/ SimNext /\ UNCHANGED <<hsVars, bfsVars, vpiVars>>
     \/ VpiNext /\ UNCHANGED <<hsVars, bfsVars, simVars>>
  /\ UNCHANGED bfsCoreVars
Next == HostNext \/ (BfsCoreNext /\ UNCHANGED <<hsVars, bfsVars, simVars, vpiVars>>)

\* A program runs on; the accelerator's cache does what it can now and then.
Spec == Init /\ [][Next]_allVars /\ WF_allVars(HostNext) /\ WF_bfsCoreVars(Serves)

\* Every search ends, that of the reference program (ProgramEnded) and each one of the
\* accelerator (SearchOver).
SearchesEnd == []<>(ProgramEnded /\ SearchOver)
=============================================================================
