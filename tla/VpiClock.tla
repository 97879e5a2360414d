------------------------------ MODULE VpiClock ------------------------------
(***************************************************************************)
(* The DRAM's clock under an event-driven simulator, dramsim_vpi.cc.       *)
(* dramctl.v hands a register to the init task, which drives it: a         *)
(* callback on each change of the register turns the clock's own value     *)
(* over, clocks the DRAM on what it takes for a rising edge, and schedules *)
(* the next change.  Nothing compares that value with the register.        *)
(***************************************************************************)
EXTENDS Integers

CONSTANT LastEdge   \* bound: $finish has come by then

VARIABLES
  vpc,              \* "start", "run", "ended", "crashed"
  signal,           \* dramclk: 0, 1, or what it holds before it is driven
  due,              \* the value scheduled for it, or none
  dramclkVal,       \* dramclk_val
  dramsim,          \* "none", "ready", "deleted"
  finish,           \* startsim_cb has asked the simulator to stop
  edges, vclocks    \* changes of dramclk so far; clocks given to the DRAM

vpiVars == <<vpc, signal, due, dramclkVal, dramsim, finish, edges, vclocks>>

Unknown == 2        \* x, as a register without a reset
NotDue  == 3

\* (The first definition is a mutant: the clock starts low, as the signal will.)
ClkStart_Low == FALSE
ClkStart     == TRUE

VpiInit ==
  /\ vpc = "start" /\ signal = Unknown /\ due = NotDue
  /\ dramclkVal = ClkStart /\ dramsim = "none" /\ finish = FALSE
  /\ edges = 0 /\ vclocks = 0

\* dramclk_cb, with the memory system in state d.  A clock without a memory
\* system goes through a null pointer.
OnChange(d) ==
  /\ dramclkVal' = ~dramclkVal
  /\ vclocks' = IF dramclkVal' THEN vclocks + 1 ELSE vclocks
  /\ vpc' = IF dramclkVal' /\ d # "ready" THEN "crashed" ELSE "run"
  /\ due' = IF dramclkVal' THEN 0 ELSE 1

\* The simulator: a register takes a value, and a change calls the callback.
Drive(v, d) ==
  /\ signal' = v
  /\ IF v = signal
     THEN vpc' = "run" /\ due' = NotDue /\ UNCHANGED <<dramclkVal, vclocks, edges>>
     ELSE edges' = edges + 1 /\ OnChange(d)

\* startsim_cb: no configuration, a period that the simulator's precision
\* cannot express (the memory system is there, the delay stays zero), or
\* success.  init_calltf does not look at which, and drives the clock low.
StartSim(d, f) == dramsim' = d /\ finish' = f
InitTask ==
  /\ vpc = "start"
  /\ \/ StartSim("none", TRUE)
     \/ StartSim("ready", TRUE)
     \/ StartSim("ready", FALSE)
  /\ Drive(0, dramsim')

ClockChange ==
  /\ vpc = "run" /\ due # NotDue /\ edges < LastEdge
  /\ Drive(due, dramsim)
  /\ UNCHANGED <<dramsim, finish>>

\* endsim_cb, after a $finish of the design or the one startsim_cb asked for,
\* which may come before or after the changes that are due.
EndSim ==
  /\ vpc = "run"
  /\ vpc' = "ended" /\ dramsim' = "deleted"
  /\ UNCHANGED <<signal, due, dramclkVal, finish, edges, vclocks>>

VpiNext == InitTask \/ ClockChange \/ EndSim
VpiSpec == VpiInit /\ [][VpiNext]_vpiVars
-----------------------------------------------------------------------------
(* Properties *)

\* The clock's own value never gets out of step with the register: the DRAM
\* has had one clock for each rising edge of dramclk, and while the simulation
\* runs the next change is scheduled, the one that turns the register over
\* (dramclk_val is true at the start so that driving the register low counts
\* as a falling edge).
VpiClockInPhase ==
  vpc = "run" => /\ dramclkVal = (signal = 1)
                 /\ vclocks = edges \div 2
                 /\ due = 1 - signal
=============================================================================
