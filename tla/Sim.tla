-------------------------------- MODULE Sim --------------------------------
(***************************************************************************)
(* The simulator's main program, top.cc, and the clock of its DRAM         *)
(* (dramsim_verilator.cc): it reads its options, holds reset for ten       *)
(* cycles and then ticks until the program on the core writes tohost.      *)
(* Every tick is one cycle of the core, of the wave dump, when one of the  *)
(* ranges the user asked for covers it, and as many clocks of the DRAM as  *)
(* fit into it.                                                            *)
(***************************************************************************)
EXTENDS Integers, Sequences, Functions

CONSTANTS Dumps,        \* what +dumpranges can be: sequences of ranges
          ClkUnit,      \* clk_unit: the length of a cycle in ps, 1000
          Periods,      \* clk_period: the DRAM's, from its configuration
          Junk,         \* what clk_elapsed, which is never set, can hold
          ClkWrap,      \* 2^32: clk_elapsed is a uint32_t
          ResetTicks,   \* 10
          LastTick      \* bound: the core has written tohost by then

\* clk_elapsed is an unsigned int: it has any value at first, and a clock unit
\* and a period together stay below its width.
ASSUME ClockAssumption ==
  /\ ClkUnit \in Nat /\ ClkWrap \in Nat /\ Junk \subseteq Nat
  /\ \A p \in Periods : p \in Nat \ {0} /\ ClkUnit + p <= ClkWrap

\* Two unsigned numbers for each range.
ASSUME DumpsAssumption == \A rs \in Dumps : rs \in Seq([base : Nat, len : Nat])

VARIABLES
  options,              \* the command line: dumpon, ranges, and whether +dramcfg and the files are good
  simpc,                \* "start", "reset", "run", "finished", "failed", "crashed", "exit"
  now,                  \* context->time()
  dumping, nextEvent, events,   \* dump_running, dump_next_event, dump_events
  dumped,               \* the cycles the dumper has seen
  period, elapsed,      \* clk_period, clk_elapsed
  clocks, clocks0       \* the DRAM's clocks so far, and after the first tick

clock == <<period, elapsed, clocks, clocks0>>
dump  == <<dumping, nextEvent, events, dumped>>
simVars == <<options, simpc, now, dump, clock>>

Never == -1             \* (uint64_t) -1ll
End(r) == r.base + r.len

SimInit ==
  /\ options \in [dumpon : BOOLEAN, ranges : Dumps, dramcfg : BOOLEAN, files : BOOLEAN]
  /\ options.dumpon \/ options.ranges = << >>
  /\ (options.dramcfg /\ options.files) \/ options.ranges = << >>
  /\ simpc = "start" /\ now = 0
  /\ dumping = FALSE /\ nextEvent = 0 /\ events = << >> /\ dumped = {}
  /\ period \in Periods /\ elapsed \in Junk
  /\ clocks = 0 /\ clocks0 = 0

\* open_argfile: a file that cannot be opened ends the program on the spot.
FileMissing ==
  /\ simpc = "start" /\ ~options.files
  /\ simpc' = "exit"
  /\ UNCHANGED <<options, now, dump, clock>>

\* DRAM::DRAM leaves early without a configuration.  Its members have no
\* initial values, so initialized() compares junk: the program may report the
\* error, or go on and clock a memory system that is not there.
NoDram ==
  /\ simpc = "start" /\ options.files /\ ~options.dramcfg
  /\ simpc' \in {"failed", "crashed"}
  /\ UNCHANGED <<options, now, dump, clock>>

\* init_dump_ranges, the check as it is written: a range is refused unless it
\* starts after the end of each that was named before it.
\* (The first definition is a mutant: the end of a range is not part of it.)
Overlap_Open(r, q) == (r.base < q.base /\ End(r) >= q.base) \/ r.base < End(q)
Overlap(r, q)      == (r.base < q.base /\ End(r) >= q.base) \/ r.base <= End(q)
Accepted(rs) == \A j \in 1 .. Len(rs) : \A i \in 1 .. j - 1 : ~Overlap(rs[j], rs[i])

BadRanges ==
  /\ simpc = "start" /\ options.files /\ options.dramcfg /\ options.dumpon
  /\ ~Accepted(options.ranges)
  /\ simpc' = "failed"
  /\ UNCHANGED <<options, now, dump, clock>>

\* Two events per range, in the order of their starts.
Sorted(rs) ==
  LET order == CHOOSE p \in Bijection(DOMAIN rs, DOMAIN rs) :
                 \A i, j \in DOMAIN rs : i < j => rs[p[i]].base <= rs[p[j]].base
  IN [i \in 1 .. Len(rs) |-> rs[order[i]]]
EventsOf(rs) ==
  [i \in 1 .. 2 * Len(rs) |->
     LET r == Sorted(rs)[(i + 1) \div 2] IN IF i % 2 = 1 THEN r.base ELSE End(r)]

StartDump ==
  LET rs == options.ranges
  IN IF options.dumpon /\ rs # << >>
     THEN dumping' = FALSE /\ nextEvent' = EventsOf(rs)[1] /\ events' = Tail(EventsOf(rs))
     ELSE dumping' = options.dumpon /\ nextEvent' = Never /\ UNCHANGED events

StartReset ==
  /\ simpc = "start" /\ options.files /\ options.dramcfg
  /\ options.dumpon => Accepted(options.ranges)
  /\ simpc' = "reset" /\ now' = 0
  /\ StartDump
  /\ UNCHANGED <<options, dumped, clock>>

\* tick: the dump is switched on or off by an event that is due now.
DumpTick ==
  /\ IF now = nextEvent
     THEN /\ dumping' = ~dumping
          /\ nextEvent' = IF events = << >> THEN Never ELSE Head(events)
          /\ events' = IF events = << >> THEN events ELSE Tail(events)
     ELSE UNCHANGED <<dumping, nextEvent, events>>
  /\ dumped' = IF dumping' THEN dumped \cup {now} ELSE dumped

\* DRAM::tick.  The remainder of a cycle is kept for the next one.
\* (The first definition is a mutant: every cycle starts the count again.)
Remainder_Lost(t) == 0
Remainder(t) == t % period
DramTick ==
  LET total == (elapsed + ClkUnit) % ClkWrap
  IN /\ elapsed' = Remainder(total)
     /\ clocks' = clocks + (total \div period)
     /\ clocks0' = IF now = 0 THEN total \div period ELSE clocks0
     /\ UNCHANGED period

Tick == /\ DumpTick /\ DramTick
        /\ now' = now + 1
        /\ UNCHANGED options

ResetTick ==
  /\ simpc = "reset" /\ Tick
  /\ simpc' = IF now' < ResetTicks THEN "reset" ELSE "run"

\* gotFinish is looked at between ticks.
RunTick ==
  /\ simpc = "run" /\ now < LastTick /\ Tick
  /\ simpc' \in {"run", "finished"}

SimNext == FileMissing \/ NoDram \/ BadRanges \/ StartReset \/ ResetTick \/ RunTick
SimSpec == SimInit /\ [][SimNext]_simVars
-----------------------------------------------------------------------------
(* Properties *)

Ticking == simpc \in {"reset", "run", "finished"}

\* A cycle that the user asked for.
Asked(t) == options.dumpon /\ (\/ options.ranges = << >>
                                \/ \E i \in 1 .. Len(options.ranges) :
                                     options.ranges[i].base <= t /\ t < End(options.ranges[i]))

\* What the user asked for is what is dumped, cycle by cycle: the ranges that
\* were accepted, all of the run without ranges, nothing without +dumpon.  One
\* queue of events and one toggle stand for all the ranges (top.cc), so an
\* event that is never due leaves every later range inverted.  Ranges of no
\* length do that, and are set aside here.
DumpFollowsRanges ==
  Ticking /\ (\A i \in 1 .. Len(options.ranges) : options.ranges[i].len > 0) =>
    dumped = {t \in 0 .. now - 1 : Asked(t)}

\* What the events still to come say: those before are in the past, the next ones in the
\* future, and one in two switches the dump on.
Past(all) == Len(all) - Len(events) - (IF nextEvent = Never THEN 0 ELSE 1)
EventsAreDue ==
  LET all == EventsOf(options.ranges)
  IN /\ events \in Seq(Nat) /\ Past(all) \in 0 .. Len(all)
     /\ nextEvent = Never => events = << >>
     /\ nextEvent # Never => nextEvent = all[Past(all) + 1] /\ now <= nextEvent
     /\ \A i \in 1 .. Len(events) : events[i] = all[Len(all) - Len(events) + i]
     /\ Past(all) > 0 => all[Past(all)] < now
     /\ dumping = (Past(all) % 2 = 1)
DumpInv ==
  /\ options.ranges \in Dumps /\ now \in Nat
  /\ simpc = "start" => dumped = {} /\ now = 0 /\ events = << >>
  /\ Ticking /\ options.dumpon => Accepted(options.ranges)
  /\ Ticking /\ (\A i \in 1 .. Len(options.ranges) : options.ranges[i].len > 0) =>
       /\ IF options.dumpon /\ options.ranges # << >> THEN EventsAreDue
          ELSE dumping = options.dumpon /\ nextEvent = Never
       /\ dumped = {t \in 0 .. now - 1 : Asked(t)}

\* After its first cycle, which starts from whatever clk_elapsed held, the
\* DRAM neither gains nor loses: it is always within one of its clock periods
\* of the core, however the two periods divide (DRAM::tick).
DramKeepsTime ==
  now >= 1 => LET behind == ((now - 1) * ClkUnit) - ((clocks - clocks0) * period)
              IN -period < behind /\ behind < period
=============================================================================
