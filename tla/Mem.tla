-------------------------------- MODULE Mem --------------------------------
(***************************************************************************)
(* The memory system behind the core: the two level-2 caches (l2tag.v,     *)
(* l2data.v, l2trans.v; one for the core, one for the bfs accelerator),    *)
(* the snooping bus (bus.v), the memory controller (dramctl.v) over the    *)
(* DRAM glue (Dram), and the rom (rom.v).                                  *)
(*                                                                         *)
(* The bus works in rounds of eight cycles.  FirstHalf is what happens at  *)
(* the edges of cycles 0 to 3 of a round: the rom and the controller act   *)
(* on what they were given, the caches snoop, the controller takes the     *)
(* command.  SecondHalf is the edge of cycle 7: confirmations and the      *)
(* grant of the next round.  A cache has one way, and one access at a time *)
(* until its answer has been read; its data cache takes every invalidation *)
(* at once; OP_WR64 is left out.                                           *)
(***************************************************************************)
EXTENDS Dram, FiniteSets

CONSTANTS
  Masters,    \* the bus ids of the caches
  RomLines,   \* lines of rom
  MaxOps,     \* bound: accesses of all caches together
  None        \* no entry

VARIABLES
  op,        \* the access in s1 of l2tag.v: line, write and its progress
  way,       \* tagmem and the banks, for one way: line, state, data
  pend,      \* pend_cmd, pend_tag of l2tag.v
  req,       \* the request of l2data.v and l2trans.v: "data" until it can be sent
  snoop,     \* the flush for another cache; "data", "ready", "sent"
  rtag,      \* req_tag_r
  bus,       \* what is on the bus in this round
  turn,      \* req_pri_r: which cache goes first among requests
  half,      \* which half of the round comes next
  hit, nack, \* bus_hit_r and bus_nack_r, of any cache
  dnack, dcmd, dreq,   \* dramctl_bus_nack, cmd_*_r, dramctl_bus_req
  rcmd, rreq,          \* cmd_*_r and rom_bus_req of rom.v
  \* history
  nops,      \* accesses started
  latest,    \* stores to each line
  hurt,      \* caches whose read was nacked or not heard
  fault      \* what has gone wrong (see the end)

cacheVars == <<op, way, pend, req, snoop, rtag>>
busVars   == <<bus, turn, half, hit, nack, dnack, dcmd, dreq, rcmd, rreq>>
histVars  == <<nops, latest, hurt, fault>>
memVars   == <<cacheVars, busVars, histVars, dramVars>>

Ram    == 0 .. RamLines - 1
Rom    == RamLines .. RamLines + RomLines - 1
Lines  == Ram \cup Rom
NoTag  == -1
Tags   == Masters \X (0 .. 7)
Requests == {"BusRd", "BusRdX", "BusUpgr"}   \* the others are Fill and Flush
Data   == [Words -> Nat]

\* The registers: the access, what is pending, the request and the flush of a cache; the
\* bus; the commands that memory and rom have taken.
Commands  == Requests \cup {"Flush"}
Accesses  == [line : Lines, write : BOOLEAN, at : {"bank", "miss"}, upgr : BOOLEAN, evict : BOOLEAN]
Pending   == [cmd : Commands, tag : {NoTag} \cup 0 .. 7]
Sending   == [cmd : Commands, at : {"data", "ready", "sent"}, left : 0 .. 3, line : Lines, data : Data]
Flushes   == [tag : Tags, line : Lines, at : {"data", "ready", "sent"}, data : Data]
Rounds    == [cmd : Commands \cup {"Fill"}, tag : Tags, line : Lines, data : Data]
RomReads  == [tag : Tags, line : Lines]
DramTakes == [write : BOOLEAN, tag : Tags, line : Lines, data : Data]

ASSUME MemAssumption ==
  /\ RomLines \in Nat /\ RamLines + RomLines > 0 /\ MaxOps \in Nat
  /\ \E a \in Masters : \E b \in Masters \ {a} : Masters = {a, b}
  /\ Masters \cap {"rom", "dram", "nobody"} = {}
ASSUME NoneAssumption ==
  None \notin Accesses \cup Pending \cup Sending \cup Flushes \cup Rounds \cup RomReads \cup DramTakes

\* The data of a line after v stores: every word tells.
Content(v)  == [w \in Words |-> v * 2 * Dwords + w]
WordAddr(l) == 2 * Dwords * l

MemInit ==
  /\ op = [m \in Masters |-> None] /\ req = [m \in Masters |-> None]
  /\ pend = [m \in Masters |-> None] /\ snoop = [m \in Masters |-> None]
  /\ way = [m \in Masters |-> [line |-> 0, state |-> "I", data |-> Content(0)]]
  /\ rtag = [m \in Masters |-> 0]
  /\ bus = None /\ turn \in Masters /\ half = 0 /\ hit = FALSE /\ nack = FALSE
  /\ dnack = FALSE /\ dcmd = None /\ dreq = FALSE /\ rcmd = None /\ rreq = FALSE
  /\ nops = 0 /\ latest = [l \in Lines |-> 0]
  /\ hurt = {} /\ fault = {}
  /\ DramInit([a \in 0 .. Dwords * RamLines - 1 |-> Packed(Content(0))[a % Dwords]])

-----------------------------------------------------------------------------
(* An access and its request *)

Holds(m, l) == way[m].state # "I" /\ way[m].line = l

\* The first cycle in s1.  A hit goes on to the banks ("bank"), a miss waits.
Checked(m, l, write) ==
  LET here  == Holds(m, l)
      upgr  == here /\ write /\ way[m].state = "S"
  IN [line |-> l, write |-> write,
      at    |-> IF here /\ ~upgr THEN "bank" ELSE "miss",
      upgr  |-> upgr,
      evict |-> ~here /\ way[m].state = "M"]

\* The caches of MS write the banks: the states are not looked at again.
Performed(MS) ==
  LET stores == {m \in MS : op[m].write}
  IN latest' = [l \in Lines |-> latest[l] + Cardinality({m \in stores : op[m].line = l})]
\* A store changes some of the line: a copy that lacks other stores goes on lacking them.
Stored(m, l) == IF way[m].data = Content(latest[l]) THEN Content(latest[l] + 1) ELSE way[m].data
NewData(m, stores) == IF m \in stores /\ op[m].write THEN Stored(m, op[m].line) ELSE way[m].data

\* Rom is not written.
Start(m) ==
  /\ op[m] = None /\ nops < MaxOps
  /\ \E l \in Lines, write \in BOOLEAN :
       /\ write => l \in Ram
       /\ LET a == Checked(m, l, write)
          IN IF a.at = "miss"
             THEN op' = [op EXCEPT ![m] = a] /\ UNCHANGED <<latest, way>>
             ELSE /\ UNCHANGED op
                  /\ latest' = IF write THEN [latest EXCEPT ![l] = @ + 1] ELSE latest
                  /\ way' = IF write THEN [way EXCEPT ![m].data = Stored(m, l)] ELSE way
  /\ nops' = nops + 1
  /\ UNCHANGED <<pend, req, snoop, rtag, busVars, hurt, fault, dramVars>>

\* A request is in l2data.v in the first half of at most so many rounds; one with data,
\* of eight beats behind at most one flush of eight, of at least one less.
Burst == IF half = 0 THEN 3 ELSE 2

\* l2tag_req_cmd: first the eviction, then the read or the upgrade.
Command(a) == IF a.evict THEN "Flush" ELSE IF a.upgr THEN "BusUpgr"
              ELSE IF a.write THEN "BusRdX" ELSE "BusRd"
Waits(m) == op[m] # None /\ op[m].at = "miss" /\ pend[m] = None /\ req[m] = None
Schedule(m) ==
  /\ Waits(m)
  /\ LET cmd == Command(op[m])
     IN /\ pend' = [pend EXCEPT ![m] = [cmd |-> cmd, tag |-> NoTag]]
        /\ req' = [req EXCEPT ![m] =
             [cmd |-> cmd, at |-> "data", left |-> Burst, data |-> way[m].data,
              line |-> IF cmd = "Flush" THEN way[m].line ELSE op[m].line]]
  /\ UNCHANGED <<op, way, snoop, rtag, busVars, histVars, dramVars>>

\* It has reached l2trans.v with all its data.
Ready(m) ==
  /\ req[m] # None /\ req[m].at = "data"
  /\ req[m].cmd = "Flush" => req[m].left <= 1
  /\ req' = [req EXCEPT ![m] = [@ EXCEPT !.at = "ready", !.left = 0]]
  /\ UNCHANGED <<op, way, pend, snoop, rtag, busVars, histVars, dramVars>>

-----------------------------------------------------------------------------
(* The first half of a round *)

OnBus(cmds) == bus # None /\ bus.cmd \in cmds

Snooped(m) == bus # None /\ (bus.tag[1] # m \/ bus.cmd \in {"Fill", "Flush"})
SnoopHit(m) == Snooped(m) /\ Holds(m, bus.line)
Invalidates(m) == SnoopHit(m) /\ bus.cmd \in {"BusRdX", "BusUpgr"}
Gives(m) == SnoopHit(m) /\ (\/ bus.cmd \in {"BusRd", "BusRdX"}
                            \/ bus.cmd = "BusUpgr" /\ way[m].state = "M")
Fills(m) == Snooped(m) /\ pend[m] # None /\ pend[m].tag # NoTag
              /\ bus.tag = <<m, pend[m].tag>>

\* (The mutant lets reads of a line pass that is being read to be written.)
PendConflict_Reads(m) ==
  /\ Snooped(m) /\ bus.cmd \in Requests \ {"BusRd"}
  /\ pend[m] # None /\ pend[m].tag # NoTag /\ pend[m].cmd \in {"BusRd", "BusRdX"}
  /\ op[m] # None /\ op[m].line = bus.line
PendConflict(m) ==
  /\ Snooped(m) /\ bus.cmd \in Requests
  /\ pend[m] # None /\ pend[m].tag # NoTag /\ pend[m].cmd \in {"BusRd", "BusRdX"}
  /\ op[m] # None /\ op[m].line = bus.line

\* An eviction on its way; in l2trans.v only invalidations are compared with it.
FlushConflict(m) ==
  /\ Snooped(m) /\ bus.cmd \in Requests
  /\ req[m] # None /\ req[m].cmd = "Flush" /\ req[m].line = bus.line
  /\ req[m].at = "data" \/ Invalidates(m)

\* Another cache takes the line of an upgrade: the access goes on as one.
UpgradeLost(m) == Invalidates(m) /\ op[m] # None /\ op[m].upgr /\ op[m].line = bus.line
\* Its request becomes a read, if l2tag.v has made it by then.
Converted(m) == Invalidates(m) /\ req[m] # None /\ req[m].cmd = "BusUpgr"
                  /\ req[m].line = bus.line

\* The slot for a flush is taken.
Busy(m) == Gives(m) /\ snoop[m] # None

NewNack == \E m \in Masters : Busy(m) \/ PendConflict(m) \/ FlushConflict(m)
NewHit  == \E m \in Masters : SnoopHit(m)

Snoop(m) == IF Gives(m) /\ ~Busy(m)
            THEN [tag |-> bus.tag, line |-> bus.line, data |-> way[m].data, at |-> "data"]
            ELSE IF snoop[m] # None /\ snoop[m].at = "data"
                 THEN [snoop[m] EXCEPT !.at = "ready"] ELSE snoop[m]

\* The store of an access whose line has come goes to the banks in the round after
\* the fill, behind the reads of a flush.
ToBanks == {m \in Masters : op[m] # None /\ op[m].at = "bank" /\ ~(Gives(m) /\ ~Busy(m))}

\* A line that was read is in state F, which every test treats as S: one state here.
StateAfter(m) ==
  CASE SnoopHit(m) /\ bus.cmd = "BusRd" -> "S"
    [] Invalidates(m) -> "I"
    [] Fills(m) -> IF op[m] # None /\ op[m].write THEN "M" ELSE "S"
    [] OTHER -> way[m].state
\* A fill is written to the banks after what waits for them.
WayAfter(m) ==
  [line  |-> IF Fills(m) THEN bus.line ELSE way[m].line,
   state |-> StateAfter(m),
   data  |-> IF Fills(m) THEN bus.data ELSE NewData(m, ToBanks)]

\* rom.v looks at the bus in cycle 0, with the hit and nack of the round before.
RomHears == /\ OnBus({"BusRd", "BusRdX"}) /\ bus.line \in Rom
            /\ ~nack /\ ~dnack /\ ~hit

\* dramctl.v looks in cycle 3, with its own nack of the round before.
\* (The mutant does not look at the caches' hit.)
DramHears_Hit == /\ OnBus({"BusRd", "BusRdX", "Flush"}) /\ bus.line \in Ram
                 /\ ~NewNack /\ ~dnack
DramHears == /\ OnBus({"BusRd", "BusRdX", "Flush"}) /\ bus.line \in Ram
             /\ ~NewNack /\ ~dnack
             /\ ~NewHit \/ bus.cmd = "Flush"

RomRead == /\ rreq' = (RomHears \/ rcmd # None)
           /\ rcmd' = IF RomHears /\ rcmd = None
                      THEN [tag |-> bus.tag, line |-> bus.line] ELSE rcmd

DramCommand(ready) ==
  /\ IF dcmd = None THEN UNCHANGED dramVars
     ELSE CmdData(dcmd.write, dcmd.tag, WordAddr(dcmd.line), dcmd.data)
  /\ dnack' = (DramHears /\ ~ready)
  /\ dcmd' = IF DramHears /\ ready
             THEN [write |-> bus.cmd = "Flush", tag |-> bus.tag, line |-> bus.line, data |-> bus.data]
             ELSE None

\* An access that enters s1 at the edge at which a snoop writes tagmem has read the
\* state from before.
StaleStart(m, l, write) ==
  /\ op[m] = None /\ nops < MaxOps /\ (write => l \in Ram)
  /\ StateAfter(m) # way[m].state
  /\ op' = [op EXCEPT ![m] = Checked(m, l, write)]
  /\ nops' = nops + 1

\* Reads that nobody will answer.
NotHeard ==
  IF OnBus({"BusRd", "BusRdX"}) /\ ~NewNack /\ ~NewHit
     /\ (IF bus.line \in Rom THEN ~RomHears ELSE dnack)
  THEN {bus.tag[1]} ELSE {}
\* The steps after which this design, as it is written, no longer keeps its promises;
\* each is recorded, and the properties speak of the behaviours without them.
\*   write not taken:    a flush that the controller nacks, or misses after its own nack,
\*                       is not repeated (the nack of the round before is looked at);
\*   upgrade lost:       another cache took the line: the access still ends as an upgrade;
\*   store overtaken:    a flush reads the banks before the store behind a fill is there;
\*   tag in use:         the library still has a write with the same tag, eight requests ago;
\*   second flush:       the slot of l2data.v for a second flush is not modelled;
\*   stale tags:         an access has read the state from before a snoop wrote it;
\*   not really granted: a grant to a cache whose flush is on the bus is not seen;
\*   upgrade nacked:     the nack is not seen and the line becomes M.
FirstFaults(ready) ==
     {f \in {"write not taken"} :
        OnBus({"Flush"}) /\ bus.line \in Ram /\ ~(DramHears /\ ready)}
\cup {f \in {"upgrade lost"} : \E m \in Masters : UpgradeLost(m)}
\cup {f \in {"store overtaken"} :
        \E m \in Masters : /\ op[m] # None /\ op[m].at = "bank" /\ op[m].write
                          /\ Gives(m) /\ ~Busy(m) /\ op[m].line = bus.line}
\cup {f \in {"tag in use"} : dcmd # None /\ dcmd.write /\ dcmd.tag \in DOMAIN write_queue}
\cup {f \in {"second flush"} : \E m \in Masters : Busy(m)}

FirstHalf(ready) ==
  /\ half = 0 /\ half' = 1
  /\ \A m \in Masters : req[m] # None /\ req[m].at = "data" => req[m].left > 0
  /\ RomRead /\ DramCommand(ready)
  /\ hit' = NewHit /\ nack' = NewNack
  /\ snoop' = [m \in Masters |-> Snoop(m)]
  /\ Performed(ToBanks)
  /\ way' = [m \in Masters |-> WayAfter(m)]
  /\ pend' = [m \in Masters |->
                IF Fills(m) THEN None
                ELSE IF Converted(m) /\ req[m].at # "data" THEN [pend[m] EXCEPT !.cmd = "BusRdX"]
                ELSE pend[m]]
  /\ req' = [m \in Masters |->
               IF req[m] = None THEN None
               ELSE [req[m] EXCEPT !.cmd = IF Converted(m) THEN "BusRdX" ELSE @,
                                   !.left = IF req[m].at = "data" THEN @ - 1 ELSE @]]
  /\ hurt' = hurt \cup NotHeard
  /\ \/ /\ op' = [m \in Masters |->
                    IF m \in ToBanks THEN None
                    ELSE IF Fills(m) /\ op[m] # None THEN [op[m] EXCEPT !.at = "bank"]
                    ELSE op[m]]
        /\ fault' = fault \cup FirstFaults(ready)
        /\ UNCHANGED nops
     \/ /\ \E m \in Masters, l \in Lines, write \in BOOLEAN : StaleStart(m, l, write)
        /\ fault' = fault \cup FirstFaults(ready) \cup {"stale tags"}
  /\ UNCHANGED <<rtag, bus, turn, dreq>>

-----------------------------------------------------------------------------
(* The second half: confirmations, and the grant of the next round *)

Sent(m) == req[m] # None /\ req[m].at = "sent"
\* req_sent_r stays when the command is nacked.
Confirmed(m) == Sent(m) /\ ~nack /\ ~dnack

SnoopReady(m) == snoop[m] # None /\ snoop[m].at = "ready"
SnoopSent(m)  == snoop[m] # None /\ snoop[m].at = "sent"
ReqReady(m)   == req[m] # None /\ req[m].at = "ready"

\* l2_bus_req, and whether the command shown with it is a response.  While a flush is
\* on the bus it is the flush; without a request it is any old command.
BusReq(m) == SnoopReady(m) \/ (ReqReady(m) /\ (snoop[m] = None \/ SnoopSent(m)))
ShowsResponse(m) == IF SnoopSent(m) THEN {TRUE}
                    ELSE IF req[m] = None \/ req[m].at = "data" THEN BOOLEAN
                    ELSE {req[m].cmd = "Flush"}

\* Responses go before requests.  Among responses the bus chooses by a count of its own,
\* which is left open here; of two requests the one whose turn it is goes first.
Responding(resp) == {m \in Masters : BusReq(m) /\ resp[m]}
                     \cup {s \in {"rom"} : rreq} \cup {s \in {"dram"} : dreq}
Grants(resp) ==
  LET masters == {m \in Masters : BusReq(m)}
  IN IF Responding(resp) # {} THEN Responding(resp)
     ELSE IF turn \in masters THEN {turn}
     ELSE IF masters # {} THEN masters ELSE {"nobody"}

\* The first dword, again and again: the index moves only while the request is sent.
Repeated(data) == [w \in Words |-> data[w % 2]]

Grant(g) ==
  /\ bus' = IF g = "nobody" THEN None
            ELSE IF g = "rom" THEN [cmd |-> "Fill", tag |-> rcmd.tag, line |-> rcmd.line, data |-> Content(0)]
            ELSE IF g = "dram" THEN [cmd |-> "Fill", tag |-> RespData.tag,
                                     line |-> RespData.word \div (2 * Dwords), data |-> RespData.data]
            ELSE IF SnoopReady(g) THEN [cmd |-> "Flush", tag |-> snoop[g].tag, line |-> snoop[g].line,
                                        data |-> snoop[g].data]
            ELSE [cmd |-> req[g].cmd, tag |-> <<g, rtag[g]>>, line |-> req[g].line,
                  data |-> IF SnoopSent(g) THEN Repeated(req[g].data) ELSE req[g].data]
  /\ rcmd' = IF g = "rom" THEN None ELSE rcmd
  /\ IF g = "dram" THEN RespPop ELSE UNCHANGED dramVars
  /\ dreq' = (read_queue' # << >>)
  \* A flush that was on the bus is done, nacked or not.
  /\ snoop' = [m \in Masters |-> IF SnoopSent(m) THEN None
                                  ELSE IF m = g /\ SnoopReady(m) THEN [snoop[m] EXCEPT !.at = "sent"]
                                  ELSE snoop[m]]
  /\ req' = [m \in Masters |-> IF Confirmed(m) THEN None
                                ELSE IF m = g /\ snoop[m] = None THEN [req[m] EXCEPT !.at = "sent"]
                                ELSE req[m]]

\* l2trans_valid.  An upgrade has ended: its store goes to the banks.
ConfirmOp(a) == IF a.evict THEN [a EXCEPT !.evict = FALSE] ELSE IF a.upgr THEN None ELSE a
ConfirmPend(m) == IF pend[m].cmd \in {"BusRd", "BusRdX"}
                  THEN [pend[m] EXCEPT !.tag = rtag[m]] ELSE None
Upgraded(m) == Confirmed(m) /\ op[m].upgr /\ ~op[m].evict

SecondHalf ==
  /\ half = 1 /\ half' = 0
  /\ ~\E m \in Masters : Waits(m)
  /\ \E resp \in [Masters -> BOOLEAN] :
       /\ \A m \in Masters : resp[m] \in ShowsResponse(m)
       /\ \E g \in Grants(resp) :
            /\ Grant(g)
            /\ turn' = IF Responding(resp) = {} /\ g # "nobody"
                       THEN CHOOSE m \in Masters : m # turn ELSE turn
            /\ fault' = fault
                 \cup {f \in {"not really granted"} : g \in Masters /\ SnoopSent(g)}
                 \cup {f \in {"upgrade nacked"} :
                        (nack \/ dnack) /\ \E m \in Masters : Sent(m) /\ req[m].cmd = "BusUpgr"}
  /\ op' = [m \in Masters |-> IF Confirmed(m) THEN ConfirmOp(op[m]) ELSE op[m]]
  /\ pend' = [m \in Masters |-> IF Confirmed(m) THEN ConfirmPend(m) ELSE pend[m]]
  /\ rtag' = [m \in Masters |-> IF Confirmed(m) THEN (rtag[m] + 1) % 8 ELSE rtag[m]]
  /\ Performed({m \in Masters : Upgraded(m)})
  /\ way' = [m \in Masters |->
               [way[m] EXCEPT !.state = IF Confirmed(m) /\ pend[m].cmd = "BusUpgr" THEN "M" ELSE @,
                              !.data = NewData(m, {n \in Masters : Upgraded(n)})]]
  /\ hurt' = hurt \cup {m \in Masters : Sent(m) /\ (nack \/ dnack)}
  /\ UNCHANGED <<hit, nack, dnack, dcmd, rreq, nops>>

-----------------------------------------------------------------------------

MemNext ==
  \/ \E m \in Masters : Start(m) \/ Schedule(m) \/ Ready(m)
  \/ \E ready \in CmdReady : FirstHalf(ready)
  \/ SecondHalf
  \/ ClockTick /\ UNCHANGED <<cacheVars, busVars, histVars>>

MemSpec == MemInit /\ [][MemNext]_memVars
-----------------------------------------------------------------------------
(* Properties *)

\* Answers on their way to a tag: in the controller, the library, the queue of reads,
\* the rom, the other cache, or on the bus.
AnswersFor(t) ==
       {a \in {<<"dramctl", 1>>} : dcmd # None /\ ~dcmd.write /\ dcmd.tag = t}
  \cup {"library"} \X {i \in DOMAIN transactions :
                         ~transactions[i].write /\ transactions[i].tag = t}
  \cup {"reads"} \X {i \in DOMAIN read_queue : read_queue[i].tag = t}
  \cup {a \in {<<"rom", 1>>} : rcmd # None /\ rcmd.tag = t}
  \cup {"flush"} \X {m \in Masters : snoop[m] # None /\ ~SnoopSent(m) /\ snoop[m].tag = t}
  \cup {a \in {<<"bus", 1>>} : OnBus({"Fill", "Flush"}) /\ bus.tag = t}

\* A cache that waits for a line is going to get it, and memory and the other cache
\* never both answer; rom, which looks before the caches have, may answer as well.  What
\* rom has taken it is still asking the bus for: rcmd has no other way out (rom.v:62-75).
EveryWaitHasAnAnswer ==
  /\ fault = {} =>
       \A m \in Masters :
         pend[m] # None /\ pend[m].tag # NoTag /\ m \notin hurt =>
           LET answers == AnswersFor(<<m, pend[m].tag>>)
           IN answers # {} /\ (op[m].line \in Ram => Cardinality(answers) = 1)
  /\ rcmd # None => rreq \/ half = 0

\* What memory will hold of a line when all writes it has taken are done.
RamLine(l) ==
  LET writes == {i \in DOMAIN transactions :
                   transactions[i].write /\ transactions[i].addr \div LineBytes = l}
  IN IF dcmd # None /\ dcmd.write /\ dcmd.line = l THEN Packed(dcmd.data)
     ELSE IF writes # {}
     THEN write_queue[transactions[CHOOSE i \in writes : \A j \in writes : j <= i].tag]
     ELSE [i \in 0 .. Dwords - 1 |-> memory[Dwords * l + i]]

\* No store is lost: every copy is the latest, a cache that may write has the only one,
\* and a line that is nowhere else is in memory.
CopiesAreLatest ==
  fault = {} =>
    /\ \A m \in Masters :
         /\ way[m].state # "I" => way[m].data = Content(latest[way[m].line])
         /\ way[m].state = "M" =>
              \A n \in Masters \ {m} : ~Holds(n, way[m].line)
    /\ \A l \in Ram :
         \/ \E m \in Masters : Holds(m, l) /\ way[m].state = "M"
         \/ \E m \in Masters : snoop[m] # None /\ snoop[m].line = l
         \/ RamLine(l) = Packed(Content(latest[l]))

\* bus.v: nack is "asserted during request to indicate that it should be tried again
\* later".  So a command that counts as sent, and has not been nacked, is on the bus.
NackedIsRetried ==
  \A m \in Masters :
    half = 1 /\ Sent(m) /\ ~nack /\ ~dnack =>
      bus # None /\ bus.tag = <<m, rtag[m]>> /\ bus.cmd = req[m].cmd
=============================================================================
