----------------------------- MODULE MemProofs -----------------------------
(***************************************************************************)
(* A level-2 cache that waits for a line is going to get it, and for a     *)
(* line of ram once only, and no store is lost, for every number of lines, *)
(* words of a line and accesses, either build of the DRAM glue and every   *)
(* order in which the library answers.                                     *)
(*                                                                         *)
(* WaitInv, the invariant behind EveryWaitHasAnAnswer, says until          *)
(* the first fault: the registers have their types; a cache's request is   *)
(* the one its access makes (RequestsFollow); what is on the bus was sent  *)
(* and is remembered as sent (RoundIsOf); and for each of the eight tags   *)
(* of a cache, the answers under it are those it is owed, or are left over *)
(* and gone before the tag is used again (AnswersCome).                    *)
(***************************************************************************)
EXTENDS Mem, FiniteSetTheorems, SequenceTheorems, TLAPS

\* A cache waits under a tag, or has a request without one yet.
Reads == {"BusRd", "BusRdX"}
Awaiting(m) == pend[m] # None /\ pend[m].tag # NoTag
Asking(m)   == pend[m] # None /\ pend[m].tag = NoTag

\* Types.
Addrs     == {LineBytes * l : l \in Ram}
DramLines == [0 .. Dwords - 1 -> Nat \X Nat]
MemTypes ==
  /\ op \in [Masters -> Accesses \cup {None}]
  /\ way \in [Masters -> [line : Lines, state : {"I", "S", "M"}, data : Data]]
  /\ pend \in [Masters -> Pending \cup {None}]
  /\ req \in [Masters -> Sending \cup {None}]
  /\ snoop \in [Masters -> Flushes \cup {None}]
  /\ rtag \in [Masters -> 0 .. 7]
  /\ bus \in Rounds \cup {None} /\ turn \in Masters /\ half \in {0, 1}
  /\ hit \in BOOLEAN /\ nack \in BOOLEAN /\ dnack \in BOOLEAN /\ dreq \in BOOLEAN /\ rreq \in BOOLEAN
  /\ dcmd \in DramTakes \cup {None} /\ (dcmd # None => dcmd.line \in Ram)
  /\ rcmd \in RomReads \cup {None}
  /\ nops \in Nat /\ latest \in [Lines -> Nat] /\ hurt \subseteq Masters
DramTypes ==
  /\ vpi \in BOOLEAN
  /\ memory \in [0 .. Dwords * RamLines - 1 -> Nat \X Nat]
  /\ read_queue \in Seq([tag : Tags, addr : Addrs, line : DramLines])
  /\ DOMAIN write_queue \subseteq Tags
  /\ write_queue = [t \in DOMAIN write_queue |-> write_queue[t]]
  /\ \A t \in DOMAIN write_queue : write_queue[t] \in DramLines
  /\ transactions \in Seq([tag : Tags, addr : Addrs, write : BOOLEAN])

\* The request of an access.
RequestOf(m) ==
  /\ op[m] = None \/ op[m].at = "bank" => pend[m] = None
  /\ req[m] # None <=> Asking(m)
  /\ pend[m] # None => pend[m].cmd = Command(op[m])
  /\ Asking(m) => /\ req[m].cmd = pend[m].cmd
                  /\ req[m].cmd # "Flush" => req[m].line = op[m].line
  /\ Awaiting(m) => pend[m].cmd \in Reads /\ pend[m].tag = (rtag[m] + 7) % 8
RequestsFollow == \A m \in Masters : RequestOf(m)

\* What is on the bus.
Its(m) == bus # None /\ bus.tag = <<m, rtag[m]>> /\ bus.cmd = req[m].cmd /\ bus.line = req[m].line
RoundIsOf ==
  /\ OnBus(Commands) => \/ OnBus({"Flush"}) /\ \E n \in Masters : SnoopSent(n)
                        \/ Sent(bus.tag[1]) /\ Its(bus.tag[1])
  /\ \A n \in Masters : SnoopSent(n) =>
       OnBus({"Flush"}) /\ bus.tag = snoop[n].tag /\ bus.line = snoop[n].line
  /\ \A m \in Masters \ hurt : Sent(m) => Its(m)
  /\ half = 1 /\ OnBus({"Fill", "Flush"}) =>
       \A m \in Masters : Awaiting(m) => bus.tag # <<m, pend[m].tag>>
  /\ rcmd # None => IF half = 0 THEN ~OnBus(Requests) ELSE rreq
  /\ rreq /\ half = 1 => rcmd # None
  /\ dreq => read_queue # << >>
  /\ \A n \in Masters : snoop[n] # None => snoop[n].tag[1] # n

\* Where an answer for a tag may be.
InCtl(t)   == dcmd # None /\ ~dcmd.write /\ dcmd.tag = t
InLib(t)   == {i \in DOMAIN transactions : ~transactions[i].write /\ transactions[i].tag = t}
InReads(t) == {i \in DOMAIN read_queue : read_queue[i].tag = t}
InRom(t)   == rcmd # None /\ rcmd.tag = t
InFlush(t) == {n \in Masters : snoop[n] # None /\ ~SnoopSent(n) /\ snoop[n].tag = t}
InRound(t) == /\ half = 0 /\ bus # None /\ bus.tag = t
              /\ bus.cmd = "Fill" \/ \E n \in Masters : SnoopSent(n)

NoneInDram(t) == ~InCtl(t) /\ InLib(t) = {} /\ InReads(t) = {}
Some(t) == InCtl(t) \/ InLib(t) # {} \/ InReads(t) # {} \/ InRom(t) \/ InFlush(t) # {} \/ InRound(t)
OnlyOne(t) ==
  /\ ~InRom(t)
  /\ InCtl(t) => InLib(t) = {} /\ InReads(t) = {} /\ InFlush(t) = {} /\ ~InRound(t)
  /\ InLib(t) # {} => InReads(t) = {} /\ InFlush(t) = {} /\ ~InRound(t)
  /\ InReads(t) # {} => InFlush(t) = {} /\ ~InRound(t)
  /\ InFlush(t) # {} => ~InRound(t)
  /\ \A i, j \in InLib(t) : i = j
  /\ \A i, j \in InReads(t) : i = j

\* How many requests ago.
Lag(m, k) == (rtag[m] + 8 - k) % 8
Wanted(m, k) == \/ Awaiting(m) /\ pend[m].tag = k
                \/ half = 1 /\ Sent(m) /\ req[m].cmd \in Reads /\ ~nack /\ ~dnack /\ rtag[m] = k
AnswerComes(m, k) ==
  /\ Some(<<m, k>>)
  /\ op[m].line \in Ram => OnlyOne(<<m, k>>)
  /\ op[m].line \in Rom => NoneInDram(<<m, k>>)

\* An answer that is left over: the second one for a line of rom, or the line that came with
\* an upgrade.  The access that has evicted its line has its own request before it.
Again(m) == ~Awaiting(m) /\ op[m] # None /\ op[m].at = "miss" /\ ~op[m].evict
Evicts(m) == Sent(m) => req[m].cmd = "Flush"
LeftInRom(m, k) == \/ Lag(m, k) = 1 /\ ~Awaiting(m) /\ Evicts(m)
                   \/ Lag(m, k) = 2 /\ Again(m) /\ ~Sent(m)
LeftInFlush(m, k) == \/ Lag(m, k) = 1 /\ ~Awaiting(m) /\ (Evicts(m) \/ turn # m)
                     \/ Lag(m, k) = 2 /\ Again(m) /\ (Sent(m) => turn # m)
                     \/ Lag(m, k) \in {2, 3} /\ turn # m /\ Evicts(m)
                     \/ Lag(m, k) \in {3, 4} /\ turn # m /\ Again(m) /\ ~Sent(m)
LeftInRound(m, k) == Lag(m, k) \in 1 .. 4 /\ (Lag(m, k) = 1 => ~Awaiting(m))
Left(m, k) ==
  /\ NoneInDram(<<m, k>>)
  /\ InRom(<<m, k>>) => LeftInRom(m, k)
  /\ \A n \in InFlush(<<m, k>>) : LeftInFlush(m, k) /\ (half = 1 => SnoopReady(n))
  /\ InRound(<<m, k>>) => LeftInRound(m, k)

\* A nacked read may be answered all the same, and so may an upgrade.
Asked(m, k) == half = 1 /\ Sent(m) /\ rtag[m] = k /\ req[m].cmd # "Flush"
UpgradeAsked(m, k) == NoneInDram(<<m, k>>) /\ ~InRom(<<m, k>>)

AnswerOf(m, k) ==
  /\ Wanted(m, k) => AnswerComes(m, k)
  /\ ~Wanted(m, k) /\ ~Asked(m, k) => Left(m, k)
  /\ Asked(m, k) /\ req[m].cmd = "BusUpgr" => UpgradeAsked(m, k)
AnswersCome == \A m \in Masters \ hurt : \A k \in 0 .. 7 : AnswerOf(m, k)

WaitInv == fault = {} =>
  /\ MemTypes /\ DramTypes /\ RequestsFollow /\ RoundIsOf /\ AnswersCome

\* The two caches, and what is no cache.
LEMMA TwoMasters ==
  /\ \A m \in Masters : \E n \in Masters : n # m /\ Masters = {m, n}
  /\ "rom" \notin Masters /\ "dram" \notin Masters /\ "nobody" \notin Masters
BY MemAssumption

LEMMA NoneIsNothing ==
  /\ None \notin Accesses /\ None \notin Pending /\ None \notin Sending /\ None \notin Flushes
  /\ None \notin Rounds /\ None \notin RomReads /\ None \notin DramTakes
BY NoneAssumption

\* A line, its address in bytes and in words.
LEMMA Quotient == ASSUME NEW a \in Nat, NEW b \in Nat \ {0}, NEW c \in 0 .. b - 1
                  PROVE  (b * a + c) \div b = a /\ (b * a + c) % b = c
OBVIOUS
LEMMA Scaled == ASSUME NEW a \in Nat, NEW b \in Nat
                PROVE  (8 * b * a) \div 4 = (2 * b) * a /\ (8 * b * a) \div 8 = b * a
OBVIOUS
LEMMA WordBounds == ASSUME NEW a \in Nat, NEW b \in Nat, NEW n \in Nat, a < n, NEW i \in 0 .. b - 1
                PROVE  b * a + i \in 0 .. b * n - 1
<1>1. b * (a + 1) <= b * n
  OBVIOUS
<1>2. b * (a + 1) = b * a + b
  OBVIOUS
<1>3. b * a \in Nat /\ b * n \in Nat
  OBVIOUS
<1> QED
  BY <1>1, <1>2, <1>3
LEMMA LinesOfRam == ASSUME NEW l \in Ram
  PROVE  /\ l \in Lines /\ l \in Nat /\ l < RamLines
         /\ LineBytes * l \in Nat
         /\ (LineBytes * l) \div LineBytes = l
         /\ ((LineBytes * l) \div 4) \div (2 * Dwords) = l
         /\ Aligned(4 * WordAddr(l)) = LineBytes * l
         /\ \A i \in 0 .. Dwords - 1 : ((LineBytes * l) \div 8) + i \in 0 .. Dwords * RamLines - 1
<1>1. Dwords \in Nat \ {0} /\ RamLines \in Nat /\ l \in Nat /\ l < RamLines /\ RomLines \in Nat
  BY DramAssumption, MemAssumption DEF Ram
<1>2. l \in Lines
  BY <1>1 DEF Lines, Ram, Rom
<1>3. LineBytes = 8 * Dwords /\ LineBytes \in Nat \ {0} /\ 2 * Dwords \in Nat \ {0}
  BY <1>1 DEF LineBytes
<1>4. LineBytes * l \in Nat
  BY <1>1, <1>3
<1>5. LineBytes * l = 8 * Dwords * l
  BY <1>1, <1>3
<1>6. (8 * Dwords * l) \div 4 = (2 * Dwords) * l /\ (8 * Dwords * l) \div 8 = Dwords * l
  BY <1>1, Scaled
<1>7. (LineBytes * l + 0) \div LineBytes = l
  BY <1>1, <1>3, Quotient
<1>8. ((2 * Dwords) * l + 0) \div (2 * Dwords) = l
  BY <1>1, <1>3, Quotient
<1>9. (2 * Dwords) * l \in Nat
  BY <1>1
<1>10. 4 * WordAddr(l) = 8 * Dwords * l
  BY <1>1 DEF WordAddr
<1>11. \A i \in 0 .. Dwords - 1 : Dwords * l + i \in 0 .. Dwords * RamLines - 1
  BY <1>1, WordBounds
<1>12. (LineBytes * l) \div LineBytes = l
  BY <1>4, <1>7
<1>13. ((2 * Dwords) * l) \div (2 * Dwords) = l
  BY <1>8, <1>9
<1>14. Aligned(4 * WordAddr(l)) = LineBytes * l
  BY <1>5, <1>10, <1>12 DEF Aligned
<1> QED
  BY <1>1, <1>2, <1>4, <1>5, <1>6, <1>11, <1>12, <1>13, <1>14

LEMMA HalfOfWord == ASSUME NEW d \in Nat, NEW w \in 0 .. 2 * d - 1
                    PROVE  w \div 2 \in 0 .. d - 1 /\ w % 2 \in 0 .. 1
OBVIOUS
LEMMA LineData ==
  /\ \A v \in Nat : Content(v) \in Data
  /\ \A d \in Data : Packed(d) \in DramLines /\ Repeated(d) \in Data
  /\ \A x \in DramLines : Unpacked(x) \in Data
<1>1. Dwords \in Nat \ {0} /\ 0 \in Words /\ 1 \in Words
  BY DramAssumption DEF Words
<1>2. ASSUME NEW v \in Nat, NEW w \in Words PROVE v * 2 * Dwords + w \in Nat
  BY <1>1 DEF Words
<1>3. \A i \in 0 .. Dwords - 1 : 2 * i \in Words /\ 1 + 2 * i \in Words
  BY <1>1 DEF Words
<1>4. \A w \in Words : w \div 2 \in 0 .. Dwords - 1 /\ w % 2 \in 0 .. 1
  BY <1>1, HalfOfWord DEF Words
<1>5. \A w \in Words : w % 2 = 0 \/ w % 2 = 1
  BY <1>4
<1>6. \A v \in Nat : Content(v) \in Data
  BY <1>2 DEF Content, Data
<1>7. \A d \in Data : Packed(d) \in DramLines
  BY <1>3 DEF Packed, DramLines, Data
<1>8. \A d \in Data : Repeated(d) \in Data
  BY <1>1, <1>5 DEF Repeated, Data
<1>9. ASSUME NEW x \in DramLines PROVE Unpacked(x) \in Data
  <2>1. ASSUME NEW w \in Words PROVE x[w \div 2][1 + (w % 2)] \in Nat
    <3>1. x[w \div 2] \in Nat \X Nat
      BY <1>4 DEF DramLines
    <3> QED
      BY <3>1, <1>5
  <2> QED
    BY <2>1 DEF Unpacked, Data
<1> QED
  BY <1>6, <1>7, <1>8, <1>9

LEMMA MemInitWait == MemInit => WaitInv
<1> SUFFICES ASSUME MemInit PROVE WaitInv
  OBVIOUS
<1>1. Dwords \in Nat \ {0} /\ RamLines \in Nat /\ RomLines \in Nat /\ RamLines + RomLines > 0
  BY DramAssumption, MemAssumption
<1>2. 0 \in Lines
  BY <1>1 DEF Lines, Ram, Rom
<1>3. Content(0) \in Data /\ Packed(Content(0)) \in DramLines
  BY LineData
<1>4. MemTypes
  <2>1. way \in [Masters -> [line : Lines, state : {"I", "S", "M"}, data : Data]]
    BY <1>2, <1>3 DEF MemInit
  <2>2. latest \in [Lines -> Nat] /\ rtag \in [Masters -> 0 .. 7]
    BY DEF MemInit
  <2>3. /\ op \in [Masters -> {None}] /\ pend \in [Masters -> {None}]
        /\ req \in [Masters -> {None}] /\ snoop \in [Masters -> {None}]
    BY DEF MemInit
  <2>4. /\ bus = None /\ turn \in Masters /\ half = 0 /\ hit = FALSE /\ nack = FALSE
        /\ dnack = FALSE /\ dcmd = None /\ dreq = FALSE /\ rcmd = None /\ rreq = FALSE
        /\ nops = 0 /\ hurt = {}
    BY DEF MemInit
  <2> QED
    BY <2>1, <2>2, <2>3, <2>4 DEF MemTypes
<1>5. \A a \in 0 .. Dwords * RamLines - 1 : a % Dwords \in 0 .. Dwords - 1
  BY <1>1
<1>6. DramTypes
  <2>1. memory = [a \in 0 .. Dwords * RamLines - 1 |-> Packed(Content(0))[a % Dwords]] /\ vpi \in BOOLEAN
        /\ read_queue = << >> /\ write_queue = [t \in {} |-> << >>] /\ transactions = << >>
    BY DEF MemInit, DramInit
  <2>2. memory \in [0 .. Dwords * RamLines - 1 -> Nat \X Nat]
    BY <2>1, <1>3, <1>5 DEF DramLines
  <2>3. DOMAIN write_queue = {}
    BY <2>1
  <2> QED
    BY <2>1, <2>2, <2>3 DEF DramTypes
<1>7. RequestsFollow
  BY DEF MemInit, RequestsFollow, RequestOf, Asking, Awaiting
<1>8. RoundIsOf
  BY DEF MemInit, RoundIsOf, OnBus, SnoopSent, Sent
<1>9. AnswersCome
  <2> SUFFICES ASSUME NEW m \in Masters, NEW k \in 0 .. 7
               PROVE  ~Wanted(m, k) /\ ~Asked(m, k) /\ Left(m, k)
    BY DEF AnswersCome, AnswerOf
  <2>1. ~Wanted(m, k) /\ ~Asked(m, k)
    BY DEF Wanted, Asked, MemInit, Awaiting
  <2>2. read_queue = << >> /\ transactions = << >>
    BY DEF MemInit, DramInit
  <2>3. bus = None /\ rcmd = None /\ dcmd = None /\ \A n \in Masters : snoop[n] = None
    BY DEF MemInit
  <2> QED
    BY <2>1, <2>2, <2>3 DEF Left, NoneInDram, InCtl, InLib, InReads, InRom, InFlush, InRound
<1> QED
  BY <1>4, <1>6, <1>7, <1>8, <1>9 DEF WaitInv
-----------------------------------------------------------------------------
(* Types *)

LEMMA CheckedIsAccess ==
  ASSUME MemTypes, NEW m \in Masters, NEW l \in Lines, NEW write \in BOOLEAN
  PROVE  Checked(m, l, write) \in Accesses
BY DEF MemTypes, Checked, Accesses, Holds

LEMMA StoredIsData ==
  ASSUME MemTypes, NEW m \in Masters, NEW l \in Lines
  PROVE  Stored(m, l) \in Data
<1>1. latest[l] \in Nat /\ latest[l] + 1 \in Nat /\ way[m].data \in Data
  BY DEF MemTypes
<1> QED
  BY <1>1, LineData DEF Stored

LEMMA StartTypes ==
  ASSUME MemTypes, DramTypes, NEW m \in Masters, Start(m)
  PROVE  MemTypes' /\ DramTypes'
<1>1. DramTypes'
  BY DEF Start, DramTypes, dramVars
<1> PICK l \in Lines, write \in BOOLEAN :
     /\ write => l \in Ram
     /\ LET a == Checked(m, l, write)
          IN IF a.at = "miss"
             THEN op' = [op EXCEPT ![m] = a] /\ UNCHANGED <<latest, way>>
             ELSE /\ UNCHANGED op
                  /\ latest' = IF write THEN [latest EXCEPT ![l] = @ + 1] ELSE latest
                  /\ way' = IF write THEN [way EXCEPT ![m].data = Stored(m, l)] ELSE way
  BY DEF Start
<1>2. op' \in [Masters -> Accesses \cup {None}]
  <2>1. Checked(m, l, write) \in Accesses
    BY CheckedIsAccess
  <2>2. op \in [Masters -> Accesses \cup {None}]
    BY DEF MemTypes
  <2>3. op' = op \/ op' = [op EXCEPT ![m] = Checked(m, l, write)]
    OBVIOUS
  <2> QED
    BY <2>1, <2>2, <2>3
<1>3. latest' \in [Lines -> Nat]
  <2>1. latest \in [Lines -> Nat]
    BY DEF MemTypes
  <2>2. latest' = latest \/ latest' = [latest EXCEPT ![l] = @ + 1]
    OBVIOUS
  <2> QED
    BY <2>1, <2>2
<1>4. way' \in [Masters -> [line : Lines, state : {"I", "S", "M"}, data : Data]]
  <2>1. way \in [Masters -> [line : Lines, state : {"I", "S", "M"}, data : Data]]
    BY DEF MemTypes
  <2>2. way' = way \/ way' = [way EXCEPT ![m].data = Stored(m, l)]
    OBVIOUS
  <2>3. Stored(m, l) \in Data
    BY StoredIsData
  <2> QED
    BY <2>1, <2>2, <2>3
<1>5. nops' \in Nat
  BY DEF Start, MemTypes
<1>6. UNCHANGED <<pend, req, snoop, rtag, bus, turn, half, hit, nack, dnack, dcmd, dreq, rcmd, rreq, hurt>>
  BY DEF Start, busVars
<1> QED
  BY <1>1, <1>2, <1>3, <1>4, <1>5, <1>6 DEF MemTypes

LEMMA ScheduleTypes ==
  ASSUME MemTypes, DramTypes, NEW m \in Masters, Schedule(m)
  PROVE  MemTypes' /\ DramTypes'
<1>1. DramTypes'
  BY DEF Schedule, DramTypes, dramVars
<1>2. op[m] \in Accesses /\ Command(op[m]) \in Commands
  BY DEF Schedule, Waits, MemTypes, Command, Commands, Requests
<1>3. Burst \in 0 .. 3
  BY DEF Burst
<1>4. pend' \in [Masters -> Pending \cup {None}]
  BY <1>2 DEF Schedule, MemTypes, Pending
<1>5. req' \in [Masters -> Sending \cup {None}]
  <2>1. req \in [Masters -> Sending \cup {None}] /\ op[m].line \in Lines
        /\ way[m].line \in Lines /\ way[m].data \in Data
    BY <1>2 DEF MemTypes, Accesses
  <2>2. PICK s : req' = [req EXCEPT ![m] = s] /\
          s = [cmd |-> Command(op[m]), at |-> "data", left |-> Burst, data |-> way[m].data,
              line |-> IF Command(op[m]) = "Flush" THEN way[m].line ELSE op[m].line]
    BY DEF Schedule
  <2>3. s \in Sending
    BY <1>2, <1>3, <2>1, <2>2 DEF Sending
  <2> QED
    BY <2>1, <2>2, <2>3
<1> QED
  BY <1>1, <1>4, <1>5 DEF Schedule, MemTypes, busVars, histVars

LEMMA ReadyTypes ==
  ASSUME MemTypes, DramTypes, NEW m \in Masters, Ready(m)
  PROVE  MemTypes' /\ DramTypes'
<1>1. DramTypes'
  BY DEF Ready, DramTypes, dramVars
<1>2. req' \in [Masters -> Sending \cup {None}]
  <2>1. req \in [Masters -> Sending \cup {None}] /\ req[m] \in Sending
    BY DEF Ready, MemTypes
  <2>2. [req[m] EXCEPT !.at = "ready", !.left = 0] \in Sending
    <3>1. PICK r : r = [req[m] EXCEPT !.at = "ready"]
      OBVIOUS
    <3>2. r \in Sending
      BY <2>1, <3>1 DEF Sending
    <3>3. [r EXCEPT !.left = 0] \in Sending
      BY <3>2 DEF Sending
    <3> QED
      BY <3>1, <3>3
  <2>3. req' = [req EXCEPT ![m] = [req[m] EXCEPT !.at = "ready", !.left = 0]]
    BY <2>1 DEF Ready
  <2> QED
    BY <2>1, <2>2, <2>3
<1> QED
  BY <1>1, <1>2 DEF Ready, MemTypes, busVars, histVars

\* A read takes the line from memory, a write puts its data there.
LEMMA TickMoves ==
  ASSUME DramTypes, ClockTick
  PROVE  /\ DramTypes'
         /\ \E i \in 1 .. Len(transactions) :
              /\ \A j \in 1 .. i - 1 : transactions[j].write => transactions[j].addr # transactions[i].addr
              /\ Len(transactions') = Len(transactions) - 1
              /\ \A j \in 1 .. Len(transactions) - 1 :
                   transactions'[j] = IF j < i THEN transactions[j] ELSE transactions[j + 1]
              /\ transactions[i].write => read_queue' = read_queue
              /\ ~transactions[i].write =>
                   /\ memory' = memory /\ write_queue' = write_queue
                   /\ read_queue' = Append(read_queue, [tag |-> transactions[i].tag, addr |-> transactions[i].addr,
                                                        line |-> LineAt(transactions[i].addr)])
              /\ transactions[i].write => write_cb(transactions[i].tag, transactions[i].addr)
<1> DEFINE Ts == [tag : Tags, addr : Addrs, write : BOOLEAN]
           Rs == [tag : Tags, addr : Addrs, line : DramLines]
           N  == Len(transactions)
<1>1. transactions \in Seq(Ts) /\ N \in Nat /\ read_queue \in Seq(Rs)
  BY DEF DramTypes
<1>2. PICK i \in 1 .. N :
        /\ \A j \in 1 .. i - 1 : transactions[j].write => transactions[j].addr # transactions[i].addr
        /\ transactions' = [j \in 1 .. N - 1 |->
                             IF j < i THEN transactions[j] ELSE transactions[j + 1]]
        /\ IF transactions[i].write THEN write_cb(transactions[i].tag, transactions[i].addr)
                                    ELSE read_cb(transactions[i].tag, transactions[i].addr)
        /\ UNCHANGED vpi
  BY DEF ClockTick
<1>3. \A j \in 1 .. N : transactions[j] \in Ts
  <2> HIDE DEF Ts
  <2> QED
    BY <1>1, ElementOfSeq
<1>4. transactions' \in Seq(Ts) /\ Len(transactions') = N - 1
  <2>1. N - 1 \in Nat
    BY <1>1, <1>2
  <2>2. \A j \in 1 .. N - 1 : j \in 1 .. N /\ j + 1 \in 1 .. N
    BY <1>1
  <2>3. \A j \in 1 .. N : transactions[j] \in Ts
    BY <1>3
  <2>4. transactions' \in [1 .. N - 1 -> Ts]
    BY <1>2, <2>2, <2>3
  <2> HIDE DEF Ts, N
  <2>5. transactions' \in Seq(Ts)
    BY <2>1, <2>4, IsASeq
  <2>6. DOMAIN transactions' = 1 .. N - 1
    BY <2>4
  <2> QED
    BY <2>1, <2>5, <2>6, LenProperties
<1>5. transactions[i].addr \in Addrs /\ transactions[i].tag \in Tags
  BY <1>3
<1>6. PICK l \in Ram : transactions[i].addr = LineBytes * l
  BY <1>5 DEF Addrs
<1>7. CASE ~transactions[i].write
  <2>1. memory' = memory /\ write_queue' = write_queue /\ vpi' = vpi
        /\ read_queue' = Append(read_queue, [tag |-> transactions[i].tag, addr |-> transactions[i].addr,
                                                        line |-> LineAt(transactions[i].addr)])
    BY <1>2, <1>7 DEF read_cb
  <2>2. LineAt(transactions[i].addr) \in DramLines
    <3>1. \A x \in 0 .. Dwords - 1 : (transactions[i].addr \div 8) + x \in 0 .. Dwords * RamLines - 1
      BY <1>6, LinesOfRam
    <3> QED
      BY <3>1 DEF LineAt, DramTypes, DramLines
  <2>3. [tag |-> transactions[i].tag, addr |-> transactions[i].addr,
                                                        line |-> LineAt(transactions[i].addr)] \in Rs
    BY <1>5, <2>2
  <2>4. read_queue' \in Seq(Rs)
    BY <1>1, <2>1, <2>3, AppendProperties
  <2>5. DramTypes'
    BY <1>4, <2>1, <2>4 DEF DramTypes
  <2> QED
    BY <1>2, <1>4, <1>7, <2>1, <2>5
<1>8. CASE transactions[i].write
  <2>1. write_cb(transactions[i].tag, transactions[i].addr) /\ vpi' = vpi /\ read_queue' = read_queue
    BY <1>2, <1>8 DEF write_cb
  <2>2. CASE transactions[i].tag \in DOMAIN write_queue
    <3> DEFINE t == transactions[i].tag
    <3>1. write_queue[t] \in DramLines /\ t \in Tags
      BY <2>2, <1>5 DEF DramTypes
    <3>2. \A a \in DOMAIN memory : a % Dwords \in 0 .. Dwords - 1
      <4>1. DOMAIN memory = 0 .. Dwords * RamLines - 1
        BY DEF DramTypes
      <4>2. \A a \in Nat : a % Dwords \in 0 .. Dwords - 1
        BY DramAssumption
      <4> QED
        BY <4>1, <4>2
    <3>3. memory' = [a \in DOMAIN memory |->
                          IF a \div Dwords = transactions[i].addr \div LineBytes
                          THEN write_queue[t][a % Dwords] ELSE memory[a]]
      BY <2>1, <2>2 DEF write_cb
    <3>4. memory' \in [0 .. Dwords * RamLines - 1 -> Nat \X Nat]
      BY <3>1, <3>2, <3>3 DEF DramTypes, DramLines
    <3>5. write_queue' = [u \in DOMAIN write_queue \ {t} |-> write_queue[u]]
      BY <2>1, <2>2 DEF write_cb
    <3>6. /\ DOMAIN write_queue' \subseteq Tags
          /\ write_queue' = [u \in DOMAIN write_queue' |-> write_queue'[u]]
          /\ \A u \in DOMAIN write_queue' : write_queue'[u] \in DramLines
      BY <3>5 DEF DramTypes
    <3>7. DramTypes'
      BY <1>1, <1>4, <2>1, <3>4, <3>6 DEF DramTypes
    <3> QED
      BY <1>2, <1>4, <1>8, <2>1, <3>7
  <2>3. CASE transactions[i].tag \notin DOMAIN write_queue
    <3>1. memory' = memory /\ write_queue' = write_queue
      BY <2>1, <2>3 DEF write_cb
    <3>2. DramTypes'
      BY <1>1, <1>4, <2>1, <3>1 DEF DramTypes
    <3> QED
      BY <1>2, <1>4, <1>8, <2>1, <3>2
  <2> QED
    BY <2>2, <2>3
<1> QED
  BY <1>7, <1>8

\* The controller hands a command to the library.
LEMMA TakeMoves ==
  ASSUME DramTypes, dcmd \in DramTakes, dcmd.line \in Ram,
         CmdData(dcmd.write, dcmd.tag, WordAddr(dcmd.line), dcmd.data)
  PROVE  /\ DramTypes'
         /\ transactions' = Append(transactions,
              [tag |-> dcmd.tag, addr |-> LineBytes * dcmd.line, write |-> dcmd.write])
         /\ write_queue' = IF dcmd.write THEN Put(dcmd.tag, Packed(dcmd.data)) ELSE write_queue
         /\ UNCHANGED <<vpi, memory, read_queue>>
<1>1. Aligned(4 * WordAddr(dcmd.line)) = LineBytes * dcmd.line /\ LineBytes * dcmd.line \in Addrs
  BY LinesOfRam DEF Addrs
<1>2. dcmd.tag \in Tags /\ dcmd.write \in BOOLEAN /\ Packed(dcmd.data) \in DramLines
  BY LineData DEF DramTakes
<1>3. transactions' = Append(transactions,
              [tag |-> dcmd.tag, addr |-> LineBytes * dcmd.line, write |-> dcmd.write])
  BY <1>1 DEF CmdData, cmddata_calltf, dramsim_cmddata, cmddata, AddTransaction
<1>4. /\ write_queue' = IF dcmd.write THEN Put(dcmd.tag, Packed(dcmd.data)) ELSE write_queue
      /\ UNCHANGED <<vpi, memory, read_queue>>
  BY DEF CmdData, cmddata_calltf, dramsim_cmddata, cmddata
<1>5. transactions' \in Seq([tag : Tags, addr : Addrs, write : BOOLEAN])
  <2>1. [tag |-> dcmd.tag, addr |-> LineBytes * dcmd.line, write |-> dcmd.write]
          \in [tag : Tags, addr : Addrs, write : BOOLEAN]
    BY <1>1, <1>2
  <2> QED
    BY <1>3, <2>1, AppendProperties DEF DramTypes
<1>6. /\ DOMAIN write_queue' \subseteq Tags
      /\ write_queue' = [t \in DOMAIN write_queue' |-> write_queue'[t]]
      /\ \A t \in DOMAIN write_queue' : write_queue'[t] \in DramLines
  BY <1>2, <1>4 DEF Put, DramTypes
<1>7. DramTypes'
  BY <1>4, <1>5, <1>6 DEF DramTypes
<1> QED
  BY <1>3, <1>4, <1>7
-----------------------------------------------------------------------------
(* The first half of a round, without a fault *)

LEMMA FirstMoves ==
  ASSUME MemTypes, RequestsFollow, NEW ready \in BOOLEAN, FirstHalf(ready), fault' = {}
  PROVE
    /\ fault = {} /\ half = 0 /\ half' = 1 /\ nops' = nops
    /\ \A m \in Masters : ~Busy(m) /\ ~Converted(m) /\ ~UpgradeLost(m)
    /\ OnBus({"Flush"}) /\ bus.line \in Ram => DramHears /\ ready
    /\ dcmd # None /\ dcmd.write => dcmd.tag \notin DOMAIN write_queue
    /\ \A m \in Masters : op[m] # None /\ op[m].at = "bank" /\ op[m].write /\ Gives(m) => op[m].line # bus.line
    /\ op' = [m \in Masters |->
                IF m \in ToBanks THEN None
                ELSE IF Fills(m) /\ op[m] # None THEN [op[m] EXCEPT !.at = "bank"] ELSE op[m]]
    /\ \A m \in Masters :
         /\ pend'[m] = IF Fills(m) THEN None ELSE pend[m]
         /\ req[m] = None => req'[m] = None
         /\ req[m] # None => /\ req[m] \in Sending /\ req'[m] \in Sending
                             /\ req'[m].cmd = req[m].cmd /\ req'[m].at = req[m].at
                             /\ req'[m].line = req[m].line /\ req'[m].data = req[m].data
                             /\ req'[m].left = IF req[m].at = "data" THEN req[m].left - 1 ELSE req[m].left
         /\ snoop'[m] = IF Gives(m)
                        THEN [tag |-> bus.tag, line |-> bus.line, data |-> way[m].data, at |-> "data"]
                        ELSE IF snoop[m] # None /\ snoop[m].at = "data"
                             THEN [snoop[m] EXCEPT !.at = "ready"] ELSE snoop[m]
<1>1. /\ fault' = fault \cup FirstFaults(ready) /\ nops' = nops
      /\ op' = [m \in Masters |->
                IF m \in ToBanks THEN None
                ELSE IF Fills(m) /\ op[m] # None THEN [op[m] EXCEPT !.at = "bank"] ELSE op[m]]
  BY DEF FirstHalf
<1>2. fault = {} /\ FirstFaults(ready) = {}
  BY <1>1
<1>3. \A m \in Masters : ~Busy(m) /\ ~UpgradeLost(m)
  <2>1. {f \in {"upgrade lost"} : \E m \in Masters : UpgradeLost(m)} = {}
        /\ {f \in {"second flush"} : \E m \in Masters : Busy(m)} = {}
    BY <1>2 DEF FirstFaults
  <2> QED
    BY <2>1
<1>4. OnBus({"Flush"}) /\ bus.line \in Ram => DramHears /\ ready
  <2>1. {f \in {"write not taken"} :
        OnBus({"Flush"}) /\ bus.line \in Ram /\ ~(DramHears /\ ready)} = {}
    BY <1>2 DEF FirstFaults
  <2> QED
    BY <2>1
<1>5. dcmd # None /\ dcmd.write => dcmd.tag \notin DOMAIN write_queue
  <2>1. {f \in {"tag in use"} : dcmd # None /\ dcmd.write /\ dcmd.tag \in DOMAIN write_queue} = {}
    BY <1>2 DEF FirstFaults
  <2> QED
    BY <2>1
<1>6. \A m \in Masters : op[m] # None /\ op[m].at = "bank" /\ op[m].write /\ Gives(m) => op[m].line # bus.line
  <2>1. {f \in {"store overtaken"} :
        \E m \in Masters : /\ op[m] # None /\ op[m].at = "bank" /\ op[m].write
                          /\ Gives(m) /\ ~Busy(m) /\ op[m].line = bus.line} = {}
    BY <1>2 DEF FirstFaults
  <2> QED
    BY <2>1, <1>3
<1>7. ASSUME NEW m \in Masters PROVE ~Converted(m)
  <2> SUFFICES ASSUME Converted(m) PROVE FALSE
    OBVIOUS
  <2>1. req[m] # None /\ req[m].cmd = "BusUpgr" /\ req[m].line = bus.line /\ Invalidates(m)
    BY DEF Converted
  <2>2. Asking(m) /\ pend[m].cmd = "BusUpgr" /\ req[m].line = op[m].line
    BY <2>1 DEF RequestsFollow, RequestOf
  <2>3. op[m] # None /\ Command(op[m]) = "BusUpgr"
    BY <2>2 DEF RequestsFollow, RequestOf, Asking
  <2>4. op[m].upgr
    BY <2>3 DEF Command
  <2> QED
    BY <1>3, <2>1, <2>2, <2>3, <2>4 DEF UpgradeLost
<1>8. ASSUME NEW m \in Masters
      PROVE  pend'[m] = IF Fills(m) THEN None ELSE pend[m]
  BY <1>7 DEF FirstHalf
<1>9. ASSUME NEW m \in Masters
      PROVE  snoop'[m] = IF Gives(m)
                        THEN [tag |-> bus.tag, line |-> bus.line, data |-> way[m].data, at |-> "data"]
                        ELSE IF snoop[m] # None /\ snoop[m].at = "data"
                             THEN [snoop[m] EXCEPT !.at = "ready"] ELSE snoop[m]
  BY <1>3 DEF FirstHalf, Snoop
<1>10. ASSUME NEW m \in Masters, req[m] = None PROVE req'[m] = None
  BY <1>10 DEF FirstHalf
<1>11. ASSUME NEW m \in Masters, req[m] # None
       PROVE  /\ req[m] \in Sending /\ req'[m] \in Sending
              /\ req'[m].cmd = req[m].cmd /\ req'[m].at = req[m].at
              /\ req'[m].line = req[m].line /\ req'[m].data = req[m].data
              /\ req'[m].left = IF req[m].at = "data" THEN req[m].left - 1 ELSE req[m].left
  <2>1. req[m] \in Sending
    BY <1>11 DEF MemTypes
  <2>2. req[m].at = "data" => req[m].left > 0
    BY <1>11 DEF FirstHalf
  <2>3. PICK r : r = [req[m] EXCEPT !.cmd = req[m].cmd]
    OBVIOUS
  <2>4. r = req[m]
    BY <2>1, <2>3 DEF Sending
  <2>5. PICK n : n = IF req[m].at = "data" THEN req[m].left - 1 ELSE req[m].left
    OBVIOUS
  <2>6. n \in 0 .. 3
    BY <2>1, <2>2, <2>5 DEF Sending
  <2>7. req'[m] = [r EXCEPT !.left = n]
    BY <1>7, <1>11, <2>3, <2>5 DEF FirstHalf
  <2> QED
    BY <2>1, <2>4, <2>5, <2>6, <2>7 DEF Sending
<1> QED
  BY <1>1, <1>2, <1>3, <1>4, <1>5, <1>6, <1>7, <1>8, <1>9, <1>10, <1>11 DEF FirstHalf

\* What is counted is finite.
LEMMA CountedIsNat == ASSUME NEW S \in SUBSET Masters PROVE Cardinality(S) \in Nat
<1>1. IsFiniteSet(Masters)
  <2>1. PICK m : m \in Masters
    BY MemAssumption
  <2>2. PICK n \in Masters : Masters = {m, n}
    BY <2>1, TwoMasters
  <2>3. IsFiniteSet({m}) /\ IsFiniteSet({m} \cup {n})
    BY FS_Singleton, FS_AddElement
  <2>4. {m} \cup {n} = Masters
    BY <2>2
  <2> QED
    BY <2>3, <2>4
<1> QED
  BY <1>1, FS_Subset, FS_CardinalityType

LEMMA PerformedTypes ==
  ASSUME MemTypes, NEW MS \in SUBSET Masters, Performed(MS)
  PROVE  latest' \in [Lines -> Nat]
<1>1. latest' = [l \in Lines |-> latest[l] + Cardinality({m \in {n \in MS : op[n].write} : op[m].line = l})]
  BY DEF Performed
<1>2. ASSUME NEW l \in Lines
      PROVE  latest[l] + Cardinality({m \in {n \in MS : op[n].write} : op[m].line = l}) \in Nat
  <2>1. {m \in {n \in MS : op[n].write} : op[m].line = l} \in SUBSET Masters
    OBVIOUS
  <2>2. Cardinality({m \in {n \in MS : op[n].write} : op[m].line = l}) \in Nat
    BY <2>1, CountedIsNat
  <2>3. latest[l] \in Nat
    BY DEF MemTypes
  <2> QED
    BY <2>2, <2>3
<1> QED
  BY <1>1, <1>2

LEMMA NewDataIsData ==
  ASSUME MemTypes, NEW m \in Masters, NEW MS \in SUBSET Masters, \A n \in MS : op[n] # None
  PROVE  NewData(m, MS) \in Data
<1>1. m \in MS => op[m].line \in Lines
  BY DEF MemTypes, Accesses
<1>2. way[m].data \in Data
  BY DEF MemTypes
<1> QED
  BY <1>1, <1>2, StoredIsData DEF NewData

LEMMA FirstTypes ==
  ASSUME MemTypes, DramTypes, RequestsFollow, NEW ready \in BOOLEAN, FirstHalf(ready), fault' = {}
  PROVE  MemTypes' /\ DramTypes'
<1>1. \A m \in Masters : (Fills(m) \/ Gives(m)) => bus \in Rounds
  BY DEF Fills, Gives, SnoopHit, Snooped, MemTypes
<1>2. op' \in [Masters -> Accesses \cup {None}]
  <2>1. ASSUME NEW m \in Masters, op[m] # None
        PROVE  [op[m] EXCEPT !.at = "bank"] \in Accesses
    BY <2>1 DEF MemTypes, Accesses
  <2>2. op \in [Masters -> Accesses \cup {None}]
    BY DEF MemTypes
  <2> QED
    BY <2>1, <2>2, FirstMoves
<1>3. way' \in [Masters -> [line : Lines, state : {"I", "S", "M"}, data : Data]]
  <2>1. way' = [m \in Masters |-> WayAfter(m)]
    BY DEF FirstHalf
  <2>2. ASSUME NEW m \in Masters
        PROVE  WayAfter(m) \in [line : Lines, state : {"I", "S", "M"}, data : Data]
    <3>1. way[m] \in [line : Lines, state : {"I", "S", "M"}, data : Data]
      BY DEF MemTypes
    <3>2. Fills(m) => bus.line \in Lines /\ bus.data \in Data
      BY <1>1 DEF Rounds
    <3>3. NewData(m, ToBanks) \in Data
      BY NewDataIsData DEF ToBanks
    <3>4. StateAfter(m) \in {"I", "S", "M"}
      BY <3>1 DEF StateAfter
    <3> QED
      BY <3>1, <3>2, <3>3, <3>4 DEF WayAfter
  <2> QED
    BY <2>1, <2>2
<1>4. pend' \in [Masters -> Pending \cup {None}]
  <2>1. pend \in [Masters -> Pending \cup {None}]
    BY DEF MemTypes
  <2>2. pend' = [m \in Masters |-> pend'[m]]
    BY DEF FirstHalf
  <2> QED
    BY <2>1, <2>2, FirstMoves
<1>5. req' \in [Masters -> Sending \cup {None}]
  <2>1. req' = [m \in Masters |-> req'[m]]
    BY DEF FirstHalf
  <2> QED
    BY <2>1, FirstMoves
<1>6. snoop' \in [Masters -> Flushes \cup {None}]
  <2>1. snoop' = [m \in Masters |-> snoop'[m]]
    BY DEF FirstHalf
  <2>2. ASSUME NEW m \in Masters PROVE snoop'[m] \in Flushes \cup {None}
    <3>1. snoop[m] \in Flushes \cup {None}
      BY DEF MemTypes
    <3>2. Gives(m) => bus.tag \in Tags /\ bus.line \in Lines /\ way[m].data \in Data
      BY <1>1 DEF MemTypes, Rounds
    <3>3. Gives(m) => [tag |-> bus.tag, line |-> bus.line, data |-> way[m].data, at |-> "data"] \in Flushes
      BY <3>2 DEF Flushes
    <3>4. snoop[m] # None => [snoop[m] EXCEPT !.at = "ready"] \in Flushes
      BY <3>1 DEF Flushes
    <3> QED
      BY <3>1, <3>3, <3>4, FirstMoves
  <2> QED
    BY <2>1, <2>2
<1>7. /\ UNCHANGED <<rtag, bus, turn, dreq>> /\ half' = 1
      /\ hit' \in BOOLEAN /\ nack' \in BOOLEAN /\ dnack' \in BOOLEAN /\ rreq' \in BOOLEAN
  BY DEF FirstHalf, NewHit, NewNack, DramCommand, RomRead
<1>8. rcmd' \in RomReads \cup {None}
  <2>1. RomHears => bus \in Rounds
    BY DEF RomHears, OnBus, MemTypes
  <2> QED
    BY <2>1 DEF FirstHalf, RomRead, MemTypes, RomReads, Rounds
<1>9. dcmd' \in DramTakes \cup {None} /\ (dcmd' # None => dcmd'.line \in Ram)
  <2>1. DramHears => bus \in Rounds /\ bus.line \in Ram
    BY DEF DramHears, OnBus, MemTypes
  <2>2. DramHears => [write |-> bus.cmd = "Flush", tag |-> bus.tag, line |-> bus.line, data |-> bus.data] \in DramTakes
    BY <2>1 DEF DramTakes, Rounds
  <2>3. dcmd' = IF DramHears /\ ready
             THEN [write |-> bus.cmd = "Flush", tag |-> bus.tag, line |-> bus.line, data |-> bus.data]
             ELSE None
    BY DEF FirstHalf, DramCommand
  <2> QED
    BY <2>1, <2>2, <2>3
<1>10. latest' \in [Lines -> Nat]
  BY PerformedTypes DEF FirstHalf, ToBanks
<1>11. hurt' \subseteq Masters
  <2>1. OnBus({"BusRd", "BusRdX"}) => bus \in Rounds
    BY DEF OnBus, MemTypes
  <2>2. OnBus({"BusRd", "BusRdX"}) => bus.tag[1] \in Masters
    BY <2>1 DEF Rounds, Tags
  <2> QED
    BY <2>2 DEF FirstHalf, NotHeard, MemTypes
<1>12. DramTypes'
  <2>1. CASE dcmd = None
    BY <2>1 DEF FirstHalf, DramCommand, dramVars, DramTypes
  <2>2. CASE dcmd # None
    <3>1. dcmd \in DramTakes /\ dcmd.line \in Ram
      BY <2>2 DEF MemTypes
    <3>2. CmdData(dcmd.write, dcmd.tag, WordAddr(dcmd.line), dcmd.data)
      BY <2>2 DEF FirstHalf, DramCommand
    <3> QED
      BY <3>1, <3>2, TakeMoves
  <2> QED
    BY <2>1, <2>2
<1>13. nops' \in Nat
  BY FirstMoves DEF MemTypes
<1>14. turn' \in Masters /\ bus' \in Rounds \cup {None} /\ rtag' \in [Masters -> 0 .. 7] /\ dreq' \in BOOLEAN
  BY <1>7 DEF MemTypes
<1> QED
  BY <1>2, <1>3, <1>4, <1>5, <1>6, <1>7, <1>8, <1>9, <1>10, <1>11, <1>12, <1>13, <1>14 DEF MemTypes
-----------------------------------------------------------------------------
(* The second half of a round, without a fault *)

\* What a grant puts on the bus, and what it takes from where.
GrantRom == /\ rreq /\ rcmd # None
            /\ bus' = [cmd |-> "Fill", tag |-> rcmd.tag, line |-> rcmd.line, data |-> Content(0)]
            /\ rcmd' = None /\ UNCHANGED dramVars
GrantDram == /\ dreq /\ read_queue # << >> /\ Head(read_queue).addr \in Addrs
             /\ bus' = [cmd |-> "Fill", tag |-> Head(read_queue).tag,
                        line |-> Head(read_queue).addr \div LineBytes, data |-> Unpacked(Head(read_queue).line)]
             /\ read_queue' = Tail(read_queue) /\ UNCHANGED <<vpi, memory, write_queue, transactions, rcmd>>
GrantFlush(g) == /\ g \in Masters /\ SnoopReady(g)
                 /\ bus' = [cmd |-> "Flush", tag |-> snoop[g].tag, line |-> snoop[g].line, data |-> snoop[g].data]
                 /\ UNCHANGED <<rcmd, dramVars>>
GrantRequest(g) == /\ g \in Masters /\ snoop[g] = None /\ ReqReady(g)
                   /\ bus' = [cmd |-> req[g].cmd, tag |-> <<g, rtag[g]>>, line |-> req[g].line, data |-> req[g].data]
                   /\ UNCHANGED <<rcmd, dramVars>>
GrantNobody == bus' = None /\ UNCHANGED <<rcmd, dramVars>>
Granted(g) == \/ g = "rom" /\ GrantRom
              \/ g = "dram" /\ GrantDram
              \/ GrantFlush(g)
              \/ GrantRequest(g)
              \/ g = "nobody" /\ GrantNobody

LEMMA SecondMoves ==
  ASSUME MemTypes, DramTypes, RequestsFollow, RoundIsOf, SecondHalf, fault' = {}
  PROVE
    /\ fault = {} /\ half = 1 /\ half' = 0
    /\ \A m \in Masters : ~Waits(m)
    /\ nack \/ dnack => \A m \in Masters : Sent(m) => req[m].cmd # "BusUpgr"
    /\ \E shown \in [Masters -> BOOLEAN], g \in Masters \cup {"rom", "dram", "nobody"} :
         /\ \A m \in Masters : shown[m] \in ShowsResponse(m)
         /\ g \in Grants(shown) /\ Granted(g)
         /\ turn' = IF Responding(shown) = {} /\ g # "nobody"
                    THEN CHOOSE m \in Masters : m # turn ELSE turn
         /\ \A m \in Masters :
              /\ snoop'[m] = IF SnoopSent(m) THEN None
                             ELSE IF m = g /\ SnoopReady(m) THEN [snoop[m] EXCEPT !.at = "sent"] ELSE snoop[m]
              /\ req'[m] = IF Confirmed(m) THEN None
                           ELSE IF m = g /\ snoop[m] = None THEN [req[m] EXCEPT !.at = "sent"] ELSE req[m]
<1>a. PICK shown \in [Masters -> BOOLEAN] :
       /\ \A m \in Masters : shown[m] \in ShowsResponse(m)
       /\ \E g \in Grants(shown) :
            /\ Grant(g)
            /\ turn' = IF Responding(shown) = {} /\ g # "nobody"
                       THEN CHOOSE m \in Masters : m # turn ELSE turn
            /\ fault' = fault
                 \cup {f \in {"not really granted"} : g \in Masters /\ SnoopSent(g)}
                 \cup {f \in {"upgrade nacked"} :
                        (nack \/ dnack) /\ \E m \in Masters : Sent(m) /\ req[m].cmd = "BusUpgr"}
  BY DEF SecondHalf
<1>1. PICK g \in Grants(shown) :
        /\ \A m \in Masters : shown[m] \in ShowsResponse(m)
        /\ Grant(g)
        /\ turn' = IF Responding(shown) = {} /\ g # "nobody"
                       THEN CHOOSE m \in Masters : m # turn ELSE turn
        /\ fault' = fault
                 \cup {f \in {"not really granted"} : g \in Masters /\ SnoopSent(g)}
                 \cup {f \in {"upgrade nacked"} :
                        (nack \/ dnack) /\ \E m \in Masters : Sent(m) /\ req[m].cmd = "BusUpgr"}
  BY <1>a
<1>2. fault = {} /\ half = 1 /\ half' = 0 /\ \A m \in Masters : ~Waits(m)
  BY <1>1 DEF SecondHalf
<1>3. {f \in {"not really granted"} : g \in Masters /\ SnoopSent(g)} = {}
      /\ {f \in {"upgrade nacked"} :
                        (nack \/ dnack) /\ \E m \in Masters : Sent(m) /\ req[m].cmd = "BusUpgr"} = {}
  BY <1>1
<1>4. /\ g \in Masters => ~SnoopSent(g)
      /\ nack \/ dnack => \A m \in Masters : Sent(m) => req[m].cmd # "BusUpgr"
  BY <1>3
<1>5. g \in Masters \cup {"rom", "dram", "nobody"}
  BY <1>1 DEF Grants, Responding
<1>6. g \in Masters => SnoopReady(g) \/ (ReqReady(g) /\ snoop[g] = None)
  <2>1. g \in Masters => BusReq(g)
    BY <1>1, TwoMasters DEF Grants, Responding
  <2> QED
    BY <2>1, <1>4 DEF BusReq
<1>7. (g = "rom" => rreq) /\ (g = "dram" => dreq)
  <2>1. g \in Responding(shown) \/ g \in Masters \/ g = "nobody"
    BY <1>1 DEF Grants, MemTypes
  <2>2. g \in {"rom", "dram"} => g \in Responding(shown)
    BY <2>1, TwoMasters
  <2> QED
    BY <2>2, TwoMasters DEF Responding
<1>8. Granted(g)
  <2>1. CASE g = "rom"
    <3>1. g # "dram" /\ g # "nobody"
      BY <2>1
    <3>2. rreq /\ rcmd # None
      BY <1>2, <1>7, <2>1 DEF RoundIsOf
    <3> QED
      BY <2>1, <3>1, <3>2, <1>1 DEF Grant, GrantRom, Granted
  <2>2. CASE g = "dram"
    <3>1. g # "rom" /\ g # "nobody"
      BY <2>2
    <3>2. dreq /\ read_queue # << >>
      BY <1>7, <2>2 DEF RoundIsOf
    <3>3. Head(read_queue) \in [tag : Tags, addr : Addrs, line : DramLines]
      BY <3>2, HeadTailProperties DEF DramTypes
    <3>4. PICK l \in Ram : Head(read_queue).addr = LineBytes * l
      BY <3>3 DEF Addrs
    <3>5. (Head(read_queue).addr \div 4) \div (2 * Dwords) = Head(read_queue).addr \div LineBytes
      BY <3>4, LinesOfRam
    <3>6. /\ RespData.tag = Head(read_queue).tag /\ RespData.word = Head(read_queue).addr \div 4
          /\ RespData.data = Unpacked(Head(read_queue).line)
      BY DEF RespData, respdata_calltf, dramsim_respdata
    <3>7. bus' = [cmd |-> "Fill", tag |-> Head(read_queue).tag,
                        line |-> Head(read_queue).addr \div LineBytes, data |-> Unpacked(Head(read_queue).line)]
      BY <2>2, <3>1, <3>5, <3>6, <1>1 DEF Grant
    <3>8. RespPop /\ rcmd' = rcmd
      BY <2>2, <3>1, <1>1 DEF Grant
    <3>9. GrantDram
      BY <3>2, <3>3, <3>7, <3>8 DEF GrantDram, RespPop
    <3> QED
      BY <2>2, <3>9 DEF Granted
  <2>3. CASE g = "nobody"
    <3>1. g # "rom" /\ g # "dram"
      BY <2>3
    <3> QED
      BY <2>3, <3>1, <1>1 DEF Grant, GrantNobody, Granted
  <2>4. CASE g \in Masters /\ SnoopReady(g)
    <3>1. g # "rom" /\ g # "dram" /\ g # "nobody"
      BY <2>4, TwoMasters
    <3> QED
      BY <2>4, <3>1, <1>1 DEF Grant, GrantFlush, Granted
  <2>5. CASE g \in Masters /\ ReqReady(g) /\ snoop[g] = None
    <3>1. g # "rom" /\ g # "dram" /\ g # "nobody" /\ ~SnoopReady(g) /\ ~SnoopSent(g)
      BY <2>5, TwoMasters DEF SnoopReady, SnoopSent
    <3> QED
      BY <2>5, <3>1, <1>1 DEF Grant, GrantRequest, Granted
  <2> QED
    BY <1>5, <1>6, <2>1, <2>2, <2>3, <2>4, <2>5
<1>9. \A m \in Masters :
         /\ snoop'[m] = IF SnoopSent(m) THEN None
                        ELSE IF m = g /\ SnoopReady(m) THEN [snoop[m] EXCEPT !.at = "sent"] ELSE snoop[m]
         /\ req'[m] = IF Confirmed(m) THEN None
                      ELSE IF m = g /\ snoop[m] = None THEN [req[m] EXCEPT !.at = "sent"] ELSE req[m]
  BY <1>1 DEF Grant
<1> QED
  BY <1>1, <1>2, <1>4, <1>5, <1>8, <1>9

\* A confirmed request, and what becomes of its access.
LEMMA ConfirmedMoves ==
  ASSUME MemTypes, RequestsFollow, NEW m \in Masters, Confirmed(m)
  PROVE  /\ req[m] \in Sending /\ req[m].at = "sent" /\ Asking(m) /\ pend[m] \in Pending /\ op[m] \in Accesses
         /\ req[m].cmd = pend[m].cmd /\ pend[m].cmd = Command(op[m]) /\ op[m].at = "miss"
         /\ \/ req[m].cmd = "Flush" /\ op[m].evict /\ ConfirmOp(op[m]) = [op[m] EXCEPT !.evict = FALSE] /\ ConfirmPend(m) = None
            \/ req[m].cmd = "BusUpgr" /\ op[m].upgr /\ ~op[m].evict /\ ConfirmOp(op[m]) = None /\ ConfirmPend(m) = None
            \/ /\ req[m].cmd \in Reads /\ ~op[m].upgr /\ ~op[m].evict /\ ConfirmOp(op[m]) = op[m]
               /\ ConfirmPend(m) = [pend[m] EXCEPT !.tag = rtag[m]] /\ ConfirmPend(m) \in Pending
<1>1. req[m] # None /\ req[m].at = "sent" /\ req[m] \in Sending
  BY DEF Confirmed, Sent, MemTypes
<1>2. Asking(m) /\ pend[m] \in Pending /\ req[m].cmd = pend[m].cmd
  BY <1>1 DEF RequestsFollow, RequestOf, Asking, MemTypes
<1>3. op[m] # None /\ op[m].at # "bank" /\ pend[m].cmd = Command(op[m])
  BY <1>2 DEF RequestsFollow, RequestOf, Asking
<1>4. op[m] \in Accesses /\ op[m].at = "miss" /\ op[m].evict \in BOOLEAN /\ op[m].upgr \in BOOLEAN /\ op[m].write \in BOOLEAN
  BY <1>3 DEF MemTypes, Accesses
<1>5. CASE op[m].evict
  <2>1. Command(op[m]) = "Flush"
    BY <1>5 DEF Command
  <2> QED
    BY <2>1, <1>1, <1>2, <1>3, <1>4, <1>5 DEF ConfirmOp, ConfirmPend
<1>6. CASE ~op[m].evict /\ op[m].upgr
  <2>1. Command(op[m]) = "BusUpgr"
    BY <1>6 DEF Command
  <2> QED
    BY <2>1, <1>1, <1>2, <1>3, <1>4, <1>6 DEF ConfirmOp, ConfirmPend
<1>7. CASE ~op[m].evict /\ ~op[m].upgr
  <2>1. Command(op[m]) \in Reads
    BY <1>4, <1>7 DEF Command, Reads
  <2>2. ConfirmOp(op[m]) = op[m]
    BY <1>7 DEF ConfirmOp
  <2>3. ConfirmPend(m) = [pend[m] EXCEPT !.tag = rtag[m]]
    BY <2>1, <1>3 DEF ConfirmPend, Reads
  <2>4. rtag[m] \in 0 .. 7
    BY DEF MemTypes
  <2>5. ConfirmPend(m) \in Pending
    BY <1>2, <2>3, <2>4 DEF Pending
  <2> QED
    BY <2>1, <2>2, <2>3, <2>5, <1>1, <1>2, <1>3, <1>4, <1>7
<1> QED
  BY <1>4, <1>5, <1>6, <1>7

LEMMA NextTag == \A r \in 0 .. 7 : (r + 1) % 8 \in 0 .. 7
OBVIOUS

LEMMA SecondTypes ==
  ASSUME MemTypes, DramTypes, RequestsFollow, RoundIsOf, SecondHalf, fault' = {}
  PROVE  MemTypes' /\ DramTypes'
<1>1. PICK g \in Masters \cup {"rom", "dram", "nobody"} :
         /\ Granted(g)
         /\ turn' = (CHOOSE m \in Masters : m # turn) \/ turn' = turn
         /\ \A m \in Masters :
              /\ snoop'[m] = IF SnoopSent(m) THEN None
                             ELSE IF m = g /\ SnoopReady(m) THEN [snoop[m] EXCEPT !.at = "sent"] ELSE snoop[m]
              /\ req'[m] = IF Confirmed(m) THEN None
                           ELSE IF m = g /\ snoop[m] = None THEN [req[m] EXCEPT !.at = "sent"] ELSE req[m]
  BY SecondMoves
<1>2. turn' \in Masters
  <2>1. turn \in Masters
    BY DEF MemTypes
  <2>2. \E m \in Masters : m # turn
    BY <2>1, TwoMasters
  <2> QED
    BY <1>1, <2>1, <2>2
<1>3. op' \in [Masters -> Accesses \cup {None}]
  <2>1. op' = [m \in Masters |-> IF Confirmed(m) THEN ConfirmOp(op[m]) ELSE op[m]]
    BY DEF SecondHalf
  <2>2. ASSUME NEW m \in Masters, Confirmed(m) PROVE ConfirmOp(op[m]) \in Accesses \cup {None}
    <3>1. op[m] \in Accesses
      BY <2>2, ConfirmedMoves
    <3>2. [op[m] EXCEPT !.evict = FALSE] \in Accesses
      BY <3>1 DEF Accesses
    <3> QED
      BY <3>1, <3>2 DEF ConfirmOp
  <2> QED
    BY <2>1, <2>2 DEF MemTypes
<1>4. pend' \in [Masters -> Pending \cup {None}]
  <2>1. pend' = [m \in Masters |-> IF Confirmed(m) THEN ConfirmPend(m) ELSE pend[m]]
    BY DEF SecondHalf
  <2>2. ASSUME NEW m \in Masters, Confirmed(m) PROVE ConfirmPend(m) \in Pending \cup {None}
    BY <2>2, ConfirmedMoves
  <2> QED
    BY <2>1, <2>2 DEF MemTypes
<1>5. rtag' \in [Masters -> 0 .. 7]
  BY NextTag DEF SecondHalf, MemTypes
<1>6. req' \in [Masters -> Sending \cup {None}]
  <2>1. req' = [m \in Masters |-> req'[m]]
    BY DEF SecondHalf, Grant
  <2>2. ASSUME NEW m \in Masters PROVE req'[m] \in Sending \cup {None}
    <3>1. req[m] \in Sending \cup {None}
      BY DEF MemTypes
    <3>2. req[m] # None => [req[m] EXCEPT !.at = "sent"] \in Sending
      BY <3>1 DEF Sending
    <3>3. m = g /\ snoop[m] = None => req[m] # None
      <4>1. m # "rom" /\ m # "dram" /\ m # "nobody"
        BY TwoMasters
      <4> QED
        BY <4>1, <1>1 DEF Granted, GrantFlush, GrantRequest, SnoopReady, ReqReady
    <3> QED
      BY <3>1, <3>2, <3>3, <1>1
  <2> QED
    BY <2>1, <2>2
<1>7. snoop' \in [Masters -> Flushes \cup {None}]
  <2>1. snoop' = [m \in Masters |-> snoop'[m]]
    BY DEF SecondHalf, Grant
  <2>2. ASSUME NEW m \in Masters PROVE snoop'[m] \in Flushes \cup {None}
    <3>1. snoop[m] \in Flushes \cup {None}
      BY DEF MemTypes
    <3>2. snoop[m] # None => [snoop[m] EXCEPT !.at = "sent"] \in Flushes
      BY <3>1 DEF Flushes
    <3>3. SnoopReady(m) => snoop[m] # None
      BY DEF SnoopReady
    <3> QED
      BY <3>1, <3>2, <3>3, <1>1
  <2> QED
    BY <2>1, <2>2
<1>8. way' \in [Masters -> [line : Lines, state : {"I", "S", "M"}, data : Data]]
  <2> DEFINE MS == {n \in Masters : Upgraded(n)}
  <2>1. \A n \in MS : op[n] # None
    <3>1. \A n \in MS : Confirmed(n)
      BY DEF Upgraded
    <3>2. \A n \in MS : op[n] \in Accesses
      BY <3>1, ConfirmedMoves
    <3> QED
      BY <3>2, NoneIsNothing
  <2>2. ASSUME NEW m \in Masters
        PROVE  [way[m] EXCEPT !.state = IF Confirmed(m) /\ pend[m].cmd = "BusUpgr" THEN "M" ELSE @,
                              !.data = NewData(m, MS)] \in [line : Lines, state : {"I", "S", "M"}, data : Data]
    <3>1. NewData(m, MS) \in Data
      BY <2>1, NewDataIsData
    <3>2. way[m] \in [line : Lines, state : {"I", "S", "M"}, data : Data]
      BY DEF MemTypes
    <3>3. PICK w : w = [way[m] EXCEPT !.state = IF Confirmed(m) /\ pend[m].cmd = "BusUpgr" THEN "M" ELSE @]
      OBVIOUS
    <3>4. w \in [line : Lines, state : {"I", "S", "M"}, data : Data]
      BY <3>2, <3>3
    <3>5. PICK d \in Data : d = NewData(m, MS)
      BY <3>1
    <3>6. [w EXCEPT !.data = d] \in [line : Lines, state : {"I", "S", "M"}, data : Data]
      BY <3>4, <3>5
    <3> QED
      BY <3>3, <3>5, <3>6
  <2>3. way' = [m \in Masters |->
               [way[m] EXCEPT !.state = IF Confirmed(m) /\ pend[m].cmd = "BusUpgr" THEN "M" ELSE @,
                              !.data = NewData(m, MS)]]
    BY DEF SecondHalf
  <2> QED
    BY <2>2, <2>3
<1>9. latest' \in [Lines -> Nat]
  BY PerformedTypes DEF SecondHalf
<1>10. bus' \in Rounds \cup {None} /\ rcmd' \in RomReads \cup {None} /\ DramTypes'
  <2>1. CASE GrantRom
    <3>1. rcmd.tag \in Tags /\ rcmd.line \in Lines /\ Content(0) \in Data
      BY <2>1, LineData DEF GrantRom, MemTypes, RomReads
    <3> QED
      BY <2>1, <3>1 DEF GrantRom, dramVars, DramTypes, Rounds
  <2>2. CASE GrantDram
    <3>1. Head(read_queue) \in [tag : Tags, addr : Addrs, line : DramLines]
          /\ Tail(read_queue) \in Seq([tag : Tags, addr : Addrs, line : DramLines])
      BY <2>2, HeadTailProperties DEF GrantDram, DramTypes
    <3>2. PICK l \in Ram : Head(read_queue).addr = LineBytes * l
      BY <3>1 DEF Addrs
    <3>3. Head(read_queue).addr \div LineBytes \in Lines
      BY <3>2, LinesOfRam
    <3>4. Unpacked(Head(read_queue).line) \in Data
      BY <3>1, LineData
    <3>5. bus' \in Rounds
      BY <2>2, <3>1, <3>3, <3>4 DEF GrantDram, Rounds
    <3> QED
      BY <2>2, <3>1, <3>5 DEF GrantDram, DramTypes, MemTypes
  <2>3. CASE GrantFlush(g)
    <3>1. snoop[g] \in Flushes
      BY <2>3 DEF GrantFlush, SnoopReady, MemTypes
    <3> QED
      BY <2>3, <3>1 DEF GrantFlush, dramVars, DramTypes, MemTypes, Flushes, Rounds, Commands
  <2>4. CASE GrantRequest(g)
    <3>1. req[g] \in Sending /\ rtag[g] \in 0 .. 7 /\ g \in Masters
      BY <2>4 DEF GrantRequest, ReqReady, MemTypes
    <3>2. bus' \in Rounds
      BY <2>4, <3>1 DEF GrantRequest, Sending, Rounds, Tags
    <3> QED
      BY <2>4, <3>2 DEF GrantRequest, dramVars, DramTypes, MemTypes
  <2>5. CASE GrantNobody
    BY <2>5 DEF GrantNobody, dramVars, DramTypes, MemTypes
  <2> QED
    BY <1>1, <2>1, <2>2, <2>3, <2>4, <2>5 DEF Granted
<1>11. /\ half' \in {0, 1} /\ dreq' \in BOOLEAN /\ hurt' \subseteq Masters
       /\ UNCHANGED <<hit, nack, dnack, dcmd, rreq, nops>>
  BY DEF SecondHalf, Grant, MemTypes
<1> QED
  BY <1>2, <1>3, <1>4, <1>5, <1>6, <1>7, <1>8, <1>9, <1>10, <1>11 DEF MemTypes
-----------------------------------------------------------------------------
(* The request of an access *)

LEMMA TagArithmetic ==
  /\ \A r \in 0 .. 7 : (((r + 1) % 8) + 7) % 8 = r /\ (r + 7) % 8 # r /\ (r + 7) % 8 \in 0 .. 7
OBVIOUS

\* Nothing that the clauses speak of has changed.
LEMMA SameRequest ==
  ASSUME NEW m \in Masters, RequestOf(m), op'[m] = op[m], pend'[m] = pend[m], rtag'[m] = rtag[m],
         req[m] = None => req'[m] = None,
         req[m] # None => /\ req'[m] # None /\ req'[m].cmd = req[m].cmd /\ req'[m].line = req[m].line
  PROVE  RequestOf(m)'
BY DEF RequestOf, Asking, Awaiting

LEMMA StartRequests ==
  ASSUME MemTypes, RequestsFollow, NEW m \in Masters, Start(m)
  PROVE  RequestsFollow'
<1> SUFFICES ASSUME NEW n \in Masters PROVE RequestOf(n)'
  BY DEF RequestsFollow
<1>1. UNCHANGED <<pend, req, rtag>> /\ op[m] = None
  BY DEF Start
<1>2. RequestOf(n)
  BY DEF RequestsFollow
<1>3. CASE n # m
  <2>1. op'[n] = op[n]
    BY <1>3 DEF Start, MemTypes
  <2> QED
    BY <1>1, <1>2, <2>1, SameRequest
<1>4. CASE n = m
  BY <1>1, <1>2, <1>4 DEF RequestOf, Asking, Awaiting
<1> QED
  BY <1>3, <1>4

LEMMA ScheduleRequests ==
  ASSUME MemTypes, RequestsFollow, NEW m \in Masters, Schedule(m)
  PROVE  RequestsFollow'
<1> SUFFICES ASSUME NEW n \in Masters PROVE RequestOf(n)'
  BY DEF RequestsFollow
<1>1. UNCHANGED <<op, rtag>> /\ op[m] # None /\ op[m].at = "miss" /\ pend[m] = None /\ req[m] = None
  BY DEF Schedule, Waits
<1>2. RequestOf(n)
  BY DEF RequestsFollow
<1>3. CASE n # m
  <2>1. pend'[n] = pend[n] /\ req'[n] = req[n]
    BY <1>3 DEF Schedule, MemTypes
  <2> QED
    BY <1>1, <1>2, <2>1, SameRequest
<1>4. CASE n = m
  <2>1. pend'[m] = [cmd |-> Command(op[m]), tag |-> NoTag]
    BY DEF Schedule, MemTypes
  <2>2. req'[m] = [cmd |-> Command(op[m]), at |-> "data", left |-> Burst, data |-> way[m].data,
              line |-> IF Command(op[m]) = "Flush" THEN way[m].line ELSE op[m].line]
    BY DEF Schedule, MemTypes
  <2>3. pend'[m] # None /\ req'[m] # None
    <3>1. pend'[m].cmd = Command(op[m])
      BY <2>1
    <3>2. Command(op[m]) \in Commands
      BY DEF Command, Commands, Requests
    <3>3. pend'[m] \in Pending
      BY <2>1, <3>2 DEF Pending
    <3>4. op[m].line \in Lines /\ way[m].line \in Lines /\ way[m].data \in Data /\ Burst \in 0 .. 3
      BY <1>1 DEF MemTypes, Accesses, Burst
    <3>5. req'[m] \in Sending
      BY <2>2, <3>2, <3>4 DEF Sending
    <3> QED
      BY <3>3, <3>5, NoneIsNothing
  <2>4. Command(op[m])' = Command(op[m])
    BY <1>1
  <2> QED
    BY <1>1, <1>4, <2>1, <2>2, <2>3, <2>4 DEF RequestOf, Asking, Awaiting, NoTag
<1> QED
  BY <1>3, <1>4

LEMMA ReadyRequests ==
  ASSUME MemTypes, RequestsFollow, NEW m \in Masters, Ready(m)
  PROVE  RequestsFollow'
<1> SUFFICES ASSUME NEW n \in Masters PROVE RequestOf(n)'
  BY DEF RequestsFollow
<1>1. UNCHANGED <<op, pend, rtag>> /\ req[m] # None
  BY DEF Ready
<1>2. RequestOf(n)
  BY DEF RequestsFollow
<1>3. CASE n # m
  <2>1. req'[n] = req[n]
    BY <1>3 DEF Ready, MemTypes
  <2> QED
    BY <1>1, <1>2, <2>1, SameRequest
<1>4. CASE n = m
  <2>1. req[m] \in Sending
    BY <1>1 DEF MemTypes
  <2>2. req'[m] = [req[m] EXCEPT !.at = "ready", !.left = 0]
    BY DEF Ready, MemTypes
  <2>3. req'[m].cmd = req[m].cmd /\ req'[m].line = req[m].line /\ req'[m] # None
    <3>1. PICK r : r = [req[m] EXCEPT !.at = "ready"]
      OBVIOUS
    <3>2. r \in Sending /\ r.cmd = req[m].cmd /\ r.line = req[m].line
      BY <2>1, <3>1 DEF Sending
    <3>3. req'[m] = [r EXCEPT !.left = 0]
      BY <2>2, <3>1
    <3>4. req'[m] \in Sending /\ req'[m].cmd = r.cmd /\ req'[m].line = r.line
      BY <3>2, <3>3 DEF Sending
    <3> QED
      BY <3>2, <3>4, NoneIsNothing
  <2> QED
    BY <1>1, <1>2, <1>4, <2>3, SameRequest
<1> QED
  BY <1>3, <1>4

LEMMA FirstRequests ==
  ASSUME MemTypes, RequestsFollow, NEW ready \in BOOLEAN, FirstHalf(ready), fault' = {}
  PROVE  RequestsFollow'
<1> SUFFICES ASSUME NEW n \in Masters PROVE RequestOf(n)'
  BY DEF RequestsFollow
<1>1. RequestOf(n)
  BY DEF RequestsFollow
<1>2. rtag' = rtag
  BY DEF FirstHalf
<1>3. /\ op'[n] = IF n \in ToBanks THEN None
                  ELSE IF Fills(n) /\ op[n] # None THEN [op[n] EXCEPT !.at = "bank"] ELSE op[n]
      /\ pend'[n] = IF Fills(n) THEN None ELSE pend[n]
      /\ req[n] = None => req'[n] = None
      /\ req[n] # None => /\ req'[n] # None /\ req'[n].cmd = req[n].cmd /\ req'[n].line = req[n].line
  BY FirstMoves, NoneIsNothing
<1>4. CASE Fills(n)
  <2>1. pend[n] # None /\ pend[n].tag # NoTag
    BY <1>4 DEF Fills
  <2>2. req[n] = None
    BY <1>1, <2>1 DEF RequestOf, Asking
  <2>3. op[n] # None /\ op[n].at # "bank"
    BY <1>1, <2>1 DEF RequestOf
  <2>4. op[n] \in Accesses
    BY <2>3 DEF MemTypes
  <2>5. op'[n].at = "bank"
    BY <1>3, <1>4, <2>3, <2>4 DEF ToBanks, Accesses
  <2> QED
    BY <1>3, <1>4, <2>2, <2>5 DEF RequestOf, Asking, Awaiting
<1>5. CASE ~Fills(n) /\ n \in ToBanks
  <2>1. pend[n] = None
    BY <1>1, <1>5 DEF RequestOf, ToBanks
  <2>2. req[n] = None
    BY <1>1, <2>1 DEF RequestOf, Asking
  <2> QED
    BY <1>3, <1>5, <2>1, <2>2 DEF RequestOf, Asking, Awaiting
<1>6. CASE ~Fills(n) /\ n \notin ToBanks
  BY <1>1, <1>2, <1>3, <1>6, SameRequest
<1> QED
  BY <1>4, <1>5, <1>6

LEMMA SecondRequests ==
  ASSUME MemTypes, DramTypes, RequestsFollow, RoundIsOf, SecondHalf, fault' = {}
  PROVE  RequestsFollow'
<1> SUFFICES ASSUME NEW n \in Masters PROVE RequestOf(n)'
  BY DEF RequestsFollow
<1>1. RequestOf(n)
  BY DEF RequestsFollow
<1>2. /\ op'[n] = IF Confirmed(n) THEN ConfirmOp(op[n]) ELSE op[n]
      /\ pend'[n] = IF Confirmed(n) THEN ConfirmPend(n) ELSE pend[n]
      /\ rtag'[n] = IF Confirmed(n) THEN (rtag[n] + 1) % 8 ELSE rtag[n]
  BY DEF SecondHalf
<1>3. PICK g : /\ Granted(g)
               /\ req'[n] = IF Confirmed(n) THEN None
                            ELSE IF n = g /\ snoop[n] = None THEN [req[n] EXCEPT !.at = "sent"] ELSE req[n]
  BY SecondMoves
<1>4. CASE Confirmed(n)
  <2>1. req'[n] = None
    BY <1>3, <1>4
  <2>2. /\ op[n] \in Accesses /\ op[n].at = "miss" /\ pend[n] \in Pending /\ pend[n].cmd = Command(op[n])
        /\ req[n].cmd = pend[n].cmd
    BY <1>4, ConfirmedMoves
  <2>3. CASE req[n].cmd = "Flush" /\ op[n].evict /\ ConfirmOp(op[n]) = [op[n] EXCEPT !.evict = FALSE] /\ ConfirmPend(n) = None
    BY <1>2, <1>4, <2>1, <2>3 DEF RequestOf, Asking, Awaiting
  <2>4. CASE req[n].cmd = "BusUpgr" /\ ConfirmOp(op[n]) = None /\ ConfirmPend(n) = None
    BY <1>2, <1>4, <2>1, <2>4 DEF RequestOf, Asking, Awaiting
  <2>5. CASE req[n].cmd \in Reads /\ ConfirmOp(op[n]) = op[n] /\ ConfirmPend(n) = [pend[n] EXCEPT !.tag = rtag[n]]
    <3>1. rtag[n] \in 0 .. 7 /\ rtag'[n] = (rtag[n] + 1) % 8
      BY <1>2, <1>4 DEF MemTypes
    <3>2. (rtag'[n] + 7) % 8 = rtag[n]
      BY <3>1, TagArithmetic
    <3>3. pend'[n].cmd = pend[n].cmd /\ pend'[n].tag = rtag[n]
      BY <1>2, <1>4, <2>2, <2>5 DEF Pending
    <3>4. rtag[n] # NoTag
      BY <3>1 DEF NoTag
    <3>5. op'[n] = op[n] /\ op[n] # None
      BY <1>2, <1>4, <2>2, <2>5, NoneIsNothing
    <3>6. Command(op[n])' = Command(op[n])
      BY <3>5
    <3> QED
      BY <2>1, <2>2, <2>5, <3>2, <3>3, <3>4, <3>5, <3>6 DEF RequestOf, Asking, Awaiting
  <2> QED
    BY <1>4, <2>3, <2>4, <2>5, ConfirmedMoves
<1>5. CASE ~Confirmed(n)
  <2>1. op'[n] = op[n] /\ pend'[n] = pend[n] /\ rtag'[n] = rtag[n]
    BY <1>2, <1>5
  <2>2. CASE n = g /\ snoop[n] = None
    <3>1. n # "rom" /\ n # "dram" /\ n # "nobody"
      BY TwoMasters
    <3>2. ReqReady(n)
      BY <2>2, <3>1, <1>3 DEF Granted, GrantFlush, GrantRequest, SnoopReady
    <3>3. req[n] # None /\ req[n] \in Sending
      BY <3>2 DEF ReqReady, MemTypes
    <3>4. req'[n] = [req[n] EXCEPT !.at = "sent"]
      BY <1>3, <1>5, <2>2
    <3>5. req'[n] \in Sending /\ req'[n].cmd = req[n].cmd /\ req'[n].line = req[n].line
      BY <3>3, <3>4 DEF Sending
    <3> QED
      BY <1>1, <2>1, <3>3, <3>5, SameRequest, NoneIsNothing
  <2>3. CASE ~(n = g /\ snoop[n] = None)
    <3>1. req'[n] = req[n]
      BY <1>3, <1>5, <2>3
    <3> QED
      BY <1>1, <2>1, <3>1, SameRequest
  <2> QED
    BY <2>2, <2>3
<1> QED
  BY <1>4, <1>5
-----------------------------------------------------------------------------
(* What is on the bus *)

\* A request that has not been sent changes, and the bus does not.
LEMMA SameRound ==
  ASSUME MemTypes, RoundIsOf, NEW m \in Masters, ~Sent(m), ~Sent(m)',
         \A n \in Masters \ {m} : req'[n] = req[n] /\ pend'[n] = pend[n],
         pend'[m] = pend[m] \/ ~Awaiting(m)',
         UNCHANGED <<bus, half, rcmd, rreq, dreq, read_queue, snoop, rtag, hurt>>
  PROVE  RoundIsOf'
<1>1. \A n \in Masters : Sent(n)' <=> Sent(n)
  BY DEF Sent
<1>2. \A n \in Masters : Sent(n) => (Its(n)' <=> Its(n))
  BY DEF Its
<1>3. \A n \in Masters : SnoopSent(n)' <=> SnoopSent(n)
  BY DEF SnoopSent
<1>4. \A n \in Masters : Awaiting(n)' => Awaiting(n) /\ pend'[n] = pend[n]
  BY DEF Awaiting
<1>5. \A cmds : OnBus(cmds)' <=> OnBus(cmds)
  BY DEF OnBus
<1>6. OnBus(Commands) => \/ OnBus({"Flush"}) /\ \E n \in Masters : SnoopSent(n)
                         \/ Sent(bus.tag[1]) /\ Its(bus.tag[1])
  BY DEF RoundIsOf
<1>7. OnBus(Commands)' => \/ OnBus({"Flush"})' /\ \E n \in Masters : SnoopSent(n)'
                          \/ Sent(bus.tag[1])' /\ Its(bus.tag[1])'
  <2> SUFFICES ASSUME OnBus(Commands)', ~(OnBus({"Flush"})' /\ \E n \in Masters : SnoopSent(n)')
               PROVE  Sent(bus.tag[1])' /\ Its(bus.tag[1])'
    OBVIOUS
  <2>1. OnBus(Commands) /\ Sent(bus.tag[1]) /\ Its(bus.tag[1])
    BY <1>3, <1>5, <1>6
  <2>2. bus.tag[1] # m /\ bus.tag[1] \in Masters
    BY <2>1 DEF OnBus, MemTypes, Rounds, Tags
  <2>3. req'[bus.tag[1]] = req[bus.tag[1]] /\ bus' = bus /\ rtag' = rtag
    BY <2>2
  <2> QED
    BY <2>1, <2>3 DEF Sent, Its
<1>8. /\ \A n \in Masters : SnoopSent(n)' =>
             OnBus({"Flush"})' /\ bus'.tag = snoop'[n].tag /\ bus'.line = snoop'[n].line
      /\ \A n \in Masters : snoop'[n] # None => snoop'[n].tag[1] # n
  BY <1>3, <1>5 DEF RoundIsOf
<1>9. \A n \in Masters \ hurt' : Sent(n)' => Its(n)'
  BY <1>1, <1>2 DEF RoundIsOf
<1>10. half' = 1 /\ OnBus({"Fill", "Flush"})' =>
         \A n \in Masters : Awaiting(n)' => bus'.tag # <<n, pend'[n].tag>>
  BY <1>4, <1>5 DEF RoundIsOf
<1>11. /\ rcmd' # None => IF half' = 0 THEN ~OnBus(Requests)' ELSE rreq'
       /\ rreq' /\ half' = 1 => rcmd' # None
       /\ dreq' => read_queue' # << >>
  BY <1>5 DEF RoundIsOf
<1> QED
  BY <1>7, <1>8, <1>9, <1>10, <1>11 DEF RoundIsOf

LEMMA CacheRounds ==
  ASSUME MemTypes, RoundIsOf, NEW m \in Masters, Start(m) \/ Schedule(m) \/ Ready(m)
  PROVE  RoundIsOf'
<1>1. UNCHANGED <<bus, half, rcmd, rreq, dreq, read_queue, snoop, rtag, hurt>>
  BY DEF Start, Schedule, Ready, busVars, histVars, dramVars
<1>2. CASE Start(m)
  <2>1. UNCHANGED <<req, pend>>
    BY <1>2 DEF Start
  <2> QED
    BY <1>1, <2>1 DEF RoundIsOf, OnBus, SnoopSent, Sent, Its, Awaiting
<1>3. CASE Schedule(m)
  <2>1. req[m] = None /\ pend[m] = None
    BY <1>3 DEF Schedule, Waits
  <2>2. \A n \in Masters \ {m} : req'[n] = req[n] /\ pend'[n] = pend[n]
    BY <1>3 DEF Schedule, MemTypes
  <2>3. ~Sent(m) /\ ~Sent(m)' /\ ~Awaiting(m)'
    BY <1>3, <2>1 DEF Schedule, MemTypes, Sent, Awaiting
  <2> QED
    BY <1>1, <2>2, <2>3, SameRound
<1>4. CASE Ready(m)
  <2>1. \A n \in Masters \ {m} : req'[n] = req[n] /\ pend'[n] = pend[n]
    BY <1>4 DEF Ready, MemTypes
  <2>2. pend' = pend
    BY <1>4 DEF Ready
  <2>3. req[m] \in Sending /\ req[m].at = "data"
    BY <1>4 DEF Ready, MemTypes
  <2>4. req'[m].at = "ready"
    <3>1. PICK r : r = [req[m] EXCEPT !.at = "ready"]
      OBVIOUS
    <3>2. r \in Sending /\ r.at = "ready"
      BY <2>3, <3>1 DEF Sending
    <3>3. req'[m] = [r EXCEPT !.left = 0]
      BY <1>4, <3>1 DEF Ready, MemTypes
    <3> QED
      BY <3>2, <3>3 DEF Sending
  <2>5. ~Sent(m) /\ ~Sent(m)'
    BY <2>3, <2>4 DEF Sent
  <2> QED
    BY <1>1, <2>1, <2>2, <2>5, SameRound
<1> QED
  BY <1>2, <1>3, <1>4

LEMMA TickRounds ==
  ASSUME DramTypes, RoundIsOf, ClockTick, UNCHANGED <<cacheVars, busVars, histVars>>
  PROVE  RoundIsOf'
<1>1. read_queue' = << >> => read_queue = << >>
  <2>1. PICK i \in 1 .. Len(transactions) :
          IF transactions[i].write THEN read_queue' = read_queue
          ELSE read_queue' = Append(read_queue, [tag |-> transactions[i].tag, addr |-> transactions[i].addr,
                                                        line |-> LineAt(transactions[i].addr)])
    BY TickMoves
  <2>2. PICK e : transactions[i].write \/ read_queue' = Append(read_queue, e)
    BY <2>1
  <2>3. read_queue \in Seq([tag : Tags, addr : Addrs, line : DramLines])
    BY DEF DramTypes
  <2>4. Append(read_queue, e) # << >>
    BY <2>3
  <2> QED
    BY <2>1, <2>2, <2>4
<1> QED
  BY <1>1 DEF RoundIsOf, OnBus, SnoopSent, Sent, Its, Awaiting, cacheVars, busVars, histVars

LEMMA FirstRounds ==
  ASSUME MemTypes, RequestsFollow, RoundIsOf, NEW ready \in BOOLEAN, FirstHalf(ready), fault' = {}
  PROVE  RoundIsOf'
<1>1. UNCHANGED <<bus, rtag, dreq>> /\ half = 0 /\ half' = 1 /\ hurt \subseteq hurt'
  BY DEF FirstHalf
<1>2. \A n \in Masters : (Sent(n)' <=> Sent(n)) /\ (Sent(n) => (Its(n)' <=> Its(n)))
  BY <1>1, FirstMoves, NoneIsNothing DEF Sent, Its
<1>3. \A n \in Masters : (SnoopSent(n)' <=> SnoopSent(n)) /\ (SnoopSent(n) => snoop'[n] = snoop[n])
  <2> SUFFICES ASSUME NEW n \in Masters PROVE (SnoopSent(n)' <=> SnoopSent(n)) /\ (SnoopSent(n) => snoop'[n] = snoop[n])
    OBVIOUS
  <2>1. snoop'[n] = IF Gives(n)
                        THEN [tag |-> bus.tag, line |-> bus.line, data |-> way[n].data, at |-> "data"]
                        ELSE IF snoop[n] # None /\ snoop[n].at = "data"
                             THEN [snoop[n] EXCEPT !.at = "ready"] ELSE snoop[n]
    BY FirstMoves
  <2>2. Gives(n) => snoop[n] = None
    BY FirstMoves DEF Busy
  <2>3. snoop[n] # None => snoop[n] \in Flushes
    BY DEF MemTypes
  <2> QED
    BY <2>1, <2>2, <2>3 DEF SnoopSent, Flushes
<1>4. \A cmds : OnBus(cmds)' <=> OnBus(cmds)
  BY <1>1 DEF OnBus
<1>5. OnBus(Commands)' => \/ OnBus({"Flush"})' /\ \E n \in Masters : SnoopSent(n)'
                          \/ Sent(bus.tag[1])' /\ Its(bus.tag[1])'
  <2>1. OnBus(Commands) => bus.tag[1] \in Masters
    BY DEF OnBus, MemTypes, Rounds, Tags
  <2>2. bus' = bus
    BY <1>1
  <2> QED
    BY <1>2, <1>3, <1>4, <2>1, <2>2 DEF RoundIsOf
<1>6. \A n \in Masters : SnoopSent(n)' =>
             OnBus({"Flush"})' /\ bus'.tag = snoop'[n].tag /\ bus'.line = snoop'[n].line
  BY <1>1, <1>3, <1>4 DEF RoundIsOf
<1>7. \A n \in Masters : snoop'[n] # None => snoop'[n].tag[1] # n
  <2> SUFFICES ASSUME NEW n \in Masters, snoop'[n] # None PROVE snoop'[n].tag[1] # n
    OBVIOUS
  <2>1. CASE Gives(n)
    <3>1. snoop'[n] = [tag |-> bus.tag, line |-> bus.line, data |-> way[n].data, at |-> "data"]
      BY <2>1, FirstMoves
    <3>2. bus.tag[1] # n
      BY <2>1 DEF Gives, SnoopHit, Snooped
    <3> QED
      BY <3>1, <3>2
  <2>2. CASE ~Gives(n)
    <3>1. snoop'[n] = IF snoop[n] # None /\ snoop[n].at = "data"
                             THEN [snoop[n] EXCEPT !.at = "ready"] ELSE snoop[n]
      BY <2>2, FirstMoves
    <3>2. snoop[n] # None /\ snoop[n] \in Flushes
      BY <3>1 DEF MemTypes
    <3>3. snoop'[n].tag = snoop[n].tag
      BY <3>1, <3>2 DEF Flushes
    <3> QED
      BY <3>2, <3>3 DEF RoundIsOf
  <2> QED
    BY <2>1, <2>2
<1>8. \A n \in Masters \ hurt' : Sent(n)' => Its(n)'
  BY <1>1, <1>2 DEF RoundIsOf
<1>9. OnBus({"Fill", "Flush"})' => \A n \in Masters : Awaiting(n)' => bus'.tag # <<n, pend'[n].tag>>
  <2> SUFFICES ASSUME OnBus({"Fill", "Flush"}), NEW n \in Masters, Awaiting(n)', bus.tag = <<n, pend'[n].tag>>
               PROVE  FALSE
    BY <1>1, <1>4
  <2>1. pend'[n] = pend[n] /\ ~Fills(n)
    BY FirstMoves DEF Awaiting
  <2>2. Snooped(n)
    BY DEF Snooped, OnBus
  <2> QED
    BY <2>1, <2>2 DEF Fills, Awaiting
<1>10. /\ rcmd' # None => rreq'
       /\ rreq' => rcmd' # None
  <2>1. RomHears => bus.tag \in Tags /\ bus.line \in Lines
    BY DEF RomHears, OnBus, MemTypes, Rounds
  <2>2. RomHears => [tag |-> bus.tag, line |-> bus.line] # None
    BY <2>1, NoneIsNothing DEF RomReads
  <2> QED
    BY <2>2 DEF FirstHalf, RomRead
<1>11. dreq' => read_queue' # << >>
  <2>1. read_queue' = read_queue
    BY DEF FirstHalf, DramCommand, dramVars, CmdData, cmddata_calltf, dramsim_cmddata
  <2> QED
    BY <1>1, <2>1 DEF RoundIsOf
<1> QED
  BY <1>1, <1>5, <1>6, <1>7, <1>8, <1>9, <1>10, <1>11 DEF RoundIsOf

LEMMA SecondRounds ==
  ASSUME MemTypes, DramTypes, RequestsFollow, RoundIsOf, SecondHalf, fault' = {}
  PROVE  RoundIsOf'
<1>1. PICK shown \in [Masters -> BOOLEAN], g \in Masters \cup {"rom", "dram", "nobody"} :
         /\ \A m \in Masters : shown[m] \in ShowsResponse(m)
         /\ g \in Grants(shown) /\ Granted(g)
         /\ \A m \in Masters :
              /\ snoop'[m] = IF SnoopSent(m) THEN None
                             ELSE IF m = g /\ SnoopReady(m) THEN [snoop[m] EXCEPT !.at = "sent"] ELSE snoop[m]
              /\ req'[m] = IF Confirmed(m) THEN None
                           ELSE IF m = g /\ snoop[m] = None THEN [req[m] EXCEPT !.at = "sent"] ELSE req[m]
  BY SecondMoves
<1>2. half' = 0 /\ rreq' = rreq /\ dreq' = (read_queue' # << >>)
  BY DEF SecondHalf, Grant
<1>3. \A m \in Masters : rtag'[m] = IF Confirmed(m) THEN (rtag[m] + 1) % 8 ELSE rtag[m]
  BY DEF SecondHalf
<1>4. \A m \in Masters : SnoopSent(m)' => m = g /\ SnoopReady(m)
  <2> SUFFICES ASSUME NEW m \in Masters, SnoopSent(m)' PROVE m = g /\ SnoopReady(m)
    OBVIOUS
  <2>1. snoop'[m] # None /\ snoop'[m].at = "sent"
    BY DEF SnoopSent
  <2> QED
    BY <1>1, <2>1 DEF SnoopSent
<1>5. \A m \in Masters : SnoopReady(m) /\ m = g =>
        /\ SnoopSent(m)' /\ snoop'[m].tag = snoop[m].tag /\ snoop'[m].line = snoop[m].line
        /\ GrantFlush(m)
  <2> SUFFICES ASSUME NEW m \in Masters, SnoopReady(m), m = g
               PROVE  /\ SnoopSent(m)' /\ snoop'[m].tag = snoop[m].tag /\ snoop'[m].line = snoop[m].line
                      /\ GrantFlush(m)
    OBVIOUS
  <2>1. snoop[m] \in Flushes /\ snoop[m].at = "ready"
    BY DEF SnoopReady, MemTypes
  <2>2. snoop'[m] = [snoop[m] EXCEPT !.at = "sent"]
    BY <1>1, <2>1 DEF SnoopSent
  <2>3. snoop'[m] \in Flushes /\ snoop'[m].at = "sent" /\ snoop'[m].tag = snoop[m].tag /\ snoop'[m].line = snoop[m].line
    BY <2>1, <2>2 DEF Flushes
  <2>4. snoop[m] # None
    BY DEF SnoopReady
  <2>5. GrantFlush(m)
    BY <1>1, <2>4, TwoMasters DEF Granted, GrantRequest
  <2> QED
    BY <2>3, <2>5, NoneIsNothing DEF SnoopSent
<1>6. ASSUME NEW m \in Masters, GrantRequest(m), m = g
      PROVE  Sent(m)' /\ Its(m)' /\ req'[m].cmd = req[m].cmd /\ bus'.tag[1] = m /\ bus' # None
  <2>1. req[m] # None /\ req[m].at = "ready" /\ req[m] \in Sending /\ snoop[m] = None
    BY <1>6 DEF GrantRequest, ReqReady, MemTypes
  <2>2. ~Confirmed(m)
    BY <2>1 DEF Confirmed, Sent
  <2>3. req'[m] = [req[m] EXCEPT !.at = "sent"] /\ rtag'[m] = rtag[m]
    BY <1>1, <1>3, <1>6, <2>1, <2>2
  <2>4. req'[m] \in Sending /\ req'[m].at = "sent" /\ req'[m].cmd = req[m].cmd /\ req'[m].line = req[m].line
    BY <2>1, <2>3 DEF Sending
  <2>5. bus' = [cmd |-> req[m].cmd, tag |-> <<m, rtag[m]>>, line |-> req[m].line, data |-> req[m].data]
    BY <1>6 DEF GrantRequest
  <2>6. bus' \in Rounds
    BY <2>1, <2>5 DEF Sending, Rounds, Tags, MemTypes
  <2> QED
    BY <2>3, <2>4, <2>5, <2>6, NoneIsNothing DEF Sent, Its
<1>7. ASSUME NEW m \in Masters, Sent(m)'
      PROVE  m \in hurt' \/ (GrantRequest(m) /\ m = g)
  <2>1. req'[m] # None /\ req'[m].at = "sent" /\ ~Confirmed(m)
    BY <1>1, <1>7 DEF Sent
  <2>2. CASE m = g /\ snoop[m] = None
    BY <1>1, <2>2, TwoMasters DEF Granted, GrantFlush, SnoopReady
  <2>3. CASE ~(m = g /\ snoop[m] = None)
    <3>1. Sent(m)
      BY <1>1, <2>1, <2>3 DEF Sent
    <3>2. nack \/ dnack
      BY <2>1, <3>1 DEF Confirmed
    <3> QED
      BY <3>1, <3>2 DEF SecondHalf
  <2> QED
    BY <2>2, <2>3
<1>8. OnBus(Commands)' => \/ OnBus({"Flush"})' /\ \E n \in Masters : SnoopSent(n)'
                          \/ Sent(bus.tag[1])' /\ Its(bus.tag[1])'
  <2>1. CASE GrantRom \/ GrantDram \/ GrantNobody
    BY <2>1 DEF GrantRom, GrantDram, GrantNobody, OnBus, Commands, Requests
  <2>2. CASE GrantFlush(g)
    <3>1. g \in Masters /\ SnoopReady(g) /\ bus'.cmd = "Flush"
      BY <2>2 DEF GrantFlush
    <3>2. SnoopSent(g)'
      BY <1>5, <3>1
    <3>3. OnBus(Commands)' => OnBus({"Flush"})'
      BY <3>1 DEF OnBus
    <3> QED
      BY <3>1, <3>2, <3>3
  <2>3. CASE GrantRequest(g)
    <3>1. g \in Masters
      BY <2>3 DEF GrantRequest
    <3>2. Sent(g)' /\ Its(g)' /\ bus'.tag[1] = g
      BY <1>6, <2>3, <3>1
    <3> QED
      BY <3>2
  <2> QED
    BY <1>1, <2>1, <2>2, <2>3 DEF Granted
<1>9. \A n \in Masters : SnoopSent(n)' =>
             OnBus({"Flush"})' /\ bus'.tag = snoop'[n].tag /\ bus'.line = snoop'[n].line
  <2> SUFFICES ASSUME NEW n \in Masters, SnoopSent(n)'
               PROVE  OnBus({"Flush"})' /\ bus'.tag = snoop'[n].tag /\ bus'.line = snoop'[n].line
    OBVIOUS
  <2>1. GrantFlush(n) /\ snoop'[n].tag = snoop[n].tag /\ snoop'[n].line = snoop[n].line
    BY <1>4, <1>5
  <2>2. bus' = [cmd |-> "Flush", tag |-> snoop[n].tag, line |-> snoop[n].line, data |-> snoop[n].data]
        /\ snoop[n] \in Flushes
    BY <2>1 DEF GrantFlush, SnoopReady, MemTypes
  <2>3. bus' \in Rounds
    BY <2>2 DEF Flushes, Rounds, Commands
  <2> QED
    BY <2>1, <2>2, <2>3, NoneIsNothing DEF OnBus
<1>10. \A n \in Masters \ hurt' : Sent(n)' => Its(n)'
  BY <1>6, <1>7
<1>11. rcmd' # None => ~OnBus(Requests)'
  <2> SUFFICES ASSUME rcmd' # None PROVE ~OnBus(Requests)'
    OBVIOUS
  <2>1. rcmd # None
    BY <1>1 DEF Granted, GrantRom, GrantDram, GrantFlush, GrantRequest, GrantNobody
  <2>2. rreq
    BY <2>1, SecondMoves DEF RoundIsOf
  <2>3. g \in Responding(shown)
    BY <1>1, <2>2 DEF Grants, Responding
  <2>4. CASE GrantRom \/ GrantDram \/ GrantFlush(g) \/ GrantNobody
    BY <2>4 DEF GrantRom, GrantDram, GrantFlush, GrantNobody, OnBus, Requests
  <2>5. CASE GrantRequest(g)
    <3>1. g \in Masters /\ snoop[g] = None /\ ReqReady(g)
      BY <2>5 DEF GrantRequest
    <3>2. g \notin {"rom", "dram"}
      BY <3>1, TwoMasters
    <3>3. shown[g]
      BY <2>3, <3>2 DEF Responding
    <3>4. ShowsResponse(g) = {req[g].cmd = "Flush"}
      BY <3>1 DEF ShowsResponse, SnoopSent, ReqReady
    <3>5. req[g].cmd = "Flush"
      BY <1>1, <3>1, <3>3, <3>4
    <3> QED
      BY <2>5, <3>5 DEF GrantRequest, OnBus, Requests
  <2> QED
    BY <1>1, <2>4, <2>5 DEF Granted
<1>12. \A n \in Masters : snoop'[n] # None => snoop'[n].tag[1] # n
  <2> SUFFICES ASSUME NEW n \in Masters, snoop'[n] # None PROVE snoop'[n].tag[1] # n
    OBVIOUS
  <2>1. snoop[n] # None /\ snoop'[n].tag = snoop[n].tag
    BY <1>1, <1>5 DEF SnoopReady
  <2> QED
    BY <2>1 DEF RoundIsOf
<1>13. half' # 1
  BY <1>2
<1>14. /\ half' = 1 /\ OnBus({"Fill", "Flush"})' =>
            \A m \in Masters : Awaiting(m)' => bus'.tag # <<m, pend'[m].tag>>
       /\ rcmd' # None => IF half' = 0 THEN ~OnBus(Requests)' ELSE rreq'
       /\ rreq' /\ half' = 1 => rcmd' # None
       /\ dreq' => read_queue' # << >>
  BY <1>2, <1>11, <1>13
<1> QED
  BY <1>8, <1>9, <1>10, <1>12, <1>14 DEF RoundIsOf
-----------------------------------------------------------------------------
(* The answers *)

LEMMA LagArithmetic ==
  \A r \in 0 .. 7 : \A k \in 0 .. 7 :
    /\ (r + 8 - k) % 8 \in 0 .. 7
    /\ (r + 8 - r) % 8 = 0
    /\ (r + 8 - ((r + 7) % 8)) % 8 = 1
    /\ (r + 8 - k) % 8 < 7 => (((r + 1) % 8) + 8 - k) % 8 = ((r + 8 - k) % 8) + 1
    /\ (r + 8 - k) % 8 = 0 => r = k
OBVIOUS

\* Who waits has nothing to send.
LEMMA WhoAwaits ==
  ASSUME NEW m \in Masters, RequestOf(m)
  PROVE  /\ Awaiting(m) => req[m] = None /\ ~Sent(m) /\ op[m] # None /\ op[m].at # "bank"
         /\ Sent(m) => ~Awaiting(m) /\ op[m] # None /\ op[m].at # "bank"
BY DEF RequestOf, Asking, Awaiting, Sent

\* Nothing that the answers depend on has changed.
LEMMA SameAnswers ==
  ASSUME NEW m \in Masters, NEW k \in 0 .. 7, RequestOf(m), AnswerOf(m, k),
         UNCHANGED <<bus, half, nack, dnack, dcmd, transactions, read_queue, rcmd, snoop, rtag, turn>>,
         Awaiting(m)' <=> Awaiting(m), Awaiting(m) => pend'[m] = pend[m],
         Sent(m)' <=> Sent(m), Sent(m) => req'[m].cmd = req[m].cmd,
         op[m] # None => op'[m] = op[m]
  PROVE  AnswerOf(m, k)'
<1>1. (Wanted(m, k)' <=> Wanted(m, k)) /\ (Asked(m, k)' <=> Asked(m, k))
  BY DEF Wanted, Asked
<1>2. Wanted(m, k) => op'[m] = op[m]
  BY WhoAwaits DEF Wanted
<1>3. /\ NoneInDram(<<m, k>>)' <=> NoneInDram(<<m, k>>)
      /\ Some(<<m, k>>) => Some(<<m, k>>)'
      /\ OnlyOne(<<m, k>>) => OnlyOne(<<m, k>>)'
  BY DEF NoneInDram, Some, OnlyOne, InCtl, InLib, InReads, InRom, InFlush, InRound, SnoopSent
<1>4. AnswerComes(m, k) /\ Wanted(m, k) => AnswerComes(m, k)'
  BY <1>2, <1>3 DEF AnswerComes
<1>5. UpgradeAsked(m, k) => UpgradeAsked(m, k)'
  BY <1>3 DEF UpgradeAsked, InRom
<1>6. Left(m, k) => Left(m, k)'
  <2>1. Lag(m, k)' = Lag(m, k) /\ (Evicts(m)' <=> Evicts(m)) /\ (Again(m) => Again(m)')
    BY DEF Lag, Evicts, Again
  <2>2. (LeftInRom(m, k) => LeftInRom(m, k)') /\ (LeftInFlush(m, k) => LeftInFlush(m, k)')
        /\ (LeftInRound(m, k) => LeftInRound(m, k)')
    BY <2>1 DEF LeftInRom, LeftInFlush, LeftInRound
  <2>3. (InRom(<<m, k>>)' <=> InRom(<<m, k>>)) /\ InFlush(<<m, k>>)' = InFlush(<<m, k>>)
        /\ (InRound(<<m, k>>)' <=> InRound(<<m, k>>)) /\ \A n \in Masters : SnoopReady(n)' <=> SnoopReady(n)
    BY DEF InRom, InFlush, InRound, SnoopSent, SnoopReady
  <2>4. InFlush(<<m, k>>) \subseteq Masters
    BY DEF InFlush
  <2> QED
    BY <1>3, <2>2, <2>3, <2>4 DEF Left
<1>7. Asked(m, k) => req'[m].cmd = req[m].cmd
  BY DEF Asked
<1> QED
  BY <1>1, <1>4, <1>5, <1>6, <1>7 DEF AnswerOf

LEMMA CacheAnswers ==
  ASSUME MemTypes, RequestsFollow, AnswersCome, NEW m \in Masters, Start(m) \/ Schedule(m) \/ Ready(m)
  PROVE  AnswersCome'
<1> SUFFICES ASSUME NEW n \in Masters \ hurt', NEW k \in 0 .. 7 PROVE AnswerOf(n, k)'
  BY DEF AnswersCome
<1>1. UNCHANGED <<bus, half, nack, dnack, dcmd, transactions, read_queue, rcmd, snoop, rtag, turn, hurt>>
  BY DEF Start, Schedule, Ready, busVars, histVars, dramVars
<1>2. RequestOf(n) /\ AnswerOf(n, k)
  BY <1>1 DEF RequestsFollow, AnswersCome
<1>3. CASE Start(m)
  <2>1. UNCHANGED <<req, pend>>
    BY <1>3 DEF Start
  <2>2. op[n] # None => op'[n] = op[n]
    BY <1>3 DEF Start, MemTypes
  <2> QED
    BY <1>1, <1>2, <2>1, <2>2, SameAnswers DEF Awaiting, Sent
<1>4. CASE Schedule(m)
  <2>1. req[m] = None /\ pend[m] = None /\ op' = op
    BY <1>4 DEF Schedule, Waits
  <2>2. n # m => req'[n] = req[n] /\ pend'[n] = pend[n]
    BY <1>4 DEF Schedule, MemTypes
  <2>3. ~Sent(m) /\ ~Sent(m)' /\ ~Awaiting(m)' /\ ~Awaiting(m)
    BY <1>4, <2>1 DEF Schedule, MemTypes, Sent, Awaiting
  <2> QED
    BY <1>1, <1>2, <2>1, <2>2, <2>3, SameAnswers DEF Awaiting, Sent
<1>5. CASE Ready(m)
  <2>1. n # m => req'[n] = req[n]
    BY <1>5 DEF Ready, MemTypes
  <2>2. pend' = pend /\ op' = op
    BY <1>5 DEF Ready
  <2>3. req[m] \in Sending /\ req[m].at = "data"
    BY <1>5 DEF Ready, MemTypes
  <2>4. req'[m].at = "ready"
    <3>1. PICK r : r = [req[m] EXCEPT !.at = "ready"]
      OBVIOUS
    <3>2. r \in Sending /\ r.at = "ready"
      BY <2>3, <3>1 DEF Sending
    <3>3. req'[m] = [r EXCEPT !.left = 0]
      BY <1>5, <3>1 DEF Ready, MemTypes
    <3> QED
      BY <3>2, <3>3 DEF Sending
  <2>5. ~Sent(m) /\ ~Sent(m)'
    BY <2>3, <2>4 DEF Sent
  <2> QED
    BY <1>1, <1>2, <2>1, <2>2, <2>5, SameAnswers DEF Awaiting, Sent
<1> QED
  BY <1>3, <1>4, <1>5

\* A read that ends has its answer among the reads; otherwise only places change.
LEMMA TickPlaces ==
  ASSUME DramTypes, ClockTick, UNCHANGED <<cacheVars, busVars, histVars>>, NEW t
  PROVE  /\ NoneInDram(t) => NoneInDram(t)'
         /\ Some(t) => Some(t)'
         /\ OnlyOne(t) => OnlyOne(t)'
<1> DEFINE N == Len(transactions)
           L == Len(read_queue)
<1>1. PICK i \in 1 .. N :
         /\ Len(transactions') = N - 1
         /\ \A j \in 1 .. N - 1 : transactions'[j] = IF j < i THEN transactions[j] ELSE transactions[j + 1]
         /\ transactions[i].write => read_queue' = read_queue
         /\ ~transactions[i].write =>
              read_queue' = Append(read_queue, [tag |-> transactions[i].tag, addr |-> transactions[i].addr,
                                                line |-> LineAt(transactions[i].addr)])
  BY TickMoves
<1>2. /\ N \in Nat /\ L \in Nat /\ DOMAIN transactions = 1 .. N /\ DOMAIN read_queue = 1 .. L
      /\ read_queue \in Seq([tag : Tags, addr : Addrs, line : DramLines])
  BY LenProperties DEF DramTypes
<1>3. DOMAIN transactions' = 1 .. N - 1
  <2>1. transactions' \in Seq([tag : Tags, addr : Addrs, write : BOOLEAN])
    BY TickMoves DEF DramTypes
  <2> QED
    BY <1>1, <2>1, LenProperties
<1>a. (InCtl(t)' <=> InCtl(t)) /\ (InRom(t)' <=> InRom(t)) /\ InFlush(t)' = InFlush(t) /\ (InRound(t)' <=> InRound(t))
  BY DEF InCtl, InRom, InFlush, InRound, SnoopSent, cacheVars, busVars
<1> HIDE DEF N, L
<1>4. CASE transactions[i].write \/ transactions[i].tag # t
  <2>1. InReads(t)' = InReads(t)
    <3>1. CASE transactions[i].write
      BY <1>1, <3>1 DEF InReads
    <3>2. CASE ~transactions[i].write
      <4>1. PICK e : e = [tag |-> transactions[i].tag, addr |-> transactions[i].addr,
                                                line |-> LineAt(transactions[i].addr)]
        OBVIOUS
      <4>2. read_queue' = Append(read_queue, e) /\ e.tag # t
        BY <1>1, <1>4, <3>2, <4>1
      <4>3. /\ DOMAIN read_queue' = 1 .. L + 1 /\ read_queue'[L + 1] = e
            /\ \A j \in 1 .. L : read_queue'[j] = read_queue[j]
        BY <1>2, <4>2
      <4>4. \A j \in 1 .. L + 1 : j \in 1 .. L \/ j = L + 1
        BY <1>2
      <4>5. \A j \in 1 .. L : j \in 1 .. L + 1
        BY <1>2
      <4> QED
        BY <1>2, <4>2, <4>3, <4>4, <4>5 DEF InReads
    <3> QED
      BY <3>1, <3>2
  <2>2. \A j \in InLib(t)' : IF j < i THEN j \in InLib(t) ELSE j + 1 \in InLib(t)
    BY <1>1, <1>2, <1>3 DEF InLib
  <2>3. \A j \in InLib(t) : j # i /\ (IF j < i THEN j \in InLib(t)' ELSE j - 1 \in InLib(t)')
    <3> SUFFICES ASSUME NEW j \in InLib(t) PROVE j # i /\ (IF j < i THEN j \in InLib(t)' ELSE j - 1 \in InLib(t)')
      OBVIOUS
    <3>1. j \in 1 .. N /\ ~transactions[j].write /\ transactions[j].tag = t
      BY <1>2 DEF InLib
    <3>2. j # i
      BY <1>4, <3>1
    <3>3. CASE j < i
      <4>1. j \in 1 .. N - 1
        BY <3>1, <3>3, <1>2
      <4> QED
        BY <1>1, <1>3, <3>1, <3>2, <3>3, <4>1 DEF InLib
    <3>4. CASE ~(j < i)
      <4>1. j - 1 \in 1 .. N - 1 /\ ~(j - 1 < i) /\ j - 1 + 1 = j
        BY <3>1, <3>2, <3>4, <1>2
      <4>2. transactions'[j - 1] = transactions[j]
        BY <1>1, <4>1
      <4> QED
        BY <1>3, <3>1, <3>2, <3>4, <4>1, <4>2 DEF InLib
    <3> QED
      BY <3>3, <3>4
  <2>4. InLib(t)' = {} <=> InLib(t) = {}
    BY <2>2, <2>3
  <2>5. (\A a, b \in InLib(t) : a = b) => (\A a, b \in InLib(t)' : a = b)
    <3> SUFFICES ASSUME \A a, b \in InLib(t) : a = b, NEW a \in InLib(t)', NEW b \in InLib(t)' PROVE a = b
      OBVIOUS
    <3>1. a \in 1 .. N - 1 /\ b \in 1 .. N - 1
      BY <1>3 DEF InLib
    <3>2. \/ a < i /\ a \in InLib(t)
          \/ ~(a < i) /\ a + 1 \in InLib(t)
      BY <2>2
    <3>3. \/ b < i /\ b \in InLib(t)
          \/ ~(b < i) /\ b + 1 \in InLib(t)
      BY <2>2
    <3>4. \A j \in InLib(t) : j # i
      BY <2>3
    <3> QED
      BY <3>1, <3>2, <3>3, <3>4, <1>2
  <2> QED
    BY <1>a, <2>1, <2>4, <2>5 DEF NoneInDram, Some, OnlyOne
<1>5. CASE ~transactions[i].write /\ transactions[i].tag = t
  <2>1. PICK e : e = [tag |-> transactions[i].tag, addr |-> transactions[i].addr,
                                                line |-> LineAt(transactions[i].addr)]
    OBVIOUS
  <2>2. read_queue' = Append(read_queue, e) /\ e.tag = t
    BY <1>1, <1>5, <2>1
  <2>3. /\ DOMAIN read_queue' = 1 .. L + 1 /\ read_queue'[L + 1] = e
        /\ \A j \in 1 .. L : read_queue'[j] = read_queue[j]
    BY <1>2, <2>2 DEF L
  <2>4. InReads(t)' = InReads(t) \cup {L + 1}
    BY <1>2, <2>2, <2>3 DEF InReads
  <2>5. i \in InLib(t)
    BY <1>2, <1>5 DEF InLib
  <2>6. (\A a, b \in InLib(t) : a = b) => InLib(t)' = {}
    <3> SUFFICES ASSUME \A a, b \in InLib(t) : a = b, NEW j \in InLib(t)' PROVE FALSE
      OBVIOUS
    <3>1. j \in 1 .. N - 1 /\ ~transactions'[j].write /\ transactions'[j].tag = t
      BY <1>3 DEF InLib
    <3>2. j \in 1 .. N /\ j + 1 \in 1 .. N
      BY <1>2, <3>1
    <3>3. CASE j < i
      <4>1. j \in InLib(t)
        BY <1>1, <1>2, <3>1, <3>2, <3>3 DEF InLib
      <4> QED
        BY <4>1, <2>5, <3>3
    <3>4. CASE ~(j < i)
      <4>1. j + 1 \in InLib(t)
        BY <1>1, <1>2, <3>1, <3>2, <3>4 DEF InLib
      <4> QED
        BY <4>1, <2>5, <3>2, <3>4, <1>2
    <3> QED
      BY <3>3, <3>4
  <2> QED
    BY <1>a, <2>4, <2>5, <2>6 DEF NoneInDram, Some, OnlyOne
<1> QED
  BY <1>4, <1>5

LEMMA TickAnswers ==
  ASSUME DramTypes, AnswersCome, ClockTick, UNCHANGED <<cacheVars, busVars, histVars>>
  PROVE  AnswersCome'
<1> SUFFICES ASSUME NEW m \in Masters \ hurt', NEW k \in 0 .. 7 PROVE AnswerOf(m, k)'
  BY DEF AnswersCome
<1>1. hurt' = hurt /\ AnswerOf(m, k)
  BY DEF AnswersCome, histVars
<1>2. /\ Wanted(m, k)' <=> Wanted(m, k)
      /\ Asked(m, k)' <=> Asked(m, k)
      /\ op' = op /\ req' = req
  BY DEF Wanted, Asked, Awaiting, Sent, cacheVars, busVars
<1>3. /\ NoneInDram(<<m, k>>) => NoneInDram(<<m, k>>)'
      /\ Some(<<m, k>>) => Some(<<m, k>>)'
      /\ OnlyOne(<<m, k>>) => OnlyOne(<<m, k>>)'
  BY TickPlaces
<1>4. AnswerComes(m, k) => AnswerComes(m, k)'
  BY <1>2, <1>3 DEF AnswerComes
<1>5. UpgradeAsked(m, k) => UpgradeAsked(m, k)'
  BY <1>3 DEF UpgradeAsked, InRom, busVars
<1>6. Left(m, k) => Left(m, k)'
  BY <1>3 DEF Left, InRom, InFlush, InRound, SnoopSent, SnoopReady, LeftInRom, LeftInFlush, LeftInRound,
              Lag, Evicts, Again, Awaiting, Sent, cacheVars, busVars
<1> QED
  BY <1>1, <1>2, <1>4, <1>5, <1>6 DEF AnswerOf

\* What the first half does to the places of an answer.
LEMMA FirstPlaces ==
  ASSUME MemTypes, DramTypes, RequestsFollow, NEW ready \in BOOLEAN, FirstHalf(ready), fault' = {}, NEW t
  PROVE  /\ InCtl(t)' <=> DramHears /\ ready /\ bus.cmd # "Flush" /\ bus.tag = t
         /\ InLib(t)' = InLib(t) \cup IF InCtl(t) THEN {Len(transactions) + 1} ELSE {}
         /\ InReads(t)' = InReads(t)
         /\ InRom(t)' <=> InRom(t) \/ (RomHears /\ rcmd = None /\ bus.tag = t)
         /\ ~InRound(t)'
         /\ \A n \in Masters : n \in InFlush(t)' <=> n \in InFlush(t) \/ (Gives(n) /\ bus.tag = t)
         /\ \A n \in InFlush(t) : SnoopReady(n)'
<1>1. DramCommand(ready) /\ RomRead /\ half' = 1
  BY DEF FirstHalf
<1>2. InCtl(t)' <=> DramHears /\ ready /\ bus.cmd # "Flush" /\ bus.tag = t
  <2>1. CASE DramHears /\ ready
    <3>1. dcmd' = [write |-> bus.cmd = "Flush", tag |-> bus.tag, line |-> bus.line, data |-> bus.data]
      BY <1>1, <2>1 DEF DramCommand
    <3>2. bus \in Rounds
      BY <2>1 DEF DramHears, OnBus, MemTypes
    <3>3. bus.tag \in Tags /\ bus.line \in Lines /\ bus.data \in Data
      BY <3>2 DEF Rounds
    <3>4. dcmd' \in DramTakes
      BY <3>1, <3>3 DEF DramTakes
    <3>5. dcmd' # None /\ dcmd'.write = (bus.cmd = "Flush") /\ dcmd'.tag = bus.tag
      BY <3>1, <3>4, NoneIsNothing
    <3> QED
      BY <2>1, <3>5 DEF InCtl
  <2>2. CASE ~(DramHears /\ ready)
    BY <1>1, <2>2 DEF DramCommand, InCtl
  <2> QED
    BY <2>1, <2>2
<1>3. InReads(t)' = InReads(t)
  BY <1>1 DEF DramCommand, dramVars, CmdData, cmddata_calltf, dramsim_cmddata, InReads
<1>4. InLib(t)' = InLib(t) \cup IF InCtl(t) THEN {Len(transactions) + 1} ELSE {}
  <2>1. CASE dcmd = None
    BY <1>1, <2>1 DEF DramCommand, dramVars, InLib, InCtl
  <2>2. CASE dcmd # None
    <3>1. dcmd \in DramTakes /\ dcmd.line \in Ram
      BY <2>2 DEF MemTypes
    <3>2. CmdData(dcmd.write, dcmd.tag, WordAddr(dcmd.line), dcmd.data)
      BY <1>1, <2>2 DEF DramCommand
    <3>3. PICK e : e = [tag |-> dcmd.tag, addr |-> LineBytes * dcmd.line, write |-> dcmd.write]
      OBVIOUS
    <3>4. transactions' = Append(transactions, e) /\ e.tag = dcmd.tag /\ e.write = dcmd.write
      BY <3>1, <3>2, <3>3, TakeMoves
    <3>5. transactions \in Seq([tag : Tags, addr : Addrs, write : BOOLEAN])
      BY DEF DramTypes
    <3>6. PICK N : N = Len(transactions)
      OBVIOUS
    <3>7. /\ N \in Nat /\ DOMAIN transactions = 1 .. N /\ DOMAIN transactions' = 1 .. N + 1
          /\ transactions'[N + 1] = e /\ \A j \in 1 .. N : transactions'[j] = transactions[j]
      BY <3>4, <3>5, <3>6
    <3>8. \A j : j \in 1 .. N + 1 <=> j \in 1 .. N \/ j = N + 1
      BY <3>7
    <3>9. N + 1 \in InLib(t)' <=> InCtl(t)
      BY <2>2, <3>4, <3>7, <3>8 DEF InLib, InCtl
    <3>10. \A j : j \in InLib(t)' <=> (j \in InLib(t) \/ (j = N + 1 /\ InCtl(t)))
      BY <3>7, <3>8, <3>9 DEF InLib
    <3> QED
      BY <3>6, <3>10
  <2> QED
    BY <2>1, <2>2
<1>5. InRom(t)' <=> InRom(t) \/ (RomHears /\ rcmd = None /\ bus.tag = t)
  <2>1. CASE RomHears /\ rcmd = None
    <3>1. rcmd' = [tag |-> bus.tag, line |-> bus.line]
      BY <1>1, <2>1 DEF RomRead
    <3>2. bus.tag \in Tags /\ bus.line \in Lines
      BY <2>1 DEF RomHears, OnBus, MemTypes, Rounds
    <3>3. rcmd' # None /\ rcmd'.tag = bus.tag
      BY <3>1, <3>2, NoneIsNothing DEF RomReads
    <3> QED
      BY <2>1, <3>3 DEF InRom
  <2>2. CASE ~(RomHears /\ rcmd = None)
    BY <1>1, <2>2 DEF RomRead, InRom
  <2> QED
    BY <2>1, <2>2
<1>6. ~InRound(t)'
  BY <1>1 DEF InRound
<1>7. ASSUME NEW n \in Masters, Gives(n)
      PROVE  n \notin InFlush(t) /\ (n \in InFlush(t)' <=> bus.tag = t)
  <2>1. snoop[n] = None
    BY <1>7, FirstMoves DEF Busy
  <2>2. snoop'[n] = [tag |-> bus.tag, line |-> bus.line, data |-> way[n].data, at |-> "data"]
    BY <1>7, FirstMoves
  <2>3. bus \in Rounds /\ way[n].data \in Data
    BY <1>7 DEF Gives, SnoopHit, Snooped, MemTypes
  <2>4. bus.tag \in Tags /\ bus.line \in Lines
    BY <2>3 DEF Rounds
  <2>5. snoop'[n] \in Flushes
    BY <2>2, <2>3, <2>4 DEF Flushes
  <2>6. snoop'[n] # None /\ snoop'[n].at # "sent" /\ snoop'[n].tag = bus.tag
    BY <2>2, <2>5, NoneIsNothing
  <2> QED
    BY <2>1, <2>6 DEF InFlush, SnoopSent
<1>8. ASSUME NEW n \in Masters, ~Gives(n)
      PROVE  (n \in InFlush(t)' <=> n \in InFlush(t)) /\ (n \in InFlush(t) => SnoopReady(n)')
  <2>1. snoop'[n] = IF snoop[n] # None /\ snoop[n].at = "data"
                    THEN [snoop[n] EXCEPT !.at = "ready"] ELSE snoop[n]
    BY <1>8, FirstMoves
  <2>2. snoop[n] # None => snoop[n] \in Flushes
    BY DEF MemTypes
  <2>3. CASE snoop[n] # None /\ snoop[n].at = "data"
    <3>1. snoop'[n] = [snoop[n] EXCEPT !.at = "ready"]
      BY <2>1, <2>3
    <3>2. snoop'[n] \in Flushes /\ snoop'[n].at = "ready" /\ snoop'[n].tag = snoop[n].tag
      BY <2>2, <2>3, <3>1 DEF Flushes
    <3> QED
      BY <2>3, <3>2, NoneIsNothing DEF InFlush, SnoopSent, SnoopReady
  <2>4. CASE ~(snoop[n] # None /\ snoop[n].at = "data")
    <3>1. snoop'[n] = snoop[n]
      BY <2>1, <2>4
    <3>2. snoop[n] # None => snoop[n].at \in {"ready", "sent"}
      BY <2>2, <2>4 DEF Flushes
    <3> QED
      BY <3>1, <3>2 DEF InFlush, SnoopSent, SnoopReady
  <2> QED
    BY <2>3, <2>4
<1>9. \A n \in InFlush(t) : n \in Masters
  BY DEF InFlush
<1>10. \A n \in Masters : n \in InFlush(t)' <=> n \in InFlush(t) \/ (Gives(n) /\ bus.tag = t)
  BY <1>7, <1>8
<1>11. \A n \in InFlush(t) : SnoopReady(n)'
  BY <1>7, <1>8, <1>9
<1> QED
  BY <1>2, <1>3, <1>4, <1>5, <1>6, <1>10, <1>11

\* A request that is on the bus: there was no answer yet, and one is given now.
LEMMA FirstAsks ==
  ASSUME MemTypes, DramTypes, RequestsFollow, RoundIsOf, NEW ready \in BOOLEAN, FirstHalf(ready), fault' = {},
         NEW m \in Masters \ hurt', NEW k \in 0 .. 7, AnswerOf(m, k), OnBus(Requests), bus.tag = <<m, k>>
  PROVE  AnswerOf(m, k)'
<1> DEFINE t == <<m, k>>
<1>1. half = 0 /\ half' = 1 /\ UNCHANGED <<bus, rtag>> /\ RequestOf(m)
  BY DEF FirstHalf, RequestsFollow
<1>2. Sent(m) /\ Its(m)
  <2>1. OnBus(Commands) /\ ~OnBus({"Flush"})
    BY DEF OnBus, Requests, Commands
  <2>2. bus.tag[1] = m
    OBVIOUS
  <2> QED
    BY <2>1, <2>2 DEF RoundIsOf
<1>3. rtag[m] = k /\ bus.cmd = req[m].cmd /\ bus.line = req[m].line /\ rtag[m] \in 0 .. 7
  BY <1>2 DEF Its, MemTypes
<1>4. Lag(m, k) = 0
  BY <1>3, LagArithmetic DEF Lag
<1>5. ~Awaiting(m) /\ op[m] # None /\ op[m].at # "bank" /\ req[m] # None
  BY <1>1, <1>2, WhoAwaits DEF Sent
<1>6. bus.line = op[m].line /\ op[m].line \in Lines
  <2>1. Asking(m) /\ req[m].cmd # "Flush"
    BY <1>1, <1>3, <1>5 DEF RequestOf, OnBus, Requests
  <2>2. op[m] \in Accesses
    BY <1>5 DEF MemTypes
  <2> QED
    BY <1>1, <1>3, <2>1, <2>2 DEF RequestOf, Accesses
<1>7. ~Wanted(m, k) /\ ~Asked(m, k)
  BY <1>1, <1>5 DEF Wanted, Asked
<1>8. Left(m, k)
  BY <1>7 DEF AnswerOf
<1>9. NoneInDram(t) /\ ~InRom(t) /\ InFlush(t) = {}
  <2>1. ~LeftInRom(m, k)
    BY <1>4 DEF LeftInRom
  <2>2. ~LeftInFlush(m, k)
    BY <1>4 DEF LeftInFlush
  <2> QED
    BY <1>8, <2>1, <2>2 DEF Left
<1>10. ~Fills(m)
  BY <1>5 DEF Fills, Awaiting
<1>11. op'[m] = op[m]
  BY <1>5, <1>10, FirstMoves DEF ToBanks
<1>12. Sent(m)' /\ req'[m].cmd = req[m].cmd
  BY <1>2, <1>5, FirstMoves, NoneIsNothing DEF Sent
<1>13. ~Awaiting(m)'
  BY <1>5, <1>10, FirstMoves DEF Awaiting
<1>14. Asked(m, k)'
  BY <1>1, <1>3, <1>12 DEF Asked, OnBus, Requests
<1>15. /\ InCtl(t)' <=> DramHears /\ ready /\ bus.cmd # "Flush"
       /\ InLib(t)' = {} /\ InReads(t)' = {}
       /\ InRom(t)' <=> RomHears /\ rcmd = None
       /\ ~InRound(t)'
       /\ \A n \in Masters : n \in InFlush(t)' <=> Gives(n)
  <2> HIDE DEF t
  <2>1. /\ InCtl(t)' <=> DramHears /\ ready /\ bus.cmd # "Flush" /\ bus.tag = t
        /\ InLib(t)' = InLib(t) \cup IF InCtl(t) THEN {Len(transactions) + 1} ELSE {}
        /\ InReads(t)' = InReads(t)
        /\ InRom(t)' <=> InRom(t) \/ (RomHears /\ rcmd = None /\ bus.tag = t)
        /\ ~InRound(t)'
        /\ \A n \in Masters : n \in InFlush(t)' <=> n \in InFlush(t) \/ (Gives(n) /\ bus.tag = t)
    BY FirstPlaces
  <2>2. bus.tag = t
    BY DEF t
  <2> QED
    BY <1>9, <2>1, <2>2 DEF NoneInDram
<1>16. ASSUME req[m].cmd = "BusUpgr" PROVE UpgradeAsked(m, k)'
  <2>1. ~DramHears /\ ~RomHears
    BY <1>3, <1>16 DEF DramHears, RomHears, OnBus
  <2> QED
    BY <1>15, <2>1 DEF UpgradeAsked, NoneInDram
<1>17. ASSUME Wanted(m, k)' PROVE AnswerComes(m, k)'
  <2>1. req[m].cmd \in Reads /\ ~nack' /\ ~dnack'
    BY <1>12, <1>13, <1>17 DEF Wanted
  <2>2. ~NewNack /\ ~(DramHears /\ ~ready)
    BY <2>1 DEF FirstHalf, DramCommand
  <2>3. OnBus(Reads) /\ bus.cmd # "Flush"
    BY <1>3, <2>1 DEF OnBus, Reads
  <2>4. NewHit \/ (bus.line \in Rom /\ RomHears) \/ (bus.line \notin Rom /\ ~dnack)
    <3>1. m \notin NotHeard
      BY DEF FirstHalf
    <3>2. OnBus({"BusRd", "BusRdX"}) /\ bus.tag[1] = m
      BY <2>3 DEF OnBus, Reads
    <3> QED
      BY <2>2, <3>1, <3>2 DEF NotHeard
  <2>5. NewHit => \E n \in Masters : Gives(n)
    BY <2>3 DEF NewHit, Gives, SnoopHit, OnBus, Reads
  <2>6. rcmd = None
    BY <1>1 DEF RoundIsOf
  <2>7. bus.line \in Ram \/ bus.line \in Rom
    BY <1>6 DEF Lines
  <2>8. ~(bus.line \in Ram /\ bus.line \in Rom)
    BY DramAssumption, MemAssumption DEF Ram, Rom
  <2>9. DramHears <=> bus.line \in Ram /\ ~dnack /\ ~NewHit
    BY <2>2, <2>3 DEF DramHears, OnBus, Reads
  <2>10. Some(t)'
    BY <1>15, <2>2, <2>3, <2>4, <2>5, <2>6, <2>7, <2>9 DEF Some
  <2>11. Gives(m) \in BOOLEAN /\ ((\E n \in Masters : Gives(n)) => NewHit)
    BY DEF Gives, NewHit
  <2>12. bus.line \in Ram => OnlyOne(t)'
    <3>1. RomHears => bus.line \in Rom
      BY DEF RomHears
    <3>2. \A n \in InFlush(t)' : n \in Masters
      BY DEF InFlush
    <3> QED
      BY <1>15, <2>8, <2>9, <2>11, <3>1, <3>2 DEF OnlyOne
  <2>13. bus.line \in Rom => NoneInDram(t)'
    BY <1>15, <2>8, <2>9 DEF NoneInDram
  <2>14. op'[m].line = bus.line
    BY <1>6, <1>11
  <2>15. Ram' = Ram /\ Rom' = Rom
    BY DEF Ram, Rom
  <2> QED
    BY <2>10, <2>12, <2>13, <2>14, <2>15 DEF AnswerComes
<1> QED
  BY <1>12, <1>14, <1>16, <1>17 DEF AnswerOf

\* The answer that a cache waits for is on the bus; what is left of rom's case is left.
LEMMA FirstFills ==
  ASSUME MemTypes, DramTypes, RequestsFollow, RoundIsOf, NEW ready \in BOOLEAN, FirstHalf(ready), fault' = {},
         NEW m \in Masters \ hurt', NEW k \in 0 .. 7, AnswerOf(m, k), Fills(m), bus.tag = <<m, k>>
  PROVE  AnswerOf(m, k)'
<1> DEFINE t == <<m, k>>
<1>1. half = 0 /\ half' = 1 /\ UNCHANGED <<bus, rtag>> /\ RequestOf(m)
  BY DEF FirstHalf, RequestsFollow
<1>2. Awaiting(m) /\ pend[m].tag = k /\ OnBus({"Fill", "Flush"})
  BY DEF Fills, Snooped, Awaiting, OnBus
<1>3. req[m] = None /\ ~Sent(m) /\ op[m] # None /\ op[m].line \in Lines
  BY <1>1, <1>2, WhoAwaits DEF MemTypes, Accesses
<1>4. InRound(t)
  <2>1. CASE bus.cmd = "Fill"
    BY <1>1, <1>2, <2>1 DEF InRound, OnBus
  <2>2. CASE bus.cmd = "Flush"
    <3>1. OnBus(Commands)
      BY <1>2, <2>2 DEF OnBus, Commands
    <3>2. bus.tag[1] = m
      OBVIOUS
    <3>3. \E n \in Masters : SnoopSent(n)
      BY <1>3, <3>1, <3>2 DEF RoundIsOf
    <3> QED
      BY <1>1, <1>2, <3>3 DEF InRound, OnBus
  <2> QED
    BY <1>2, <2>1, <2>2 DEF OnBus
<1>5. AnswerComes(m, k)
  BY <1>2 DEF AnswerOf, Wanted
<1>6. NoneInDram(t) /\ (InRom(t) \/ InFlush(t) # {} => op[m].line \in Rom)
  BY <1>3, <1>4, <1>5 DEF AnswerComes, OnlyOne, NoneInDram, Lines
<1>7. pend'[m] = None /\ req'[m] = None
  BY <1>3, FirstMoves
<1>8. ~Awaiting(m)' /\ ~Sent(m)' /\ ~Wanted(m, k)' /\ ~Asked(m, k)' /\ Evicts(m)'
  BY <1>7 DEF Awaiting, Sent, Wanted, Asked, Evicts
<1>9. Lag(m, k)' = 1
  <2>1. k = (rtag[m] + 7) % 8 /\ rtag[m] \in 0 .. 7
    BY <1>1, <1>2 DEF RequestOf, MemTypes
  <2> QED
    BY <1>1, <2>1, LagArithmetic DEF Lag
<1>10. LeftInRom(m, k)' /\ LeftInFlush(m, k)'
  BY <1>8, <1>9 DEF LeftInRom, LeftInFlush
<1>11. ~RomHears /\ (\A n \in Masters : ~Gives(n)) /\ (DramHears => bus.cmd = "Flush")
  BY <1>2 DEF RomHears, Gives, DramHears, OnBus
<1>12. /\ NoneInDram(t)' /\ ~InRound(t)'
       /\ \A n \in InFlush(t)' : SnoopReady(n)'
  <2> HIDE DEF t
  <2>1. /\ InCtl(t)' <=> DramHears /\ ready /\ bus.cmd # "Flush" /\ bus.tag = t
        /\ InLib(t)' = InLib(t) \cup IF InCtl(t) THEN {Len(transactions) + 1} ELSE {}
        /\ InReads(t)' = InReads(t)
        /\ ~InRound(t)'
        /\ \A n \in Masters : n \in InFlush(t)' <=> n \in InFlush(t) \/ (Gives(n) /\ bus.tag = t)
        /\ \A n \in InFlush(t) : SnoopReady(n)'
    BY FirstPlaces
  <2>2. \A n \in InFlush(t)' : n \in Masters
    BY DEF InFlush
  <2> QED
    BY <1>6, <1>11, <2>1, <2>2 DEF NoneInDram
<1>13. Left(m, k)'
  BY <1>10, <1>12 DEF Left
<1> QED
  BY <1>8, <1>13 DEF AnswerOf

\* What is on the bus is of no concern to this tag.
LEMMA FirstOthers ==
  ASSUME MemTypes, DramTypes, RequestsFollow, RoundIsOf, NEW ready \in BOOLEAN, FirstHalf(ready), fault' = {},
         NEW m \in Masters \ hurt', NEW k \in 0 .. 7, AnswerOf(m, k),
         ~(OnBus(Requests) /\ bus.tag = <<m, k>>), ~(Fills(m) /\ bus.tag = <<m, k>>)
  PROVE  AnswerOf(m, k)'
<1> DEFINE t == <<m, k>>
<1>1. half = 0 /\ half' = 1 /\ UNCHANGED <<bus, rtag, turn>> /\ RequestOf(m) /\ m \notin hurt
  BY DEF FirstHalf, RequestsFollow
<1>2. /\ ~InCtl(t)'
      /\ InLib(t)' = InLib(t) \cup IF InCtl(t) THEN {Len(transactions) + 1} ELSE {}
      /\ InReads(t)' = InReads(t)
      /\ InRom(t)' <=> InRom(t)
      /\ ~InRound(t)'
      /\ InFlush(t)' = InFlush(t)
      /\ \A n \in InFlush(t)' : SnoopReady(n)'
  <2> HIDE DEF t
  <2>1. ~(OnBus(Requests) /\ bus.tag = t)
    BY DEF t
  <2>2. /\ InCtl(t)' <=> DramHears /\ ready /\ bus.cmd # "Flush" /\ bus.tag = t
        /\ InLib(t)' = InLib(t) \cup IF InCtl(t) THEN {Len(transactions) + 1} ELSE {}
        /\ InReads(t)' = InReads(t)
        /\ InRom(t)' <=> InRom(t) \/ (RomHears /\ rcmd = None /\ bus.tag = t)
        /\ ~InRound(t)'
        /\ \A n \in Masters : n \in InFlush(t)' <=> n \in InFlush(t) \/ (Gives(n) /\ bus.tag = t)
        /\ \A n \in InFlush(t) : SnoopReady(n)'
    BY FirstPlaces
  <2>3. /\ DramHears /\ bus.cmd # "Flush" => OnBus(Requests)
        /\ RomHears => OnBus(Requests)
        /\ \A n \in Masters : Gives(n) => OnBus(Requests)
    BY DEF DramHears, RomHears, Gives, SnoopHit, Snooped, OnBus, Requests
  <2>4. InFlush(t) \subseteq Masters /\ InFlush(t)' \subseteq Masters
    BY DEF InFlush
  <2>5. InFlush(t)' = InFlush(t)
    BY <2>1, <2>2, <2>3, <2>4
  <2> QED
    BY <2>1, <2>2, <2>3, <2>5
<1>3. (Sent(m)' <=> Sent(m)) /\ (Sent(m) => req'[m].cmd = req[m].cmd)
  BY FirstMoves, NoneIsNothing DEF Sent
<1>4. Awaiting(m)' => Awaiting(m) /\ pend'[m] = pend[m]
  BY FirstMoves DEF Awaiting
<1>5. ~Asked(m, k) /\ ~Asked(m, k)' /\ (Wanted(m, k)' => Wanted(m, k))
  <2>1. ASSUME Sent(m), rtag[m] = k, req[m].cmd # "Flush" PROVE FALSE
    <3>1. Its(m)
      BY <1>1, <2>1 DEF RoundIsOf
    <3>2. bus.cmd \in Commands
      <4>1. req[m] \in Sending
        BY <2>1 DEF Sent, MemTypes
      <4> QED
        BY <3>1, <4>1 DEF Its, Sending
    <3>3. OnBus(Requests) /\ bus.tag = t
      BY <2>1, <3>1, <3>2 DEF Its, OnBus, Commands
    <3> QED
      BY <3>3
  <2>2. req[m].cmd \in Reads => req[m].cmd # "Flush"
    BY DEF Reads
  <2> QED
    BY <1>1, <1>3, <1>4, <2>1, <2>2 DEF Asked, Wanted
<1>6. ASSUME Wanted(m, k) PROVE Wanted(m, k)' /\ AnswerComes(m, k)'
  <2>1. Awaiting(m) /\ pend[m].tag = k
    BY <1>1, <1>6 DEF Wanted
  <2>2. op[m] # None /\ op[m].at # "bank"
    BY <1>1, <2>1, WhoAwaits
  <2>3. ~Fills(m)
    BY <2>1 DEF Fills
  <2>4. pend'[m] = pend[m] /\ op'[m] = op[m]
    BY <2>2, <2>3, FirstMoves DEF ToBanks
  <2>5. ~InRound(t)
    <3> SUFFICES ASSUME InRound(t) PROVE FALSE
      OBVIOUS
    <3>1. bus # None /\ bus.tag = t /\ OnBus({"Fill", "Flush"})
      BY DEF InRound, OnBus, RoundIsOf
    <3>2. Snooped(m)
      BY <3>1 DEF Snooped, OnBus
    <3> QED
      BY <2>1, <2>3, <3>1, <3>2 DEF Fills, Awaiting
  <2>6. AnswerComes(m, k)
    BY <1>6 DEF AnswerOf
  <2>7. Some(t)'
    BY <1>2, <2>5, <2>6 DEF Some, AnswerComes
  <2>8. OnlyOne(t) => OnlyOne(t)'
    BY <1>2 DEF OnlyOne
  <2>9. NoneInDram(t) => NoneInDram(t)'
    BY <1>2 DEF NoneInDram
  <2>10. Wanted(m, k)'
    BY <2>1, <2>4 DEF Wanted, Awaiting
  <2>11. Ram' = Ram /\ Rom' = Rom
    BY DEF Ram, Rom
  <2> QED
    BY <2>4, <2>6, <2>7, <2>8, <2>9, <2>10, <2>11 DEF AnswerComes
<1>7. ASSUME ~Wanted(m, k) PROVE Left(m, k)'
  <2>1. Left(m, k)
    BY <1>5, <1>7 DEF AnswerOf
  <2>2. NoneInDram(t)'
    BY <1>2, <2>1 DEF Left, NoneInDram
  <2>3. Lag(m, k)' = Lag(m, k) /\ (Evicts(m)' <=> Evicts(m))
    BY <1>1, <1>3 DEF Lag, Evicts
  <2>4. ~Awaiting(m) => ~Awaiting(m)' /\ (Again(m) => Again(m)')
    <3> SUFFICES ASSUME ~Awaiting(m) PROVE ~Awaiting(m)' /\ (Again(m) => Again(m)')
      OBVIOUS
    <3>1. ~Awaiting(m)' /\ ~Fills(m)
      BY <1>4 DEF Fills, Awaiting
    <3>2. op[m] # None /\ op[m].at = "miss" => op'[m] = op[m]
      BY <3>1, FirstMoves DEF ToBanks
    <3> QED
      BY <3>1, <3>2 DEF Again
  <2>5. Again(m) => Again(m)'
    BY <2>4 DEF Again
  <2>6. LeftInRom(m, k) => LeftInRom(m, k)'
    BY <1>3, <2>3, <2>4, <2>5 DEF LeftInRom
  <2>7. LeftInFlush(m, k) => LeftInFlush(m, k)'
    BY <1>1, <1>3, <2>3, <2>4, <2>5 DEF LeftInFlush
  <2> QED
    BY <1>2, <2>1, <2>2, <2>6, <2>7 DEF Left
<1> QED
  BY <1>5, <1>6, <1>7 DEF AnswerOf

LEMMA FirstAnswers ==
  ASSUME MemTypes, DramTypes, RequestsFollow, RoundIsOf, AnswersCome,
         NEW ready \in BOOLEAN, FirstHalf(ready), fault' = {}
  PROVE  AnswersCome'
<1> SUFFICES ASSUME NEW m \in Masters \ hurt', NEW k \in 0 .. 7 PROVE AnswerOf(m, k)'
  BY DEF AnswersCome
<1>1. m \in Masters \ hurt
  BY DEF FirstHalf
<1>2. AnswerOf(m, k)
  BY <1>1 DEF AnswersCome
<1> QED
  BY <1>2, FirstAsks, FirstFills, FirstOthers

\* A step of the second half: what the commands say, who is granted, and what follows.
Chosen(shown, g) ==
  /\ \A m \in Masters : shown[m] \in ShowsResponse(m)
  /\ g \in Grants(shown) /\ Granted(g)
  /\ turn' = IF Responding(shown) = {} /\ g # "nobody"
             THEN CHOOSE m \in Masters : m # turn ELSE turn
  /\ \A m \in Masters :
       /\ snoop'[m] = IF SnoopSent(m) THEN None
                      ELSE IF m = g /\ SnoopReady(m) THEN [snoop[m] EXCEPT !.at = "sent"] ELSE snoop[m]
       /\ req'[m] = IF Confirmed(m) THEN None
                    ELSE IF m = g /\ snoop[m] = None THEN [req[m] EXCEPT !.at = "sent"] ELSE req[m]

LEMMA SecondChosen ==
  ASSUME MemTypes, DramTypes, RequestsFollow, RoundIsOf, SecondHalf, fault' = {}
  PROVE  \E shown \in [Masters -> BOOLEAN], g \in Masters \cup {"rom", "dram", "nobody"} : Chosen(shown, g)
BY SecondMoves DEF Chosen

\* What is granted is something.
LEMMA GrantedRound ==
  ASSUME MemTypes, DramTypes, NEW g, GrantRom \/ GrantDram \/ GrantFlush(g) \/ GrantRequest(g)
  PROVE  bus' # None
<1>1. CASE GrantRom
  <2>1. rcmd \in RomReads /\ Content(0) \in Data
    BY <1>1, LineData DEF GrantRom, MemTypes
  <2>2. bus' \in Rounds
    BY <1>1, <2>1 DEF GrantRom, RomReads, Rounds
  <2> QED
    BY <2>2, NoneIsNothing
<1>2. CASE GrantDram
  <2>1. Head(read_queue) \in [tag : Tags, addr : Addrs, line : DramLines]
    BY <1>2, HeadTailProperties DEF GrantDram, DramTypes
  <2>2. PICK l \in Ram : Head(read_queue).addr = LineBytes * l
    BY <2>1 DEF Addrs
  <2>3. Head(read_queue).addr \div LineBytes \in Lines
    BY <2>2, LinesOfRam
  <2>4. Unpacked(Head(read_queue).line) \in Data /\ Head(read_queue).tag \in Tags
    BY <2>1, LineData
  <2>5. bus' \in Rounds
    BY <1>2, <2>3, <2>4 DEF GrantDram, Rounds
  <2> QED
    BY <2>5, NoneIsNothing
<1>3. CASE GrantFlush(g)
  <2>1. snoop[g] \in Flushes
    BY <1>3 DEF GrantFlush, SnoopReady, MemTypes
  <2>2. bus' \in Rounds
    BY <1>3, <2>1 DEF GrantFlush, Flushes, Rounds, Commands
  <2> QED
    BY <2>2, NoneIsNothing
<1>4. CASE GrantRequest(g)
  <2>1. req[g] \in Sending /\ rtag[g] \in 0 .. 7 /\ g \in Masters
    BY <1>4 DEF GrantRequest, ReqReady, MemTypes
  <2>2. bus' \in Rounds
    BY <1>4, <2>1 DEF GrantRequest, Sending, Rounds, Tags
  <2> QED
    BY <2>2, NoneIsNothing
<1> QED
  BY <1>1, <1>2, <1>3, <1>4

\* Only the flush that is granted is sent, and it leaves those that are on their way.
LEMMA FlushPlaces ==
  ASSUME MemTypes, NEW shown, NEW g, Chosen(shown, g), NEW t
  PROVE  /\ InFlush(t)' = {n \in InFlush(t) : ~(n = g /\ SnoopReady(n))}
         /\ \A n \in Masters : SnoopSent(n)' <=> n = g /\ SnoopReady(n)
         /\ \A n \in InFlush(t)' : snoop'[n] = snoop[n]
<1>1. ASSUME NEW n \in Masters
      PROVE  /\ SnoopSent(n)' <=> n = g /\ SnoopReady(n)
             /\ n \in InFlush(t)' <=> n \in InFlush(t) /\ ~(n = g /\ SnoopReady(n))
             /\ n \in InFlush(t)' => snoop'[n] = snoop[n]
  <2>1. snoop'[n] = IF SnoopSent(n) THEN None
                      ELSE IF n = g /\ SnoopReady(n) THEN [snoop[n] EXCEPT !.at = "sent"] ELSE snoop[n]
    BY DEF Chosen
  <2>2. CASE SnoopSent(n)
    BY <2>1, <2>2 DEF SnoopSent, SnoopReady, InFlush
  <2>3. CASE n = g /\ SnoopReady(n)
    <3>1. snoop[n] \in Flushes /\ snoop[n].at = "ready"
      BY <2>3 DEF SnoopReady, MemTypes
    <3>2. snoop'[n] = [snoop[n] EXCEPT !.at = "sent"]
      BY <2>1, <2>3, <3>1 DEF SnoopSent
    <3>3. snoop'[n] \in Flushes /\ snoop'[n].at = "sent"
      BY <3>1, <3>2 DEF Flushes
    <3> QED
      BY <2>3, <3>3, NoneIsNothing DEF SnoopSent, InFlush
  <2>4. CASE ~SnoopSent(n) /\ ~(n = g /\ SnoopReady(n))
    <3>1. snoop'[n] = snoop[n]
      BY <2>1, <2>4
    <3> QED
      BY <2>4, <3>1 DEF SnoopSent, InFlush
  <2> QED
    BY <2>2, <2>3, <2>4
<1>2. InFlush(t) \subseteq Masters /\ InFlush(t)' \subseteq Masters
  BY DEF InFlush
<1> QED
  BY <1>1, <1>2

\* The answer that is granted leaves its place; all the others stay.
LEMMA SecondPlaces ==
  ASSUME MemTypes, DramTypes, SecondHalf, NEW shown, NEW g, Chosen(shown, g), NEW t
  PROVE  /\ (InCtl(t)' <=> InCtl(t)) /\ InLib(t)' = InLib(t)
         /\ \/ /\ ~InRound(t)' /\ (InReads(t)' = {} <=> InReads(t) = {})
               /\ (\A i, j \in InReads(t) : i = j) => (\A i, j \in InReads(t)' : i = j)
               /\ (InRom(t)' <=> InRom(t)) /\ InFlush(t)' = InFlush(t)
               /\ g \in InFlush(t) => ~SnoopReady(g)
            \/ /\ InRound(t)' /\ InReads(t) # {}
               /\ (\A i, j \in InReads(t) : i = j) => InReads(t)' = {}
               /\ (InRom(t)' <=> InRom(t)) /\ InFlush(t)' = InFlush(t)
               /\ g \notin Masters
            \/ /\ InRound(t)' /\ InRom(t) /\ ~InRom(t)'
               /\ InReads(t)' = InReads(t) /\ InFlush(t)' = InFlush(t)
               /\ g \notin Masters
            \/ /\ InRound(t)' /\ g \in InFlush(t) /\ SnoopReady(g) /\ InFlush(t)' = InFlush(t) \ {g}
               /\ InReads(t)' = InReads(t) /\ (InRom(t)' <=> InRom(t))
<1>1. half' = 0 /\ dcmd' = dcmd
  BY DEF SecondHalf
<1>2. Granted(g)
  BY DEF Chosen
<1>3. transactions' = transactions
  BY <1>2 DEF Granted, GrantRom, GrantDram, GrantFlush, GrantRequest, GrantNobody, dramVars
<1>4. (InCtl(t)' <=> InCtl(t)) /\ InLib(t)' = InLib(t)
  BY <1>1, <1>3 DEF InCtl, InLib
<1>5. InFlush(t) \subseteq Masters
  BY DEF InFlush
<1>6. CASE g = "rom" /\ GrantRom
  <2>1. g \notin Masters
    BY <1>6, TwoMasters
  <2>2. InFlush(t)' = InFlush(t) /\ InReads(t)' = InReads(t) /\ ~InRom(t)'
    BY <1>5, <1>6, <2>1, FlushPlaces DEF GrantRom, dramVars, InReads, InRom
  <2>3. InRound(t)' <=> InRom(t)
    <3>1. bus' # None
      BY <1>6, GrantedRound
    <3>2. bus'.cmd = "Fill" /\ bus'.tag = rcmd.tag /\ rcmd # None
      BY <1>6 DEF GrantRom
    <3> QED
      BY <1>1, <3>1, <3>2 DEF InRound, InRom
  <2> QED
    BY <1>4, <1>5, <2>1, <2>2, <2>3
<1>7. CASE g = "dram" /\ GrantDram
  <2>1. g \notin Masters
    BY <1>7, TwoMasters
  <2>2. InFlush(t)' = InFlush(t) /\ (InRom(t)' <=> InRom(t))
    BY <1>5, <1>7, <2>1, FlushPlaces DEF GrantDram, InRom
  <2>3. PICK L : L = Len(read_queue)
    OBVIOUS
  <2>4. /\ L \in Nat \ {0} /\ DOMAIN read_queue = 1 .. L /\ DOMAIN read_queue' = 1 .. L - 1
        /\ Head(read_queue) = read_queue[1]
        /\ \A j \in 1 .. L - 1 : read_queue'[j] = read_queue[j + 1]
    <3>1. read_queue \in Seq([tag : Tags, addr : Addrs, line : DramLines]) /\ read_queue # << >>
          /\ read_queue' = Tail(read_queue)
      BY <1>7 DEF GrantDram, DramTypes
    <3> QED
      BY <2>3, <3>1
  <2>5. bus' # None /\ bus'.cmd = "Fill" /\ bus'.tag = read_queue[1].tag
    BY <1>7, <2>4, GrantedRound DEF GrantDram
  <2>6. InRound(t)' <=> read_queue[1].tag = t
    BY <1>1, <2>5 DEF InRound
  <2>7. InRound(t)' <=> 1 \in InReads(t)
    BY <2>4, <2>6 DEF InReads
  <2>8. \A j \in InReads(t)' : j + 1 \in InReads(t) /\ j \in 1 .. L - 1
    BY <2>4 DEF InReads
  <2>9. \A j \in InReads(t) : j # 1 => j - 1 \in InReads(t)'
    <3> SUFFICES ASSUME NEW j \in InReads(t), j # 1 PROVE j - 1 \in InReads(t)'
      OBVIOUS
    <3>1. j \in 1 .. L /\ read_queue[j].tag = t
      BY <2>4 DEF InReads
    <3>2. j - 1 \in 1 .. L - 1 /\ j - 1 + 1 = j
      BY <2>4, <3>1
    <3>3. read_queue'[j - 1] = read_queue[j]
      BY <2>4, <3>2
    <3> QED
      BY <2>4, <3>1, <3>2, <3>3 DEF InReads
  <2>10. CASE InRound(t)'
    <3>1. (\A i, j \in InReads(t) : i = j) => InReads(t)' = {}
      <4> SUFFICES ASSUME \A i, j \in InReads(t) : i = j, NEW j \in InReads(t)' PROVE FALSE
        OBVIOUS
      <4>1. j + 1 = 1 /\ j \in 1 .. L - 1
        BY <2>7, <2>8, <2>10
      <4> QED
        BY <4>1, <2>4
    <3>2. InReads(t) # {}
      BY <2>7, <2>10
    <3> QED
      BY <1>4, <2>1, <2>2, <2>10, <3>1, <3>2
  <2>11. CASE ~InRound(t)'
    <3>1. \A j \in InReads(t) : j # 1
      BY <2>7, <2>11
    <3>2. InReads(t)' = {} <=> InReads(t) = {}
      BY <2>8, <2>9, <3>1
    <3>3. (\A i, j \in InReads(t) : i = j) => (\A i, j \in InReads(t)' : i = j)
      <4> SUFFICES ASSUME \A i, j \in InReads(t) : i = j, NEW i \in InReads(t)', NEW j \in InReads(t)' PROVE i = j
        OBVIOUS
      <4>1. i + 1 = j + 1 /\ i \in 1 .. L - 1 /\ j \in 1 .. L - 1
        BY <2>8
      <4> QED
        BY <4>1, <2>4
    <3>4. g \notin InFlush(t)
      BY <1>5, <2>1
    <3> QED
      BY <1>4, <2>2, <2>11, <3>2, <3>3, <3>4
  <2> QED
    BY <2>10, <2>11
<1>8. CASE GrantFlush(g)
  <2>1. g \in Masters /\ SnoopReady(g) /\ bus'.tag = snoop[g].tag /\ bus' # None
    BY <1>8, GrantedRound DEF GrantFlush
  <2>2. InReads(t)' = InReads(t) /\ (InRom(t)' <=> InRom(t))
    BY <1>8 DEF GrantFlush, dramVars, InReads, InRom
  <2>3. SnoopSent(g)'
    BY <2>1, FlushPlaces
  <2>4. InRound(t)' <=> snoop[g].tag = t
    BY <1>1, <2>1, <2>3 DEF InRound
  <2>5. g \in InFlush(t) <=> snoop[g].tag = t
    BY <2>1 DEF InFlush, SnoopReady, SnoopSent
  <2>6. InFlush(t)' = InFlush(t) \ {g}
    BY <2>1, FlushPlaces
  <2>7. CASE snoop[g].tag = t
    BY <1>4, <2>1, <2>2, <2>4, <2>5, <2>6, <2>7
  <2>8. CASE snoop[g].tag # t
    <3>1. InFlush(t)' = InFlush(t)
      BY <2>5, <2>6, <2>8
    <3> QED
      BY <1>4, <2>2, <2>4, <2>5, <2>8, <3>1
  <2> QED
    BY <2>7, <2>8
<1>9. CASE GrantRequest(g) \/ (g = "nobody" /\ GrantNobody)
  <2>1. g \in Masters => ~SnoopReady(g)
    BY <1>9, TwoMasters DEF GrantRequest, SnoopReady
  <2>2. InReads(t)' = InReads(t) /\ (InRom(t)' <=> InRom(t))
    BY <1>9 DEF GrantRequest, GrantNobody, dramVars, InReads, InRom
  <2>3. InFlush(t)' = InFlush(t) /\ \A n \in Masters : ~SnoopSent(n)'
    BY <1>5, <2>1, FlushPlaces
  <2>4. bus' # None => bus'.cmd # "Fill"
    <3>1. CASE GrantRequest(g)
      <4>1. req[g] \in Sending /\ bus'.cmd = req[g].cmd
        BY <3>1 DEF GrantRequest, ReqReady, MemTypes
      <4> QED
        BY <4>1 DEF Sending, Commands, Requests
    <3>2. CASE GrantNobody
      BY <3>2 DEF GrantNobody
    <3> QED
      BY <1>9, <3>1, <3>2
  <2>5. ~InRound(t)'
    BY <2>3, <2>4 DEF InRound
  <2> QED
    BY <1>4, <1>5, <2>1, <2>2, <2>3, <2>5
<1> QED
  BY <1>2, <1>6, <1>7, <1>8, <1>9 DEF Granted

\* What Command says of an access.
LEMMA FlushEvicts ==
  ASSUME NEW m \in Masters, RequestOf(m), req[m] # None
  PROVE  req[m].cmd = "Flush" <=> op[m].evict
<1>1. req[m].cmd = Command(op[m])
  BY DEF RequestOf, Asking
<1> QED
  BY <1>1 DEF Command

\* A request that is sent now.  Rom's answer goes before it, unless it is a flush; a flush
\* of the other cache lets a request before it only in its turn, and then the turn is over.
LEMMA SecondSends ==
  ASSUME MemTypes, RequestsFollow, NEW shown, NEW g, Chosen(shown, g), NEW m \in Masters, ~Sent(m), Sent(m)'
  PROVE  /\ req'[m].cmd = req[m].cmd /\ req[m] # None
         /\ rreq => req[m].cmd = "Flush"
         /\ \A n \in Masters \ {m} : SnoopReady(n) => req[m].cmd = "Flush" \/ (turn = m /\ turn' # m)
<1>1. m = g /\ snoop[m] = None /\ ~Confirmed(m) /\ req'[m] = [req[m] EXCEPT !.at = "sent"]
  BY DEF Chosen, Sent, Confirmed
<1>2. GrantRequest(m) /\ Granted(g)
  BY <1>1, TwoMasters DEF Chosen, Granted, GrantFlush, SnoopReady
<1>3. req[m] # None /\ req[m] \in Sending /\ req[m].at = "ready"
  BY <1>2 DEF GrantRequest, ReqReady, MemTypes
<1>4. req'[m].cmd = req[m].cmd
  BY <1>1, <1>3 DEF Sending
<1>5. shown[m] <=> req[m].cmd = "Flush"
  <2>1. ShowsResponse(m) = {req[m].cmd = "Flush"}
    BY <1>1, <1>3 DEF ShowsResponse, SnoopSent
  <2> QED
    BY <2>1 DEF Chosen
<1>6. m \in Responding(shown) => req[m].cmd = "Flush"
  BY <1>5, TwoMasters DEF Responding
<1>7. rreq => req[m].cmd = "Flush"
  <2>1. rreq => Responding(shown) # {}
    BY DEF Responding
  <2>2. Responding(shown) # {} => m \in Responding(shown)
    BY <1>1 DEF Chosen, Grants
  <2> QED
    BY <1>6, <2>1, <2>2
<1>8. ASSUME NEW n \in Masters \ {m}, SnoopReady(n), req[m].cmd # "Flush" PROVE turn = m /\ turn' # m
  <2>1. Responding(shown) = {}
    BY <1>1, <1>6, <1>8 DEF Chosen, Grants
  <2>2. BusReq(n) /\ BusReq(m)
    BY <1>1, <1>3, <1>8 DEF BusReq, ReqReady
  <2>3. turn = m \/ turn = n
    BY <1>8, TwoMasters DEF MemTypes
  <2>4. turn = m
    BY <1>1, <2>1, <2>2, <2>3 DEF Chosen, Grants
  <2>5. g # "nobody"
    BY <1>1, TwoMasters
  <2>6. turn' = CHOOSE x \in Masters : x # turn
    BY <2>1, <2>5 DEF Chosen
  <2>7. \E x \in Masters : x # turn
    BY <1>8, <2>4
  <2> QED
    BY <2>4, <2>6, <2>7
<1> QED
  BY <1>3, <1>4, <1>7, <1>8

\* As long as the other cache's flush waits, the turn does not come back to this one.
LEMMA TurnStays ==
  ASSUME MemTypes, NEW shown, NEW g, Chosen(shown, g),
         NEW m \in Masters, NEW n \in Masters \ {m}, SnoopReady(n), g # n, turn # m
  PROVE  turn' # m
<1>1. turn = n /\ BusReq(n)
  BY TwoMasters DEF MemTypes, BusReq
<1>2. Responding(shown) # {}
  BY <1>1 DEF Chosen, Grants
<1> QED
  BY <1>2 DEF Chosen

\* A cache that waits goes on waiting, and so does one whose read is confirmed.
LEMMA SecondWaits ==
  ASSUME MemTypes, DramTypes, RequestsFollow, RoundIsOf, SecondHalf, fault' = {}, NEW shown, NEW g, Chosen(shown, g),
         NEW m \in Masters \ hurt', NEW k \in 0 .. 7, AnswerOf(m, k), Wanted(m, k)
  PROVE  AnswerOf(m, k)'
<1> DEFINE t == <<m, k>>
<1>1. half = 1 /\ half' = 0 /\ RequestOf(m) /\ rtag[m] \in 0 .. 7
  BY DEF SecondHalf, RequestsFollow, MemTypes
<1>2. /\ op'[m] = IF Confirmed(m) THEN ConfirmOp(op[m]) ELSE op[m]
      /\ pend'[m] = IF Confirmed(m) THEN ConfirmPend(m) ELSE pend[m]
  BY DEF SecondHalf
<1>3. Awaiting(m)' /\ pend'[m].tag = k /\ op'[m] = op[m]
  <2>1. CASE Awaiting(m) /\ pend[m].tag = k
    <3>1. ~Confirmed(m)
      BY <1>1, <2>1, WhoAwaits DEF Confirmed
    <3> QED
      BY <1>2, <2>1, <3>1 DEF Awaiting
  <2>2. CASE Sent(m) /\ req[m].cmd \in Reads /\ ~nack /\ ~dnack /\ rtag[m] = k
    <3>1. Confirmed(m)
      BY <2>2 DEF Confirmed
    <3>2. req[m].cmd # "Flush" /\ req[m].cmd # "BusUpgr"
      BY <2>2 DEF Reads
    <3>3. /\ ConfirmOp(op[m]) = op[m] /\ pend[m] \in Pending
          /\ ConfirmPend(m) = [pend[m] EXCEPT !.tag = rtag[m]] /\ ConfirmPend(m) \in Pending
      BY <3>1, <3>2, ConfirmedMoves
    <3>4. pend'[m] \in Pending /\ pend'[m].tag = k /\ k # NoTag
      BY <1>2, <2>2, <3>1, <3>3 DEF Pending, NoTag
    <3> QED
      BY <1>2, <3>1, <3>3, <3>4, NoneIsNothing DEF Awaiting
  <2> QED
    BY <2>1, <2>2 DEF Wanted
<1>4. Wanted(m, k)'
  BY <1>3 DEF Wanted
<1>5. ~Asked(m, k)'
  BY <1>1 DEF Asked
<1>6. AnswerComes(m, k)
  BY DEF AnswerOf
<1>7. op[m].line \in Lines
  <2>1. op[m] # None
    BY <1>1, WhoAwaits DEF Wanted
  <2> QED
    BY <2>1 DEF MemTypes, Accesses
<1>8. \A n \in InFlush(t) : n # m /\ \A x \in Masters : x = m \/ x = n
  <2> SUFFICES ASSUME NEW n \in InFlush(t) PROVE n # m /\ \A x \in Masters : x = m \/ x = n
    OBVIOUS
  <2>1. n \in Masters /\ snoop[n] # None /\ snoop[n].tag[1] = m
    BY DEF InFlush
  <2>2. n # m
    BY <2>1 DEF RoundIsOf
  <2> QED
    BY <2>1, <2>2, TwoMasters
<1>9. ~InRound(t)
  BY <1>1 DEF InRound
<1>10. Some(t)' /\ (OnlyOne(t) => OnlyOne(t)') /\ (NoneInDram(t) => NoneInDram(t)')
  <2> HIDE DEF t
  <2>1. m \notin InFlush(t) /\ InFlush(t) \subseteq Masters
    BY <1>8 DEF InFlush
  <2>2. Some(t)
    BY <1>6 DEF AnswerComes, t
  <2>3. g \in InFlush(t) => InFlush(t) \ {g} = {}
    BY <1>8, <2>1
  <2>4. /\ (InCtl(t)' <=> InCtl(t)) /\ InLib(t)' = InLib(t)
        /\ \/ /\ ~InRound(t)' /\ (InReads(t)' = {} <=> InReads(t) = {})
              /\ (\A i, j \in InReads(t) : i = j) => (\A i, j \in InReads(t)' : i = j)
              /\ (InRom(t)' <=> InRom(t)) /\ InFlush(t)' = InFlush(t)
           \/ /\ InRound(t)' /\ InReads(t) # {}
              /\ (\A i, j \in InReads(t) : i = j) => InReads(t)' = {}
              /\ (InRom(t)' <=> InRom(t)) /\ InFlush(t)' = InFlush(t)
           \/ /\ InRound(t)' /\ InRom(t) /\ ~InRom(t)'
              /\ InReads(t)' = InReads(t) /\ InFlush(t)' = InFlush(t)
           \/ /\ InRound(t)' /\ g \in InFlush(t) /\ InFlush(t)' = InFlush(t) \ {g}
              /\ InReads(t)' = InReads(t) /\ (InRom(t)' <=> InRom(t))
    BY SecondPlaces
  <2>5. Some(t)'
    BY <1>9, <2>2, <2>4 DEF Some
  <2>6. OnlyOne(t) => OnlyOne(t)'
    BY <1>9, <2>3, <2>4 DEF OnlyOne
  <2>7. NoneInDram(t) => NoneInDram(t)'
    BY <2>4 DEF NoneInDram
  <2> QED
    BY <2>5, <2>6, <2>7
<1>11. AnswerComes(m, k)'
  <2>1. Ram' = Ram /\ Rom' = Rom
    BY DEF Ram, Rom
  <2> QED
    BY <1>3, <1>6, <1>10, <2>1 DEF AnswerComes
<1> QED
  BY <1>4, <1>5, <1>11 DEF AnswerOf

\* An upgrade has ended; the line may come with it.
LEMMA SecondUpgrades ==
  ASSUME MemTypes, DramTypes, RequestsFollow, RoundIsOf, SecondHalf, fault' = {}, NEW shown, NEW g, Chosen(shown, g),
         NEW m \in Masters \ hurt', NEW k \in 0 .. 7, AnswerOf(m, k), ~Wanted(m, k), Asked(m, k)
  PROVE  AnswerOf(m, k)'
<1> DEFINE t == <<m, k>>
<1>1. half = 1 /\ half' = 0 /\ rtag[m] \in 0 .. 7
  BY DEF SecondHalf, MemTypes
<1>2. Confirmed(m)
  BY DEF Asked, Confirmed, SecondHalf
<1>3. req[m].cmd = "BusUpgr" /\ ConfirmPend(m) = None
  <2>1. req[m].cmd \notin Reads /\ req[m].cmd # "Flush"
    BY <1>1, <1>2 DEF Wanted, Asked, Confirmed
  <2> QED
    BY <1>2, <2>1, ConfirmedMoves
<1>4. UpgradeAsked(m, k)
  BY <1>3 DEF AnswerOf
<1>5. pend'[m] = None /\ req'[m] = None /\ rtag'[m] = (rtag[m] + 1) % 8
  BY <1>2, <1>3 DEF SecondHalf, Chosen
<1>6. ~Awaiting(m)' /\ ~Sent(m)' /\ Evicts(m)' /\ ~Wanted(m, k)' /\ ~Asked(m, k)'
  BY <1>1, <1>5 DEF Awaiting, Sent, Evicts, Wanted, Asked
<1>7. Lag(m, k)' = 1
  <2>1. rtag[m] = k
    BY DEF Asked
  <2>2. (((k + 1) % 8) + 8 - k) % 8 = 1
    BY LagArithmetic
  <2> QED
    BY <1>5, <2>1, <2>2 DEF Lag
<1>8. LeftInFlush(m, k)' /\ LeftInRound(m, k)'
  BY <1>6, <1>7 DEF LeftInFlush, LeftInRound
<1>9. NoneInDram(t)' /\ ~InRom(t)'
  <2> HIDE DEF t
  <2>1. NoneInDram(t) /\ ~InRom(t)
    BY <1>4 DEF UpgradeAsked, t
  <2> QED
    BY <2>1, SecondPlaces DEF NoneInDram
<1>10. Left(m, k)'
  BY <1>1, <1>8, <1>9 DEF Left
<1> QED
  BY <1>6, <1>10 DEF AnswerOf

\* What is left over of one more round is older by as many requests as were confirmed.
LEMMA SecondLag ==
  ASSUME MemTypes, SecondHalf, NEW m \in Masters, NEW k \in 0 .. 7
  PROVE  /\ ~Confirmed(m) => Lag(m, k)' = Lag(m, k)
         /\ Confirmed(m) /\ Lag(m, k) < 7 => Lag(m, k)' = Lag(m, k) + 1
<1>1. rtag[m] \in 0 .. 7 /\ rtag'[m] = IF Confirmed(m) THEN (rtag[m] + 1) % 8 ELSE rtag[m]
  BY DEF SecondHalf, MemTypes
<1>2. ~Confirmed(m) => Lag(m, k)' = Lag(m, k)
  BY <1>1 DEF Lag
<1>3. Confirmed(m) /\ Lag(m, k) < 7 => Lag(m, k)' = Lag(m, k) + 1
  BY <1>1, LagArithmetic DEF Lag
<1> QED
  BY <1>2, <1>3

\* What is nacked is hurt.
LEMMA NotNacked ==
  ASSUME SecondHalf, NEW m \in Masters \ hurt'
  PROVE  Sent(m) => Confirmed(m)
BY DEF SecondHalf, Confirmed

\* The cache of a flush that has been confirmed has nothing more to send this round.
LEMMA SecondCache ==
  ASSUME MemTypes, RequestsFollow, SecondHalf, NEW shown, NEW g, Chosen(shown, g), NEW m \in Masters,
         Sent(m) => Confirmed(m)
  PROVE  /\ ~Confirmed(m) => /\ ~Sent(m) /\ op'[m] = op[m] /\ (Awaiting(m)' <=> Awaiting(m))
                             /\ (Again(m)' <=> Again(m))
         /\ Confirmed(m) => ~Sent(m)' /\ Evicts(m)' /\ Sent(m)
         /\ Confirmed(m) /\ req[m].cmd = "Flush" => ~Awaiting(m)' /\ Again(m)'
<1>1. /\ op'[m] = IF Confirmed(m) THEN ConfirmOp(op[m]) ELSE op[m]
      /\ pend'[m] = IF Confirmed(m) THEN ConfirmPend(m) ELSE pend[m]
      /\ Sent(m) => Confirmed(m)
  BY DEF SecondHalf
<1>2. ASSUME ~Confirmed(m)
      PROVE  ~Sent(m) /\ op'[m] = op[m] /\ (Awaiting(m)' <=> Awaiting(m)) /\ (Again(m)' <=> Again(m))
  BY <1>1, <1>2 DEF Awaiting, Again
<1>3. ASSUME Confirmed(m) PROVE ~Sent(m)' /\ Evicts(m)' /\ Sent(m)
  BY <1>3 DEF Chosen, Sent, Evicts, Confirmed
<1>4. ASSUME Confirmed(m), req[m].cmd = "Flush" PROVE ~Awaiting(m)' /\ Again(m)'
  <2>1. op[m] \in Accesses /\ op[m].at = "miss" /\ op'[m] = [op[m] EXCEPT !.evict = FALSE] /\ pend'[m] = None
    BY <1>1, <1>4, ConfirmedMoves DEF Reads
  <2>2. op'[m] \in Accesses /\ op'[m].at = "miss" /\ ~op'[m].evict
    BY <2>1 DEF Accesses
  <2> QED
    BY <2>1, <2>2, NoneIsNothing DEF Awaiting, Again
<1> QED
  BY <1>2, <1>3, <1>4

\* What is left over with the rom stays so, or is granted.
LEMMA SecondRom ==
  ASSUME MemTypes, RequestsFollow, RoundIsOf, SecondHalf, NEW shown, NEW g, Chosen(shown, g),
         NEW m \in Masters \ hurt', NEW k \in 0 .. 7, InRom(<<m, k>>), LeftInRom(m, k)
  PROVE  LeftInRom(m, k)' /\ LeftInRound(m, k)'
<1>1. rreq /\ RequestOf(m)
  <2>1. half = 1 /\ rcmd # None
    BY DEF SecondHalf, InRom
  <2> QED
    BY <2>1 DEF RoundIsOf, RequestsFollow
<1>2. Lag(m, k) \in {1, 2}
  BY DEF LeftInRom
<1>3. CASE ~Confirmed(m)
  <2>1. /\ Lag(m, k)' = Lag(m, k) /\ ~Sent(m) /\ (Awaiting(m)' <=> Awaiting(m)) /\ (Again(m)' <=> Again(m))
    BY <1>3, SecondLag, SecondCache, NotNacked
  <2>2. Sent(m)' => req'[m].cmd = "Flush" /\ op[m].evict
    BY <1>1, <2>1, SecondSends, FlushEvicts
  <2> QED
    BY <1>2, <2>1, <2>2 DEF LeftInRom, LeftInRound, Evicts, Again
<1>4. CASE Confirmed(m)
  <2>1. Lag(m, k)' = Lag(m, k) + 1 /\ ~Sent(m)' /\ Sent(m)
    BY <1>2, <1>4, SecondLag, SecondCache, NotNacked
  <2>2. Lag(m, k) = 1 /\ req[m].cmd = "Flush"
    BY <2>1 DEF LeftInRom, Evicts
  <2>3. Again(m)' /\ Lag(m, k)' = 2
    BY <1>4, <2>1, <2>2, SecondCache, NotNacked
  <2> QED
    BY <2>1, <2>3 DEF LeftInRom, LeftInRound
<1> QED
  BY <1>3, <1>4

\* A flush that is left over is granted,
LEMMA SecondFlush ==
  ASSUME MemTypes, RequestsFollow, SecondHalf, NEW shown, NEW g, Chosen(shown, g),
         NEW m \in Masters \ hurt', NEW k \in 0 .. 7, LeftInFlush(m, k)
  PROVE  LeftInRound(m, k)'
<1>1. Lag(m, k) \in 1 .. 4 /\ (Lag(m, k) = 1 => ~Awaiting(m))
  BY DEF LeftInFlush
<1>2. CASE ~Confirmed(m)
  BY <1>1, <1>2, SecondLag, SecondCache, NotNacked DEF LeftInRound
<1>3. CASE Confirmed(m)
  <2>1. Lag(m, k)' = Lag(m, k) + 1 /\ Sent(m)
    BY <1>1, <1>3, SecondLag, SecondCache, NotNacked
  <2>2. Lag(m, k) # 4
    BY <2>1 DEF LeftInFlush, Evicts, Again
  <2> QED
    BY <1>1, <2>1, <2>2 DEF LeftInRound
<1> QED
  BY <1>2, <1>3

\* or waits for its turn.
LEMMA SecondFlushWaits ==
  ASSUME MemTypes, RequestsFollow, SecondHalf, NEW shown, NEW g, Chosen(shown, g),
         NEW m \in Masters, Sent(m) => Confirmed(m), NEW k \in 0 .. 7, LeftInFlush(m, k),
         NEW n \in Masters \ {m}, SnoopReady(n), g # n
  PROVE  LeftInFlush(m, k)'
<1>1. Lag(m, k) \in 1 .. 4 /\ RequestOf(m)
  BY DEF LeftInFlush, RequestsFollow
<1>2. turn # m => turn' # m
  BY TurnStays
<1>3. CASE ~Confirmed(m)
  <2>1. /\ Lag(m, k)' = Lag(m, k) /\ ~Sent(m) /\ (Awaiting(m)' <=> Awaiting(m)) /\ (Again(m)' <=> Again(m))
        /\ op'[m] = op[m]
    BY <1>3, SecondLag, SecondCache
  <2>2. Sent(m)' => \/ req'[m].cmd = "Flush" /\ op[m].evict
                    \/ turn = m /\ turn' # m
    BY <1>1, <2>1, SecondSends, FlushEvicts
  <2>3. CASE Lag(m, k) = 1 /\ ~Awaiting(m)
    BY <2>1, <2>2, <2>3 DEF LeftInFlush, Evicts
  <2>4. CASE Lag(m, k) = 2 /\ Again(m)
    BY <2>1, <2>2, <2>4 DEF LeftInFlush, Again
  <2>5. CASE Lag(m, k) \in {2, 3} /\ turn # m
    BY <1>2, <2>1, <2>2, <2>5 DEF LeftInFlush, Evicts
  <2>6. CASE Lag(m, k) \in {3, 4} /\ turn # m /\ Again(m)
    BY <1>2, <2>1, <2>2, <2>6 DEF LeftInFlush, Again
  <2> QED
    BY <2>3, <2>4, <2>5, <2>6 DEF LeftInFlush
<1>4. CASE Confirmed(m)
  <2>1. Lag(m, k)' = Lag(m, k) + 1 /\ Sent(m) /\ ~Sent(m)' /\ Evicts(m)'
    BY <1>1, <1>4, SecondLag, SecondCache
  <2>2. req[m].cmd = "Flush" => Again(m)'
    BY <1>4, SecondCache
  <2>3. CASE Lag(m, k) = 1 /\ req[m].cmd = "Flush"
    <3>1. Lag(m, k)' = 2
      BY <2>1, <2>3
    <3> QED
      BY <2>1, <2>2, <2>3, <3>1 DEF LeftInFlush
  <2>4. CASE Lag(m, k) \in {1, 2} /\ turn # m
    <3>1. Lag(m, k)' \in {2, 3}
      BY <2>1, <2>4
    <3> QED
      BY <1>2, <2>1, <2>4, <3>1 DEF LeftInFlush
  <2>5. CASE Lag(m, k) \in {2, 3} /\ turn # m /\ req[m].cmd = "Flush"
    <3>1. Lag(m, k)' \in {3, 4}
      BY <2>1, <2>5
    <3> QED
      BY <1>2, <2>1, <2>2, <2>5, <3>1 DEF LeftInFlush
  <2> QED
    BY <2>1, <2>3, <2>4, <2>5 DEF LeftInFlush, Evicts
<1> QED
  BY <1>3, <1>4

\* What was left over.
LEMMA SecondLeft ==
  ASSUME MemTypes, DramTypes, RequestsFollow, RoundIsOf, SecondHalf, fault' = {}, NEW shown, NEW g, Chosen(shown, g),
         NEW m \in Masters \ hurt', NEW k \in 0 .. 7, AnswerOf(m, k), ~Wanted(m, k), ~Asked(m, k)
  PROVE  AnswerOf(m, k)'
<1> DEFINE t == <<m, k>>
<1>1. half = 1 /\ half' = 0 /\ Left(m, k) /\ RequestOf(m)
  BY DEF SecondHalf, AnswerOf, RequestsFollow
<1>2. ~Wanted(m, k)' /\ ~Asked(m, k)'
  <2>1. CASE ~Confirmed(m)
    <3>1. pend'[m] = pend[m]
      BY <2>1 DEF SecondHalf
    <3> QED
      BY <1>1, <3>1 DEF Wanted, Asked, Awaiting
  <2>2. CASE Confirmed(m)
    <3>1. Sent(m) /\ ~nack /\ ~dnack /\ pend'[m] = ConfirmPend(m)
      BY <2>2 DEF Confirmed, SecondHalf
    <3>2. CASE req[m].cmd \in Reads
      <4>1. rtag[m] # k
        BY <1>1, <3>1, <3>2 DEF Wanted
      <4>2. pend[m] \in Pending /\ pend'[m] = [pend[m] EXCEPT !.tag = rtag[m]]
        BY <2>2, <3>1, <3>2, ConfirmedMoves DEF Reads
      <4>3. pend'[m].tag = rtag[m]
        BY <4>2 DEF Pending
      <4> QED
        BY <1>1, <4>1, <4>3 DEF Wanted, Asked
    <3>3. CASE req[m].cmd \notin Reads
      <4>1. pend'[m] = None
        BY <2>2, <3>1, <3>3, ConfirmedMoves
      <4> QED
        BY <1>1, <4>1 DEF Wanted, Asked, Awaiting
    <3> QED
      BY <3>2, <3>3
  <2> QED
    BY <2>1, <2>2
<1>3. NoneInDram(t) /\ ~InRound(t) /\ (InRom(t) => LeftInRom(m, k))
      /\ \A n \in InFlush(t) : LeftInFlush(m, k) /\ SnoopReady(n)
  BY <1>1 DEF Left, InRound
<1>4. \A n \in InFlush(t) : n \in Masters \ {m}
  <2> SUFFICES ASSUME NEW n \in InFlush(t) PROVE n \in Masters \ {m}
    OBVIOUS
  <2>1. n \in Masters /\ snoop[n] # None /\ snoop[n].tag[1] = m
    BY DEF InFlush
  <2> QED
    BY <2>1 DEF RoundIsOf
<1>5. InRom(t) => LeftInRom(m, k)' /\ LeftInRound(m, k)'
  BY <1>3, SecondRom
<1>6. InFlush(t) # {} => LeftInRound(m, k)'
  BY <1>3, SecondFlush
<1>7. \A n \in InFlush(t) : n # g => LeftInFlush(m, k)'
  BY <1>3, <1>4, SecondFlushWaits, NotNacked
<1>8. /\ NoneInDram(t)'
      /\ InRom(t)' => InRom(t)
      /\ InFlush(t)' \subseteq InFlush(t) \ {g}
      /\ InRound(t)' => InRom(t) \/ InFlush(t) # {}
  <2> HIDE DEF t
  <2>1. InReads(t) = {}
    BY <1>3 DEF NoneInDram
  <2>2. InFlush(t)' = {n \in InFlush(t) : ~(n = g /\ SnoopReady(n))}
    BY FlushPlaces
  <2>3. InFlush(t)' \subseteq InFlush(t) \ {g}
    BY <1>3, <2>2
  <2> QED
    BY <1>3, <2>1, <2>3, SecondPlaces DEF NoneInDram
<1>9. Left(m, k)'
  BY <1>1, <1>5, <1>6, <1>7, <1>8 DEF Left
<1> QED
  BY <1>2, <1>9 DEF AnswerOf

LEMMA SecondAnswers ==
  ASSUME MemTypes, DramTypes, RequestsFollow, RoundIsOf, AnswersCome, SecondHalf, fault' = {}
  PROVE  AnswersCome'
<1> SUFFICES ASSUME NEW m \in Masters \ hurt', NEW k \in 0 .. 7 PROVE AnswerOf(m, k)'
  BY DEF AnswersCome
<1>1. PICK shown, g : Chosen(shown, g)
  BY SecondChosen
<1>2. m \in Masters \ hurt
  BY DEF SecondHalf
<1>3. AnswerOf(m, k)
  BY <1>2 DEF AnswersCome
<1> QED
  BY <1>1, <1>3, SecondWaits, SecondUpgrades, SecondLeft
-----------------------------------------------------------------------------
(* Every wait has an answer *)

\* Who waits has an answer somewhere, and exactly one if the line is of ram.
LEMMA OneAnswer ==
  ASSUME MemTypes, RequestsFollow, RoundIsOf, AnswersCome, NEW m \in Masters \ hurt, Awaiting(m)
  PROVE  LET answers == AnswersFor(<<m, pend[m].tag>>)
         IN answers # {} /\ (op[m].line \in Ram => Cardinality(answers) = 1)
<1> DEFINE t == <<m, pend[m].tag>>
           OnIt == OnBus({"Fill", "Flush"}) /\ bus.tag = t
<1>1. RequestOf(m) /\ pend[m] # None /\ pend[m] \in Pending /\ pend[m].tag # NoTag
  BY DEF RequestsFollow, Awaiting, MemTypes
<1>2. AnswerComes(m, pend[m].tag)
  <2>1. pend[m].tag \in 0 .. 7
    BY <1>1 DEF Pending
  <2>2. Wanted(m, pend[m].tag)
    BY DEF Wanted
  <2> QED
    BY <2>1, <2>2 DEF AnswersCome, AnswerOf
<1>3. OnIt <=> InRound(t)
  <2>1. OnIt => half = 0
    BY DEF RoundIsOf, MemTypes
  <2>2. OnIt => bus.cmd = "Fill" \/ \E n \in Masters : SnoopSent(n)
    <3>1. ~Sent(m)
      BY <1>1, WhoAwaits
    <3>2. OnIt /\ bus.cmd # "Fill" => OnBus(Commands) /\ bus.tag[1] = m
      BY DEF OnBus, Commands
    <3> QED
      BY <3>1, <3>2 DEF RoundIsOf
  <2>3. InRound(t) => OnBus({"Fill", "Flush"}) /\ bus.tag = t
    BY DEF InRound, OnBus, RoundIsOf
  <2> QED
    BY <2>1, <2>2, <2>3 DEF InRound, OnBus
<1>4. \A n \in InFlush(t) : n \in Masters /\ n # m
  <2> SUFFICES ASSUME NEW n \in InFlush(t) PROVE n \in Masters /\ n # m
    OBVIOUS
  <2>1. n \in Masters /\ snoop[n] # None /\ snoop[n].tag[1] = m
    BY DEF InFlush
  <2> QED
    BY <2>1 DEF RoundIsOf
<1>5. \A a, b \in InFlush(t) : a = b
  BY <1>4, TwoMasters
<1>6. /\ Some(t) /\ (op[m].line \in Ram => OnlyOne(t))
  BY <1>2 DEF AnswerComes
<1> HIDE DEF t
<1>7. \A a : a \in AnswersFor(t) <=>
         \/ a = <<"dramctl", 1>> /\ InCtl(t)
         \/ \E i \in InLib(t) : a = <<"library", i>>
         \/ \E i \in InReads(t) : a = <<"reads", i>>
         \/ a = <<"rom", 1>> /\ InRom(t)
         \/ \E n \in InFlush(t) : a = <<"flush", n>>
         \/ a = <<"bus", 1>> /\ InRound(t)
  <2>1. {a \in {<<"dramctl", 1>>} : dcmd # None /\ ~dcmd.write /\ dcmd.tag = t} = {a \in {<<"dramctl", 1>>} : InCtl(t)}
    BY DEF InCtl
  <2>2. {a \in {<<"rom", 1>>} : rcmd # None /\ rcmd.tag = t} = {a \in {<<"rom", 1>>} : InRom(t)}
    BY DEF InRom
  <2>3. {a \in {<<"bus", 1>>} : OnBus({"Fill", "Flush"}) /\ bus.tag = t} = {a \in {<<"bus", 1>>} : InRound(t)}
    BY <1>3
  <2>4. AnswersFor(t) = {a \in {<<"dramctl", 1>>} : InCtl(t)} \cup ({"library"} \X InLib(t)) \cup ({"reads"} \X InReads(t))
                        \cup {a \in {<<"rom", 1>>} : InRom(t)} \cup ({"flush"} \X InFlush(t))
                        \cup {a \in {<<"bus", 1>>} : InRound(t)}
    BY <2>1, <2>2, <2>3 DEF AnswersFor, InLib, InReads, InFlush
  <2> QED
    BY <2>4
<1>8. \E a : a \in AnswersFor(t)
  <2>1. CASE InCtl(t)
    BY <1>7, <2>1
  <2>2. CASE InRom(t)
    BY <1>7, <2>2
  <2>3. CASE InRound(t)
    BY <1>7, <2>3
  <2>4. CASE InLib(t) # {}
    BY <1>7, <2>4
  <2>5. CASE InReads(t) # {}
    BY <1>7, <2>5
  <2>6. CASE InFlush(t) # {}
    BY <1>7, <2>6
  <2> QED
    BY <1>6, <2>1, <2>2, <2>3, <2>4, <2>5, <2>6 DEF Some
<1>9. ASSUME op[m].line \in Ram PROVE Cardinality(AnswersFor(t)) = 1
  <2>1. OnlyOne(t)
    BY <1>6, <1>9
  <2>2. \A a, b \in AnswersFor(t) : a = b
    <3> SUFFICES ASSUME NEW a \in AnswersFor(t), NEW b \in AnswersFor(t) PROVE a = b
      OBVIOUS
    <3>1. \/ a = <<"dramctl", 1>> /\ InCtl(t)
          \/ \E i \in InLib(t) : a = <<"library", i>>
          \/ \E i \in InReads(t) : a = <<"reads", i>>
          \/ \E n \in InFlush(t) : a = <<"flush", n>>
          \/ a = <<"bus", 1>> /\ InRound(t)
      BY <1>7, <2>1 DEF OnlyOne
    <3>2. \/ b = <<"dramctl", 1>> /\ InCtl(t)
          \/ \E i \in InLib(t) : b = <<"library", i>>
          \/ \E i \in InReads(t) : b = <<"reads", i>>
          \/ \E n \in InFlush(t) : b = <<"flush", n>>
          \/ b = <<"bus", 1>> /\ InRound(t)
      BY <1>7, <2>1 DEF OnlyOne
    <3> QED
      BY <1>5, <2>1, <3>1, <3>2 DEF OnlyOne
  <2>3. PICK a : AnswersFor(t) = {a}
    BY <1>8, <2>2
  <2> QED
    BY <2>3, FS_Singleton
<1> QED
  BY <1>8, <1>9 DEF t

\* A behaviour that has a fault goes on having it.
LEMMA FaultsStay == MemNext /\ fault' = {} => fault = {}
BY DEF MemNext, Start, Schedule, Ready, FirstHalf, SecondHalf, histVars

\* Every step of a behaviour without a fault.
LEMMA WaitStep == WaitInv /\ MemNext => WaitInv'
<1> SUFFICES ASSUME WaitInv, MemNext, fault' = {}
             PROVE  MemTypes' /\ DramTypes' /\ RequestsFollow' /\ RoundIsOf' /\ AnswersCome'
  BY DEF WaitInv
<1>1. MemTypes /\ DramTypes /\ RequestsFollow /\ RoundIsOf /\ AnswersCome
  BY FaultsStay DEF WaitInv
<1>2. ASSUME NEW m \in Masters, Start(m) \/ Schedule(m) \/ Ready(m)
      PROVE  MemTypes' /\ DramTypes' /\ RequestsFollow' /\ RoundIsOf' /\ AnswersCome'
  BY <1>1, <1>2, StartTypes, ScheduleTypes, ReadyTypes, StartRequests, ScheduleRequests, ReadyRequests,
     CacheRounds, CacheAnswers
<1>3. ASSUME NEW ready \in CmdReady, FirstHalf(ready)
      PROVE  MemTypes' /\ DramTypes' /\ RequestsFollow' /\ RoundIsOf' /\ AnswersCome'
  <2>1. ready \in BOOLEAN
    BY DEF CmdReady
  <2> QED
    BY <1>1, <1>3, <2>1, FirstTypes, FirstRequests, FirstRounds, FirstAnswers
<1>4. CASE SecondHalf
  BY <1>1, <1>4, SecondTypes, SecondRequests, SecondRounds, SecondAnswers
<1>5. CASE ClockTick /\ UNCHANGED <<cacheVars, busVars, histVars>>
  <2>1. MemTypes'
    BY <1>1, <1>5 DEF MemTypes, cacheVars, busVars, histVars
  <2>2. RequestsFollow'
    BY <1>1, <1>5 DEF RequestsFollow, RequestOf, Asking, Awaiting, cacheVars
  <2> QED
    BY <1>1, <1>5, <2>1, <2>2, TickMoves, TickRounds, TickAnswers
<1> QED
  BY <1>2, <1>3, <1>4, <1>5 DEF MemNext

LEMMA WaitStutter == WaitInv /\ UNCHANGED memVars => WaitInv'
<1> SUFFICES ASSUME WaitInv, UNCHANGED memVars, fault' = {}
             PROVE  MemTypes' /\ DramTypes' /\ RequestsFollow' /\ RoundIsOf' /\ AnswersCome'
  BY DEF WaitInv
<1>1. UNCHANGED <<op, way, pend, req, snoop, rtag, bus, turn, half, hit, nack, dnack, dcmd, dreq, rcmd, rreq,
                  nops, latest, hurt, fault, vpi, memory, read_queue, write_queue, transactions>>
  BY DEF memVars, cacheVars, busVars, histVars, dramVars
<1>2. MemTypes /\ DramTypes /\ RequestsFollow /\ RoundIsOf /\ AnswersCome
  BY <1>1 DEF WaitInv
<1>3. MemTypes' /\ DramTypes' /\ RequestsFollow' /\ RoundIsOf'
  BY <1>1, <1>2 DEF MemTypes, DramTypes, RequestsFollow, RequestOf, Asking, Awaiting, RoundIsOf, OnBus, SnoopSent, Sent, Its
<1>4. AnswersCome'
  <2> SUFFICES ASSUME NEW m \in Masters \ hurt', NEW k \in 0 .. 7 PROVE AnswerOf(m, k)'
    BY DEF AnswersCome
  <2>1. RequestOf(m) /\ AnswerOf(m, k)
    BY <1>1, <1>2 DEF RequestsFollow, AnswersCome
  <2> QED
    BY <1>1, <2>1, SameAnswers DEF Awaiting, Sent
<1> QED
  BY <1>3, <1>4

\* Up to the first fault every tag of a cache has the answers it is owed and no others
\* (l2tag.v, l2data.v, l2trans.v, bus.v, rom.v, dramctl.v and the glue together).
THEOREM MemInvariant == MemSpec => []WaitInv
<1>1. MemInit => WaitInv
  BY MemInitWait
<1>2. WaitInv /\ [MemNext]_memVars => WaitInv'
  BY WaitStep, WaitStutter
<1> QED
  BY <1>1, <1>2, PTL DEF MemSpec

\* What rom has taken it is asking for, in every state.
RomAsks == rcmd # None => rreq \/ half = 0

LEMMA RomGoesOnAsking == MemSpec => []RomAsks
<1>1. MemInit => RomAsks
  BY DEF MemInit, RomAsks
<1>2. RomAsks /\ [MemNext]_memVars => RomAsks'
  <2> SUFFICES ASSUME RomAsks, [MemNext]_memVars PROVE RomAsks'
    OBVIOUS
  <2>1. ASSUME NEW m \in Masters, Start(m) \/ Schedule(m) \/ Ready(m) PROVE RomAsks'
    BY <2>1 DEF RomAsks, Start, Schedule, Ready, busVars
  <2>2. ASSUME NEW ready \in CmdReady, FirstHalf(ready) PROVE RomAsks'
    BY <2>2 DEF RomAsks, FirstHalf, RomRead
  <2>3. CASE SecondHalf
    BY <2>3 DEF RomAsks, SecondHalf
  <2>4. CASE ClockTick /\ UNCHANGED <<cacheVars, busVars, histVars>>
    BY <2>4 DEF RomAsks, busVars
  <2>5. CASE UNCHANGED memVars
    BY <2>5 DEF RomAsks, memVars, busVars
  <2> QED
    BY <2>1, <2>2, <2>3, <2>4, <2>5 DEF MemNext
<1> QED
  BY <1>1, <1>2, PTL DEF MemSpec

\* Up to the first fault, a cache whose read has been confirmed has its answer in one of
\* the six places it may be, and only one if the line is of ram; and rom.v asks for the
\* bus as long as it holds a command.
THEOREM WaitsAreAnswered == MemSpec => []EveryWaitHasAnAnswer
<1>1. WaitInv /\ RomAsks => EveryWaitHasAnAnswer
  <2> SUFFICES ASSUME WaitInv, RomAsks, fault = {}, NEW m \in Masters,
                      pend[m] # None, pend[m].tag # NoTag, m \notin hurt
               PROVE  LET answers == AnswersFor(<<m, pend[m].tag>>)
                      IN answers # {} /\ (op[m].line \in Ram => Cardinality(answers) = 1)
    BY DEF EveryWaitHasAnAnswer, RomAsks
  <2> QED
    BY OneAnswer DEF WaitInv, Awaiting
<1> QED
  BY <1>1, MemInvariant, RomGoesOnAsking, PTL

-----------------------------------------------------------------------------
(* No store is lost                                                        *)
(*                                                                         *)
(* StoreInv is the inductive invariant behind CopiesAreLatest. It follows  *)
(* each line of ram through the system: the caches that have it, the one   *)
(* answer that may be under way for it (a read of the library, a fill or a *)
(* flush of another cache), the writes that the glue and the library have  *)
(* taken, and memory. Like WaitInv it stands up to the first fault.        *)

Latest(l) == Content(latest[l])

\* The access of a cache, its line and its request.
WayOf(m) ==
  /\ way[m].state = "M" => way[m].line \in Ram
  /\ op[m] # None =>
       /\ op[m].write => op[m].line \in Ram
       /\ op[m].upgr => /\ op[m].write /\ ~op[m].evict /\ op[m].at = "miss"
                        /\ way[m].line = op[m].line /\ way[m].state = "S"
       /\ op[m].evict => /\ op[m].at = "miss" /\ way[m].line \in Ram /\ way[m].line # op[m].line
                         /\ half = 0 /\ pend[m] = None => way[m].state = "M"
       /\ op[m].at = "miss" /\ ~op[m].upgr => ~Holds(m, op[m].line)
       /\ op[m].at = "bank" => /\ way[m].line = op[m].line
                               /\ op[m].write => way[m].state = "M"
  /\ req[m] # None => /\ req[m].cmd = "Flush" => req[m].line = way[m].line /\ req[m].data = way[m].data
                      /\ req[m].at # "data" => req[m].left = 0
WaysFollow == \A m \in Masters : WayOf(m)

\* What has been sent, and is not heard again.
SentOnce ==
  /\ \A m \in Masters : Sent(m) => Its(m) \/ req[m].cmd \in Reads
  /\ \A m \in Masters : Sent(m) /\ req[m].cmd = "Flush" => bus.data = req[m].data
  /\ \A n \in Masters : SnoopSent(n) => /\ bus.data = snoop[n].data
                                        /\ \A m \in Masters : Sent(m) => req[m].cmd # "Flush"
  /\ OnBus({"Flush"}) => \E n \in Masters : SnoopSent(n) \/ (Sent(n) /\ req[n].cmd = "Flush")
  /\ half = 1 /\ (nack \/ dnack) => OnBus(Requests)
  /\ half = 0 /\ OnBus(Requests) => snoop[bus.tag[1]] = None
  /\ half = 1 /\ OnBus({"Flush"}) /\ bus.line \in Ram =>
       dcmd # None /\ dcmd.write /\ dcmd.line = bus.line /\ dcmd.data = bus.data

\* Answers under way for a line of ram.
CtlHas(l)   == dcmd # None /\ ~dcmd.write /\ dcmd.line = l
LibHas(l)   == {i \in DOMAIN transactions : ~transactions[i].write /\ transactions[i].addr = LineBytes * l}
ReadsHave(l) == {i \in DOMAIN read_queue : read_queue[i].addr = LineBytes * l}
FlushHas(l) == {n \in Masters : snoop[n] # None /\ ~SnoopSent(n) /\ snoop[n].line = l}
FillHas(l)  == half = 0 /\ OnBus({"Fill"}) /\ bus.line = l
GivenHas(l) == half = 0 /\ bus # None /\ bus.line = l /\ \E n \in Masters : SnoopSent(n)
RoundHas(l) == FillHas(l) \/ GivenHas(l)
DramHas(l)  == CtlHas(l) \/ LibHas(l) # {} \/ ReadsHave(l) # {}
Under(l)    == DramHas(l) \/ FlushHas(l) # {} \/ RoundHas(l)

\* There is one of them, and it is the last.
OneFor(l) ==
  /\ CtlHas(l) => LibHas(l) = {} /\ ReadsHave(l) = {} /\ FlushHas(l) = {} /\ ~RoundHas(l)
  /\ LibHas(l) # {} => ReadsHave(l) = {} /\ FlushHas(l) = {} /\ ~RoundHas(l)
  /\ ReadsHave(l) # {} => FlushHas(l) = {} /\ ~RoundHas(l)
  /\ FlushHas(l) # {} => ~RoundHas(l)
  /\ \A i, j \in LibHas(l) : i = j
  /\ \A i, j \in ReadsHave(l) : i = j
  /\ \A m, n \in FlushHas(l) : m = n

\* Somebody waits for it, or is about to.
Due(t, l) == t[1] \in Masters /\ op[t[1]] # None /\ op[t[1]].at = "miss" /\ op[t[1]].line = l
WaitsFor(t, l) == Due(t, l) /\ Awaiting(t[1]) /\ pend[t[1]].tag = t[2]
SoonWaits(t, l) == Due(t, l) /\ Sent(t[1]) /\ req[t[1]].cmd \in Reads /\ rtag[t[1]] = t[2]
Expected(l) ==
  /\ CtlHas(l) => \/ WaitsFor(dcmd.tag, l)
                  \/ SoonWaits(dcmd.tag, l) /\ half = 1 /\ ~nack /\ ~dnack
  /\ \A i \in LibHas(l) : WaitsFor(transactions[i].tag, l)
  /\ \A i \in ReadsHave(l) : WaitsFor(read_queue[i].tag, l)
  /\ \A n \in FlushHas(l) :
       \/ WaitsFor(snoop[n].tag, l)
       \/ /\ SoonWaits(snoop[n].tag, l)
          /\ IF half = 1 THEN SnoopReady(n) => ~nack /\ ~dnack ELSE ~SnoopReady(n) /\ ~OnBus(Requests)
  /\ RoundHas(l) => WaitsFor(bus.tag, l)

\* Who may have the line meanwhile.
Held(l) ==
  /\ DramHas(l) \/ FillHas(l) => \A n \in Masters : ~Holds(n, l)
  /\ \A n \in FlushHas(l) : Holds(n, l) => way[n].state = "S" /\ ~op[snoop[n].tag[1]].write
  /\ \A n \in Masters : GivenHas(l) /\ SnoopSent(n) /\ Holds(n, l) => way[n].state = "S" /\ ~op[bus.tag[1]].write
OneOf(l) == OneFor(l) /\ Expected(l) /\ Held(l)
Exclusive ==
  /\ \A m \in Masters : way[m].state = "M" => \A n \in Masters \ {m} : ~Holds(n, way[m].line)
  /\ \A m \in Masters : half = 1 /\ ~nack /\ ~dnack /\ Sent(m) /\ req[m].cmd = "BusUpgr" =>
       ~Under(op[m].line) /\ \A n \in Masters \ {m} : ~Holds(n, op[m].line)

\* The data under way and in the caches.
DataIsLatest ==
  /\ \A l \in Rom : latest[l] = 0
  /\ \A m \in Masters : way[m].state # "I" => way[m].data = Latest(way[m].line)
  /\ \A n \in Masters : snoop[n] # None /\ (half = 0 \/ ~SnoopSent(n)) => snoop[n].data = Latest(snoop[n].line)
  /\ half = 0 /\ OnBus({"Fill"}) => bus.data = Latest(bus.line)
  /\ \A l \in Ram : \A i \in ReadsHave(l) : read_queue[i].line = Packed(Latest(l))

\* The library: a write has its data under its tag, and none passes a read of its line.
WritesOf(l) == {i \in DOMAIN transactions : transactions[i].write /\ transactions[i].addr = LineBytes * l}
TagsOfWrites == {transactions[i].tag : i \in {j \in DOMAIN transactions : transactions[j].write}}
LastOf(S) == CHOOSE i \in S : \A j \in S : j <= i
LineInMemory(l) == [i \in 0 .. Dwords - 1 |-> memory[Dwords * l + i]]
Library ==
  /\ DOMAIN write_queue = TagsOfWrites
  /\ \A i, j \in DOMAIN transactions :
       transactions[i].write /\ transactions[j].write /\ transactions[i].tag = transactions[j].tag => i = j
  /\ \A l \in Ram :
       /\ WritesOf(l) # {} => \E i \in WritesOf(l) : \A j \in WritesOf(l) : j <= i
       /\ \A i \in LibHas(l) : /\ \A j \in WritesOf(l) : j < i
                               /\ dcmd # None /\ dcmd.write => dcmd.line # l

MemoryIsLatest(l) == RamLine(l) = Packed(Latest(l))
Cleaned(m) == op[m] # None /\ op[m].at = "miss" /\ ~op[m].evict /\ ~op[m].upgr /\ way[m].state = "M"
MemoryFollows ==
  /\ \A l \in Ram : CtlHas(l) \/ LibHas(l) # {} => MemoryIsLatest(l)
  /\ \A m \in Masters : Cleaned(m) => MemoryIsLatest(way[m].line)
  /\ \A l \in Ram : \/ \E m \in Masters : Holds(m, l) /\ way[m].state = "M"
                    \/ FlushHas(l) # {} \/ GivenHas(l)
                    \/ MemoryIsLatest(l)

\* A cache has given away the line that it evicts: its flush comes first all the same.
Handing(m, n) ==
  /\ snoop[m] # None /\ snoop[m].line = way[m].line
  /\ op[n] # None /\ op[n].write /\ op[n].line = way[m].line
  /\ \/ snoop[m].at = "data" /\ (req[m] # None => req[m].left <= 2)
     \/ SnoopReady(m) /\ half = 1 /\ req[m] # None /\ req[m].left <= 1
     \/ SnoopSent(m) /\ half = 0 /\ req[m] # None /\ req[m].left <= 1
     \/ SnoopSent(m) /\ half = 1 /\ req[m] # None /\ req[m].left = 0 /\ op[n].at = "bank"
Handed(m, n) ==
  /\ snoop[m] = None /\ way[n].state = "M" /\ way[n].line = way[m].line
  /\ req[m] # None /\ req[m].left = 0
  /\ \/ half = 0 /\ ~Sent(m) /\ op[n] # None /\ op[n].at = "bank"
     \/ /\ op[n] # None => op[n].at = "miss" /\ op[n].evict
        /\ (half = 1 /\ req[m].at # "data") \/ (half = 0 /\ Sent(m))
        /\ req[n] # None => /\ ~Sent(n)
                            /\ half = 0 \/ ~Sent(m) => req[n].at = "data" /\ req[n].left >= 2
Overtaken(m) == op[m] # None /\ op[m].evict /\ way[m].state = "I"
NoReads == /\ read_queue = << >> /\ rcmd = None /\ (dcmd # None => dcmd.write)
           /\ \A i \in DOMAIN transactions : transactions[i].write
           /\ half = 0 => ~OnBus({"Fill"})
FlushesFirst == \A m \in Masters : Overtaken(m) /\ ~(half = 1 /\ nack /\ OnBus({"BusUpgr"})) =>
  \A n \in Masters \ {m} : snoop[n] = None /\ NoReads /\ (Handing(m, n) \/ Handed(m, n))

\* Who waits for a line of rom asked for that line.
WantsThis(t, l) == Awaiting(t[1]) /\ pend[t[1]].tag = t[2] => op[t[1]].line = l
AsksThis(t, l) == Sent(t[1]) /\ req[t[1]].cmd \in Reads => rtag[t[1]] = t[2] /\ op[t[1]].line = l
RomFlush(n) ==
  LET m == snoop[n].tag[1]
      k == snoop[n].tag[2]
  IN \/ Lag(m, k) = 0 /\ Sent(m) /\ req[m].cmd \in Reads /\ op[m].line = snoop[n].line
     \/ Lag(m, k) = 1 /\ Awaiting(m) /\ op[m].line = snoop[n].line
     \/ LeftInFlush(m, k) /\ (half = 1 => SnoopReady(n))
RomAnswers ==
  /\ rcmd # None => rcmd.line \in Rom /\ WantsThis(rcmd.tag, rcmd.line) /\ AsksThis(rcmd.tag, rcmd.line)
  /\ half = 0 /\ bus # None /\ bus.line \in Rom /\ (bus.cmd = "Fill" \/ \E n \in Masters : SnoopSent(n)) =>
       WantsThis(bus.tag, bus.line)
  /\ \A n \in Masters : snoop[n] # None /\ ~SnoopSent(n) /\ snoop[n].line \in Rom => RomFlush(n)

StoreParts ==
  /\ WaysFollow /\ SentOnce /\ (\A l \in Ram : OneOf(l)) /\ Exclusive
  /\ DataIsLatest /\ Library /\ MemoryFollows /\ FlushesFirst /\ RomAnswers
StoreInv == fault = {} => StoreParts

-----------------------------------------------------------------------------
(* The steps of one cache by itself keep StoreInv *)

\* The steps of one cache by itself: Start, Schedule and Ready.
LEMMA CheckedSays ==
  ASSUME MemTypes, NEW m \in Masters, NEW l \in Lines, NEW write \in BOOLEAN
  PROVE  LET a == Checked(m, l, write)
         IN /\ a \in Accesses /\ a # None /\ a.line = l /\ a.write = write
            /\ a.upgr <=> Holds(m, l) /\ write /\ way[m].state = "S"
            /\ a.evict <=> ~Holds(m, l) /\ way[m].state = "M"
            /\ a.at = IF Holds(m, l) /\ ~a.upgr THEN "bank" ELSE "miss"
<1>1. Checked(m, l, write) \in Accesses
  BY CheckedIsAccess
<1> QED
  BY <1>1, NoneIsNothing DEF Checked

\* The beats of a request are sent: all that changes is that it is ready.
LEMMA ReadySent ==
  ASSUME MemTypes, NEW m \in Masters, Ready(m)
  PROVE  /\ req[m] \in Sending /\ req[m].at = "data" /\ (req[m].cmd = "Flush" => req[m].left <= 1)
         /\ req'[m] \in Sending /\ req'[m] # None /\ req'[m].at = "ready" /\ req'[m].left = 0
         /\ req'[m].cmd = req[m].cmd /\ req'[m].line = req[m].line /\ req'[m].data = req[m].data
         /\ \A n \in Masters : n # m => req'[n] = req[n]
<1>1. req \in [Masters -> Sending \cup {None}] /\ req[m] \in Sending
  BY DEF Ready, MemTypes
<1>2. PICK r : r = [req[m] EXCEPT !.at = "ready"]
  OBVIOUS
<1>3. r \in Sending /\ r.at = "ready" /\ r.cmd = req[m].cmd /\ r.line = req[m].line /\ r.data = req[m].data
  BY <1>1, <1>2 DEF Sending
<1>4. PICK s : s = [r EXCEPT !.left = 0]
  OBVIOUS
<1>5. s \in Sending /\ s.at = "ready" /\ s.cmd = req[m].cmd /\ s.line = req[m].line /\ s.data = req[m].data /\ s.left = 0
  BY <1>3, <1>4 DEF Sending
<1>6. req' = [req EXCEPT ![m] = s]
  BY <1>1, <1>2, <1>4 DEF Ready
<1> QED
  BY <1>1, <1>5, <1>6, NoneIsNothing DEF Ready

\* What a miss asks for, and that it has no tag yet.
LEMMA ScheduleSays ==
  ASSUME MemTypes, NEW m \in Masters, Schedule(m)
  PROVE  /\ op[m] # None /\ op[m].at = "miss" /\ pend[m] = None /\ req[m] = None
         /\ req'[m] # None /\ req'[m].at = "data" /\ req'[m].left = Burst /\ req'[m].cmd = Command(op[m])
         /\ req'[m].data = way[m].data
         /\ req'[m].line = IF Command(op[m]) = "Flush" THEN way[m].line ELSE op[m].line
         /\ pend'[m] # None /\ pend'[m].tag = NoTag
         /\ \A n \in Masters : n # m => req'[n] = req[n] /\ pend'[n] = pend[n]
<1>1. op[m] # None /\ op[m].at = "miss" /\ pend[m] = None /\ req[m] = None
  BY DEF Schedule, Waits
<1>2. PICK s : s = [cmd |-> Command(op[m]), at |-> "data", left |-> Burst, data |-> way[m].data,
                    line |-> IF Command(op[m]) = "Flush" THEN way[m].line ELSE op[m].line]
  OBVIOUS
<1>3. PICK p : p = [cmd |-> Command(op[m]), tag |-> NoTag]
  OBVIOUS
<1>4. req' = [req EXCEPT ![m] = s] /\ pend' = [pend EXCEPT ![m] = p]
  BY <1>2, <1>3 DEF Schedule
<1>5. req'[m] = s /\ pend'[m] = p /\ \A n \in Masters : n # m => req'[n] = req[n] /\ pend'[n] = pend[n]
  BY <1>4 DEF MemTypes
<1>6. op[m] \in Accesses /\ Command(op[m]) \in Commands /\ way[m].line \in Lines /\ way[m].data \in Data /\ Burst \in 0 .. 3
  BY <1>1 DEF MemTypes, Command, Commands, Requests, Burst
<1>7. s \in Sending /\ p \in Pending
  BY <1>2, <1>3, <1>6 DEF Sending, Pending, Accesses
<1> QED
  BY <1>1, <1>2, <1>3, <1>5, <1>7, NoneIsNothing

\* What these steps leave alone, and what they do to the access of the cache.
LEMMA CacheSays ==
  ASSUME MemTypes, RequestsFollow, WaysFollow, NEW m \in Masters, Start(m) \/ Schedule(m) \/ Ready(m)
  PROVE
    /\ UNCHANGED <<snoop, rtag, bus, turn, half, hit, nack, dnack, dcmd, dreq, rcmd, rreq, hurt, fault>>
    /\ UNCHANGED <<vpi, memory, read_queue, write_queue, transactions>>
    /\ \A n \in Masters : way'[n].state = way[n].state /\ way'[n].line = way[n].line
    /\ \A n \in Masters : n # m => op'[n] = op[n] /\ way'[n] = way[n] /\ req'[n] = req[n] /\ pend'[n] = pend[n]
    /\ \A n \in Masters : op[n] # None => op'[n] = op[n] /\ way'[n] = way[n]
    /\ \A n \in Masters : op[n] = None /\ op'[n] # None =>
         /\ op'[n].at = "miss" /\ op'[n].evict \in BOOLEAN /\ op'[n].upgr \in BOOLEAN
         /\ op'[n].upgr => ~op'[n].evict /\ op'[n].write /\ way[n].state = "S" /\ way[n].line = op'[n].line
         /\ op'[n].evict <=> way[n].state = "M"
         /\ op'[n].write => op'[n].line \in Ram
         /\ ~op'[n].upgr => ~Holds(n, op'[n].line)
         /\ pend[n] = None /\ req[n] = None /\ pend'[n] = None /\ req'[n] = None
    /\ \A n \in Masters : (Sent(n)' <=> Sent(n)) /\ (Sent(n) => req'[n] = req[n])
    /\ \A n \in Masters : (Awaiting(n)' <=> Awaiting(n)) /\ (Awaiting(n) => pend'[n] = pend[n])
    /\ \/ latest' = latest /\ way' = way
       \/ /\ op[m] = None /\ op' = op /\ pend' = pend /\ req' = req /\ way[m].state = "M" /\ way[m].line \in Ram
          /\ latest' = [latest EXCEPT ![way[m].line] = @ + 1]
          /\ way' = [way EXCEPT ![m].data = Stored(m, way[m].line)]
<1>1. CASE Start(m)
  <2>1. PICK l \in Lines, write \in BOOLEAN :
          /\ write => l \in Ram
          /\ LET a == Checked(m, l, write)
             IN IF a.at = "miss"
                THEN op' = [op EXCEPT ![m] = a] /\ UNCHANGED <<latest, way>>
                ELSE /\ UNCHANGED op
                     /\ latest' = IF write THEN [latest EXCEPT ![l] = @ + 1] ELSE latest
                     /\ way' = IF write THEN [way EXCEPT ![m].data = Stored(m, l)] ELSE way
    BY <1>1 DEF Start
  <2>2. /\ op[m] = None /\ UNCHANGED <<pend, req, snoop, rtag, bus, turn, half, hit, nack, dnack, dcmd, dreq, rcmd, rreq, hurt, fault>>
        /\ UNCHANGED <<vpi, memory, read_queue, write_queue, transactions>>
    BY <1>1 DEF Start, busVars, dramVars
  <2>3. pend[m] = None /\ req[m] = None
    BY <2>2 DEF RequestsFollow, RequestOf, Asking
  <2>4. (\A n \in Masters : Sent(n)' <=> Sent(n)) /\ \A n \in Masters : Awaiting(n)' <=> Awaiting(n)
    BY <2>2 DEF Sent, Awaiting
  <2> DEFINE a == Checked(m, l, write)
  <2>5. /\ a \in Accesses /\ a # None /\ a.line = l /\ a.write = write
        /\ a.upgr <=> Holds(m, l) /\ write /\ way[m].state = "S"
        /\ a.evict <=> ~Holds(m, l) /\ way[m].state = "M"
        /\ a.at = IF Holds(m, l) /\ ~a.upgr THEN "bank" ELSE "miss"
    BY CheckedSays
  <2>a. a.evict \in BOOLEAN /\ a.upgr \in BOOLEAN
    BY <2>5 DEF Accesses
  <2>6. CASE a.at = "miss"
    <3>1. op' = [op EXCEPT ![m] = a] /\ UNCHANGED <<latest, way>>
      BY <2>1, <2>6
    <3>2. \A n \in Masters : op'[n] = IF n = m THEN a ELSE op[n]
      BY <3>1 DEF MemTypes
    <3>3. a.evict <=> way[m].state = "M"
      BY <2>5, <2>6
    <3> HIDE DEF a
    <3> QED
      BY <2>1, <2>2, <2>3, <2>4, <2>5, <2>a, <3>1, <3>2, <3>3 DEF Holds
  <2>7. CASE a.at # "miss" /\ ~write
    BY <2>1, <2>2, <2>4, <2>7
  <2>8. CASE a.at # "miss" /\ write
    <3>1. Holds(m, l) /\ way[m].state = "M" /\ way[m].line = l /\ l \in Ram
      <4>1. way[m].state \in {"I", "S", "M"}
        BY DEF MemTypes
      <4> QED
        BY <2>1, <2>5, <2>8, <4>1 DEF Holds
    <3>2. op' = op /\ latest' = [latest EXCEPT ![l] = @ + 1] /\ way' = [way EXCEPT ![m].data = Stored(m, l)]
      BY <2>1, <2>8
    <3>3. \A n \in Masters : way'[n].state = way[n].state /\ way'[n].line = way[n].line /\ (n # m => way'[n] = way[n])
      BY <3>2 DEF MemTypes
    <3> QED
      BY <2>2, <2>4, <3>1, <3>2, <3>3
  <2> QED
    BY <2>6, <2>7, <2>8
<1>2. CASE Schedule(m)
  <2>1. /\ UNCHANGED <<op, way, snoop, rtag, bus, turn, half, hit, nack, dnack, dcmd, dreq, rcmd, rreq, hurt, fault, latest>>
        /\ UNCHANGED <<vpi, memory, read_queue, write_queue, transactions>>
    BY <1>2 DEF Schedule, busVars, histVars, dramVars
  <2>2. /\ op[m] # None /\ pend[m] = None /\ req[m] = None /\ req'[m].at = "data" /\ pend'[m].tag = NoTag
        /\ \A n \in Masters : n # m => req'[n] = req[n] /\ pend'[n] = pend[n]
    BY <1>2, ScheduleSays
  <2>5. (\A n \in Masters : Sent(n)' <=> Sent(n)) /\ \A n \in Masters : Awaiting(n)' <=> Awaiting(n)
    BY <2>2 DEF Sent, Awaiting
  <2>6. \A n \in Masters : (Sent(n) => n # m) /\ (Awaiting(n) => n # m)
    BY <2>2 DEF Sent, Awaiting
  <2> QED
    BY <2>1, <2>2, <2>5, <2>6
<1>3. CASE Ready(m)
  <2>1. /\ UNCHANGED <<op, way, pend, snoop, rtag, bus, turn, half, hit, nack, dnack, dcmd, dreq, rcmd, rreq, hurt, fault, latest>>
        /\ UNCHANGED <<vpi, memory, read_queue, write_queue, transactions>>
    BY <1>3 DEF Ready, busVars, histVars, dramVars
  <2>2. req[m] # None /\ req[m].at = "data" /\ req[m] \in Sending
    BY <1>3 DEF Ready, MemTypes
  <2>3. \A n \in Masters : n # m => req'[n] = req[n]
    BY <1>3 DEF Ready, MemTypes
  <2>4. req'[m].at = "ready"
    BY <1>3, ReadySent
  <2>5. (\A n \in Masters : Sent(n)' <=> Sent(n)) /\ \A n \in Masters : Awaiting(n)' <=> Awaiting(n)
    BY <2>1, <2>2, <2>3, <2>4 DEF Sent, Awaiting
  <2>6. \A n \in Masters : Sent(n) => n # m
    BY <2>2 DEF Sent
  <2> QED
    BY <2>1, <2>3, <2>5, <2>6
<1> QED
  BY <1>1, <1>2, <1>3

\* A new access is made for the way as it is, a new request for the access.
LEMMA CacheWays ==
  ASSUME MemTypes, RequestsFollow, WaysFollow, NEW m \in Masters, Start(m) \/ Schedule(m) \/ Ready(m)
  PROVE  WaysFollow'
<1> SUFFICES ASSUME NEW n \in Masters PROVE WayOf(n)'
  BY DEF WaysFollow
<1>1. WayOf(n) /\ WayOf(m) /\ Ram' = Ram
  BY DEF WaysFollow, Ram
<1>2. /\ half' = half
      /\ way'[n].state = way[n].state /\ way'[n].line = way[n].line
      /\ n # m => op'[n] = op[n] /\ way'[n] = way[n] /\ req'[n] = req[n] /\ pend'[n] = pend[n]
      /\ op[n] # None => op'[n] = op[n] /\ way'[n] = way[n]
      /\ op[n] = None /\ op'[n] # None =>
         /\ op'[n].at = "miss"
         /\ op'[n].upgr => ~op'[n].evict /\ op'[n].write /\ way[n].state = "S" /\ way[n].line = op'[n].line
         /\ op'[n].evict <=> way[n].state = "M"
         /\ op'[n].write => op'[n].line \in Ram
         /\ ~op'[n].upgr => ~Holds(n, op'[n].line)
  BY CacheSays
<1>3. op'[n] # None =>
       /\ op'[n].write => op'[n].line \in Ram
       /\ op'[n].upgr => /\ op'[n].write /\ ~op'[n].evict /\ op'[n].at = "miss"
                         /\ way'[n].line = op'[n].line /\ way'[n].state = "S"
       /\ op'[n].evict => /\ op'[n].at = "miss" /\ way'[n].line \in Ram /\ way'[n].line # op'[n].line
                          /\ half' = 0 /\ pend'[n] = None => way'[n].state = "M"
       /\ op'[n].at = "miss" /\ ~op'[n].upgr => ~(way'[n].state # "I" /\ way'[n].line = op'[n].line)
       /\ op'[n].at = "bank" => /\ way'[n].line = op'[n].line
                                /\ op'[n].write => way'[n].state = "M"
  <2>1. CASE op[n] = None
    <3>1. way[n].state = "M" => way[n].line \in Ram
      BY <1>1 DEF WayOf
    <3> QED
      BY <1>2, <2>1, <3>1 DEF Holds
  <2>2. CASE op[n] # None
    <3>1. pend'[n] = None => pend[n] = None
      <4>1. CASE Start(m)
        BY <1>2, <4>1 DEF Start
      <4>2. CASE Schedule(m)
        BY <1>2, <4>2, ScheduleSays
      <4>3. CASE Ready(m)
        BY <4>3 DEF Ready
      <4> QED
        BY <4>1, <4>2, <4>3
    <3>2. op'[n] = op[n] /\ way'[n] = way[n]
      BY <1>2, <2>2
    <3> QED
      BY <1>1, <1>2, <2>2, <3>1, <3>2 DEF WayOf, Holds
  <2> QED
    BY <2>1, <2>2
<1>4. req'[n] # None => /\ req'[n].cmd = "Flush" => req'[n].line = way'[n].line /\ req'[n].data = way'[n].data
                        /\ req'[n].at # "data" => req'[n].left = 0
  <2>1. CASE n # m
    BY <1>1, <1>2, <2>1 DEF WayOf
  <2>2. CASE n = m /\ Start(m)
    BY <2>2 DEF Start, RequestsFollow, RequestOf, Asking
  <2>3. CASE n = m /\ Schedule(m)
    BY <1>2, <2>3, ScheduleSays
  <2>4. CASE n = m /\ Ready(m)
    <3>1. way' = way /\ req[m] # None
      BY <2>4 DEF Ready
    <3> QED
      BY <1>1, <2>4, <3>1, ReadySent DEF WayOf
  <2> QED
    BY <2>1, <2>2, <2>3, <2>4
<1>5. way'[n].state = "M" => way'[n].line \in Ram
  BY <1>1, <1>2 DEF WayOf
<1> QED
  BY <1>1, <1>3, <1>4, <1>5 DEF WayOf, Holds

\* Nothing is on its way that was not.
LEMMA CacheSent ==
  ASSUME MemTypes, RequestsFollow, WaysFollow, SentOnce, NEW m \in Masters, Start(m) \/ Schedule(m) \/ Ready(m)
  PROVE  SentOnce'
<1>1. /\ UNCHANGED <<snoop, rtag, bus, half, nack, dnack, dcmd>>
      /\ \A n \in Masters : (Sent(n)' <=> Sent(n)) /\ (Sent(n) => req'[n] = req[n])
  BY CacheSays
<1>2. \A n \in Masters : Sent(n) => (Its(n)' <=> Its(n))
  BY <1>1 DEF Its
<1>3. \A n \in Masters : SnoopSent(n)' <=> SnoopSent(n)
  BY <1>1 DEF SnoopSent
<1>4. Ram' = Ram /\ (\A S : OnBus(S)' <=> OnBus(S))
  BY <1>1 DEF Ram, OnBus
<1> QED
  BY <1>1, <1>2, <1>3, <1>4 DEF SentOnce, OnBus

\* What is under way stays, and who waits for it.
LEMMA CacheFlows ==
  ASSUME MemTypes, RequestsFollow, WaysFollow, NEW m \in Masters, Start(m) \/ Schedule(m) \/ Ready(m), NEW l \in Ram
  PROVE  /\ CtlHas(l)' <=> CtlHas(l)
         /\ LibHas(l)' = LibHas(l) /\ ReadsHave(l)' = ReadsHave(l) /\ FlushHas(l)' = FlushHas(l)
         /\ (FillHas(l)' <=> FillHas(l)) /\ (GivenHas(l)' <=> GivenHas(l)) /\ (RoundHas(l)' <=> RoundHas(l))
         /\ (DramHas(l)' <=> DramHas(l)) /\ (Under(l)' <=> Under(l))
         /\ WritesOf(l)' = WritesOf(l) /\ RamLine(l)' = RamLine(l)
         /\ \A n \in Masters : Holds(n, l)' <=> Holds(n, l)
         /\ OneOf(l) => OneOf(l)'
<1>1. /\ UNCHANGED <<snoop, rtag, bus, half, nack, dnack, dcmd, memory, read_queue, write_queue, transactions>>
      /\ \A n \in Masters : way'[n].state = way[n].state /\ way'[n].line = way[n].line
      /\ \A n \in Masters : op[n] # None => op'[n] = op[n]
      /\ \A n \in Masters : (Sent(n)' <=> Sent(n)) /\ (Sent(n) => req'[n] = req[n])
      /\ \A n \in Masters : (Awaiting(n)' <=> Awaiting(n)) /\ (Awaiting(n) => pend'[n] = pend[n])
  BY CacheSays
<1>2. CtlHas(l)' <=> CtlHas(l)
  BY <1>1 DEF CtlHas
<1>3. LibHas(l)' = LibHas(l) /\ ReadsHave(l)' = ReadsHave(l) /\ FlushHas(l)' = FlushHas(l) /\ WritesOf(l)' = WritesOf(l)
  BY <1>1 DEF LibHas, ReadsHave, FlushHas, SnoopSent, WritesOf
<1>4. (FillHas(l)' <=> FillHas(l)) /\ (GivenHas(l)' <=> GivenHas(l))
  BY <1>1 DEF FillHas, GivenHas, OnBus, SnoopSent
<1>5. RamLine(l)' = RamLine(l)
  BY <1>1 DEF RamLine
<1>6. \A n \in Masters : Holds(n, l)' <=> Holds(n, l)
  BY <1>1 DEF Holds
<1>7. (RoundHas(l)' <=> RoundHas(l)) /\ (DramHas(l)' <=> DramHas(l)) /\ (Under(l)' <=> Under(l))
  BY <1>2, <1>3, <1>4 DEF RoundHas, DramHas, Under
<1>8. ASSUME OneOf(l) PROVE OneOf(l)'
  <2>1. OneFor(l)'
    BY <1>2, <1>3, <1>7, <1>8 DEF OneOf, OneFor
  <2>2. ASSUME NEW t PROVE (WaitsFor(t, l) => WaitsFor(t, l)') /\ (SoonWaits(t, l) => SoonWaits(t, l)')
                           /\ (Due(t, l) => op'[t[1]] = op[t[1]])
    BY <1>1 DEF WaitsFor, SoonWaits, Due
  <2>3. Expected(l)
    BY <1>8 DEF OneOf
  <2>4. CtlHas(l)' => \/ WaitsFor(dcmd.tag, l)'
                      \/ SoonWaits(dcmd.tag, l)' /\ half' = 1 /\ ~nack' /\ ~dnack'
    BY <1>1, <1>2, <2>2, <2>3 DEF Expected
  <2>5. \A n \in FlushHas(l)' :
       \/ WaitsFor(snoop[n].tag, l)'
       \/ /\ SoonWaits(snoop[n].tag, l)'
          /\ IF half' = 1 THEN SnoopReady(n) => ~nack' /\ ~dnack' ELSE ~SnoopReady(n) /\ ~OnBus(Requests)
    BY <1>1, <1>3, <2>2, <2>3 DEF Expected
  <2>6. Expected(l)'
    <3>1. \A i \in LibHas(l)' : WaitsFor(transactions[i].tag, l)'
      BY <1>1, <1>3, <2>2, <2>3 DEF Expected
    <3>2. \A i \in ReadsHave(l)' : WaitsFor(read_queue[i].tag, l)'
      BY <1>1, <1>3, <2>2, <2>3 DEF Expected
    <3>3. RoundHas(l)' => WaitsFor(bus.tag, l)'
      BY <1>1, <1>7, <2>2, <2>3 DEF Expected
    <3> QED
      BY <1>1, <2>4, <2>5, <3>1, <3>2, <3>3 DEF Expected, WaitsFor, SoonWaits, Due, SnoopReady, OnBus
  <2>7. Held(l)'
    <3>1. \A n \in FlushHas(l) : Due(snoop[n].tag, l)
      BY <2>3 DEF Expected, WaitsFor, SoonWaits
    <3>2. RoundHas(l) => Due(bus.tag, l)
      BY <2>3 DEF Expected, WaitsFor
    <3>3. Held(l) /\ FlushHas(l) \subseteq Masters
      BY <1>8 DEF OneOf, FlushHas
    <3>4. DramHas(l)' \/ FillHas(l)' => \A n \in Masters : ~Holds(n, l)'
      BY <1>4, <1>6, <1>7, <3>3 DEF Held
    <3>5. \A n \in FlushHas(l)' : Holds(n, l)' => way'[n].state = "S" /\ ~op'[snoop'[n].tag[1]].write
      BY <1>1, <1>3, <1>6, <2>2, <3>1, <3>3 DEF Held
    <3>6. \A n \in Masters : GivenHas(l)' /\ SnoopSent(n)' /\ Holds(n, l)' =>
             way'[n].state = "S" /\ ~op'[bus'.tag[1]].write
      BY <1>1, <1>4, <1>6, <2>2, <3>2, <3>3 DEF Held, SnoopSent, RoundHas
    <3> QED
      BY <3>4, <3>5, <3>6 DEF Held
  <2> QED
    BY <2>1, <2>6, <2>7 DEF OneOf
<1> QED
  BY <1>2, <1>3, <1>4, <1>5, <1>6, <1>7, <1>8

\* Nothing is under way for a line that may be written.
LEMMA NoneUnderWay ==
  ASSUME RoundIsOf, WaysFollow, Exclusive, NEW l \in Ram, OneOf(l),
         NEW m \in Masters, Holds(m, l), way[m].state = "M"
  PROVE  ~Under(l) /\ \A n \in Masters : n # m => ~Holds(n, l)
<1>1. \A n \in Masters : n # m => ~Holds(n, l)
  BY DEF Exclusive, Holds
<1>2. ~DramHas(l) /\ ~FillHas(l) /\ m \notin FlushHas(l) /\ ~(GivenHas(l) /\ SnoopSent(m))
  BY DEF OneOf, Held
<1>3. ASSUME NEW t, Due(t, l) PROVE t[1] # m
  <2>1. WayOf(m)
    BY DEF WaysFollow
  <2> QED
    BY <1>3, <2>1 DEF Due, WayOf, Holds
<1>4. FlushHas(l) = {}
  <2> SUFFICES ASSUME NEW n \in FlushHas(l) PROVE FALSE
    OBVIOUS
  <2>1. n \in Masters /\ n # m /\ snoop[n] # None
    BY <1>2 DEF FlushHas
  <2>2. snoop[n].tag[1] # n /\ Due(snoop[n].tag, l)
    BY <2>1 DEF RoundIsOf, OneOf, Expected, WaitsFor, SoonWaits
  <2>3. snoop[n].tag[1] \in Masters /\ snoop[n].tag[1] # m
    BY <1>3, <2>2 DEF Due
  <2> QED
    BY <2>1, <2>2, <2>3, TwoMasters
<1>5. ~GivenHas(l)
  <2> SUFFICES ASSUME GivenHas(l) PROVE FALSE
    OBVIOUS
  <2>1. PICK n \in Masters : SnoopSent(n)
    BY DEF GivenHas
  <2>2. n # m /\ bus.tag = snoop[n].tag /\ snoop[n] # None
    BY <1>2, <2>1 DEF RoundIsOf, SnoopSent
  <2>3. bus.tag[1] # n /\ Due(bus.tag, l)
    BY <2>2 DEF RoundIsOf, OneOf, Expected, WaitsFor, RoundHas
  <2>4. bus.tag[1] \in Masters /\ bus.tag[1] # m
    BY <1>3, <2>3 DEF Due
  <2> QED
    BY <2>2, <2>3, <2>4, TwoMasters
<1> QED
  BY <1>1, <1>2, <1>4, <1>5 DEF Under, RoundHas

\* Only a line of ram is upgraded.
LEMMA UpgradesRam ==
  ASSUME RequestsFollow, WaysFollow, NEW m \in Masters, req[m] # None, req[m].cmd = "BusUpgr"
  PROVE  op[m] # None /\ op[m].upgr /\ ~op[m].evict /\ op[m].at = "miss" /\ op[m].line \in Ram /\ req[m].line = op[m].line
         /\ pend[m] # None /\ pend[m].cmd = "BusUpgr"
         /\ op[m].write /\ way[m].line = op[m].line /\ way[m].state = "S"
<1>1. RequestOf(m) /\ WayOf(m)
  BY DEF RequestsFollow, WaysFollow
<1>2. Asking(m) /\ pend[m] # None /\ pend[m].cmd = "BusUpgr" /\ req[m].line = op[m].line
  BY <1>1 DEF RequestOf, Asking
<1>3. op[m] # None /\ Command(op[m]) = "BusUpgr"
  BY <1>1, <1>2 DEF RequestOf
<1>4. op[m].upgr /\ ~op[m].evict
  BY <1>3 DEF Command
<1> QED
  BY <1>1, <1>2, <1>3, <1>4 DEF WayOf

\* A cache that goes on takes no line, and what it writes back it still has.
LEMMA CacheExclusive ==
  ASSUME MemTypes, RequestsFollow, WaysFollow, Exclusive, NEW m \in Masters, Start(m) \/ Schedule(m) \/ Ready(m)
  PROVE  Exclusive'
<1>1. /\ UNCHANGED <<half, nack, dnack>>
      /\ \A n \in Masters : way'[n].state = way[n].state /\ way'[n].line = way[n].line
      /\ \A n \in Masters : op[n] # None => op'[n] = op[n]
      /\ \A n \in Masters : (Sent(n)' <=> Sent(n)) /\ (Sent(n) => req'[n] = req[n])
  BY CacheSays
<1>2. ASSUME NEW n \in Masters, half' = 1, ~nack', ~dnack', Sent(n)', req'[n].cmd = "BusUpgr"
      PROVE  ~Under(op[n].line)' /\ op'[n] = op[n] /\ \A x \in Masters \ {n} : ~Holds(x, op[n].line)
  <2>1. half = 1 /\ ~nack /\ ~dnack /\ Sent(n) /\ req[n].cmd = "BusUpgr"
    BY <1>1, <1>2
  <2>2. op[n] # None /\ op[n].line \in Ram
    BY <2>1, UpgradesRam DEF Sent
  <2>3. PICK l : l = op[n].line
    OBVIOUS
  <2>4. Under(l)' <=> Under(l)
    BY <2>2, <2>3, CacheFlows
  <2>5. op'[n] = op[n] /\ l = op'[n].line
    BY <1>1, <2>2, <2>3
  <2>6. ~Under(l)
    BY <2>1, <2>3 DEF Exclusive
  <2>7. ~Under(l)'
    BY <2>4, <2>6
  <2> QED
    BY <2>1, <2>3, <2>5, <2>7 DEF Exclusive
<1> QED
  BY <1>1, <1>2 DEF Exclusive, Holds

\* A hit that writes.
LEMMA CacheStores ==
  ASSUME MemTypes, RequestsFollow, RoundIsOf, WaysFollow, Exclusive, \A l \in Ram : OneOf(l), DataIsLatest,
         NEW m \in Masters, Start(m) \/ Schedule(m) \/ Ready(m)
  PROVE  \/ latest' = latest /\ way' = way
         \/ /\ way[m].state = "M" /\ way[m].line \in Ram
            /\ ~Under(way[m].line) /\ (\A n \in Masters : n # m => ~Holds(n, way[m].line))
            /\ way'[m].data = Content(latest'[way[m].line])
            /\ \A n \in Masters : n # m => way'[n] = way[n]
            /\ \A l \in Lines : l # way[m].line => latest'[l] = latest[l]
<1>1. \/ latest' = latest /\ way' = way
      \/ /\ way[m].state = "M" /\ way[m].line \in Ram
         /\ latest' = [latest EXCEPT ![way[m].line] = @ + 1]
         /\ way' = [way EXCEPT ![m].data = Stored(m, way[m].line)]
  BY CacheSays
<1>2. CASE /\ way[m].state = "M" /\ way[m].line \in Ram
           /\ latest' = [latest EXCEPT ![way[m].line] = @ + 1]
           /\ way' = [way EXCEPT ![m].data = Stored(m, way[m].line)]
  <2>1. way[m].line \in Lines /\ way[m].data = Content(latest[way[m].line])
    BY <1>2, LinesOfRam DEF DataIsLatest, Latest
  <2>2. Stored(m, way[m].line) = Content(latest[way[m].line] + 1)
    BY <2>1 DEF Stored
  <2>3. latest'[way[m].line] = latest[way[m].line] + 1 /\ \A l \in Lines : l # way[m].line => latest'[l] = latest[l]
    BY <1>2, <2>1 DEF MemTypes
  <2>4. way'[m].data = Stored(m, way[m].line) /\ \A n \in Masters : n # m => way'[n] = way[n]
    BY <1>2 DEF MemTypes
  <2>5. Holds(m, way[m].line)
    BY <1>2 DEF Holds
  <2>6. ~Under(way[m].line) /\ \A n \in Masters : n # m => ~Holds(n, way[m].line)
    BY <1>2, <2>5, NoneUnderWay
  <2> QED
    BY <1>2, <2>2, <2>3, <2>4, <2>6
<1> QED
  BY <1>1, <1>2

\* What is under way of a line, by place.
LEMMA WhatIsUnder ==
  ASSUME RoundIsOf, NEW l, ~Under(l)
  PROVE  /\ \A n \in Masters : snoop[n] # None /\ (half = 0 \/ ~SnoopSent(n)) => snoop[n].line # l
         /\ half = 0 /\ OnBus({"Fill"}) => bus.line # l
         /\ ReadsHave(l) = {} /\ LibHas(l) = {} /\ ~CtlHas(l) /\ FlushHas(l) = {} /\ ~GivenHas(l)
<1>1. ~FillHas(l) /\ ~GivenHas(l) /\ FlushHas(l) = {} /\ ~CtlHas(l) /\ LibHas(l) = {} /\ ReadsHave(l) = {}
  BY DEF Under, RoundHas, DramHas
<1>2. ASSUME NEW n \in Masters, snoop[n] # None, half = 0 \/ ~SnoopSent(n), snoop[n].line = l PROVE FALSE
  <2>1. SnoopSent(n) /\ half = 0
    BY <1>1, <1>2 DEF FlushHas
  <2>2. bus # None /\ bus.line = l
    BY <1>2, <2>1 DEF RoundIsOf, OnBus
  <2> QED
    BY <1>1, <2>1, <2>2 DEF GivenHas
<1> QED
  BY <1>1, <1>2 DEF FillHas

\* The lines of ram and those of rom are apart.
LEMMA RamAndRom == /\ \A l \in Ram : l \in Lines /\ l \notin Rom
                   /\ \A l \in Rom : l \in Lines /\ l \notin Ram
BY DramAssumption, MemAssumption DEF Ram, Rom, Lines

\* No line of a cache changes but by a store to a line that it alone has.
LEMMA CacheData ==
  ASSUME MemTypes, RequestsFollow, RoundIsOf, WaysFollow, Exclusive, \A l \in Ram : OneOf(l), DataIsLatest,
         NEW m \in Masters, Start(m) \/ Schedule(m) \/ Ready(m)
  PROVE  DataIsLatest'
<1>1. /\ UNCHANGED <<snoop, bus, half, read_queue>>
      /\ \A n \in Masters : way'[n].state = way[n].state /\ way'[n].line = way[n].line
  BY CacheSays
<1>2. (\A n \in Masters : SnoopSent(n)' <=> SnoopSent(n)) /\ (OnBus({"Fill"})' <=> OnBus({"Fill"})) /\ Rom' = Rom
      /\ Ram' = Ram
  BY <1>1 DEF SnoopSent, OnBus, Rom, Ram
<1>a. \A l \in Ram : ReadsHave(l)' = ReadsHave(l)
  BY CacheFlows
<1>3. CASE latest' = latest /\ way' = way
  BY <1>1, <1>2, <1>a, <1>3 DEF DataIsLatest, Latest
<1>4. CASE /\ way[m].state = "M" /\ way[m].line \in Ram
           /\ ~Under(way[m].line) /\ (\A n \in Masters : n # m => ~Holds(n, way[m].line))
           /\ way'[m].data = Content(latest'[way[m].line])
           /\ \A n \in Masters : n # m => way'[n] = way[n]
           /\ \A l \in Lines : l # way[m].line => latest'[l] = latest[l]
  <2> DEFINE s == way[m].line
  <2>1. /\ \A n \in Masters : snoop[n] # None /\ (half = 0 \/ ~SnoopSent(n)) => snoop[n].line # s
        /\ half = 0 /\ OnBus({"Fill"}) => bus.line # s
        /\ ReadsHave(s) = {}
    BY <1>4, WhatIsUnder
  <2>2. \A l \in Lines : l # s => Latest(l)' = Latest(l)
    BY <1>4 DEF Latest
  <2>3. \A l \in Rom : latest'[l] = 0
    BY <1>4, RamAndRom DEF DataIsLatest
  <2>4. ASSUME NEW n \in Masters, way'[n].state # "I" PROVE way'[n].data = Content(latest'[way'[n].line])
    <3>1. CASE n = m
      BY <1>1, <1>4, <3>1 DEF Latest
    <3>2. CASE n # m
      <4>1. way[n].line # s /\ way[n].line \in Lines /\ way[n].data = Latest(way[n].line)
        BY <1>1, <1>4, <2>4, <3>2 DEF Holds, DataIsLatest, MemTypes
      <4> QED
        BY <1>4, <3>2, <4>1 DEF Latest
    <3> QED
      BY <3>1, <3>2
  <2>5. ASSUME NEW n \in Masters, snoop[n] # None, half = 0 \/ ~SnoopSent(n)
        PROVE  snoop[n].data = Content(latest'[snoop[n].line])
    <3>1. snoop[n].line \in Lines /\ snoop[n].line # s
      BY <2>1, <2>5 DEF MemTypes, Flushes
    <3>2. snoop[n].data = Content(latest[snoop[n].line])
      BY <2>5 DEF DataIsLatest, Latest
    <3> QED
      BY <1>4, <3>1, <3>2
  <2>6. ASSUME half = 0, OnBus({"Fill"}) PROVE bus.data = Content(latest'[bus.line])
    <3>1. bus.line \in Lines /\ bus.line # s
      BY <2>1, <2>6 DEF MemTypes, Rounds, OnBus
    <3>2. bus.data = Content(latest[bus.line])
      BY <2>6 DEF DataIsLatest, Latest
    <3> QED
      BY <1>4, <3>1, <3>2
  <2>7. ASSUME NEW l \in Ram, NEW i \in ReadsHave(l) PROVE read_queue[i].line = Packed(Content(latest'[l]))
    <3>1. l # s /\ l \in Lines
      BY <2>1, RamAndRom
    <3>2. read_queue[i].line = Packed(Content(latest[l]))
      BY DEF DataIsLatest, Latest
    <3> QED
      BY <1>4, <3>1, <3>2
  <2> QED
    BY <1>1, <1>2, <1>a, <2>3, <2>4, <2>5, <2>6, <2>7 DEF DataIsLatest, Latest
<1> QED
  BY <1>3, <1>4, CacheStores

\* The library does not see it.
LEMMA CacheLibrary ==
  ASSUME MemTypes, RequestsFollow, WaysFollow, Library, NEW m \in Masters, Start(m) \/ Schedule(m) \/ Ready(m)
  PROVE  Library'
<1>1. UNCHANGED <<dcmd, transactions, write_queue>>
  BY CacheSays
<1>2. /\ (\A l : LibHas(l)' = LibHas(l) /\ WritesOf(l)' = WritesOf(l)) /\ TagsOfWrites' = TagsOfWrites /\ Ram' = Ram
  BY <1>1 DEF LibHas, WritesOf, TagsOfWrites, Ram
<1> QED
  BY <1>1, <1>2 DEF Library

\* A line that is written is with the cache that writes it.
LEMMA CacheMemory ==
  ASSUME MemTypes, RequestsFollow, RoundIsOf, WaysFollow, Exclusive, \A l \in Ram : OneOf(l), DataIsLatest,
         MemoryFollows, NEW m \in Masters, Start(m) \/ Schedule(m) \/ Ready(m)
  PROVE  MemoryFollows'
<1>1. /\ \A n \in Masters : way'[n].state = way[n].state /\ way'[n].line = way[n].line
      /\ \A n \in Masters : op[n] # None => op'[n] = op[n]
      /\ \A n \in Masters : op[n] = None /\ op'[n] # None =>
         /\ op'[n].at = "miss" /\ op'[n].evict \in BOOLEAN /\ op'[n].upgr \in BOOLEAN
         /\ op'[n].evict <=> way[n].state = "M"
  BY CacheSays
<1>2. Ram' = Ram
  BY DEF Ram
<1>3. \A n \in Masters : Cleaned(n)' => Cleaned(n)
  BY <1>1 DEF Cleaned
<1>4. \A l \in Ram : /\ CtlHas(l)' <=> CtlHas(l)
                     /\ LibHas(l)' = LibHas(l) /\ FlushHas(l)' = FlushHas(l) /\ (GivenHas(l)' <=> GivenHas(l))
                     /\ RamLine(l)' = RamLine(l)
                     /\ \A n \in Masters : Holds(n, l)' <=> Holds(n, l)
  BY CacheFlows
<1>5. ASSUME NEW l \in Ram, latest'[l] = latest[l] PROVE MemoryIsLatest(l)' <=> MemoryIsLatest(l)
  BY <1>4, <1>5 DEF MemoryIsLatest, Latest
<1>6. ASSUME \A l \in Ram : latest'[l] = latest[l] PROVE MemoryFollows'
  <2>1. \A l \in Ram : MemoryIsLatest(l)' <=> MemoryIsLatest(l)
    BY <1>5, <1>6
  <2>2. \A n \in Masters : Cleaned(n) => way[n].line \in Ram
    BY DEF Cleaned, WaysFollow, WayOf
  <2>3. \A n \in Masters : Cleaned(n)' => MemoryIsLatest(way[n].line)'
    BY <1>1, <1>3, <2>1, <2>2 DEF MemoryFollows, MemoryIsLatest, Latest
  <2> QED
    BY <1>1, <1>2, <1>4, <2>1, <2>3 DEF MemoryFollows
<1>7. ASSUME way[m].state = "M", way[m].line \in Ram, ~Under(way[m].line),
             \A n \in Masters : n # m => ~Holds(n, way[m].line),
             \A l \in Lines : l # way[m].line => latest'[l] = latest[l], op[m] = None \/ latest' = latest
      PROVE MemoryFollows'
  <2>1. CASE latest' = latest
    BY <1>6, <2>1
  <2>2. CASE latest' # latest
    <3> DEFINE s == way[m].line
    <3>1. \A l \in Ram : l # s => (MemoryIsLatest(l)' <=> MemoryIsLatest(l))
      BY <1>5, <1>7, RamAndRom
    <3>2. ~CtlHas(s) /\ LibHas(s) = {}
      BY <1>7, WhatIsUnder
    <3>3. ~Cleaned(m) /\ \A n \in Masters : Cleaned(n) => way[n].line \in Ram /\ way[n].line # s
      BY <1>7, <2>2 DEF Cleaned, WaysFollow, WayOf, Holds
    <3>4. \A n \in Masters : Cleaned(n)' => MemoryIsLatest(way[n].line)'
      BY <1>1, <1>3, <3>1, <3>3 DEF MemoryFollows, MemoryIsLatest, Latest
    <3>5. \A l \in Ram : CtlHas(l)' \/ LibHas(l)' # {} => MemoryIsLatest(l)'
      BY <1>4, <1>7, <3>1, <3>2 DEF MemoryFollows
    <3>6. Holds(m, s)' /\ way'[m].state = "M"
      BY <1>1, <1>7 DEF Holds
    <3>7. \A l \in Ram : \/ \E n \in Masters : Holds(n, l)' /\ way'[n].state = "M"
                         \/ FlushHas(l)' # {} \/ GivenHas(l)'
                         \/ MemoryIsLatest(l)'
      <4> SUFFICES ASSUME NEW l \in Ram, l # s
                   PROVE  \/ \E n \in Masters : Holds(n, l)' /\ way'[n].state = "M"
                          \/ FlushHas(l)' # {} \/ GivenHas(l)'
                          \/ MemoryIsLatest(l)'
        BY <1>1, <3>6
      <4> QED
        BY <1>1, <1>4, <3>1 DEF MemoryFollows
    <3> QED
      BY <1>1, <1>2, <3>4, <3>5, <3>7 DEF MemoryFollows
  <2> QED
    BY <2>1, <2>2
<1>8. \/ latest' = latest /\ way' = way
      \/ /\ op[m] = None /\ op' = op /\ pend' = pend /\ req' = req /\ way[m].state = "M" /\ way[m].line \in Ram
         /\ latest' = [latest EXCEPT ![way[m].line] = @ + 1]
         /\ way' = [way EXCEPT ![m].data = Stored(m, way[m].line)]
  BY CacheSays
<1> QED
  BY <1>6, <1>7, <1>8, CacheStores

\* Nor does rom.
LEMMA CacheRom ==
  ASSUME MemTypes, RequestsFollow, WaysFollow, RomAnswers, NEW m \in Masters, Start(m) \/ Schedule(m) \/ Ready(m)
  PROVE  RomAnswers'
<1>1. /\ UNCHANGED <<snoop, rtag, bus, turn, half, rcmd>>
      /\ \A n \in Masters : op[n] # None => op'[n] = op[n]
      /\ \A n \in Masters : (Sent(n)' <=> Sent(n)) /\ (Sent(n) => req'[n] = req[n])
      /\ \A n \in Masters : (Awaiting(n)' <=> Awaiting(n)) /\ (Awaiting(n) => pend'[n] = pend[n])
  BY CacheSays
<1>2. \A n \in Masters : (Sent(n) \/ Awaiting(n) => op'[n] = op[n]) /\ (Again(n) => Again(n)') /\ (Evicts(n)' <=> Evicts(n))
  <2> SUFFICES ASSUME NEW n \in Masters
               PROVE  (Sent(n) \/ Awaiting(n) => op'[n] = op[n]) /\ (Again(n) => Again(n)') /\ (Evicts(n)' <=> Evicts(n))
    OBVIOUS
  <2>1. Sent(n) \/ Awaiting(n) => op[n] # None
    BY DEF RequestsFollow, RequestOf, Sent, Asking, Awaiting
  <2> QED
    BY <1>1, <2>1 DEF Again, Evicts
<1>3. ASSUME NEW t, NEW l, t[1] \in Masters
      PROVE  (WantsThis(t, l)' <=> WantsThis(t, l)) /\ (AsksThis(t, l)' <=> AsksThis(t, l))
  BY <1>1, <1>2, <1>3 DEF WantsThis, AsksThis
<1>4. /\ rcmd # None => rcmd.tag[1] \in Masters
      /\ bus # None => bus.tag[1] \in Masters
      /\ \A n \in Masters : snoop[n] # None => snoop[n].tag[1] \in Masters
  BY DEF MemTypes, RomReads, Rounds, Flushes, Tags
<1>5. (\A n \in Masters : (SnoopSent(n)' <=> SnoopSent(n)) /\ (SnoopReady(n)' <=> SnoopReady(n))) /\ Rom' = Rom
  BY <1>1 DEF SnoopSent, SnoopReady, Rom
<1>6. rcmd' # None => rcmd'.line \in Rom /\ WantsThis(rcmd.tag, rcmd.line)' /\ AsksThis(rcmd.tag, rcmd.line)'
  BY <1>1, <1>2, <1>4 DEF RomAnswers, WantsThis, AsksThis
<1>7. half' = 0 /\ bus' # None /\ bus'.line \in Rom /\ (bus'.cmd = "Fill" \/ \E n \in Masters : SnoopSent(n)') =>
        WantsThis(bus.tag, bus.line)'
  BY <1>1, <1>2, <1>4, <1>5 DEF RomAnswers, WantsThis
<1>8. ASSUME NEW n \in Masters, snoop[n] # None, RomFlush(n) PROVE RomFlush(n)'
  <2> DEFINE x == snoop[n].tag[1]
             k == snoop[n].tag[2]
  <2>1. x \in Masters /\ snoop' = snoop /\ half' = half /\ turn' = turn
    BY <1>1, <1>4, <1>8
  <2>2. \A y, z : Lag(y, z)' = Lag(y, z)
    BY <1>1 DEF Lag
  <2>3. Lag(x, k) = 0 /\ Sent(x) /\ req[x].cmd \in Reads /\ op[x].line = snoop[n].line => RomFlush(n)'
    BY <1>1, <1>2, <2>1, <2>2 DEF RomFlush
  <2>4. Lag(x, k) = 1 /\ Awaiting(x) /\ op[x].line = snoop[n].line => RomFlush(n)'
    BY <1>1, <1>2, <2>1, <2>2 DEF RomFlush
  <2>5. LeftInFlush(x, k) => LeftInFlush(x, k)'
    BY <1>1, <1>2, <2>1, <2>2 DEF LeftInFlush
  <2>6. LeftInFlush(x, k) /\ (half = 1 => SnoopReady(n)) => RomFlush(n)'
    BY <1>5, <2>1, <2>5 DEF RomFlush
  <2> QED
    BY <1>8, <2>3, <2>4, <2>6 DEF RomFlush
<1>9. \A n \in Masters : snoop'[n] # None /\ ~SnoopSent(n)' /\ snoop'[n].line \in Rom => RomFlush(n)'
  BY <1>1, <1>5, <1>8 DEF RomAnswers
<1> QED
  BY <1>5, <1>6, <1>7, <1>9 DEF RomAnswers

\* A cache that has given away the line it evicts is as far with its flush as before, or further.
LEMMA CacheFlushes ==
  ASSUME MemTypes, RequestsFollow, WaysFollow, FlushesFirst, NEW x \in Masters, Start(x) \/ Schedule(x) \/ Ready(x)
  PROVE  FlushesFirst'
<1>1. /\ UNCHANGED <<snoop, bus, half, nack, dcmd, rcmd, read_queue, transactions>>
      /\ \A n \in Masters : way'[n].state = way[n].state /\ way'[n].line = way[n].line
      /\ \A n \in Masters : n # x => op'[n] = op[n] /\ req'[n] = req[n] /\ pend'[n] = pend[n]
      /\ \A n \in Masters : op[n] # None => op'[n] = op[n]
      /\ \A n \in Masters : op[n] = None /\ op'[n] # None => op'[n].at = "miss" /\ (op'[n].evict <=> way[n].state = "M")
                              /\ req[n] = None /\ req'[n] = None
      /\ \A n \in Masters : (Sent(n)' <=> Sent(n))
  BY CacheSays
<1>2. (NoReads' <=> NoReads) /\ (\A S : OnBus(S)' <=> OnBus(S))
      /\ \A n \in Masters : (SnoopReady(n)' <=> SnoopReady(n)) /\ (SnoopSent(n)' <=> SnoopSent(n))
  BY <1>1 DEF NoReads, OnBus, SnoopReady, SnoopSent
<1> SUFFICES ASSUME NEW m \in Masters, Overtaken(m)', ~(half = 1 /\ nack /\ OnBus({"BusUpgr"})),
                    NEW n \in Masters \ {m}
             PROVE  snoop[n] = None /\ NoReads /\ (Handing(m, n)' \/ Handed(m, n)')
  BY <1>1, <1>2 DEF FlushesFirst
<1>3. Overtaken(m) /\ op[m] # None /\ op[m].evict
  BY <1>1 DEF Overtaken
<1>4. snoop[n] = None /\ NoReads /\ (Handing(m, n) \/ Handed(m, n))
  BY <1>3 DEF FlushesFirst
<1>5. \A y \in Masters : \/ req'[y] = req[y]
                         \/ /\ y = x /\ op[y] # None /\ pend[y] = None /\ req[y] = None /\ req'[y] # None
                            /\ req'[y].at = "data" /\ req'[y].left = Burst
                         \/ /\ y = x /\ req[y] # None /\ req[y] \in Sending /\ req[y].at = "data" /\ (req[y].cmd = "Flush" => req[y].left <= 1)
                            /\ req'[y] # None /\ req'[y].at = "ready" /\ req'[y].left = 0
  <2>1. CASE Start(x)
    BY <2>1 DEF Start
  <2>2. CASE Schedule(x)
    BY <1>1, <2>2, ScheduleSays
  <2>3. CASE Ready(x)
    <3>1. req[x] # None
      BY <2>3 DEF Ready
    <3> QED
      BY <2>3, <3>1, ReadySent
  <2> QED
    BY <2>1, <2>2, <2>3
<1>6. CASE Handing(m, n)
  <2>1. req'[m] # None /\ req[m] = None => req'[m].left <= 2
    <3> SUFFICES ASSUME req'[m] # None, req[m] = None PROVE req'[m].left <= 2
      OBVIOUS
    <3>1. pend[m] = None /\ req'[m].left = Burst
      BY <1>5
    <3>2. half # 0
      BY <1>3, <3>1 DEF Overtaken, WaysFollow, WayOf
    <3> QED
      BY <3>1, <3>2 DEF Burst
  <2>2. req[m] # None => req'[m] # None /\ req[m].left \in Nat /\ (req'[m].left = req[m].left \/ req'[m].left = 0)
    BY <1>5 DEF MemTypes, Sending
  <2>3. op'[n] = op[n]
    BY <1>1, <1>6 DEF Handing
  <2>4. snoop'[m] # None /\ snoop'[m].line = way'[m].line /\ op'[n] # None /\ op'[n].write /\ op'[n].line = way'[m].line
    BY <1>1, <1>6, <2>3 DEF Handing
  <2>5. \/ snoop'[m].at = "data" /\ (req'[m] # None => req'[m].left <= 2)
        \/ SnoopReady(m)' /\ half' = 1 /\ req'[m] # None /\ req'[m].left <= 1
        \/ SnoopSent(m)' /\ half' = 0 /\ req'[m] # None /\ req'[m].left <= 1
        \/ SnoopSent(m)' /\ half' = 1 /\ req'[m] # None /\ req'[m].left = 0 /\ op'[n].at = "bank"
    <3>1. CASE snoop[m].at = "data" /\ (req[m] # None => req[m].left <= 2)
      BY <1>1, <2>1, <2>2, <3>1
    <3>2. CASE SnoopReady(m) /\ half = 1 /\ req[m] # None /\ req[m].left <= 1
      BY <1>1, <1>2, <2>2, <3>2
    <3>3. CASE SnoopSent(m) /\ half = 0 /\ req[m] # None /\ req[m].left <= 1
      BY <1>1, <1>2, <2>2, <3>3
    <3>4. CASE SnoopSent(m) /\ half = 1 /\ req[m] # None /\ req[m].left = 0 /\ op[n].at = "bank"
      BY <1>1, <1>2, <2>2, <2>3, <3>4
    <3> QED
      BY <1>6, <3>1, <3>2, <3>3, <3>4 DEF Handing
  <2> QED
    BY <1>4, <2>4, <2>5 DEF Handing
<1>7. CASE Handed(m, n)
  <2>1. req[m] # None /\ req'[m] # None /\ req'[m].left = 0
    BY <1>5, <1>7 DEF Handed
  <2>2. req[m].at # "data" => req'[m].at # "data"
    BY <1>5, <2>1
  <2>3. snoop'[m] = None /\ way'[n].state = "M" /\ way'[n].line = way'[m].line
    BY <1>1, <1>7 DEF Handed
  <2>4. CASE half = 0 /\ ~Sent(m) /\ op[n] # None /\ op[n].at = "bank"
    BY <1>1, <1>4, <2>1, <2>3, <2>4 DEF Handed
  <2>5. CASE /\ op[n] # None => op[n].at = "miss" /\ op[n].evict
             /\ (half = 1 /\ req[m].at # "data") \/ (half = 0 /\ Sent(m))
             /\ req[n] # None => /\ ~Sent(n)
                                 /\ half = 0 \/ ~Sent(m) => req[n].at = "data" /\ req[n].left >= 2
    <3>1. op'[n] # None => op'[n].at = "miss" /\ op'[n].evict
      BY <1>1, <2>3, <2>5
    <3>2. (half' = 1 /\ req'[m].at # "data") \/ (half' = 0 /\ Sent(m)')
      BY <1>1, <2>2, <2>5
    <3>3. req'[n] # None => /\ ~Sent(n)'
                            /\ half' = 0 \/ ~Sent(m)' => req'[n].at = "data" /\ req'[n].left >= 2
      <4>1. CASE req'[n] = req[n]
        BY <1>1, <2>5, <4>1
      <4>2. CASE req[n] = None /\ req'[n].at = "data" /\ req'[n].left = Burst
        BY <1>1, <4>2 DEF Burst, Sent
      <4>3. CASE req[n] # None /\ req[n] \in Sending /\ (req[n].cmd = "Flush" => req[n].left <= 1)
        <5>1. req[n].cmd = "Flush"
          <6>1. Asking(n) /\ req[n].cmd = pend[n].cmd /\ pend[n].cmd = Command(op[n]) /\ op[n] # None
            BY <4>3 DEF RequestsFollow, RequestOf, Asking
          <6> QED
            BY <2>5, <6>1 DEF Command
        <5>2. ~(half = 0 \/ ~Sent(m))
          BY <2>5, <4>3, <5>1 DEF Sending
        <5> QED
          BY <1>1, <2>5, <4>3, <5>2
      <4> QED
        BY <1>5, <4>1, <4>2, <4>3
    <3> QED
      BY <1>4, <2>1, <2>3, <3>1, <3>2, <3>3 DEF Handed
  <2> QED
    BY <1>7, <2>4, <2>5 DEF Handed
<1> QED
  BY <1>4, <1>6, <1>7

\* So the whole of it stays with the steps of one cache.
LEMMA CacheStore ==
  ASSUME MemTypes, RequestsFollow, RoundIsOf, StoreParts, NEW m \in Masters, Start(m) \/ Schedule(m) \/ Ready(m)
  PROVE  StoreParts'
<1>1. /\ WaysFollow /\ SentOnce /\ (\A l \in Ram : OneOf(l)) /\ Exclusive
      /\ DataIsLatest /\ Library /\ MemoryFollows /\ FlushesFirst /\ RomAnswers
  BY DEF StoreParts
<1>2. (\A l \in Ram : OneOf(l))'
  <2>1. Ram' = Ram
    BY DEF Ram
  <2>2. \A l \in Ram : OneOf(l)'
    BY <1>1, CacheFlows
  <2> QED
    BY <2>1, <2>2
<1> QED
  BY <1>1, <1>2, CacheWays, CacheSent, CacheExclusive, CacheData, CacheLibrary, CacheMemory, CacheFlushes, CacheRom
     DEF StoreParts

-----------------------------------------------------------------------------
(* The library ends a transaction *)

\* The library ends the command i: those behind it move up by one.
Was(i, j) == IF j < i THEN j ELSE j + 1
Ends(i) ==
  /\ i \in DOMAIN transactions
  /\ \A j \in WritesOf(transactions[i].addr \div LineBytes) : j >= i
  /\ \A j \in DOMAIN transactions' : /\ Was(i, j) \in DOMAIN transactions /\ Was(i, j) # i
                                     /\ transactions'[j] = transactions[Was(i, j)]
  /\ \A j \in DOMAIN transactions : j # i => \E k \in DOMAIN transactions' : Was(i, k) = j
  /\ transactions[i].write => read_queue' = read_queue /\ write_cb(transactions[i].tag, transactions[i].addr)
  /\ ~transactions[i].write =>
       /\ memory' = memory /\ write_queue' = write_queue
       /\ DOMAIN read_queue' = DOMAIN read_queue \cup {Len(read_queue) + 1}
       /\ \A j \in DOMAIN read_queue : read_queue'[j] = read_queue[j] /\ j # Len(read_queue) + 1
       /\ read_queue'[Len(read_queue) + 1] = [tag |-> transactions[i].tag, addr |-> transactions[i].addr,
                                              line |-> LineAt(transactions[i].addr)]

\* What the queues of the library hold.
LEMMA TransactionTypes ==
  ASSUME DramTypes
  PROVE  /\ \A i \in DOMAIN transactions : /\ i \in Nat /\ transactions[i].tag \in Tags /\ transactions[i].write \in BOOLEAN
                                           /\ transactions[i].addr \in Addrs
                                           /\ transactions[i].addr = LineBytes * (transactions[i].addr \div LineBytes)
                                           /\ transactions[i].addr \div LineBytes \in Ram
         /\ \A i \in DOMAIN read_queue : /\ i \in Nat /\ read_queue[i] \in [tag : Tags, addr : Addrs, line : DramLines]
<1> DEFINE Ts == [tag : Tags, addr : Addrs, write : BOOLEAN]
           Rs == [tag : Tags, addr : Addrs, line : DramLines]
<1>a. transactions \in Seq(Ts) /\ read_queue \in Seq(Rs)
  BY DEF DramTypes
<1>1. \A i \in DOMAIN transactions : i \in Nat /\ transactions[i] \in Ts
  <2> HIDE DEF Ts
  <2> QED
    BY <1>a
<1>2. \A i \in DOMAIN read_queue : i \in Nat /\ read_queue[i] \in Rs
  <2> HIDE DEF Rs
  <2> QED
    BY <1>a
<1>3. ASSUME NEW i \in DOMAIN transactions
      PROVE  /\ transactions[i].addr = LineBytes * (transactions[i].addr \div LineBytes)
             /\ transactions[i].addr \div LineBytes \in Ram
  <2>1. PICK l \in Ram : transactions[i].addr = LineBytes * l
    BY <1>1 DEF Addrs
  <2>2. (LineBytes * l) \div LineBytes = l
    BY LinesOfRam
  <2> QED
    BY <2>1, <2>2
<1> QED
  BY <1>1, <1>2, <1>3

\* Two lines are not at one address.
LEMMA LineOfAddress ==
  ASSUME NEW a \in Ram, NEW b \in Ram, LineBytes * a = LineBytes * b
  PROVE  a = b
<1>1. (LineBytes * a) \div LineBytes = a /\ (LineBytes * b) \div LineBytes = b
  BY LinesOfRam
<1> QED
  BY <1>1

\* A tick of the clock ends one command.
LEMMA TickEnds ==
  ASSUME DramTypes, ClockTick
  PROVE  \E i \in Nat : Ends(i)
<1>1. PICK i \in 1 .. Len(transactions) :
              /\ \A j \in 1 .. i - 1 : transactions[j].write => transactions[j].addr # transactions[i].addr
              /\ Len(transactions') = Len(transactions) - 1
              /\ \A j \in 1 .. Len(transactions) - 1 :
                   transactions'[j] = IF j < i THEN transactions[j] ELSE transactions[j + 1]
              /\ transactions[i].write => read_queue' = read_queue
              /\ ~transactions[i].write =>
                   /\ memory' = memory /\ write_queue' = write_queue
                   /\ read_queue' = Append(read_queue, [tag |-> transactions[i].tag, addr |-> transactions[i].addr,
                                                        line |-> LineAt(transactions[i].addr)])
              /\ transactions[i].write => write_cb(transactions[i].tag, transactions[i].addr)
  BY TickMoves
<1>2. PICK N \in Nat : N = Len(transactions)
  BY DEF DramTypes
<1>3. DramTypes'
  BY TickMoves
<1>4. DOMAIN transactions = 1 .. N /\ DOMAIN transactions' = 1 .. N - 1
  <2>1. transactions' \in Seq([tag : Tags, addr : Addrs, write : BOOLEAN])'
    BY <1>3 DEF DramTypes
  <2> QED
    BY <1>1, <1>2, <2>1 DEF DramTypes
<1>5. i \in 1 .. N /\ i \in Nat
  BY <1>1, <1>2
<1>6. \A j \in 1 .. N - 1 : /\ Was(i, j) \in 1 .. N /\ Was(i, j) # i
                            /\ transactions'[j] = transactions[Was(i, j)]
  BY <1>1, <1>2, <1>5 DEF Was
<1>7. ASSUME NEW j \in 1 .. N, j # i PROVE \E k \in 1 .. N - 1 : Was(i, k) = j
  <2>1. CASE j < i
    <3>1. j \in 1 .. N - 1 /\ Was(i, j) = j
      BY <1>5, <2>1 DEF Was
    <3> QED
      BY <3>1
  <2>2. CASE j > i
    <3>1. j - 1 \in 1 .. N - 1 /\ Was(i, j - 1) = j
      BY <1>5, <2>2 DEF Was
    <3> QED
      BY <3>1
  <2> QED
    BY <1>5, <1>7, <2>1, <2>2
<1>8. \A j \in WritesOf(transactions[i].addr \div LineBytes) : j >= i
  <2> SUFFICES ASSUME NEW j \in WritesOf(transactions[i].addr \div LineBytes), ~(j >= i) PROVE FALSE
    OBVIOUS
  <2>1. j \in 1 .. N /\ transactions[j].write /\ transactions[j].addr = transactions[i].addr
    BY <1>4, <1>5, TransactionTypes DEF WritesOf
  <2>2. j \in 1 .. i - 1
    BY <1>5, <2>1
  <2> QED
    BY <1>1, <2>1, <2>2
<1>9. ~transactions[i].write =>
       /\ DOMAIN read_queue' = DOMAIN read_queue \cup {Len(read_queue) + 1}
       /\ \A j \in DOMAIN read_queue : read_queue'[j] = read_queue[j] /\ j # Len(read_queue) + 1
       /\ read_queue'[Len(read_queue) + 1] = [tag |-> transactions[i].tag, addr |-> transactions[i].addr,
                                              line |-> LineAt(transactions[i].addr)]
  <2> SUFFICES ASSUME ~transactions[i].write
      PROVE  /\ DOMAIN read_queue' = DOMAIN read_queue \cup {Len(read_queue) + 1}
             /\ \A j \in DOMAIN read_queue : read_queue'[j] = read_queue[j] /\ j # Len(read_queue) + 1
             /\ read_queue'[Len(read_queue) + 1] = [tag |-> transactions[i].tag, addr |-> transactions[i].addr,
                                                    line |-> LineAt(transactions[i].addr)]
    OBVIOUS
  <2>1. PICK e : e = [tag |-> transactions[i].tag, addr |-> transactions[i].addr, line |-> LineAt(transactions[i].addr)]
    OBVIOUS
  <2>2. read_queue' = Append(read_queue, e)
    BY <1>1, <2>1
  <2>3. PICK L \in Nat : L = Len(read_queue) /\ DOMAIN read_queue = 1 .. L
    BY DEF DramTypes
  <2>4. DOMAIN read_queue' = 1 .. L + 1 /\ read_queue'[L + 1] = e /\ \A j \in 1 .. L : read_queue'[j] = read_queue[j]
    BY <2>2, <2>3 DEF DramTypes
  <2>5. 1 .. L + 1 = 1 .. L \cup {L + 1} /\ \A j \in 1 .. L : j # L + 1
    BY <2>3
  <2> QED
    BY <2>1, <2>3, <2>4, <2>5
<1>10. Ends(i)
  BY <1>1, <1>4, <1>5, <1>6, <1>7, <1>8, <1>9 DEF Ends
<1> QED
  BY <1>5, <1>10

\* Where the commands of a line are afterwards.
LEMMA EndsPlaces ==
  ASSUME DramTypes, DramTypes', NEW i \in Nat, Ends(i), NEW l \in Ram
  PROVE  /\ \A k \in LibHas(l)' : /\ k \in Nat /\ Was(i, k) \in LibHas(l) /\ transactions'[k] = transactions[Was(i, k)] /\ Was(i, k) # i
         /\ \A k \in WritesOf(l)' : /\ k \in Nat /\ Was(i, k) \in WritesOf(l) /\ transactions'[k] = transactions[Was(i, k)] /\ Was(i, k) # i
         /\ \A j \in WritesOf(l) : j # i => \E k \in WritesOf(l)' : Was(i, k) = j
         /\ ReadsHave(l)' = IF ~transactions[i].write /\ transactions[i].addr = LineBytes * l
                            THEN ReadsHave(l) \cup {Len(read_queue) + 1} ELSE ReadsHave(l)
         /\ \A j \in ReadsHave(l) : read_queue'[j] = read_queue[j]
<1>1. \A j \in DOMAIN transactions' : j \in Nat
  BY DEF DramTypes
<1>2. \A k \in LibHas(l)' : /\ k \in Nat /\ Was(i, k) \in LibHas(l) /\ transactions'[k] = transactions[Was(i, k)] /\ Was(i, k) # i
  BY <1>1 DEF Ends, LibHas
<1>3. \A k \in WritesOf(l)' : /\ k \in Nat /\ Was(i, k) \in WritesOf(l) /\ transactions'[k] = transactions[Was(i, k)] /\ Was(i, k) # i
  BY <1>1 DEF Ends, WritesOf
<1>4. ASSUME NEW j \in WritesOf(l), j # i PROVE \E k \in WritesOf(l)' : Was(i, k) = j
  <2>1. j \in DOMAIN transactions
    BY DEF WritesOf
  <2>2. PICK k \in DOMAIN transactions' : Was(i, k) = j
    BY <1>4, <2>1 DEF Ends
  <2>3. transactions'[k] = transactions[j]
    BY <2>2 DEF Ends
  <2> QED
    BY <2>2, <2>3 DEF WritesOf
<1>5. CASE transactions[i].write
  BY <1>2, <1>3, <1>4, <1>5 DEF Ends, ReadsHave
<1>6. CASE ~transactions[i].write
  BY <1>2, <1>3, <1>4, <1>6 DEF Ends, ReadsHave
<1> QED
  BY <1>5, <1>6

\* Was keeps the order of the commands.
LEMMA WasOnce == ASSUME NEW i \in Nat, NEW a \in Nat, NEW b \in Nat
                 PROVE  (Was(i, a) = Was(i, b) => a = b) /\ (a <= b <=> Was(i, a) <= Was(i, b))
                        /\ Was(i, a) \in Nat /\ (a < b <=> Was(i, a) < Was(i, b))
BY DEF Was

\* The one answer for a line moves along.
LEMMA TickFlows ==
  ASSUME DramTypes, DramTypes', NEW i \in Nat, Ends(i), NEW l \in Ram, OneOf(l), UNCHANGED <<cacheVars, busVars>>
  PROVE  OneOf(l)' /\ (DramHas(l)' => DramHas(l)) /\ (Under(l)' => Under(l)) /\ (LibHas(l)' # {} => LibHas(l) # {})
<1>1. /\ UNCHANGED <<op, way, pend, req, snoop, rtag, bus, half, nack, dnack, dcmd>>
  BY DEF cacheVars, busVars
<1>2. /\ CtlHas(l)' <=> CtlHas(l)
      /\ FlushHas(l)' = FlushHas(l) /\ (FillHas(l)' <=> FillHas(l)) /\ (GivenHas(l)' <=> GivenHas(l)) /\ (RoundHas(l)' <=> RoundHas(l))
  BY <1>1 DEF CtlHas, FlushHas, FillHas, GivenHas, RoundHas, OnBus, SnoopSent
<1>3. \A t : (WaitsFor(t, l)' <=> WaitsFor(t, l)) /\ (SoonWaits(t, l)' <=> SoonWaits(t, l))
  BY <1>1 DEF WaitsFor, SoonWaits, Due, Awaiting, Sent
<1>4. \A n \in Masters : Holds(n, l)' <=> Holds(n, l)
  BY <1>1 DEF Holds
<1>5. /\ \A k \in LibHas(l)' : k \in Nat /\ Was(i, k) \in LibHas(l) /\ transactions'[k] = transactions[Was(i, k)] /\ Was(i, k) # i
      /\ ReadsHave(l)' = IF ~transactions[i].write /\ transactions[i].addr = LineBytes * l
                            THEN ReadsHave(l) \cup {Len(read_queue) + 1} ELSE ReadsHave(l)
      /\ \A j \in ReadsHave(l) : read_queue'[j] = read_queue[j]
  BY EndsPlaces
<1>6. OneFor(l) /\ Expected(l) /\ Held(l)
  BY DEF OneOf
<1>7. ~transactions[i].write /\ transactions[i].addr = LineBytes * l => i \in LibHas(l)
  BY DEF Ends, LibHas
<1>8. LibHas(l)' # {} => LibHas(l) # {}
  BY <1>5
<1>9. \A a, b \in LibHas(l)' : a = b
  BY <1>5, <1>6, WasOnce DEF OneFor
<1>a. ASSUME OneFor(l)', DramHas(l)' => DramHas(l),
             \A j \in ReadsHave(l)' : WaitsFor(read_queue'[j].tag, l),
             \A j \in LibHas(l)' : WaitsFor(transactions'[j].tag, l)
      PROVE  OneOf(l)' /\ (Under(l)' => Under(l))
  <2>1. CtlHas(l)' => \/ WaitsFor(dcmd.tag, l)'
                      \/ SoonWaits(dcmd.tag, l)' /\ half' = 1 /\ ~nack' /\ ~dnack'
    BY <1>1, <1>2, <1>3, <1>6 DEF Expected
  <2>2. \A n \in FlushHas(l)' :
       \/ WaitsFor(snoop[n].tag, l)'
       \/ /\ SoonWaits(snoop[n].tag, l)'
          /\ IF half' = 1 THEN SnoopReady(n)' => ~nack' /\ ~dnack' ELSE ~SnoopReady(n)' /\ ~OnBus(Requests)'
    BY <1>1, <1>2, <1>3, <1>6 DEF Expected, SnoopReady, OnBus
  <2>3. RoundHas(l)' => WaitsFor(bus.tag, l)'
    BY <1>1, <1>2, <1>3, <1>6 DEF Expected
  <2>4. (\A j \in ReadsHave(l)' : WaitsFor(read_queue[j].tag, l)') /\ \A j \in LibHas(l)' : WaitsFor(transactions[j].tag, l)'
    BY <1>1, <1>a DEF WaitsFor, Due, Awaiting
  <2>5. Expected(l)'
    BY <1>1, <2>1, <2>2, <2>3, <2>4 DEF Expected
  <2>6. Held(l)'
    <3>1. (DramHas(l) \/ FillHas(l))' => \A n \in Masters : ~Holds(n, l)'
      BY <1>2, <1>4, <1>6, <1>a DEF Held
    <3>2. \A n \in FlushHas(l)' : Holds(n, l)' => way'[n].state = "S" /\ ~op'[snoop'[n].tag[1]].write
      BY <1>1, <1>2, <1>4, <1>6 DEF Held, FlushHas
    <3>3. \A n \in Masters : SnoopSent(n)' <=> SnoopSent(n)
      BY <1>1 DEF SnoopSent
    <3>4. \A n \in Masters : GivenHas(l)' /\ SnoopSent(n)' /\ Holds(n, l)' => way'[n].state = "S" /\ ~op'[bus'.tag[1]].write
      BY <1>1, <1>2, <1>4, <1>6, <3>3 DEF Held
    <3> QED
      BY <3>1, <3>2, <3>4 DEF Held
  <2> QED
    BY <1>2, <1>a, <2>5, <2>6 DEF OneOf, Under
<1>10. CASE ~transactions[i].write /\ transactions[i].addr = LineBytes * l
  <2>1. i \in LibHas(l) /\ ReadsHave(l) = {} /\ ReadsHave(l)' = {Len(read_queue) + 1}
    BY <1>5, <1>6, <1>7, <1>10 DEF OneFor
  <2>2. LibHas(l)' = {}
    BY <1>5, <1>6, <2>1 DEF OneFor
  <2>3. read_queue'[Len(read_queue) + 1].tag = transactions[i].tag
    BY <1>10 DEF Ends
  <2>4. OneFor(l)' /\ (DramHas(l)' => DramHas(l))
    BY <1>2, <1>6, <1>8, <2>1, <2>2 DEF OneFor, DramHas
  <2>5. \A j \in ReadsHave(l)' : WaitsFor(read_queue'[j].tag, l)
    BY <1>6, <2>1, <2>3 DEF Expected
  <2> QED
    BY <1>8, <1>a, <2>2, <2>4, <2>5
<1>11. CASE ~(~transactions[i].write /\ transactions[i].addr = LineBytes * l)
  <2>1. ReadsHave(l)' = ReadsHave(l)
    BY <1>5, <1>11
  <2>2. OneFor(l)' /\ (DramHas(l)' => DramHas(l))
    BY <1>2, <1>6, <1>8, <1>9, <2>1 DEF OneFor, DramHas
  <2>3. \A j \in ReadsHave(l)' : WaitsFor(read_queue'[j].tag, l)
    BY <1>5, <1>6, <2>1 DEF Expected
  <2>4. \A j \in LibHas(l)' : WaitsFor(transactions'[j].tag, l)
    BY <1>5, <1>6 DEF Expected
  <2> QED
    BY <1>8, <1>a, <2>2, <2>3, <2>4
<1> QED
  BY <1>10, <1>11

\* The last of a set of numbers.
LEMMA LastIs ==
  ASSUME NEW S \in SUBSET Nat, NEW k \in S, \A j \in S : j <= k
  PROVE  LastOf(S) = k
<1>1. \E i \in S : \A j \in S : j <= i
  OBVIOUS
<1>2. LastOf(S) \in S /\ \A j \in S : j <= LastOf(S)
  BY <1>1 DEF LastOf
<1>3. LastOf(S) \in Nat /\ k \in Nat
  BY <1>2
<1>4. k <= LastOf(S) /\ LastOf(S) <= k
  BY <1>2
<1> QED
  BY <1>3, <1>4

\* What memory will hold of a line of ram.
RamLinesAre ==
  \A l \in Ram :
    /\ RamLine(l) = IF dcmd # None /\ dcmd.write /\ dcmd.line = l THEN Packed(dcmd.data)
                    ELSE IF WritesOf(l) # {} THEN write_queue[transactions[LastOf(WritesOf(l))].tag]
                    ELSE LineInMemory(l)
    /\ WritesOf(l) \in SUBSET Nat

\* Where the line of ram is read from: the glue, the last write of the library or memory.
LEMMA RamLineSays == DramTypes => RamLinesAre
<1> SUFFICES ASSUME DramTypes, NEW l \in Ram
      PROVE  /\ RamLine(l) = IF dcmd # None /\ dcmd.write /\ dcmd.line = l THEN Packed(dcmd.data)
                    ELSE IF WritesOf(l) # {} THEN write_queue[transactions[LastOf(WritesOf(l))].tag]
                    ELSE LineInMemory(l)
             /\ WritesOf(l) \in SUBSET Nat
  BY DEF RamLinesAre
<1>1. WritesOf(l) = {i \in DOMAIN transactions :
                   transactions[i].write /\ transactions[i].addr \div LineBytes = l}
  BY TransactionTypes, LinesOfRam DEF WritesOf
<1>2. WritesOf(l) \in SUBSET Nat
  BY TransactionTypes DEF WritesOf
<1> QED
  BY <1>1, <1>2 DEF RamLine, LastOf, LineInMemory

\* The same in the next state.
LEMMA RamLineSaysNext == DramTypes' => RamLinesAre'
BY RamLineSays, PTL

\* A write that ends has its data, and puts them into its line.
LEMMA EndsWrite ==
  ASSUME DramTypes, Library, NEW i \in Nat, Ends(i)
  PROVE  /\ transactions[i].write =>
              /\ transactions[i].tag \in DOMAIN write_queue
              /\ DOMAIN write_queue' = DOMAIN write_queue \ {transactions[i].tag}
         /\ \A t \in DOMAIN write_queue : ~transactions[i].write \/ t # transactions[i].tag => write_queue'[t] = write_queue[t]
         /\ ~transactions[i].write => write_queue' = write_queue
         /\ \A l \in Ram : LineInMemory(l)' =
              IF transactions[i].write /\ transactions[i].addr = LineBytes * l
              THEN write_queue[transactions[i].tag] ELSE LineInMemory(l)
<1>1. i \in DOMAIN transactions
  BY DEF Ends
<1>2. CASE ~transactions[i].write
  BY <1>2 DEF Ends, LineInMemory
<1>3. CASE transactions[i].write
  <2>1. PICK t : t = transactions[i].tag
    OBVIOUS
  <2>2. t \in DOMAIN write_queue
    BY <1>1, <1>3, <2>1 DEF Library, TagsOfWrites
  <2>3. PICK a \in Ram : transactions[i].addr \div LineBytes = a /\ transactions[i].addr = LineBytes * a
    BY <1>1, TransactionTypes
  <2>4. /\ memory' = [x \in DOMAIN memory |->
                          IF x \div Dwords = a THEN write_queue[t][x % Dwords] ELSE memory[x]]
        /\ write_queue' = [u \in DOMAIN write_queue \ {t} |-> write_queue[u]]
    BY <1>3, <2>1, <2>2, <2>3 DEF Ends, write_cb
  <2>5. write_queue[t] \in [0 .. Dwords - 1 -> Nat \X Nat]
    BY <2>2 DEF DramTypes, DramLines
  <2>6. ASSUME NEW l \in Ram
        PROVE  LineInMemory(l)' = IF transactions[i].addr = LineBytes * l THEN write_queue[t] ELSE LineInMemory(l)
    <3>1. Dwords \in Nat \ {0} /\ RamLines \in Nat /\ l \in Nat /\ l < RamLines
      BY DramAssumption, LinesOfRam
    <3>2. ASSUME NEW x \in 0 .. Dwords - 1
          PROVE  memory'[Dwords * l + x] = IF a = l THEN write_queue[t][x] ELSE memory[Dwords * l + x]
      <4>1. Dwords * l + x \in 0 .. Dwords * RamLines - 1
        BY <3>1, WordBounds
      <4>2. (Dwords * l + x) \div Dwords = l /\ (Dwords * l + x) % Dwords = x
        BY <3>1, Quotient
      <4>3. Dwords * l + x \in DOMAIN memory
        BY <4>1 DEF DramTypes
      <4> QED
        BY <2>4, <4>2, <4>3
    <3>3. LineInMemory(l)' = [x \in 0 .. Dwords - 1 |-> memory'[Dwords * l + x]]
      BY DEF LineInMemory
    <3>4. CASE a = l
      <4>1. LineInMemory(l)' = [x \in 0 .. Dwords - 1 |-> write_queue[t][x]]
        BY <3>2, <3>3, <3>4
      <4> QED
        BY <2>3, <2>5, <3>4, <4>1
    <3>5. CASE a # l
      <4>1. LineInMemory(l)' = [x \in 0 .. Dwords - 1 |-> memory[Dwords * l + x]]
        BY <3>2, <3>3, <3>5
      <4>2. transactions[i].addr # LineBytes * l
        BY <2>3, <3>5, LinesOfRam
      <4> QED
        BY <4>1, <4>2 DEF LineInMemory
    <3> QED
      BY <3>4, <3>5
  <2> QED
    BY <1>3, <2>1, <2>2, <2>4, <2>6
<1> QED
  BY <1>2, <1>3

\* So memory will hold the same of every line.
LEMMA TickRamLine ==
  ASSUME DramTypes, DramTypes', Library, NEW i \in Nat, Ends(i), dcmd' = dcmd, NEW l \in Ram
  PROVE  RamLine(l)' = RamLine(l)
<1>1. RamLinesAre /\ RamLinesAre'
  BY RamLineSays, RamLineSaysNext
<1>2. /\ \A k \in WritesOf(l)' : k \in Nat /\ Was(i, k) \in WritesOf(l) /\ transactions'[k] = transactions[Was(i, k)] /\ Was(i, k) # i
      /\ \A j \in WritesOf(l) : j # i => \E k \in WritesOf(l)' : Was(i, k) = j
  BY EndsPlaces
<1>3. CASE dcmd # None /\ dcmd.write /\ dcmd.line = l
  BY <1>1, <1>3 DEF RamLinesAre, Packed, Ram
<1>4. CASE ~(dcmd # None /\ dcmd.write /\ dcmd.line = l)
  <2>1. RamLine(l) = IF WritesOf(l) # {} THEN write_queue[transactions[LastOf(WritesOf(l))].tag]
                     ELSE LineInMemory(l)
    BY <1>1, <1>4 DEF RamLinesAre
  <2>2. RamLine(l)' = IF WritesOf(l)' # {} THEN write_queue'[transactions'[LastOf(WritesOf(l))'].tag]
                     ELSE LineInMemory(l)'
    BY <1>1, <1>4 DEF RamLinesAre, Ram
  <2>3. LineInMemory(l)' = IF transactions[i].write /\ transactions[i].addr = LineBytes * l
              THEN write_queue[transactions[i].tag] ELSE LineInMemory(l)
    BY EndsWrite
  <2>4. i \in WritesOf(l) <=> transactions[i].write /\ transactions[i].addr = LineBytes * l
    BY DEF WritesOf, Ends
  <2>5. CASE WritesOf(l) = {}
    BY <1>2, <2>1, <2>2, <2>3, <2>4, <2>5
  <2>6. CASE WritesOf(l) # {}
    <3>1. PICK k \in WritesOf(l) : \A j \in WritesOf(l) : j <= k
      BY <2>6 DEF Library
    <3>2. WritesOf(l) \in SUBSET Nat /\ WritesOf(l)' \in SUBSET Nat
      BY <1>1, <1>2 DEF RamLinesAre
    <3>3. LastOf(WritesOf(l)) = k
      BY <3>1, <3>2, LastIs
    <3>4. RamLine(l) = write_queue[transactions[k].tag]
      BY <2>1, <2>6, <3>3
    <3>5. CASE k = i
      <4>1. \A j \in WritesOf(l) : j >= i
        <5>1. transactions[i].addr \div LineBytes = l
          BY <2>4, <3>5, LinesOfRam
        <5> QED
          BY <5>1 DEF Ends
      <4>2. WritesOf(l)' = {}
        <5>1. \A j \in WritesOf(l) : j = i
          BY <3>1, <3>2, <3>5, <4>1
        <5> QED
          BY <1>2, <5>1
      <4> QED
        BY <2>2, <2>3, <2>4, <3>4, <3>5, <4>2
    <3>6. CASE k # i
      <4>1. PICK p \in WritesOf(l)' : Was(i, p) = k
        BY <1>2, <3>6
      <4>2. \A j \in WritesOf(l)' : j <= p
        BY <1>2, <3>1, <4>1, WasOnce
      <4>3. LastOf(WritesOf(l)') = p
        BY <3>2, <4>2, LastIs
      <4>4. LastOf(WritesOf(l))' = p
        BY <4>3 DEF LastOf
      <4>5. transactions'[p] = transactions[k]
        BY <1>2, <4>1
      <4>6. k \in DOMAIN transactions /\ transactions[k].write /\ i \in DOMAIN transactions
        BY DEF WritesOf, Ends
      <4>7. transactions[k].tag \in DOMAIN write_queue
        BY <4>6 DEF Library, TagsOfWrites
      <4>8. transactions[i].write => transactions[k].tag # transactions[i].tag
        BY <3>6, <4>6 DEF Library
      <4>9. write_queue'[transactions[k].tag] = write_queue[transactions[k].tag]
        BY <4>7, <4>8, EndsWrite
      <4> QED
        BY <2>2, <3>4, <4>1, <4>4, <4>5, <4>9
    <3> QED
      BY <3>5, <3>6
  <2> QED
    BY <2>5, <2>6
<1> QED
  BY <1>3, <1>4

\* The library loses a command, and with a write its data.
LEMMA TickLibrary ==
  ASSUME DramTypes, DramTypes', Library, NEW i \in Nat, Ends(i), dcmd' = dcmd
  PROVE  Library'
<1>1. /\ \A j \in DOMAIN transactions' : /\ j \in Nat /\ Was(i, j) \in DOMAIN transactions /\ Was(i, j) # i
                                         /\ transactions'[j] = transactions[Was(i, j)]
      /\ \A j \in DOMAIN transactions : j # i => \E k \in DOMAIN transactions' : Was(i, k) = j
      /\ i \in DOMAIN transactions
  BY DEF Ends, DramTypes
<1>2. TagsOfWrites' = {transactions'[j].tag : j \in {k \in DOMAIN transactions' : transactions'[k].write}}
  BY DEF TagsOfWrites
<1>3. DOMAIN write_queue' = TagsOfWrites'
  <2>1. DOMAIN write_queue = TagsOfWrites
    BY DEF Library
  <2>2. ASSUME NEW t \in TagsOfWrites' PROVE t \in TagsOfWrites /\ (transactions[i].write => t # transactions[i].tag)
    <3>1. PICK j \in DOMAIN transactions' : transactions'[j].write /\ transactions'[j].tag = t
      BY <1>2
    <3>2. /\ Was(i, j) \in DOMAIN transactions /\ Was(i, j) # i
          /\ transactions[Was(i, j)].write /\ transactions[Was(i, j)].tag = t
      BY <1>1, <3>1
    <3>3. t \in TagsOfWrites
      BY <3>2 DEF TagsOfWrites
    <3>4. transactions[i].write => t # transactions[i].tag
      BY <1>1, <3>2 DEF Library
    <3> QED
      BY <3>3, <3>4
  <2>3. ASSUME NEW t \in TagsOfWrites, transactions[i].write => t # transactions[i].tag PROVE t \in TagsOfWrites'
    <3>1. PICK j \in DOMAIN transactions : transactions[j].write /\ transactions[j].tag = t
      BY DEF TagsOfWrites
    <3>2. j # i
      BY <2>3, <3>1
    <3>3. PICK k \in DOMAIN transactions' : Was(i, k) = j
      BY <1>1, <3>2
    <3>4. transactions'[k] = transactions[j]
      BY <1>1, <3>3
    <3> QED
      BY <1>2, <3>1, <3>4
  <2>4. CASE transactions[i].write
    <3>1. DOMAIN write_queue' = TagsOfWrites \ {transactions[i].tag}
      BY <2>1, <2>4, EndsWrite
    <3> QED
      BY <2>2, <2>3, <2>4, <3>1
  <2>5. CASE ~transactions[i].write
    <3>1. DOMAIN write_queue' = TagsOfWrites
      BY <2>1, <2>5, EndsWrite
    <3> QED
      BY <2>2, <2>3, <2>5, <3>1
  <2> QED
    BY <2>4, <2>5
<1>4. ASSUME NEW a \in DOMAIN transactions', NEW b \in DOMAIN transactions',
             transactions'[a].write /\ transactions'[b].write /\ transactions'[a].tag = transactions'[b].tag
      PROVE  a = b
  <2>1. Was(i, a) = Was(i, b)
    BY <1>1, <1>4 DEF Library
  <2> QED
    BY <1>1, <2>1, WasOnce
<1>5. ASSUME NEW l \in Ram
      PROVE  /\ WritesOf(l)' # {} => \E k \in WritesOf(l)' : \A j \in WritesOf(l)' : j <= k
             /\ \A k \in LibHas(l)' : /\ \A j \in WritesOf(l)' : j < k
                                      /\ dcmd' # None /\ dcmd'.write => dcmd'.line # l
  <2>1. /\ \A k \in LibHas(l)' : k \in Nat /\ Was(i, k) \in LibHas(l)
        /\ \A k \in WritesOf(l)' : k \in Nat /\ Was(i, k) \in WritesOf(l) /\ Was(i, k) # i
        /\ \A j \in WritesOf(l) : j # i => \E k \in WritesOf(l)' : Was(i, k) = j
    BY EndsPlaces
  <2>2. ASSUME NEW k \in LibHas(l)'
        PROVE  /\ \A j \in WritesOf(l)' : j < k
               /\ dcmd' # None /\ dcmd'.write => dcmd'.line # l
    <3>1. /\ \A j \in WritesOf(l) : j < Was(i, k)
          /\ dcmd # None /\ dcmd.write => dcmd.line # l
      BY <2>1 DEF Library
    <3>2. \A j \in WritesOf(l)' : j < k
      BY <2>1, <3>1, WasOnce
    <3> QED
      BY <3>1, <3>2
  <2>3. ASSUME WritesOf(l)' # {} PROVE \E k \in WritesOf(l)' : \A j \in WritesOf(l)' : j <= k
    <3>1. PICK k \in WritesOf(l) : \A j \in WritesOf(l) : j <= k
      BY <2>1, <2>3 DEF Library
    <3>2. k # i
      <4> SUFFICES ASSUME k = i PROVE FALSE
        OBVIOUS
      <4>1. transactions[i].addr \div LineBytes = l
        <5>1. transactions[k].addr = LineBytes * l
          BY DEF WritesOf
        <5> QED
          BY <5>1, LinesOfRam
      <4>2. \A j \in WritesOf(l) : j >= i
        BY <4>1 DEF Ends
      <4>3. PICK j : j \in WritesOf(l)'
        BY <2>3
      <4>4. Was(i, j) \in WritesOf(l) /\ Was(i, j) # i /\ Was(i, j) \in Nat
        BY <2>1, <4>3, WasOnce
      <4> QED
        BY <3>1, <4>2, <4>4
    <3>3. PICK p \in WritesOf(l)' : Was(i, p) = k
      BY <2>1, <3>2
    <3>4. \A j \in WritesOf(l)' : j <= p
      BY <2>1, <3>1, <3>3, WasOnce
    <3> QED
      BY <3>4
  <2> QED
    BY <2>2, <2>3
<1> QED
  BY <1>3, <1>4, <1>5 DEF Library, Ram

\* A read that ends takes the last contents of its line.
LEMMA TickReads ==
  ASSUME DramTypes, DramTypes', Library, MemoryFollows, NEW i \in Nat, Ends(i), NEW l \in Ram,
         \A k \in ReadsHave(l) : read_queue[k].line = Packed(Latest(l))
  PROVE  \A k \in ReadsHave(l)' : read_queue'[k].line = Packed(Latest(l))
<1>1. /\ ReadsHave(l)' = IF ~transactions[i].write /\ transactions[i].addr = LineBytes * l
                            THEN ReadsHave(l) \cup {Len(read_queue) + 1} ELSE ReadsHave(l)
      /\ \A j \in ReadsHave(l) : read_queue'[j] = read_queue[j]
  BY EndsPlaces
<1>2. CASE ~(~transactions[i].write /\ transactions[i].addr = LineBytes * l)
  BY <1>1, <1>2
<1>3. CASE ~transactions[i].write /\ transactions[i].addr = LineBytes * l
  <2>1. i \in LibHas(l)
    BY <1>3 DEF Ends, LibHas
  <2>2. RamLinesAre
    BY RamLineSays
  <2>3. WritesOf(l) = {}
    <3>1. \A j \in WritesOf(l) : j < i
      BY <2>1 DEF Library
    <3>2. \A j \in WritesOf(l) : j >= i
      <4>1. transactions[i].addr \div LineBytes = l
        BY <1>3, LinesOfRam
      <4> QED
        BY <4>1 DEF Ends
    <3> QED
      BY <2>2, <3>1, <3>2 DEF RamLinesAre
  <2>4. ~(dcmd # None /\ dcmd.write /\ dcmd.line = l)
    BY <2>1 DEF Library
  <2>5. RamLine(l) = LineInMemory(l)
    BY <2>2, <2>3, <2>4 DEF RamLinesAre
  <2>6. RamLine(l) = Packed(Latest(l))
    BY <2>1 DEF MemoryFollows, MemoryIsLatest
  <2>7. LineAt(LineBytes * l) = LineInMemory(l)
    <3>1. Dwords \in Nat /\ l \in Nat
      BY DramAssumption, LinesOfRam
    <3>2. LineBytes * l = 8 * Dwords * l
      BY <3>1 DEF LineBytes
    <3>3. (LineBytes * l) \div 8 = Dwords * l
      BY <3>1, <3>2, Scaled
    <3> QED
      BY <3>3 DEF LineAt, LineInMemory
  <2>8. read_queue'[Len(read_queue) + 1].line = LineAt(LineBytes * l)
    BY <1>3 DEF Ends
  <2> QED
    BY <1>1, <1>3, <2>5, <2>6, <2>7, <2>8
<1> QED
  BY <1>2, <1>3

\* The caches and the bus stay.
LEMMA TickRest ==
  ASSUME MemTypes, RequestsFollow, DramTypes, DramTypes', NEW i \in Nat, Ends(i), StoreParts, Library',
         UNCHANGED <<cacheVars, busVars, histVars>>
  PROVE  StoreParts'
<1>1. /\ UNCHANGED <<op, way, pend, req, snoop, rtag, bus, turn, half, hit, nack, dnack, dcmd, dreq, rcmd, rreq>>
      /\ UNCHANGED <<nops, latest, hurt, fault>>
  BY DEF cacheVars, busVars, histVars
<1>2. ASSUME NEW l \in Ram
      PROVE  /\ OneOf(l)' /\ (Under(l)' => Under(l)) /\ (LibHas(l)' # {} => LibHas(l) # {})
             /\ RamLine(l)' = RamLine(l)
             /\ (CtlHas(l)' <=> CtlHas(l)) /\ FlushHas(l)' = FlushHas(l) /\ (GivenHas(l)' <=> GivenHas(l))
  <2>1. OneOf(l)' /\ (Under(l)' => Under(l)) /\ (LibHas(l)' # {} => LibHas(l) # {})
    BY TickFlows DEF StoreParts
  <2>2. RamLine(l)' = RamLine(l)
    BY <1>1, TickRamLine DEF StoreParts
  <2> QED
    BY <1>1, <2>1, <2>2 DEF CtlHas, FlushHas, GivenHas, SnoopSent
<1>3. WaysFollow'
  BY <1>1 DEF StoreParts, WaysFollow, WayOf, Holds
<1>4. SentOnce'
  BY <1>1 DEF StoreParts, SentOnce, Sent, Its, SnoopSent, OnBus
<1>5. Exclusive'
  <2>1. \A m, n \in Masters : \A l : Holds(n, l)' <=> Holds(n, l)
    BY <1>1 DEF Holds
  <2>2. \A m \in Masters : way'[m].state = "M" => \A n \in Masters \ {m} : ~Holds(n, way[m].line)'
    BY <1>1, <2>1 DEF StoreParts, Exclusive, Holds
  <2>3. ASSUME NEW m \in Masters, half = 1 /\ ~nack /\ ~dnack /\ Sent(m) /\ req[m].cmd = "BusUpgr"
        PROVE  ~Under(op[m].line)' /\ \A n \in Masters \ {m} : ~Holds(n, op[m].line)'
    <3>1. ~Under(op[m].line) /\ \A n \in Masters \ {m} : ~Holds(n, op[m].line)
      BY <2>3 DEF StoreParts, Exclusive
    <3>2. PICK l \in Ram : l = op[m].line
      BY <2>3, UpgradesRam DEF StoreParts, Sent
    <3>3. ~Under(l)'
      BY <1>2, <3>1, <3>2
    <3>4. l = op'[m].line
      BY <1>1, <3>2
    <3>5. ~Under(op[m].line)'
      BY <3>3, <3>4 DEF Under, DramHas, CtlHas, LibHas, ReadsHave, FlushHas, RoundHas, FillHas, GivenHas
    <3> QED
      BY <1>1, <3>1, <3>5 DEF Holds
  <2> QED
    BY <1>1, <2>2, <2>3 DEF Exclusive, Sent
<1>6. DataIsLatest'
  <2>1. \A l \in Ram : \A k \in ReadsHave(l)' : read_queue'[k].line = Packed(Latest(l))
    BY TickReads DEF StoreParts, DataIsLatest
  <2>2. \A l : Latest(l)' = Latest(l)
    BY <1>1 DEF Latest
  <2>a. \A l : Packed(Latest(l))' = Packed(Latest(l))
    BY <1>1 DEF Latest, Packed, Content
  <2>3. \A l \in Ram : \A k \in ReadsHave(l)' : read_queue'[k].line = Packed(Latest(l))'
    BY <2>1, <2>a
  <2>4. /\ \A l \in Rom : latest'[l] = 0
        /\ \A m \in Masters : way'[m].state # "I" => way'[m].data = Latest(way[m].line)'
        /\ \A n \in Masters : snoop'[n] # None /\ (half' = 0 \/ ~SnoopSent(n)') => snoop'[n].data = Latest(snoop[n].line)'
        /\ half' = 0 /\ OnBus({"Fill"})' => bus'.data = Latest(bus.line)'
    BY <1>1 DEF StoreParts, DataIsLatest, Latest, SnoopSent, OnBus
  <2> QED
    BY <2>3, <2>4 DEF DataIsLatest, Ram
<1>7. MemoryFollows'
  <2>1. \A l \in Ram : MemoryIsLatest(l)' <=> MemoryIsLatest(l)
    BY <1>1, <1>2 DEF MemoryIsLatest, Latest, Packed, Content
  <2>2. \A l \in Ram : CtlHas(l)' \/ LibHas(l)' # {} => MemoryIsLatest(l)'
    BY <1>2, <2>1 DEF StoreParts, MemoryFollows
  <2>3. ASSUME NEW m \in Masters, Cleaned(m) PROVE MemoryIsLatest(way[m].line)'
    <3>1. MemoryIsLatest(way[m].line) /\ way[m].state = "M"
      BY <2>3 DEF StoreParts, MemoryFollows, Cleaned
    <3>2. PICK l \in Ram : l = way[m].line
      BY <3>1 DEF StoreParts, WaysFollow, WayOf
    <3>3. RamLine(l)' = Packed(Latest(l))'
      BY <2>1, <3>1, <3>2 DEF MemoryIsLatest
    <3>4. l = way'[m].line
      BY <1>1, <3>2
    <3> QED
      BY <3>3, <3>4 DEF MemoryIsLatest, RamLine, Latest
  <2>4. \A m \in Masters : Cleaned(m)' => Cleaned(m)
    BY <1>1 DEF Cleaned
  <2>5. \A l \in Ram : \/ \E m \in Masters : Holds(m, l)' /\ way'[m].state = "M"
                       \/ FlushHas(l)' # {} \/ GivenHas(l)'
                       \/ MemoryIsLatest(l)'
    BY <1>1, <1>2, <2>1 DEF StoreParts, MemoryFollows, Holds
  <2> QED
    BY <2>2, <2>3, <2>4, <2>5 DEF MemoryFollows, Ram
<1>8. FlushesFirst'
  <2>1. NoReads => NoReads'
    <3> SUFFICES ASSUME NoReads PROVE NoReads'
      OBVIOUS
    <3>1. transactions[i].write /\ \A j \in DOMAIN transactions' : transactions'[j].write
      BY DEF NoReads, Ends
    <3>2. read_queue' = read_queue
      BY <3>1 DEF Ends
    <3> QED
      BY <1>1, <3>1, <3>2 DEF NoReads, OnBus
  <2>2. \A m, n \in Masters : (Handing(m, n)' <=> Handing(m, n)) /\ (Handed(m, n)' <=> Handed(m, n))
    BY <1>1 DEF Handing, Handed, SnoopReady, SnoopSent, Sent
  <2>3. \A m \in Masters : Overtaken(m)' <=> Overtaken(m)
    BY <1>1 DEF Overtaken
  <2> QED
    BY <1>1, <2>1, <2>2, <2>3 DEF StoreParts, FlushesFirst, OnBus
<1>9. RomAnswers'
  <2>1. \A n \in Masters : RomFlush(n)' <=> RomFlush(n)
    BY <1>1 DEF RomFlush, Lag, Sent, Awaiting, LeftInFlush, Evicts, Again, SnoopReady
  <2>2. \A t, l : (WantsThis(t, l)' <=> WantsThis(t, l)) /\ (AsksThis(t, l)' <=> AsksThis(t, l))
    BY <1>1 DEF WantsThis, AsksThis, Awaiting, Sent
  <2> QED
    BY <1>1, <2>1 DEF StoreParts, RomAnswers, WantsThis, AsksThis, Awaiting, Sent, SnoopSent
<1> QED
  BY <1>2, <1>3, <1>4, <1>5, <1>6, <1>7, <1>8, <1>9 DEF StoreParts, Ram

\* A tick of the clock keeps all parts.
LEMMA TickStore ==
  ASSUME MemTypes, RequestsFollow, DramTypes, ClockTick, UNCHANGED <<cacheVars, busVars, histVars>>, StoreParts
  PROVE  StoreParts'
<1>1. DramTypes'
  BY TickMoves
<1>2. PICK i \in Nat : Ends(i)
  BY TickEnds
<1>3. dcmd' = dcmd
  BY DEF busVars
<1>4. Library'
  BY <1>1, <1>2, <1>3, TickLibrary DEF StoreParts
<1> QED
  BY <1>1, <1>2, <1>4, TickRest

-----------------------------------------------------------------------------
(* The first half keeps StoreInv *)

\* A first half without a fault, of a state in which all is well.
FirstRight(ready) ==
  /\ MemTypes /\ DramTypes /\ RequestsFollow /\ RoundIsOf /\ StoreParts
  /\ ready \in BOOLEAN /\ FirstHalf(ready) /\ fault' = {}

\* A flush for another cache goes on, or a new one begins.
LEMMA FirstSnoops ==
  ASSUME NEW ready, FirstRight(ready), NEW n \in Masters
  PROVE  /\ Gives(n) => /\ snoop[n] = None /\ snoop'[n] # None /\ snoop'[n] \in Flushes
                        /\ snoop'[n].tag = bus.tag /\ snoop'[n].line = bus.line
                        /\ snoop'[n].data = way[n].data /\ snoop'[n].at = "data"
                        /\ bus.tag[1] # n /\ OnBus(Requests) /\ Holds(n, bus.line)
         /\ ~Gives(n) /\ snoop[n] = None => snoop'[n] = None
         /\ ~Gives(n) /\ snoop[n] # None =>
              /\ snoop'[n] # None /\ snoop'[n].tag = snoop[n].tag /\ snoop'[n].line = snoop[n].line
              /\ snoop'[n].data = snoop[n].data
              /\ snoop'[n].at = IF snoop[n].at = "data" THEN "ready" ELSE snoop[n].at
         /\ SnoopSent(n)' <=> SnoopSent(n)
         /\ SnoopReady(n)' <=> snoop[n] # None /\ ~SnoopSent(n)
         /\ Gives(n) => ~SnoopSent(n)'
<1>1. snoop'[n] = IF Gives(n)
                  THEN [tag |-> bus.tag, line |-> bus.line, data |-> way[n].data, at |-> "data"]
                  ELSE IF snoop[n] # None /\ snoop[n].at = "data"
                       THEN [snoop[n] EXCEPT !.at = "ready"] ELSE snoop[n]
  BY FirstMoves DEF FirstRight
<1>2. snoop[n] # None => snoop[n] \in Flushes
  BY DEF FirstRight, MemTypes
<1>3. CASE Gives(n)
  <2>1. snoop[n] = None
    BY <1>3, FirstMoves DEF FirstRight, Busy
  <2>2. bus \in Rounds /\ way[n].data \in Data /\ bus # None
    BY <1>3 DEF Gives, SnoopHit, Snooped, FirstRight, MemTypes
  <2>3. bus.tag \in Tags /\ bus.line \in Lines
    BY <2>2 DEF Rounds
  <2>4. snoop'[n] = [tag |-> bus.tag, line |-> bus.line, data |-> way[n].data, at |-> "data"]
    BY <1>1, <1>3
  <2>5. snoop'[n] \in Flushes
    BY <2>2, <2>3, <2>4 DEF Flushes
  <2>6. snoop'[n] # None
    BY <2>5, NoneIsNothing
  <2>7. bus.tag[1] # n /\ OnBus(Requests) /\ Holds(n, bus.line)
    BY <1>3 DEF Gives, SnoopHit, Snooped, OnBus, Requests
  <2> QED
    BY <1>3, <2>1, <2>4, <2>5, <2>6, <2>7 DEF SnoopSent, SnoopReady
<1>4. CASE ~Gives(n) /\ snoop[n] # None /\ snoop[n].at = "data"
  <2>1. snoop'[n] = [snoop[n] EXCEPT !.at = "ready"]
    BY <1>1, <1>4
  <2>2. /\ snoop'[n] \in Flushes /\ snoop'[n].at = "ready" /\ snoop'[n].tag = snoop[n].tag
        /\ snoop'[n].line = snoop[n].line /\ snoop'[n].data = snoop[n].data
    BY <1>2, <1>4, <2>1 DEF Flushes
  <2> QED
    BY <1>4, <2>2, NoneIsNothing DEF SnoopSent, SnoopReady
<1>5. CASE ~Gives(n) /\ ~(snoop[n] # None /\ snoop[n].at = "data")
  <2>1. snoop'[n] = snoop[n]
    BY <1>1, <1>5
  <2>2. snoop[n] # None => snoop[n].at \in {"ready", "sent"}
    BY <1>2, <1>5 DEF Flushes
  <2> QED
    BY <1>5, <2>1, <2>2 DEF SnoopSent, SnoopReady
<1> QED
  BY <1>3, <1>4, <1>5

\* A cache whose answer is on the bus has asked for that line; its request is gone.
LEMMA FillsRight ==
  ASSUME NEW ready, FirstRight(ready), NEW m \in Masters, Fills(m)
  PROVE  /\ Awaiting(m) /\ OnBus({"Fill", "Flush"}) /\ ~OnBus(Requests) /\ bus.tag[1] = m /\ req[m] = None
         /\ op[m] # None /\ op[m] \in Accesses /\ op[m].at = "miss" /\ ~op[m].upgr /\ ~op[m].evict
         /\ op[m].line = bus.line /\ ~Holds(m, bus.line)
         /\ RoundHas(bus.line)
         /\ \A n \in Masters : n # m => ~Fills(n)
<1>1. half = 0 /\ RequestOf(m) /\ bus # None /\ bus \in Rounds
  BY DEF FirstRight, FirstHalf, RequestsFollow, Fills, Snooped, MemTypes
<1>2. Awaiting(m) /\ bus.tag = <<m, pend[m].tag>>
  BY DEF Fills, Awaiting
<1>3. req[m] = None /\ op[m] # None /\ op[m] \in Accesses /\ op[m].at = "miss"
  <2>1. op[m] # None /\ op[m].at # "bank"
    BY <1>1, <1>2 DEF RequestOf, Awaiting
  <2>2. op[m] \in Accesses
    BY <2>1 DEF FirstRight, MemTypes
  <2> QED
    BY <1>1, <1>2, <2>1, <2>2 DEF RequestOf, Awaiting, Asking, Accesses
<1>4. ~op[m].upgr /\ ~op[m].evict
  <2>1. Command(op[m]) \in Reads
    BY <1>1, <1>2 DEF RequestOf, Awaiting
  <2> QED
    BY <2>1 DEF Command, Reads
<1>5. OnBus({"Fill", "Flush"}) /\ ~OnBus(Requests)
  BY <1>1, <1>2 DEF Fills, Snooped, OnBus, Requests
<1>6. bus.cmd = "Fill" \/ \E n \in Masters : SnoopSent(n)
  <2>1. bus.tag[1] = m
    BY <1>2
  <2>2. ~Sent(m)
    BY <1>3 DEF Sent
  <2>3. bus.cmd = "Flush" => OnBus(Commands)
    BY <1>1 DEF OnBus, Commands
  <2> QED
    BY <1>5, <2>1, <2>2, <2>3 DEF FirstRight, RoundIsOf, OnBus
<1>7. RoundHas(bus.line)
  BY <1>1, <1>5, <1>6 DEF RoundHas, FillHas, GivenHas, OnBus
<1>8. op[m].line = bus.line
  <2>1. bus.line \in Lines
    BY <1>1 DEF Rounds
  <2>2. CASE bus.line \in Ram
    <3>1. WaitsFor(bus.tag, bus.line)
      BY <1>7, <2>2 DEF FirstRight, StoreParts, OneOf, Expected
    <3> QED
      BY <1>2, <3>1 DEF WaitsFor, Due
  <2>3. CASE bus.line \in Rom
    <3>1. WantsThis(bus.tag, bus.line)
      BY <1>1, <1>6, <2>3 DEF FirstRight, StoreParts, RomAnswers
    <3> QED
      BY <1>2, <3>1 DEF WantsThis
  <2> QED
    BY <2>1, <2>2, <2>3 DEF Lines
<1>9. ~Holds(m, bus.line)
  BY <1>3, <1>4, <1>8 DEF FirstRight, StoreParts, WaysFollow, WayOf
<1>10. \A n \in Masters : n # m => ~Fills(n)
  BY <1>2 DEF Fills
<1> QED
  BY <1>2, <1>3, <1>4, <1>5, <1>7, <1>8, <1>9, <1>10

\* The access of a cache, what is pending, and its request.
LEMMA FirstAccess ==
  ASSUME NEW ready, FirstRight(ready), NEW m \in Masters
  PROVE  /\ Fills(m) => /\ op'[m] \in Accesses /\ op'[m] # None /\ op'[m].at = "bank" /\ op'[m].line = op[m].line
                        /\ op'[m].write = op[m].write /\ op'[m].upgr = op[m].upgr /\ op'[m].evict = op[m].evict
                        /\ pend'[m] = None /\ req'[m] = None
         /\ ~Fills(m) => /\ op'[m] = IF m \in ToBanks THEN None ELSE op[m]
                         /\ pend'[m] = pend[m]
         /\ m \in ToBanks <=> op[m] # None /\ op[m].at = "bank" /\ ~Gives(m)
         /\ m \in ToBanks => pend[m] = None /\ req[m] = None
         /\ (Awaiting(m)' <=> Awaiting(m) /\ ~Fills(m)) /\ (Awaiting(m) => op[m] # None /\ op[m].at = "miss" /\ req[m] = None)
         /\ (Sent(m)' <=> Sent(m))
         /\ (req'[m] = None <=> req[m] = None)
         /\ req[m] # None => /\ op[m] # None /\ op[m].at = "miss" /\ op'[m] = op[m] /\ ~Fills(m) /\ ~Awaiting(m)
                             /\ pend[m] # None /\ req[m].cmd = Command(op[m]) /\ (req[m].cmd # "Flush" => req[m].line = op[m].line)
                             /\ req[m] \in Sending /\ req'[m] \in Sending
                             /\ req'[m].cmd = req[m].cmd /\ req'[m].at = req[m].at
                             /\ req'[m].line = req[m].line /\ req'[m].data = req[m].data
                             /\ req'[m].left = IF req[m].at = "data" THEN req[m].left - 1 ELSE req[m].left
                             /\ req[m].at = "data" => req[m].left > 0
         /\ op[m] # None => op[m] \in Accesses
<1>1. /\ op' = [n \in Masters |->
                IF n \in ToBanks THEN None
                ELSE IF Fills(n) /\ op[n] # None THEN [op[n] EXCEPT !.at = "bank"] ELSE op[n]]
      /\ pend'[m] = IF Fills(m) THEN None ELSE pend[m]
      /\ req[m] = None => req'[m] = None
      /\ req[m] # None => /\ req[m] \in Sending /\ req'[m] \in Sending
                          /\ req'[m].cmd = req[m].cmd /\ req'[m].at = req[m].at
                          /\ req'[m].line = req[m].line /\ req'[m].data = req[m].data
                          /\ req'[m].left = IF req[m].at = "data" THEN req[m].left - 1 ELSE req[m].left
      /\ ~Busy(m)
  BY FirstMoves DEF FirstRight
<1>2. op'[m] = IF m \in ToBanks THEN None
                ELSE IF Fills(m) /\ op[m] # None THEN [op[m] EXCEPT !.at = "bank"] ELSE op[m]
  BY <1>1
<1>3. m \in ToBanks <=> op[m] # None /\ op[m].at = "bank" /\ ~Gives(m)
  BY <1>1 DEF ToBanks
<1>4. RequestOf(m)
  BY DEF FirstRight, RequestsFollow
<1>5. op[m] # None => op[m] \in Accesses
  BY DEF FirstRight, MemTypes
<1>6. m \in ToBanks => pend[m] = None /\ req[m] = None
  BY <1>3, <1>4 DEF RequestOf, Asking
<1>7. CASE Fills(m)
  <2>1. op[m] # None /\ op[m] \in Accesses /\ op[m].at = "miss" /\ req[m] = None /\ Awaiting(m)
    BY <1>7, FillsRight
  <2>2. op'[m] = [op[m] EXCEPT !.at = "bank"]
    BY <1>2, <1>3, <1>7, <2>1
  <2>3. /\ op'[m] \in Accesses /\ op'[m].at = "bank" /\ op'[m].line = op[m].line
        /\ op'[m].write = op[m].write /\ op'[m].upgr = op[m].upgr /\ op'[m].evict = op[m].evict
    BY <2>1, <2>2 DEF Accesses
  <2>4. op'[m] # None
    BY <2>3, NoneIsNothing
  <2> QED
    BY <1>1, <1>3, <1>6, <1>7, <2>1, <2>3, <2>4 DEF Awaiting, Sent
<1>8. CASE ~Fills(m)
  <2>1. op'[m] = IF m \in ToBanks THEN None ELSE op[m]
    BY <1>2, <1>8
  <2>2. pend'[m] = pend[m]
    BY <1>1, <1>8
  <2>3. req[m] # None => pend[m] # None /\ ~Awaiting(m) /\ Asking(m)
    BY <1>4 DEF RequestOf, Asking, Awaiting
  <2>4. pend[m] # None => op[m] # None /\ op[m].at = "miss"
    BY <1>4, <1>5 DEF RequestOf, Accesses
  <2>5. req'[m] = None <=> req[m] = None
    BY <1>1, NoneIsNothing
  <2>6. req[m] # None /\ req[m].at = "data" => req[m].left > 0
    BY DEF FirstRight, FirstHalf
  <2>7. req[m] # None => /\ req[m].cmd = Command(op[m]) /\ (req[m].cmd # "Flush" => req[m].line = op[m].line)
    BY <1>4, <2>3 DEF RequestOf
  <2>8. (Sent(m)' <=> Sent(m))
    BY <1>1, <2>5 DEF Sent
  <2>9. (Awaiting(m)' <=> Awaiting(m)) /\ (Awaiting(m) => req[m] = None /\ pend[m] # None)
    BY <2>2, <2>3 DEF Awaiting
  <2>10. req[m] # None => op'[m] = op[m]
    BY <1>6, <2>1
  <2> QED
    BY <1>1, <1>3, <1>5, <1>6, <1>8, <2>1, <2>2, <2>3, <2>4, <2>5, <2>6, <2>7, <2>8, <2>9, <2>10
<1> QED
  BY <1>7, <1>8

\* Whose request is on the bus: it is answered by nobody so far.
LEMMA FirstRequest ==
  ASSUME NEW ready, FirstRight(ready), OnBus(Requests), NEW q, q = bus.tag[1]
  PROVE  /\ q \in Masters /\ Sent(q) /\ Its(q) /\ req[q] # None /\ bus.tag = <<q, rtag[q]>> /\ bus.cmd = req[q].cmd
         /\ bus.cmd \in Requests /\ bus # None
         /\ op[q] # None /\ op[q].at = "miss" /\ op[q].line = bus.line /\ ~op[q].evict /\ op'[q] = op[q]
         /\ (op[q].upgr <=> bus.cmd = "BusUpgr") /\ (bus.cmd = "BusRd" => ~op[q].write) /\ (bus.cmd = "BusRdX" => op[q].write)
         /\ bus.cmd \in Reads => ~Holds(q, bus.line)
         /\ bus.cmd = "BusUpgr" => bus.line \in Ram /\ Holds(q, bus.line) /\ way[q].state = "S"
         /\ ~Awaiting(q) /\ ~Gives(q) /\ snoop[q] = None /\ snoop'[q] = None /\ rcmd = None
         /\ \A n \in Masters : ~Fills(n) /\ ~SnoopSent(n) /\ (n # q => Snooped(n))
         /\ ~OnBus({"Flush"}) /\ ~OnBus({"Fill"}) /\ \A l : ~RoundHas(l)
<1>1. half = 0 /\ bus # None /\ bus \in Rounds /\ bus.cmd \in Requests
  BY DEF FirstRight, FirstHalf, MemTypes, OnBus
<1>2. q \in Masters /\ OnBus(Commands) /\ ~OnBus({"Flush"}) /\ ~OnBus({"Fill"})
  BY <1>1 DEF Rounds, Tags, OnBus, Commands, Requests
<1>3. Sent(q) /\ Its(q) /\ \A n \in Masters : ~SnoopSent(n)
  BY <1>2 DEF FirstRight, RoundIsOf
<1>4. req[q] # None /\ bus.tag = <<q, rtag[q]>> /\ bus.cmd = req[q].cmd /\ bus.line = req[q].line
  BY <1>3 DEF Sent, Its
<1>5. /\ op[q] # None /\ op[q].at = "miss" /\ op'[q] = op[q] /\ ~Awaiting(q) /\ req[q].cmd = Command(op[q])
      /\ (req[q].cmd # "Flush" => req[q].line = op[q].line)
  BY <1>2, <1>4, FirstAccess
<1>6. /\ ~op[q].evict /\ (op[q].upgr <=> bus.cmd = "BusUpgr") /\ (bus.cmd = "BusRd" => ~op[q].write)
      /\ (bus.cmd = "BusRdX" => op[q].write) /\ bus.cmd # "Flush"
  BY <1>1, <1>4, <1>5 DEF Command, Requests
<1>7. op[q].line = bus.line
  BY <1>4, <1>5, <1>6
<1>8. WayOf(q)
  BY <1>2 DEF FirstRight, StoreParts, WaysFollow
<1>9. bus.cmd \in Reads => ~Holds(q, bus.line)
  BY <1>5, <1>6, <1>7, <1>8 DEF WayOf, Reads
<1>10. bus.cmd = "BusUpgr" => bus.line \in Ram /\ Holds(q, bus.line) /\ way[q].state = "S"
  BY <1>5, <1>6, <1>7, <1>8 DEF WayOf, Holds
<1>11. ~Gives(q)
  BY <1>1, <1>4, <1>6 DEF Gives, SnoopHit, Snooped, Requests
<1>12. snoop[q] = None /\ rcmd = None
  BY <1>1 DEF FirstRight, StoreParts, SentOnce, RoundIsOf
<1>13. snoop'[q] = None
  BY <1>2, <1>11, <1>12, FirstSnoops
<1>14. \A n \in Masters : ~Fills(n) /\ (n # q => Snooped(n))
  BY <1>1, <1>2, FillsRight DEF Snooped
<1>15. \A l : ~RoundHas(l)
  BY <1>2, <1>3 DEF RoundHas, FillHas, GivenHas
<1> QED
  BY <1>1, <1>2, <1>3, <1>4, <1>5, <1>6, <1>7, <1>9, <1>10, <1>11, <1>12, <1>13, <1>14, <1>15

\* Without a request on the bus nobody is asked for a line, and nothing is nacked.
LEMMA FirstQuiet ==
  ASSUME NEW ready, FirstRight(ready), ~OnBus(Requests)
  PROVE  /\ \A n \in Masters : ~Gives(n) /\ ~Invalidates(n) /\ ~(SnoopHit(n) /\ bus.cmd = "BusRd")
         /\ ~nack' /\ ~dnack' /\ ~RomHears /\ (DramHears => OnBus({"Flush"}))
<1>1. \A n \in Masters : ~Gives(n) /\ ~Invalidates(n) /\ ~(SnoopHit(n) /\ bus.cmd = "BusRd") /\ ~PendConflict(n) /\ ~FlushConflict(n) /\ ~Busy(n)
  BY DEF Gives, Invalidates, SnoopHit, Snooped, PendConflict, FlushConflict, Busy, OnBus, Requests
<1>2. ~nack'
  BY <1>1 DEF FirstRight, FirstHalf, NewNack
<1>3. ~RomHears /\ (DramHears => OnBus({"Flush"}))
  BY DEF RomHears, DramHears, OnBus, Requests
<1>4. DramHears => ready
  BY <1>3, FirstMoves DEF FirstRight, DramHears
<1>5. dnack' = (DramHears /\ ~ready)
  BY DEF FirstRight, FirstHalf, DramCommand
<1> QED
  BY <1>1, <1>2, <1>3, <1>4, <1>5

\* The controller takes a command.
LEMMA FirstTakes ==
  ASSUME NEW ready, FirstRight(ready)
  PROVE  /\ dcmd' # None <=> DramHears /\ ready
         /\ dcmd' # None => /\ (dcmd'.write <=> bus.cmd = "Flush") /\ dcmd'.tag = bus.tag /\ dcmd'.line = bus.line
                            /\ dcmd'.data = bus.data /\ bus.line \in Ram /\ ~NewNack /\ bus # None
                            /\ bus.cmd # "Flush" => /\ OnBus(Requests) /\ bus.cmd \in Reads /\ ~NewHit
                                                    /\ ~nack' /\ ~dnack'
         /\ nack' = NewNack /\ dnack' = (DramHears /\ ~ready)
         /\ OnBus({"Flush"}) /\ bus.line \in Ram => dcmd' # None
         /\ rcmd' # rcmd => /\ RomHears /\ rcmd = None /\ OnBus(Requests) /\ bus.line \in Rom
                            /\ rcmd' = [tag |-> bus.tag, line |-> bus.line]
         /\ read_queue' = read_queue
<1>1. DramCommand(ready) /\ RomRead /\ half = 0
  BY DEF FirstRight, FirstHalf
<1>2. ASSUME DramHears, ready
      PROVE  dcmd' # None /\ dcmd' = [write |-> bus.cmd = "Flush", tag |-> bus.tag, line |-> bus.line, data |-> bus.data]
  <2>1. dcmd' = [write |-> bus.cmd = "Flush", tag |-> bus.tag, line |-> bus.line, data |-> bus.data]
    BY <1>1, <1>2 DEF DramCommand
  <2>2. bus \in Rounds
    BY <1>2 DEF DramHears, OnBus, FirstRight, MemTypes
  <2>3. bus.tag \in Tags /\ bus.line \in Lines /\ bus.data \in Data
    BY <2>2 DEF Rounds
  <2>4. dcmd' \in DramTakes
    BY <2>1, <2>3 DEF DramTakes
  <2> QED
    BY <2>1, <2>4, NoneIsNothing
<1>3. dcmd' # None <=> DramHears /\ ready
  BY <1>1, <1>2 DEF DramCommand
<1>4. DramHears => /\ bus.line \in Ram /\ ~NewNack /\ bus # None
                   /\ bus.cmd # "Flush" => OnBus(Requests) /\ bus.cmd \in Reads /\ ~NewHit
  BY DEF DramHears, OnBus, Requests, Reads
<1>5. nack' = NewNack /\ dnack' = (DramHears /\ ~ready)
  BY <1>1 DEF FirstRight, FirstHalf, DramCommand
<1>6. OnBus({"Flush"}) /\ bus.line \in Ram => DramHears /\ ready
  BY FirstMoves DEF FirstRight
<1>7. rcmd' # rcmd => /\ RomHears /\ rcmd = None /\ OnBus(Requests) /\ bus.line \in Rom
                      /\ rcmd' = [tag |-> bus.tag, line |-> bus.line]
  BY <1>1 DEF RomRead, RomHears, OnBus, Requests
<1>8. read_queue' = read_queue
  BY <1>1 DEF DramCommand, dramVars, CmdData, cmddata_calltf, dramsim_cmddata
<1>9. DramHears /\ ready => ~nack' /\ ~dnack'
  BY <1>4, <1>5
<1>10. dcmd' # None => /\ (dcmd'.write <=> bus.cmd = "Flush") /\ dcmd'.tag = bus.tag /\ dcmd'.line = bus.line
                      /\ dcmd'.data = bus.data
  <2> SUFFICES ASSUME DramHears, ready
               PROVE  /\ (dcmd'.write <=> bus.cmd = "Flush") /\ dcmd'.tag = bus.tag /\ dcmd'.line = bus.line
                      /\ dcmd'.data = bus.data
    BY <1>3
  <2>1. PICK b \in BOOLEAN : b <=> bus.cmd = "Flush"
    OBVIOUS
  <2>2. dcmd' = [write |-> b, tag |-> bus.tag, line |-> bus.line, data |-> bus.data]
    BY <1>2, <2>1
  <2> QED
    BY <2>1, <2>2
<1> QED
  BY <1>3, <1>4, <1>5, <1>6, <1>7, <1>8, <1>9, <1>10

\* The library, with the command that the controller had.
LEMMA FirstLibrary ==
  ASSUME NEW ready, FirstRight(ready)
  PROVE  /\ dcmd = None => UNCHANGED <<transactions, write_queue>>
         /\ \E N \in Nat :
              /\ DOMAIN transactions = 1 .. N
              /\ DOMAIN transactions' = IF dcmd = None THEN 1 .. N ELSE 1 .. N + 1
              /\ \A j \in 1 .. N : transactions'[j] = transactions[j]
              /\ dcmd # None => /\ transactions'[N + 1].tag = dcmd.tag /\ transactions'[N + 1].write = dcmd.write
                                /\ transactions'[N + 1].addr = LineBytes * dcmd.line
                                /\ dcmd.line \in Ram /\ dcmd.write \in BOOLEAN /\ dcmd.tag \in Tags
         /\ dcmd # None /\ ~dcmd.write => write_queue' = write_queue
         /\ dcmd # None /\ dcmd.write =>
              /\ dcmd.tag \notin DOMAIN write_queue /\ DOMAIN write_queue' = DOMAIN write_queue \cup {dcmd.tag}
              /\ write_queue'[dcmd.tag] = Packed(dcmd.data)
         /\ \A t \in DOMAIN write_queue : write_queue'[t] = write_queue[t]
         /\ memory' = memory
<1>1. DramCommand(ready)
  BY DEF FirstRight, FirstHalf
<1>2. transactions \in Seq([tag : Tags, addr : Addrs, write : BOOLEAN])
  BY DEF FirstRight, DramTypes
<1>3. PICK N : N = Len(transactions)
  OBVIOUS
<1>4. N \in Nat /\ DOMAIN transactions = 1 .. N
  BY <1>2, <1>3
<1>5. CASE dcmd = None
  <2>1. UNCHANGED <<transactions, write_queue, memory>>
    BY <1>1, <1>5 DEF DramCommand, dramVars
  <2> QED
    BY <1>4, <1>5, <2>1
<1>6. CASE dcmd # None
  <2>1. dcmd \in DramTakes /\ dcmd.line \in Ram
    BY <1>6 DEF FirstRight, MemTypes
  <2>2. CmdData(dcmd.write, dcmd.tag, WordAddr(dcmd.line), dcmd.data)
    BY <1>1, <1>6 DEF DramCommand
  <2>3. PICK e : e = [tag |-> dcmd.tag, addr |-> LineBytes * dcmd.line, write |-> dcmd.write]
    OBVIOUS
  <2>4. /\ transactions' = Append(transactions, e)
        /\ write_queue' = IF dcmd.write THEN Put(dcmd.tag, Packed(dcmd.data)) ELSE write_queue
        /\ memory' = memory
    BY <2>1, <2>2, <2>3, TakeMoves DEF FirstRight
  <2>5. DOMAIN transactions' = 1 .. N + 1 /\ transactions'[N + 1] = e /\ \A j \in 1 .. N : transactions'[j] = transactions[j]
    BY <1>2, <1>3, <1>4, <2>4
  <2>6. dcmd.write => dcmd.tag \notin DOMAIN write_queue
    BY <1>6, FirstMoves DEF FirstRight
  <2>7. dcmd.write => /\ DOMAIN write_queue' = DOMAIN write_queue \cup {dcmd.tag}
                      /\ write_queue'[dcmd.tag] = Packed(dcmd.data)
                      /\ \A t \in DOMAIN write_queue : write_queue'[t] = write_queue[t]
    BY <2>4, <2>6 DEF Put
  <2>8. dcmd.write \in BOOLEAN /\ dcmd.tag \in Tags
    BY <2>1 DEF DramTakes
  <2> QED
    BY <1>4, <1>6, <2>1, <2>3, <2>4, <2>5, <2>6, <2>7, <2>8
<1> QED
  BY <1>5, <1>6

\* The answers under way for a line of ram.
LEMMA FirstLines ==
  ASSUME NEW ready, FirstRight(ready), NEW l \in Ram
  PROVE  /\ CtlHas(l)' <=> DramHears /\ ready /\ bus.cmd # "Flush" /\ bus.line = l
         /\ \A i \in LibHas(l)' : \/ i \in LibHas(l) /\ transactions'[i].tag = transactions[i].tag
                                  \/ CtlHas(l) /\ transactions'[i].tag = dcmd.tag /\ i \notin LibHas(l)
         /\ \A i, j \in LibHas(l)' : i \notin LibHas(l) /\ j \notin LibHas(l) => i = j
         /\ CtlHas(l) \/ LibHas(l) # {} => LibHas(l)' # {}
         /\ ReadsHave(l)' = ReadsHave(l)
         /\ ~RoundHas(l)' /\ ~FillHas(l)' /\ ~GivenHas(l)'
         /\ \A n : n \in FlushHas(l)' <=> n \in FlushHas(l) \/ (n \in Masters /\ Gives(n) /\ bus.line = l)
         /\ \A n \in FlushHas(l) : SnoopReady(n)' /\ snoop'[n].tag = snoop[n].tag /\ ~Gives(n) /\ n \in Masters
<1>1. half' = 1 /\ l \in Nat
  BY LinesOfRam DEF FirstRight, FirstHalf
<1>2. CtlHas(l)' <=> DramHears /\ ready /\ bus.cmd # "Flush" /\ bus.line = l
  BY FirstTakes DEF CtlHas
<1>3. ReadsHave(l)' = ReadsHave(l)
  BY FirstTakes DEF ReadsHave
<1>4. ~RoundHas(l)' /\ ~FillHas(l)' /\ ~GivenHas(l)'
  BY <1>1 DEF RoundHas, FillHas, GivenHas
<1>5. ASSUME NEW n \in Masters
      PROVE  /\ n \in FlushHas(l)' <=> n \in FlushHas(l) \/ (Gives(n) /\ bus.line = l)
             /\ n \in FlushHas(l) => SnoopReady(n)' /\ snoop'[n].tag = snoop[n].tag /\ ~Gives(n)
  <2>1. CASE Gives(n)
    BY <2>1, FirstSnoops DEF FlushHas
  <2>2. CASE ~Gives(n)
    BY <2>2, FirstSnoops DEF FlushHas
  <2> QED
    BY <2>1, <2>2
<1>6. FlushHas(l) \subseteq Masters /\ FlushHas(l)' \subseteq Masters
  BY DEF FlushHas
<1>7. PICK N \in Nat :
              /\ DOMAIN transactions = 1 .. N
              /\ DOMAIN transactions' = IF dcmd = None THEN 1 .. N ELSE 1 .. N + 1
              /\ \A j \in 1 .. N : transactions'[j] = transactions[j]
              /\ dcmd # None => /\ transactions'[N + 1].tag = dcmd.tag /\ transactions'[N + 1].write = dcmd.write
                                /\ transactions'[N + 1].addr = LineBytes * dcmd.line
                                /\ dcmd.line \in Ram /\ dcmd.write \in BOOLEAN /\ dcmd.tag \in Tags
  BY FirstLibrary
<1>8. \A j : j \in 1 .. N + 1 <=> j \in 1 .. N \/ j = N + 1
  BY <1>7
<1>9. N + 1 \notin 1 .. N
  BY <1>7
<1>10. \A j \in 1 .. N : j \in LibHas(l)' <=> j \in LibHas(l)
  BY <1>7, <1>8 DEF LibHas
<1>11. dcmd # None => (N + 1 \in LibHas(l)' <=> CtlHas(l))
  <2>1. dcmd # None => (dcmd.line = l <=> LineBytes * dcmd.line = LineBytes * l)
    BY <1>7, LineOfAddress
  <2> QED
    BY <1>7, <1>8, <2>1 DEF LibHas, CtlHas
<1>12. \A j \in LibHas(l)' : j \in 1 .. N \/ (dcmd # None /\ j = N + 1)
  BY <1>7, <1>8 DEF LibHas
<1>13. \A j \in LibHas(l) : j \in 1 .. N
  BY <1>7 DEF LibHas
<1>14. \A i \in LibHas(l)' : \/ i \in LibHas(l) /\ transactions'[i].tag = transactions[i].tag
                             \/ CtlHas(l) /\ transactions'[i].tag = dcmd.tag /\ i \notin LibHas(l)
  BY <1>7, <1>9, <1>10, <1>11, <1>12, <1>13
<1>15. \A i, j \in LibHas(l)' : i \notin LibHas(l) /\ j \notin LibHas(l) => i = j
  BY <1>10, <1>12
<1>16. CtlHas(l) \/ LibHas(l) # {} => LibHas(l)' # {}
  BY <1>10, <1>11, <1>13 DEF CtlHas
<1> QED
  BY <1>2, <1>3, <1>4, <1>5, <1>6, <1>14, <1>15, <1>16

\* The way of a cache.
LEMMA FirstWays ==
  ASSUME NEW ready, FirstRight(ready), NEW m \in Masters
  PROVE  /\ Fills(m) => /\ way'[m].line = bus.line /\ way'[m].data = bus.data
                        /\ way'[m].state = IF op[m].write THEN "M" ELSE "S"
         /\ ~Fills(m) => /\ way'[m].line = way[m].line /\ way'[m].data = NewData(m, ToBanks)
                         /\ way'[m].state = IF SnoopHit(m) /\ bus.cmd = "BusRd" THEN "S"
                                            ELSE IF Invalidates(m) THEN "I" ELSE way[m].state
         /\ \A l : Holds(m, l)' <=> \/ Fills(m) /\ bus.line = l
                                    \/ ~Fills(m) /\ Holds(m, l) /\ ~Invalidates(m)
         /\ way'[m].state = "M" => \/ Fills(m) /\ op[m].write
                                   \/ ~Fills(m) /\ way[m].state = "M" /\ ~Invalidates(m) /\ ~Gives(m)
<1>1. way' = [n \in Masters |-> WayAfter(n)]
  BY DEF FirstRight, FirstHalf
<1>2. way'[m] = WayAfter(m)
  BY <1>1
<1>3. CASE Fills(m)
  <2>1. op[m] # None /\ ~OnBus(Requests)
    BY <1>3, FillsRight
  <2>2. ~(SnoopHit(m) /\ bus.cmd = "BusRd") /\ ~Invalidates(m)
    BY <2>1, FirstQuiet
  <2> QED
    BY <1>2, <1>3, <2>1, <2>2 DEF WayAfter, StateAfter, Holds
<1>4. CASE ~Fills(m)
  <2>1. /\ way'[m].line = way[m].line /\ way'[m].data = NewData(m, ToBanks)
        /\ way'[m].state = IF SnoopHit(m) /\ bus.cmd = "BusRd" THEN "S"
                                            ELSE IF Invalidates(m) THEN "I" ELSE way[m].state
    <3>1. Invalidates(m) => ~(SnoopHit(m) /\ bus.cmd = "BusRd")
      BY DEF Invalidates
    <3> QED
      BY <1>2, <1>4, <3>1 DEF WayAfter, StateAfter
  <2>2. Invalidates(m) => SnoopHit(m) /\ bus.cmd # "BusRd"
    BY DEF Invalidates
  <2>3. SnoopHit(m) => way[m].state # "I"
    BY DEF SnoopHit, Holds
  <2>4. \A l : Holds(m, l)' <=> Holds(m, l) /\ ~Invalidates(m)
    BY <2>1, <2>2, <2>3 DEF Holds
  <2>5. way'[m].state = "M" => way[m].state = "M" /\ ~Invalidates(m) /\ ~(SnoopHit(m) /\ bus.cmd = "BusRd")
    BY <2>1, <2>2
  <2>6. Gives(m) /\ way[m].state = "M" => Invalidates(m) \/ (SnoopHit(m) /\ bus.cmd = "BusRd")
    BY DEF Gives, Invalidates
  <2> QED
    BY <1>4, <2>1, <2>4, <2>5, <2>6
<1> QED
  BY <1>3, <1>4

\* Somebody waits, or is about to, after the step.
WaitsNext(t, l) ==
  /\ t[1] \in Masters /\ op'[t[1]] # None /\ op'[t[1]].at = "miss" /\ op'[t[1]].line = l
  /\ pend'[t[1]] # None /\ pend'[t[1]].tag # NoTag /\ pend'[t[1]].tag = t[2]
SoonNext(t, l) ==
  /\ t[1] \in Masters /\ op'[t[1]] # None /\ op'[t[1]].at = "miss" /\ op'[t[1]].line = l
  /\ req'[t[1]] # None /\ req'[t[1]].at = "sent" /\ req'[t[1]].cmd \in Reads /\ rtag'[t[1]] = t[2]

\* The next Expected in terms of the next state only.
LEMMA ExpectedNext ==
  ASSUME NEW l \in Ram,
         CtlHas(l)' => \/ WaitsNext(dcmd'.tag, l)
                       \/ SoonNext(dcmd'.tag, l) /\ half' = 1 /\ ~nack' /\ ~dnack',
         \A i \in LibHas(l)' : WaitsNext(transactions'[i].tag, l),
         \A i \in ReadsHave(l)' : WaitsNext(read_queue'[i].tag, l),
         \A n \in FlushHas(l)' :
           \/ WaitsNext(snoop'[n].tag, l)
           \/ /\ SoonNext(snoop'[n].tag, l)
              /\ IF half' = 1 THEN SnoopReady(n)' => ~nack' /\ ~dnack' ELSE ~SnoopReady(n)' /\ ~OnBus(Requests)',
         RoundHas(l)' => WaitsNext(bus'.tag, l)
  PROVE  Expected(l)'
<1>1. CtlHas(l)' => \/ WaitsFor(dcmd.tag, l)'
                    \/ SoonWaits(dcmd.tag, l)' /\ half' = 1 /\ ~nack' /\ ~dnack'
  BY DEF WaitsNext, SoonNext, WaitsFor, SoonWaits, Due, Awaiting, Sent
<1>2. \A i \in LibHas(l)' : WaitsFor(transactions[i].tag, l)'
  BY DEF WaitsNext, WaitsFor, Due, Awaiting
<1>3. \A i \in ReadsHave(l)' : WaitsFor(read_queue[i].tag, l)'
  BY DEF WaitsNext, WaitsFor, Due, Awaiting
<1>4. \A n \in FlushHas(l)' :
           \/ WaitsFor(snoop[n].tag, l)'
           \/ /\ SoonWaits(snoop[n].tag, l)'
              /\ IF half' = 1 THEN SnoopReady(n)' => ~nack' /\ ~dnack' ELSE ~SnoopReady(n)' /\ ~OnBus(Requests)'
  BY DEF WaitsNext, SoonNext, WaitsFor, SoonWaits, Due, Awaiting, Sent
<1>5. RoundHas(l)' => WaitsFor(bus.tag, l)'
  BY DEF WaitsNext, WaitsFor, Due, Awaiting
<1> QED
  BY <1>1, <1>2, <1>3, <1>4, <1>5 DEF Expected

\* Who waits for a line waits on, until the line is on the bus.
LEMMA FirstWaits ==
  ASSUME NEW ready, FirstRight(ready), NEW l \in Ram, NEW t
  PROVE  /\ WaitsFor(t, l) /\ ~RoundHas(l) => WaitsNext(t, l) /\ op'[t[1]] = op[t[1]]
         /\ SoonWaits(t, l) => SoonNext(t, l) /\ op'[t[1]] = op[t[1]]
<1>1. rtag' = rtag
  BY DEF FirstRight, FirstHalf
<1>2. ASSUME WaitsFor(t, l), ~RoundHas(l) PROVE WaitsNext(t, l) /\ op'[t[1]] = op[t[1]]
  <2>1. /\ t[1] \in Masters /\ op[t[1]] # None /\ op[t[1]].at = "miss" /\ op[t[1]].line = l
        /\ Awaiting(t[1]) /\ pend[t[1]].tag = t[2]
    BY <1>2 DEF WaitsFor, Due
  <2>2. ~Fills(t[1])
    BY <1>2, <2>1, FillsRight
  <2>3. pend'[t[1]] = pend[t[1]] /\ op'[t[1]] = op[t[1]]
    BY <2>1, <2>2, FirstAccess
  <2> QED
    BY <2>1, <2>3 DEF WaitsNext, Awaiting
<1>3. ASSUME SoonWaits(t, l) PROVE SoonNext(t, l) /\ op'[t[1]] = op[t[1]]
  <2>1. /\ t[1] \in Masters /\ op[t[1]] # None /\ op[t[1]].at = "miss" /\ op[t[1]].line = l
        /\ Sent(t[1]) /\ req[t[1]].cmd \in Reads /\ rtag[t[1]] = t[2]
    BY <1>3 DEF SoonWaits, Due
  <2>2. req[t[1]] # None
    BY <2>1 DEF Sent
  <2>3. op'[t[1]] = op[t[1]] /\ Sent(t[1])' /\ req'[t[1]].cmd = req[t[1]].cmd
    BY <2>1, <2>2, FirstAccess
  <2> QED
    BY <1>1, <2>1, <2>3 DEF SoonNext, Sent
<1> QED
  BY <1>2, <1>3

\* A request for a line that is under way is nacked.
LEMMA FirstPending ==
  ASSUME NEW ready, FirstRight(ready), NEW l \in Ram, OnBus(Requests), bus.line = l, Under(l)
  PROVE  NewNack /\ (\A n \in Masters : ~Gives(n)) /\ ~DramHears
<1>1. PICK q : q = bus.tag[1]
  OBVIOUS
<1>2. /\ q \in Masters /\ ~Awaiting(q) /\ ~Gives(q) /\ bus # None /\ bus.cmd \in Requests /\ ~RoundHas(l) /\ ~OnBus({"Flush"})
      /\ \A n \in Masters : n # q => Snooped(n)
  BY <1>1, FirstRequest
<1>3. Expected(l) /\ half = 0
  BY DEF FirstRight, FirstHalf, StoreParts, OneOf
<1>4. \E t : WaitsFor(t, l)
  <2>1. CASE CtlHas(l)
    BY <1>3, <2>1 DEF Expected
  <2>2. CASE LibHas(l) # {}
    BY <1>3, <2>2 DEF Expected
  <2>3. CASE ReadsHave(l) # {}
    BY <1>3, <2>3 DEF Expected
  <2>4. CASE FlushHas(l) # {}
    BY <1>3, <2>4 DEF Expected
  <2> QED
    BY <1>2, <2>1, <2>2, <2>3, <2>4 DEF Under, DramHas
<1>5. PICK t : WaitsFor(t, l)
  BY <1>4
<1>6. PICK w \in Masters : w = t[1] /\ Awaiting(w) /\ op[w] # None /\ op[w].line = l /\ op[w].at = "miss"
  BY <1>5 DEF WaitsFor, Due
<1>7. w # q
  BY <1>2, <1>6
<1>8. pend[w] # None /\ pend[w].tag # NoTag /\ pend[w].cmd \in Reads /\ pend[w].cmd = Command(op[w])
  BY <1>6 DEF Awaiting, FirstRight, RequestsFollow, RequestOf
<1>9. PendConflict(w)
  BY <1>2, <1>6, <1>7, <1>8 DEF PendConflict, Reads
<1>10. ~op[w].upgr
  BY <1>8 DEF Command, Reads
<1>11. ~Gives(w)
  BY <1>6, <1>10 DEF FirstRight, StoreParts, WaysFollow, WayOf, Gives, SnoopHit
<1>12. \A n \in Masters : n = w \/ n = q
  BY <1>2, <1>6, <1>7, TwoMasters
<1>13. NewNack
  BY <1>6, <1>9 DEF NewNack
<1> QED
  BY <1>2, <1>11, <1>12, <1>13 DEF DramHears

\* Nobody gives a line that another cache writes with an upgrade.
LEMMA FirstGives ==
  ASSUME NEW ready, FirstRight(ready), NEW n \in Masters, Gives(n)
  PROVE  bus.cmd \in Reads /\ NewHit /\ ~DramHears
<1>1. OnBus(Requests) /\ Holds(n, bus.line) /\ SnoopHit(n)
  BY FirstSnoops DEF Gives
<1>2. PICK q \in Masters : /\ bus.tag[1] = q /\ n # q
                           /\ bus.cmd = "BusUpgr" => Holds(q, bus.line)
                           /\ bus.cmd \in Requests
  BY <1>1, FirstRequest, FirstSnoops
<1>3. bus.cmd # "BusUpgr"
  <2> SUFFICES ASSUME bus.cmd = "BusUpgr" PROVE FALSE
    OBVIOUS
  <2>1. way[n].state = "M" /\ way[n].line = bus.line
    BY <1>1 DEF Gives, Holds
  <2> QED
    BY <1>2, <2>1 DEF FirstRight, StoreParts, Exclusive
<1>4. bus.cmd # "Flush"
  BY <1>2 DEF Requests
<1> QED
  BY <1>1, <1>2, <1>3, <1>4 DEF Requests, Reads, NewHit, DramHears

\* There is one answer afterwards.
LEMMA FirstOnce ==
  ASSUME NEW ready, FirstRight(ready), NEW l \in Ram
  PROVE  /\ OneFor(l)'
         /\ Under(l)' => Under(l) \/ (OnBus(Requests) /\ bus.line = l)
         /\ Under(l) => \/ Under(l)' \/ RoundHas(l)
         /\ Under(l) => ~CtlHas(l)' /\ (\A n \in Masters : ~(Gives(n) /\ bus.line = l))
         /\ CtlHas(l)' => \A n \in Masters : ~(Gives(n) /\ bus.line = l)
<1>1. OneFor(l)
  BY DEF FirstRight, StoreParts, OneOf
<1>2. /\ CtlHas(l)' <=> DramHears /\ ready /\ bus.cmd # "Flush" /\ bus.line = l
      /\ \A i \in LibHas(l)' : \/ i \in LibHas(l) /\ transactions'[i].tag = transactions[i].tag
                               \/ CtlHas(l) /\ transactions'[i].tag = dcmd.tag /\ i \notin LibHas(l)
      /\ \A i, j \in LibHas(l)' : i \notin LibHas(l) /\ j \notin LibHas(l) => i = j
      /\ CtlHas(l) \/ LibHas(l) # {} => LibHas(l)' # {}
      /\ ReadsHave(l)' = ReadsHave(l)
      /\ ~RoundHas(l)' /\ ~FillHas(l)' /\ ~GivenHas(l)'
      /\ \A n : n \in FlushHas(l)' <=> n \in FlushHas(l) \/ (n \in Masters /\ Gives(n) /\ bus.line = l)
  BY FirstLines
<1>3. /\ CtlHas(l)' => OnBus(Requests) /\ bus.line = l /\ ~NewHit
      /\ \A n \in Masters : Gives(n) => OnBus(Requests) /\ NewHit /\ bus.tag[1] # n
  BY <1>2, FirstSnoops, FirstGives DEF DramHears, OnBus, Requests
<1>4. Under(l) => ~CtlHas(l)' /\ (\A n \in Masters : ~(Gives(n) /\ bus.line = l))
  BY <1>2, <1>3, FirstPending
<1>5. Under(l)' => Under(l) \/ (OnBus(Requests) /\ bus.line = l)
  BY <1>2, <1>3 DEF Under, DramHas
<1>6. Under(l) => Under(l)' \/ RoundHas(l)
  BY <1>2 DEF Under, DramHas
<1>7. OneFor(l)'
  <2>1. CASE Under(l)
    <3>1. /\ ~CtlHas(l)' /\ FlushHas(l)' = FlushHas(l)
      BY <1>2, <1>4, <2>1
    <3>2. LibHas(l)' # {} => LibHas(l) # {} \/ CtlHas(l)
      BY <1>2
    <3>3. \A i, j \in LibHas(l)' : i = j
      BY <1>1, <1>2 DEF OneFor
    <3> QED
      BY <1>1, <1>2, <3>1, <3>2, <3>3 DEF OneFor
  <2>2. CASE ~Under(l)
    <3>1. ~CtlHas(l) /\ LibHas(l) = {} /\ ReadsHave(l) = {} /\ FlushHas(l) = {}
      BY <2>2 DEF Under, DramHas
    <3>2. LibHas(l)' = {} /\ ReadsHave(l)' = {}
      BY <1>2, <3>1
    <3>3. CtlHas(l)' => FlushHas(l)' = {}
      BY <1>2, <1>3, <3>1
    <3>4. \A a, b \in FlushHas(l)' : a = b
      <4> SUFFICES ASSUME NEW a \in FlushHas(l)', NEW b \in FlushHas(l)' PROVE a = b
        OBVIOUS
      <4>1. a \in Masters /\ b \in Masters /\ bus.tag[1] # a /\ bus.tag[1] # b /\ OnBus(Requests)
        BY <1>2, <1>3, <3>1
      <4>2. bus.tag[1] \in Masters
        BY <4>1, FirstRequest
      <4> QED
        BY <4>1, <4>2, TwoMasters
    <3> QED
      BY <1>2, <3>2, <3>3, <3>4 DEF OneFor
  <2> QED
    BY <2>1, <2>2
<1> QED
  BY <1>2, <1>3, <1>4, <1>5, <1>6, <1>7

\* It is expected.
LEMMA FirstExpected ==
  ASSUME NEW ready, FirstRight(ready), NEW l \in Ram
  PROVE  Expected(l)'
<1>1. OneFor(l) /\ Expected(l) /\ half = 0 /\ half' = 1 /\ rtag' = rtag
  BY DEF FirstRight, FirstHalf, StoreParts, OneOf
<1>2. /\ CtlHas(l)' <=> DramHears /\ ready /\ bus.cmd # "Flush" /\ bus.line = l
      /\ \A i \in LibHas(l)' : \/ i \in LibHas(l) /\ transactions'[i].tag = transactions[i].tag
                               \/ CtlHas(l) /\ transactions'[i].tag = dcmd.tag /\ i \notin LibHas(l)
      /\ ReadsHave(l)' = ReadsHave(l)
      /\ ~RoundHas(l)'
      /\ \A n : n \in FlushHas(l)' <=> n \in FlushHas(l) \/ (n \in Masters /\ Gives(n) /\ bus.line = l)
      /\ \A n \in FlushHas(l) : SnoopReady(n)' /\ snoop'[n].tag = snoop[n].tag /\ ~Gives(n) /\ n \in Masters
  BY FirstLines
<1>3. ASSUME OnBus(Requests), bus.line = l, bus.cmd \in Reads PROVE SoonNext(bus.tag, l)
  <2>1. PICK q : q = bus.tag[1]
    OBVIOUS
  <2>2. /\ q \in Masters /\ Sent(q) /\ req[q] # None /\ bus.tag = <<q, rtag[q]>> /\ bus.cmd = req[q].cmd
        /\ op[q] # None /\ op[q].at = "miss" /\ op[q].line = bus.line /\ op'[q] = op[q]
    BY <1>3, <2>1, FirstRequest
  <2>3. Sent(q)' /\ req'[q].cmd = req[q].cmd
    BY <2>2, FirstAccess
  <2> QED
    BY <1>1, <1>3, <2>1, <2>2, <2>3 DEF SoonNext, Sent
<1>4. CtlHas(l)' => SoonNext(dcmd'.tag, l) /\ half' = 1 /\ ~nack' /\ ~dnack'
  <2> SUFFICES ASSUME CtlHas(l)' PROVE SoonNext(dcmd'.tag, l) /\ ~nack' /\ ~dnack'
    BY <1>1
  <2>1. dcmd' # None /\ bus.cmd # "Flush" /\ bus.line = l
    BY <1>2 DEF CtlHas
  <2>2. dcmd'.tag = bus.tag /\ OnBus(Requests) /\ bus.cmd \in Reads /\ ~nack' /\ ~dnack'
    BY <2>1, FirstTakes
  <2> QED
    BY <1>3, <2>1, <2>2
<1>5. \A i \in LibHas(l)' : WaitsNext(transactions'[i].tag, l)
  <2> SUFFICES ASSUME NEW i \in LibHas(l)' PROVE WaitsNext(transactions'[i].tag, l)
    OBVIOUS
  <2>1. WaitsFor(transactions'[i].tag, l) /\ ~RoundHas(l)
    <3>1. CASE i \in LibHas(l) /\ transactions'[i].tag = transactions[i].tag
      BY <1>1, <3>1 DEF Expected, OneFor
    <3>2. CASE CtlHas(l) /\ transactions'[i].tag = dcmd.tag
      BY <1>1, <3>2 DEF Expected, OneFor
    <3> QED
      BY <1>2, <3>1, <3>2
  <2> QED
    BY <2>1, FirstWaits
<1>6. \A i \in ReadsHave(l)' : WaitsNext(read_queue'[i].tag, l)
  <2> SUFFICES ASSUME NEW i \in ReadsHave(l)' PROVE WaitsNext(read_queue'[i].tag, l)
    OBVIOUS
  <2>1. WaitsFor(read_queue[i].tag, l) /\ ~RoundHas(l) /\ read_queue' = read_queue
    BY <1>1, <1>2, FirstTakes DEF Expected, OneFor
  <2> QED
    BY <2>1, FirstWaits
<1>7. ASSUME NEW n \in FlushHas(l)'
      PROVE  \/ WaitsNext(snoop'[n].tag, l)
             \/ /\ SoonNext(snoop'[n].tag, l)
                /\ SnoopReady(n)' => ~nack' /\ ~dnack'
  <2>1. CASE n \in FlushHas(l)
    <3>1. ~RoundHas(l) /\ snoop'[n].tag = snoop[n].tag
      BY <1>1, <1>2, <2>1 DEF OneFor
    <3>2. CASE WaitsFor(snoop[n].tag, l)
      BY <3>1, <3>2, FirstWaits
    <3>3. CASE ~WaitsFor(snoop[n].tag, l)
      <4>1. SoonWaits(snoop[n].tag, l) /\ ~OnBus(Requests)
        BY <1>1, <2>1, <3>3 DEF Expected
      <4> QED
        BY <3>1, <4>1, FirstWaits, FirstQuiet
    <3> QED
      BY <3>2, <3>3
  <2>2. CASE n \notin FlushHas(l)
    <3>1. n \in Masters /\ Gives(n) /\ bus.line = l
      BY <1>2, <2>2
    <3>2. snoop'[n].tag = bus.tag /\ snoop'[n].at = "data" /\ OnBus(Requests) /\ bus.cmd \in Reads
      BY <3>1, FirstSnoops, FirstGives
    <3>3. SoonNext(bus.tag, l)
      BY <1>3, <3>1, <3>2
    <3> QED
      BY <3>2, <3>3 DEF SnoopReady
  <2> QED
    BY <2>1, <2>2
<1> QED
  BY <1>1, <1>2, <1>4, <1>5, <1>6, <1>7, ExpectedNext

\* Nobody may write it meanwhile.
LEMMA FirstHeld ==
  ASSUME NEW ready, FirstRight(ready), NEW l \in Ram
  PROVE  Held(l)'
<1>1. OneFor(l) /\ Expected(l) /\ Held(l) /\ half = 0 /\ half' = 1
  BY DEF FirstRight, FirstHalf, StoreParts, OneOf
<1>2. /\ CtlHas(l)' <=> DramHears /\ ready /\ bus.cmd # "Flush" /\ bus.line = l
      /\ \A i \in LibHas(l)' : i \in LibHas(l) \/ CtlHas(l)
      /\ ReadsHave(l)' = ReadsHave(l)
      /\ ~FillHas(l)' /\ ~GivenHas(l)'
      /\ \A n : n \in FlushHas(l)' <=> n \in FlushHas(l) \/ (n \in Masters /\ Gives(n) /\ bus.line = l)
      /\ \A n \in FlushHas(l) : snoop'[n].tag = snoop[n].tag /\ ~Gives(n) /\ n \in Masters
  BY FirstLines
<1>3. \A n \in Masters : Holds(n, l)' => \/ Fills(n) /\ bus.line = l /\ RoundHas(l)
                                         \/ Holds(n, l) /\ ~Invalidates(n) /\ ~Fills(n)
  BY FirstWays, FillsRight
<1>4. ASSUME DramHas(l)', NEW n \in Masters PROVE ~Holds(n, l)'
  <2>1. CASE CtlHas(l)'
    <3>1. OnBus(Requests) /\ bus.cmd \in Reads /\ ~NewHit /\ bus.line = l
      BY <1>2, <2>1, FirstTakes DEF CtlHas
    <3>2. ~Fills(n)
      BY <3>1, FirstRequest
    <3>3. n # bus.tag[1] => Snooped(n)
      BY <3>1, FirstRequest
    <3>4. n = bus.tag[1] => ~Holds(n, l)
      BY <3>1, FirstRequest
    <3> QED
      BY <1>3, <3>1, <3>2, <3>3, <3>4 DEF NewHit, SnoopHit
  <2>2. CASE ~CtlHas(l)'
    <3>1. DramHas(l)
      BY <1>2, <1>4, <2>2 DEF DramHas
    <3>2. ~Holds(n, l) /\ ~RoundHas(l)
      BY <1>1, <3>1 DEF Held, DramHas, OneFor
    <3> QED
      BY <1>3, <3>2
  <2> QED
    BY <2>1, <2>2
<1>5. ASSUME NEW n \in FlushHas(l)', Holds(n, l)'
      PROVE  way'[n].state = "S" /\ ~op'[snoop'[n].tag[1]].write
  <2>1. n \in Masters /\ FlushHas(l) \in SUBSET Masters
    BY <1>5 DEF FlushHas
  <2>2. CASE n \in FlushHas(l)
    <3>1. ~RoundHas(l)
      BY <1>1, <2>2 DEF OneFor
    <3>2. Holds(n, l) /\ ~Invalidates(n) /\ ~Fills(n)
      BY <1>3, <1>5, <2>1, <3>1
    <3>3. way[n].state = "S" /\ ~op[snoop[n].tag[1]].write
      BY <1>1, <2>2, <3>2 DEF Held
    <3>4. way'[n].state = "S"
      BY <2>1, <3>2, <3>3, FirstWays
    <3>5. snoop'[n].tag = snoop[n].tag
      BY <1>2, <2>2
    <3>6. op'[snoop[n].tag[1]] = op[snoop[n].tag[1]]
      BY <1>1, <2>2, <3>1, FirstWaits DEF Expected
    <3> QED
      BY <3>3, <3>4, <3>5, <3>6
  <2>3. CASE n \notin FlushHas(l)
    <3>1. Gives(n) /\ bus.line = l
      BY <1>2, <2>3
    <3>2. OnBus(Requests) /\ snoop'[n].tag = bus.tag /\ bus.cmd \in Reads
      BY <2>1, <3>1, FirstSnoops, FirstGives
    <3>3. ~Fills(n)
      BY <2>1, <3>2, FirstRequest
    <3>4. ~Invalidates(n)
      BY <1>3, <1>5, <2>1, <3>3
    <3>5. SnoopHit(n) /\ bus.cmd = "BusRd"
      BY <3>1, <3>2, <3>4 DEF Gives, Invalidates, Reads
    <3>6. way'[n].state = "S"
      BY <2>1, <3>3, <3>5, FirstWays
    <3>7. ~op[bus.tag[1]].write /\ op'[bus.tag[1]] = op[bus.tag[1]]
      BY <3>2, <3>5, FirstRequest
    <3> QED
      BY <3>2, <3>6, <3>7
  <2> QED
    BY <2>2, <2>3
<1> QED
  BY <1>2, <1>4, <1>5 DEF Held

\* At most one answer for a line of ram is under way after the first half.
LEMMA FirstFlows ==
  ASSUME NEW ready, FirstRight(ready)
  PROVE  \A l \in Ram : OneOf(l)'
BY FirstOnce, FirstExpected, FirstHeld DEF OneOf

\* Who holds a line after the step.
HoldsNext(m, l) == way'[m].state # "I" /\ way'[m].line = l

\* A cache has a line after the first half if it fills it, or had it and was not told to drop it.
LEMMA FirstHolds ==
  ASSUME NEW ready, FirstRight(ready), NEW m \in Masters, NEW l
  PROVE  /\ HoldsNext(m, l) <=> Holds(m, l)'
         /\ HoldsNext(m, l) <=> \/ Fills(m) /\ bus.line = l
                                \/ ~Fills(m) /\ Holds(m, l) /\ ~Invalidates(m)
<1>1. HoldsNext(m, l) <=> Holds(m, l)'
  BY DEF HoldsNext, Holds
<1>2. Holds(m, l)' <=> \/ Fills(m) /\ bus.line = l
                       \/ ~Fills(m) /\ Holds(m, l) /\ ~Invalidates(m)
  BY FirstWays
<1> QED
  BY <1>1, <1>2

\* The accesses and requests still fit the lines.
LEMMA FirstAccesses ==
  ASSUME NEW ready, FirstRight(ready)
  PROVE  WaysFollow'
<1> SUFFICES ASSUME NEW m \in Masters PROVE WayOf(m)'
  BY DEF WaysFollow
<1>1. WayOf(m) /\ half' = 1
  BY DEF FirstRight, FirstHalf, StoreParts, WaysFollow
<1>2. Ram' = Ram
  BY DEF Ram
<1>3. CASE Fills(m)
  <2>1. /\ op[m] # None /\ ~op[m].upgr /\ ~op[m].evict /\ op[m].line = bus.line
        /\ op'[m].at = "bank" /\ op'[m].line = op[m].line /\ req'[m] = None
        /\ op'[m].write = op[m].write /\ op'[m].upgr = op[m].upgr /\ op'[m].evict = op[m].evict
    BY <1>3, FillsRight, FirstAccess
  <2>2. way'[m].line = bus.line /\ way'[m].state = IF op[m].write THEN "M" ELSE "S"
    BY <1>3, FirstWays
  <2>3. op[m].write => op[m].line \in Ram
    BY <1>1, <2>1 DEF WayOf
  <2> QED
    BY <1>1, <1>2, <2>1, <2>2, <2>3 DEF WayOf
<1>4. CASE ~Fills(m)
  <2>1. way'[m].line = way[m].line
    BY <1>4, FirstWays
  <2>2. way'[m].state = "M" => way[m].state = "M"
    BY <1>4, FirstWays
  <2>3. op'[m] = None \/ op'[m] = op[m]
    BY <1>4, FirstAccess
  <2>4. ASSUME op'[m] # None, op[m].upgr PROVE way'[m].state = "S"
    <3>1. op[m] # None /\ op'[m] = op[m] /\ way[m].state = "S" /\ way[m].line = op[m].line
      BY <1>1, <2>3, <2>4 DEF WayOf
    <3>2. ~UpgradeLost(m)
      BY FirstMoves DEF FirstRight
    <3>3. ~Invalidates(m)
      BY <2>4, <3>1, <3>2 DEF UpgradeLost, Invalidates, SnoopHit, Holds
    <3> QED
      BY <1>4, <3>1, <3>3, FirstWays
  <2>5. ASSUME op'[m] # None, op'[m].at = "miss", ~op'[m].upgr PROVE ~HoldsNext(m, op'[m].line)
    <3>1. op'[m] = op[m] /\ ~Holds(m, op[m].line)
      BY <1>1, <2>3, <2>5 DEF WayOf
    <3> QED
      BY <1>4, <3>1, FirstHolds
  <2>6. ASSUME op'[m] # None, op'[m].at = "bank" PROVE way'[m].line = op'[m].line /\ (op'[m].write => way'[m].state = "M")
    <3>1. op'[m] = op[m] /\ op[m] # None /\ m \notin ToBanks
      BY <1>4, <2>6, FirstAccess
    <3>2. Gives(m)
      BY <2>6, <3>1, FirstAccess
    <3>3. way[m].line = op[m].line
      BY <1>1, <2>6, <3>1 DEF WayOf
    <3>4. ~op[m].write
      BY <2>6, <3>1, <3>2, <3>3, FirstMoves, FirstSnoops DEF FirstRight, Holds
    <3> QED
      BY <2>1, <3>1, <3>3, <3>4
  <2>7. ASSUME req'[m] # None
        PROVE  /\ req'[m].cmd = "Flush" => req'[m].line = way'[m].line /\ req'[m].data = way'[m].data
               /\ req'[m].at # "data" => req'[m].left = 0
    <3>1. /\ req[m] # None /\ op[m] # None /\ op[m].at = "miss"
          /\ req'[m].cmd = req[m].cmd /\ req'[m].at = req[m].at
          /\ req'[m].line = req[m].line /\ req'[m].data = req[m].data
          /\ req'[m].left = IF req[m].at = "data" THEN req[m].left - 1 ELSE req[m].left
      BY <2>7, FirstAccess
    <3>2. way'[m].data = NewData(m, ToBanks) /\ m \notin ToBanks
      BY <1>4, <3>1, FirstAccess, FirstWays
    <3>3. way'[m].data = way[m].data
      BY <3>2 DEF NewData
    <3> QED
      BY <1>1, <2>1, <3>1, <3>3 DEF WayOf
  <2>8. op'[m] # None => /\ op'[m].write => op'[m].line \in Ram
                         /\ op'[m].upgr => /\ op'[m].write /\ ~op'[m].evict /\ op'[m].at = "miss"
                                           /\ way'[m].line = op'[m].line
                         /\ op'[m].evict => op'[m].at = "miss" /\ way'[m].line \in Ram /\ way'[m].line # op'[m].line
    BY <1>1, <2>1, <2>3 DEF WayOf
  <2>9. way'[m].state = "M" => way'[m].line \in Ram
    BY <1>1, <2>1, <2>2 DEF WayOf
  <2>11. op'[m] # None /\ op'[m].upgr => way'[m].state = "S"
    BY <2>3, <2>4
  <2> QED
    BY <1>1, <1>2, <2>5, <2>6, <2>7, <2>8, <2>9, <2>11 DEF WayOf, Holds, HoldsNext
<1> QED
  BY <1>3, <1>4

\* What is on the bus is still what was sent.
LEMMA FirstSent ==
  ASSUME NEW ready, FirstRight(ready)
  PROVE  SentOnce'
<1>1. SentOnce /\ half = 0 /\ half' = 1 /\ bus' = bus /\ rtag' = rtag
  BY DEF FirstRight, FirstHalf, StoreParts
<1>2. \A m \in Masters : /\ Sent(m)' <=> Sent(m)
                         /\ Sent(m) => /\ req'[m].cmd = req[m].cmd /\ req'[m].line = req[m].line /\ req'[m].data = req[m].data
                                       /\ Its(m)' <=> Its(m)
  BY <1>1, FirstAccess DEF Sent, Its
<1>3. \A n \in Masters : (SnoopSent(n)' <=> SnoopSent(n)) /\ (SnoopSent(n) => snoop'[n].data = snoop[n].data)
  BY FirstSnoops DEF SnoopSent
<1>4. \A cmds : OnBus(cmds)' <=> OnBus(cmds)
  BY <1>1 DEF OnBus
<1>5. nack' \/ dnack' => OnBus(Requests)
  BY FirstQuiet
<1>6. OnBus({"Flush"}) /\ bus.line \in Ram => dcmd' # None /\ dcmd'.write /\ dcmd'.line = bus.line /\ dcmd'.data = bus.data
  BY FirstTakes DEF OnBus
<1>7. \A m \in Masters : Sent(m)' => Its(m)' \/ req'[m].cmd \in Reads
  BY <1>1, <1>2 DEF SentOnce
<1>8. \A m \in Masters : Sent(m)' /\ req'[m].cmd = "Flush" => bus'.data = req'[m].data
  BY <1>1, <1>2 DEF SentOnce
<1>9. \A n \in Masters : SnoopSent(n)' => /\ bus'.data = snoop'[n].data
                                          /\ \A m \in Masters : Sent(m)' => req'[m].cmd # "Flush"
  BY <1>1, <1>2, <1>3 DEF SentOnce
<1>10. OnBus({"Flush"})' => \E n \in Masters : SnoopSent(n)' \/ (Sent(n)' /\ req'[n].cmd = "Flush")
  BY <1>1, <1>2, <1>3, <1>4 DEF SentOnce
<1> QED
  BY <1>1, <1>4, <1>5, <1>6, <1>7, <1>8, <1>9, <1>10 DEF SentOnce, Ram

\* A cache that writes is alone, before and after.
LEMMA FirstExclusive ==
  ASSUME NEW ready, FirstRight(ready)
  PROVE  Exclusive'
<1>1. /\ Exclusive /\ WaysFollow /\ RequestsFollow /\ RoundIsOf /\ half' = 1 /\ half = 0 /\ bus' = bus
      /\ \A l \in Ram : OneOf(l)
  BY DEF FirstRight, FirstHalf, StoreParts
<1>2. ASSUME NEW m \in Masters, way'[m].state = "M", NEW n \in Masters \ {m}
      PROVE  ~HoldsNext(n, way'[m].line)
  <2>1. CASE Fills(m)
    <3>1. op[m].write /\ op[m].line = bus.line /\ way'[m].line = bus.line /\ RoundHas(bus.line) /\ bus.tag[1] = m
          /\ op[m] # None /\ ~Fills(n)
      BY <1>2, <2>1, FirstWays, FillsRight
    <3>2. bus.line \in Ram
      BY <1>1, <3>1 DEF WaysFollow, WayOf
    <3>3. Held(bus.line)
      BY <1>1, <3>2 DEF OneOf
    <3>4. ~Holds(n, bus.line)
      <4>1. CASE FillHas(bus.line)
        BY <3>3, <4>1 DEF Held
      <4>2. CASE GivenHas(bus.line)
        <5>1. PICK s \in Masters : SnoopSent(s)
          BY <4>2 DEF GivenHas
        <5>2. s # m
          BY <1>1, <3>1, <5>1 DEF RoundIsOf, SnoopSent
        <5>3. s = n
          BY <5>2, TwoMasters
        <5> QED
          BY <3>1, <3>3, <4>2, <5>1, <5>3 DEF Held
      <4> QED
        BY <3>1, <4>1, <4>2 DEF RoundHas
    <3> QED
      BY <3>1, <3>4, FirstHolds
  <2>2. CASE ~Fills(m)
    <3>1. way[m].state = "M" /\ way'[m].line = way[m].line
      BY <1>2, <2>2, FirstWays
    <3>2. PICK l \in Ram : l = way[m].line
      BY <1>1, <3>1 DEF WaysFollow, WayOf
    <3>3. Holds(m, l)
      BY <3>1, <3>2 DEF Holds
    <3>4. ~Under(l) /\ ~Holds(n, l)
      BY <1>1, <3>1, <3>3, NoneUnderWay
    <3>5. ~(Fills(n) /\ bus.line = l)
      BY <3>4, FillsRight DEF Under
    <3>6. ~HoldsNext(n, l)
      BY <3>4, <3>5, FirstHolds
    <3> QED
      BY <3>1, <3>2, <3>6
  <2> QED
    BY <2>1, <2>2
<1>3. ASSUME NEW m \in Masters, ~nack', ~dnack', Sent(m)', req'[m].cmd = "BusUpgr",
             NEW l, l = op'[m].line
      PROVE  ~Under(l)' /\ \A n \in Masters \ {m} : ~HoldsNext(n, l)
  <2>1. Sent(m) /\ req[m] # None /\ req'[m].cmd = req[m].cmd /\ op'[m] = op[m]
    BY <1>3, FirstAccess DEF Sent
  <2>2. Its(m)
    BY <1>3, <2>1 DEF FirstRight, StoreParts, SentOnce, Reads
  <2>3. bus # None /\ bus.cmd = "BusUpgr" /\ bus.tag[1] = m /\ OnBus(Requests)
    BY <1>3, <2>1, <2>2 DEF Its, OnBus, Requests
  <2>4. l \in Ram /\ l = bus.line
    BY <1>3, <2>1, <2>3, FirstRequest
  <2>5. op[m].line = l /\ \A n \in Masters : ~Fills(n) /\ (n # m => Snooped(n))
    BY <2>3, <2>4, FirstRequest
  <2>6. ~NewNack
    BY <1>3, FirstTakes
  <2>7. ~Under(l)
    BY <2>3, <2>4, <2>6, FirstPending
  <2>8. ~CtlHas(l)'
    BY <2>3, FirstTakes DEF CtlHas, Reads
  <2>9. \A n \in Masters : ~Gives(n)
    BY <2>3, FirstGives DEF Reads
  <2>10. ~Under(l)'
    <3>1. /\ \A i \in LibHas(l)' : i \in LibHas(l) \/ CtlHas(l)
          /\ ReadsHave(l)' = ReadsHave(l) /\ ~RoundHas(l)'
          /\ \A n : n \in FlushHas(l)' <=> n \in FlushHas(l) \/ (n \in Masters /\ Gives(n) /\ bus.line = l)
      BY <2>4, FirstLines
    <3> QED
      BY <2>7, <2>8, <2>9, <3>1 DEF Under, DramHas
  <2>11. ASSUME NEW n \in Masters \ {m} PROVE ~HoldsNext(n, l)
    <3>1. Holds(n, l) => Invalidates(n)
      BY <2>3, <2>4, <2>5 DEF Invalidates, SnoopHit
    <3> QED
      BY <2>5, <3>1, FirstHolds
  <2> QED
    BY <2>10, <2>11
<1>4. \A m \in Masters : ~nack' /\ ~dnack' /\ Sent(m)' /\ req'[m].cmd = "BusUpgr" =>
         ~Under(op[m].line)' /\ \A n \in Masters \ {m} : ~Holds(n, op[m].line)'
  <2> SUFFICES ASSUME NEW m \in Masters, ~nack', ~dnack', Sent(m)', req'[m].cmd = "BusUpgr"
               PROVE  ~Under(op[m].line)' /\ \A n \in Masters \ {m} : ~Holds(n, op[m].line)'
    OBVIOUS
  <2>1. PICK l : l = op'[m].line
    OBVIOUS
  <2>2. ~Under(l)' /\ \A n \in Masters \ {m} : ~HoldsNext(n, l)
    BY <1>3, <2>1
  <2>3. ~Under(op[m].line)'
    BY <2>1, <2>2 DEF Under, DramHas, CtlHas, LibHas, ReadsHave, FlushHas, RoundHas, FillHas, GivenHas
  <2> QED
    BY <2>1, <2>2, <2>3 DEF HoldsNext, Holds
<1>5. \A m \in Masters : way'[m].state = "M" => \A n \in Masters \ {m} : ~Holds(n, way[m].line)'
  BY <1>2 DEF Holds, HoldsNext
<1> QED
  BY <1>1, <1>4, <1>5 DEF Exclusive

\* A cache that stores has the only copy.
StoringTo(m, l) == m \in ToBanks /\ op[m].write /\ op[m].line = l

\* A store meets a line that no other cache has and nobody is about to get.
LEMMA FirstStores ==
  ASSUME NEW ready, FirstRight(ready)
  PROVE  /\ \A m \in Masters : \A l : StoringTo(m, l) =>
              /\ l \in Ram /\ l \in Lines /\ Holds(m, l) /\ way[m].state = "M" /\ ~Under(l)
              /\ \A n \in Masters : n # m => ~Holds(n, l) /\ ~StoringTo(n, l)
              /\ ~Gives(m) /\ op[m] # None /\ op[m].at = "bank"
              /\ way[m].data = Latest(l)
         /\ \A l \in Lines : latest'[l] = IF \E m \in Masters : StoringTo(m, l) THEN latest[l] + 1 ELSE latest[l]
         /\ \A m \in Masters : ~Fills(m) /\ way[m].state # "I" => way'[m].data = Content(latest'[way[m].line])
<1>1. ASSUME NEW m \in Masters, NEW l, StoringTo(m, l)
      PROVE  /\ l \in Ram /\ l \in Lines /\ Holds(m, l) /\ way[m].state = "M" /\ ~Under(l)
             /\ \A n \in Masters : n # m => ~Holds(n, l) /\ ~StoringTo(n, l)
             /\ ~Gives(m) /\ op[m] # None /\ op[m].at = "bank"
             /\ way[m].data = Latest(l)
  <2>1. op[m] # None /\ op[m].at = "bank" /\ ~Gives(m) /\ op[m].write /\ op[m].line = l
    BY <1>1, FirstAccess DEF StoringTo
  <2>2. way[m].line = l /\ way[m].state = "M" /\ l \in Ram
    BY <2>1 DEF FirstRight, StoreParts, WaysFollow, WayOf
  <2>3. Holds(m, l) /\ l \in Lines
    BY <2>2, RamAndRom DEF Holds
  <2>4. ~Under(l) /\ \A n \in Masters : n # m => ~Holds(n, l)
    BY <2>2, <2>3, NoneUnderWay DEF FirstRight, StoreParts
  <2>5. ASSUME NEW n \in Masters, n # m, StoringTo(n, l) PROVE FALSE
    <3>1. op[n] # None /\ op[n].at = "bank" /\ op[n].write /\ op[n].line = l
      BY <2>5, FirstAccess DEF StoringTo
    <3>2. Holds(n, l)
      BY <3>1 DEF FirstRight, StoreParts, WaysFollow, WayOf, Holds
    <3> QED
      BY <2>4, <2>5, <3>2
  <2>6. way[m].data = Latest(l)
    BY <2>2 DEF FirstRight, StoreParts, DataIsLatest
  <2> QED
    BY <2>1, <2>2, <2>3, <2>4, <2>5, <2>6
<1>2. ASSUME NEW l \in Lines
      PROVE  latest'[l] = IF \E m \in Masters : StoringTo(m, l) THEN latest[l] + 1 ELSE latest[l]
  <2>1. latest'[l] = latest[l] + Cardinality({m \in {n \in ToBanks : op[n].write} : op[m].line = l})
    BY DEF FirstRight, FirstHalf, Performed
  <2>2. latest[l] \in Nat
    BY DEF FirstRight, MemTypes
  <2>3. ToBanks \subseteq Masters
    BY DEF ToBanks
  <2>4. CASE \E m \in Masters : StoringTo(m, l)
    <3>1. PICK m \in Masters : StoringTo(m, l)
      BY <2>4
    <3>2. {k \in {n \in ToBanks : op[n].write} : op[k].line = l} = {m}
      BY <1>1, <2>3, <3>1 DEF StoringTo
    <3>3. Cardinality({m}) = 1
      BY FS_Singleton
    <3> QED
      BY <2>1, <2>2, <2>4, <3>2, <3>3
  <2>5. CASE ~\E m \in Masters : StoringTo(m, l)
    <3>1. {k \in {n \in ToBanks : op[n].write} : op[k].line = l} = {}
      BY <2>3, <2>5 DEF StoringTo
    <3>2. Cardinality({}) = 0
      BY FS_EmptySet
    <3>3. PICK S : S = {m \in {n \in ToBanks : op[n].write} : op[m].line = l}
      OBVIOUS
    <3>4. S = {} /\ latest'[l] = latest[l] + Cardinality(S)
      BY <2>1, <3>1, <3>3
    <3>5. latest'[l] = latest[l]
      BY <2>2, <3>2, <3>4
    <3> QED
      BY <2>5, <3>5
  <2> QED
    BY <2>4, <2>5
<1>3. ASSUME NEW m \in Masters, ~Fills(m), way[m].state # "I"
      PROVE  way'[m].data = Content(latest'[way[m].line])
  <2>1. way'[m].data = NewData(m, ToBanks)
    BY <1>3, FirstWays
  <2>2. PICK l \in Lines : l = way[m].line
    BY DEF FirstRight, MemTypes
  <2>3. way[m].data = Content(latest[l]) /\ Holds(m, l)
    BY <1>3, <2>2 DEF FirstRight, StoreParts, DataIsLatest, Latest, Holds
  <2>4. CASE m \in ToBanks /\ op[m].write
    <3>1. StoringTo(m, op[m].line)
      BY <2>4 DEF StoringTo
    <3>2. op[m].line = l
      BY <1>1, <2>2, <3>1 DEF Holds
    <3>3. way'[m].data = Stored(m, l)
      BY <2>1, <2>4, <3>2 DEF NewData
    <3>4. way'[m].data = Content(latest[l] + 1)
      BY <2>3, <3>3 DEF Stored
    <3>5. latest'[l] = latest[l] + 1
      BY <1>2, <3>1, <3>2
    <3> QED
      BY <2>2, <3>4, <3>5
  <2>5. CASE ~(m \in ToBanks /\ op[m].write)
    <3>1. way'[m].data = way[m].data
      BY <2>1, <2>5 DEF NewData
    <3>2. ~\E n \in Masters : StoringTo(n, l)
      <4> SUFFICES ASSUME NEW n \in Masters, StoringTo(n, l) PROVE FALSE
        OBVIOUS
      <4>1. n # m
        BY <2>5 DEF StoringTo
      <4> QED
        BY <1>1, <2>3, <4>1
    <3>3. latest'[l] = latest[l]
      BY <1>2, <3>2
    <3> QED
      BY <2>2, <2>3, <3>1, <3>3
  <2> QED
    BY <2>4, <2>5
<1> QED
  BY <1>1, <1>2, <1>3

\* A line that is under way is not stored to, nor is one that only others have.
LEMMA FirstLatest ==
  ASSUME NEW ready, FirstRight(ready), NEW l \in Lines
  PROVE  /\ l \in Rom => latest'[l] = latest[l]
         /\ Under(l) => latest'[l] = latest[l]
         /\ (\A m \in Masters : Holds(m, l) => m \notin ToBanks \/ way[m].state # "M") => latest'[l] = latest[l]
         /\ \A m \in Masters : Holds(m, l) /\ m \notin ToBanks => latest'[l] = latest[l]
<1>1. latest'[l] = latest[l] \/ \E m \in Masters : StoringTo(m, l)
  BY FirstStores
<1>2. \A m \in Masters : StoringTo(m, l) => /\ l \in Ram /\ ~Under(l) /\ Holds(m, l) /\ m \in ToBanks /\ way[m].state = "M"
                                           /\ \A n \in Masters : n # m => ~Holds(n, l)
  BY FirstStores DEF StoringTo
<1> QED
  BY <1>1, <1>2, RamAndRom

\* The data.
LEMMA FirstData ==
  ASSUME NEW ready, FirstRight(ready)
  PROVE  DataIsLatest'
<1>1. DataIsLatest /\ half' = 1 /\ half = 0 /\ RoundIsOf /\ SentOnce
  BY DEF FirstRight, FirstHalf, StoreParts
<1>2. \A l \in Rom : latest'[l] = 0
  BY <1>1, FirstLatest, RamAndRom DEF DataIsLatest
<1>3. ASSUME NEW m \in Masters, way'[m].state # "I" PROVE way'[m].data = Content(latest'[way'[m].line])
  <2>1. CASE Fills(m)
    <3>1. way'[m].line = bus.line /\ way'[m].data = bus.data
      BY <2>1, FirstWays
    <3>2. RoundHas(bus.line) /\ op[m].line = bus.line /\ op[m] \in Accesses
      BY <2>1, FillsRight
    <3>3. bus.line \in Lines
      BY <3>2 DEF Accesses
    <3>4. bus.data = Content(latest[bus.line])
      <4>1. CASE FillHas(bus.line)
        BY <1>1, <4>1 DEF FillHas, DataIsLatest, Latest
      <4>2. CASE GivenHas(bus.line)
        <5>1. PICK s \in Masters : SnoopSent(s)
          BY <4>2 DEF GivenHas
        <5>2. bus.line = snoop[s].line /\ bus.data = snoop[s].data
          BY <1>1, <5>1 DEF RoundIsOf, SentOnce
        <5> QED
          BY <1>1, <5>1, <5>2 DEF DataIsLatest, Latest, SnoopSent
      <4> QED
        BY <3>2, <4>1, <4>2 DEF RoundHas
    <3>5. latest'[bus.line] = latest[bus.line]
      BY <3>2, <3>3, FirstLatest DEF Under
    <3> QED
      BY <3>1, <3>4, <3>5
  <2>2. CASE ~Fills(m)
    <3>1. way'[m].line = way[m].line /\ way[m].state # "I"
      BY <1>3, <2>2, FirstWays DEF SnoopHit, Holds
    <3> QED
      BY <2>2, <3>1, FirstStores
  <2> QED
    BY <2>1, <2>2
<1>4. ASSUME NEW n \in Masters, snoop'[n] # None, ~SnoopSent(n)' PROVE snoop'[n].data = Content(latest'[snoop'[n].line])
  <2>1. CASE Gives(n)
    <3>1. snoop'[n].line = bus.line /\ snoop'[n].data = way[n].data /\ Holds(n, bus.line)
      BY <2>1, FirstSnoops
    <3>2. way[n].data = Content(latest[bus.line]) /\ bus.line \in Lines
      BY <1>1, <3>1 DEF DataIsLatest, Latest, Holds, FirstRight, MemTypes
    <3>3. n \notin ToBanks
      BY <2>1, FirstAccess
    <3> QED
      BY <3>1, <3>2, <3>3, FirstLatest
  <2>2. CASE ~Gives(n)
    <3>1. snoop[n] # None /\ snoop'[n].line = snoop[n].line /\ snoop'[n].data = snoop[n].data /\ ~SnoopSent(n)
      BY <1>4, <2>2, FirstSnoops
    <3>2. snoop[n].data = Content(latest[snoop[n].line]) /\ snoop[n].line \in Lines
      BY <1>1, <3>1 DEF DataIsLatest, Latest, FirstRight, MemTypes, Flushes
    <3>3. Under(snoop[n].line)
      BY <3>1 DEF Under, FlushHas
    <3> QED
      BY <3>1, <3>2, <3>3, FirstLatest
  <2> QED
    BY <2>1, <2>2
<1>5. ASSUME NEW l \in Ram, NEW i \in ReadsHave(l)' PROVE read_queue'[i].line = Packed(Content(latest'[l]))
  <2>1. ReadsHave(l)' = ReadsHave(l) /\ read_queue' = read_queue
    BY FirstLines, FirstTakes
  <2>2. Under(l) /\ l \in Lines
    BY <2>1, RamAndRom DEF Under, DramHas
  <2>3. latest'[l] = latest[l]
    BY <2>2, FirstLatest
  <2> QED
    BY <1>1, <2>1, <2>3 DEF DataIsLatest, Latest
<1>6. \A m \in Masters : way'[m].state # "I" => way'[m].data = Latest(way[m].line)'
  BY <1>3 DEF Latest, Content
<1>7. \A n \in Masters : snoop'[n] # None /\ ~SnoopSent(n)' => snoop'[n].data = Latest(snoop[n].line)'
  BY <1>4 DEF Latest, Content
<1>8. \A l \in Ram : \A i \in ReadsHave(l)' : read_queue'[i].line = Packed(Latest(l))'
  BY <1>5 DEF Latest, Content, Packed
<1> QED
  BY <1>1, <1>2, <1>6, <1>7, <1>8 DEF DataIsLatest, Ram, Rom

\* What the controller takes to write: the answer of a cache, or what one evicts.  No read of
\* the line is in the library.
LEMMA FirstWrites ==
  ASSUME NEW ready, FirstRight(ready), dcmd' # None, dcmd'.write, NEW l, dcmd'.line = l
  PROVE  /\ l \in Ram /\ OnBus({"Flush"}) /\ bus.line = l /\ dcmd'.data = bus.data
         /\ \/ GivenHas(l) /\ bus.data = Latest(l)
            \/ \E q \in Masters : /\ Sent(q) /\ op[q] # None /\ op[q].evict /\ op[q].at = "miss"
                                  /\ way[q].line = l /\ bus.data = way[q].data
         /\ LibHas(l) = {} /\ ~CtlHas(l)
<1>1. half = 0 /\ SentOnce /\ RoundIsOf /\ WaysFollow /\ FlushesFirst
  BY DEF FirstRight, FirstHalf, StoreParts
<1>2. /\ bus # None /\ bus.cmd = "Flush" /\ bus.line = l /\ l \in Ram /\ dcmd'.data = bus.data /\ OnBus({"Flush"})
  BY FirstTakes DEF OnBus
<1>3. OneOf(l)
  BY <1>2 DEF FirstRight, StoreParts
<1>4. CASE \E n \in Masters : SnoopSent(n)
  <2>1. PICK s \in Masters : SnoopSent(s)
    BY <1>4
  <2>2. GivenHas(l)
    BY <1>1, <1>2, <2>1 DEF GivenHas
  <2>3. bus.data = snoop[s].data /\ bus.line = snoop[s].line
    BY <1>1, <2>1 DEF SentOnce, RoundIsOf
  <2>4. bus.data = Latest(l)
    BY <1>1, <1>2, <2>1, <2>3 DEF FirstRight, StoreParts, DataIsLatest, SnoopSent
  <2>5. LibHas(l) = {} /\ ~CtlHas(l)
    BY <1>3, <2>2 DEF OneOf, OneFor, RoundHas
  <2> QED
    BY <1>2, <2>2, <2>4, <2>5
<1>5. CASE ~\E n \in Masters : SnoopSent(n)
  <2>1. PICK q \in Masters : Sent(q) /\ req[q].cmd = "Flush"
    BY <1>1, <1>2, <1>5 DEF SentOnce
  <2>2. Its(q) /\ bus.data = req[q].data /\ req[q] # None
    BY <1>1, <2>1 DEF SentOnce, Reads, Sent
  <2>3. op[q] # None /\ op[q].at = "miss" /\ Command(op[q]) = "Flush"
    BY <2>1, <2>2, FirstAccess
  <2>4. op[q].evict
    BY <2>3 DEF Command
  <2>5. way[q].line = l /\ bus.data = way[q].data
    BY <1>1, <1>2, <2>1, <2>2 DEF Its, WaysFollow, WayOf
  <2>6. LibHas(l) = {} /\ ~CtlHas(l)
    <3>1. CASE way[q].state # "I"
      <4>1. Holds(q, l)
        BY <2>5, <3>1 DEF Holds
      <4> QED
        BY <1>3, <4>1 DEF OneOf, Held, DramHas
    <3>2. CASE way[q].state = "I"
      <4>1. Overtaken(q)
        BY <2>3, <2>4, <3>2 DEF Overtaken
      <4>2. PICK n \in Masters : n # q
        BY TwoMasters
      <4>3. NoReads
        BY <1>1, <4>1, <4>2 DEF FlushesFirst
      <4> QED
        BY <4>3 DEF NoReads, LibHas, CtlHas
    <3> QED
      BY <3>1, <3>2
  <2> QED
    BY <1>2, <2>1, <2>3, <2>4, <2>5, <2>6
<1> QED
  BY <1>4, <1>5

\* The library with one more command.
LEMMA FirstWritesOf ==
  ASSUME NEW ready, FirstRight(ready), NEW l \in Ram
  PROVE  \E N \in Nat :
           /\ DOMAIN transactions = 1 .. N
           /\ \A j \in 1 .. N : transactions'[j] = transactions[j]
           /\ WritesOf(l) \subseteq 1 .. N /\ LibHas(l) \subseteq 1 .. N
           /\ WritesOf(l)' = WritesOf(l) \cup IF dcmd # None /\ dcmd.write /\ dcmd.line = l THEN {N + 1} ELSE {}
           /\ LibHas(l)' = LibHas(l) \cup IF CtlHas(l) THEN {N + 1} ELSE {}
           /\ dcmd # None => transactions'[N + 1].tag = dcmd.tag
<1>1. PICK N \in Nat :
              /\ DOMAIN transactions = 1 .. N
              /\ DOMAIN transactions' = IF dcmd = None THEN 1 .. N ELSE 1 .. N + 1
              /\ \A j \in 1 .. N : transactions'[j] = transactions[j]
              /\ dcmd # None => /\ transactions'[N + 1].tag = dcmd.tag /\ transactions'[N + 1].write = dcmd.write
                                /\ transactions'[N + 1].addr = LineBytes * dcmd.line
                                /\ dcmd.line \in Ram /\ dcmd.write \in BOOLEAN /\ dcmd.tag \in Tags
  BY FirstLibrary
<1>2. \A j : j \in 1 .. N + 1 <=> j \in 1 .. N \/ j = N + 1
  BY <1>1
<1>3. N + 1 \notin 1 .. N
  BY <1>1
<1>4. WritesOf(l) \subseteq 1 .. N /\ LibHas(l) \subseteq 1 .. N
  BY <1>1 DEF WritesOf, LibHas
<1>5. dcmd # None => (dcmd.line = l <=> LineBytes * dcmd.line = LineBytes * l)
  BY <1>1, LineOfAddress
<1>6. \A j \in 1 .. N : (j \in WritesOf(l)' <=> j \in WritesOf(l)) /\ (j \in LibHas(l)' <=> j \in LibHas(l))
  BY <1>1, <1>2 DEF WritesOf, LibHas
<1>7. dcmd # None => /\ N + 1 \in WritesOf(l)' <=> dcmd.write /\ dcmd.line = l
                     /\ N + 1 \in LibHas(l)' <=> CtlHas(l)
  BY <1>1, <1>2, <1>5 DEF WritesOf, LibHas, CtlHas
<1>8. \A j \in WritesOf(l)' \cup LibHas(l)' : j \in 1 .. N \/ (dcmd # None /\ j = N + 1)
  BY <1>1, <1>2 DEF WritesOf, LibHas
<1>9. CtlHas(l) => dcmd # None
  BY DEF CtlHas
<1>10. WritesOf(l)' = WritesOf(l) \cup IF dcmd # None /\ dcmd.write /\ dcmd.line = l THEN {N + 1} ELSE {}
  BY <1>4, <1>6, <1>7, <1>8
<1>11. LibHas(l)' = LibHas(l) \cup IF CtlHas(l) THEN {N + 1} ELSE {}
  BY <1>4, <1>6, <1>7, <1>8, <1>9
<1> QED
  BY <1>1, <1>4, <1>10, <1>11

\* The library takes a write under a tag of its own and behind no read of the line.
LEMMA FirstLibrarian ==
  ASSUME NEW ready, FirstRight(ready)
  PROVE  Library'
<1>1. Library
  BY DEF FirstRight, StoreParts
<1>2. PICK N \in Nat :
              /\ DOMAIN transactions = 1 .. N
              /\ DOMAIN transactions' = IF dcmd = None THEN 1 .. N ELSE 1 .. N + 1
              /\ \A j \in 1 .. N : transactions'[j] = transactions[j]
              /\ dcmd # None => /\ transactions'[N + 1].tag = dcmd.tag /\ transactions'[N + 1].write = dcmd.write
                                /\ dcmd.write \in BOOLEAN
  BY FirstLibrary
<1>3. /\ dcmd = None => write_queue' = write_queue
      /\ dcmd # None /\ ~dcmd.write => write_queue' = write_queue
      /\ dcmd # None /\ dcmd.write =>
              /\ dcmd.tag \notin DOMAIN write_queue /\ DOMAIN write_queue' = DOMAIN write_queue \cup {dcmd.tag}
  BY FirstLibrary
<1>4. \A j : j \in 1 .. N + 1 <=> j \in 1 .. N \/ j = N + 1
  BY <1>2
<1>5. \A j \in DOMAIN transactions' : \/ j \in 1 .. N /\ transactions'[j] = transactions[j]
                                      \/ dcmd # None /\ j = N + 1
  BY <1>2, <1>4
<1>6. \A j \in 1 .. N : j \in DOMAIN transactions'
  BY <1>2, <1>4
<1>7. dcmd # None => N + 1 \in DOMAIN transactions'
  BY <1>2
<1>8. TagsOfWrites' = TagsOfWrites \cup IF dcmd # None /\ dcmd.write THEN {dcmd.tag} ELSE {}
  <2>1. TagsOfWrites' = {transactions'[j].tag : j \in {k \in DOMAIN transactions' : transactions'[k].write}}
    BY DEF TagsOfWrites
  <2>2. ASSUME NEW t \in TagsOfWrites' PROVE t \in TagsOfWrites \/ (dcmd # None /\ dcmd.write /\ t = dcmd.tag)
    <3>1. PICK j \in DOMAIN transactions' : transactions'[j].write /\ transactions'[j].tag = t
      BY <2>1
    <3> QED
      BY <1>2, <1>5, <3>1 DEF TagsOfWrites
  <2>3. ASSUME NEW t \in TagsOfWrites PROVE t \in TagsOfWrites'
    <3>1. PICK j \in 1 .. N : transactions[j].write /\ transactions[j].tag = t
      BY <1>2 DEF TagsOfWrites
    <3>2. j \in DOMAIN transactions' /\ transactions'[j] = transactions[j]
      BY <1>2, <1>6
    <3> QED
      BY <2>1, <3>1, <3>2
  <2>4. ASSUME dcmd # None, dcmd.write PROVE dcmd.tag \in TagsOfWrites'
    BY <1>2, <1>7, <2>1, <2>4
  <2> QED
    BY <2>2, <2>3, <2>4
<1>9. DOMAIN write_queue' = TagsOfWrites'
  BY <1>1, <1>3, <1>8 DEF Library
<1>10. ASSUME NEW a \in DOMAIN transactions', NEW b \in DOMAIN transactions',
              transactions'[a].write /\ transactions'[b].write /\ transactions'[a].tag = transactions'[b].tag
       PROVE  a = b
  <2>1. CASE a \in 1 .. N /\ b \in 1 .. N
    BY <1>1, <1>2, <1>10, <2>1 DEF Library
  <2>2. \A j \in 1 .. N : transactions[j].write => transactions[j].tag \in TagsOfWrites
    BY <1>2 DEF TagsOfWrites
  <2>3. dcmd # None /\ dcmd.write => dcmd.tag \notin TagsOfWrites
    BY <1>1, <1>3 DEF Library
  <2>4. CASE a = N + 1 /\ b \in 1 .. N /\ dcmd # None
    BY <1>2, <1>10, <2>2, <2>3, <2>4
  <2>5. CASE b = N + 1 /\ a \in 1 .. N /\ dcmd # None
    BY <1>2, <1>10, <2>2, <2>3, <2>5
  <2> QED
    BY <1>5, <2>1, <2>4, <2>5
<1>11. ASSUME NEW l \in Ram
       PROVE  /\ WritesOf(l)' # {} => \E i \in WritesOf(l)' : \A j \in WritesOf(l)' : j <= i
              /\ \A i \in LibHas(l)' : /\ \A j \in WritesOf(l)' : j < i
                                       /\ dcmd' # None /\ dcmd'.write => dcmd'.line # l
  <2>1. PICK K \in Nat :
           /\ WritesOf(l) \subseteq 1 .. K /\ LibHas(l) \subseteq 1 .. K
           /\ WritesOf(l)' = WritesOf(l) \cup IF dcmd # None /\ dcmd.write /\ dcmd.line = l THEN {K + 1} ELSE {}
           /\ LibHas(l)' = LibHas(l) \cup IF CtlHas(l) THEN {K + 1} ELSE {}
    BY FirstWritesOf
  <2>2. \A j \in 1 .. K : j < K + 1 /\ j <= K + 1
    BY <2>1
  <2>3. CASE dcmd # None /\ dcmd.write /\ dcmd.line = l
    <3>1. LibHas(l) = {} /\ ~CtlHas(l)
      BY <1>1, <2>3 DEF Library, CtlHas
    <3>2. LibHas(l)' = {}
      BY <2>1, <3>1
    <3>3. K + 1 \in WritesOf(l)' /\ \A j \in WritesOf(l)' : j <= K + 1
      BY <2>1, <2>2, <2>3
    <3> QED
      BY <3>2, <3>3
  <2>4. CASE ~(dcmd # None /\ dcmd.write /\ dcmd.line = l)
    <3>1. WritesOf(l)' = WritesOf(l)
      BY <2>1, <2>4
    <3>2. \A i \in LibHas(l)' : \A j \in WritesOf(l)' : j < i
      BY <1>1, <2>1, <2>2, <3>1 DEF Library
    <3>3. LibHas(l)' # {} => LibHas(l) # {} \/ CtlHas(l)
      BY <2>1
    <3>4. dcmd' # None /\ dcmd'.write /\ dcmd'.line = l => LibHas(l)' = {}
      BY <3>3, FirstWrites
    <3>5. WritesOf(l)' # {} => \E i \in WritesOf(l)' : \A j \in WritesOf(l)' : j <= i
      BY <1>1, <3>1 DEF Library
    <3> QED
      BY <3>2, <3>4, <3>5
  <2> QED
    BY <2>3, <2>4
<1> QED
  BY <1>9, <1>10, <1>11 DEF Library, Ram

\* What memory will hold of a line: the same, unless the line is written.
LEMMA FirstRamLine ==
  ASSUME NEW ready, FirstRight(ready), NEW l \in Ram
  PROVE  RamLine(l)' = IF dcmd' # None /\ dcmd'.write /\ dcmd'.line = l THEN Packed(dcmd'.data) ELSE RamLine(l)
<1>1. RamLinesAre /\ RamLinesAre'
  <2>1. DramTypes /\ DramTypes'
    BY FirstTypes DEF FirstRight
  <2> QED
    BY <2>1, RamLineSays, RamLineSaysNext
<1>2. CASE dcmd' # None /\ dcmd'.write /\ dcmd'.line = l
  BY <1>1, <1>2 DEF RamLinesAre, Packed, Ram
<1>3. CASE ~(dcmd' # None /\ dcmd'.write /\ dcmd'.line = l)
  <2>1. RamLine(l)' = IF WritesOf(l)' # {} THEN write_queue'[transactions'[LastOf(WritesOf(l))'].tag]
                     ELSE LineInMemory(l)'
    BY <1>1, <1>3 DEF RamLinesAre, Ram
  <2>2. LineInMemory(l)' = LineInMemory(l)
    BY FirstLibrary DEF LineInMemory
  <2>3. PICK N \in Nat :
           /\ DOMAIN transactions = 1 .. N
           /\ \A j \in 1 .. N : transactions'[j] = transactions[j]
           /\ WritesOf(l) \subseteq 1 .. N
           /\ WritesOf(l)' = WritesOf(l) \cup IF dcmd # None /\ dcmd.write /\ dcmd.line = l THEN {N + 1} ELSE {}
           /\ dcmd # None => transactions'[N + 1].tag = dcmd.tag
    BY FirstWritesOf
  <2>4. LastOf(WritesOf(l))' = LastOf(WritesOf(l)')
    BY DEF LastOf
  <2>5. CASE dcmd # None /\ dcmd.write /\ dcmd.line = l
    <3>1. RamLine(l) = Packed(dcmd.data)
      BY <1>1, <2>5 DEF RamLinesAre
    <3>2. WritesOf(l)' \in SUBSET Nat /\ N + 1 \in WritesOf(l)' /\ \A j \in WritesOf(l)' : j <= N + 1
      BY <2>3, <2>5
    <3>3. LastOf(WritesOf(l)') = N + 1
      BY <3>2, LastIs
    <3>4. write_queue'[dcmd.tag] = Packed(dcmd.data)
      BY <2>5, FirstLibrary
    <3> QED
      BY <1>3, <2>1, <2>3, <2>4, <2>5, <3>1, <3>2, <3>3, <3>4
  <2>6. CASE ~(dcmd # None /\ dcmd.write /\ dcmd.line = l)
    <3>1. WritesOf(l)' = WritesOf(l)
      BY <2>3, <2>6
    <3>2. RamLine(l) = IF WritesOf(l) # {} THEN write_queue[transactions[LastOf(WritesOf(l))].tag] ELSE LineInMemory(l)
      BY <1>1, <2>6 DEF RamLinesAre
    <3>3. CASE WritesOf(l) = {}
      BY <1>3, <2>1, <2>2, <3>1, <3>2, <3>3
    <3>4. CASE WritesOf(l) # {}
      <4>1. PICK k \in WritesOf(l) : \A j \in WritesOf(l) : j <= k
        BY <3>4 DEF FirstRight, StoreParts, Library
      <4>2. LastOf(WritesOf(l)) = k
        BY <1>1, <4>1, LastIs DEF RamLinesAre
      <4>3. transactions'[k] = transactions[k] /\ transactions[k].tag \in DOMAIN write_queue
        BY <2>3, <4>1 DEF FirstRight, StoreParts, Library, TagsOfWrites, WritesOf
      <4>4. write_queue'[transactions[k].tag] = write_queue[transactions[k].tag]
        BY <4>3, FirstLibrary
      <4> QED
        BY <1>3, <2>1, <2>4, <3>1, <3>2, <3>4, <4>2, <4>3, <4>4
    <3> QED
      BY <3>3, <3>4
  <2> QED
    BY <2>5, <2>6
<1> QED
  BY <1>2, <1>3

\* The line that a cache has cleaned stays in memory.
LEMMA FirstCleaned ==
  ASSUME NEW ready, FirstRight(ready), NEW m \in Masters, Cleaned(m), NEW l, l = way[m].line
  PROVE  l \in Ram /\ MemoryIsLatest(l)'
<1>1. half = 0 /\ WaysFollow /\ Exclusive /\ MemoryFollows /\ FlushesFirst /\ RoundIsOf
  BY DEF FirstRight, FirstHalf, StoreParts
<1>2. op[m] # None /\ op[m].at = "miss" /\ ~op[m].evict /\ ~op[m].upgr /\ way[m].state = "M"
  BY DEF Cleaned
<1>3. l \in Ram /\ Holds(m, l) /\ ~Holds(m, op[m].line)
  BY <1>1, <1>2 DEF WaysFollow, WayOf, Holds
<1>4. l \in Lines /\ OneOf(l) /\ MemoryIsLatest(l)
  BY <1>1, <1>3, RamAndRom DEF FirstRight, StoreParts, MemoryFollows
<1>5. ~Under(l) /\ \A n \in Masters : n # m => ~Holds(n, l)
  BY <1>1, <1>2, <1>3, <1>4, NoneUnderWay
<1>6. m \notin ToBanks
  BY <1>2 DEF ToBanks
<1>7. latest'[l] = latest[l]
  BY <1>3, <1>4, <1>6, FirstLatest
<1>8. ~(dcmd' # None /\ dcmd'.write /\ dcmd'.line = l)
  <2> SUFFICES ASSUME dcmd' # None, dcmd'.write, dcmd'.line = l PROVE FALSE
    OBVIOUS
  <2>1. ~GivenHas(l)
    BY <1>5 DEF Under, RoundHas
  <2>2. PICK q \in Masters : Sent(q) /\ op[q] # None /\ op[q].evict /\ way[q].line = l
    BY <2>1, FirstWrites
  <2>3. q # m /\ way[q].state = "I"
    BY <1>2, <1>5, <2>2 DEF Holds
  <2>4. Overtaken(q)
    BY <2>2, <2>3 DEF Overtaken
  <2>5. Handing(q, m) \/ Handed(q, m)
    BY <1>1, <2>3, <2>4 DEF FlushesFirst
  <2>6. ~Handing(q, m)
    BY <1>3, <2>2 DEF Handing
  <2>7. ~Handed(q, m)
    BY <1>1, <1>2, <2>2 DEF Handed
  <2> QED
    BY <2>5, <2>6, <2>7
<1>9. RamLine(l)' = RamLine(l)
  BY <1>3, <1>8, FirstRamLine
<1> QED
  BY <1>3, <1>4, <1>7, <1>9 DEF MemoryIsLatest, Latest

\* What is nowhere else is in memory.
LEMMA FirstMemory ==
  ASSUME NEW ready, FirstRight(ready)
  PROVE  MemoryFollows'
<1>1. half = 0 /\ WaysFollow /\ Exclusive /\ MemoryFollows /\ FlushesFirst /\ RoundIsOf /\ SentOnce /\ DataIsLatest
  BY DEF FirstRight, FirstHalf, StoreParts
<1>2. ASSUME NEW l \in Ram, latest'[l] = latest[l], MemoryIsLatest(l), ~(dcmd' # None /\ dcmd'.write /\ dcmd'.line = l)
      PROVE  MemoryIsLatest(l)'
  <2>1. RamLine(l)' = RamLine(l)
    BY <1>2, FirstRamLine
  <2> QED
    BY <1>2, <2>1 DEF MemoryIsLatest, Latest
<1>3. ASSUME NEW l \in Ram, CtlHas(l)' \/ LibHas(l)' # {} PROVE MemoryIsLatest(l)'
  <2>1. l \in Lines
    BY RamAndRom
  <2>2. CASE LibHas(l)' # {}
    <3>1. CtlHas(l) \/ LibHas(l) # {}
      BY <2>2, FirstLines
    <3>2. MemoryIsLatest(l) /\ Under(l)
      BY <1>1, <3>1 DEF MemoryFollows, Under, DramHas
    <3>3. latest'[l] = latest[l]
      BY <2>1, <3>2, FirstLatest
    <3>4. ~(dcmd' # None /\ dcmd'.write /\ dcmd'.line = l)
      <4>1. \A i \in LibHas(l)' : dcmd' # None /\ dcmd'.write => dcmd'.line # l
        BY FirstLibrarian DEF Library, Ram
      <4> QED
        BY <2>2, <4>1
    <3> QED
      BY <1>2, <3>2, <3>3, <3>4
  <2>3. CASE CtlHas(l)'
    <3>1. dcmd' # None /\ ~dcmd'.write /\ dcmd'.line = l
      BY <2>3 DEF CtlHas
    <3>2. OnBus(Requests) /\ bus.line = l /\ bus.cmd \in Reads /\ ~NewHit /\ ~NewNack /\ bus # None
      BY <3>1, FirstTakes
    <3>3. ~Under(l)
      BY <3>2, FirstPending
    <3>4. PICK q : q = bus.tag[1]
      OBVIOUS
    <3>5. \A n \in Masters : ~Holds(n, l)
      <4> SUFFICES ASSUME NEW n \in Masters, Holds(n, l) PROVE FALSE
        OBVIOUS
      <4>1. n # q
        BY <3>2, <3>4, FirstRequest
      <4>2. Snooped(n)
        BY <3>2, <3>4, <4>1, FirstRequest
      <4> QED
        BY <3>2, <4>2 DEF NewHit, SnoopHit
    <3>6. MemoryIsLatest(l)
      BY <1>1, <3>3, <3>5 DEF MemoryFollows, Under, RoundHas
    <3>7. latest'[l] = latest[l]
      BY <2>1, <3>5, FirstLatest
    <3> QED
      BY <1>2, <3>1, <3>6, <3>7
  <2> QED
    BY <1>3, <2>2, <2>3
<1>4. ASSUME NEW m \in Masters, Cleaned(m)', NEW l, l = way'[m].line PROVE MemoryIsLatest(l)'
  <2>1. op'[m] # None /\ op'[m].at = "miss" /\ ~op'[m].evict /\ ~op'[m].upgr /\ way'[m].state = "M"
    BY <1>4 DEF Cleaned
  <2>2. ~Fills(m)
    BY <2>1, FirstAccess
  <2>3. op'[m] = op[m] /\ way[m].state = "M" /\ way'[m].line = way[m].line
    BY <2>1, <2>2, FirstAccess, FirstWays
  <2>4. Cleaned(m)
    BY <2>1, <2>3 DEF Cleaned
  <2> QED
    BY <1>4, <2>3, <2>4, FirstCleaned
<1>5. ASSUME NEW l \in Ram
      PROVE  (\E m \in Masters : HoldsNext(m, l) /\ way'[m].state = "M") \/ FlushHas(l)' # {} \/ MemoryIsLatest(l)'
  <2>1. l \in Lines
    BY RamAndRom
  <2>2. CASE FlushHas(l) # {}
    BY <2>2, FirstLines
  <2>3. CASE GivenHas(l)
    <3>1. PICK s \in Masters : SnoopSent(s)
      BY <2>3 DEF GivenHas
    <3>2. OnBus({"Flush"}) /\ bus.line = l /\ bus.line = snoop[s].line /\ bus.data = snoop[s].data /\ snoop[s] # None
      BY <1>1, <2>3, <3>1 DEF GivenHas, RoundIsOf, SentOnce, SnoopSent
    <3>3. bus.data = Latest(l)
      BY <1>1, <3>2 DEF DataIsLatest
    <3>4. dcmd' # None /\ dcmd'.write /\ dcmd'.line = l /\ dcmd'.data = bus.data
      BY <3>2, FirstTakes DEF OnBus
    <3>5. latest'[l] = latest[l]
      BY <2>1, <2>3, FirstLatest DEF Under, RoundHas
    <3>6. RamLine(l)' = Packed(bus.data)
      BY <3>4, FirstRamLine
    <3> QED
      BY <3>3, <3>5, <3>6 DEF MemoryIsLatest, Latest
  <2>4. CASE \E m \in Masters : Holds(m, l) /\ way[m].state = "M"
    <3>1. PICK m \in Masters : Holds(m, l) /\ way[m].state = "M"
      BY <2>4
    <3>2. CASE Fills(m)
      <4>1. Cleaned(m) /\ way[m].line = l
        BY <3>1, <3>2, FillsRight DEF Cleaned, Holds
      <4> QED
        BY <4>1, FirstCleaned
    <3>3. CASE ~Fills(m) /\ Gives(m)
      <4>1. bus.line = l
        BY <3>1, <3>3 DEF Gives, SnoopHit, Holds
      <4>2. m \in FlushHas(l)'
        BY <3>3, <4>1, FirstLines
      <4> QED
        BY <4>2
    <3>4. CASE ~Fills(m) /\ ~Gives(m)
      <4>1. ~(SnoopHit(m) /\ bus.cmd = "BusRd") /\ ~Invalidates(m)
        BY <3>1, <3>4 DEF Gives, Invalidates
      <4>2. way'[m].state = "M" /\ way'[m].line = way[m].line
        BY <3>1, <3>4, <4>1, FirstWays
      <4> QED
        BY <3>1, <4>2 DEF HoldsNext, Holds
    <3> QED
      BY <3>2, <3>3, <3>4
  <2>5. CASE FlushHas(l) = {} /\ ~GivenHas(l) /\ ~\E m \in Masters : Holds(m, l) /\ way[m].state = "M"
    <3>1. MemoryIsLatest(l)
      BY <1>1, <2>5 DEF MemoryFollows
    <3>2. latest'[l] = latest[l]
      BY <2>1, <2>5, FirstLatest
    <3>3. CASE ~(dcmd' # None /\ dcmd'.write /\ dcmd'.line = l)
      BY <1>2, <3>1, <3>2, <3>3
    <3>4. CASE dcmd' # None /\ dcmd'.write /\ dcmd'.line = l
      <4>1. dcmd'.data = bus.data
        BY <3>4, FirstWrites
      <4>2. PICK q \in Masters : Sent(q) /\ op[q] # None /\ op[q].evict /\ way[q].line = l /\ bus.data = way[q].data
        BY <2>5, <3>4, FirstWrites
      <4>3. way[q].state # "I"
        <5> SUFFICES ASSUME way[q].state = "I" PROVE FALSE
          OBVIOUS
        <5>1. Overtaken(q)
          BY <4>2 DEF Overtaken
        <5>2. PICK n \in Masters : n # q
          BY TwoMasters
        <5>3. Handing(q, n) \/ Handed(q, n)
          BY <1>1, <5>1, <5>2 DEF FlushesFirst
        <5>4. ~Handed(q, n)
          BY <2>5, <4>2 DEF Handed, Holds
        <5>5. ~Handing(q, n)
          <6> SUFFICES ASSUME Handing(q, n) PROVE FALSE
            OBVIOUS
          <6>1. snoop[q] # None /\ snoop[q].line = l
            BY <4>2 DEF Handing
          <6>2. SnoopSent(q)
            BY <2>5, <6>1 DEF FlushHas
          <6> QED
            BY <1>1, <2>5, <6>1, <6>2 DEF RoundIsOf, OnBus, GivenHas
        <5> QED
          BY <5>3, <5>4, <5>5
      <4>4. bus.data = Latest(l)
        BY <1>1, <4>2, <4>3 DEF DataIsLatest
      <4>5. RamLine(l)' = Packed(bus.data)
        BY <3>4, <4>1, FirstRamLine
      <4> QED
        BY <3>2, <4>4, <4>5 DEF MemoryIsLatest, Latest
    <3> QED
      BY <3>3, <3>4
  <2> QED
    BY <2>2, <2>3, <2>4, <2>5
<1>6. \A m \in Masters : Cleaned(m)' => MemoryIsLatest(way[m].line)'
  <2> SUFFICES ASSUME NEW m \in Masters, Cleaned(m)' PROVE MemoryIsLatest(way[m].line)'
    OBVIOUS
  <2>1. PICK l : l = way'[m].line
    OBVIOUS
  <2>2. MemoryIsLatest(l)'
    BY <1>4, <2>1
  <2> QED
    BY <2>1, <2>2 DEF MemoryIsLatest, Latest, RamLine
<1>7. \A l \in Ram : \/ \E m \in Masters : Holds(m, l)' /\ way'[m].state = "M"
                     \/ FlushHas(l)' # {} \/ GivenHas(l)' \/ MemoryIsLatest(l)'
  BY <1>5 DEF Holds, HoldsNext
<1> QED
  BY <1>3, <1>6, <1>7 DEF MemoryFollows, Ram

\* While nobody waits, memory reads nothing.
LEMMA NobodyAwaits ==
  ASSUME MemTypes, DramTypes, \A l \in Ram : OneOf(l), half = 0, \A n \in Masters : ~Awaiting(n)
  PROVE  /\ read_queue = << >> /\ (dcmd # None => dcmd.write)
         /\ \A i \in DOMAIN transactions : transactions[i].write
<1>1. \A t : \A l : ~WaitsFor(t, l)
  BY DEF WaitsFor, Due
<1>2. \A l \in Ram : ~CtlHas(l) /\ LibHas(l) = {} /\ ReadsHave(l) = {}
  BY <1>1 DEF OneOf, Expected
<1>3. dcmd # None => dcmd.write
  BY <1>2 DEF CtlHas, MemTypes
<1>4. ASSUME NEW i \in DOMAIN transactions PROVE transactions[i].write
  <2> DEFINE Ts == [tag : Tags, addr : Addrs, write : BOOLEAN]
  <2>3. transactions \in Seq(Ts)
    BY DEF DramTypes
  <2> HIDE DEF Ts
  <2>4. transactions[i] \in Ts
    BY <2>3
  <2>1. transactions[i] \in [tag : Tags, addr : Addrs, write : BOOLEAN]
    BY <2>4 DEF Ts
  <2>2. PICK l \in Ram : transactions[i].addr = LineBytes * l
    BY <2>1 DEF Addrs
  <2> QED
    BY <1>2, <2>2 DEF LibHas
<1>5. ASSUME NEW i \in DOMAIN read_queue PROVE FALSE
  <2> DEFINE Ts == [tag : Tags, addr : Addrs, line : DramLines]
  <2>3. read_queue \in Seq(Ts)
    BY DEF DramTypes
  <2> HIDE DEF Ts
  <2>4. read_queue[i] \in Ts
    BY <2>3
  <2>1. read_queue[i] \in [tag : Tags, addr : Addrs, line : DramLines]
    BY <2>4 DEF Ts
  <2>2. PICK l \in Ram : read_queue[i].addr = LineBytes * l
    BY <2>1 DEF Addrs
  <2> QED
    BY <1>2, <2>2 DEF ReadsHave
<1>6. read_queue = << >>
  <2>1. read_queue \in Seq([tag : Tags, addr : Addrs, line : DramLines])
    BY DEF DramTypes
  <2> DEFINE Es == [tag : Tags, addr : Addrs, line : DramLines]
  <2> HIDE DEF Es
  <2>2. Len(read_queue) \in Nat /\ DOMAIN read_queue = 1 .. Len(read_queue)
    BY <2>1
  <2>3. Len(read_queue) = 0
    <3> SUFFICES ASSUME Len(read_queue) # 0 PROVE FALSE
      OBVIOUS
    <3>1. 1 \in DOMAIN read_queue
      BY <2>2
    <3> QED
      BY <1>5, <3>1
  <2>4. read_queue \in Seq(Es)
    BY <2>1 DEF Es
  <2> QED
    BY <2>3, <2>4, EmptySeq
<1> QED
  BY <1>3, <1>4, <1>6

\* A cache that evicts has its request or is about to make it; it waits for nothing.
LEMMA EvictsFlush ==
  ASSUME MemTypes, RequestsFollow, WaysFollow, NEW m \in Masters, op[m] # None, op[m].evict
  PROVE  /\ op[m].at = "miss" /\ ~Awaiting(m) /\ ~op[m].upgr /\ way[m].line \in Ram
         /\ half = 0 /\ way[m].state # "M" => req[m] # None
         /\ req[m] # None => /\ req[m].cmd = "Flush" /\ req[m].line = way[m].line /\ req[m] \in Sending
                             /\ req[m].at # "data" => req[m].left = 0
<1>1. RequestOf(m) /\ WayOf(m)
  BY DEF RequestsFollow, WaysFollow
<1>2. op[m].at = "miss" /\ ~op[m].upgr /\ way[m].line \in Ram
  BY <1>1 DEF WayOf
<1>3. Command(op[m]) = "Flush"
  BY DEF Command
<1>4. ~Awaiting(m)
  BY <1>1, <1>3 DEF RequestOf, Awaiting, Reads
<1>5. pend[m] # None => req[m] # None
  BY <1>1, <1>4 DEF RequestOf, Asking, Awaiting
<1>6. req[m] # None => req[m].cmd = "Flush"
  BY <1>1, <1>3 DEF RequestOf, Asking
<1>7. req[m] # None => req[m] \in Sending
  BY DEF MemTypes
<1> QED
  BY <1>1, <1>2, <1>4, <1>5, <1>6, <1>7 DEF WayOf

\* A cache that is handing over the line that it evicts does so on.
LEMMA FirstHanding ==
  ASSUME NEW ready, FirstRight(ready), NEW m \in Masters, Overtaken(m), NEW n \in Masters \ {m}
  PROVE  ~OnBus(Requests) /\ snoop[n] = None /\ NoReads
         /\ (Handing(m, n) => Handing(m, n)') /\ (Handed(m, n) => Handed(m, n)') /\ (Handing(m, n) \/ Handed(m, n))
<1>1. /\ half = 0 /\ half' = 1 /\ RequestsFollow /\ WaysFollow /\ MemTypes /\ FlushesFirst /\ RoundIsOf
      /\ \A l \in Ram : OneOf(l)
  BY DEF FirstRight, FirstHalf, StoreParts
<1>2. op[m] # None /\ op[m].evict /\ way[m].state = "I"
  BY DEF Overtaken
<1>3. /\ op[m].at = "miss" /\ req[m] # None /\ req[m].cmd = "Flush" /\ req[m] \in Sending
      /\ req[m].at # "data" => req[m].left = 0
  BY <1>1, <1>2, EvictsFlush
<1>4. PICK l \in Ram : l = way[m].line
  BY <1>1, <1>2, EvictsFlush
<1>5. snoop[n] = None /\ NoReads /\ (Handing(m, n) \/ Handed(m, n))
  BY <1>1 DEF FlushesFirst
<1>6. ASSUME Handing(m, n), snoop[m].at = "data" PROVE WaitsFor(snoop[m].tag, l) \/ SoonWaits(snoop[m].tag, l)
  BY <1>1, <1>4, <1>6 DEF Handing, FlushHas, SnoopSent, OneOf, Expected
<1>7. ASSUME Handing(m, n) PROVE snoop[m] # None /\ snoop[m].tag \in Tags /\ snoop[m].tag[1] = n
  <2>1. snoop[m] # None /\ snoop[m].tag \in Tags /\ snoop[m].tag[1] # m
    BY <1>1, <1>7 DEF Handing, MemTypes, Flushes, RoundIsOf
  <2>2. snoop[m].tag[1] \in Masters
    BY <2>1 DEF Tags
  <2> QED
    BY <2>1, <2>2, TwoMasters
<1>8. ~OnBus(Requests)
  <2> SUFFICES ASSUME OnBus(Requests) PROVE FALSE
    OBVIOUS
  <2>1. PICK q : q = bus.tag[1]
    OBVIOUS
  <2>2. /\ q \in Masters /\ op[q] # None /\ op[q].at = "miss" /\ ~op[q].evict /\ ~Awaiting(q)
        /\ \A k \in Masters : ~SnoopSent(k)
    BY <2>1, FirstRequest
  <2>3. q = n
    BY <1>2, <2>2, TwoMasters
  <2>4. ~Handed(m, n)
    BY <2>2, <2>3 DEF Handed
  <2>5. Handing(m, n) /\ snoop[m].at = "data" /\ m \in FlushHas(l)
    BY <1>1, <1>4, <1>5, <2>2, <2>4 DEF Handing, FlushHas, SnoopSent
  <2>6. WaitsFor(snoop[m].tag, l)
    BY <1>1, <2>5 DEF OneOf, Expected
  <2> QED
    BY <1>7, <2>2, <2>3, <2>5, <2>6 DEF WaitsFor
<1>9. /\ ~Gives(m) /\ ~Gives(n) /\ ~Invalidates(n) /\ ~(SnoopHit(n) /\ bus.cmd = "BusRd")
  BY <1>8, FirstQuiet
<1>10. way'[m].line = way[m].line
  <2>1. ~Fills(m)
    BY <1>2, FillsRight
  <2> QED
    BY <2>1, FirstWays
<1>11. /\ req'[m] # None /\ req'[m].at = req[m].at /\ req[m].left \in 0 .. 3
       /\ req'[m].left = IF req[m].at = "data" THEN req[m].left - 1 ELSE req[m].left
       /\ req[m].at = "data" => req[m].left > 0
       /\ (Sent(m)' <=> Sent(m)) /\ (Sent(n)' <=> Sent(n)) /\ (req'[n] = None <=> req[n] = None)
  BY <1>3, FirstAccess DEF Sending
<1>12. ASSUME Handing(m, n) PROVE Handing(m, n)'
  <2>1. snoop'[m] # None /\ snoop'[m].line = way'[m].line
    BY <1>9, <1>10, <1>12, FirstSnoops DEF Handing
  <2>2. op[n] # None /\ op[n].write /\ op[n].line = way[m].line
    BY <1>12 DEF Handing
  <2>3. CASE snoop[m].at = "data" /\ (req[m] # None => req[m].left <= 2)
    <3>1. SnoopReady(m)'
      BY <1>7, <1>12, <2>3, FirstSnoops DEF SnoopSent
    <3>2. req'[m].left <= 1
      BY <1>3, <1>11, <2>3
    <3>3. ~RoundHas(l)
      BY <1>1, <1>4, <1>12, <2>3 DEF OneOf, OneFor, FlushHas, Handing, SnoopSent
    <3>4. op'[n] = op[n]
      BY <1>6, <1>7, <1>12, <2>3, <3>3, FirstWaits
    <3> QED
      BY <1>1, <1>10, <1>11, <2>1, <2>2, <3>1, <3>2, <3>4 DEF Handing
  <2>4. CASE SnoopSent(m) /\ req[m].left <= 1
    <3>1. SnoopSent(m)'
      BY <2>4, FirstSnoops
    <3>2. req'[m].left = 0
      BY <1>3, <1>11, <2>4
    <3>3. bus # None /\ bus.cmd = "Flush" /\ bus.tag = snoop[m].tag /\ bus.line = l
      BY <1>1, <1>4, <1>12, <2>4 DEF RoundIsOf, OnBus, Handing
    <3>4. WaitsFor(bus.tag, l)
      BY <1>1, <2>4, <3>3 DEF OneOf, Expected, RoundHas, GivenHas
    <3>5. Awaiting(n) /\ pend[n].tag = bus.tag[2] /\ bus.tag = <<n, bus.tag[2]>>
      BY <1>7, <1>12, <3>3, <3>4 DEF WaitsFor, Tags
    <3>6. Fills(n)
      BY <3>3, <3>5 DEF Fills, Snooped, Awaiting
    <3>7. op'[n] # None /\ op'[n].at = "bank" /\ op'[n].line = op[n].line /\ op'[n].write = op[n].write
      BY <3>6, FirstAccess
    <3> QED
      BY <1>1, <1>10, <1>11, <2>1, <2>2, <3>1, <3>2, <3>7 DEF Handing
  <2> QED
    BY <1>1, <1>12, <2>3, <2>4 DEF Handing
<1>13. ASSUME Handed(m, n) PROVE Handed(m, n)'
  <2>1. snoop'[m] = None
    BY <1>9, <1>13, FirstSnoops DEF Handed
  <2>2. way[n].state = "M" /\ way[n].line = way[m].line /\ req[m].left = 0
    BY <1>13 DEF Handed
  <2>3. ~Fills(n)
    BY <1>13, FillsRight DEF Handed
  <2>4. way'[n].state = "M" /\ way'[n].line = way'[m].line
    BY <1>9, <1>10, <2>2, <2>3, FirstWays
  <2>5. req[m].at # "data" /\ req'[m].left = 0
    BY <1>11, <2>2
  <2>6. CASE half = 0 /\ ~Sent(m) /\ op[n] # None /\ op[n].at = "bank"
    <3>1. n \in ToBanks
      BY <1>9, <2>6, FirstAccess
    <3>2. op'[n] = None /\ req'[n] = None
      BY <2>3, <3>1, FirstAccess
    <3> QED
      BY <1>1, <1>11, <2>1, <2>4, <2>5, <3>2 DEF Handed
  <2>7. CASE /\ op[n] # None => op[n].at = "miss" /\ op[n].evict
             /\ Sent(m)
             /\ req[n] # None => ~Sent(n)
    <3>1. op'[n] # None => op'[n].at = "miss" /\ op'[n].evict
      BY <2>3, <2>7, FirstAccess
    <3> QED
      BY <1>1, <1>11, <2>1, <2>4, <2>5, <2>7, <3>1 DEF Handed
  <2> QED
    BY <1>1, <1>13, <2>6, <2>7 DEF Handed
<1> QED
  BY <1>5, <1>8, <1>12, <1>13

\* A cache starts to hand it over to one that reads it in order to write.
LEMMA FirstOvertakes ==
  ASSUME NEW ready, FirstRight(ready), NEW m \in Masters, op[m] # None, op[m].evict, Invalidates(m),
         ~(nack' /\ OnBus({"BusUpgr"})), NEW n \in Masters \ {m}
  PROVE  snoop'[n] = None /\ Handing(m, n)' /\ rcmd = None /\ bus.line \in Ram /\ NewHit /\ \A k \in Masters : ~Awaiting(k)
<1>1. half = 0 /\ half' = 1 /\ RequestsFollow /\ WaysFollow /\ MemTypes /\ Exclusive
  BY DEF FirstRight, FirstHalf, StoreParts
<1>2. /\ op[m].at = "miss" /\ ~Awaiting(m) /\ way[m].line \in Ram
      /\ way[m].state # "M" => req[m] # None
      /\ req[m] # None => /\ req[m].cmd = "Flush" /\ req[m].line = way[m].line /\ req[m] \in Sending
                          /\ req[m].at # "data" => req[m].left = 0
  BY <1>1, EvictsFlush
<1>3. /\ Snooped(m) /\ Holds(m, bus.line) /\ SnoopHit(m) /\ OnBus(Requests) /\ bus.cmd \in {"BusRdX", "BusUpgr"}
      /\ bus.tag[1] # m
  BY DEF Invalidates, SnoopHit, Snooped, OnBus, Requests
<1>4. /\ bus.tag[1] = n
  <2>1. bus.tag[1] \in Masters
    BY <1>3, FirstRequest
  <2> QED
    BY <1>3, <2>1, TwoMasters
<1>5. /\ ~Awaiting(n) /\ snoop'[n] = None /\ rcmd = None /\ op'[n] = op[n] /\ op[n] # None /\ op[n].line = bus.line
      /\ bus.cmd = "BusUpgr" => Holds(n, bus.line)
      /\ bus.cmd = "BusRdX" => op[n].write
  BY <1>3, <1>4, FirstRequest
<1>6. bus.cmd # "BusUpgr"
  <2> SUFFICES ASSUME bus.cmd = "BusUpgr" PROVE FALSE
    OBVIOUS
  <2>1. way[m].state # "M"
    BY <1>1, <1>3, <1>5 DEF Exclusive, Holds
  <2>2. FlushConflict(m)
    BY <1>2, <1>3, <2>1 DEF FlushConflict, OnBus, Holds
  <2>3. NewNack
    BY <2>2 DEF NewNack
  <2>4. nack'
    BY <2>3, FirstTakes
  <2> QED
    BY <1>3, <2>4 DEF OnBus
<1>7. Gives(m)
  BY <1>3, <1>6 DEF Gives
<1>8. snoop'[m] # None /\ snoop'[m].at = "data" /\ snoop'[m].line = bus.line
  BY <1>7, FirstSnoops
<1>9. way'[m].line = bus.line
  <2>1. ~Fills(m)
    BY <1>3, FirstRequest
  <2> QED
    BY <1>3, <2>1, FirstWays DEF Holds
<1>10. req'[m] # None => req'[m].left <= 2
  <2> SUFFICES ASSUME req'[m] # None PROVE req'[m].left <= 2
    OBVIOUS
  <2>1. req[m] # None /\ req'[m].left = IF req[m].at = "data" THEN req[m].left - 1 ELSE req[m].left
    BY FirstAccess
  <2>2. req[m].left \in 0 .. 3
    BY <1>2, <2>1 DEF Sending
  <2> QED
    BY <1>2, <2>1, <2>2
<1>11. Handing(m, n)'
  BY <1>3, <1>5, <1>6, <1>8, <1>9, <1>10 DEF Handing
<1>12. bus.line \in Ram /\ NewHit
  BY <1>2, <1>3 DEF Holds, NewHit
<1>13. \A k \in Masters : ~Awaiting(k)
  <2>1. Masters = {m, n}
    BY TwoMasters
  <2> QED
    BY <1>2, <1>5, <2>1
<1> QED
  BY <1>5, <1>11, <1>12, <1>13

\* The flush of a cache that has given away its line comes first.
LEMMA FirstFlushes ==
  ASSUME NEW ready, FirstRight(ready)
  PROVE  FlushesFirst'
<1>1. half = 0 /\ half' = 1 /\ bus' = bus /\ MemTypes /\ DramTypes /\ \A l \in Ram : OneOf(l)
  BY DEF FirstRight, FirstHalf, StoreParts
<1> SUFFICES ASSUME NEW m \in Masters, Overtaken(m)', ~(nack' /\ OnBus({"BusUpgr"})), NEW n \in Masters \ {m}
             PROVE  snoop'[n] = None /\ NoReads' /\ (Handing(m, n)' \/ Handed(m, n)')
  BY <1>1 DEF FlushesFirst, OnBus
<1>2. op'[m] # None /\ op'[m].evict /\ way'[m].state = "I"
  BY DEF Overtaken
<1>3. ~Fills(m)
  BY <1>2, FirstAccess, FillsRight
<1>4. op[m] # None /\ op[m].evict
  BY <1>2, <1>3, FirstAccess
<1>5. Overtaken(m) \/ Invalidates(m)
  BY <1>2, <1>3, <1>4, FirstWays DEF Overtaken
<1>6. ASSUME read_queue = << >>, rcmd = None, dcmd # None => dcmd.write, \A i \in DOMAIN transactions : transactions[i].write,
             ~OnBus(Requests) \/ (NewHit /\ bus.line \in Ram)
      PROVE  NoReads'
  <2>1. read_queue' = << >>
    BY <1>6, FirstTakes
  <2>2. rcmd' = None
    <3> SUFFICES ASSUME rcmd' # rcmd PROVE FALSE
      BY <1>6
    <3>1. OnBus(Requests) /\ bus.line \in Rom
      BY FirstTakes
    <3> QED
      BY <1>6, <3>1, RamAndRom
  <2>3. dcmd' # None => dcmd'.write
    <3> SUFFICES ASSUME dcmd' # None, ~dcmd'.write PROVE FALSE
      OBVIOUS
    <3>1. OnBus(Requests) /\ ~NewHit
      BY FirstTakes
    <3> QED
      BY <1>6, <3>1
  <2>4. \A i \in DOMAIN transactions' : transactions'[i].write
    <3>1. PICK N \in Nat :
              /\ DOMAIN transactions = 1 .. N
              /\ DOMAIN transactions' = IF dcmd = None THEN 1 .. N ELSE 1 .. N + 1
              /\ \A j \in 1 .. N : transactions'[j] = transactions[j]
              /\ dcmd # None => transactions'[N + 1].write = dcmd.write
      BY FirstLibrary
    <3>2. \A j : j \in 1 .. N + 1 <=> j \in 1 .. N \/ j = N + 1
      BY <3>1
    <3> QED
      BY <1>6, <3>1, <3>2
  <2> QED
    BY <1>1, <2>1, <2>2, <2>3, <2>4 DEF NoReads
<1>7. CASE Overtaken(m)
  <2>1. ~OnBus(Requests) /\ snoop[n] = None /\ NoReads /\ (Handing(m, n)' \/ Handed(m, n)')
    BY <1>7, FirstHanding
  <2>2. snoop'[n] = None
    BY <2>1, FirstQuiet, FirstSnoops
  <2>3. NoReads'
    BY <1>6, <2>1 DEF NoReads
  <2> QED
    BY <2>1, <2>2, <2>3
<1>8. CASE Invalidates(m)
  <2>1. snoop'[n] = None /\ Handing(m, n)' /\ rcmd = None /\ bus.line \in Ram /\ NewHit /\ \A k \in Masters : ~Awaiting(k)
    BY <1>4, <1>8, FirstOvertakes
  <2>2. NoReads'
    BY <1>1, <1>6, <2>1, NobodyAwaits
  <2> QED
    BY <2>1, <2>2
<1> QED
  BY <1>5, <1>7, <1>8

\* A flush for a line of rom after the step.
LEMMA RomFlushNext ==
  ASSUME NEW n, NEW x, NEW k, x = snoop'[n].tag[1], k = snoop'[n].tag[2],
         \/ Lag(x, k)' = 0 /\ Sent(x)' /\ req'[x].cmd \in Reads /\ op'[x].line = snoop'[n].line
         \/ Lag(x, k)' = 1 /\ Awaiting(x)' /\ op'[x].line = snoop'[n].line
         \/ LeftInFlush(x, k)' /\ (half' = 1 => SnoopReady(n)')
  PROVE  RomFlush(n)'
<1>1. CASE Lag(x, k)' = 0 /\ Sent(x)' /\ req'[x].cmd \in Reads /\ op'[x].line = snoop'[n].line
  BY <1>1 DEF RomFlush, Lag, Sent
<1>2. CASE Lag(x, k)' = 1 /\ Awaiting(x)' /\ op'[x].line = snoop'[n].line
  BY <1>2 DEF RomFlush, Lag, Awaiting
<1>3. CASE LeftInFlush(x, k)' /\ (half' = 1 => SnoopReady(n)')
  BY <1>3 DEF RomFlush, LeftInFlush, Lag, Awaiting, Evicts, Again, Sent
<1> QED
  BY <1>1, <1>2, <1>3

\* Who waits for a line of rom has asked for that one.
LEMMA FirstRom ==
  ASSUME NEW ready, FirstRight(ready)
  PROVE  RomAnswers'
<1>1. /\ half = 0 /\ half' = 1 /\ rtag' = rtag /\ turn' = turn /\ RomAnswers /\ MemTypes
  BY DEF FirstRight, FirstHalf, StoreParts
<1>2. ASSUME NEW m \in Masters
      PROVE  /\ Awaiting(m)' => Awaiting(m) /\ pend'[m] = pend[m] /\ op'[m] = op[m]
             /\ (Sent(m)' <=> Sent(m))
             /\ Sent(m) => req'[m].cmd = req[m].cmd /\ op'[m] = op[m]
             /\ (Evicts(m)' <=> Evicts(m))
             /\ ~Awaiting(m) => ~Awaiting(m)' /\ (Again(m) => Again(m)')
             /\ Awaiting(m) /\ ~Awaiting(m)' => Evicts(m)'
  <2>1. Awaiting(m)' => Awaiting(m) /\ pend'[m] = pend[m] /\ op'[m] = op[m]
    <3> SUFFICES ASSUME Awaiting(m)' PROVE Awaiting(m) /\ pend'[m] = pend[m] /\ op'[m] = op[m]
      OBVIOUS
    <3>1. Awaiting(m) /\ ~Fills(m) /\ op[m].at = "miss"
      BY FirstAccess
    <3> QED
      BY <3>1, FirstAccess
  <2>2. (Sent(m)' <=> Sent(m)) /\ (Sent(m) => req'[m].cmd = req[m].cmd /\ op'[m] = op[m])
    BY FirstAccess DEF Sent
  <2>3. Evicts(m)' <=> Evicts(m)
    BY <2>2 DEF Evicts
  <2>4. Again(m) => op'[m] = op[m]
    <3>1. Again(m) => ~Fills(m) /\ op[m].at = "miss" /\ op[m] # None
      BY DEF Again, Fills, Awaiting
    <3>2. Again(m) => m \notin ToBanks
      BY <3>1 DEF ToBanks
    <3> QED
      BY <3>1, <3>2, FirstAccess
  <2>5. ~Awaiting(m) => ~Awaiting(m)' /\ (Again(m) => Again(m)')
    BY <2>1, <2>4 DEF Again
  <2>6. Awaiting(m) => ~Sent(m)
    BY FirstAccess DEF Sent
  <2> QED
    BY <2>1, <2>2, <2>3, <2>5, <2>6 DEF Evicts
<1>3. ASSUME NEW t, NEW l, t[1] \in Masters
      PROVE  /\ WantsThis(t, l) => WantsThis(t, l)'
             /\ AsksThis(t, l) => AsksThis(t, l)'
  BY <1>1, <1>2, <1>3 DEF WantsThis, AsksThis
<1>4. ASSUME rcmd' # None, NEW t, NEW l, t = rcmd'.tag, l = rcmd'.line
      PROVE  l \in Rom /\ WantsThis(t, l)' /\ AsksThis(t, l)'
  <2>1. CASE rcmd' = rcmd
    <3>1. t[1] \in Masters
      BY <1>1, <1>4, <2>1 DEF MemTypes, RomReads, Tags
    <3> QED
      BY <1>1, <1>3, <1>4, <2>1, <3>1 DEF RomAnswers
  <2>2. CASE rcmd' # rcmd
    <3>1. OnBus(Requests) /\ bus.line \in Rom /\ rcmd' = [tag |-> bus.tag, line |-> bus.line]
      BY <2>2, FirstTakes
    <3>2. t = bus.tag /\ l = bus.line
      BY <1>4, <3>1
    <3>3. PICK q : q = bus.tag[1]
      OBVIOUS
    <3>4. /\ q \in Masters /\ bus.tag = <<q, rtag[q]>> /\ ~Awaiting(q) /\ op'[q] = op[q] /\ op[q].line = bus.line
      BY <3>1, <3>3, FirstRequest
    <3>5. ~Awaiting(q)'
      BY <1>2, <3>4
    <3> QED
      BY <1>1, <3>1, <3>2, <3>4, <3>5 DEF WantsThis, AsksThis
  <2> QED
    BY <2>1, <2>2
<1>5. ASSUME NEW n \in Masters, snoop'[n] # None, ~SnoopSent(n)', snoop'[n].line \in Rom PROVE RomFlush(n)'
  <2>1. PICK x, k : x = snoop'[n].tag[1] /\ k = snoop'[n].tag[2]
    OBVIOUS
  <2>2. Lag(x, k)' = Lag(x, k)
    BY <1>1 DEF Lag
  <2>3. CASE Gives(n)
    <3>1. snoop'[n].tag = bus.tag /\ snoop'[n].line = bus.line /\ OnBus(Requests) /\ bus.cmd \in Reads
      BY <2>3, FirstSnoops, FirstGives
    <3>2. x \in Masters /\ bus.tag = <<x, rtag[x]>> /\ Sent(x) /\ bus.cmd = req[x].cmd /\ op[x].line = bus.line
      BY <2>1, <3>1, FirstRequest
    <3>3. k = rtag[x] /\ k \in 0 .. 7
      BY <1>1, <2>1, <3>1, <3>2 DEF MemTypes
    <3>4. Lag(x, k) = 0
      BY <3>3, LagArithmetic DEF Lag
    <3> QED
      BY <1>2, <2>1, <2>2, <3>1, <3>2, <3>4, RomFlushNext
  <2>4. CASE ~Gives(n)
    <3>1. snoop[n] # None /\ snoop'[n].tag = snoop[n].tag /\ snoop'[n].line = snoop[n].line /\ ~SnoopSent(n)
      BY <1>5, <2>4, FirstSnoops
    <3>2. RomFlush(n) /\ SnoopReady(n)'
      BY <1>1, <1>5, <3>1, FirstSnoops DEF RomAnswers
    <3>3. x \in Masters
      BY <1>1, <2>1, <3>1 DEF MemTypes, Flushes, Tags
    <3>4. CASE Lag(x, k) = 0 /\ Sent(x) /\ req[x].cmd \in Reads /\ op[x].line = snoop[n].line
      BY <1>2, <2>1, <2>2, <3>1, <3>3, <3>4, RomFlushNext
    <3>5. CASE Lag(x, k) = 1 /\ Awaiting(x) /\ op[x].line = snoop[n].line
      <4>1. CASE Awaiting(x)'
        BY <1>2, <2>1, <2>2, <3>1, <3>3, <3>5, <4>1, RomFlushNext
      <4>2. CASE ~Awaiting(x)'
        <5>1. LeftInFlush(x, k)'
          BY <1>2, <2>2, <3>3, <3>5, <4>2 DEF LeftInFlush
        <5> QED
          BY <2>1, <3>2, <5>1, RomFlushNext
      <4> QED
        BY <4>1, <4>2
    <3>6. CASE LeftInFlush(x, k)
      <4>1. Again(x) => ~Awaiting(x)
        BY DEF Again
      <4>2. LeftInFlush(x, k)'
        BY <1>1, <1>2, <2>2, <3>3, <3>6, <4>1 DEF LeftInFlush
      <4> QED
        BY <2>1, <3>2, <4>2, RomFlushNext
    <3> QED
      BY <2>1, <3>1, <3>2, <3>4, <3>5, <3>6 DEF RomFlush
  <2> QED
    BY <2>3, <2>4
<1>6. rcmd' # None => rcmd'.line \in Rom /\ WantsThis(rcmd.tag, rcmd.line)' /\ AsksThis(rcmd.tag, rcmd.line)'
  <2> SUFFICES ASSUME rcmd' # None
               PROVE  rcmd'.line \in Rom /\ WantsThis(rcmd.tag, rcmd.line)' /\ AsksThis(rcmd.tag, rcmd.line)'
    OBVIOUS
  <2>1. PICK t, l : t = rcmd'.tag /\ l = rcmd'.line
    OBVIOUS
  <2>2. l \in Rom /\ WantsThis(t, l)' /\ AsksThis(t, l)'
    BY <1>4, <2>1
  <2> QED
    BY <2>1, <2>2 DEF WantsThis, AsksThis, Awaiting, Sent
<1>7. half' # 0
  BY <1>1
<1> QED
  BY <1>5, <1>6, <1>7 DEF RomAnswers, Rom

\* So the first half keeps all of it.
LEMMA FirstStore ==
  ASSUME NEW ready, FirstRight(ready)
  PROVE  StoreParts'
<1>1. (\A l \in Ram : OneOf(l))'
  <2>1. \A l \in Ram : OneOf(l)'
    BY FirstFlows
  <2> QED
    BY <2>1 DEF Ram
<1> QED
  BY <1>1, FirstAccesses, FirstSent, FirstExclusive, FirstData, FirstLibrarian, FirstMemory, FirstFlushes, FirstRom
     DEF StoreParts

-----------------------------------------------------------------------------
(* The second half keeps StoreInv *)

\* A second half without a fault, of a state in which all is well.
SecondRight(shown, g) ==
  /\ MemTypes /\ DramTypes /\ RequestsFollow /\ RoundIsOf /\ StoreParts
  /\ SecondHalf /\ fault' = {} /\ Chosen(shown, g)

\* What has been sent, and is nacked, is a read.
LEMMA NackedReads ==
  ASSUME NEW shown, NEW g, SecondRight(shown, g), NEW m \in Masters, Sent(m), ~Confirmed(m)
  PROVE  req[m].cmd \in Reads
<1>1. nack \/ dnack
  BY DEF Confirmed
<1>2. OnBus(Requests) /\ (Its(m) \/ req[m].cmd \in Reads)
  BY <1>1 DEF SecondRight, StoreParts, SentOnce, SecondHalf
<1>3. Its(m) => req[m].cmd \in Requests
  BY <1>2 DEF Its, OnBus
<1>4. req[m].cmd # "BusUpgr"
  BY <1>1, SecondMoves DEF SecondRight
<1> QED
  BY <1>2, <1>3, <1>4 DEF Requests, Reads

\* The access of a cache, what is pending, and its request.
LEMMA SecondAccess ==
  ASSUME NEW shown, NEW g, SecondRight(shown, g), NEW m \in Masters
  PROVE  /\ ~Confirmed(m) => op'[m] = op[m] /\ pend'[m] = pend[m] /\ rtag'[m] = rtag[m]
         /\ Confirmed(m) => /\ Sent(m) /\ ~nack /\ ~dnack /\ req[m] # None /\ req'[m] = None
                            /\ op[m] # None /\ op[m].at = "miss" /\ ~Awaiting(m)
                            /\ req[m].cmd \in Reads => /\ op'[m] = op[m] /\ pend'[m] # None /\ pend'[m].tag = rtag[m]
                                                       /\ Awaiting(m)' /\ ~op[m].evict /\ ~op[m].upgr
                            /\ req[m].cmd \notin Reads => pend'[m] = None /\ ~Awaiting(m)'
                            /\ req[m].cmd \in Reads \/ req[m].cmd \in {"Flush", "BusUpgr"}
         /\ Confirmed(m) /\ req[m].cmd = "Flush" =>
              /\ op[m].evict /\ ~op[m].upgr
              /\ op'[m] \in Accesses /\ op'[m] # None /\ op'[m].at = "miss" /\ ~op'[m].evict /\ ~op'[m].upgr
              /\ op'[m].line = op[m].line /\ op'[m].write = op[m].write
         /\ Confirmed(m) /\ req[m].cmd = "BusUpgr" => op[m].upgr /\ ~op[m].evict /\ op'[m] = None
         /\ Upgraded(m) <=> Confirmed(m) /\ req[m].cmd = "BusUpgr"
         /\ Awaiting(m)' <=> Awaiting(m) \/ (Confirmed(m) /\ req[m].cmd \in Reads)
         /\ Awaiting(m) => ~Sent(m) /\ ~Confirmed(m) /\ req[m] = None /\ op[m] # None /\ op[m].at = "miss" /\ op'[m] = op[m]
                           /\ pend'[m] = pend[m]
         /\ Sent(m) => op[m] # None /\ op[m].at = "miss" /\ req[m] # None
<1>1. /\ op'[m] = IF Confirmed(m) THEN ConfirmOp(op[m]) ELSE op[m]
      /\ pend'[m] = IF Confirmed(m) THEN ConfirmPend(m) ELSE pend[m]
      /\ rtag'[m] = IF Confirmed(m) THEN (rtag[m] + 1) % 8 ELSE rtag[m]
      /\ MemTypes /\ RequestsFollow
  BY DEF SecondRight, SecondHalf
<1>2. Confirmed(m) => req'[m] = None /\ Sent(m) /\ ~nack /\ ~dnack
  BY DEF SecondRight, Chosen, Confirmed
<1>3. RequestOf(m) /\ (op[m] # None => op[m] \in Accesses) /\ rtag[m] \in 0 .. 7 /\ WayOf(m)
  BY <1>1 DEF RequestsFollow, MemTypes, SecondRight, StoreParts, WaysFollow
<1>4. Sent(m) => op[m] # None /\ op[m].at = "miss" /\ req[m] # None /\ ~Awaiting(m)
  BY <1>3, WhoAwaits DEF Accesses, Sent
<1>5. ASSUME Confirmed(m), req[m].cmd = "Flush"
      PROVE  /\ op[m].evict /\ pend'[m] = None /\ ~op[m].upgr
             /\ op'[m] \in Accesses /\ op'[m] # None /\ op'[m].at = "miss" /\ ~op'[m].evict /\ ~op'[m].upgr
             /\ op'[m].line = op[m].line /\ op'[m].write = op[m].write
  <2>1. op[m] \in Accesses /\ op[m].at = "miss" /\ op[m].evict /\ op'[m] = [op[m] EXCEPT !.evict = FALSE] /\ pend'[m] = None
    BY <1>1, <1>5, ConfirmedMoves DEF Reads
  <2>2. op'[m] \in Accesses /\ op'[m].at = "miss" /\ ~op'[m].evict /\ op'[m].line = op[m].line /\ op'[m].write = op[m].write
        /\ op'[m].upgr = op[m].upgr
    BY <2>1 DEF Accesses
  <2>3. op[m] # None
    BY <2>1, NoneIsNothing
  <2>4. ~op[m].upgr
    BY <1>3, <2>1, <2>3 DEF WayOf
  <2> QED
    BY <2>1, <2>2, <2>4, NoneIsNothing
<1>6. ASSUME Confirmed(m), req[m].cmd = "BusUpgr" PROVE op[m].upgr /\ ~op[m].evict /\ op'[m] = None /\ pend'[m] = None
  BY <1>1, <1>6, ConfirmedMoves DEF Reads
<1>7. ASSUME Confirmed(m), req[m].cmd \in Reads
      PROVE  op'[m] = op[m] /\ pend'[m] # None /\ pend'[m].tag = rtag[m] /\ Awaiting(m)' /\ ~op[m].evict /\ ~op[m].upgr
  <2>1. /\ ~op[m].upgr /\ ~op[m].evict /\ op'[m] = op[m] /\ pend[m] \in Pending
        /\ pend'[m] = [pend[m] EXCEPT !.tag = rtag[m]] /\ pend'[m] \in Pending
    BY <1>1, <1>7, ConfirmedMoves DEF Reads
  <2>2. pend'[m].tag = rtag[m] /\ pend'[m] # None
    BY <2>1, NoneIsNothing DEF Pending
  <2> QED
    BY <1>3, <2>1, <2>2 DEF Awaiting, NoTag
<1>8. Confirmed(m) => req[m].cmd \in Reads \/ req[m].cmd \in {"Flush", "BusUpgr"}
  BY <1>1, ConfirmedMoves
<1>9. Upgraded(m) <=> Confirmed(m) /\ req[m].cmd = "BusUpgr"
  BY <1>5, <1>6, <1>7, <1>8 DEF Upgraded
<1>10. Confirmed(m) /\ req[m].cmd \notin Reads => pend'[m] = None /\ ~Awaiting(m)'
  BY <1>5, <1>6, <1>8 DEF Awaiting
<1>11. ~Confirmed(m) => (Awaiting(m)' <=> Awaiting(m))
  BY <1>1 DEF Awaiting
<1>12. Awaiting(m) => ~Sent(m) /\ ~Confirmed(m) /\ req[m] = None /\ op[m] # None /\ op[m].at = "miss"
  BY <1>2, <1>3, WhoAwaits DEF Accesses
<1> QED
  BY <1>1, <1>2, <1>4, <1>5, <1>6, <1>7, <1>8, <1>9, <1>10, <1>11, <1>12

\* The request of a cache: it is granted, confirmed, or stays.
LEMMA SecondRequest ==
  ASSUME NEW shown, NEW g, SecondRight(shown, g), NEW m \in Masters
  PROVE  /\ req'[m] # None => /\ req[m] # None /\ ~Confirmed(m) /\ req'[m].cmd = req[m].cmd /\ req'[m].line = req[m].line
                              /\ req'[m].data = req[m].data /\ req'[m].left = req[m].left /\ req[m] \in Sending
         /\ req[m] # None /\ ~Confirmed(m) => req'[m] # None /\ req'[m].at = IF GrantRequest(m) /\ m = g THEN "sent" ELSE req[m].at
         /\ Sent(m)' <=> (Sent(m) /\ ~Confirmed(m)) \/ (GrantRequest(m) /\ m = g)
         /\ GrantRequest(m) /\ m = g => /\ Its(m)' /\ bus'.data = req[m].data /\ bus'.cmd = req[m].cmd /\ bus' # None
                                        /\ bus'.tag[1] = m /\ bus'.line = req[m].line
                                        /\ req[m].at = "ready" /\ req[m] # None /\ ~Confirmed(m) /\ ~Sent(m)
         /\ Sent(m)' /\ ~(GrantRequest(m) /\ m = g) => /\ Sent(m) /\ req[m].cmd \in Reads /\ op'[m] = op[m] /\ rtag'[m] = rtag[m]
                                                       /\ req'[m] = req[m]
<1>1. /\ req'[m] = IF Confirmed(m) THEN None
                   ELSE IF m = g /\ snoop[m] = None THEN [req[m] EXCEPT !.at = "sent"] ELSE req[m]
      /\ Granted(g) /\ MemTypes /\ DramTypes
      /\ req[m] # None => req[m] \in Sending
  BY DEF SecondRight, Chosen, MemTypes
<1>2. m = g /\ snoop[m] = None <=> GrantRequest(m) /\ m = g
  BY <1>1, TwoMasters DEF Granted, GrantFlush, GrantRequest, SnoopReady
<1>3. GrantRequest(m) /\ m = g => req[m] # None /\ req[m].at = "ready" /\ ~Confirmed(m) /\ ~Sent(m)
  BY DEF GrantRequest, ReqReady, Sent, Confirmed
<1>4. CASE GrantRequest(m) /\ m = g
  <2>1. req'[m] = [req[m] EXCEPT !.at = "sent"] /\ req[m] \in Sending
    BY <1>1, <1>2, <1>3, <1>4
  <2>2. /\ req'[m] \in Sending /\ req'[m].at = "sent" /\ req'[m].cmd = req[m].cmd /\ req'[m].line = req[m].line
        /\ req'[m].data = req[m].data /\ req'[m].left = req[m].left
    BY <2>1 DEF Sending
  <2>3. req'[m] # None /\ Sent(m)'
    BY <2>2, NoneIsNothing DEF Sent
  <2>4. bus' = [cmd |-> req[m].cmd, tag |-> <<m, rtag[m]>>, line |-> req[m].line, data |-> req[m].data]
    BY <1>4 DEF GrantRequest
  <2>5. bus' # None /\ rtag'[m] = rtag[m]
    BY <1>1, <1>3, <1>4, GrantedRound, SecondAccess
  <2>6. Its(m)'
    BY <2>2, <2>4, <2>5 DEF Its
  <2> QED
    BY <1>3, <1>4, <2>1, <2>2, <2>3, <2>4, <2>5, <2>6
<1>5. CASE ~(GrantRequest(m) /\ m = g)
  <2>1. req'[m] = IF Confirmed(m) THEN None ELSE req[m]
    BY <1>1, <1>2, <1>5
  <2>2. Sent(m)' <=> Sent(m) /\ ~Confirmed(m)
    BY <2>1 DEF Sent
  <2>3. Sent(m) /\ ~Confirmed(m) => req[m].cmd \in Reads /\ op'[m] = op[m] /\ rtag'[m] = rtag[m]
    BY NackedReads, SecondAccess
  <2> QED
    BY <1>1, <1>5, <2>1, <2>2, <2>3
<1> QED
  BY <1>4, <1>5

\* An upgrade that ends has the only copy of its line.
LEMMA SecondUpgraded ==
  ASSUME NEW shown, NEW g, SecondRight(shown, g), NEW m \in Masters, Upgraded(m)
  PROVE  /\ Confirmed(m) /\ Sent(m) /\ op[m] # None /\ op[m].write /\ pend[m].cmd = "BusUpgr"
         /\ op[m].line \in Ram /\ op[m].line \in Lines /\ Holds(m, op[m].line) /\ way[m].line = op[m].line
         /\ way[m].state = "S" /\ way[m].data = Latest(op[m].line) /\ ~Under(op[m].line)
         /\ \A n \in Masters : n # m => ~Holds(n, op[m].line) /\ ~Upgraded(n)
<1>1. /\ Confirmed(m) /\ req[m].cmd = "BusUpgr" /\ Sent(m) /\ ~nack /\ ~dnack /\ op[m] # None /\ op[m].upgr
  BY SecondAccess
<1>2. op[m].write /\ way[m].line = op[m].line /\ way[m].state = "S" /\ op[m].line \in Ram
  BY <1>1 DEF SecondRight, StoreParts, WaysFollow, WayOf
<1>3. Holds(m, op[m].line) /\ op[m].line \in Lines
  BY <1>2, RamAndRom DEF Holds
<1>4. way[m].data = Latest(op[m].line)
  BY <1>2 DEF SecondRight, StoreParts, DataIsLatest
<1>5. half = 1
  BY DEF SecondRight, SecondHalf
<1>6. ~Under(op[m].line) /\ \A n \in Masters : n # m => ~Holds(n, op[m].line)
  BY <1>1, <1>5 DEF SecondRight, StoreParts, Exclusive
<1>7. ASSUME NEW n \in Masters, n # m, Upgraded(n) PROVE FALSE
  <2>1. Sent(n) /\ req[n].cmd = "BusUpgr"
    BY <1>7, SecondAccess
  <2>2. Its(n) /\ Its(m)
    BY <1>1, <2>1 DEF SecondRight, StoreParts, SentOnce, Reads
  <2> QED
    BY <1>7, <2>2 DEF Its
<1>8. pend[m].cmd = "BusUpgr"
  BY <1>1, ConfirmedMoves DEF SecondRight
<1> QED
  BY <1>1, <1>2, <1>3, <1>4, <1>6, <1>7, <1>8

\* The ways: an upgrade ends, and nothing else.
LEMMA SecondWays ==
  ASSUME NEW shown, NEW g, SecondRight(shown, g), NEW m \in Masters
  PROVE  /\ way'[m].line = way[m].line
         /\ way'[m].state = IF Upgraded(m) THEN "M" ELSE way[m].state
         /\ way'[m].data = IF Upgraded(m) THEN Stored(m, op[m].line) ELSE way[m].data
         /\ way'[m].state # "I" <=> way[m].state # "I"
         /\ \A l : HoldsNext(m, l) <=> Holds(m, l)
<1>1. PICK d : d = NewData(m, {n \in Masters : Upgraded(n)})
  OBVIOUS
<1>2. PICK s : s = IF Confirmed(m) /\ pend[m].cmd = "BusUpgr" THEN "M" ELSE way[m].state
  OBVIOUS
<1>3. way'[m] = [way[m] EXCEPT !.state = s, !.data = d]
  BY <1>1, <1>2 DEF SecondRight, SecondHalf
<1>4. way[m] \in [line : Lines, state : {"I", "S", "M"}, data : Data]
  BY DEF SecondRight, MemTypes
<1>5. way'[m].line = way[m].line /\ way'[m].state = s /\ way'[m].data = d
  BY <1>3, <1>4
<1>6. Confirmed(m) /\ pend[m].cmd = "BusUpgr" <=> Upgraded(m)
  <2>1. Confirmed(m) => req[m].cmd = pend[m].cmd
    BY ConfirmedMoves DEF SecondRight
  <2> QED
    BY <2>1, SecondAccess
<1>7. d = IF Upgraded(m) THEN Stored(m, op[m].line) ELSE way[m].data
  <2>1. Upgraded(m) => op[m].write
    BY SecondUpgraded
  <2> QED
    BY <1>1, <2>1 DEF NewData
<1>8. Upgraded(m) => way[m].state = "S"
  BY SecondUpgraded
<1> QED
  BY <1>2, <1>5, <1>6, <1>7, <1>8 DEF HoldsNext, Holds

\* The stores.
LEMMA SecondLatest ==
  ASSUME NEW shown, NEW g, SecondRight(shown, g), NEW l \in Lines
  PROVE  /\ latest'[l] = IF \E m \in Masters : Upgraded(m) /\ op[m].line = l THEN latest[l] + 1 ELSE latest[l]
         /\ l \in Rom => latest'[l] = latest[l]
         /\ Under(l) => latest'[l] = latest[l]
         /\ \A m \in Masters : Holds(m, l) /\ ~Upgraded(m) => latest'[l] = latest[l]
         /\ latest'[l] # latest[l] => \E m \in Masters : Upgraded(m) /\ op[m].line = l
<1>1. latest'[l] = latest[l] + Cardinality({m \in {n \in {k \in Masters : Upgraded(k)} : op[n].write} : op[m].line = l})
      /\ latest[l] \in Nat
  BY DEF SecondRight, MemTypes, SecondHalf, Performed
<1>2. latest'[l] = IF \E m \in Masters : Upgraded(m) /\ op[m].line = l THEN latest[l] + 1 ELSE latest[l]
  <2>1. PICK S : S = {m \in {n \in {k \in Masters : Upgraded(k)} : op[n].write} : op[m].line = l}
    OBVIOUS
  <2>2. latest'[l] = latest[l] + Cardinality(S)
    BY <1>1, <2>1
  <2>3. CASE \E m \in Masters : Upgraded(m) /\ op[m].line = l
    <3>1. PICK m \in Masters : Upgraded(m) /\ op[m].line = l
      BY <2>3
    <3>2. S = {m}
      BY <2>1, <3>1, SecondUpgraded
    <3>3. Cardinality({m}) = 1
      BY FS_Singleton
    <3> QED
      BY <2>2, <2>3, <3>2, <3>3
  <2>4. CASE ~\E m \in Masters : Upgraded(m) /\ op[m].line = l
    <3>1. S = {}
      BY <2>1, <2>4
    <3>2. Cardinality({}) = 0
      BY FS_EmptySet
    <3>3. latest'[l] = latest[l]
      BY <1>1, <2>2, <3>1, <3>2
    <3> QED
      BY <2>4, <3>3
  <2> QED
    BY <2>3, <2>4
<1>3. ASSUME NEW m \in Masters, Upgraded(m), op[m].line = l
      PROVE  l \notin Rom /\ ~Under(l) /\ \A n \in Masters : Holds(n, l) => n = m
  <2>1. l \in Ram /\ ~Under(l) /\ \A n \in Masters : n # m => ~Holds(n, l)
    BY <1>3, SecondUpgraded
  <2> QED
    BY <2>1, RamAndRom
<1> QED
  BY <1>2, <1>3

\* A copy is still the latest after the stores of the second half.
LEMMA SecondCopies ==
  ASSUME NEW shown, NEW g, SecondRight(shown, g), NEW m \in Masters, way[m].state # "I"
  PROVE  way'[m].data = Content(latest'[way[m].line])
<1>1. PICK l \in Lines : l = way[m].line
  BY DEF SecondRight, MemTypes
<1>2. Holds(m, l) /\ way[m].data = Content(latest[l])
  BY <1>1 DEF Holds, SecondRight, StoreParts, DataIsLatest, Latest
<1>3. CASE Upgraded(m)
  <2>1. op[m].line = l /\ way'[m].data = Stored(m, l)
    BY <1>1, <1>3, SecondUpgraded, SecondWays
  <2>2. Stored(m, l) = Content(latest[l] + 1)
    BY <1>2 DEF Stored
  <2>3. latest'[l] = latest[l] + 1
    BY <1>3, <2>1, SecondLatest
  <2> QED
    BY <1>1, <2>1, <2>2, <2>3
<1>4. CASE ~Upgraded(m)
  BY <1>1, <1>2, <1>4, SecondWays, SecondLatest
<1> QED
  BY <1>3, <1>4

\* The dram is left alone, but for the read that is granted.
LEMMA SecondDram ==
  ASSUME NEW shown, NEW g, SecondRight(shown, g)
  PROVE  /\ half = 1 /\ half' = 0 /\ dcmd' = dcmd /\ transactions' = transactions /\ write_queue' = write_queue
         /\ memory' = memory /\ rreq' = rreq /\ nack' = nack /\ dnack' = dnack /\ hit' = hit /\ vpi' = vpi
         /\ g # "dram" => read_queue' = read_queue
         /\ rcmd' = rcmd \/ (rcmd' = None /\ g = "rom")
         /\ fault = {}
<1>1. /\ half = 1 /\ half' = 0 /\ dcmd' = dcmd /\ rreq' = rreq /\ nack' = nack /\ dnack' = dnack /\ hit' = hit /\ fault = {}
      /\ Granted(g)
  BY SecondMoves DEF SecondRight, SecondHalf, Chosen
<1> QED
  BY <1>1, TwoMasters DEF Granted, GrantRom, GrantDram, GrantFlush, GrantRequest, GrantNobody, dramVars

\* The flushes: one is sent at most, the others stay.
LEMMA SecondSnoops ==
  ASSUME NEW shown, NEW g, SecondRight(shown, g), NEW n \in Masters
  PROVE  /\ SnoopSent(n)' <=> n = g /\ SnoopReady(n)
         /\ SnoopSent(n) => snoop'[n] = None /\ n # g
         /\ ~SnoopSent(n) /\ ~(n = g /\ SnoopReady(n)) => snoop'[n] = snoop[n]
         /\ n = g /\ SnoopReady(n) =>
              /\ snoop[n] # None /\ snoop'[n] # None /\ snoop'[n].tag = snoop[n].tag /\ snoop'[n].line = snoop[n].line
              /\ snoop'[n].data = snoop[n].data /\ ~SnoopSent(n) /\ GrantFlush(n) /\ bus' # None
<1>1. /\ Chosen(shown, g) /\ MemTypes /\ DramTypes
      /\ snoop'[n] = IF SnoopSent(n) THEN None
                     ELSE IF n = g /\ SnoopReady(n) THEN [snoop[n] EXCEPT !.at = "sent"] ELSE snoop[n]
  BY DEF SecondRight, Chosen
<1>2. SnoopSent(n)' <=> n = g /\ SnoopReady(n)
  BY <1>1, FlushPlaces
<1>3. ASSUME SnoopSent(n) PROVE n # g
  <2>1. ~SnoopReady(n) /\ snoop[n] # None
    BY <1>3 DEF SnoopSent, SnoopReady
  <2> QED
    BY <1>1, <2>1, TwoMasters DEF Chosen, Granted, GrantFlush, GrantRequest
<1>4. ASSUME n = g, SnoopReady(n)
      PROVE  /\ snoop[n] # None /\ snoop'[n] # None /\ snoop'[n].tag = snoop[n].tag /\ snoop'[n].line = snoop[n].line
             /\ snoop'[n].data = snoop[n].data /\ ~SnoopSent(n) /\ GrantFlush(n) /\ bus' # None
  <2>1. snoop[n] # None /\ snoop[n].at = "ready" /\ snoop[n] \in Flushes /\ ~SnoopSent(n)
    BY <1>1, <1>4 DEF SnoopReady, SnoopSent, MemTypes
  <2>2. snoop'[n] = [snoop[n] EXCEPT !.at = "sent"]
    BY <1>1, <1>4, <2>1
  <2>3. snoop'[n] \in Flushes /\ snoop'[n].tag = snoop[n].tag /\ snoop'[n].line = snoop[n].line /\ snoop'[n].data = snoop[n].data
    BY <2>1, <2>2 DEF Flushes
  <2>4. GrantFlush(n)
    BY <1>1, <1>4, <2>1, TwoMasters DEF Chosen, Granted, GrantRequest
  <2> QED
    BY <1>1, <2>1, <2>3, <2>4, NoneIsNothing, GrantedRound
<1> QED
  BY <1>1, <1>2, <1>3, <1>4

\* What becomes of the answers for a line.
LEMMA SecondLines ==
  ASSUME NEW shown, NEW g, SecondRight(shown, g), NEW l \in Ram
  PROVE  /\ (CtlHas(l)' <=> CtlHas(l)) /\ LibHas(l)' = LibHas(l) /\ ~RoundHas(l)
         /\ \A n : n \in FlushHas(l)' <=> n \in FlushHas(l) /\ ~(n = g /\ SnoopReady(n))
         /\ \A j \in ReadsHave(l)' : \E i \in ReadsHave(l) : read_queue'[j] = read_queue[i]
         /\ (\A i, j \in ReadsHave(l) : i = j) => (\A i, j \in ReadsHave(l)' : i = j)
         /\ FillHas(l)' => /\ \E i \in ReadsHave(l) : /\ bus'.tag = read_queue[i].tag
                                                      /\ bus'.data = Unpacked(read_queue[i].line)
                           /\ (\A i, j \in ReadsHave(l) : i = j) => ReadsHave(l)' = {}
         /\ GivenHas(l)' => /\ g \in FlushHas(l) /\ SnoopReady(g) /\ bus'.tag = snoop[g].tag
                            /\ bus'.data = snoop[g].data /\ ~FillHas(l)'
         /\ g \in FlushHas(l) /\ SnoopReady(g) => GivenHas(l)'
<1>0. /\ half = 1 /\ half' = 0 /\ dcmd' = dcmd /\ transactions' = transactions
      /\ Granted(g) /\ MemTypes /\ DramTypes /\ l \in Lines /\ l \notin Rom
  BY SecondDram, RamAndRom DEF SecondRight, Chosen
<1>1. (CtlHas(l)' <=> CtlHas(l)) /\ LibHas(l)' = LibHas(l) /\ ~RoundHas(l)
  BY <1>0 DEF CtlHas, LibHas, RoundHas, FillHas, GivenHas
<1>2. \A n : n \in FlushHas(l)' <=> n \in FlushHas(l) /\ ~(n = g /\ SnoopReady(n))
  <2> SUFFICES ASSUME NEW n \in Masters PROVE n \in FlushHas(l)' <=> n \in FlushHas(l) /\ ~(n = g /\ SnoopReady(n))
    BY DEF FlushHas
  <2> QED
    BY SecondSnoops DEF FlushHas
<1>3. GivenHas(l)' <=> g \in Masters /\ GrantFlush(g) /\ SnoopReady(g) /\ snoop[g].line = l
  <2>1. GivenHas(l)' => g \in Masters /\ GrantFlush(g) /\ SnoopReady(g) /\ bus'.line = l
    BY SecondSnoops DEF GivenHas
  <2>2. g \in Masters /\ SnoopReady(g) => GrantFlush(g) /\ bus' # None /\ SnoopSent(g)'
    BY SecondSnoops
  <2>3. GrantFlush(g) => bus'.line = snoop[g].line
    BY DEF GrantFlush
  <2> QED
    BY <1>0, <2>1, <2>2, <2>3 DEF GivenHas
<1>4. g \in FlushHas(l) /\ SnoopReady(g) <=> g \in Masters /\ SnoopReady(g) /\ snoop[g].line = l
  BY DEF FlushHas, SnoopReady, SnoopSent
<1>5. GivenHas(l)' => g \in FlushHas(l) /\ SnoopReady(g) /\ bus'.tag = snoop[g].tag
                            /\ bus'.data = snoop[g].data /\ ~FillHas(l)'
  BY <1>3, <1>4 DEF GrantFlush, FillHas, OnBus
<1>6. g \in FlushHas(l) /\ SnoopReady(g) => GivenHas(l)'
  BY <1>3, <1>4, SecondSnoops
<1>7. CASE g = "rom" /\ GrantRom
  <2>1. read_queue' = read_queue
    BY <1>7 DEF GrantRom, dramVars
  <2>2. rcmd.line \in Rom
    BY <1>7 DEF GrantRom, SecondRight, StoreParts, RomAnswers
  <2>3. ~FillHas(l)' /\ ReadsHave(l)' = ReadsHave(l)
    BY <1>0, <1>7, <2>1, <2>2 DEF GrantRom, FillHas, ReadsHave
  <2> QED
    BY <1>1, <1>2, <1>5, <1>6, <2>1, <2>3
<1>8. CASE g = "dram" /\ GrantDram
  <2>1. PICK L : L = Len(read_queue)
    OBVIOUS
  <2>2. /\ L \in Nat \ {0} /\ DOMAIN read_queue = 1 .. L /\ DOMAIN read_queue' = 1 .. L - 1
        /\ Head(read_queue) = read_queue[1]
        /\ \A j \in 1 .. L - 1 : read_queue'[j] = read_queue[j + 1]
    <3>1. read_queue \in Seq([tag : Tags, addr : Addrs, line : DramLines]) /\ read_queue # << >>
          /\ read_queue' = Tail(read_queue)
      BY <1>0, <1>8 DEF GrantDram, DramTypes
    <3> QED
      BY <2>1, <3>1
  <2>3. bus' # None /\ bus'.cmd = "Fill" /\ bus'.tag = read_queue[1].tag
        /\ bus'.line = read_queue[1].addr \div LineBytes /\ bus'.data = Unpacked(read_queue[1].line)
        /\ read_queue[1].addr \in Addrs
    BY <1>0, <1>8, <2>2, GrantedRound DEF GrantDram
  <2>4. PICK k \in Ram : read_queue[1].addr = LineBytes * k
    BY <2>3 DEF Addrs
  <2>5. bus'.line = k /\ (k = l <=> read_queue[1].addr = LineBytes * l)
    BY <2>3, <2>4, LinesOfRam
  <2>6. FillHas(l)' <=> 1 \in ReadsHave(l)
    BY <1>0, <2>2, <2>3, <2>5 DEF FillHas, OnBus, ReadsHave
  <2>7. \A j \in ReadsHave(l)' : j + 1 \in ReadsHave(l) /\ j \in 1 .. L - 1
    BY <2>2 DEF ReadsHave
  <2>8. (\A i, j \in ReadsHave(l) : i = j) => (\A i, j \in ReadsHave(l)' : i = j)
    <3> SUFFICES ASSUME \A i, j \in ReadsHave(l) : i = j, NEW i \in ReadsHave(l)', NEW j \in ReadsHave(l)' PROVE i = j
      OBVIOUS
    <3>1. i + 1 = j + 1 /\ i \in 1 .. L - 1 /\ j \in 1 .. L - 1
      BY <2>7
    <3> QED
      BY <3>1, <2>2
  <2>9. FillHas(l)' /\ (\A i, j \in ReadsHave(l) : i = j) => ReadsHave(l)' = {}
    <3> SUFFICES ASSUME FillHas(l)', \A i, j \in ReadsHave(l) : i = j, NEW j \in ReadsHave(l)' PROVE FALSE
      OBVIOUS
    <3>1. j + 1 = 1 /\ j \in 1 .. L - 1
      BY <2>6, <2>7
    <3> QED
      BY <3>1, <2>2
  <2>10. \A j \in ReadsHave(l)' : \E i \in ReadsHave(l) : read_queue'[j] = read_queue[i]
    BY <2>2, <2>7
  <2>11. FillHas(l)' => \E i \in ReadsHave(l) : bus'.tag = read_queue[i].tag /\ bus'.data = Unpacked(read_queue[i].line)
    BY <2>3, <2>6
  <2> QED
    BY <1>1, <1>2, <1>5, <1>6, <2>8, <2>9, <2>10, <2>11
<1>9. CASE GrantFlush(g) \/ GrantRequest(g) \/ (g = "nobody" /\ GrantNobody)
  <2>1. read_queue' = read_queue
    BY <1>9 DEF GrantFlush, GrantRequest, GrantNobody, dramVars
  <2>2. ~FillHas(l)'
    <3>1. CASE GrantRequest(g)
      <4>1. req[g] \in Sending /\ bus'.cmd = req[g].cmd
        BY <1>0, <3>1 DEF GrantRequest, ReqReady, MemTypes
      <4> QED
        BY <4>1 DEF Sending, Commands, Requests, FillHas, OnBus
    <3>2. CASE GrantFlush(g) \/ GrantNobody
      BY <3>2 DEF GrantFlush, GrantNobody, FillHas, OnBus
    <3> QED
      BY <1>9, <3>1, <3>2
  <2>3. ReadsHave(l)' = ReadsHave(l)
    BY <2>1 DEF ReadsHave
  <2> QED
    BY <1>1, <1>2, <1>5, <1>6, <2>1, <2>2, <2>3
<1> QED
  BY <1>0, <1>7, <1>8, <1>9 DEF Granted

\* A command on the bus has been granted to its cache.
LEMMA SecondBus ==
  ASSUME NEW shown, NEW g, SecondRight(shown, g)
  PROVE  /\ OnBus(Requests)' => GrantRequest(g) /\ g \in Masters /\ req[g].cmd # "Flush"
         /\ OnBus({"Flush"})' => \/ GrantRequest(g) /\ g \in Masters /\ req[g].cmd = "Flush"
                                 \/ GrantFlush(g) /\ g \in Masters /\ SnoopReady(g)
         /\ OnBus({"Fill"})' => (g = "rom" /\ GrantRom) \/ (g = "dram" /\ GrantDram)
<1>1. Granted(g) /\ MemTypes
  BY DEF SecondRight, Chosen
<1>2. GrantRom \/ GrantDram => bus'.cmd = "Fill"
  BY DEF GrantRom, GrantDram
<1>3. GrantFlush(g) => bus'.cmd = "Flush" /\ g \in Masters /\ SnoopReady(g)
  BY DEF GrantFlush
<1>4. GrantRequest(g) => bus'.cmd = req[g].cmd /\ g \in Masters /\ req[g].cmd \in Commands
  BY <1>1 DEF GrantRequest, ReqReady, MemTypes, Sending
<1>5. GrantNobody => bus' = None
  BY DEF GrantNobody
<1> QED
  BY <1>1, <1>2, <1>3, <1>4, <1>5 DEF OnBus, Granted, Commands, Requests

\* Who waits for a line waits on, and so does who is confirmed.
LEMMA SecondWaiting ==
  ASSUME NEW shown, NEW g, SecondRight(shown, g), NEW l, NEW t
  PROVE  /\ WaitsFor(t, l) => WaitsNext(t, l) /\ op'[t[1]] = op[t[1]]
         /\ SoonWaits(t, l) /\ ~nack /\ ~dnack => WaitsNext(t, l) /\ op'[t[1]] = op[t[1]]
         /\ SoonWaits(t, l) /\ (nack \/ dnack) => SoonNext(t, l) /\ op'[t[1]] = op[t[1]] /\ Sent(t[1])
<1>1. ASSUME WaitsFor(t, l) PROVE WaitsNext(t, l) /\ op'[t[1]] = op[t[1]]
  <2>1. /\ t[1] \in Masters /\ op[t[1]] # None /\ op[t[1]].at = "miss" /\ op[t[1]].line = l
        /\ Awaiting(t[1]) /\ pend[t[1]].tag = t[2]
    BY <1>1 DEF WaitsFor, Due
  <2>2. pend'[t[1]] = pend[t[1]] /\ op'[t[1]] = op[t[1]]
    BY <2>1, SecondAccess
  <2> QED
    BY <2>1, <2>2 DEF WaitsNext, Awaiting
<1>2. ASSUME SoonWaits(t, l)
      PROVE  /\ ~nack /\ ~dnack => WaitsNext(t, l) /\ op'[t[1]] = op[t[1]]
             /\ nack \/ dnack => SoonNext(t, l) /\ op'[t[1]] = op[t[1]] /\ Sent(t[1])
  <2>1. /\ t[1] \in Masters /\ op[t[1]] # None /\ op[t[1]].at = "miss" /\ op[t[1]].line = l
        /\ Sent(t[1]) /\ req[t[1]].cmd \in Reads /\ rtag[t[1]] = t[2] /\ req[t[1]] # None
    BY <1>2 DEF SoonWaits, Due, Sent
  <2>2. CASE ~nack /\ ~dnack
    <3>1. Confirmed(t[1])
      BY <2>1, <2>2 DEF Confirmed
    <3>2. op'[t[1]] = op[t[1]] /\ pend'[t[1]].tag = rtag[t[1]] /\ Awaiting(t[1])'
      BY <2>1, <3>1, SecondAccess
    <3> QED
      BY <2>1, <2>2, <3>2 DEF WaitsNext, Awaiting
  <2>3. CASE nack \/ dnack
    <3>1. ~Confirmed(t[1])
      BY <2>3 DEF Confirmed
    <3>2. op'[t[1]] = op[t[1]] /\ rtag'[t[1]] = rtag[t[1]]
      BY <2>1, <3>1, SecondAccess
    <3>3. Sent(t[1])' /\ req'[t[1]] # None
      BY <2>1, <3>1, SecondRequest
    <3>4. req'[t[1]].cmd = req[t[1]].cmd
      BY <2>1, <3>3, SecondRequest
    <3> QED
      BY <2>1, <2>3, <3>2, <3>3, <3>4 DEF SoonNext, Sent
  <2> QED
    BY <2>2, <2>3
<1> QED
  BY <1>1, <1>2

\* The second half starts no answer for a line of ram.
LEMMA SecondOnce ==
  ASSUME NEW shown, NEW g, SecondRight(shown, g), NEW l \in Ram
  PROVE  /\ OneFor(l)'
         /\ DramHas(l)' \/ FillHas(l)' => DramHas(l)
         /\ Under(l)' => Under(l)
<1>1. OneFor(l)
  BY DEF SecondRight, StoreParts, OneOf
<1>2. /\ (CtlHas(l)' <=> CtlHas(l)) /\ LibHas(l)' = LibHas(l) /\ ~RoundHas(l)
      /\ \A n : n \in FlushHas(l)' <=> n \in FlushHas(l) /\ ~(n = g /\ SnoopReady(n))
      /\ ReadsHave(l) = {} => ReadsHave(l)' = {}
      /\ (\A i, j \in ReadsHave(l) : i = j) => (\A i, j \in ReadsHave(l)' : i = j)
      /\ FillHas(l)' => /\ ReadsHave(l) # {}
                        /\ (\A i, j \in ReadsHave(l) : i = j) => ReadsHave(l)' = {}
      /\ GivenHas(l)' => g \in FlushHas(l) /\ SnoopReady(g)
  BY SecondLines
<1>3. FlushHas(l) = {} => FlushHas(l)' = {}
  BY <1>2
<1>4. GivenHas(l)' => FlushHas(l)' = {} /\ FlushHas(l) # {}
  <2>1. \A m, n \in FlushHas(l) : m = n
    BY <1>1 DEF OneFor
  <2> QED
    BY <1>2, <2>1
<1>5. FillHas(l)' => ReadsHave(l)' = {} /\ ReadsHave(l) # {}
  BY <1>1, <1>2 DEF OneFor
<1>6. RoundHas(l)' => FillHas(l)' \/ GivenHas(l)'
  BY DEF RoundHas
<1>7. /\ CtlHas(l)' => LibHas(l)' = {} /\ ReadsHave(l)' = {} /\ FlushHas(l)' = {} /\ ~RoundHas(l)'
      /\ LibHas(l)' # {} => ReadsHave(l)' = {} /\ FlushHas(l)' = {} /\ ~RoundHas(l)'
  BY <1>1, <1>2, <1>3, <1>4, <1>5, <1>6 DEF OneFor
<1>8. /\ ReadsHave(l)' # {} => FlushHas(l)' = {} /\ ~RoundHas(l)'
      /\ FlushHas(l)' # {} => ~RoundHas(l)'
  BY <1>1, <1>2, <1>3, <1>4, <1>5, <1>6 DEF OneFor
<1>9. /\ \A i, j \in LibHas(l)' : i = j
      /\ \A i, j \in ReadsHave(l)' : i = j
      /\ \A m, n \in FlushHas(l)' : m = n
  BY <1>1, <1>2 DEF OneFor
<1>10. OneFor(l)'
  BY <1>7, <1>8, <1>9 DEF OneFor
<1>11. DramHas(l)' \/ FillHas(l)' => DramHas(l)
  BY <1>2, <1>5 DEF DramHas
<1>12. Under(l)' => Under(l)
  BY <1>3, <1>4, <1>6, <1>11 DEF Under
<1> QED
  BY <1>10, <1>11, <1>12

\* Who waits for a line goes on waiting for it.
LEMMA SecondExpected ==
  ASSUME NEW shown, NEW g, SecondRight(shown, g), NEW l \in Ram
  PROVE  Expected(l)'
<1>1. Expected(l) /\ half = 1 /\ half' = 0 /\ dcmd' = dcmd /\ transactions' = transactions
  BY SecondDram DEF SecondRight, StoreParts, OneOf
<1>2. /\ (CtlHas(l)' <=> CtlHas(l)) /\ LibHas(l)' = LibHas(l)
      /\ \A n : n \in FlushHas(l)' <=> n \in FlushHas(l) /\ ~(n = g /\ SnoopReady(n))
      /\ \A j \in ReadsHave(l)' : \E i \in ReadsHave(l) : read_queue'[j] = read_queue[i]
      /\ FillHas(l)' => \E i \in ReadsHave(l) : bus'.tag = read_queue[i].tag
      /\ GivenHas(l)' => g \in FlushHas(l) /\ SnoopReady(g) /\ bus'.tag = snoop[g].tag
  BY SecondLines
<1>3. CtlHas(l)' => WaitsNext(dcmd'.tag, l)
  <2>1. CtlHas(l) => WaitsFor(dcmd.tag, l) \/ (SoonWaits(dcmd.tag, l) /\ ~nack /\ ~dnack)
    BY <1>1 DEF Expected
  <2> QED
    BY <1>1, <1>2, <2>1, SecondWaiting
<1>4. \A i \in LibHas(l)' : WaitsNext(transactions'[i].tag, l)
  BY <1>1, <1>2, SecondWaiting DEF Expected
<1>5. \A i \in ReadsHave(l) : WaitsNext(read_queue[i].tag, l)
  BY <1>1, SecondWaiting DEF Expected
<1>6. \A i \in ReadsHave(l)' : WaitsNext(read_queue'[i].tag, l)
  <2> SUFFICES ASSUME NEW j \in ReadsHave(l)' PROVE WaitsNext(read_queue'[j].tag, l)
    OBVIOUS
  <2>1. PICK i \in ReadsHave(l) : read_queue'[j] = read_queue[i]
    BY <1>2
  <2> QED
    BY <1>5, <2>1
<1>7. \A n \in FlushHas(l) : \/ WaitsFor(snoop[n].tag, l)
                             \/ SoonWaits(snoop[n].tag, l) /\ (SnoopReady(n) => ~nack /\ ~dnack)
  BY <1>1 DEF Expected
<1>8. ASSUME NEW n \in FlushHas(l)'
      PROVE  \/ WaitsNext(snoop'[n].tag, l)
             \/ SoonNext(snoop'[n].tag, l) /\ ~SnoopReady(n)' /\ ~OnBus(Requests)'
  <2>1. n \in Masters /\ n \in FlushHas(l) /\ snoop[n] # None /\ ~SnoopSent(n) /\ ~(n = g /\ SnoopReady(n))
    BY <1>2 DEF FlushHas
  <2>2. snoop'[n] = snoop[n]
    BY <2>1, SecondSnoops
  <2>3. CASE WaitsFor(snoop[n].tag, l) \/ (SoonWaits(snoop[n].tag, l) /\ ~nack /\ ~dnack)
    BY <2>2, <2>3, SecondWaiting
  <2>4. CASE SoonWaits(snoop[n].tag, l) /\ (nack \/ dnack) /\ ~SnoopReady(n)
    <3>1. PICK x : x = snoop[n].tag[1]
      OBVIOUS
    <3>2. SoonNext(snoop[n].tag, l) /\ Sent(x) /\ x \in Masters
      BY <2>4, <3>1, SecondWaiting DEF SoonWaits, Due
    <3>3. ~SnoopReady(n)'
      BY <2>2, <2>4 DEF SnoopReady
    <3>4. x # n
      BY <2>1, <3>1 DEF SecondRight, RoundIsOf
    <3>5. ~OnBus(Requests)'
      <4> SUFFICES ASSUME OnBus(Requests)' PROVE FALSE
        OBVIOUS
      <4>1. g \in Masters /\ snoop[g] = None /\ ReqReady(g)
        BY SecondBus DEF GrantRequest
      <4>2. g # n /\ g # x
        BY <2>1, <3>2, <4>1 DEF ReqReady, Sent
      <4> QED
        BY <2>1, <3>2, <3>4, <4>1, <4>2, TwoMasters
    <3> QED
      BY <2>2, <3>2, <3>3, <3>5
  <2> QED
    BY <1>7, <2>1, <2>3, <2>4
<1>9. RoundHas(l)' => WaitsNext(bus'.tag, l)
  <2>1. CASE FillHas(l)'
    <3>1. PICK i \in ReadsHave(l) : bus'.tag = read_queue[i].tag
      BY <1>2, <2>1
    <3> QED
      BY <1>5, <3>1
  <2>2. CASE GivenHas(l)'
    BY <1>2, <1>7, <2>2, SecondWaiting
  <2> QED
    BY <2>1, <2>2 DEF RoundHas
<1> QED
  BY <1>1, <1>3, <1>4, <1>6, <1>8, <1>9, ExpectedNext

\* And nobody else takes it.
LEMMA SecondHeld ==
  ASSUME NEW shown, NEW g, SecondRight(shown, g), NEW l \in Ram
  PROVE  Held(l)'
<1>1. Expected(l) /\ Held(l) /\ half = 1 /\ half' = 0
  BY SecondDram DEF SecondRight, StoreParts, OneOf
<1>2. /\ \A n : n \in FlushHas(l)' <=> n \in FlushHas(l) /\ ~(n = g /\ SnoopReady(n))
      /\ GivenHas(l)' => g \in FlushHas(l) /\ SnoopReady(g) /\ bus'.tag = snoop[g].tag
  BY SecondLines
<1>3. ASSUME DramHas(l)' \/ FillHas(l)', NEW n \in Masters PROVE ~HoldsNext(n, l)
  <2>1. ~Holds(n, l)
    BY <1>1, <1>3, SecondOnce DEF Held
  <2> QED
    BY <2>1, SecondWays
<1>4. ASSUME NEW n \in FlushHas(l), HoldsNext(n, l), NEW t, t = snoop[n].tag
      PROVE  way'[n].state = "S" /\ ~op'[t[1]].write
  <2>1. n \in Masters /\ Under(l)
    BY DEF FlushHas, Under
  <2>2. Holds(n, l)
    BY <1>4, <2>1, SecondWays
  <2>3. way[n].state = "S" /\ ~op[t[1]].write
    BY <1>1, <1>4, <2>2 DEF Held
  <2>4. ~Upgraded(n)
    BY <2>1, <2>2, SecondUpgraded DEF Holds
  <2>5. op'[t[1]] = op[t[1]]
    BY <1>1, <1>4, SecondWaiting DEF Expected
  <2> QED
    BY <2>1, <2>3, <2>4, <2>5, SecondWays
<1>5. ASSUME NEW n \in FlushHas(l)', Holds(n, l)' PROVE way'[n].state = "S" /\ ~op'[snoop'[n].tag[1]].write
  <2>1. n \in FlushHas(l) /\ ~(n = g /\ SnoopReady(n)) /\ n \in Masters /\ ~SnoopSent(n)
    BY <1>2 DEF FlushHas
  <2>2. snoop'[n] = snoop[n]
    BY <2>1, SecondSnoops
  <2>3. HoldsNext(n, l)
    BY <1>5 DEF Holds, HoldsNext
  <2> QED
    BY <1>4, <2>1, <2>2, <2>3
<1>6. ASSUME NEW n \in Masters, GivenHas(l)', SnoopSent(n)', Holds(n, l)'
      PROVE  way'[n].state = "S" /\ ~op'[bus'.tag[1]].write
  <2>1. n = g /\ n \in FlushHas(l) /\ bus'.tag = snoop[n].tag
    BY <1>2, <1>6, SecondSnoops
  <2>2. HoldsNext(n, l)
    BY <1>6 DEF Holds, HoldsNext
  <2> QED
    BY <1>4, <2>1, <2>2
<1>7. \A n \in Masters : DramHas(l)' \/ FillHas(l)' => ~Holds(n, l)'
  BY <1>3 DEF Holds, HoldsNext
<1> QED
  BY <1>5, <1>6, <1>7 DEF Held

\* At most one answer for a line of ram is under way after the second half.
LEMMA SecondFlows ==
  ASSUME NEW shown, NEW g, SecondRight(shown, g)
  PROVE  \A l \in Ram : OneOf(l)'
BY SecondOnce, SecondExpected, SecondHeld DEF OneOf

\* The access of a cache after the step: the same, a miss that has evicted its line, or none.
LEMMA SecondOps ==
  ASSUME NEW shown, NEW g, SecondRight(shown, g), NEW m \in Masters
  PROVE  /\ op'[m] # None => /\ op[m] # None /\ op'[m].line = op[m].line /\ op'[m].write = op[m].write /\ (op'[m].upgr => op[m].upgr)
                             /\ op'[m].at = op[m].at /\ ~Upgraded(m)
         /\ op'[m] # None /\ op'[m].evict => op'[m] = op[m]
         /\ op'[m] # op[m] => /\ Confirmed(m) /\ op[m].at = "miss"
                              /\ op'[m] # None => ~op'[m].evict /\ op[m].evict /\ ~op[m].upgr /\ ~op'[m].upgr
         /\ ~Upgraded(m) /\ op[m] # None => op'[m] # None
<1>1. CASE ~Confirmed(m)
  <2>1. op'[m] = op[m] /\ ~Upgraded(m)
    BY <1>1, SecondAccess DEF Upgraded
  <2> QED
    BY <2>1
<1>2. CASE Confirmed(m) /\ req[m].cmd = "Flush"
  BY <1>2, SecondAccess
<1>3. CASE Confirmed(m) /\ req[m].cmd = "BusUpgr"
  BY <1>3, SecondAccess
<1>4. CASE Confirmed(m) /\ req[m].cmd \in Reads
  <2>1. ~Upgraded(m)
    BY <1>4, SecondAccess DEF Reads
  <2> QED
    BY <1>4, <2>1, SecondAccess
<1> QED
  BY <1>1, <1>2, <1>3, <1>4, SecondAccess

\* The accesses and requests still fit the lines.
LEMMA SecondAccesses ==
  ASSUME NEW shown, NEW g, SecondRight(shown, g)
  PROVE  WaysFollow'
<1> SUFFICES ASSUME NEW m \in Masters PROVE WayOf(m)'
  BY DEF WaysFollow
<1>1. WayOf(m) /\ half' = 0 /\ half = 1 /\ Ram' = Ram
  BY SecondDram DEF SecondRight, StoreParts, WaysFollow, Ram
<1>2. /\ way'[m].line = way[m].line
      /\ way'[m].state = IF Upgraded(m) THEN "M" ELSE way[m].state
      /\ ~Upgraded(m) => way'[m].data = way[m].data
      /\ \A l : HoldsNext(m, l) <=> Holds(m, l)
  BY SecondWays
<1>3. way'[m].state = "M" => way'[m].line \in Ram
  BY <1>1, <1>2, SecondUpgraded DEF WayOf
<1>4. ASSUME op'[m] # None
      PROVE  /\ op'[m].write => op'[m].line \in Ram
             /\ op'[m].at = "miss" /\ ~op'[m].upgr => ~HoldsNext(m, op'[m].line)
             /\ op'[m].at = "bank" => /\ way'[m].line = op'[m].line
                                      /\ op'[m].write => way'[m].state = "M"
  BY <1>1, <1>2, <1>4, SecondOps DEF WayOf
<1>5. ASSUME op'[m] # None, op'[m].upgr
      PROVE  /\ op'[m].write /\ ~op'[m].evict /\ op'[m].at = "miss"
             /\ way'[m].line = op'[m].line /\ way'[m].state = "S"
  <2>1. ~Upgraded(m) /\ op'[m] = op[m] /\ op[m].upgr
    BY <1>4, <1>5, SecondOps
  <2> QED
    BY <1>1, <1>2, <1>5, <2>1 DEF WayOf
<1>6. ASSUME op'[m] # None, op'[m].evict
      PROVE  /\ op'[m].at = "miss" /\ way'[m].line \in Ram /\ way'[m].line # op'[m].line
             /\ pend'[m] # None
  <2>1. op'[m] = op[m] /\ ~Upgraded(m) /\ op[m] # None /\ op[m].evict /\ op[m].at = "miss"
    BY <1>1, <1>6, SecondOps DEF WayOf
  <2>2. pend'[m] # None
    <3>1. CASE Confirmed(m)
      <4>1. req[m].cmd \in Reads
        BY <1>6, <2>1, <3>1, SecondAccess
      <4> QED
        BY <3>1, <4>1, SecondAccess
    <3>2. CASE ~Confirmed(m)
      <4>1. pend'[m] = pend[m] /\ ~Waits(m) /\ RequestOf(m)
        BY <3>2, SecondAccess DEF SecondRight, SecondHalf, RequestsFollow
      <4> QED
        BY <2>1, <4>1 DEF Waits, RequestOf, Asking
    <3> QED
      BY <3>1, <3>2
  <2> QED
    BY <1>1, <1>2, <2>1, <2>2 DEF WayOf
<1>7. ASSUME req'[m] # None
      PROVE  /\ req'[m].cmd = "Flush" => req'[m].line = way'[m].line /\ req'[m].data = way'[m].data
             /\ req'[m].at # "data" => req'[m].left = 0
  <2>1. /\ req[m] # None /\ ~Confirmed(m) /\ req'[m].cmd = req[m].cmd /\ req'[m].line = req[m].line
        /\ req'[m].data = req[m].data /\ req'[m].left = req[m].left
        /\ req'[m].at = (IF GrantRequest(m) /\ m = g THEN "sent" ELSE req[m].at)
        /\ GrantRequest(m) /\ m = g => req[m].at = "ready"
    BY <1>7, SecondRequest
  <2>2. way'[m].data = way[m].data
    BY <1>2, <2>1 DEF Upgraded
  <2> QED
    BY <1>1, <1>2, <2>1, <2>2 DEF WayOf
<1> QED
  BY <1>1, <1>3, <1>4, <1>5, <1>6, <1>7 DEF WayOf, Holds, HoldsNext

\* What is granted is what is on the bus.
LEMMA SecondSentOnce ==
  ASSUME NEW shown, NEW g, SecondRight(shown, g)
  PROVE  SentOnce'
<1>1. half' = 0 /\ half = 1
  BY SecondDram
<1>2. \A m \in Masters : Sent(m)' => Its(m)' \/ req'[m].cmd \in Reads
  BY SecondRequest
<1>3. \A m \in Masters : Sent(m)' /\ req'[m].cmd = "Flush" => bus'.data = req'[m].data
  <2> SUFFICES ASSUME NEW m \in Masters, Sent(m)', req'[m].cmd = "Flush" PROVE bus'.data = req'[m].data
    OBVIOUS
  <2>1. req'[m] # None
    BY DEF Sent
  <2>2. GrantRequest(m) /\ m = g
    BY SecondRequest DEF Reads
  <2> QED
    BY <2>1, <2>2, SecondRequest
<1>4. \A n \in Masters : SnoopSent(n)' => /\ bus'.data = snoop'[n].data
                                          /\ \A m \in Masters : Sent(m)' => req'[m].cmd # "Flush"
  <2> SUFFICES ASSUME NEW n \in Masters, SnoopSent(n)'
               PROVE  bus'.data = snoop'[n].data /\ \A m \in Masters : Sent(m)' => req'[m].cmd # "Flush"
    OBVIOUS
  <2>1. n = g /\ SnoopReady(n) /\ GrantFlush(n) /\ snoop'[n].data = snoop[n].data
    BY SecondSnoops
  <2>2. bus'.data = snoop'[n].data
    BY <2>1 DEF GrantFlush
  <2>3. \A m \in Masters : ~(GrantRequest(m) /\ m = g)
    BY <2>1 DEF GrantRequest, SnoopReady
  <2>4. \A m \in Masters : Sent(m)' => req'[m].cmd \in Reads
    BY <2>3, SecondRequest
  <2> QED
    BY <2>2, <2>4 DEF Reads
<1>5. OnBus({"Flush"})' => \E n \in Masters : SnoopSent(n)' \/ (Sent(n)' /\ req'[n].cmd = "Flush")
  <2>1. CASE GrantRequest(g) /\ g \in Masters /\ req[g].cmd = "Flush"
    <3>1. Sent(g)' /\ req'[g] # None
      BY <2>1, SecondRequest DEF Sent
    <3> QED
      BY <2>1, <3>1, SecondRequest
  <2>2. CASE g \in Masters /\ SnoopReady(g)
    BY <2>2, SecondSnoops
  <2> QED
    BY <2>1, <2>2, SecondBus
<1>6. OnBus(Requests)' => snoop'[bus'.tag[1]] = None
  <2> SUFFICES ASSUME OnBus(Requests)' PROVE snoop'[bus'.tag[1]] = None
    OBVIOUS
  <2>1. GrantRequest(g) /\ g \in Masters /\ snoop[g] = None
    BY SecondBus DEF GrantRequest
  <2>2. bus'.tag[1] = g
    BY <2>1, SecondRequest
  <2>3. snoop'[g] = None
    BY <2>1, SecondSnoops DEF SnoopSent, SnoopReady
  <2> QED
    BY <2>2, <2>3
<1> QED
  BY <1>1, <1>2, <1>3, <1>4, <1>5, <1>6 DEF SentOnce

\* A line in state M is still in one cache.
LEMMA SecondExclusive ==
  ASSUME NEW shown, NEW g, SecondRight(shown, g)
  PROVE  Exclusive'
<1>1. half' = 0
  BY SecondDram
<1>2. ASSUME NEW m \in Masters, way'[m].state = "M", NEW n \in Masters \ {m} PROVE ~HoldsNext(n, way'[m].line)
  <2>1. way'[m].line = way[m].line /\ (HoldsNext(n, way[m].line) <=> Holds(n, way[m].line))
    BY SecondWays
  <2>2. CASE Upgraded(m)
    BY <2>1, <2>2, SecondUpgraded
  <2>3. CASE ~Upgraded(m)
    <3>1. way[m].state = "M"
      BY <1>2, <2>3, SecondWays
    <3> QED
      BY <2>1, <3>1 DEF SecondRight, StoreParts, Exclusive
  <2> QED
    BY <2>2, <2>3
<1>3. \A m \in Masters : way'[m].state = "M" => \A n \in Masters \ {m} : ~Holds(n, way[m].line)'
  BY <1>2 DEF Holds, HoldsNext
<1> QED
  BY <1>1, <1>3 DEF Exclusive

\* The library's format of a line, there and back.
LEMMA PackedBack == ASSUME NEW d \in Data PROVE Unpacked(Packed(d)) = d
<1>1. Dwords \in Nat \ {0}
  BY DramAssumption
<1>2. ASSUME NEW w \in Words PROVE Packed(d)[w \div 2][1 + (w % 2)] = d[w]
  <2>a. w \in Nat /\ w \in 0 .. 2 * Dwords - 1
    BY <1>1 DEF Words
  <2>b. w = 2 * (w \div 2) + (w % 2)
    BY <2>a
  <2>1. w \div 2 \in 0 .. Dwords - 1 /\ w % 2 \in 0 .. 1 /\ w \in Nat /\ w = 2 * (w \div 2) + (w % 2)
    BY <1>1, <2>a, <2>b, HalfOfWord
  <2>2. PICK i \in 0 .. Dwords - 1 : i = w \div 2
    BY <2>1
  <2>3. Packed(d)[i] = <<d[2 * i], d[1 + 2 * i]>>
    BY DEF Packed
  <2>4. CASE w % 2 = 0
    <3>1. 2 * i = w
      BY <2>1, <2>2, <2>4
    <3> QED
      BY <2>2, <2>3, <2>4, <3>1
  <2>5. CASE w % 2 = 1
    <3>1. 1 + 2 * i = w /\ 1 + (w % 2) = 2
      BY <2>1, <2>2, <2>5
    <3>2. <<d[2 * i], d[1 + 2 * i]>>[2] = d[w]
      BY <3>1
    <3> QED
      BY <2>2, <2>3, <3>1, <3>2
  <2> QED
    BY <2>1, <2>4, <2>5
<1>3. d = [w \in Words |-> d[w]]
  BY DEF Data
<1> QED
  BY <1>2, <1>3 DEF Unpacked

\* The data.
LEMMA SecondData ==
  ASSUME NEW shown, NEW g, SecondRight(shown, g)
  PROVE  DataIsLatest'
<1>1. DataIsLatest /\ half = 1 /\ half' = 0 /\ MemTypes /\ DramTypes /\ RomAnswers
  BY SecondDram DEF SecondRight, StoreParts
<1>2. \A l \in Rom : latest'[l] = 0
  BY <1>1, SecondLatest, RamAndRom DEF DataIsLatest
<1>3. ASSUME NEW m \in Masters, way'[m].state # "I" PROVE way'[m].data = Content(latest'[way'[m].line])
  <2>1. way[m].state # "I" /\ way'[m].line = way[m].line
    BY <1>3, SecondWays
  <2> QED
    BY <2>1, SecondCopies
<1>4. ASSUME NEW n \in Masters, snoop'[n] # None PROVE snoop'[n].data = Content(latest'[snoop'[n].line])
  <2>1. snoop[n] # None /\ ~SnoopSent(n) /\ snoop'[n].line = snoop[n].line /\ snoop'[n].data = snoop[n].data
    BY <1>4, SecondSnoops
  <2>2. snoop[n].data = Content(latest[snoop[n].line]) /\ snoop[n].line \in Lines
    BY <1>1, <2>1 DEF DataIsLatest, Latest, MemTypes, Flushes
  <2>3. Under(snoop[n].line)
    BY <2>1 DEF Under, FlushHas
  <2> QED
    BY <2>1, <2>2, <2>3, SecondLatest
<1>5. ASSUME NEW l \in Ram, NEW i \in ReadsHave(l)
      PROVE  read_queue[i].line = Packed(Content(latest'[l])) /\ latest'[l] = latest[l]
  <2>1. Under(l) /\ l \in Lines
    BY RamAndRom DEF Under, DramHas
  <2>2. latest'[l] = latest[l]
    BY <2>1, SecondLatest
  <2> QED
    BY <1>1, <2>2 DEF DataIsLatest, Latest
<1>6. ASSUME NEW l \in Ram, NEW j \in ReadsHave(l)' PROVE read_queue'[j].line = Packed(Content(latest'[l]))
  <2>1. PICK i \in ReadsHave(l) : read_queue'[j] = read_queue[i]
    BY SecondLines
  <2> QED
    BY <1>5, <2>1
<1>7. ASSUME OnBus({"Fill"})' PROVE bus'.data = Content(latest'[bus'.line])
  <2>1. CASE GrantRom
    <3>1. bus'.data = Content(0) /\ bus'.line = rcmd.line /\ rcmd.line \in Rom
      BY <1>1, <2>1 DEF GrantRom, RomAnswers
    <3> QED
      BY <1>2, <3>1
  <2>2. CASE GrantDram
    <3>1. Head(read_queue).addr \in Addrs /\ bus'.line = Head(read_queue).addr \div LineBytes
      BY <2>2 DEF GrantDram
    <3>2. PICK l \in Ram : Head(read_queue).addr = LineBytes * l
      BY <3>1 DEF Addrs
    <3>3. bus'.line = l
      BY <3>1, <3>2, LinesOfRam
    <3>4. FillHas(l)'
      BY <1>1, <1>7, <3>3 DEF FillHas, OnBus
    <3>5. PICK i \in ReadsHave(l) : bus'.data = Unpacked(read_queue[i].line)
      BY <3>4, SecondLines
    <3>6. l \in Lines /\ latest[l] \in Nat
      BY <1>1, RamAndRom DEF MemTypes
    <3>7. read_queue[i].line = Packed(Content(latest[l])) /\ latest'[l] = latest[l]
      BY <1>5
    <3>8. Unpacked(Packed(Content(latest[l]))) = Content(latest[l])
      BY <3>6, LineData, PackedBack
    <3> QED
      BY <3>3, <3>5, <3>7, <3>8
  <2> QED
    BY <1>7, <2>1, <2>2, SecondBus
<1>8. \A m \in Masters : way'[m].state # "I" => way'[m].data = Latest(way[m].line)'
  BY <1>3 DEF Latest, Content
<1>9. \A n \in Masters : snoop'[n] # None => snoop'[n].data = Latest(snoop[n].line)'
  BY <1>4 DEF Latest, Content
<1>10. \A l \in Ram : \A i \in ReadsHave(l)' : read_queue'[i].line = Packed(Latest(l))'
  BY <1>6 DEF Latest, Content, Packed
<1>11. OnBus({"Fill"})' => bus'.data = Latest(bus.line)'
  BY <1>7 DEF Latest, Content
<1> QED
  BY <1>1, <1>2, <1>8, <1>9, <1>10, <1>11 DEF DataIsLatest, Ram, Rom

\* The second half leaves the library and the lines of ram alone.
LEMMA SecondLibrary ==
  ASSUME NEW shown, NEW g, SecondRight(shown, g)
  PROVE  /\ Library'
         /\ \A l \in Ram : RamLine(l)' = RamLine(l)
<1>1. /\ dcmd' = dcmd /\ transactions' = transactions /\ write_queue' = write_queue /\ memory' = memory
      /\ Library /\ DramTypes /\ DramTypes'
  BY SecondDram, SecondTypes DEF SecondRight, StoreParts
<1>2. TagsOfWrites' = TagsOfWrites /\ \A l : WritesOf(l)' = WritesOf(l) /\ LibHas(l)' = LibHas(l)
                                             /\ LineInMemory(l)' = LineInMemory(l)
  BY <1>1 DEF TagsOfWrites, WritesOf, LibHas, LineInMemory
<1>3. Library'
  BY <1>1, <1>2 DEF Library, Ram
<1>4. \A l \in Ram : RamLine(l)' = RamLine(l)
  <2> SUFFICES ASSUME NEW l \in Ram PROVE RamLine(l)' = RamLine(l)
    OBVIOUS
  <2>1. RamLine(l) = IF dcmd # None /\ dcmd.write /\ dcmd.line = l THEN Packed(dcmd.data)
                    ELSE IF WritesOf(l) # {} THEN write_queue[transactions[LastOf(WritesOf(l))].tag]
                    ELSE LineInMemory(l)
    BY <1>1, RamLineSays DEF RamLinesAre
  <2>2. RamLine(l)' = IF dcmd # None /\ dcmd.write /\ dcmd.line = l THEN Packed(dcmd.data)
                    ELSE IF WritesOf(l) # {} THEN write_queue[transactions[LastOf(WritesOf(l))].tag]
                    ELSE LineInMemory(l)
    <3>1. RamLinesAre'
      BY <1>1, RamLineSaysNext
    <3> QED
      BY <1>1, <1>2, <3>1 DEF RamLinesAre, Packed, Ram
  <2> QED
    BY <2>1, <2>2
<1> QED
  BY <1>3, <1>4

\* A line whose flush was taken is in memory.
LEMMA SecondCleaned ==
  ASSUME NEW shown, NEW g, SecondRight(shown, g), NEW m \in Masters, Cleaned(m)',
         NEW l, l = way'[m].line
  PROVE  RamLine(l)' = Packed(Content(latest'[l])) /\ l \in Ram
<1>1. /\ op'[m] # None /\ op'[m].at = "miss" /\ ~op'[m].evict /\ ~op'[m].upgr /\ way'[m].state = "M"
      /\ MemTypes /\ WaysFollow /\ DramTypes
  BY DEF Cleaned, SecondRight, StoreParts
<1>2. ~Upgraded(m) /\ way[m].state = "M" /\ way[m].line = l /\ l \in Ram /\ l \in Lines /\ Holds(m, l)
  <2>1. ~Upgraded(m)
    BY <1>1, SecondOps
  <2>2. way[m].state = "M" /\ way[m].line = l
    BY <1>1, <2>1, SecondWays
  <2> QED
    BY <1>1, <2>1, <2>2, RamAndRom DEF WaysFollow, WayOf, Holds
<1>3. latest'[l] = latest[l]
  BY <1>2, SecondLatest
<1>4. RamLine(l) = Packed(Content(latest[l]))
  <2>1. CASE op'[m] = op[m]
    <3>1. Cleaned(m)
      BY <1>1, <1>2, <2>1 DEF Cleaned
    <3> QED
      BY <1>2, <3>1 DEF SecondRight, StoreParts, MemoryFollows, MemoryIsLatest, Latest
  <2>2. CASE op'[m] # op[m]
    <3>1. Confirmed(m) /\ req[m].cmd = "Flush" /\ Sent(m) /\ req[m] # None
      BY <1>1, <2>2, SecondAccess
    <3>2. Its(m) /\ bus.data = req[m].data
      BY <3>1 DEF SecondRight, StoreParts, SentOnce, Reads
    <3>3. bus.line = l /\ bus.data = way[m].data /\ OnBus({"Flush"})
      BY <1>1, <1>2, <3>1, <3>2 DEF WaysFollow, WayOf, Its, OnBus
    <3>4. dcmd # None /\ dcmd.write /\ dcmd.line = l /\ dcmd.data = way[m].data
      BY <1>2, <3>3, SecondDram DEF SecondRight, StoreParts, SentOnce
    <3>5. way[m].data = Content(latest[l])
      BY <1>2 DEF SecondRight, StoreParts, DataIsLatest, Latest
    <3>6. RamLine(l) = Packed(dcmd.data)
      BY <1>1, <1>2, <3>4, RamLineSays DEF RamLinesAre
    <3> QED
      BY <3>4, <3>5, <3>6
  <2> QED
    BY <2>1, <2>2
<1> QED
  BY <1>2, <1>3, <1>4, SecondLibrary

\* A line of ram is in memory if it is nowhere else.
LEMMA SecondMemory ==
  ASSUME NEW shown, NEW g, SecondRight(shown, g)
  PROVE  MemoryFollows'
<1>1. MemoryFollows
  BY DEF SecondRight, StoreParts
<1>2. \A l \in Ram : l \in Lines /\ RamLine(l)' = RamLine(l)
  BY SecondLibrary, RamAndRom
<1>3. ASSUME NEW l \in Ram, CtlHas(l)' \/ LibHas(l)' # {} PROVE RamLine(l)' = Packed(Content(latest'[l]))
  <2>1. CtlHas(l) \/ LibHas(l) # {}
    BY <1>3, SecondLines
  <2>2. Under(l)
    BY <2>1 DEF Under, DramHas
  <2> QED
    BY <1>1, <1>2, <2>1, <2>2, SecondLatest DEF MemoryFollows, MemoryIsLatest, Latest
<1>5. ASSUME NEW l \in Ram
      PROVE  \/ \E m \in Masters : HoldsNext(m, l) /\ way'[m].state = "M"
             \/ FlushHas(l)' # {} \/ GivenHas(l)'
             \/ RamLine(l)' = Packed(Content(latest'[l]))
  <2>1. CASE \E m \in Masters : Holds(m, l) /\ way[m].state = "M"
    <3>1. PICK m \in Masters : Holds(m, l) /\ way[m].state = "M"
      BY <2>1
    <3>2. HoldsNext(m, l) /\ way'[m].state = "M"
      BY <3>1, SecondWays
    <3> QED
      BY <3>2
  <2>2. CASE FlushHas(l) # {}
    BY <2>2, SecondLines
  <2>3. CASE GivenHas(l)
    BY <2>3, SecondLines DEF RoundHas
  <2>4. CASE MemoryIsLatest(l)
    <3>1. RamLine(l) = Packed(Content(latest[l]))
      BY <2>4 DEF MemoryIsLatest, Latest
    <3>2. CASE latest'[l] = latest[l]
      BY <1>2, <3>1, <3>2
    <3>3. CASE latest'[l] # latest[l]
      <4>1. PICK m \in Masters : Upgraded(m) /\ op[m].line = l
        BY <1>2, <3>3, SecondLatest
      <4>2. Holds(m, l)
        BY <4>1, SecondUpgraded
      <4>3. HoldsNext(m, l) /\ way'[m].state = "M"
        BY <4>1, <4>2, SecondWays
      <4> QED
        BY <4>3
    <3> QED
      BY <3>2, <3>3
  <2> QED
    BY <1>1, <2>1, <2>2, <2>3, <2>4 DEF MemoryFollows
<1>6. \A l \in Ram : CtlHas(l)' \/ LibHas(l)' # {} => MemoryIsLatest(l)'
  BY <1>3 DEF MemoryIsLatest, Latest, Packed, Content
<1>7. \A l \in Ram : \/ \E m \in Masters : Holds(m, l)' /\ way'[m].state = "M"
                     \/ FlushHas(l)' # {} \/ GivenHas(l)'
                     \/ MemoryIsLatest(l)'
  BY <1>5 DEF MemoryIsLatest, Latest, Packed, Content, Holds, HoldsNext
<1>8. ASSUME NEW m \in Masters, Cleaned(m)' PROVE MemoryIsLatest(way[m].line)'
  <2>1. PICK l : l = way'[m].line
    OBVIOUS
  <2>2. RamLine(l)' = Packed(Content(latest'[l])) /\ l \in Ram
    BY <1>8, <2>1, SecondCleaned
  <2>3. MemoryIsLatest(l)'
    BY <2>2 DEF MemoryIsLatest, Latest, Packed, Content
  <2> QED
    BY <2>1, <2>3 DEF MemoryIsLatest, Latest, RamLine, Packed
<1> QED
  BY <1>6, <1>7, <1>8 DEF MemoryFollows, Ram

\* Who alone asks for the bus gets it.
LEMMA AloneGranted ==
  ASSUME NEW shown, NEW g, SecondRight(shown, g), NEW m \in Masters, NEW n \in Masters \ {m},
         rcmd = None, read_queue = << >>, BusReq(m), ~BusReq(n)
  PROVE  g = m
<1>1. ~rreq /\ ~dreq
  BY SecondDram DEF SecondRight, RoundIsOf
<1>2. \A x \in Masters : BusReq(x) <=> x = m
  BY TwoMasters
<1>3. Responding(shown) \subseteq {m}
  BY <1>1, <1>2 DEF Responding
<1>4. {x \in Masters : BusReq(x)} = {m}
  BY <1>2
<1> QED
  BY <1>3, <1>4 DEF SecondRight, Chosen, Grants

\* A cache that is granted the bus for its request has sent it.
LEMMA SecondGrants ==
  ASSUME NEW shown, NEW g, SecondRight(shown, g), g \in Masters, ReqReady(g), snoop[g] = None
  PROVE  GrantRequest(g) /\ Sent(g)'
<1>1. Granted(g) /\ g # "rom" /\ g # "dram" /\ g # "nobody"
  BY TwoMasters DEF SecondRight, Chosen
<1>2. GrantRequest(g)
  BY <1>1 DEF Granted, GrantFlush, SnoopReady
<1> QED
  BY <1>2, SecondRequest

\* An eviction that was overtaken has its flush ready, not sent.
LEMMA SecondOvertaken ==
  ASSUME NEW shown, NEW g, SecondRight(shown, g), NEW m \in Masters, Overtaken(m)', NEW n \in Masters \ {m}
  PROVE  /\ Overtaken(m) /\ snoop[n] = None /\ NoReads /\ (Handing(m, n) \/ Handed(m, n))
         /\ req[m] # None /\ ~Sent(m) /\ ~Confirmed(m) /\ way[m].line \in Ram
         /\ req'[m] # None /\ req'[m].left = req[m].left
<1>1. op'[m] # None /\ op'[m].evict /\ way'[m].state = "I"
  BY DEF Overtaken
<1>2. op[m] = op'[m] /\ way[m].state = "I"
  BY <1>1, SecondOps, SecondWays
<1>3. Overtaken(m)
  BY <1>1, <1>2 DEF Overtaken
<1>4. ~(nack /\ OnBus({"BusUpgr"}))
  <2> SUFFICES ASSUME nack, OnBus({"BusUpgr"}) PROVE FALSE
    OBVIOUS
  <2>1. OnBus(Commands) /\ ~OnBus({"Flush"})
    BY DEF OnBus, Commands, Requests
  <2>2. PICK x : x = bus.tag[1]
    OBVIOUS
  <2>3. Sent(x) /\ Its(x)
    BY <2>1, <2>2 DEF SecondRight, RoundIsOf
  <2>4. req[x].cmd = "BusUpgr" /\ x \in Masters
    BY <2>2, <2>3 DEF Its, OnBus, SecondRight, MemTypes, Rounds, Tags
  <2> QED
    BY <2>3, <2>4, SecondMoves DEF SecondRight
<1>5. snoop[n] = None /\ NoReads /\ (Handing(m, n) \/ Handed(m, n))
  BY <1>3, <1>4 DEF SecondRight, StoreParts, FlushesFirst
<1>6. op[m] # None /\ op[m].evict /\ op[m].at = "miss" /\ ~Awaiting(m) /\ way[m].line \in Ram /\ (req[m] # None => req[m].cmd = "Flush")
  BY <1>1, <1>2, EvictsFlush DEF SecondRight, StoreParts
<1>7. req[m] # None
  BY <1>6 DEF SecondRight, SecondHalf, Waits, RequestsFollow, RequestOf, Asking, Awaiting
<1>8. ~Confirmed(m)
  BY <1>1, <1>6, <1>7, SecondAccess
<1>9. ~Sent(m)
  BY <1>6, <1>7, <1>8, NackedReads DEF Reads
<1>10. req'[m] # None
  BY <1>7, <1>8, SecondRequest
<1> QED
  BY <1>3, <1>5, <1>6, <1>7, <1>8, <1>9, <1>10, SecondRequest

\* Where nothing reads nothing starts to.
LEMMA SecondNoReads ==
  ASSUME NEW shown, NEW g, SecondRight(shown, g), NoReads
  PROVE  NoReads'
<1>1. /\ read_queue = << >> /\ rcmd = None /\ (dcmd # None => dcmd.write)
      /\ \A i \in DOMAIN transactions : transactions[i].write
  BY DEF NoReads
<1>2. ~GrantRom /\ ~GrantDram
  BY <1>1 DEF GrantRom, GrantDram
<1>3. g # "dram"
  BY <1>2, TwoMasters DEF SecondRight, Chosen, Granted, GrantFlush, GrantRequest
<1>4. read_queue' = << >> /\ rcmd' = None /\ dcmd' = dcmd /\ transactions' = transactions
  BY <1>1, <1>3, SecondDram
<1>5. ~OnBus({"Fill"})'
  BY <1>2, SecondBus
<1> QED
  BY <1>1, <1>4, <1>5 DEF NoReads

\* The flush of the eviction still comes first.
LEMMA SecondHanding ==
  ASSUME NEW shown, NEW g, SecondRight(shown, g), NEW m \in Masters, Overtaken(m)', NEW n \in Masters \ {m}, Handing(m, n)
  PROVE  Handing(m, n)' \/ Handed(m, n)'
<1>1. /\ Overtaken(m) /\ snoop[n] = None /\ NoReads /\ req[m] # None /\ ~Sent(m) /\ way[m].line \in Ram
      /\ req'[m] # None /\ req'[m].left = req[m].left
  BY SecondOvertaken
<1>2. /\ snoop[m] # None /\ snoop[m].line = way[m].line
      /\ op[n] # None /\ op[n].write /\ op[n].line = way[m].line
      /\ half = 1 /\ half' = 0 /\ way'[m].line = way[m].line /\ way'[n].line = way[n].line
  BY SecondDram, SecondWays DEF Handing
<1>3. CASE ~SnoopSent(m)
  <2>1. PICK l \in Ram : l = way[m].line
    BY <1>1
  <2>2. m \in FlushHas(l) /\ Under(l)
    BY <1>2, <1>3, <2>1 DEF FlushHas, Under
  <2>3. ~Upgraded(n)
    BY <1>2, <2>1, <2>2, SecondUpgraded
  <2>4. op'[n] # None /\ op'[n].write /\ op'[n].line = way'[m].line
    BY <1>2, <2>3, SecondOps
  <2>5. CASE snoop[m].at = "data" /\ req[m].left <= 2
    <3>1. snoop'[m] = snoop[m]
      BY <1>3, <2>5, SecondSnoops DEF SnoopReady
    <3> QED
      BY <1>1, <1>2, <2>4, <2>5, <3>1 DEF Handing
  <2>6. CASE SnoopReady(m) /\ req[m].left <= 1
    <3>1. PICK x : x = snoop[m].tag[1]
      OBVIOUS
    <3>2. x # m /\ x \in Masters /\ (Awaiting(x) \/ Sent(x))
      BY <1>2, <2>1, <2>2, <3>1 DEF SecondRight, RoundIsOf, StoreParts, OneOf, Expected, WaitsFor, SoonWaits, Due
    <3>3. x = n
      BY <3>2, TwoMasters
    <3>4. ~ReqReady(n)
      BY <3>2, <3>3, SecondAccess DEF ReqReady, Sent
    <3>5. BusReq(m) /\ ~BusReq(n)
      BY <1>1, <2>6, <3>4 DEF BusReq, SnoopReady
    <3>6. g = m
      BY <1>1, <3>5, AloneGranted DEF NoReads
    <3>7. SnoopSent(m)' /\ snoop'[m] # None /\ snoop'[m].line = snoop[m].line
      BY <2>6, <3>6, SecondSnoops
    <3> QED
      BY <1>1, <1>2, <2>4, <2>6, <3>7 DEF Handing
  <2> QED
    BY <1>1, <1>2, <1>3, <2>5, <2>6 DEF Handing
<1>4. CASE SnoopSent(m)
  <2>1. req[m].left = 0 /\ op[n].at = "bank"
    BY <1>1, <1>2, <1>4 DEF Handing, SnoopSent, SnoopReady
  <2>2. way[n].line = op[n].line /\ way[n].state = "M"
    BY <1>2, <2>1 DEF SecondRight, StoreParts, WaysFollow, WayOf
  <2>3. way'[n].state = "M" /\ way'[n].line = way'[m].line
    BY <1>2, <2>2, SecondWays
  <2>4. op'[n] = op[n]
    BY <2>1, SecondOps
  <2>5. snoop'[m] = None
    BY <1>4, SecondSnoops
  <2>6. ~Sent(m)'
    BY <1>1, <1>2, SecondRequest DEF GrantRequest
  <2> QED
    BY <1>1, <1>2, <2>1, <2>3, <2>4, <2>5, <2>6 DEF Handed
<1> QED
  BY <1>3, <1>4

\* The flush of a line that was handed over still comes before the next one.
LEMMA SecondHanded ==
  ASSUME NEW shown, NEW g, SecondRight(shown, g), NEW m \in Masters, Overtaken(m)', NEW n \in Masters \ {m}, Handed(m, n)
  PROVE  Handed(m, n)'
<1>1. /\ Overtaken(m) /\ snoop[n] = None /\ NoReads /\ req[m] # None /\ ~Sent(m)
      /\ req'[m] # None /\ req'[m].left = req[m].left /\ req[m] \in Sending
  BY SecondOvertaken DEF SecondRight, MemTypes
<1>2. /\ snoop[m] = None /\ way[n].state = "M" /\ way[n].line = way[m].line /\ req[m].left = 0
      /\ half = 1 /\ half' = 0
      /\ op[n] # None => op[n].at = "miss" /\ op[n].evict
      /\ req[m].at # "data"
      /\ req[n] # None => ~Sent(n) /\ req[n].at = "data" /\ req[n].left >= 2
  BY <1>1, SecondDram DEF Handed
<1>3. ReqReady(m)
  BY <1>1, <1>2 DEF Sending, ReqReady, Sent
<1>4. BusReq(m) /\ ~BusReq(n)
  BY <1>1, <1>2, <1>3 DEF BusReq, SnoopReady, ReqReady
<1>5. g = m
  BY <1>1, <1>4, AloneGranted DEF NoReads
<1>6. Sent(m)'
  BY <1>2, <1>3, <1>5, SecondGrants
<1>7. ~Confirmed(n) /\ op'[n] = op[n]
  BY <1>2, SecondAccess DEF Confirmed
<1>8. snoop'[m] = None
  BY <1>2, SecondSnoops DEF SnoopSent, SnoopReady
<1>9. way'[n].state = "M" /\ way'[n].line = way'[m].line
  BY <1>2, SecondWays
<1>10. req'[n] # None => ~Sent(n)' /\ req'[n].at = "data" /\ req'[n].left >= 2
  BY <1>2, <1>5, SecondRequest
<1> QED
  BY <1>1, <1>2, <1>6, <1>7, <1>8, <1>9, <1>10 DEF Handed

\* The flushes of a line stay in order.
LEMMA SecondFlushes ==
  ASSUME NEW shown, NEW g, SecondRight(shown, g)
  PROVE  FlushesFirst'
<1> SUFFICES ASSUME NEW m \in Masters, Overtaken(m)', NEW n \in Masters \ {m}
             PROVE  snoop'[n] = None /\ NoReads' /\ (Handing(m, n)' \/ Handed(m, n)')
  BY DEF FlushesFirst
<1>1. snoop[n] = None /\ NoReads /\ (Handing(m, n) \/ Handed(m, n))
  BY SecondOvertaken
<1>2. snoop'[n] = None
  BY <1>1, SecondSnoops DEF SnoopSent, SnoopReady
<1> QED
  BY <1>1, <1>2, SecondNoReads, SecondHanding, SecondHanded

\* How long ago the tag of a request was used.
LEMMA TagLags ==
  ASSUME MemTypes, RequestsFollow, NEW m \in Masters, NEW k \in 0 .. 7
  PROVE  /\ rtag[m] = k => Lag(m, k) = 0
         /\ Awaiting(m) /\ pend[m].tag = k => Lag(m, k) = 1
<1>1. rtag[m] \in 0 .. 7
  BY DEF MemTypes
<1>2. rtag[m] = k => Lag(m, k) = 0
  BY <1>1 DEF Lag
<1>3. Awaiting(m) /\ pend[m].tag = k => k = (rtag[m] + 7) % 8
  BY DEF RequestsFollow, RequestOf
<1>4. k = (rtag[m] + 7) % 8 => Lag(m, k) = 1
  BY <1>1 DEF Lag
<1> QED
  BY <1>2, <1>3, <1>4

\* A flush of a line of rom that is left over waits for its turn on, hurt or not.
LEMMA SecondFlushStays ==
  ASSUME NEW shown, NEW g, SecondRight(shown, g), NEW x \in Masters, NEW k \in 0 .. 7, LeftInFlush(x, k),
         NEW n \in Masters \ {x}, SnoopReady(n), g # n
  PROVE  LeftInFlush(x, k)'
<1>1. CASE Sent(x) => Confirmed(x)
  BY <1>1, SecondFlushWaits DEF SecondRight
<1>2. CASE Sent(x) /\ ~Confirmed(x)
  <2>1. req[x].cmd \in Reads
    BY <1>2, NackedReads
  <2>2. Sent(x)' /\ op'[x] = op[x]
    BY <1>2, SecondAccess, SecondRequest
  <2>3. Lag(x, k)' = Lag(x, k) /\ (Awaiting(x)' <=> Awaiting(x)) /\ (Again(x)' <=> Again(x))
    BY <1>2, <2>2, SecondLag, SecondAccess DEF SecondRight, Again
  <2>4. turn # x => turn' # x
    BY TurnStays DEF SecondRight
  <2>5. ~Evicts(x)
    BY <1>2, <2>1 DEF Evicts, Reads
  <2>6. \/ Lag(x, k) = 1 /\ ~Awaiting(x) /\ turn # x
        \/ Lag(x, k) = 2 /\ Again(x) /\ turn # x
    BY <1>2, <2>5 DEF LeftInFlush
  <2> QED
    BY <2>2, <2>3, <2>4, <2>6 DEF LeftInFlush
<1> QED
  BY <1>1, <1>2

\* Who waits for the rom.
LEMMA SecondRomWaits ==
  ASSUME NEW shown, NEW g, SecondRight(shown, g), rcmd # None, NEW t, NEW l, t = rcmd.tag, l = rcmd.line
  PROVE  l \in Rom /\ WantsThis(t, l)' /\ AsksThis(t, l)'
<1>1. PICK x \in Masters : x = t[1]
  BY DEF SecondRight, MemTypes, RomReads, Tags
<1>2. l \in Rom /\ WantsThis(t, l) /\ AsksThis(t, l) /\ rreq
  BY SecondDram DEF SecondRight, StoreParts, RomAnswers, RoundIsOf
<1>3. ASSUME Awaiting(x)', pend'[x].tag = t[2] PROVE op'[x].line = l
  <2>1. CASE Awaiting(x)
    <3>1. op'[x] = op[x] /\ pend'[x] = pend[x]
      BY <2>1, SecondAccess
    <3> QED
      BY <1>1, <1>2, <1>3, <2>1, <3>1 DEF WantsThis
  <2>2. CASE Confirmed(x) /\ req[x].cmd \in Reads
    <3>1. op'[x] = op[x] /\ Sent(x)
      BY <2>2, SecondAccess
    <3> QED
      BY <1>1, <1>2, <2>2, <3>1 DEF AsksThis
  <2> QED
    BY <1>3, <2>1, <2>2, SecondAccess
<1>4. ASSUME Sent(x)', req'[x].cmd \in Reads PROVE rtag'[x] = t[2] /\ op'[x].line = l
  <2>1. ~(~Sent(x))
    <3> SUFFICES ASSUME ~Sent(x) PROVE FALSE
      OBVIOUS
    <3>1. req'[x].cmd = req[x].cmd /\ req[x].cmd = "Flush"
      BY <1>2, <1>4, SecondSends DEF SecondRight
    <3> QED
      BY <1>4, <3>1 DEF Reads
  <2>2. ~(GrantRequest(x) /\ x = g)
    BY <2>1, SecondRequest
  <2>3. Sent(x) /\ req[x].cmd \in Reads /\ op'[x] = op[x] /\ rtag'[x] = rtag[x]
    BY <1>4, <2>2, SecondRequest
  <2> QED
    BY <1>1, <1>2, <2>3 DEF AsksThis
<1> QED
  BY <1>1, <1>2, <1>3, <1>4 DEF WantsThis, AsksThis, Awaiting, Sent

\* Who waits for a flush of a line of rom.
LEMMA SecondRomFlush ==
  ASSUME NEW shown, NEW g, SecondRight(shown, g), NEW n \in Masters, snoop[n] # None, ~SnoopSent(n), snoop[n].line \in Rom,
         NEW x, NEW k, x = snoop[n].tag[1], k = snoop[n].tag[2]
  PROVE  /\ x \in Masters /\ k \in 0 .. 7 /\ x # n
         /\ Awaiting(x)' /\ pend'[x].tag = k => op'[x].line = snoop[n].line
         /\ ~(n = g /\ SnoopReady(n)) =>
              \/ Lag(x, k)' = 0 /\ Sent(x)' /\ req'[x].cmd \in Reads /\ op'[x].line = snoop[n].line
              \/ Lag(x, k)' = 1 /\ Awaiting(x)' /\ op'[x].line = snoop[n].line
              \/ LeftInFlush(x, k)'
<1>1. MemTypes /\ RequestsFollow /\ SecondHalf /\ half = 1 /\ RomFlush(n)
  BY SecondDram DEF SecondRight, StoreParts, RomAnswers
<1>2. snoop[n].tag \in Tags /\ snoop[n].tag[1] # n
  BY DEF SecondRight, MemTypes, Flushes, RoundIsOf
<1>3. x \in Masters /\ k \in 0 .. 7 /\ x # n
  BY <1>2 DEF Tags
<1>4. \/ Lag(x, k) = 0 /\ Sent(x) /\ req[x].cmd \in Reads /\ op[x].line = snoop[n].line
      \/ Lag(x, k) = 1 /\ Awaiting(x) /\ op[x].line = snoop[n].line
      \/ LeftInFlush(x, k) /\ SnoopReady(n)
  BY <1>1 DEF RomFlush
<1>5. CASE Lag(x, k) = 0 /\ Sent(x) /\ req[x].cmd \in Reads /\ op[x].line = snoop[n].line
  <2>1. CASE Confirmed(x)
    <3>1. op'[x] = op[x] /\ Awaiting(x)'
      BY <1>3, <1>5, <2>1, SecondAccess
    <3>2. Lag(x, k)' = 1
      BY <1>1, <1>3, <1>5, <2>1, SecondLag
    <3> QED
      BY <1>3, <1>5, <3>1, <3>2
  <2>2. CASE ~Confirmed(x)
    <3>1. op'[x] = op[x] /\ (Awaiting(x)' => Awaiting(x)) /\ ~Awaiting(x)
      BY <1>3, <1>5, <2>2, SecondAccess
    <3>2. Lag(x, k)' = 0
      BY <1>1, <1>3, <1>5, <2>2, SecondLag
    <3>3. Sent(x)' /\ ~(GrantRequest(x) /\ x = g)
      BY <1>3, <1>5, <2>2, SecondRequest
    <3>4. req'[x] = req[x]
      BY <1>3, <3>3, SecondRequest
    <3> QED
      BY <1>3, <1>5, <3>1, <3>2, <3>3, <3>4
  <2> QED
    BY <2>1, <2>2
<1>6. CASE Lag(x, k) = 1 /\ Awaiting(x) /\ op[x].line = snoop[n].line
  <2>1. ~Confirmed(x) /\ op'[x] = op[x] /\ Awaiting(x)'
    BY <1>3, <1>6, SecondAccess
  <2>2. Lag(x, k)' = 1
    BY <1>1, <1>3, <1>6, <2>1, SecondLag
  <2> QED
    BY <1>3, <1>6, <2>1, <2>2
<1>7. CASE LeftInFlush(x, k) /\ SnoopReady(n)
  <2>1. Lag(x, k) \in 1 .. 4 /\ (Lag(x, k) = 1 => ~Awaiting(x))
    BY <1>7 DEF LeftInFlush
  <2>2. ~(Awaiting(x)' /\ pend'[x].tag = k)
    <3> SUFFICES ASSUME Awaiting(x)', pend'[x].tag = k PROVE FALSE
      OBVIOUS
    <3>1. CASE Awaiting(x)
      <4>1. pend[x].tag = k
        BY <1>3, <3>1, SecondAccess
      <4> QED
        BY <1>1, <1>3, <2>1, <3>1, <4>1, TagLags
    <3>2. CASE Confirmed(x) /\ req[x].cmd \in Reads
      <4>1. rtag[x] = k
        BY <1>3, <3>2, SecondAccess
      <4> QED
        BY <1>1, <1>3, <2>1, <4>1, TagLags
    <3> QED
      BY <1>3, <3>1, <3>2, SecondAccess
  <2>3. ~(n = g /\ SnoopReady(n)) => LeftInFlush(x, k)'
    BY <1>3, <1>7, SecondFlushStays
  <2> QED
    BY <1>3, <2>2, <2>3
<1> QED
  BY <1>4, <1>5, <1>6, <1>7

\* Rom answers who asked.
LEMMA SecondRomAnswers ==
  ASSUME NEW shown, NEW g, SecondRight(shown, g)
  PROVE  RomAnswers'
<1>1. half' = 0 /\ MemTypes /\ (rcmd' # None => rcmd' = rcmd)
  BY SecondDram DEF SecondRight
<1>2. ASSUME rcmd' # None
      PROVE  rcmd'.line \in Rom /\ WantsThis(rcmd.tag, rcmd.line)' /\ AsksThis(rcmd.tag, rcmd.line)'
  <2>1. PICK t, l : t = rcmd.tag /\ l = rcmd.line
    OBVIOUS
  <2>2. rcmd' = rcmd /\ rcmd # None
    BY <1>1, <1>2
  <2>3. l \in Rom /\ WantsThis(t, l)' /\ AsksThis(t, l)'
    BY <2>1, <2>2, SecondRomWaits
  <2> QED
    BY <2>1, <2>2, <2>3 DEF WantsThis, AsksThis, Awaiting, Sent
<1>3. ASSUME bus' # None, bus'.line \in Rom, bus'.cmd = "Fill" \/ \E n \in Masters : SnoopSent(n)'
      PROVE  WantsThis(bus.tag, bus.line)'
  <2>1. PICK t, l : t = bus'.tag /\ l = bus'.line
    OBVIOUS
  <2>2. WantsThis(t, l)'
    <3>1. CASE \E n \in Masters : SnoopSent(n)'
      <4>1. PICK n \in Masters : SnoopSent(n)'
        BY <3>1
      <4>2. n = g /\ SnoopReady(n) /\ snoop[n] # None /\ ~SnoopSent(n) /\ GrantFlush(n)
        BY <4>1, SecondSnoops
      <4>3. t = snoop[n].tag /\ l = snoop[n].line /\ l \in Rom
        BY <1>3, <2>1, <4>2 DEF GrantFlush
      <4>4. PICK x, k : x = snoop[n].tag[1] /\ k = snoop[n].tag[2]
        OBVIOUS
      <4>5. Awaiting(x)' /\ pend'[x].tag = k => op'[x].line = l
        BY <4>2, <4>3, <4>4, SecondRomFlush
      <4> QED
        BY <4>3, <4>4, <4>5 DEF WantsThis, Awaiting
    <3>2. CASE bus'.cmd = "Fill"
      <4>1. OnBus({"Fill"})'
        BY <1>3, <3>2 DEF OnBus
      <4>2. ~GrantDram
        <5> SUFFICES ASSUME GrantDram PROVE FALSE
          OBVIOUS
        <5>1. bus'.line \in Ram
          BY LinesOfRam DEF GrantDram, Addrs
        <5> QED
          BY <1>3, <5>1, RamAndRom
      <4>3. GrantRom
        BY <4>1, <4>2, SecondBus
      <4>4. rcmd # None /\ t = rcmd.tag /\ l = rcmd.line
        BY <2>1, <4>3 DEF GrantRom
      <4> QED
        BY <4>4, SecondRomWaits
    <3> QED
      BY <1>3, <3>1, <3>2
  <2> QED
    BY <2>1, <2>2 DEF WantsThis, Awaiting
<1>4. ASSUME NEW n \in Masters, snoop'[n] # None, ~SnoopSent(n)', snoop'[n].line \in Rom
      PROVE  RomFlush(n)'
  <2>1. snoop[n] # None /\ ~SnoopSent(n) /\ ~(n = g /\ SnoopReady(n)) /\ snoop'[n] = snoop[n]
    BY <1>4, SecondSnoops
  <2>2. PICK x, k : x = snoop[n].tag[1] /\ k = snoop[n].tag[2]
    OBVIOUS
  <2>3. \/ Lag(x, k)' = 0 /\ Sent(x)' /\ req'[x].cmd \in Reads /\ op'[x].line = snoop'[n].line
        \/ Lag(x, k)' = 1 /\ Awaiting(x)' /\ op'[x].line = snoop'[n].line
        \/ LeftInFlush(x, k)' /\ (half' = 1 => SnoopReady(n)')
    BY <1>1, <1>4, <2>1, <2>2, SecondRomFlush
  <2> QED
    BY <2>1, <2>2, <2>3, RomFlushNext
<1> QED
  BY <1>1, <1>2, <1>3, <1>4 DEF RomAnswers, Rom

\* Everything at once.
LEMMA SecondStore ==
  ASSUME MemTypes, DramTypes, RequestsFollow, RoundIsOf, StoreParts, SecondHalf, fault' = {}
  PROVE  StoreParts'
<1>1. PICK shown, g : Chosen(shown, g)
  BY SecondChosen
<1>2. SecondRight(shown, g)
  BY <1>1 DEF SecondRight
<1> QED
  BY <1>2, SecondAccesses, SecondSentOnce, SecondFlows, SecondExclusive, SecondData, SecondLibrary, SecondMemory,
     SecondFlushes, SecondRomAnswers DEF StoreParts, Ram

-----------------------------------------------------------------------------
(* The theorems *)

\* Reset is in the invariant: no cache has a line, and memory is what was never written.
LEMMA StoreStarts == MemInit => StoreInv
<1> SUFFICES ASSUME MemInit PROVE StoreParts
  BY DEF StoreInv
<1>1. /\ \A m \in Masters : /\ op[m] = None /\ req[m] = None /\ pend[m] = None /\ snoop[m] = None /\ rtag[m] = 0
                            /\ way[m] = [line |-> 0, state |-> "I", data |-> Content(0)]
      /\ bus = None /\ half = 0 /\ nack = FALSE /\ dnack = FALSE /\ dcmd = None /\ rcmd = None
      /\ read_queue = << >> /\ transactions = << >> /\ write_queue = [t \in {} |-> << >>]
      /\ latest = [l \in Lines |-> 0]
      /\ memory = [a \in 0 .. Dwords * RamLines - 1 |-> Packed(Content(0))[a % Dwords]]
  BY DEF MemInit, DramInit
<1>2. /\ \A m \in Masters : ~Sent(m) /\ ~SnoopSent(m) /\ ~Awaiting(m) /\ way[m].state = "I" /\ \A l : ~Holds(m, l)
      /\ \A cmds : ~OnBus(cmds)
      /\ DOMAIN transactions = {} /\ DOMAIN read_queue = {} /\ DOMAIN write_queue = {}
  BY <1>1 DEF Sent, SnoopSent, Awaiting, Holds, OnBus
<1>3. \A l : /\ ~CtlHas(l) /\ LibHas(l) = {} /\ ReadsHave(l) = {} /\ FlushHas(l) = {} /\ ~FillHas(l) /\ ~GivenHas(l)
             /\ WritesOf(l) = {}
  BY <1>1, <1>2 DEF CtlHas, LibHas, ReadsHave, FlushHas, FillHas, GivenHas, WritesOf
<1>4. WaysFollow /\ SentOnce /\ Exclusive /\ FlushesFirst /\ RomAnswers
  BY <1>1, <1>2 DEF WaysFollow, WayOf, SentOnce, Exclusive, FlushesFirst, Overtaken, RomAnswers
<1>5. \A l \in Ram : OneOf(l)
  BY <1>2, <1>3 DEF OneOf, OneFor, Expected, Held, RoundHas, DramHas
<1>6. \A l \in Ram \cup Rom : latest[l] = 0
  BY <1>1 DEF Lines, Ram, Rom
<1>7. DataIsLatest
  BY <1>1, <1>2, <1>3, <1>6 DEF DataIsLatest
<1>8. TagsOfWrites = {}
  BY <1>2 DEF TagsOfWrites
<1>9. Library
  BY <1>2, <1>3, <1>8 DEF Library
<1>10. \A l \in Ram : MemoryIsLatest(l)
  <2> SUFFICES ASSUME NEW l \in Ram PROVE RamLine(l) = Packed(Content(0))
    BY <1>6 DEF MemoryIsLatest, Latest
  <2>1. DramTypes
    BY MemInitWait DEF WaitInv, MemInit
  <2>2. RamLine(l) = LineInMemory(l)
    BY <1>1, <1>3, <2>1, RamLineSays DEF RamLinesAre
  <2>3. ASSUME NEW i \in 0 .. Dwords - 1 PROVE memory[Dwords * l + i] = Packed(Content(0))[i]
    <3>1. Dwords \in Nat \ {0} /\ l \in Nat
      BY DramAssumption, LinesOfRam
    <3>2. (Dwords * l + i) % Dwords = i
      BY <3>1, Quotient
    <3>3. Dwords * l + i \in 0 .. Dwords * RamLines - 1
      BY <3>1, LinesOfRam, WordBounds, DramAssumption
    <3> QED
      BY <1>1, <3>2, <3>3
  <2>4. LineInMemory(l) = [i \in 0 .. Dwords - 1 |-> Packed(Content(0))[i]]
    BY <2>3 DEF LineInMemory
  <2>5. Packed(Content(0)) = [i \in 0 .. Dwords - 1 |-> Packed(Content(0))[i]]
    BY DEF Packed
  <2> QED
    BY <2>2, <2>4, <2>5
<1>11. MemoryFollows
  BY <1>2, <1>3, <1>10 DEF MemoryFollows, Cleaned
<1> QED
  BY <1>4, <1>5, <1>7, <1>9, <1>11 DEF StoreParts

\* Every step of a behaviour without a fault.
LEMMA StoreStep == WaitInv /\ StoreInv /\ MemNext => StoreInv'
<1> SUFFICES ASSUME WaitInv, StoreInv, MemNext, fault' = {} PROVE StoreParts'
  BY DEF StoreInv
<1>1. MemTypes /\ DramTypes /\ RequestsFollow /\ RoundIsOf /\ StoreParts
  BY FaultsStay DEF WaitInv, StoreInv
<1>2. ASSUME NEW m \in Masters, Start(m) \/ Schedule(m) \/ Ready(m) PROVE StoreParts'
  BY <1>1, <1>2, CacheStore
<1>3. ASSUME NEW ready \in CmdReady, FirstHalf(ready) PROVE StoreParts'
  <2>1. ready \in BOOLEAN
    BY DEF CmdReady
  <2>2. FirstRight(ready)
    BY <1>1, <1>3, <2>1 DEF FirstRight
  <2> QED
    BY <2>2, FirstStore
<1>4. CASE SecondHalf
  BY <1>1, <1>4, SecondStore
<1>5. CASE ClockTick /\ UNCHANGED <<cacheVars, busVars, histVars>>
  BY <1>1, <1>5, TickStore
<1> QED
  BY <1>2, <1>3, <1>4, <1>5 DEF MemNext

\* A step that changes nothing keeps all parts.
LEMMA StoreStutter == StoreInv /\ UNCHANGED memVars => StoreInv'
<1> SUFFICES ASSUME StoreParts, UNCHANGED memVars PROVE StoreParts'
  BY DEF StoreInv, memVars, histVars
<1>1. UNCHANGED <<op, way, pend, req, snoop, rtag, bus, turn, half, hit, nack, dnack, dcmd, dreq, rcmd, rreq,
                  nops, latest, hurt, fault, vpi, memory, read_queue, write_queue, transactions>>
  BY DEF memVars, cacheVars, busVars, histVars, dramVars
<1>2. WaysFollow' /\ SentOnce'
  BY <1>1 DEF StoreParts, WaysFollow, WayOf, Holds, SentOnce, Sent, Its, SnoopSent, OnBus
<1>3. ASSUME NEW l \in Ram PROVE OneOf(l)'
  BY <1>1 DEF StoreParts, OneOf, OneFor, Expected, Held, CtlHas, LibHas, ReadsHave, FlushHas, FillHas, GivenHas,
              RoundHas, DramHas, Due, WaitsFor, SoonWaits, Awaiting, Sent, SnoopSent, SnoopReady, OnBus, Holds
<1>4. Exclusive'
  BY <1>1 DEF StoreParts, Exclusive, Under, CtlHas, LibHas, ReadsHave, FlushHas, FillHas, GivenHas,
              RoundHas, DramHas, Sent, SnoopSent, OnBus, Holds
<1>5. DataIsLatest'
  BY <1>1 DEF StoreParts, DataIsLatest, Latest, Content, Packed, ReadsHave, SnoopSent, OnBus
<1>6. Library'
  BY <1>1 DEF StoreParts, Library, TagsOfWrites, WritesOf, LibHas
<1>7. \A l : RamLine(l)' = RamLine(l)
  BY <1>1 DEF RamLine
<1>8. MemoryFollows'
  BY <1>1, <1>7 DEF StoreParts, MemoryFollows, MemoryIsLatest, Latest, Content, Packed, Cleaned, CtlHas, LibHas,
                    FlushHas, GivenHas, SnoopSent, Holds
<1>9. FlushesFirst'
  BY <1>1 DEF StoreParts, FlushesFirst, Overtaken, NoReads, Handing, Handed, SnoopReady, SnoopSent, Sent, OnBus
<1>10. RomAnswers'
  <2>1. \A n \in Masters : RomFlush(n)' <=> RomFlush(n)
    BY <1>1 DEF RomFlush, Lag, Sent, Awaiting, LeftInFlush, Evicts, Again, SnoopReady
  <2> QED
    BY <1>1, <2>1 DEF StoreParts, RomAnswers, WantsThis, AsksThis, Awaiting, Sent, SnoopSent
<1> QED
  BY <1>2, <1>3, <1>4, <1>5, <1>6, <1>8, <1>9, <1>10 DEF StoreParts, Ram

\* Up to the first fault the caches, the flushes, memory and the reads under way agree on
\* every line: this is the invariant behind CopiesAreLatest (l2tag.v, l2data.v, l2trans.v,
\* bus.v, rom.v, dramctl.v and the glue together).
THEOREM StoreInvariance == MemSpec => [](WaitInv /\ StoreInv)
<1>1. MemInit => WaitInv /\ StoreInv
  BY MemInitWait, StoreStarts
<1>2. WaitInv /\ StoreInv /\ [MemNext]_memVars => (WaitInv /\ StoreInv)'
  BY WaitStep, WaitStutter, StoreStep, StoreStutter
<1> QED
  BY <1>1, <1>2, PTL DEF MemSpec

\* Up to the first fault no store is lost: a valid copy has the last store to its line, a
\* line in state M is in no other cache, and a line of ram that no cache has modified or
\* gives away is in memory, or will be when the writes that dramctl.v and the library have
\* taken are done.
THEOREM CopiesLatest == MemSpec => []CopiesAreLatest
<1>1. WaitInv /\ StoreInv => CopiesAreLatest
  <2> SUFFICES ASSUME StoreParts, RoundIsOf, fault = {}
               PROVE  /\ \A m \in Masters :
                           /\ way[m].state # "I" => way[m].data = Content(latest[way[m].line])
                           /\ way[m].state = "M" =>
                                \A n \in Masters \ {m} : ~Holds(n, way[m].line)
                      /\ \A l \in Ram :
                           \/ \E m \in Masters : Holds(m, l) /\ way[m].state = "M"
                           \/ \E m \in Masters : snoop[m] # None /\ snoop[m].line = l
                           \/ RamLine(l) = Packed(Content(latest[l]))
    BY DEF WaitInv, StoreInv, CopiesAreLatest
  <2>1. \A m \in Masters : way[m].state # "I" => way[m].data = Content(latest[way[m].line])
    BY DEF StoreParts, DataIsLatest, Latest
  <2>2. \A m \in Masters : way[m].state = "M" => \A n \in Masters \ {m} : ~Holds(n, way[m].line)
    BY DEF StoreParts, Exclusive
  <2>3. ASSUME NEW l \in Ram
        PROVE  \/ \E m \in Masters : Holds(m, l) /\ way[m].state = "M"
               \/ \E m \in Masters : snoop[m] # None /\ snoop[m].line = l
               \/ RamLine(l) = Packed(Content(latest[l]))
    <3>1. FlushHas(l) # {} => \E m \in Masters : snoop[m] # None /\ snoop[m].line = l
      BY DEF FlushHas
    <3>2. GivenHas(l) => \E m \in Masters : snoop[m] # None /\ snoop[m].line = l
      BY DEF GivenHas, SnoopSent, RoundIsOf
    <3> QED
      BY <3>1, <3>2 DEF StoreParts, MemoryFollows, MemoryIsLatest, Latest
  <2> QED
    BY <2>1, <2>2, <2>3
<1> QED
  BY <1>1, StoreInvariance, PTL
=============================================================================
