------------------------------- MODULE Fetch -------------------------------
(***************************************************************************)
(* The front end: the fetch unit with its buffer (fetch.v), the two stages *)
(* of the instruction cache (icache.v) and the history registers of the    *)
(* branch predictor (brpred.v).                                            *)
(*                                                                         *)
(* FetchEdge is the clock edge.  Its inputs are the stall of decode, what  *)
(* the predictor's table says, and the retirement of the oldest of the     *)
(* instructions that decode has taken, which may redirect fetch.           *)
(*                                                                         *)
(* A pc counts halfwords, as pc[31:1]; an odd one is misaligned.  A word   *)
(* of memory is read as its own address, and code says what is there.  The *)
(* table of counters is left out: a prediction is any; its index is the    *)
(* history, which the address is xor-ed to.  icache_error is always 0.     *)
(***************************************************************************)
EXTENDS Integers, Sequences

CONSTANTS
  BufSize,    \* entries of the fetch buffer, 16
  MemWords,   \* 2^30
  Codes,      \* what memory may hold
  HistLen,    \* bits of history, 14
  MaxFlight   \* bound: instructions between decode and retirement

Entries  == 0 .. BufSize - 1
Pcs      == 0 .. 2 * MemWords - 1
WordsOf  == 0 .. MemWords - 1
History  == [1 .. HistLen -> BOOLEAN]     \* the last bit is the newest

Insns == [kind : {"plain", "br", "jal", "jalr"}, target : Pcs]

ASSUME FetchAssumption ==
  /\ BufSize \in Nat \ {0, 1} /\ MemWords \in Nat \ {0} /\ HistLen \in Nat \ {0}
  /\ MaxFlight \in Nat \ {0}
  /\ Codes \subseteq [WordsOf -> Insns]

VARIABLES
  code,
  \* fetch.v
  pc,
  fhead, fmid, ftail,                        \* buf_head, buf_mid, buf_tail with polarity
  fbuf,                                      \* buf_valid, buf_error, buf_addr, ...
  bp_req, insn_jal, jalr_halt, misalign_err, \* the registers of these names
  \* icache.v: the word each stage is about
  s0, s1,
  \* brpred.v
  req, spec_bhr, arch_bhr, rd_hist, pht_data,
  \* decode to retirement: the words taken, with their predictions
  flight,
  \* history
  next,      \* the pc that decode is to be offered next
  path,      \* the outcomes of the branches before it
  polluted   \* a branch that was never on the path is in the predictor's history

fetchRegs == <<pc, fhead, fmid, ftail, fbuf, bp_req, insn_jal, jalr_halt, misalign_err>>
predRegs  == <<req, spec_bhr, arch_bhr, rd_hist, pht_data>>
fetchVars == <<code, fetchRegs, s0, s1, predRegs, flight, next, path, polluted>>

Ptr == INSTANCE CircPtr WITH N <- BufSize

Nothing == -1
Misaligned(p) == p % 2 = 1
WordOf(p)     == p \div 2
After(p, k)   == (p + k) % (2 * MemWords)
Shift(h, b)   == [i \in 1 .. HistLen |-> IF i = HistLen THEN b ELSE h[i + 1]]
NoBranches    == [i \in 1 .. HistLen |-> FALSE]

EmptyEntry == [valid |-> FALSE, error |-> FALSE, addr |-> 0, insn |-> 0,
               hist |-> NoBranches, taken |-> FALSE]

\* The buffer is empty after reset, and what it holds then is not looked at.
FetchInit ==
  /\ code \in Codes
  /\ pc = 0 /\ fhead = 0 /\ fmid = 0 /\ ftail = 0
  /\ fbuf = [e \in Entries |-> EmptyEntry]
  /\ bp_req = FALSE /\ insn_jal = FALSE /\ jalr_halt = FALSE /\ misalign_err = FALSE
  /\ s0 = Nothing /\ s1 = Nothing
  /\ req = FALSE /\ spec_bhr = NoBranches /\ arch_bhr = NoBranches
  /\ rd_hist = NoBranches /\ pht_data = FALSE
  /\ flight = << >> /\ next = 0 /\ path = NoBranches /\ polluted = FALSE

-----------------------------------------------------------------------------
(* Fetch *)

IcacheValid == s1 # Nothing
Insn(kind)  == IcacheValid /\ code[s1].kind = kind      \* insn_br, insn_jal, insn_jalr
FbufEmpty   == fhead = ftail
FbufFull    == Ptr!IsFull(fhead, ftail)
MidPrev     == IF Ptr!Idx(fmid) = 0 THEN BufSize - 1 ELSE Ptr!Idx(fmid) - 1
Last        == fbuf[MidPrev]                            \* the latest answer

BrTaken       == bp_req /\ pht_data
SetPc(flush)  == flush \/ BrTaken \/ insn_jal
IcFlush(flush) == SetPc(flush) \/ Insn("jalr")
IcReq(flush)  == ~FbufFull /\ ~IcFlush(flush) /\ ~jalr_halt /\ ~Misaligned(pc)
MisalignErr(flush) == Misaligned(pc) /\ ~misalign_err /\ ~FbufFull /\ ~SetPc(flush)

\* What decode is offered (fetch_de_valid).
HeadEntry == fbuf[Ptr!Idx(fhead)]
Offered   == ~FbufEmpty /\ HeadEntry.valid

\* br_target and jal_target are relative to the address of the instruction.
Target == code[Last.insn].target

Pc(flush, to) ==
  pc' = IF flush THEN 2 * to
        ELSE IF BrTaken \/ insn_jal THEN Target
        ELSE IF IcReq(flush) THEN After(pc, 2)
        ELSE pc

BufPointers(flush, stall) ==
  /\ fhead' = IF flush THEN 0 ELSE IF Offered /\ ~stall THEN Ptr!Inc(fhead) ELSE fhead
  /\ fmid'  = IF flush THEN 0 ELSE IF IcacheValid /\ ~SetPc(flush) THEN Ptr!Inc(fmid) ELSE fmid
  /\ ftail' = IF flush THEN 0 ELSE IF SetPc(flush) THEN fmid
              ELSE IF IcReq(flush) THEN Ptr!Inc(ftail) ELSE ftail

\* A request starts its entry, the answer fills it, a prediction completes it.
\* (The first definition is a mutant: the entry keeps the valid bit of its last use.)
Requested_StaleValid(e) == [e EXCEPT !.addr = pc]
Requested(e) == [e EXCEPT !.valid = FALSE, !.addr = pc]
Erroneous(e) == [e EXCEPT !.valid = TRUE, !.error = TRUE, !.addr = pc]
Answered(e)  == [e EXCEPT !.valid = @ \/ ~Insn("br"), !.error = FALSE, !.insn = s1]
Predicted(e) == [e EXCEPT !.valid = TRUE, !.hist = rd_hist, !.taken = pht_data]
\* Of an entry that is not in use nothing can be read but buf_valid: the rest is dropped.
Unused(e) == [EmptyEntry EXCEPT !.valid = e.valid]
Written(flush, i) ==
  LET a == IF i # Ptr!Idx(ftail) THEN fbuf[i]
           ELSE IF IcReq(flush) THEN Requested(fbuf[i])
           ELSE IF MisalignErr(flush) THEN Erroneous(fbuf[i]) ELSE fbuf[i]
      b == IF IcacheValid /\ i = Ptr!Idx(fmid) THEN Answered(a) ELSE a
  IN IF bp_req /\ i = MidPrev THEN Predicted(b) ELSE b
Buffer(flush) ==
  LET live == Ptr!Live(fhead', ftail')
  IN fbuf' = [i \in Entries |->
       IF i \in live THEN Written(flush, i) ELSE Unused(Written(flush, i))]

\* (The first definition is a mutant: only a flush ends the halt, not a branch before the jalr.)
Latches_HaltStays(flush) ==
  /\ bp_req' = (Insn("br") /\ ~SetPc(flush))
  /\ insn_jal' = (Insn("jal") /\ ~SetPc(flush))
  /\ jalr_halt' = ((jalr_halt \/ Insn("jalr")) /\ ~flush)
  /\ misalign_err' = ((misalign_err \/ MisalignErr(flush)) /\ ~SetPc(flush))
Latches(flush) ==
  /\ bp_req' = (Insn("br") /\ ~SetPc(flush))
  /\ insn_jal' = (Insn("jal") /\ ~SetPc(flush))
  /\ jalr_halt' = ((jalr_halt \/ Insn("jalr")) /\ ~SetPc(flush))
  /\ misalign_err' = ((misalign_err \/ MisalignErr(flush)) /\ ~SetPc(flush))

\* icache.v
Icache(flush) ==
  /\ s0' = IF IcReq(flush) THEN WordOf(pc) ELSE Nothing
  /\ s1' = IF IcFlush(flush) THEN Nothing ELSE s0

-----------------------------------------------------------------------------
(* The predictor's history *)

\* The history of the read that is being made: a prediction of this cycle is forwarded.
\* (The first definition is a mutant: it is not.)
ReadHist_NotForwarded == spec_bhr
ReadHist == IF req THEN Shift(spec_bhr, pht_data) ELSE spec_bhr

\* The request is made also when fetch drops the answer.  What the table says is
\* looked at in the cycle after a request only.
Predictor(flush, branch, outcome) ==
  LET arch == IF branch THEN Shift(arch_bhr, outcome) ELSE arch_bhr
  IN /\ req' = Insn("br")
     /\ pht_data' \in IF Insn("br") THEN BOOLEAN ELSE {FALSE}
     /\ rd_hist' = IF Insn("br") THEN ReadHist ELSE NoBranches
     /\ arch_bhr' = arch
     /\ spec_bhr' = IF flush THEN arch ELSE IF req THEN Shift(spec_bhr, pht_data) ELSE spec_bhr

-----------------------------------------------------------------------------
(* Decode and retirement *)

Successor(e) ==
  LET i == code[e.insn]
  IN CASE i.kind = "jalr" -> Nothing
       [] i.kind = "jal" \/ (i.kind = "br" /\ e.taken) -> i.target
       [] OTHER -> After(e.addr, 2)

\* The clock edge: whether decode stalls, whether the oldest instruction retires, and
\* as a branch with which outcome, and whether and where it redirects fetch.
FetchEdge(stall, retires, branch, outcome, flush, to) ==
  LET beat == Offered /\ ~stall /\ ~flush
  IN /\ Pc(flush, to) /\ BufPointers(flush, stall) /\ Buffer(flush) /\ Latches(flush)
     /\ Icache(flush)
     /\ Predictor(flush, branch, outcome)
     /\ flight' = IF flush THEN << >>
                  ELSE (IF retires THEN Tail(flight) ELSE flight)
                       \o (IF beat THEN <<[word |-> HeadEntry.insn, taken |-> HeadEntry.taken]>> ELSE << >>)
     /\ next' = IF flush THEN 2 * to ELSE IF beat THEN Successor(HeadEntry) ELSE next
     /\ path' = IF flush THEN arch_bhr'
                ELSE IF beat /\ code[HeadEntry.insn].kind = "br" THEN Shift(path, HeadEntry.taken)
                ELSE path
     /\ polluted' = ((Insn("br") /\ SetPc(flush)) \/ (polluted /\ ~flush))
     /\ UNCHANGED code

Oldest == flight[1]
KindOf(f) == code[f.word].kind

\* rob.v: nothing retires, or the oldest instruction as it was predicted;
Runs(stall) ==
  \/ FetchEdge(stall, FALSE, FALSE, FALSE, FALSE, 0)
  \/ /\ flight # << >> /\ KindOf(Oldest) # "jalr"
     /\ FetchEdge(stall, TRUE, KindOf(Oldest) = "br", Oldest.taken, FALSE, 0)
\* a branch that was mispredicted goes the other way (decode_target);
Mispredicted ==
  /\ flight # << >> /\ KindOf(Oldest) = "br"
  /\ FetchEdge(TRUE, TRUE, TRUE, ~Oldest.taken, TRUE,
               IF Oldest.taken THEN WordOf(After(2 * Oldest.word, 2)) ELSE WordOf(code[Oldest.word].target))
\* a jalr goes anywhere, and so does any instruction that fails (csr_tvec).
Jumps ==
  /\ flight # << >>
  /\ \E to \in WordsOf : FetchEdge(TRUE, TRUE, FALSE, FALSE, TRUE, to)

FetchNext ==
  \/ \E stall \in BOOLEAN : (stall \/ Len(flight) < MaxFlight) /\ Runs(stall)
  \/ Mispredicted
  \/ Jumps

FetchSpec == FetchInit /\ [][FetchNext]_fetchVars /\ WF_fetchVars(FetchNext)
-----------------------------------------------------------------------------
(* Properties *)

\* Whatever is flushed, redirected or in flight in the cache: decode is offered exactly
\* the instructions of the predicted path, each with its own word.
FetchesPath ==
  Offered => /\ HeadEntry.addr = next
             /\ HeadEntry.error <=> Misaligned(next)
             /\ ~HeadEntry.error => HeadEntry.insn = WordOf(next)

\* The history that a branch was predicted with, and that will train the table, is
\* that of the branches before it on its path, across consecutive predictions and
\* redirections; except that a branch which fetch drops in the cycle of a redirection
\* stays in the history until the next flush (brpred.v:69).
HistoryIsPath ==
  Offered /\ ~HeadEntry.error /\ code[HeadEntry.insn].kind = "br" /\ ~polluted
    => HeadEntry.hist = path

\* There is always a next instruction to offer, except after a jalr, until it retires,
\* and at a misaligned pc: its error entry never gets into the buffer (fetch.v:163).
KeepsOffering == []<>(Offered \/ next = Nothing \/ Misaligned(next))
-----------------------------------------------------------------------------
(* The inductive invariant *)

\* Positions count the entries from the head on: the answered ones and then, up to the
\* tail, those asked for.  An answered entry is open while its prediction or its target
\* is still being looked up; what follows it in the buffer then is what was fetched on
\* the guess that it does not jump.
Slot(p)  == Ptr!Nth(fhead, p + 1)
Entry(p) == fbuf[Slot(p)]
Answers  == Ptr!Dist(fhead, fmid)
Asked    == Ptr!Dist(fhead, ftail)
Open(p)  == p = Answers - 1 /\ (bp_req \/ insn_jal)
IsBranch(p)    == code[Entry(p).insn].kind = "br"
FollowedBy(p)  == IF p < Answers /\ ~Open(p) THEN Successor(Entry(p)) ELSE After(Entry(p).addr, 2)
ExpectedPc(p)  == IF p = 0 THEN next ELSE FollowedBy(p - 1)

EntryTypes == [valid : BOOLEAN, error : BOOLEAN, addr : Pcs, insn : WordsOf,
               hist : History, taken : BOOLEAN]
FetchTypeOK ==
  /\ code \in Codes /\ pc \in Pcs /\ next \in Pcs \cup {Nothing}
  /\ fhead \in Ptr!Ptrs /\ fmid \in Ptr!Ptrs /\ ftail \in Ptr!Ptrs
  /\ fbuf \in [Entries -> EntryTypes]
  /\ {bp_req, insn_jal, jalr_halt, misalign_err, req, pht_data, polluted} \subseteq BOOLEAN
  /\ {s0, s1} \subseteq WordsOf \cup {Nothing}
  /\ {spec_bhr, arch_bhr, rd_hist, path} \subseteq History
  /\ flight \in Seq([word : WordsOf, taken : BOOLEAN])

\* Head, middle and tail cut the ring into what is answered and what is asked for.
RingInParts == Answers + Ptr!Dist(fmid, ftail) = Asked /\ Asked <= BufSize

\* What an answered entry holds, and that no entry is valid before it is complete.
EntriesHoldWords ==
  /\ \A p \in 0 .. Answers - 1 :
       /\ Entry(p).insn = WordOf(Entry(p).addr) /\ ~Entry(p).error
       /\ Entry(p).valid <=> ~(Open(p) /\ bp_req)
  /\ \A p \in Answers .. Asked - 1 : ~Entry(p).valid
  /\ \A p \in 0 .. Asked - 1 : ~Misaligned(Entry(p).addr)

\* The two latches are about the latest answer.
LatchesAreLast ==
  /\ bp_req   => Answers > 0 /\ ~insn_jal /\ code[Last.insn].kind = "br"
  /\ insn_jal => Answers > 0 /\ code[Last.insn].kind = "jal"

\* The stages of the instruction cache hold the words of the entries asked for; after a
\* jalr there may be entries whose answers do not come.
StagesFollow ==
  IF jalr_halt THEN s0 = Nothing /\ s1 = Nothing /\ ~bp_req /\ ~insn_jal
  ELSE /\ Asked - Answers = (IF s0 = Nothing THEN 0 ELSE 1) + (IF s1 = Nothing THEN 0 ELSE 1)
       /\ s1 # Nothing => s1 = WordOf(Entry(Answers).addr)
       /\ s0 # Nothing => s0 = WordOf(Entry(Asked - 1).addr)

\* Every entry is what its predecessor leads to, and so is the pc; after a jalr, that is
\* not known.
PathIsFollowed ==
  /\ \A p \in 0 .. Answers - 1 : Entry(p).addr = ExpectedPc(p)
  /\ jalr_halt  => ExpectedPc(Answers) = Nothing
  /\ ~jalr_halt => /\ \A p \in Answers .. Asked - 1 : Entry(p).addr = ExpectedPc(p)
                   /\ pc = ExpectedPc(Asked)

\* The outcomes before every position: from path on, those of the branches predicted.
HistoryFollows ==
  ~polluted =>
    \E outcomes \in [0 .. BufSize -> History] :
      /\ outcomes[0] = path
      /\ \A p \in 0 .. Answers - 1 :
           /\ outcomes[p + 1] = IF IsBranch(p) /\ ~Open(p) THEN Shift(outcomes[p], Entry(p).taken)
                                ELSE outcomes[p]
           /\ IsBranch(p) /\ ~Open(p) => Entry(p).hist = outcomes[p]
      /\ spec_bhr = outcomes[Answers]
      /\ req = bp_req
      /\ bp_req => rd_hist = outcomes[Answers]

FetchInv ==
  /\ FetchTypeOK /\ RingInParts /\ EntriesHoldWords /\ LatchesAreLast
  /\ StagesFollow /\ PathIsFollowed /\ HistoryFollows
=============================================================================
