-------------------------------- MODULE Dram --------------------------------
(***************************************************************************)
(* The glue between the memory controller and the DRAMsim3 library, in its *)
(* two builds: the class DRAM and the DPI functions of the Verilator test  *)
(* bench (dramsim/dramsim_verilator.cc, behavioral/top.cc), and the VPI    *)
(* tasks (dramsim/dramsim_vpi.cc).                                         *)
(*                                                                         *)
(* The library keeps time and order only; the data are here.  A write      *)
(* leaves its data in write_queue under its tag until the library calls    *)
(* back, a read takes its data from memory when the library calls back.    *)
(***************************************************************************)
EXTENDS Integers, Sequences

CONSTANTS
  Dwords,     \* 64-bit words of a line (8)
  RamLines    \* lines of memory (RAM_SIZE / 64 bytes)

ASSUME DramAssumption == Dwords \in Nat \ {0} /\ RamLines \in Nat

VARIABLES
  vpi,           \* which of the two builds; never changes
  memory,        \* 64-bit words, as pairs of 32-bit words
  read_queue, write_queue,
  transactions   \* the library's commands in progress, oldest first

dramVars == <<vpi, memory, read_queue, write_queue, transactions>>

LineBytes == 8 * Dwords
Words     == 0 .. 2 * Dwords - 1     \* of a line, as the controller passes them

\* A data line: word pairs, low half first.
Packed(data)   == [i \in 0 .. Dwords - 1 |-> <<data[2 * i], data[1 + 2 * i]>>]
Unpacked(line) == [w \in Words |-> line[w \div 2][1 + (w % 2)]]

\* The argument of the constructor is the contents of the memory.
DramInit(contents) ==
  /\ vpi \in BOOLEAN
  /\ memory = contents
  /\ read_queue = << >> /\ write_queue = [t \in {} |-> << >>] /\ transactions = << >>

-----------------------------------------------------------------------------
(* Callbacks of the library *)

LineAt(addr) == [i \in 0 .. Dwords - 1 |-> memory[(addr \div 8) + i]]

read_cb(tag, addr) ==
  /\ read_queue' = Append(read_queue, [tag |-> tag, addr |-> addr, line |-> LineAt(addr)])
  /\ UNCHANGED <<memory, write_queue>>

\* Without an entry for the tag the call is ignored, with a warning.
write_cb(tag, addr) ==
  /\ IF tag \in DOMAIN write_queue
     THEN /\ memory' = [a \in DOMAIN memory |->
                          IF a \div Dwords = addr \div LineBytes
                          THEN write_queue[tag][a % Dwords] ELSE memory[a]]
          /\ write_queue' = [t \in DOMAIN write_queue \ {tag} |-> write_queue[t]]
     ELSE UNCHANGED <<memory, write_queue>>
  /\ UNCHANGED read_queue

\* The library, as far as the glue relies on it: commands end in any order, but none
\* overtakes a write of its line.
AddTransaction(tag, addr, write) ==
  transactions' = Append(transactions, [tag |-> tag, addr |-> addr, write |-> write])
ClockTick ==
  \E i \in 1 .. Len(transactions) :
    LET t == transactions[i]
    IN /\ \A j \in 1 .. i - 1 : transactions[j].write => transactions[j].addr # t.addr
       /\ transactions' = [j \in 1 .. Len(transactions) - 1 |->
                             IF j < i THEN transactions[j] ELSE transactions[j + 1]]
       /\ IF t.write THEN write_cb(t.tag, t.addr) ELSE read_cb(t.tag, t.addr)
       /\ UNCHANGED vpi

-----------------------------------------------------------------------------
(* The four functions of the controller *)

Aligned(addr) == LineBytes * (addr \div LineBytes)
Put(tag, line) == [t \in DOMAIN write_queue \cup {tag} |->
                     IF t = tag THEN line ELSE write_queue[t]]

cmddata(write, tag, addr, data) ==
  /\ write_queue' = IF write THEN Put(tag, Packed(data)) ELSE write_queue
  /\ AddTransaction(tag, Aligned(addr), write)

dramsim_cmddata(write, tag, word, data) == cmddata(write, tag, 4 * word, data)

cmddata_calltf(write, tag, word, data) ==
  /\ write_queue' = IF write THEN Put(tag, Packed(data)) ELSE write_queue
  /\ AddTransaction(tag, Aligned(4 * word), write)

CmdData(write, tag, word, data) ==
  /\ IF vpi THEN cmddata_calltf(write, tag, word, data)
            ELSE dramsim_cmddata(write, tag, word, data)
  /\ UNCHANGED <<vpi, memory, read_queue>>

\* Whether the library takes a command is not the glue's to say: a choice.
CmdReady == BOOLEAN

RespReady == read_queue # << >>

dramsim_respdata ==
  LET resp == Head(read_queue)
  IN [tag |-> resp.tag, word |-> resp.addr \div 4, data |-> Unpacked(resp.line)]
respdata_calltf ==
  LET resp == Head(read_queue)
  IN [tag |-> resp.tag, word |-> resp.addr \div 4, data |-> Unpacked(resp.line)]
RespData == IF vpi THEN respdata_calltf ELSE dramsim_respdata
\* Both functions remove the answer.
RespPop == read_queue' = Tail(read_queue) /\ UNCHANGED <<vpi, memory, write_queue, transactions>>
=============================================================================
