------------------------------ MODULE GraphBfs ------------------------------
(***************************************************************************)
(* The reference search for the bfs accelerator                            *)
(* (behavioral/bfs/graph_test/graph.c): a random graph is built, written   *)
(* as a memory image, and searched breadth first with a ring of node       *)
(* pointers; the path is read off the parent pointers.                     *)
(*                                                                         *)
(* One action is one iteration of a loop of the program.  A node is its    *)
(* number.  The ring does not notice that it is full: lost is history and  *)
(* records that tail has caught up with head.                              *)
(***************************************************************************)
EXTENDS Integers, Sequences

CONSTANTS
  GSize,     \* G_SIZE, nodes and slots of the ring (1023)
  NMax,      \* N_MAX, neighbours of a node (13)
  EdgeCt,    \* EDGE_CT, edges that main tries to add (2 * G_SIZE)
  Queries    \* the searches: for each call the pairs <<from, to>> it may get

Nodes == 0 .. GSize - 1

ASSUME GraphBfsAssumption ==
  /\ GSize \in Nat \ {0, 1} /\ NMax \in Nat /\ EdgeCt \in Nat
  /\ NMax <= 13
  /\ Queries \in Seq(SUBSET (Nodes \X Nodes))

VARIABLES
  neigh,             \* neighbors and neigh_ct of every node
  tries,             \* edges still to try
  memfile,           \* graph.mem, as words; NoFile before it is written
  phase,             \* where the program is
  calls,             \* calls of bfs_reachable that have begun
  from, to,
  ring, qhead, qtail,   \* val, head, tail of the queue
  marked, parent,
  cur, nth,          \* cur_node (n on the way back), i of the loop over neighbours
  found, path,
  lost

graph   == <<neigh, tries, memfile>>
queue   == <<ring, qhead, qtail, lost>>
search  == <<from, to, marked, parent, cur, nth, found, path>>
bfsVars == <<graph, phase, calls, queue, search>>

NoFile == << >>
Phases == {"build", "call", "loop", "expand", "path", "answer", "done", "aborted"}

\* The types of the program's state: head and tail stay in the ring, a node has at
\* most N_MAX neighbours (queue_enqueue, queue_dequeue, add_edge).
BfsTypeOK ==
  /\ neigh \in [Nodes -> Seq(Nodes)] /\ \A n \in Nodes : Len(neigh[n]) <= NMax
  /\ tries \in 0 .. EdgeCt
  /\ phase \in Phases /\ calls \in 0 .. Len(Queries)
  /\ from \in Nodes /\ to \in Nodes /\ cur \in Nodes
  /\ ring \in [Nodes -> Nodes] /\ qhead \in Nodes /\ qtail \in Nodes
  /\ marked \in [Nodes -> BOOLEAN] /\ parent \in [Nodes -> Nodes]
  /\ nth \in Nat /\ found \in BOOLEAN /\ lost \in BOOLEAN
  /\ path \in Seq(Nodes)

\* create_graph.  What the program has not written yet (the parents, the ring on
\* the stack) is not read before it is written.
EmptyGraph ==
  /\ neigh = [n \in Nodes |-> << >>] /\ tries = EdgeCt /\ memfile = NoFile
  /\ calls = 0
  /\ from = 0 /\ to = 0 /\ cur = 0 /\ nth = 0
  /\ ring = [s \in Nodes |-> 0] /\ qhead = 0 /\ qtail = 0
  /\ marked = [n \in Nodes |-> FALSE] /\ parent = [n \in Nodes |-> n]
  /\ found = FALSE /\ path = << >> /\ lost = FALSE

BfsInit == EmptyGraph /\ phase = "build"

-----------------------------------------------------------------------------
(* Building the graph *)

IsEdge(f, t) == \E i \in 1 .. Len(neigh[f]) : neigh[f][i] = t

\* is_neighbor: never true of a node and itself.
IsNeighbor(f, t) == f # t /\ IsEdge(f, t)

\* add_edge, called by main with random nodes.
AddEdge(f, t) ==
  /\ phase = "build" /\ tries > 0
  /\ tries' = tries - 1
  /\ IF IsNeighbor(f, t) THEN UNCHANGED <<neigh, phase>>
     ELSE IF Len(neigh[f]) = NMax THEN phase' = "aborted" /\ UNCHANGED neigh
     ELSE neigh' = [neigh EXCEPT ![f] = Append(@, t)] /\ UNCHANGED phase
  /\ UNCHANGED <<memfile, calls, queue, search>>

\* create_memfile: sixteen words for a node: 0, the number of neighbours with the
\* mark in bit 31, and the byte addresses of up to fourteen neighbours.
Base == 0
\* (The first definition is a mutant: the last, always empty word is left out.)
WordsPerNode_Packed == 15
WordsPerNode == 16
NodeWord(n, w) ==
  CASE w = 0 -> 0
    [] w = 1 -> Len(neigh[n]) + (IF marked[n] THEN 2 ^ 31 ELSE 0)
    [] OTHER -> IF w - 2 < Len(neigh[n]) THEN Base + 64 * neigh[n][w - 1] ELSE 0
Image == [a \in 0 .. WordsPerNode * GSize - 1 |->
            NodeWord(a \div WordsPerNode, a % WordsPerNode)]

\* The file may not open; the searches run all the same.
WriteMemfile ==
  /\ phase = "build" /\ tries = 0
  /\ memfile' \in {Image, NoFile}
  /\ phase' = "call"
  /\ UNCHANGED <<neigh, tries, calls, queue, search>>

-----------------------------------------------------------------------------
(* bfs_reachable *)

RingNext(s) == IF s + 1 = GSize THEN 0 ELSE s + 1

Enqueue(n) ==
  /\ ring' = [ring EXCEPT ![qtail] = n]
  /\ qtail' = RingNext(qtail)
  /\ lost' = (lost \/ qtail' = qhead)

\* Mutant: the marks of the search before are kept.
ResetMarks_Kept == UNCHANGED marked
ResetMarks == marked' = [n \in Nodes |-> FALSE]

\* init_bfs.
StartSearch ==
  /\ phase = "call" /\ calls < Len(Queries)
  /\ calls' = calls + 1
  /\ \E e \in Queries[calls + 1] :
       /\ from' = e[1] /\ to' = e[2]
       /\ ring' = [ring EXCEPT ![0] = e[1]]
  /\ qhead' = 0 /\ qtail' = 1 /\ lost' = FALSE
  /\ ResetMarks /\ parent' = [n \in Nodes |-> n]
  /\ found' = FALSE /\ path' = << >>
  /\ phase' = "loop"
  /\ UNCHANGED <<graph, cur, nth>>

Finish ==
  /\ phase = "call" /\ calls = Len(Queries)
  /\ phase' = "done"
  /\ UNCHANGED <<graph, calls, queue, search>>

\* A node that is marked has been expanded before.
Unexpanded(n) == ~marked[n]

\* The search goes on when the destination has been found, until the queue is empty.
Dequeue ==
  /\ phase = "loop" /\ qhead # qtail
  /\ LET n == ring[qhead]
     IN /\ cur' = n
        /\ found' = (found \/ n = to)
        /\ phase' = IF Unexpanded(n) THEN "expand" ELSE "loop"
  /\ qhead' = RingNext(qhead) /\ nth' = 1
  /\ UNCHANGED <<graph, calls, from, to, marked, parent, path, ring, qtail, lost>>

\* Mutant: a later way replaces the parent.
NewParent_Last(n) == TRUE
NewParent(n) == parent[n] = n

ExpandNext ==
  /\ phase = "expand" /\ nth <= Len(neigh[cur])
  /\ LET n == neigh[cur][nth]
     IN /\ Enqueue(n)
        /\ parent' = IF NewParent(n) THEN [parent EXCEPT ![n] = cur] ELSE parent
  /\ nth' = nth + 1
  /\ UNCHANGED <<graph, phase, calls, from, to, marked, cur, found, path, qhead>>

ExpandEnd ==
  /\ phase = "expand" /\ nth > Len(neigh[cur])
  /\ marked' = [marked EXCEPT ![cur] = TRUE]
  /\ phase' = "loop"
  /\ UNCHANGED <<graph, calls, queue, from, to, parent, cur, nth, found, path>>

\* The queue is empty: the path is read from its end, or there is none.
SearchEnd ==
  /\ phase = "loop" /\ qhead = qtail
  /\ IF found THEN phase' = "path" /\ cur' = to
     ELSE phase' = "answer" /\ UNCHANGED cur
  /\ UNCHANGED <<graph, calls, queue, from, to, marked, parent, nth, found, path>>

PathNext ==
  /\ phase = "path" /\ cur # from
  /\ path' = Append(path, cur) /\ cur' = parent[cur]
  /\ UNCHANGED <<graph, phase, calls, queue, from, to, marked, parent, nth, found>>

PathEnd ==
  /\ phase = "path" /\ cur = from
  /\ phase' = "answer"
  /\ UNCHANGED <<graph, calls, queue, search>>

Answered ==
  /\ phase = "answer"
  /\ phase' = "call"
  /\ UNCHANGED <<graph, calls, queue, search>>

BfsNext ==
  \/ \E f, t \in Nodes : AddEdge(f, t)
  \/ WriteMemfile
  \/ StartSearch \/ Finish
  \/ Dequeue \/ ExpandNext \/ ExpandEnd \/ SearchEnd
  \/ PathNext \/ PathEnd \/ Answered

\* A sequential program: it runs on.
BfsSpec == BfsInit /\ [][BfsNext]_bfsVars
BfsFairSpec == BfsSpec /\ WF_bfsVars(BfsNext)
-----------------------------------------------------------------------------
(* Properties *)

\* The reference: b is in every set that holds a and is closed under the edges.
Closed(S) == \A n \in S : \A m \in Nodes : IsEdge(n, m) => m \in S
Reachable(a, b) == \A S \in SUBSET Nodes : a \in S /\ Closed(S) => b \in S

\* Nodes at most k steps from the start.
Ball == [k \in Nodes |->
           LET steps[j \in 0 .. k] ==
                 IF j = 0 THEN {from}
                 ELSE steps[j - 1] \cup {m \in Nodes : \E n \in steps[j - 1] : IsEdge(n, m)}
           IN steps[k]]

\* The search that marks a node only when it is taken from the queue, keeps
\* duplicates in the queue and reuses marks and parents from call to call still
\* finds exactly what is reachable, as long as the ring, which does not notice
\* that it is full, has not dropped its contents.
FoundIsReachable == phase = "answer" /\ ~lost => (found <=> Reachable(from, to))

\* The nodes of the path from its start.
way(i) == IF i = 0 THEN from ELSE path[Len(path) + 1 - i]
\* The path read off the parents is a path, though from may get a parent by a cycle
\* and the ring may have dropped nodes.
PathIsReal ==
  phase = "answer" /\ found =>
    /\ way(Len(path)) = to
    /\ \A i \in 1 .. Len(path) : IsEdge(way(i - 1), way(i))
\* It fits into the array path, and it is a shortest one unless the ring has dropped
\* nodes: parents are kept from the first way to a node on (graph.c:148).
PathIsShortest ==
  /\ PathIsReal
  /\ phase = "answer" /\ found =>
       /\ Len(path) < GSize
       /\ ~lost /\ path # << >> => to \notin Ball[Len(path) - 1]

\* The accelerator reads the graph that the search uses: a node address is a byte
\* address, the count the low four bits of word 1, bit 24 the mark (bfs_core.v),
\* the neighbours follow.
MemfileIsGraph ==
  memfile # NoFile =>
    \A n \in Nodes :
      LET word(w) == memfile[(Base + 64 * n) \div 4 + w]
          count   == word(1) % 16
      IN /\ count = Len(neigh[n])
         /\ (word(1) \div 2 ^ 24) % 2 = 0
         /\ \A i \in 1 .. count : word(1 + i) = Base + 64 * neigh[n][i]

\* The program has ended: cycles, self loops and duplicates in the queue do not keep it
\* busy, and the way back ends at from.
ProgramEnded == phase \in {"done", "aborted"}
-----------------------------------------------------------------------------
(* The inductive invariant: why the search is right *)

Searching == phase \in {"loop", "expand", "path", "answer"}

\* The slots between head and tail, and the nodes in them.
LiveSlot(s) == IF qhead <= qtail THEN qhead <= s /\ s < qtail
               ELSE s >= qhead \/ s < qtail
Queued(n)    == \E s \in Nodes : LiveSlot(s) /\ ring[s] = n
Expanding(n) == phase = "expand" /\ cur = n
\* A neighbour that the loop of the expansion is past.
Handled(m)   == \E i \in 1 .. Len(neigh[cur]) : i < nth /\ neigh[cur][i] = m
Visited(n)   == marked[n] \/ Queued(n) \/ Expanding(n)

PhaseInv ==
  /\ phase = "expand" => nth >= 1
  /\ phase \in {"path", "answer"} => qhead = qtail

\* Nothing comes into the queue that is not reachable.
OnlyReachable ==
  Searching => /\ \A n \in Nodes : Visited(n) => Reachable(from, n)
               /\ found => Reachable(from, to)

\* Unless the ring overflows, nothing reachable drops out: the start and every
\* neighbour of an expanded node stay visited, and the destination is noticed.
NothingMissed ==
  Searching /\ ~lost =>
    /\ Visited(from)
    /\ \A n, m \in Nodes : marked[n] /\ IsEdge(n, m) => Visited(m)
    /\ phase = "expand" => \A m \in Nodes : Handled(m) => Visited(m)
    /\ marked[to] \/ Expanding(to) => found

\* A visited node other than the start has a parent that was expanded before.
ParentsAreEdges ==
  Searching =>
    /\ \A n \in Nodes : parent[n] # n =>
         IsEdge(parent[n], n) /\ (marked[parent[n]] \/ Expanding(parent[n]))
    /\ \A n \in Nodes : Visited(n) /\ n # from => parent[n] # n
    /\ found => marked[to] \/ Expanding(to)

\* The way back so far.
PathSoFar ==
  /\ phase = "path" => /\ marked[cur]
                       /\ path = << >> => cur = to
                       /\ path # << >> => IsEdge(cur, path[Len(path)])
  /\ phase = "path" \/ (phase = "answer" /\ found) =>
       /\ path # << >> => path[1] = to
       /\ \A i \in 1 .. Len(path) - 1 : IsEdge(path[i + 1], path[i])
  /\ phase = "answer" /\ found =>
       IF path = << >> THEN from = to ELSE IsEdge(from, path[Len(path)])
  /\ phase \in {"loop", "expand"} => path = << >>

\* The image is written once, of a graph that is complete and not yet searched.
ImageInv == /\ MemfileIsGraph
            /\ phase = "build" => memfile = NoFile /\ \A n \in Nodes : ~marked[n]

BfsInv == BfsTypeOK /\ PhaseInv /\ OnlyReachable /\ NothingMissed
PathInv == ParentsAreEdges /\ PathSoFar
=============================================================================
