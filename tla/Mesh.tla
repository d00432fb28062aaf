-------------------------------- MODULE Mesh --------------------------------
(***************************************************************************)
(* The entropy-diffusion mesh of graph.c, graph.rs and graph.cpp: three    *)
(* times a graph is made from a seed and walked from a start node.  In C   *)
(* and Rust the first walk shuffles the bits of the expanded seed and the  *)
(* others make masks; in C++ every walk writes down the nodes it visits.   *)
(* C and Rust make all graphs before the first walk; as a graph depends on *)
(* nothing but its seed, each is made here right before its walk.          *)
(* Hashes and the steps of the generator ns are words that may be any, of  *)
(* which only the remainders are drawn; one action is one draw.            *)
(***************************************************************************)
EXTENDS Naturals, Sequences, FiniteSetsExt, Functions

CONSTANTS
  Nodes,      (* GRAPH_NODES: 256, also the number of bits               *)
  Degree,     (* GRAPH_DEGREE: 12                                        *)
  Domain,     (* elements that Rust shuffles, KYBER_K * KYBER_N: 768     *)
  Phases,     (* K: 3                                                    *)
  Steps,      (* bits of a mask, in C++ steps of a walk                  *)
  Languages   (* the implementations to look at                          *)

(* Assumed by the modules that instantiate this one.                       *)
MeshAssumption ==
  /\ Nodes \in Nat \ {0, 1} /\ Degree \in Nat \ {0} /\ Phases \in Nat \ {0}
  /\ Domain \in Nat /\ Domain >= Nodes /\ Steps \in Nat \ {0}

VARIABLES
  lang,       (* the implementation                                      *)
  pc,         (* what runs                                               *)
  phase,      (* which of the K graphs                                   *)
  node, d,    (* the loops that draw neighbours                          *)
  adj,        (* adj, of which deg is the lengths                        *)
  current,    (* where the walk is                                       *)
  i,          (* the loop of the walk                                    *)
  perm,       (* perm                                                    *)
  bits        (* bits: which bit of the seed each place has been given   *)

vars == << lang, pc, phase, node, d, adj, current, i, perm, bits >>

Node == 0..(Nodes - 1)
Unset == Nodes
NoGraph == [n \in Node |-> << >>]

Init ==
  /\ lang \in Languages
  /\ pc = "graph" /\ phase = 0
  /\ node = 0 /\ d = 0 /\ adj = NoGraph
  /\ current = 0 /\ i = 0
  /\ perm = << >> /\ bits = [b \in Node |-> Unset]

-----------------------------------------------------------------------------
(* Mutant of WithEdgeC: the list is not searched.                          *)
WithEdgeCTwice(nb) ==
  IF nb = node THEN adj ELSE [adj EXCEPT ![node] = Append(@, nb)]

(* C: edges have one direction.                                            *)
WithEdgeC(nb) ==
  IF nb = node \/ nb \in Range(adj[node]) \/ Len(adj[node]) >= Degree
  THEN adj ELSE [adj EXCEPT ![node] = Append(@, nb)]

(* Mutant of WithEdgeRust: one end of the edge does not learn of it.       *)
WithEdgeRustOneWay(nb) ==
  IF nb = node \/ nb \in Range(adj[node])
  THEN adj ELSE [adj EXCEPT ![node] = Append(@, nb)]

(* Rust: both ends list the edge, so a list may grow beyond the degree.    *)
WithEdgeRust(nb) ==
  IF nb = node \/ nb \in Range(adj[node])
  THEN adj ELSE [adj EXCEPT ![node] = Append(@, nb), ![nb] = Append(@, node)]

(* C++: a neighbour may be listed twice.                                   *)
WithEdgeCpp(nb) ==
  IF nb # node /\ Len(adj[node]) < Degree
  THEN [adj EXCEPT ![node] = Append(@, nb)] ELSE adj

DrawNeighbour(nb) ==
  /\ pc = "graph"
  /\ adj' = CASE lang = "C" -> WithEdgeC(nb)
              [] lang = "Rust" -> WithEdgeRust(nb)
              [] lang = "C++" -> WithEdgeCpp(nb)
  /\ d' = (d + 1) % Degree
  /\ node' = IF d + 1 < Degree THEN node ELSE (node + 1) % Nodes
  /\ pc' = IF d + 1 = Degree /\ node + 1 = Nodes THEN "start" ELSE pc
  /\ UNCHANGED << lang, phase, current, i, perm, bits >>

-----------------------------------------------------------------------------
Shuffles == lang # "C++" /\ phase = 0
Size == IF lang = "Rust" THEN Domain ELSE Nodes

BeginWalk(s) ==
  /\ pc = "start"
  /\ current' = s
  /\ IF Shuffles
     THEN pc' = "shuffle" /\ i' = Size - 1 /\ perm' = [x \in 0..(Size - 1) |-> x]
     ELSE pc' = "walk" /\ i' = 0 /\ UNCHANGED perm
  /\ UNCHANGED << lang, phase, node, d, adj, bits >>

(* Mutant of Onward: the degree is not looked at.                          *)
OnwardAnyway(n) == Range(adj[n])

(* Where the walk goes from node n, whatever word has been drawn: one of   *)
(* deg neighbours, or the next node if there are none.                     *)
Onward(n) == IF adj[n] # << >> THEN Range(adj[n]) ELSE {(n + 1) % Nodes}

(* Mutant of Swapped: without a third variable.                            *)
SwappedInTurn(p, x, y) == [p EXCEPT ![x] = p[y]]

Swapped(p, x, y) == [p EXCEPT ![x] = p[y], ![y] = p[x]]

Shuffle(j) ==
  /\ pc = "shuffle" /\ i > 0 /\ j <= i
  /\ current' \in Onward(current)
  /\ perm' = Swapped(perm, i, j)
  /\ i' = i - 1
  /\ UNCHANGED << lang, pc, phase, node, d, adj, bits >>

(* The next graph is made in place of this one, or the mesh is ready.      *)
EndPhase ==
  /\ phase' = phase + 1
  /\ pc' = IF phase + 1 < Phases THEN "graph" ELSE "done"
  /\ adj' = NoGraph /\ current' = 0 /\ i' = 0 /\ perm' = << >>
  /\ UNCHANGED << lang, node, d >>

(* Bit x goes to place perm[x] % 256; of two bits the later one stays.     *)
EndShuffle ==
  /\ pc = "shuffle" /\ i = 0
  /\ bits' = [b \in Node |->
       LET from == {x \in Node : perm[x] % Nodes = b}
       IN  IF from = {} THEN Unset ELSE Max(from)]
  /\ EndPhase

(* C and Rust: a step for a bit of the mask.                               *)
MaskStep ==
  /\ pc = "walk" /\ lang # "C++" /\ i < Steps
  /\ current' \in Onward(current)
  /\ i' = i + 1
  /\ UNCHANGED << lang, pc, phase, node, d, adj, perm, bits >>

(* C++: the node itself says which neighbour comes next.                   *)
PathStep ==
  /\ pc = "walk" /\ lang = "C++" /\ i < Steps
  /\ current' = LET deg == Len(adj[current])
                IN  IF deg > 0 THEN adj[current][1 + (current % deg)] ELSE current
  /\ i' = i + 1
  /\ UNCHANGED << lang, pc, phase, node, d, adj, perm, bits >>

EndWalk ==
  /\ pc = "walk" /\ i = Steps
  /\ EndPhase
  /\ UNCHANGED bits

Walk ==
  \/ \E s \in Node : BeginWalk(s)
  \/ \E j \in 0..(Domain - 1) : Shuffle(j)
  \/ EndShuffle \/ MaskStep \/ PathStep \/ EndWalk

Next == Walk \/ \E nb \in Node : DrawNeighbour(nb)

Spec == Init /\ [][Next]_vars

(* The functions run until they return.                                    *)
FairSpec == Spec /\ WF_vars(Next)

-----------------------------------------------------------------------------
(* Whatever is drawn, in the middle of drawing too, edges lead to other    *)
(* nodes; only in C++ is one listed twice.  C and C++ write no more        *)
(* neighbours than adj has room for.  In Rust the ends of an edge know of  *)
(* each other although only one list is searched before both are extended. *)
GraphWellFormed ==
  \A n \in Node :
    /\ Range(adj[n]) \subseteq Node \ {n}
    /\ lang # "C++" => IsInjective(adj[n])
    /\ lang # "Rust" => Len(adj[n]) <= Degree
    /\ lang = "Rust" => \A nb \in Range(adj[n]) : n \in Range(adj[nb])

(* C shuffles the bits: when the first walk has ended every place of bits, *)
(* which is an uninitialised array, has been written, with another bit     *)
(* each.  In all languages perm is a permutation all the time.             *)
ShuffleKeepsBits ==
  /\ pc = "shuffle" => Range(perm) = DOMAIN perm
  /\ lang = "C" /\ phase > 0 => Range(bits) = Node

(* The mesh is always computed to the end: no walk gets stuck in a node    *)
(* without neighbours, where the degree it divides by would be 0.          *)
MeshEnds == <>(pc = "done")

=============================================================================
