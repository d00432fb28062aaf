----------------------------- MODULE MCOverlay ------------------------------
(***************************************************************************)
(* The two layers of the overlay key for TLC: a behaviour derives hints    *)
(* (module Reconcile) or a mesh (Mesh).                                    *)
(***************************************************************************)
EXTENDS Reconcile

CONSTANTS Nodes, Degree, Domain, Phases, Steps

VARIABLES part, phase, node, d, adj, current, i, perm, bits

hintVars == << va, vb, ha, hb, accepted >>
meshVars == << phase, node, d, adj, current, i, perm, bits >>
all == << part, vars, meshVars >>

TheMesh == INSTANCE Mesh WITH Languages <- {"C", "Rust", "C++"}

ASSUME MeshOfThisSize == TheMesh!MeshAssumption

MCInit ==
  \/ /\ part = "hints" /\ Init
     /\ phase = 0 /\ node = 0 /\ d = 0 /\ adj = TheMesh!NoGraph
     /\ current = 0 /\ i = 0 /\ perm = << >> /\ bits = << >>
  \/ /\ part = "mesh"
     /\ va = << >> /\ vb = << >> /\ ha = << >> /\ hb = << >> /\ accepted = FALSE
     /\ TheMesh!Init

MCNext ==
  \/ part = "hints" /\ Next /\ UNCHANGED << part, meshVars >>
  \/ part = "mesh" /\ TheMesh!Next /\ UNCHANGED << part, hintVars >>

(* The function that derives the mesh runs until it returns.               *)
MCSpec == MCInit /\ [][MCNext]_all /\ WF_all(part = "mesh" /\ MCNext)

(* Graphs are well formed while they are drawn (see Mesh).                 *)
GraphWellFormed == part = "mesh" => TheMesh!GraphWellFormed

(* No bit is lost where bits are shuffled (see Mesh).                      *)
ShuffleKeepsBits == part = "mesh" => TheMesh!ShuffleKeepsBits

(* Every walk of the mesh comes to its end (see Mesh).                     *)
MeshEnds == part = "mesh" => TheMesh!MeshEnds

-----------------------------------------------------------------------------
(* Words around 0, around the sign of 16 bits, and in the middle.          *)
Corners == {0, 60, 900, 3328, 65535}
Repeated(f) == [x \in 0..(N - 1) |-> f[x % 4]]
MCWords == {Repeated(f) : f \in [0..3 -> Corners]}
           \cup {[x \in 0..(N - 1) |-> w] : w \in 0..(Q - 1)}

(* None, one, and what moves the sums as far as the coefficients allow.    *)
MCNoises ==
  {[j \in 0..3 |-> e] : e \in {0, 1}}
  \cup {[j \in 0..3 |-> IF j \in S THEN e ELSE -e] :
          S \in {{0, 1}, {0, 2}}, e \in {15, 16, 64, -64}}

=============================================================================
