--------------------------- MODULE OverlayProofs ----------------------------
(***************************************************************************)
(* Proofs about MCOverlay: the graphs of the mesh are well formed whatever *)
(* is drawn, the shuffle loses no bit, and what the reconciliation hints   *)
(* promise holds for all polynomials.                                      *)
(***************************************************************************)
EXTENDS MCOverlay, TLAPS

Languages == {"C", "Rust", "C++"}

(* What is known of the list of node n of a graph, in language l.          *)
Listed(l, graph, n) ==
  /\ graph[n] \in Seq(TheMesh!Node \ {n})
  /\ l # "C++" => TheMesh!IsInjective(graph[n])
  /\ l # "Rust" => Len(graph[n]) <= Degree
  /\ l = "Rust" => \A m \in TheMesh!Node :
                     m \in TheMesh!Range(graph[n]) => n \in TheMesh!Range(graph[m])

IsGraph(l, graph) ==
  DOMAIN graph = TheMesh!Node /\ \A n \in TheMesh!Node : Listed(l, graph, n)

Permutes(p, n) ==
  /\ p \in [0..(n - 1) -> 0..(n - 1)]
  /\ TheMesh!IsInjective(p)
  /\ \A y \in 0..(n - 1) : \E x \in 0..(n - 1) : p[x] = y

MeshInv ==
  /\ lang \in Languages /\ node \in TheMesh!Node /\ phase \in Nat
  /\ IsGraph(lang, adj)
  /\ pc = "shuffle" =>
       TheMesh!Shuffles /\ Permutes(perm, TheMesh!Size) /\ i \in 0..(TheMesh!Size - 1)
  /\ pc = "walk" => ~TheMesh!Shuffles
  /\ lang = "C" /\ phase > 0 => TheMesh!Range(bits) = TheMesh!Node

LEMMA MeshSizes ==
  /\ Nodes \in Nat \ {0, 1} /\ Degree \in Nat \ {0} /\ Domain \in Nat /\ Domain >= Nodes
  /\ TheMesh!Node = 0..(Nodes - 1)
BY MeshOfThisSize DEF TheMesh!MeshAssumption, TheMesh!Node

(* Lists, and what a new neighbour at the end changes.                     *)
LEMMA RangeOfList ==
  ASSUME NEW U, NEW q \in Seq(U)
  PROVE  /\ TheMesh!Range(q) \subseteq U
         /\ \A y : y \in TheMesh!Range(q) <=> \E x \in 1..Len(q) : q[x] = y
BY DEF TheMesh!Range

LEMMA Longer ==
  ASSUME NEW U, NEW q \in Seq(U), NEW v \in U
  PROVE  /\ Append(q, v) \in Seq(U) /\ Len(Append(q, v)) = Len(q) + 1
         /\ TheMesh!Range(Append(q, v)) = TheMesh!Range(q) \cup {v}
         /\ TheMesh!IsInjective(q) /\ v \notin TheMesh!Range(q) => TheMesh!IsInjective(Append(q, v))
<1> DEFINE w == Append(q, v)
<1>1. /\ w \in Seq(U) /\ Len(w) = Len(q) + 1 /\ w[Len(q) + 1] = v
      /\ \A x \in 1..Len(q) : w[x] = q[x]
      /\ Len(q) \in Nat
  OBVIOUS
<1> HIDE DEF w
<1>2. \A x : x \in 1..Len(w) <=> x \in 1..Len(q) \/ x = Len(q) + 1
  BY <1>1
<1>3. /\ \A y : y \in TheMesh!Range(q) <=> \E x \in 1..Len(q) : q[x] = y
      /\ \A y : y \in TheMesh!Range(w) <=> \E x \in 1..Len(w) : w[x] = y
  BY <1>1, RangeOfList
<1>4. TheMesh!Range(w) = TheMesh!Range(q) \cup {v}
  <2>1. \A y : y \in TheMesh!Range(w) <=> y \in TheMesh!Range(q) \/ y = v
    BY <1>1, <1>2, <1>3, Zenon
  <2> QED BY <2>1
<1>5. ASSUME TheMesh!IsInjective(q), v \notin TheMesh!Range(q)
      PROVE  TheMesh!IsInjective(w)
  <2>1. DOMAIN w = 1..Len(w) /\ DOMAIN q = 1..Len(q)
    BY <1>1
  <2>2. \A x \in 1..Len(q) : q[x] # v
    BY <1>3, <1>5
  <2>3. \A x, y \in 1..Len(q) : q[x] = q[y] => x = y
    BY <1>5, <2>1 DEF TheMesh!IsInjective
  <2>4. \A x, y \in 1..Len(w) : w[x] = w[y] => x = y
    BY <1>1, <1>2, <2>2, <2>3
  <2> QED BY <2>1, <2>4 DEF TheMesh!IsInjective
<1> QED BY <1>1, <1>4, <1>5 DEF w

(* One direction: C and C++.                                               *)
LEMMA OneMore ==
  ASSUME IsGraph(lang, adj), lang # "Rust", NEW n \in TheMesh!Node, NEW m \in TheMesh!Node,
         m # n, Len(adj[n]) < Degree, lang # "C++" => m \notin TheMesh!Range(adj[n])
  PROVE  IsGraph(lang, [adj EXCEPT ![n] = Append(@, m)])
<1> DEFINE graph == [adj EXCEPT ![n] = Append(@, m)]
<1>1. DOMAIN graph = TheMesh!Node /\ graph[n] = Append(adj[n], m)
      /\ \A x \in TheMesh!Node : x # n => graph[x] = adj[x]
  BY DEF IsGraph
<1> HIDE DEF graph
<1>2. ASSUME NEW x \in TheMesh!Node PROVE Listed(lang, graph, x)
  <2>1. Listed(lang, adj, x)
    BY DEF IsGraph
  <2>2. CASE x # n
    BY <1>1, <2>1, <2>2 DEF Listed
  <2>3. CASE x = n
    <3>1. adj[n] \in Seq(TheMesh!Node \ {n}) /\ m \in TheMesh!Node \ {n}
          /\ (lang # "C++" => TheMesh!IsInjective(adj[n]))
      BY <2>1, <2>3 DEF Listed
    <3>2. /\ graph[n] \in Seq(TheMesh!Node \ {n}) /\ Len(graph[n]) = Len(adj[n]) + 1
          /\ lang # "C++" => TheMesh!IsInjective(graph[n])
      BY <1>1, <3>1, Longer
    <3>3. Len(adj[n]) \in Nat
      BY <3>1
    <3>4. Len(graph[n]) <= Degree
      BY <3>2, <3>3, MeshSizes
    <3> QED BY <2>3, <3>2, <3>4 DEF Listed
  <2> QED BY <2>2, <2>3
<1> QED BY <1>1, <1>2 DEF IsGraph, graph

(* Both directions: Rust.  The list of m is not searched for n.            *)
LEMMA BothMore ==
  ASSUME IsGraph(lang, adj), lang = "Rust", NEW n \in TheMesh!Node, NEW m \in TheMesh!Node,
         m # n, m \notin TheMesh!Range(adj[n])
  PROVE  IsGraph(lang, [adj EXCEPT ![n] = Append(@, m), ![m] = Append(@, n)])
<1> DEFINE graph == [adj EXCEPT ![n] = Append(@, m), ![m] = Append(@, n)]
<1>1. DOMAIN graph = TheMesh!Node /\ graph[n] = Append(adj[n], m) /\ graph[m] = Append(adj[m], n)
      /\ \A x \in TheMesh!Node : x # n /\ x # m => graph[x] = adj[x]
  BY DEF IsGraph
<1> HIDE DEF graph
<1>2. Listed(lang, adj, n) /\ Listed(lang, adj, m)
  BY DEF IsGraph
<1>3. n \notin TheMesh!Range(adj[m])
  BY <1>2 DEF Listed
<1>4. /\ adj[n] \in Seq(TheMesh!Node \ {n}) /\ m \in TheMesh!Node \ {n}
      /\ TheMesh!IsInjective(adj[n])
      /\ adj[m] \in Seq(TheMesh!Node \ {m}) /\ n \in TheMesh!Node \ {m}
      /\ TheMesh!IsInjective(adj[m])
  BY <1>2 DEF Listed
<1>5. /\ graph[n] \in Seq(TheMesh!Node \ {n}) /\ TheMesh!IsInjective(graph[n])
      /\ TheMesh!Range(graph[n]) = TheMesh!Range(adj[n]) \cup {m}
  BY <1>1, <1>4, Longer
<1>6. /\ graph[m] \in Seq(TheMesh!Node \ {m}) /\ TheMesh!IsInjective(graph[m])
      /\ TheMesh!Range(graph[m]) = TheMesh!Range(adj[m]) \cup {n}
  BY <1>1, <1>3, <1>4, Longer
<1>7. ASSUME NEW x \in TheMesh!Node, NEW y \in TheMesh!Node, y \in TheMesh!Range(graph[x])
      PROVE  x \in TheMesh!Range(graph[y])
  <2>1. \A z \in TheMesh!Node : TheMesh!Range(adj[z]) \subseteq TheMesh!Range(graph[z])
    BY <1>1, <1>5, <1>6
  <2>2. y \in TheMesh!Range(adj[x]) \/ (x = n /\ y = m) \/ (x = m /\ y = n)
    <3>1. CASE x = n
      BY <1>5, <1>7, <3>1
    <3>2. CASE x = m
      BY <1>6, <1>7, <3>2
    <3>3. CASE x # n /\ x # m
      BY <1>1, <1>7, <3>3
    <3> QED BY <3>1, <3>2, <3>3
  <2>3. y \in TheMesh!Range(adj[x]) => x \in TheMesh!Range(adj[y])
    BY DEF IsGraph, Listed
  <2>4. n \in TheMesh!Range(graph[m]) /\ m \in TheMesh!Range(graph[n])
    BY <1>5, <1>6
  <2> QED BY <2>1, <2>2, <2>3, <2>4
<1>8. ASSUME NEW x \in TheMesh!Node PROVE Listed(lang, graph, x)
  <2>1. Listed(lang, adj, x)
    BY DEF IsGraph
  <2>2. graph[x] \in Seq(TheMesh!Node \ {x}) /\ TheMesh!IsInjective(graph[x])
    <3>1. CASE x # n /\ x # m
      BY <1>1, <2>1, <3>1 DEF Listed
    <3> QED BY <1>5, <1>6, <3>1
  <2> QED BY <1>7, <2>2 DEF Listed
<1> QED BY <1>1, <1>8 DEF IsGraph, graph

LEMMA EmptyGraph ==
  ASSUME NEW l
  PROVE  IsGraph(l, TheMesh!NoGraph)
<1>1. << >> \in Seq({}) /\ Len(<< >>) = 0 /\ DOMAIN << >> = {}
  OBVIOUS
<1>2. TheMesh!IsInjective(<< >>) /\ TheMesh!Range(<< >>) = {}
  BY <1>1 DEF TheMesh!IsInjective, TheMesh!Range
<1>3. \A n \in TheMesh!Node : TheMesh!NoGraph[n] = << >>
  BY DEF TheMesh!NoGraph
<1> DEFINE graph == TheMesh!NoGraph
<1>4. DOMAIN graph = TheMesh!Node /\ \A n \in TheMesh!Node : graph[n] = << >>
  BY <1>3 DEF TheMesh!NoGraph
<1> HIDE DEF graph
<1>5. ASSUME NEW n \in TheMesh!Node PROVE Listed(l, graph, n)
  <2>1. graph[n] = << >>
    BY <1>4
  <2>2. << >> \in Seq(TheMesh!Node \ {n})
    OBVIOUS
  <2>3. Len(<< >>) <= Degree
    BY <1>1, MeshSizes
  <2>4. \A m \in TheMesh!Node : m \in TheMesh!Range(graph[n]) => n \in TheMesh!Range(graph[m])
    BY <1>2, <2>1
  <2>5. TheMesh!IsInjective(graph[n]) /\ graph[n] \in Seq(TheMesh!Node \ {n}) /\ Len(graph[n]) <= Degree
    BY <1>2, <2>1, <2>2, <2>3, Zenon
  <2> QED BY <2>4, <2>5 DEF Listed
<1> QED BY <1>4, <1>5 DEF IsGraph, graph

LEMMA DrawKeeps ==
  ASSUME MeshInv, NEW nb \in TheMesh!Node, TheMesh!DrawNeighbour(nb)
  PROVE  MeshInv'
<1>1. /\ pc = "graph" /\ pc' \in {"graph", "start"} /\ UNCHANGED << lang, phase, bits >>
      /\ node' = (IF d + 1 < Degree THEN node ELSE (node + 1) % Nodes)
  BY DEF TheMesh!DrawNeighbour
<1>2. node' \in TheMesh!Node
  BY <1>1, MeshSizes DEF MeshInv
<1>3. adj' = (CASE lang = "C" -> TheMesh!WithEdgeC(nb)
                [] lang = "Rust" -> TheMesh!WithEdgeRust(nb)
                [] lang = "C++" -> TheMesh!WithEdgeCpp(nb))
  BY DEF TheMesh!DrawNeighbour
<1>4. IsGraph(lang, adj) /\ node \in TheMesh!Node /\ lang \in Languages
  BY DEF MeshInv
<1>5. IsGraph(lang, adj')
  <2>1. CASE lang = "C"
    <3>1. adj' = TheMesh!WithEdgeC(nb)
      BY <1>3, <2>1
    <3>2. CASE nb = node \/ nb \in TheMesh!Range(adj[node]) \/ Len(adj[node]) >= Degree
      BY <1>4, <3>1, <3>2 DEF TheMesh!WithEdgeC
    <3>3. CASE ~(nb = node \/ nb \in TheMesh!Range(adj[node]) \/ Len(adj[node]) >= Degree)
      <4>1. adj' = [adj EXCEPT ![node] = Append(@, nb)]
        BY <3>1, <3>3 DEF TheMesh!WithEdgeC
      <4>2. Len(adj[node]) < Degree
        <5>1. Len(adj[node]) \in Nat
          BY <1>4 DEF IsGraph, Listed
        <5> QED BY <3>3, <5>1, MeshSizes
      <4> QED BY <1>4, <2>1, <3>3, <4>1, <4>2, OneMore
    <3> QED BY <3>2, <3>3
  <2>2. CASE lang = "Rust"
    <3>1. adj' = TheMesh!WithEdgeRust(nb)
      BY <1>3, <2>2
    <3>2. CASE nb = node \/ nb \in TheMesh!Range(adj[node])
      BY <1>4, <3>1, <3>2 DEF TheMesh!WithEdgeRust
    <3>3. CASE ~(nb = node \/ nb \in TheMesh!Range(adj[node]))
      <4>1. adj' = [adj EXCEPT ![node] = Append(@, nb), ![nb] = Append(@, node)]
        BY <3>1, <3>3 DEF TheMesh!WithEdgeRust
      <4> QED BY <1>4, <2>2, <3>3, <4>1, BothMore
    <3> QED BY <3>2, <3>3
  <2>3. CASE lang = "C++"
    <3>1. adj' = TheMesh!WithEdgeCpp(nb)
      BY <1>3, <2>3
    <3>2. CASE nb # node /\ Len(adj[node]) < Degree
      <4>1. adj' = [adj EXCEPT ![node] = Append(@, nb)]
        BY <3>1, <3>2 DEF TheMesh!WithEdgeCpp
      <4> QED BY <1>4, <2>3, <3>2, <4>1, OneMore
    <3>3. CASE ~(nb # node /\ Len(adj[node]) < Degree)
      BY <1>4, <3>1, <3>3 DEF TheMesh!WithEdgeCpp
    <3> QED BY <3>2, <3>3
  <2> QED BY <1>4, <2>1, <2>2, <2>3 DEF Languages
<1> QED BY <1>1, <1>2, <1>5 DEF MeshInv, TheMesh!Node

-----------------------------------------------------------------------------
(* The shuffle.                                                            *)
LEMMA SizeLarge == TheMesh!Size \in Nat /\ TheMesh!Size >= 2 /\ TheMesh!Size - 1 \in Nat
BY MeshSizes DEF TheMesh!Size

LEMMA IdentityPermutes ==
  ASSUME NEW n \in Nat
  PROVE  Permutes([x \in 0..(n - 1) |-> x], n)
BY DEF Permutes, TheMesh!IsInjective

(* A swap keeps a permutation: x has its value from where it was.          *)
LEMMA SwapPermutes ==
  ASSUME NEW n \in Nat, NEW p, Permutes(p, n), NEW a \in 0..(n - 1), NEW b \in 0..(n - 1)
  PROVE  Permutes(TheMesh!Swapped(p, a, b), n)
<1> DEFINE r == TheMesh!Swapped(p, a, b)
<1> DEFINE dom == 0..(n - 1)
<1>1. p \in [dom -> dom] /\ (\A x, y \in dom : p[x] = p[y] => x = y)
      /\ \A y \in dom : \E x \in dom : p[x] = y
  BY DEF Permutes, TheMesh!IsInjective
<1> HIDE DEF dom
<1>2. a \in dom /\ b \in dom
  BY DEF dom
<1>3. /\ r \in [dom -> dom]
      /\ \A x \in dom : r[x] = IF x = b THEN p[a] ELSE IF x = a THEN p[b] ELSE p[x]
  BY <1>1, <1>2 DEF TheMesh!Swapped
<1> HIDE DEF r
<1>4. \A x, y \in dom : r[x] = r[y] => x = y
  <2>1. TAKE x, y \in dom
  <2>2. HAVE r[x] = r[y]
  <2>3. r[x] = (IF x = b THEN p[a] ELSE IF x = a THEN p[b] ELSE p[x])
        /\ r[y] = (IF y = b THEN p[a] ELSE IF y = a THEN p[b] ELSE p[y])
    BY <1>3
  <2> QED BY <1>1, <1>2, <2>2, <2>3
<1>5. ASSUME NEW y \in dom PROVE \E x \in dom : r[x] = y
  <2>1. PICK x \in dom : p[x] = y
    BY <1>1
  <2>2. CASE x = a
    BY <1>2, <1>3, <2>1, <2>2
  <2>3. CASE x = b
    BY <1>2, <1>3, <2>1, <2>3
  <2>4. CASE x # a /\ x # b
    BY <1>3, <2>1, <2>4
  <2> QED BY <2>2, <2>3, <2>4
<1>6. DOMAIN r = dom
  BY <1>3
<1> QED BY <1>3, <1>4, <1>5, <1>6 DEF Permutes, TheMesh!IsInjective, r, dom

LEMMA BeginKeeps ==
  ASSUME MeshInv, NEW s \in TheMesh!Node, TheMesh!BeginWalk(s)
  PROVE  MeshInv'
<1>1. /\ lang' = lang /\ phase' = phase /\ node' = node /\ adj' = adj /\ bits' = bits
      /\ TheMesh!Shuffles => /\ pc' = "shuffle" /\ i' = TheMesh!Size - 1
                             /\ perm' = [x \in 0..(TheMesh!Size - 1) |-> x]
      /\ ~TheMesh!Shuffles => pc' = "walk"
  BY DEF TheMesh!BeginWalk
<1>2. TheMesh!Size' = TheMesh!Size /\ (TheMesh!Shuffles' <=> TheMesh!Shuffles)
  BY <1>1 DEF TheMesh!Size, TheMesh!Shuffles
<1>3. TheMesh!Shuffles => Permutes(perm', TheMesh!Size) /\ i' \in 0..(TheMesh!Size - 1)
  BY <1>1, SizeLarge, IdentityPermutes
<1>4. pc' = "shuffle" =>
        TheMesh!Shuffles' /\ Permutes(perm', TheMesh!Size') /\ i' \in 0..(TheMesh!Size' - 1)
  BY <1>1, <1>2, <1>3
<1>5. pc' = "walk" => ~TheMesh!Shuffles'
  BY <1>1, <1>2
<1>6. /\ lang' \in Languages /\ node' \in TheMesh!Node /\ phase' \in Nat
      /\ IsGraph(lang', adj')
      /\ lang' = "C" /\ phase' > 0 => TheMesh!Range(bits') = TheMesh!Node
  BY <1>1 DEF MeshInv
<1> QED BY <1>4, <1>5, <1>6 DEF MeshInv, TheMesh!Range, TheMesh!Node

LEMMA ShuffleKeeps ==
  ASSUME MeshInv, NEW j \in 0..(Domain - 1), TheMesh!Shuffle(j)
  PROVE  MeshInv'
<1>1. /\ lang' = lang /\ phase' = phase /\ node' = node /\ adj' = adj /\ bits' = bits
      /\ pc = "shuffle" /\ pc' = pc /\ i > 0 /\ j <= i /\ i' = i - 1
      /\ perm' = TheMesh!Swapped(perm, i, j)
  BY DEF TheMesh!Shuffle
<1>2. TheMesh!Size' = TheMesh!Size /\ (TheMesh!Shuffles' <=> TheMesh!Shuffles)
  BY <1>1 DEF TheMesh!Size, TheMesh!Shuffles
<1>3. TheMesh!Shuffles /\ Permutes(perm, TheMesh!Size) /\ i \in 0..(TheMesh!Size - 1)
  BY <1>1 DEF MeshInv
<1>4. j \in 0..(TheMesh!Size - 1) /\ i' \in 0..(TheMesh!Size - 1)
  BY <1>1, <1>3, SizeLarge
<1>5. Permutes(perm', TheMesh!Size)
  BY <1>1, <1>3, <1>4, SizeLarge, SwapPermutes
<1>6. pc' = "shuffle" =>
        TheMesh!Shuffles' /\ Permutes(perm', TheMesh!Size') /\ i' \in 0..(TheMesh!Size' - 1)
  BY <1>2, <1>3, <1>4, <1>5
<1>7. /\ lang' \in Languages /\ node' \in TheMesh!Node /\ phase' \in Nat
      /\ IsGraph(lang', adj') /\ pc' # "walk"
      /\ lang' = "C" /\ phase' > 0 => TheMesh!Range(bits') = TheMesh!Node
  BY <1>1 DEF MeshInv
<1> QED BY <1>6, <1>7 DEF MeshInv, TheMesh!Range, TheMesh!Node

(* Where every place has one bit, the latest of them is that bit.          *)
LEMMA EveryBitPlaced ==
  ASSUME Nodes \in Nat, NEW p, Permutes(p, Nodes),
         NEW q, q = [b \in TheMesh!Node |->
                       LET from == {x \in TheMesh!Node : p[x] % Nodes = b}
                       IN  IF from = {} THEN TheMesh!Unset ELSE TheMesh!Max(from)]
  PROVE  TheMesh!Range(q) = TheMesh!Node
<1>1. /\ p \in [TheMesh!Node -> TheMesh!Node]
      /\ \A x, y \in TheMesh!Node : p[x] = p[y] => x = y
      /\ \A y \in TheMesh!Node : \E x \in TheMesh!Node : p[x] = y
  BY DEF Permutes, TheMesh!IsInjective, TheMesh!Node
<1>2. \A x \in TheMesh!Node : p[x] \in TheMesh!Node /\ p[x] % Nodes = p[x]
  <2>1. ASSUME NEW y \in TheMesh!Node PROVE y % Nodes = y
    BY MeshSizes
  <2> QED BY <1>1, <2>1
<1>3. ASSUME NEW x \in TheMesh!Node PROVE q[p[x]] = x
  <2> DEFINE from == {z \in TheMesh!Node : p[z] % Nodes = p[x]}
  <2>1. p[x] \in TheMesh!Node
    BY <1>2
  <2>2. from = {x}
    BY <1>1, <1>2
  <2>3. q[p[x]] = IF from = {} THEN TheMesh!Unset ELSE TheMesh!Max(from)
    BY <2>1
  <2>4. TheMesh!Max({x}) = x
    <3>1. x \in Int
      BY MeshSizes
    <3> QED BY <3>1 DEF TheMesh!Max
  <2> HIDE DEF from
  <2> QED BY <2>2, <2>3, <2>4
<1>4. DOMAIN q = TheMesh!Node
  OBVIOUS
<1>5. ASSUME NEW y \in TheMesh!Node PROVE q[y] \in TheMesh!Node
  <2>1. PICK x \in TheMesh!Node : p[x] = y
    BY <1>1
  <2> QED BY <1>3, <2>1
<1>6. TheMesh!Range(q) = {q[y] : y \in TheMesh!Node}
  BY <1>4 DEF TheMesh!Range
<1> HIDE DEF TheMesh!Node
<1>7. \A x \in TheMesh!Node : x = q[p[x]] /\ p[x] \in TheMesh!Node
  BY <1>2, <1>3
<1>8. TheMesh!Node \subseteq {q[y] : y \in TheMesh!Node}
  <2>1. ASSUME NEW x \in TheMesh!Node PROVE x \in {q[y] : y \in TheMesh!Node}
    BY <1>7
  <2> QED BY <2>1
<1>9. {q[y] : y \in TheMesh!Node} \subseteq TheMesh!Node
  BY <1>5
<1> QED BY <1>6, <1>8, <1>9


LEMMA EndPhaseEffect ==
  ASSUME TheMesh!EndPhase
  PROVE  /\ phase' = phase + 1 /\ lang' = lang /\ node' = node /\ adj' = TheMesh!NoGraph
         /\ pc' \in {"graph", "done"}
BY DEF TheMesh!EndPhase

LEMMA EndPhaseKeeps ==
  ASSUME MeshInv, TheMesh!EndPhase, lang = "C" => TheMesh!Range(bits') = TheMesh!Node
  PROVE  MeshInv'
<1>1. /\ phase' = phase + 1 /\ lang' = lang /\ node' = node /\ adj' = TheMesh!NoGraph
      /\ pc' # "shuffle" /\ pc' # "walk"
  BY EndPhaseEffect
<1>2. IsGraph(lang', adj')
  BY <1>1, EmptyGraph
<1>3. lang' \in Languages /\ node' \in TheMesh!Node /\ phase' \in Nat
  BY <1>1 DEF MeshInv
<1> QED BY <1>1, <1>2, <1>3 DEF MeshInv, TheMesh!Range, TheMesh!Node

LEMMA EndShuffleKeeps ==
  ASSUME MeshInv, TheMesh!EndShuffle
  PROVE  MeshInv'
<1>1. TheMesh!EndPhase /\ pc = "shuffle"
  BY DEF TheMesh!EndShuffle
<1>2. Permutes(perm, TheMesh!Size)
  BY <1>1 DEF MeshInv
<1>3. bits' = [b \in TheMesh!Node |->
                 LET from == {x \in TheMesh!Node : perm[x] % Nodes = b}
                 IN  IF from = {} THEN TheMesh!Unset ELSE TheMesh!Max(from)]
  BY DEF TheMesh!EndShuffle
<1>4. lang = "C" => TheMesh!Range(bits') = TheMesh!Node
  <2>1. lang = "C" => TheMesh!Size = Nodes
    BY DEF TheMesh!Size
  <2> QED BY <1>2, <1>3, <2>1, MeshSizes, EveryBitPlaced
<1> QED BY <1>1, <1>4, EndPhaseKeeps

LEMMA WalkKeeps ==
  ASSUME MeshInv, TheMesh!MaskStep \/ TheMesh!PathStep
  PROVE  MeshInv'
<1>1. UNCHANGED << lang, pc, phase, node, adj, perm, bits >> /\ pc = "walk"
  BY DEF TheMesh!MaskStep, TheMesh!PathStep
<1> QED BY <1>1 DEF MeshInv, TheMesh!Shuffles, TheMesh!Range, TheMesh!Node

LEMMA EndWalkKeeps ==
  ASSUME MeshInv, TheMesh!EndWalk
  PROVE  MeshInv'
<1>1. TheMesh!EndPhase /\ pc = "walk" /\ bits' = bits
  BY DEF TheMesh!EndWalk
<1>2. lang = "C" => phase > 0
  BY <1>1 DEF MeshInv, TheMesh!Shuffles
<1>3. lang = "C" => TheMesh!Range(bits') = TheMesh!Node
  BY <1>1, <1>2 DEF MeshInv
<1> QED BY <1>1, <1>3, EndPhaseKeeps

LEMMA MeshKeeps ==
  ASSUME MeshInv, TheMesh!Next
  PROVE  MeshInv'
BY DrawKeeps, BeginKeeps, ShuffleKeeps, EndShuffleKeeps, WalkKeeps, EndWalkKeeps
   DEF TheMesh!Next, TheMesh!Walk

LEMMA MeshStarts ==
  ASSUME TheMesh!Init
  PROVE  MeshInv
<1>1. /\ lang \in Languages /\ pc = "graph" /\ phase = 0 /\ node = 0 /\ adj = TheMesh!NoGraph
  BY DEF TheMesh!Init, Languages
<1>2. IsGraph(lang, adj)
  BY <1>1, EmptyGraph
<1>3. node \in TheMesh!Node
  BY <1>1, MeshSizes
<1> QED BY <1>1, <1>2, <1>3 DEF MeshInv

(* A behaviour that makes a mesh.                                          *)
MeshPart == part = "mesh" => MeshInv

THEOREM MeshInvariant == MCSpec => []MeshPart
<1>1. MCInit => MeshPart
  BY MeshStarts DEF MCInit, MeshPart
<1>2. MeshPart /\ [MCNext]_all => MeshPart'
  <2>1. ASSUME MeshPart, part = "mesh", TheMesh!Next, part' = part PROVE MeshPart'
    BY <2>1, MeshKeeps DEF MeshPart
  <2>2. ASSUME part = "hints", part' = part PROVE MeshPart'
    BY <2>2 DEF MeshPart
  <2>3. ASSUME MeshPart, UNCHANGED all PROVE MeshPart'
    <3>1. UNCHANGED << part, lang, pc, phase, node, adj, i, perm, bits >>
      BY <2>3 DEF all, vars, meshVars
    <3>2. MeshInv => MeshInv'
      BY <3>1 DEF MeshInv, TheMesh!Shuffles, TheMesh!Size, TheMesh!Range, TheMesh!Node
    <3> QED BY <2>3, <3>1, <3>2 DEF MeshPart
  <2> QED BY <2>1, <2>2, <2>3 DEF MCNext
<1> QED BY <1>1, <1>2, PTL DEF MCSpec

(* Whatever the hashes draw, and however many nodes the mesh has, edges    *)
(* lead to other nodes, no list is longer than adj has room for in C and   *)
(* C++, nothing is listed twice in C and Rust, and in Rust both ends of an *)
(* edge list it (graph_from_seed, in Rust generate_graph_from_seed).       *)
THEOREM GraphsWellFormed == MCSpec => []GraphWellFormed
<1>1. MeshInv => TheMesh!GraphWellFormed
  <2>1. ASSUME MeshInv, NEW n \in TheMesh!Node
        PROVE  /\ TheMesh!Range(adj[n]) \subseteq TheMesh!Node \ {n}
               /\ lang # "C++" => TheMesh!IsInjective(adj[n])
               /\ lang # "Rust" => Len(adj[n]) <= Degree
               /\ lang = "Rust" => \A nb \in TheMesh!Range(adj[n]) : n \in TheMesh!Range(adj[nb])
    <3>1. Listed(lang, adj, n)
      BY <2>1 DEF MeshInv, IsGraph
    <3>2. TheMesh!Range(adj[n]) \subseteq TheMesh!Node \ {n}
      BY <3>1, RangeOfList DEF Listed
    <3> QED BY <3>1, <3>2 DEF Listed
  <2> QED BY <2>1 DEF TheMesh!GraphWellFormed
<1>2. MeshPart => GraphWellFormed
  BY <1>1 DEF MeshPart, GraphWellFormed
<1> QED BY <1>2, MeshInvariant, PTL

(* However the first walk goes, perm stays a permutation, and after it     *)
(* every place of bits, uninitialised before in C, has a bit of its own    *)
(* (the loop over perm in graph.c).                                        *)
THEOREM BitsKept == MCSpec => []ShuffleKeepsBits
<1>1. ASSUME MeshInv, pc = "shuffle" PROVE TheMesh!Range(perm) = DOMAIN perm
  <2> DEFINE dom == 0..(TheMesh!Size - 1)
  <2>1. perm \in [dom -> dom] /\ \A y \in dom : \E x \in dom : perm[x] = y
    BY <1>1 DEF MeshInv, Permutes
  <2> HIDE DEF dom
  <2>2. TheMesh!Range(perm) = {perm[x] : x \in dom} /\ DOMAIN perm = dom
    BY <2>1 DEF TheMesh!Range
  <2> QED BY <2>1, <2>2
<1>2. MeshInv => TheMesh!ShuffleKeepsBits
  BY <1>1 DEF MeshInv, TheMesh!ShuffleKeepsBits
<1>3. MeshPart => ShuffleKeepsBits
  BY <1>2 DEF MeshPart, ShuffleKeepsBits
<1> QED BY <1>3, MeshInvariant, PTL


-----------------------------------------------------------------------------
(* The hints: how a coefficient is rounded.                                *)
Known(v) == v \in Int /\ Positive(v) >= -NoiseBound

(* The buckets as a staircase: all but the first are 416 or 417 wide.      *)
Stairs(p) ==
  IF p < 625 THEN 0 ELSE IF p < 1041 THEN 1 ELSE IF p < 1457 THEN 2 ELSE
  IF p < 1873 THEN 3 ELSE IF p < 2289 THEN 4 ELSE IF p < 2705 THEN 5 ELSE
  IF p < 3121 THEN 6 ELSE 7

LEMMA MinWithSeven ==
  ASSUME NEW n \in Int
  PROVE  Min({7, n}) = IF n <= 7 THEN n ELSE 7
BY DEF Min

(* What the two roundings do, one interval at a time.                      *)
LEMMA Rounded ==
  ASSUME NEW p \in Int, p >= -208
  PROVE  /\ (16 * p + 3329) \div 6658 \in Nat
         /\ p < 625 => (16 * p + 3329) \div 6658 <= 1
         /\ p >= 625 /\ p < 1041 => (16 * p + 3329) \div 6658 = 2
         /\ p >= 1041 /\ p < 1457 => (16 * p + 3329) \div 6658 = 3
         /\ p >= 1457 /\ p < 1873 => (16 * p + 3329) \div 6658 = 4
         /\ p >= 1873 /\ p < 2289 => (16 * p + 3329) \div 6658 = 5
         /\ p >= 2289 /\ p < 2705 => (16 * p + 3329) \div 6658 = 6
         /\ p >= 2705 /\ p < 3121 => (16 * p + 3329) \div 6658 = 7
         /\ p >= 3121 => (16 * p + 3329) \div 6658 >= 8
OBVIOUS

LEMMA Eighths ==
  ASSUME NEW s \in Nat
  PROVE  /\ (8 * s) \div 9 \in Int
         /\ s <= 1 => (8 * s) \div 9 = 0
         /\ s = 2 => (8 * s) \div 9 = 1
         /\ s = 3 => (8 * s) \div 9 = 2
         /\ s = 4 => (8 * s) \div 9 = 3
         /\ s = 5 => (8 * s) \div 9 = 4
         /\ s = 6 => (8 * s) \div 9 = 5
         /\ s = 7 => (8 * s) \div 9 = 6
         /\ s >= 8 => (8 * s) \div 9 >= 7
OBVIOUS

LEMMA BucketIsStairs ==
  ASSUME NEW v, Known(v)
  PROVE  CoarseBucket(v) = Stairs(Positive(v))
<1> DEFINE p == Positive(v)
<1> DEFINE s == (16 * p + 3329) \div 6658
<1> DEFINE e == (8 * s) \div 9
<1>1. p \in Int /\ p >= -208
  BY DEF Known, Positive, NoiseBound, Q
<1>2. CoarseBucket(v) = Min({7, e})
  <2>1. 2 * Q = 6658 /\ Q = 3329
    BY DEF Q
  <2> QED BY <2>1 DEF CoarseBucket
<1> HIDE DEF p
<1>3. /\ s \in Nat
      /\ p < 625 => s <= 1
      /\ p >= 625 /\ p < 1041 => s = 2
      /\ p >= 1041 /\ p < 1457 => s = 3
      /\ p >= 1457 /\ p < 1873 => s = 4
      /\ p >= 1873 /\ p < 2289 => s = 5
      /\ p >= 2289 /\ p < 2705 => s = 6
      /\ p >= 2705 /\ p < 3121 => s = 7
      /\ p >= 3121 => s >= 8
  BY <1>1, Rounded
<1> HIDE DEF s
<1>4. /\ e \in Int
      /\ s <= 1 => e = 0
      /\ s = 2 => e = 1
      /\ s = 3 => e = 2
      /\ s = 4 => e = 3
      /\ s = 5 => e = 4
      /\ s = 6 => e = 5
      /\ s = 7 => e = 6
      /\ s >= 8 => e >= 7
  BY <1>3, Eighths
<1> HIDE DEF e
<1>5. Min({7, e}) = IF e <= 7 THEN e ELSE 7
  BY <1>4, MinWithSeven
<1>6. Min({7, e}) = Stairs(p)
  BY <1>1, <1>3, <1>4, <1>5 DEF Stairs
<1> QED BY <1>2, <1>6 DEF p

(* Only the first bucket is ever halved.                                   *)
LEMMA FineIsHalf ==
  ASSUME NEW v, Known(v)
  PROVE  FineSub(v, CoarseBucket(v)) = IF Positive(v) < 208 THEN 0 ELSE 1
<1> DEFINE p == Positive(v)
<1> DEFINE c == Stairs(p)
<1>1. p \in Int
  BY DEF Known, Positive, Q
<1> HIDE DEF p
<1>2. /\ c \in 0..7
      /\ c = 0 => p < 625
      /\ c = 1 => p >= 625
      /\ c = 2 => p >= 1041
      /\ c = 3 => p >= 1457
      /\ c = 4 => p >= 1873
      /\ c = 5 => p >= 2289
      /\ c = 6 => p >= 2705
      /\ c = 7 => p >= 3121
  BY <1>1 DEF Stairs
<1> HIDE DEF c
<1>3. FineSub(v, c) =
        IF p >= ((c * 3329) \div 8 + ((c + 1) * 3329) \div 8) \div 2 THEN 1 ELSE 0
  BY DEF FineSub, Q, p
<1> DEFINE mid == ((c * 3329) \div 8 + ((c + 1) * 3329) \div 8) \div 2
<1>4. c = 0 => mid = 208
  OBVIOUS
<1>5. c # 0 => mid <= p /\ p >= 208
  BY <1>1, <1>2
<1>6. mid \in Int
  BY <1>2
<1> HIDE DEF mid
<1>7. FineSub(v, c) = IF p < 208 THEN 0 ELSE 1
  BY <1>1, <1>2, <1>3, <1>4, <1>5, <1>6 DEF mid
<1> QED BY <1>7, BucketIsStairs DEF p, c

(* The four bits of a coefficient.                                         *)
CoFineStairs(p) == 2 * Stairs(p) + (IF p < 208 THEN 0 ELSE 1)

LEMMA CoFineIsStairs ==
  ASSUME NEW v, Known(v)
  PROVE  /\ CoFine(v) = CoFineStairs(Positive(v))
         /\ CoFine(v) \in 0..15
         /\ CoarseBucket(v) \in 0..7 /\ CoarseBucket(v) = CoFine(v) \div 2
<1>1. Positive(v) \in Int
  BY DEF Known, Positive, Q
<1>2. CoFine(v) = CoFineStairs(Positive(v)) /\ CoarseBucket(v) = Stairs(Positive(v))
  BY BucketIsStairs, FineIsHalf DEF CoFine, CoFineStairs
<1>3. Stairs(Positive(v)) \in 0..7
  BY <1>1 DEF Stairs
<1>4. CoFineStairs(Positive(v)) \in 0..15
      /\ Stairs(Positive(v)) = CoFineStairs(Positive(v)) \div 2
  BY <1>1, <1>3 DEF CoFineStairs
<1> QED BY <1>2, <1>3, <1>4

LEMMA StairsClimb ==
  ASSUME NEW p \in Int, NEW r \in Int, p <= r
  PROVE  /\ CoFineStairs(p) <= CoFineStairs(r)
         /\ r - p <= 1 => CoFineStairs(r) - CoFineStairs(p) <= 2
         /\ r - p <= 15 => Stairs(r) - Stairs(p) \in 0..1
<1>1. /\ CoFineStairs(p) <= CoFineStairs(r)
      /\ r - p <= 1 => CoFineStairs(r) - CoFineStairs(p) <= 2
  BY DEF CoFineStairs, Stairs
<1>2. r - p <= 15 => Stairs(r) - Stairs(p) \in 0..1
  BY DEF Stairs
<1> QED BY <1>1, <1>2


-----------------------------------------------------------------------------
(* Where the bits are in the bytes of C and Rust.                          *)
LEMMA HintSizes ==
  /\ N \in Nat \ {0} /\ N \div 2 \in Nat /\ N \div 4 \in Nat /\ N \div 16 \in Nat
  /\ N = 2 * (N \div 2) /\ N = 4 * (N \div 4) /\ N = 16 * (N \div 16)
  /\ HintBytes \in Nat /\ HintBytes = N \div 2 + N \div 16
  /\ N \div 4 <= HintBytes
BY ReconcileAssumption DEF HintBytes

KnownAll(v) == \A x \in Coefficients : Known(v[x])

LEMMA TwoNibbles ==
  ASSUME NEW a \in 0..15, NEW b \in 0..15
  PROVE  ((a + 16 * b) \div 1) % 16 = a /\ ((a + 16 * b) \div 16) % 16 = b
OBVIOUS

LEMMA NibbleRead ==
  ASSUME NEW v, KnownAll(v), NEW x \in Coefficients
  PROVE  Nibble(ReconcileAlice(v), x) = CoFine(v[x])
<1> DEFINE y == x \div 2
<1> DEFINE h == ReconcileAlice(v)
<1>1. /\ y \in 0..(HintBytes - 1) /\ y < N \div 2
      /\ 2*y \in Coefficients /\ 2*y + 1 \in Coefficients
      /\ x % 2 = 0 => x = 2*y
      /\ x % 2 # 0 => x = 2*y + 1
  BY HintSizes DEF Coefficients
<1> HIDE DEF y
<1>2. h[y] = CoFine(v[2*y]) + 16 * CoFine(v[2*y + 1])
  BY <1>1 DEF ReconcileAlice
<1>3. CoFine(v[2*y]) \in 0..15 /\ CoFine(v[2*y + 1]) \in 0..15
  BY <1>1, CoFineIsStairs DEF KnownAll
<1>4. (h[y] \div 1) % 16 = CoFine(v[2*y]) /\ (h[y] \div 16) % 16 = CoFine(v[2*y + 1])
  BY <1>2, <1>3, TwoNibbles
<1> HIDE DEF h
<1>5. Nibble(h, x) = (h[y] \div (IF x % 2 = 0 THEN 1 ELSE 16)) % 16
  BY DEF Nibble, y
<1>6. CASE x % 2 = 0
  BY <1>1, <1>4, <1>5, <1>6 DEF h
<1>7. CASE x % 2 # 0
  BY <1>1, <1>4, <1>5, <1>7 DEF h
<1> QED BY <1>6, <1>7

LEMMA FourPairs ==
  ASSUME NEW a \in 0..3, NEW b \in 0..3, NEW c \in 0..3, NEW e \in 0..3,
         NEW a2 \in 0..3, NEW b2 \in 0..3, NEW c2 \in 0..3, NEW e2 \in 0..3,
         a + 4 * b + 16 * c + 64 * e = a2 + 4 * b2 + 16 * c2 + 64 * e2
  PROVE  a = a2 /\ b = b2 /\ c = c2 /\ e = e2
OBVIOUS

LEMMA PairRange ==
  ASSUME NEW b
  PROVE  SpectralPair(b) \in 0..3
BY DEF SpectralPair

(* Equal hints have equal pairs of signs.                                  *)
LEMMA PairsRead ==
  ASSUME NEW v, NEW w, ReconcileAlice(v) = ReconcileAlice(w), NEW x \in Blocks
  PROVE  SpectralPair(BlockAt(v, x)) = SpectralPair(BlockAt(w, x))
<1> DEFINE y == N \div 2 + x \div 4
<1> DEFINE b == 4 * (x \div 4)
<1> DEFINE Pair(u, z) == SpectralPair(BlockAt(u, z))
<1>1. /\ y \in 0..(HintBytes - 1) /\ ~(y < N \div 2) /\ 4 * (y - N \div 2) = b
      /\ x = b \/ x = b + 1 \/ x = b + 2 \/ x = b + 3
  BY HintSizes DEF Blocks
<1> HIDE DEF y, b
<1>2. ASSUME NEW u PROVE ReconcileAlice(u)[y] =
        Pair(u, b) + 4 * Pair(u, b + 1) + 16 * Pair(u, b + 2) + 64 * Pair(u, b + 3)
  BY <1>1 DEF ReconcileAlice
<1>3. \A u, z : Pair(u, z) \in 0..3
  BY PairRange
<1> HIDE DEF Pair
<1>4. Pair(v, b) + 4 * Pair(v, b + 1) + 16 * Pair(v, b + 2) + 64 * Pair(v, b + 3)
        = Pair(w, b) + 4 * Pair(w, b + 1) + 16 * Pair(w, b + 2) + 64 * Pair(w, b + 3)
  BY <1>2
<1>5. /\ Pair(v, b) = Pair(w, b) /\ Pair(v, b + 1) = Pair(w, b + 1)
      /\ Pair(v, b + 2) = Pair(w, b + 2) /\ Pair(v, b + 3) = Pair(w, b + 3)
  BY <1>3, <1>4, FourPairs
<1>6. Pair(v, x) = Pair(w, x)
  BY <1>1, <1>5
<1> QED BY <1>6 DEF Pair

-----------------------------------------------------------------------------
(* What both ends hold.                                                    *)
Verified ==
  CASE lang = "C" -> ReconcileVerifyC(va, vb)
    [] lang = "Rust" -> ReconcileVerifyRust(va, vb)
    [] lang = "C++" -> ReconcileVerifyCpp(va, vb)

HintInv ==
  /\ lang \in Languages /\ pc \in {"derive", "verify", "verified"}
  /\ KnownAll(va) /\ KnownAll(vb)
  /\ pc # "derive" => \E s, t : ha = Hints(va, s) /\ hb = Hints(vb, t)
  /\ pc = "verified" => accepted = Verified

LEMMA WordsKnown ==
  ASSUME NEW w \in Words, NEW x \in Coefficients
  PROVE  /\ PseudoPoly(w)[x] \in Int
         /\ PseudoPoly(w)[x] > -Q /\ PseudoPoly(w)[x] < Q
<1>1. w[x] \in Uint16
  BY InputAssumption
<1>2. PseudoPoly(w)[x] = IF lang = "Rust" THEN CoefficientRust(w[x]) ELSE Coefficient(w[x])
  BY DEF PseudoPoly
<1>3. ASSUME NEW u \in Uint16
      PROVE  /\ Coefficient(u) \in Int /\ Coefficient(u) > -Q /\ Coefficient(u) < Q
             /\ CoefficientRust(u) \in Int /\ CoefficientRust(u) > -Q /\ CoefficientRust(u) < Q
  BY DEF Coefficient, CoefficientRust, Q, Uint16
<1>4. CASE lang = "Rust"
  BY <1>1, <1>2, <1>3, <1>4
<1>5. CASE lang # "Rust"
  BY <1>1, <1>2, <1>3, <1>5
<1> QED BY <1>4, <1>5

LEMMA HintsStart ==
  ASSUME Init
  PROVE  HintInv
<1>1. PICK w \in Words, e \in Noises :
        /\ va = PseudoPoly(w)
        /\ vb = [x \in Coefficients |-> PseudoPoly(w)[x] + e[x % 4]]
  BY DEF Init
<1>2. ASSUME NEW x \in Coefficients PROVE Known(va[x]) /\ Known(vb[x])
  <2>1. va[x] \in Int /\ va[x] > -Q /\ va[x] < Q
    BY <1>1, WordsKnown
  <2>2. x % 4 \in 0..3
    BY HintSizes DEF Coefficients
  <2>3. e[x % 4] \in Move
    BY <2>2, InputAssumption
  <2>4. vb[x] = va[x] + e[x % 4]
    BY <1>1
  <2> QED BY <2>1, <2>3, <2>4 DEF Known, Positive, Q, NoiseBound, Move
<1>3. KnownAll(va) /\ KnownAll(vb)
  BY <1>2 DEF KnownAll
<1> QED BY <1>3 DEF HintInv, Init, Languages

LEMMA HintsKeep ==
  ASSUME HintInv, Next
  PROVE  HintInv'
<1>1. UNCHANGED << lang, va, vb >>
  BY DEF Next, Derive, Verify
<1>2. /\ lang' \in Languages /\ KnownAll(va') /\ KnownAll(vb')
  BY <1>1 DEF HintInv
<1>3. CASE Derive
  <2>1. pc' = "verify"
    BY <1>3 DEF Derive
  <2>2. PICK s \in Stale, t \in Stale : ha' = Hints(va, s) /\ hb' = Hints(vb, t)
    BY <1>3 DEF Derive
  <2>3. \E s2, t2 : ha' = Hints(va, s2)' /\ hb' = Hints(vb, t2)'
    BY <1>1, <2>2 DEF Hints
  <2> QED BY <1>2, <2>1, <2>3 DEF HintInv, KnownAll
<1>4. CASE Verify
  <2>1. /\ pc = "verify" /\ pc' = "verified" /\ UNCHANGED << ha, hb >>
        /\ accepted' = Verified
    BY <1>4 DEF Verify, Verified
  <2>2. accepted' = Verified'
    BY <1>1, <2>1 DEF Verified
  <2>3. \E s, t : ha = Hints(va, s) /\ hb = Hints(vb, t)
    BY <2>1 DEF HintInv
  <2>4. \E s, t : ha' = Hints(va, s)' /\ hb' = Hints(vb, t)'
    BY <1>1, <2>1, <2>3 DEF Hints
  <2> QED BY <1>2, <2>1, <2>2, <2>4 DEF HintInv, KnownAll
<1> QED BY <1>3, <1>4 DEF Next


(* A behaviour that makes a mesh has no hints.                             *)
HintPart ==
  /\ part = "hints" => HintInv
  /\ part = "mesh" => pc \notin {"verify", "verified"}
  /\ part \in {"hints", "mesh"}

LEMMA MeshStages ==
  ASSUME TheMesh!Next, pc \notin {"verify", "verified"}
  PROVE  pc' \notin {"verify", "verified"}
<1>1. ASSUME TheMesh!EndPhase PROVE pc' \in {"graph", "done"}
  BY <1>1 DEF TheMesh!EndPhase
<1>2. ASSUME NEW nb \in TheMesh!Node, TheMesh!DrawNeighbour(nb) PROVE pc' \in {pc, "start"}
  BY <1>2 DEF TheMesh!DrawNeighbour
<1>3. ASSUME NEW s \in TheMesh!Node, TheMesh!BeginWalk(s) PROVE pc' \in {"shuffle", "walk"}
  BY <1>3 DEF TheMesh!BeginWalk
<1>4. ASSUME NEW j \in 0..(Domain - 1), TheMesh!Shuffle(j) PROVE pc' = pc
  BY <1>4 DEF TheMesh!Shuffle
<1>5. TheMesh!MaskStep \/ TheMesh!PathStep => pc' = pc
  BY DEF TheMesh!MaskStep, TheMesh!PathStep
<1>6. TheMesh!EndShuffle \/ TheMesh!EndWalk => TheMesh!EndPhase
  BY DEF TheMesh!EndShuffle, TheMesh!EndWalk
<1> QED BY <1>1, <1>2, <1>3, <1>4, <1>5, <1>6 DEF TheMesh!Next, TheMesh!Walk

THEOREM HintInvariant == MCSpec => []HintPart
<1>1. MCInit => HintPart
  <2>1. ASSUME part = "hints", Init PROVE HintPart
    BY <2>1, HintsStart DEF HintPart
  <2>2. ASSUME part = "mesh", TheMesh!Init PROVE HintPart
    BY <2>2 DEF HintPart, TheMesh!Init
  <2> QED BY <2>1, <2>2 DEF MCInit
<1>2. HintPart /\ [MCNext]_all => HintPart'
  <2>1. ASSUME HintPart, part = "hints", Next, part' = part PROVE HintPart'
    BY <2>1, HintsKeep DEF HintPart
  <2>2. ASSUME HintPart, part = "mesh", TheMesh!Next, part' = part PROVE HintPart'
    BY <2>2, MeshStages DEF HintPart
  <2>3. ASSUME HintPart, UNCHANGED all PROVE HintPart'
    <3>1. UNCHANGED << part, lang, pc, va, vb, ha, hb, accepted >>
      BY <2>3 DEF all, vars
    <3>2. Verified' <=> Verified
      BY <3>1 DEF Verified
    <3>3. \A v, s : Hints(v, s)' = Hints(v, s)
      BY <3>1 DEF Hints
    <3>4. HintInv => HintInv'
      BY <3>1, <3>2, <3>3 DEF HintInv, KnownAll, Hints
    <3> QED BY <2>3, <3>1, <3>4 DEF HintPart
  <2> QED BY <2>1, <2>2, <2>3 DEF MCNext
<1> QED BY <1>1, <1>2, PTL DEF MCSpec

(* Whatever polynomials the two ends hold, the four bits of a larger       *)
(* coefficient are not smaller, and of the next coefficient they are the   *)
(* same or the next ones (coarse_bucket, fine_sub and the packing loop of  *)
(* td18_reconcile_alice).                                                  *)
THEOREM HintsMonotone == MCSpec => []HintsAreMonotone
<1>1. HintPart => HintsAreMonotone
  <2>1. ASSUME HintPart, pc \in {"verify", "verified"}, lang # "C++", NEW x \in Coefficients,
               Positive(va[x]) <= Positive(vb[x])
        PROVE  /\ Nibble(ha, x) <= Nibble(hb, x)
               /\ Positive(vb[x]) - Positive(va[x]) <= 1 => Nibble(hb, x) - Nibble(ha, x) <= 2
    <3>1. HintInv
      BY <2>1 DEF HintPart
    <3>2. ha = ReconcileAlice(va) /\ hb = ReconcileAlice(vb) /\ KnownAll(va) /\ KnownAll(vb)
      BY <2>1, <3>1 DEF HintInv, Hints
    <3>3. Nibble(ha, x) = CoFine(va[x]) /\ Nibble(hb, x) = CoFine(vb[x])
      BY <3>2, NibbleRead
    <3>4. Known(va[x]) /\ Known(vb[x])
      BY <3>2 DEF KnownAll
    <3>5. CoFine(va[x]) = CoFineStairs(Positive(va[x])) /\ CoFine(vb[x]) = CoFineStairs(Positive(vb[x]))
      BY <3>4, CoFineIsStairs
    <3>6. Positive(va[x]) \in Int /\ Positive(vb[x]) \in Int
      BY <3>4 DEF Known, Positive, Q
    <3> QED BY <2>1, <3>3, <3>5, <3>6, StairsClimb
  <2> QED BY <2>1 DEF HintsAreMonotone
<1> QED BY <1>1, HintInvariant, PTL

(* The sums of a block.                                                    *)
LEMMA BlockSums ==
  ASSUME NEW v, KnownAll(v), NEW x \in Blocks
  PROVE  /\ \A j \in 0..3 : 4*x + j \in Coefficients /\ v[4*x + j] \in Int
         /\ S0(BlockAt(v, x)) = v[4*x] + v[4*x + 1] - v[4*x + 2] - v[4*x + 3]
         /\ S1(BlockAt(v, x)) = v[4*x] + v[4*x + 2] - v[4*x + 1] - v[4*x + 3]
         /\ S0(BlockAt(v, x)) \in Int /\ S1(BlockAt(v, x)) \in Int
<1>1. \A j \in 0..3 : 4*x + j \in Coefficients
  BY HintSizes DEF Coefficients, Blocks
<1>2. \A j \in 0..3 : v[4*x + j] \in Int
  BY <1>1 DEF KnownAll, Known
<1>3. \A j \in 0..3 : BlockAt(v, x)[j] = v[4*x + j]
  BY DEF BlockAt
<1>4. x \in Int
  BY HintSizes DEF Blocks
<1>5. /\ BlockAt(v, x)[0] = v[4*x] /\ BlockAt(v, x)[1] = v[4*x + 1]
      /\ BlockAt(v, x)[2] = v[4*x + 2] /\ BlockAt(v, x)[3] = v[4*x + 3]
      /\ v[4*x] \in Int /\ v[4*x + 1] \in Int /\ v[4*x + 2] \in Int /\ v[4*x + 3] \in Int
  <2>1. 4*x + 0 = 4*x
    BY <1>4
  <2> QED BY <1>2, <1>3, <2>1
<1> QED BY <1>1, <1>2, <1>5 DEF S0, S1

LEMMA NearBuckets ==
  ASSUME NEW a, NEW b, Known(a), Known(b), a >= 0, b >= 0, a - b \in -15..15
  PROVE  CoarseBucket(a) - CoarseBucket(b) \in {-1, 0, 1}
<1>1. a \in Int /\ b \in Int /\ Positive(a) = a /\ Positive(b) = b
  BY DEF Known, Positive
<1>2. CoarseBucket(a) = Stairs(a) /\ CoarseBucket(b) = Stairs(b)
  BY <1>1, BucketIsStairs
<1>3. Stairs(a) \in 0..7 /\ Stairs(b) \in 0..7
  BY <1>1 DEF Stairs
<1>4. a <= b => Stairs(b) - Stairs(a) \in 0..1
  BY <1>1, StairsClimb
<1>5. b <= a => Stairs(a) - Stairs(b) \in 0..1
  BY <1>1, StairsClimb
<1> QED BY <1>1, <1>2, <1>3, <1>4, <1>5

LEMMA NearSums ==
  ASSUME NEW s \in Int, NEW t \in Int, s - t \in -60..60
  PROVE  ParityOkC(s, t) /\ ParityOkRust(s, t)
BY DEF ParityOkC, ParityOkRust, Signum, Small, Tolerance

(* Noise below 16 passes both verifiers whatever the polynomials are: it   *)
(* moves a coefficient by one bucket at most, and a sum that changes its   *)
(* sign is inside the tolerance on both sides.                             *)
THEOREM NoisePasses == MCSpec => []NoiseTolerated
<1>1. HintPart => NoiseTolerated
  <2>1. SUFFICES ASSUME HintPart, pc = "verified", lang # "C++", NoWrap, SmallNoise
                 PROVE  accepted
    BY DEF NoiseTolerated
  <2>2. HintInv
    BY <2>1 DEF HintPart
  <2>3. KnownAll(va) /\ KnownAll(vb) /\ lang \in {"C", "Rust"} /\ accepted = Verified
    BY <2>1, <2>2 DEF HintInv, Languages
  <2>4. \A x \in Coefficients : /\ va[x] \in Int /\ vb[x] \in Int /\ va[x] >= 0 /\ vb[x] >= 0
                                /\ Known(va[x]) /\ Known(vb[x]) /\ va[x] - vb[x] \in -15..15
    <3>1. ASSUME NEW x \in Coefficients
          PROVE  /\ Known(va[x]) /\ Known(vb[x])
                 /\ va[x] \in Int /\ vb[x] \in Int
                 /\ va[x] \in 0..(Q - 1) /\ vb[x] \in 0..(Q - 1) /\ vb[x] - va[x] \in -15..15
      BY <2>1, <2>3 DEF NoWrap, SmallNoise, KnownAll, Known
    <3>2. ASSUME NEW a \in Int, NEW b \in Int,
                 a \in 0..(Q - 1), b \in 0..(Q - 1), b - a \in -15..15
          PROVE  a >= 0 /\ b >= 0 /\ a - b \in -15..15
      BY <3>2 DEF Q
    <3> QED BY <3>1, <3>2
  <2>5. BucketsNear(va, vb)
    BY <2>4, NearBuckets DEF BucketsNear
  <2>6. ASSUME NEW x \in Blocks
        PROVE  /\ S0(BlockAt(va, x)) \in Int /\ S0(BlockAt(vb, x)) \in Int
               /\ S1(BlockAt(va, x)) \in Int /\ S1(BlockAt(vb, x)) \in Int
               /\ S0(BlockAt(va, x)) - S0(BlockAt(vb, x)) \in -60..60
               /\ S1(BlockAt(va, x)) - S1(BlockAt(vb, x)) \in -60..60
    <3>1. x \in Int /\ 4*x + 0 = 4*x
      BY HintSizes DEF Blocks
    <3>2. /\ 4*x \in Coefficients /\ 4*x + 1 \in Coefficients
          /\ 4*x + 2 \in Coefficients /\ 4*x + 3 \in Coefficients
      BY <2>3, <3>1, BlockSums
    <3>3. /\ S0(BlockAt(va, x)) = va[4*x] + va[4*x + 1] - va[4*x + 2] - va[4*x + 3]
          /\ S1(BlockAt(va, x)) = va[4*x] + va[4*x + 2] - va[4*x + 1] - va[4*x + 3]
          /\ S0(BlockAt(vb, x)) = vb[4*x] + vb[4*x + 1] - vb[4*x + 2] - vb[4*x + 3]
          /\ S1(BlockAt(vb, x)) = vb[4*x] + vb[4*x + 2] - vb[4*x + 1] - vb[4*x + 3]
          /\ S0(BlockAt(va, x)) \in Int /\ S0(BlockAt(vb, x)) \in Int
          /\ S1(BlockAt(va, x)) \in Int /\ S1(BlockAt(vb, x)) \in Int
      BY <2>3, BlockSums
    <3> DEFINE a0 == va[4*x]
               a1 == va[4*x + 1]
               a2 == va[4*x + 2]
               a3 == va[4*x + 3]
               b0 == vb[4*x]
               b1 == vb[4*x + 1]
               b2 == vb[4*x + 2]
               b3 == vb[4*x + 3]
    <3>4. /\ a0 \in Int /\ a1 \in Int /\ a2 \in Int /\ a3 \in Int
          /\ b0 \in Int /\ b1 \in Int /\ b2 \in Int /\ b3 \in Int
          /\ a0 - b0 \in -15..15 /\ a1 - b1 \in -15..15
          /\ a2 - b2 \in -15..15 /\ a3 - b3 \in -15..15
      BY <2>4, <3>2
    <3>5. /\ S0(BlockAt(va, x)) = a0 + a1 - a2 - a3 /\ S0(BlockAt(vb, x)) = b0 + b1 - b2 - b3
          /\ S1(BlockAt(va, x)) = a0 + a2 - a1 - a3 /\ S1(BlockAt(vb, x)) = b0 + b2 - b1 - b3
      BY <3>3, Zenon
    <3> HIDE DEF a0, a1, a2, a3, b0, b1, b2, b3
    <3>6. /\ (a0 + a1 - a2 - a3) - (b0 + b1 - b2 - b3) \in -60..60
          /\ (a0 + a2 - a1 - a3) - (b0 + b2 - b1 - b3) \in -60..60
      BY <3>4
    <3>7. /\ S0(BlockAt(va, x)) - S0(BlockAt(vb, x)) \in -60..60
          /\ S1(BlockAt(va, x)) - S1(BlockAt(vb, x)) \in -60..60
      BY <3>5, <3>6, Zenon
    <3> QED BY <3>3, <3>7
  <2>7. ReconcileVerifyC(va, vb) /\ ReconcileVerifyRust(va, vb)
    BY <2>5, <2>6, NearSums DEF ReconcileVerifyC, ReconcileVerifyRust
  <2> QED BY <2>3, <2>7 DEF Verified
<1> QED BY <1>1, HintInvariant, PTL


(* The signs that the verifiers look at, and the bits that tell them.      *)
LEMMA SameBits ==
  ASSUME NEW a, NEW b, S0(a) \in Int, S0(b) \in Int, S1(a) \in Int, S1(b) \in Int,
         SpectralPair(a) = SpectralPair(b)
  PROVE  (S0(a) >= 0 <=> S0(b) >= 0) /\ (S1(a) >= 0 <=> S1(b) >= 0)
<1> DEFINE h(s) == IF s >= 0 THEN 1 ELSE 0
<1>1. \A c : SpectralPair(c) = 2 * h(S1(c)) + h(S0(c))
  BY DEF SpectralPair
<1>2. \A s : h(s) \in {0, 1} /\ (h(s) = 1 <=> s >= 0)
  OBVIOUS
<1> HIDE DEF h
<1>3. h(S1(a)) = h(S1(b)) /\ h(S0(a)) = h(S0(b))
  BY <1>1, <1>2
<1> QED BY <1>2, <1>3

LEMMA SameSigns ==
  ASSUME NEW s \in Int, NEW t \in Int, s >= 0 <=> t >= 0
  PROVE  ParityOkC(s, t) /\ (ParityOkRust(s, t) <=> ~ZeroAgainstLarge(s, t))
BY DEF ParityOkC, ParityOkRust, Signum, Small, Tolerance, ZeroAgainstLarge

(* Equal hints have equal buckets and equal signs.                         *)
LEMMA EqualHints ==
  ASSUME KnownAll(va), KnownAll(vb), ReconcileAlice(va) = ReconcileAlice(vb)
  PROVE  /\ BucketsNear(va, vb)
         /\ \A x \in Blocks :
              /\ S0(BlockAt(va, x)) \in Int /\ S0(BlockAt(vb, x)) \in Int
              /\ S1(BlockAt(va, x)) \in Int /\ S1(BlockAt(vb, x)) \in Int
              /\ S0(BlockAt(va, x)) >= 0 <=> S0(BlockAt(vb, x)) >= 0
              /\ S1(BlockAt(va, x)) >= 0 <=> S1(BlockAt(vb, x)) >= 0
<1>1. ASSUME NEW x \in Coefficients
      PROVE  CoarseBucket(va[x]) - CoarseBucket(vb[x]) \in {-1, 0, 1}
  <2>1. CoFine(va[x]) = CoFine(vb[x])
    BY NibbleRead
  <2>2. Known(va[x]) /\ Known(vb[x])
    BY DEF KnownAll
  <2>3. CoarseBucket(va[x]) = CoarseBucket(vb[x]) /\ CoarseBucket(va[x]) \in 0..7
    BY <2>1, <2>2, CoFineIsStairs
  <2> QED BY <2>3
<1>2. ASSUME NEW x \in Blocks
      PROVE  /\ S0(BlockAt(va, x)) \in Int /\ S0(BlockAt(vb, x)) \in Int
             /\ S1(BlockAt(va, x)) \in Int /\ S1(BlockAt(vb, x)) \in Int
             /\ S0(BlockAt(va, x)) >= 0 <=> S0(BlockAt(vb, x)) >= 0
             /\ S1(BlockAt(va, x)) >= 0 <=> S1(BlockAt(vb, x)) >= 0
  <2>1. SpectralPair(BlockAt(va, x)) = SpectralPair(BlockAt(vb, x))
    BY PairsRead
  <2>2. /\ S0(BlockAt(va, x)) \in Int /\ S0(BlockAt(vb, x)) \in Int
        /\ S1(BlockAt(va, x)) \in Int /\ S1(BlockAt(vb, x)) \in Int
    BY BlockSums
  <2> QED BY <2>1, <2>2, SameBits
<1> QED BY <1>1, <1>2 DEF BucketsNear

(* What C++ writes does not depend on what was there before.               *)
LEMMA EqualHintsCpp ==
  ASSUME NEW s, NEW t, ReconcileAliceCpp(va, s) = ReconcileAliceCpp(vb, t)
  PROVE  ReconcileVerifyCpp(va, vb)
<1>1. ASSUME NEW x \in Blocks PROVE BlockHintCpp(BlockAt(va, x)) = BlockHintCpp(BlockAt(vb, x))
  <2>1. x \in 0..(HintBytes - 1)
    BY HintSizes DEF Blocks
  <2>2. \A v, u : ReconcileAliceCpp(v, u)[x] = BlockHintCpp(BlockAt(v, x))
    BY <2>1 DEF ReconcileAliceCpp
  <2> QED BY <2>2
<1> QED BY <1>1 DEF ReconcileVerifyCpp, ReconcileAliceCpp

(* Whatever polynomials have equal written hints, C and C++ accept them,   *)
(* C++ even with different rests; Rust refuses them exactly if somewhere a *)
(* sum of 0 meets one outside the tolerance.                               *)
THEOREM EqualHintsPass == MCSpec => []EqualHintsAccepted
<1>1. HintPart => EqualHintsAccepted
  <2>1. SUFFICES ASSUME HintPart, pc = "verified", ha = hb
                 PROVE  accepted <=> ~ (lang = "Rust" /\ \E x \in Blocks :
                          \/ ZeroAgainstLarge(S0(BlockAt(va, x)), S0(BlockAt(vb, x)))
                          \/ ZeroAgainstLarge(S1(BlockAt(va, x)), S1(BlockAt(vb, x))))
    BY DEF EqualHintsAccepted
  <2>2. HintInv
    BY <2>1 DEF HintPart
  <2>3. KnownAll(va) /\ KnownAll(vb) /\ lang \in Languages /\ accepted = Verified
    BY <2>1, <2>2 DEF HintInv
  <2>4. PICK s, t : Hints(va, s) = Hints(vb, t)
    BY <2>1, <2>2 DEF HintInv
  <2>5. lang # "C++" => ReconcileAlice(va) = ReconcileAlice(vb)
    BY <2>4 DEF Hints
  <2>6. CASE lang = "C"
    <3>1. ReconcileVerifyC(va, vb)
      BY <2>3, <2>5, <2>6, EqualHints, SameSigns DEF ReconcileVerifyC
    <3> QED BY <2>3, <2>6, <3>1 DEF Verified
  <2>7. CASE lang = "Rust"
    <3>1. ReconcileVerifyRust(va, vb) <=> ~ \E x \in Blocks :
            \/ ZeroAgainstLarge(S0(BlockAt(va, x)), S0(BlockAt(vb, x)))
            \/ ZeroAgainstLarge(S1(BlockAt(va, x)), S1(BlockAt(vb, x)))
      BY <2>3, <2>5, <2>7, EqualHints, SameSigns DEF ReconcileVerifyRust
    <3> QED BY <2>3, <2>7, <3>1 DEF Verified
  <2>8. CASE lang = "C++"
    <3>1. ReconcileVerifyCpp(va, vb)
      BY <2>4, <2>8, EqualHintsCpp DEF Hints
    <3> QED BY <2>3, <2>8, <3>1 DEF Verified
  <2> QED BY <2>3, <2>6, <2>7, <2>8 DEF Languages
<1> QED BY <1>1, HintInvariant, PTL
=============================================================================
