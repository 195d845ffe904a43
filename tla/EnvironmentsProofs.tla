------------------------- MODULE EnvironmentsProofs -------------------------
(***************************************************************************)
(* Theorems about environments (module Environments): whatever order their *)
(* names come in, the tree of an environment has one node for each name it *)
(* binds, and env_find and env_set come to that node.                      *)
(***************************************************************************)
EXTENDS Environments, SequenceTheorems, WellFoundedInduction, TLAPS

(* A set of numbers has a least one.                                       *)
LEMMA LeastNatural ==
    ASSUME NEW T, T \subseteq Nat, T # {}
    PROVE  \E x \in T : \A y \in T : x <= y
<1> DEFINE R == OpToRel(<, Nat)
<1>1. IsWellFoundedOn(R, Nat)
  BY NatLessThanWellFounded
<1>2. \A x, y \in Nat : y < x => <<y, x>> \in R
  BY DEF OpToRel
<1> HIDE DEF R
<1>3. PICK x \in T : \A y \in T : ~ (<<y, x>> \in R)
  BY <1>1, WFMin
<1>4. ASSUME NEW y \in T PROVE ~ (y < x)
  BY <1>2, <1>3, ZenonT(30)
<1> QED BY <1>4

-----------------------------------------------------------------------------
(* A walk from node to node that comes to an end.  rank bounds the steps   *)
(* that are left; WalkEnds(g, ..) says that g is where the walk from *)
(* each node ends.                                                         *)
Ranked(D, next, rank, b) ==
    /\ b \in Nat /\ 0 \notin D
    /\ \A n \in D : /\ next[n] \in D \cup {0} /\ rank[n] \in 0 .. b
                    /\ next[n] # 0 => rank[next[n]] < rank[n]

WalkEnds(g, D, next) ==
    /\ DOMAIN g = D /\ g = [n \in D |-> g[n]]
    /\ \A n \in D : g[n] = IF next[n] = 0 THEN n ELSE g[next[n]]

(* A walk whose rank falls at each step ends: there is a function to its   *)
(* ends.                                                                   *)
LEMMA WalkExists ==
    ASSUME NEW D, NEW next, NEW rank, NEW b, Ranked(D, next, rank, b)
    PROVE  \E g : WalkEnds(g, D, next)
<1> DEFINE Below(k) == {n \in D : rank[n] < k}
           Short(g, k) == /\ DOMAIN g = Below(k) /\ g = [n \in Below(k) |-> g[n]]
                          /\ \A n \in Below(k) : g[n] = IF next[n] = 0 THEN n ELSE g[next[n]]
           Bad == {k \in Nat : ~ \E g : Short(g, k)}
<1>1. \E g : Short(g, 0)
  <2> DEFINE g == [n \in Below(0) |-> 0]
  <2>1. Below(0) = {}
    BY DEF Ranked
  <2> HIDE DEF Below
  <2>2. Short(g, 0)
    BY <2>1
  <2> QED BY <2>2
<1>2. ASSUME NEW k \in Nat, NEW f, Short(f, k) PROVE \E g : Short(g, k + 1)
  <2> DEFINE g == [n \in Below(k + 1) |-> IF next[n] = 0 THEN n ELSE f[next[n]]]
  <2>1. ASSUME NEW n \in Below(k + 1), next[n] # 0
        PROVE  next[n] \in Below(k) /\ next[n] \in Below(k + 1)
    BY <2>1 DEF Ranked
  <2>2. ASSUME NEW n \in Below(k + 1), next[n] # 0 PROVE g[next[n]] = f[next[n]]
    <3>1. next[n] \in Below(k) /\ next[n] \in Below(k + 1)
      BY <2>1, <2>2
    <3> DEFINE m == next[n]
    <3>2. f[m] = IF next[m] = 0 THEN m ELSE f[next[m]]
      BY <1>2, <3>1
    <3> HIDE DEF Below, m
    <3>3. g[m] = IF next[m] = 0 THEN m ELSE f[next[m]]
      BY <3>1 DEF m
    <3> QED BY <3>2, <3>3 DEF m
  <2>3. Short(g, k + 1)
    <3> HIDE DEF Below
    <3>1. \A n \in Below(k + 1) : g[n] = IF next[n] = 0 THEN n ELSE f[next[n]]
      OBVIOUS
    <3>2. DOMAIN g = Below(k + 1) /\ g = [n \in Below(k + 1) |-> g[n]]
      OBVIOUS
    <3> HIDE DEF g
    <3> QED BY <2>2, <3>1, <3>2
  <2> QED BY <2>3
<1>3. Bad = {}
  <2> SUFFICES ASSUME Bad # {} PROVE FALSE
    OBVIOUS
  <2>1. PICK k \in Bad : \A j \in Bad : k <= j
    BY LeastNatural
  <2>2. k \in Nat /\ k # 0
    BY <1>1
  <2>3. k - 1 \in Nat /\ k - 1 \notin Bad /\ (k - 1) + 1 = k
    <3> HIDE DEF Bad
    <3> QED BY <2>1, <2>2
  <2> HIDE DEF Short
  <2>4. \E f : Short(f, k - 1)
    BY <2>3
  <2>5. \E g : Short(g, (k - 1) + 1)
    BY <1>2, <2>3, <2>4
  <2> QED BY <2>1, <2>3, <2>5
<1>4. b + 1 \in Nat /\ Below(b + 1) = D
  BY DEF Ranked
<1> HIDE DEF Below
<1>5. PICK g : Short(g, b + 1)
  BY <1>3, <1>4
<1>6. WalkEnds(g, D, next)
  BY <1>4, <1>5 DEF WalkEnds
<1> QED BY <1>6

(* Whatever holds of the last node of a walk, and at every other node if it*)
(* holds at the next one, holds at every node.                             *)
LEMMA WalkInduction ==
    ASSUME NEW D, NEW next, NEW rank, NEW b, Ranked(D, next, rank, b),
           NEW S, \A n \in D : (next[n] # 0 => next[n] \in S) => n \in S
    PROVE  D \subseteq S
<1> SUFFICES ASSUME D \ S # {} PROVE FALSE
  OBVIOUS
<1> DEFINE Ranks == {rank[n] : n \in D \ S}
<1>1. Ranks \subseteq Nat /\ Ranks # {}
  BY DEF Ranked
<1>2. PICK k \in Ranks : \A j \in Ranks : k <= j
  BY <1>1, LeastNatural
<1>3. PICK n \in D \ S : rank[n] = k
  BY <1>2
<1>4. next[n] # 0 /\ next[n] \in D \ S
  BY <1>3 DEF Ranked
<1>5. rank[next[n]] \in Ranks /\ rank[next[n]] < k /\ rank[next[n]] \in Nat /\ k \in Nat
  BY <1>3, <1>4 DEF Ranked
<1> HIDE DEF Ranks
<1> QED BY <1>2, <1>5

(* And just one.                                                           *)
LEMMA WalkUnique ==
    ASSUME NEW D, NEW next, NEW rank, NEW b, Ranked(D, next, rank, b),
           NEW f, NEW g, WalkEnds(f, D, next), WalkEnds(g, D, next)
    PROVE  f = g
<1> DEFINE S == {n \in D : f[n] = g[n]}
<1>1. \A n \in D : (next[n] # 0 => next[n] \in S) => n \in S
  BY DEF WalkEnds
<1> HIDE DEF S
<1>2. D \subseteq S
  BY <1>1, WalkInduction
<1> QED BY <1>2 DEF WalkEnds, S

(* A walk ends where there is no next node.                                *)
LEMMA WalkStops ==
    ASSUME NEW D, NEW next, NEW rank, NEW b, Ranked(D, next, rank, b),
           NEW g, WalkEnds(g, D, next)
    PROVE  \A n \in D : g[n] \in D /\ next[g[n]] = 0
<1> DEFINE S == {n \in D : g[n] \in D /\ next[g[n]] = 0}
<1>1. \A n \in D : (next[n] # 0 => next[n] \in S) => n \in S
  BY DEF WalkEnds
<1> HIDE DEF S
<1>2. D \subseteq S
  BY <1>1, WalkInduction
<1> QED BY <1>2 DEF S

(* A new last node w: some walks that ended at p go on to it.              *)
Longer(D, next, rank, b, g, w, next2, rank2, b2, h, p) ==
    /\ Ranked(D, next, rank, b) /\ WalkEnds(g, D, next)
    /\ Ranked(D \cup {w}, next2, rank2, b2) /\ WalkEnds(h, D \cup {w}, next2)
    /\ w \notin D /\ w # 0 /\ next2[w] = 0
    /\ \A n \in D : next2[n] = next[n] \/ (n = p /\ next[n] = 0 /\ next2[n] = w)

(* When the end p of a walk is led on to a new node w, just the walks that *)
(* ended at p now end at w.                                                *)
LEMMA WalkGrows ==
    ASSUME NEW D, NEW next, NEW rank, NEW b, NEW g, NEW w, NEW next2, NEW rank2, NEW b2, NEW h,
           NEW p, Longer(D, next, rank, b, g, w, next2, rank2, b2, h, p)
    PROVE  h[w] = w /\ \A n \in D : h[n] = IF g[n] = p /\ next2[p] = w THEN w ELSE g[n]
<1> USE DEF Longer
<1> DEFINE S == {n \in D : h[n] = IF g[n] = p /\ next2[p] = w THEN w ELSE g[n]}
<1>1. h[w] = w
  BY DEF WalkEnds
<1>2. ASSUME NEW n \in D, next[n] # 0 => next[n] \in S PROVE n \in S
  <2>1. CASE next[n] # 0
    <3>1. next2[n] = next[n]
      BY <2>1
    <3>2. g[n] = g[next[n]] /\ h[n] = h[next[n]]
      BY <2>1, <3>1 DEF WalkEnds
    <3> QED BY <1>2, <2>1, <3>2
  <2>2. CASE next[n] = 0
    <3>1. g[n] = n
      BY <2>2 DEF WalkEnds
    <3>2. CASE next2[n] = 0
      <4>1. h[n] = n
        BY <3>2 DEF WalkEnds
      <4> QED BY <3>1, <3>2, <4>1
    <3>3. CASE next2[n] # 0
      <4>1. n = p /\ next2[n] = w
        BY <2>2, <3>3
      <4>2. h[n] = h[w]
        BY <3>3, <4>1 DEF WalkEnds
      <4> QED BY <1>1, <3>1, <4>1, <4>2
    <3> QED BY <3>2, <3>3
  <2> QED BY <2>1, <2>2
<1> HIDE DEF S
<1>3. D \subseteq S
  BY <1>2, WalkInduction
<1> QED BY <1>1, <1>3 DEF S

-----------------------------------------------------------------------------
(* The shape of a heap of environments: a child is younger than its parent,*)
(* and an environment than the one it leads to.                            *)
Shape(H, W, V) ==
    /\ H = [envs |-> H.envs, nodes |-> H.nodes]
    /\ H.envs \in Seq([root : Nat, last : Nat])
    /\ H.nodes \in Seq([key : W, value : V, left : Nat, right : Nat])
    /\ \A e \in 1 .. Len(H.envs) : H.envs[e].root <= Len(H.nodes) /\ H.envs[e].last < e
    /\ \A n \in 1 .. Len(H.nodes) :
            /\ H.nodes[n].left = 0 \/ (n < H.nodes[n].left /\ H.nodes[n].left <= Len(H.nodes))
            /\ H.nodes[n].right = 0 \/ (n < H.nodes[n].right /\ H.nodes[n].right <= Len(H.nodes))

(* What Shape says of the types of the parts of a heap.                    *)
LEMMA ShapeFacts ==
    ASSUME NEW H, NEW W, NEW V, Shape(H, W, V)
    PROVE  /\ Len(H.nodes) \in Nat /\ DOMAIN H.nodes = 1 .. Len(H.nodes)
           /\ Len(H.envs) \in Nat /\ DOMAIN H.envs = 1 .. Len(H.envs)
           /\ \A n \in 1 .. Len(H.nodes) :
                    /\ H.nodes[n] \in [key : W, value : V, left : Nat, right : Nat]
                    /\ H.nodes[n].key \in W /\ H.nodes[n].value \in V
                    /\ H.nodes[n].left \in Nat /\ H.nodes[n].right \in Nat
           /\ \A e \in 1 .. Len(H.envs) :
                    /\ H.envs[e] \in [root : Nat, last : Nat]
                    /\ H.envs[e].root \in Nat /\ H.envs[e].last \in Nat
<1>1. /\ Len(H.nodes) \in Nat /\ DOMAIN H.nodes = 1 .. Len(H.nodes)
      /\ Len(H.envs) \in Nat /\ DOMAIN H.envs = 1 .. Len(H.envs)
  BY LenProperties DEF Shape
<1>2. \A n \in 1 .. Len(H.nodes) : H.nodes[n] \in [key : W, value : V, left : Nat, right : Nat]
  BY ElementOfSeq DEF Shape
<1>3. \A e \in 1 .. Len(H.envs) : H.envs[e] \in [root : Nat, last : Nat]
  BY ElementOfSeq DEF Shape
<1> QED BY <1>1, <1>2, <1>3

(* What it says of the pointers: each leads to a node, and on to younger   *)
(* nodes, so that no search goes round (env.c:12-71).                      *)
LEMMA Pointers ==
    ASSUME NEW H, NEW W, NEW V, Shape(H, W, V)
    PROVE  /\ \A e \in 1 .. Len(H.envs) :
                /\ H.envs[e].root # 0 => H.envs[e].root \in 1 .. Len(H.nodes)
                /\ H.envs[e].last \in 0 .. e - 1
           /\ \A n \in 1 .. Len(H.nodes) :
                /\ H.nodes[n].left # 0 => H.nodes[n].left \in n + 1 .. Len(H.nodes)
                /\ H.nodes[n].left # 0 => H.nodes[n].left \in 1 .. Len(H.nodes)
                /\ H.nodes[n].right # 0 => H.nodes[n].right \in n + 1 .. Len(H.nodes)
                /\ H.nodes[n].right # 0 => H.nodes[n].right \in 1 .. Len(H.nodes)
<1>1. ASSUME NEW e \in 1 .. Len(H.envs)
      PROVE  /\ H.envs[e].root # 0 => H.envs[e].root \in 1 .. Len(H.nodes)
             /\ H.envs[e].last \in 0 .. e - 1
  <2>1. H.envs[e].root \in Nat /\ H.envs[e].last \in Nat /\ Len(H.nodes) \in Nat
    BY ShapeFacts
  <2>2. H.envs[e].root <= Len(H.nodes) /\ H.envs[e].last < e
    BY DEF Shape
  <2> QED BY <2>1, <2>2
<1>2. ASSUME NEW n \in 1 .. Len(H.nodes)
      PROVE  /\ H.nodes[n].left # 0 => H.nodes[n].left \in n + 1 .. Len(H.nodes)
             /\ H.nodes[n].left # 0 => H.nodes[n].left \in 1 .. Len(H.nodes)
             /\ H.nodes[n].right # 0 => H.nodes[n].right \in n + 1 .. Len(H.nodes)
             /\ H.nodes[n].right # 0 => H.nodes[n].right \in 1 .. Len(H.nodes)
  <2>1. H.nodes[n].left \in Nat /\ H.nodes[n].right \in Nat /\ Len(H.nodes) \in Nat
    BY ShapeFacts
  <2>2. /\ H.nodes[n].left = 0 \/ (n < H.nodes[n].left /\ H.nodes[n].left <= Len(H.nodes))
        /\ H.nodes[n].right = 0 \/ (n < H.nodes[n].right /\ H.nodes[n].right <= Len(H.nodes))
    BY DEF Shape
  <2> QED BY <2>1, <2>2
<1> QED BY <1>1, <1>2

(* The walk of the search for key, and where it ends.                      *)
Seek(H, key) == [n \in 1 .. Len(H.nodes) |-> IF H.nodes[n].key = key THEN 0 ELSE turn(H, n, key)]

Height(H) == [n \in 1 .. Len(H.nodes) |-> Len(H.nodes) - n]

Stop(H, key) ==
    LET at[n \in 1 .. Len(H.nodes)] ==
            IF H.nodes[n].key = key \/ turn(H, n, key) = 0 THEN n ELSE at[turn(H, n, key)]
    IN  at

(* So every search is a walk that ends.                                    *)
LEMMA SeekRanked ==
    ASSUME NEW H, NEW W, NEW V, Shape(H, W, V), NEW key
    PROVE  Ranked(1 .. Len(H.nodes), Seek(H, key), Height(H), Len(H.nodes))
<1> DEFINE D == 1 .. Len(H.nodes)
<1>1. Len(H.nodes) \in Nat
  BY ShapeFacts
<1>2. ASSUME NEW n \in D
      PROVE  /\ Seek(H, key)[n] = 0 \/ (n < Seek(H, key)[n] /\ Seek(H, key)[n] \in D)
             /\ Height(H)[n] = Len(H.nodes) - n
  <2>1. turn(H, n, key) = H.nodes[n].left \/ turn(H, n, key) = H.nodes[n].right
    BY DEF turn
  <2>2. turn(H, n, key) = 0 \/ (n < turn(H, n, key) /\ turn(H, n, key) \in D)
    BY <1>1, <2>1, Pointers
  <2> QED BY <2>2 DEF Seek, Height
<1>3. \A n \in D : Seek(H, key)[n] # 0 => Height(H)[Seek(H, key)[n]] = Len(H.nodes) - Seek(H, key)[n]
  BY <1>2
<1>4. ASSUME NEW n \in D
      PROVE  /\ Seek(H, key)[n] \in D \cup {0} /\ Height(H)[n] \in 0 .. Len(H.nodes)
             /\ Seek(H, key)[n] # 0 => Height(H)[Seek(H, key)[n]] < Height(H)[n]
  BY <1>1, <1>2, <1>3
<1> QED BY <1>1, <1>4 DEF Ranked

(* Stop is where it ends.                                                  *)
LEMMA StopEnds ==
    ASSUME NEW H, NEW W, NEW V, Shape(H, W, V), NEW key
    PROVE  WalkEnds(Stop(H, key), 1 .. Len(H.nodes), Seek(H, key))
<1> DEFINE D == 1 .. Len(H.nodes)
           Is(g) == g = [n \in D |-> IF H.nodes[n].key = key \/ turn(H, n, key) = 0 THEN n
                                     ELSE g[turn(H, n, key)]]
<1>1. PICK g : WalkEnds(g, D, Seek(H, key))
  BY SeekRanked, WalkExists
<1>2. Is(g)
  BY <1>1 DEF WalkEnds, Seek
<1>3. Stop(H, key) = CHOOSE f : Is(f)
  BY DEF Stop
<1>4. Is(Stop(H, key))
  BY <1>2, <1>3
<1> QED BY <1>4 DEF WalkEnds, Seek

(* env_set's loop and env_find's walk to the same node.                    *)
LEMMA FindIsStop ==
    ASSUME NEW H, NEW W, NEW V, Shape(H, W, V), NEW e \in 1 .. Len(H.envs), NEW key
    PROVE  LET r == H.envs[e].root
               m == Stop(H, key)[r]
           IN  /\ env_last(H, e, key) = m
               /\ r # 0 => /\ m \in 1 .. Len(H.nodes)
                           /\ H.nodes[m].key = key \/ turn(H, m, key) = 0
               /\ env_find(H, e, key) = IF r # 0 /\ H.nodes[m].key = key THEN m ELSE 0
<1> DEFINE D == 1 .. Len(H.nodes)
           g == Stop(H, key)
           r == H.envs[e].root
           Is(a) == a = [n \in 0 .. Len(H.nodes) |->
                            IF n = 0 \/ H.nodes[n].key = key THEN n ELSE a[turn(H, n, key)]]
           f == [n \in 0 .. Len(H.nodes) |->
                    IF n = 0 THEN 0 ELSE IF H.nodes[g[n]].key = key THEN g[n] ELSE 0]
           at == CHOOSE a : Is(a)
<1>1. Len(H.nodes) \in Nat /\ r \in 0 .. Len(H.nodes)
  <2>1. Len(H.nodes) \in Nat /\ r \in Nat
    BY ShapeFacts
  <2>2. r <= Len(H.nodes)
    BY DEF Shape
  <2> QED BY <2>1, <2>2
<1>2. env_last(H, e, key) = g[r]
  BY DEF env_last, Stop
<1>3. env_find(H, e, key) = at[r]
  BY DEF env_find
<1>4. Ranked(D, Seek(H, key), Height(H), Len(H.nodes)) /\ WalkEnds(g, D, Seek(H, key))
  BY SeekRanked, StopEnds
<1>5. \A n \in D : /\ g[n] \in D /\ Seek(H, key)[g[n]] = 0
                   /\ Seek(H, key)[n] = IF H.nodes[n].key = key THEN 0 ELSE turn(H, n, key)
                   /\ Seek(H, key)[n] \in D \cup {0}
                   /\ g[n] = IF Seek(H, key)[n] = 0 THEN n ELSE g[Seek(H, key)[n]]
  <2>1. \A n \in D : g[n] \in D /\ Seek(H, key)[g[n]] = 0
    BY <1>4, WalkStops
  <2> QED BY <1>4, <2>1 DEF WalkEnds, Seek, Ranked
<1> HIDE DEF g
<1>6. Is(f)
  <2>1. ASSUME NEW n \in D, H.nodes[n].key = key PROVE f[n] = n
    BY <1>5, <2>1
  <2>2. ASSUME NEW n \in D, H.nodes[n].key # key
        PROVE  f[n] = f[turn(H, n, key)]
    <3>1. Seek(H, key)[n] = turn(H, n, key)
      BY <1>5, <2>2
    <3>2. CASE turn(H, n, key) = 0
      <4>1. g[n] = n /\ f[0] = 0
        BY <1>1, <1>5, <3>1, <3>2
      <4> QED BY <1>1, <2>2, <3>2, <4>1
    <3>3. CASE turn(H, n, key) # 0
      <4>1. turn(H, n, key) \in D /\ g[n] = g[turn(H, n, key)]
        BY <1>5, <3>1, <3>3
      <4> QED BY <1>1, <4>1
    <3> QED BY <3>2, <3>3
  <2>3. f[0] = 0 /\ f = [n \in 0 .. Len(H.nodes) |-> f[n]]
    BY <1>1
  <2>4. \A n \in 0 .. Len(H.nodes) : n = 0 \/ n \in D
    BY <1>1
  <2> HIDE DEF f
  <2>5. \A n \in 0 .. Len(H.nodes) :
            f[n] = IF n = 0 \/ H.nodes[n].key = key THEN n ELSE f[turn(H, n, key)]
    BY <2>1, <2>2, <2>3, <2>4
  <2> QED BY <2>3, <2>5
<1>7. Is(at)
  BY <1>6
<1> DEFINE S == {n \in D : at[n] = IF H.nodes[g[n]].key = key THEN g[n] ELSE 0}
<1>8. ASSUME NEW n \in D, Seek(H, key)[n] # 0 => Seek(H, key)[n] \in S PROVE n \in S
  <2>1. /\ at[n] = IF H.nodes[n].key = key THEN n ELSE at[turn(H, n, key)]
        /\ at[0] = 0
    <3>1. n \in 0 .. Len(H.nodes) /\ n # 0 /\ 0 \in 0 .. Len(H.nodes)
      BY <1>1
    <3> HIDE DEF at
    <3> QED BY <1>7, <3>1
  <2> HIDE DEF at
  <2>2. CASE H.nodes[n].key = key
    BY <1>5, <2>1, <2>2
  <2>3. CASE H.nodes[n].key # key /\ turn(H, n, key) = 0
    <3>1. g[n] = n
      BY <1>5, <2>3
    <3> QED BY <2>1, <2>3, <3>1
  <2>4. CASE H.nodes[n].key # key /\ turn(H, n, key) # 0
    <3>1. Seek(H, key)[n] = turn(H, n, key) /\ g[n] = g[turn(H, n, key)] /\ turn(H, n, key) \in S
      BY <1>5, <1>8, <2>4
    <3> QED BY <2>1, <2>4, <3>1
  <2> QED BY <2>2, <2>3, <2>4
<1> HIDE DEF S
<1>9. D \subseteq S
  BY <1>4, <1>8, WalkInduction
<1>10. at[0] = 0
  <2>1. 0 \in 0 .. Len(H.nodes)
    BY <1>1
  <2> HIDE DEF at
  <2> QED BY <1>7, <2>1
<1> HIDE DEF at
<1>11. env_find(H, e, key) = IF r # 0 /\ H.nodes[g[r]].key = key THEN g[r] ELSE 0
  <2>1. r = 0 \/ r \in D
    BY <1>1
  <2> QED BY <1>3, <1>9, <1>10, <2>1 DEF S
<1>12. r # 0 => g[r] \in D /\ (H.nodes[g[r]].key = key \/ turn(H, g[r], key) = 0)
  <2>1. r # 0 => r \in D
    BY <1>1
  <2> QED BY <1>5, <2>1
<1> QED BY <1>2, <1>11, <1>12 DEF g

-----------------------------------------------------------------------------
(* own is the environment each node belongs to: that of its parent, or the *)
(* one it is the root of.  The search for its name from there ends at it.  *)
Owned(H, own) ==
    /\ \A n \in 1 .. Len(H.nodes) :
            own[n] \in 1 .. Len(H.envs) /\ H.envs[own[n]].root \in 1 .. Len(H.nodes)
    /\ \A e \in 1 .. Len(H.envs) : H.envs[e].root # 0 => own[H.envs[e].root] = e
    /\ \A n \in 1 .. Len(H.nodes) :
            /\ H.nodes[n].left # 0 => own[H.nodes[n].left] = own[n]
            /\ H.nodes[n].right # 0 => own[H.nodes[n].right] = own[n]
            /\ \/ n = H.envs[own[n]].root
               \/ \E p \in 1 .. n - 1 : own[p] = own[n] /\ n \in {H.nodes[p].left, H.nodes[p].right}
    /\ \A n \in 1 .. Len(H.nodes) : Stop(H, H.nodes[n].key)[H.envs[own[n]].root] = n

(* A search does not leave the environment it started in.                  *)
LEMMA StopOwned ==
    ASSUME NEW H, NEW W, NEW V, Shape(H, W, V), NEW own, Owned(H, own), NEW key,
           NEW n \in 1 .. Len(H.nodes)
    PROVE  own[Stop(H, key)[n]] = own[n]
<1> DEFINE D == 1 .. Len(H.nodes)
           g == Stop(H, key)
           S == {m \in D : own[g[m]] = own[m]}
<1>1. Ranked(D, Seek(H, key), Height(H), Len(H.nodes)) /\ WalkEnds(g, D, Seek(H, key))
  BY SeekRanked, StopEnds
<1> HIDE DEF g
<1>2. ASSUME NEW m \in D, Seek(H, key)[m] # 0 => Seek(H, key)[m] \in S PROVE m \in S
  <2>1. CASE Seek(H, key)[m] = 0
    <3>1. g[m] = m
      BY <1>1, <2>1 DEF WalkEnds
    <3> QED BY <3>1
  <2>2. CASE Seek(H, key)[m] # 0
    <3>1. g[m] = g[Seek(H, key)[m]]
      BY <1>1, <2>2 DEF WalkEnds
    <3>2. Seek(H, key)[m] \in {H.nodes[m].left, H.nodes[m].right}
      BY <2>2 DEF Seek, turn
    <3>3. own[Seek(H, key)[m]] = own[m]
      BY <2>2, <3>2 DEF Owned
    <3> QED BY <1>2, <2>2, <3>1, <3>3
  <2> QED BY <2>1, <2>2
<1> HIDE DEF S
<1>3. D \subseteq S
  BY <1>1, <1>2, WalkInduction
<1> QED BY <1>3 DEF S, g

(* env_find finds the node of an environment with the name it looks for,   *)
(* if there is one.                                                        *)
LEMMA FindOwned ==
    ASSUME NEW H, NEW W, NEW V, Shape(H, W, V), NEW own, Owned(H, own),
           NEW e \in 1 .. Len(H.envs), NEW key
    PROVE  /\ env_find(H, e, key) # 0 =>
                /\ env_find(H, e, key) \in 1 .. Len(H.nodes) /\ own[env_find(H, e, key)] = e
                /\ H.nodes[env_find(H, e, key)].key = key
           /\ \A n \in 1 .. Len(H.nodes) :
                own[n] = e /\ H.nodes[n].key = key => env_find(H, e, key) = n
<1> DEFINE r == H.envs[e].root
           m == Stop(H, key)[r]
<1>1. /\ r # 0 => m \in 1 .. Len(H.nodes)
      /\ env_find(H, e, key) = IF r # 0 /\ H.nodes[m].key = key THEN m ELSE 0
  BY FindIsStop
<1>2. r # 0 => r \in 1 .. Len(H.nodes)
  BY Pointers
<1>3. r # 0 => own[m] = e
  <2>1. r # 0 => own[r] = e
    BY DEF Owned
  <2> QED BY <1>2, <2>1, StopOwned
<1>4. ASSUME NEW n \in 1 .. Len(H.nodes), own[n] = e, H.nodes[n].key = key
      PROVE  env_find(H, e, key) = n
  <2>1. m = n /\ r # 0
    <3>1. \A x \in 1 .. Len(H.nodes) : x # 0
      OBVIOUS
    <3> QED BY <1>4, <3>1 DEF Owned
  <2> QED BY <1>1, <1>4, <2>1
<1> HIDE DEF m
<1> QED BY <1>1, <1>3, <1>4

(* A node becomes the root of an empty environment, or the child of the    *)
(* node where the search for its name ended.                               *)
Grows(H, S, e, p, key) ==
    LET new == Len(H.nodes) + 1
        Kept(old, now, n) == now = old \/ (n = p /\ old = 0 /\ now = new)
    IN  /\ Len(S.nodes) = new /\ Len(S.envs) = Len(H.envs)
        /\ S.nodes[new].key = key /\ S.nodes[new].left = 0 /\ S.nodes[new].right = 0
        /\ \A n \in 1 .. Len(H.nodes) :
                /\ S.nodes[n].key = H.nodes[n].key
                /\ Kept(H.nodes[n].left, S.nodes[n].left, n)
                /\ Kept(H.nodes[n].right, S.nodes[n].right, n)
        /\ \A f \in 1 .. Len(H.envs) :
                \/ S.envs[f].root = H.envs[f].root
                \/ f = e /\ H.envs[f].root = 0 /\ S.envs[f].root = new
        /\ \/ H.envs[e].root = 0 /\ S.envs[e].root = new /\ p = 0
           \/ /\ H.envs[e].root # 0 /\ p = Stop(H, key)[H.envs[e].root]
              /\ H.nodes[p].key # key /\ turn(S, p, key) = new

Owner(H, own, e) == [n \in 1 .. Len(H.nodes) + 1 |-> IF n = Len(H.nodes) + 1 THEN e ELSE own[n]]

(* What a new leaf changes of the searches (env.c:12-38): one that stopped *)
(* at its parent and would turn to its side stops at the leaf.             *)
LEMMA LeafStops ==
    ASSUME NEW H, NEW W, NEW V, Shape(H, W, V), NEW S, Shape(S, W, V),
           NEW e, NEW p, NEW key, Grows(H, S, e, p, key), NEW k
    PROVE  LET new == Len(H.nodes) + 1
           IN  /\ Stop(S, k)[new] = new
               /\ \A n \in 1 .. Len(H.nodes) :
                    Stop(S, k)[n] = IF Stop(H, k)[n] = p /\ Seek(S, k)[p] = new THEN new
                                    ELSE Stop(H, k)[n]
<1> DEFINE D == 1 .. Len(H.nodes)
           new == Len(H.nodes) + 1
<1>1. Len(H.nodes) \in Nat /\ Len(S.nodes) = new
  BY ShapeFacts DEF Grows
<1>2. new \notin D /\ new # 0 /\ 1 .. Len(S.nodes) = D \cup {new}
  BY <1>1
<1>3. Ranked(D, Seek(H, k), Height(H), Len(H.nodes)) /\ WalkEnds(Stop(H, k), D, Seek(H, k))
  BY SeekRanked, StopEnds
<1>4. /\ Ranked(D \cup {new}, Seek(S, k), Height(S), Len(S.nodes))
      /\ WalkEnds(Stop(S, k), D \cup {new}, Seek(S, k))
  BY <1>2, SeekRanked, StopEnds
<1>5. Seek(S, k)[new] = 0
  BY <1>2 DEF Seek, Grows, turn
<1>6. \A n \in D : \/ Seek(S, k)[n] = Seek(H, k)[n]
                   \/ n = p /\ Seek(H, k)[n] = 0 /\ Seek(S, k)[n] = new
  BY <1>2 DEF Seek, Grows, turn
<1> HIDE DEF D, new
<1> DEFINE gs == Stop(S, k)
           gh == Stop(H, k)
           ss == Seek(S, k)
           sh == Seek(H, k)
           hs == Height(S)
           hh == Height(H)
           ls == Len(S.nodes)
           lh == Len(H.nodes)
<1>7. Longer(D, sh, hh, lh, gh, new, ss, hs, ls, gs, p)
  BY <1>2, <1>3, <1>4, <1>5, <1>6 DEF Longer
<1> HIDE DEF gs, gh, ss, sh, hs, hh, ls, lh
<1>8. gs[new] = new /\ \A n \in D : gs[n] = IF gh[n] = p /\ ss[p] = new THEN new ELSE gh[n]
  BY <1>7, WalkGrows
<1> QED BY <1>8 DEF gs, gh, ss, D, new

(* A heap that grows by a leaf where the search for its key stopped is     *)
(* still one where every search finds what is there.                       *)
LEMMA LeafOwned ==
    ASSUME NEW H, NEW W, NEW V, Shape(H, W, V), NEW own, Owned(H, own), NEW S, Shape(S, W, V),
           NEW e \in 1 .. Len(H.envs), NEW p, NEW key, Grows(H, S, e, p, key)
    PROVE  Owned(S, Owner(H, own, e))
<1> DEFINE D == 1 .. Len(H.nodes)
           new == Len(H.nodes) + 1
           own2 == Owner(H, own, e)
           root(f) == H.envs[f].root
<1>1. Len(H.nodes) \in Nat /\ Len(S.nodes) = new /\ Len(S.envs) = Len(H.envs)
  BY ShapeFacts DEF Grows
<1>2. new \notin D /\ new # 0 /\ 1 .. Len(S.nodes) = D \cup {new}
  BY <1>1
<1>3. own2[new] = e /\ \A n \in D : own2[n] = own[n]
  <2>1. DOMAIN own2 = D \cup {new}
    BY <1>1, <1>2 DEF Owner
  <2> QED BY <1>2, <2>1 DEF Owner
<1>4. /\ Stop(S, key)[new] = new
      /\ \A k : \A n \in D : Stop(S, k)[n] = IF Stop(H, k)[n] = p /\ Seek(S, k)[p] = new THEN new
                                             ELSE Stop(H, k)[n]
  BY LeafStops
<1>5. root(e) # 0 => root(e) \in D /\ p \in D /\ own[p] = e
  <2> SUFFICES ASSUME root(e) # 0 PROVE root(e) \in D /\ p \in D /\ own[p] = e
    OBVIOUS
  <2>2. root(e) \in D
    BY Pointers
  <2>3. own[root(e)] = e
    BY DEF Owned
  <2>4. p = Stop(H, key)[root(e)]
    BY <1>2 DEF Grows
  <2>5. p \in D
    BY <2>4, FindIsStop
  <2>6. own[p] = own[root(e)]
    BY <2>2, <2>4, StopOwned
  <2> QED BY <2>2, <2>3, <2>5, <2>6
<1>6. /\ \A f \in 1 .. Len(H.envs) : root(f) # 0 => S.envs[f].root = root(f)
      /\ S.envs[e].root \in 1 .. Len(S.nodes)
  BY <1>1, <1>2, <1>5 DEF Grows
<1>7. \A n \in D : own[n] \in 1 .. Len(H.envs) /\ root(own[n]) \in D /\ root(own[n]) # 0
  BY <1>2 DEF Owned
<1> HIDE DEF own2
<1>8. ASSUME NEW n \in 1 .. Len(S.nodes)
      PROVE  own2[n] \in 1 .. Len(S.envs) /\ S.envs[own2[n]].root \in 1 .. Len(S.nodes)
  <2>1. CASE n = new
    BY <1>1, <1>3, <1>6, <2>1
  <2>2. CASE n \in D
    BY <1>1, <1>2, <1>3, <1>6, <1>7, <2>2
  <2> QED BY <1>2, <2>1, <2>2
<1>9. ASSUME NEW f \in 1 .. Len(S.envs), S.envs[f].root # 0 PROVE own2[S.envs[f].root] = f
  <2>1. CASE S.envs[f].root = root(f)
    <3>1. own[root(f)] = f
      BY <1>1, <1>9, <2>1 DEF Owned
    <3>2. root(f) \in D
      BY <1>1, <1>9, <2>1, Pointers
    <3> QED BY <1>3, <2>1, <3>1, <3>2
  <2>2. CASE f = e /\ S.envs[f].root = new
    BY <1>3, <2>2
  <2> QED BY <1>1, <2>1, <2>2 DEF Grows
<1>10. ASSUME NEW n \in D, NEW old, NEW now, old # 0 => own[old] = own[n] /\ old \in D,
              now = old \/ (n = p /\ old = 0 /\ now = new)
       PROVE  now # 0 => own2[now] = own2[n]
  <2>1. CASE now = old
    BY <1>3, <1>10, <2>1
  <2>2. CASE n = p /\ now = new
    <3>1. root(e) # 0
      BY <1>2, <2>2 DEF Grows
    <3> QED BY <1>3, <1>5, <2>2, <3>1
  <2> QED BY <1>10, <2>1, <2>2
<1>11. ASSUME NEW n \in 1 .. Len(S.nodes)
       PROVE  /\ S.nodes[n].left # 0 => own2[S.nodes[n].left] = own2[n]
              /\ S.nodes[n].right # 0 => own2[S.nodes[n].right] = own2[n]
  <2>1. CASE n = new
    BY <2>1 DEF Grows
  <2>2. CASE n \in D
    <3>1. /\ H.nodes[n].left # 0 => own[H.nodes[n].left] = own[n]
          /\ H.nodes[n].right # 0 => own[H.nodes[n].right] = own[n]
      BY <2>2 DEF Owned
    <3>2. /\ H.nodes[n].left # 0 => H.nodes[n].left \in D
          /\ H.nodes[n].right # 0 => H.nodes[n].right \in D
      BY <2>2, Pointers
    <3>3. /\ \/ S.nodes[n].left = H.nodes[n].left
             \/ n = p /\ H.nodes[n].left = 0 /\ S.nodes[n].left = new
          /\ \/ S.nodes[n].right = H.nodes[n].right
             \/ n = p /\ H.nodes[n].right = 0 /\ S.nodes[n].right = new
      BY <2>2 DEF Grows
    <3> HIDE DEF D, new
    <3> QED BY <1>10, <2>2, <3>1, <3>2, <3>3
  <2> QED BY <1>2, <2>1, <2>2
<1>12. ASSUME NEW n \in 1 .. Len(S.nodes)
       PROVE  \/ n = S.envs[own2[n]].root
              \/ \E q \in 1 .. n - 1 : own2[q] = own2[n] /\ n \in {S.nodes[q].left, S.nodes[q].right}
  <2>1. CASE n = new /\ root(e) = 0
    BY <1>3, <2>1 DEF Grows
  <2>2. CASE n = new /\ root(e) # 0
    <3>1. turn(S, p, key) = new /\ p \in D /\ own[p] = e
      BY <1>5, <2>2 DEF Grows
    <3>2. p \in 1 .. n - 1 /\ own2[p] = own2[n] /\ n \in {S.nodes[p].left, S.nodes[p].right}
      BY <1>1, <1>3, <2>2, <3>1 DEF turn
    <3> QED BY <3>2
  <2>3. CASE n \in D /\ n = root(own[n])
    BY <1>3, <1>6, <1>7, <2>3
  <2>4. CASE n \in D /\ \E q \in 1 .. n - 1 : own[q] = own[n] /\ n \in {H.nodes[q].left, H.nodes[q].right}
    <3>1. PICK q \in 1 .. n - 1 : own[q] = own[n] /\ n \in {H.nodes[q].left, H.nodes[q].right}
      BY <2>4
    <3>2. q \in D /\ n # 0
      BY <1>1, <2>4, <3>1
    <3>3. n \in {S.nodes[q].left, S.nodes[q].right}
      BY <3>1, <3>2 DEF Grows
    <3> QED BY <1>3, <2>4, <3>1, <3>2, <3>3
  <2> QED BY <1>2, <2>1, <2>2, <2>3, <2>4 DEF Owned
<1>13. ASSUME NEW n \in 1 .. Len(S.nodes)
       PROVE  Stop(S, S.nodes[n].key)[S.envs[own2[n]].root] = n
  <2>1. CASE n = new
    <3>1. S.nodes[n].key = key /\ own2[n] = e
      BY <1>3, <2>1 DEF Grows
    <3>2. CASE root(e) = 0
      BY <1>4, <2>1, <3>1, <3>2 DEF Grows
    <3>3. CASE root(e) # 0
      <4>1. /\ Stop(H, key)[root(e)] = p /\ S.envs[e].root = root(e) /\ root(e) \in D /\ p \in D
            /\ turn(S, p, key) = new /\ S.nodes[p].key # key
        BY <1>2, <1>5, <1>6, <3>3 DEF Grows
      <4>2. Seek(S, key)[p] = new
        BY <1>2, <4>1 DEF Seek
      <4> QED BY <1>4, <2>1, <3>1, <4>1, <4>2
    <3> QED BY <3>2, <3>3
  <2>2. CASE n \in D
    <3> DEFINE k == H.nodes[n].key
               r == root(own[n])
    <3>1. S.nodes[n].key = k /\ S.envs[own2[n]].root = r /\ r \in D /\ Stop(H, k)[r] = n
      BY <1>3, <1>6, <1>7, <2>2 DEF Grows, Owned
    <3>2. n = p => Seek(S, k)[p] = 0
      BY <1>2, <2>2, <3>1 DEF Seek
    <3> HIDE DEF k, r
    <3> QED BY <1>2, <1>4, <3>1, <3>2
  <2> QED BY <1>2, <2>1, <2>2
<1> QED BY <1>8, <1>9, <1>11, <1>12, <1>13 DEF Owned, own2

-----------------------------------------------------------------------------
(* What env_set does: of the nodes of the environment e just one has the   *)
(* name key, and it has the value v; every other node is as it was.        *)
Sets(H, own, S, own2, e, key, v) ==
    /\ Len(S.envs) = Len(H.envs) /\ \A f \in 1 .. Len(H.envs) : S.envs[f].last = H.envs[f].last
    /\ Len(H.nodes) <= Len(S.nodes)
    /\ \A n \in 1 .. Len(H.nodes) : own2[n] = own[n] /\ S.nodes[n].key = H.nodes[n].key
    /\ \E m \in 1 .. Len(S.nodes) :
            /\ own2[m] = e /\ S.nodes[m].key = key /\ S.nodes[m].value = v
            /\ \A n \in 1 .. Len(S.nodes) :
                    n # m => n \in 1 .. Len(H.nodes) /\ S.nodes[n].value = H.nodes[n].value

(* A node of the environment gets a value.                                 *)
Valued(H, S, m, v) ==
    /\ S = [envs |-> S.envs, nodes |-> S.nodes] /\ S.envs = H.envs
    /\ S.nodes = [H.nodes EXCEPT ![m].value = v]

(* A node that is given another value (env.c:12-38).                       *)
LEMMA ValueSet ==
    ASSUME NEW H, NEW W, NEW V, Shape(H, W, V), NEW own, Owned(H, own),
           NEW m \in 1 .. Len(H.nodes), NEW v \in V, NEW S, Valued(H, S, m, v)
    PROVE  /\ Shape(S, W, V) /\ Owned(S, own)
           /\ Sets(H, own, S, own, own[m], H.nodes[m].key, v)
<1> DEFINE D == 1 .. Len(H.nodes)
           R == [key : W, value : V, left : Nat, right : Nat]
           x == [H.nodes[m] EXCEPT !.value = v]
<1>1. /\ Len(H.nodes) \in Nat /\ DOMAIN H.nodes = D /\ H.nodes \in Seq(R)
      /\ \A n \in D : H.nodes[n] \in R
  BY ShapeFacts DEF Shape
<1>2. /\ x \in R /\ x.value = v /\ x.key = H.nodes[m].key /\ x.left = H.nodes[m].left
      /\ x.right = H.nodes[m].right
  <2>1. H.nodes[m] \in R
    BY <1>1
  <2> QED BY <2>1
<1>3. S.envs = H.envs /\ S.nodes = [H.nodes EXCEPT ![m] = x]
  BY DEF Valued
<1> HIDE DEF x
<1>4. S.nodes \in Seq(R) /\ Len(S.nodes) = Len(H.nodes)
  BY <1>1, <1>2, <1>3, ExceptSeq
<1>5. S.nodes[m] = x /\ \A n \in D : n # m => S.nodes[n] = H.nodes[n]
  BY <1>1, <1>3
<1>6. \A n \in D : /\ S.nodes[n].key = H.nodes[n].key /\ S.nodes[n].left = H.nodes[n].left
                   /\ S.nodes[n].right = H.nodes[n].right
                   /\ n # m => S.nodes[n].value = H.nodes[n].value
  BY <1>2, <1>5
<1>7. Shape(S, W, V)
  <2>1. \A e \in 1 .. Len(S.envs) : S.envs[e].root <= Len(S.nodes) /\ S.envs[e].last < e
    BY <1>3, <1>4 DEF Shape
  <2>2. \A n \in 1 .. Len(S.nodes) :
            /\ S.nodes[n].left = 0 \/ (n < S.nodes[n].left /\ S.nodes[n].left <= Len(S.nodes))
            /\ S.nodes[n].right = 0 \/ (n < S.nodes[n].right /\ S.nodes[n].right <= Len(S.nodes))
    BY <1>4, <1>6 DEF Shape
  <2>3. S.envs \in Seq([root : Nat, last : Nat])
    BY <1>3 DEF Shape
  <2> QED BY <1>3, <1>4, <2>1, <2>2, <2>3 DEF Shape, Valued
<1>8. ASSUME NEW k PROVE Stop(S, k) = Stop(H, k)
  <2>1. Seek(S, k) = Seek(H, k)
    <3>1. \A n \in D : turn(S, n, k) = turn(H, n, k)
      BY <1>6 DEF turn
    <3> QED BY <1>4, <1>6, <3>1 DEF Seek
  <2>2. /\ Ranked(D, Seek(H, k), Height(H), Len(H.nodes)) /\ WalkEnds(Stop(H, k), D, Seek(H, k))
        /\ WalkEnds(Stop(S, k), D, Seek(H, k))
    <3>1. WalkEnds(Stop(S, k), 1 .. Len(S.nodes), Seek(S, k))
      BY <1>7, StopEnds
    <3> QED BY <1>4, <2>1, <3>1, SeekRanked, StopEnds
  <2> QED BY <2>2, WalkUnique
<1>9. Owned(S, own)
  <2>1. \A n \in D : \/ n = S.envs[own[n]].root
                     \/ \E q \in 1 .. n - 1 : own[q] = own[n] /\ n \in {S.nodes[q].left, S.nodes[q].right}
    <3> SUFFICES ASSUME NEW n \in D, n # H.envs[own[n]].root
                 PROVE  \E q \in 1 .. n - 1 : own[q] = own[n] /\ n \in {S.nodes[q].left, S.nodes[q].right}
      BY <1>3
    <3>1. PICK q \in 1 .. n - 1 : own[q] = own[n] /\ n \in {H.nodes[q].left, H.nodes[q].right}
      BY DEF Owned
    <3>2. q \in D
      BY <1>1
    <3> QED BY <1>6, <3>1, <3>2
  <2>2. /\ \A n \in D : own[n] \in 1 .. Len(S.envs) /\ S.envs[own[n]].root \in 1 .. Len(S.nodes)
        /\ \A e \in 1 .. Len(S.envs) : S.envs[e].root # 0 => own[S.envs[e].root] = e
    BY <1>3, <1>4 DEF Owned
  <2>3. \A n \in D : /\ S.nodes[n].left # 0 => own[S.nodes[n].left] = own[n]
                     /\ S.nodes[n].right # 0 => own[S.nodes[n].right] = own[n]
    <3>1. \A n \in D : /\ H.nodes[n].left # 0 => own[H.nodes[n].left] = own[n]
                       /\ H.nodes[n].right # 0 => own[H.nodes[n].right] = own[n]
      BY DEF Owned
    <3> QED BY <1>6, <3>1
  <2>4. \A n \in D : Stop(S, S.nodes[n].key)[S.envs[own[n]].root] = n
    <3> SUFFICES ASSUME NEW n \in D PROVE Stop(S, S.nodes[n].key)[S.envs[own[n]].root] = n
      OBVIOUS
    <3>1. Stop(H, H.nodes[n].key)[H.envs[own[n]].root] = n
      BY DEF Owned
    <3>2. S.nodes[n].key = H.nodes[n].key
      BY <1>6
    <3> QED BY <1>3, <1>8, <3>1, <3>2
  <2> HIDE DEF D
  <2> QED BY <1>4, <2>1, <2>2, <2>3, <2>4 DEF Owned, D
<1>10. Sets(H, own, S, own, own[m], H.nodes[m].key, v)
  <2>1. S.nodes[m].value = v
    BY <1>2, <1>5
  <2>2. \E y \in D :
            /\ own[y] = own[m] /\ S.nodes[y].key = H.nodes[m].key /\ S.nodes[y].value = v
            /\ \A n \in D : n # y => n \in D /\ S.nodes[n].value = H.nodes[n].value
    <3> WITNESS m \in D
    <3> QED BY <1>6, <2>1
  <2>3. \A n \in D : S.nodes[n].key = H.nodes[n].key
    BY <1>6
  <2> QED BY <1>1, <1>3, <1>4, <2>2, <2>3 DEF Sets
<1> QED BY <1>7, <1>9, <1>10

(* A node is added.                                                        *)
Adds(H, S, W, V, e, p, key, v) ==
    /\ Grows(H, S, e, p, key)
    /\ S = [envs |-> S.envs, nodes |-> S.nodes]
    /\ S.envs \in Seq([root : Nat, last : Nat])
    /\ S.nodes \in Seq([key : W, value : V, left : Nat, right : Nat])
    /\ \A f \in 1 .. Len(H.envs) : S.envs[f].last = H.envs[f].last
    /\ S.nodes[Len(H.nodes) + 1].value = v
    /\ \A n \in 1 .. Len(H.nodes) : S.nodes[n].value = H.nodes[n].value

(* A node that is added for a key that was not there (env.c:12-38).        *)
LEMMA NodeAdded ==
    ASSUME NEW H, NEW W, NEW V, Shape(H, W, V), NEW own, Owned(H, own), NEW S,
           NEW e \in 1 .. Len(H.envs), NEW p, NEW key, NEW v, Adds(H, S, W, V, e, p, key, v)
    PROVE  /\ Shape(S, W, V) /\ Owned(S, Owner(H, own, e))
           /\ Sets(H, own, S, Owner(H, own, e), e, key, v)
<1> DEFINE D == 1 .. Len(H.nodes)
           new == Len(H.nodes) + 1
<1>0. Grows(H, S, e, p, key)
  BY DEF Adds
<1>1. Len(H.nodes) \in Nat /\ Len(S.nodes) = new /\ Len(S.envs) = Len(H.envs)
  BY <1>0, ShapeFacts DEF Grows
<1>2. new \notin D /\ 1 .. Len(S.nodes) = D \cup {new}
  BY <1>1
<1>3. \A f \in 1 .. Len(H.envs) : S.envs[f].root <= new /\ S.envs[f].last < f
  <2> SUFFICES ASSUME NEW f \in 1 .. Len(H.envs) PROVE S.envs[f].root <= new /\ S.envs[f].last < f
    OBVIOUS
  <2>1. H.envs[f].root \in Nat /\ H.envs[f].root <= Len(H.nodes) /\ H.envs[f].last < f
    <3>1. H.envs[f].root \in Nat
      BY ShapeFacts
    <3> QED BY <3>1 DEF Shape
  <2>2. S.envs[f].root = H.envs[f].root \/ S.envs[f].root = new
    BY <1>0 DEF Grows
  <2>3. S.envs[f].last = H.envs[f].last
    BY DEF Adds
  <2> QED BY <1>1, <2>1, <2>2, <2>3
<1>4. ASSUME NEW n \in D, NEW old, NEW now, old # 0 => old \in n + 1 .. Len(H.nodes),
             now = old \/ now = new
      PROVE  now = 0 \/ (n < now /\ now <= new)
  BY <1>1, <1>4
<1>5. \A n \in 1 .. Len(S.nodes) :
            /\ S.nodes[n].left = 0 \/ (n < S.nodes[n].left /\ S.nodes[n].left <= Len(S.nodes))
            /\ S.nodes[n].right = 0 \/ (n < S.nodes[n].right /\ S.nodes[n].right <= Len(S.nodes))
  <2>1. S.nodes[new].left = 0 /\ S.nodes[new].right = 0
    BY <1>0 DEF Grows
  <2>2. ASSUME NEW n \in D
        PROVE  /\ S.nodes[n].left = 0 \/ (n < S.nodes[n].left /\ S.nodes[n].left <= new)
               /\ S.nodes[n].right = 0 \/ (n < S.nodes[n].right /\ S.nodes[n].right <= new)
    <3>1. /\ S.nodes[n].left = H.nodes[n].left \/ S.nodes[n].left = new
          /\ S.nodes[n].right = H.nodes[n].right \/ S.nodes[n].right = new
      BY <1>0 DEF Grows
    <3>2. /\ H.nodes[n].left # 0 => H.nodes[n].left \in n + 1 .. Len(H.nodes)
          /\ H.nodes[n].right # 0 => H.nodes[n].right \in n + 1 .. Len(H.nodes)
      BY Pointers
    <3> HIDE DEF new
    <3> QED BY <1>4, <3>1, <3>2
  <2> HIDE DEF new
  <2> QED BY <1>1, <1>2, <2>1, <2>2
<1>6. Shape(S, W, V)
  BY <1>1, <1>3, <1>5 DEF Shape, Adds
<1>7. Owned(S, Owner(H, own, e))
  BY <1>0, <1>6, LeafOwned
<1>8. Owner(H, own, e)[new] = e /\ \A n \in D : Owner(H, own, e)[n] = own[n]
  <2>1. DOMAIN Owner(H, own, e) = D \cup {new}
    BY <1>1, <1>2 DEF Owner
  <2> QED BY <1>2, <2>1 DEF Owner
<1>9. Sets(H, own, S, Owner(H, own, e), e, key, v)
  <2>1. new \in 1 .. Len(S.nodes) /\ S.nodes[new].key = key /\ Len(H.nodes) <= Len(S.nodes)
    BY <1>0, <1>1, <1>2 DEF Grows
  <2>2. \A n \in 1 .. Len(S.nodes) : n # new => n \in D
    BY <1>2
  <2>3. \A n \in D : S.nodes[n].key = H.nodes[n].key
    BY <1>0 DEF Grows
  <2> HIDE DEF D
  <2>4. \E m \in 1 .. Len(S.nodes) :
            /\ Owner(H, own, e)[m] = e /\ S.nodes[m].key = key /\ S.nodes[m].value = v
            /\ \A n \in 1 .. Len(S.nodes) : n # m => n \in D /\ S.nodes[n].value = H.nodes[n].value
    BY <1>8, <2>1, <2>2 DEF D, Adds
  <2> QED BY <1>1, <1>8, <2>1, <2>3, <2>4 DEF Sets, D, Adds
<1> QED BY <1>6, <1>7, <1>9

(* The root of an environment that is empty.                               *)
LEMMA RootAdded ==
    ASSUME NEW H, NEW W, NEW V, Shape(H, W, V), NEW e \in 1 .. Len(H.envs),
           NEW key \in W, NEW v \in V, H.envs[e].root = 0
    PROVE  Adds(H, env_set(H, e, key, v), W, V, e, 0, key, v)
<1> DEFINE new == Len(H.nodes) + 1
           x == [H.envs[e] EXCEPT !.root = new]
           nd == Node(key, v)
           S == env_set(H, e, key, v)
           R == [key : W, value : V, left : Nat, right : Nat]
           E == [root : Nat, last : Nat]
<1>1. /\ Len(H.nodes) \in Nat /\ DOMAIN H.nodes = 1 .. Len(H.nodes) /\ H.nodes \in Seq(R)
      /\ Len(H.envs) \in Nat /\ DOMAIN H.envs = 1 .. Len(H.envs) /\ H.envs \in Seq(E)
      /\ H.envs[e] \in E
  BY ShapeFacts DEF Shape
<1>2. S = [envs |-> [H.envs EXCEPT ![e] = x], nodes |-> Append(H.nodes, nd)]
  BY DEF env_set
<1>3. S.envs = [H.envs EXCEPT ![e] = x] /\ S.nodes = Append(H.nodes, nd)
      /\ S = [envs |-> S.envs, nodes |-> S.nodes]
  BY <1>2
<1>4. x \in E /\ x.root = new /\ x.last = H.envs[e].last
  <2>1. new \in Nat /\ H.envs[e] \in E
    BY <1>1
  <2> HIDE DEF new, S, nd
  <2> QED BY <2>1
<1>5. nd \in R /\ nd.key = key /\ nd.value = v /\ nd.left = 0 /\ nd.right = 0
  BY DEF Node
<1> HIDE DEF x, nd, S
<1>6. /\ S.envs \in Seq(E) /\ Len(S.envs) = Len(H.envs)
      /\ \A f \in 1 .. Len(H.envs) : S.envs[f] = IF f = e THEN x ELSE H.envs[f]
  BY <1>1, <1>3, <1>4, ExceptSeq
<1>7. /\ S.nodes \in Seq(R) /\ Len(S.nodes) = new /\ S.nodes[new] = nd
      /\ \A n \in 1 .. Len(H.nodes) : S.nodes[n] = H.nodes[n]
  BY <1>1, <1>3, <1>5, AppendProperties
<1>8. Grows(H, S, e, 0, key)
  BY <1>1, <1>4, <1>5, <1>6, <1>7 DEF Grows
<1>9. \A f \in 1 .. Len(H.envs) : S.envs[f].last = H.envs[f].last
  BY <1>4, <1>6
<1> QED BY <1>3, <1>5, <1>6, <1>7, <1>8, <1>9 DEF Adds, S

(* A leaf where the search for the name ended.                             *)
LEMMA LeafAdded ==
    ASSUME NEW H, NEW W, NEW V, Shape(H, W, V), W \subseteq Int, NEW e \in 1 .. Len(H.envs),
           NEW key \in W, NEW v \in V, H.envs[e].root # 0,
           H.nodes[Stop(H, key)[H.envs[e].root]].key # key
    PROVE  Adds(H, env_set(H, e, key, v), W, V, e, Stop(H, key)[H.envs[e].root], key, v)
<1> DEFINE new == Len(H.nodes) + 1
           p == Stop(H, key)[H.envs[e].root]
           nd == Node(key, v)
           S == env_set(H, e, key, v)
           R == [key : W, value : V, left : Nat, right : Nat]
           x == IF key < H.nodes[p].key THEN [H.nodes[p] EXCEPT !.left = new]
                ELSE [H.nodes[p] EXCEPT !.right = new]
           grown == Append(H.nodes, nd)
<1>1. /\ Len(H.nodes) \in Nat /\ DOMAIN H.nodes = 1 .. Len(H.nodes) /\ H.nodes \in Seq(R)
      /\ \A n \in 1 .. Len(H.nodes) : H.nodes[n] \in R
  BY ShapeFacts DEF Shape
<1>2. p \in 1 .. Len(H.nodes) /\ turn(H, p, key) = 0 /\ env_last(H, e, key) = p
  BY FindIsStop
<1>3. key \in Int /\ H.nodes[p].key \in Int /\ H.nodes[p].key # key
  BY <1>1, <1>2
<1>4. nd \in R /\ nd.key = key /\ nd.value = v /\ nd.left = 0 /\ nd.right = 0
  BY DEF Node
<1> HIDE DEF nd, p
<1>5. /\ grown \in Seq(R) /\ Len(grown) = new /\ grown[new] = nd
      /\ \A n \in 1 .. Len(H.nodes) : grown[n] = H.nodes[n]
  BY <1>1, <1>4, AppendProperties
<1>6. S.envs = H.envs /\ S.nodes = [grown EXCEPT ![p] = x] /\ S = [envs |-> S.envs, nodes |-> S.nodes]
  <2>1. S = [H EXCEPT !.nodes =
                IF key < @[p].key THEN [grown EXCEPT ![p].left = new]
                ELSE IF key > @[p].key THEN [grown EXCEPT ![p].right = new]
                ELSE [@ EXCEPT ![p].value = v]]
    BY <1>2 DEF env_set, nd
  <2>2. S = [envs |-> H.envs, nodes |->
                IF key < H.nodes[p].key THEN [grown EXCEPT ![p].left = new]
                ELSE IF key > H.nodes[p].key THEN [grown EXCEPT ![p].right = new]
                ELSE [H.nodes EXCEPT ![p].value = v]]
    <3>1. H = [envs |-> H.envs, nodes |-> H.nodes]
      BY DEF Shape
    <3> QED BY <2>1, <3>1
  <2>3. p \in 1 .. Len(grown) /\ grown[p] = H.nodes[p]
    BY <1>1, <1>2, <1>5
  <2> HIDE DEF grown, S
  <2>4. CASE key < H.nodes[p].key
    <3>1. S = [envs |-> H.envs, nodes |-> [grown EXCEPT ![p].left = new]]
      BY <2>2, <2>4
    <3>2. [grown EXCEPT ![p].left = new] = [grown EXCEPT ![p] = x]
      BY <2>3, <2>4
    <3> HIDE DEF x
    <3> QED BY <3>1, <3>2
  <2>5. CASE ~ (key < H.nodes[p].key)
    <3>1. S = [envs |-> H.envs, nodes |-> [grown EXCEPT ![p].right = new]]
      <4>1. key > H.nodes[p].key
        BY <1>3, <2>5
      <4> QED BY <2>2, <2>5, <4>1
    <3>2. [grown EXCEPT ![p].right = new] = [grown EXCEPT ![p] = x]
      BY <2>3, <2>5
    <3> HIDE DEF x
    <3> QED BY <3>1, <3>2
  <2> QED BY <2>4, <2>5
<1>7. /\ x \in R /\ x.key = H.nodes[p].key /\ x.value = H.nodes[p].value
      /\ key < H.nodes[p].key => x.left = new /\ x.right = H.nodes[p].right
      /\ ~ (key < H.nodes[p].key) => x.left = H.nodes[p].left /\ x.right = new
  <2>1. H.nodes[p] \in R /\ new \in Nat
    BY <1>1, <1>2
  <2> HIDE DEF new
  <2>2. CASE key < H.nodes[p].key
    BY <2>1, <2>2
  <2>3. CASE ~ (key < H.nodes[p].key)
    BY <2>1, <2>3
  <2> QED BY <2>2, <2>3
<1> HIDE DEF x, S, grown
<1>8. /\ Len(grown) = new /\ p \in 1 .. new /\ p # new /\ new \in 1 .. new
      /\ \A n \in 1 .. Len(H.nodes) : n \in 1 .. new
  <2>1. Len(H.nodes) \in Nat
    BY <1>1
  <2>2. p \in 1 .. Len(H.nodes)
    BY <1>2
  <2>3. Len(grown) = new
    BY <1>5
  <2> QED BY <2>1, <2>2, <2>3
<1>9. /\ S.nodes \in Seq(R) /\ Len(S.nodes) = new
      /\ \A n \in 1 .. new : S.nodes[n] = IF n = p THEN x ELSE grown[n]
  <2> DEFINE t == [grown EXCEPT ![p] = x]
  <2>1. p \in 1 .. Len(grown) /\ x \in R /\ grown \in Seq(R)
    BY <1>5, <1>7, <1>8
  <2> HIDE DEF R
  <2>2. t \in Seq(R) /\ Len(t) = Len(grown) /\ \A n \in 1 .. Len(grown) : t[n] = IF n = p THEN x ELSE grown[n]
    BY <2>1, ExceptSeq
  <2> HIDE DEF t, new
  <2> QED BY <1>6, <1>8, <2>2 DEF t
<1>10. /\ S.nodes[new] = nd /\ S.nodes[p] = x
       /\ \A n \in 1 .. Len(H.nodes) : n # p => S.nodes[n] = H.nodes[n]
  <2>1. S.nodes[new] = grown[new]
    BY <1>8, <1>9
  <2>2. S.nodes[p] = x
    BY <1>8, <1>9
  <2>3. \A n \in 1 .. Len(H.nodes) : n # p => S.nodes[n] = grown[n]
    BY <1>8, <1>9
  <2> QED BY <1>5, <2>1, <2>2, <2>3
<1>11. \A n \in 1 .. Len(H.nodes) :
            S.nodes[n].key = H.nodes[n].key /\ S.nodes[n].value = H.nodes[n].value
  BY <1>7, <1>10
<1>12. Grows(H, S, e, p, key)
  <2>1. turn(S, p, key) = new
    BY <1>3, <1>7, <1>10 DEF turn
  <2>2. \A n \in 1 .. Len(H.nodes) :
            /\ \/ S.nodes[n].left = H.nodes[n].left
               \/ n = p /\ H.nodes[n].left = 0 /\ S.nodes[n].left = new
            /\ \/ S.nodes[n].right = H.nodes[n].right
               \/ n = p /\ H.nodes[n].right = 0 /\ S.nodes[n].right = new
    BY <1>2, <1>3, <1>7, <1>10 DEF turn
  <2>3. H.envs[e].root # 0 /\ p = Stop(H, key)[H.envs[e].root] /\ H.nodes[p].key # key
    BY DEF p
  <2> HIDE DEF new
  <2> QED BY <1>4, <1>6, <1>9, <1>10, <1>11, <2>1, <2>2, <2>3 DEF Grows, new
<1>13. S.envs \in Seq([root : Nat, last : Nat])
  BY <1>6 DEF Shape
<1>14. Adds(H, S, W, V, e, p, key, v)
  BY <1>4, <1>6, <1>9, <1>10, <1>11, <1>12, <1>13 DEF Adds
<1> QED BY <1>14 DEF S, p

(* env_set keeps a heap of environments in shape, and does what it is for. *)
LEMMA EnvSet ==
    ASSUME NEW H, NEW W, NEW V, Shape(H, W, V), W \subseteq Int, NEW own, Owned(H, own),
           NEW e \in 1 .. Len(H.envs), NEW key \in W, NEW v \in V
    PROVE  \E own2 : /\ Shape(env_set(H, e, key, v), W, V) /\ Owned(env_set(H, e, key, v), own2)
                     /\ Sets(H, own, env_set(H, e, key, v), own2, e, key, v)
<1> DEFINE r == H.envs[e].root
           p == Stop(H, key)[r]
           S == env_set(H, e, key, v)
<1>1. CASE r = 0
  <2>1. Adds(H, S, W, V, e, 0, key, v)
    BY <1>1, RootAdded
  <2> HIDE DEF S
  <2>2. Shape(S, W, V) /\ Owned(S, Owner(H, own, e)) /\ Sets(H, own, S, Owner(H, own, e), e, key, v)
    BY <2>1, NodeAdded
  <2> QED BY <2>2 DEF S
<1>2. CASE r # 0 /\ H.nodes[p].key # key
  <2>1. Adds(H, S, W, V, e, p, key, v)
    BY <1>2, LeafAdded
  <2> HIDE DEF S, p
  <2>2. Shape(S, W, V) /\ Owned(S, Owner(H, own, e)) /\ Sets(H, own, S, Owner(H, own, e), e, key, v)
    BY <2>1, NodeAdded
  <2> QED BY <2>2 DEF S
<1>3. CASE r # 0 /\ H.nodes[p].key = key
  <2>1. env_last(H, e, key) = p /\ env_find(H, e, key) = p /\ p \in 1 .. Len(H.nodes)
    BY <1>3, FindIsStop
  <2>2. own[p] = e
    <3>1. env_find(H, e, key) # 0
      BY <2>1
    <3> QED BY <2>1, <3>1, FindOwned
  <2> HIDE DEF p
  <2>3. Valued(H, S, p, v)
    <3>1. H = [envs |-> H.envs, nodes |-> H.nodes] /\ key \in Int
      BY DEF Shape
    <3>2. S = [H EXCEPT !.nodes = [@ EXCEPT ![p].value = v]]
      <4>1. ~ (key < H.nodes[p].key) /\ ~ (key > H.nodes[p].key)
        BY <1>3, <3>1
      <4> QED BY <1>3, <2>1, <4>1 DEF env_set
    <3>3. S = [envs |-> H.envs, nodes |-> [H.nodes EXCEPT ![p].value = v]]
      BY <3>1, <3>2
    <3> QED BY <3>3 DEF Valued
  <2> HIDE DEF S
  <2>4. Shape(S, W, V) /\ Owned(S, own) /\ Sets(H, own, S, own, own[p], H.nodes[p].key, v)
    BY <2>1, <2>3, ValueSet
  <2> QED BY <1>3, <2>2, <2>4 DEF S
<1> QED BY <1>1, <1>2, <1>3

-----------------------------------------------------------------------------
(* From an environment outwards: Inner(f, ..) says that f is the innermost *)
(* of the environments B from each one, or 0.                              *)
Inner(f, B, last, N) == f = [i \in 0 .. N |-> IF i = 0 \/ i \in B THEN i ELSE f[last[i]]]

Outwards(last, N) == N \in Nat /\ \A i \in 1 .. N : last[i] \in 0 .. i - 1

(* The innermost scope that binds a name is well defined, since every      *)
(* environment leads to an older one (env.c:40-71).                        *)
LEMMA InnerExists ==
    ASSUME NEW B, NEW last, NEW N, Outwards(last, N) PROVE \E f : Inner(f, B, last, N)
<1> DEFINE D == 1 .. N
           next == [i \in D |-> IF i \in B THEN 0 ELSE last[i]]
           rank == [i \in D |-> i]
<1>1. Ranked(D, next, rank, N)
  BY DEF Ranked, Outwards
<1>2. PICK g : WalkEnds(g, D, next)
  BY <1>1, WalkExists
<1>3. \A i \in D : g[i] \in D
  <2> HIDE DEF next, rank, D
  <2> QED BY <1>1, <1>2, WalkStops
<1> DEFINE f == [i \in 0 .. N |-> IF i = 0 THEN 0 ELSE IF g[i] \in B THEN g[i] ELSE 0]
<1>4. ASSUME NEW i \in 0 .. N PROVE f[i] = IF i = 0 \/ i \in B THEN i ELSE f[last[i]]
  <2>1. CASE i = 0
    BY <2>1
  <2>2. CASE i # 0 /\ i \in B
    <3>1. g[i] = i
      BY <1>2, <2>2 DEF WalkEnds
    <3> QED BY <2>2, <3>1
  <2>3. CASE i # 0 /\ i \notin B
    <3>1. i \in D /\ next[i] = last[i] /\ last[i] \in 0 .. N
      BY <2>3 DEF Outwards
    <3>2. g[i] = IF last[i] = 0 THEN i ELSE g[last[i]]
      BY <1>2, <3>1 DEF WalkEnds
    <3> QED BY <2>3, <3>1, <3>2
  <2> QED BY <2>1, <2>2, <2>3
<1>5. f = [i \in 0 .. N |-> f[i]]
  OBVIOUS
<1> HIDE DEF f
<1> QED BY <1>4, <1>5 DEF Inner

(* Whatever holds of 0, and of an environment if it holds of the one it    *)
(* leads to, holds of all.                                                 *)
LEMMA OutwardInduction ==
    ASSUME NEW last, NEW N, Outwards(last, N), NEW S, 0 \in S,
           \A i \in 1 .. N : last[i] \in S => i \in S
    PROVE  0 .. N \subseteq S
<1> SUFFICES ASSUME (0 .. N) \ S # {} PROVE FALSE
  OBVIOUS
<1>1. (0 .. N) \ S \subseteq Nat
  BY DEF Outwards
<1>2. PICK i \in (0 .. N) \ S : \A j \in (0 .. N) \ S : i <= j
  BY <1>1, LeastNatural
<1>3. i \in 1 .. N /\ last[i] \in (0 .. N) \ S /\ last[i] < i
  BY DEF Outwards
<1> QED BY <1>2, <1>3

(* It is 0 or binds the name.                                              *)
LEMMA InnerFound ==
    ASSUME NEW B, NEW last, NEW N, Outwards(last, N), NEW f, Inner(f, B, last, N)
    PROVE  \A i \in 0 .. N : f[i] \in 0 .. N /\ (f[i] = 0 \/ f[i] \in B)
<1> DEFINE S == {i \in 0 .. N : f[i] \in 0 .. N /\ (f[i] = 0 \/ f[i] \in B)}
<1>1. \A i \in 0 .. N : f[i] = IF i = 0 \/ i \in B THEN i ELSE f[last[i]]
  BY DEF Inner
<1>2. 0 \in S
  BY <1>1 DEF Outwards
<1>3. \A i \in 1 .. N : last[i] \in S => i \in S
  BY <1>1 DEF Outwards
<1> HIDE DEF S
<1>4. 0 .. N \subseteq S
  BY <1>2, <1>3, OutwardInduction
<1> QED BY <1>4 DEF S

(* There is just one such function, so it does not matter who computes it. *)
LEMMA InnerUnique ==
    ASSUME NEW B, NEW last, NEW N, Outwards(last, N),
           NEW f, Inner(f, B, last, N), NEW g, Inner(g, B, last, N)
    PROVE  f = g
<1> DEFINE S == {i \in 0 .. N : f[i] = g[i]}
<1>1. \A i \in 0 .. N : /\ f[i] = IF i = 0 \/ i \in B THEN i ELSE f[last[i]]
                        /\ g[i] = IF i = 0 \/ i \in B THEN i ELSE g[last[i]]
  BY DEF Inner
<1>2. 0 \in S
  BY <1>1 DEF Outwards
<1>3. \A i \in 1 .. N : last[i] \in S => i \in S
  BY <1>1 DEF Outwards
<1> HIDE DEF S
<1>4. 0 .. N \subseteq S
  BY <1>2, <1>3, OutwardInduction
<1>5. \A i \in 0 .. N : f[i] = g[i]
  BY <1>4 DEF S
<1>6. DOMAIN f = 0 .. N /\ DOMAIN g = 0 .. N /\ f = [i \in 0 .. N |-> f[i]] /\ g = [i \in 0 .. N |-> g[i]]
  BY DEF Inner
<1> QED BY <1>5, <1>6

Lasts(H) == [i \in 1 .. Len(H.envs) |-> H.envs[i].last]

(* The environments of a heap lead outwards.                               *)
LEMMA LastsOutward == ASSUME NEW H, NEW W, NEW V, Shape(H, W, V) PROVE Outwards(Lasts(H), Len(H.envs))
BY ShapeFacts, Pointers DEF Outwards, Lasts

(* env_find_recurse looks in the innermost environment that has the name.  *)
Binders(H, key) == {i \in 1 .. Len(H.envs) : env_find(H, i, key) # 0}

(* Env_find_recurse finds the node of the innermost environment that binds *)
(* the key (env.c:62-71).                                                  *)
LEMMA FindRecurse ==
    ASSUME NEW H, NEW W, NEW V, Shape(H, W, V), NEW e \in 1 .. Len(H.envs), NEW key,
           NEW f, Inner(f, Binders(H, key), Lasts(H), Len(H.envs))
    PROVE  env_find_recurse(H, e, key) = IF f[e] = 0 THEN 0 ELSE env_find(H, f[e], key)
<1> DEFINE N == Len(H.envs)
           B == Binders(H, key)
           find(i) == env_find(H, i, key)
           Is(a) == a = [i \in 0 .. N |-> IF i = 0 THEN 0
                                          ELSE IF find(i) # 0 THEN find(i)
                                          ELSE a[H.envs[i].last]]
           h == [i \in 0 .. N |-> IF f[i] = 0 THEN 0 ELSE find(f[i])]
           at == CHOOSE a : Is(a)
<1>1. Outwards(Lasts(H), N) /\ N \in Nat
  BY LastsOutward DEF Outwards
<1>2. env_find_recurse(H, e, key) = at[e]
  BY DEF env_find_recurse
<1>3. \A i \in 0 .. N : f[i] = IF i = 0 \/ i \in B THEN i ELSE f[Lasts(H)[i]]
  BY DEF Inner
<1>4. \A i \in 1 .. N : /\ Lasts(H)[i] = H.envs[i].last /\ H.envs[i].last \in 0 .. N
                        /\ i \in B <=> find(i) # 0
  <2>1. \A i \in 1 .. N : Lasts(H)[i] = H.envs[i].last
    BY DEF Lasts
  <2>2. \A i \in 1 .. N : H.envs[i].last \in 0 .. N
    BY <1>1, <2>1 DEF Outwards
  <2>3. \A i \in 1 .. N : i \in B <=> find(i) # 0
    BY DEF Binders
  <2> HIDE DEF find, B
  <2> QED BY <2>1, <2>2, <2>3
<1> HIDE DEF find, B
<1>5. Is(h)
  <2>1. ASSUME NEW i \in 1 .. N
        PROVE  h[i] = IF find(i) # 0 THEN find(i) ELSE h[H.envs[i].last]
    <3>1. i \in 0 .. N /\ i # 0
      BY <1>1
    <3>2. CASE i \in B
      <4>1. f[i] = i
        BY <1>3, <3>1, <3>2
      <4> QED BY <1>4, <3>1, <3>2, <4>1
    <3>3. CASE i \notin B
      <4>1. f[i] = f[H.envs[i].last] /\ find(i) = 0 /\ H.envs[i].last \in 0 .. N
        BY <1>3, <1>4, <3>1, <3>3
      <4> QED BY <3>1, <4>1
    <3> QED BY <3>2, <3>3
  <2>2. h[0] = 0 /\ h = [i \in 0 .. N |-> h[i]]
    <3>1. f[0] = 0 /\ 0 \in 0 .. N
      BY <1>1, <1>3
    <3> QED BY <3>1
  <2> HIDE DEF h
  <2>3. \A i \in 0 .. N : i = 0 \/ i \in 1 .. N
    BY <1>1
  <2> QED BY <2>1, <2>2, <2>3
<1>6. Is(at)
  BY <1>5
<1> HIDE DEF at
<1>7. \A i \in 0 .. N : at[i] = IF i = 0 THEN 0 ELSE IF find(i) # 0 THEN find(i) ELSE at[H.envs[i].last]
  BY <1>6
<1> DEFINE S == {i \in 0 .. N : at[i] = IF f[i] = 0 THEN 0 ELSE find(f[i])}
<1>8. 0 \in S
  BY <1>1, <1>3, <1>7
<1>9. ASSUME NEW i \in 1 .. N, Lasts(H)[i] \in S PROVE i \in S
  <2>1. i \in 0 .. N /\ i # 0
    BY <1>1
  <2>2. CASE i \in B
    BY <1>3, <1>4, <1>7, <2>1, <2>2
  <2>3. CASE i \notin B
    <3>1. f[i] = f[H.envs[i].last] /\ at[i] = at[H.envs[i].last] /\ H.envs[i].last \in S
      BY <1>3, <1>4, <1>7, <1>9, <2>1, <2>3
    <3> QED BY <2>1, <3>1
  <2> QED BY <2>2, <2>3
<1> HIDE DEF S
<1>10. 0 .. N \subseteq S
  BY <1>1, <1>8, <1>9, OutwardInduction
<1>11. e \in S
  BY <1>1, <1>10
<1> QED BY <1>2, <1>11 DEF S, find

-----------------------------------------------------------------------------
(* The nodes of a tree: those below a node are younger than it.            *)
Downwards(l, r, N) ==
    /\ N \in Nat
    /\ \A n \in 1 .. N : l[n] \in {0} \cup (n + 1 .. N) /\ r[n] \in {0} \cup (n + 1 .. N)

Below(f, l, r, N) ==
    f = [n \in 0 .. N |-> IF n = 0 THEN {} ELSE {n} \cup f[l[n]] \cup f[r[n]]]

(* What holds of a number when it holds of all the greater ones up to N    *)
(* holds of all of them.                                                   *)
LEMMA DownwardInduction ==
    ASSUME NEW N \in Nat, NEW S, \A n \in 1 .. N : (\A m \in n + 1 .. N : m \in S) => n \in S
    PROVE  1 .. N \subseteq S
<1> SUFFICES ASSUME (1 .. N) \ S # {} PROVE FALSE
  OBVIOUS
<1> DEFINE T == {N - n : n \in (1 .. N) \ S}
<1>1. T \subseteq Nat /\ T # {}
  OBVIOUS
<1>2. PICK k \in T : \A j \in T : k <= j
  BY <1>1, LeastNatural
<1>3. PICK n \in (1 .. N) \ S : k = N - n
  OBVIOUS
<1>4. PICK m \in n + 1 .. N : m \notin S
  BY <1>3
<1>5. N - m \in T /\ N - m < k
  BY <1>3, <1>4
<1> HIDE DEF T
<1>6. N - m \in Nat /\ k \in Nat
  BY <1>3, <1>4
<1> QED BY <1>2, <1>5, <1>6

(* The nodes below each node of a tree can be collected, from the youngest *)
(* up.                                                                     *)
LEMMA BelowExists ==
    ASSUME NEW l, NEW r, NEW N, Downwards(l, r, N) PROVE \E f : Below(f, l, r, N)
<1> DEFINE Top(k) == {n \in 0 .. N : n = 0 \/ n > N - k}
           Short(f, k) == f = [n \in Top(k) |-> IF n = 0 THEN {} ELSE {n} \cup f[l[n]] \cup f[r[n]]]
           Bad == {k \in 0 .. N : ~ \E f : Short(f, k)}
<1>0. N \in Nat
  BY DEF Downwards
<1>1. \E f : Short(f, 0)
  <2> DEFINE f == [n \in Top(0) |-> {}]
  <2>1. Top(0) = {0}
    BY <1>0
  <2> HIDE DEF Top
  <2>2. Short(f, 0)
    BY <2>1
  <2> QED BY <2>2
<1>2. ASSUME NEW k \in 0 .. N, NEW f, Short(f, k) PROVE \E g : Short(g, k + 1)
  <2> DEFINE g == [n \in Top(k + 1) |-> IF n = 0 THEN {} ELSE {n} \cup f[l[n]] \cup f[r[n]]]
  <2>1. ASSUME NEW m \in Top(k) PROVE m \in Top(k + 1) /\ g[m] = f[m]
    <3>1. m \in Top(k + 1)
      BY <1>0
    <3> HIDE DEF Top
    <3>2. f[m] = IF m = 0 THEN {} ELSE {m} \cup f[l[m]] \cup f[r[m]]
      BY <1>2
    <3> QED BY <3>1, <3>2
  <2>2. ASSUME NEW n \in Top(k + 1), n # 0 PROVE l[n] \in Top(k) /\ r[n] \in Top(k)
    BY <1>0, <2>2 DEF Downwards
  <2>3. \A n \in Top(k + 1) : g[n] = IF n = 0 THEN {} ELSE {n} \cup g[l[n]] \cup g[r[n]]
    <3> SUFFICES ASSUME NEW n \in Top(k + 1), n # 0 PROVE g[n] = {n} \cup g[l[n]] \cup g[r[n]]
      BY DEF g
    <3>1. g[l[n]] = f[l[n]] /\ g[r[n]] = f[r[n]]
      BY <2>1, <2>2
    <3> HIDE DEF Top
    <3>2. g[n] = {n} \cup f[l[n]] \cup f[r[n]]
      OBVIOUS
    <3> QED BY <3>1, <3>2
  <2> HIDE DEF Top
  <2>4. g = [n \in Top(k + 1) |-> g[n]]
    OBVIOUS
  <2> HIDE DEF g
  <2>5. Short(g, k + 1)
    BY <2>3, <2>4
  <2> QED BY <2>5
<1>3. Bad = {}
  <2> SUFFICES ASSUME Bad # {} PROVE FALSE
    OBVIOUS
  <2>1. Bad \subseteq Nat
    BY <1>0
  <2>2. PICK k \in Bad : \A j \in Bad : k <= j
    BY <2>1, LeastNatural
  <2>3. k \in 0 .. N /\ k # 0
    BY <1>1
  <2>4. k - 1 \in 0 .. N /\ k - 1 \notin Bad /\ (k - 1) + 1 = k
    <3> HIDE DEF Bad
    <3> QED BY <1>0, <2>2, <2>3
  <2> HIDE DEF Short
  <2>5. \E f : Short(f, k - 1)
    BY <2>4
  <2>6. \E g : Short(g, (k - 1) + 1)
    BY <1>2, <2>4, <2>5
  <2> QED BY <2>2, <2>4, <2>6
<1>4. N \in 0 .. N /\ Top(N) = 0 .. N
  BY <1>0
<1> HIDE DEF Top
<1>5. PICK f : Short(f, N)
  BY <1>3, <1>4
<1>6. Below(f, l, r, N)
  BY <1>4, <1>5 DEF Below
<1> QED BY <1>6

Lefts(H)  == [n \in 1 .. Len(H.nodes) |-> H.nodes[n].left]
Rights(H) == [n \in 1 .. Len(H.nodes) |-> H.nodes[n].right]

(* The nodes of an environment are those that it owns.                     *)
LEMMA MembersOwned ==
    ASSUME NEW H, NEW W, NEW V, Shape(H, W, V), NEW own, Owned(H, own), NEW e \in 1 .. Len(H.envs)
    PROVE  Members(H, e) = {n \in 1 .. Len(H.nodes) : own[n] = e}
<1> DEFINE N == Len(H.nodes)
           l == Lefts(H)
           r == Rights(H)
           Is(f) == f = [n \in 0 .. N |->
                            IF n = 0 THEN {} ELSE {n} \cup f[H.nodes[n].left] \cup f[H.nodes[n].right]]
           b == CHOOSE f : Is(f)
           root == H.envs[e].root
<1>1. N \in Nat /\ \A n \in 1 .. N : l[n] = H.nodes[n].left /\ r[n] = H.nodes[n].right
  BY ShapeFacts DEF Lefts, Rights
<1>2. Downwards(l, r, N)
  <2>1. \A n \in 1 .. N : /\ H.nodes[n].left \in {0} \cup (n + 1 .. N)
                          /\ H.nodes[n].right \in {0} \cup (n + 1 .. N)
    BY Pointers
  <2> QED BY <1>1, <2>1 DEF Downwards
<1> HIDE DEF l, r
<1>3. Members(H, e) = b[root]
  BY DEF Members
<1>4. PICK f : Below(f, l, r, N)
  BY <1>2, BelowExists
<1>5. Is(f)
  <2>1. \A n \in 0 .. N : f[n] = IF n = 0 THEN {} ELSE {n} \cup f[l[n]] \cup f[r[n]]
    BY <1>4 DEF Below
  <2>2. \A n \in 0 .. N : n = 0 \/ n \in 1 .. N
    BY <1>1
  <2>3. \A n \in 0 .. N :
            f[n] = IF n = 0 THEN {} ELSE {n} \cup f[H.nodes[n].left] \cup f[H.nodes[n].right]
    BY <1>1, <2>1, <2>2
  <2>4. f = [n \in 0 .. N |-> f[n]]
    BY <1>4 DEF Below
  <2> QED BY <2>3, <2>4
<1>6. Is(b)
  BY <1>5
<1> HIDE DEF b
<1>7. /\ b[0] = {}
      /\ \A n \in 1 .. N : b[n] = {n} \cup b[H.nodes[n].left] \cup b[H.nodes[n].right]
  <2>1. 0 \in 0 .. N /\ \A n \in 1 .. N : n \in 0 .. N /\ n # 0
    BY <1>1
  <2>2. \A n \in 0 .. N : b[n] = IF n = 0 THEN {} ELSE {n} \cup b[H.nodes[n].left] \cup b[H.nodes[n].right]
    BY <1>6
  <2> QED BY <2>1, <2>2
<1>8. \A n \in 1 .. N : /\ H.nodes[n].left \in {0} \cup (n + 1 .. N)
                        /\ H.nodes[n].right \in {0} \cup (n + 1 .. N)
                        /\ H.nodes[n].left # 0 => own[H.nodes[n].left] = own[n]
                        /\ H.nodes[n].right # 0 => own[H.nodes[n].right] = own[n]
  <2>1. \A n \in 1 .. N : /\ H.nodes[n].left # 0 => own[H.nodes[n].left] = own[n]
                          /\ H.nodes[n].right # 0 => own[H.nodes[n].right] = own[n]
    BY DEF Owned
  <2> QED BY <1>1, <1>2, <2>1 DEF Downwards
<1> DEFINE Child(m, s) == /\ H.nodes[m].left # 0 => H.nodes[m].left \in s
                          /\ H.nodes[m].right # 0 => H.nodes[m].right \in s
           S == {n \in 1 .. N : /\ \A m \in b[n] : m \in 1 .. N /\ own[m] = own[n]
                                /\ \A m \in b[n] : Child(m, b[n])}
<1>9. ASSUME NEW n \in 1 .. N, \A m \in n + 1 .. N : m \in S PROVE n \in S
  <2> DEFINE x == H.nodes[n].left
             y == H.nodes[n].right
  <2>1. /\ x = 0 \/ (x \in S /\ own[x] = own[n])
        /\ y = 0 \/ (y \in S /\ own[y] = own[n])
    <3> HIDE DEF S
    <3> QED BY <1>8, <1>9
  <2>2. \A m \in b[x] \cup b[y] : m \in 1 .. N /\ own[m] = own[n]
    BY <1>7, <2>1
  <2>3. b[n] = {n} \cup b[x] \cup b[y]
    BY <1>7
  <2>4. \A m \in b[x] \cup b[y] : Child(m, b[n])
    BY <1>7, <2>1, <2>3
  <2>5. Child(n, b[n])
    <3>1. x # 0 => x \in b[x]
      BY <1>7, <2>1
    <3>2. y # 0 => y \in b[y]
      BY <1>7, <2>1
    <3> QED BY <2>3, <3>1, <3>2
  <2> HIDE DEF Child
  <2> QED BY <2>2, <2>3, <2>4, <2>5
<1> HIDE DEF S
<1>10. 1 .. N \subseteq S
  BY <1>1, <1>9, DownwardInduction
<1>11. CASE root = 0
  <2>1. \A n \in 1 .. N : own[n] # e
    <3>1. \A n \in 1 .. N : H.envs[own[n]].root # 0
      BY DEF Owned
    <3> QED BY <1>11, <3>1
  <2> QED BY <1>3, <1>7, <1>11, <2>1
<1>12. CASE root # 0
  <2>1. root \in 1 .. N /\ own[root] = e
    BY <1>12, Pointers DEF Owned
  <2>2. root \in S
    BY <1>10, <2>1
  <2>3. \A m \in b[root] : m \in 1 .. N /\ own[m] = e /\ Child(m, b[root])
    <3> HIDE DEF Child
    <3> QED BY <2>1, <2>2 DEF S
  <2>4. root \in b[root]
    BY <1>7, <2>1
  <2> DEFINE Bad == {n \in 1 .. N : own[n] = e /\ n \notin b[root]}
  <2>5. Bad = {}
    <3> SUFFICES ASSUME Bad # {} PROVE FALSE
      OBVIOUS
    <3>1. Bad \subseteq Nat
      BY <1>1
    <3>2. PICK n \in Bad : \A j \in Bad : n <= j
      BY <3>1, LeastNatural
    <3>3. n \in 1 .. N /\ own[n] = e /\ n \notin b[root] /\ n # 0
      OBVIOUS
    <3>4. PICK q \in 1 .. n - 1 : own[q] = own[n] /\ n \in {H.nodes[q].left, H.nodes[q].right}
      <4>1. n # H.envs[own[n]].root
        BY <2>4, <3>3
      <4> QED BY <3>3, <4>1 DEF Owned
    <3>5. q \in 1 .. N /\ q < n
      BY <1>1, <3>3, <3>4
    <3>6. q \in b[root]
      <4>1. q \notin Bad
        <5> HIDE DEF Bad
        <5> QED BY <3>2, <3>5, <3>3
      <4> QED BY <3>3, <3>4, <3>5, <4>1
    <3> QED BY <2>3, <3>3, <3>4, <3>6
  <2> QED BY <1>3, <2>3, <2>5
<1> QED BY <1>11, <1>12

-----------------------------------------------------------------------------
(* Searches depend on the nodes only.                                      *)
LEMMA StopSame ==
    ASSUME NEW H, NEW W, NEW V, Shape(H, W, V), NEW S, NEW X, NEW Y, Shape(S, X, Y),
           S.nodes = H.nodes, NEW key
    PROVE  Stop(S, key) = Stop(H, key)
<1>1. Seek(S, key) = Seek(H, key)
  BY DEF Seek, turn
<1>2. /\ Ranked(1 .. Len(H.nodes), Seek(H, key), Height(H), Len(H.nodes))
      /\ WalkEnds(Stop(H, key), 1 .. Len(H.nodes), Seek(H, key))
      /\ WalkEnds(Stop(S, key), 1 .. Len(S.nodes), Seek(S, key))
  BY SeekRanked, StopEnds
<1>3. WalkEnds(Stop(S, key), 1 .. Len(H.nodes), Seek(H, key))
  BY <1>1, <1>2
<1> QED BY <1>2, <1>3, WalkUnique

(* env_create adds an empty environment.                                   *)
LEMMA EnvCreate ==
    ASSUME NEW H, NEW W, NEW V, Shape(H, W, V), NEW own, Owned(H, own), NEW e \in 1 .. Len(H.envs)
    PROVE  LET S == env_create(H, e)
               new == Len(H.envs) + 1
           IN  /\ Shape(S, W, V) /\ Owned(S, own) /\ S.nodes = H.nodes
               /\ Len(S.envs) = new /\ S.envs[new].last = e
               /\ \A f \in 1 .. Len(H.envs) : S.envs[f] = H.envs[f]
<1> DEFINE S == env_create(H, e)
           new == Len(H.envs) + 1
           E == [root : Nat, last : Nat]
           x == Environment(e)
<1>1. Len(H.envs) \in Nat /\ H.envs \in Seq(E) /\ Len(H.nodes) \in Nat
  BY ShapeFacts DEF Shape
<1>2. x \in E /\ x.root = 0 /\ x.last = e
  BY <1>1 DEF Environment
<1>3. S.envs = Append(H.envs, x) /\ S.nodes = H.nodes /\ S = [envs |-> S.envs, nodes |-> S.nodes]
  <2>1. H = [envs |-> H.envs, nodes |-> H.nodes]
    BY DEF Shape
  <2>2. S = [envs |-> Append(H.envs, x), nodes |-> H.nodes]
    BY <2>1 DEF env_create
  <2> QED BY <2>2
<1> HIDE DEF x, S
<1>4. /\ S.envs \in Seq(E) /\ Len(S.envs) = new /\ S.envs[new] = x
      /\ \A f \in 1 .. Len(H.envs) : S.envs[f] = H.envs[f]
  BY <1>1, <1>2, <1>3, AppendProperties
<1>5. 1 .. Len(S.envs) = (1 .. Len(H.envs)) \cup {new} /\ new \notin 1 .. Len(H.envs)
  <2>1. Len(H.envs) \in Nat /\ Len(S.envs) = Len(H.envs) + 1
    BY <1>1, <1>4
  <2> QED BY <2>1
<1>6. Shape(S, W, V)
  <2>1. \A f \in 1 .. Len(S.envs) : S.envs[f].root <= Len(S.nodes) /\ S.envs[f].last < f
    <3>1. \A f \in 1 .. Len(H.envs) : S.envs[f].root <= Len(S.nodes) /\ S.envs[f].last < f
      BY <1>3, <1>4 DEF Shape
    <3>2. S.envs[new].root <= Len(S.nodes) /\ S.envs[new].last < new
      BY <1>1, <1>2, <1>3, <1>4
    <3> QED BY <1>5, <3>1, <3>2
  <2> QED BY <1>3, <1>4, <2>1 DEF Shape
<1>7. Owned(S, own)
  <2>1. \A k : Stop(S, k) = Stop(H, k)
    BY <1>3, <1>6, StopSame
  <2>2. \A n \in 1 .. Len(H.nodes) :
            /\ own[n] \in 1 .. Len(H.envs) /\ own[n] \in 1 .. Len(S.envs)
            /\ S.envs[own[n]] = H.envs[own[n]]
    BY <1>4, <1>5 DEF Owned
  <2>3. \A f \in 1 .. Len(S.envs) : S.envs[f].root # 0 => own[S.envs[f].root] = f
    <3>1. S.envs[new].root = 0
      BY <1>2, <1>4
    <3>2. \A f \in 1 .. Len(H.envs) : S.envs[f].root # 0 => own[S.envs[f].root] = f
      BY <1>4 DEF Owned
    <3> QED BY <1>5, <3>1, <3>2
  <2>4. ASSUME NEW n \in 1 .. Len(H.nodes)
        PROVE  Stop(S, H.nodes[n].key)[S.envs[own[n]].root] = n
    <3>1. Stop(H, H.nodes[n].key)[H.envs[own[n]].root] = n
      BY DEF Owned
    <3>2. Stop(S, H.nodes[n].key) = Stop(H, H.nodes[n].key)
      BY <2>1
    <3>3. S.envs[own[n]] = H.envs[own[n]]
      BY <2>2
    <3> QED BY <3>1, <3>2, <3>3
  <2>5. \A n \in 1 .. Len(H.nodes) :
            /\ S.envs[own[n]].root \in 1 .. Len(H.nodes)
            /\ H.nodes[n].left # 0 => own[H.nodes[n].left] = own[n]
            /\ H.nodes[n].right # 0 => own[H.nodes[n].right] = own[n]
            /\ \/ n = S.envs[own[n]].root
               \/ \E q \in 1 .. n - 1 : own[q] = own[n] /\ n \in {H.nodes[q].left, H.nodes[q].right}
    BY <2>2 DEF Owned
  <2> QED BY <1>3, <2>2, <2>3, <2>4, <2>5 DEF Owned
<1>8. S.envs[new].last = e
  BY <1>2, <1>4
<1> QED BY <1>3, <1>4, <1>6, <1>7, <1>8 DEF S

(* env_set_recurse sets the name in the innermost environment that has it, *)
(* or in the one it was called for.                                        *)
LEMMA EnvSetRecurse ==
    ASSUME NEW H, NEW W, NEW V, Shape(H, W, V), W \subseteq Int, NEW own, Owned(H, own),
           NEW e \in 1 .. Len(H.envs), NEW key \in W, NEW v \in V,
           NEW f, Inner(f, Binders(H, key), Lasts(H), Len(H.envs))
    PROVE  \E own2 : /\ Shape(env_set_recurse(H, e, key, v), W, V)
                     /\ Owned(env_set_recurse(H, e, key, v), own2)
                     /\ Sets(H, own, env_set_recurse(H, e, key, v), own2,
                             IF f[e] = 0 THEN e ELSE f[e], key, v)
<1> DEFINE S == env_set_recurse(H, e, key, v)
           n == env_find_recurse(H, e, key)
<1>1. n = IF f[e] = 0 THEN 0 ELSE env_find(H, f[e], key)
  BY FindRecurse
<1>2. f[e] = 0 \/ (f[e] \in 1 .. Len(H.envs) /\ env_find(H, f[e], key) # 0)
  <2>1. Outwards(Lasts(H), Len(H.envs)) /\ e \in 0 .. Len(H.envs)
    BY LastsOutward
  <2>2. f[e] = 0 \/ f[e] \in Binders(H, key)
    BY <2>1, InnerFound
  <2> QED BY <2>2 DEF Binders
<1>3. S = IF n # 0 THEN [H EXCEPT !.nodes[n].value = v] ELSE env_set(H, e, key, v)
  BY DEF env_set_recurse
<1> HIDE DEF S, n
<1>4. CASE f[e] = 0
  <2>1. S = env_set(H, e, key, v)
    BY <1>1, <1>3, <1>4
  <2>2. \E own2 : Shape(S, W, V) /\ Owned(S, own2) /\ Sets(H, own, S, own2, e, key, v)
    BY <2>1, EnvSet
  <2> QED BY <1>4, <2>2 DEF S
<1>5. CASE f[e] # 0
  <2>1. n # 0 /\ n \in 1 .. Len(H.nodes) /\ own[n] = f[e] /\ H.nodes[n].key = key
    <3>1. n = env_find(H, f[e], key) /\ n # 0 /\ f[e] \in 1 .. Len(H.envs)
      BY <1>1, <1>2, <1>5
    <3>2. /\ env_find(H, f[e], key) \in 1 .. Len(H.nodes) /\ own[env_find(H, f[e], key)] = f[e]
          /\ H.nodes[env_find(H, f[e], key)].key = key
      BY <3>1, FindOwned
    <3> QED BY <3>1, <3>2
  <2>2. Valued(H, S, n, v)
    <3>1. H = [envs |-> H.envs, nodes |-> H.nodes]
      BY DEF Shape
    <3>2. S = [H EXCEPT !.nodes = [H.nodes EXCEPT ![n].value = v]]
      BY <1>3, <2>1
    <3>3. S = [envs |-> H.envs, nodes |-> [H.nodes EXCEPT ![n].value = v]]
      BY <3>1, <3>2
    <3> QED BY <3>3 DEF Valued
  <2>3. Shape(S, W, V) /\ Owned(S, own) /\ Sets(H, own, S, own, own[n], H.nodes[n].key, v)
    BY <2>1, <2>2, ValueSet
  <2> QED BY <1>5, <2>1, <2>3 DEF S
<1> QED BY <1>4, <1>5
=============================================================================
