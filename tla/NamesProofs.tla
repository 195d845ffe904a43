----------------------------- MODULE NamesProofs -----------------------------
(***************************************************************************)
(* Theorems about names (modules Symbols, Environments and Names): a text  *)
(* has one word, the trees keep their shape, and together they do what     *)
(* Dictionary promises.                                                    *)
(***************************************************************************)
EXTENDS MCNames, EnvironmentsProofs

(* The search for a text in the tree of the strings: where it turns, and   *)
(* where it halts.                                                         *)
Turns(str, t, s) ==
    [n \in DOMAIN str |-> IF str[n] = s THEN 0 ELSE IF str[n] < s THEN t.left[n] ELSE t.right[n]]

Halts(g, str, t, s) == WalkEnds(g, DOMAIN str, Turns(str, t, s))

(* A tree of all the strings, in which the search for the text of each of  *)
(* them halts at it.  rank bounds the nodes below one.                     *)
Links(str, t, rank, b) ==
    /\ t = [root |-> t.root, left |-> t.left, right |-> t.right]
    /\ t.left = [n \in DOMAIN str |-> t.left[n]] /\ t.right = [n \in DOMAIN str |-> t.right[n]]
    /\ b \in Nat /\ DOMAIN str \subseteq Nat \ {0}
    /\ (t.root = 0 /\ DOMAIN str = {}) \/ t.root \in DOMAIN str
    /\ \A n \in DOMAIN str :
            /\ str[n] \in Int /\ rank[n] \in 0 .. b
            /\ \A c \in {t.left[n], t.right[n]} : c = 0 \/ (c \in DOMAIN str /\ rank[c] < rank[n])

Finds(str, t) == \A n \in DOMAIN str : \E g : Halts(g, str, t, str[n]) /\ g[t.root] = n

SearchTree(str, t) == Finds(str, t) /\ \E rank, b : Links(str, t, rank, b)

(* A search in the symbol table is a walk that ends.                       *)
LEMMA TurnsRanked ==
    ASSUME NEW str, NEW t, NEW rank, NEW b, Links(str, t, rank, b), NEW s
    PROVE  Ranked(DOMAIN str, Turns(str, t, s), rank, b)
<1>1. ASSUME NEW n \in DOMAIN str
      PROVE  /\ Turns(str, t, s)[n] = 0 \/ Turns(str, t, s)[n] \in {t.left[n], t.right[n]}
  BY DEF Turns
<1>2. ASSUME NEW n \in DOMAIN str
      PROVE  /\ Turns(str, t, s)[n] \in DOMAIN str \cup {0} /\ rank[n] \in 0 .. b
             /\ Turns(str, t, s)[n] # 0 => rank[Turns(str, t, s)[n]] < rank[n]
  BY <1>1 DEF Links
<1>3. b \in Nat /\ 0 \notin DOMAIN str
  BY DEF Links
<1> QED BY <1>2, <1>3 DEF Ranked

(* tree_lookup ends where the search halts, if the text is there.          *)
LEMMA Lookup ==
    ASSUME NEW rank, NEW b, Links(string, tree, rank, b), NEW s, NEW g, Halts(g, string, tree, s)
    PROVE  lookup_symbol_address(s) =
                IF tree.root # 0 /\ string[g[tree.root]] = s THEN g[tree.root] ELSE 0
<1> DEFINE M == DOMAIN string
           next == Turns(string, tree, s)
           Is(a) == a = [n \in M \cup {0} |-> IF n = 0 \/ string[n] = s THEN n ELSE a[branch(n, s)]]
           f == [n \in M \cup {0} |->
                    IF n = 0 THEN 0 ELSE IF string[g[n]] = s THEN g[n] ELSE 0]
           at == CHOOSE a : Is(a)
<1>1. DOMAIN tree.left = M /\ 0 \notin M /\ (tree.root = 0 \/ tree.root \in M)
  BY DEF Links
<1>2. lookup_symbol_address(s) = at[tree.root]
  BY <1>1 DEF lookup_symbol_address, tree_lookup
<1>3. Ranked(M, next, rank, b) /\ WalkEnds(g, M, next)
  BY TurnsRanked DEF Halts
<1>4. \A n \in M : next[n] = IF string[n] = s THEN 0 ELSE branch(n, s)
  BY DEF Turns, branch
<1>5. \A n \in M : g[n] \in M /\ g[n] # 0
  BY <1>1, <1>3, WalkStops
<1> HIDE DEF next
<1>6. \A n \in M : next[n] \in M \cup {0} /\ g[n] = IF next[n] = 0 THEN n ELSE g[next[n]]
  BY <1>3 DEF Ranked, WalkEnds
<1>7. Is(f)
  <2>1. f[0] = 0 /\ f = [n \in M \cup {0} |-> f[n]]
    OBVIOUS
  <2>2. ASSUME NEW n \in M, string[n] = s PROVE f[n] = n
    BY <1>1, <1>4, <1>6, <2>2
  <2>3. ASSUME NEW n \in M, string[n] # s PROVE f[n] = f[branch(n, s)]
    <3>1. next[n] = branch(n, s)
      BY <1>4, <2>3
    <3>2. CASE next[n] = 0
      <4>1. g[n] = n
        BY <1>6, <3>2
      <4> QED BY <1>1, <2>3, <3>1, <3>2, <4>1
    <3>3. CASE next[n] # 0
      <4>1. next[n] \in M /\ g[n] = g[next[n]]
        BY <1>6, <3>3
      <4> QED BY <1>1, <3>1, <4>1
    <3> QED BY <3>2, <3>3
  <2> HIDE DEF f
  <2>4. \A n \in M \cup {0} : f[n] = IF n = 0 \/ string[n] = s THEN n ELSE f[branch(n, s)]
    BY <1>1, <2>1, <2>2, <2>3
  <2> QED BY <2>1, <2>4
<1>8. Is(at)
  BY <1>7
<1> DEFINE S == {n \in M : at[n] = IF string[g[n]] = s THEN g[n] ELSE 0}
<1> HIDE DEF at, f
<1>9. at[0] = 0 /\ \A n \in M : at[n] = IF string[n] = s THEN n ELSE at[branch(n, s)]
  BY <1>1, <1>8
<1>10. ASSUME NEW n \in M, next[n] # 0 => next[n] \in S PROVE n \in S
  <2>1. CASE string[n] = s
    BY <1>4, <1>6, <1>9, <2>1
  <2>2. CASE string[n] # s /\ branch(n, s) = 0
    BY <1>4, <1>6, <1>9, <2>2
  <2>3. CASE string[n] # s /\ branch(n, s) # 0
    <3>1. next[n] = branch(n, s) /\ next[n] \in S /\ g[n] = g[next[n]]
      BY <1>4, <1>6, <1>10, <2>3
    <3> QED BY <1>9, <2>3, <3>1
  <2> QED BY <2>1, <2>2, <2>3
<1> HIDE DEF S
<1>11. M \subseteq S
  BY <1>3, <1>10, WalkInduction
<1> QED BY <1>1, <1>2, <1>9, <1>11 DEF S

(* tree_insert's loop stops where the search halts.                        *)
LEMMA InsertStops ==
    ASSUME NEW rank, NEW b, Links(string, tree, rank, b), NEW w, NEW s,
           NEW g, Halts(g, string, tree, s)
    PROVE  LET grown == [tree EXCEPT !.left = Put(@, w, 0), !.right = Put(@, w, 0)]
               parent == g[tree.root]
           IN  tree_insert(w, s) =
                    IF tree.root = 0 THEN [grown EXCEPT !.root = w]
                    ELSE IF string[parent] = s THEN tree
                    ELSE IF string[parent] < s THEN [grown EXCEPT !.left[parent] = w]
                    ELSE [grown EXCEPT !.right[parent] = w]
<1> DEFINE M == DOMAIN string
           Is(a) == a = [n \in M |-> IF string[n] = s \/ branch(n, s) = 0 THEN n ELSE a[branch(n, s)]]
           last == CHOOSE a : Is(a)
<1>1. DOMAIN tree.left = M
  BY DEF Links
<1>2. Is(g)
  BY DEF Halts, WalkEnds, Turns, branch
<1>3. Is(last)
  BY <1>2
<1> HIDE DEF last
<1>4. WalkEnds(last, M, Turns(string, tree, s))
  BY <1>3 DEF WalkEnds, Turns, branch
<1>5. last = g
  BY <1>4, TurnsRanked, WalkUnique DEF Halts
<1> QED BY <1>1, <1>5 DEF tree_insert, last

(* The tree with a leaf w below p, or with w alone when p is 0.            *)
Leaf(str, t, w, s, p, str2, t2) ==
    /\ w \in Nat \ {0} /\ w \notin DOMAIN str /\ s \in Int
    /\ str2 = Put(str, w, s)
    /\ t2 = [root |-> t2.root, left |-> t2.left, right |-> t2.right]
    /\ t2.root = IF t.root = 0 THEN w ELSE t.root
    /\ t2.left = [n \in DOMAIN str \cup {w} |->
                    IF n = w THEN 0 ELSE IF n = p /\ str[p] < s THEN w ELSE t.left[n]]
    /\ t2.right = [n \in DOMAIN str \cup {w} |->
                    IF n = w THEN 0 ELSE IF n = p /\ ~ (str[p] < s) THEN w ELSE t.right[n]]
    /\ p = 0 \/ (p \in DOMAIN str /\ str[p] # s /\ Turns(str, t, s)[p] = 0)
    /\ p = 0 => t.root = 0

(* Tree_insert of a text that is not there adds a leaf where the search    *)
(* for it stopped (symbols.c:35-55).                                       *)
LEMMA InsertsLeaf ==
    ASSUME NEW rank, NEW b, Links(string, tree, rank, b),
           NEW w \in Nat \ {0}, w \notin DOMAIN string, NEW s \in Int,
           \A n \in DOMAIN string : string[n] # s,
           NEW g, Halts(g, string, tree, s)
    PROVE  Leaf(string, tree, w, s, IF tree.root = 0 THEN 0 ELSE g[tree.root],
                Put(string, w, s), tree_insert(w, s))
<1> DEFINE M == DOMAIN string
           t2 == tree_insert(w, s)
           gl == Put(tree.left, w, 0)
           gr == Put(tree.right, w, 0)
           p == g[tree.root]
<1>1. /\ tree = [root |-> tree.root, left |-> tree.left, right |-> tree.right]
      /\ DOMAIN tree.left = M /\ DOMAIN tree.right = M /\ 0 \notin M
      /\ (tree.root = 0 /\ M = {}) \/ tree.root \in M
  BY DEF Links
<1>2. /\ gl = [n \in M \cup {w} |-> IF n = w THEN 0 ELSE tree.left[n]]
      /\ gr = [n \in M \cup {w} |-> IF n = w THEN 0 ELSE tree.right[n]]
  BY <1>1 DEF Put
<1>3. /\ tree.root = 0 => t2 = [root |-> w, left |-> gl, right |-> gr]
      /\ tree.root # 0 /\ string[p] # s /\ string[p] < s
            => t2 = [root |-> tree.root, left |-> [gl EXCEPT ![p] = w], right |-> gr]
      /\ tree.root # 0 /\ string[p] # s /\ ~ (string[p] < s)
            => t2 = [root |-> tree.root, left |-> gl, right |-> [gr EXCEPT ![p] = w]]
  <2> DEFINE grown == [tree EXCEPT !.left = Put(@, w, 0), !.right = Put(@, w, 0)]
  <2>1. grown = [root |-> tree.root, left |-> gl, right |-> gr]
    <3>1. \A x, y : [tree EXCEPT !.left = x, !.right = y] = [root |-> tree.root, left |-> x, right |-> y]
      <4> TAKE x, y
      <4>1. PICK r, l, q : tree = [root |-> r, left |-> l, right |-> q]
        BY <1>1
      <4>2. [tree EXCEPT !.left = x, !.right = y] = [[tree EXCEPT !.left = x] EXCEPT !.right = y]
        OBVIOUS
      <4>3. [tree EXCEPT !.left = x] = [root |-> r, left |-> x, right |-> q] /\ tree.root = r
        BY <4>1
      <4>4. [[root |-> r, left |-> x, right |-> q] EXCEPT !.right = y]
                = [root |-> r, left |-> x, right |-> y]
        OBVIOUS
      <4> QED BY <4>2, <4>3, <4>4, Zenon
    <3> HIDE DEF gl, gr
    <3>2. grown = [tree EXCEPT !.left = gl, !.right = gr]
      BY DEF gl, gr
    <3> QED BY <3>1, <3>2
  <2>2. t2 = IF tree.root = 0 THEN [grown EXCEPT !.root = w]
             ELSE IF string[p] = s THEN tree
             ELSE IF string[p] < s THEN [grown EXCEPT !.left[p] = w]
             ELSE [grown EXCEPT !.right[p] = w]
    BY InsertStops
  <2> HIDE DEF grown, t2, gl, gr
  <2> QED BY <2>1, <2>2
<1> HIDE DEF t2, gl, gr
<1>4. tree.root # 0 => p \in M /\ string[p] # s /\ Turns(string, tree, s)[p] = 0
  <2>1. tree.root # 0 => tree.root \in M
    BY <1>1
  <2>2. \A n \in M : g[n] \in M /\ Turns(string, tree, s)[g[n]] = 0
    BY TurnsRanked, WalkStops DEF Halts
  <2> QED BY <2>1, <2>2
<1> HIDE DEF p
<1>5. CASE tree.root = 0
  <2>1. t2 = [root |-> w, left |-> gl, right |-> gr] /\ M = {}
    BY <1>1, <1>3, <1>5
  <2>2. Leaf(string, tree, w, s, 0, Put(string, w, s), t2)
    BY <1>2, <1>5, <2>1 DEF Leaf
  <2> QED BY <1>5, <2>2 DEF t2
<1>6. CASE tree.root # 0
  <2>1. p \in M /\ p # w /\ p # 0 /\ string[p] # s
    BY <1>1, <1>4, <1>6
  <2>2. t2.root = tree.root /\ t2 = [root |-> t2.root, left |-> t2.left, right |-> t2.right]
    BY <1>3, <1>6, <2>1
  <2>3. /\ t2.left = IF string[p] < s THEN [gl EXCEPT ![p] = w] ELSE gl
        /\ t2.right = IF string[p] < s THEN gr ELSE [gr EXCEPT ![p] = w]
    BY <1>3, <1>6, <2>1
  <2>4. t2.left = [n \in M \cup {w} |->
                    IF n = w THEN 0 ELSE IF n = p /\ string[p] < s THEN w ELSE tree.left[n]]
    <3>1. CASE string[p] < s
      BY <1>2, <2>1, <2>3, <3>1
    <3>2. CASE ~ (string[p] < s)
      BY <1>2, <2>3, <3>2
    <3> QED BY <3>1, <3>2
  <2>5. t2.right = [n \in M \cup {w} |->
                    IF n = w THEN 0 ELSE IF n = p /\ ~ (string[p] < s) THEN w ELSE tree.right[n]]
    <3>1. CASE string[p] < s
      BY <1>2, <2>3, <3>1
    <3>2. CASE ~ (string[p] < s)
      BY <1>2, <2>1, <2>3, <3>2
    <3> QED BY <3>1, <3>2
  <2>6. Leaf(string, tree, w, s, p, Put(string, w, s), t2)
    BY <1>4, <1>6, <2>1, <2>2, <2>4, <2>5 DEF Leaf
  <2> QED BY <1>6, <2>6 DEF t2, p
<1> QED BY <1>5, <1>6

(* A tree with one more leaf is still a tree.                              *)
LEMMA LeafLinks ==
    ASSUME NEW str, NEW t, NEW rank, NEW b, Links(str, t, rank, b),
           NEW w, NEW s, NEW p, NEW str2, NEW t2, Leaf(str, t, w, s, p, str2, t2)
    PROVE  Links(str2, t2, [n \in DOMAIN str \cup {w} |-> IF n = w THEN 0 ELSE rank[n] + 1], b + 1)
<1> DEFINE M == DOMAIN str
           rank2 == [n \in M \cup {w} |-> IF n = w THEN 0 ELSE rank[n] + 1]
<1>1. /\ DOMAIN str2 = M \cup {w} /\ str2[w] = s /\ s \in Int /\ w \in Nat \ {0} /\ w \notin M
      /\ \A n \in M : str2[n] = str[n]
  BY DEF Leaf, Put
<1>2. /\ b \in Nat /\ b + 1 \in Nat /\ M \subseteq Nat \ {0}
      /\ \A n \in M : str[n] \in Int /\ rank[n] \in 0 .. b
  BY DEF Links
<1>3. t2.root \in DOMAIN str2
  BY <1>1 DEF Leaf, Links
<1>4. /\ t2 = [root |-> t2.root, left |-> t2.left, right |-> t2.right]
      /\ t2.left = [n \in DOMAIN str2 |-> t2.left[n]] /\ t2.right = [n \in DOMAIN str2 |-> t2.right[n]]
  BY <1>1 DEF Leaf
<1>5. /\ t2.left[w] = 0 /\ t2.right[w] = 0
      /\ \A n \in M : t2.left[n] \in {t.left[n], w} /\ t2.right[n] \in {t.right[n], w}
  BY <1>1 DEF Leaf
<1>6. rank2[w] = 0 /\ \A n \in M : rank2[n] = rank[n] + 1
  BY <1>1
<1> HIDE DEF rank2
<1>7. ASSUME NEW n \in DOMAIN str2
      PROVE  /\ str2[n] \in Int /\ rank2[n] \in 0 .. b + 1
             /\ \A c \in {t2.left[n], t2.right[n]} : c = 0 \/ (c \in DOMAIN str2 /\ rank2[c] < rank2[n])
  <2>1. CASE n = w
    BY <1>1, <1>2, <1>5, <1>6, <2>1
  <2>2. CASE n \in M
    <3>1. str2[n] \in Int /\ rank2[n] = rank[n] + 1 /\ rank[n] \in 0 .. b
      BY <1>1, <1>2, <1>6, <2>2
    <3>2. ASSUME NEW c \in {t2.left[n], t2.right[n]}
          PROVE  c = 0 \/ (c \in DOMAIN str2 /\ rank2[c] < rank2[n])
      <4>1. c = w \/ c \in {t.left[n], t.right[n]}
        BY <1>5, <2>2
      <4>2. CASE c = w
        BY <1>1, <1>2, <1>6, <3>1, <4>2
      <4>3. CASE c \in {t.left[n], t.right[n]} /\ c # 0
        <5>1. c \in M /\ rank[c] < rank[n]
          BY <2>2, <4>3 DEF Links
        <5>2. rank[c] \in 0 .. b /\ rank2[c] = rank[c] + 1 /\ c \in DOMAIN str2
          BY <1>1, <1>2, <1>6, <5>1
        <5> QED BY <1>2, <3>1, <5>1, <5>2
      <4> QED BY <4>1, <4>2, <4>3
    <3> QED BY <1>2, <3>1, <3>2
  <2> QED BY <1>1, <2>1, <2>2
<1>8. DOMAIN str2 \subseteq Nat \ {0}
  BY <1>1, <1>2
<1> QED BY <1>2, <1>3, <1>4, <1>7, <1>8 DEF Links, rank2

(* What other searches find stays found; the search for s finds the leaf.  *)
LEMMA LeafFound ==
    ASSUME NEW str, NEW t, SearchTree(str, t), NEW w, NEW s, NEW p, NEW g, Halts(g, str, t, s),
           p = IF t.root = 0 THEN 0 ELSE g[t.root],
           NEW str2, NEW t2, Leaf(str, t, w, s, p, str2, t2)
    PROVE  SearchTree(str2, t2)
<1> DEFINE M == DOMAIN str
<1>1. PICK rank, b : Links(str, t, rank, b)
  BY DEF SearchTree
<1> DEFINE rank2 == [n \in M \cup {w} |-> IF n = w THEN 0 ELSE rank[n] + 1]
<1>2. Links(str2, t2, rank2, b + 1)
  BY <1>1, LeafLinks
<1> HIDE DEF rank2
<1>3. /\ DOMAIN str2 = M \cup {w} /\ str2[w] = s /\ w \notin M /\ w # 0
      /\ \A n \in M : str2[n] = str[n]
  BY DEF Leaf, Put
<1>4. /\ t2.left[w] = 0 /\ t2.right[w] = 0
      /\ \A n \in M : /\ t2.left[n] = IF n = p /\ str[p] < s THEN w ELSE t.left[n]
                      /\ t2.right[n] = IF n = p /\ ~ (str[p] < s) THEN w ELSE t.right[n]
  BY <1>3 DEF Leaf
<1>5. p \in M => str[p] # s /\ (str[p] < s => t.left[p] = 0) /\ (~ (str[p] < s) => t.right[p] = 0)
  <2>1. p \in M => p # 0
    BY <1>1 DEF Links
  <2> QED BY <2>1 DEF Leaf, Turns
<1>6. ASSUME NEW k, NEW f, Halts(f, str, t, k)
      PROVE  \E h : /\ Halts(h, str2, t2, k) /\ h[w] = w
                    /\ \A n \in M : h[n] = IF f[n] = p /\ Turns(str2, t2, k)[p] = w THEN w ELSE f[n]
  <2> DEFINE next == Turns(str, t, k)
             next2 == Turns(str2, t2, k)
  <2>1. Ranked(M, next, rank, b) /\ WalkEnds(f, M, next) /\ Ranked(M \cup {w}, next2, rank2, b + 1)
    BY <1>1, <1>2, <1>3, <1>6, TurnsRanked DEF Halts
  <2>2. PICK h : WalkEnds(h, M \cup {w}, next2)
    BY <2>1, WalkExists
  <2>3. next2[w] = 0 /\ \A n \in M : next2[n] = next[n] \/ (n = p /\ next[n] = 0 /\ next2[n] = w)
    BY <1>3, <1>4, <1>5 DEF Turns
  <2> HIDE DEF next, next2
  <2>4. Longer(M, next, rank, b, f, w, next2, rank2, b + 1, h, p)
    BY <1>3, <2>1, <2>2, <2>3 DEF Longer
  <2>5. h[w] = w /\ \A n \in M : h[n] = IF f[n] = p /\ next2[p] = w THEN w ELSE f[n]
    BY <2>4, WalkGrows
  <2> QED BY <1>3, <2>2, <2>5 DEF Halts, next2
<1>7. \/ t.root = 0 /\ M = {} /\ t2.root = w
      \/ t.root \in M /\ t.root # 0 /\ t2.root = t.root /\ p = g[t.root]
  BY <1>1 DEF Leaf, Links
<1>8. ASSUME NEW n \in M PROVE \E h : Halts(h, str2, t2, str2[n]) /\ h[t2.root] = n
  <2>1. PICK f : Halts(f, str, t, str[n]) /\ f[t.root] = n
    BY DEF SearchTree, Finds
  <2>2. PICK h : /\ Halts(h, str2, t2, str[n])
                 /\ \A m \in M : h[m] = IF f[m] = p /\ Turns(str2, t2, str[n])[p] = w THEN w ELSE f[m]
    BY <1>6, <2>1
  <2>3. n = p => Turns(str2, t2, str[n])[p] = 0
    BY <1>3 DEF Turns
  <2>4. h[t.root] = n
    BY <1>3, <1>7, <2>1, <2>2, <2>3
  <2> QED BY <1>3, <1>7, <2>2, <2>4
<1>9. \E h : Halts(h, str2, t2, s) /\ h[t2.root] = w
  <2>1. PICK h : /\ Halts(h, str2, t2, s) /\ h[w] = w
                 /\ \A m \in M : h[m] = IF g[m] = p /\ Turns(str2, t2, s)[p] = w THEN w ELSE g[m]
    BY <1>6
  <2>2. CASE t.root = 0
    BY <1>7, <2>1, <2>2, <1>1 DEF Links
  <2>3. CASE t.root \in M
    <3>1. t2.root = t.root /\ p = g[t.root] /\ p \in M
      <4>1. t2.root = t.root /\ p = g[t.root]
        BY <1>7, <2>3
      <4>2. Ranked(M, Turns(str, t, s), rank, b)
        BY <1>1, TurnsRanked
      <4>3. g[t.root] \in M
        BY <2>3, <4>2, WalkStops DEF Halts
      <4> QED BY <4>1, <4>3
    <3>2. Turns(str2, t2, s)[p] = w
      BY <1>3, <1>4, <1>5, <3>1 DEF Turns
    <3> QED BY <2>1, <2>3, <3>1, <3>2
  <2> QED BY <1>7, <2>2, <2>3
<1>10. Finds(str2, t2)
  BY <1>3, <1>8, <1>9 DEF Finds
<1> QED BY <1>2, <1>10 DEF SearchTree

(* And a search tree: every text is found where it is.                     *)
LEMMA Inserted ==
    ASSUME SearchTree(string, tree), NEW w \in Nat \ {0}, w \notin DOMAIN string, NEW s \in Int,
           \A n \in DOMAIN string : string[n] # s
    PROVE  SearchTree(Put(string, w, s), tree_insert(w, s))
<1>1. PICK rank, b : Links(string, tree, rank, b)
  BY DEF SearchTree
<1>2. PICK g : Halts(g, string, tree, s)
  BY <1>1, TurnsRanked, WalkExists DEF Halts
<1>3. Leaf(string, tree, w, s, IF tree.root = 0 THEN 0 ELSE g[tree.root],
           Put(string, w, s), tree_insert(w, s))
  BY <1>1, <1>2, InsertsLeaf
<1> QED BY <1>2, <1>3, LeafFound

(* Every text of the tree is found, and none that is not there.            *)
LEMMA Found ==
    ASSUME SearchTree(string, tree)
    PROVE  /\ \A w \in DOMAIN string : lookup_symbol_address(string[w]) = w
           /\ \A s : \/ lookup_symbol_address(s) \in DOMAIN string /\ string[lookup_symbol_address(s)] = s
                     \/ lookup_symbol_address(s) = 0 /\ \A n \in DOMAIN string : string[n] # s
<1>1. PICK rank, b : Links(string, tree, rank, b)
  BY DEF SearchTree
<1>2. 0 \notin DOMAIN string /\ ((tree.root = 0 /\ DOMAIN string = {}) \/ tree.root \in DOMAIN string)
  BY <1>1 DEF Links
<1>3. ASSUME NEW w \in DOMAIN string PROVE lookup_symbol_address(string[w]) = w
  <2>1. PICK g : Halts(g, string, tree, string[w]) /\ g[tree.root] = w
    BY DEF SearchTree, Finds
  <2>2. tree.root # 0
    BY <1>2
  <2> QED BY <1>1, <2>1, <2>2, Lookup
<1>4. ASSUME NEW s
      PROVE  \/ lookup_symbol_address(s) \in DOMAIN string /\ string[lookup_symbol_address(s)] = s
             \/ lookup_symbol_address(s) = 0 /\ \A n \in DOMAIN string : string[n] # s
  <2>1. PICK g : Halts(g, string, tree, s)
    BY <1>1, TurnsRanked, WalkExists DEF Halts
  <2>2. lookup_symbol_address(s) =
            IF tree.root # 0 /\ string[g[tree.root]] = s THEN g[tree.root] ELSE 0
    BY <1>1, <2>1, Lookup
  <2>3. tree.root # 0 => g[tree.root] \in DOMAIN string
    BY <1>1, <1>2, <2>1, TurnsRanked, WalkStops DEF Halts
  <2>4. ASSUME NEW n \in DOMAIN string, string[n] = s PROVE lookup_symbol_address(s) = n
    BY <1>3, <2>4
  <2> QED BY <1>2, <2>2, <2>3, <2>4
<1> QED BY <1>3, <1>4

-----------------------------------------------------------------------------
(* A procedure is entered: after k arguments the new environment has their *)
(* names, of arguments of one name the last value, and nothing else.       *)
Entered(H, own, S, own2, e, args, k) ==
    LET new == Len(H.envs) + 1
    IN  /\ Len(S.envs) = new /\ S.envs[new].last = e
        /\ \A f \in 1 .. Len(H.envs) : S.envs[f].last = H.envs[f].last
        /\ Len(H.nodes) <= Len(S.nodes)
        /\ \A n \in 1 .. Len(H.nodes) : /\ own2[n] = own[n] /\ S.nodes[n].key = H.nodes[n].key
                                        /\ S.nodes[n].value = H.nodes[n].value
        /\ \A n \in 1 .. Len(S.nodes) : n \notin 1 .. Len(H.nodes) =>
                /\ own2[n] = new
                /\ \E i \in 1 .. k : /\ args[i][1] = S.nodes[n].key /\ args[i][2] = S.nodes[n].value
                                     /\ \A j \in 1 .. k : args[j][1] = S.nodes[n].key => j <= i
        /\ \A j \in 1 .. k : \E n \in 1 .. Len(S.nodes) :
                own2[n] = new /\ S.nodes[n].key = args[j][1]

(* An environment has one node for each name: two of one owner and one key *)
(* are the same.                                                           *)
LEMMA KeysDiffer ==
    ASSUME NEW H, NEW W, NEW V, Shape(H, W, V), NEW own, Owned(H, own),
           NEW n \in 1 .. Len(H.nodes), NEW m \in 1 .. Len(H.nodes),
           own[n] = own[m], H.nodes[n].key = H.nodes[m].key
    PROVE  n = m
<1>1. own[n] \in 1 .. Len(H.envs)
  BY DEF Owned
<1>2. env_find(H, own[n], H.nodes[n].key) = n
  BY <1>1, FindOwned
<1>3. env_find(H, own[n], H.nodes[n].key) = m
  BY <1>1, FindOwned
<1> QED BY <1>2, <1>3

(* One argument of a call is set (vm_ops.c:72-79).                         *)
LEMMA ArgumentSet ==
    ASSUME NEW H, NEW W, NEW V, Shape(H, W, V), NEW own, Owned(H, own),
           NEW S, Shape(S, W, V), NEW own2, Owned(S, own2), NEW e, NEW args, NEW k \in Nat,
           Entered(H, own, S, own2, e, args, k),
           NEW S2, Shape(S2, W, V), NEW own3, Owned(S2, own3),
           Sets(S, own2, S2, own3, Len(H.envs) + 1, args[k + 1][1], args[k + 1][2])
    PROVE  Entered(H, own, S2, own3, e, args, k + 1)
<1> DEFINE new == Len(H.envs) + 1
           a == args[k + 1]
<1>1. /\ Len(H.nodes) \in Nat /\ Len(S.nodes) \in Nat /\ Len(S2.nodes) \in Nat /\ Len(H.envs) \in Nat
      /\ Len(H.nodes) <= Len(S.nodes) /\ Len(S.nodes) <= Len(S2.nodes)
  BY ShapeFacts DEF Entered, Sets
<1>2. /\ 1 .. Len(H.nodes) \subseteq 1 .. Len(S.nodes)
      /\ 1 .. Len(S.nodes) \subseteq 1 .. Len(S2.nodes)
      /\ 1 .. k + 1 = (1 .. k) \cup {k + 1} /\ 1 .. Len(H.envs) \subseteq 1 .. new
      /\ new \in 1 .. new /\ new \notin 1 .. Len(H.envs) /\ k + 1 \notin 1 .. k
      /\ Len(H.nodes) <= Len(S2.nodes)
  BY <1>1
<1>3. /\ Len(S.envs) = new /\ S.envs[new].last = e
      /\ \A f \in 1 .. Len(H.envs) : S.envs[f].last = H.envs[f].last
  BY DEF Entered
<1>4. /\ Len(S2.envs) = new /\ S2.envs[new].last = e
      /\ \A f \in 1 .. Len(H.envs) : S2.envs[f].last = H.envs[f].last
  BY <1>2, <1>3 DEF Sets
<1>5. PICK m \in 1 .. Len(S2.nodes) :
            /\ own3[m] = new /\ S2.nodes[m].key = a[1] /\ S2.nodes[m].value = a[2]
            /\ \A n \in 1 .. Len(S2.nodes) :
                    n # m => n \in 1 .. Len(S.nodes) /\ S2.nodes[n].value = S.nodes[n].value
  BY DEF Sets
<1>6. \A n \in 1 .. Len(S.nodes) : own3[n] = own2[n] /\ S2.nodes[n].key = S.nodes[n].key
  BY DEF Sets
<1>7. \A n \in 1 .. Len(S2.nodes) : own3[n] = new /\ S2.nodes[n].key = a[1] => n = m
  BY <1>5, KeysDiffer
<1>8. ASSUME NEW n \in 1 .. Len(H.nodes)
      PROVE  /\ own3[n] = own[n] /\ S2.nodes[n].key = H.nodes[n].key
             /\ S2.nodes[n].value = H.nodes[n].value
  <2>1. own2[n] = own[n] /\ S.nodes[n].key = H.nodes[n].key /\ S.nodes[n].value = H.nodes[n].value
    BY DEF Entered
  <2>2. own[n] \in 1 .. Len(H.envs)
    BY DEF Owned
  <2>3. n # m
    BY <1>2, <1>5, <1>6, <2>1, <2>2
  <2> QED BY <1>2, <1>5, <1>6, <2>1, <2>3
<1>9. ASSUME NEW n \in 1 .. Len(S2.nodes), n \notin 1 .. Len(H.nodes)
      PROVE  /\ own3[n] = new
             /\ \E i \in 1 .. k + 1 :
                    /\ args[i][1] = S2.nodes[n].key /\ args[i][2] = S2.nodes[n].value
                    /\ \A j \in 1 .. k + 1 : args[j][1] = S2.nodes[n].key => j <= i
  <2>1. CASE n = m
    <3>1. args[k + 1][1] = S2.nodes[n].key /\ args[k + 1][2] = S2.nodes[n].value /\ own3[n] = new
      BY <1>5, <2>1
    <3>2. \A j \in 1 .. k + 1 : j <= k + 1
      OBVIOUS
    <3>3. k + 1 \in 1 .. k + 1
      BY <1>2
    <3> QED BY <3>1, <3>2, <3>3
  <2>2. CASE n # m
    <3>1. /\ n \in 1 .. Len(S.nodes) /\ S2.nodes[n].value = S.nodes[n].value
          /\ own3[n] = own2[n] /\ S2.nodes[n].key = S.nodes[n].key
      BY <1>5, <1>6, <2>2
    <3>2. /\ own2[n] = new
          /\ \E i \in 1 .. k : /\ args[i][1] = S.nodes[n].key /\ args[i][2] = S.nodes[n].value
                               /\ \A j \in 1 .. k : args[j][1] = S.nodes[n].key => j <= i
      BY <1>9, <3>1 DEF Entered
    <3>3. args[k + 1][1] # S2.nodes[n].key
      BY <1>7, <2>2, <3>1, <3>2
    <3> QED BY <1>2, <3>1, <3>2, <3>3
  <2> QED BY <2>1, <2>2
<1>10. ASSUME NEW j \in 1 .. k + 1
       PROVE  \E n \in 1 .. Len(S2.nodes) : own3[n] = new /\ S2.nodes[n].key = args[j][1]
  <2>1. CASE j = k + 1
    BY <1>5, <2>1
  <2>2. CASE j \in 1 .. k
    <3>1. PICK n \in 1 .. Len(S.nodes) : own2[n] = new /\ S.nodes[n].key = args[j][1]
      BY <2>2 DEF Entered
    <3> QED BY <1>2, <1>6, <3>1
  <2> QED BY <1>2, <2>1, <2>2
<1> QED BY <1>2, <1>4, <1>8, <1>9, <1>10 DEF Entered

(* vm_load_lambda_args leaves one more environment, with the arguments.    *)
LEMMA ArgsBound ==
    ASSUME NEW H, NEW W, NEW V, Shape(H, W, V), W \subseteq Int, NEW own, Owned(H, own),
           NEW e \in 1 .. Len(H.envs), NEW args, Len(args) \in Nat,
           \A i \in 1 .. Len(args) : args[i][1] \in W /\ args[i][2] \in V
    PROVE  \E own2 : /\ Shape(Bound(env_create(H, e), args), W, V)
                     /\ Owned(Bound(env_create(H, e), args), own2)
                     /\ Entered(H, own, Bound(env_create(H, e), args), own2, e, args, Len(args))
<1> DEFINE C == env_create(H, e)
           N == Len(args)
           new == Len(H.envs) + 1
           Is(f, k) == f = [i \in 0 .. k |->
                                IF i = 0 THEN C
                                ELSE env_set(f[i - 1], Len(C.envs), args[i][1], args[i][2])]
           after == CHOOSE f : Is(f, N)
           Good(S, k) == \E own2 : /\ Shape(S, W, V) /\ Owned(S, own2)
                                   /\ Entered(H, own, S, own2, e, args, k)
           last == [i \in 1 .. N |-> i - 1]
<1>1. Bound(C, args) = after[N]
  BY DEF Bound
<1>2. /\ Shape(C, W, V) /\ Owned(C, own) /\ C.nodes = H.nodes
      /\ Len(C.envs) = new /\ C.envs[new].last = e
      /\ \A f \in 1 .. Len(H.envs) : C.envs[f] = H.envs[f]
  BY EnvCreate
<1> HIDE DEF C
<1>3. N \in Nat /\ Outwards(last, N) /\ (\A i \in 1 .. N : last[i] = i - 1) /\ N \in 0 .. N
  BY DEF Outwards
<1> HIDE DEF N, last
<1>4. \E f : Is(f, N)
  <2> DEFINE T == {k \in 0 .. N : \E f : Is(f, k)}
  <2>1. 0 \in T
    <3>1. Is([i \in 0 .. 0 |-> C], 0)
      OBVIOUS
    <3>2. 0 \in 0 .. N
      BY <1>3
    <3> HIDE DEF Is
    <3> QED BY <3>1, <3>2
  <2>2. ASSUME NEW i \in 1 .. N, last[i] \in T PROVE i \in T
    <3>1. i - 1 \in T /\ i \in Nat /\ i # 0 /\ i \in 0 .. N
      <4>1. i \in Nat /\ i # 0 /\ i \in 0 .. N
        BY <1>3
      <4> HIDE DEF T
      <4> QED BY <1>3, <2>2, <4>1
    <3>2. PICK f : Is(f, i - 1)
      BY <3>1
    <3> DEFINE g == [j \in 0 .. i |->
                        IF j = i THEN env_set(f[i - 1], Len(C.envs), args[i][1], args[i][2]) ELSE f[j]]
    <3>3. \A j \in 0 .. i - 1 : g[j] = f[j]
      BY <3>1
    <3>4. g[i] = env_set(g[i - 1], Len(C.envs), args[i][1], args[i][2])
      BY <3>1, <3>3
    <3>5. ASSUME NEW j \in 0 .. i - 1
          PROVE  g[j] = IF j = 0 THEN C ELSE env_set(g[j - 1], Len(C.envs), args[j][1], args[j][2])
      <4>1. f[j] = IF j = 0 THEN C ELSE env_set(f[j - 1], Len(C.envs), args[j][1], args[j][2])
        BY <3>2
      <4>2. j # 0 => j - 1 \in 0 .. i - 1
        BY <3>1
      <4> HIDE DEF g
      <4> QED BY <3>3, <4>1, <4>2
    <3>6. DOMAIN g = 0 .. i /\ g = [j \in 0 .. i |-> g[j]] /\ \A j \in 0 .. i : j = i \/ j \in 0 .. i - 1
      BY <3>1
    <3> HIDE DEF g
    <3>7. \A j \in 0 .. i :
            g[j] = IF j = 0 THEN C ELSE env_set(g[j - 1], Len(C.envs), args[j][1], args[j][2])
      BY <3>1, <3>4, <3>5, <3>6
    <3>8. Is(g, i)
      BY <3>6, <3>7
    <3> HIDE DEF Is
    <3> QED BY <3>1, <3>8
  <2> HIDE DEF T
  <2>3. 0 .. N \subseteq T
    BY <1>3, <2>1, <2>2, OutwardInduction
  <2> QED BY <1>3, <2>3 DEF T
<1>5. Is(after, N)
  BY <1>4
<1> HIDE DEF after
<1>6. after[0] = C /\ \A i \in 1 .. N : after[i] = env_set(after[i - 1], new, args[i][1], args[i][2])
  <2>1. \A i \in 0 .. N :
            after[i] = IF i = 0 THEN C ELSE env_set(after[i - 1], Len(C.envs), args[i][1], args[i][2])
    BY <1>5
  <2>2. 0 \in 0 .. N /\ \A i \in 1 .. N : i \in 0 .. N /\ i # 0
    BY <1>3
  <2> QED BY <1>2, <2>1, <2>2
<1> DEFINE T == {k \in 0 .. N : Good(after[k], k)}
<1>7. 0 \in T
  <2>1. Len(H.nodes) \in Nat
    BY ShapeFacts
  <2>2. Entered(H, own, C, own, e, args, 0)
    BY <1>2, <2>1 DEF Entered
  <2>3. Good(C, 0) /\ 0 \in 0 .. N
    BY <1>2, <1>3, <2>2
  <2> HIDE DEF Good
  <2> QED BY <1>6, <2>3
<1>8. ASSUME NEW i \in 1 .. N, last[i] \in T PROVE i \in T
  <2> DEFINE S == after[i - 1]
             S2 == after[i]
  <2>1. i - 1 \in T /\ i - 1 \in Nat /\ (i - 1) + 1 = i /\ i \in 0 .. N
    <3>1. i - 1 \in Nat /\ (i - 1) + 1 = i /\ i \in 0 .. N
      BY <1>3
    <3> HIDE DEF T
    <3> QED BY <1>3, <1>8, <3>1
  <2>2. PICK own2 : Shape(S, W, V) /\ Owned(S, own2) /\ Entered(H, own, S, own2, e, args, i - 1)
    BY <2>1
  <2>3. S2 = env_set(S, new, args[i][1], args[i][2])
    BY <1>6
  <2> HIDE DEF S, S2
  <2>4. new \in 1 .. Len(S.envs)
    <3>1. Len(H.envs) \in Nat
      BY ShapeFacts
    <3>2. Len(S.envs) = new
      BY <2>2 DEF Entered
    <3> QED BY <3>1, <3>2
  <2>5. args[i][1] \in W /\ args[i][2] \in V
    BY DEF N
  <2> DEFINE key == args[i][1]
             v == args[i][2]
  <2>6. key \in W /\ v \in V /\ S2 = env_set(S, new, key, v)
    BY <2>3, <2>5
  <2> HIDE DEF key, v, new
  <2>7. PICK own3 : /\ Shape(S2, W, V) /\ Owned(S2, own3)
                    /\ Sets(S, own2, S2, own3, new, key, v)
    <3>1. \E own3 : /\ Shape(env_set(S, new, key, v), W, V) /\ Owned(env_set(S, new, key, v), own3)
                    /\ Sets(S, own2, env_set(S, new, key, v), own3, new, key, v)
      BY <2>2, <2>4, <2>6, EnvSet
    <3> QED BY <2>6, <3>1
  <2>8. Sets(S, own2, S2, own3, Len(H.envs) + 1, args[(i - 1) + 1][1], args[(i - 1) + 1][2])
    BY <2>1, <2>7 DEF key, v, new
  <2>9. Entered(H, own, S2, own3, e, args, (i - 1) + 1)
    BY <2>1, <2>2, <2>7, <2>8, ArgumentSet
  <2>10. Good(S2, i)
    BY <2>1, <2>7, <2>9
  <2> HIDE DEF Good
  <2> QED BY <2>1, <2>10 DEF S2
<1> HIDE DEF T
<1>9. 0 .. N \subseteq T
  BY <1>3, <1>7, <1>8, OutwardInduction
<1>10. Good(after[N], N)
  <2> HIDE DEF Good
  <2> QED BY <1>3, <1>9 DEF T
<1> QED BY <1>1, <1>10 DEF N, C

-----------------------------------------------------------------------------
(* The inductive invariant: the tree has all the strings, and the builtins *)
(* that are not stored yet are not among them; the environments have their *)
(* shape and share no node.                                                *)
SymbolsInv ==
    /\ SearchTree(string, tree)
    /\ DOMAIN string = words /\ words \subseteq Word
    /\ \A n \in words : string[n] \in Text
    /\ stored \in 0 .. Len(Builtins)
    /\ ~ Running => \A n \in words : \E i \in 1 .. stored : string[n] = Builtins[i]

EnvironmentsInv ==
    /\ Shape(AllEnvs, words, Value) /\ \E own : Owned(AllEnvs, own)
    /\ 1 <= Len(envs) /\ var_refs \subseteq 1 .. Len(nodes)

IInv == SymbolsInv /\ EnvironmentsInv

(* The environment of the builtins, made by vm_init, of strings that no    *)
(* two are alike.                                                          *)
LEMMA InitInv == Init => IInv
<1> SUFFICES ASSUME Init PROVE IInv
  OBVIOUS
<1> USE DEF Init
<1>1. SymbolsInv
  <2>1. DOMAIN string = {} /\ Len(Builtins) \in Nat
    BY BuiltinsAssumption, LenProperties
  <2>2. Links(string, tree, <<>>, 0)
    BY <2>1 DEF Links, EmptyTree
  <2>3. SearchTree(string, tree)
    BY <2>1, <2>2 DEF SearchTree, Finds
  <2> QED BY <2>1, <2>3 DEF SymbolsInv
<1>2. EnvironmentsInv
  <2>1. /\ AllEnvs = [envs |-> AllEnvs.envs, nodes |-> AllEnvs.nodes]
        /\ AllEnvs.envs = <<Environment(0)>> /\ AllEnvs.nodes = <<>>
    BY DEF AllEnvs
  <2>2. /\ Environment(0) \in [root : Nat, last : Nat]
        /\ Environment(0).root = 0 /\ Environment(0).last = 0
    BY DEF Environment
  <2> HIDE DEF Environment
  <2>3. /\ AllEnvs.envs \in Seq([root : Nat, last : Nat])
        /\ AllEnvs.nodes \in Seq([key : words, value : Value, left : Nat, right : Nat])
        /\ Len(AllEnvs.envs) = 1 /\ AllEnvs.envs[1] = Environment(0) /\ Len(AllEnvs.nodes) = 0
    BY <2>1, <2>2
  <2>4. \A e \in 1 .. 1 : e = 1
    OBVIOUS
  <2>5. 1 .. 0 = {}
    OBVIOUS
  <2>6. Shape(AllEnvs, words, Value)
    <3>1. \A e \in 1 .. Len(AllEnvs.envs) :
            AllEnvs.envs[e].root <= Len(AllEnvs.nodes) /\ AllEnvs.envs[e].last < e
      BY <2>2, <2>3, <2>4
    <3>2. 1 .. Len(AllEnvs.nodes) = {}
      BY <2>3
    <3>3. AllEnvs = [envs |-> AllEnvs.envs, nodes |-> AllEnvs.nodes]
      BY <2>1
    <3> QED BY <2>3, <3>1, <3>2, <3>3 DEF Shape
  <2>7. Owned(AllEnvs, <<>>)
    BY <2>2, <2>3, <2>4, <2>5 DEF Owned
  <2> QED BY <2>6, <2>7 DEF EnvironmentsInv
<1> QED BY <1>1, <1>2 DEF IInv

(* store_symbol of a text that has no word makes it one.                   *)
LEMMA Stored ==
    ASSUME SymbolsInv, NEW w \in Fresh, NEW s \in Text, \A n \in words : string[n] # s,
           store_symbol(w, s), words' = words \cup {w}
    PROVE  /\ SearchTree(string', tree') /\ DOMAIN string' = words' /\ words' \subseteq Word
           /\ \A n \in words' : string'[n] \in Text
           /\ \A n \in words : string'[n] = string[n]
           /\ string'[w] = s
<1>1. /\ w \in Word /\ w \in Nat \ {0} /\ w \notin DOMAIN string /\ s \in Int
      /\ DOMAIN string = words /\ words \subseteq Word
  BY WordAssumption, TextAssumption DEF Fresh, SymbolsInv
<1>2. string' = Put(string, w, s) /\ tree' = tree_insert(w, s)
  BY DEF store_symbol
<1>3. SearchTree(Put(string, w, s), tree_insert(w, s))
  BY <1>1, Inserted DEF SymbolsInv
<1>4. DOMAIN string' = words' /\ string'[w] = s /\ \A n \in words : string'[n] = string[n]
  BY <1>1, <1>2 DEF Put
<1>5. \A n \in words' : string'[n] \in Text
  BY <1>4 DEF SymbolsInv
<1> QED BY <1>1, <1>2, <1>3, <1>4, <1>5

(* Whatever is read, the table keeps every word it has returned            *)
(* (symbols.c:71-94).                                                      *)
LEMMA SymbolsStep ==
    ASSUME SymbolsInv, [Next]_namevars
    PROVE  SymbolsInv' /\ words \subseteq words' /\ \A n \in words : string'[n] = string[n]
<1> DEFINE Same == UNCHANGED <<symbolvars, stored, words>>
<1>1. CASE Same
  <2>1. string' = string /\ tree' = tree /\ stored' = stored /\ words' = words
    BY <1>1 DEF symbolvars
  <2>2. SymbolsInv'
    BY <2>1 DEF SymbolsInv, Running
  <2> QED BY <2>1, <2>2
<1>2. CASE vm_add_op
  <2> DEFINE s == Builtins[stored + 1]
  <2>0. ~ Running /\ stored' = stored + 1
    BY <1>2 DEF vm_add_op
  <2> DEFINE L == Len(Builtins)
  <2>1. L \in Nat /\ DOMAIN Builtins = 1 .. L /\ stored # L /\ stored \in 0 .. L
    <3>1. L \in Nat /\ DOMAIN Builtins = 1 .. L
      BY BuiltinsAssumption, LenProperties
    <3>2. stored # L /\ stored \in 0 .. L
      BY <2>0 DEF SymbolsInv, Running
    <3> QED BY <3>1, <3>2
  <2> HIDE DEF L
  <2>2. /\ stored \in Nat /\ stored + 1 \in 1 .. L /\ 1 .. stored \subseteq 1 .. L
        /\ stored + 1 \in 0 .. L /\ 1 .. stored \subseteq 1 .. stored + 1
        /\ stored + 1 \in 1 .. stored + 1 /\ stored + 1 \notin 1 .. stored
    BY <2>1
  <2>3. s \in Text
    BY <2>2, BuiltinsAssumption, ElementOfSeq DEF L
  <2>4. ASSUME NEW n \in words PROVE string[n] # s
    <3>1. PICK i \in 1 .. stored : string[n] = Builtins[i]
      BY <2>0 DEF SymbolsInv
    <3>2. i # stored + 1 /\ i \in DOMAIN Builtins /\ stored + 1 \in DOMAIN Builtins
      BY <2>1, <2>2
    <3> QED BY <3>1, <3>2, BuiltinsAssumption DEF IsInjective
  <2>5. PICK w \in Fresh : store_symbol(w, s) /\ words' = words \cup {w}
    BY <1>2 DEF vm_add_op
  <2> HIDE DEF s
  <2>6. /\ SearchTree(string', tree') /\ DOMAIN string' = words' /\ words' \subseteq Word
        /\ \A n \in words' : string'[n] \in Text
        /\ \A n \in words : string'[n] = string[n]
        /\ string'[w] = s
    BY <2>3, <2>4, <2>5, Stored
  <2>7. stored' = stored + 1 /\ stored' \in 0 .. L
    BY <2>0, <2>2
  <2>8. ASSUME NEW n \in words' PROVE \E i \in 1 .. stored' : string'[n] = Builtins[i]
    <3>1. CASE n = w
      <4>1. stored + 1 \in 1 .. stored'
        BY <2>2, <2>7
      <4> QED BY <2>6, <3>1, <4>1 DEF s
    <3>2. CASE n \in words
      <4>1. \E i \in 1 .. stored : string[n] = Builtins[i]
        BY <2>0, <3>2 DEF SymbolsInv
      <4>2. 1 .. stored \subseteq 1 .. stored'
        BY <2>2, <2>7
      <4> QED BY <2>6, <3>2, <4>1, <4>2
    <3> QED BY <2>5, <3>1, <3>2
  <2> QED BY <2>5, <2>6, <2>7, <2>8 DEF SymbolsInv, L
<1>3. CASE read_symbol
  <2>1. PICK w \in Word, s \in Text : try_store_symbol(w, s) /\ words' = words \cup {w}
    BY <1>3 DEF read_symbol
  <2> DEFINE ret == lookup_symbol_address(s)
  <2>2. \/ ret \in DOMAIN string /\ string[ret] = s
        \/ ret = 0 /\ \A n \in DOMAIN string : string[n] # s
    BY Found DEF SymbolsInv
  <2>3. \/ ret # 0 /\ w = ret /\ UNCHANGED symbolvars
        \/ ret = 0 /\ w \in Fresh /\ store_symbol(w, s)
    BY <2>1 DEF try_store_symbol
  <2> HIDE DEF ret
  <2>4. stored' = stored /\ Running /\ Running'
    BY <1>3 DEF read_symbol, Running
  <2>5. CASE ret # 0
    <3>1. words' = words
      BY <2>1, <2>2, <2>3, <2>5 DEF SymbolsInv
    <3>2. Same
      BY <2>3, <2>4, <2>5, <3>1
    <3> QED BY <1>1, <3>2
  <2>6. CASE ret = 0
    <3>1. w \in Fresh /\ store_symbol(w, s) /\ 0 \notin words
      BY <2>3, <2>6, WordAssumption DEF SymbolsInv
    <3>2. \A n \in words : string[n] # s
      BY <2>2, <2>6, <3>1 DEF SymbolsInv
    <3>3. /\ SearchTree(string', tree') /\ DOMAIN string' = words' /\ words' \subseteq Word
          /\ \A n \in words' : string'[n] \in Text
          /\ \A n \in words : string'[n] = string[n]
      BY <2>1, <3>1, <3>2, Stored
    <3> QED BY <2>1, <2>4, <3>3 DEF SymbolsInv
  <2> QED BY <2>5, <2>6
<1>4. ASSUME vm_op_intern_define \/ vm_op_intern_set \/ vm_load_lambda_args \/ add_closure_node
      PROVE  Same
  BY <1>4 DEF vm_op_intern_define, vm_op_intern_set, vm_load_lambda_args, add_closure_node, symbolvars
<1>5. CASE UNCHANGED namevars
  BY <1>1, <1>5 DEF namevars
<1> QED BY <1>1, <1>2, <1>3, <1>4, <1>5 DEF Next

(* More words do not change the heap.                                      *)
LEMMA ShapeGrows ==
    ASSUME NEW H, NEW W, NEW V, Shape(H, W, V), NEW W2, W \subseteq W2
    PROVE  Shape(H, W2, V)
<1>1. [key : W, value : V, left : Nat, right : Nat] \subseteq [key : W2, value : V, left : Nat, right : Nat]
  OBVIOUS
<1>2. H.nodes \in Seq([key : W2, value : V, left : Nat, right : Nat])
  <2>1. H.nodes \in Seq([key : W, value : V, left : Nat, right : Nat])
    BY DEF Shape
  <2> DEFINE A == [key : W, value : V, left : Nat, right : Nat]
             B == [key : W2, value : V, left : Nat, right : Nat]
  <2>2. A \subseteq B /\ H.nodes \in Seq(A)
    BY <1>1, <2>1
  <2> HIDE DEF A, B
  <2>3. H.nodes \in Seq(B)
    BY <2>2
  <2> QED BY <2>3 DEF B
<1> QED BY <1>2 DEF Shape

(* What BoundedSeq of the library is.                                      *)
LEMMA Bounded ==
    ASSUME NEW X, NEW n \in Nat, NEW s \in BoundedSeq(X, n)
    PROVE  s \in Seq(X) /\ Len(s) \in 0 .. n /\ DOMAIN s = 1 .. Len(s) /\ \A i \in 1 .. Len(s) : s[i] \in X
<1>1. PICK m \in 0 .. n : s \in [1 .. m -> X]
  BY DEF BoundedSeq, SeqOf
<1>2. m \in Nat /\ s \in Seq(X)
  BY <1>1
<1>3. Len(s) = m /\ DOMAIN s = 1 .. m
  BY <1>1, <1>2
<1> QED BY <1>1, <1>2, <1>3

(* The heap an operation returned is the next one.                         *)
LEMMA Becomes ==
    ASSUME EnvironmentsInv, NEW S, becomes(S), NEW own2, Shape(S, words', Value), Owned(S, own2),
           Len(nodes) <= Len(S.nodes), Len(envs) <= Len(S.envs), var_refs' = var_refs
    PROVE  EnvironmentsInv' /\ AllEnvs' = S
<1>1. S = [envs |-> S.envs, nodes |-> S.nodes] /\ envs' = S.envs /\ nodes' = S.nodes
  BY DEF Shape, becomes
<1>2. AllEnvs' = [envs |-> envs', nodes |-> nodes']
  BY DEF AllEnvs
<1>3. AllEnvs' = S
  BY <1>1, <1>2
<1>4. /\ Len(nodes) \in Nat /\ Len(envs) \in Nat /\ Len(S.nodes) \in Nat /\ Len(S.envs) \in Nat
      /\ 1 <= Len(envs) /\ var_refs \subseteq 1 .. Len(nodes)
  <2>1. AllEnvs.envs = envs /\ AllEnvs.nodes = nodes
    BY DEF AllEnvs
  <2>2. Len(AllEnvs.nodes) \in Nat /\ Len(AllEnvs.envs) \in Nat
    BY ShapeFacts DEF EnvironmentsInv
  <2> QED BY <2>1, <2>2, ShapeFacts DEF EnvironmentsInv
<1>5. 1 <= Len(S.envs) /\ var_refs \subseteq 1 .. Len(S.nodes)
  BY <1>4
<1>6. 1 <= Len(envs') /\ var_refs' \subseteq 1 .. Len(nodes')
  <2>1. envs' = S.envs /\ nodes' = S.nodes
    BY DEF becomes
  <2> QED BY <1>5, <2>1
<1>7. Shape(AllEnvs', words', Value) /\ Owned(AllEnvs', own2)
  BY <1>3
<1> QED BY <1>3, <1>6, <1>7 DEF EnvironmentsInv

(* What a step may do to the environments: nothing, set a name in one of   *)
(* them, add one with the arguments of a procedure, or keep a pointer to   *)
(* the node that was found.                                                *)
LEMMA EnvironmentsStep ==
    ASSUME IInv, [Next]_namevars, NEW own, Owned(AllEnvs, own)
    PROVE  /\ EnvironmentsInv'
           /\ \E own2 :
                /\ Owned(AllEnvs', own2)
                /\ \/ AllEnvs' = AllEnvs /\ own2 = own /\ var_refs' = var_refs
                   \/ /\ \E e \in 1 .. Len(envs), key \in words', v \in Value :
                            Sets(AllEnvs, own, AllEnvs', own2, e, key, v)
                      /\ var_refs' = var_refs
                   \/ /\ \E e \in 1 .. Len(envs), args \in BoundedSeq(words \X Value, MaxParams) :
                            Entered(AllEnvs, own, AllEnvs', own2, e, args, Len(args))
                      /\ var_refs' = var_refs
                   \/ /\ AllEnvs' = AllEnvs /\ own2 = own
                      /\ \E e \in 1 .. Len(envs), sym \in words :
                            /\ env_find_recurse(AllEnvs, e, sym) # 0
                            /\ var_refs' = var_refs \cup {env_find_recurse(AllEnvs, e, sym)}
<1> DEFINE H == AllEnvs
           Step(own2) ==
                \/ AllEnvs' = H /\ own2 = own /\ var_refs' = var_refs
                \/ /\ \E e \in 1 .. Len(envs), key \in words', v \in Value :
                            Sets(H, own, AllEnvs', own2, e, key, v)
                   /\ var_refs' = var_refs
                \/ /\ \E e \in 1 .. Len(envs), args \in BoundedSeq(words \X Value, MaxParams) :
                            Entered(H, own, AllEnvs', own2, e, args, Len(args))
                   /\ var_refs' = var_refs
                \/ /\ AllEnvs' = H /\ own2 = own
                   /\ \E e \in 1 .. Len(envs), sym \in words :
                            /\ env_find_recurse(H, e, sym) # 0
                            /\ var_refs' = var_refs \cup {env_find_recurse(H, e, sym)}
           Goal == EnvironmentsInv' /\ \E own2 : Owned(AllEnvs', own2) /\ Step(own2)
<1>1. /\ SymbolsInv' /\ words \subseteq words' /\ words' \subseteq Int /\ words \subseteq Int
  <2>1. SymbolsInv' /\ words \subseteq words'
    BY SymbolsStep DEF IInv
  <2>2. words' \subseteq Word
    BY <2>1 DEF SymbolsInv
  <2> QED BY <2>1, <2>2, WordAssumption
<1>2. /\ Shape(H, words, Value) /\ Shape(H, words', Value) /\ EnvironmentsInv
      /\ H.envs = envs /\ H.nodes = nodes
      /\ DOMAIN envs = 1 .. Len(envs) /\ Len(envs) \in Nat /\ Len(nodes) \in Nat /\ 1 <= Len(envs)
  <2>1. Shape(H, words, Value) /\ EnvironmentsInv /\ 1 <= Len(envs)
    BY DEF IInv, EnvironmentsInv
  <2>2. H.envs = envs /\ H.nodes = nodes
    BY DEF AllEnvs
  <2>3. DOMAIN H.envs = 1 .. Len(H.envs) /\ Len(H.envs) \in Nat /\ Len(H.nodes) \in Nat
    BY <2>1, ShapeFacts
  <2> QED BY <1>1, <2>1, <2>2, <2>3, ShapeGrows
<1> HIDE DEF H
<1>3. ASSUME NEW S, becomes(S), NEW own2, Shape(S, words', Value), Owned(S, own2),
             NEW e \in 1 .. Len(envs), NEW key \in words', NEW v \in Value,
             Sets(H, own, S, own2, e, key, v), var_refs' = var_refs
      PROVE  Goal
  <2>1. Len(nodes) <= Len(S.nodes) /\ Len(envs) <= Len(S.envs)
    BY <1>2, <1>3 DEF Sets
  <2>2. EnvironmentsInv' /\ AllEnvs' = S
    BY <1>2, <1>3, <2>1, Becomes
  <2> QED BY <1>3, <2>2
<1>4. ASSUME NEW e \in 1 .. Len(envs), NEW key \in words', NEW v \in Value,
             becomes(env_set(H, e, key, v)), var_refs' = var_refs
      PROVE  Goal
  <2> DEFINE S == env_set(H, e, key, v)
  <2>1. PICK own2 : Shape(S, words', Value) /\ Owned(S, own2) /\ Sets(H, own, S, own2, e, key, v)
    BY <1>1, <1>2, EnvSet DEF H
  <2> HIDE DEF Goal, S
  <2> QED BY <1>3, <1>4, <2>1 DEF S
<1>5. CASE UNCHANGED <<envvars, var_refs>>
  <2>1. envs' = envs /\ nodes' = nodes /\ var_refs' = var_refs
    BY <1>5 DEF envvars
  <2>2. AllEnvs' = H
    BY <2>1 DEF H, AllEnvs
  <2>3. EnvironmentsInv'
    BY <1>2, <2>1, <2>2 DEF EnvironmentsInv, H
  <2> QED BY <2>1, <2>2, <2>3 DEF H
<1>6. CASE vm_add_op
  <2>1. PICK w \in Fresh, v \in Value :
            words' = words \cup {w} /\ becomes(env_set(H, 1, w, v)) /\ var_refs' = var_refs
    BY <1>6 DEF vm_add_op, H
  <2>2. w \in words' /\ 1 \in 1 .. Len(envs)
    BY <1>2, <2>1
  <2> HIDE DEF Goal
  <2>3. Goal
    BY <1>4, <2>1, <2>2
  <2> QED BY <2>3 DEF Goal, H
<1>7. CASE vm_op_intern_define
  <2>1. PICK e \in 1 .. Len(envs), sym \in words, datum \in Value :
            becomes(env_set(H, e, sym, datum)) /\ var_refs' = var_refs
    BY <1>2, <1>7 DEF vm_op_intern_define, H
  <2> HIDE DEF Goal
  <2>2. Goal
    BY <1>1, <1>4, <2>1
  <2> QED BY <2>2 DEF Goal, H
<1>8. CASE vm_op_intern_set
  <2>1. PICK e \in 1 .. Len(envs), sym \in words, datum \in Value :
            becomes(env_set_recurse(H, e, sym, datum)) /\ var_refs' = var_refs
    BY <1>2, <1>8 DEF vm_op_intern_set, H
  <2>2. Outwards(Lasts(H), Len(H.envs))
    BY <1>2, LastsOutward
  <2>3. PICK f : Inner(f, Binders(H, sym), Lasts(H), Len(H.envs))
    BY <2>2, InnerExists
  <2> DEFINE S == env_set_recurse(H, e, sym, datum)
             d == IF f[e] = 0 THEN e ELSE f[e]
  <2>4. sym \in words' /\ e \in 1 .. Len(H.envs)
    BY <1>1, <1>2
  <2>5. PICK own2 : Shape(S, words', Value) /\ Owned(S, own2) /\ Sets(H, own, S, own2, d, sym, datum)
    BY <1>1, <1>2, <2>3, <2>4, EnvSetRecurse DEF H
  <2>6. d \in 1 .. Len(envs)
    <3>1. e \in 0 .. Len(H.envs)
      BY <1>2
    <3>2. f[e] \in 0 .. Len(envs)
      BY <1>2, <2>2, <2>3, <3>1, InnerFound
    <3> QED BY <1>2, <3>2
  <2> HIDE DEF Goal, S, d
  <2>7. Goal
    BY <1>3, <2>1, <2>4, <2>5, <2>6 DEF S
  <2> QED BY <2>7 DEF Goal, H
<1>9. CASE vm_load_lambda_args
  <2>1. PICK e \in 1 .. Len(envs), args \in BoundedSeq(words \X Value, MaxParams) :
            becomes(Bound(env_create(H, e), args)) /\ var_refs' = var_refs
    BY <1>2, <1>9 DEF vm_load_lambda_args, H
  <2>2. /\ Len(args) \in Nat
        /\ \A i \in 1 .. Len(args) : args[i][1] \in words' /\ args[i][2] \in Value
    <3>1. MaxParams \in Nat
      BY BoundsAssumption
    <3>2. Len(args) \in 0 .. MaxParams /\ \A i \in 1 .. Len(args) : args[i] \in words \X Value
      BY <3>1, Bounded
    <3>3. \A x \in words \X Value : x[1] \in words' /\ x[2] \in Value
      BY <1>1
    <3>4. Len(args) \in Nat
      BY <3>1, <3>2
    <3> QED BY <3>2, <3>3, <3>4
  <2> DEFINE S == Bound(env_create(H, e), args)
  <2>3. PICK own2 : /\ Shape(S, words', Value) /\ Owned(S, own2)
                    /\ Entered(H, own, S, own2, e, args, Len(args))
    BY <1>1, <1>2, <2>2, ArgsBound DEF H
  <2> HIDE DEF S
  <2>4. Len(nodes) <= Len(S.nodes) /\ Len(envs) <= Len(S.envs)
    <3>1. Len(H.nodes) <= Len(S.nodes) /\ Len(S.envs) = Len(H.envs) + 1
      BY <2>3 DEF Entered
    <3> QED BY <1>2, <3>1
  <2>5. becomes(S)
    BY <2>1 DEF S
  <2>6. EnvironmentsInv' /\ AllEnvs' = S
    BY <1>2, <2>1, <2>3, <2>4, <2>5, Becomes
  <2> QED BY <2>1, <2>3, <2>6 DEF H
<1>10. CASE add_closure_node
  <2>1. PICK e \in 1 .. Len(envs), sym \in words :
            /\ env_find_recurse(H, e, sym) # 0
            /\ var_refs' = var_refs \cup {env_find_recurse(H, e, sym)}
    BY <1>2, <1>10 DEF add_closure_node, H
  <2>2. envs' = envs /\ nodes' = nodes /\ words' = words
    BY <1>10 DEF add_closure_node, envvars
  <2>3. AllEnvs' = H
    BY <2>2 DEF H, AllEnvs
  <2>4. env_find_recurse(H, e, sym) \in 1 .. Len(nodes)
    <3>1. Outwards(Lasts(H), Len(H.envs))
      BY <1>2, LastsOutward
    <3>2. PICK f : Inner(f, Binders(H, sym), Lasts(H), Len(H.envs))
      BY <3>1, InnerExists
    <3>3. e \in 1 .. Len(H.envs) /\ e \in 0 .. Len(H.envs)
      BY <1>2
    <3>4. env_find_recurse(H, e, sym) = env_find(H, f[e], sym) /\ f[e] # 0
      BY <1>2, <2>1, <3>2, <3>3, FindRecurse
    <3>5. f[e] \in 1 .. Len(H.envs)
      BY <3>1, <3>2, <3>3, <3>4, InnerFound DEF Binders
    <3>6. env_find(H, f[e], sym) \in 1 .. Len(H.nodes)
      BY <1>2, <2>1, <3>4, <3>5, FindOwned DEF H
    <3> QED BY <1>2, <3>4, <3>6
  <2>5. EnvironmentsInv'
    <3>1. Shape(AllEnvs', words', Value) /\ Owned(AllEnvs', own)
      BY <1>2, <2>2, <2>3 DEF H
    <3>2. 1 <= Len(envs') /\ var_refs' \subseteq 1 .. Len(nodes')
      BY <1>2, <2>1, <2>2, <2>4 DEF EnvironmentsInv
    <3> QED BY <3>1, <3>2 DEF EnvironmentsInv
  <2>6. Owned(AllEnvs', own)
    BY <2>3 DEF H
  <2> QED BY <2>1, <2>3, <2>5, <2>6 DEF H
<1>11. CASE read_symbol \/ UNCHANGED namevars
  BY <1>5, <1>11 DEF read_symbol, namevars
<1> QED BY <1>6, <1>7, <1>8, <1>9, <1>10, <1>11 DEF Next

(* The invariant holds in every state there can be.                        *)
LEMMA Invariant == Spec => []IInv
<1>1. IInv /\ [Next]_namevars => IInv'
  <2> SUFFICES ASSUME IInv, [Next]_namevars PROVE IInv'
    OBVIOUS
  <2>1. PICK own : Owned(AllEnvs, own)
    BY DEF IInv, EnvironmentsInv
  <2>2. EnvironmentsInv'
    BY <2>1, EnvironmentsStep
  <2>3. SymbolsInv'
    BY SymbolsStep DEF IInv
  <2> QED BY <2>2, <2>3 DEF IInv
<1> QED BY InitInv, <1>1, PTL DEF Spec

(* The strings of the tree are allocated, every pointer leads to a node,   *)
(* every node has a key that is a word and belongs to just one environment,*)
(* for any number of names, values and environments (symbols.c:17-94,      *)
(* env.c:12-71).                                                           *)
THEOREM NamesTypeCorrect == Spec => []TypeOK
<1>1. IInv => TypeOK
  <2> SUFFICES ASSUME IInv PROVE TypeOK
    OBVIOUS
  <2>1. PICK rank, b : Links(string, tree, rank, b)
    BY DEF IInv, SymbolsInv, SearchTree
  <2>2. /\ words \subseteq DOMAIN string /\ DOMAIN string \subseteq Word
        /\ DOMAIN tree.left \subseteq DOMAIN string /\ DOMAIN tree.right = DOMAIN tree.left
        /\ tree.root \in {0} \cup DOMAIN tree.left
        /\ \A n \in DOMAIN tree.left : {tree.left[n], tree.right[n]} \subseteq {0} \cup DOMAIN tree.left
    <3>1. DOMAIN tree.left = DOMAIN string /\ DOMAIN tree.right = DOMAIN string
      BY <2>1 DEF Links
    <3>2. tree.root \in {0} \cup DOMAIN string
      BY <2>1 DEF Links
    <3>3. \A n \in DOMAIN string : {tree.left[n], tree.right[n]} \subseteq {0} \cup DOMAIN string
      BY <2>1 DEF Links
    <3>4. DOMAIN string = words /\ words \subseteq Word
      BY DEF IInv, SymbolsInv
    <3> QED BY <3>1, <3>2, <3>3, <3>4
  <2>3. PICK own : Owned(AllEnvs, own)
    BY DEF IInv, EnvironmentsInv
  <2>4. /\ Shape(AllEnvs, words, Value) /\ AllEnvs.envs = envs /\ AllEnvs.nodes = nodes
        /\ var_refs \subseteq 1 .. Len(nodes)
    BY DEF IInv, EnvironmentsInv, AllEnvs
  <2>5. DOMAIN envs = 1 .. Len(envs) /\ DOMAIN nodes = 1 .. Len(nodes) /\ Len(nodes) \in Nat
    <3>1. /\ DOMAIN AllEnvs.envs = 1 .. Len(AllEnvs.envs) /\ Len(AllEnvs.nodes) \in Nat
          /\ DOMAIN AllEnvs.nodes = 1 .. Len(AllEnvs.nodes)
      BY <2>4, ShapeFacts
    <3> QED BY <2>4, <3>1
  <2>6. ASSUME NEW e \in DOMAIN envs PROVE envs[e].root \in 0 .. Len(nodes) /\ envs[e].last \in 0 .. e - 1
    <3>1. e \in 1 .. Len(AllEnvs.envs)
      BY <2>4, <2>5
    <3>2. /\ AllEnvs.envs[e].root # 0 => AllEnvs.envs[e].root \in 1 .. Len(AllEnvs.nodes)
          /\ AllEnvs.envs[e].last \in 0 .. e - 1
      BY <2>4, <3>1, Pointers
    <3>3. 1 .. Len(nodes) \subseteq 0 .. Len(nodes) /\ 0 \in 0 .. Len(nodes)
      BY <2>5
    <3> QED BY <2>4, <3>2, <3>3
  <2>7. ASSUME NEW n \in DOMAIN nodes
        PROVE  /\ nodes[n].key \in words /\ nodes[n].value \in Value
               /\ \E e \in DOMAIN envs :
                    /\ n \in Members(AllEnvs, e)
                    /\ \A f \in DOMAIN envs \ {e} : n \notin Members(AllEnvs, f)
    <3>1. n \in 1 .. Len(AllEnvs.nodes)
      BY <2>4, <2>5
    <3>2. nodes[n].key \in words /\ nodes[n].value \in Value
      <4>1. AllEnvs.nodes[n].key \in words /\ AllEnvs.nodes[n].value \in Value
        BY <2>4, <3>1, ShapeFacts
      <4> QED BY <2>4, <4>1
    <3>3. own[n] \in 1 .. Len(AllEnvs.envs)
      BY <2>3, <3>1 DEF Owned
    <3>4. \A f \in 1 .. Len(AllEnvs.envs) :
            Members(AllEnvs, f) = {m \in 1 .. Len(AllEnvs.nodes) : own[m] = f}
      BY <2>3, <2>4, MembersOwned
    <3>5. /\ own[n] \in DOMAIN envs /\ n \in Members(AllEnvs, own[n])
          /\ \A f \in DOMAIN envs \ {own[n]} : n \notin Members(AllEnvs, f)
      BY <2>4, <2>5, <3>1, <3>3, <3>4
    <3> QED BY <3>2, <3>5
  <2> QED BY <2>2, <2>4, <2>5, <2>6, <2>7 DEF TypeOK
<1> QED BY Invariant, <1>1, PTL

(* Two names are alike just if their addresses are: of one text there is   *)
(* one word, and the table goes on returning it, however many names there  *)
(* are and wherever malloc puts them (symbols.c:17-94).                    *)
THEOREM NamesAreWords == Spec => []OneWord
<1>1. IInv => OneWord
  <2> SUFFICES ASSUME IInv PROVE OneWord
    OBVIOUS
  <2>1. \A w \in words : lookup_symbol_address(string[w]) = w
    BY Found DEF IInv, SymbolsInv
  <2>2. ASSUME NEW v \in words, NEW w \in words, string[v] = string[w] PROVE v = w
    <3>1. lookup_symbol_address(string[v]) = v /\ lookup_symbol_address(string[w]) = w
      BY <2>1
    <3> HIDE DEF lookup_symbol_address
    <3> QED BY <2>2, <3>1
  <2> QED BY <2>1, <2>2 DEF OneWord
<1> QED BY Invariant, <1>1, PTL

-----------------------------------------------------------------------------
(* The scopes of a heap: bnd is the mapping each environment stands for.   *)
Texts(str, H, own, f) == {str[H.nodes[n].key] : n \in {m \in 1 .. Len(H.nodes) : own[m] = f}}

Means(bnd, str, H, own) ==
    \A f \in 1 .. Len(H.envs) :
        /\ bnd[f] = [t \in Texts(str, H, own, f) |-> bnd[f][t]]
        /\ \A n \in 1 .. Len(H.nodes) :
                own[n] = f => bnd[f][str[H.nodes[n].key]] = H.nodes[n].value

Scopes(bnd, H) == [f \in 1 .. Len(H.envs) |-> [bound |-> bnd[f], last |-> H.envs[f].last]]

(* View and the references of compiled code, of any strings and any heap.  *)
ViewOf(str, H) ==
    [e \in DOMAIN H.envs |->
        [bound |-> [t \in {str[H.nodes[n].key] : n \in Members(H, e)} |->
                        H.nodes[CHOOSE n \in Members(H, e) : str[H.nodes[n].key] = t].value],
         last  |-> H.envs[e].last]]

RefsOf(str, H, refs) ==
    {<<CHOOSE e \in DOMAIN H.envs : n \in Members(H, e), str[H.nodes[n].key]>> : n \in refs}

RefsBy(str, H, own, refs) == {<<own[n], str[H.nodes[n].key]>> : n \in refs}

Within(refs, H) == refs \subseteq 1 .. Len(H.nodes)

(* One more text is bound, in the mappings or in the scopes.               *)
Rebound(bnd, H, e, t, v) == [f \in 1 .. Len(H.envs) |-> IF f = e THEN Put(bnd[e], t, v) ELSE bnd[f]]

Rebind(X, e, t, v) ==
    [X EXCEPT ![e].bound = [u \in DOMAIN @ \cup {t} |-> IF u = t THEN v ELSE @[u]]]

(* One more mapping: a new scope.                                          *)
Extended(bnd, H, B) ==
    [f \in 1 .. Len(H.envs) + 1 |-> IF f = Len(H.envs) + 1 THEN B ELSE bnd[f]]

SameLasts(H, S) ==
    Len(S.envs) = Len(H.envs) /\ \A f \in 1 .. Len(H.envs) : S.envs[f].last = H.envs[f].last

Distinct(str, W) == \A x, y \in W : str[x] = str[y] => x = y

(* The bindings of a heap are a function of it.                            *)
LEMMA MeansUnique ==
    ASSUME NEW str, NEW H, NEW own, NEW b1, NEW b2, Means(b1, str, H, own), Means(b2, str, H, own)
    PROVE  Scopes(b1, H) = Scopes(b2, H)
<1>1. ASSUME NEW f \in 1 .. Len(H.envs) PROVE b1[f] = b2[f]
  <2> DEFINE T == Texts(str, H, own, f)
  <2>1. ASSUME NEW t \in T PROVE b1[f][t] = b2[f][t]
    <3>1. PICK n \in 1 .. Len(H.nodes) : own[n] = f /\ t = str[H.nodes[n].key]
      BY DEF Texts
    <3>2. b1[f][t] = H.nodes[n].value /\ b2[f][t] = H.nodes[n].value
      BY <3>1 DEF Means
    <3> QED BY <3>2
  <2>2. b1[f] = [t \in T |-> b1[f][t]]
    BY DEF Means
  <2>3. b2[f] = [t \in T |-> b2[f][t]]
    BY DEF Means
  <2>4. [t \in T |-> b1[f][t]] = [t \in T |-> b2[f][t]]
    BY <2>1
  <2> QED BY <2>2, <2>3, <2>4
<1> QED BY <1>1 DEF Scopes

(* The abstract scopes are what the nodes bind.                            *)
LEMMA ViewMeans ==
    ASSUME NEW H, NEW W, NEW V, Shape(H, W, V), NEW own, Owned(H, own), NEW str, Distinct(str, W)
    PROVE  \E bnd : ViewOf(str, H) = Scopes(bnd, H) /\ Means(bnd, str, H, own)
<1> DEFINE B(e) == [t \in {str[H.nodes[n].key] : n \in Members(H, e)} |->
                        H.nodes[CHOOSE n \in Members(H, e) : str[H.nodes[n].key] = t].value]
           bnd == [e \in 1 .. Len(H.envs) |-> B(e)]
<1>1. DOMAIN H.envs = 1 .. Len(H.envs)
  BY ShapeFacts
<1>2. \A e \in 1 .. Len(H.envs) : Members(H, e) = {n \in 1 .. Len(H.nodes) : own[n] = e}
  BY MembersOwned
<1>3. ViewOf(str, H) = Scopes(bnd, H)
  <2>1. \A e \in 1 .. Len(H.envs) : bnd[e] = B(e)
    OBVIOUS
  <2>2. ViewOf(str, H) = [e \in 1 .. Len(H.envs) |-> [bound |-> B(e), last |-> H.envs[e].last]]
    BY <1>1 DEF ViewOf
  <2> HIDE DEF B, bnd
  <2> QED BY <2>1, <2>2 DEF Scopes
<1>4. ASSUME NEW e \in 1 .. Len(H.envs)
      PROVE  /\ bnd[e] = [t \in Texts(str, H, own, e) |-> bnd[e][t]]
             /\ \A n \in 1 .. Len(H.nodes) :
                    own[n] = e => bnd[e][str[H.nodes[n].key]] = H.nodes[n].value
  <2>1. bnd[e] = B(e) /\ {str[H.nodes[n].key] : n \in Members(H, e)} = Texts(str, H, own, e)
    BY <1>2 DEF Texts
  <2>2. bnd[e] = [t \in Texts(str, H, own, e) |-> bnd[e][t]]
    <3> HIDE DEF bnd
    <3> QED BY <2>1
  <2>3. ASSUME NEW n \in 1 .. Len(H.nodes), own[n] = e
        PROVE  bnd[e][str[H.nodes[n].key]] = H.nodes[n].value
    <3> DEFINE t == str[H.nodes[n].key]
               c == CHOOSE m \in Members(H, e) : str[H.nodes[m].key] = t
    <3>1. n \in Members(H, e) /\ t \in {str[H.nodes[m].key] : m \in Members(H, e)}
      BY <1>2, <2>3
    <3>2. B(e)[t] = H.nodes[c].value
      BY <3>1
    <3>3. c \in Members(H, e) /\ str[H.nodes[c].key] = t
      BY <3>1
    <3> HIDE DEF c
    <3>4. c \in 1 .. Len(H.nodes) /\ own[c] = own[n] /\ str[H.nodes[c].key] = str[H.nodes[n].key]
      BY <1>2, <2>3, <3>3
    <3>5. H.nodes[c].key \in W /\ H.nodes[n].key \in W
      BY <3>4, ShapeFacts
    <3>6. H.nodes[c].key = H.nodes[n].key
      BY <3>4, <3>5 DEF Distinct
    <3>7. c = n
      BY <3>4, <3>6, KeysDiffer
    <3> HIDE DEF B, bnd
    <3> QED BY <2>1, <3>2, <3>7
  <2> QED BY <2>2, <2>3
<1>5. Means(bnd, str, H, own)
  <2> HIDE DEF bnd
  <2> QED BY <1>4 DEF Means
<1> QED BY <1>3, <1>5

(* The abstract references are owner and text of each node pointer.        *)
LEMMA RefsAre ==
    ASSUME NEW H, NEW W, NEW V, Shape(H, W, V), NEW own, Owned(H, own), NEW str,
           NEW refs, Within(refs, H)
    PROVE  RefsOf(str, H, refs) = RefsBy(str, H, own, refs)
<1>1. DOMAIN H.envs = 1 .. Len(H.envs)
  BY ShapeFacts
<1>2. \A e \in 1 .. Len(H.envs) : Members(H, e) = {n \in 1 .. Len(H.nodes) : own[n] = e}
  BY MembersOwned
<1>3. ASSUME NEW n \in refs PROVE (CHOOSE e \in DOMAIN H.envs : n \in Members(H, e)) = own[n]
  <2>1. n \in 1 .. Len(H.nodes) /\ own[n] \in 1 .. Len(H.envs)
    BY DEF Owned, Within
  <2>2. \A e \in DOMAIN H.envs : n \in Members(H, e) <=> own[n] = e
    BY <1>1, <1>2, <2>1
  <2>3. own[n] \in DOMAIN H.envs
    BY <1>1, <2>1
  <2> QED BY <2>2, <2>3
<1> QED BY <1>3 DEF RefsOf, RefsBy

(* The trees after env_set stand for the mappings with one name bound.     *)
LEMMA SetsMeans ==
    ASSUME NEW H, NEW S, NEW W, NEW V, Shape(H, W, V), Shape(S, W, V), NEW own, Owned(H, own),
           NEW own2, Owned(S, own2), NEW str, Distinct(str, W),
           NEW e \in 1 .. Len(H.envs), NEW key \in W, NEW v, Sets(H, own, S, own2, e, key, v),
           NEW bnd, Means(bnd, str, H, own)
    PROVE  Means(Rebound(bnd, H, e, str[key], v), str, S, own2)
<1> DEFINE bnd2 == Rebound(bnd, H, e, str[key], v)
<1>1. PICK m \in 1 .. Len(S.nodes) :
            /\ own2[m] = e /\ S.nodes[m].key = key /\ S.nodes[m].value = v
            /\ \A n \in 1 .. Len(S.nodes) :
                    n # m => n \in 1 .. Len(H.nodes) /\ S.nodes[n].value = H.nodes[n].value
  BY DEF Sets
<1>2. /\ Len(S.envs) = Len(H.envs)
      /\ \A n \in 1 .. Len(H.nodes) : own2[n] = own[n] /\ S.nodes[n].key = H.nodes[n].key
  BY DEF Sets
<1>3. 1 .. Len(H.nodes) \subseteq 1 .. Len(S.nodes)
  <2>1. Len(H.nodes) \in Nat /\ Len(S.nodes) \in Nat /\ Len(H.nodes) <= Len(S.nodes)
    BY ShapeFacts DEF Sets
  <2> QED BY <2>1
<1>4. \A f \in 1 .. Len(H.envs) : bnd2[f] = IF f = e THEN Put(bnd[e], str[key], v) ELSE bnd[f]
  BY DEF Rebound
<1> HIDE DEF bnd2
<1>5. ASSUME NEW f \in 1 .. Len(S.envs), f # e
      PROVE  /\ bnd2[f] = [t \in Texts(str, S, own2, f) |-> bnd2[f][t]]
             /\ \A n \in 1 .. Len(S.nodes) :
                    own2[n] = f => bnd2[f][str[S.nodes[n].key]] = S.nodes[n].value
  <2>1. bnd2[f] = bnd[f] /\ f \in 1 .. Len(H.envs)
    BY <1>2, <1>4, <1>5
  <2>2. ASSUME NEW n \in 1 .. Len(S.nodes), own2[n] = f
        PROVE  /\ n \in 1 .. Len(H.nodes) /\ own[n] = f /\ S.nodes[n].key = H.nodes[n].key
               /\ S.nodes[n].value = H.nodes[n].value
    BY <1>1, <1>2, <1>5, <2>2
  <2>3. Texts(str, S, own2, f) = Texts(str, H, own, f)
    <3>1. {n \in 1 .. Len(S.nodes) : own2[n] = f} = {n \in 1 .. Len(H.nodes) : own[n] = f}
      BY <1>2, <1>3, <2>2
    <3> DEFINE M == {n \in 1 .. Len(H.nodes) : own[n] = f}
    <3>2. \A n \in M : S.nodes[n].key = H.nodes[n].key
      BY <1>2
    <3>3. Texts(str, S, own2, f) = {str[S.nodes[n].key] : n \in M}
      BY <3>1 DEF Texts
    <3>4. Texts(str, H, own, f) = {str[H.nodes[n].key] : n \in M}
      BY DEF Texts
    <3> HIDE DEF M
    <3> QED BY <3>2, <3>3, <3>4
  <2> QED BY <2>1, <2>2, <2>3 DEF Means
<1>6. /\ bnd2[e] = [t \in Texts(str, S, own2, e) |-> bnd2[e][t]]
      /\ \A n \in 1 .. Len(S.nodes) :
            own2[n] = e => bnd2[e][str[S.nodes[n].key]] = S.nodes[n].value
  <2>1. bnd2[e] = Put(bnd[e], str[key], v)
    BY <1>4
  <2>2. DOMAIN bnd[e] = Texts(str, H, own, e)
    <3>1. bnd[e] = [t \in Texts(str, H, own, e) |-> bnd[e][t]]
      BY DEF Means
    <3> QED BY <3>1
  <2>3. Texts(str, S, own2, e) = Texts(str, H, own, e) \cup {str[key]}
    <3> DEFINE M == {n \in 1 .. Len(H.nodes) : own[n] = e}
               M2 == {n \in 1 .. Len(S.nodes) : own2[n] = e}
    <3>1. M2 = M \cup {m}
      BY <1>1, <1>2, <1>3
    <3>2. (\A n \in M : S.nodes[n].key = H.nodes[n].key) /\ S.nodes[m].key = key
      BY <1>1, <1>2
    <3>3. Texts(str, S, own2, e) = {str[S.nodes[n].key] : n \in M2}
      BY DEF Texts
    <3>4. Texts(str, H, own, e) = {str[H.nodes[n].key] : n \in M}
      BY DEF Texts
    <3> HIDE DEF M, M2
    <3>5. {str[S.nodes[n].key] : n \in M \cup {m}} = {str[H.nodes[n].key] : n \in M} \cup {str[key]}
      BY <3>2
    <3> QED BY <3>1, <3>3, <3>4, <3>5
  <2>4. /\ bnd2[e] = [t \in Texts(str, S, own2, e) |-> IF t = str[key] THEN v ELSE bnd[e][t]]
        /\ str[key] \in Texts(str, S, own2, e)
    BY <2>1, <2>2, <2>3 DEF Put
  <2>5. ASSUME NEW n \in 1 .. Len(S.nodes), own2[n] = e, n # m
        PROVE  bnd2[e][str[S.nodes[n].key]] = S.nodes[n].value
    <3>1. n \in 1 .. Len(H.nodes) /\ own[n] = e /\ S.nodes[n].key = H.nodes[n].key
      BY <1>1, <1>2, <2>5
    <3>2. S.nodes[n].key \in W /\ S.nodes[n].key # key
      <4>1. S.nodes[n].key \in W
        BY ShapeFacts
      <4>2. own2[n] = own2[m] /\ S.nodes[m].key = key
        BY <1>1, <2>5
      <4>3. S.nodes[n].key = S.nodes[m].key => n = m
        BY <4>2, KeysDiffer
      <4> QED BY <2>5, <4>1, <4>2, <4>3
    <3>3. str[S.nodes[n].key] # str[key] /\ str[S.nodes[n].key] \in Texts(str, S, own2, e)
      BY <2>5, <3>2 DEF Distinct, Texts
    <3>4. bnd[e][str[H.nodes[n].key]] = H.nodes[n].value
      BY <3>1 DEF Means
    <3> QED BY <1>1, <2>4, <2>5, <3>1, <3>3, <3>4
  <2>6. bnd2[e][str[S.nodes[m].key]] = S.nodes[m].value
    BY <1>1, <2>4
  <2> QED BY <2>4, <2>5, <2>6
<1>7. Means(bnd2, str, S, own2)
  BY <1>5, <1>6 DEF Means
<1> QED BY <1>7 DEF bnd2

(* Binding in a heap is binding in the scopes.                             *)
LEMMA ScopesBind ==
    ASSUME NEW H, NEW S, SameLasts(H, S), NEW bnd, NEW e \in 1 .. Len(H.envs), NEW t, NEW v
    PROVE  Rebind(Scopes(bnd, H), e, t, v) = Scopes(Rebound(bnd, H, e, t, v), S)
<1> DEFINE X == Scopes(bnd, H)
           bnd2 == Rebound(bnd, H, e, t, v)
           P == Put(bnd[e], t, v)
<1>1. /\ DOMAIN X = 1 .. Len(H.envs)
      /\ \A f \in 1 .. Len(H.envs) : X[f] = [bound |-> bnd[f], last |-> H.envs[f].last]
  BY DEF Scopes
<1>2. P = [u \in DOMAIN X[e].bound \cup {t} |-> IF u = t THEN v ELSE X[e].bound[u]]
  <2> HIDE DEF X
  <2>1. X[e].bound = bnd[e]
    <3>1. X[e] = [bound |-> bnd[e], last |-> H.envs[e].last]
      BY <1>1
    <3> QED BY <3>1
  <2> QED BY <2>1 DEF Put
<1>3. \A f \in 1 .. Len(H.envs) : bnd2[f] = IF f = e THEN P ELSE bnd[f]
  BY DEF Rebound
<1> HIDE DEF X, P, bnd2
<1>4. [X[e] EXCEPT !.bound = P] = [bound |-> P, last |-> S.envs[e].last]
  <2> DEFINE l == H.envs[e].last
             b == bnd[e]
  <2>1. X[e] = [bound |-> b, last |-> l] /\ S.envs[e].last = l
    BY <1>1 DEF SameLasts
  <2> HIDE DEF l, b
  <2>2. [[bound |-> b, last |-> l] EXCEPT !.bound = P] = [bound |-> P, last |-> l]
    OBVIOUS
  <2> QED BY <2>1, <2>2
<1>5. [X EXCEPT ![e].bound = P] = Scopes(bnd2, S)
  <2> DEFINE r == [bound |-> P, last |-> S.envs[e].last]
             Y == [X EXCEPT ![e] = r]
  <2>1. [X EXCEPT ![e].bound = P] = [X EXCEPT ![e] = [X[e] EXCEPT !.bound = P]]
    OBVIOUS
  <2>2. Y = [f \in 1 .. Len(H.envs) |-> IF f = e THEN r ELSE X[f]]
    <3> HIDE DEF r
    <3> QED BY <1>1
  <2>3. Y = [f \in 1 .. Len(H.envs) |-> [bound |-> bnd2[f], last |-> S.envs[f].last]]
    BY <1>1, <1>3, <2>2 DEF SameLasts
  <2> QED BY <1>4, <2>1, <2>3 DEF Scopes, SameLasts
<1> QED BY <1>2, <1>5 DEF X, bnd2, Rebind

(* The texts of the parameters, and what each of them is given: of two     *)
(* parameters of one name the last counts.                                 *)
Given(str, args) == [i \in 1 .. Len(args) |-> <<str[args[i][1]], args[i][2]>>]

(* Of two parameters of one name the last counts (vm_ops.c:72-79).         *)
LEMMA GivenTo ==
    ASSUME NEW str, NEW W, Distinct(str, W), NEW args, Len(args) \in Nat,
           \A i \in 1 .. Len(args) : args[i][1] \in W,
           NEW i \in 1 .. Len(args), \A j \in 1 .. Len(args) : args[j][1] = args[i][1] => j <= i
    PROVE  D!Bindings(Given(str, args))[str[args[i][1]]] = args[i][2]
<1> DEFINE ps == Given(str, args)
           t == str[args[i][1]]
           Latest(j) == j \in DOMAIN ps /\ ps[j][1] = t /\ \A k \in DOMAIN ps : ps[k][1] = t => k <= j
           c == CHOOSE j \in DOMAIN ps : ps[j][1] = t /\ \A k \in DOMAIN ps : ps[k][1] = t => k <= j
<1>1. /\ DOMAIN ps = 1 .. Len(args)
      /\ \A j \in 1 .. Len(args) : ps[j][1] = str[args[j][1]] /\ ps[j][2] = args[j][2]
  BY DEF Given
<1> HIDE DEF ps
<1>2. t \in {ps[j][1] : j \in DOMAIN ps}
  BY <1>1
<1>3. D!Bindings(ps)[t] = ps[c][2]
  BY <1>2 DEF D!Bindings
<1>4. \A k \in DOMAIN ps : ps[k][1] = t => k <= i
  BY <1>1 DEF Distinct
<1>5. Latest(i)
  BY <1>1, <1>4
<1>6. Latest(c)
  BY <1>5
<1> HIDE DEF c
<1>7. c <= i /\ i <= c /\ c \in 1 .. Len(args)
  BY <1>1, <1>5, <1>6
<1>8. c = i
  BY <1>7
<1> QED BY <1>1, <1>3, <1>8 DEF ps

(* The trees after a procedure is entered stand for one mapping more.      *)
LEMMA EnteredMeans ==
    ASSUME NEW H, NEW S, NEW W, NEW V, Shape(H, W, V), Shape(S, W, V), NEW own, Owned(H, own),
           NEW own2, Owned(S, own2), NEW str, Distinct(str, W),
           NEW e, NEW args, Len(args) \in Nat, \A i \in 1 .. Len(args) : args[i][1] \in W,
           Entered(H, own, S, own2, e, args, Len(args)),
           NEW bnd, Means(bnd, str, H, own)
    PROVE  Means(Extended(bnd, H, D!Bindings(Given(str, args))), str, S, own2)
<1> DEFINE new == Len(H.envs) + 1
           B == D!Bindings(Given(str, args))
           bnd2 == Extended(bnd, H, B)
<1>1. /\ Len(S.envs) = new
      /\ \A n \in 1 .. Len(H.nodes) : /\ own2[n] = own[n] /\ S.nodes[n].key = H.nodes[n].key
                                      /\ S.nodes[n].value = H.nodes[n].value
      /\ \A n \in 1 .. Len(S.nodes) : n \notin 1 .. Len(H.nodes) =>
            /\ own2[n] = new
            /\ \E i \in 1 .. Len(args) :
                    /\ args[i][1] = S.nodes[n].key /\ args[i][2] = S.nodes[n].value
                    /\ \A j \in 1 .. Len(args) : args[j][1] = S.nodes[n].key => j <= i
      /\ \A j \in 1 .. Len(args) : \E n \in 1 .. Len(S.nodes) :
            own2[n] = new /\ S.nodes[n].key = args[j][1]
  BY DEF Entered
<1>2. /\ 1 .. new = (1 .. Len(H.envs)) \cup {new} /\ new \notin 1 .. Len(H.envs)
      /\ 1 .. Len(H.nodes) \subseteq 1 .. Len(S.nodes)
  <2>1. Len(H.envs) \in Nat /\ Len(H.nodes) \in Nat /\ Len(S.nodes) \in Nat
    BY ShapeFacts
  <2>2. Len(H.nodes) <= Len(S.nodes)
    BY DEF Entered
  <2> QED BY <2>1, <2>2
<1>3. \A n \in 1 .. Len(H.nodes) : own[n] \in 1 .. Len(H.envs) /\ own2[n] # new
  <2>1. \A n \in 1 .. Len(H.nodes) : own[n] \in 1 .. Len(H.envs)
    BY DEF Owned
  <2> QED BY <1>1, <1>2, <2>1
<1> HIDE DEF new
<1>4. bnd2[new] = B /\ \A f \in 1 .. Len(H.envs) : bnd2[f] = bnd[f]
  <2>1. bnd2 = [f \in 1 .. new |-> IF f = new THEN B ELSE bnd[f]]
    BY DEF Extended, new
  <2> HIDE DEF bnd2, B
  <2> QED BY <1>2, <2>1
<1> HIDE DEF B, bnd2
<1>5. ASSUME NEW f \in 1 .. Len(H.envs)
      PROVE  /\ bnd2[f] = [t \in Texts(str, S, own2, f) |-> bnd2[f][t]]
             /\ \A n \in 1 .. Len(S.nodes) :
                    own2[n] = f => bnd2[f][str[S.nodes[n].key]] = S.nodes[n].value
  <2>1. ASSUME NEW n \in 1 .. Len(S.nodes), own2[n] = f
        PROVE  /\ n \in 1 .. Len(H.nodes) /\ own[n] = f /\ S.nodes[n].key = H.nodes[n].key
               /\ S.nodes[n].value = H.nodes[n].value
    BY <1>1, <1>2, <2>1
  <2>2. Texts(str, S, own2, f) = Texts(str, H, own, f)
    <3> DEFINE M == {n \in 1 .. Len(H.nodes) : own[n] = f}
    <3>1. {n \in 1 .. Len(S.nodes) : own2[n] = f} = M
      BY <1>1, <1>2, <2>1
    <3>2. \A n \in M : S.nodes[n].key = H.nodes[n].key
      BY <1>1
    <3>3. Texts(str, S, own2, f) = {str[S.nodes[n].key] : n \in M}
      BY <3>1 DEF Texts
    <3>4. Texts(str, H, own, f) = {str[H.nodes[n].key] : n \in M}
      BY DEF Texts
    <3> HIDE DEF M
    <3> QED BY <3>2, <3>3, <3>4
  <2> QED BY <1>4, <2>1, <2>2 DEF Means
<1>6. ASSUME NEW n \in 1 .. Len(S.nodes), own2[n] = new
      PROVE  /\ B[str[S.nodes[n].key]] = S.nodes[n].value
             /\ \E i \in 1 .. Len(args) : args[i][1] = S.nodes[n].key
  <2>1. PICK i \in 1 .. Len(args) :
            /\ args[i][1] = S.nodes[n].key /\ args[i][2] = S.nodes[n].value
            /\ \A j \in 1 .. Len(args) : args[j][1] = S.nodes[n].key => j <= i
    BY <1>1, <1>3, <1>6
  <2>2. B[str[args[i][1]]] = args[i][2]
    BY <2>1, GivenTo DEF B
  <2> QED BY <2>1, <2>2
<1>7. B = [t \in Texts(str, S, own2, new) |-> B[t]]
  <2> DEFINE ps == Given(str, args)
             T == {ps[i][1] : i \in DOMAIN ps}
  <2>1. DOMAIN ps = 1 .. Len(args) /\ \A i \in 1 .. Len(args) : ps[i][1] = str[args[i][1]]
    BY DEF Given
  <2> HIDE DEF ps
  <2>2. B = [t \in T |-> B[t]]
    BY DEF B, D!Bindings, ps
  <2>3. T = {str[args[i][1]] : i \in 1 .. Len(args)}
    BY <2>1
  <2> HIDE DEF T
  <2>4. ASSUME NEW t \in Texts(str, S, own2, new) PROVE t \in T
    <3>1. PICK n \in 1 .. Len(S.nodes) : own2[n] = new /\ t = str[S.nodes[n].key]
      BY DEF Texts
    <3>2. PICK i \in 1 .. Len(args) : args[i][1] = S.nodes[n].key
      BY <1>6, <3>1
    <3> QED BY <2>3, <3>1, <3>2
  <2>5. ASSUME NEW t \in T PROVE t \in Texts(str, S, own2, new)
    <3>1. PICK i \in 1 .. Len(args) : t = str[args[i][1]]
      BY <2>3
    <3>2. PICK n \in 1 .. Len(S.nodes) : own2[n] = new /\ S.nodes[n].key = args[i][1]
      BY <1>1
    <3> QED BY <3>1, <3>2 DEF Texts
  <2>6. T = Texts(str, S, own2, new)
    BY <2>4, <2>5
  <2> QED BY <2>2, <2>6
<1>8. Means(bnd2, str, S, own2)
  BY <1>1, <1>2, <1>4, <1>5, <1>6, <1>7 DEF Means
<1> QED BY <1>8 DEF bnd2, B, new

OneMore(H, S, e) ==
    /\ Len(H.envs) \in Nat /\ Len(S.envs) = Len(H.envs) + 1 /\ S.envs[Len(H.envs) + 1].last = e
    /\ \A f \in 1 .. Len(H.envs) : S.envs[f].last = H.envs[f].last

(* An environment that is added is a scope that is appended.               *)
LEMMA ScopesEnter ==
    ASSUME NEW H, NEW S, NEW e, OneMore(H, S, e), NEW bnd, NEW B
    PROVE  Append(Scopes(bnd, H), D!Scope(B, e)) = Scopes(Extended(bnd, H, B), S)
<1> USE DEF OneMore
<1> DEFINE N == Len(H.envs)
           X == Scopes(bnd, H)
           x == [bound |-> B, last |-> e]
           bnd2 == Extended(bnd, H, B)
           R == {X[f] : f \in 1 .. N} \cup {x}
           Y == Scopes(bnd2, S)
<1>1. /\ DOMAIN X = 1 .. N /\ X = [f \in 1 .. N |-> X[f]]
      /\ \A f \in 1 .. N : X[f] = [bound |-> bnd[f], last |-> S.envs[f].last]
  BY DEF Scopes
<1>2. /\ N \in Nat /\ N + 1 \in Nat /\ 1 .. N + 1 = (1 .. N) \cup {N + 1} /\ N + 1 \notin 1 .. N
  OBVIOUS
<1>3. bnd2[N + 1] = B /\ \A f \in 1 .. N : bnd2[f] = bnd[f]
  BY <1>2 DEF Extended
<1>4. Y = [f \in 1 .. N + 1 |-> [bound |-> bnd2[f], last |-> S.envs[f].last]]
  BY DEF Scopes
<1> HIDE DEF X, Y, bnd2
<1>5. X \in Seq(R)
  <2>1. X \in [1 .. N -> R]
    BY <1>1
  <2> HIDE DEF R
  <2> QED BY <1>2, <2>1
<1>6. Len(X) = N
  BY <1>1, <1>2, <1>5
<1>7. x \in R
  OBVIOUS
<1> HIDE DEF R
<1>8. /\ Append(X, x) \in Seq(R) /\ Len(Append(X, x)) = N + 1
      /\ Append(X, x)[N + 1] = x /\ \A f \in 1 .. N : Append(X, x)[f] = X[f]
  BY <1>5, <1>6, <1>7, AppendProperties
<1>9. Append(X, x) = [f \in 1 .. N + 1 |-> Append(X, x)[f]]
  BY <1>8
<1>10. Y[N + 1] = x /\ \A f \in 1 .. N : Y[f] = X[f]
  BY <1>1, <1>2, <1>3, <1>4
<1>11. Y = [f \in 1 .. N + 1 |-> Y[f]]
  BY <1>4
<1>12. \A f \in 1 .. N + 1 : Append(X, x)[f] = Y[f]
  BY <1>2, <1>8, <1>10
<1>13. Append(X, x) = Y
  BY <1>9, <1>11, <1>12
<1>14. D!Scope(B, e) = x
  BY DEF D!Scope
<1> QED BY <1>6, <1>13, <1>14 DEF X, Y, bnd2

(* The innermost environment that has a name stands for the innermost      *)
(* scope that binds its text.                                              *)
LEMMA ResolveIs ==
    ASSUME NEW own, Shape(AllEnvs, words, Value), Owned(AllEnvs, own), Distinct(string, words),
           NEW e \in 1 .. Len(AllEnvs.envs), NEW w \in words,
           NEW f, Inner(f, Binders(AllEnvs, w), Lasts(AllEnvs), Len(AllEnvs.envs))
    PROVE  D!Resolve(e, string[w]) = f[e]
<1> DEFINE H == AllEnvs
           N == Len(H.envs)
           X == View(H)
           t == string[w]
           B == Binders(H, w)
           last == Lasts(H)
           Is(a) == a = [i \in 0 .. Len(X) |->
                            IF i = 0 \/ t \in DOMAIN X[i].bound THEN i ELSE a[X[i].last]]
           at == CHOOSE a : Is(a)
<1>1. D!Resolve(e, t) = at[e]
  BY DEF D!Resolve
<1>2. X = ViewOf(string, H)
  BY DEF View, text, ViewOf
<1> HIDE DEF H, X
<1>3. PICK bnd : X = Scopes(bnd, H) /\ Means(bnd, string, H, own)
  BY <1>2, ViewMeans DEF H
<1>4. N \in Nat /\ Outwards(last, N) /\ e \in 0 .. N /\ \A i \in 1 .. N : last[i] = H.envs[i].last
  <2>1. N \in Nat
    BY ShapeFacts DEF H
  <2>2. Outwards(last, N)
    BY LastsOutward DEF H
  <2>3. \A i \in 1 .. N : last[i] = H.envs[i].last
    BY DEF Lasts
  <2>4. e \in 0 .. N
    BY <2>1 DEF H
  <2> QED BY <2>1, <2>2, <2>3, <2>4
<1>5. Len(X) = N
  <2>1. X = [i \in 1 .. N |-> X[i]]
    BY <1>3 DEF Scopes
  <2> HIDE DEF N
  <2> QED BY <1>4, <2>1
<1>6. \A i \in 1 .. N : X[i].last = last[i]
  <2>1. \A i \in 1 .. N : X[i].last = H.envs[i].last
    BY <1>3 DEF Scopes
  <2> QED BY <1>4, <2>1
<1>7. ASSUME NEW i \in 1 .. N PROVE t \in DOMAIN X[i].bound <=> i \in B
  <2>1. X[i].bound = bnd[i]
    <3>1. X[i] = [bound |-> bnd[i], last |-> H.envs[i].last]
      BY <1>3 DEF Scopes
    <3> QED BY <3>1
  <2>2. bnd[i] = [u \in Texts(string, H, own, i) |-> bnd[i][u]]
    BY <1>3 DEF Means
  <2>3. DOMAIN X[i].bound = Texts(string, H, own, i)
    BY <2>1, <2>2
  <2>4. ASSUME t \in Texts(string, H, own, i) PROVE i \in B
    <3>1. PICK n \in 1 .. Len(H.nodes) : own[n] = i /\ t = string[H.nodes[n].key]
      BY <2>4 DEF Texts
    <3>2. H.nodes[n].key \in words
      BY <3>1, ShapeFacts DEF H
    <3>3. H.nodes[n].key = w
      BY <3>1, <3>2 DEF Distinct
    <3>4. env_find(H, i, w) = n
      BY <3>1, <3>3, FindOwned DEF H
    <3>5. n # 0
      OBVIOUS
    <3> QED BY <3>4, <3>5 DEF Binders
  <2>5. ASSUME i \in B PROVE t \in Texts(string, H, own, i)
    <3> DEFINE n == env_find(H, i, w)
    <3>1. n # 0
      BY <2>5 DEF Binders
    <3>2. n \in 1 .. Len(H.nodes) /\ own[n] = i /\ H.nodes[n].key = w
      BY <3>1, FindOwned DEF H
    <3> HIDE DEF n
    <3> QED BY <3>2 DEF Texts
  <2> QED BY <2>3, <2>4, <2>5
<1> HIDE DEF B, N, last
<1>8. \A a : Is(a) <=> Inner(a, B, last, N)
  <2>1. \A i \in 0 .. N : i = 0 \/ i \in 1 .. N
    BY <1>4
  <2>2. ASSUME NEW a
        PROVE  [i \in 0 .. N |-> IF i = 0 \/ t \in DOMAIN X[i].bound THEN i ELSE a[X[i].last]]
               = [i \in 0 .. N |-> IF i = 0 \/ i \in B THEN i ELSE a[last[i]]]
    BY <1>6, <1>7, <2>1
  <2> QED BY <1>5, <2>2 DEF Inner
<1>9. Inner(f, B, last, N)
  BY DEF B, H, last, N
<1>10. Is(at)
  BY <1>8, <1>9
<1> HIDE DEF at
<1>11. at = f
  BY <1>4, <1>8, <1>9, <1>10, InnerUnique
<1> QED BY <1>1, <1>11

(* The facts every state of the invariant gives the theorems below.        *)
LEMMA Facts ==
    ASSUME IInv
    PROVE  /\ \E own : Owned(AllEnvs, own)
           /\ Shape(AllEnvs, words, Value) /\ Distinct(string, words) /\ words \subseteq Int
           /\ AllEnvs.envs = envs /\ AllEnvs.nodes = nodes
           /\ DOMAIN envs = 1 .. Len(envs) /\ Len(envs) \in Nat /\ Len(nodes) \in Nat
           /\ var_refs \subseteq 1 .. Len(nodes)
           /\ \A n \in words : string[n] \in Text
<1>1. /\ \E own : Owned(AllEnvs, own)
      /\ Shape(AllEnvs, words, Value) /\ words \subseteq Int
      /\ \A n \in words : string[n] \in Text
      /\ var_refs \subseteq 1 .. Len(nodes)
  BY WordAssumption DEF IInv, EnvironmentsInv, SymbolsInv
<1>2. AllEnvs.envs = envs /\ AllEnvs.nodes = nodes
  BY DEF AllEnvs
<1>3. DOMAIN envs = 1 .. Len(envs) /\ Len(envs) \in Nat /\ Len(nodes) \in Nat
  <2>1. /\ DOMAIN AllEnvs.envs = 1 .. Len(AllEnvs.envs) /\ Len(AllEnvs.envs) \in Nat
        /\ Len(AllEnvs.nodes) \in Nat
    BY <1>1, ShapeFacts
  <2> QED BY <1>2, <2>1
<1>4. ASSUME NEW v \in words, NEW w \in words, string[v] = string[w] PROVE v = w
  <2>1. lookup_symbol_address(string[v]) = v /\ lookup_symbol_address(string[w]) = w
    BY Found DEF IInv, SymbolsInv
  <2> HIDE DEF lookup_symbol_address
  <2> QED BY <1>4, <2>1
<1> QED BY <1>1, <1>2, <1>3, <1>4 DEF Distinct

(* An operation that sets a name in an environment binds a text in a scope.*)
LEMMA SetsBind ==
    ASSUME NEW H, NEW S, NEW W, NEW V, Shape(H, W, V), Shape(S, W, V), NEW own, Owned(H, own),
           NEW own2, Owned(S, own2), NEW str, Distinct(str, W),
           NEW e \in 1 .. Len(H.envs), NEW key \in W, NEW v, Sets(H, own, S, own2, e, key, v)
    PROVE  ViewOf(str, S) = Rebind(ViewOf(str, H), e, str[key], v)
<1>1. PICK bnd : ViewOf(str, H) = Scopes(bnd, H) /\ Means(bnd, str, H, own)
  BY ViewMeans
<1> DEFINE bnd2 == Rebound(bnd, H, e, str[key], v)
<1>2. Means(bnd2, str, S, own2)
  BY <1>1, SetsMeans
<1>3. SameLasts(H, S)
  BY DEF Sets, SameLasts
<1>4. Rebind(Scopes(bnd, H), e, str[key], v) = Scopes(bnd2, S)
  BY <1>3, ScopesBind
<1> HIDE DEF bnd2
<1>5. PICK bnd3 : ViewOf(str, S) = Scopes(bnd3, S) /\ Means(bnd3, str, S, own2)
  BY ViewMeans
<1>6. Scopes(bnd2, S) = Scopes(bnd3, S)
  BY <1>2, <1>5, MeansUnique
<1> QED BY <1>1, <1>4, <1>5, <1>6

(* New strings do not change what the trees say.                           *)
LEMMA ViewSame ==
    ASSUME NEW H, NEW W, NEW V, Shape(H, W, V), NEW own, Owned(H, own), NEW str, Distinct(str, W),
           NEW str2, \A w \in W : str2[w] = str[w]
    PROVE  ViewOf(str2, H) = ViewOf(str, H)
<1>1. Distinct(str2, W)
  BY DEF Distinct
<1>2. PICK bnd : ViewOf(str, H) = Scopes(bnd, H) /\ Means(bnd, str, H, own)
  BY ViewMeans
<1>3. PICK bnd2 : ViewOf(str2, H) = Scopes(bnd2, H) /\ Means(bnd2, str2, H, own)
  BY <1>1, ViewMeans
<1>4. \A n \in 1 .. Len(H.nodes) : str2[H.nodes[n].key] = str[H.nodes[n].key]
  <2>1. \A n \in 1 .. Len(H.nodes) : H.nodes[n].key \in W
    BY ShapeFacts
  <2> QED BY <2>1
<1>5. \A f : Texts(str2, H, own, f) = Texts(str, H, own, f)
  <2> TAKE f
  <2> DEFINE M == {n \in 1 .. Len(H.nodes) : own[n] = f}
  <2>1. \A n \in M : str2[H.nodes[n].key] = str[H.nodes[n].key]
    BY <1>4
  <2>2. Texts(str2, H, own, f) = {str2[H.nodes[n].key] : n \in M}
    BY DEF Texts
  <2>3. Texts(str, H, own, f) = {str[H.nodes[n].key] : n \in M}
    BY DEF Texts
  <2> HIDE DEF M
  <2> QED BY <2>1, <2>2, <2>3
<1>6. Means(bnd, str2, H, own)
  BY <1>2, <1>4, <1>5 DEF Means
<1> QED BY <1>2, <1>3, <1>6, MeansUnique

(* The refinement mapping, written without variables,                      *)
LEMMA ViewIs == \A H : View(H) = ViewOf(string, H)
BY DEF View, text, ViewOf

(* In the next state too,                                                  *)
LEMMA ViewNext == View(AllEnvs)' = ViewOf(string', AllEnvs')
BY DEF View, text, ViewOf

(* And the abstract operation with it.                                     *)
LEMMA BindIs == \A e, t, v : D!Bind(e, t, v) = Rebind(View(AllEnvs), e, t, v)
BY DEF D!Bind, Rebind

(* No two words have one text,                                             *)
LEMMA DistinctNow == IInv => Distinct(string, words)
BY Facts

(* Nor in the next state.                                                  *)
LEMMA DistinctNext == IInv' => Distinct(string', words')
<1>1. (IInv => Distinct(string, words))'
  BY DistinctNow, PTL
<1> QED BY <1>1

(* Every lookup and every definition does what it would do to plain        *)
(* mappings, for any number of names and environments (env.c:12-71).       *)
THEOREM NamesKeepTheirMeaning == Spec => []NamesMean
<1>1. ASSUME IInv, NEW e \in DOMAIN envs, NEW w \in words
      PROVE  LET t == string[w]
                 n == env_find_recurse(AllEnvs, e, w)
                 r == D!Resolve(e, t)
             IN  /\ IF r = 0 THEN n = 0 ELSE n \in Members(AllEnvs, r) /\ nodes[n].key = w
                 /\ \A v \in Value :
                        /\ View(env_set(AllEnvs, e, w, v)) = D!Bind(e, t, v)
                        /\ View(env_set_recurse(AllEnvs, e, w, v))
                                = D!Bind(IF r = 0 THEN e ELSE r, t, v)
  <2> DEFINE H == AllEnvs
             t == string[w]
             n == env_find_recurse(H, e, w)
             r == D!Resolve(e, t)
  <2>1. PICK own : Owned(H, own)
    BY <1>1, Facts
  <2>2. /\ Shape(H, words, Value) /\ Distinct(string, words) /\ words \subseteq Int
        /\ H.envs = envs /\ H.nodes = nodes /\ e \in 1 .. Len(H.envs) /\ Len(H.envs) \in Nat
    BY <1>1, Facts
  <2>3. Outwards(Lasts(H), Len(H.envs)) /\ e \in 0 .. Len(H.envs)
    BY <2>2, LastsOutward
  <2>4. PICK f : Inner(f, Binders(H, w), Lasts(H), Len(H.envs))
    BY <2>3, InnerExists
  <2>5. r = f[e]
    BY <2>1, <2>2, <2>4, ResolveIs
  <2>6. \A v \in Value : D!Bind(e, t, v) = Rebind(ViewOf(string, H), e, t, v)
    BY BindIs, ViewIs
  <2>7. \A v \in Value : D!Bind(IF r = 0 THEN e ELSE r, t, v)
                            = Rebind(ViewOf(string, H), IF f[e] = 0 THEN e ELSE f[e], t, v)
    <3> DEFINE d == IF f[e] = 0 THEN e ELSE f[e]
    <3>1. d = IF r = 0 THEN e ELSE r
      BY <2>5
    <3> HIDE DEF d, r
    <3>2. \A v : D!Bind(d, t, v) = Rebind(ViewOf(string, H), d, t, v)
      BY BindIs, ViewIs
    <3> QED BY <3>1, <3>2 DEF d
  <2> HIDE DEF H, r
  <2>8. n = IF f[e] = 0 THEN 0 ELSE env_find(H, f[e], w)
    BY <2>2, <2>4, FindRecurse
  <2>9. f[e] = 0 \/ (f[e] \in Binders(H, w) /\ f[e] \in 1 .. Len(H.envs))
    BY <2>3, <2>4, InnerFound DEF Binders
  <2> HIDE DEF n
  <2>10. IF r = 0 THEN n = 0 ELSE n \in Members(H, r) /\ nodes[n].key = w
    <3>1. CASE f[e] = 0
      BY <2>5, <2>8, <3>1
    <3>2. CASE f[e] # 0
      <4>1. f[e] \in 1 .. Len(H.envs) /\ n = env_find(H, f[e], w) /\ n # 0
        BY <2>8, <2>9, <3>2 DEF Binders
      <4>2. n \in 1 .. Len(H.nodes) /\ own[n] = f[e] /\ H.nodes[n].key = w
        BY <2>1, <2>2, <4>1, FindOwned
      <4>3. Members(H, f[e]) = {m \in 1 .. Len(H.nodes) : own[m] = f[e]}
        BY <2>1, <2>2, <4>1, MembersOwned
      <4> QED BY <2>2, <2>5, <3>2, <4>2, <4>3
    <3> QED BY <3>1, <3>2
  <2>11. ASSUME NEW v \in Value PROVE View(env_set(H, e, w, v)) = Rebind(ViewOf(string, H), e, t, v)
    <3> DEFINE S == env_set(H, e, w, v)
    <3>1. PICK own2 : Shape(S, words, Value) /\ Owned(S, own2) /\ Sets(H, own, S, own2, e, w, v)
      BY <2>1, <2>2, EnvSet
    <3> HIDE DEF S
    <3>2. ViewOf(string, S) = Rebind(ViewOf(string, H), e, string[w], v)
      BY <2>1, <2>2, <3>1, SetsBind
    <3> QED BY <3>2, ViewIs DEF S
  <2>12. ASSUME NEW v \in Value
         PROVE  View(env_set_recurse(H, e, w, v))
                    = Rebind(ViewOf(string, H), IF f[e] = 0 THEN e ELSE f[e], t, v)
    <3> DEFINE S == env_set_recurse(H, e, w, v)
               d == IF f[e] = 0 THEN e ELSE f[e]
    <3>1. PICK own2 : Shape(S, words, Value) /\ Owned(S, own2) /\ Sets(H, own, S, own2, d, w, v)
      BY <2>1, <2>2, <2>4, EnvSetRecurse
    <3>2. d \in 1 .. Len(H.envs)
      BY <2>2, <2>9
    <3> HIDE DEF S, d
    <3>3. ViewOf(string, S) = Rebind(ViewOf(string, H), d, string[w], v)
      BY <2>1, <2>2, <3>1, <3>2, SetsBind
    <3> QED BY <3>3, ViewIs DEF S, d
  <2> QED BY <2>6, <2>7, <2>10, <2>11, <2>12 DEF H, n, r
<1>2. IInv => NamesMean
  BY <1>1 DEF NamesMean
<1> QED BY Invariant, <1>2, PTL

-----------------------------------------------------------------------------
(* The references of compiled code as Dictionary has them.                 *)
References == {<<home(n), string[nodes[n].key]>> : n \in var_refs}

(* The mapping of the references, written the same way.                    *)
LEMMA ReferencesAre ==
    /\ References = RefsOf(string, AllEnvs, var_refs)
    /\ References' = RefsOf(string', AllEnvs', var_refs')
BY DEF References, RefsOf, home, AllEnvs

(* The nodes compiled code points to stay the variables they were.         *)
Kept(H, S, own, own2) ==
    /\ Len(H.nodes) <= Len(S.nodes)
    /\ \A n \in 1 .. Len(H.nodes) : own2[n] = own[n] /\ S.nodes[n].key = H.nodes[n].key

SameTexts(str, str2, W) == \A w \in W : str2[w] = str[w]

(* Nodes keep owner and key, so references stay what they are when the     *)
(* trees grow (compiler.c:41-75).                                          *)
LEMMA RefsKept ==
    ASSUME NEW H, NEW S, NEW W, NEW V, Shape(H, W, V), NEW W2, Shape(S, W2, V),
           NEW own, Owned(H, own), NEW own2, Owned(S, own2), Kept(H, S, own, own2),
           NEW str, NEW str2, SameTexts(str, str2, W), NEW refs, Within(refs, H)
    PROVE  RefsOf(str2, S, refs) = RefsOf(str, H, refs)
<1>1. Within(refs, S)
  <2>1. Len(H.nodes) \in Nat /\ Len(S.nodes) \in Nat
    BY ShapeFacts
  <2>2. 1 .. Len(H.nodes) \subseteq 1 .. Len(S.nodes)
    BY <2>1 DEF Kept
  <2> QED BY <2>2 DEF Within
<1>2. RefsOf(str, H, refs) = RefsBy(str, H, own, refs)
  BY RefsAre
<1>3. RefsOf(str2, S, refs) = RefsBy(str2, S, own2, refs)
  BY <1>1, RefsAre
<1>4. \A n \in refs : own2[n] = own[n] /\ str2[S.nodes[n].key] = str[H.nodes[n].key]
  <2>1. \A n \in 1 .. Len(H.nodes) : H.nodes[n].key \in W
    BY ShapeFacts
  <2>2. ASSUME NEW n \in refs PROVE own2[n] = own[n] /\ str2[S.nodes[n].key] = str[H.nodes[n].key]
    <3>1. n \in 1 .. Len(H.nodes)
      BY DEF Within
    <3>2. own2[n] = own[n] /\ S.nodes[n].key = H.nodes[n].key
      BY <3>1 DEF Kept
    <3>3. str2[H.nodes[n].key] = str[H.nodes[n].key]
      BY <2>1, <3>1 DEF SameTexts
    <3> QED BY <3>2, <3>3
  <2> QED BY <2>2
<1> QED BY <1>2, <1>3, <1>4 DEF RefsBy

(* The builtins are the first scope.                                       *)
LEMMA InitDictionary == Init => D!DInit
<1> SUFFICES ASSUME Init PROVE D!DInit
  OBVIOUS
<1>1. AllEnvs.envs = <<Environment(0)>> /\ AllEnvs.nodes = <<>> /\ var_refs = {}
  BY DEF Init, AllEnvs
<1>2. IInv
  BY InitInv
<1>3. Len(AllEnvs.envs) = 1 /\ AllEnvs.envs[1].last = 0 /\ Len(AllEnvs.nodes) = 0
  BY <1>1 DEF Environment
<1>4. View(AllEnvs) = <<D!Scope(<<>>, 0)>>
  <2>1. PICK own : Owned(AllEnvs, own)
    BY <1>2, Facts
  <2>2. PICK bnd : ViewOf(string, AllEnvs) = Scopes(bnd, AllEnvs) /\ Means(bnd, string, AllEnvs, own)
    BY <1>2, <2>1, Facts, ViewMeans
  <2> DEFINE T == Texts(string, AllEnvs, own, 1)
  <2>3. T = {}
    BY <1>3 DEF Texts
  <2>4. bnd[1] = [t \in T |-> bnd[1][t]]
    BY <1>3, <2>2 DEF Means
  <2> HIDE DEF T
  <2>5. bnd[1] = <<>>
    BY <2>3, <2>4
  <2> DEFINE r == [bound |-> <<>>, last |-> 0]
  <2>6. Scopes(bnd, AllEnvs) = [f \in 1 .. 1 |-> [bound |-> bnd[f], last |-> AllEnvs.envs[f].last]]
    BY <1>3 DEF Scopes
  <2>7. \A f \in 1 .. 1 : [bound |-> bnd[f], last |-> AllEnvs.envs[f].last] = r
    BY <1>3, <2>5
  <2> HIDE DEF r
  <2>8. Scopes(bnd, AllEnvs) = [f \in 1 .. 1 |-> r]
    BY <2>6, <2>7
  <2>9. [f \in 1 .. 1 |-> r] = <<r>>
    OBVIOUS
  <2> QED BY <2>2, <2>8, <2>9, ViewIs DEF r, D!Scope
<1>5. References = {}
  BY <1>1 DEF References
<1> QED BY <1>4, <1>5 DEF D!DInit, References

(* Each step, by the operation that was called.                            *)
LEMMA StepDictionary ==
    ASSUME IInv, IInv', [Next]_namevars
    PROVE  [D!DNext]_(D!dvars)
<1> DEFINE H == AllEnvs
           S == AllEnvs'
           X == View(AllEnvs)
           Y == View(AllEnvs)'
<1>1. PICK own : Owned(H, own)
  BY Facts
<1>2. /\ Shape(H, words, Value) /\ Distinct(string, words)
      /\ H.envs = envs /\ H.nodes = nodes /\ Len(envs) \in Nat
      /\ Within(var_refs, H)
      /\ \A n \in words : string[n] \in Text
  BY Facts DEF Within
<1>3. /\ words \subseteq words' /\ \A n \in words : string'[n] = string[n]
      /\ \A n \in words' : string'[n] \in Text
      /\ SameTexts(string, string', words)
  BY SymbolsStep DEF IInv, SymbolsInv, SameTexts
<1>4. Shape(S, words', Value) /\ Distinct(string', words') /\ Shape(H, words', Value)
  BY <1>2, <1>3, DistinctNext, ShapeGrows DEF IInv, EnvironmentsInv
<1>5. X = ViewOf(string, H) /\ Y = ViewOf(string', S) /\ ViewOf(string', H) = ViewOf(string, H)
  <2>1. ViewOf(string', H) = ViewOf(string, H)
    BY <1>1, <1>2, <1>3, ViewSame
  <2> QED BY <2>1, ViewIs, ViewNext
<1>6. References = RefsOf(string, H, var_refs) /\ References' = RefsOf(string', S, var_refs')
  BY ReferencesAre
<1>7. PICK own2 :
        /\ Owned(S, own2)
        /\ \/ S = H /\ own2 = own /\ var_refs' = var_refs
           \/ /\ \E e \in 1 .. Len(envs), key \in words', v \in Value : Sets(H, own, S, own2, e, key, v)
              /\ var_refs' = var_refs
           \/ /\ \E e \in 1 .. Len(envs), args \in BoundedSeq(words \X Value, MaxParams) :
                    Entered(H, own, S, own2, e, args, Len(args))
              /\ var_refs' = var_refs
           \/ /\ S = H /\ own2 = own
              /\ \E e \in 1 .. Len(envs), sym \in words :
                    /\ env_find_recurse(H, e, sym) # 0
                    /\ var_refs' = var_refs \cup {env_find_recurse(H, e, sym)}
  BY <1>1, EnvironmentsStep
<1> HIDE DEF H, S, X, Y
<1>8. DOMAIN X = 1 .. Len(envs) /\ Len(X) = Len(envs)
  <2>1. PICK bnd : X = Scopes(bnd, H)
    BY <1>1, <1>2, <1>5, ViewMeans
  <2>2. X = [f \in 1 .. Len(envs) |-> X[f]]
    BY <1>2, <2>1 DEF Scopes
  <2> QED BY <1>2, <2>2
<1>9. CASE S = H /\ var_refs' = var_refs
  <2>1. Y = X
    BY <1>5, <1>9
  <2>2. References' = References
    <3>1. Kept(H, H, own, own)
      <4>1. Len(H.nodes) \in Nat
        BY <1>2, ShapeFacts
      <4> QED BY <4>1 DEF Kept
    <3>2. RefsOf(string', H, var_refs) = RefsOf(string, H, var_refs)
      BY <1>1, <1>2, <1>3, <3>1, RefsKept
    <3> QED BY <1>6, <1>9, <3>2
  <2> QED BY <2>1, <2>2 DEF D!dvars, X, Y, References
<1>10. ASSUME NEW e \in 1 .. Len(envs), NEW key \in words', NEW v \in Value,
              Sets(H, own, S, own2, e, key, v), var_refs' = var_refs
       PROVE  D!DNext
  <2> DEFINE t == string'[key]
  <2>1. t \in Text /\ e \in DOMAIN X
    BY <1>3, <1>8
  <2>2. Y = Rebind(X, e, t, v)
    <3>1. ViewOf(string', S) = Rebind(ViewOf(string', H), e, t, v)
      BY <1>1, <1>2, <1>4, <1>7, <1>10, SetsBind
    <3> QED BY <1>5, <3>1
  <2>3. References' = References
    <3>1. Kept(H, S, own, own2)
      BY <1>10 DEF Sets, Kept
    <3>2. RefsOf(string', S, var_refs) = RefsOf(string, H, var_refs)
      BY <1>1, <1>2, <1>3, <1>4, <1>7, <3>1, RefsKept
    <3> QED BY <1>6, <1>10, <3>2
  <2> HIDE DEF t
  <2>4. Y = D!Bind(e, t, v)
    BY <2>2, BindIs DEF X
  <2>5. D!Define(e, t, v)
    BY <2>3, <2>4 DEF D!Define, Y, References
  <2> QED BY <2>1, <2>5 DEF D!DNext, X
<1>11. ASSUME NEW e \in 1 .. Len(envs), NEW args \in BoundedSeq(words \X Value, MaxParams),
              Entered(H, own, S, own2, e, args, Len(args)), var_refs' = var_refs
       PROVE  D!DNext
  <2> DEFINE ps == Given(string', args)
  <2>1. MaxParams \in Nat
    BY BoundsAssumption
  <2>2. /\ Len(args) \in 0 .. MaxParams
        /\ \A i \in 1 .. Len(args) : args[i] \in words \X Value
    BY <2>1, Bounded
  <2>3. Len(args) \in Nat
    BY <2>1, <2>2
  <2>4. \A i \in 1 .. Len(args) : args[i][1] \in words' /\ args[i][2] \in Value
    <3>1. \A x \in words \X Value : x[1] \in words' /\ x[2] \in Value
      BY <1>3
    <3> QED BY <2>2, <3>1
  <2>5. ps \in D!BoundedSeq(Text \X Value, MaxParams)
    <3>1. \A i \in 1 .. Len(args) : <<string'[args[i][1]], args[i][2]>> \in Text \X Value
      BY <1>3, <2>4
    <3>2. ps \in [1 .. Len(args) -> Text \X Value]
      BY <3>1 DEF Given
    <3> HIDE DEF ps
    <3> QED BY <2>2, <3>2 DEF D!BoundedSeq, D!SeqOf
  <2> HIDE DEF ps
  <2>6. Y = Append(X, D!Scope(D!Bindings(ps), e))
    <3>1. PICK bnd : ViewOf(string', H) = Scopes(bnd, H) /\ Means(bnd, string', H, own)
      BY <1>1, <1>4, ViewMeans
    <3> DEFINE N == Len(H.envs)
               B == D!Bindings(Given(string', args))
               bnd2 == Extended(bnd, H, B)
    <3>2. Means(bnd2, string', S, own2)
      BY <1>1, <1>4, <1>7, <1>11, <2>3, <2>4, <3>1, EnteredMeans
    <3>3. OneMore(H, S, e)
      BY <1>2, <1>11 DEF Entered, OneMore
    <3>4. Append(Scopes(bnd, H), D!Scope(B, e)) = Scopes(bnd2, S)
      BY <3>3, ScopesEnter
    <3> HIDE DEF bnd2
    <3>5. PICK bnd3 : ViewOf(string', S) = Scopes(bnd3, S) /\ Means(bnd3, string', S, own2)
      BY <1>4, <1>7, ViewMeans
    <3>6. Scopes(bnd2, S) = Scopes(bnd3, S)
      BY <3>2, <3>5, MeansUnique
    <3> QED BY <1>5, <3>1, <3>4, <3>5, <3>6 DEF ps
  <2>7. Len(Y) > Len(X)
    <3>1. PICK bnd3 : ViewOf(string', S) = Scopes(bnd3, S)
      BY <1>4, <1>7, ViewMeans
    <3>2. Len(S.envs) = Len(envs) + 1
      BY <1>2, <1>11 DEF Entered
    <3>3. Y = [f \in 1 .. Len(envs) + 1 |-> Y[f]]
      BY <1>5, <3>1, <3>2 DEF Scopes
    <3>4. Len(envs) + 1 \in Nat /\ Len(envs) + 1 > Len(envs)
      BY <1>2
    <3>5. Len(Y) = Len(envs) + 1
      BY <3>3, <3>4
    <3> QED BY <1>8, <3>4, <3>5
  <2>8. References' = References
    <3>1. Kept(H, S, own, own2)
      BY <1>11 DEF Entered, Kept
    <3>2. RefsOf(string', S, var_refs) = RefsOf(string, H, var_refs)
      BY <1>1, <1>2, <1>3, <1>4, <1>7, <3>1, RefsKept
    <3> QED BY <1>6, <1>11, <3>2
  <2>9. D!Enter(e, ps)
    BY <2>6, <2>8 DEF D!Enter, X, Y, References
  <2>10. \E d \in DOMAIN View(AllEnvs), qs \in D!BoundedSeq(Text \X Value, MaxParams) : D!Enter(d, qs)
    BY <1>8, <2>5, <2>9, Zenon DEF X
  <2>11. Len(View(AllEnvs)') > Len(View(AllEnvs))
    BY <2>7 DEF X, Y
  <2> QED BY <2>10, <2>11, Zenon DEF D!DNext
<1>12. ASSUME NEW e \in 1 .. Len(envs), NEW sym \in words,
              S = H, own2 = own, env_find_recurse(H, e, sym) # 0,
              var_refs' = var_refs \cup {env_find_recurse(H, e, sym)}
       PROVE  D!DNext
  <2> DEFINE n == env_find_recurse(H, e, sym)
             t == string[sym]
             r == D!Resolve(e, t)
  <2>1. Outwards(Lasts(H), Len(H.envs)) /\ e \in 0 .. Len(H.envs) /\ e \in 1 .. Len(H.envs)
    BY <1>2, LastsOutward
  <2>2. PICK f : Inner(f, Binders(H, sym), Lasts(H), Len(H.envs))
    BY <2>1, InnerExists
  <2>3. r = f[e]
    BY <1>1, <1>2, <2>1, <2>2, ResolveIs DEF H
  <2>4. n = IF f[e] = 0 THEN 0 ELSE env_find(H, f[e], sym)
    BY <1>2, <2>1, <2>2, FindRecurse
  <2>5. f[e] = 0 \/ f[e] \in 1 .. Len(H.envs)
    BY <2>1, <2>2, InnerFound DEF Binders
  <2> HIDE DEF n, r
  <2>6. n # 0 /\ f[e] # 0 /\ n = env_find(H, f[e], sym) /\ f[e] \in 1 .. Len(H.envs)
    BY <1>12, <2>4, <2>5 DEF n
  <2>7. n \in 1 .. Len(H.nodes) /\ own[n] = r /\ H.nodes[n].key = sym
    BY <1>1, <1>2, <2>3, <2>6, FindOwned
  <2>8. References' = References \cup {<<r, t>>}
    <3>1. References = RefsBy(string, H, own, var_refs)
      BY <1>1, <1>2, <1>6, RefsAre
    <3>2. var_refs' = var_refs \cup {n} /\ Within(var_refs', H)
      BY <1>2, <1>12, <2>7 DEF n, Within
    <3>3. RefsOf(string', H, var_refs') = RefsBy(string', H, own, var_refs')
      BY <1>1, <1>2, <3>2, RefsAre
    <3>4. \A m \in var_refs' : string'[H.nodes[m].key] = string[H.nodes[m].key]
      <4>1. \A m \in 1 .. Len(H.nodes) : H.nodes[m].key \in words
        BY <1>2, ShapeFacts
      <4> QED BY <1>3, <3>2, <4>1 DEF Within
    <3>5. References' = RefsBy(string, H, own, var_refs')
      BY <1>6, <1>12, <3>3, <3>4 DEF RefsBy
    <3>6. <<own[n], string[H.nodes[n].key]>> = <<r, t>>
      BY <2>7
    <3> QED BY <3>1, <3>2, <3>5, <3>6 DEF RefsBy
  <2>9. Y = X
    BY <1>5, <1>12
  <2>10. r # 0 /\ t \in Text /\ e \in DOMAIN X
    BY <1>2, <1>8, <2>3, <2>6
  <2>11. PICK u \in Text : u = t
    BY <2>10
  <2>12. D!Refer(e, u) /\ e \in DOMAIN View(AllEnvs)
    BY <2>8, <2>9, <2>10, <2>11 DEF D!Refer, X, Y, r, References
  <2>13. \E d \in DOMAIN View(AllEnvs), w \in Text : D!Refer(d, w)
    BY <2>11, <2>12, Zenon
  <2> QED BY <2>13, Zenon DEF D!DNext
<1> QED BY <1>7, <1>9, <1>10, <1>11, <1>12

(* Whatever the trees look like, the symbol table and the environments do  *)
(* what scopes of plain mappings would: each step is one of theirs, and the*)
(* nodes that compiled code points to stay the variables they were         *)
(* (vm_ops.c:68-86, 174-180, 441-482).                                     *)
THEOREM NamesImplementDictionary == Spec => DictionarySpec
<1>1. IInv /\ IInv' /\ [Next]_namevars => [D!DNext]_(D!dvars)
  BY StepDictionary
<1> QED BY InitDictionary, Invariant, <1>1, PTL DEF Spec, DictionarySpec, D!DSpec
=============================================================================
