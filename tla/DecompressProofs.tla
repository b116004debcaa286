-------------------------- MODULE DecompressProofs --------------------------
(***************************************************************************)
(* The decompressor of td0.cc, for every number of characters and of bits  *)
(* in a byte, every frequency at which the tree is made anew, every code   *)
(* of positions, every size of the ring and every file: its tree is a      *)
(* Huffman tree with one leaf for every character whenever a character is  *)
(* decoded; its text is an LZSS text, of the bytes the ring holds; and     *)
(* get_bit and get_unaligned_byte, in any order, use each bit once.        *)
(*                                                                         *)
(* The inductive invariant of the tree, TreeIndInv, has one part for each  *)
(* place that get_byte can be in: IsTree while the tree is whole, up to    *)
(* the node that is still to be counted; Halving and Joining for the two   *)
(* loops that make it anew.  What is said of a tree is said of three       *)
(* functions f, s and p, so that one lemma serves a step whatever else it  *)
(* changes.                                                                *)
(*                                                                         *)
(* The inductive invariant of the text, LzssInv, says that the ring, read  *)
(* backwards from GBr, is the text read backwards; that a string is only   *)
(* copied while decode_char waits; and that the bits of a position are a   *)
(* byte and no more than its code asks for.                                *)
(***************************************************************************)
EXTENDS Decompress, FiniteSetTheorems, WellFoundedInduction, TLAPS

-----------------------------------------------------------------------------
(* Induction over the natural numbers, as a fact about sets of them.       *)

LEMMA LeastNumber ==
    ASSUME NEW S, S \subseteq Nat, S # {}
    PROVE  \E m \in S : \A k \in S : m <= k
<1> DEFINE R == OpToRel(<, Nat)
<1>1. IsWellFoundedOn(R, Nat)
  BY NatLessThanWellFounded
<1>2. \A m, k \in Nat : k < m => <<k, m>> \in R
  BY DEF OpToRel
<1> HIDE DEF R
<1>3. PICK m \in S : \A k \in S : ~ (<<k, m>> \in R)
  BY <1>1, WFMin
<1>4. \A k \in S : ~ (k < m) /\ k \in Nat /\ m \in Nat
  BY <1>2, <1>3
<1>5. QED
  BY <1>4

\* A set that holds 0, and k + 1 with every k below n, holds every number up to n.
LEMMA InductionUpTo ==
    ASSUME NEW S, NEW n \in Nat, 0 \in S,
           \A k \in 0 .. n - 1 : k \in S => k + 1 \in S
    PROVE  \A k \in 0 .. n : k \in S
<1> SUFFICES ASSUME NEW k \in 0 .. n, k \notin S PROVE FALSE
  OBVIOUS
<1> DEFINE B == {m \in 0 .. n : m \notin S}
<1>1. PICK m \in B : \A l \in B : m <= l
  <2>1. B \subseteq Nat /\ B # {}
    OBVIOUS
  <2> HIDE DEF B
  <2>2. QED
    BY <2>1, LeastNumber
<1>2. m # 0 /\ m - 1 \in 0 .. n - 1 /\ m - 1 \in S
  BY <1>1
<1>3. QED
  BY <1>1, <1>2

-----------------------------------------------------------------------------
(* Sums over the nodes of the tree.                                        *)

LEMMA TreeSizes ==
    /\ N_CHAR \in Nat /\ 1 < N_CHAR
    /\ TSIZE = 2 * N_CHAR - 1 /\ ROOT = 2 * N_CHAR - 2
    /\ TSIZE \in Nat /\ ROOT \in Nat /\ TSIZE = ROOT + 1
    /\ MAX_FREQ \in Nat /\ N_CHAR < MAX_FREQ
    /\ Sentinel = 2 * MAX_FREQ - 1
    /\ Bytes \in Nat /\ Bytes > 0 /\ Bytes < N_CHAR
<1>1. /\ Bytes \in Nat /\ Bytes > 0 /\ THRESHOLD \in Nat /\ LASIZE \in Nat
      /\ THRESHOLD < LASIZE /\ MAX_FREQ \in Nat
  BY SizesAssumption
<1>2. N_CHAR \in Nat /\ 1 < N_CHAR /\ Bytes < N_CHAR
  BY <1>1 DEF N_CHAR
<1>3. QED
  BY <1>1, <1>2, FreqAssumption DEF TSIZE, ROOT, Sentinel

\* The sums of the weights of the first nodes.
Sum(w) == LET s[n \in 0 .. TSIZE] == IF n = 0 THEN 0 ELSE s[n - 1] + w[n - 1] IN s

Total(w) == Sum(w)[TSIZE]

LEMMA SumDef ==
    ASSUME NEW w
    PROVE  Sum(w) = [n \in 0 .. TSIZE |-> IF n = 0 THEN 0 ELSE Sum(w)[n - 1] + w[n - 1]]
<1> DEFINE Is(f, m) == f = [n \in 0 .. m |-> IF n = 0 THEN 0 ELSE f[n - 1] + w[n - 1]]
           S == {m \in Nat : \E f : Is(f, m)}
<1>1. 0 \in S
  <2>1. Is([n \in 0 .. 0 |-> 0], 0)
    OBVIOUS
  <2> HIDE DEF Is
  <2>2. QED
    BY <2>1
<1>2. ASSUME NEW m \in Nat, m \in S PROVE m + 1 \in S
  <2>1. PICK f : Is(f, m)
    BY <1>2
  <2> DEFINE g == [n \in 0 .. m + 1 |-> IF n = m + 1 THEN f[m] + w[m] ELSE f[n]]
  <2>2. \A n \in 0 .. m : f[n] = IF n = 0 THEN 0 ELSE f[n - 1] + w[n - 1]
    BY <2>1
  <2>3. ASSUME NEW n \in 0 .. m + 1
        PROVE  g[n] = IF n = 0 THEN 0 ELSE g[n - 1] + w[n - 1]
    <3>1. CASE n = m + 1
      <4>1. n # 0 /\ n - 1 = m /\ m \in 0 .. m + 1 /\ m # m + 1
        BY <3>1
      <4>2. g[m] = f[m] /\ g[n] = f[m] + w[m]
        BY <3>1, <4>1
      <4>3. QED
        BY <4>1, <4>2
    <3>2. CASE n = 0
      BY <2>2, <3>2
    <3>3. CASE n # 0 /\ n # m + 1
      <4>1. n \in 0 .. m /\ n - 1 \in 0 .. m + 1 /\ n - 1 # m + 1
        BY <3>3
      <4>2. g[n] = f[n] /\ g[n - 1] = f[n - 1]
        BY <3>3, <4>1
      <4>3. QED
        BY <2>2, <3>3, <4>1, <4>2
    <3>4. QED
      BY <3>1, <3>2, <3>3
  <2>4. g = [n \in 0 .. m + 1 |-> IF n = 0 THEN 0 ELSE g[n - 1] + w[n - 1]]
    <3>1. g = [n \in 0 .. m + 1 |-> g[n]]
      OBVIOUS
    <3> HIDE DEF g
    <3>2. QED
      BY <2>3, <3>1
  <2> HIDE DEF g
  <2>5. Is(g, m + 1)
    BY <2>4
  <2> HIDE DEF Is
  <2>6. QED
    BY <2>5
<1>3. TSIZE \in S
  <2>1. TSIZE \in Nat
    BY TreeSizes
  <2> HIDE DEF S
  <2>2. \A m \in 0 .. TSIZE - 1 : m \in S => m + 1 \in S
    BY <1>2, <2>1
  <2>3. QED
    BY <1>1, <2>1, <2>2, InductionUpTo
<1>4. PICK f : Is(f, TSIZE)
  BY <1>3
<1>5. Sum(w) = CHOOSE s : Is(s, TSIZE)
  BY DEF Sum
<1> HIDE DEF Is
<1>6. Is(Sum(w), TSIZE)
  BY <1>4, <1>5
<1>7. QED
  BY <1>6 DEF Is

LEMMA SumAt ==
    ASSUME NEW w
    PROVE  Sum(w)[0] = 0 /\ \A n \in Node : Sum(w)[n + 1] = Sum(w)[n] + w[n]
<1>1. TSIZE \in Nat /\ ROOT \in Nat /\ TSIZE = ROOT + 1
  BY TreeSizes
<1> DEFINE s == Sum(w)
<1>2. s = [n \in 0 .. TSIZE |-> IF n = 0 THEN 0 ELSE s[n - 1] + w[n - 1]]
  BY SumDef
<1> HIDE DEF s
<1>3. s[0] = 0
  BY <1>1, <1>2
<1>4. ASSUME NEW n \in Node PROVE s[n + 1] = s[n] + w[n]
  <2>1. n + 1 \in 0 .. TSIZE /\ n + 1 # 0 /\ (n + 1) - 1 = n
    BY <1>1 DEF Node
  <2>2. QED
    BY <1>2, <2>1
<1>5. QED
  BY <1>3, <1>4 DEF s

\* A function with the increments w is the sum of w.
LEMMA SumIs ==
    ASSUME NEW w, NEW D, D[0] = 0, \A n \in Node : D[n + 1] = D[n] + w[n]
    PROVE  \A n \in 0 .. TSIZE : Sum(w)[n] = D[n]
<1>1. TSIZE \in Nat /\ TSIZE - 1 = ROOT
  BY TreeSizes
<1> DEFINE S == {n \in Nat : Sum(w)[n] = D[n]}
<1>2. 0 \in S
  BY SumAt
<1>3. ASSUME NEW n \in 0 .. TSIZE - 1, n \in S PROVE n + 1 \in S
  <2>1. n \in Node
    BY <1>1 DEF Node
  <2>2. QED
    BY <1>3, <2>1, SumAt
<1> HIDE DEF S
<1>4. \A n \in 0 .. TSIZE : n \in S
  BY <1>1, <1>2, <1>3, InductionUpTo
<1>5. QED
  BY <1>4 DEF S

LEMMA SumType ==
    ASSUME NEW w \in [Node -> Int]
    PROVE  \A n \in 0 .. TSIZE : Sum(w)[n] \in Int
<1>1. TSIZE \in Nat /\ TSIZE - 1 = ROOT
  BY TreeSizes
<1> DEFINE S == {n \in Nat : Sum(w)[n] \in Int}
<1>2. 0 \in S
  BY SumAt
<1>3. ASSUME NEW n \in 0 .. TSIZE - 1, n \in S PROVE n + 1 \in S
  <2>1. n \in Node
    BY <1>1 DEF Node
  <2>2. QED
    BY <1>3, <2>1, SumAt
<1> HIDE DEF S
<1>4. \A n \in 0 .. TSIZE : n \in S
  BY <1>1, <1>2, <1>3, InductionUpTo
<1>5. QED
  BY <1>4 DEF S

\* The sums of u and w differ by what D adds up.
LEMMA TotalsDiffer ==
    ASSUME NEW u \in [Node -> Int], NEW w \in [Node -> Int], NEW D \in [0 .. TSIZE -> Int],
           D[0] = 0, \A n \in Node : D[n + 1] = D[n] + (u[n] - w[n])
    PROVE  Total(u) = Total(w) + D[TSIZE]
<1>1. TSIZE \in Nat /\ TSIZE = ROOT + 1 /\ ROOT \in Nat
  BY TreeSizes
<1> DEFINE E == [n \in 0 .. TSIZE |-> Sum(w)[n] + D[n]]
<1>2. E[0] = 0
  BY <1>1, SumAt
<1>3. ASSUME NEW n \in Node PROVE E[n + 1] = E[n] + u[n]
  <2>1. n \in 0 .. TSIZE /\ n + 1 \in 0 .. TSIZE
    BY <1>1 DEF Node
  <2>2. Sum(w)[n + 1] = Sum(w)[n] + w[n] /\ Sum(w)[n] \in Int
    BY <2>1, SumAt, SumType
  <2>3. D[n + 1] = D[n] + (u[n] - w[n]) /\ D[n] \in Int /\ u[n] \in Int /\ w[n] \in Int
    BY <2>1
  <2>4. QED
    BY <2>1, <2>2, <2>3
<1> HIDE DEF E
<1>4. Sum(u)[TSIZE] = E[TSIZE]
  <2>1. \A n \in 0 .. TSIZE : Sum(u)[n] = E[n]
    BY <1>2, <1>3, SumIs
  <2>2. QED
    BY <1>1, <2>1
<1>5. QED
  BY <1>1, <1>4 DEF E, Total

\* The weights of two nodes change.
LEMMA TwoChange ==
    ASSUME NEW u \in [Node -> Int], NEW w \in [Node -> Int], NEW a \in Node, NEW b \in Node,
           a # b, \A n \in Node \ {a, b} : u[n] = w[n]
    PROVE  Total(u) = Total(w) + (u[a] - w[a]) + (u[b] - w[b])
<1>1. TSIZE \in Nat /\ TSIZE = ROOT + 1 /\ ROOT \in Nat
  BY TreeSizes
<1>2. PICK x \in Int, y \in Int : x = u[a] - w[a] /\ y = u[b] - w[b]
  OBVIOUS
<1> DEFINE D == [n \in 0 .. TSIZE |-> (IF n > a THEN x ELSE 0) + (IF n > b THEN y ELSE 0)]
<1>3. a \in Nat /\ b \in Nat /\ a < TSIZE /\ b < TSIZE
  BY <1>1 DEF Node
<1>4. D \in [0 .. TSIZE -> Int] /\ D[0] = 0 /\ D[TSIZE] = x + y
  BY <1>1, <1>3
<1>5. ASSUME NEW n \in Node PROVE D[n + 1] = D[n] + (u[n] - w[n])
  <2>1. n \in 0 .. TSIZE /\ n + 1 \in 0 .. TSIZE /\ u[n] \in Int /\ w[n] \in Int /\ n \in Nat
    BY <1>1 DEF Node
  <2>2. CASE n = a
    <3>1. D[n + 1] = x + (IF n > b THEN y ELSE 0) /\ D[n] = (IF n > b THEN y ELSE 0)
      BY <1>3, <2>1, <2>2
    <3>2. QED
      BY <1>2, <2>2, <3>1
  <2>3. CASE n = b
    <3>1. D[n + 1] = (IF n > a THEN x ELSE 0) + y /\ D[n] = (IF n > a THEN x ELSE 0)
      BY <1>3, <2>1, <2>3
    <3>2. QED
      BY <1>2, <2>3, <3>1
  <2>4. CASE n # a /\ n # b
    <3>1. D[n + 1] = D[n] /\ D[n] \in Int
      BY <1>3, <2>1, <2>4
    <3>2. u[n] = w[n]
      BY <2>4
    <3>3. QED
      BY <2>1, <3>1, <3>2
  <2>5. QED
    BY <2>2, <2>3, <2>4
<1> HIDE DEF D
<1>6. Total(u) = Total(w) + (x + y)
  BY <1>4, <1>5, TotalsDiffer
<1>7. Total(w) \in Int
  BY <1>1, SumType DEF Total
<1>8. QED
  BY <1>2, <1>6, <1>7

\* The weight of one node changes.
LEMMA OneChange ==
    ASSUME NEW u \in [Node -> Int], NEW w \in [Node -> Int], NEW a \in Node,
           \A n \in Node \ {a} : u[n] = w[n]
    PROVE  Total(u) = Total(w) + (u[a] - w[a])
<1>1. ROOT \in Nat /\ 1 <= ROOT /\ TSIZE \in Nat
  BY TreeSizes
<1>2. PICK b \in Node : b # a
  <2>1. 0 \in Node /\ 1 \in Node
    BY <1>1 DEF Node
  <2>2. QED
    BY <2>1
<1>3. Total(u) = Total(w) + (u[a] - w[a]) + (u[b] - w[b]) /\ u[b] = w[b]
  BY <1>2, TwoChange
<1>4. Total(w) \in Int /\ u[a] \in Int /\ w[a] \in Int /\ w[b] \in Int
  BY <1>1, SumType DEF Total
<1>5. QED
  BY <1>3, <1>4

\* A weight is put in at k; those from k to j - 1 move up by one.
LEMMA Inserted ==
    ASSUME NEW u \in [Node -> Int], NEW w \in [Node -> Int], NEW j \in Node, NEW k \in 0 .. j,
           \A n \in Node : n < k => u[n] = w[n],
           \A n \in Node : k < n /\ n <= j => u[n] = w[n - 1],
           \A n \in Node : j < n => u[n] = w[n],
           w[j] = 0
    PROVE  Total(u) = Total(w) + u[k]
<1>1. TSIZE \in Nat /\ TSIZE = ROOT + 1 /\ ROOT \in Nat
  BY TreeSizes
<1>2. j \in Nat /\ k \in Nat /\ k <= j /\ j < TSIZE /\ k \in Node
  BY <1>1 DEF Node
<1>3. PICK x \in Int : x = u[k]
  BY <1>2
<1> DEFINE D == [n \in 0 .. TSIZE |-> IF n <= k THEN 0
                                      ELSE IF n <= j THEN x - w[n - 1] ELSE x]
<1>4. ASSUME NEW n \in 0 .. TSIZE
      PROVE  D[n] \in Int
  <2>1. ~(n <= k) /\ n <= j => n - 1 \in Node
    BY <1>1, <1>2 DEF Node
  <2>2. QED
    BY <2>1
<1>5. D \in [0 .. TSIZE -> Int] /\ D[0] = 0 /\ D[TSIZE] = x
  BY <1>1, <1>2, <1>4
<1>6. ASSUME NEW n \in Node PROVE D[n + 1] = D[n] + (u[n] - w[n])
  <2>1. n \in 0 .. TSIZE /\ n + 1 \in 0 .. TSIZE /\ u[n] \in Int /\ w[n] \in Int /\ n \in Nat
        /\ (n + 1) - 1 = n
    BY <1>1 DEF Node
  <2>2. CASE n < k
    BY <1>2, <2>1, <2>2
  <2>3. CASE n = k
    <3>1. D[n] = 0 /\ D[n + 1] = IF n + 1 <= j THEN x - w[n] ELSE x
      BY <1>2, <2>1, <2>3
    <3>2. ~(n + 1 <= j) => n = j /\ w[n] = 0
      BY <1>2, <2>1, <2>3
    <3>3. QED
      BY <1>3, <2>1, <2>3, <3>1, <3>2
  <2>4. CASE k < n /\ n <= j
    <3>1. n - 1 \in Node /\ u[n] = w[n - 1] /\ w[n - 1] \in Int
      BY <1>1, <1>2, <2>1, <2>4 DEF Node
    <3>2. D[n] = x - w[n - 1] /\ D[n + 1] = IF n + 1 <= j THEN x - w[n] ELSE x
      BY <1>2, <2>1, <2>4
    <3>3. ~(n + 1 <= j) => n = j /\ w[n] = 0
      BY <1>2, <2>1, <2>4
    <3>4. QED
      BY <2>1, <3>1, <3>2, <3>3
  <2>5. CASE j < n
    <3>1. D[n] = x /\ D[n + 1] = x
      BY <1>2, <2>1, <2>5
    <3>2. QED
      BY <2>1, <2>5, <3>1
  <2>6. QED
    BY <1>2, <2>1, <2>2, <2>3, <2>4, <2>5
<1> HIDE DEF D
<1>7. QED
  BY <1>3, <1>5, <1>6, TotalsDiffer

-----------------------------------------------------------------------------
(* The tree f, s, p: frequencies, sons and parents.                        *)

Leaves == TSIZE .. TSIZE + N_CHAR - 1

LeafWeights(f, s) == [n \in Node |-> IF s[n] >= TSIZE THEN f[n] ELSE 0]

FreqType(f) == f \in [0 .. TSIZE -> Nat] /\ f[TSIZE] = Sentinel

TreeSorted(f) == \A n \in Node : 0 < f[n] /\ f[n] <= f[n + 1]

\* All nodes are as frequent as their children but x.
TreeSums(f, s, x) ==
    \A n \in Node : s[n] < TSIZE =>
        f[s[n]] + f[s[n] + 1] = f[n] + (IF n = x THEN 1 ELSE 0)

TreeLinked(s, p) ==
    /\ s \in [Node -> Nat] /\ p \in [0 .. TSIZE + N_CHAR - 1 -> Node]
    /\ p[ROOT] = 0
    /\ \A n \in Node : IF s[n] >= TSIZE THEN s[n] \in Leaves /\ p[s[n]] = n
                       ELSE s[n] + 1 < n /\ p[s[n]] = n /\ p[s[n] + 1] = n
    /\ \A k \in Node \ {ROOT} : s[p[k]] \in {k - 1, k}
    /\ \A l \in Leaves : s[p[l]] = l

\* The tree when node x is to be counted, or when none is, and x is TSIZE.
IsTree(f, s, p, x) ==
    /\ FreqType(f) /\ TreeSorted(f) /\ TreeLinked(s, p)
    /\ TreeSums(f, s, x)
    /\ Total(LeafWeights(f, s)) = f[ROOT] + (IF x = TSIZE THEN 0 ELSE 1)

\* The nodes with the leaves while they move to the front: j of them have moved, and
\* the nodes from i on are to be looked at.
Live(s, m, j) == {n \in Node : n < j \/ (m <= n /\ s[n] >= TSIZE)}

\* The weights of the leaves before the frequencies are halved.
Unhalved(f, s, m, j) ==
    [n \in Node |-> IF n < j THEN 2 * f[n] ELSE IF m <= n /\ s[n] >= TSIZE THEN f[n] ELSE 0]

Halving(f, s, m, j) ==
    /\ FreqType(f) /\ s \in [Node -> Nat]
    /\ m \in 0 .. TSIZE /\ j \in 0 .. m
    /\ \A n \in Live(s, m, j) : s[n] \in Leaves /\ 0 < f[n]
    /\ \A n \in 0 .. j - 2 : f[n] <= f[n + 1]
    /\ \A n \in m .. ROOT - 1 : f[n] <= f[n + 1]
    /\ \A n \in 0 .. j - 1 : m <= ROOT => f[n] <= (f[m] + 1) \div 2
    /\ \A n, k \in Live(s, m, j) : s[n] = s[k] => n = k
    /\ \A l \in Leaves : \E n \in Live(s, m, j) : s[n] = l
    /\ Total(Unhalved(f, s, m, j)) <= MAX_FREQ + j

\* The leaves among the first j nodes, and the nodes without a parent.
Joined(f, s, j) == [n \in Node |-> IF n < j /\ s[n] >= TSIZE THEN f[n] ELSE 0]
Orphans(f, m, j) == [n \in Node |-> IF m <= n /\ n < j THEN f[n] ELSE 0]

\* The first j nodes are nodes of a tree, those below 2 * d have a parent.
Grown(s, d, j) ==
    /\ s \in [Node -> Nat] /\ j \in 0 .. TSIZE /\ d \in Nat
    /\ \A n \in 0 .. j - 1 : \/ s[n] \in Leaves
                             \/ s[n] + 1 < n /\ \E e \in 0 .. d - 1 : s[n] = 2 * e
    /\ \A n, k \in 0 .. j - 1 : s[n] = s[k] => n = k
    /\ \A l \in Leaves : \E n \in 0 .. j - 1 : s[n] = l
    /\ \A e \in 0 .. d - 1 : \E n \in 0 .. j - 1 : s[n] = 2 * e

Joining(f, s, m, j) ==
    /\ FreqType(f)
    /\ j \in N_CHAR .. TSIZE /\ m = 2 * (j - N_CHAR)
    /\ Grown(s, j - N_CHAR, j)
    /\ \A n \in 0 .. j - 1 : 0 < f[n] /\ (s[n] < TSIZE => f[s[n]] + f[s[n] + 1] = f[n])
    /\ \A n \in 0 .. j - 2 : f[n] <= f[n + 1]
    /\ 2 * Total(Joined(f, s, j)) <= MAX_FREQ + N_CHAR
    /\ Total(Orphans(f, m, j)) = Total(Joined(f, s, j))

-----------------------------------------------------------------------------
(* The tree of the state, whatever update is at.                           *)

\* The node that update is to count when its children have been.
Pending == IF pc = "climb" /\ son[node] < TSIZE THEN node ELSE TSIZE

TreePhase ==
    /\ pc \notin {"halve", "join"} =>
          IsTree(freq, son, parent, Pending) /\ freq[ROOT] <= MAX_FREQ
    /\ pc = "climb" => node \in Node /\ freq[ROOT] < MAX_FREQ
    /\ pc = "halve" => Halving(freq, son, loop.i, loop.j)
    /\ pc = "join" => Joining(freq, son, loop.i, loop.j)

Counting == {"update", "halve", "join", "climb", "decoded", "position"}

\* The character that is decoded, and where decode_char is in the tree.
CharPhase ==
    /\ pc \in Counting \cup {"idle", "walk"}
    /\ pc = "walk" => c \in Leaves \/ (c \in Node /\ c + 1 \in Node)
    /\ pc \in Counting => c \in Character
    /\ pc \in {"position"} => c >= Bytes

TreeIndInv == TreePhase /\ CharPhase

-----------------------------------------------------------------------------
(* Counting a node.                                                        *)

LEMMA NodeFacts ==
    /\ \A n \in Node : n \in Nat /\ n < TSIZE /\ n + 1 \in 0 .. TSIZE /\ n \in 0 .. TSIZE
    /\ ROOT \in Node /\ ROOT \in Nat /\ ROOT >= 2 /\ TSIZE = ROOT + 1 /\ TSIZE \notin Node
    /\ \A n \in Node : n # ROOT => n + 1 \in Node
    /\ \A n \in Node, k \in Nat : k <= n => k \in Node
    /\ \A n \in 0 .. TSIZE : n \in Node \/ n = TSIZE
    /\ \A l \in Leaves : l \in Nat /\ l >= TSIZE /\ l \in 0 .. TSIZE + N_CHAR - 1
    /\ \A n \in Node : n \in 0 .. TSIZE + N_CHAR - 1 /\ n \notin Leaves
<1>1. N_CHAR \in Nat /\ 1 < N_CHAR /\ TSIZE = 2 * N_CHAR - 1 /\ ROOT = 2 * N_CHAR - 2
  BY TreeSizes
<1>2. QED
  BY <1>1 DEF Node, Leaves

\* Nodes further on are as frequent at least.
LEMMA SortedUpTo ==
    ASSUME NEW f, NEW a \in Nat, NEW b \in Nat,
           \A n \in a .. b - 1 : f[n] <= f[n + 1], \A n \in a .. b : f[n] \in Nat
    PROVE  \A n, k \in a .. b : n <= k => f[n] <= f[k]
<1> SUFFICES ASSUME NEW n \in a .. b, NEW k \in a .. b, n <= k PROVE f[n] <= f[k]
  OBVIOUS
<1> DEFINE S == {x \in Nat : f[n] <= f[n + x]}
<1>1. n \in Nat /\ k \in Nat /\ k - n \in Nat /\ k - n \in 0 .. k - n /\ f[n] \in Nat
  OBVIOUS
<1>2. 0 \in S
  BY <1>1
<1>3. ASSUME NEW x \in 0 .. (k - n) - 1, x \in S PROVE x + 1 \in S
  <2>1. n + x \in a .. b - 1 /\ n + (x + 1) \in a .. b /\ n + (x + 1) = (n + x) + 1
    BY <1>1
  <2>2. f[n + x] <= f[n + (x + 1)] /\ f[n + x] \in Nat /\ f[n + (x + 1)] \in Nat
    BY <2>1
  <2>3. f[n] <= f[n + x] /\ x \in Nat
    BY <1>3
  <2>4. f[n] <= f[n + (x + 1)]
    BY <1>1, <2>2, <2>3
  <2>5. QED
    BY <2>3, <2>4
<1> HIDE DEF S
<1>4. k - n \in S
  BY <1>1, <1>2, <1>3, InductionUpTo
<1>5. n + (k - n) = k
  BY <1>1
<1>6. QED
  BY <1>4, <1>5 DEF S

LEMMA TreeSortedUpTo ==
    ASSUME NEW f, FreqType(f), TreeSorted(f)
    PROVE  \A n, k \in 0 .. TSIZE : n <= k => f[n] <= f[k]
<1>1. TSIZE \in Nat /\ \A n \in 0 .. TSIZE - 1 : n \in Node
  BY TreeSizes DEF Node
<1>2. \A n \in 0 .. TSIZE - 1 : f[n] <= f[n + 1]
  BY <1>1 DEF TreeSorted
<1>3. \A n \in 0 .. TSIZE : f[n] \in Nat
  BY DEF FreqType
<1>4. QED
  BY <1>1, <1>2, <1>3, SortedUpTo

\* Parents come after their children; a child is one of two.
LEMMA TreeParents ==
    ASSUME NEW s, NEW p, TreeLinked(s, p)
    PROVE  /\ \A k \in Node \ {ROOT} : /\ p[k] \in Node /\ k < p[k] /\ s[p[k]] < TSIZE
                                       /\ k = s[p[k]] \/ k = s[p[k]] + 1
           /\ \A n \in Node : s[n] < TSIZE => /\ s[n] \in Node /\ s[n] + 1 \in Node
                                              /\ s[n] # ROOT /\ s[n] + 1 # ROOT
           /\ s[ROOT] = ROOT - 2
<1>1. ASSUME NEW k \in Node \ {ROOT}
      PROVE  /\ p[k] \in Node /\ k < p[k] /\ s[p[k]] < TSIZE
             /\ k = s[p[k]] \/ k = s[p[k]] + 1
  <2>1. /\ k \in Nat /\ k < TSIZE /\ TSIZE \in Nat /\ k \in 0 .. TSIZE + N_CHAR - 1
        /\ s[p[k]] \in {k - 1, k}
    BY NodeFacts, TreeSizes DEF TreeLinked
  <2>2. p[k] \in Node
    BY <2>1 DEF TreeLinked
  <2>3. p[k] \in Nat /\ s[p[k]] \in Nat /\ s[p[k]] < TSIZE
    <3>1. s[p[k]] \in Nat
      BY <2>2 DEF TreeLinked
    <3>2. p[k] \in Nat
      BY <2>2, NodeFacts
    <3>3. PICK a : a = s[p[k]]
      OBVIOUS
    <3>4. a \in {k - 1, k}
      BY <2>1, <3>3
    <3>5. a < TSIZE
      BY <2>1, <3>4
    <3>6. QED
      BY <3>1, <3>2, <3>3, <3>5
  <2>4. s[p[k]] + 1 < p[k]
    BY <2>1, <2>2, <2>3 DEF TreeLinked
  <2>5. QED
    BY <2>1, <2>2, <2>3, <2>4
<1>2. ASSUME NEW n \in Node, s[n] < TSIZE
      PROVE  s[n] \in Node /\ s[n] + 1 \in Node /\ s[n] # ROOT /\ s[n] + 1 # ROOT
  <2>1. n \in Nat /\ n <= ROOT /\ s[n] \in Nat /\ ROOT \in Nat /\ TSIZE \in Nat
    <3>1. s[n] \in Nat
      BY DEF TreeLinked
    <3>2. QED
      BY <3>1, NodeFacts, TreeSizes
  <2>2. s[n] + 1 < n
    BY <1>2, <2>1 DEF TreeLinked
  <2>3. QED
    BY <2>1, <2>2 DEF Node
<1>3. s[ROOT] = ROOT - 2
  <2>1. ROOT - 1 \in Node \ {ROOT} /\ ROOT \in Nat /\ ROOT \in Node
    BY NodeFacts DEF Node
  <2>2. p[ROOT - 1] = ROOT /\ s[ROOT] < TSIZE /\ s[ROOT] \in {ROOT - 1, ROOT - 2}
    <3>1. p[ROOT - 1] \in Node /\ ROOT - 1 < p[ROOT - 1]
      BY <1>1, <2>1
    <3>2. p[ROOT - 1] = ROOT
      BY <2>1, <3>1 DEF Node
    <3>3. s[ROOT] < TSIZE /\ (ROOT - 1 = s[ROOT] \/ ROOT - 1 = s[ROOT] + 1) /\ s[ROOT] \in Nat
      BY <1>1, <2>1, <3>2 DEF TreeLinked
    <3>4. QED
      BY <2>1, <3>2, <3>3
  <2>3. s[ROOT] + 1 < ROOT
    <3>1. ~(s[ROOT] >= TSIZE)
      BY <2>1, <2>2, TreeSizes
    <3>2. QED
      BY <2>1, <3>1 DEF TreeLinked
  <2>4. QED
    BY <2>1, <2>2, <2>3
<1>4. QED
  BY <1>1, <1>2, <1>3

Waiting(s, n) == IF s[n] < TSIZE THEN n ELSE TSIZE

\* g is f with node n counted, that overtakes none.
Keeps(f, n, g) ==
    /\ f[n + 1] >= f[n] + 1
    /\ g = [f EXCEPT ![n] = f[n] + 1]

\* Node n is counted and stays where it is.
LEMMA CountInPlace ==
    ASSUME NEW f, NEW s, NEW p, NEW n \in Node, IsTree(f, s, p, Waiting(s, n)),
           f[ROOT] < MAX_FREQ, NEW g, Keeps(f, n, g)
    PROVE  /\ p[n] = 0 => IsTree(g, s, p, TSIZE) /\ g[ROOT] <= MAX_FREQ
           /\ p[n] # 0 => /\ IsTree(g, s, p, p[n]) /\ g[ROOT] < MAX_FREQ
                          /\ p[n] \in Node /\ s[p[n]] < TSIZE
<1> USE DEF Keeps
<1>1. /\ FreqType(f) /\ TreeSorted(f) /\ TreeLinked(s, p) /\ TreeSums(f, s, Waiting(s, n))
      /\ Total(LeafWeights(f, s)) = f[ROOT] + (IF Waiting(s, n) = TSIZE THEN 0 ELSE 1)
  BY DEF IsTree
<1>2. /\ n \in Nat /\ n < TSIZE /\ n \in 0 .. TSIZE /\ n + 1 \in 0 .. TSIZE /\ TSIZE \in Nat
      /\ n # TSIZE /\ ROOT \in Nat /\ ROOT >= 2 /\ TSIZE = ROOT + 1 /\ TSIZE \in 0 .. TSIZE
      /\ MAX_FREQ \in Nat
  BY NodeFacts, TreeSizes
<1>3. /\ f \in [0 .. TSIZE -> Nat] /\ f[n] \in Nat /\ f[n + 1] \in Nat /\ f[TSIZE] = Sentinel
      /\ f[ROOT] \in Nat
  BY <1>1, <1>2, NodeFacts DEF FreqType
<1>4. /\ g \in [0 .. TSIZE -> Nat] /\ g[n] = f[n] + 1
      /\ \A m \in 0 .. TSIZE : m # n => g[m] = f[m]
  BY <1>2, <1>3
<1>5. FreqType(g)
  BY <1>2, <1>3, <1>4 DEF FreqType
<1>6. TreeSorted(g)
  <2> SUFFICES ASSUME NEW m \in Node PROVE 0 < g[m] /\ g[m] <= g[m + 1]
    BY DEF TreeSorted
  <2>1. /\ m \in Nat /\ m \in 0 .. TSIZE /\ m + 1 \in 0 .. TSIZE
        /\ 0 < f[m] /\ f[m] <= f[m + 1] /\ f[m] \in Nat /\ f[m + 1] \in Nat
    BY <1>1, <1>3, NodeFacts DEF TreeSorted
  <2>2. CASE m = n
    BY <1>2, <1>3, <1>4, <2>1, <2>2
  <2>3. CASE m # n
    BY <1>3, <1>4, <2>1, <2>3
  <2>4. QED
    BY <2>2, <2>3
<1>7. p[n] # 0 => n # ROOT /\ p[n] \in Node /\ s[p[n]] < TSIZE /\ n < p[n] /\ p[n] # TSIZE
  <2>1. p[n] # 0 => n # ROOT
    BY <1>1 DEF TreeLinked
  <2>2. QED
    BY <1>1, <1>2, <2>1, TreeParents, NodeFacts
<1>8. p[n] = 0 => n = ROOT
  <2>1. n # ROOT => n < p[n]
    BY <1>1, TreeParents
  <2>2. QED
    BY <1>2, <2>1
<1>9. ASSUME NEW y, p[n] = 0 => y = TSIZE, p[n] # 0 => y = p[n]
      PROVE  TreeSums(g, s, y)
  <2> SUFFICES ASSUME NEW m \in Node, s[m] < TSIZE
               PROVE  g[s[m]] + g[s[m] + 1] = g[m] + (IF m = y THEN 1 ELSE 0)
    BY DEF TreeSums
  <2>1. /\ s[m] \in Node /\ s[m] + 1 \in Node /\ s[m] \in Nat /\ s[m] + 1 < m /\ m \in Nat
        /\ p[s[m]] = m /\ p[s[m] + 1] = m /\ s[m] # ROOT /\ s[m] + 1 # ROOT /\ m < TSIZE
    <3>1. s[m] \in Node /\ s[m] + 1 \in Node /\ s[m] # ROOT /\ s[m] + 1 # ROOT
      BY <1>1, TreeParents
    <3>2. s[m] \in Nat /\ m \in Nat /\ ~(s[m] >= TSIZE) /\ m < TSIZE
      BY <1>2, <3>1, NodeFacts
    <3>3. s[m] + 1 < m /\ p[s[m]] = m /\ p[s[m] + 1] = m
      BY <1>1, <3>2 DEF TreeLinked
    <3>4. QED
      BY <3>1, <3>2, <3>3
  <2>2. f[s[m]] + f[s[m] + 1] = f[m] + (IF m = Waiting(s, n) THEN 1 ELSE 0)
    BY <1>1 DEF TreeSums
  <2>3. /\ s[m] \in 0 .. TSIZE /\ s[m] + 1 \in 0 .. TSIZE /\ m \in 0 .. TSIZE
        /\ f[s[m]] \in Nat /\ f[s[m] + 1] \in Nat /\ f[m] \in Nat
    BY <1>3, <2>1, NodeFacts
  <2>4. CASE n = s[m] \/ n = s[m] + 1
    <3>1. p[n] = m /\ m # n /\ m # 0 /\ m # Waiting(s, n) /\ y = m
      BY <1>2, <1>9, <2>1, <2>4 DEF Waiting
    <3>2. CASE n = s[m]
      <4>1. g[s[m]] = f[s[m]] + 1 /\ g[s[m] + 1] = f[s[m] + 1] /\ g[m] = f[m]
        <5>1. s[m] + 1 # n
          BY <2>1, <3>2
        <5>2. QED
          BY <1>4, <2>3, <3>1, <3>2, <5>1
      <4>2. QED
        BY <2>2, <2>3, <3>1, <4>1
    <3>3. CASE n = s[m] + 1
      <4>1. g[s[m] + 1] = f[s[m] + 1] + 1 /\ g[s[m]] = f[s[m]] /\ g[m] = f[m]
        <5>1. s[m] # n
          BY <2>1, <3>3
        <5>2. QED
          BY <1>4, <2>3, <3>1, <3>3, <5>1
      <4>2. QED
        BY <2>2, <2>3, <3>1, <4>1
    <3>4. QED
      BY <2>4, <3>2, <3>3
  <2>5. CASE ~(n = s[m] \/ n = s[m] + 1)
    <3>1. g[s[m]] = f[s[m]] /\ g[s[m] + 1] = f[s[m] + 1]
      BY <1>4, <2>3, <2>5
    <3>2. m # y
      <4>1. CASE p[n] = 0
        BY <1>2, <1>9, <2>1, <4>1
      <4>2. CASE p[n] # 0
        <5>1. n = s[p[n]] \/ n = s[p[n]] + 1
          BY <1>1, <1>7, <4>2, TreeParents
        <5>2. QED
          BY <1>9, <2>5, <4>2, <5>1
      <4>3. QED
        BY <4>1, <4>2
    <3>3. CASE m = n
      <4>1. Waiting(s, n) = n
        BY <3>3 DEF Waiting
      <4>2. QED
        BY <1>3, <1>4, <2>2, <2>3, <3>1, <3>2, <3>3, <4>1
    <3>4. CASE m # n
      <4>1. g[m] = f[m] /\ m # Waiting(s, n)
        BY <1>2, <1>4, <2>1, <2>3, <3>4 DEF Waiting
      <4>2. QED
        BY <2>2, <2>3, <3>1, <3>2, <4>1
    <3>5. QED
      BY <3>3, <3>4
  <2>6. QED
    BY <2>4, <2>5
<1>10. Total(LeafWeights(g, s)) = f[ROOT] + 1
  <2> DEFINE u == LeafWeights(g, s)
             w == LeafWeights(f, s)
  <2>1. u \in [Node -> Int] /\ w \in [Node -> Int]
    <3>1. \A m \in Node : g[m] \in Int /\ f[m] \in Int
      BY <1>3, <1>4, NodeFacts
    <3>2. QED
      BY <3>1 DEF LeafWeights
  <2>2. \A m \in Node \ {n} : u[m] = w[m]
    BY <1>4, NodeFacts DEF LeafWeights
  <2>3. s[n] < TSIZE => u[n] = 0 /\ w[n] = 0 /\ Waiting(s, n) # TSIZE
    <3>1. s[n] \in Nat
      BY <1>1 DEF TreeLinked
    <3>2. QED
      BY <1>2, <3>1 DEF LeafWeights, Waiting
  <2>4. ~(s[n] < TSIZE) => u[n] = f[n] + 1 /\ w[n] = f[n] /\ Waiting(s, n) = TSIZE
    <3>1. s[n] \in Nat
      BY <1>1 DEF TreeLinked
    <3>2. QED
      BY <1>2, <1>4, <3>1 DEF LeafWeights, Waiting
  <2> HIDE DEF u, w
  <2>5. Total(u) = Total(w) + (u[n] - w[n])
    BY <2>1, <2>2, OneChange
  <2>6. Total(w) = f[ROOT] + (IF Waiting(s, n) = TSIZE THEN 0 ELSE 1)
    BY <1>1 DEF w
  <2>7. Total(u) = f[ROOT] + 1
    BY <1>3, <2>3, <2>4, <2>5, <2>6
  <2>8. QED
    BY <2>7 DEF u
<1>11. CASE p[n] = 0
  <2>1. n = ROOT /\ g[ROOT] = f[ROOT] + 1
    BY <1>4, <1>8, <1>11
  <2>2. TreeSums(g, s, TSIZE)
    BY <1>9, <1>11
  <2>3. IsTree(g, s, p, TSIZE)
    BY <1>1, <1>3, <1>5, <1>6, <1>10, <2>1, <2>2 DEF IsTree
  <2>4. QED
    BY <1>2, <1>3, <1>11, <2>1, <2>3
<1>12. CASE p[n] # 0
  <2>1. g[ROOT] = f[ROOT]
    BY <1>2, <1>4, <1>7, <1>12, NodeFacts
  <2>2. TreeSums(g, s, p[n])
    BY <1>9, <1>12
  <2>3. IsTree(g, s, p, p[n])
    BY <1>1, <1>3, <1>5, <1>6, <1>7, <1>10, <1>12, <2>1, <2>2 DEF IsTree
  <2>4. QED
    BY <1>7, <1>12, <2>1, <2>3
<1>13. QED
  BY <1>11, <1>12

\* Node n is counted and changes places with l, the last that was as frequent.
Overtakes(f, n, l) ==
    /\ n \in Node /\ l \in Node /\ n < l
    /\ f[l + 1] >= f[n] + 1
    /\ \A m \in n .. l : f[m] = f[n]

LEMMA LastBelowIs ==
    ASSUME FreqType(freq), TreeSorted(freq), NEW n \in Node, freq[ROOT] < MAX_FREQ,
           ~(freq[n + 1] >= freq[n] + 1)
    PROVE  Overtakes(freq, n, LastBelow(n, freq[n] + 1))
<1>1. /\ freq \in [0 .. TSIZE -> Nat] /\ freq[TSIZE] = 2 * MAX_FREQ - 1 /\ MAX_FREQ \in Nat
      /\ n \in Nat /\ n < TSIZE /\ n \in 0 .. TSIZE /\ n + 1 \in 0 .. TSIZE /\ TSIZE \in Nat
      /\ n <= ROOT /\ ROOT \in Nat /\ ROOT \in 0 .. TSIZE /\ TSIZE = ROOT + 1
  BY NodeFacts, TreeSizes DEF FreqType, Node
<1>2. \A m, k \in 0 .. TSIZE : m <= k => freq[m] <= freq[k]
  BY TreeSortedUpTo
<1>3. PICK k \in Nat : k = freq[n] + 1 /\ k <= freq[TSIZE]
  <2>1. freq[n] <= freq[ROOT] /\ freq[n] \in Nat /\ freq[ROOT] \in Nat
    BY <1>1, <1>2
  <2>2. QED
    BY <1>1, <2>1
<1> DEFINE S == {m \in n + 1 .. TSIZE : freq[m] >= k}
<1>4. PICK m \in S : \A q \in S : m <= q
  <2>1. S \subseteq Nat /\ TSIZE \in S
    BY <1>1, <1>3
  <2> HIDE DEF S
  <2>2. QED
    BY <2>1, LeastNumber
<1>5. m # n + 1 /\ m \in Nat /\ freq[m] >= k /\ m <= TSIZE /\ m >= n + 1
  BY <1>1, <1>3, <1>4
<1>6. ASSUME NEW q \in n + 1 .. m - 1 PROVE freq[q] < k
  <2>1. q \in n + 1 .. TSIZE /\ ~(m <= q) /\ freq[q] \in Nat
    BY <1>1, <1>5
  <2>2. q \notin S
    BY <1>4, <2>1
  <2>3. QED
    BY <1>3, <2>1, <2>2
<1> DEFINE Q(l) == freq[l + 1] >= k /\ \A q \in n + 1 .. l : freq[q] < k
<1>7. m - 1 \in n + 1 .. TSIZE /\ Q(m - 1)
  <2>1. m - 1 \in n + 1 .. TSIZE /\ (m - 1) + 1 = m
    BY <1>1, <1>5
  <2>2. QED
    BY <1>5, <1>6, <2>1
<1> DEFINE l == LastBelow(n, k)
<1>8. l \in n + 1 .. TSIZE /\ Q(l)
  <2>1. l = CHOOSE x \in n + 1 .. TSIZE : Q(x)
    BY DEF LastBelow
  <2> HIDE DEF l, Q
  <2>2. QED
    BY <1>7, <2>1
<1> HIDE DEF l
<1>9. l \in Nat /\ n < l /\ l <= TSIZE /\ freq[l] < k
  BY <1>1, <1>8
<1>10. l # TSIZE
  <2>1. freq[TSIZE] \in Nat
    BY <1>1
  <2>2. ~(freq[TSIZE] < k)
    BY <1>3, <2>1
  <2>3. QED
    BY <1>9, <2>2
<1>11. l \in Node
  BY <1>9, <1>10, <1>1 DEF Node
<1>12. ASSUME NEW q \in n .. l PROVE freq[q] = freq[n]
  <2>1. CASE q = n
    BY <2>1
  <2>2. CASE q # n
    <3>1. q \in n + 1 .. l /\ q \in 0 .. TSIZE /\ n <= q
      BY <1>1, <1>9, <2>2
    <3>2. freq[q] < k /\ freq[n] <= freq[q] /\ freq[q] \in Nat /\ freq[n] \in Nat
      BY <1>1, <1>2, <1>8, <3>1
    <3>3. QED
      BY <1>3, <3>2
  <2>3. QED
    BY <2>1, <2>2
<1>13. QED
  BY <1>3, <1>8, <1>9, <1>11, <1>12 DEF l, Overtakes

\* Neither of the nodes that change places is the root or a child of the other, and
\* their children come before both.
LEMMA OvertakenPlaces ==
    ASSUME NEW f, NEW s, NEW p, NEW n, NEW l, Overtakes(f, n, l),
           IsTree(f, s, p, Waiting(s, n))
    PROVE  /\ l # ROOT /\ n # ROOT
           /\ s[n] < TSIZE => s[n] + 1 < n
           /\ s[l] < TSIZE => s[l] + 1 < n
<1>1. /\ FreqType(f) /\ TreeSorted(f) /\ TreeLinked(s, p) /\ TreeSums(f, s, Waiting(s, n))
  BY DEF IsTree
<1>2. /\ n \in Node /\ l \in Node /\ n \in Nat /\ l \in Nat /\ n < l /\ l < TSIZE /\ TSIZE \in Nat
      /\ ROOT \in Nat /\ ROOT >= 2 /\ TSIZE = ROOT + 1 /\ l <= ROOT /\ ROOT \in Node
  BY NodeFacts, TreeSizes DEF Overtakes, Node
<1>3. /\ \A m \in 0 .. TSIZE : f[m] \in Nat
      /\ \A m \in Node : f[m] > 0 /\ m \in 0 .. TSIZE /\ m \in Nat
      /\ \A m \in n .. l : f[m] = f[n]
      /\ \A m \in Node : s[m] \in Nat
  BY <1>1, NodeFacts DEF FreqType, TreeSorted, TreeLinked, Overtakes
<1>4. ASSUME NEW m \in Node, m # n, s[m] < TSIZE
      PROVE  f[s[m]] < f[m] /\ f[s[m] + 1] < f[m] /\ s[m] \in Node /\ s[m] + 1 \in Node
  <2>1. s[m] \in Node /\ s[m] + 1 \in Node
    BY <1>1, <1>4, TreeParents
  <2>2. m # Waiting(s, n)
    BY <1>2, <1>3, <1>4, NodeFacts DEF Waiting
  <2>3. f[s[m]] + f[s[m] + 1] = f[m]
    <3>1. f[s[m]] + f[s[m] + 1] = f[m] + (IF m = Waiting(s, n) THEN 1 ELSE 0)
      BY <1>1, <1>4 DEF TreeSums
    <3>2. f[m] \in Nat
      BY <1>3
    <3>3. QED
      BY <2>2, <3>1, <3>2
  <2>4. f[s[m]] \in Nat /\ f[s[m] + 1] \in Nat /\ f[m] \in Nat /\ f[s[m]] > 0 /\ f[s[m] + 1] > 0
    BY <1>3, <2>1
  <2>5. QED
    BY <2>1, <2>3, <2>4
<1>5. l # ROOT
  <2> SUFFICES ASSUME l = ROOT PROVE FALSE
    OBVIOUS
  <2>1. s[ROOT] = ROOT - 2 /\ s[ROOT] < TSIZE /\ s[ROOT] + 1 = ROOT - 1
    <3>1. s[ROOT] = ROOT - 2
      BY <1>1, TreeParents
    <3>2. QED
      BY <1>2, <3>1
  <2>2. f[ROOT - 1] < f[ROOT]
    BY <1>2, <1>4, <2>1
  <2>3. ROOT - 1 \in n .. l /\ l \in n .. l
    BY <1>2
  <2>4. f[ROOT - 1] = f[n] /\ f[ROOT] = f[n]
    BY <1>3, <2>3
  <2>5. f[n] \in Nat
    BY <1>2, <1>3
  <2>6. QED
    BY <2>2, <2>4, <2>5
<1>6. s[n] < TSIZE => s[n] + 1 < n
  <2>1. s[n] < TSIZE => ~(s[n] >= TSIZE)
    BY <1>2, <1>3
  <2>2. QED
    BY <1>1, <1>2, <2>1 DEF TreeLinked
<1>7. s[l] < TSIZE => s[l] + 1 < n
  <2> SUFFICES ASSUME s[l] < TSIZE, ~(s[l] + 1 < n) PROVE FALSE
    OBVIOUS
  <2>1. ~(s[l] >= TSIZE) /\ s[l] \in Nat
    BY <1>2, <1>3
  <2>2. s[l] + 1 < l
    BY <1>1, <1>2, <2>1 DEF TreeLinked
  <2>3. s[l] + 1 \in n .. l /\ l \in n .. l
    BY <1>2, <2>1, <2>2
  <2>4. f[s[l] + 1] < f[l]
    BY <1>2, <1>4
  <2>5. f[s[l] + 1] = f[n] /\ f[l] = f[n] /\ f[n] \in Nat
    BY <1>2, <1>3, <2>3
  <2>6. QED
    BY <2>4, <2>5
<1>8. n # ROOT
  BY <1>2
<1>9. QED
  BY <1>5, <1>6, <1>7, <1>8

LEMMA WeightsType ==
    ASSUME NEW f, NEW s, \A m \in Node : f[m] \in Int
    PROVE  LeafWeights(f, s) \in [Node -> Int]
BY DEF LeafWeights

LEMMA CountWithSwap ==
    ASSUME NEW f, NEW s, NEW p, NEW n, NEW l, Overtakes(f, n, l),
           IsTree(f, s, p, Waiting(s, n)), f[ROOT] < MAX_FREQ,
           NEW g, g = [f EXCEPT ![n] = f[l], ![l] = f[n] + 1],
           NEW t, t = [s EXCEPT ![n] = s[l], ![l] = s[n]],
           NEW q, q = Adopted(Adopted(p, s[n], l), s[l], n)
    PROVE  /\ IsTree(g, t, q, q[l]) /\ g[ROOT] < MAX_FREQ
           /\ q[l] \in Node /\ q[l] # 0 /\ t[q[l]] < TSIZE
<1>1. /\ FreqType(f) /\ TreeSorted(f) /\ TreeLinked(s, p) /\ TreeSums(f, s, Waiting(s, n))
      /\ Total(LeafWeights(f, s)) = f[ROOT] + (IF Waiting(s, n) = TSIZE THEN 0 ELSE 1)
  BY DEF IsTree
<1>2. /\ n \in Node /\ l \in Node /\ n \in Nat /\ l \in Nat /\ n < l /\ l < TSIZE /\ TSIZE \in Nat
      /\ ROOT \in Nat /\ ROOT >= 2 /\ TSIZE = ROOT + 1 /\ l <= ROOT /\ ROOT \in Node
      /\ l # ROOT /\ n # ROOT /\ n # TSIZE /\ l # TSIZE /\ n # l
      /\ n \in 0 .. TSIZE /\ l \in 0 .. TSIZE /\ TSIZE \in 0 .. TSIZE /\ ROOT \in 0 .. TSIZE
  <2>1. n \in Node /\ l \in Node /\ n < l /\ l # ROOT /\ n # ROOT
    BY OvertakenPlaces DEF Overtakes
  <2>2. /\ ROOT \in Nat /\ ROOT >= 2 /\ TSIZE = ROOT + 1 /\ ROOT \in Node /\ TSIZE \in Nat
    BY NodeFacts, TreeSizes
  <2>3. n \in 0 .. ROOT /\ l \in 0 .. ROOT
    BY <2>1 DEF Node
  <2>4. QED
    BY <2>1, <2>2, <2>3
<1>3. /\ \A m \in 0 .. TSIZE : f[m] \in Nat
      /\ \A m \in Node : f[m] > 0 /\ m \in 0 .. TSIZE /\ m \in Nat /\ m < TSIZE
      /\ f[l] = f[n] /\ f[l + 1] >= f[n] + 1 /\ l + 1 \in 0 .. TSIZE
      /\ \A m \in Node : s[m] \in Nat
      /\ s \in [Node -> Nat]
  <2>1. \A m \in n .. l : f[m] = f[n]
    BY DEF Overtakes
  <2>2. l \in n .. l
    BY <1>2
  <2>3. QED
    BY <1>1, <1>2, <2>1, <2>2, NodeFacts DEF FreqType, TreeSorted, TreeLinked, Overtakes
<1>4. /\ s[n] < TSIZE => s[n] + 1 < n
      /\ s[l] < TSIZE => s[l] + 1 < n
  BY OvertakenPlaces
<1>5. /\ g \in [0 .. TSIZE -> Nat] /\ g[l] = f[n] + 1
      /\ \A m \in 0 .. TSIZE : m # l => g[m] = f[m]
  <2>1. f \in [0 .. TSIZE -> Nat] /\ f[n] + 1 \in Nat
    BY <1>1, <1>2, <1>3 DEF FreqType
  <2>2. QED
    BY <1>2, <1>3, <2>1
<1>6. /\ t \in [Node -> Nat] /\ t[n] = s[l] /\ t[l] = s[n]
      /\ \A m \in Node : m # l /\ m # n => t[m] = s[m]
  BY <1>2, <1>3
<1>7. FreqType(g)
  BY <1>1, <1>2, <1>5 DEF FreqType
<1>8. TreeSorted(g)
  <2> SUFFICES ASSUME NEW m \in Node PROVE 0 < g[m] /\ g[m] <= g[m + 1]
    BY DEF TreeSorted
  <2>1. /\ m \in Nat /\ m \in 0 .. TSIZE /\ m + 1 \in 0 .. TSIZE
        /\ 0 < f[m] /\ f[m] <= f[m + 1] /\ f[m] \in Nat /\ f[m + 1] \in Nat
    BY <1>1, <1>3, NodeFacts DEF TreeSorted
  <2>2. CASE m = l
    <3>1. g[m] = f[n] + 1 /\ g[m + 1] = f[l + 1] /\ f[n] \in Nat
      BY <1>2, <1>3, <1>5, <2>1, <2>2
    <3>2. QED
      BY <1>3, <3>1, <2>1, <2>2
  <2>3. CASE m + 1 = l
    <3>1. m # l
      BY <2>1, <2>3
    <3>2. g[m] = f[m]
      BY <1>5, <2>1, <3>1
    <3>3. g[m + 1] = f[n] + 1 /\ f[m + 1] = f[n] /\ f[n] \in Nat
      BY <1>2, <1>3, <1>5, <2>3
    <3>4. QED
      BY <3>2, <3>3, <2>1
  <2>4. CASE m # l /\ m + 1 # l
    BY <1>5, <2>1, <2>4
  <2>5. QED
    BY <2>2, <2>3, <2>4
\* Where the parents change.
<1> DEFINE Child(m, k) == k = s[m] \/ (s[m] < TSIZE /\ k = s[m] + 1)
           Places == 0 .. TSIZE + N_CHAR - 1
<1>9. ASSUME NEW k \in Places
      PROVE  q[k] = IF Child(l, k) THEN n ELSE IF Child(n, k) THEN l ELSE p[k]
  <2>1. DOMAIN p = Places
    BY <1>1 DEF TreeLinked
  <2>2. Adopted(p, s[n], l) = [x \in Places |-> IF Child(n, x) THEN l ELSE p[x]]
    BY <2>1 DEF Adopted
  <2> DEFINE a == Adopted(p, s[n], l)
  <2>3. DOMAIN a = Places /\ a[k] = IF Child(n, k) THEN l ELSE p[k]
    BY <2>2
  <2> HIDE DEF a, Places
  <2>4. q = [x \in Places |-> IF Child(l, x) THEN n ELSE a[x]]
    BY <2>3 DEF Adopted, a
  <2>5. QED
    BY <2>3, <2>4
<1>10. /\ \A k : Child(n, k) => p[k] = n /\ (k < TSIZE => k < n)
       /\ \A k : Child(l, k) => p[k] = l /\ (k < TSIZE => k < n)
  <2>1. ASSUME NEW m \in {n, l} PROVE \A k : Child(m, k) => p[k] = m /\ (k < TSIZE => k < n)
    <3>1. m \in Node /\ s[m] \in Nat /\ (s[m] < TSIZE => s[m] + 1 < n)
      BY <1>2, <1>3, <1>4
    <3>2. CASE s[m] < TSIZE
      <4>1. p[s[m]] = m /\ p[s[m] + 1] = m
        <5>1. ~(s[m] >= TSIZE)
          BY <1>2, <3>1, <3>2
        <5>2. QED
          BY <1>1, <3>1, <5>1 DEF TreeLinked
      <4>2. s[m] < n /\ s[m] + 1 < n
        BY <1>2, <3>1, <3>2
      <4>3. QED
        BY <4>1, <4>2
    <3>3. CASE ~(s[m] < TSIZE)
      <4>1. s[m] >= TSIZE
        BY <1>2, <3>1, <3>3
      <4>2. p[s[m]] = m
        BY <1>1, <3>1, <4>1 DEF TreeLinked
      <4>3. QED
        BY <3>3, <4>2
    <3>4. QED
      BY <3>2, <3>3
  <2>2. QED
    BY <2>1
<1>11. q \in [Places -> Node]
  <2>1. \A k \in Places : q[k] \in Node
    <3>1. \A k \in Places : p[k] \in Node
      BY <1>1 DEF TreeLinked
    <3>2. QED
      BY <1>2, <1>9, <3>1
  <2>2. DOMAIN q = Places /\ q = [k \in Places |-> q[k]]
    <3>1. DOMAIN p = Places
      BY <1>1 DEF TreeLinked
    <3> HIDE DEF Places
    <3>2. QED
      BY <3>1 DEF Adopted
  <2> HIDE DEF Places
  <2>3. QED
    BY <2>1, <2>2
<1>12. /\ \A k \in Places : Child(n, k) => q[k] = l
       /\ \A k \in Places : Child(l, k) => q[k] = n
       /\ \A k \in Places : ~ Child(n, k) /\ ~ Child(l, k) => q[k] = p[k]
  BY <1>2, <1>9, <1>10
<1> HIDE DEF Child
<1>13. q[l] = p[l] /\ q[n] = p[n] /\ q[ROOT] = 0 /\ q[l] \in Node /\ l < q[l] /\ t[q[l]] < TSIZE
  <2>1. ~ Child(n, l) /\ ~ Child(l, l) /\ ~ Child(n, n) /\ ~ Child(l, n)
        /\ ~ Child(n, ROOT) /\ ~ Child(l, ROOT)
    BY <1>2, <1>10
  <2>2. l \in Places /\ n \in Places /\ ROOT \in Places
    BY <1>2, NodeFacts
  <2>3. q[l] = p[l] /\ q[n] = p[n] /\ q[ROOT] = p[ROOT]
    BY <1>12, <2>1, <2>2
  <2>4. p[l] \in Node /\ l < p[l] /\ s[p[l]] < TSIZE
    BY <1>1, <1>2, TreeParents
  <2>5. t[p[l]] = s[p[l]]
    <3>1. p[l] # l /\ p[l] # n
      BY <1>2, <2>4, NodeFacts
    <3>2. QED
      BY <1>6, <2>4, <3>1
  <2>6. p[ROOT] = 0
    BY <1>1 DEF TreeLinked
  <2>7. QED
    BY <2>3, <2>4, <2>5, <2>6
<1>14. TreeLinked(t, q)
  <2>1. ASSUME NEW m \in Node
        PROVE  IF t[m] >= TSIZE THEN t[m] \in Leaves /\ q[t[m]] = m
               ELSE t[m] + 1 < m /\ q[t[m]] = m /\ q[t[m] + 1] = m
    <3>1. /\ m \in Nat
          /\ IF s[m] >= TSIZE THEN s[m] \in Leaves /\ p[s[m]] = m /\ s[m] \in Places
             ELSE /\ s[m] + 1 < m /\ p[s[m]] = m /\ p[s[m] + 1] = m
                  /\ s[m] \in Places /\ s[m] + 1 \in Places /\ s[m] < TSIZE
      <4>1. IF s[m] >= TSIZE THEN s[m] \in Leaves /\ p[s[m]] = m
            ELSE s[m] + 1 < m /\ p[s[m]] = m /\ p[s[m] + 1] = m
        BY <1>1 DEF TreeLinked
      <4>2. m \in Nat /\ s[m] \in Nat
        BY <1>3
      <4>3. CASE s[m] >= TSIZE
        BY <4>1, <4>2, <4>3, NodeFacts
      <4>4. CASE ~(s[m] >= TSIZE)
        <5>1. s[m] < TSIZE
          BY <1>2, <4>2, <4>4
        <5>2. s[m] \in Node /\ s[m] + 1 \in Node
          BY <1>1, <5>1, TreeParents
        <5>3. QED
          BY <4>1, <4>2, <4>4, <5>1, <5>2, NodeFacts
      <4>5. QED
        BY <4>3, <4>4
    <3>2. CASE m = n
      <4>1. t[m] = s[l]
        BY <1>6, <3>2
      <4>2. IF s[l] >= TSIZE THEN s[l] \in Leaves /\ s[l] \in Places
            ELSE s[l] \in Places /\ s[l] + 1 \in Places /\ s[l] < TSIZE
        <5>1. IF s[l] >= TSIZE THEN s[l] \in Leaves ELSE s[l] < TSIZE
          BY <1>1, <1>2, <1>3 DEF TreeLinked
        <5>2. s[l] < TSIZE => s[l] \in Node /\ s[l] + 1 \in Node
          BY <1>1, <1>2, TreeParents
        <5>3. QED
          BY <5>1, <5>2, NodeFacts
      <4>3. CASE s[l] >= TSIZE
        <5>1. Child(l, s[l])
          BY DEF Child
        <5>2. QED
          BY <1>12, <3>2, <4>1, <4>2, <4>3, <5>1
      <4>4. CASE ~(s[l] >= TSIZE)
        <5>1. Child(l, s[l]) /\ Child(l, s[l] + 1) /\ s[l] + 1 < n
          BY <1>4, <4>2, <4>4 DEF Child
        <5>2. q[s[l]] = n /\ q[s[l] + 1] = n
          BY <1>12, <4>2, <4>4, <5>1
        <5>3. QED
          BY <3>2, <4>1, <4>4, <5>1, <5>2
      <4>5. QED
        BY <4>3, <4>4
    <3>3. CASE m = l
      <4>1. t[m] = s[n]
        BY <1>6, <3>3
      <4>2. IF s[n] >= TSIZE THEN s[n] \in Leaves /\ s[n] \in Places
            ELSE s[n] \in Places /\ s[n] + 1 \in Places /\ s[n] < TSIZE
        <5>1. IF s[n] >= TSIZE THEN s[n] \in Leaves ELSE s[n] < TSIZE
          BY <1>1, <1>2, <1>3 DEF TreeLinked
        <5>2. s[n] < TSIZE => s[n] \in Node /\ s[n] + 1 \in Node
          BY <1>1, <1>2, TreeParents
        <5>3. QED
          BY <5>1, <5>2, NodeFacts
      <4>3. CASE s[n] >= TSIZE
        <5>1. Child(n, s[n])
          BY DEF Child
        <5>2. QED
          BY <1>12, <3>3, <4>1, <4>2, <4>3, <5>1
      <4>4. CASE ~(s[n] >= TSIZE)
        <5>1. Child(n, s[n]) /\ Child(n, s[n] + 1) /\ s[n] + 1 < n
          BY <1>4, <4>2, <4>4 DEF Child
        <5>2. q[s[n]] = l /\ q[s[n] + 1] = l
          BY <1>12, <4>2, <4>4, <5>1
        <5>3. s[n] + 1 < l
          BY <1>2, <1>3, <5>1
        <5>4. QED
          BY <3>3, <4>1, <4>4, <5>2, <5>3
      <4>5. QED
        BY <4>3, <4>4
    <3>4. CASE m # n /\ m # l
      <4>1. t[m] = s[m]
        BY <1>6, <3>4
      <4>2. CASE s[m] >= TSIZE
        <5>1. ~ Child(n, s[m]) /\ ~ Child(l, s[m])
          BY <1>10, <3>1, <3>4, <4>2
        <5>2. QED
          BY <1>12, <3>1, <4>1, <4>2, <5>1
      <4>3. CASE ~(s[m] >= TSIZE)
        <5>1. ~ Child(n, s[m]) /\ ~ Child(l, s[m]) /\ ~ Child(n, s[m] + 1) /\ ~ Child(l, s[m] + 1)
          BY <1>10, <3>1, <3>4, <4>3
        <5>2. q[s[m]] = p[s[m]] /\ q[s[m] + 1] = p[s[m] + 1]
          BY <1>12, <3>1, <4>3, <5>1
        <5>3. QED
          BY <3>1, <4>1, <4>3, <5>2
      <4>4. QED
        BY <4>2, <4>3
    <3>5. QED
      BY <3>2, <3>3, <3>4
  <2>2. ASSUME NEW k \in Places, p[k] \in Node,
               s[p[k]] = k \/ (s[p[k]] < TSIZE /\ s[p[k]] + 1 = k)
        PROVE  t[q[k]] = s[p[k]]
    <3>1. CASE p[k] = n
      <4>1. Child(n, k)
        BY <2>2, <3>1 DEF Child
      <4>2. QED
        BY <1>6, <1>12, <2>2, <3>1, <4>1
    <3>2. CASE p[k] = l
      <4>1. Child(l, k)
        BY <2>2, <3>2 DEF Child
      <4>2. QED
        BY <1>6, <1>12, <2>2, <3>2, <4>1
    <3>3. CASE p[k] # n /\ p[k] # l
      <4>1. ~ Child(n, k) /\ ~ Child(l, k)
        BY <1>10, <3>3
      <4>2. q[k] = p[k]
        BY <1>12, <2>2, <4>1
      <4>3. QED
        BY <1>6, <2>2, <3>3, <4>2
    <3>4. QED
      BY <3>1, <3>2, <3>3
  <2>3. ASSUME NEW k \in Node \ {ROOT} PROVE t[q[k]] \in {k - 1, k}
    <3>1. k \in Places /\ p[k] \in Node /\ s[p[k]] < TSIZE /\ (k = s[p[k]] \/ k = s[p[k]] + 1)
          /\ s[p[k]] \in {k - 1, k}
      <4>1. k \in Places
        BY NodeFacts
      <4>2. p[k] \in Node /\ s[p[k]] < TSIZE /\ (k = s[p[k]] \/ k = s[p[k]] + 1)
        BY <1>1, TreeParents
      <4>3. s[p[k]] \in {k - 1, k}
        BY <1>1 DEF TreeLinked
      <4>4. QED
        BY <4>1, <4>2, <4>3
    <3>2. t[q[k]] = s[p[k]]
      BY <2>2, <3>1
    <3>3. QED
      BY <3>1, <3>2
  <2>4. ASSUME NEW k \in Leaves PROVE t[q[k]] = k
    <3>1. k \in Places
      BY NodeFacts
    <3>2. p[k] \in Node /\ s[p[k]] = k
      BY <1>1, <3>1 DEF TreeLinked
    <3>3. QED
      BY <2>2, <3>1, <3>2
  <2>5. QED
    BY <1>6, <1>11, <1>13, <2>1, <2>3, <2>4 DEF TreeLinked
<1>15. TreeSums(g, t, q[l])
  <2> SUFFICES ASSUME NEW m \in Node, t[m] < TSIZE
               PROVE  g[t[m]] + g[t[m] + 1] = g[m] + (IF m = q[l] THEN 1 ELSE 0)
    BY DEF TreeSums
  <2>1. q[l] # n /\ q[l] # l
    BY <1>2, <1>13, NodeFacts
  <2>2. ASSUME NEW a \in {n, l}, s[a] < TSIZE
        PROVE  g[s[a]] = f[s[a]] /\ g[s[a] + 1] = f[s[a] + 1]
    <3>1. s[a] + 1 < n /\ s[a] \in Node /\ s[a] + 1 \in Node
      BY <1>1, <1>2, <1>4, <2>2, TreeParents
    <3>2. s[a] # l /\ s[a] + 1 # l /\ s[a] \in 0 .. TSIZE /\ s[a] + 1 \in 0 .. TSIZE
      BY <1>2, <1>3, <3>1
    <3>3. QED
      BY <1>5, <3>2
  <2>3. CASE m = n
    <3>1. s[l] < TSIZE /\ t[m] = s[l]
      BY <1>6, <2>3
    <3>2. f[s[l]] + f[s[l] + 1] = f[l] + (IF l = Waiting(s, n) THEN 1 ELSE 0)
      BY <1>1, <1>2, <3>1 DEF TreeSums
    <3>3. l # Waiting(s, n) /\ g[n] = f[n] /\ f[n] \in Nat
      BY <1>2, <1>3, <1>5 DEF Waiting
    <3>4. g[s[l]] = f[s[l]] /\ g[s[l] + 1] = f[s[l] + 1]
      BY <2>2, <3>1
    <3>5. QED
      BY <1>3, <2>1, <2>3, <3>1, <3>2, <3>3, <3>4
  <2>4. CASE m = l
    <3>1. s[n] < TSIZE /\ t[m] = s[n] /\ Waiting(s, n) = n
      BY <1>6, <2>4 DEF Waiting
    <3>2. f[s[n]] + f[s[n] + 1] = f[n] + 1
      BY <1>1, <1>2, <3>1 DEF TreeSums
    <3>3. g[s[n]] = f[s[n]] /\ g[s[n] + 1] = f[s[n] + 1] /\ g[l] = f[n] + 1 /\ f[n] \in Nat
      BY <1>2, <1>3, <1>5, <2>2, <3>1
    <3>4. QED
      BY <2>1, <2>4, <3>1, <3>2, <3>3
  <2>5. CASE m # n /\ m # l
    <3>1. t[m] = s[m] /\ s[m] < TSIZE /\ m # Waiting(s, n) /\ m \in 0 .. TSIZE
      BY <1>3, <1>6, <2>5 DEF Waiting
    <3>2. f[s[m]] + f[s[m] + 1] = f[m] + (IF m = Waiting(s, n) THEN 1 ELSE 0)
      BY <1>1, <3>1 DEF TreeSums
    <3>3. /\ s[m] \in Node /\ s[m] + 1 \in Node /\ s[m] \in 0 .. TSIZE /\ s[m] + 1 \in 0 .. TSIZE
          /\ s[m] \in Nat /\ p[s[m]] = m /\ p[s[m] + 1] = m
      <4>1. s[m] \in Node /\ s[m] + 1 \in Node
        BY <1>1, <3>1, TreeParents
      <4>2. ~(s[m] >= TSIZE)
        BY <1>2, <1>3, <3>1
      <4>3. QED
        BY <1>1, <1>3, <4>1, <4>2 DEF TreeLinked
    <3>4. f[s[m]] \in Nat /\ f[s[m] + 1] \in Nat /\ f[m] \in Nat /\ g[m] = f[m]
      BY <1>3, <1>5, <2>5, <3>1, <3>3
    <3>5. CASE s[m] = l
      <4>1. m = q[l] /\ s[m] + 1 # l
        BY <1>2, <1>13, <3>3, <3>5
      <4>2. g[s[m]] = f[s[m]] + 1 /\ g[s[m] + 1] = f[s[m] + 1]
        BY <1>3, <1>5, <3>3, <3>5, <4>1
      <4>3. QED
        BY <3>1, <3>2, <3>4, <4>1, <4>2
    <3>6. CASE s[m] + 1 = l
      <4>1. m = q[l] /\ s[m] # l
        BY <1>2, <1>13, <3>3, <3>6
      <4>2. g[s[m]] = f[s[m]] /\ g[s[m] + 1] = f[s[m] + 1] + 1
        BY <1>3, <1>5, <3>3, <3>6, <4>1
      <4>3. QED
        BY <3>1, <3>2, <3>4, <4>1, <4>2
    <3>7. CASE s[m] # l /\ s[m] + 1 # l
      <4>1. m # q[l]
        <5>1. l = s[p[l]] \/ l = s[p[l]] + 1
          BY <1>1, <1>2, TreeParents
        <5>2. QED
          BY <1>13, <3>7, <5>1
      <4>2. g[s[m]] = f[s[m]] /\ g[s[m] + 1] = f[s[m] + 1]
        BY <1>5, <3>3, <3>7
      <4>3. QED
        BY <3>1, <3>2, <3>4, <4>1, <4>2
    <3>8. QED
      BY <3>5, <3>6, <3>7
  <2>6. QED
    BY <2>3, <2>4, <2>5
<1>16. Total(LeafWeights(g, t)) = f[ROOT] + 1
  <2> DEFINE u == LeafWeights(g, t)
             w == LeafWeights(f, s)
  <2>1. u \in [Node -> Int] /\ w \in [Node -> Int]
    <3>1. \A m \in Node : g[m] \in Int /\ f[m] \in Int
      BY <1>3, <1>5
    <3>2. QED
      BY <3>1, WeightsType
  <2>2. \A m \in Node \ {n, l} : u[m] = w[m]
    BY <1>3, <1>5, <1>6 DEF LeafWeights
  <2>3. /\ w[n] = IF s[n] >= TSIZE THEN f[n] ELSE 0
        /\ w[l] = IF s[l] >= TSIZE THEN f[n] ELSE 0
        /\ u[n] = IF s[l] >= TSIZE THEN f[n] ELSE 0
        /\ u[l] = IF s[n] >= TSIZE THEN f[n] + 1 ELSE 0
    BY <1>2, <1>3, <1>5, <1>6 DEF LeafWeights
  <2>4. (s[n] >= TSIZE) <=> (Waiting(s, n) = TSIZE)
    BY <1>2, <1>3 DEF Waiting
  <2> HIDE DEF u, w
  <2>5. Total(u) = Total(w) + (u[n] - w[n]) + (u[l] - w[l])
    BY <1>2, <2>1, <2>2, TwoChange
  <2>6. Total(w) = f[ROOT] + (IF Waiting(s, n) = TSIZE THEN 0 ELSE 1)
    BY <1>1 DEF w
  <2>7. f[n] \in Nat /\ f[ROOT] \in Nat
    BY <1>2, <1>3
  <2>8. Total(u) = f[ROOT] + 1
    <3>1. CASE s[n] >= TSIZE
      <4>1. CASE s[l] >= TSIZE
        BY <2>3, <2>4, <2>5, <2>6, <2>7, <3>1, <4>1
      <4>2. CASE ~(s[l] >= TSIZE)
        BY <2>3, <2>4, <2>5, <2>6, <2>7, <3>1, <4>2
      <4>3. QED
        BY <4>1, <4>2
    <3>2. CASE ~(s[n] >= TSIZE)
      <4>1. CASE s[l] >= TSIZE
        BY <2>3, <2>4, <2>5, <2>6, <2>7, <3>2, <4>1
      <4>2. CASE ~(s[l] >= TSIZE)
        BY <2>3, <2>4, <2>5, <2>6, <2>7, <3>2, <4>2
      <4>3. QED
        BY <4>1, <4>2
    <3>3. QED
      BY <3>1, <3>2
  <2>9. QED
    BY <2>8 DEF u
<1>17. g[ROOT] = f[ROOT] /\ q[l] # 0 /\ q[l] # TSIZE
  <2>1. g[ROOT] = f[ROOT]
    BY <1>2, <1>5
  <2>2. q[l] \in Nat /\ q[l] < TSIZE
    BY <1>13, NodeFacts
  <2>3. QED
    BY <1>2, <1>13, <2>1, <2>2
<1>18. IsTree(g, t, q, q[l])
  BY <1>7, <1>8, <1>14, <1>15, <1>16, <1>17 DEF IsTree
<1>19. QED
  BY <1>13, <1>17, <1>18

-----------------------------------------------------------------------------
(* Halving the leaves.                                                     *)

Half(a) == (a + 1) \div 2

LEMMA HalfIs ==
    /\ \A a \in Nat : /\ Half(a) \in Nat /\ 2 * Half(a) <= a + 1
                      /\ 0 < a => 0 < Half(a)
    /\ \A a, b \in Nat : a <= b => Half(a) <= Half(b)
BY DEF Half

LEMMA TotalDouble ==
    ASSUME NEW u \in [Node -> Int], NEW w \in [Node -> Int], \A n \in Node : u[n] = 2 * w[n]
    PROVE  Total(u) = 2 * Total(w) /\ Total(w) \in Int
<1> DEFINE D == [n \in 0 .. TSIZE |-> 2 * Sum(w)[n]]
<1>1. TSIZE \in Nat /\ TSIZE \in 0 .. TSIZE /\ 0 \in 0 .. TSIZE
  BY TreeSizes
<1>2. D[0] = 0
  BY <1>1, SumAt
<1>3. ASSUME NEW n \in Node PROVE D[n + 1] = D[n] + u[n]
  <2>1. n \in 0 .. TSIZE /\ n + 1 \in 0 .. TSIZE
    BY NodeFacts
  <2>2. Sum(w)[n + 1] = Sum(w)[n] + w[n] /\ Sum(w)[n] \in Int /\ w[n] \in Int /\ u[n] = 2 * w[n]
    BY <2>1, SumAt, SumType
  <2>3. QED
    BY <2>1, <2>2
<1>4. D[TSIZE] = 2 * Total(w)
  BY <1>1 DEF Total
<1> HIDE DEF D
<1>5. \A n \in 0 .. TSIZE : Sum(u)[n] = D[n]
  BY <1>2, <1>3, SumIs
<1>6. QED
  BY <1>1, <1>4, <1>5, SumType DEF Total

LEMMA UnhalvedType ==
    ASSUME NEW f, NEW s, NEW m, NEW j, \A n \in Node : f[n] \in Int
    PROVE  Unhalved(f, s, m, j) \in [Node -> Int]
<1>1. \A n \in Node : 2 * f[n] \in Int
  OBVIOUS
<1>2. QED
  BY <1>1 DEF Unhalved

LEMMA HalvingStarts ==
    ASSUME NEW f, NEW s, NEW p, IsTree(f, s, p, TSIZE), f[ROOT] = MAX_FREQ
    PROVE  Halving(f, s, 0, 0)
<1>1. /\ FreqType(f) /\ TreeSorted(f) /\ TreeLinked(s, p)
      /\ Total(LeafWeights(f, s)) = MAX_FREQ + 0 /\ s \in [Node -> Nat]
      /\ MAX_FREQ \in Nat /\ ROOT \in Nat /\ TSIZE \in Nat
  BY TreeSizes DEF IsTree, TreeLinked
<1>2. \A n \in Live(s, 0, 0) : n \in Node /\ s[n] >= TSIZE /\ s[n] \in Leaves /\ 0 < f[n]
                               /\ p[s[n]] = n
  BY <1>1, NodeFacts DEF Live, TreeLinked, TreeSorted
<1>3. \A n \in 0 .. ROOT - 1 : f[n] <= f[n + 1]
  BY <1>1 DEF TreeSorted, Node
<1>4. ASSUME NEW l \in Leaves PROVE \E n \in Live(s, 0, 0) : s[n] = l
  <2>1. p[l] \in Node /\ s[p[l]] = l /\ l >= TSIZE
    BY <1>1, NodeFacts DEF TreeLinked
  <2>2. p[l] \in Live(s, 0, 0)
    <3>1. PICK n \in Node : n = p[l]
      BY <2>1
    <3>2. 0 <= n /\ s[n] >= TSIZE
      BY <2>1, <3>1, NodeFacts
    <3>3. QED
      BY <3>1, <3>2 DEF Live
  <2>3. QED
    BY <2>1, <2>2
<1>5. Unhalved(f, s, 0, 0) = LeafWeights(f, s)
  <2>1. \A n \in Node : ~(n < 0) /\ 0 <= n
    BY NodeFacts
  <2>2. QED
    BY <2>1 DEF Unhalved, LeafWeights
<1>6. QED
  BY <1>1, <1>2, <1>3, <1>4, <1>5 DEF Halving

LEMMA HalvingLeaf ==
    ASSUME NEW f, NEW s, NEW m, NEW j, Halving(f, s, m, j), m < TSIZE, s[m] >= TSIZE,
           NEW g, g = [f EXCEPT ![j] = Half(f[m])],
           NEW t, t = [s EXCEPT ![j] = s[m]]
    PROVE  Halving(g, t, m + 1, j + 1)
<1>1. /\ FreqType(f) /\ s \in [Node -> Nat] /\ f \in [0 .. TSIZE -> Nat] /\ f[TSIZE] = Sentinel
      /\ m \in Nat /\ j \in Nat /\ j <= m /\ m \in Node /\ j \in Node
      /\ m + 1 \in 0 .. TSIZE /\ j + 1 \in 0 .. m + 1
      /\ m <= ROOT /\ ROOT \in Nat /\ TSIZE = ROOT + 1 /\ TSIZE \in Nat /\ MAX_FREQ \in Nat
  BY NodeFacts, TreeSizes DEF Halving, FreqType, Node
<1>2. /\ \A n \in Live(s, m, j) : s[n] \in Leaves /\ 0 < f[n]
      /\ \A n \in 0 .. j - 2 : f[n] <= f[n + 1]
      /\ \A n \in m .. ROOT - 1 : f[n] <= f[n + 1]
      /\ \A n \in 0 .. j - 1 : f[n] <= Half(f[m])
      /\ \A n, k \in Live(s, m, j) : s[n] = s[k] => n = k
      /\ \A l \in Leaves : \E n \in Live(s, m, j) : s[n] = l
      /\ Total(Unhalved(f, s, m, j)) <= MAX_FREQ + j
  BY <1>1 DEF Halving, Half
<1>3. /\ \A n \in Node : f[n] \in Nat /\ s[n] \in Nat /\ n \in Nat /\ n \in 0 .. TSIZE
      /\ \A n \in 0 .. TSIZE : f[n] \in Nat
  BY <1>1, NodeFacts
<1>4. m \in Live(s, m, j)
  BY <1>1 DEF Live
<1>5. f[m] \in Nat /\ 0 < f[m] /\ Half(f[m]) \in Nat /\ 0 < Half(f[m]) /\ s[m] \in Leaves
      /\ 2 * Half(f[m]) <= f[m] + 1
  BY <1>1, <1>2, <1>3, <1>4, HalfIs
<1>6. /\ g \in [0 .. TSIZE -> Nat] /\ g[j] = Half(f[m])
      /\ \A n \in 0 .. TSIZE : n # j => g[n] = f[n]
  BY <1>1, <1>3, <1>5
<1>7. /\ t \in [Node -> Nat] /\ t[j] = s[m]
      /\ \A n \in Node : n # j => t[n] = s[n]
  BY <1>1, <1>3
<1>8. FreqType(g)
  BY <1>1, <1>6 DEF FreqType
\* A node that is live now was live before, but for j, that is m now.
<1>9. \A n \in Live(t, m + 1, j + 1) : n = j \/ (n \in Live(s, m, j) /\ n # m /\ n # j)
  <2> SUFFICES ASSUME NEW n \in Live(t, m + 1, j + 1), n # j
               PROVE  n \in Live(s, m, j) /\ n # m /\ n # j
    OBVIOUS
  <2>1. n \in Node /\ n \in Nat /\ t[n] = s[n]
    BY <1>3, <1>7 DEF Live
  <2>2. n < j + 1 \/ (m + 1 <= n /\ s[n] >= TSIZE)
    BY <2>1 DEF Live
  <2>3. QED
    BY <1>1, <2>1, <2>2 DEF Live
<1>10. j \in Live(t, m + 1, j + 1) /\ \A n \in Live(s, m, j) : n # m => n \in Live(t, m + 1, j + 1)
  <2>1. j \in Live(t, m + 1, j + 1)
    BY <1>1 DEF Live
  <2>2. ASSUME NEW n \in Live(s, m, j), n # m PROVE n \in Live(t, m + 1, j + 1)
    <3>1. n \in Node /\ n \in Nat /\ (n < j \/ (m <= n /\ s[n] >= TSIZE))
      BY <1>3 DEF Live
    <3>2. n < j => n < j + 1
      BY <1>1, <3>1
    <3>3. ~(n < j) => m + 1 <= n /\ t[n] = s[n]
      BY <1>1, <1>7, <2>2, <3>1
    <3>4. QED
      BY <3>1, <3>2, <3>3 DEF Live
  <2>3. QED
    BY <2>1, <2>2
<1>11. ASSUME NEW n \in Live(t, m + 1, j + 1) PROVE t[n] \in Leaves /\ 0 < g[n]
  <2>1. CASE n = j
    BY <1>5, <1>6, <1>7, <2>1
  <2>2. CASE n # j
    <3>1. n \in Live(s, m, j) /\ n \in Node
      BY <1>9, <2>2 DEF Live
    <3>2. t[n] = s[n] /\ g[n] = f[n]
      BY <1>3, <1>6, <1>7, <2>2, <3>1
    <3>3. QED
      BY <1>2, <3>1, <3>2
  <2>3. QED
    BY <2>1, <2>2
<1>12. ASSUME NEW n \in 0 .. (j + 1) - 2 PROVE g[n] <= g[n + 1]
  <2>1. n \in Nat /\ n <= j - 1 /\ n # j /\ n \in 0 .. TSIZE /\ g[n] = f[n]
    BY <1>1, <1>6
  <2>2. CASE n = j - 1
    <3>1. n + 1 = j /\ n \in 0 .. j - 1
      BY <1>1, <2>2
    <3>2. QED
      BY <1>2, <1>6, <2>1, <3>1
  <2>3. CASE n # j - 1
    <3>1. n \in 0 .. j - 2 /\ n + 1 # j /\ n + 1 \in 0 .. TSIZE
      BY <1>1, <2>1, <2>3
    <3>2. QED
      BY <1>2, <1>6, <2>1, <3>1
  <2>4. QED
    BY <2>2, <2>3
<1>13. ASSUME NEW n \in m + 1 .. ROOT - 1 PROVE g[n] <= g[n + 1]
  <2>1. n \in m .. ROOT - 1 /\ n # j /\ n + 1 # j /\ n \in 0 .. TSIZE /\ n + 1 \in 0 .. TSIZE
    BY <1>1
  <2>2. QED
    BY <1>2, <1>6, <2>1
<1>14. ASSUME NEW n \in 0 .. (j + 1) - 1, m + 1 <= ROOT PROVE g[n] <= (g[m + 1] + 1) \div 2
  <2>1. m \in m .. ROOT - 1 /\ m + 1 # j /\ m + 1 \in 0 .. TSIZE
    BY <1>1, <1>14
  <2>2. g[m + 1] = f[m + 1] /\ f[m] <= f[m + 1] /\ f[m + 1] \in Nat
    BY <1>2, <1>3, <1>6, <2>1
  <2>3. Half(f[m]) <= Half(f[m + 1]) /\ Half(f[m + 1]) \in Nat
    BY <1>5, <2>2, HalfIs
  <2>4. g[n] <= Half(f[m])
    <3>1. CASE n = j
      BY <1>5, <1>6, <3>1
    <3>2. CASE n # j
      <4>1. n \in 0 .. j - 1 /\ n \in 0 .. TSIZE
        BY <1>1, <3>2
      <4>2. QED
        BY <1>2, <1>6, <3>2, <4>1
    <3>3. QED
      BY <3>1, <3>2
  <2>5. g[n] \in Nat
    BY <1>1, <1>6
  <2>6. g[n] <= Half(g[m + 1])
    BY <1>5, <2>2, <2>3, <2>4, <2>5
  <2>7. QED
    BY <2>6 DEF Half
<1>15. ASSUME NEW n \in Live(t, m + 1, j + 1), NEW k \in Live(t, m + 1, j + 1), t[n] = t[k]
       PROVE  n = k
  <2>1. \A x \in Live(t, m + 1, j + 1) : x # j => x \in Live(s, m, j) /\ x # m /\ t[x] = s[x]
    BY <1>7, <1>9 DEF Live
  <2>2. \A x \in Live(t, m + 1, j + 1) : x # j => t[x] # t[j]
    BY <1>2, <1>4, <1>7, <2>1
  <2>3. CASE n = j \/ k = j
    BY <1>15, <2>2, <2>3
  <2>4. CASE n # j /\ k # j
    BY <1>2, <1>15, <2>1, <2>4
  <2>5. QED
    BY <2>3, <2>4
<1>16. ASSUME NEW l \in Leaves PROVE \E n \in Live(t, m + 1, j + 1) : t[n] = l
  <2>1. PICK n \in Live(s, m, j) : s[n] = l
    BY <1>2
  <2>2. CASE n = m
    BY <1>7, <1>10, <2>1, <2>2
  <2>3. CASE n # m
    <3>1. n \in Live(t, m + 1, j + 1)
      BY <1>10, <2>3
    <3>2. n # j
      <4> SUFFICES ASSUME n = j PROVE FALSE
        OBVIOUS
      <4>1. m <= j
        BY <1>1, <2>1 DEF Live
      <4>2. QED
        BY <1>1, <2>3, <4>1
    <3>3. t[n] = s[n]
      BY <1>7, <3>2 DEF Live
    <3>4. QED
      BY <2>1, <3>1, <3>3
  <2>4. QED
    BY <2>2, <2>3
<1>17. Total(Unhalved(g, t, m + 1, j + 1)) <= MAX_FREQ + (j + 1)
  <2> DEFINE u == Unhalved(g, t, m + 1, j + 1)
             w == Unhalved(f, s, m, j)
  <2>1. u \in [Node -> Int] /\ w \in [Node -> Int]
    <3>1. \A n \in Node : f[n] \in Int /\ g[n] \in Int
      BY <1>3, <1>6
    <3>2. QED
      BY <3>1, UnhalvedType
  <2>2. ASSUME NEW n \in Node, n # j, n # m PROVE u[n] = w[n]
    <3>1. g[n] = f[n] /\ t[n] = s[n] /\ n \in Nat
      BY <1>3, <1>6, <1>7, <2>2
    <3>2. /\ u[n] = IF n < j + 1 THEN 2 * g[n] ELSE IF m + 1 <= n /\ t[n] >= TSIZE THEN g[n] ELSE 0
          /\ w[n] = IF n < j THEN 2 * f[n] ELSE IF m <= n /\ s[n] >= TSIZE THEN f[n] ELSE 0
      BY DEF Unhalved
    <3>3. (n < j + 1 <=> n < j) /\ (m + 1 <= n <=> m <= n)
      BY <1>1, <2>2, <3>1
    <3>4. QED
      BY <3>1, <3>2, <3>3
  <2>3. u[j] = 2 * Half(f[m])
    <3>1. u[j] = IF j < j + 1 THEN 2 * g[j] ELSE IF m + 1 <= j /\ t[j] >= TSIZE THEN g[j] ELSE 0
      BY <1>1 DEF Unhalved
    <3>2. QED
      BY <1>1, <1>6, <3>1
  <2>4. w[m] = f[m]
    <3>1. w[m] = IF m < j THEN 2 * f[m] ELSE IF m <= m /\ s[m] >= TSIZE THEN f[m] ELSE 0
      BY <1>1 DEF Unhalved
    <3>2. QED
      BY <1>1, <3>1
  <2>5. Total(w) <= MAX_FREQ + j /\ Total(w) \in Int
    <3>1. Total(w) \in Int
      BY <1>1, <2>1, SumType DEF Total
    <3>2. QED
      BY <1>2, <3>1
  <2>6. CASE m = j
    <3> HIDE DEF u, w
    <3>1. Total(u) = Total(w) + (u[m] - w[m])
      BY <1>1, <2>1, <2>2, <2>6, OneChange
    <3>2. u[m] = 2 * Half(f[m])
      BY <2>3, <2>6
    <3>3. Total(u) <= MAX_FREQ + (j + 1)
      BY <1>1, <1>5, <2>4, <2>5, <3>1, <3>2
    <3>4. QED
      BY <3>3 DEF u
  <2>7. CASE m # j
    <3>1. w[j] = 0
      <4>1. w[j] = IF j < j THEN 2 * f[j] ELSE IF m <= j /\ s[j] >= TSIZE THEN f[j] ELSE 0
        BY <1>1 DEF Unhalved
      <4>2. QED
        BY <1>1, <2>7, <4>1
    <3>2. u[m] = 0
      <4>1. u[m] = IF m < j + 1 THEN 2 * g[m] ELSE IF m + 1 <= m /\ t[m] >= TSIZE THEN g[m] ELSE 0
        BY <1>1 DEF Unhalved
      <4>2. QED
        BY <1>1, <2>7, <4>1
    <3> HIDE DEF u, w
    <3>3. Total(u) = Total(w) + (u[m] - w[m]) + (u[j] - w[j])
      BY <1>1, <2>1, <2>2, <2>7, TwoChange
    <3>4. Total(u) <= MAX_FREQ + (j + 1)
      BY <1>1, <1>5, <2>3, <2>4, <2>5, <3>1, <3>2, <3>3
    <3>5. QED
      BY <3>4 DEF u
  <2>8. QED
    BY <2>6, <2>7
<1>18. QED
  BY <1>1, <1>7, <1>8, <1>11, <1>12, <1>13, <1>14, <1>15, <1>16, <1>17 DEF Halving

LEMMA HalvingSkips ==
    ASSUME NEW f, NEW s, NEW m, NEW j, Halving(f, s, m, j), m < TSIZE, ~(s[m] >= TSIZE)
    PROVE  Halving(f, s, m + 1, j)
<1>1. /\ FreqType(f) /\ s \in [Node -> Nat] /\ f \in [0 .. TSIZE -> Nat]
      /\ m \in Nat /\ j \in Nat /\ j <= m /\ m \in Node
      /\ m + 1 \in 0 .. TSIZE /\ j \in 0 .. m + 1
      /\ m <= ROOT /\ ROOT \in Nat /\ TSIZE = ROOT + 1 /\ TSIZE \in Nat /\ MAX_FREQ \in Nat
  BY NodeFacts, TreeSizes DEF Halving, FreqType, Node
<1>2. Live(s, m + 1, j) = Live(s, m, j)
  <2>1. ASSUME NEW n \in Node PROVE n \in Live(s, m + 1, j) <=> n \in Live(s, m, j)
    <3>1. n \in Nat
      BY NodeFacts
    <3>2. n = m \/ (m + 1 <= n <=> m <= n)
      BY <1>1, <3>1
    <3>3. n = m => ~(m + 1 <= n)
      BY <1>1
    <3>4. QED
      BY <3>2, <3>3 DEF Live
  <2>2. QED
    BY <2>1 DEF Live
<1>3. Unhalved(f, s, m + 1, j) = Unhalved(f, s, m, j)
  <2>1. ASSUME NEW n \in Node
        PROVE  (m + 1 <= n /\ s[n] >= TSIZE) <=> (m <= n /\ s[n] >= TSIZE)
    <3>1. n \in Nat
      BY NodeFacts
    <3>2. n = m \/ (m + 1 <= n <=> m <= n)
      BY <1>1, <3>1
    <3>3. QED
      BY <3>2
  <2>2. QED
    BY <2>1 DEF Unhalved
<1>4. \A n \in (m + 1) .. ROOT - 1 : f[n] <= f[n + 1]
  <2>1. \A n \in m .. ROOT - 1 : f[n] <= f[n + 1]
    BY DEF Halving
  <2>2. QED
    BY <1>1, <2>1
<1>5. ASSUME NEW n \in 0 .. j - 1, m + 1 <= ROOT PROVE f[n] <= (f[m + 1] + 1) \div 2
  <2>1. m \in m .. ROOT - 1 /\ m \in 0 .. TSIZE /\ n \in 0 .. TSIZE
    BY <1>1, <1>5
  <2>2. f[m] <= f[m + 1] /\ f[m] \in Nat /\ f[m + 1] \in Nat /\ f[n] \in Nat
    BY <1>1, <2>1 DEF Halving
  <2>3. f[n] <= Half(f[m])
    BY <1>1 DEF Halving, Half
  <2>4. Half(f[m]) <= Half(f[m + 1]) /\ Half(f[m]) \in Nat /\ Half(f[m + 1]) \in Nat
    BY <2>2, HalfIs
  <2>5. f[n] <= Half(f[m + 1])
    BY <2>2, <2>3, <2>4
  <2>6. QED
    BY <2>5 DEF Half
<1>6. QED
  BY <1>1, <1>2, <1>3, <1>4, <1>5 DEF Halving

\* All leaves have moved.
LEMMA HalvingEnds ==
    ASSUME NEW f, NEW s, NEW m, NEW j, Halving(f, s, m, j), m = TSIZE
    PROVE  Joining(f, s, 0, N_CHAR)
<1>1. /\ FreqType(f) /\ s \in [Node -> Nat] /\ f \in [0 .. TSIZE -> Nat]
      /\ j \in Nat /\ j <= TSIZE /\ TSIZE \in Nat
      /\ TSIZE = 2 * N_CHAR - 1 /\ N_CHAR \in Nat /\ N_CHAR > 1 /\ MAX_FREQ \in Nat
  BY TreeSizes DEF Halving, FreqType
<1>2. \A n \in Live(s, m, j) : n \in 0 .. j - 1 /\ n \in Node
  BY <1>1, NodeFacts DEF Live
<1>3. \A n \in 0 .. j - 1 : n \in Live(s, m, j) /\ n \in Node
  BY <1>1, NodeFacts DEF Live, Node
<1>4. Live(s, m, j) = 0 .. j - 1
  BY <1>2, <1>3
<1>5. /\ \A n \in 0 .. j - 1 : s[n] \in Leaves /\ 0 < f[n]
      /\ \A n \in 0 .. j - 2 : f[n] <= f[n + 1]
      /\ \A n, k \in 0 .. j - 1 : s[n] = s[k] => n = k
      /\ \A l \in Leaves : \E n \in 0 .. j - 1 : s[n] = l
      /\ Total(Unhalved(f, s, m, j)) <= MAX_FREQ + j
  BY <1>4 DEF Halving
<1>6. j = N_CHAR
  <2> DEFINE h == [n \in 0 .. j - 1 |-> s[n]]
  <2>1. h \in Bijection(0 .. j - 1, Leaves)
    <3>1. h \in [0 .. j - 1 -> Leaves]
      BY <1>5
    <3>2. \A a, b \in 0 .. j - 1 : h[a] = h[b] => a = b
      BY <1>5
    <3>3. \A l \in Leaves : \E n \in 0 .. j - 1 : h[n] = l
      BY <1>5
    <3> HIDE DEF h
    <3>4. QED
      BY <3>1, <3>2, <3>3 DEF Bijection, Injection, Surjection, IsInjective
  <2>2. IsFiniteSet(0 .. j - 1) /\ Cardinality(0 .. j - 1) = j
    <3>1. PICK b \in Int : b = j - 1
      BY <1>1
    <3>2. IsFiniteSet(0 .. b) /\ Cardinality(0 .. b) = IF 0 > b THEN 0 ELSE b - 0 + 1
      BY FS_Interval
    <3>3. QED
      BY <1>1, <3>1, <3>2
  <2>3. Cardinality(Leaves) = N_CHAR /\ IsFiniteSet(Leaves)
    <3>1. PICK a \in Int, b \in Int : a = TSIZE /\ b = TSIZE + N_CHAR - 1
      BY <1>1
    <3>2. IsFiniteSet(a .. b) /\ Cardinality(a .. b) = IF a > b THEN 0 ELSE b - a + 1
      BY FS_Interval
    <3>3. Leaves = a .. b /\ ~(a > b) /\ b - a + 1 = N_CHAR
      BY <1>1, <3>1 DEF Leaves
    <3>4. QED
      BY <3>2, <3>3
  <2> HIDE DEF h
  <2>4. ExistsBijection(0 .. j - 1, Leaves)
    BY <2>1 DEF ExistsBijection
  <2>5. Cardinality(0 .. j - 1) = Cardinality(Leaves)
    BY <2>2, <2>4, FS_Bijection
  <2>6. QED
    BY <2>2, <2>3, <2>5
<1>7. Grown(s, 0, N_CHAR)
  BY <1>1, <1>5, <1>6 DEF Grown
<1>8. /\ Joined(f, s, N_CHAR) \in [Node -> Int] /\ Joined(f, s, N_CHAR) = Orphans(f, 0, N_CHAR)
      /\ \A n \in Node : Unhalved(f, s, m, j)[n] = 2 * Joined(f, s, N_CHAR)[n]
  <2>1. ASSUME NEW n \in Node
        PROVE  /\ f[n] \in Int
               /\ n < N_CHAR /\ s[n] >= TSIZE <=> 0 <= n /\ n < N_CHAR
               /\ (IF n < j THEN 2 * f[n] ELSE IF m <= n /\ s[n] >= TSIZE THEN f[n] ELSE 0)
                     = 2 * (IF n < N_CHAR /\ s[n] >= TSIZE THEN f[n] ELSE 0)
    <3>1. n \in Nat /\ n < TSIZE /\ f[n] \in Nat
      BY <1>1, NodeFacts
    <3>2. n < N_CHAR => s[n] \in Leaves /\ s[n] >= TSIZE
      <4>1. n < N_CHAR => n \in 0 .. j - 1
        BY <1>1, <1>6, <3>1
      <4>2. QED
        BY <1>5, <4>1, NodeFacts
    <3>3. ~(m <= n)
      BY <1>1, <3>1
    <3>4. QED
      BY <1>6, <3>1, <3>2, <3>3
  <2>2. QED
    BY <2>1 DEF Joined, Orphans, Unhalved
<1>9. 2 * Total(Joined(f, s, N_CHAR)) <= MAX_FREQ + N_CHAR
  <2>1. Unhalved(f, s, m, j) \in [Node -> Int]
    <3>1. \A n \in Node : f[n] \in Int
      BY <1>1, NodeFacts
    <3>2. QED
      BY <3>1, UnhalvedType
  <2>2. Total(Unhalved(f, s, m, j)) = 2 * Total(Joined(f, s, N_CHAR))
    BY <1>8, <2>1, TotalDouble
  <2>3. QED
    BY <1>5, <1>6, <2>2
<1>10. N_CHAR \in N_CHAR .. TSIZE /\ 0 = 2 * (N_CHAR - N_CHAR) /\ N_CHAR - N_CHAR = 0
  BY <1>1
<1>11. \A n \in 0 .. N_CHAR - 1 : 0 < f[n] /\ ~(s[n] < TSIZE)
  <2>1. ASSUME NEW n \in 0 .. N_CHAR - 1 PROVE 0 < f[n] /\ ~(s[n] < TSIZE)
    <3>1. s[n] \in Leaves /\ 0 < f[n]
      BY <1>5, <1>6
    <3>2. s[n] \in Nat /\ s[n] >= TSIZE /\ TSIZE \in Nat
      BY <1>1, <3>1, NodeFacts
    <3>3. QED
      BY <3>1, <3>2
  <2>2. QED
    BY <2>1
<1>12. QED
  BY <1>1, <1>5, <1>6, <1>7, <1>8, <1>9, <1>10, <1>11 DEF Joining

-----------------------------------------------------------------------------
(* Making a tree of the leaves.                                            *)

\* A new node of frequency x goes to k.
JoinsAt(f, j, k, x) ==
    /\ k \in 0 .. j
    /\ k = 0 \/ f[k - 1] <= x
    /\ \A n \in k .. j - 1 : x < f[n]

LEMMA JoinPlaceIs ==
    ASSUME FreqType(freq), NEW j \in 0 .. TSIZE, NEW x \in Nat
    PROVE  JoinsAt(freq, j, JoinPlace(x, j), x)
<1>1. j \in Nat /\ TSIZE \in Nat /\ \A n \in 0 .. TSIZE : freq[n] \in Nat
  BY TreeSizes DEF FreqType
<1> DEFINE S == {k \in 0 .. j : \A n \in k .. j - 1 : x < freq[n]}
<1>2. PICK k \in S : \A q \in S : k <= q
  <2>1. j \in S /\ S \subseteq Nat
    BY <1>1
  <2> HIDE DEF S
  <2>2. QED
    BY <2>1, LeastNumber
<1>3. k \in Nat /\ k \in 0 .. j
  BY <1>1, <1>2
<1>4. k = 0 \/ freq[k - 1] <= x
  <2> SUFFICES ASSUME k # 0, ~(freq[k - 1] <= x) PROVE FALSE
    OBVIOUS
  <2>1. k - 1 \in 0 .. j /\ freq[k - 1] \in Nat
    BY <1>1, <1>3
  <2>2. ASSUME NEW n \in k - 1 .. j - 1 PROVE x < freq[n]
    <3>1. CASE n = k - 1
      BY <2>1, <3>1
    <3>2. CASE n # k - 1
      <4>1. n \in k .. j - 1
        BY <1>1, <1>3, <3>2
      <4>2. QED
        BY <1>2, <4>1
    <3>3. QED
      BY <3>1, <3>2
  <2>3. k - 1 \in S
    BY <2>1, <2>2
  <2>4. k <= k - 1
    BY <1>2, <2>3
  <2>5. QED
    BY <1>3, <2>4
<1>5. JoinsAt(freq, j, k, x)
  BY <1>2, <1>3, <1>4 DEF JoinsAt
<1>6. JoinPlace(x, j) = CHOOSE q \in 0 .. j : /\ q = 0 \/ freq[q - 1] <= x
                                              /\ \A n \in q .. j - 1 : x < freq[n]
  BY DEF JoinPlace
<1>7. QED
  BY <1>5, <1>6 DEF JoinsAt

LEMMA JoiningTypes ==
    ASSUME NEW f, NEW s, NEW m, NEW j, Joining(f, s, m, j)
    PROVE  /\ FreqType(f) /\ f \in [0 .. TSIZE -> Nat] /\ f[TSIZE] = Sentinel
           /\ s \in [Node -> Nat] /\ Grown(s, j - N_CHAR, j)
           /\ j \in Nat /\ N_CHAR <= j /\ j <= TSIZE /\ m = 2 * (j - N_CHAR) /\ m \in Nat
           /\ TSIZE = 2 * N_CHAR - 1 /\ N_CHAR \in Nat /\ N_CHAR > 1
           /\ ROOT = TSIZE - 1 /\ TSIZE \in Nat /\ MAX_FREQ \in Nat /\ N_CHAR < MAX_FREQ
           /\ \A n \in Node : f[n] \in Nat /\ n \in Nat /\ n <= ROOT /\ s[n] \in Nat
           /\ \A n \in 0 .. j - 1 : n \in Node /\ n \in Nat
           /\ j < TSIZE => j \in Node /\ m + 1 < j
<1>1. /\ N_CHAR \in Nat /\ N_CHAR > 1 /\ TSIZE = 2 * N_CHAR - 1 /\ ROOT = TSIZE - 1
      /\ TSIZE \in Nat /\ MAX_FREQ \in Nat /\ N_CHAR < MAX_FREQ /\ ROOT \in Nat
  BY TreeSizes
<1>2. FreqType(f) /\ j \in N_CHAR .. TSIZE /\ m = 2 * (j - N_CHAR) /\ Grown(s, j - N_CHAR, j)
  BY DEF Joining
<1>3. f \in [0 .. TSIZE -> Nat] /\ f[TSIZE] = Sentinel /\ s \in [Node -> Nat]
  BY <1>2 DEF FreqType, Grown
<1>4. j \in Nat /\ N_CHAR <= j /\ j <= TSIZE /\ m \in Nat /\ (j < TSIZE => m + 1 < j)
  BY <1>1, <1>2
<1>5. \A n \in Node : n \in Nat /\ n <= ROOT /\ n \in 0 .. TSIZE
  BY <1>1 DEF Node
<1>6. \A n \in Node : f[n] \in Nat /\ s[n] \in Nat
  BY <1>3, <1>5
<1>7. (\A n \in 0 .. j - 1 : n \in Node /\ n \in Nat) /\ (j < TSIZE => j \in Node)
  BY <1>1, <1>4 DEF Node
<1>8. QED
  BY <1>1, <1>2, <1>3, <1>4, <1>5, <1>6, <1>7

\* A child is further to the front than any node without a parent.
LEMMA JoiningChildren ==
    ASSUME NEW f, NEW s, NEW m, NEW j, Joining(f, s, m, j), NEW n \in 0 .. j - 1
    PROVE  \/ s[n] \in Leaves /\ s[n] >= TSIZE
           \/ s[n] < TSIZE /\ s[n] + 1 < m /\ s[n] + 1 < n
<1>1. /\ j \in Nat /\ m = 2 * (j - N_CHAR) /\ N_CHAR \in Nat /\ m \in Nat /\ m < TSIZE /\ TSIZE \in Nat
      /\ n \in Node /\ n \in Nat /\ Grown(s, j - N_CHAR, j) /\ j - N_CHAR \in Nat
  BY JoiningTypes
<1>2. \/ s[n] \in Leaves
      \/ s[n] + 1 < n /\ \E e \in 0 .. (j - N_CHAR) - 1 : s[n] = 2 * e
  BY <1>1 DEF Grown
<1>3. CASE s[n] \in Leaves
  BY <1>3, NodeFacts
<1>4. CASE s[n] + 1 < n /\ \E e \in 0 .. (j - N_CHAR) - 1 : s[n] = 2 * e
  <2>1. PICK e \in 0 .. (j - N_CHAR) - 1 : s[n] = 2 * e
    BY <1>4
  <2>2. s[n] + 1 < m
    BY <1>1, <2>1
  <2>3. QED
    BY <1>1, <1>4, <2>1, <2>2
<1>5. QED
  BY <1>2, <1>3, <1>4

\* What InsertNode makes of f.
Placed(g, f, k, j, e) ==
    /\ g[k] = e
    /\ \A n \in Node : /\ n < k => g[n] = f[n]
                       /\ k < n /\ n <= j => g[n] = f[n - 1]
                       /\ j < n => g[n] = f[n]

LEMMA InsertNodeIs ==
    ASSUME NEW f, NEW j \in Node, NEW k \in 0 .. j, NEW e, Node \subseteq DOMAIN f
    PROVE  Placed(InsertNode(f, k, j, e), f, k, j, e)
<1>1. j \in Nat /\ k \in Nat /\ k <= j /\ k \in Node /\ \A n \in Node : n \in Nat
  BY NodeFacts
<1>2. ASSUME NEW n \in Node
      PROVE  InsertNode(f, k, j, e)[n] =
                IF n = k THEN e ELSE IF k < n /\ n <= j THEN f[n - 1] ELSE f[n]
  BY DEF InsertNode
<1> DEFINE g == InsertNode(f, k, j, e)
<1> HIDE DEF g
<1>3. g[k] = e
  BY <1>1, <1>2 DEF g
<1>4. ASSUME NEW n \in Node
      PROVE  /\ n < k => g[n] = f[n]
             /\ k < n /\ n <= j => g[n] = f[n - 1]
             /\ j < n => g[n] = f[n]
  <2>1. g[n] = IF n = k THEN e ELSE IF k < n /\ n <= j THEN f[n - 1] ELSE f[n]
    BY <1>2 DEF g
  <2>2. n \in Nat /\ k \in Nat /\ j \in Nat /\ k <= j
    BY <1>1
  <2>3. QED
    BY <2>1, <2>2
<1>5. QED
  BY <1>3, <1>4 DEF Placed, g

LEMMA InsertNodeType ==
    ASSUME NEW D, 0 .. TSIZE - 1 \subseteq D, D \subseteq Nat, NEW f \in [D -> Nat],
           NEW j \in Node, NEW k \in 0 .. j, NEW e \in Nat
    PROVE  InsertNode(f, k, j, e) \in [D -> Nat]
<1>1. j \in Nat /\ j < TSIZE /\ TSIZE \in Nat
  BY NodeFacts, TreeSizes
<1>2. ASSUME NEW n \in D
      PROVE  (IF n = k THEN e ELSE IF k < n /\ n <= j THEN f[n - 1] ELSE f[n]) \in Nat
  <2>1. n \in Nat
    OBVIOUS
  <2>2. k < n /\ n <= j => n - 1 \in D
    BY <1>1, <2>1
  <2>3. QED
    BY <2>2
<1>3. DOMAIN f = D
  OBVIOUS
<1>4. QED
  BY <1>2, <1>3 DEF InsertNode

LEMMA TotalType ==
    ASSUME NEW w \in [Node -> Int]
    PROVE  Total(w) \in Int
<1>1. TSIZE \in 0 .. TSIZE
  BY TreeSizes
<1>2. QED
  BY <1>1, SumType DEF Total

\* A new node is the parent of the first two that have none.
LEMMA JoiningStep ==
    ASSUME NEW f, NEW s, NEW m, NEW j, Joining(f, s, m, j), j < TSIZE,
           NEW k, JoinsAt(f, j, k, f[m] + f[m + 1]),
           NEW g \in [0 .. TSIZE -> Nat], Placed(g, f, k, j, f[m] + f[m + 1]),
           NEW t \in [Node -> Nat], Placed(t, s, k, j, m), g[TSIZE] = f[TSIZE]
    PROVE  Joining(g, t, m + 2, j + 1)
<1>1. /\ j \in Nat /\ N_CHAR \in Nat /\ N_CHAR <= j /\ m = 2 * (j - N_CHAR) /\ j < TSIZE
      /\ TSIZE \in Nat /\ m \in Nat /\ m + 1 < j /\ m < TSIZE /\ j - N_CHAR \in Nat
  <2>1. /\ j \in Nat /\ N_CHAR \in Nat /\ N_CHAR <= j /\ m = 2 * (j - N_CHAR) /\ j < TSIZE
        /\ TSIZE \in Nat /\ m \in Nat /\ m + 1 < j
    BY JoiningTypes
  <2>2. m < TSIZE /\ j - N_CHAR \in Nat
    BY <2>1
  <2>3. QED
    BY <2>1, <2>2
<1>2. /\ FreqType(f) /\ Grown(s, j - N_CHAR, j)
      /\ \A n \in Node : f[n] \in Nat /\ n \in Nat /\ s[n] \in Nat
      /\ \A n \in 0 .. j - 1 : n \in Node /\ n \in Nat
      /\ j \in Node
  BY JoiningTypes
<1>3. /\ \A n \in 0 .. j - 1 : 0 < f[n] /\ (s[n] < TSIZE => f[s[n]] + f[s[n] + 1] = f[n])
      /\ \A n \in 0 .. j - 2 : f[n] <= f[n + 1]
      /\ 2 * Total(Joined(f, s, j)) <= MAX_FREQ + N_CHAR
      /\ Total(Orphans(f, m, j)) = Total(Joined(f, s, j))
  BY DEF Joining
<1>4. PICK x : x = f[m] + f[m + 1]
  OBVIOUS
<1>5. /\ k \in 0 .. j /\ (k = 0 \/ f[k - 1] <= x)
      /\ \A n \in k .. j - 1 : x < f[n]
  BY <1>4 DEF JoinsAt
<1>6. /\ k \in Nat /\ k <= j /\ k \in Node /\ m \in Node /\ m + 1 \in Node
      /\ m \in 0 .. j - 1 /\ m + 1 \in 0 .. j - 1
  <2>1. k \in Nat /\ k <= j /\ m \in 0 .. j - 1 /\ m + 1 \in 0 .. j - 1
    BY <1>1, <1>5
  <2>2. k \in Node
    BY <1>2, <2>1, NodeFacts
  <2>3. QED
    BY <1>2, <2>1, <2>2
<1>7. x \in Nat /\ x > 0 /\ x > f[m + 1] /\ f[m] \in Nat /\ f[m + 1] \in Nat
  <2>1. f[m] \in Nat /\ f[m + 1] \in Nat /\ f[m] > 0 /\ f[m + 1] > 0
    BY <1>2, <1>3, <1>6
  <2>2. QED
    BY <1>4, <2>1
\* The new node comes after its children.
<1>8. m + 1 < k
  <2> SUFFICES ASSUME ~(m + 1 < k) PROVE FALSE
    OBVIOUS
  <2>1. m + 1 \in k .. j - 1
    BY <1>1, <1>6
  <2>2. x < f[m + 1]
    BY <1>5, <2>1
  <2>3. QED
    BY <1>7, <2>2
<1>9. /\ g[k] = x
      /\ \A n \in Node : n < k => g[n] = f[n]
      /\ \A n \in Node : k < n /\ n <= j => g[n] = f[n - 1]
      /\ \A n \in Node : j < n => g[n] = f[n]
      /\ \A n \in Node : g[n] \in Nat
  <2>1. \A n \in Node : g[n] \in Nat
    BY NodeFacts
  <2>2. QED
    BY <1>4, <2>1 DEF Placed
<1>10. /\ t[k] = m
       /\ \A n \in Node : n < k => t[n] = s[n]
       /\ \A n \in Node : k < n /\ n <= j => t[n] = s[n - 1]
       /\ \A n \in Node : j < n => t[n] = s[n]
  BY DEF Placed
<1>11. FreqType(g)
  BY <1>2 DEF FreqType
\* Where the nodes come from: all but the new one from an old place.
<1> DEFINE From(n) == IF n < k THEN n ELSE n - 1
           To(n) == IF n < k THEN n ELSE n + 1
<1>12. \A n \in 0 .. (j + 1) - 1 : n \in Node /\ n \in Nat /\ n <= j
  <2>1. ASSUME NEW n \in 0 .. (j + 1) - 1 PROVE n \in 0 .. j - 1 \/ n = j
    BY <1>1
  <2>2. QED
    BY <1>1, <1>2, <2>1
<1>13. ASSUME NEW n \in 0 .. (j + 1) - 1, n # k
       PROVE  /\ From(n) \in 0 .. j - 1 /\ From(n) <= n /\ From(n) \in Node
              /\ g[n] = f[From(n)] /\ t[n] = s[From(n)]
  <2>1. n \in Node /\ n \in Nat /\ n <= j
    BY <1>12
  <2>2. CASE n < k
    <3>1. From(n) = n /\ n \in 0 .. j - 1
      BY <1>1, <1>6, <2>1, <2>2
    <3>2. g[n] = f[n] /\ t[n] = s[n]
      BY <1>9, <1>10, <2>1, <2>2
    <3>3. QED
      BY <2>1, <3>1, <3>2
  <2>3. CASE ~(n < k)
    <3>1. k < n /\ From(n) = n - 1 /\ n - 1 \in 0 .. j - 1 /\ n - 1 <= n
      BY <1>1, <1>6, <1>13, <2>1, <2>3
    <3>2. g[n] = f[n - 1] /\ t[n] = s[n - 1]
      BY <1>9, <1>10, <2>1, <3>1
    <3>3. QED
      BY <1>2, <3>1, <3>2
  <2>4. QED
    BY <2>2, <2>3
<1>14. ASSUME NEW n \in 0 .. j - 1
       PROVE  To(n) \in 0 .. (j + 1) - 1 /\ To(n) # k /\ t[To(n)] = s[n] /\ g[To(n)] = f[n]
  <2>1. n \in Nat /\ To(n) \in 0 .. (j + 1) - 1 /\ To(n) # k
    BY <1>1, <1>6
  <2>2. From(To(n)) = n
    BY <1>6, <2>1
  <2> HIDE DEF From, To
  <2>3. QED
    BY <1>13, <2>1, <2>2
<1>15. ASSUME NEW n \in 0 .. j - 1
       PROVE  /\ s[n] \in Nat /\ n \in Nat
              /\ \/ s[n] \in Leaves /\ s[n] >= TSIZE
                 \/ s[n] < TSIZE /\ s[n] + 1 < m /\ s[n] + 1 < n
  BY <1>2, JoiningChildren
<1>16. ASSUME NEW n \in 0 .. (j + 1) - 1
       PROVE  \/ t[n] \in Leaves
              \/ t[n] + 1 < n /\ \E e \in 0 .. ((j + 1) - N_CHAR) - 1 : t[n] = 2 * e
  <2>1. CASE n = k
    <3>1. j - N_CHAR \in 0 .. ((j + 1) - N_CHAR) - 1 /\ m = 2 * (j - N_CHAR)
      BY <1>1
    <3>2. QED
      BY <1>8, <1>10, <2>1, <3>1
  <2>2. CASE n # k
    <3>1. PICK y : y = From(n)
      OBVIOUS
    <3>2. y \in 0 .. j - 1 /\ y <= n /\ t[n] = s[y]
      BY <1>13, <2>2, <3>1
    <3>3. CASE s[y] \in Leaves
      BY <3>2, <3>3
    <3>4. CASE s[y] + 1 < y /\ \E e \in 0 .. (j - N_CHAR) - 1 : s[y] = 2 * e
      <4>1. PICK e \in 0 .. (j - N_CHAR) - 1 : s[y] = 2 * e
        BY <3>4
      <4>2. e \in 0 .. ((j + 1) - N_CHAR) - 1
        BY <1>1
      <4>3. s[y] + 1 < n
        <5>1. s[y] \in Nat /\ y \in Nat /\ n \in Nat
          BY <1>15, <3>2
        <5>2. QED
          BY <3>2, <3>4, <5>1
      <4>4. QED
        BY <3>2, <4>1, <4>2, <4>3
    <3>5. QED
      BY <1>2, <3>2, <3>3, <3>4 DEF Grown
  <2>3. QED
    BY <2>1, <2>2
<1>17. ASSUME NEW a \in 0 .. (j + 1) - 1, NEW b \in 0 .. (j + 1) - 1, t[a] = t[b]
       PROVE  a = b
  <2>1. ASSUME NEW n \in 0 .. (j + 1) - 1, n # k PROVE t[n] # m
    <3>1. PICK y : y = From(n)
      OBVIOUS
    <3>2. y \in 0 .. j - 1 /\ t[n] = s[y]
      BY <1>13, <2>1, <3>1
    <3>3. s[y] \in Nat /\ (s[y] >= TSIZE \/ s[y] + 1 < m)
      BY <1>15, <3>2
    <3>4. s[y] # m
      BY <1>1, <3>3
    <3>5. QED
      BY <3>2, <3>4
  <2>2. CASE a = k \/ b = k
    BY <1>10, <1>17, <2>1, <2>2
  <2>3. CASE a # k /\ b # k
    <3>1. /\ From(a) \in 0 .. j - 1 /\ From(b) \in 0 .. j - 1
          /\ s[From(a)] = s[From(b)]
      <4> HIDE DEF From
      <4>1. QED
        BY <1>13, <1>17, <2>3
    <3>2. From(a) = From(b)
      <4> HIDE DEF From
      <4>1. QED
        BY <1>2, <3>1 DEF Grown
    <3>3. a \in Nat /\ b \in Nat
      BY <1>12
    <3>4. QED
      BY <1>6, <2>3, <3>2, <3>3
  <2>4. QED
    BY <2>2, <2>3
<1>18. ASSUME NEW y, \E n \in 0 .. j - 1 : s[n] = y
       PROVE  \E n \in 0 .. (j + 1) - 1 : t[n] = y
  <2>1. PICK n \in 0 .. j - 1 : s[n] = y
    BY <1>18
  <2> HIDE DEF To
  <2>2. To(n) \in 0 .. (j + 1) - 1 /\ t[To(n)] = y
    BY <1>14, <2>1
  <2>3. QED
    BY <2>2
<1>19. Grown(t, (j + 1) - N_CHAR, j + 1)
  <2>1. \A l \in Leaves : \E n \in 0 .. (j + 1) - 1 : t[n] = l
    BY <1>2, <1>18 DEF Grown
  <2>2. ASSUME NEW e \in 0 .. ((j + 1) - N_CHAR) - 1 PROVE \E n \in 0 .. (j + 1) - 1 : t[n] = 2 * e
    <3>1. CASE e = j - N_CHAR
      <4>1. k \in 0 .. (j + 1) - 1 /\ t[k] = 2 * e
        BY <1>1, <1>6, <1>10, <3>1
      <4>2. QED
        BY <4>1
    <3>2. CASE e # j - N_CHAR
      <4>1. e \in 0 .. (j - N_CHAR) - 1
        BY <1>1, <3>2
      <4>2. \E n \in 0 .. j - 1 : s[n] = 2 * e
        BY <1>2, <4>1 DEF Grown
      <4>3. QED
        BY <1>18, <4>2
    <3>3. QED
      BY <3>1, <3>2
  <2>3. j + 1 \in 0 .. TSIZE /\ (j + 1) - N_CHAR \in Nat
    BY <1>1
  <2>4. QED
    BY <1>16, <1>17, <2>1, <2>2, <2>3 DEF Grown
<1>20. ASSUME NEW n \in 0 .. (j + 1) - 1
       PROVE  0 < g[n] /\ (t[n] < TSIZE => g[t[n]] + g[t[n] + 1] = g[n])
  <2>1. CASE n = k
    <3>1. m < k /\ m + 1 < k
      BY <1>1, <1>6, <1>8
    <3>2. g[m] = f[m] /\ g[m + 1] = f[m + 1]
      BY <1>6, <1>9, <3>1
    <3>3. QED
      BY <1>4, <1>7, <1>9, <1>10, <2>1, <3>2
  <2>2. CASE n # k
    <3>1. PICK y : y = From(n)
      OBVIOUS
    <3>2. y \in 0 .. j - 1 /\ t[n] = s[y] /\ g[n] = f[y]
      BY <1>13, <2>2, <3>1
    <3>3. 0 < f[y] /\ (s[y] < TSIZE => f[s[y]] + f[s[y] + 1] = f[y])
      BY <1>3, <3>2
    <3>4. s[y] < TSIZE => g[s[y]] = f[s[y]] /\ g[s[y] + 1] = f[s[y] + 1]
      <4> SUFFICES ASSUME s[y] < TSIZE PROVE g[s[y]] = f[s[y]] /\ g[s[y] + 1] = f[s[y] + 1]
        OBVIOUS
      <4>1. PICK z : z = s[y]
        OBVIOUS
      <4>2. z \in Nat /\ (z >= TSIZE \/ z + 1 < m) /\ z < TSIZE
        BY <1>15, <3>2, <4>1
      <4>3. z + 1 < m
        BY <1>1, <4>2
      <4>4. z < k /\ z + 1 < k /\ z \in 0 .. j - 1 /\ z + 1 \in 0 .. j - 1
        BY <1>1, <1>6, <1>8, <4>2, <4>3
      <4>5. g[z] = f[z] /\ g[z + 1] = f[z + 1]
        BY <1>2, <1>9, <4>4
      <4>6. QED
        BY <4>1, <4>5
    <3>5. QED
      BY <3>2, <3>3, <3>4
  <2>3. QED
    BY <2>1, <2>2
<1>21. ASSUME NEW n \in 0 .. (j + 1) - 2 PROVE g[n] <= g[n + 1]
  <2>1. n \in Nat /\ n \in Node /\ n + 1 \in Node /\ n + 1 <= j /\ n <= j - 1
    <3>1. n \in 0 .. (j + 1) - 1 /\ n + 1 \in 0 .. (j + 1) - 1
      BY <1>1
    <3>2. n \in Node /\ n + 1 \in Node /\ n \in Nat
      BY <1>12, <3>1
    <3>3. QED
      BY <1>1, <3>2
  <2>2. CASE n + 1 < k
    <3>1. n < k /\ n \in 0 .. j - 2
      BY <1>1, <1>6, <2>1, <2>2
    <3>2. g[n] = f[n] /\ g[n + 1] = f[n + 1]
      BY <1>9, <2>1, <2>2, <3>1
    <3>3. QED
      BY <1>3, <3>1, <3>2
  <2>3. CASE n + 1 = k
    <3>1. n < k /\ n = k - 1 /\ k # 0
      BY <1>6, <2>1, <2>3
    <3>2. g[n] = f[n] /\ g[n + 1] = x
      BY <1>9, <2>1, <2>3, <3>1
    <3>3. QED
      BY <1>5, <3>1, <3>2
  <2>4. CASE n = k
    <3>1. k < n + 1 /\ (n + 1) - 1 = n /\ n \in k .. j - 1
      BY <1>1, <1>6, <2>1, <2>4
    <3>2. g[n] = x /\ g[n + 1] = f[n]
      BY <1>9, <2>1, <2>4, <3>1
    <3>3. x < f[n] /\ f[n] \in Nat
      BY <1>2, <1>5, <2>1, <3>1
    <3>4. QED
      BY <1>7, <3>2, <3>3
  <2>5. CASE k < n
    <3>1. /\ k < n + 1 /\ (n + 1) - 1 = n /\ n - 1 \in 0 .. j - 2 /\ (n - 1) + 1 = n /\ n <= j
      BY <1>1, <1>6, <2>1, <2>5
    <3>2. g[n] = f[n - 1] /\ g[n + 1] = f[n]
      BY <1>9, <2>1, <2>5, <3>1
    <3>3. QED
      BY <1>3, <3>1, <3>2
  <2>6. QED
    <3>1. k \in Nat /\ n \in Nat
      BY <1>6, <2>1
    <3>2. QED
      BY <2>2, <2>3, <2>4, <2>5, <3>1
<1>22. \A n \in Node : f[n] \in Int /\ g[n] \in Int
  BY <1>2, <1>9
\* Which nodes are new, moved and left alone.
<1>23. ASSUME NEW n \in Node
       PROVE  /\ n < k => n < j + 1 /\ n < j /\ g[n] = f[n] /\ t[n] = s[n]
              /\ k < n /\ n <= j => /\ n < j + 1 /\ n - 1 < j /\ n - 1 \in Node
                                    /\ m + 2 <= n /\ m + 2 <= n - 1
                                    /\ g[n] = f[n - 1] /\ t[n] = s[n - 1]
              /\ j < n => ~(n < j + 1) /\ ~(n < j)
  <2>1. n \in Nat
    BY <1>2
  <2>2. n < k => n < j + 1 /\ n < j
    BY <1>1, <1>6, <2>1
  <2>3. k < n /\ n <= j => n < j + 1 /\ n - 1 < j /\ n - 1 \in 0 .. j - 1
    BY <1>1, <1>6, <2>1
  <2>4. k < n => m + 2 <= n /\ m + 2 <= n - 1
    BY <1>1, <1>6, <1>8, <2>1
  <2>5. j < n => ~(n < j + 1) /\ ~(n < j)
    BY <1>1, <2>1
  <2>6. n < k => g[n] = f[n] /\ t[n] = s[n]
    BY <1>9, <1>10
  <2>7. k < n /\ n <= j => g[n] = f[n - 1] /\ t[n] = s[n - 1]
    BY <1>9, <1>10
  <2>8. QED
    BY <1>2, <2>2, <2>3, <2>4, <2>5, <2>6, <2>7
<1>24. Total(Joined(g, t, j + 1)) = Total(Joined(f, s, j))
  <2> DEFINE u == Joined(g, t, j + 1)
             w == Joined(f, s, j)
  <2>1. u \in [Node -> Int] /\ w \in [Node -> Int]
    BY <1>22 DEF Joined
  <2>2. /\ \A n \in Node : u[n] = IF n < j + 1 /\ t[n] >= TSIZE THEN g[n] ELSE 0
        /\ \A n \in Node : w[n] = IF n < j /\ s[n] >= TSIZE THEN f[n] ELSE 0
    BY DEF Joined
  <2>3. ASSUME NEW n \in Node
        PROVE  /\ n < k => u[n] = w[n]
               /\ k < n /\ n <= j => u[n] = w[n - 1]
               /\ j < n => u[n] = w[n]
    <3> HIDE DEF u, w
    <3>1. n < k => u[n] = w[n]
      BY <1>23, <2>2
    <3>2. k < n /\ n <= j => u[n] = w[n - 1]
      BY <1>23, <2>2
    <3>3. j < n => u[n] = w[n]
      BY <1>23, <2>2
    <3>4. QED
      BY <3>1, <3>2, <3>3
  <2>4. w[j] = 0 /\ u[k] = 0
    <3>1. ~(j < j) /\ ~(m >= TSIZE)
      BY <1>1
    <3>2. QED
      BY <1>2, <1>6, <1>10, <2>2, <3>1
  <2> HIDE DEF u, w
  <2>5. Total(u) = Total(w) + u[k]
    BY <1>2, <1>5, <2>1, <2>3, <2>4, Inserted
  <2>6. Total(w) \in Int
    BY <2>1, TotalType
  <2>7. Total(u) = Total(w)
    BY <2>4, <2>5, <2>6
  <2>8. QED
    BY <2>7 DEF u, w
<1>25. Total(Orphans(g, m + 2, j + 1)) = Total(Orphans(f, m, j))
  <2> DEFINE u == Orphans(g, m + 2, j + 1)
             v == Orphans(f, m + 2, j)
             w == Orphans(f, m, j)
  <2>1. u \in [Node -> Int] /\ v \in [Node -> Int] /\ w \in [Node -> Int]
    BY <1>22 DEF Orphans
  <2>2. /\ \A n \in Node : u[n] = IF m + 2 <= n /\ n < j + 1 THEN g[n] ELSE 0
        /\ \A n \in Node : v[n] = IF m + 2 <= n /\ n < j THEN f[n] ELSE 0
        /\ \A n \in Node : w[n] = IF m <= n /\ n < j THEN f[n] ELSE 0
    BY DEF Orphans
  <2> HIDE DEF u, v, w
  <2>3. ASSUME NEW n \in Node
        PROVE  /\ n < k => u[n] = v[n]
               /\ k < n /\ n <= j => u[n] = v[n - 1]
               /\ j < n => u[n] = v[n]
    <3>1. n < k => u[n] = v[n]
      BY <1>23, <2>2
    <3>2. k < n /\ n <= j => u[n] = v[n - 1]
      BY <1>23, <2>2
    <3>3. j < n => u[n] = v[n]
      BY <1>23, <2>2
    <3>4. QED
      BY <3>1, <3>2, <3>3
  <2>4. v[j] = 0 /\ u[k] = x
    <3>1. ~(j < j) /\ m + 2 <= k /\ k < j + 1
      BY <1>1, <1>6, <1>8
    <3>2. QED
      BY <1>2, <1>6, <1>9, <2>2, <3>1
  <2>5. ASSUME NEW n \in Node, n # m, n # m + 1 PROVE v[n] = w[n]
    <3>1. n \in Nat
      BY <1>2
    <3>2. (m + 2 <= n <=> m <= n)
      BY <1>1, <2>5, <3>1
    <3>3. QED
      BY <2>2, <3>2
  <2>6. v[m] = 0 /\ v[m + 1] = 0 /\ w[m] = f[m] /\ w[m + 1] = f[m + 1] /\ m # m + 1
    <3>1. ~(m + 2 <= m) /\ ~(m + 2 <= m + 1) /\ m <= m /\ m <= m + 1 /\ m < j /\ m + 1 < j /\ m # m + 1
      BY <1>1
    <3>2. QED
      BY <1>6, <2>2, <3>1
  <2>7. Total(u) = Total(v) + u[k]
    BY <1>2, <1>5, <2>1, <2>3, <2>4, Inserted
  <2>8. Total(v) = Total(w) + (v[m] - w[m]) + (v[m + 1] - w[m + 1])
    BY <1>6, <2>1, <2>5, <2>6, TwoChange
  <2>9. Total(w) \in Int
    BY <2>1, TotalType
  <2>10. Total(u) = Total(w)
    BY <1>4, <1>7, <2>4, <2>6, <2>7, <2>8, <2>9
  <2>11. QED
    BY <2>10 DEF u, w
<1>26. j + 1 \in N_CHAR .. TSIZE /\ m + 2 = 2 * ((j + 1) - N_CHAR)
  BY <1>1
<1>27. QED
  <2>1. 2 * Total(Joined(g, t, j + 1)) <= MAX_FREQ + N_CHAR
    BY <1>3, <1>24
  <2>2. Total(Orphans(g, m + 2, j + 1)) = Total(Joined(g, t, j + 1))
    BY <1>3, <1>24, <1>25
  <2>3. PICK r, q : r = j + 1 /\ q = m + 2
    OBVIOUS
  <2>4. /\ r \in N_CHAR .. TSIZE /\ q = 2 * (r - N_CHAR) /\ Grown(t, r - N_CHAR, r)
        /\ 2 * Total(Joined(g, t, r)) <= MAX_FREQ + N_CHAR
        /\ Total(Orphans(g, q, r)) = Total(Joined(g, t, r))
    BY <1>19, <1>26, <2>1, <2>2, <2>3
  <2>5. \A n \in 0 .. r - 1 : 0 < g[n] /\ (t[n] < TSIZE => g[t[n]] + g[t[n] + 1] = g[n])
    BY <1>20, <2>3
  <2>6. \A n \in 0 .. r - 2 : g[n] <= g[n + 1]
    BY <1>21, <2>3
  <2>7. Joining(g, t, q, r)
    BY <1>11, <2>4, <2>5, <2>6 DEF Joining
  <2>8. QED
    BY <2>3, <2>7

-----------------------------------------------------------------------------
(* The tree that has been made.                                            *)

Places == 0 .. TSIZE + N_CHAR - 1

IsChild(s, n, q) == s[q] = n \/ (s[q] = n - 1 /\ n <= ROOT)

\* All nodes but the root have one parent.
LEMMA GrownParent ==
    ASSUME NEW s, Grown(s, N_CHAR - 1, TSIZE), NEW n \in Places \ {ROOT}
    PROVE  \E q \in Node : IsChild(s, n, q) /\ \A r \in Node : IsChild(s, n, r) => r = q
<1>1. /\ N_CHAR \in Nat /\ 1 < N_CHAR /\ TSIZE = 2 * N_CHAR - 1 /\ ROOT = 2 * N_CHAR - 2
      /\ TSIZE \in Nat /\ ROOT \in Nat /\ n \in Nat /\ n <= TSIZE + N_CHAR - 1
  BY TreeSizes DEF Places
<1>2. \A q : q \in Node <=> q \in 0 .. TSIZE - 1
  BY <1>1 DEF Node
<1>3. /\ \A q \in Node : \/ s[q] \in Leaves
                         \/ \E e \in 0 .. (N_CHAR - 1) - 1 : s[q] = 2 * e
      /\ \A q, r \in Node : s[q] = s[r] => q = r
      /\ \A l \in Leaves : \E q \in Node : s[q] = l
      /\ \A e \in 0 .. (N_CHAR - 1) - 1 : \E q \in Node : s[q] = 2 * e
  BY <1>2 DEF Grown
<1>4. CASE n >= TSIZE
  <2>1. n \in Leaves /\ ~(n <= ROOT)
    BY <1>1, <1>4 DEF Leaves
  <2>2. PICK q \in Node : s[q] = n
    BY <1>3, <2>1
  <2>3. QED
    BY <1>3, <2>1, <2>2 DEF IsChild
<1>5. CASE ~(n >= TSIZE)
  <2>1. PICK e \in 0 .. (N_CHAR - 1) - 1 : n = 2 * e \/ n = 2 * e + 1
    <3>1. n < 2 * (N_CHAR - 1)
      BY <1>1, <1>5
    <3>2. PICK e \in Nat : n = 2 * e \/ n = 2 * e + 1
      <4>1. n \div 2 \in Nat /\ (n = 2 * (n \div 2) \/ n = 2 * (n \div 2) + 1)
        BY <1>1
      <4>2. QED
        BY <4>1
    <3>3. e \in 0 .. (N_CHAR - 1) - 1
      BY <1>1, <3>1, <3>2
    <3>4. QED
      BY <3>2, <3>3
  <2>2. PICK q \in Node : s[q] = 2 * e
    BY <1>3
  <2>3. n <= ROOT
    BY <1>1, <1>5
  <2>4. IsChild(s, n, q)
    BY <1>1, <2>1, <2>2, <2>3 DEF IsChild
  <2>5. ASSUME NEW r \in Node, IsChild(s, n, r) PROVE r = q
    <3>1. s[r] = n \/ s[r] = n - 1
      BY <2>5 DEF IsChild
    <3>2. s[r] \notin Leaves
      <4>1. s[r] < TSIZE
        BY <1>1, <1>5, <3>1
      <4>2. QED
        BY <1>1, <4>1 DEF Leaves
    <3>3. PICK d \in 0 .. (N_CHAR - 1) - 1 : s[r] = 2 * d
      BY <1>3, <3>2
    <3>4. d = e
      BY <1>1, <2>1, <3>1, <3>3
    <3>5. QED
      BY <1>3, <2>2, <3>3, <3>4
  <2>6. QED
    BY <2>4, <2>5
<1>6. QED
  BY <1>4, <1>5

LEMMA GrownLinked ==
    ASSUME NEW s, Grown(s, N_CHAR - 1, TSIZE)
    PROVE  TreeLinked(s, Parents(s))
<1>1. /\ N_CHAR \in Nat /\ 1 < N_CHAR /\ TSIZE = 2 * N_CHAR - 1 /\ ROOT = TSIZE - 1
      /\ TSIZE \in Nat /\ ROOT \in Nat /\ ROOT \in Node /\ 0 \in Node
  BY TreeSizes DEF Node
<1>2. /\ s \in [Node -> Nat]
      /\ \A q \in Node : \/ s[q] \in Leaves
                         \/ s[q] + 1 < q /\ s[q] \in Nat
  <2>1. \A q : q \in Node <=> q \in 0 .. TSIZE - 1
    BY <1>1 DEF Node
  <2>2. s \in [Node -> Nat]
    BY DEF Grown
  <2>3. QED
    BY <2>1, <2>2 DEF Grown
<1> DEFINE p == Parents(s)
<1>3. p = [n \in Places |-> IF n = ROOT THEN 0 ELSE CHOOSE q \in Node : IsChild(s, n, q)]
  BY DEF Parents, IsChild, Places
<1> HIDE DEF p
<1>4. ASSUME NEW n \in Places \ {ROOT}
      PROVE  p[n] \in Node /\ IsChild(s, n, p[n]) /\ \A q \in Node : IsChild(s, n, q) => p[n] = q
  <2>1. PICK q \in Node : IsChild(s, n, q) /\ \A r \in Node : IsChild(s, n, r) => r = q
    BY GrownParent
  <2>2. p[n] = CHOOSE r \in Node : IsChild(s, n, r)
    BY <1>3
  <2>3. p[n] = q
    BY <2>1, <2>2
  <2>4. QED
    BY <2>1, <2>3
<1>5. p[ROOT] = 0 /\ ROOT \in Places
  <2>1. ROOT \in Places
    BY <1>1 DEF Places
  <2>2. QED
    BY <1>3, <2>1
<1>6. p \in [Places -> Node]
  <2>1. \A n \in Places : p[n] \in Node
    BY <1>1, <1>4, <1>5
  <2>2. p = [n \in Places |-> p[n]]
    BY <1>3
  <2>3. QED
    BY <2>1, <2>2
<1>7. ASSUME NEW n \in Node
      PROVE  IF s[n] >= TSIZE THEN s[n] \in Leaves /\ p[s[n]] = n
             ELSE s[n] + 1 < n /\ p[s[n]] = n /\ p[s[n] + 1] = n
  <2>1. n \in Nat /\ n < TSIZE
    BY NodeFacts
  <2>2. CASE s[n] \in Leaves
    <3>1. s[n] >= TSIZE /\ s[n] \in Places \ {ROOT}
      BY <1>1, <2>2 DEF Leaves, Places
    <3>2. IsChild(s, s[n], n)
      BY DEF IsChild
    <3>3. p[s[n]] = n
      BY <1>4, <3>1, <3>2
    <3>4. QED
      BY <2>2, <3>1, <3>3
  <2>3. CASE s[n] + 1 < n /\ s[n] \in Nat
    <3>1. PICK a \in Nat : a = s[n]
      BY <2>3
    <3>2. /\ ~(a >= TSIZE) /\ a \in Places \ {ROOT} /\ a + 1 \in Places \ {ROOT}
          /\ a + 1 <= ROOT /\ (a + 1) - 1 = a
      BY <1>1, <2>1, <2>3, <3>1 DEF Places
    <3>3. IsChild(s, a, n) /\ IsChild(s, a + 1, n)
      BY <3>1, <3>2 DEF IsChild
    <3>4. p[a] = n /\ p[a + 1] = n
      BY <1>4, <3>2, <3>3
    <3>5. QED
      BY <2>3, <3>1, <3>2, <3>4
  <2>4. QED
    BY <1>2, <2>2, <2>3
<1>8. ASSUME NEW n \in Node \ {ROOT} PROVE s[p[n]] \in {n - 1, n}
  <2>1. n \in Places
    BY NodeFacts DEF Places
  <2>2. QED
    BY <1>4, <2>1 DEF IsChild
<1>9. ASSUME NEW l \in Leaves PROVE s[p[l]] = l
  <2>1. l \in Places /\ l # ROOT /\ ~(l <= ROOT)
    BY <1>1 DEF Places, Leaves
  <2>2. QED
    BY <1>4, <2>1 DEF IsChild
<1>10. TreeLinked(s, p)
  BY <1>2, <1>5, <1>6, <1>7, <1>8, <1>9 DEF TreeLinked, Places
<1>11. QED
  BY <1>10 DEF p

LEMMA TotalOne ==
    ASSUME NEW w \in [Node -> Int], NEW a \in Node, \A n \in Node \ {a} : w[n] = 0
    PROVE  Total(w) = w[a]
<1> DEFINE z == [n \in Node |-> 0]
<1>1. z \in [Node -> Int] /\ \A n \in Node : z[n] = 2 * z[n]
  OBVIOUS
<1>2. z[a] = 0 /\ \A n \in Node \ {a} : w[n] = z[n]
  OBVIOUS
<1> HIDE DEF z
<1>3. Total(z) = 2 * Total(z) /\ Total(z) \in Int
  BY <1>1, TotalDouble
<1>4. Total(w) = Total(z) + (w[a] - z[a])
  BY <1>1, <1>2, OneChange
<1>5. QED
  BY <1>2, <1>3, <1>4

\* All nodes but the root have a parent: the leaves weigh as much as the root.
LEMMA JoiningEnds ==
    ASSUME NEW f, NEW s, NEW m, NEW j, Joining(f, s, m, j), j = TSIZE
    PROVE  IsTree(f, s, Parents(s), TSIZE) /\ f[ROOT] < MAX_FREQ
<1>1. /\ j \in Nat /\ N_CHAR \in Nat /\ m = 2 * (j - N_CHAR)
      /\ TSIZE \in Nat /\ TSIZE = 2 * N_CHAR - 1 /\ ROOT = TSIZE - 1 /\ N_CHAR > 1
      /\ MAX_FREQ \in Nat /\ N_CHAR < MAX_FREQ
  BY JoiningTypes
<1>2. /\ FreqType(f) /\ Grown(s, j - N_CHAR, j) /\ f[TSIZE] = 2 * MAX_FREQ - 1
      /\ \A n \in Node : f[n] \in Nat /\ n \in Nat /\ s[n] \in Nat
  BY JoiningTypes, TreeSizes
<1>3. /\ \A n \in 0 .. j - 1 : 0 < f[n] /\ (s[n] < TSIZE => f[s[n]] + f[s[n] + 1] = f[n])
      /\ \A n \in 0 .. j - 2 : f[n] <= f[n + 1]
      /\ 2 * Total(Joined(f, s, j)) <= MAX_FREQ + N_CHAR
      /\ Total(Orphans(f, m, j)) = Total(Joined(f, s, j))
  BY DEF Joining
<1>4. j - N_CHAR = N_CHAR - 1 /\ m = ROOT
  BY <1>1
<1>5. TreeLinked(s, Parents(s))
  BY <1>2, <1>4, GrownLinked
<1>6. Total(Orphans(f, m, j)) = f[ROOT] /\ f[ROOT] \in Nat
  <2> DEFINE w == Orphans(f, m, j)
  <2>1. w \in [Node -> Int]
    BY <1>2 DEF Orphans
  <2>2. ROOT \in Node /\ \A n \in Node \ {ROOT} : ~(ROOT <= n)
    BY <1>1, NodeFacts DEF Node
  <2>3. ROOT <= ROOT /\ ROOT < j
    BY <1>1
  <2>4. w[ROOT] = f[ROOT] /\ \A n \in Node \ {ROOT} : w[n] = 0
    BY <1>4, <2>2, <2>3 DEF Orphans
  <2> HIDE DEF w
  <2>5. Total(w) = f[ROOT]
    BY <2>1, <2>2, <2>4, TotalOne
  <2>6. QED
    BY <1>2, <2>2, <2>5 DEF w
<1>7. Joined(f, s, j) = LeafWeights(f, s)
  <2>1. \A n \in Node : n < j
    BY NodeFacts
  <2>2. QED
    BY <2>1 DEF Joined, LeafWeights
<1>8. f[ROOT] < MAX_FREQ /\ Total(LeafWeights(f, s)) = f[ROOT] + 0
  BY <1>1, <1>3, <1>6, <1>7
<1>9. TreeSorted(f)
  <2> SUFFICES ASSUME NEW n \in Node PROVE 0 < f[n] /\ f[n] <= f[n + 1]
    BY DEF TreeSorted
  <2>1. n \in 0 .. j - 1 /\ (n # ROOT => n \in 0 .. j - 2)
    BY <1>1 DEF Node
  <2>2. CASE n = ROOT
    <3>1. f[n + 1] = 2 * MAX_FREQ - 1
      BY <1>1, <1>2, <2>2
    <3>2. f[ROOT] <= 2 * MAX_FREQ - 1
      BY <1>1, <1>6, <1>8
    <3>3. QED
      BY <1>3, <2>1, <2>2, <3>1, <3>2
  <2>3. CASE n # ROOT
    BY <1>3, <2>1, <2>3
  <2>4. QED
    BY <2>2, <2>3
<1>10. TreeSums(f, s, TSIZE)
  <2> SUFFICES ASSUME NEW n \in Node, s[n] < TSIZE
               PROVE  f[s[n]] + f[s[n] + 1] = f[n] + (IF n = TSIZE THEN 1 ELSE 0)
    BY DEF TreeSums
  <2>1. n \in 0 .. j - 1 /\ n # TSIZE
    BY <1>1 DEF Node
  <2>2. f[n] \in Nat
    BY <1>2
  <2>3. QED
    BY <1>3, <2>1, <2>2
<1>11. QED
  BY <1>2, <1>5, <1>8, <1>9, <1>10 DEF IsTree

-----------------------------------------------------------------------------
(* The first tree.                                                         *)

LEMMA InitFreqDef ==
    InitFreq = [n \in Node |-> IF n < N_CHAR THEN 1
                               ELSE InitFreq[2 * (n - N_CHAR)] + InitFreq[2 * (n - N_CHAR) + 1]]
<1>1. /\ N_CHAR \in Nat /\ 1 < N_CHAR /\ ROOT = 2 * N_CHAR - 2 /\ ROOT \in Nat
  BY TreeSizes
<1> DEFINE Value1(f, n) == IF n < N_CHAR THEN 1
                           ELSE f[2 * (n - N_CHAR)] + f[2 * (n - N_CHAR) + 1]
           Is(f, m) == f = [n \in 0 .. m |-> Value1(f, n)]
           S == {m \in Nat : \E f : Is(f, m)}
<1>2. 0 \in S
  <2>1. Is([n \in 0 .. 0 |-> 1], 0)
    <3>1. \A n \in 0 .. 0 : n < N_CHAR
      BY <1>1
    <3>2. QED
      BY <3>1
  <2> HIDE DEF Is
  <2>2. QED
    BY <2>1
<1>3. ASSUME NEW m \in 0 .. ROOT - 1, m \in S PROVE m + 1 \in S
  <2>1. PICK f : Is(f, m)
    BY <1>3
  <2>2. m \in Nat /\ m + 1 \in Nat /\ m + 1 <= ROOT
    BY <1>1
  <2> DEFINE g == [n \in 0 .. m + 1 |-> IF n = m + 1 THEN Value1(f, n) ELSE f[n]]
  <2>3. \A n \in 0 .. m : f[n] = Value1(f, n)
    <3> HIDE DEF Value1
    <3>1. QED
      BY <2>1
  <2>4. ASSUME NEW n \in 0 .. m + 1, ~(n < N_CHAR)
        PROVE  /\ g[2 * (n - N_CHAR)] = f[2 * (n - N_CHAR)]
               /\ g[2 * (n - N_CHAR) + 1] = f[2 * (n - N_CHAR) + 1]
    <3>1. PICK a \in Nat : a = 2 * (n - N_CHAR)
      BY <1>1, <2>2, <2>4
    <3>2. a + 1 < n
      BY <1>1, <2>2, <2>4, <3>1
    <3>3. a \in 0 .. m + 1 /\ a + 1 \in 0 .. m + 1 /\ a # m + 1 /\ a + 1 # m + 1
      BY <2>2, <3>2
    <3>4. g[a] = f[a] /\ g[a + 1] = f[a + 1]
      <4> HIDE DEF Value1
      <4>1. QED
        BY <3>3
    <3>5. QED
      BY <3>1, <3>4
  <2>5. ASSUME NEW n \in 0 .. m + 1 PROVE Value1(g, n) = Value1(f, n)
    <3> HIDE DEF g
    <3>1. QED
      BY <2>4
  <2>6. ASSUME NEW n \in 0 .. m + 1 PROVE g[n] = Value1(f, n)
    <3> HIDE DEF Value1
    <3>1. n = m + 1 \/ n \in 0 .. m
      BY <2>2
    <3>2. QED
      BY <2>3, <3>1
  <2>7. Is(g, m + 1)
    <3>1. g = [n \in 0 .. m + 1 |-> g[n]]
      OBVIOUS
    <3>2. \A n \in 0 .. m + 1 : g[n] = Value1(g, n)
      <4> HIDE DEF g, Value1
      <4>1. QED
        BY <2>5, <2>6
    <3> HIDE DEF g, Value1
    <3>3. QED
      BY <3>1, <3>2
  <2> HIDE DEF Is, g
  <2>8. QED
    BY <2>2, <2>7
<1>4. ROOT \in S
  <2> HIDE DEF S
  <2>1. ROOT \in 0 .. ROOT
    BY <1>1
  <2>2. QED
    BY <1>1, <1>2, <1>3, <2>1, InductionUpTo
<1>5. PICK f : Is(f, ROOT)
  BY <1>4
<1>6. InitFreq = CHOOSE h : Is(h, ROOT)
  BY DEF InitFreq, Node
<1> HIDE DEF Is
<1>7. Is(InitFreq, ROOT)
  BY <1>5, <1>6
<1>8. QED
  BY <1>7 DEF Is, Node

\* What node n is made of.
LEMMA InitFreqAt ==
    ASSUME NEW n \in Node
    PROVE  /\ n < N_CHAR => InitFreq[n] = 1
           /\ ~(n < N_CHAR) =>
                 \E a \in Nat : /\ a = 2 * (n - N_CHAR) /\ a + 1 < n
                                /\ a \in Node /\ a + 1 \in Node
                                /\ InitFreq[n] = InitFreq[a] + InitFreq[a + 1]
<1>1. InitFreq[n] = IF n < N_CHAR THEN 1
                    ELSE InitFreq[2 * (n - N_CHAR)] + InitFreq[2 * (n - N_CHAR) + 1]
  BY InitFreqDef
<1>2. N_CHAR \in Nat /\ 1 < N_CHAR /\ ROOT = 2 * N_CHAR - 2 /\ n \in Nat /\ n <= ROOT
  BY TreeSizes DEF Node
<1>3. ASSUME ~(n < N_CHAR)
      PROVE  \E a \in Nat : /\ a = 2 * (n - N_CHAR) /\ a + 1 < n
                            /\ a \in Node /\ a + 1 \in Node
                            /\ InitFreq[n] = InitFreq[a] + InitFreq[a + 1]
  <2>1. PICK a \in Nat : a = 2 * (n - N_CHAR)
    BY <1>2, <1>3
  <2>2. a + 1 < n
    BY <1>2, <1>3, <2>1
  <2>3. a \in Node /\ a + 1 \in Node
    BY <1>2, <2>2 DEF Node
  <2>4. InitFreq[n] = InitFreq[a] + InitFreq[a + 1]
    BY <1>1, <1>3, <2>1
  <2>5. QED
    BY <2>1, <2>2, <2>3, <2>4
<1>4. QED
  BY <1>1, <1>3

LEMMA InitFreqType == \A n \in Node : InitFreq[n] \in Nat /\ 0 < InitFreq[n]
<1> DEFINE Good(n) == n \in Node => InitFreq[n] \in Nat /\ 0 < InitFreq[n]
           S == {m \in Nat : \A n \in 0 .. m : Good(n)}
<1>1. N_CHAR \in Nat /\ 1 < N_CHAR /\ ROOT \in Nat
  BY TreeSizes
<1>2. ASSUME NEW n \in Node, \A k \in 0 .. n - 1 : Good(k) PROVE Good(n)
  <2>1. CASE n < N_CHAR
    BY <2>1, InitFreqAt
  <2>2. CASE ~(n < N_CHAR)
    <3>1. PICK a \in Nat : /\ a + 1 < n /\ a \in Node /\ a + 1 \in Node
                           /\ InitFreq[n] = InitFreq[a] + InitFreq[a + 1]
      BY <2>2, InitFreqAt
    <3>2. a \in 0 .. n - 1 /\ a + 1 \in 0 .. n - 1
      BY <3>1, NodeFacts
    <3>3. Good(a) /\ Good(a + 1)
      BY <1>2, <3>2
    <3>4. QED
      BY <3>1, <3>3
  <2>3. QED
    BY <2>1, <2>2
<1> HIDE DEF Good
<1>3. 0 \in Node /\ \A m \in 0 .. ROOT - 1 : m + 1 \in Node
  BY <1>1 DEF Node
<1>4. 0 \in S
  <2>1. Good(0)
    BY <1>2, <1>3
  <2>2. QED
    BY <2>1
<1>5. ASSUME NEW m \in 0 .. ROOT - 1, m \in S PROVE m + 1 \in S
  <2>1. Good(m + 1)
    <3>1. 0 .. (m + 1) - 1 = 0 .. m
      OBVIOUS
    <3>2. QED
      BY <1>2, <1>3, <1>5, <3>1
  <2>2. ASSUME NEW n \in 0 .. m + 1 PROVE n \in 0 .. m \/ n = m + 1
    OBVIOUS
  <2>3. QED
    BY <1>5, <2>1, <2>2
<1> HIDE DEF S
<1>6. \A m \in 0 .. ROOT : m \in S
  BY <1>1, <1>4, <1>5, InductionUpTo
<1>7. ASSUME NEW n \in Node PROVE Good(n)
  <2>1. n \in S /\ n \in 0 .. n
    BY <1>6, NodeFacts DEF Node
  <2>2. QED
    BY <2>1 DEF S
<1>8. QED
  BY <1>7 DEF Good

LEMMA InitFreqSorted == \A n \in Node : n # ROOT => InitFreq[n] <= InitFreq[n + 1]
<1> DEFINE Good(n) == n \in Node /\ n # ROOT => InitFreq[n] <= InitFreq[n + 1]
           S == {m \in Nat : \A n \in 0 .. m : Good(n)}
<1>1. N_CHAR \in Nat /\ 1 < N_CHAR /\ ROOT \in Nat /\ ROOT = 2 * N_CHAR - 2
  BY TreeSizes
<1>2. ASSUME NEW n \in Node, \A k \in 0 .. n - 1 : Good(k) PROVE Good(n)
  <2> SUFFICES ASSUME n # ROOT PROVE InitFreq[n] <= InitFreq[n + 1]
    OBVIOUS
  <2>1. n \in Nat /\ n + 1 \in Node /\ n <= ROOT
    BY NodeFacts DEF Node
  <2>2. InitFreq[n] \in Nat /\ InitFreq[n + 1] \in Nat /\ InitFreq[n] > 0 /\ InitFreq[n + 1] > 0
    BY <2>1, InitFreqType
  <2>3. CASE n < N_CHAR
    <3>1. InitFreq[n] = 1
      BY <2>3, InitFreqAt
    <3>2. QED
      BY <2>2, <3>1
  <2>4. CASE ~(n < N_CHAR)
    <3>1. PICK a \in Nat : /\ a = 2 * (n - N_CHAR) /\ a + 1 < n /\ a \in Node /\ a + 1 \in Node
                           /\ InitFreq[n] = InitFreq[a] + InitFreq[a + 1]
      BY <2>4, InitFreqAt
    <3>2. ~(n + 1 < N_CHAR)
      BY <1>1, <2>1, <2>4
    <3>3. PICK b \in Nat : /\ b = 2 * ((n + 1) - N_CHAR) /\ b + 1 < n + 1 /\ b \in Node
                           /\ b + 1 \in Node
                           /\ InitFreq[n + 1] = InitFreq[b] + InitFreq[b + 1]
      BY <2>1, <3>2, InitFreqAt
    <3>4. b = a + 2 /\ b = (a + 1) + 1 /\ a + 2 < n
      BY <1>1, <2>1, <3>1, <3>3
    <3>5. /\ a \in 0 .. n - 1 /\ a + 1 \in 0 .. n - 1 /\ b \in 0 .. n - 1
          /\ a # ROOT /\ a + 1 # ROOT /\ b # ROOT
      BY <1>1, <2>1, <3>4
    <3>6. Good(a) /\ Good(a + 1) /\ Good(b)
      BY <1>2, <3>5
    <3>7. /\ InitFreq[a] <= InitFreq[a + 1] /\ InitFreq[a + 1] <= InitFreq[b]
          /\ InitFreq[b] <= InitFreq[b + 1]
      BY <3>1, <3>3, <3>4, <3>5, <3>6
    <3>8. /\ InitFreq[a] \in Nat /\ InitFreq[a + 1] \in Nat
          /\ InitFreq[b] \in Nat /\ InitFreq[b + 1] \in Nat
      BY <3>1, <3>3, InitFreqType
    <3>9. QED
      BY <3>1, <3>3, <3>7, <3>8
  <2>5. QED
    BY <2>3, <2>4
<1> HIDE DEF Good
<1>3. 0 \in Node /\ \A m \in 0 .. ROOT - 1 : m + 1 \in Node
  BY <1>1 DEF Node
<1>4. 0 \in S
  <2>1. Good(0)
    BY <1>2, <1>3
  <2>2. QED
    BY <2>1
<1>5. ASSUME NEW m \in 0 .. ROOT - 1, m \in S PROVE m + 1 \in S
  <2>1. Good(m + 1)
    <3>1. 0 .. (m + 1) - 1 = 0 .. m
      OBVIOUS
    <3>2. QED
      BY <1>2, <1>3, <1>5, <3>1
  <2>2. ASSUME NEW n \in 0 .. m + 1 PROVE n \in 0 .. m \/ n = m + 1
    OBVIOUS
  <2>3. QED
    BY <1>5, <2>1, <2>2
<1> HIDE DEF S
<1>6. \A m \in 0 .. ROOT : m \in S
  BY <1>1, <1>4, <1>5, InductionUpTo
<1>7. ASSUME NEW n \in Node PROVE Good(n)
  <2>1. n \in S /\ n \in 0 .. n
    BY <1>6, NodeFacts DEF Node
  <2>2. QED
    BY <2>1 DEF S
<1>8. QED
  BY <1>7 DEF Good

\* Each node but the root is counted once by its parent: what is below N_CHAR remains.
LEMMA InitFreqRoot == InitFreq[ROOT] = N_CHAR
<1>1. /\ N_CHAR \in Nat /\ 1 < N_CHAR /\ ROOT \in Nat /\ ROOT = 2 * N_CHAR - 2 /\ TSIZE = ROOT + 1
      /\ TSIZE = 2 * N_CHAR - 1 /\ TSIZE \in Nat /\ ROOT \in Node
  BY TreeSizes, NodeFacts
<1>2. PICK w : w = [n \in Node |-> InitFreq[n]]
  OBVIOUS
<1>3. w \in [Node -> Int] /\ \A n \in Node : w[n] = InitFreq[n] /\ w[n] \in Nat
  <2>1. \A n \in Node : InitFreq[n] \in Nat
    BY InitFreqType
  <2>2. \A n \in Node : w[n] = InitFreq[n]
    BY <1>2
  <2>3. w = [n \in Node |-> w[n]]
    BY <1>2
  <2>4. QED
    BY <2>1, <2>2, <2>3
<1> DEFINE S == {n \in Nat : Sum(w)[n] = n}
           T == {k \in Nat : Sum(w)[N_CHAR + k] = Sum(w)[2 * k] + N_CHAR}
<1>4. Sum(w)[0] = 0 /\ \A n \in Node : Sum(w)[n + 1] = Sum(w)[n] + w[n]
  BY SumAt
<1>5. \A n \in 0 .. TSIZE : Sum(w)[n] \in Int
  BY <1>3, SumType
<1>6. N_CHAR \in S
  <2>1. 0 \in S
    BY <1>4
  <2>2. ASSUME NEW n \in 0 .. N_CHAR - 1, n \in S PROVE n + 1 \in S
    <3>1. n \in Node /\ n < N_CHAR /\ n \in Nat
      BY <1>1 DEF Node
    <3>2. w[n] = 1
      BY <1>3, <3>1, InitFreqAt
    <3>3. Sum(w)[n + 1] = n + 1
      BY <1>4, <2>2, <3>1, <3>2
    <3>4. QED
      BY <3>1, <3>3
  <2> HIDE DEF S
  <2>3. N_CHAR \in 0 .. N_CHAR
    BY <1>1
  <2>4. QED
    BY <1>1, <2>1, <2>2, <2>3, InductionUpTo
<1>7. N_CHAR - 1 \in T
  <2>1. 0 \in T
    BY <1>1, <1>4, <1>6
  <2>2. ASSUME NEW k \in 0 .. (N_CHAR - 1) - 1, k \in T PROVE k + 1 \in T
    <3>1. PICK n \in Nat : n = N_CHAR + k
      BY <1>1
    <3>2. n \in Node /\ ~(n < N_CHAR) /\ k \in Nat /\ n \in 0 .. TSIZE
      BY <1>1, <3>1 DEF Node
    <3>3. PICK a \in Nat : /\ a = 2 * (n - N_CHAR) /\ a \in Node /\ a + 1 \in Node
                           /\ InitFreq[n] = InitFreq[a] + InitFreq[a + 1]
      BY <3>2, InitFreqAt
    <3>4. a = 2 * k /\ (a + 1) + 1 = 2 * (k + 1) /\ N_CHAR + (k + 1) = n + 1
      BY <1>1, <3>1, <3>2, <3>3
    <3>5. /\ Sum(w)[n + 1] = Sum(w)[n] + w[n]
          /\ Sum(w)[a + 1] = Sum(w)[a] + w[a]
          /\ Sum(w)[(a + 1) + 1] = Sum(w)[a + 1] + w[a + 1]
          /\ Sum(w)[n] = Sum(w)[a] + N_CHAR
      <4>1. Sum(w)[N_CHAR + k] = Sum(w)[2 * k] + N_CHAR
        BY <2>2
      <4>2. Sum(w)[n] = Sum(w)[a] + N_CHAR
        BY <3>1, <3>4, <4>1
      <4>3. Sum(w)[n + 1] = Sum(w)[n] + w[n]
        BY <1>4, <3>2
      <4>4. Sum(w)[a + 1] = Sum(w)[a] + w[a]
        BY <1>4, <3>3
      <4>5. Sum(w)[(a + 1) + 1] = Sum(w)[a + 1] + w[a + 1]
        BY <1>4, <3>3
      <4>6. QED
        BY <4>2, <4>3, <4>4, <4>5
    <3>6. w[n] = w[a] + w[a + 1] /\ w[a] \in Nat /\ w[a + 1] \in Nat
      BY <1>3, <3>2, <3>3
    <3>7. Sum(w)[a] \in Int /\ Sum(w)[a + 1] \in Int /\ Sum(w)[n] \in Int
      <4>1. a \in 0 .. TSIZE /\ a + 1 \in 0 .. TSIZE
        BY <3>3, NodeFacts
      <4>2. QED
        BY <1>5, <3>2, <4>1
    <3>8. Sum(w)[n + 1] = Sum(w)[(a + 1) + 1] + N_CHAR
      BY <1>1, <3>5, <3>6, <3>7
    <3>9. Sum(w)[N_CHAR + (k + 1)] = Sum(w)[2 * (k + 1)] + N_CHAR
      BY <3>4, <3>8
    <3>10. QED
      BY <3>2, <3>9
  <2> HIDE DEF T
  <2>3. N_CHAR - 1 \in 0 .. N_CHAR - 1 /\ N_CHAR - 1 \in Nat
    BY <1>1
  <2>4. QED
    BY <2>1, <2>2, <2>3, InductionUpTo
<1>8. N_CHAR + (N_CHAR - 1) = ROOT + 1 /\ 2 * (N_CHAR - 1) = ROOT
  BY <1>1
<1>9. Sum(w)[ROOT + 1] = Sum(w)[ROOT] + N_CHAR
  <2>1. Sum(w)[N_CHAR + (N_CHAR - 1)] = Sum(w)[2 * (N_CHAR - 1)] + N_CHAR
    BY <1>7
  <2>2. QED
    BY <1>8, <2>1
<1>10. Sum(w)[ROOT + 1] = Sum(w)[ROOT] + w[ROOT] /\ w[ROOT] = InitFreq[ROOT] /\ w[ROOT] \in Nat
  BY <1>1, <1>3, <1>4
<1>11. Sum(w)[ROOT] \in Int
  BY <1>1, <1>5
<1>12. QED
  BY <1>1, <1>9, <1>10, <1>11

LEMMA InitGrown == Grown(InitSon, N_CHAR - 1, TSIZE)
<1>1. /\ N_CHAR \in Nat /\ 1 < N_CHAR /\ ROOT = 2 * N_CHAR - 2 /\ TSIZE = 2 * N_CHAR - 1
      /\ TSIZE \in Nat
  BY TreeSizes
<1>2. \A n : n \in Node <=> n \in 0 .. TSIZE - 1
  BY <1>1 DEF Node
<1>3. ASSUME NEW n \in Node
      PROVE  /\ n \in Nat /\ n <= ROOT
             /\ n < N_CHAR => InitSon[n] = n + TSIZE /\ n + TSIZE \in Leaves
             /\ ~(n < N_CHAR) => /\ InitSon[n] = 2 * (n - N_CHAR) /\ InitSon[n] + 1 < n
                                 /\ InitSon[n] \in Nat
                                 /\ n - N_CHAR \in 0 .. (N_CHAR - 1) - 1
  <2>1. n \in Nat /\ n <= ROOT
    BY <1>1 DEF Node
  <2>2. InitSon[n] = IF n < N_CHAR THEN n + TSIZE ELSE 2 * (n - N_CHAR)
    BY DEF InitSon
  <2>3. n < N_CHAR => n + TSIZE \in Leaves
    BY <1>1, <2>1 DEF Leaves
  <2>4. ~(n < N_CHAR) => /\ 2 * (n - N_CHAR) + 1 < n /\ 2 * (n - N_CHAR) \in Nat
                         /\ n - N_CHAR \in 0 .. (N_CHAR - 1) - 1
    BY <1>1, <2>1
  <2>5. QED
    BY <2>1, <2>2, <2>3, <2>4
<1>4. InitSon \in [Node -> Nat]
  <2>1. ASSUME NEW n \in Node PROVE InitSon[n] \in Nat
    <3>1. CASE n < N_CHAR
      BY <1>1, <1>3, <3>1
    <3>2. CASE ~(n < N_CHAR)
      BY <1>3, <3>2
    <3>3. QED
      BY <3>1, <3>2
  <2>2. InitSon = [n \in Node |-> InitSon[n]]
    BY DEF InitSon
  <2>3. QED
    BY <2>1, <2>2
<1>5. ASSUME NEW n \in 0 .. TSIZE - 1
      PROVE  \/ InitSon[n] \in Leaves
             \/ InitSon[n] + 1 < n /\ \E e \in 0 .. (N_CHAR - 1) - 1 : InitSon[n] = 2 * e
  <2>1. CASE n < N_CHAR
    BY <1>2, <1>3, <2>1
  <2>2. CASE ~(n < N_CHAR)
    BY <1>2, <1>3, <2>2
  <2>3. QED
    BY <2>1, <2>2
<1>6. ASSUME NEW n \in 0 .. TSIZE - 1, NEW k \in 0 .. TSIZE - 1, InitSon[n] = InitSon[k]
      PROVE  n = k
  <2>1. n \in Node /\ k \in Node
    BY <1>2
  <2>2. CASE n < N_CHAR /\ k < N_CHAR
    <3>1. InitSon[n] = n + TSIZE /\ InitSon[k] = k + TSIZE
      BY <1>3, <2>1, <2>2
    <3>2. n \in Nat /\ k \in Nat /\ TSIZE \in Nat
      BY <1>1, <1>3, <2>1
    <3>3. n + TSIZE = k + TSIZE
      BY <1>6, <3>1
    <3>4. QED
      BY <3>2, <3>3
  <2>3. CASE ~(n < N_CHAR) /\ ~(k < N_CHAR)
    <3>1. InitSon[n] = 2 * (n - N_CHAR) /\ InitSon[k] = 2 * (k - N_CHAR)
      BY <1>3, <2>1, <2>3
    <3>2. n \in Nat /\ k \in Nat /\ N_CHAR \in Nat
      BY <1>1, <1>3, <2>1
    <3>3. 2 * (n - N_CHAR) = 2 * (k - N_CHAR)
      BY <1>6, <3>1
    <3>4. QED
      BY <3>2, <3>3
  <2>4. CASE n < N_CHAR /\ ~(k < N_CHAR)
    <3>1. InitSon[n] = n + TSIZE /\ InitSon[k] + 1 < k /\ k < TSIZE /\ InitSon[k] \in Nat
      BY <1>1, <1>3, <2>1, <2>4
    <3>2. n \in Nat /\ k \in Nat /\ TSIZE \in Nat
      BY <1>1
    <3>3. (n + TSIZE) + 1 < k
      BY <1>6, <3>1
    <3>4. QED
      BY <3>1, <3>2, <3>3
  <2>5. CASE ~(n < N_CHAR) /\ k < N_CHAR
    <3>1. InitSon[k] = k + TSIZE /\ InitSon[n] + 1 < n /\ n < TSIZE /\ InitSon[n] \in Nat
      BY <1>1, <1>3, <2>1, <2>5
    <3>2. (k + TSIZE) + 1 < n /\ k \in Nat /\ n \in Nat
      BY <1>3, <1>6, <2>1, <3>1
    <3>3. QED
      BY <1>1, <3>1, <3>2
  <2>6. QED
    BY <2>2, <2>3, <2>4, <2>5
<1>7. ASSUME NEW l \in Leaves PROVE \E n \in 0 .. TSIZE - 1 : InitSon[n] = l
  <2>1. l - TSIZE \in Node /\ l - TSIZE < N_CHAR /\ (l - TSIZE) + TSIZE = l
    BY <1>1 DEF Leaves, Node
  <2>2. InitSon[l - TSIZE] = l
    BY <1>3, <2>1
  <2>3. QED
    BY <1>2, <2>1, <2>2
<1>8. ASSUME NEW e \in 0 .. (N_CHAR - 1) - 1 PROVE \E n \in 0 .. TSIZE - 1 : InitSon[n] = 2 * e
  <2>1. e + N_CHAR \in Node /\ ~(e + N_CHAR < N_CHAR) /\ (e + N_CHAR) - N_CHAR = e
    BY <1>1 DEF Node
  <2>2. InitSon[e + N_CHAR] = 2 * e
    BY <1>3, <2>1
  <2>3. QED
    BY <1>2, <2>1, <2>2
<1>9. TSIZE \in 0 .. TSIZE /\ N_CHAR - 1 \in Nat
  BY <1>1
<1>10. QED
  BY <1>4, <1>5, <1>6, <1>7, <1>8, <1>9 DEF Grown

LEMMA InitTree == Init => TreeIndInv
<1> SUFFICES ASSUME Init PROVE TreeIndInv
  OBVIOUS
<1>1. /\ N_CHAR \in Nat /\ 1 < N_CHAR /\ ROOT = 2 * N_CHAR - 2 /\ TSIZE = 2 * N_CHAR - 1
      /\ TSIZE \in Nat /\ ROOT \in Nat /\ MAX_FREQ \in Nat /\ N_CHAR < MAX_FREQ
      /\ Sentinel = 2 * MAX_FREQ - 1 /\ TSIZE = ROOT + 1
  BY TreeSizes
<1>2. /\ freq = [n \in 0 .. TSIZE |-> IF n = TSIZE THEN Sentinel ELSE InitFreq[n]]
      /\ son = InitSon /\ parent = Parents(son) /\ pc = "idle"
  BY DEF Init
<1>3. /\ freq \in [0 .. TSIZE -> Nat] /\ freq[TSIZE] = Sentinel
      /\ \A n \in Node : freq[n] = InitFreq[n] /\ freq[n] \in Nat /\ n \in Nat /\ n < TSIZE
  <2>1. ASSUME NEW n \in 0 .. TSIZE
        PROVE  (IF n = TSIZE THEN Sentinel ELSE InitFreq[n]) \in Nat
    <3>1. n # TSIZE => n \in Node
      BY NodeFacts
    <3>2. QED
      BY <1>1, <3>1, InitFreqType
  <2>2. freq \in [0 .. TSIZE -> Nat]
    BY <1>2, <2>1
  <2>3. TSIZE \in 0 .. TSIZE
    BY <1>1
  <2>4. ASSUME NEW n \in Node PROVE n \in 0 .. TSIZE /\ n # TSIZE /\ n \in Nat /\ n < TSIZE
    BY <1>1, NodeFacts
  <2>5. QED
    BY <1>2, <2>2, <2>3, <2>4, InitFreqType
<1>4. FreqType(freq)
  BY <1>3 DEF FreqType
<1>5. freq[ROOT] = N_CHAR /\ ROOT \in Node
  BY <1>3, NodeFacts, InitFreqRoot
<1>6. TreeSorted(freq)
  <2> SUFFICES ASSUME NEW n \in Node PROVE 0 < freq[n] /\ freq[n] <= freq[n + 1]
    BY DEF TreeSorted
  <2>1. CASE n = ROOT
    BY <1>1, <1>3, <1>5, <2>1
  <2>2. CASE n # ROOT
    <3>1. n + 1 \in Node
      BY <2>2, NodeFacts
    <3>2. QED
      BY <1>3, <2>2, <3>1, InitFreqSorted, InitFreqType
  <2>3. QED
    BY <2>1, <2>2
<1>7. TreeLinked(son, parent)
  BY <1>2, GrownLinked, InitGrown
<1>8. ASSUME NEW n \in Node
      PROVE  /\ n < N_CHAR <=> son[n] >= TSIZE
             /\ ~(n < N_CHAR) => son[n] = 2 * (n - N_CHAR) /\ son[n] \in Nat
             /\ son[n] \in Nat
  <2>1. n \in Nat /\ n <= ROOT
    BY <1>1 DEF Node
  <2>2. son[n] = IF n < N_CHAR THEN n + TSIZE ELSE 2 * (n - N_CHAR)
    BY <1>2 DEF InitSon
  <2>3. n < N_CHAR => n + TSIZE >= TSIZE /\ n + TSIZE \in Nat
    BY <1>1, <2>1
  <2>4. ~(n < N_CHAR) => ~(2 * (n - N_CHAR) >= TSIZE) /\ 2 * (n - N_CHAR) \in Nat
    BY <1>1, <2>1
  <2>5. QED
    BY <2>2, <2>3, <2>4
<1>9. TreeSums(freq, son, TSIZE)
  <2> SUFFICES ASSUME NEW n \in Node, son[n] < TSIZE
               PROVE  freq[son[n]] + freq[son[n] + 1] = freq[n] + (IF n = TSIZE THEN 1 ELSE 0)
    BY DEF TreeSums
  <2>1. ~(n < N_CHAR) /\ n # TSIZE /\ son[n] = 2 * (n - N_CHAR)
    BY <1>1, <1>3, <1>8
  <2>2. PICK a \in Nat : /\ a = 2 * (n - N_CHAR) /\ a \in Node /\ a + 1 \in Node
                         /\ InitFreq[n] = InitFreq[a] + InitFreq[a + 1]
    BY <2>1, InitFreqAt
  <2>3. freq[a] = InitFreq[a] /\ freq[a + 1] = InitFreq[a + 1] /\ freq[n] = InitFreq[n] /\ freq[n] \in Nat
    BY <1>3, <2>2
  <2>4. QED
    BY <2>1, <2>2, <2>3
<1>10. Total(LeafWeights(freq, son)) = N_CHAR
  <2> DEFINE w == LeafWeights(freq, son)
             D == [n \in 0 .. TSIZE |-> IF n < N_CHAR THEN n ELSE N_CHAR]
  <2>1. ASSUME NEW n \in Node PROVE w[n] = IF n < N_CHAR THEN 1 ELSE 0
    <3>1. w[n] = IF son[n] >= TSIZE THEN freq[n] ELSE 0
      BY DEF LeafWeights
    <3>2. n < N_CHAR => freq[n] = 1
      BY <1>3, InitFreqAt
    <3>3. QED
      BY <1>8, <3>1, <3>2
  <2> HIDE DEF w
  <2>2. D[0] = 0 /\ D[TSIZE] = N_CHAR
    BY <1>1
  <2>3. ASSUME NEW n \in Node PROVE D[n + 1] = D[n] + w[n]
    <3>1. n \in 0 .. TSIZE /\ n + 1 \in 0 .. TSIZE /\ n \in Nat
      BY NodeFacts
    <3>2. w[n] = IF n < N_CHAR THEN 1 ELSE 0
      BY <2>1
    <3>3. /\ D[n] = IF n < N_CHAR THEN n ELSE N_CHAR
          /\ D[n + 1] = IF n + 1 < N_CHAR THEN n + 1 ELSE N_CHAR
      BY <3>1
    <3>4. QED
      BY <1>1, <3>1, <3>2, <3>3
  <2> HIDE DEF D
  <2>4. \A n \in 0 .. TSIZE : Sum(w)[n] = D[n]
    BY <2>2, <2>3, SumIs
  <2>5. TSIZE \in 0 .. TSIZE
    BY <1>1
  <2>6. QED
    BY <2>2, <2>4, <2>5 DEF Total, w
<1>11. IsTree(freq, son, parent, TSIZE)
  <2>1. Total(LeafWeights(freq, son)) = freq[ROOT] + 0
    BY <1>1, <1>5, <1>10
  <2>2. QED
    BY <1>4, <1>6, <1>7, <1>9, <2>1 DEF IsTree
<1>12. Pending = TSIZE /\ freq[ROOT] <= MAX_FREQ
  BY <1>1, <1>2, <1>5 DEF Pending
<1>13. TreePhase
  BY <1>2, <1>11, <1>12 DEF TreePhase
<1>14. CharPhase
  BY <1>2 DEF CharPhase, Counting
<1>15. QED
  BY <1>13, <1>14 DEF TreeIndInv

-----------------------------------------------------------------------------
(* The steps.                                                              *)

LEMMA CharacterLeaf ==
    /\ \A ch \in Character : ch + TSIZE \in Leaves /\ ch + TSIZE \in 0 .. TSIZE + N_CHAR - 1
    /\ \A l \in Leaves : l - TSIZE \in Character
<1>1. N_CHAR \in Nat /\ TSIZE \in Nat
  BY TreeSizes
<1>2. QED
  BY <1>1 DEF Character, Leaves

LEMMA IsTreeStep ==
    ASSUME TreePhase, pc \notin {"halve", "join"}
    PROVE  /\ IsTree(freq, son, parent, Pending) /\ freq[ROOT] <= MAX_FREQ
           /\ FreqType(freq) /\ TreeSorted(freq) /\ TreeLinked(son, parent)
           /\ freq[ROOT] \in Nat /\ MAX_FREQ \in Nat
<1>1. IsTree(freq, son, parent, Pending) /\ freq[ROOT] <= MAX_FREQ
  BY DEF TreePhase
<1>2. FreqType(freq) /\ TreeSorted(freq) /\ TreeLinked(son, parent)
  BY <1>1 DEF IsTree
<1>3. freq[ROOT] \in Nat
  <2>1. ROOT \in 0 .. TSIZE
    BY NodeFacts
  <2>2. QED
    BY <1>2, <2>1 DEF FreqType
<1>4. QED
  BY <1>1, <1>2, <1>3, TreeSizes

\* Steps that leave the tree alone.
LEMMA TreeKept ==
    ASSUME TreePhase, UNCHANGED tree, pc \notin {"halve", "join", "climb"},
           pc' \notin {"halve", "join", "climb"}
    PROVE  TreePhase'
<1>1. freq' = freq /\ son' = son /\ parent' = parent
  BY DEF tree
<1>2. IsTree(freq, son, parent, Pending) /\ freq[ROOT] <= MAX_FREQ
  BY DEF TreePhase
<1>3. Pending = TSIZE /\ Pending' = TSIZE
  BY DEF Pending
<1>4. IsTree(freq', son', parent', Pending') /\ freq'[ROOT] <= MAX_FREQ
  BY <1>1, <1>2, <1>3
<1>5. QED
  BY <1>4 DEF TreePhase

LEMMA KeepTreeStep == TreeIndInv /\ KeepTree => TreeIndInv'
<1> SUFFICES ASSUME TreeIndInv, KeepTree PROVE TreeIndInv'
  OBVIOUS
<1>1. /\ pc = "update" /\ pc' = "climb" /\ node' = parent[c + TSIZE] /\ c' = c
      /\ freq' = freq /\ son' = son /\ parent' = parent /\ freq[ROOT] # MAX_FREQ
  BY DEF KeepTree, tree, Full
<1>2. c \in Character
  BY <1>1 DEF TreeIndInv, CharPhase, Counting
<1>3. /\ IsTree(freq, son, parent, Pending) /\ freq[ROOT] <= MAX_FREQ /\ TreeLinked(son, parent)
      /\ freq[ROOT] \in Nat /\ MAX_FREQ \in Nat
  BY <1>1, IsTreeStep DEF TreeIndInv
<1>4. node' \in Node /\ ~(son'[node'] < TSIZE)
  <2>1. PICK l \in Leaves : l = c + TSIZE /\ l \in 0 .. TSIZE + N_CHAR - 1
    BY <1>2, CharacterLeaf
  <2>2. parent[l] \in Node /\ son[parent[l]] = l
    BY <1>3, <2>1 DEF TreeLinked
  <2>3. ~(l < TSIZE)
    BY NodeFacts, TreeSizes
  <2>4. QED
    BY <1>1, <2>1, <2>2, <2>3
<1>5. Pending = TSIZE /\ Pending' = TSIZE
  BY <1>1, <1>4 DEF Pending
<1>6. IsTree(freq', son', parent', Pending') /\ freq'[ROOT] < MAX_FREQ /\ freq'[ROOT] <= MAX_FREQ
  BY <1>1, <1>3, <1>5
<1>7. TreePhase'
  BY <1>1, <1>4, <1>6 DEF TreePhase
<1>8. CharPhase'
  BY <1>1, <1>2 DEF CharPhase, Counting
<1>9. QED
  BY <1>7, <1>8 DEF TreeIndInv

LEMMA ClimbStep == TreeIndInv /\ Climb => TreeIndInv'
<1> SUFFICES ASSUME TreeIndInv, Climb PROVE TreeIndInv'
  OBVIOUS
<1>1. /\ pc = "climb" /\ pc' = (IF node' = 0 THEN "decoded" ELSE "climb") /\ c' = c
  BY DEF Climb
<1>2. /\ node \in Node /\ freq[ROOT] < MAX_FREQ /\ c \in Character
  BY <1>1 DEF TreeIndInv, TreePhase, CharPhase, Counting
<1>3. /\ IsTree(freq, son, parent, Waiting(son, node))
      /\ FreqType(freq) /\ TreeSorted(freq) /\ TreeLinked(son, parent)
      /\ freq[ROOT] \in Nat /\ MAX_FREQ \in Nat
  <2>1. Pending = Waiting(son, node)
    BY <1>1 DEF Pending, Waiting
  <2>2. QED
    BY <1>1, <2>1, IsTreeStep DEF TreeIndInv
<1>4. \/ /\ node' = 0 /\ IsTree(freq', son', parent', TSIZE) /\ freq'[ROOT] <= MAX_FREQ
      \/ /\ node' # 0 /\ IsTree(freq', son', parent', node') /\ freq'[ROOT] < MAX_FREQ
         /\ node' \in Node /\ son'[node'] < TSIZE
  <2>1. CASE freq[node + 1] >= freq[node] + 1
    <3>1. /\ freq' = [freq EXCEPT ![node] = freq[node] + 1]
          /\ son' = son /\ parent' = parent /\ node' = parent[node]
      BY <2>1 DEF Climb
    <3>2. PICK f, s, p, n, g : /\ f = freq /\ s = son /\ p = parent /\ n = node
                               /\ g = [f EXCEPT ![n] = f[n] + 1]
      OBVIOUS
    <3>3. /\ parent[node] = 0 => IsTree(g, son, parent, TSIZE) /\ g[ROOT] <= MAX_FREQ
          /\ parent[node] # 0 => /\ IsTree(g, son, parent, parent[node]) /\ g[ROOT] < MAX_FREQ
                                 /\ parent[node] \in Node /\ son[parent[node]] < TSIZE
      <4>1. /\ n \in Node /\ IsTree(f, s, p, Waiting(s, n)) /\ f[ROOT] < MAX_FREQ
            /\ Keeps(f, n, g)
        BY <1>2, <1>3, <2>1, <3>2 DEF Keeps
      <4>2. /\ p[n] = 0 => IsTree(g, s, p, TSIZE) /\ g[ROOT] <= MAX_FREQ
            /\ p[n] # 0 => /\ IsTree(g, s, p, p[n]) /\ g[ROOT] < MAX_FREQ
                           /\ p[n] \in Node /\ s[p[n]] < TSIZE
        BY <4>1, CountInPlace
      <4>3. QED
        BY <3>2, <4>2
    <3>4. QED
      BY <3>1, <3>2, <3>3
  <2>2. CASE ~(freq[node + 1] >= freq[node] + 1)
    <3>1. PICK l : l = LastBelow(node, freq[node] + 1)
      OBVIOUS
    <3>2. /\ freq' = [freq EXCEPT ![node] = freq[l], ![l] = freq[node] + 1]
          /\ son' = [son EXCEPT ![node] = son[l], ![l] = son[node]]
          /\ parent' = Adopted(Adopted(parent, son[node], l), son[l], node)
          /\ node' = parent'[l]
      BY <2>2, <3>1 DEF Climb
    <3>3. Overtakes(freq, node, l)
      BY <1>2, <1>3, <2>2, <3>1, LastBelowIs
    <3>4. PICK g, t, q : /\ g = [freq EXCEPT ![node] = freq[l], ![l] = freq[node] + 1]
                         /\ t = [son EXCEPT ![node] = son[l], ![l] = son[node]]
                         /\ q = Adopted(Adopted(parent, son[node], l), son[l], node)
      OBVIOUS
    <3>5. /\ IsTree(g, t, q, q[l]) /\ g[ROOT] < MAX_FREQ
          /\ q[l] \in Node /\ q[l] # 0 /\ t[q[l]] < TSIZE
      BY <1>2, <1>3, <3>3, <3>4, CountWithSwap
    <3>6. freq' = g /\ son' = t /\ parent' = q /\ node' = q[l]
      BY <3>2, <3>4
    <3>7. QED
      BY <3>5, <3>6
  <2>3. QED
    BY <2>1, <2>2
<1>5. CharPhase'
  BY <1>1, <1>2 DEF CharPhase, Counting
<1>6. CASE node' = 0
  <2>1. Pending' = TSIZE /\ pc' = "decoded"
    BY <1>1, <1>6 DEF Pending
  <2>2. TreePhase'
    BY <1>4, <1>6, <2>1 DEF TreePhase
  <2>3. QED
    BY <1>5, <2>2 DEF TreeIndInv
<1>7. CASE node' # 0
  <2>1. Pending' = node' /\ pc' = "climb"
    BY <1>1, <1>4, <1>7 DEF Pending
  <2>2. freq'[ROOT] <= MAX_FREQ
    <3>1. freq'[ROOT] \in Nat
      <4>1. ROOT \in 0 .. TSIZE
        BY NodeFacts
      <4>2. freq' \in [0 .. TSIZE -> Nat]
        BY <1>4, <1>7 DEF IsTree, FreqType
      <4>3. QED
        BY <4>1, <4>2
    <3>2. QED
      BY <1>3, <1>4, <1>7, <3>1
  <2>3. TreePhase'
    BY <1>4, <1>7, <2>1, <2>2 DEF TreePhase
  <2>4. QED
    BY <1>5, <2>3 DEF TreeIndInv
<1>8. QED
  BY <1>6, <1>7

LEMMA RebuildSteps ==
    TreeIndInv /\ (Rebuild \/ HalveLeaf \/ LeavesHalved \/ JoinNodes \/ ConnectParents)
        => TreeIndInv'
<1> SUFFICES ASSUME TreeIndInv,
                    Rebuild \/ HalveLeaf \/ LeavesHalved \/ JoinNodes \/ ConnectParents
             PROVE  TreeIndInv'
  OBVIOUS
<1>1. c' = c /\ c \in Character /\ pc \in Counting /\ pc' \in Counting \ {"position"}
  BY DEF TreeIndInv, CharPhase, Counting, Rebuild, HalveLeaf, LeavesHalved, JoinNodes,
         ConnectParents
<1>2. CharPhase'
  BY <1>1 DEF CharPhase, Counting
<1>3. CASE Rebuild
  <2>1. /\ pc = "update" /\ pc' = "halve" /\ freq' = freq /\ son' = son
        /\ loop'.i = 0 /\ loop'.j = 0 /\ freq[ROOT] = MAX_FREQ
    BY <1>3 DEF Rebuild, Full
  <2>2. IsTree(freq, son, parent, TSIZE)
    <3>1. Pending = TSIZE
      BY <2>1 DEF Pending
    <3>2. QED
      BY <2>1, <3>1, IsTreeStep DEF TreeIndInv
  <2>3. Halving(freq, son, 0, 0)
    BY <2>1, <2>2, HalvingStarts
  <2>4. TreePhase'
    BY <2>1, <2>3 DEF TreePhase
  <2>5. QED
    BY <1>2, <2>4 DEF TreeIndInv
<1>4. CASE HalveLeaf
  <2>1. pc = "halve" /\ pc' = "halve" /\ loop.i < TSIZE
    BY <1>4 DEF HalveLeaf
  <2>2. PICK m, j : m = loop.i /\ j = loop.j
    OBVIOUS
  <2>3. Halving(freq, son, m, j)
    BY <2>1, <2>2 DEF TreeIndInv, TreePhase
  <2>4. CASE son[m] >= TSIZE
    <3>1. /\ freq' = [freq EXCEPT ![j] = Half(freq[m])]
          /\ son' = [son EXCEPT ![j] = son[m]]
          /\ loop' = [i |-> m + 1, j |-> j + 1]
      BY <1>4, <2>2, <2>4 DEF HalveLeaf, Leaf, Half
    <3>2. PICK g, t : /\ g = [freq EXCEPT ![j] = Half(freq[m])]
                      /\ t = [son EXCEPT ![j] = son[m]]
      OBVIOUS
    <3>3. Halving(g, t, m + 1, j + 1)
      BY <2>1, <2>2, <2>3, <2>4, <3>2, HalvingLeaf
    <3>4. TreePhase'
      BY <2>1, <3>1, <3>2, <3>3 DEF TreePhase
    <3>5. QED
      BY <1>2, <3>4 DEF TreeIndInv
  <2>5. CASE ~(son[m] >= TSIZE)
    <3>1. freq' = freq /\ son' = son /\ loop' = [i |-> m + 1, j |-> j]
      BY <1>4, <2>2, <2>5 DEF HalveLeaf, Leaf
    <3>2. Halving(freq, son, m + 1, j)
      BY <2>1, <2>2, <2>3, <2>5, HalvingSkips
    <3>3. loop'.i = m + 1 /\ loop'.j = j
      BY <3>1
    <3>4. TreePhase'
      BY <2>1, <3>1, <3>2, <3>3 DEF TreePhase
    <3>5. QED
      BY <1>2, <3>4 DEF TreeIndInv
  <2>6. QED
    BY <2>4, <2>5
<1>5. CASE LeavesHalved
  <2>1. /\ pc = "halve" /\ pc' = "join" /\ freq' = freq /\ son' = son /\ loop.i = TSIZE
        /\ loop'.i = 0 /\ loop'.j = N_CHAR
    BY <1>5 DEF LeavesHalved
  <2>2. Halving(freq, son, loop.i, loop.j)
    BY <2>1 DEF TreeIndInv, TreePhase
  <2>3. Joining(freq, son, 0, N_CHAR)
    BY <2>1, <2>2, HalvingEnds
  <2>4. TreePhase'
    BY <2>1, <2>3 DEF TreePhase
  <2>5. QED
    BY <1>2, <2>4 DEF TreeIndInv
<1>6. CASE JoinNodes
  <2>1. pc = "join" /\ pc' = "join" /\ loop.j < TSIZE
    BY <1>6 DEF JoinNodes
  <2>2. PICK m, j : m = loop.i /\ j = loop.j
    OBVIOUS
  <2>3. Joining(freq, son, m, j)
    BY <2>1, <2>2 DEF TreeIndInv, TreePhase
  <2>4. PICK x, k : x = freq[m] + freq[m + 1] /\ k = JoinPlace(x, j)
    OBVIOUS
  <2>5. /\ freq' = InsertNode(freq, k, j, x) /\ son' = InsertNode(son, k, j, m)
        /\ loop' = [i |-> m + 2, j |-> j + 1]
    BY <1>6, <2>2, <2>4 DEF JoinNodes
  <2>6. /\ FreqType(freq) /\ freq \in [0 .. TSIZE -> Nat] /\ son \in [Node -> Nat]
        /\ j \in Node /\ j \in 0 .. TSIZE /\ j \in Nat /\ m \in Nat /\ m + 1 < j /\ j < TSIZE
        /\ TSIZE \in Nat
    <3>1. /\ FreqType(freq) /\ freq \in [0 .. TSIZE -> Nat] /\ son \in [Node -> Nat]
          /\ j \in Node /\ j \in Nat /\ m \in Nat /\ m + 1 < j /\ TSIZE \in Nat
      BY <2>1, <2>2, <2>3, JoiningTypes
    <3>2. QED
      BY <2>1, <2>2, <3>1, NodeFacts
  <2>7. x \in Nat
    <3>1. m \in 0 .. TSIZE /\ m + 1 \in 0 .. TSIZE
      BY <2>6
    <3>2. freq[m] \in Nat /\ freq[m + 1] \in Nat
      BY <2>6, <3>1
    <3>3. QED
      BY <2>4, <3>2
  <2>8. JoinsAt(freq, j, k, x) /\ k \in 0 .. j
    <3>1. JoinsAt(freq, j, k, x)
      BY <2>4, <2>6, <2>7, JoinPlaceIs
    <3>2. QED
      BY <3>1 DEF JoinsAt
  <2>9. PICK g, t : g = InsertNode(freq, k, j, x) /\ t = InsertNode(son, k, j, m)
    OBVIOUS
  <2>10. g \in [0 .. TSIZE -> Nat] /\ Placed(g, freq, k, j, x) /\ g[TSIZE] = freq[TSIZE]
    <3>1. 0 .. TSIZE - 1 \subseteq 0 .. TSIZE /\ 0 .. TSIZE \subseteq Nat
      BY <2>6
    <3>2. g \in [0 .. TSIZE -> Nat]
      BY <2>6, <2>7, <2>8, <2>9, <3>1, InsertNodeType
    <3>3. Node \subseteq DOMAIN freq /\ TSIZE \in DOMAIN freq
      BY <2>6, NodeFacts
    <3>4. Placed(g, freq, k, j, x)
      BY <2>6, <2>8, <2>9, <3>3, InsertNodeIs
    <3>5. g[TSIZE] = freq[TSIZE]
      <4>1. TSIZE # k /\ ~(TSIZE <= j)
        BY <2>6, <2>8
      <4>2. QED
        BY <2>9, <3>3, <4>1 DEF InsertNode
    <3>6. QED
      BY <3>2, <3>4, <3>5
  <2>11. t \in [Node -> Nat] /\ Placed(t, son, k, j, m)
    <3>1. 0 .. TSIZE - 1 \subseteq Node /\ Node \subseteq Nat
      BY <2>6, TreeSizes, NodeFacts DEF Node
    <3>2. t \in [Node -> Nat]
      BY <2>6, <2>8, <2>9, <3>1, InsertNodeType
    <3>3. Node \subseteq DOMAIN son
      BY <2>6
    <3>4. QED
      BY <2>6, <2>8, <2>9, <3>2, <3>3, InsertNodeIs
  <2>12. Joining(g, t, m + 2, j + 1)
    <3>1. j < TSIZE /\ JoinsAt(freq, j, k, freq[m] + freq[m + 1])
          /\ Placed(g, freq, k, j, freq[m] + freq[m + 1])
      BY <2>4, <2>6, <2>8, <2>10
    <3>2. QED
      BY <2>3, <2>10, <2>11, <3>1, JoiningStep
  <2>13. TreePhase'
    BY <2>1, <2>5, <2>9, <2>12 DEF TreePhase
  <2>14. QED
    BY <1>2, <2>13 DEF TreeIndInv
<1>7. CASE ConnectParents
  <2>1. /\ pc = "join" /\ pc' = "climb" /\ freq' = freq /\ son' = son /\ loop.j = TSIZE
        /\ parent' = Parents(son) /\ node' = parent'[c + TSIZE]
    BY <1>7 DEF ConnectParents
  <2>2. IsTree(freq, son, parent', TSIZE) /\ freq[ROOT] < MAX_FREQ
    BY <2>1, JoiningEnds DEF TreeIndInv, TreePhase
  <2>3. node' \in Node /\ ~(son'[node'] < TSIZE)
    <3>1. PICK l \in Leaves : l = c + TSIZE /\ l \in 0 .. TSIZE + N_CHAR - 1
      BY <1>1, CharacterLeaf
    <3>2. parent'[l] \in Node /\ son[parent'[l]] = l
      BY <2>2, <3>1 DEF IsTree, TreeLinked
    <3>3. ~(l < TSIZE)
      BY NodeFacts, TreeSizes
    <3>4. QED
      BY <2>1, <3>1, <3>2, <3>3
  <2>4. Pending' = TSIZE
    BY <2>1, <2>3 DEF Pending
  <2>5. freq[ROOT] <= MAX_FREQ
    <3>1. ROOT \in 0 .. TSIZE /\ MAX_FREQ \in Nat
      BY NodeFacts, TreeSizes
    <3>2. freq[ROOT] \in Nat
      BY <2>2, <3>1 DEF IsTree, FreqType
    <3>3. QED
      BY <2>2, <3>1, <3>2
  <2>6. IsTree(freq', son', parent', Pending') /\ freq'[ROOT] < MAX_FREQ /\ freq'[ROOT] <= MAX_FREQ
    BY <2>1, <2>2, <2>4, <2>5
  <2>7. TreePhase'
    BY <2>1, <2>3, <2>6 DEF TreePhase
  <2>8. QED
    BY <1>2, <2>7 DEF TreeIndInv
<1>8. QED
  BY <1>3, <1>4, <1>5, <1>6, <1>7

LEMMA DecodeSteps ==
    TreeIndInv /\ (DecodeChar \/ Walk \/ Found) => TreeIndInv'
<1> SUFFICES ASSUME TreeIndInv, DecodeChar \/ Walk \/ Found PROVE TreeIndInv'
  OBVIOUS
<1>1. UNCHANGED tree /\ pc \in {"idle", "walk"} /\ pc' \in {"walk", "update"}
  BY DEF DecodeChar, Walk, Found
<1>2. TreePhase'
  BY <1>1, TreeKept DEF TreeIndInv
<1>3. /\ TreeLinked(son, parent)
  BY <1>1, IsTreeStep DEF TreeIndInv
<1>4. ASSUME NEW n \in Node PROVE son[n] \in Leaves \/ (son[n] \in Node /\ son[n] + 1 \in Node)
  <2>1. son[n] >= TSIZE => son[n] \in Leaves
    BY <1>3 DEF TreeLinked
  <2>2. son[n] \in Nat /\ TSIZE \in Nat
    BY <1>3, TreeSizes DEF TreeLinked
  <2>3. son[n] < TSIZE => son[n] \in Node /\ son[n] + 1 \in Node
    BY <1>3, TreeParents
  <2>4. QED
    BY <2>1, <2>2, <2>3
<1>5. CASE DecodeChar
  <2>1. pc' = "walk" /\ c' = son[ROOT] /\ ROOT \in Node
    BY <1>5, NodeFacts DEF DecodeChar
  <2>2. CharPhase'
    BY <1>4, <2>1 DEF CharPhase, Counting
  <2>3. QED
    BY <1>2, <2>2 DEF TreeIndInv
<1>6. CASE Walk
  <2>1. pc = "walk" /\ pc' = pc /\ c < TSIZE /\ \E b \in Bit : c' = son[c + b]
    BY <1>6 DEF Walk
  <2>2. c \in Node /\ c + 1 \in Node
    <3>1. c \notin Leaves
      BY <2>1, NodeFacts, TreeSizes
    <3>2. QED
      BY <2>1, <3>1 DEF TreeIndInv, CharPhase
  <2>3. PICK b \in {0, 1} : c' = son[c + b]
    BY <2>1 DEF Bit
  <2>4. c + b \in Node
    <3>1. c \in Nat
      BY <2>2, NodeFacts
    <3>2. c + 0 = c
      BY <3>1
    <3>3. QED
      BY <2>2, <3>2
  <2>5. c' \in Leaves \/ (c' \in Node /\ c' + 1 \in Node)
    BY <1>4, <2>3, <2>4
  <2>6. CharPhase'
    BY <2>1, <2>5 DEF CharPhase, Counting
  <2>7. QED
    BY <1>2, <2>6 DEF TreeIndInv
<1>7. CASE Found
  <2>1. pc = "walk" /\ pc' = "update" /\ c >= TSIZE /\ c' = c - TSIZE
    BY <1>7 DEF Found
  <2>2. c \in Leaves
    <3>1. c \notin Node
      BY <2>1, NodeFacts, TreeSizes
    <3>2. QED
      BY <2>1, <3>1 DEF TreeIndInv, CharPhase
  <2>3. c' \in Character
    BY <2>1, <2>2, CharacterLeaf
  <2>4. CharPhase'
    BY <2>1, <2>3 DEF CharPhase, Counting
  <2>5. QED
    BY <1>2, <2>4 DEF TreeIndInv
<1>8. QED
  BY <1>5, <1>6, <1>7

LEMMA TextSteps ==
    TreeIndInv /\ (Literal \/ PositionHigh \/ PositionLow \/ BeginString \/ CopyByte \/ EndString)
        => TreeIndInv'
<1> SUFFICES ASSUME TreeIndInv,
                    Literal \/ PositionHigh \/ PositionLow \/ BeginString \/ CopyByte \/ EndString
             PROVE  TreeIndInv'
  OBVIOUS
<1>1. UNCHANGED tree /\ pc \in {"idle", "decoded", "position"} /\ pc' \in {"idle", "position"}
      /\ (pc' = "position" => pc \in {"decoded", "position"} /\ c' = c
                              /\ (pc = "decoded" => c >= Bytes))
  BY DEF Literal, PositionHigh, PositionLow, BeginString, CopyByte, EndString
<1>2. TreePhase'
  BY <1>1, TreeKept DEF TreeIndInv
<1>3. CharPhase'
  BY <1>1 DEF TreeIndInv, CharPhase, Counting
<1>4. QED
  BY <1>2, <1>3 DEF TreeIndInv

LEMMA TreeNext == TreeIndInv /\ [Next]_vars => TreeIndInv'
<1> SUFFICES ASSUME TreeIndInv, [Next]_vars PROVE TreeIndInv'
  OBVIOUS
<1>1. CASE KeepTree
  BY <1>1, KeepTreeStep
<1>2. CASE Climb
  BY <1>2, ClimbStep
<1>3. CASE Rebuild \/ HalveLeaf \/ LeavesHalved \/ JoinNodes \/ ConnectParents
  BY <1>3, RebuildSteps
<1>4. CASE DecodeChar \/ Walk \/ Found
  BY <1>4, DecodeSteps
<1>5. CASE Literal \/ PositionHigh \/ PositionLow \/ BeginString \/ CopyByte \/ EndString
  BY <1>5, TextSteps
<1>6. CASE UNCHANGED vars
  <2>1. /\ freq' = freq /\ son' = son /\ parent' = parent /\ loop' = loop /\ pc' = pc /\ c' = c
        /\ node' = node
    BY <1>6 DEF vars, tree
  <2>2. Pending' = Pending
    BY <2>1 DEF Pending
  <2>3. QED
    BY <2>1, <2>2 DEF TreeIndInv, TreePhase, CharPhase
<1>7. QED
  BY <1>1, <1>2, <1>3, <1>4, <1>5, <1>6 DEF Next

\* Whatever characters a Teledisk file codes, and however often the tree is rebuilt, the
\* nodes are in the order of their frequencies when update has returned, every node is as
\* frequent as its children, and every character has one leaf, that can be reached
\* (init_decompress, update).
THEOREM TreeStays == Spec => []TreeInv
<1>1. TreeIndInv => TreeInv
  <2> SUFFICES ASSUME TreeIndInv, pc \notin {"halve", "join"} PROVE Sorted /\ Sums /\ Linked
    BY DEF TreeInv
  <2>1. /\ IsTree(freq, son, parent, Pending)
    BY DEF TreeIndInv, TreePhase
  <2>2. /\ TreeSorted(freq) /\ TreeLinked(son, parent) /\ TreeSums(freq, son, Pending)
    BY <2>1 DEF IsTree
  <2>3. Sorted
    BY <2>2 DEF TreeSorted, Sorted
  <2>4. Sums
    <3> SUFFICES ASSUME NEW n \in Node, ~ Leaf(n)
                 PROVE  freq[son[n]] + freq[son[n] + 1] =
                            freq[n] + (IF pc = "climb" /\ n = node THEN 1 ELSE 0)
      BY DEF Sums
    <3>1. son[n] < TSIZE /\ n # TSIZE
      <4>1. son[n] \in Nat /\ TSIZE \in Nat /\ TSIZE \notin Node
        BY <2>2, NodeFacts, TreeSizes DEF TreeLinked
      <4>2. QED
        BY <4>1 DEF Leaf
    <3>2. (n = Pending) <=> (pc = "climb" /\ n = node)
      BY <3>1 DEF Pending
    <3>3. QED
      BY <2>2, <3>1, <3>2 DEF TreeSums
  <2>5. Linked
    BY <2>2, CharacterLeaf DEF TreeLinked, Linked, Leaf
  <2>6. QED
    BY <2>3, <2>4, <2>5
<1>2. QED
  BY <1>1, InitTree, TreeNext, PTL DEF Spec

-----------------------------------------------------------------------------
(* The ring.                                                               *)

\* What the text and what stands before it are made of.
Content == 0 .. Bytes - 1 \cup {Blank}

\* The byte of text t that is d back.
BackOf(t, d) == IF d <= Len(t) THEN t[(Len(t) + 1) - d] ELSE Blank

\* Going back from r in the ring is going back in the text.
RingHolds(buf, r, t) == \A d \in 1 .. SBSIZE : buf[(r - d) % SBSIZE] = BackOf(t, d)

RingInv ==
    /\ ring_buff \in [0 .. SBSIZE - 1 -> Content] /\ text \in Seq(Content)
    /\ GBr \in 0 .. SBSIZE - 1
    /\ RingHolds(ring_buff, GBr, text)

LEMMA RingSizes ==
    /\ SBSIZE \in Nat /\ LASIZE \in Nat /\ THRESHOLD \in Nat /\ Bytes \in Nat
    /\ W \in Nat /\ P \in Nat /\ 0 < W /\ 0 < P /\ P <= W /\ 0 < THRESHOLD /\ 0 < Bytes
    /\ THRESHOLD < LASIZE /\ LASIZE < SBSIZE /\ 2 < SBSIZE
<1>1. /\ SBSIZE \in Nat /\ LASIZE \in Nat /\ THRESHOLD \in Nat /\ Bytes \in Nat
      /\ W \in Nat /\ P \in Nat /\ 0 < W /\ 0 < P /\ P <= W /\ 0 < THRESHOLD /\ 0 < Bytes
      /\ THRESHOLD < LASIZE /\ LASIZE < SBSIZE
  BY SizesAssumption
<1>2. QED
  BY <1>1

\* The remainder of a number that is at most two turns below the ring or one above.
LEMMA Turned ==
    ASSUME NEW S \in Nat, S > 0, NEW x \in Int, NEW r \in 0 .. S - 1,
           x = r \/ x = r + S \/ x = r - S \/ x = r - 2 * S
    PROVE  x % S = r
<1>1. CASE x = r
  BY <1>1
<1>2. CASE x = r + S
  BY <1>2
<1>3. CASE x = r - S
  BY <1>3
<1>4. CASE x = r - 2 * S
  BY <1>4
<1>5. QED
  BY <1>1, <1>2, <1>3, <1>4

\* One place in the ring that is d before place r.
LEMMA Before ==
    ASSUME NEW r \in 0 .. SBSIZE - 1, NEW d \in 1 .. SBSIZE
    PROVE  /\ (r - d) % SBSIZE = IF d <= r THEN r - d ELSE (r - d) + SBSIZE
           /\ (r - d) % SBSIZE \in 0 .. SBSIZE - 1
<1>1. SBSIZE \in Nat /\ SBSIZE > 0 /\ r \in Nat /\ d \in Nat
  BY RingSizes
<1>2. PICK x \in Int, S \in Nat : x = r - d /\ S = SBSIZE
  BY <1>1
<1>3. CASE d <= r
  <2>1. x \in 0 .. S - 1
    BY <1>1, <1>2, <1>3
  <2>2. x % S = x
    BY <1>1, <1>2, <2>1, Turned
  <2>3. QED
    BY <1>2, <1>3, <2>1, <2>2
<1>4. CASE ~(d <= r)
  <2>1. x + S \in 0 .. S - 1
    BY <1>1, <1>2, <1>4
  <2>2. PICK q \in 0 .. S - 1 : q = x + S
    BY <2>1
  <2>3. x = q - S
    BY <1>2, <2>2
  <2>4. x % S = q
    BY <1>1, <1>2, <2>3, Turned
  <2>5. QED
    BY <1>2, <1>4, <2>2, <2>4
<1>5. QED
  BY <1>3, <1>4

\* The place after place r.
LEMMA After ==
    ASSUME NEW r \in 0 .. SBSIZE - 1
    PROVE  /\ (r + 1) % SBSIZE = IF r + 1 < SBSIZE THEN r + 1 ELSE 0
           /\ (r + 1) % SBSIZE \in 0 .. SBSIZE - 1
<1>1. SBSIZE \in Nat /\ SBSIZE > 0 /\ r \in Nat
  BY RingSizes
<1>2. PICK x \in Int, S \in Nat : x = r + 1 /\ S = SBSIZE
  BY <1>1
<1>3. CASE r + 1 < SBSIZE
  <2>1. x \in 0 .. S - 1
    BY <1>1, <1>2, <1>3
  <2>2. x % S = x
    BY <1>1, <1>2, <2>1, Turned
  <2>3. QED
    BY <1>2, <1>3, <2>1, <2>2
<1>4. CASE ~(r + 1 < SBSIZE)
  <2>1. x = 0 + S /\ 0 \in 0 .. S - 1
    BY <1>1, <1>2, <1>4
  <2>2. x % S = 0
    BY <1>1, <1>2, <2>1, Turned
  <2>3. QED
    BY <1>2, <1>4, <2>1, <2>2
<1>5. QED
  BY <1>3, <1>4

\* A byte that is appended to the text.
LEMMA BackAppended ==
    ASSUME NEW t \in Seq(Content), NEW b \in Content, NEW d \in Nat
    PROVE  /\ BackOf(Append(t, b), 1) = b
           /\ d >= 1 => BackOf(Append(t, b), d + 1) = BackOf(t, d)
<1>1. PICK u \in Seq(Content), m \in Nat : u = Append(t, b) /\ m = Len(t)
  <2>1. Append(t, b) \in Seq(Content) /\ Len(t) \in Nat
    OBVIOUS
  <2>2. QED
    BY <2>1
<1>2. Len(u) = m + 1 /\ u[m + 1] = b /\ \A k \in 1 .. m : u[k] = t[k]
  BY <1>1
<1>3. BackOf(u, 1) = b
  <2>1. 1 <= Len(u) /\ (Len(u) + 1) - 1 = m + 1
    BY <1>2
  <2>2. QED
    BY <1>2, <2>1 DEF BackOf
<1>4. ASSUME d >= 1 PROVE BackOf(u, d + 1) = BackOf(t, d)
  <2>1. CASE d <= m
    <3>1. PICK k \in 1 .. m : k = (m + 1) - d
      BY <1>4, <2>1
    <3>2. d + 1 <= Len(u) /\ (Len(u) + 1) - (d + 1) = k
      BY <1>2, <2>1, <3>1
    <3>3. BackOf(u, d + 1) = u[k] /\ BackOf(t, d) = t[k]
      BY <1>1, <2>1, <3>1, <3>2 DEF BackOf
    <3>4. QED
      BY <1>2, <3>3
  <2>2. CASE ~(d <= m)
    <3>1. ~(d + 1 <= Len(u))
      BY <1>2, <2>2
    <3>2. QED
      BY <1>1, <2>2, <3>1 DEF BackOf
  <2>3. QED
    BY <2>1, <2>2
<1>5. QED
  BY <1>1, <1>3, <1>4

\* A byte that is put into the ring.
LEMMA PutInRing ==
    ASSUME NEW buf \in [0 .. SBSIZE - 1 -> Content], NEW r \in 0 .. SBSIZE - 1,
           NEW t \in Seq(Content), NEW b \in Content, RingHolds(buf, r, t),
           NEW q, q = (r + 1) % SBSIZE
    PROVE  RingHolds([buf EXCEPT ![r] = b], q, Append(t, b))
<1>1. SBSIZE \in Nat /\ SBSIZE > 2 /\ r \in Nat
  BY RingSizes
<1>2. q = (IF r + 1 < SBSIZE THEN r + 1 ELSE 0) /\ q \in 0 .. SBSIZE - 1
  BY After
<1>3. PICK g : g = [buf EXCEPT ![r] = b]
  OBVIOUS
<1>4. g[r] = b /\ \A k \in 0 .. SBSIZE - 1 : k # r => g[k] = buf[k]
  BY <1>3
<1>5. ASSUME NEW d \in 1 .. SBSIZE PROVE g[(q - d) % SBSIZE] = BackOf(Append(t, b), d)
  <2>1. PICK x \in 0 .. SBSIZE - 1 :
            x = (q - d) % SBSIZE /\ x = IF d <= q THEN q - d ELSE (q - d) + SBSIZE
    BY <1>2, Before
  <2>2. CASE d = 1
    <3>1. x = r
      BY <1>1, <1>2, <2>1, <2>2
    <3>2. BackOf(Append(t, b), 1) = b
      BY BackAppended
    <3>3. g[x] = BackOf(Append(t, b), d)
      BY <1>4, <2>2, <3>1, <3>2
    <3>4. QED
      BY <2>1, <3>3
  <2>3. CASE d # 1
    <3>1. PICK e \in 1 .. SBSIZE : e = d - 1 /\ e < SBSIZE /\ d = e + 1
      BY <1>1, <2>3
    <3>2. (r - e) % SBSIZE = IF e <= r THEN r - e ELSE (r - e) + SBSIZE
      BY Before
    <3>3. x = (r - e) % SBSIZE /\ x # r
      BY <1>1, <1>2, <2>1, <3>1, <3>2
    <3>4. g[x] = BackOf(t, e)
      BY <1>4, <3>3 DEF RingHolds
    <3>5. e \in Nat /\ e >= 1
      BY <1>1
    <3>6. BackOf(Append(t, b), e + 1) = BackOf(t, e)
      BY <3>5, BackAppended
    <3>7. g[x] = BackOf(Append(t, b), d)
      BY <3>1, <3>4, <3>6
    <3>8. QED
      BY <2>1, <3>7
  <2>4. QED
    BY <2>2, <2>3
<1>6. QED
  BY <1>3, <1>5 DEF RingHolds

LEMMA PutKeepsRing ==
    ASSUME RingInv, NEW b \in Content, Put(b)
    PROVE  RingInv' /\ text' = Append(text, b)
<1>1. /\ ring_buff' = [ring_buff EXCEPT ![GBr] = b] /\ GBr' = (GBr + 1) % SBSIZE
      /\ text' = Append(text, b)
  BY DEF Put
<1>2. /\ ring_buff \in [0 .. SBSIZE - 1 -> Content] /\ text \in Seq(Content)
      /\ GBr \in 0 .. SBSIZE - 1 /\ RingHolds(ring_buff, GBr, text)
  BY DEF RingInv
<1>3. RingHolds(ring_buff', GBr', text')
  BY <1>1, <1>2, PutInRing
<1>4. GBr' \in 0 .. SBSIZE - 1
  BY <1>1, <1>2, After
<1>5. ring_buff' \in [0 .. SBSIZE - 1 -> Content] /\ text' \in Seq(Content)
  BY <1>1, <1>2
<1>6. QED
  BY <1>1, <1>3, <1>4, <1>5 DEF RingInv

-----------------------------------------------------------------------------
(* Positions.                                                              *)

LEMMA Pow2Def == Pow2 = [n \in 0 .. P |-> IF n = 0 THEN 1 ELSE 2 * Pow2[n - 1]]
<1> DEFINE Is(f, m) == f = [n \in 0 .. m |-> IF n = 0 THEN 1 ELSE 2 * f[n - 1]]
           S == {m \in Nat : \E f : Is(f, m)}
<1>1. 0 \in S
  <2>1. Is([n \in 0 .. 0 |-> 1], 0)
    OBVIOUS
  <2> HIDE DEF Is
  <2>2. QED
    BY <2>1
<1>2. ASSUME NEW m \in Nat, m \in S PROVE m + 1 \in S
  <2>1. PICK f : Is(f, m)
    BY <1>2
  <2> DEFINE g == [n \in 0 .. m + 1 |-> IF n = m + 1 THEN 2 * f[m] ELSE f[n]]
  <2>2. \A n \in 0 .. m : f[n] = IF n = 0 THEN 1 ELSE 2 * f[n - 1]
    BY <2>1
  <2>3. ASSUME NEW n \in 0 .. m + 1 PROVE g[n] = IF n = 0 THEN 1 ELSE 2 * g[n - 1]
    <3>1. CASE n = m + 1
      <4>1. n # 0 /\ n - 1 = m /\ m \in 0 .. m + 1 /\ m # m + 1
        BY <3>1
      <4>2. g[m] = f[m] /\ g[n] = 2 * f[m]
        BY <3>1, <4>1
      <4>3. QED
        BY <4>1, <4>2
    <3>2. CASE n = 0
      BY <2>2, <3>2
    <3>3. CASE n # 0 /\ n # m + 1
      <4>1. n \in 0 .. m /\ n - 1 \in 0 .. m + 1 /\ n - 1 # m + 1
        BY <3>3
      <4>2. g[n] = f[n] /\ g[n - 1] = f[n - 1]
        BY <3>3, <4>1
      <4>3. QED
        BY <2>2, <3>3, <4>1, <4>2
    <3>4. QED
      BY <3>1, <3>2, <3>3
  <2>4. g = [n \in 0 .. m + 1 |-> IF n = 0 THEN 1 ELSE 2 * g[n - 1]]
    <3>1. g = [n \in 0 .. m + 1 |-> g[n]]
      OBVIOUS
    <3> HIDE DEF g
    <3>2. QED
      BY <2>3, <3>1
  <2> HIDE DEF g
  <2>5. Is(g, m + 1)
    BY <2>4
  <2> HIDE DEF Is
  <2>6. QED
    BY <2>5
<1>3. P \in S
  <2>1. P \in Nat
    BY RingSizes
  <2> HIDE DEF S
  <2>2. \A m \in 0 .. P - 1 : m \in S => m + 1 \in S
    BY <1>2, <2>1
  <2>3. QED
    BY <1>1, <2>1, <2>2, InductionUpTo
<1>4. PICK g : Is(g, P)
  BY <1>3
<1>5. Pow2 = CHOOSE f : Is(f, P)
  BY DEF Pow2
<1> HIDE DEF Is
<1>6. Is(Pow2, P)
  BY <1>4, <1>5
<1>7. QED
  BY <1>6 DEF Is

\* The number that the first bits of s are, for every number of them.
Prefixes(s) ==
    LET v[n \in 0 .. Len(s)] == IF n = 0 THEN 0 ELSE 2 * v[n - 1] + s[n]
    IN v

LEMMA PrefixesDef ==
    ASSUME NEW s \in Seq(Bit)
    PROVE  Prefixes(s) = [n \in 0 .. Len(s) |->
                             IF n = 0 THEN 0 ELSE 2 * Prefixes(s)[n - 1] + s[n]]
<1> DEFINE Is(f, m) == f = [n \in 0 .. m |-> IF n = 0 THEN 0 ELSE 2 * f[n - 1] + s[n]]
           S == {m \in Nat : \E f : Is(f, m)}
<1>1. 0 \in S
  <2>1. Is([n \in 0 .. 0 |-> 0], 0)
    OBVIOUS
  <2> HIDE DEF Is
  <2>2. QED
    BY <2>1
<1>2. ASSUME NEW m \in Nat, m \in S PROVE m + 1 \in S
  <2>1. PICK f : Is(f, m)
    BY <1>2
  <2> DEFINE g == [n \in 0 .. m + 1 |-> IF n = m + 1 THEN 2 * f[m] + s[m + 1] ELSE f[n]]
  <2>2. \A n \in 0 .. m : f[n] = IF n = 0 THEN 0 ELSE 2 * f[n - 1] + s[n]
    BY <2>1
  <2>3. ASSUME NEW n \in 0 .. m + 1 PROVE g[n] = IF n = 0 THEN 0 ELSE 2 * g[n - 1] + s[n]
    <3>1. CASE n = m + 1
      <4>1. n # 0 /\ n - 1 = m /\ m \in 0 .. m + 1 /\ m # m + 1
        BY <3>1
      <4>2. g[m] = f[m] /\ g[n] = 2 * f[m] + s[n]
        BY <3>1, <4>1
      <4>3. QED
        BY <4>1, <4>2
    <3>2. CASE n = 0
      BY <2>2, <3>2
    <3>3. CASE n # 0 /\ n # m + 1
      <4>1. n \in 0 .. m /\ n - 1 \in 0 .. m + 1 /\ n - 1 # m + 1
        BY <3>3
      <4>2. g[n] = f[n] /\ g[n - 1] = f[n - 1]
        BY <3>3, <4>1
      <4>3. QED
        BY <2>2, <3>3, <4>1, <4>2
    <3>4. QED
      BY <3>1, <3>2, <3>3
  <2>4. g = [n \in 0 .. m + 1 |-> IF n = 0 THEN 0 ELSE 2 * g[n - 1] + s[n]]
    <3>1. g = [n \in 0 .. m + 1 |-> g[n]]
      OBVIOUS
    <3> HIDE DEF g
    <3>2. QED
      BY <2>3, <3>1
  <2> HIDE DEF g
  <2>5. Is(g, m + 1)
    BY <2>4
  <2> HIDE DEF Is
  <2>6. QED
    BY <2>5
<1>3. PICK l \in Nat : l = Len(s)
  OBVIOUS
<1>4. l \in S
  <2> HIDE DEF S
  <2>1. \A m \in 0 .. l - 1 : m \in S => m + 1 \in S
    BY <1>2
  <2>2. QED
    BY <1>1, <1>3, <2>1, InductionUpTo
<1>5. PICK g : Is(g, Len(s))
  BY <1>3, <1>4
<1>6. Prefixes(s) = CHOOSE f : Is(f, Len(s))
  BY DEF Prefixes
<1> HIDE DEF Is
<1>7. Is(Prefixes(s), Len(s))
  BY <1>5, <1>6
<1>8. QED
  BY <1>7 DEF Is

\* The bits of a position that are not coded are below the bits that are.
LEMMA ValueBound ==
    ASSUME NEW s \in Seq(Bit), Len(s) = P
    PROVE  Value(s) \in 0 .. Pow2[P] - 1 /\ Pow2[P] \in Nat /\ Pow2[P] > 0
<1>1. P \in Nat
  BY RingSizes
<1>2. PICK v, q : v = Prefixes(s) /\ q = Pow2
  OBVIOUS
<1>3. /\ v = [n \in 0 .. P |-> IF n = 0 THEN 0 ELSE 2 * v[n - 1] + s[n]]
      /\ q = [n \in 0 .. P |-> IF n = 0 THEN 1 ELSE 2 * q[n - 1]]
  BY <1>2, PrefixesDef, Pow2Def
<1> DEFINE S == {m \in 0 .. P : v[m] \in Nat /\ q[m] \in Nat /\ v[m] < q[m]}
<1>4. 0 \in S
  <2>1. v[0] = 0 /\ q[0] = 1 /\ 0 \in 0 .. P
    BY <1>1, <1>3
  <2>2. QED
    BY <2>1
<1>5. ASSUME NEW m \in 0 .. P - 1, m \in S PROVE m + 1 \in S
  <2>1. m + 1 \in 0 .. P /\ m + 1 # 0 /\ (m + 1) - 1 = m /\ m + 1 \in 1 .. Len(s)
    BY <1>1
  <2>2. v[m + 1] = 2 * v[m] + s[m + 1] /\ q[m + 1] = 2 * q[m]
    BY <1>3, <2>1
  <2>3. s[m + 1] \in {0, 1}
    BY <2>1 DEF Bit
  <2>4. v[m] \in Nat /\ q[m] \in Nat /\ v[m] < q[m]
    BY <1>5
  <2>5. 2 * v[m] + s[m + 1] \in Nat /\ 2 * q[m] \in Nat /\ 2 * v[m] + s[m + 1] < 2 * q[m]
    BY <2>3, <2>4
  <2>6. QED
    BY <2>1, <2>2, <2>5
<1>6. P \in S
  <2> HIDE DEF S
  <2>1. \A k \in 0 .. P : k \in S
    BY <1>1, <1>4, <1>5, InductionUpTo
  <2>2. QED
    BY <1>1, <2>1
<1>7. Value(s) = v[P]
  BY <1>2 DEF Value, Prefixes
<1>8. QED
  BY <1>2, <1>6, <1>7

\* The bits of a position that have been read: a byte and some of what its code needs.
ReadBits(s) ==
    /\ s \in Seq(Bit) /\ SubSeq(s, 1, W) \in Char
    /\ Len(s) \in W .. (W + d_len[SubSeq(s, 1, W)]) - 1

LEMMA PositionIs ==
    ASSUME ReadBits(i), Len(i) = W + d_len[SubSeq(i, 1, W)] - 1
    PROVE  Position \in Positions /\ Position \in 0 .. SBSIZE - 1
<1>1. PICK r \in Char : r = SubSeq(i, 1, W)
  BY DEF ReadBits
<1>2. /\ W \in Nat /\ P \in Nat /\ 0 < P /\ P <= W /\ SBSIZE \in Nat
  BY RingSizes
<1>3. PICK l \in Nat : l = Len(i) /\ l >= W
  BY <1>2 DEF ReadBits
<1>4. PICK u : u = SubSeq(i, Len(i) - P + 1, Len(i))
  OBVIOUS
<1>5. u \in Seq(Bit) /\ Len(u) = P
  <2>1. i \in Seq(Bit)
    BY DEF ReadBits
  <2>2. PICK a \in 1 .. l : a = l - P + 1
    BY <1>2, <1>3
  <2>3. u = SubSeq(i, a, l)
    BY <1>3, <1>4, <2>2
  <2>4. \A k \in a .. l : i[k] \in Bit
    BY <1>3, <2>1
  <2>5. SubSeq(i, a, l) \in Seq(Bit) /\ Len(SubSeq(i, a, l)) = (l - a) + 1
    BY <1>3, <2>1, <2>2, <2>4
  <2>6. QED
    BY <1>2, <2>2, <2>3, <2>5
<1>6. Value(u) \in 0 .. Pow2[P] - 1 /\ Pow2[P] \in Nat /\ Pow2[P] > 0
  BY <1>5, ValueBound
<1>7. d_code[r] \in Nat /\ (d_code[r] + 1) * Pow2[P] <= SBSIZE
  BY CodeAssumption
<1>8. PICK d \in Nat, q \in Nat, v \in Nat : d = d_code[r] /\ q = Pow2[P] /\ v = Value(u)
  BY <1>6, <1>7
<1>9. Position = d * q + v
  BY <1>1, <1>4, <1>8 DEF Position
<1>10. v < q /\ (d + 1) * q <= SBSIZE
  BY <1>6, <1>7, <1>8
<1>11. PICK m \in Nat : m = d * q
  OBVIOUS
<1>12. m + q <= SBSIZE
  BY <1>10, <1>11
<1>13. Position \in 0 .. SBSIZE - 1
  BY <1>2, <1>9, <1>10, <1>11, <1>12
<1>14. Position \in m .. m + q - 1
  BY <1>9, <1>10, <1>11
<1>15. Position \in Positions
  BY <1>8, <1>11, <1>14 DEF Positions
<1>16. QED
  BY <1>13, <1>15

-----------------------------------------------------------------------------
(* The string that is copied.                                              *)

\* How far back the next byte of a string is.
Distance(r, gi, gk) == ((r - gi - gk - 1) % SBSIZE) + 1

\* The distance, from the turns of the ring that lie between.
LEMMA DistanceIs ==
    ASSUME NEW r \in 0 .. SBSIZE - 1, NEW gi \in 0 .. SBSIZE - 1, NEW gk \in 0 .. LASIZE,
           NEW e \in 0 .. SBSIZE - 1,
           \/ r - gi - gk - 1 = e
           \/ r - gi - gk - 1 = e - SBSIZE
           \/ r - gi - gk - 1 = e - 2 * SBSIZE
    PROVE  Distance(r, gi, gk) = e + 1
<1>1. SBSIZE \in Nat /\ SBSIZE > 0 /\ LASIZE \in Nat
  BY RingSizes
<1>2. PICK x \in Int : x = r - gi - gk - 1
  BY <1>1
<1>3. x = e \/ x = e - SBSIZE \/ x = e - 2 * SBSIZE
  BY <1>2
<1>4. x % SBSIZE = e
  BY <1>1, <1>2, <1>3, Turned
<1>5. QED
  BY <1>2, <1>4 DEF Distance

LEMMA DistanceExists ==
    ASSUME NEW r \in 0 .. SBSIZE - 1, NEW gi \in 0 .. SBSIZE - 1, NEW gk \in 0 .. LASIZE
    PROVE  \E e \in 0 .. SBSIZE - 1 :
               \/ r - gi - gk - 1 = e
               \/ r - gi - gk - 1 = e - SBSIZE
               \/ r - gi - gk - 1 = e - 2 * SBSIZE
<1>1. SBSIZE \in Nat /\ SBSIZE > 0 /\ LASIZE \in Nat /\ LASIZE < SBSIZE
  BY RingSizes
<1>2. PICK x \in Int : x = r - gi - gk - 1
  BY <1>1
<1>3. x + 2 * SBSIZE >= 0 /\ x < SBSIZE
  BY <1>1, <1>2
<1>4. CASE x >= 0
  <2>1. x \in 0 .. SBSIZE - 1
    BY <1>1, <1>3, <1>4
  <2>2. QED
    BY <1>2, <2>1
<1>5. CASE x < 0 /\ x + SBSIZE >= 0
  <2>1. x + SBSIZE \in 0 .. SBSIZE - 1 /\ x = (x + SBSIZE) - SBSIZE
    BY <1>1, <1>5
  <2>2. QED
    BY <1>2, <2>1
<1>6. CASE x + SBSIZE < 0
  <2>1. x + 2 * SBSIZE \in 0 .. SBSIZE - 1 /\ x = (x + 2 * SBSIZE) - 2 * SBSIZE
    BY <1>1, <1>3, <1>6
  <2>2. QED
    BY <1>2, <2>1
<1>7. QED
  BY <1>1, <1>4, <1>5, <1>6

\* The next byte of a string is as far back in the ring, and one byte further on both
\* have moved.
LEMMA CopiedByte ==
    ASSUME NEW r \in 0 .. SBSIZE - 1, NEW gi \in 0 .. SBSIZE - 1, NEW gk \in 0 .. LASIZE - 1
    PROVE  /\ Distance(r, gi, gk) \in 1 .. SBSIZE
           /\ (r - Distance(r, gi, gk)) % SBSIZE = (gk + gi) % SBSIZE
           /\ (gk + gi) % SBSIZE \in 0 .. SBSIZE - 1
           /\ Distance((r + 1) % SBSIZE, gi, gk + 1) = Distance(r, gi, gk)
<1>1. /\ SBSIZE \in Nat /\ SBSIZE > 0 /\ LASIZE \in Nat /\ LASIZE < SBSIZE
      /\ r \in Nat /\ gi \in Nat /\ gk \in Nat /\ gk \in 0 .. LASIZE /\ gk + 1 \in 0 .. LASIZE
  BY RingSizes
<1>2. PICK e \in 0 .. SBSIZE - 1 :
               \/ r - gi - gk - 1 = e
               \/ r - gi - gk - 1 = e - SBSIZE
               \/ r - gi - gk - 1 = e - 2 * SBSIZE
  BY <1>1, DistanceExists
<1>3. Distance(r, gi, gk) = e + 1 /\ e + 1 \in 1 .. SBSIZE
  <2>1. Distance(r, gi, gk) = e + 1
    BY <1>1, <1>2, DistanceIs
  <2>2. QED
    BY <1>1, <2>1
<1>4. PICK x \in 0 .. SBSIZE - 1 :
          x = (r - (e + 1)) % SBSIZE
          /\ x = IF e + 1 <= r THEN r - (e + 1) ELSE (r - (e + 1)) + SBSIZE
  BY <1>3, Before
<1>5. (gk + gi) % SBSIZE = x
  <2>1. PICK y \in Int : y = gk + gi
    BY <1>1
  <2>2. y < 2 * SBSIZE /\ y >= 0
    BY <1>1, <2>1
  <2>3. r - (e + 1) = y \/ r - (e + 1) = y - SBSIZE \/ r - (e + 1) = y - 2 * SBSIZE
        \/ r - (e + 1) = y + SBSIZE
    BY <1>1, <1>2, <2>1
  <2>4. y = x \/ y = x + SBSIZE
    BY <1>1, <1>4, <2>2, <2>3
  <2>5. y % SBSIZE = x
    BY <1>1, <2>4, Turned
  <2>6. QED
    BY <2>1, <2>5
<1>6. Distance((r + 1) % SBSIZE, gi, gk + 1) = e + 1
  <2>1. PICK q \in 0 .. SBSIZE - 1 :
            q = (r + 1) % SBSIZE /\ q = IF r + 1 < SBSIZE THEN r + 1 ELSE 0
    BY After
  <2>2. \/ q - gi - (gk + 1) - 1 = e
        \/ q - gi - (gk + 1) - 1 = e - SBSIZE
        \/ q - gi - (gk + 1) - 1 = e - 2 * SBSIZE
    BY <1>1, <1>2, <2>1
  <2>3. Distance(q, gi, gk + 1) = e + 1
    BY <1>1, <2>2, DistanceIs
  <2>4. QED
    BY <2>1, <2>3
<1>7. QED
  BY <1>3, <1>4, <1>5, <1>6

\* A string begins where its position says.
LEMMA BeginsBack ==
    ASSUME NEW r \in 0 .. SBSIZE - 1, NEW p \in 0 .. SBSIZE - 1
    PROVE  /\ (r - p - 1) % SBSIZE \in 0 .. SBSIZE - 1
           /\ Distance(r, (r - p - 1) % SBSIZE, 0) = p + 1
<1>1. SBSIZE \in Nat /\ SBSIZE > 0 /\ LASIZE \in Nat /\ 0 \in 0 .. LASIZE /\ p + 1 \in 1 .. SBSIZE
  BY RingSizes
<1>2. PICK g \in 0 .. SBSIZE - 1 :
          g = (r - (p + 1)) % SBSIZE
          /\ g = IF p + 1 <= r THEN r - (p + 1) ELSE (r - (p + 1)) + SBSIZE
  BY <1>1, Before
<1>3. r - p - 1 = r - (p + 1)
  BY <1>1
<1>4. r - g - 0 - 1 = p \/ r - g - 0 - 1 = p - SBSIZE
  BY <1>1, <1>2
<1>5. Distance(r, g, 0) = p + 1
  BY <1>1, <1>4, DistanceIs
<1>6. QED
  BY <1>2, <1>3, <1>5

-----------------------------------------------------------------------------
(* The steps.                                                              *)

\* A string is copied while decode_char waits.
StringInv ==
    /\ GBstate \in BOOLEAN
    /\ pc # "idle" => ~GBstate
    /\ GBstate => /\ GBi \in 0 .. SBSIZE - 1 /\ GBj \in THRESHOLD + 1 .. LASIZE
                  /\ GBk \in 0 .. GBj

LzssInv == RingInv /\ StringInv /\ (pc = "position" => ReadBits(i))

\* What is left of the string, and how far back its next byte is.
Left == IF GBstate THEN GBj - GBk ELSE 0
HowFar == IF GBstate /\ GBk < GBj THEN Distance(GBr, GBi, GBk) ELSE 0

TextVars == <<text, HowFar, Left>>

LEMMA RingUnchanged == RingInv /\ UNCHANGED <<ring, text>> => RingInv'
BY DEF RingInv, ring

LEMMA LzssInit == Init => LzssInv /\ text = <<>> /\ HowFar = 0 /\ Left = 0
<1> SUFFICES ASSUME Init PROVE LzssInv /\ text = <<>> /\ HowFar = 0 /\ Left = 0
  OBVIOUS
<1>1. /\ ring_buff = [n \in 0 .. SBSIZE - 1 |-> Blank] /\ GBr = SBSIZE - LASIZE
      /\ text = <<>> /\ GBstate = FALSE /\ pc = "idle"
  BY DEF Init
<1>2. SBSIZE \in Nat /\ LASIZE \in Nat /\ 0 < LASIZE /\ LASIZE < SBSIZE
  BY RingSizes
<1>3. GBr \in 0 .. SBSIZE - 1
  BY <1>1, <1>2
<1>4. RingHolds(ring_buff, GBr, text)
  <2>1. ASSUME NEW d \in 1 .. SBSIZE PROVE ring_buff[(GBr - d) % SBSIZE] = BackOf(text, d)
    <3>1. (GBr - d) % SBSIZE \in 0 .. SBSIZE - 1
      BY <1>3, Before
    <3>2. Len(text) = 0 /\ ~(d <= Len(text))
      BY <1>1
    <3>3. QED
      BY <1>1, <3>1, <3>2 DEF BackOf
  <2>2. QED
    BY <2>1 DEF RingHolds
<1>5. ring_buff \in [0 .. SBSIZE - 1 -> Content] /\ text \in Seq(Content)
  BY <1>1 DEF Content
<1>6. QED
  BY <1>1, <1>3, <1>4, <1>5 DEF LzssInv, RingInv, StringInv, HowFar, Left

\* The steps that neither touch the ring nor a string.
LEMMA QuietStep ==
    ASSUME LzssInv, UNCHANGED <<ring, string, text>>, pc' # "idle" => ~GBstate,
           pc' = "position" => ReadBits(i')
    PROVE  LzssInv' /\ UNCHANGED TextVars
<1>1. /\ GBr' = GBr /\ GBstate' = GBstate /\ GBi' = GBi /\ GBj' = GBj /\ GBk' = GBk
      /\ text' = text
  BY DEF ring, string
<1>2. RingInv'
  BY RingUnchanged DEF LzssInv
<1>3. StringInv'
  BY <1>1 DEF LzssInv, StringInv
<1>4. QED
  BY <1>1, <1>2, <1>3 DEF LzssInv, TextVars, HowFar, Left, Distance

LEMMA CountingStep ==
    ASSUME LzssInv, \/ DecodeChar \/ Walk \/ Found \/ KeepTree \/ Climb
                    \/ Rebuild \/ HalveLeaf \/ LeavesHalved \/ JoinNodes \/ ConnectParents
    PROVE  LzssInv' /\ UNCHANGED TextVars
<1>1. UNCHANGED <<ring, string, text>> /\ pc' # "idle" /\ pc' # "position"
  BY DEF DecodeChar, Walk, Found, KeepTree, Climb, Rebuild, HalveLeaf, LeavesHalved,
         JoinNodes, ConnectParents
<1>2. ~GBstate
  BY DEF LzssInv, StringInv, DecodeChar, Walk, Found, KeepTree, Climb, Rebuild, HalveLeaf,
         LeavesHalved, JoinNodes, ConnectParents
<1>3. QED
  BY <1>1, <1>2, QuietStep

LEMMA PositionHighStep ==
    ASSUME LzssInv, PositionHigh PROVE LzssInv' /\ UNCHANGED TextVars
<1>1. UNCHANGED <<ring, string, text>> /\ pc' = "position" /\ pc = "decoded"
  BY DEF PositionHigh, tree
<1>2. PICK b \in Char : i' = b
  BY DEF PositionHigh
<1>3. W \in Nat /\ 0 < W
  BY RingSizes
<1>4. b \in [1 .. W -> Bit]
  BY DEF Char
<1>5. b \in Seq(Bit) /\ Len(b) = W
  BY <1>3, <1>4
<1>6. SubSeq(b, 1, W) = b
  <2>1. SubSeq(b, 1, W) = [k \in 1 .. W |-> b[k]]
    BY <1>3, <1>5
  <2>2. QED
    BY <1>4, <2>1
<1>7. d_len[b] \in Nat /\ d_len[b] >= 1
  BY SizesAssumption, CodeAssumption
<1>8. ReadBits(i')
  <2>1. PICK m \in Nat : m = d_len[b] /\ m >= 1
    BY <1>7
  <2>2. W \in W .. (W + m) - 1
    BY <1>3, <2>1
  <2>3. ReadBits(b)
    BY <1>5, <1>6, <2>1, <2>2 DEF ReadBits
  <2>4. QED
    BY <1>2, <2>3 DEF ReadBits
<1>9. QED
  BY <1>1, <1>8, QuietStep DEF LzssInv, StringInv

LEMMA PositionLowStep ==
    ASSUME LzssInv, PositionLow PROVE LzssInv' /\ UNCHANGED TextVars
<1>1. UNCHANGED <<ring, string, text>> /\ pc' = "position" /\ pc = "position"
  BY DEF PositionLow, tree
<1>2. PICK b \in Bit : i' = Append(i, b) /\ Len(i) < W + d_len[SubSeq(i, 1, W)] - 1
  BY DEF PositionLow
<1>3. W \in Nat /\ 0 < W
  BY RingSizes
<1>4. ReadBits(i)
  BY <1>1 DEF LzssInv
<1>5. PICK l \in Nat : l = Len(i) /\ l >= W
  BY <1>3, <1>4 DEF ReadBits
<1>6. PICK u \in Seq(Bit) : u = Append(i, b)
  <2>1. Append(i, b) \in Seq(Bit)
    BY <1>4 DEF ReadBits
  <2>2. QED
    BY <2>1
<1>7. Len(u) = l + 1 /\ \A k \in 1 .. l : u[k] = i[k]
  BY <1>4, <1>5, <1>6 DEF ReadBits
<1>8. SubSeq(u, 1, W) = SubSeq(i, 1, W)
  <2>1. SubSeq(u, 1, W) = [k \in 1 .. W |-> u[k]] /\ SubSeq(i, 1, W) = [k \in 1 .. W |-> i[k]]
    BY <1>3, <1>4, <1>5, <1>7 DEF ReadBits
  <2>2. \A k \in 1 .. W : k \in 1 .. l
    BY <1>3, <1>5
  <2>3. QED
    BY <1>7, <2>1, <2>2
<1>9. PICK r \in Char, m \in Nat : r = SubSeq(i, 1, W) /\ m = d_len[r] /\ m >= 1
  <2>1. SubSeq(i, 1, W) \in Char
    BY <1>4 DEF ReadBits
  <2>2. d_len[SubSeq(i, 1, W)] \in Nat /\ d_len[SubSeq(i, 1, W)] >= 1
    BY <2>1, SizesAssumption, CodeAssumption
  <2>3. QED
    BY <2>1, <2>2
<1>10. l + 1 \in W .. (W + m) - 1
  BY <1>2, <1>3, <1>5, <1>9
<1>11. ReadBits(i')
  BY <1>2, <1>6, <1>7, <1>8, <1>9, <1>10 DEF ReadBits
<1>12. QED
  BY <1>1, <1>11, QuietStep DEF LzssInv, StringInv

LEMMA EndStringStep ==
    ASSUME LzssInv, EndString PROVE LzssInv' /\ UNCHANGED TextVars
<1>1. /\ UNCHANGED <<ring, text>> /\ GBstate /\ GBk = GBj /\ GBstate' = FALSE
      /\ pc = "idle" /\ pc' = "idle"
  BY DEF EndString, tree
<1>2. RingInv'
  BY <1>1, RingUnchanged DEF LzssInv
<1>3. GBj \in Nat /\ GBk \in Nat
  <2>1. THRESHOLD \in Nat /\ LASIZE \in Nat
    BY RingSizes
  <2>2. QED
    BY <1>1, <2>1 DEF LzssInv, StringInv
<1>4. HowFar = 0 /\ Left = 0 /\ HowFar' = 0 /\ Left' = 0
  BY <1>1, <1>3 DEF HowFar, Left
<1>5. QED
  BY <1>1, <1>2, <1>4 DEF LzssInv, StringInv, TextVars

LEMMA LiteralStep ==
    ASSUME LzssInv, CharPhase, Literal
    PROVE  /\ LzssInv' /\ c \in 0 .. Bytes - 1 /\ text' = Append(text, c)
           /\ Left = 0 /\ Left' = 0 /\ HowFar' = HowFar
<1>1. Put(c) /\ c < Bytes /\ pc = "decoded" /\ pc' = "idle" /\ UNCHANGED string
  BY DEF Literal
<1>2. c \in 0 .. Bytes - 1
  <2>1. c \in Character /\ N_CHAR \in Nat /\ Bytes \in Nat
    BY <1>1, TreeSizes DEF CharPhase, Counting
  <2>2. QED
    BY <1>1, <2>1 DEF Character
<1>3. RingInv' /\ text' = Append(text, c)
  <2>1. c \in Content
    BY <1>2 DEF Content
  <2>2. QED
    BY <1>1, <2>1, PutKeepsRing DEF LzssInv
<1>4. GBstate = FALSE /\ GBstate' = FALSE
  BY <1>1 DEF LzssInv, StringInv, string
<1>5. StringInv'
  BY <1>1, <1>4 DEF StringInv
<1>6. QED
  BY <1>1, <1>2, <1>3, <1>4, <1>5 DEF LzssInv, HowFar, Left

LEMMA BeginStringStep ==
    ASSUME LzssInv, CharPhase, BeginString
    PROVE  /\ LzssInv' /\ text' = text
           /\ Left = 0 /\ Left' \in THRESHOLD + 1 .. LASIZE
           /\ HowFar' \in {p + 1 : p \in Positions}
<1>1. /\ pc = "position" /\ Len(i) = W + d_len[SubSeq(i, 1, W)] - 1 /\ pc' = "idle"
      /\ GBstate' = TRUE /\ GBi' = (GBr - Position - 1) % SBSIZE
      /\ GBj' = c - (Bytes - 1) + THRESHOLD /\ GBk' = 0 /\ UNCHANGED <<ring, text>>
  BY DEF BeginString, tree
<1>2. /\ SBSIZE \in Nat /\ LASIZE \in Nat /\ THRESHOLD \in Nat /\ Bytes \in Nat
      /\ THRESHOLD < LASIZE
  BY RingSizes
<1>3. Position \in Positions /\ Position \in 0 .. SBSIZE - 1
  BY <1>1, PositionIs DEF LzssInv
<1>4. GBr \in 0 .. SBSIZE - 1 /\ GBr' = GBr
  BY <1>1 DEF LzssInv, RingInv, ring
<1>5. GBi' \in 0 .. SBSIZE - 1 /\ Distance(GBr', GBi', GBk') = Position + 1
  BY <1>1, <1>3, <1>4, BeginsBack
<1>6. GBj' \in THRESHOLD + 1 .. LASIZE
  <2>1. c \in Character /\ c >= Bytes
    BY <1>1 DEF CharPhase, Counting
  <2>2. c \in Nat /\ c <= (Bytes - THRESHOLD + LASIZE) - 1
    BY <1>2, <2>1 DEF Character, N_CHAR
  <2>3. QED
    BY <1>1, <1>2, <2>1, <2>2
<1>7. RingInv'
  BY <1>1, RingUnchanged DEF LzssInv
<1>8. StringInv'
  BY <1>1, <1>2, <1>5, <1>6 DEF StringInv
<1>9. GBk' < GBj' /\ GBj' - GBk' = GBj'
  BY <1>1, <1>2, <1>6
<1>10. Left' = GBj' /\ HowFar' = Position + 1
  BY <1>1, <1>5, <1>9 DEF Left, HowFar
<1>11. Left = 0
  BY <1>1 DEF LzssInv, StringInv, Left
<1>12. QED
  BY <1>1, <1>3, <1>6, <1>7, <1>8, <1>10, <1>11 DEF LzssInv

LEMMA CopyByteStep ==
    ASSUME LzssInv, CopyByte
    PROVE  /\ LzssInv' /\ text' = Append(text, BackOf(text, HowFar)) /\ HowFar \in Nat
           /\ Left > 0 /\ Left' = Left - 1 /\ HowFar' = IF Left = 1 THEN 0 ELSE HowFar
<1>1. /\ pc = "idle" /\ pc' = "idle" /\ GBstate = TRUE /\ GBstate' = TRUE /\ GBk < GBj
      /\ Put(ring_buff[StringPlace]) /\ GBk' = GBk + 1 /\ GBi' = GBi /\ GBj' = GBj
  BY DEF CopyByte, LzssInv, StringInv
<1>2. SBSIZE \in Nat /\ LASIZE \in Nat /\ THRESHOLD \in Nat
  BY RingSizes
<1>3. /\ GBi \in 0 .. SBSIZE - 1 /\ GBj \in THRESHOLD + 1 .. LASIZE /\ GBk \in 0 .. GBj
      /\ GBr \in 0 .. SBSIZE - 1
  BY <1>1 DEF LzssInv, StringInv, RingInv
<1>4. GBj \in Nat /\ GBk \in Nat /\ GBj <= LASIZE /\ GBk \in 0 .. LASIZE - 1
  BY <1>1, <1>2, <1>3
<1>5. PICK d \in 1 .. SBSIZE : d = Distance(GBr, GBi, GBk)
  BY <1>3, <1>4, CopiedByte
<1>6. /\ (GBr - d) % SBSIZE = StringPlace /\ StringPlace \in 0 .. SBSIZE - 1
      /\ Distance((GBr + 1) % SBSIZE, GBi, GBk + 1) = d
  BY <1>3, <1>4, <1>5, CopiedByte DEF StringPlace
<1>7. ring_buff[StringPlace] = BackOf(text, d) /\ ring_buff[StringPlace] \in Content
  BY <1>6 DEF LzssInv, RingInv, RingHolds
<1>8. RingInv' /\ text' = Append(text, BackOf(text, d))
  BY <1>1, <1>7, PutKeepsRing DEF LzssInv
<1>9. HowFar = d /\ Left = GBj - GBk
  BY <1>1, <1>5 DEF HowFar, Left
<1>10. Left' = GBj - (GBk + 1) /\ HowFar' = IF GBk + 1 < GBj THEN d ELSE 0
  <2>1. GBr' = (GBr + 1) % SBSIZE
    BY <1>1 DEF Put
  <2>2. QED
    BY <1>1, <1>6, <2>1 DEF HowFar, Left
<1>11. Left > 0 /\ Left' = Left - 1 /\ HowFar' = IF Left = 1 THEN 0 ELSE HowFar
  BY <1>1, <1>4, <1>9, <1>10
<1>12. GBk' \in 0 .. GBj'
  BY <1>1, <1>4
<1>13. StringInv'
  BY <1>1, <1>3, <1>12 DEF StringInv
<1>14. d \in Nat
  BY <1>2
<1>15. QED
  BY <1>1, <1>8, <1>9, <1>11, <1>13, <1>14 DEF LzssInv

LEMMA LzssStep ==
    LzssInv /\ CharPhase /\ [Next]_vars => LzssInv' /\ [Text!Next]_(Text!vars)
<1> SUFFICES ASSUME LzssInv, CharPhase, [Next]_vars
             PROVE  LzssInv' /\ [Text!Next]_(Text!vars)
  OBVIOUS
<1>1. UNCHANGED TextVars => UNCHANGED Text!vars
  BY DEF TextVars, HowFar, Left, Distance, Text!vars
<1>2. CASE \/ DecodeChar \/ Walk \/ Found \/ KeepTree \/ Climb
           \/ Rebuild \/ HalveLeaf \/ LeavesHalved \/ JoinNodes \/ ConnectParents
  BY <1>1, <1>2, CountingStep
<1>3. CASE PositionHigh \/ PositionLow \/ EndString
  BY <1>1, <1>3, PositionHighStep, PositionLowStep, EndStringStep
<1>4. CASE Literal
  <2>1. Text!Literal(c)
    BY <1>4, LiteralStep DEF Text!Literal, HowFar, Left, Distance
  <2>2. QED
    BY <1>4, <2>1, LiteralStep DEF Text!Next
<1>5. CASE BeginString
  <2>1. PICK d \in {p + 1 : p \in Positions}, n \in THRESHOLD + 1 .. LASIZE :
            d = HowFar' /\ n = Left'
    BY <1>5, BeginStringStep
  <2>2. Text!Begin(d, n)
    BY <1>5, <2>1, BeginStringStep DEF Text!Begin, HowFar, Left, Distance
  <2>3. QED
    BY <1>5, <2>1, <2>2, BeginStringStep DEF Text!Next
<1>6. CASE CopyByte
  <2>1. Text!Back(HowFar) = BackOf(text, HowFar)
    <3>1. PICK d \in Nat, l \in Nat : d = HowFar /\ l = Len(text)
      <4>1. Len(text) \in Nat
        BY DEF LzssInv, RingInv
      <4>2. QED
        BY <1>6, <4>1, CopyByteStep
    <3>2. Text!Back(d) = IF d <= l THEN text[l + 1 - d] ELSE Blank
      BY <3>1 DEF Text!Back
    <3>3. l + 1 - d = (l + 1) - d
      OBVIOUS
    <3>4. Text!Back(d) = BackOf(text, d)
      BY <3>1, <3>2, <3>3 DEF BackOf
    <3>5. QED
      BY <3>1, <3>4
  <2>2. Text!Copy
    BY <1>6, <2>1, CopyByteStep DEF Text!Copy, HowFar, Left, Distance
  <2>3. QED
    BY <1>6, <2>2, CopyByteStep DEF Text!Next
<1>7. CASE UNCHANGED vars
  <2>1. /\ UNCHANGED <<ring, string, text, pc, i>>
    BY <1>7 DEF vars
  <2>2. QED
    BY <1>1, <2>1, QuietStep DEF LzssInv, StringInv
<1>8. QED
  BY <1>2, <1>3, <1>4, <1>5, <1>6, <1>7 DEF Next

\* Whatever a Teledisk file holds, what get_byte returns is an LZSS text: every byte is
\* given literally or is the byte that stands as far back as a position says, when the
\* ring wraps and when a string overlaps itself (get_byte, decode_position).
THEOREM TextIsLzss == Spec => ImplementsLzss
<1>1. Init => LzssInv /\ Text!Init
  BY LzssInit DEF Text!Init, HowFar, Left, Distance
<1>2. TreeIndInv => CharPhase
  BY DEF TreeIndInv
<1>3. QED
  BY <1>1, <1>2, LzssStep, InitTree, TreeNext, PTL DEF Spec, ImplementsLzss, Text!Spec

-----------------------------------------------------------------------------
(* The bits of the file.                                                   *)

USE SizesAssumption

\* The buffer bit by bit: what is left of the last byte, then zeros.
Remains(buf, r, n) ==
    /\ n \in 0 .. W - 1 /\ r \in Char /\ buf \in [1 .. 2 * W -> Bit]
    /\ \A k \in 1 .. 2 * W : buf[k] = IF k <= n THEN r[W - n + k] ELSE 0

BitsInv == Remains(Bitbuff, raw, Bits)

LEMMA WType == W \in Nat /\ W > 0
OBVIOUS

\* u is m bits of s and then n of t.
Joins(u, s, t, m, n) ==
    /\ Len(u) = m + n /\ u \in Seq(Bit) /\ u \in [1 .. m + n -> Bit]
    /\ \A k \in 1 .. m + n : u[k] = IF k <= m THEN s[k] ELSE t[k - m]

LEMMA Concatenated ==
    ASSUME NEW s \in Seq(Bit), NEW t \in Seq(Bit), NEW m \in Nat, NEW n \in Nat,
           Len(s) = m, Len(t) = n
    PROVE  Joins(s \o t, s, t, m, n)
<1>1. s \o t \in Seq(Bit) /\ Len(s \o t) = m + n
  OBVIOUS
<1>2. s \o t \in [1 .. Len(s \o t) -> Bit]
  <2>1. PICK u \in Seq(Bit) : u = s \o t
    BY <1>1
  <2>2. u \in [1 .. Len(u) -> Bit]
    OBVIOUS
  <2>3. QED
    BY <2>1, <2>2
<1>3. \A k \in 1 .. m + n : (s \o t)[k] = IF k <= m THEN s[k] ELSE t[k - m]
  OBVIOUS
<1>4. QED
  BY <1>1, <1>2, <1>3 DEF Joins

\* A shift by n bits.
LEMMA ShiftedBits ==
    ASSUME NEW buf \in [1 .. 2 * W -> Bit], NEW n \in 0 .. 2 * W
    PROVE  /\ Shifted(buf, n) \in [1 .. 2 * W -> Bit]
           /\ \A k \in 1 .. 2 * W :
                 Shifted(buf, n)[k] = IF k <= 2 * W - n THEN buf[n + k] ELSE 0
<1>1. W \in Nat /\ 2 * W \in Nat
  BY WType
<1>2. buf \in Seq(Bit) /\ Len(buf) = 2 * W
  BY <1>1
<1> DEFINE s == SubSeq(buf, n + 1, 2 * W)
           z == Zeros(n)
<1>3. /\ s \in Seq(Bit) /\ Len(s) = 2 * W - n
      /\ \A k \in 1 .. 2 * W - n : s[k] = buf[n + k]
  BY <1>1, <1>2
<1>4. z \in Seq(Bit) /\ Len(z) = n /\ \A k \in 1 .. n : z[k] = 0
  BY DEF Zeros, Bit
<1> HIDE DEF s, z
<1>5. PICK m \in Nat : m = 2 * W - n /\ n \in Nat /\ m + n = 2 * W
  <2>1. PICK l \in Nat : l = 2 * W
    BY <1>1
  <2>2. n \in Nat /\ l - n \in Nat /\ (l - n) + n = l
    BY <2>1
  <2>3. QED
    BY <2>1, <2>2
<1>6. PICK u : u = s \o z
  OBVIOUS
<1>7. Joins(u, s, z, m, n)
  <2>1. Len(s) = m /\ Len(z) = n /\ s \in Seq(Bit) /\ z \in Seq(Bit)
    BY <1>3, <1>4, <1>5
  <2>2. QED
    BY <1>5, <1>6, <2>1, Concatenated
<1>8. /\ u \in [1 .. 2 * W -> Bit]
      /\ \A k \in 1 .. 2 * W : u[k] = IF k <= m THEN s[k] ELSE z[k - m]
  BY <1>5, <1>7 DEF Joins
<1>9. ASSUME NEW k \in 1 .. 2 * W
      PROVE  u[k] = IF k <= 2 * W - n THEN buf[n + k] ELSE 0
  <2>1. CASE k <= m
    BY <1>1, <1>3, <1>5, <1>8, <2>1
  <2>2. CASE ~(k <= m)
    <3>1. k - m \in 1 .. n
      BY <1>1, <1>5, <2>2
    <3>2. QED
      BY <1>4, <1>5, <1>8, <2>2, <3>1
  <2>3. QED
    BY <2>1, <2>2
<1>10. Shifted(buf, n) = u
  BY <1>6 DEF Shifted, s, z
<1>11. QED
  BY <1>8, <1>9, <1>10

\* A byte below n bits.
LEMMA BelowBits ==
    ASSUME NEW r \in Char, NEW n \in 0 .. W
    PROVE  /\ Below(n, r) \in [1 .. 2 * W -> Bit]
           /\ \A k \in 1 .. 2 * W :
                 Below(n, r)[k] = IF n < k /\ k <= n + W THEN r[k - n] ELSE 0
<1>1. W \in Nat /\ 2 * W \in Nat /\ W - n \in Nat
  BY WType
<1>2. r \in Seq(Bit) /\ Len(r) = W
  BY <1>1 DEF Char
<1> DEFINE y == Zeros(n)
           z == Zeros(W - n)
<1>3. y \in Seq(Bit) /\ Len(y) = n /\ \A k \in 1 .. n : y[k] = 0
  BY DEF Zeros, Bit
<1>4. z \in Seq(Bit) /\ Len(z) = W - n /\ \A k \in 1 .. W - n : z[k] = 0
  BY <1>1 DEF Zeros, Bit
<1>5. Below(n, r) = (y \o r) \o z
  BY DEF Below, y, z
<1> HIDE DEF y, z
<1>6. PICK x, u, m, l : /\ x = y \o r /\ u = x \o z /\ m = n + W /\ l = W - n
  OBVIOUS
<1>7. /\ n \in Nat /\ m \in Nat /\ l \in Nat /\ m + l = 2 * W
  BY <1>1, <1>6
<1>8. Joins(x, y, r, n, W)
  BY <1>1, <1>2, <1>3, <1>6, <1>7, Concatenated
<1>9. /\ x \in Seq(Bit) /\ Len(x) = m
      /\ \A k \in 1 .. n + W : x[k] = IF k <= n THEN y[k] ELSE r[k - n]
  BY <1>6, <1>8 DEF Joins
<1>10. Joins(u, x, z, m, l)
  <2>1. z \in Seq(Bit) /\ Len(z) = l
    BY <1>4, <1>6
  <2>2. QED
    BY <1>6, <1>7, <1>9, <2>1, Concatenated
<1>11. /\ u \in [1 .. 2 * W -> Bit]
       /\ \A k \in 1 .. 2 * W : u[k] = IF k <= m THEN x[k] ELSE z[k - m]
  BY <1>7, <1>10 DEF Joins
<1>12. ASSUME NEW k \in 1 .. 2 * W
       PROVE  u[k] = IF n < k /\ k <= n + W THEN r[k - n] ELSE 0
  <2>1. CASE k <= n
    <3>1. k <= m /\ k \in 1 .. n + W /\ k \in 1 .. n /\ ~(n < k)
      BY <1>1, <1>6, <1>7, <2>1
    <3>2. QED
      BY <1>3, <1>9, <1>11, <2>1, <3>1
  <2>2. CASE n < k /\ k <= n + W
    <3>1. k <= m /\ k \in 1 .. n + W /\ ~(k <= n)
      BY <1>1, <1>6, <1>7, <2>2
    <3>2. QED
      BY <1>9, <1>11, <2>2, <3>1
  <2>3. CASE n + W < k
    <3>1. ~(k <= m) /\ k - m \in 1 .. W - n /\ ~(k <= n + W)
      BY <1>1, <1>6, <1>7, <2>3
    <3>2. QED
      BY <1>4, <1>11, <3>1
  <2>4. QED
    <3>1. n \in Nat /\ W \in Nat /\ k \in Nat
      BY <1>1, <1>7
    <3>2. QED
      BY <2>1, <2>2, <2>3, <3>1
<1>13. Below(n, r) = u
  BY <1>5, <1>6
<1>14. QED
  BY <1>11, <1>12, <1>13

\* A new byte is put behind what remains of the last one.
LEMMA Refilled ==
    ASSUME NEW buf, NEW r, NEW n, Remains(buf, r, n), NEW q \in Char
    PROVE  /\ Or(buf, Below(n, q)) \in [1 .. 2 * W -> Bit]
           /\ \A k \in 1 .. 2 * W :
                 Or(buf, Below(n, q))[k] = IF k <= n THEN r[W - n + k]
                                           ELSE IF k <= n + W THEN q[k - n] ELSE 0
<1>1. /\ W \in Nat /\ n \in 0 .. W - 1 /\ n \in 0 .. W
      /\ r \in Char /\ buf \in [1 .. 2 * W -> Bit]
      /\ \A k \in 1 .. 2 * W : buf[k] = IF k <= n THEN r[W - n + k] ELSE 0
  BY WType DEF Remains
<1> DEFINE b == Below(n, q)
<1>2. /\ b \in [1 .. 2 * W -> Bit]
      /\ \A k \in 1 .. 2 * W : b[k] = IF n < k /\ k <= n + W THEN q[k - n] ELSE 0
  BY <1>1, BelowBits
<1> HIDE DEF b
<1>3. Or(buf, b) = [k \in 1 .. 2 * W |-> IF buf[k] = 1 \/ b[k] = 1 THEN 1 ELSE 0]
  BY DEF Or
<1>4. Or(buf, b) \in [1 .. 2 * W -> Bit]
  BY <1>3 DEF Bit
<1>5. ASSUME NEW k \in 1 .. 2 * W
      PROVE  Or(buf, b)[k] = IF k <= n THEN r[W - n + k]
                             ELSE IF k <= n + W THEN q[k - n] ELSE 0
  <2>1. buf[k] \in {0, 1} /\ b[k] \in {0, 1}
    BY <1>1, <1>2 DEF Bit
  <2>2. Or(buf, b)[k] = IF buf[k] = 1 \/ b[k] = 1 THEN 1 ELSE 0
    BY <1>3
  <2>3. CASE k <= n
    BY <1>1, <1>2, <2>1, <2>2, <2>3
  <2>4. CASE ~(k <= n)
    BY <1>1, <1>2, <2>1, <2>2, <2>4
  <2>5. QED
    BY <2>3, <2>4
<1>6. QED
  BY <1>4, <1>5 DEF b

LEMMA GetBit ==
    ASSUME BitsInv, NEW b \in Bit, get_bit(b)
    PROVE  BitsInv'
<1>1. /\ W \in Nat /\ W > 0 /\ Bits \in 0 .. W - 1
      /\ raw \in Char /\ Bitbuff \in [1 .. 2 * W -> Bit]
      /\ \A k \in 1 .. 2 * W : Bitbuff[k] = IF k <= Bits THEN raw[W - Bits + k] ELSE 0
  BY WType DEF BitsInv, Remains
<1>2. CASE Bits > 0
  <2>1. /\ raw' = raw /\ Bits' = Bits - 1 /\ Bitbuff' = Shifted(Bitbuff, 1)
    BY <1>2 DEF get_bit, Take
  <2>2. /\ Bitbuff' \in [1 .. 2 * W -> Bit]
        /\ \A k \in 1 .. 2 * W : Bitbuff'[k] = IF k <= 2 * W - 1 THEN Bitbuff[1 + k] ELSE 0
    <3>1. 1 \in 0 .. 2 * W
      BY <1>1
    <3>2. QED
      BY <1>1, <2>1, <3>1, ShiftedBits
  <2>3. ASSUME NEW k \in 1 .. 2 * W
        PROVE  Bitbuff'[k] = IF k <= Bits' THEN raw'[W - Bits' + k] ELSE 0
    <3>1. CASE k <= Bits - 1
      <4>1. 1 + k \in 1 .. 2 * W /\ 1 + k <= Bits /\ k <= 2 * W - 1
        BY <1>1, <3>1
      <4>2. Bitbuff'[k] = raw[W - Bits + (1 + k)]
        BY <1>1, <2>2, <4>1
      <4>3. W - Bits + (1 + k) = W - Bits' + k
        BY <1>1, <2>1
      <4>4. QED
        BY <2>1, <3>1, <4>2, <4>3
    <3>2. CASE ~(k <= Bits - 1)
      <4>1. k <= 2 * W - 1 => 1 + k \in 1 .. 2 * W /\ ~(1 + k <= Bits)
        BY <1>1, <3>2
      <4>2. Bitbuff'[k] = 0
        BY <1>1, <2>2, <4>1
      <4>3. QED
        BY <2>1, <3>2, <4>2
    <3>3. QED
      BY <3>1, <3>2
  <2>4. Bits' \in 0 .. W - 1 /\ raw' \in Char
    BY <1>1, <1>2, <2>1
  <2>5. QED
    BY <2>2, <2>3, <2>4 DEF BitsInv, Remains
<1>3. CASE Bits = 0
  <2>1. PICK r \in Char : /\ raw' = r /\ Bits' = W - 1
                          /\ Bitbuff' = Shifted(Or(Bitbuff, Below(0, r)), 1)
    BY <1>1, <1>3 DEF get_bit, Take
  <2>2. PICK buf : buf = Or(Bitbuff, Below(Bits, r))
    OBVIOUS
  <2>3. /\ buf \in [1 .. 2 * W -> Bit]
        /\ \A k \in 1 .. 2 * W :
              buf[k] = IF k <= Bits THEN raw[W - Bits + k]
                       ELSE IF k <= Bits + W THEN r[k - Bits] ELSE 0
    BY <2>2, Refilled DEF BitsInv
  <2>4. /\ Bitbuff' \in [1 .. 2 * W -> Bit]
        /\ \A k \in 1 .. 2 * W : Bitbuff'[k] = IF k <= 2 * W - 1 THEN buf[1 + k] ELSE 0
    <3>1. 1 \in 0 .. 2 * W /\ Bitbuff' = Shifted(buf, 1)
      BY <1>1, <1>3, <2>1, <2>2
    <3>2. QED
      BY <2>3, <3>1, ShiftedBits
  <2>5. ASSUME NEW k \in 1 .. 2 * W
        PROVE  Bitbuff'[k] = IF k <= Bits' THEN raw'[W - Bits' + k] ELSE 0
    <3>1. CASE k <= W - 1
      <4>1. /\ 1 + k \in 1 .. 2 * W /\ ~(1 + k <= Bits) /\ 1 + k <= Bits + W
            /\ k <= 2 * W - 1
        BY <1>1, <1>3, <3>1
      <4>2. Bitbuff'[k] = r[(1 + k) - Bits]
        BY <2>3, <2>4, <4>1
      <4>3. (1 + k) - Bits = W - Bits' + k
        BY <1>1, <1>3, <2>1
      <4>4. QED
        BY <2>1, <3>1, <4>2, <4>3
    <3>2. CASE ~(k <= W - 1)
      <4>1. k <= 2 * W - 1 =>
               1 + k \in 1 .. 2 * W /\ ~(1 + k <= Bits) /\ ~(1 + k <= Bits + W)
        BY <1>1, <1>3, <3>2
      <4>2. Bitbuff'[k] = 0
        BY <2>3, <2>4, <4>1
      <4>3. QED
        BY <2>1, <3>2, <4>2
    <3>3. QED
      BY <3>1, <3>2
  <2>6. Bits' \in 0 .. W - 1 /\ raw' \in Char
    BY <1>1, <2>1
  <2>7. QED
    BY <2>4, <2>5, <2>6 DEF BitsInv, Remains
<1>4. QED
  BY <1>2, <1>3 DEF get_bit

LEMMA GetUnalignedByte ==
    ASSUME BitsInv, NEW b, get_unaligned_byte(b)
    PROVE  BitsInv'
<1>1. W \in Nat /\ W > 0 /\ Bits \in 0 .. W - 1 /\ raw \in Char
  BY WType DEF BitsInv, Remains
<1>2. PICK r \in Char : /\ raw' = r /\ Bits' = Bits
                        /\ Bitbuff' = Shifted(Or(Bitbuff, Below(Bits, r)), W)
  BY DEF get_unaligned_byte, UnalignedPlace, Take
<1>3. PICK buf : buf = Or(Bitbuff, Below(Bits, r))
  OBVIOUS
<1>4. /\ buf \in [1 .. 2 * W -> Bit]
      /\ \A k \in 1 .. 2 * W :
            buf[k] = IF k <= Bits THEN raw[W - Bits + k]
                     ELSE IF k <= Bits + W THEN r[k - Bits] ELSE 0
  BY <1>3, Refilled DEF BitsInv
<1>5. /\ Bitbuff' \in [1 .. 2 * W -> Bit]
      /\ \A k \in 1 .. 2 * W : Bitbuff'[k] = IF k <= 2 * W - W THEN buf[W + k] ELSE 0
  <2>1. W \in 0 .. 2 * W /\ Bitbuff' = Shifted(buf, W)
    BY <1>1, <1>2, <1>3
  <2>2. QED
    BY <1>4, <2>1, ShiftedBits
<1>6. ASSUME NEW k \in 1 .. 2 * W
      PROVE  Bitbuff'[k] = IF k <= Bits THEN r[W - Bits + k] ELSE 0
  <2>1. CASE k <= Bits
    <3>1. /\ W + k \in 1 .. 2 * W /\ ~(W + k <= Bits) /\ W + k <= Bits + W
          /\ k <= 2 * W - W
      BY <1>1, <2>1
    <3>2. Bitbuff'[k] = r[(W + k) - Bits]
      BY <1>4, <1>5, <3>1
    <3>3. (W + k) - Bits = W - Bits + k
      BY <1>1
    <3>4. QED
      BY <2>1, <3>2, <3>3
  <2>2. CASE ~(k <= Bits)
    <3>1. k <= 2 * W - W =>
             W + k \in 1 .. 2 * W /\ ~(W + k <= Bits) /\ ~(W + k <= Bits + W)
      BY <1>1, <2>2
    <3>2. QED
      BY <1>4, <1>5, <2>2, <3>1
  <2>3. QED
    BY <2>1, <2>2
<1>7. QED
  BY <1>1, <1>2, <1>5, <1>6 DEF BitsInv, Remains

LEMMA BitsInit == Init => BitsInv
<1> SUFFICES ASSUME Init PROVE BitsInv
  OBVIOUS
<1>1. /\ Bits = 0 /\ raw = [k \in 1 .. W |-> 0] /\ Bitbuff = [k \in 1 .. 2 * W |-> 0]
  BY DEF Init, Zeros
<1>2. raw \in Char /\ Bitbuff \in [1 .. 2 * W -> Bit]
  BY <1>1 DEF Char, Bit
<1>3. QED
  BY <1>1, <1>2, WType DEF BitsInv, Remains

LEMMA BitsNext == BitsInv /\ [Next]_vars => BitsInv'
<1> SUFFICES ASSUME BitsInv, [Next]_vars PROVE BitsInv'
  OBVIOUS
<1>1. ASSUME UNCHANGED input PROVE BitsInv'
  BY <1>1 DEF input, BitsInv
<1>2. CASE Walk
  BY <1>2, GetBit DEF Walk
<1>3. CASE PositionHigh
  BY <1>3, GetUnalignedByte DEF PositionHigh
<1>4. CASE PositionLow
  BY <1>4, GetBit DEF PositionLow
<1>5. CASE \/ DecodeChar \/ Found \/ KeepTree \/ Climb
           \/ Rebuild \/ HalveLeaf \/ LeavesHalved \/ JoinNodes \/ ConnectParents
  BY <1>1, <1>5 DEF DecodeChar, Found, KeepTree, Climb,
                    Rebuild, HalveLeaf, LeavesHalved, JoinNodes, ConnectParents
<1>6. CASE Literal \/ BeginString \/ CopyByte \/ EndString
  BY <1>1, <1>6 DEF Literal, BeginString, CopyByte, EndString
<1>7. CASE UNCHANGED vars
  BY <1>1, <1>7 DEF vars
<1>8. QED
  BY <1>2, <1>3, <1>4, <1>5, <1>6, <1>7 DEF Next

\* The bits of a Teledisk file are used once each and in their order, for any bytes
\* and however reads of single bits and of whole bytes follow each other
\* (get_bit, get_unaligned_byte).
THEOREM BitsOnce == Spec => []UnreadBits
<1>1. BitsInv => UnreadBits
  <2> SUFFICES ASSUME BitsInv PROVE UnreadBits
    OBVIOUS
  <2>1. /\ W \in Nat /\ W > 0 /\ Bits \in 0 .. W - 1
        /\ raw \in Char /\ Bitbuff \in [1 .. 2 * W -> Bit]
        /\ \A k \in 1 .. 2 * W : Bitbuff[k] = IF k <= Bits THEN raw[W - Bits + k] ELSE 0
    BY WType DEF BitsInv, Remains
  <2> DEFINE s == SubSeq(raw, W - Bits + 1, W)
             z == Zeros(2 * W - Bits)
  <2>2. raw \in Seq(Bit) /\ Len(raw) = W
    BY <2>1 DEF Char
  <2>3. /\ s \in Seq(Bit) /\ Len(s) = Bits
        /\ \A k \in 1 .. Bits : s[k] = raw[W - Bits + k]
    BY <2>1, <2>2
  <2>4. /\ z \in Seq(Bit) /\ Len(z) = 2 * W - Bits
        /\ \A k \in 1 .. 2 * W - Bits : z[k] = 0
    BY <2>1 DEF Zeros, Bit
  <2> HIDE DEF s, z
  <2>5. PICK n, l, u : n = Bits /\ l = 2 * W - Bits /\ u = s \o z
    OBVIOUS
  <2>6. n \in Nat /\ l \in Nat /\ n + l = 2 * W
    BY <2>1, <2>5
  <2>7. Joins(u, s, z, n, l)
    <3>1. s \in Seq(Bit) /\ z \in Seq(Bit) /\ Len(s) = n /\ Len(z) = l
      BY <2>3, <2>4, <2>5
    <3>2. QED
      BY <2>5, <2>6, <3>1, Concatenated
  <2>8. /\ u \in [1 .. 2 * W -> Bit]
        /\ \A k \in 1 .. 2 * W : u[k] = IF k <= n THEN s[k] ELSE z[k - n]
    BY <2>6, <2>7 DEF Joins
  <2>9. ASSUME NEW k \in 1 .. 2 * W PROVE u[k] = Bitbuff[k]
    <3>1. CASE k <= n
      <4>1. k \in 1 .. Bits
        BY <2>1, <2>5, <3>1
      <4>2. u[k] = s[k]
        BY <2>8, <3>1
      <4>3. s[k] = raw[W - Bits + k]
        BY <2>3, <4>1
      <4>4. Bitbuff[k] = raw[W - Bits + k]
        BY <2>1, <4>1
      <4>5. QED
        BY <4>2, <4>3, <4>4
    <3>2. CASE ~(k <= n)
      <4>1. k - n \in 1 .. 2 * W - Bits /\ ~(k <= Bits)
        BY <2>1, <2>5, <2>6, <3>2
      <4>2. QED
        BY <2>1, <2>4, <2>8, <3>2, <4>1
    <3>3. QED
      BY <3>1, <3>2
  <2>10. Bitbuff = u
    BY <2>1, <2>8, <2>9
  <2>11. QED
    BY <2>1, <2>5, <2>10 DEF UnreadBits, s, z
<1>2. QED
  BY <1>1, BitsInit, BitsNext, PTL DEF Spec

=============================================================================
