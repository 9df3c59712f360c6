---------------------------- MODULE BTreeProofs ----------------------------
(***************************************************************************)
(* The B+tree keeps its shape for any keys, any fanout, any number of      *)
(* inserts, failed writes and process deaths: a search never goes astray.  *)
(* First what a B+tree in a file is: each page of the tree has a height    *)
(* and a set of keys it is for.  From that follow where a search arrives,  *)
(* and what writing, adding, splitting and joining pages does to the tree. *)
(* Then the inductive invariant of the inserts, action by action.          *)
(***************************************************************************)
EXTENDS BTree, SequenceTheorems, FiniteSetTheorems, NaturalsInduction, WellFoundedInduction, TLAPS

\* The keys ascend.
Sorted(ks) == \A i, j \in DOMAIN ks : i < j => ks[i] < ks[j]

\* A file of nodes that read_node can read.
FileOK(pg) == pg \in Seq(Nodes) /\ \A p \in DOMAIN pg : NodeOK(pg[p], Len(pg))

\* The page find and insert_into go on to from node n.
Child(n, k) == n.vals[ChildIndex(n.keys, k)]

\* Node n, of height h, is for the keys of S: its own are in S, it is a leaf if
\* its height is 0, and each child is one less high and for keys that the search
\* takes to that child.
Fits(n, S, h, H, K) ==
  /\ Range(n.keys) \subseteq S
  /\ n.leaf <=> h = 0
  /\ ~n.leaf =>
       \A i \in DOMAIN n.vals :
         /\ n.vals[i] \in DOMAIN H /\ H[n.vals[i]] = h - 1
         /\ \A k \in K[n.vals[i]] : k \in S /\ ChildIndex(n.keys, k) = i

\* The children of n are different pages, and no page of the tree but p has one
\* of them too.
Apart(n, p, pg, H) ==
  ~n.leaf =>
    /\ \A i, j \in DOMAIN n.vals : n.vals[i] = n.vals[j] => i = j
    /\ \A q \in DOMAIN H \ {p} : ~pg[q].leaf =>
         \A i \in DOMAIN n.vals, j \in DOMAIN pg[q].vals : n.vals[i] # pg[q].vals[j]

\* H and K say of every page of the tree how high it is and for which keys:
\* each is a node that fits its place, and no page is a child twice.
Forest(pg, H, K) ==
  /\ DOMAIN H \subseteq DOMAIN pg
  /\ H \in [DOMAIN H -> Nat] /\ K \in [DOMAIN H -> SUBSET Keys]
  /\ \A p \in DOMAIN H : Fits(pg[p], K[p], H[p], H, K) /\ Apart(pg[p], p, pg, H)

\* The forest is one tree that hangs from page top, with page low in it.  Its
\* height is below the number of pages: that bounds the walk of PathIn.
Tree(pg, top, low, H, K) ==
  /\ Forest(pg, H, K)
  /\ top \in DOMAIN H /\ low \in DOMAIN H /\ H[top] < Len(pg)
  /\ \A p \in DOMAIN H : p = top \/ H[p] < H[top]

\* The pages w are read one after the other by a search for k that starts at r.
Descent(pg, w, r, k) ==
  /\ w # <<>> /\ w[1] = r
  /\ \A j \in 1..(Len(w) - 1) : ~pg[w[j]].leaf /\ w[j + 1] = Child(pg[w[j]], k)

\* They are a descent whose heights go down by one.
Down(w, pg, r, k, H) ==
  /\ w \in Seq(DOMAIN H) /\ Descent(pg, w, r, k)
  /\ \A j \in 1..Len(w) : H[w[j]] = H[r] + 1 - j
-----------------------------------------------------------------------------
\* A set of numbers that is not empty has a least one.
LEMMA Least ==
  ASSUME NEW S \in SUBSET Nat, S # {}
  PROVE  \E n \in S : \A m \in S : n <= m
<1> DEFINE R == {p \in Nat \X Nat : p[1] < p[2]}
<1>1. IsWellFoundedOn(R, Nat)
  BY NatLessThanWellFounded DEF OpToRel
<1>2. PICK n \in S : \A m \in S : ~(<<m, n>> \in R)
  <2> HIDE DEF R
  <2> QED
    BY <1>1, WFMin
<1>3. ASSUME NEW m \in S PROVE n <= m
  <2>1. m \in Nat /\ n \in Nat /\ ~(m < n)
    BY <1>2
  <2> QED
    BY <2>1
<1> QED
  BY <1>3

\* What holds of 0, and of each number after one it holds of, holds of all: the
\* induction that the proofs about walks and descents use.
LEMMA Induct ==
  ASSUME NEW S, 0 \in S, \A n \in Nat : n \in S => n + 1 \in S
  PROVE  Nat \subseteq S
<1> DEFINE Out == {n \in Nat : n \notin S}
<1>1. CASE Out # {}
  <2>1. PICK n \in Out : \A m \in Out : n <= m
    BY <1>1, Least
  <2>2. n # 0 /\ n - 1 \in Nat /\ n - 1 \notin Out
    BY <2>1
  <2> QED
    BY <2>1, <2>2
<1> QED
  BY <1>1

\* One step of the walk of PathIn.
Step(pg, w, k) ==
             LET node == pg[Last(w)]
             IN  IF node.leaf THEN w ELSE Append(w, node.vals[ChildIndex(node.keys, k)])

\* PathIn is the last of a row of walks, each a step from the one before.
LEMMA Walk ==
  ASSUME NEW pg, NEW r, NEW k, Len(pg) \in Nat \ {0}
  PROVE  \E f : /\ DOMAIN f = 1..Len(pg)
                /\ f[1] = <<r>>
                /\ \A n \in 2..Len(pg) : f[n] = Step(pg, f[n - 1], k)
                /\ PathIn(pg, r, k) = f[Len(pg)]
<1> DEFINE F(f, n) == f = [m \in 1..n |-> IF m = 1 THEN <<r>> ELSE Step(pg, f[m - 1], k)]
           D == {n \in Nat : \E f : F(f, n)}
           walk == CHOOSE f : F(f, Len(pg))
<1>1. 0 \in D
  <2>1. F(<<>>, 0)
    OBVIOUS
  <2> QED
    BY <2>1
<1>2. ASSUME NEW n \in Nat, n \in D PROVE n + 1 \in D
  <2>1. PICK f : F(f, n)
    BY <1>2
  <2> DEFINE g == [m \in 1..(n + 1) |-> IF m = 1 THEN <<r>> ELSE Step(pg, f[m - 1], k)]
  <2>2. \A m \in 1..n : g[m] = f[m]
    BY <2>1
  <2>3. F(g, n + 1)
    <3>1. \A m \in 2..(n + 1) : g[m - 1] = f[m - 1]
      <4> HIDE DEF g
      <4>1. \A m \in 2..(n + 1) : m - 1 \in 1..n
        OBVIOUS
      <4> QED
        BY <2>2, <4>1
    <3>2. [m \in 1..(n + 1) |-> IF m = 1 THEN <<r>> ELSE Step(pg, f[m - 1], k)]
       = [m \in 1..(n + 1) |-> IF m = 1 THEN <<r>> ELSE Step(pg, g[m - 1], k)]
      <4> HIDE DEF g
      <4> QED BY <3>1
    <3> QED
      BY <3>2
  <2> HIDE DEF g
  <2>4. \E h : F(h, n + 1)
    BY <2>3
  <2> QED
    BY <2>4
<1>3. F(walk, Len(pg))
  <2>1. Len(pg) \in D
    <3> HIDE DEF D
    <3> QED
      BY <1>1, <1>2, Induct
  <2> QED
    BY <2>1
<1>4. PathIn(pg, r, k) = walk[Len(pg)]
  BY Zenon DEF PathIn, Step
<1> HIDE DEF walk
<1>5. DOMAIN walk = 1..Len(pg) /\ walk[1] = <<r>>
  BY <1>3
<1>6. \A n \in 2..Len(pg) : walk[n] = Step(pg, walk[n - 1], k)
  BY <1>3
<1> QED
  BY <1>4, <1>5, <1>6

\* The vector after Vec::insert: one longer, the new element at i, and what was
\* at i and after it moved up by one.
LEMMA InsertAtElements ==
  ASSUME NEW S, NEW s \in Seq(S), NEW i \in 1..(Len(s) + 1), NEW e \in S
  PROVE  /\ InsertAt(s, i, e) \in Seq(S) /\ Len(InsertAt(s, i, e)) = Len(s) + 1
         /\ \A j \in 1..(Len(s) + 1) :
              InsertAt(s, i, e)[j] = IF j < i THEN s[j] ELSE IF j = i THEN e ELSE s[j - 1]
<1> DEFINE a == SubSeq(s, 1, i - 1)
           b == SubSeq(s, i, Len(s))
           t == a \o <<e>>
<1>1. Len(s) \in Nat /\ \A j \in 1..Len(s) : s[j] \in S
  BY ElementOfSeq
<1>2. /\ a \in Seq(S) /\ Len(a) = i - 1
      /\ \A j \in 1..(i - 1) : a[j] = s[j]
  <2>1. /\ a \in Seq(S) /\ Len(a) = IF 1 <= i - 1 THEN i - 1 - 1 + 1 ELSE 0
        /\ \A j \in 1..(i - 1 - 1 + 1) : a[j] = s[1 + j - 1]
    BY <1>1, SubSeqProperties
  <2> QED
    BY <2>1
<1>3. /\ b \in Seq(S) /\ Len(b) = Len(s) - i + 1
      /\ \A j \in 1..(Len(s) - i + 1) : b[j] = s[i + j - 1]
  <2>1. /\ b \in Seq(S) /\ Len(b) = IF i <= Len(s) THEN Len(s) - i + 1 ELSE 0
        /\ \A j \in 1..(Len(s) - i + 1) : b[j] = s[i + j - 1]
    BY <1>1, SubSeqProperties
  <2> QED
    BY <1>1, <2>1
<1> HIDE DEF a, b
<1>4. /\ t \in Seq(S) /\ Len(t) = i
      /\ \A j \in 1..i : t[j] = IF j < i THEN a[j] ELSE e
  <2>1. <<e>> \in Seq(S) /\ Len(<<e>>) = 1
    OBVIOUS
  <2>2. /\ t \in Seq(S) /\ Len(t) = Len(a) + 1
        /\ \A j \in 1..(Len(a) + 1) : t[j] = IF j <= Len(a) THEN a[j] ELSE <<e>>[j - Len(a)]
    BY <1>2, <2>1, ConcatProperties
  <2> QED
    BY <1>2, <2>2
<1> HIDE DEF t
<1>5. /\ t \o b \in Seq(S) /\ Len(t \o b) = Len(t) + Len(b)
      /\ \A j \in 1..(Len(t) + Len(b)) : (t \o b)[j] = IF j <= Len(t) THEN t[j] ELSE b[j - Len(t)]
  BY <1>3, <1>4, ConcatProperties
<1>6. InsertAt(s, i, e) = t \o b
  BY DEF InsertAt, t, a, b
<1>7. Len(t \o b) = Len(s) + 1
  BY <1>1, <1>3, <1>4, <1>5
<1>8. ASSUME NEW j \in 1..(Len(s) + 1)
      PROVE  (t \o b)[j] = IF j < i THEN s[j] ELSE IF j = i THEN e ELSE s[j - 1]
  <2>1. CASE j <= i
    <3>1. j \in 1..i /\ (t \o b)[j] = t[j]
      BY <1>1, <1>3, <1>4, <1>5, <2>1
    <3>2. j < i => j \in 1..(i - 1)
      OBVIOUS
    <3> QED
      BY <1>2, <1>4, <3>1, <3>2
  <2>2. CASE j > i
    <3>1. j - i \in 1..(Len(s) - i + 1) /\ b[j - i] = s[i + (j - i) - 1]
      BY <1>1, <1>3, <2>2
    <3>2. i + (j - i) - 1 = j - 1
      OBVIOUS
    <3>3. (t \o b)[j] = b[j - i]
      BY <1>1, <1>3, <1>4, <1>5, <2>2
    <3> QED
      BY <2>2, <3>1, <3>2, <3>3
  <2>3. j <= i \/ j > i
    OBVIOUS
  <2> QED
    BY <2>1, <2>2, <2>3
<1> QED
  BY <1>5, <1>6, <1>7, <1>8

\* What the vector t after Vec::insert holds.
HasInsert(t, S, s, i, e) ==
  /\ t \in Seq(S) /\ Len(t) = Len(s) + 1 /\ DOMAIN t = 1..(Len(s) + 1)
  /\ \A j \in 1..(Len(s) + 1) : t[j] = IF j < i THEN s[j] ELSE IF j = i THEN e ELSE s[j - 1]

\* It holds them.
LEMMA InsertHas ==
  ASSUME NEW S, NEW s \in Seq(S), NEW i \in 1..(Len(s) + 1), NEW e \in S
  PROVE  HasInsert(InsertAt(s, i, e), S, s, i, e)
<1> DEFINE t == InsertAt(s, i, e)
<1>1. /\ t \in Seq(S) /\ Len(t) = Len(s) + 1
      /\ \A j \in 1..(Len(s) + 1) : t[j] = IF j < i THEN s[j] ELSE IF j = i THEN e ELSE s[j - 1]
  BY InsertAtElements
<1> HIDE DEF t
<1>2. DOMAIN t = 1..(Len(s) + 1)
  BY <1>1, LenProperties
<1>3. HasInsert(t, S, s, i, e)
  BY <1>1, <1>2 DEF HasInsert
<1> QED
  BY <1>3 DEF t

\* Inserting where all before is smaller and all from there on larger keeps the order.
LEMMA SortedInsert ==
  ASSUME NEW s \in Seq(Int), Sorted(s), NEW i \in 1..(Len(s) + 1), NEW e \in Int,
         \A j \in 1..Len(s) : IF j < i THEN s[j] < e ELSE e < s[j]
  PROVE  Sorted(InsertAt(s, i, e))
<1> DEFINE t == InsertAt(s, i, e)
<1>1. /\ t \in Seq(Int) /\ Len(t) = Len(s) + 1 /\ Len(s) \in Nat
      /\ \A j \in 1..(Len(s) + 1) : t[j] = IF j < i THEN s[j] ELSE IF j = i THEN e ELSE s[j - 1]
  BY InsertAtElements
<1>2. \A j \in 1..Len(s) : s[j] \in Int
  BY ElementOfSeq
<1> HIDE DEF t
<1>3. ASSUME NEW j \in 1..(Len(s) + 1), NEW m \in 1..(Len(s) + 1), j < m
      PROVE  t[j] < t[m]
  <2>1. CASE m < i
    <3>1. j \in 1..Len(s) /\ m \in 1..Len(s) /\ j < i
      BY SMTT(30), <1>1, <1>3, <2>1
    <3>2. t[j] = s[j] /\ t[m] = s[m]
      BY <1>1, <2>1, <3>1
    <3> QED
      BY <1>3, <3>1, <3>2 DEF Sorted
  <2>2. CASE m = i
    <3>1. j \in 1..Len(s) /\ j < i /\ t[j] = s[j] /\ t[m] = e
      BY <1>1, <1>3, <2>2
    <3> QED
      BY <3>1
  <2>3. CASE m > i
    <3>1. m - 1 \in 1..Len(s) /\ t[m] = s[m - 1]
      BY <1>1, <2>3
    <3>2. CASE j < i
      <4>1. j \in 1..Len(s) /\ j < m - 1 /\ t[j] = s[j]
        BY <1>1, <2>3, <3>2
      <4> QED
        BY <3>1, <4>1 DEF Sorted
    <3>3. CASE j = i
      BY SMTT(30), <1>1, <2>3, <3>1, <3>3
    <3>4. CASE j > i
      <4>1. j - 1 \in 1..Len(s) /\ j - 1 < m - 1 /\ t[j] = s[j - 1]
        BY <1>1, <1>3, <3>4
      <4> QED
        BY <3>1, <4>1 DEF Sorted
    <3> QED
      BY <3>2, <3>3, <3>4
  <2> QED
    BY <1>1, <2>1, <2>2, <2>3
<1> QED
  BY <1>1, <1>3 DEF Sorted, t

\* A part of a sorted vector is sorted.
LEMMA SortedPart ==
  ASSUME NEW s \in Seq(Int), Sorted(s), NEW a \in 1..(Len(s) + 1), NEW b \in 0..Len(s)
  PROVE  Sorted(SubSeq(s, a, b))
<1>1. \A j \in a..b : s[j] \in Int
  BY ElementOfSeq
<1>2. /\ SubSeq(s, a, b) \in Seq(Int)
      /\ Len(SubSeq(s, a, b)) = IF a <= b THEN b - a + 1 ELSE 0
      /\ \A j \in 1..(b - a + 1) : SubSeq(s, a, b)[j] = s[a + j - 1]
  BY SMTT(30), <1>1, SubSeqProperties
<1>3. ASSUME NEW j \in 1..(b - a + 1), NEW m \in 1..(b - a + 1), j < m
      PROVE  SubSeq(s, a, b)[j] < SubSeq(s, a, b)[m]
  <2>1. a + j - 1 \in 1..Len(s) /\ a + m - 1 \in 1..Len(s) /\ a + j - 1 < a + m - 1
    BY <1>3
  <2>2. s[a + j - 1] < s[a + m - 1]
    BY <2>1 DEF Sorted
  <2> QED
    BY <1>2, <2>2
<1>4. DOMAIN SubSeq(s, a, b) \subseteq 1..(b - a + 1)
  BY <1>2
<1> QED
  BY <1>3, <1>4 DEF Sorted

\* A slice from a on.
LEMMA SubSeqFrom ==
  ASSUME NEW S, NEW s \in Seq(S), NEW a \in Nat, NEW b \in Nat, a <= b, b <= Len(s)
  PROVE  /\ SubSeq(s, a + 1, b) \in Seq(S) /\ Len(SubSeq(s, a + 1, b)) = b - a
         /\ \A j \in 1..(b - a) : SubSeq(s, a + 1, b)[j] = s[a + j]
<1> DEFINE m == a + 1
<1>1. m \in Int /\ b \in Int /\ \A j \in m..b : j \in 1..Len(s)
  BY EmptySeq
<1>2. /\ (m <= b => b - m + 1 = b - a) /\ (~(m <= b) => b - a = 0) /\ b - m + 1 = b - a
      /\ \A j \in 1..(b - a) : m + j - 1 = a + j
  OBVIOUS
<1> HIDE DEF m
<1>3. \A j \in m..b : s[j] \in S
  BY <1>1, ElementOfSeq
<1>4. /\ SubSeq(s, m, b) \in Seq(S) /\ Len(SubSeq(s, m, b)) = IF m <= b THEN b - m + 1 ELSE 0
      /\ \A j \in 1..(b - m + 1) : SubSeq(s, m, b)[j] = s[m + j - 1]
  BY <1>1, <1>3, SubSeqProperties
<1>5. Len(SubSeq(s, m, b)) = b - a
  BY <1>2, <1>4
<1>6. \A j \in 1..(b - a) : SubSeq(s, m, b)[j] = s[a + j]
  BY <1>2, <1>4
<1> QED
  BY <1>4, <1>5, <1>6 DEF m

\* A vector with one element assigned.
LEMMA SeqExcept ==
  ASSUME NEW S, NEW s \in Seq(S), NEW i, NEW e \in S
  PROVE  [s EXCEPT ![i] = e] \in Seq(S) /\ Len([s EXCEPT ![i] = e]) = Len(s)
<1>1. Len(s) \in Nat /\ s \in [1..Len(s) -> S]
  OBVIOUS
<1>2. [s EXCEPT ![i] = e] \in [1..Len(s) -> S]
  BY <1>1
<1> HIDE <1>1
<1> QED
  BY <1>1, <1>2

\* A set of indices closed downwards is an initial part.
LEMMA InitialPart ==
  ASSUME NEW n \in Nat, NEW D \in SUBSET (1..n),
         \A i, j \in 1..n : i < j /\ j \in D => i \in D
  PROVE  \E c \in 1..(n + 1) : D = 1..(c - 1)
<1> DEFINE Out == (1..(n + 1)) \ D
<1>1. n + 1 \in Out
  OBVIOUS
<1>2. PICK c \in Out : \A m \in Out : c <= m
  <2>1. Out \in SUBSET Nat /\ Out # {}
    BY <1>1
  <2> HIDE DEF Out
  <2> QED
    BY <2>1, Least
<1>3. c \in 1..(n + 1) /\ c \notin D
  BY <1>2
<1>4. \A i \in 1..(c - 1) : i \in D
  BY <1>2, <1>3
<1>5. \A i \in D : i \in 1..(c - 1)
  BY <1>3
<1>6. D = 1..(c - 1)
  BY <1>4, <1>5
<1> QED
  BY <1>3, <1>6
-----------------------------------------------------------------------------
\* ChildIndex is the one place with the keys up to k before it and the others after.
LEMMA ChildIndexIs ==
  ASSUME NEW ks \in Seq(Int), NEW k \in Int, NEW c \in 1..(Len(ks) + 1),
         \A i \in 1..Len(ks) : i < c <=> ks[i] <= k
  PROVE  ChildIndex(ks, k) = c
<1>1. {i \in DOMAIN ks : k >= ks[i]} = 1..(c - 1)
  <2>1. \A i \in 1..Len(ks) : ks[i] \in Int
    BY ElementOfSeq
  <2>2. \A i \in DOMAIN ks : k >= ks[i] <=> i < c
    BY <2>1
  <2>3. \A i \in 1..(c - 1) : i \in DOMAIN ks /\ i < c
    OBVIOUS
  <2>4. \A i \in DOMAIN ks : i < c => i \in 1..(c - 1)
    OBVIOUS
  <2> QED
    BY <2>2, <2>3, <2>4
<1>2. Cardinality(1..(c - 1)) = c - 1
  <2>1. Cardinality(1..(c - 1)) = IF 1 > c - 1 THEN 0 ELSE c - 1 - 1 + 1
    BY FS_Interval
  <2> QED
    BY <2>1
<1>3. 1 + (c - 1) = c
  OBVIOUS
<1> QED
  BY <1>1, <1>2, <1>3 DEF ChildIndex

\* ChildIndex separates the keys up to k from those above it.
LEMMA ChildIndexSplits ==
  ASSUME NEW ks \in Seq(Int), Sorted(ks), NEW k \in Int
  PROVE  /\ ChildIndex(ks, k) \in 1..(Len(ks) + 1)
         /\ \A i \in 1..Len(ks) : i < ChildIndex(ks, k) <=> ks[i] <= k
<1> DEFINE D == {i \in 1..Len(ks) : ks[i] <= k}
<1>1. \A i \in 1..Len(ks) : ks[i] \in Int
  BY ElementOfSeq
<1>2. \A i, j \in 1..Len(ks) : i < j /\ j \in D => i \in D
  BY <1>1 DEF Sorted
<1>3. PICK c \in 1..(Len(ks) + 1) : D = 1..(c - 1)
  <2>1. D \in SUBSET (1..Len(ks)) /\ Len(ks) \in Nat
    OBVIOUS
  <2> HIDE DEF D
  <2> QED
    BY <1>2, <2>1, InitialPart
<1>4. \A i \in 1..Len(ks) : i < c <=> ks[i] <= k
  BY <1>3
<1>5. ChildIndex(ks, k) = c
  BY <1>4, ChildIndexIs
<1> QED
  BY <1>4, <1>5

\* Where the new entry goes: the keys before At are smaller, those from At on larger.
LEMMA AtSplits ==
  ASSUME NEW ks \in Seq(Int), Sorted(ks), NEW k \in Int, k \notin Range(ks),
         NEW at, at = 1 + Cardinality({i \in DOMAIN ks : ks[i] < k})
  PROVE  /\ at \in 1..(Len(ks) + 1)
         /\ \A i \in 1..Len(ks) : IF i < at THEN ks[i] < k ELSE k < ks[i]
<1>1. \A i \in DOMAIN ks : ks[i] \in Int /\ ks[i] # k
  BY DEF Range
<1>2. {i \in DOMAIN ks : ks[i] < k} = {i \in DOMAIN ks : k >= ks[i]}
  BY <1>1
<1>3. at = ChildIndex(ks, k)
  BY <1>2 DEF ChildIndex
<1>4. /\ at \in 1..(Len(ks) + 1)
      /\ \A i \in 1..Len(ks) : i < at <=> ks[i] <= k
  BY <1>3, ChildIndexSplits
<1>5. DOMAIN ks = 1..Len(ks)
  OBVIOUS
<1> QED
  BY <1>1, <1>4, <1>5

\* The fields of a node.
LEMMA NodeType ==
  ASSUME NEW n \in Nodes
  PROVE  /\ n.leaf \in BOOLEAN /\ n.keys \in Seq(Keys) /\ n.keys \in Seq(Int) /\ n.vals \in Seq(Nat)
         /\ n.next \in Nat /\ Len(n.keys) \in Nat /\ Len(n.vals) \in Nat
         /\ DOMAIN n.keys = 1..Len(n.keys) /\ DOMAIN n.vals = 1..Len(n.vals)
<1>1. n \in [leaf : BOOLEAN, keys : Seq(Keys), vals : Seq(Nat), next : Nat]
  BY DEF Nodes
<1>2. n.leaf \in BOOLEAN /\ n.keys \in Seq(Keys) /\ n.vals \in Seq(Nat) /\ n.next \in Nat
  BY <1>1
<1>3. n.keys \in Seq(Int)
  BY <1>2, KeysAssumption, SeqMonotonic
<1> QED
  BY <1>2, <1>3, LenProperties

\* A node stays sound when the file grows.
LEMMA NodeOKMore ==
  ASSUME NEW n \in Nodes, NEW a \in Nat, NEW b \in Nat, a <= b, NodeOK(n, a)
  PROVE  NodeOK(n, b)
  BY DEF NodeOK

\* Writing a sound node over another keeps the file sound.
LEMMA FileWrite ==
  ASSUME NEW pg, FileOK(pg), NEW p \in DOMAIN pg, NEW n \in Nodes, NodeOK(n, Len(pg))
  PROVE  /\ FileOK([pg EXCEPT ![p] = n])
         /\ DOMAIN [pg EXCEPT ![p] = n] = DOMAIN pg
         /\ Len([pg EXCEPT ![p] = n]) = Len(pg)
<1> DEFINE N == Nodes
           pg2 == [pg EXCEPT ![p] = n]
<1>1. pg \in Seq(N) /\ n \in N
  BY DEF FileOK
<1> HIDE DEF N
<1>2. pg2 \in Seq(N) /\ Len(pg2) = Len(pg) /\ DOMAIN pg2 = DOMAIN pg
  BY <1>1
<1>3. pg2[p] = n /\ \A q \in DOMAIN pg \ {p} : pg2[q] = pg[q]
  BY <1>1
<1> HIDE DEF pg2
<1>4. \A q \in DOMAIN pg2 : NodeOK(pg2[q], Len(pg2))
  BY <1>2, <1>3 DEF FileOK
<1> QED
  BY <1>2, <1>4 DEF FileOK, N, pg2

\* Appending a sound node keeps the file sound.
LEMMA FileAppend ==
  ASSUME NEW pg, FileOK(pg), NEW n \in Nodes, NodeOK(n, Len(pg) + 1)
  PROVE  /\ FileOK(Append(pg, n)) /\ Len(Append(pg, n)) = Len(pg) + 1
         /\ DOMAIN pg \subseteq DOMAIN Append(pg, n)
         /\ \A q \in DOMAIN pg : Append(pg, n)[q] = pg[q]
         /\ Len(pg) + 1 \in DOMAIN Append(pg, n) \ DOMAIN pg /\ Append(pg, n)[Len(pg) + 1] = n
<1> DEFINE N == Nodes
           pg2 == Append(pg, n)
<1>1. pg \in Seq(N) /\ n \in N /\ Len(pg) \in Nat /\ DOMAIN pg = 1..Len(pg)
  BY DEF FileOK
<1> HIDE DEF N
<1>2. pg2 \in Seq(N) /\ Len(pg2) = Len(pg) + 1 /\ DOMAIN pg2 = 1..(Len(pg) + 1)
  BY <1>1
<1>3. pg2[Len(pg) + 1] = n /\ \A q \in DOMAIN pg : pg2[q] = pg[q]
  BY <1>1
<1> HIDE DEF pg2
<1>4. \A q \in DOMAIN pg2 : NodeOK(pg2[q], Len(pg2))
  <2>1. \A q \in DOMAIN pg : NodeOK(pg[q], Len(pg) + 1)
    <3>1. \A q \in DOMAIN pg : pg[q] \in Nodes /\ NodeOK(pg[q], Len(pg))
      BY DEF FileOK
    <3> QED
      BY <1>1, <3>1, NodeOKMore
  <2>2. \A q \in DOMAIN pg2 : q \in DOMAIN pg \/ q = Len(pg) + 1
    BY <1>1, <1>2
  <2> QED
    BY <1>2, <1>3, <2>1, <2>2
<1>5. FileOK(pg2) /\ DOMAIN pg \subseteq DOMAIN pg2 /\ Len(pg) + 1 \in DOMAIN pg2 \ DOMAIN pg
  BY <1>1, <1>2, <1>4 DEF FileOK, N
<1> QED
  BY <1>2, <1>3, <1>5 DEF pg2

\* What makes a leaf sound.
LEMMA LeafOK ==
  ASSUME NEW ks \in Seq(Keys), NEW vs \in Seq(Nat), NEW next \in Nat, Len(vs) = Len(ks),
         Len(ks) <= MAX_KEYS, Sorted(ks), NEW size
  PROVE  Leaf(ks, vs, next) \in Nodes /\ NodeOK(Leaf(ks, vs, next), size)
<1>1. Leaf(ks, vs, next) \in Nodes
  BY DEF Leaf, Nodes
<1>2. /\ Leaf(ks, vs, next).keys = ks /\ Leaf(ks, vs, next).vals = vs
      /\ Leaf(ks, vs, next).leaf
  BY DEF Leaf
<1> QED
  BY <1>1, <1>2 DEF NodeOK, Sorted

\* A leaf with keys of S only fits S, and has no children to share.
LEMMA LeafFits ==
  ASSUME NEW n, n.leaf = TRUE, NEW S, Range(n.keys) \subseteq S, NEW h, h = 0,
         NEW H, NEW K, NEW p, NEW pg
  PROVE  Fits(n, S, h, H, K) /\ Apart(n, p, pg, H)
  BY DEF Fits, Apart

\* What a leaf n made of entries a + 1 to b of ks is.
HasHalf(n, ks, a, b, size) ==
  /\ n \in Nodes /\ n.leaf = TRUE /\ NodeOK(n, size) /\ n.keys # <<>>
  /\ \A k \in Range(n.keys) : \E j \in (a + 1)..b : k = ks[j]

\* The halves of the entries of an overfull leaf are sound leaves.
LEMMA LeafHalf ==
  ASSUME NEW ks \in Seq(Keys), NEW vs \in Seq(Nat), Len(vs) = Len(ks), Sorted(ks),
         NEW a \in Nat, NEW b \in Nat, a < b, b <= Len(ks), b - a <= MAX_KEYS,
         NEW next \in Nat, NEW size
  PROVE  HasHalf(Leaf(SubSeq(ks, a + 1, b), SubSeq(vs, a + 1, b), next), ks, a, b, size)
<1> DEFINE n == Leaf(SubSeq(ks, a + 1, b), SubSeq(vs, a + 1, b), next)
<1>1. /\ SubSeq(ks, a + 1, b) \in Seq(Keys) /\ Len(SubSeq(ks, a + 1, b)) = b - a
      /\ \A j \in 1..(b - a) : SubSeq(ks, a + 1, b)[j] = ks[a + j]
  <2> DEFINE C == Keys
  <2>1. ks \in Seq(C)
    OBVIOUS
  <2> HIDE DEF C
  <2> QED
    BY <2>1, SubSeqFrom DEF C
<1>2. SubSeq(vs, a + 1, b) \in Seq(Nat) /\ Len(SubSeq(vs, a + 1, b)) = b - a
  <2> DEFINE N == Nat
             A == a
             B == b
  <2>1. vs \in Seq(N) /\ A \in Nat /\ B \in Nat /\ A <= B /\ B <= Len(vs)
    OBVIOUS
  <2> HIDE DEF N, A, B
  <2>2. SubSeq(vs, A + 1, B) \in Seq(N) /\ Len(SubSeq(vs, A + 1, B)) = B - A
    BY SMTT(30), <2>1, SubSeqFrom
  <2> QED
    BY <2>2 DEF N, A, B
<1>3. Sorted(SubSeq(ks, a + 1, b))
  <2>1. ks \in Seq(Int)
    BY KeysAssumption, SeqMonotonic
  <2>2. a + 1 \in 1..(Len(ks) + 1) /\ b \in 0..Len(ks)
    OBVIOUS
  <2> QED
    BY <2>1, <2>2, SortedPart
<1>4. n \in Nodes /\ NodeOK(n, size)
  BY <1>1, <1>2, <1>3, LeafOK
<1>5. n.leaf = TRUE /\ n.keys = SubSeq(ks, a + 1, b)
  BY DEF Leaf
<1>6. n.keys # <<>>
  BY <1>1, <1>5
<1>7. \A k \in Range(n.keys) : \E j \in (a + 1)..b : k = ks[j]
  <2>1. DOMAIN n.keys = 1..(b - a)
    BY <1>1, <1>5
  <2>2. \A j \in 1..(b - a) : a + j \in (a + 1)..b /\ n.keys[j] = ks[a + j]
    BY <1>1, <1>5
  <2> QED
    BY <2>1, <2>2 DEF Range
<1> HIDE DEF n
<1>8. HasHalf(n, ks, a, b, size)
  BY <1>4, <1>5, <1>6, <1>7 DEF HasHalf
<1> QED
  BY <1>8 DEF n
-----------------------------------------------------------------------------
\* The child a search goes on to is there.
LEMMA ChildExists ==
  ASSUME NEW n \in Nodes, NEW size, NodeOK(n, size), ~n.leaf, NEW k \in Keys
  PROVE  /\ ChildIndex(n.keys, k) \in DOMAIN n.vals
         /\ \A i \in 1..Len(n.keys) : i < ChildIndex(n.keys, k) <=> n.keys[i] <= k
<1>1. n.keys \in Seq(Int) /\ Sorted(n.keys) /\ k \in Int
  BY NodeType, KeysAssumption DEF NodeOK, Sorted
<1>2. /\ ChildIndex(n.keys, k) \in 1..(Len(n.keys) + 1)
      /\ \A i \in 1..Len(n.keys) : i < ChildIndex(n.keys, k) <=> n.keys[i] <= k
  BY <1>1, ChildIndexSplits
<1>3. DOMAIN n.vals = 1..(Len(n.keys) + 1)
  BY NodeType DEF NodeOK
<1> QED
  BY <1>2, <1>3

\* That child is in the tree, one less high, and for keys that take the same turn.
LEMMA ChildInTree ==
  ASSUME NEW pg, NEW top, NEW low, NEW H, NEW K, FileOK(pg), Tree(pg, top, low, H, K),
         NEW p \in DOMAIN H, ~pg[p].leaf, NEW k \in Keys
  PROVE  /\ Child(pg[p], k) \in DOMAIN H /\ H[Child(pg[p], k)] = H[p] - 1
         /\ \A x \in K[Child(pg[p], k)] :
              x \in K[p] /\ ChildIndex(pg[p].keys, x) = ChildIndex(pg[p].keys, k)
<1>1. pg[p] \in Nodes /\ NodeOK(pg[p], Len(pg)) /\ Fits(pg[p], K[p], H[p], H, K)
  BY DEF FileOK, Tree, Forest
<1>2. ChildIndex(pg[p].keys, k) \in DOMAIN pg[p].vals
  BY <1>1, ChildExists
<1> QED
  BY <1>1, <1>2 DEF Fits, Child

\* The last page of a path.
LEMMA LastOfPath ==
  ASSUME NEW S, NEW w \in Seq(S), w # <<>>
  PROVE  Len(w) \in Nat \ {0} /\ Len(w) \in 1..Len(w) /\ Last(w) = w[Len(w)] /\ Last(w) \in S
<1>1. Len(w) \in Nat \ {0}
  BY EmptySeq
<1>2. Len(w) \in 1..Len(w)
  BY <1>1
<1> QED
  BY <1>1, <1>2, ElementOfSeq DEF Last

\* A descent that has not reached a leaf goes on by one page.
LEMMA DownOne ==
  ASSUME NEW pg, NEW top, NEW low, NEW H, NEW K, FileOK(pg), Tree(pg, top, low, H, K),
         NEW r \in DOMAIN H, NEW k \in Keys,
         NEW w, Down(w, pg, r, k, H), ~pg[Last(w)].leaf
  PROVE  /\ Down(Append(w, Child(pg[Last(w)], k)), pg, r, k, H)
         /\ Len(Append(w, Child(pg[Last(w)], k))) = Len(w) + 1
<1> DEFINE c == Child(pg[Last(w)], k)
           v == Append(w, c)
<1>1. /\ w \in Seq(DOMAIN H) /\ w # <<>> /\ w[1] = r
      /\ \A j \in 1..(Len(w) - 1) : ~pg[w[j]].leaf /\ w[j + 1] = Child(pg[w[j]], k)
      /\ \A j \in 1..Len(w) : H[w[j]] = H[r] + 1 - j
  BY DEF Down, Descent
<1>2. Len(w) \in Nat \ {0} /\ Last(w) = w[Len(w)] /\ Last(w) \in DOMAIN H /\ H[Last(w)] = H[r] + 1 - Len(w)
  BY <1>1, LastOfPath
<1>3. c \in DOMAIN H /\ H[c] = H[Last(w)] - 1
  BY <1>2, ChildInTree
<1> HIDE DEF c
<1>4. /\ v \in Seq(DOMAIN H) /\ v # <<>> /\ Len(v) = Len(w) + 1
      /\ \A j \in 1..Len(w) : v[j] = w[j]
      /\ v[Len(w) + 1] = c
  BY <1>1, <1>3, AppendProperties
<1> HIDE DEF v
<1>5. v[1] = r
  BY <1>1, <1>2, <1>4
<1>6. ASSUME NEW j \in 1..(Len(v) - 1)
      PROVE  ~pg[v[j]].leaf /\ v[j + 1] = Child(pg[v[j]], k)
  <2>1. CASE j = Len(w)
    <3>1. v[j] = Last(w) /\ v[j + 1] = c
      BY <1>2, <1>4, <2>1
    <3> QED
      BY <3>1 DEF c
  <2>2. CASE j # Len(w)
    <3>1. j \in 1..(Len(w) - 1) /\ j \in 1..Len(w) /\ j + 1 \in 1..Len(w)
      BY <1>2, <1>4, <2>2
    <3>2. v[j] = w[j] /\ v[j + 1] = w[j + 1]
      BY <1>4, <3>1
    <3> QED
      BY <1>1, <3>1, <3>2
  <2> QED
    BY <2>1, <2>2
<1>7. H[r] \in Nat
  BY DEF Tree, Forest
<1>8. ASSUME NEW j \in 1..Len(v)
      PROVE  H[v[j]] = H[r] + 1 - j
  <2>1. CASE j = Len(w) + 1
    <3>1. v[j] = c
      BY <1>4, <2>1
    <3> QED
      BY <1>2, <1>3, <1>7, <2>1, <3>1
  <2>2. CASE j # Len(w) + 1
    <3>1. j \in 1..Len(w)
      BY <1>2, <1>4, <2>2
    <3> QED
      BY <1>1, <1>4, <3>1
  <2> QED
    BY <2>1, <2>2
<1> QED
  BY <1>4, <1>5, <1>6, <1>8 DEF Down, Descent, v, c

\* PathIn is a descent to a leaf, and as long as the root is high: the walk has
\* steps enough, and all leaves are equally deep.
LEMMA PathDown ==
  ASSUME NEW pg, NEW top, NEW low, NEW H, NEW K, FileOK(pg), Tree(pg, top, low, H, K),
         NEW r \in DOMAIN H, NEW k \in Keys
  PROVE  LET w == PathIn(pg, r, k)
         IN  Down(w, pg, r, k, H) /\ Len(w) = H[r] + 1 /\ pg[Last(w)].leaf
<1>1. /\ Len(pg) \in Nat \ {0} /\ H[r] \in Nat /\ H[r] < Len(pg)
      /\ \A p \in DOMAIN H : H[p] \in Nat /\ (pg[p].leaf <=> H[p] = 0)
  <2>1. Len(pg) \in Nat
    BY DEF FileOK
  <2>2. /\ top \in DOMAIN H /\ H[top] < Len(pg)
        /\ \A p \in DOMAIN H : H[p] \in Nat /\ (p = top \/ H[p] < H[top])
    BY DEF Tree, Forest
  <2>3. \A p \in DOMAIN H : pg[p].leaf <=> H[p] = 0
    BY DEF Tree, Forest, Fits
  <2>4. H[r] < Len(pg)
    BY <2>1, <2>2
  <2> QED
    BY <2>1, <2>2, <2>3, <2>4
<1>2. PICK f : /\ f[1] = <<r>>
               /\ \A n \in 2..Len(pg) : f[n] = Step(pg, f[n - 1], k)
               /\ PathIn(pg, r, k) = f[Len(pg)]
  BY <1>1, Walk
<1> DEFINE S == {n \in Nat : n + 1 <= Len(pg) =>
                   /\ Down(f[n + 1], pg, r, k, H)
                   /\ Len(f[n + 1]) = IF n <= H[r] THEN n + 1 ELSE H[r] + 1}
<1>3. 0 \in S
  <2>1. f[0 + 1] = <<r>>
    BY <1>2
  <2>2. Len(<<r>>) = 1 /\ <<r>> \in Seq(DOMAIN H) /\ <<r>> # <<>> /\ <<r>>[1] = r
    OBVIOUS
  <2>3. Down(<<r>>, pg, r, k, H)
    BY <1>1, <2>2 DEF Down, Descent
  <2> QED
    BY <1>1, <2>1, <2>2, <2>3
<1>4. ASSUME NEW n \in Nat, n \in S
      PROVE  n + 1 \in S
  <2> SUFFICES ASSUME n + 2 <= Len(pg)
               PROVE  /\ Down(f[n + 2], pg, r, k, H)
                      /\ Len(f[n + 2]) = IF n + 1 <= H[r] THEN n + 2 ELSE H[r] + 1
    OBVIOUS
  <2> DEFINE w == f[n + 1]
  <2>1. Down(w, pg, r, k, H) /\ Len(w) = IF n <= H[r] THEN n + 1 ELSE H[r] + 1
    BY <1>1, <1>4
  <2>2. f[n + 2] = Step(pg, w, k)
    <3>1. n + 2 \in 2..Len(pg) /\ (n + 2) - 1 = n + 1
      BY <1>1
    <3> QED
      BY <1>2, <3>1
  <2> HIDE DEF w
  <2>3. Len(w) \in 1..Len(w) /\ Last(w) = w[Len(w)] /\ Last(w) \in DOMAIN H
    BY <2>1, LastOfPath DEF Down, Descent
  <2>4. H[Last(w)] = H[r] + 1 - Len(w)
    BY <2>1, <2>3 DEF Down
  <2>5. CASE pg[Last(w)].leaf
    <3>1. H[Last(w)] = 0
      BY <1>1, <2>3, <2>5
    <3>2. n >= H[r] /\ Len(w) = H[r] + 1
      BY <1>1, <2>1, <2>4, <3>1
    <3>3. f[n + 2] = w
      BY <2>2, <2>5 DEF Step
    <3> QED
      BY <1>1, <2>1, <3>2, <3>3
  <2>6. CASE ~pg[Last(w)].leaf
    <3>1. H[Last(w)] # 0 /\ H[Last(w)] \in Nat
      BY <1>1, <2>3, <2>6
    <3>2. n < H[r] /\ Len(w) = n + 1
      BY <1>1, <2>1, <2>4, <3>1
    <3>3. f[n + 2] = Append(w, Child(pg[Last(w)], k))
      BY <2>2, <2>6 DEF Step, Child
    <3>4. Down(f[n + 2], pg, r, k, H) /\ Len(f[n + 2]) = n + 2
      BY <2>1, <2>6, <3>2, <3>3, DownOne
    <3> QED
      BY <1>1, <3>2, <3>4
  <2> QED
    BY <2>5, <2>6
<1> DEFINE w == PathIn(pg, r, k)
<1>5. Down(w, pg, r, k, H) /\ Len(w) = H[r] + 1
  <2>1. Len(pg) - 1 \in Nat /\ (Len(pg) - 1) + 1 = Len(pg) /\ H[r] <= Len(pg) - 1
    BY <1>1
  <2>2. Len(pg) - 1 \in S
    <3> HIDE DEF S
    <3> QED
      BY <1>3, <1>4, <2>1, Induct
  <2>3. /\ Down(f[Len(pg)], pg, r, k, H)
        /\ Len(f[Len(pg)]) = IF Len(pg) - 1 <= H[r] THEN Len(pg) ELSE H[r] + 1
    BY <2>1, <2>2
  <2> QED
    BY <1>1, <1>2, <2>1, <2>3
<1> HIDE DEF w
<1>6. Len(w) \in 1..Len(w) /\ Last(w) = w[Len(w)] /\ Last(w) \in DOMAIN H
  BY <1>5, LastOfPath DEF Down, Descent
<1>7. H[Last(w)] = 0
  BY <1>1, <1>5, <1>6 DEF Down
<1> QED
  BY <1>1, <1>5, <1>6, <1>7 DEF w

\* A key that belongs to the last page of a descent is searched for along it.
LEMMA Gather ==
  ASSUME NEW pg, NEW top, NEW low, NEW H, NEW K, FileOK(pg), Tree(pg, top, low, H, K),
         NEW r \in DOMAIN H, NEW k \in Keys, NEW w, Down(w, pg, r, k, H),
         NEW x \in K[Last(w)]
  PROVE  /\ Descent(pg, w, r, x)
         /\ \A j \in 1..Len(w) : x \in K[w[j]]
         /\ \A j \in 1..(Len(w) - 1) :
              ChildIndex(pg[w[j]].keys, x) = ChildIndex(pg[w[j]].keys, k)
<1>1. /\ w \in Seq(DOMAIN H) /\ w # <<>> /\ w[1] = r /\ Len(w) \in Nat /\ Last(w) = w[Len(w)]
      /\ \A j \in 1..(Len(w) - 1) : ~pg[w[j]].leaf /\ w[j + 1] = Child(pg[w[j]], k)
      /\ \A j \in 1..Len(w) : w[j] \in DOMAIN H
  BY LastOfPath, ElementOfSeq DEF Down, Descent
<1>2. ASSUME NEW j \in 1..(Len(w) - 1), x \in K[w[j + 1]]
      PROVE  x \in K[w[j]] /\ ChildIndex(pg[w[j]].keys, x) = ChildIndex(pg[w[j]].keys, k)
  <2>1. j \in 1..Len(w)
    BY <1>1
  <2> DEFINE p == w[j]
  <2>2. p \in DOMAIN H /\ ~pg[p].leaf /\ w[j + 1] = Child(pg[p], k)
    BY <1>1, <2>1
  <2>3. x \in K[Child(pg[p], k)]
    BY <1>2, <2>2
  <2> HIDE DEF p
  <2>4. x \in K[p] /\ ChildIndex(pg[p].keys, x) = ChildIndex(pg[p].keys, k)
    BY <2>2, <2>3, ChildInTree
  <2> QED
    BY <2>4 DEF p
<1> DEFINE S == {n \in Nat : n < Len(w) => x \in K[w[Len(w) - n]]}
<1>3. 0 \in S
  BY <1>1
<1>4. ASSUME NEW n \in Nat, n \in S
      PROVE  n + 1 \in S
  <2> SUFFICES ASSUME n + 1 < Len(w) PROVE x \in K[w[Len(w) - (n + 1)]]
    OBVIOUS
  <2>1. Len(w) - (n + 1) \in 1..(Len(w) - 1) /\ (Len(w) - (n + 1)) + 1 = Len(w) - n /\ n < Len(w)
    <3>1. Len(w) \in Nat
      BY <1>1
    <3> QED
      BY <3>1
  <2>2. x \in K[w[Len(w) - n]]
    BY <1>4, <2>1
  <2> QED
    BY <1>2, <2>1, <2>2
<1>5. Nat \subseteq S
  <2> HIDE DEF S
  <2> QED
    BY <1>3, <1>4, Induct
<1>6. ASSUME NEW j \in 1..Len(w)
      PROVE  x \in K[w[j]]
  <2>1. Len(w) - j \in Nat /\ Len(w) - j < Len(w) /\ Len(w) - (Len(w) - j) = j
    BY <1>1
  <2>2. Len(w) - j \in S
    BY <1>5, <2>1
  <2> QED
    BY <2>1, <2>2
<1>7. \A j \in 1..(Len(w) - 1) : ChildIndex(pg[w[j]].keys, x) = ChildIndex(pg[w[j]].keys, k)
  <2>1. \A j \in 1..(Len(w) - 1) : j + 1 \in 1..Len(w)
    BY <1>1
  <2> QED
    BY <1>2, <1>6, <2>1
<1> QED
  BY <1>1, <1>6, <1>7 DEF Descent, Child

\* There is one descent of a given length.
LEMMA OneDescent ==
  ASSUME NEW S, NEW v \in Seq(S), NEW w \in Seq(S), Len(v) = Len(w),
         NEW pg, NEW r, NEW k, Descent(pg, v, r, k), Descent(pg, w, r, k)
  PROVE  v = w
<1> DEFINE D == {n \in Nat : n + 1 <= Len(w) => v[n + 1] = w[n + 1]}
<1>1. 0 \in D
  BY DEF Descent
<1>2. ASSUME NEW n \in Nat, n \in D
      PROVE  n + 1 \in D
  <2> SUFFICES ASSUME n + 2 <= Len(w) PROVE v[n + 2] = w[n + 2]
    OBVIOUS
  <2>1. n + 1 \in 1..(Len(w) - 1) /\ (n + 1) + 1 = n + 2
    OBVIOUS
  <2>2. v[n + 1] = w[n + 1]
    BY <1>2
  <2> QED
    BY <2>1, <2>2 DEF Descent
<1>3. Nat \subseteq D
  <2> HIDE DEF D
  <2> QED
    BY <1>1, <1>2, Induct
<1>4. ASSUME NEW i \in 1..Len(v)
      PROVE  v[i] = w[i]
  <2>1. i - 1 \in D /\ (i - 1) + 1 = i
    BY <1>3
  <2> QED
    BY <2>1
<1> QED
  BY <1>4, SeqEqual

\* What the invariant is for: in a tree, a search for a key that a leaf stores
\* arrives at that leaf.
LEMMA TreeSearches ==
  ASSUME NEW top, NEW low, NEW H, NEW K, FileOK(pages), Tree(pages, top, low, H, K),
         NEW r \in DOMAIN H
  PROVE  SearchTree(r)
<1> SUFFICES ASSUME NEW k \in Keys, NEW x \in Keys
             PROVE  LET v == PathIn(pages, r, k)
                        w == PathIn(pages, r, x)
                    IN  /\ pages[Last(v)].leaf /\ Len(v) = Len(w)
                        /\ x \in Range(pages[Last(v)].keys) => Last(w) = Last(v)
  BY DEF SearchTree
<1> DEFINE v == PathIn(pages, r, k)
           w == PathIn(pages, r, x)
<1>1. Down(v, pages, r, k, H) /\ Len(v) = H[r] + 1 /\ pages[Last(v)].leaf
  BY PathDown
<1>2. Down(w, pages, r, x, H) /\ Len(w) = H[r] + 1
  BY PathDown
<1> HIDE DEF v, w
<1>3. ASSUME x \in Range(pages[Last(v)].keys)
      PROVE  v = w
  <2>1. Last(v) \in DOMAIN H
    BY <1>1, LastOfPath DEF Down, Descent
  <2>2. x \in K[Last(v)]
    BY <1>3, <2>1 DEF Tree, Forest, Fits
  <2>3. Descent(pages, v, r, x)
    BY <1>1, <2>2, Gather
  <2> QED
    BY <1>1, <1>2, <2>3, OneDescent DEF Down
<1> QED
  BY <1>1, <1>2, <1>3 DEF v, w
-----------------------------------------------------------------------------
\* A node fits a wider set of keys, a larger tree, and children that ask for less.
LEMMA FitsMore ==
  ASSUME NEW n, NEW S, NEW S2, NEW h, NEW H, NEW K, NEW H2, NEW K2,
         Fits(n, S, h, H, K), S \subseteq S2, DOMAIN H \subseteq DOMAIN H2,
         \A q \in DOMAIN H : H2[q] = H[q] /\ K2[q] \subseteq K[q]
  PROVE  Fits(n, S2, h, H2, K2)
<1>1. Range(n.keys) \subseteq S2 /\ (n.leaf <=> h = 0)
  BY DEF Fits
<1>2. ASSUME ~n.leaf, NEW i \in DOMAIN n.vals
      PROVE  /\ n.vals[i] \in DOMAIN H2 /\ H2[n.vals[i]] = h - 1
             /\ \A k \in K2[n.vals[i]] : k \in S2 /\ ChildIndex(n.keys, k) = i
  BY <1>2 DEF Fits
<1> QED
  BY <1>1, <1>2 DEF Fits

\* Pages are apart still when others are added.
LEMMA ApartGrown ==
  ASSUME NEW n, NEW p, NEW pg, NEW pg2, NEW H, Apart(n, p, pg, H),
         \A q \in DOMAIN H : pg2[q] = pg[q]
  PROVE  Apart(n, p, pg2, H)
  BY DEF Apart

\* Pages added to the file leave the tree alone.
LEMMA ForestGrown ==
  ASSUME NEW pg, NEW pg2, NEW H, NEW K, Forest(pg, H, K), DOMAIN pg \subseteq DOMAIN pg2,
         \A p \in DOMAIN pg : pg2[p] = pg[p]
  PROVE  Forest(pg2, H, K)
<1>1. \A p \in DOMAIN H : pg2[p] = pg[p]
  BY DEF Forest
<1>2. ASSUME NEW p \in DOMAIN H
      PROVE  Fits(pg2[p], K[p], H[p], H, K) /\ Apart(pg2[p], p, pg2, H)
  BY <1>1 DEF Forest, Apart
<1> QED
  BY <1>2 DEF Forest

\* Pages added to the file leave the whole tree alone.
LEMMA TreeGrown ==
  ASSUME NEW pg, NEW pg2, NEW top, NEW low, NEW H, NEW K, Tree(pg, top, low, H, K),
         DOMAIN pg \subseteq DOMAIN pg2, \A p \in DOMAIN pg : pg2[p] = pg[p],
         Len(pg) \in Nat, Len(pg2) \in Nat, Len(pg) <= Len(pg2)
  PROVE  Tree(pg2, top, low, H, K)
<1>1. Forest(pg2, H, K)
  BY ForestGrown DEF Tree
<1>2. H[top] \in Nat
  BY DEF Tree, Forest
<1> QED
  BY <1>1, <1>2 DEF Tree

\* A page of the tree is written over with a node that fits it, for the same keys
\* or fewer.
LEMMA ForestWrite ==
  ASSUME NEW pg, NEW H, NEW K, Forest(pg, H, K), NEW p \in DOMAIN H,
         NEW n, NEW S \in SUBSET K[p], Fits(n, S, H[p], H, K), Apart(n, p, pg, H)
  PROVE  Forest([pg EXCEPT ![p] = n], H, [K EXCEPT ![p] = S])
<1> DEFINE pg2 == [pg EXCEPT ![p] = n]
           K2 == [K EXCEPT ![p] = S]
<1>1. /\ DOMAIN H \subseteq DOMAIN pg /\ H \in [DOMAIN H -> Nat] /\ K \in [DOMAIN H -> SUBSET Keys]
      /\ \A q \in DOMAIN H : Fits(pg[q], K[q], H[q], H, K) /\ Apart(pg[q], q, pg, H)
  BY DEF Forest
<1>2. DOMAIN pg2 = DOMAIN pg /\ pg2[p] = n /\ \A q \in DOMAIN H \ {p} : pg2[q] = pg[q]
  BY <1>1
<1>3. K2 \in [DOMAIN H -> SUBSET Keys] /\ K2[p] = S /\ \A q \in DOMAIN H \ {p} : K2[q] = K[q]
  BY <1>1
<1>4. \A q \in DOMAIN H : K2[q] \subseteq K[q]
  BY <1>3
<1> HIDE DEF pg2, K2
<1>5. Fits(n, S, H[p], H, K2)
  BY <1>4, FitsMore
<1>6. ASSUME NEW q \in DOMAIN H, q # p
      PROVE  Fits(pg2[q], K2[q], H[q], H, K2)
  <2>1. Fits(pg[q], K[q], H[q], H, K2)
    BY <1>1, <1>4, FitsMore
  <2> QED
    BY <1>2, <1>3, <1>6, <2>1
<1>7. ASSUME NEW q \in DOMAIN H
      PROVE  Apart(pg2[q], q, pg2, H)
  <2>1. CASE q = p
    BY <1>2, <2>1 DEF Apart
  <2>2. CASE q # p
    <3> SUFFICES ASSUME ~pg[q].leaf PROVE Apart(pg[q], q, pg2, H)
      BY <1>2, <2>2 DEF Apart
    <3>1. /\ \A i, j \in DOMAIN pg[q].vals : pg[q].vals[i] = pg[q].vals[j] => i = j
          /\ \A m \in DOMAIN H \ {q} : ~pg[m].leaf =>
               \A i \in DOMAIN pg[q].vals, j \in DOMAIN pg[m].vals : pg[q].vals[i] # pg[m].vals[j]
      BY <1>1 DEF Apart
    <3>2. ~n.leaf => \A i \in DOMAIN pg[q].vals, j \in DOMAIN n.vals : pg[q].vals[i] # n.vals[j]
      BY <2>2 DEF Apart
    <3>3. ASSUME NEW m \in DOMAIN H \ {q}, ~pg2[m].leaf,
                 NEW i \in DOMAIN pg[q].vals, NEW j \in DOMAIN pg2[m].vals
          PROVE  pg[q].vals[i] # pg2[m].vals[j]
      BY <1>2, <3>1, <3>2, <3>3
    <3> QED
      BY <3>1, <3>3 DEF Apart
  <2> QED
    BY <2>1, <2>2
<1> QED
  BY <1>1, <1>2, <1>3, <1>5, <1>6, <1>7 DEF Forest, pg2, K2

\* f with one more element in its domain.
Plus(f, p, e) == [q \in DOMAIN f \cup {p} |-> IF q = p THEN e ELSE f[q]]

\* A spare page that fits joins the tree.
LEMMA ForestAdd ==
  ASSUME NEW pg, NEW H, NEW K, Forest(pg, H, K), NEW p \in DOMAIN pg \ DOMAIN H,
         NEW h \in Nat, NEW S \in SUBSET Keys, Fits(pg[p], S, h, H, K), Apart(pg[p], p, pg, H)
  PROVE  Forest(pg, Plus(H, p, h), Plus(K, p, S))
<1> DEFINE H2 == Plus(H, p, h)
           K2 == Plus(K, p, S)
<1>1. /\ DOMAIN H \subseteq DOMAIN pg /\ H \in [DOMAIN H -> Nat] /\ K \in [DOMAIN H -> SUBSET Keys]
      /\ \A q \in DOMAIN H : Fits(pg[q], K[q], H[q], H, K) /\ Apart(pg[q], q, pg, H)
  BY DEF Forest
<1>2. /\ DOMAIN H2 = DOMAIN H \cup {p} /\ H2 \in [DOMAIN H2 -> Nat]
      /\ H2[p] = h /\ \A q \in DOMAIN H : H2[q] = H[q]
  BY <1>1 DEF Plus
<1>3. /\ K2 \in [DOMAIN H2 -> SUBSET Keys]
      /\ K2[p] = S /\ \A q \in DOMAIN H : K2[q] = K[q]
  BY <1>1, <1>2 DEF Plus
<1> HIDE DEF H2, K2
<1>4. ASSUME NEW q \in DOMAIN H2
      PROVE  Fits(pg[q], K2[q], H2[q], H2, K2)
  <2>1. CASE q = p
    <3>1. Fits(pg[p], S, h, H2, K2)
      BY <1>2, <1>3, FitsMore
    <3> QED
      BY <1>2, <1>3, <2>1, <3>1
  <2>2. CASE q # p
    <3>1. q \in DOMAIN H /\ Fits(pg[q], K[q], H[q], H, K)
      BY <1>1, <1>2, <2>2
    <3>2. Fits(pg[q], K[q], H[q], H2, K2)
      BY <1>2, <1>3, <3>1, FitsMore
    <3> QED
      BY <1>2, <1>3, <3>1, <3>2
  <2> QED
    BY <2>1, <2>2
<1>5. ASSUME NEW q \in DOMAIN H2
      PROVE  Apart(pg[q], q, pg, H2)
  <2>1. CASE q = p
    <3>1. DOMAIN H2 \ {p} \subseteq DOMAIN H \ {p}
      BY <1>2
    <3> QED
      BY <2>1, <3>1 DEF Apart
  <2>2. CASE q # p
    <3> SUFFICES ASSUME ~pg[q].leaf, NEW m \in DOMAIN H2 \ {q}, ~pg[m].leaf,
                        NEW i \in DOMAIN pg[q].vals, NEW j \in DOMAIN pg[m].vals
                 PROVE  pg[q].vals[i] # pg[m].vals[j]
      <4>1. q \in DOMAIN H
        BY <1>2, <2>2
      <4> QED
        BY <1>1, <4>1 DEF Apart
    <3>1. q \in DOMAIN H
      BY <1>2, <2>2
    <3>2. CASE m = p
      BY <2>2, <3>1, <3>2 DEF Apart
    <3>3. CASE m # p
      <4>1. m \in DOMAIN H \ {q}
        BY <1>2, <3>3
      <4> QED
        BY <1>1, <3>1, <4>1 DEF Apart
    <3> QED
      BY <3>2, <3>3
  <2> QED
    BY <2>1, <2>2
<1> QED
  BY <1>1, <1>2, <1>3, <1>4, <1>5 DEF Forest, H2, K2

\* What is below page p is a tree of its own.
LEMMA ForestBelow ==
  ASSUME NEW pg, NEW H, NEW K, Forest(pg, H, K), NEW p \in DOMAIN H,
         NEW T, T = {p} \cup {q \in DOMAIN H : H[q] < H[p]}
  PROVE  Forest(pg, [q \in T |-> H[q]], [q \in T |-> K[q]])
<1> DEFINE H2 == [q \in T |-> H[q]]
           K2 == [q \in T |-> K[q]]
<1>1. /\ DOMAIN H \subseteq DOMAIN pg /\ H \in [DOMAIN H -> Nat] /\ K \in [DOMAIN H -> SUBSET Keys]
      /\ \A q \in DOMAIN H : Fits(pg[q], K[q], H[q], H, K) /\ Apart(pg[q], q, pg, H)
  BY DEF Forest
<1>2. T \subseteq DOMAIN H
  OBVIOUS
<1>3. DOMAIN H2 = T /\ H2 \in [T -> Nat] /\ K2 \in [T -> SUBSET Keys]
  BY <1>1, <1>2
<1>4. \A q \in T : H2[q] = H[q] /\ K2[q] = K[q]
  OBVIOUS
<1> HIDE DEF H2, K2
<1>5. ASSUME NEW q \in T
      PROVE  Fits(pg[q], K2[q], H2[q], H2, K2)
  <2>1. Fits(pg[q], K[q], H[q], H, K)
    BY <1>1, <1>2
  <2>2. \A i \in DOMAIN pg[q].vals : ~pg[q].leaf => pg[q].vals[i] \in T
    <3>1. H[q] \in Nat /\ H[p] \in Nat /\ H[q] <= H[p]
      BY <1>1, <1>2
    <3>2. ASSUME ~pg[q].leaf, NEW i \in DOMAIN pg[q].vals
          PROVE  pg[q].vals[i] \in DOMAIN H /\ H[pg[q].vals[i]] < H[p]
      <4>1. pg[q].vals[i] \in DOMAIN H /\ H[pg[q].vals[i]] = H[q] - 1
        BY <2>1, <3>2 DEF Fits
      <4> QED
        BY <3>1, <4>1
    <3> QED
      BY <3>2
  <2> QED
    BY <1>3, <1>4, <2>1, <2>2 DEF Fits
<1>6. ASSUME NEW q \in T
      PROVE  Apart(pg[q], q, pg, H2)
  BY <1>1, <1>2, <1>3 DEF Apart
<1> QED
  BY <1>1, <1>2, <1>3, <1>5, <1>6 DEF Forest, H2, K2

\* A key may be added to what all the pages of its descent are for.
LEMMA ForestRoute ==
  ASSUME NEW pg, NEW top, NEW low, NEW H, NEW K, FileOK(pg), Tree(pg, top, low, H, K),
         NEW k \in Keys, NEW w, Down(w, pg, top, k, H),
         NEW K2, K2 = [q \in DOMAIN H |-> IF q \in Range(w) THEN K[q] \cup {k} ELSE K[q]]
  PROVE  Forest(pg, H, K2)
<1>1. /\ DOMAIN H \subseteq DOMAIN pg /\ H \in [DOMAIN H -> Nat] /\ K \in [DOMAIN H -> SUBSET Keys]
      /\ \A q \in DOMAIN H : Fits(pg[q], K[q], H[q], H, K) /\ Apart(pg[q], q, pg, H)
      /\ \A q \in DOMAIN H : q = top \/ H[q] < H[top]
  BY DEF Tree, Forest
<1>2. K2 \in [DOMAIN H -> SUBSET Keys] /\ \A q \in DOMAIN H : K[q] \subseteq K2[q]
  BY <1>1
<1>3. /\ w \in Seq(DOMAIN H) /\ w[1] = top /\ Len(w) \in Nat
      /\ \A j \in 1..(Len(w) - 1) : ~pg[w[j]].leaf /\ w[j + 1] = Child(pg[w[j]], k)
      /\ \A j \in 1..Len(w) : w[j] \in DOMAIN H /\ w[j] \in Range(w)
  BY LastOfPath, ElementOfSeq DEF Down, Descent, Range
<1>4. ASSUME NEW p \in DOMAIN H, ~pg[p].leaf, NEW i \in DOMAIN pg[p].vals,
             NEW x \in K2[pg[p].vals[i]]
      PROVE  x \in K2[p] /\ ChildIndex(pg[p].keys, x) = i
  <2> DEFINE c == pg[p].vals[i]
  <2>1. c \in DOMAIN H /\ H[c] = H[p] - 1 /\ \A y \in K[c] : y \in K[p] /\ ChildIndex(pg[p].keys, y) = i
    BY <1>1, <1>4 DEF Fits
  <2>2. CASE x \in K[c]
    BY <1>2, <2>1, <2>2
  <2>3. CASE x \notin K[c]
    <3>1. x = k /\ c \in Range(w)
      BY <1>4, <2>1, <2>3
    <3>2. PICK j \in 1..Len(w) : w[j] = c
      BY <1>3, <3>1, LenProperties DEF Range
    <3>3. j # 1
      <4>1. H[c] < H[top]
        BY <1>1, <2>1
      <4> QED
        BY <1>1, <1>3, <2>1, <3>2, <4>1
    <3>4. j - 1 \in 1..(Len(w) - 1) /\ j - 1 \in 1..Len(w) /\ (j - 1) + 1 = j
      BY <1>3, <3>3
    <3> DEFINE q == w[j - 1]
    <3>5. q \in DOMAIN H /\ q \in Range(w) /\ ~pg[q].leaf /\ c = Child(pg[q], k)
      BY <1>3, <3>2, <3>4
    <3> HIDE DEF q
    <3>6. ChildIndex(pg[q].keys, k) \in DOMAIN pg[q].vals /\ pg[q].vals[ChildIndex(pg[q].keys, k)] = c
      <4>1. pg[q] \in Nodes /\ NodeOK(pg[q], Len(pg))
        BY <1>1, <3>5 DEF FileOK
      <4> QED
        BY <3>5, <4>1, ChildExists DEF Child
    <3>7. p = q
      BY <1>1, <1>4, <3>5, <3>6 DEF Apart
    <3>8. ChildIndex(pg[p].keys, k) = i
      BY <1>1, <1>4, <3>6, <3>7 DEF Apart
    <3> QED
      BY <3>1, <3>5, <3>7, <3>8
  <2> QED
    BY <2>2, <2>3
<1>5. ASSUME NEW p \in DOMAIN H
      PROVE  Fits(pg[p], K2[p], H[p], H, K2)
  <2>1. Fits(pg[p], K[p], H[p], H, K)
    BY <1>1
  <2>2. Range(pg[p].keys) \subseteq K2[p]
    BY <1>2, <2>1 DEF Fits
  <2> QED
    BY <1>4, <2>1, <2>2 DEF Fits
<1> QED
  BY <1>1, <1>2, <1>5 DEF Forest

\* A page of no tree is not disturbed by a write to the page in hand.
LEMMA SpareKept ==
  ASSUME NEW pg, NEW pg2, NEW H, NEW p \in DOMAIN H, NEW r, r \in DOMAIN pg \ DOMAIN H,
         DOMAIN H \subseteq DOMAIN pg,
         \A q \in DOMAIN pg \ {p} : pg2[q] = pg[q],
         Apart(pg[r], p, pg, H),
         ~pg2[p].leaf /\ ~pg[r].leaf => Range(pg2[p].vals) \cap Range(pg[r].vals) = {}
  PROVE  pg2[r] = pg[r] /\ Apart(pg2[r], r, pg2, H)
<1>1. pg2[r] = pg[r]
  OBVIOUS
<1>2. ASSUME ~pg[r].leaf
      PROVE  /\ \A i, j \in DOMAIN pg[r].vals : pg[r].vals[i] = pg[r].vals[j] => i = j
             /\ \A q \in DOMAIN H \ {p} : ~pg[q].leaf =>
                  \A i \in DOMAIN pg[r].vals, j \in DOMAIN pg[q].vals : pg[r].vals[i] # pg[q].vals[j]
  BY <1>2 DEF Apart
<1>3. ASSUME ~pg[r].leaf, NEW q \in DOMAIN H, ~pg2[q].leaf,
             NEW i \in DOMAIN pg[r].vals, NEW j \in DOMAIN pg2[q].vals
      PROVE  pg[r].vals[i] # pg2[q].vals[j]
  <2>1. CASE q = p
    BY <1>3, <2>1 DEF Range
  <2>2. CASE q # p
    <3>1. pg2[q] = pg[q]
      BY <2>2
    <3> QED
      BY <1>2, <1>3, <2>2, <3>1
  <2> QED
    BY <2>1, <2>2
<1> QED
  BY <1>1, <1>2, <1>3 DEF Apart
-----------------------------------------------------------------------------
\* A node that absorbs separator x and page r behind its i-th child.
Wider(n, i, x, r) == Internal(InsertAt(n.keys, i, x), InsertAt(n.vals, i + 1, r))

\* What such a node w holds.
HasWider(w, n, i, x, r) ==
  /\ w \in Nodes /\ ~w.leaf
  /\ Len(w.keys) = Len(n.keys) + 1 /\ Len(w.vals) = Len(n.keys) + 2
  /\ DOMAIN w.keys = 1..(Len(n.keys) + 1) /\ DOMAIN w.vals = 1..(Len(n.keys) + 2)
  /\ \A j \in 1..(Len(n.keys) + 1) :
       w.keys[j] = IF j < i THEN n.keys[j] ELSE IF j = i THEN x ELSE n.keys[j - 1]
  /\ \A j \in 1..(Len(n.keys) + 2) :
       w.vals[j] = IF j <= i THEN n.vals[j] ELSE IF j = i + 1 THEN r ELSE n.vals[j - 1]
  /\ w.keys = InsertAt(n.keys, i, x)

\* Its keys and children, one by one.
LEMMA WiderElements ==
  ASSUME NEW n \in Nodes, ~n.leaf, Len(n.vals) = Len(n.keys) + 1,
         NEW i \in 1..Len(n.vals), NEW x \in Keys, NEW r \in Nat
  PROVE  HasWider(Wider(n, i, x, r), n, i, x, r)
<1> DEFINE ks == InsertAt(n.keys, i, x)
           vs == InsertAt(n.vals, i + 1, r)
<1>1. n.keys \in Seq(Keys) /\ n.vals \in Seq(Nat) /\ Len(n.keys) \in Nat
  BY NodeType
<1>2. i \in 1..(Len(n.keys) + 1) /\ i + 1 \in 1..(Len(n.vals) + 1)
  BY <1>1
<1>3. /\ ks \in Seq(Keys) /\ Len(ks) = Len(n.keys) + 1
      /\ \A j \in 1..(Len(n.keys) + 1) :
           ks[j] = IF j < i THEN n.keys[j] ELSE IF j = i THEN x ELSE n.keys[j - 1]
  <2> DEFINE a == n.keys
  <2>1. a \in Seq(Keys) /\ i \in 1..(Len(a) + 1)
    BY <1>1, <1>2
  <2> HIDE DEF a
  <2>2. /\ InsertAt(a, i, x) \in Seq(Keys) /\ Len(InsertAt(a, i, x)) = Len(a) + 1
        /\ \A j \in 1..(Len(a) + 1) :
             InsertAt(a, i, x)[j] = IF j < i THEN a[j] ELSE IF j = i THEN x ELSE a[j - 1]
    BY <2>1, InsertAtElements
  <2> QED
    BY <2>2 DEF a
<1>4. /\ vs \in Seq(Nat) /\ Len(vs) = Len(n.vals) + 1
      /\ \A j \in 1..(Len(n.vals) + 1) :
           vs[j] = IF j < i + 1 THEN n.vals[j] ELSE IF j = i + 1 THEN r ELSE n.vals[j - 1]
  <2> DEFINE a == n.vals
             m == i + 1
             S == Nat
  <2>1. a \in Seq(S) /\ m \in 1..(Len(a) + 1) /\ r \in S
    BY <1>1, <1>2
  <2> HIDE DEF a, m, S
  <2>2. /\ InsertAt(a, m, r) \in Seq(S) /\ Len(InsertAt(a, m, r)) = Len(a) + 1
        /\ \A j \in 1..(Len(a) + 1) :
             InsertAt(a, m, r)[j] = IF j < m THEN a[j] ELSE IF j = m THEN r ELSE a[j - 1]
    BY <2>1, InsertAtElements
  <2> QED
    BY <2>2 DEF a, m, S
<1> HIDE DEF ks, vs
<1>5. /\ Len(vs) = Len(n.keys) + 2
      /\ \A j \in 1..(Len(n.keys) + 2) :
           vs[j] = IF j <= i THEN n.vals[j] ELSE IF j = i + 1 THEN r ELSE n.vals[j - 1]
  <2>1. Len(n.vals) + 1 = Len(n.keys) + 2
    BY <1>1
  <2>2. \A j \in 1..(Len(n.keys) + 2) : j <= i <=> j < i + 1
    BY <1>1, <1>2
  <2> QED
    BY <1>4, <2>1, <2>2
<1>6. DOMAIN ks = 1..(Len(n.keys) + 1) /\ DOMAIN vs = 1..(Len(n.keys) + 2)
  BY <1>3, <1>4, <1>5, LenProperties
<1>7. Wider(n, i, x, r) = [leaf |-> FALSE, keys |-> ks, vals |-> vs, next |-> 0]
  BY DEF Wider, Internal, ks, vs
<1>8. Wider(n, i, x, r) \in Nodes
  BY <1>3, <1>4, <1>7 DEF Nodes
<1> QED
  BY <1>3, <1>5, <1>6, <1>7, <1>8 DEF HasWider, ks

\* Below the wider node, each child has the keys it had, and r those from x on
\* of the child before it.
LEMMA WiderRoutes ==
  ASSUME NEW n \in Nodes, ~n.leaf, Len(n.vals) = Len(n.keys) + 1, Sorted(n.keys),
         NEW x \in Keys, NEW i, i = ChildIndex(n.keys, x), i > 1 => n.keys[i - 1] < x,
         NEW r \in Nat
  PROVE  /\ Sorted(Wider(n, i, x, r).keys)
         /\ \A k \in Keys :
              ChildIndex(Wider(n, i, x, r).keys, k) =
                IF ChildIndex(n.keys, k) < i \/ (ChildIndex(n.keys, k) = i /\ k < x)
                THEN ChildIndex(n.keys, k)
                ELSE ChildIndex(n.keys, k) + 1
<1> DEFINE ws == Wider(n, i, x, r).keys
           N == Len(n.keys)
<1>1. n.keys \in Seq(Int) /\ N \in Nat /\ Keys \subseteq Int /\ \A j \in 1..N : n.keys[j] \in Int
  BY NodeType, KeysAssumption, ElementOfSeq
<1>2. i \in 1..(N + 1) /\ \A j \in 1..N : j < i <=> n.keys[j] <= x
  BY <1>1, ChildIndexSplits
<1>3. /\ ws \in Seq(Int) /\ Len(ws) = N + 1 /\ ws = InsertAt(n.keys, i, x)
      /\ \A j \in 1..(N + 1) :
           ws[j] = IF j < i THEN n.keys[j] ELSE IF j = i THEN x ELSE n.keys[j - 1]
  <2>1. i \in 1..Len(n.vals)
    BY <1>2
  <2>2. HasWider(Wider(n, i, x, r), n, i, x, r)
    BY <2>1, WiderElements
  <2>3. Wider(n, i, x, r).keys \in Seq(Int)
    BY <2>2, NodeType DEF HasWider
  <2> QED
    BY <2>2, <2>3 DEF HasWider
<1> HIDE DEF ws
<1>4. \A j \in 1..N : IF j < i THEN n.keys[j] < x ELSE x < n.keys[j]
  <2>1. ASSUME NEW j \in 1..N, j < i PROVE n.keys[j] < x
    <3>1. i - 1 \in 1..N /\ i > 1 /\ (j = i - 1 \/ j < i - 1)
      BY <1>1, <1>2, <2>1
    <3>2. j = i - 1 \/ n.keys[j] < n.keys[i - 1]
      BY <1>1, <2>1, <3>1 DEF Sorted
    <3> QED
      BY <1>1, <3>1, <3>2
  <2>2. ASSUME NEW j \in 1..N, ~(j < i) PROVE x < n.keys[j]
    BY <1>1, <1>2, <2>2
  <2> QED
    BY <2>1, <2>2
<1>5. Sorted(ws)
  BY <1>1, <1>2, <1>3, <1>4, SortedInsert
<1>6. ASSUME NEW k \in Keys, NEW c, c = ChildIndex(n.keys, k)
      PROVE  ChildIndex(ws, k) = IF c < i \/ (c = i /\ k < x) THEN c ELSE c + 1
  <2>1. c \in 1..(N + 1) /\ \A j \in 1..N : j < c <=> n.keys[j] <= k
    BY <1>1, <1>6, ChildIndexSplits
  <2> DEFINE d == IF c < i \/ (c = i /\ k < x) THEN c ELSE c + 1
  <2>2. d \in 1..(Len(ws) + 1)
    BY <1>1, <1>3, <2>1
  <2>3. c < i => k < x
    <3>1. CASE c < i
      <4>1. c \in 1..N /\ n.keys[c] < x /\ ~(n.keys[c] <= k)
        BY SMTT(30), <1>1, <1>2, <1>4, <2>1, <3>1
      <4> QED
        BY <1>1, <4>1
    <3> QED
      BY <3>1
  <2>4. c > i => x < k
    <3>1. CASE c > i
      <4>1. i \in 1..N /\ x < n.keys[i] /\ n.keys[i] <= k
        BY <1>1, <1>2, <1>4, <2>1, <3>1
      <4> QED
        BY <1>1, <4>1
    <3> QED
      BY <3>1
  <2>5. x <= k <=> i < d
    BY <1>1, <1>2, <2>1, <2>3, <2>4
  <2>6. \A j \in 1..(N + 1) : j < i => (j < d <=> j < c)
    BY <1>1, <1>2, <2>1
  <2>7. \A j \in 1..(N + 1) : j > i => (j < d <=> j - 1 < c)
    BY <1>1, <1>2, <2>1
  <2> HIDE DEF d
  <2>8. ASSUME NEW j \in 1..(N + 1)
        PROVE  j < d <=> ws[j] <= k
    <3>1. CASE j < i
      <4>1. j \in 1..N
        BY <1>1, <1>2, <3>1
      <4>2. ws[j] = n.keys[j]
        BY <1>3, <3>1
      <4> QED
        BY <2>1, <2>6, <3>1, <4>1, <4>2
    <3>2. CASE j = i
      BY <1>3, <2>5, <3>2
    <3>3. CASE j > i
      <4>1. j - 1 \in 1..N
        BY <1>1, <1>2, <3>3
      <4>2. ws[j] = n.keys[j - 1]
        BY <1>2, <1>3, <3>3
      <4> QED
        BY <2>1, <2>7, <3>3, <4>1, <4>2
    <3> QED
      BY <1>2, <3>1, <3>2, <3>3
  <2>9. ChildIndex(ws, k) = d
    BY <1>1, <1>3, <2>2, <2>8, ChildIndexIs
  <2> QED
    BY <2>9 DEF d
<1> QED
  BY <1>5, <1>6 DEF ws

\* What the parent p takes over from its i-th child, when that was split at x.
Taken(pg, p, i, x, K) == {k \in K[p] : ChildIndex(pg[p].keys, k) = i /\ k >= x}

\* The parent that absorbs the half that moved fits the place of the parent, with
\* that half in the tree.
LEMMA WiderFits ==
  ASSUME NEW pg, NEW H, NEW K, FileOK(pg), Forest(pg, H, K), NEW p \in DOMAIN H, ~pg[p].leaf,
         NEW x \in K[p], NEW i, i = ChildIndex(pg[p].keys, x), i > 1 => pg[p].keys[i - 1] < x,
         \A k \in K[pg[p].vals[i]] : k < x,
         NEW r \in DOMAIN pg \ DOMAIN H,
         Fits(pg[r], Taken(pg, p, i, x, K), H[p] - 1, H, K), Apart(pg[r], r, pg, H),
         NEW H2, H2 = Plus(H, r, H[p] - 1), NEW K2, K2 = Plus(K, r, Taken(pg, p, i, x, K))
  PROVE  LET w == Wider(pg[p], i, x, r)
         IN  /\ Forest(pg, H2, K2)
             /\ w \in Nodes /\ ~w.leaf /\ Sorted(w.keys) /\ Len(w.vals) = Len(w.keys) + 1
             /\ Range(w.vals) \subseteq 1..Len(pg)
             /\ Fits(w, K[p], H[p], H2, K2) /\ Apart(w, p, pg, H2)
<1> DEFINE n == pg[p]
           w == Wider(n, i, x, r)
           N == Len(n.keys)
           R == Taken(pg, p, i, x, K)
<1>1. /\ DOMAIN H \subseteq DOMAIN pg /\ H \in [DOMAIN H -> Nat] /\ K \in [DOMAIN H -> SUBSET Keys]
      /\ \A q \in DOMAIN H : Fits(pg[q], K[q], H[q], H, K) /\ Apart(pg[q], q, pg, H)
  BY DEF Forest
<1>2. n \in Nodes /\ NodeOK(n, Len(pg)) /\ ~n.leaf /\ Fits(n, K[p], H[p], H, K)
  BY <1>1 DEF FileOK
<1>3. /\ Len(n.vals) = N + 1 /\ N \in Nat /\ Sorted(n.keys) /\ DOMAIN n.vals = 1..(N + 1)
      /\ DOMAIN n.keys = 1..N
      /\ \A j \in 1..(N + 1) : n.vals[j] \in 1..Len(pg)
  BY <1>2, NodeType DEF NodeOK, Sorted, Range
<1>4. x \in Keys /\ K[p] \subseteq Keys /\ H[p] \in Nat /\ H[p] # 0 /\ Keys \subseteq Int
  BY <1>1, <1>2, KeysAssumption DEF Fits
<1>5. i \in 1..(N + 1)
  BY <1>2, <1>3, <1>4, ChildExists
<1>6. r \in 1..Len(pg) /\ r \in Nat
  BY LenProperties DEF FileOK
<1>7. R \subseteq K[p] /\ R \in SUBSET Keys
  BY <1>4 DEF Taken
<1>8. /\ w \in Nodes /\ ~w.leaf
      /\ Len(w.keys) = N + 1 /\ Len(w.vals) = N + 2
      /\ DOMAIN w.keys = 1..(N + 1) /\ DOMAIN w.vals = 1..(N + 2)
      /\ \A j \in 1..(N + 1) :
           w.keys[j] = IF j < i THEN n.keys[j] ELSE IF j = i THEN x ELSE n.keys[j - 1]
      /\ \A j \in 1..(N + 2) :
           w.vals[j] = IF j <= i THEN n.vals[j] ELSE IF j = i + 1 THEN r ELSE n.vals[j - 1]
  <2>1. i \in 1..Len(n.vals) /\ n \in Nodes /\ ~n.leaf /\ Len(n.vals) = Len(n.keys) + 1
    BY <1>2, <1>3, <1>5
  <2> HIDE DEF n
  <2>2. HasWider(w, n, i, x, r)
    BY <1>4, <1>6, <2>1, WiderElements
  <2> QED
    BY <2>2 DEF HasWider
<1>9. /\ Sorted(w.keys)
      /\ \A k \in Keys :
           ChildIndex(w.keys, k) =
             IF ChildIndex(n.keys, k) < i \/ (ChildIndex(n.keys, k) = i /\ k < x)
             THEN ChildIndex(n.keys, k) ELSE ChildIndex(n.keys, k) + 1
  <2>1. i = ChildIndex(n.keys, x) /\ (i > 1 => n.keys[i - 1] < x)
    OBVIOUS
  <2> HIDE DEF n
  <2> QED
    BY <1>2, <1>3, <1>4, <1>6, <2>1, WiderRoutes
<1> HIDE DEF w, R
<1>10. Forest(pg, H2, K2)
  <2>1. H[p] - 1 \in Nat
    BY <1>4
  <2> QED
    BY <1>7, <2>1, ForestAdd DEF R
<1>11. /\ DOMAIN H2 = DOMAIN H \cup {r} /\ H2[r] = H[p] - 1 /\ K2[r] = R
       /\ \A q \in DOMAIN H : H2[q] = H[q] /\ K2[q] = K[q]
  BY <1>1 DEF Plus, R
<1>12. \A j \in 1..(N + 1) :
         /\ n.vals[j] \in DOMAIN H /\ H[n.vals[j]] = H[p] - 1
         /\ \A k \in K[n.vals[j]] : k \in K[p] /\ ChildIndex(n.keys, k) = j
  BY <1>2, <1>3 DEF Fits
\* Where each child of the wider node comes from.
<1>13. ASSUME NEW j \in 1..(N + 2)
       PROVE  \/ j <= i /\ j \in 1..(N + 1) /\ w.vals[j] = n.vals[j]
              \/ j = i + 1 /\ w.vals[j] = r
              \/ j > i + 1 /\ j - 1 \in 1..(N + 1) /\ w.vals[j] = n.vals[j - 1]
  <2>1. w.vals[j] = IF j <= i THEN n.vals[j] ELSE IF j = i + 1 THEN r ELSE n.vals[j - 1]
    BY <1>8
  <2>2. (j <= i /\ j \in 1..(N + 1)) \/ j = i + 1 \/ (j > i + 1 /\ j - 1 \in 1..(N + 1))
    BY <1>3, <1>5
  <2>3. CASE j <= i
    BY <1>3, <1>5, <2>1, <2>2, <2>3
  <2>4. CASE j = i + 1
    BY <1>5, <2>1, <2>4
  <2>5. CASE j > i + 1
    BY <1>5, <2>1, <2>2, <2>5
  <2> QED
    BY <2>2, <2>3, <2>4, <2>5
<1>14. Fits(w, K[p], H[p], H2, K2)
  <2>1. Range(w.keys) \subseteq K[p]
    <3>1. \A j \in 1..N : n.keys[j] \in K[p]
      BY <1>2, <1>3 DEF Fits, Range
    <3>2. ASSUME NEW j \in 1..(N + 1) PROVE w.keys[j] \in K[p]
      <4>1. CASE j < i
        <5>1. j \in 1..N
          BY <1>3, <1>5, <4>1
        <5> QED
          BY <1>8, <3>1, <4>1, <5>1
      <4>2. CASE j = i
        BY <1>8, <4>2
      <4>3. CASE j > i
        <5>1. j - 1 \in 1..N
          BY <1>3, <1>5, <4>3
        <5> QED
          BY SMTT(30), <1>5, <1>8, <3>1, <4>3, <5>1
      <4> QED
        BY <1>5, <4>1, <4>2, <4>3
    <3> QED
      BY <1>8, <3>2 DEF Range
  <2>2. ASSUME NEW j \in 1..(N + 2)
        PROVE  /\ w.vals[j] \in DOMAIN H2 /\ H2[w.vals[j]] = H[p] - 1
               /\ \A k \in K2[w.vals[j]] : k \in K[p] /\ ChildIndex(w.keys, k) = j
    <3>1. CASE j <= i /\ j \in 1..(N + 1) /\ w.vals[j] = n.vals[j]
      <4>1. ASSUME NEW k \in K[n.vals[j]]
            PROVE  k \in K[p] /\ ChildIndex(w.keys, k) = j
        <5>1. k \in K[p] /\ ChildIndex(n.keys, k) = j /\ k \in Keys
          BY <1>4, <1>12, <3>1
        <5>2. j = i => k < x
          BY <4>1
        <5>3. j < i \/ (j = i /\ k < x)
          BY <1>5, <3>1, <5>2
        <5> QED
          BY <1>9, <5>1, <5>3
      <4> QED
        BY <1>11, <1>12, <3>1, <4>1
    <3>2. CASE j = i + 1 /\ w.vals[j] = r
      <4>1. ASSUME NEW k \in R
            PROVE  k \in K[p] /\ ChildIndex(w.keys, k) = j
        <5>1. k \in K[p] /\ ChildIndex(n.keys, k) = i /\ k >= x /\ k \in Keys
          BY <1>4 DEF R, Taken
        <5>2. ~(i < i \/ (i = i /\ k < x))
          BY <1>4, <1>5, <5>1
        <5> QED
          BY <1>9, <3>2, <5>1, <5>2
      <4> QED
        BY <1>11, <3>2, <4>1
    <3>3. CASE j > i + 1 /\ j - 1 \in 1..(N + 1) /\ w.vals[j] = n.vals[j - 1]
      <4>1. ASSUME NEW k \in K[n.vals[j - 1]]
            PROVE  k \in K[p] /\ ChildIndex(w.keys, k) = j
        <5>1. k \in K[p] /\ ChildIndex(n.keys, k) = j - 1 /\ k \in Keys
          BY <1>4, <1>12, <3>3
        <5>2. ~(j - 1 < i \/ (j - 1 = i /\ k < x)) /\ (j - 1) + 1 = j
          BY <1>5, <3>3
        <5> QED
          BY <1>9, <5>1, <5>2
      <4> QED
        BY <1>11, <1>12, <3>3, <4>1
    <3> QED
      BY <1>13, <3>1, <3>2, <3>3
  <2> QED
    BY <1>4, <1>8, <2>1, <2>2 DEF Fits
\* r is nobody's child yet.
<1>15. \A q \in DOMAIN H2 : ~pg[q].leaf => \A j \in DOMAIN pg[q].vals : pg[q].vals[j] # r
  BY <1>1, <1>11 DEF Fits
<1>16. Apart(w, p, pg, H2)
  <2>1. /\ \A j, m \in 1..(N + 1) : n.vals[j] = n.vals[m] => j = m
        /\ \A q \in DOMAIN H2 \ {p} : ~pg[q].leaf =>
             \A j \in 1..(N + 1), m \in DOMAIN pg[q].vals : n.vals[j] # pg[q].vals[m]
    <3>1. Apart(n, p, pg, H2)
      BY <1>10, <1>11 DEF Forest
    <3> HIDE DEF n
    <3> QED
      BY <1>2, <1>3, <3>1 DEF Apart
  <2>2. \A j \in 1..(N + 1) : n.vals[j] # r
    BY <1>12
  <2>3. ASSUME NEW j \in 1..(N + 2), NEW m \in 1..(N + 2), w.vals[j] = w.vals[m]
        PROVE  j = m
    <3>1. CASE j = i + 1
      <4>1. w.vals[m] = r
        BY <1>5, <1>13, <2>3, <3>1
      <4> QED
        BY <1>13, <2>2, <3>1, <4>1
    <3>2. CASE m = i + 1
      <4>1. w.vals[j] = r
        BY <1>5, <1>13, <2>3, <3>2
      <4> QED
        BY <1>13, <2>2, <3>2, <4>1
    <3>3. CASE j # i + 1 /\ m # i + 1
      <4> DEFINE a == IF j <= i THEN j ELSE j - 1
                 b == IF m <= i THEN m ELSE m - 1
      <4>1. a \in 1..(N + 1) /\ w.vals[j] = n.vals[a]
        BY <1>5, <1>13, <3>3
      <4>2. b \in 1..(N + 1) /\ w.vals[m] = n.vals[b]
        BY <1>5, <1>13, <3>3
      <4>3. a = b => j = m
        BY <1>5, <3>3
      <4> HIDE DEF a, b
      <4> QED
        BY <2>1, <2>3, <4>1, <4>2, <4>3
    <3> QED
      BY <3>1, <3>2, <3>3
  <2>4. ASSUME NEW q \in DOMAIN H2 \ {p}, ~pg[q].leaf,
               NEW j \in 1..(N + 2), NEW m \in DOMAIN pg[q].vals
        PROVE  w.vals[j] # pg[q].vals[m]
    BY <1>13, <1>15, <2>1, <2>4
  <2> QED
    BY <1>8, <2>3, <2>4 DEF Apart
<1>17. Range(w.vals) \subseteq 1..Len(pg)
  <2>1. \A j \in 1..(N + 2) : w.vals[j] \in 1..Len(pg)
    BY <1>3, <1>6, <1>13
  <2> QED
    BY <1>8, <2>1 DEF Range
<1>18. Len(w.vals) = Len(w.keys) + 1
  BY <1>3, <1>8
<1> QED
  BY <1>8, <1>9, <1>10, <1>14, <1>16, <1>17, <1>18 DEF w
-----------------------------------------------------------------------------
\* The part of node w between its keys a and b + 1.
Part(w, a, b) == Internal(SubSeq(w.keys, a + 1, b), SubSeq(w.vals, a + 1, b + 1))

\* What such a part v holds.
HasPart(v, w, a, b) ==
  /\ v \in Nodes /\ ~v.leaf /\ Sorted(v.keys)
  /\ Len(v.keys) = b - a /\ Len(v.vals) = b - a + 1
  /\ DOMAIN v.keys = 1..(b - a) /\ DOMAIN v.vals = 1..(b - a + 1)
  /\ \A j \in 1..(b - a) : v.keys[j] = w.keys[a + j]
  /\ \A j \in 1..(b - a + 1) : v.vals[j] = w.vals[a + j]

\* Its keys and children, one by one.
LEMMA PartElements ==
  ASSUME NEW w \in Nodes, ~w.leaf, Sorted(w.keys), Len(w.vals) = Len(w.keys) + 1,
         NEW a \in Nat, NEW b \in Nat, a <= b, b <= Len(w.keys)
  PROVE  HasPart(Part(w, a, b), w, a, b)
<1> DEFINE ks == SubSeq(w.keys, a + 1, b)
           vs == SubSeq(w.vals, a + 1, b + 1)
<1>1. /\ w.keys \in Seq(Keys) /\ w.keys \in Seq(Int) /\ w.vals \in Seq(Nat) /\ Len(w.keys) \in Nat
      /\ \A j \in 1..Len(w.keys) : w.keys[j] \in Keys
      /\ \A j \in 1..(Len(w.keys) + 1) : w.vals[j] \in Nat
  BY NodeType, ElementOfSeq
<1>2. /\ ks \in Seq(Keys) /\ Len(ks) = b - a /\ \A j \in 1..(b - a) : ks[j] = w.keys[a + j]
  <2> DEFINE s == w.keys
  <2>1. s \in Seq(Keys) /\ b <= Len(s)
    BY <1>1
  <2> HIDE DEF s
  <2>2. /\ SubSeq(s, a + 1, b) \in Seq(Keys) /\ Len(SubSeq(s, a + 1, b)) = b - a
        /\ \A j \in 1..(b - a) : SubSeq(s, a + 1, b)[j] = s[a + j]
    BY <2>1, SubSeqFrom
  <2> QED
    BY <2>2 DEF s
<1>3. /\ vs \in Seq(Nat) /\ Len(vs) = b - a + 1 /\ \A j \in 1..(b - a + 1) : vs[j] = w.vals[a + j]
  <2> DEFINE s == w.vals
             S == Nat
             c == b + 1
  <2>1. s \in Seq(S) /\ c \in Nat /\ a <= c /\ c <= Len(s) /\ c - a = b - a + 1
    BY <1>1
  <2> HIDE DEF s, S, c
  <2>2. /\ SubSeq(s, a + 1, c) \in Seq(S) /\ Len(SubSeq(s, a + 1, c)) = c - a
        /\ \A j \in 1..(c - a) : SubSeq(s, a + 1, c)[j] = s[a + j]
    BY <2>1, SubSeqFrom
  <2> QED
    BY <2>1, <2>2 DEF s, S, c
<1>4. Sorted(ks)
  <2>1. a + 1 \in 1..(Len(w.keys) + 1) /\ b \in 0..Len(w.keys)
    BY <1>1
  <2> QED
    BY <1>1, <2>1, SortedPart
<1> HIDE DEF ks, vs
<1>5. DOMAIN ks = 1..(b - a) /\ DOMAIN vs = 1..(b - a + 1)
  BY <1>2, <1>3, LenProperties
<1>6. Part(w, a, b) = [leaf |-> FALSE, keys |-> ks, vals |-> vs, next |-> 0]
  BY DEF Part, Internal, ks, vs
<1>7. Part(w, a, b) \in Nodes
  BY <1>2, <1>3, <1>6 DEF Nodes
<1> QED
  BY <1>2, <1>3, <1>4, <1>5, <1>6, <1>7 DEF HasPart

\* The keys of S that w keeps between its keys a and b + 1.
Between(w, a, b, S) ==
  {k \in S : (a > 0 => w.keys[a] <= k) /\ (b < Len(w.keys) => k < w.keys[b + 1])}

\* A part of a node fits the keys between the two that bound it.
LEMMA PartFits ==
  ASSUME NEW w \in Nodes, ~w.leaf, Sorted(w.keys), Len(w.vals) = Len(w.keys) + 1,
         NEW a \in Nat, NEW b \in Nat, a <= b, b <= Len(w.keys),
         NEW S \in SUBSET Keys, NEW h, NEW H, NEW K, Fits(w, S, h, H, K),
         NEW p, NEW pg, Apart(w, p, pg, H),
         NEW v, HasPart(v, w, a, b)
  PROVE  Fits(v, Between(w, a, b, S), h, H, K) /\ Apart(v, p, pg, H)
<1> DEFINE N == Len(w.keys)
<1>1. /\ N \in Nat /\ DOMAIN w.keys = 1..N /\ DOMAIN w.vals = 1..(N + 1) /\ w.keys \in Seq(Int)
      /\ \A j \in 1..N : w.keys[j] \in S /\ w.keys[j] \in Int
      /\ S \subseteq Int
  <2>1. \A j \in DOMAIN w.keys : w.keys[j] \in S
    BY DEF Fits, Range
  <2> QED
    BY <2>1, NodeType, KeysAssumption
<1>2. /\ v \in Nodes /\ ~v.leaf /\ v.keys \in Seq(Int) /\ Len(v.keys) = b - a
      /\ DOMAIN v.keys = 1..(b - a) /\ DOMAIN v.vals = 1..(b - a + 1)
      /\ \A j \in 1..(b - a) : v.keys[j] = w.keys[a + j]
      /\ \A j \in 1..(b - a + 1) : v.vals[j] = w.vals[a + j]
  BY NodeType DEF HasPart
<1>3. ASSUME NEW j \in 1..(b - a)
      PROVE  v.keys[j] \in Between(w, a, b, S)
  <2>0. a + j \in 1..N
    BY <1>1
  <2>1. a + j \in 1..N /\ v.keys[j] = w.keys[a + j] /\ w.keys[a + j] \in S /\ w.keys[a + j] \in Int
    BY <1>1, <1>2, <2>0
  <2>2. a > 0 => w.keys[a] <= w.keys[a + j]
    <3>1. CASE a > 0
      <4>1. a \in 1..N /\ a < a + j
        BY <1>1, <3>1
      <4>2. w.keys[a] < w.keys[a + j]
        BY <1>1, <2>1, <4>1 DEF Sorted
      <4>3. w.keys[a] \in Int
        BY <1>1, <4>1
      <4> QED
        BY <2>1, <4>2, <4>3
    <3> QED
      BY <3>1
  <2>3. b < N => w.keys[a + j] < w.keys[b + 1]
    <3>1. CASE b < N
      <4>1. b + 1 \in 1..N /\ a + j < b + 1
        BY <1>1, <3>1
      <4> QED
        BY <1>1, <2>1, <4>1 DEF Sorted
    <3> QED
      BY <3>1
  <2> QED
    BY <1>1, <2>1, <2>2, <2>3 DEF Between
<1>4. ASSUME NEW j \in 1..(b - a + 1)
      PROVE  /\ v.vals[j] \in DOMAIN H /\ H[v.vals[j]] = h - 1
             /\ \A k \in K[v.vals[j]] : k \in Between(w, a, b, S) /\ ChildIndex(v.keys, k) = j
  <2>1. a + j \in 1..(N + 1) /\ v.vals[j] = w.vals[a + j]
    BY <1>1, <1>2
  <2>2. /\ v.vals[j] \in DOMAIN H /\ H[v.vals[j]] = h - 1
        /\ \A k \in K[v.vals[j]] : k \in S /\ ChildIndex(w.keys, k) = a + j
    BY <1>1, <2>1 DEF Fits
  <2>3. ASSUME NEW k \in K[v.vals[j]]
        PROVE  k \in Between(w, a, b, S) /\ ChildIndex(v.keys, k) = j
    <3>1. k \in S /\ k \in Int /\ \A m \in 1..N : m < a + j <=> w.keys[m] <= k
      BY <1>1, <2>2, ChildIndexSplits
    <3>2. a > 0 => w.keys[a] <= k
      BY <1>1, <3>1
    <3>3. b < N => k < w.keys[b + 1]
      <4>1. CASE b < N
        <5>1. b + 1 \in 1..N /\ ~(b + 1 < a + j)
          BY <1>1, <4>1
        <5> QED
          BY <1>1, <3>1, <5>1
      <4> QED
        BY <4>1
    <3>4. \A m \in 1..Len(v.keys) : m < j <=> v.keys[m] <= k
      <4>1. \A m \in 1..(b - a) : a + m \in 1..N
        BY <1>1
      <4>2. \A m \in 1..(b - a) : m < j <=> a + m < a + j
        OBVIOUS
      <4> QED
        BY <1>2, <3>1, <4>1, <4>2
    <3>5. ChildIndex(v.keys, k) = j
      <4>1. j \in 1..(Len(v.keys) + 1)
        BY <1>2
      <4> QED
        BY <1>2, <3>1, <3>4, <4>1, ChildIndexIs
    <3> QED
      BY <3>1, <3>2, <3>3, <3>5 DEF Between
  <2> QED
    BY <2>2, <2>3
<1>5. Fits(v, Between(w, a, b, S), h, H, K)
  <2>1. h # 0
    BY DEF Fits
  <2> QED
    BY <1>2, <1>3, <1>4, <2>1 DEF Fits, Range
<1>6. Apart(v, p, pg, H)
  <2>1. /\ \A i, j \in 1..(N + 1) : w.vals[i] = w.vals[j] => i = j
        /\ \A q \in DOMAIN H \ {p} : ~pg[q].leaf =>
             \A i \in 1..(N + 1), j \in DOMAIN pg[q].vals : w.vals[i] # pg[q].vals[j]
    BY <1>1 DEF Apart
  <2>2. \A j \in 1..(b - a + 1) : a + j \in 1..(N + 1) /\ v.vals[j] = w.vals[a + j]
    BY <1>1, <1>2
  <2>3. \A i, j \in 1..(b - a + 1) : v.vals[i] = v.vals[j] => i = j
    <3>1. \A i, j \in 1..(b - a + 1) : a + i = a + j => i = j
      OBVIOUS
    <3> QED
      BY <2>1, <2>2, <3>1
  <2>4. ASSUME NEW q \in DOMAIN H \ {p}, ~pg[q].leaf,
               NEW i \in 1..(b - a + 1), NEW j \in DOMAIN pg[q].vals
        PROVE  v.vals[i] # pg[q].vals[j]
    BY <2>1, <2>2, <2>4
  <2>5. DOMAIN v.vals = 1..(b - a + 1)
    BY <1>2
  <2>6. \A i, j \in DOMAIN v.vals : v.vals[i] = v.vals[j] => i = j
    BY <2>3, <2>5
  <2>7. \A q \in DOMAIN H \ {p} : ~pg[q].leaf =>
          \A i \in DOMAIN v.vals, j \in DOMAIN pg[q].vals : v.vals[i] # pg[q].vals[j]
    BY <2>4, <2>5
  <2> QED
    BY <2>6, <2>7 DEF Apart
<1> QED
  BY <1>5, <1>6

\* A part of a node that is short enough is sound.
LEMMA PartOK ==
  ASSUME NEW w, NEW a \in Nat, NEW b \in Nat, a <= b, b <= Len(w.keys), Len(w.keys) \in Nat,
         Len(w.vals) = Len(w.keys) + 1, w \in Nodes,
         NEW size, Range(w.vals) \subseteq 1..size, b - a <= MAX_KEYS,
         NEW v, HasPart(v, w, a, b)
  PROVE  NodeOK(v, size)
<1>1. /\ ~v.leaf /\ Sorted(v.keys) /\ Len(v.keys) = b - a /\ Len(v.vals) = b - a + 1
      /\ DOMAIN v.vals = 1..(b - a + 1) /\ \A j \in 1..(b - a + 1) : v.vals[j] = w.vals[a + j]
  BY DEF HasPart
<1>2. DOMAIN w.vals = 1..(Len(w.keys) + 1)
  BY NodeType
<1>3. \A j \in 1..(b - a + 1) : a + j \in DOMAIN w.vals
  BY <1>2
<1>4. Range(v.vals) \subseteq 1..size
  BY <1>1, <1>3 DEF Range
<1> QED
  BY <1>1, <1>4 DEF NodeOK, Sorted

\* The keys that stay left of x, and those that move.
Below(S, x) == {k \in S : k < x}

AtLeast(S, x) == {k \in S : k >= x}

\* A node too wide, cut at its key m: m goes up, the halves are apart.
LEMMA Halves ==
  ASSUME NEW w \in Nodes, ~w.leaf, Sorted(w.keys), Len(w.vals) = Len(w.keys) + 1,
         NEW n \in Nat, n = Len(w.keys), NEW m \in 1..n,
         NEW S \in SUBSET Keys, NEW h, NEW H, NEW K, Fits(w, S, h, H, K),
         NEW p, NEW pg, Apart(w, p, pg, H)
  PROVE  LET l == Part(w, 0, m - 1)
             r == Part(w, m, n)
             x == w.keys[m]
         IN  /\ HasPart(l, w, 0, m - 1) /\ HasPart(r, w, m, n)
             /\ x \in S
             /\ Fits(l, Below(S, x), h, H, K) /\ Apart(l, p, pg, H)
             /\ Fits(r, AtLeast(S, x), h, H, K) /\ Apart(r, p, pg, H)
             /\ Range(l.vals) \cap Range(r.vals) = {}
<1> DEFINE l == Part(w, 0, m - 1)
           r == Part(w, m, n)
           x == w.keys[m]
           c == m - 1
<1>1. HasPart(Part(w, 0, c), w, 0, c) /\ HasPart(r, w, m, n)
  <2>1. 0 \in Nat /\ c \in Nat /\ 0 <= c /\ c <= Len(w.keys)
    OBVIOUS
  <2>2. m \in Nat /\ m <= n /\ n <= Len(w.keys)
    OBVIOUS
  <2> HIDE DEF c
  <2> QED
    BY <2>1, <2>2, PartElements
<1>2. DOMAIN w.keys = 1..n /\ DOMAIN w.vals = 1..(n + 1) /\ w.keys \in Seq(Int)
  BY NodeType
<1>3. x \in S /\ x \in Int /\ \A k \in S : k \in Int
  BY <1>2, KeysAssumption DEF Fits, Range
<1>4. Between(w, 0, c, S) = Below(S, x)
  <2>1. c < Len(w.keys) /\ c + 1 = m
    OBVIOUS
  <2> HIDE DEF c
  <2> QED
    BY <2>1 DEF Between, Below, AtLeast
<1>5. Between(w, m, n, S) = AtLeast(S, x)
  BY <1>3 DEF Between, Below, AtLeast
<1>6. Fits(Part(w, 0, c), Between(w, 0, c, S), h, H, K) /\ Apart(Part(w, 0, c), p, pg, H)
  <2>1. 0 \in Nat /\ c \in Nat /\ 0 <= c /\ c <= Len(w.keys)
    OBVIOUS
  <2> HIDE DEF c
  <2> QED
    BY <1>1, <2>1, PartFits
<1>7. Fits(r, Between(w, m, n, S), h, H, K) /\ Apart(r, p, pg, H)
  <2>2. m \in Nat /\ m <= n /\ n <= Len(w.keys)
    OBVIOUS
  <2> QED
    BY <1>1, <2>2, PartFits
<1>8. Range(l.vals) \cap Range(r.vals) = {}
  <2>1. /\ DOMAIN l.vals = 1..m /\ \A j \in 1..m : l.vals[j] = w.vals[j]
    <3>1. DOMAIN l.vals = 1..(c - 0 + 1) /\ \A j \in 1..(c - 0 + 1) : l.vals[j] = w.vals[0 + j]
      BY <1>1 DEF HasPart
    <3>2. c - 0 + 1 = m /\ \A j \in 1..m : 0 + j = j
      OBVIOUS
    <3> QED
      BY <3>1, <3>2
  <2>2. /\ DOMAIN r.vals = 1..(n - m + 1) /\ \A j \in 1..(n - m + 1) : r.vals[j] = w.vals[m + j]
    BY <1>1 DEF HasPart
  <2>3. \A i, j \in DOMAIN w.vals : w.vals[i] = w.vals[j] => i = j
    BY DEF Apart
  <2> HIDE DEF l, r
  <2>4. ASSUME NEW i \in 1..m, NEW j \in 1..(n - m + 1)
        PROVE  l.vals[i] # r.vals[j]
    <3>1. i \in DOMAIN w.vals /\ m + j \in DOMAIN w.vals /\ i # m + j
      BY <1>2
    <3> QED
      BY <2>1, <2>2, <2>3, <3>1
  <2> QED
    BY <2>1, <2>2, <2>4 DEF Range
<1>9. Part(w, 0, c) = l
  OBVIOUS
<1> HIDE DEF l, r, x, c
<1> QED
  BY <1>1, <1>3, <1>4, <1>5, <1>6, <1>7, <1>8, <1>9 DEF l, r, x, c
-----------------------------------------------------------------------------
\* Page p is now for the keys of S only.
Narrowed(K, p, S) == [K EXCEPT ![p] = S]

\* The new root over the old one and its other half.
LEMMA RootFits ==
  ASSUME NEW pg, NEW H, NEW K, Forest(pg, H, K), NEW top \in DOMAIN H,
         \A p \in DOMAIN H : p = top \/ H[p] < H[top],
         NEW x \in Keys, \A k \in K[top] : k < x,
         NEW r \in DOMAIN pg \ DOMAIN H,
         Fits(pg[r], AtLeast(Keys, x), H[top], H, K), Apart(pg[r], r, pg, H),
         NEW n \in DOMAIN pg \ DOMAIN H, n # r, pg[n] = Internal(<<x>>, <<top, r>>),
         NEW H1, H1 = Plus(H, r, H[top]), NEW K1, K1 = Plus(K, r, AtLeast(Keys, x))
  PROVE  Forest(pg, H1, K1) /\ Fits(pg[n], Keys, H[top] + 1, H1, K1) /\ Apart(pg[n], n, pg, H1)
<1>1. H \in [DOMAIN H -> Nat] /\ K \in [DOMAIN H -> SUBSET Keys] /\ H[top] \in Nat
      /\ \A p \in DOMAIN H : Fits(pg[p], K[p], H[p], H, K)
  BY DEF Forest
<1>2. AtLeast(Keys, x) \in SUBSET Keys
  BY DEF AtLeast
<1>3. Forest(pg, H1, K1)
  BY <1>1, <1>2, ForestAdd
<1>4. /\ DOMAIN H1 = DOMAIN H \cup {r} /\ H1[r] = H[top] /\ K1[r] = AtLeast(Keys, x)
      /\ \A p \in DOMAIN H : H1[p] = H[p] /\ K1[p] = K[p]
  BY <1>1 DEF Plus
<1>5. /\ pg[n].leaf = FALSE /\ pg[n].keys = <<x>> /\ pg[n].vals = <<top, r>>
      /\ DOMAIN pg[n].keys = 1..1 /\ pg[n].keys[1] = x /\ Len(pg[n].keys) = 1
      /\ DOMAIN pg[n].vals = 1..2 /\ pg[n].vals[1] = top /\ pg[n].vals[2] = r
  BY DEF Internal
<1>6. \A i \in 1..2 : i = 1 \/ i = 2
  OBVIOUS
<1>7. ASSUME NEW k \in Keys
      PROVE  ChildIndex(pg[n].keys, k) = IF k < x THEN 1 ELSE 2
  <2>1. k \in Int /\ x \in Int /\ pg[n].keys \in Seq(Int)
    BY <1>5, KeysAssumption
  <2>2. CASE k < x
    <3>1. \A i \in 1..1 : i < 1 <=> pg[n].keys[i] <= k
      BY <1>5, <2>1, <2>2
    <3>2. 1 \in 1..(Len(pg[n].keys) + 1)
      BY <1>5
    <3> QED
      BY <1>5, <2>1, <2>2, <3>1, <3>2, ChildIndexIs
  <2>3. CASE ~(k < x)
    <3>1. \A i \in 1..1 : i < 2 <=> pg[n].keys[i] <= k
      BY <1>5, <2>1, <2>3
    <3>2. 2 \in 1..(Len(pg[n].keys) + 1)
      BY <1>5
    <3> QED
      BY <1>5, <2>1, <2>3, <3>1, <3>2, ChildIndexIs
  <2> QED
    BY <2>2, <2>3
<1>8. Fits(pg[n], Keys, H[top] + 1, H1, K1)
  <2> DEFINE h == H[top] + 1
             v == pg[n]
  <2>0. h - 1 = H[top] /\ h # 0
    BY <1>1
  <2>1. ~v.leaf /\ Range(v.keys) \subseteq Keys /\ DOMAIN v.vals = 1..2
        /\ v.vals[1] = top /\ v.vals[2] = r /\ \A k \in Keys : ChildIndex(v.keys, k) = IF k < x THEN 1 ELSE 2
    BY <1>5, <1>7 DEF Range
  <2>2. \A k \in K1[top] : k \in Keys /\ k < x
    BY <1>1, <1>4
  <2>3. \A k \in K1[r] : k \in Keys /\ ~(k < x)
    <3>1. \A k \in K1[r] : k \in Keys /\ k >= x
      BY <1>4 DEF AtLeast
    <3>2. \A k \in Keys : k \in Int /\ x \in Int
      BY KeysAssumption
    <3> QED
      BY <3>1, <3>2
  <2>4. top \in DOMAIN H1 /\ r \in DOMAIN H1 /\ H1[top] = H[top] /\ H1[r] = H[top]
    BY <1>4
  <2> HIDE DEF h, v
  <2>5. \A i \in DOMAIN v.vals : v.vals[i] \in DOMAIN H1 /\ H1[v.vals[i]] = h - 1
    BY <1>6, <2>0, <2>1, <2>4
  <2>6. \A i \in DOMAIN v.vals : \A k \in K1[v.vals[i]] : k \in Keys /\ ChildIndex(v.keys, k) = i
    BY <1>6, <2>1, <2>2, <2>3
  <2>7. Fits(v, Keys, h, H1, K1)
    BY <2>0, <2>1, <2>5, <2>6 DEF Fits
  <2> QED
    BY <2>7 DEF h, v
<1>9. Apart(pg[n], n, pg, H1)
  <2>1. \A i, j \in DOMAIN pg[n].vals : pg[n].vals[i] = pg[n].vals[j] => i = j
    BY <1>5, <1>6
  <2>2. ASSUME NEW q \in DOMAIN H1 \ {n}, ~pg[q].leaf, NEW j \in DOMAIN pg[q].vals
        PROVE  pg[q].vals[j] # top /\ pg[q].vals[j] # r
    <3>1. \E h \in Nat : h <= H[top] /\ pg[q].vals[j] \in DOMAIN H /\ H[pg[q].vals[j]] = h - 1
      <4>1. CASE q \in DOMAIN H
        <5>1. H[q] \in Nat /\ H[q] <= H[top]
          BY <1>1, <4>1
        <5>2. pg[q].vals[j] \in DOMAIN H /\ H[pg[q].vals[j]] = H[q] - 1
          BY <1>1, <2>2, <4>1 DEF Fits
        <5> QED
          BY <5>1, <5>2
      <4>2. CASE q = r
        <5>1. pg[q].vals[j] \in DOMAIN H /\ H[pg[q].vals[j]] = H[top] - 1
          BY <2>2, <4>2 DEF Fits
        <5> QED
          BY <1>1, <5>1
      <4> QED
        BY <1>4, <4>1, <4>2
    <3> QED
      BY <1>1, <3>1
  <2> QED
    BY <1>5, <1>6, <2>1, <2>2 DEF Apart
<1> QED
  BY <1>3, <1>8, <1>9
-----------------------------------------------------------------------------
\* Page r comes after the m-th of c.
Spliced(c, m, r) == InsertAt(c, m + 1, r)

\* The sequence t that this is: its pages, one by one.
HasSplice(t, D, c, m, r) ==
  /\ t \in Seq(D) /\ Len(t) = Len(c) + 1 /\ DOMAIN t = 1..(Len(c) + 1) /\ Len(c) \in Nat
  /\ \A j \in 1..(Len(c) + 1) : t[j] = IF j <= m THEN c[j] ELSE IF j = m + 1 THEN r ELSE c[j - 1]
  /\ Range(t) = Range(c) \cup {r}

\* Vec::insert makes it.
LEMMA SpliceElements ==
  ASSUME NEW D, NEW c \in Seq(D), NEW m \in 1..Len(c), NEW r \in D
  PROVE  HasSplice(Spliced(c, m, r), D, c, m, r)
<1> DEFINE i == m + 1
           t == InsertAt(c, i, r)
<1>1. Len(c) \in Nat /\ i \in 1..(Len(c) + 1) /\ DOMAIN c = 1..Len(c)
      /\ \A j \in 1..(Len(c) + 1) : j < i <=> j <= m
  OBVIOUS
<1> HIDE DEF i
<1>0. i \in 1..(Len(c) + 1)
  BY <1>1
<1>2. HasInsert(t, D, c, i, r)
  BY <1>0, InsertHas
<1> HIDE DEF t
<1>3. /\ t \in Seq(D) /\ Len(t) = Len(c) + 1 /\ DOMAIN t = 1..(Len(c) + 1)
      /\ \A j \in 1..(Len(c) + 1) : t[j] = IF j < i THEN c[j] ELSE IF j = i THEN r ELSE c[j - 1]
  BY <1>2 DEF HasInsert
<1>4. \A j \in 1..(Len(c) + 1) : t[j] = IF j <= m THEN c[j] ELSE IF j = m + 1 THEN r ELSE c[j - 1]
  BY <1>1, <1>3 DEF i
<1>5. ASSUME NEW j \in 1..(Len(c) + 1) PROVE t[j] \in Range(c) \cup {r}
  <2>1. j <= m => j \in 1..Len(c)
    BY <1>1
  <2>2. ~(j <= m) /\ j # m + 1 => j - 1 \in 1..Len(c)
    BY <1>1
  <2> QED
    BY <1>1, <1>4, <2>1, <2>2 DEF Range
<1>6. ASSUME NEW j \in 1..Len(c) PROVE c[j] \in Range(t)
  <2>1. CASE j <= m
    <3>1. j \in 1..(Len(c) + 1)
      OBVIOUS
    <3> QED
      BY <1>3, <1>4, <2>1, <3>1 DEF Range
  <2>2. CASE ~(j <= m)
    <3> DEFINE h == j + 1
    <3>1. h \in 1..(Len(c) + 1) /\ ~(h <= m) /\ h # m + 1 /\ h - 1 = j
      BY <1>1, <2>2
    <3> HIDE DEF h
    <3> QED
      BY <1>3, <1>4, <3>1 DEF Range
  <2> QED
    BY <2>1, <2>2
<1>7. r \in Range(t)
  <2>1. m + 1 \in 1..(Len(c) + 1) /\ ~(m + 1 <= m)
    BY <1>1
  <2> QED
    BY <1>3, <1>4, <2>1 DEF Range
<1>8. Range(t) = Range(c) \cup {r}
  BY <1>1, <1>3, <1>5, <1>6, <1>7 DEF Range
<1> QED
  BY <1>1, <1>3, <1>4, <1>8 DEF Spliced, HasSplice, t, i

\* No page comes twice.
Distinct(c) == \A i, j \in DOMAIN c : c[i] = c[j] => i = j

\* Each page has the one after it for its next.
Follows(next, c) == \A i \in DOMAIN c : next[c[i]] = IF i = Len(c) THEN 0 ELSE c[i + 1]

\* It is linked where it is if the m-th links to it, and it to what came next.
LEMMA SpliceLinks ==
  ASSUME NEW D, NEW c \in Seq(D), NEW m \in 1..Len(c), NEW r \in D, r \notin Range(c),
         Distinct(c), NEW next, Follows(next, c),
         NEW next2, next2[c[m]] = r, next2[r] = next[c[m]],
         \A i \in DOMAIN c : i # m => next2[c[i]] = next[c[i]],
         NEW t, t = Spliced(c, m, r)
  PROVE  Distinct(t) /\ Follows(next2, t)
<1> DEFINE n == Len(c)
<1>1. /\ Len(t) = n + 1 /\ DOMAIN t = 1..(n + 1) /\ n \in Nat /\ DOMAIN c = 1..n /\ m \in 1..n
      /\ \A j \in 1..(n + 1) : t[j] = IF j <= m THEN c[j] ELSE IF j = m + 1 THEN r ELSE c[j - 1]
  <2>1. HasSplice(t, D, c, m, r)
    BY SpliceElements
  <2> QED
    BY <2>1 DEF HasSplice
<1>2. \A i \in 1..n : next[c[i]] = IF i = n THEN 0 ELSE c[i + 1]
  BY <1>1 DEF Follows
<1>3. \A i \in 1..n : c[i] # r
  BY <1>1 DEF Range
<1>7. \A i, j \in 1..n : c[i] = c[j] => i = j
  BY <1>1 DEF Distinct
<1>8. \A i \in 1..n : i # m => next2[c[i]] = next[c[i]]
  BY <1>1
<1> HIDE DEF n
<1>4. \A j \in 1..(n + 1) : /\ j <= m => j \in 1..n /\ t[j] = c[j]
                            /\ j = m + 1 => t[j] = r
                            /\ j > m + 1 => j - 1 \in 1..n /\ t[j] = c[j - 1]
  BY <1>1
<1>5. ASSUME NEW i \in 1..(n + 1), NEW j \in 1..(n + 1), t[i] = t[j] PROVE i = j
  <2>1. CASE i = m + 1 \/ j = m + 1
    BY <1>1, <1>3, <1>4, <1>5, <2>1
  <2>2. CASE i # m + 1 /\ j # m + 1
    <3>1. PICK a, b : /\ a = IF i <= m THEN i ELSE i - 1
                      /\ b = IF j <= m THEN j ELSE j - 1
      OBVIOUS
    <3>2. a \in 1..n /\ b \in 1..n /\ t[i] = c[a] /\ t[j] = c[b]
      BY <1>1, <1>4, <2>2, <3>1
    <3>3. a = b
      <4>1. a \in 1..n /\ b \in 1..n /\ c[a] = c[b]
        BY <1>5, <3>2
      <4> QED
        BY <1>7, <4>1
    <3> QED
      BY <1>1, <2>2, <3>1, <3>3
  <2> QED
    BY <2>1, <2>2
<1>6. ASSUME NEW i \in 1..(n + 1) PROVE next2[t[i]] = IF i = n + 1 THEN 0 ELSE t[i + 1]
  <2>1. CASE i < m
    <3>1. i \in 1..n /\ i # m /\ i # n /\ i # n + 1 /\ i + 1 \in 1..(n + 1) /\ i + 1 <= m
      BY <1>1, <2>1
    <3>2. next2[c[i]] = c[i + 1]
      BY <1>1, <1>2, <3>1
    <3> QED
      BY <1>4, <2>1, <3>1, <3>2
  <2>2. CASE i = m
    <3>1. i # n + 1 /\ i + 1 \in 1..(n + 1) /\ i + 1 = m + 1 /\ i <= m
      BY <1>1, <2>2
    <3>2. t[i] = c[m] /\ t[i + 1] = r
      BY <1>4, <2>2, <3>1
    <3> QED
      BY <3>1, <3>2
  <2>3. CASE i = m + 1
    <3>1. next2[t[i]] = IF m = n THEN 0 ELSE c[m + 1]
      BY <1>1, <1>2, <1>4, <2>3
    <3>2. m = n <=> i = n + 1
      BY <1>1, <2>3
    <3>3. ASSUME m # n PROVE t[i + 1] = c[m + 1]
      <4>1. i + 1 \in 1..(n + 1) /\ i + 1 > m + 1 /\ i + 1 - 1 = m + 1
        BY <1>1, <2>3, <3>3
      <4> QED
        BY <1>4, <4>1
    <3> QED
      BY <3>1, <3>2, <3>3
  <2>4. CASE i > m + 1
    <3>1. PICK a : a = i - 1
      OBVIOUS
    <3>2. a \in 1..n /\ a # m /\ t[i] = c[a] /\ a + 1 = i
      BY <1>1, <1>4, <2>4, <3>1
    <3>3. next2[t[i]] = IF a = n THEN 0 ELSE c[a + 1]
      BY <1>2, <1>8, <3>2
    <3>4. a = n <=> i = n + 1
      <4>1. n \in Nat /\ a \in 1..n /\ a + 1 = i
        BY <1>1, <3>2
      <4> QED
        BY <4>1
    <3>5. ASSUME a # n PROVE t[i + 1] = c[a + 1]
      <4>1. i + 1 \in 1..(n + 1) /\ i + 1 > m + 1 /\ i + 1 - 1 = a + 1
        BY <1>1, <2>4, <3>1, <3>4, <3>5
      <4> QED
        BY <1>4, <4>1
    <3> QED
      BY <3>3, <3>4, <3>5
  <2> QED
    BY <1>1, <2>1, <2>2, <2>3, <2>4
<1> QED
  BY <1>1, <1>5, <1>6 DEF Distinct, Follows

\* The leaves c are in the order of the keys they are for.
Ordered(E, c) ==
  \A i, j \in DOMAIN c : i < j => \A a \in E[c[i]], b \in E[c[j]] : a < b

\* It is in order there if it is for the keys of the m-th from x on.
LEMMA SpliceOrder ==
  ASSUME NEW D, NEW c \in Seq(D), NEW m \in 1..Len(c), NEW r \in D,
         NEW E, Ordered(E, c), \A i \in DOMAIN c : E[c[i]] \subseteq Int, NEW x \in Int,
         NEW E2, E2[c[m]] = Below(E[c[m]], x), E2[r] = AtLeast(E[c[m]], x),
         \A i \in DOMAIN c : i # m => E2[c[i]] = E[c[i]],
         NEW t, t = Spliced(c, m, r)
  PROVE  Ordered(E2, t)
<1> DEFINE n == Len(c)
<1>1. /\ DOMAIN t = 1..(n + 1) /\ n \in Nat /\ DOMAIN c = 1..n /\ m \in 1..n
      /\ \A j \in 1..(n + 1) : t[j] = IF j <= m THEN c[j] ELSE IF j = m + 1 THEN r ELSE c[j - 1]
  <2>1. HasSplice(t, D, c, m, r)
    BY SpliceElements
  <2> QED
    BY <2>1 DEF HasSplice
<1> HIDE DEF n
<1>2. ASSUME NEW j \in 1..(n + 1), NEW b, b = IF j <= m THEN j ELSE j - 1
      PROVE  /\ b \in 1..n /\ E2[t[j]] \subseteq E[c[b]]
             /\ j = m => E2[t[j]] = Below(E[c[m]], x)
             /\ j = m + 1 => E2[t[j]] = AtLeast(E[c[m]], x)
  <2>1. CASE j <= m
    <3>1. b = j /\ j \in 1..n /\ t[j] = c[j] /\ j # m + 1
      BY <1>1, <1>2, <2>1
    <3>2. E2[c[j]] \subseteq E[c[j]]
      BY <1>1, <3>1 DEF Below
    <3> QED
      BY <3>1, <3>2
  <2>2. CASE j = m + 1
    <3>1. b = m /\ t[j] = r /\ j # m
      BY <1>1, <1>2, <2>2
    <3>2. E2[r] \subseteq E[c[m]]
      BY DEF AtLeast
    <3> QED
      BY <1>1, <3>1, <3>2
  <2>3. CASE j > m + 1
    <3>1. b = j - 1 /\ b \in 1..n /\ t[j] = c[b] /\ j # m /\ j # m + 1 /\ b # m
      BY <1>1, <1>2, <2>3
    <3> QED
      BY <1>1, <3>1
  <2> QED
    BY <1>1, <2>1, <2>2, <2>3
<1>3. ASSUME NEW i \in 1..(n + 1), NEW j \in 1..(n + 1), i < j,
             NEW a \in E2[t[i]], NEW b \in E2[t[j]]
      PROVE  a < b
  <2>1. PICK g, h : g = (IF i <= m THEN i ELSE i - 1) /\ h = (IF j <= m THEN j ELSE j - 1)
    OBVIOUS
  <2>2. /\ g \in 1..n /\ a \in E[c[g]] /\ h \in 1..n /\ b \in E[c[h]]
        /\ i = m => E2[t[i]] = Below(E[c[m]], x)
        /\ j = m + 1 => E2[t[j]] = AtLeast(E[c[m]], x)
    BY <1>2, <1>3, <2>1
  <2>3. g < h \/ (i = m /\ j = m + 1)
    BY <1>1, <1>3, <2>1
  <2>4. CASE g < h
    BY <1>1, <2>2, <2>4 DEF Ordered
  <2>5. CASE i = m /\ j = m + 1
    <3>1. a \in Below(E[c[m]], x) /\ b \in AtLeast(E[c[m]], x)
      BY <2>2, <2>5, <1>3
    <3>2. a < x /\ b >= x /\ a \in Int /\ b \in Int
      BY <1>1, <3>1 DEF Below, AtLeast
    <3> QED
      BY <3>2
  <2> QED
    BY <2>3, <2>4, <2>5
<1> QED
  BY <1>1, <1>3 DEF Ordered
-----------------------------------------------------------------------------
\* FlattenSeq is the last of a row of sequences, each the one before with the
\* next of seqs behind it.
LEMMA Flattening ==
  ASSUME NEW seqs, Len(seqs) \in Nat \ {0}
  PROVE  \E f : /\ DOMAIN f = 1..Len(seqs) /\ f[1] = seqs[1]
                /\ \A i \in 2..Len(seqs) : f[i] = f[i - 1] \o seqs[i]
                /\ FlattenSeq(seqs) = f[Len(seqs)]
<1> DEFINE G(f, k) == IF k = 1 THEN seqs[k] ELSE f[k - 1] \o seqs[k]
           F(f, n) == f = [k \in 1..n |-> G(f, k)]
           D == {n \in Nat : \E f : F(f, n)}
           flatten == CHOOSE f : F(f, Len(seqs))
<1>1. 0 \in D
  <2>1. F([k \in 1..0 |-> <<>>], 0)
    OBVIOUS
  <2> QED
    BY <2>1
<1>2. ASSUME NEW n \in Nat, n \in D PROVE n + 1 \in D
  <2>1. PICK f : F(f, n)
    BY <1>2
  <2> DEFINE g == [k \in 1..(n + 1) |-> G(f, k)]
  <2>2. \A k \in 1..n : g[k] = f[k]
    <3> HIDE DEF G
    <3> QED
      BY <2>1
  <2>3. \A k \in 1..(n + 1) : G(f, k) = G(g, k)
    <3>1. \A k \in 2..(n + 1) : k - 1 \in 1..n
      OBVIOUS
    <3>2. \A k \in 2..(n + 1) : g[k - 1] = f[k - 1]
      <4> HIDE DEF g
      <4> QED
        BY <2>2, <3>1
    <3> HIDE DEF g
    <3> QED
      BY <3>2
  <2> HIDE DEF G
  <2>4. F(g, n + 1)
    BY <2>3
  <2> HIDE DEF g
  <2>5. \E h : F(h, n + 1)
    BY <2>4
  <2> HIDE DEF F
  <2> QED
    BY <2>5
<1>3. F(flatten, Len(seqs))
  <2>1. Len(seqs) \in D
    <3> HIDE DEF D
    <3> QED
      BY <1>1, <1>2, Induct
  <2> HIDE DEF F
  <2> QED
    BY <2>1
<1>4. FlattenSeq(seqs) = flatten[Len(seqs)]
  BY Zenon DEF FlattenSeq
<1> HIDE DEF flatten
<1>5. DOMAIN flatten = 1..Len(seqs) /\ \A k \in 1..Len(seqs) : flatten[k] = G(flatten, k)
  <2> HIDE DEF G
  <2> QED
    BY <1>3
<1>6. flatten[1] = seqs[1] /\ \A i \in 2..Len(seqs) : flatten[i] = flatten[i - 1] \o seqs[i]
  <2>1. 1 \in 1..Len(seqs) /\ \A i \in 2..Len(seqs) : i \in 1..Len(seqs) /\ i # 1
    OBVIOUS
  <2> QED
    BY Zenon, <1>5, <2>1
<1> QED
  BY <1>4, <1>5, <1>6

\* The elements of t are those of the first n of seqs, in order.
Joined(seqs, n, t) ==
  /\ t \in Seq(Int) /\ Sorted(t)
  /\ \A m \in 1..n : Range(seqs[m]) \subseteq Range(t)
  /\ \A x \in Range(t) : \E m \in 1..n : x \in Range(seqs[m])

\* Each of seqs ascends, and what is in one is less than what is in those after it.
Ascending(seqs) ==
  /\ \A m \in DOMAIN seqs : seqs[m] \in Seq(Int) /\ Sorted(seqs[m])
  /\ \A l, m \in DOMAIN seqs : l < m =>
       \A a \in Range(seqs[l]), b \in Range(seqs[m]) : a < b

\* The next of them behind those before it.
LEMMA JoinedNext ==
  ASSUME NEW seqs, Ascending(seqs), NEW n \in Nat, 1..(n + 1) \subseteq DOMAIN seqs,
         NEW t, Joined(seqs, n, t)
  PROVE  Joined(seqs, n + 1, t \o seqs[n + 1])
<1> DEFINE i == n + 1
           s == seqs[i]
           u == t \o s
<1>1. i \in DOMAIN seqs /\ i \in 1..i /\ \A m \in 1..n : m \in DOMAIN seqs /\ m < i /\ m \in 1..i
  OBVIOUS
<1>2. \A m \in 1..i : m = i \/ m \in 1..n
  OBVIOUS
<1>3. /\ t \in Seq(Int) /\ Sorted(t) /\ Len(t) \in Nat /\ DOMAIN t = 1..Len(t)
      /\ \A m \in 1..n : Range(seqs[m]) \subseteq Range(t)
      /\ \A x \in Range(t) : \E m \in 1..n : x \in Range(seqs[m])
  BY DEF Joined
<1> HIDE DEF i
<1>4. s \in Seq(Int) /\ Sorted(s)
  BY <1>1 DEF Ascending
<1>5. \A a \in Range(t), b \in Range(s) : a < b
  BY <1>1, <1>3 DEF Ascending
<1> HIDE DEF s
<1>6. /\ u \in Seq(Int) /\ Len(s) \in Nat /\ DOMAIN s = 1..Len(s) /\ Len(u) = Len(t) + Len(s)
      /\ \A j \in 1..(Len(t) + Len(s)) : u[j] = IF j <= Len(t) THEN t[j] ELSE s[j - Len(t)]
  BY <1>3, <1>4, ConcatProperties
<1> HIDE DEF u
<1>7. DOMAIN u = 1..(Len(t) + Len(s))
  BY <1>6, LenProperties
<1>8. ASSUME NEW j \in DOMAIN u
      PROVE  \/ j \in DOMAIN t /\ u[j] = t[j]
             \/ j > Len(t) /\ j - Len(t) \in DOMAIN s /\ u[j] = s[j - Len(t)]
  BY <1>3, <1>6, <1>7
<1>9. ASSUME NEW j \in DOMAIN t PROVE t[j] \in Range(u)
  <2>1. j \in 1..(Len(t) + Len(s)) /\ j <= Len(t)
    BY <1>3, <1>6
  <2> QED
    BY <1>6, <1>7, <2>1 DEF Range
<1>10. ASSUME NEW k \in DOMAIN s PROVE s[k] \in Range(u)
  <2> DEFINE j == Len(t) + k
  <2>1. j \in 1..(Len(t) + Len(s)) /\ ~(j <= Len(t)) /\ j - Len(t) = k
    BY <1>3, <1>6
  <2> HIDE DEF j
  <2>2. u[j] = s[k]
    BY <1>6, <2>1
  <2> QED
    BY <1>7, <2>1, <2>2 DEF Range
<1>11. Range(u) = Range(t) \cup Range(s)
  <2>1. Range(u) \subseteq Range(t) \cup Range(s)
    BY <1>8 DEF Range
  <2>2. Range(t) \subseteq Range(u) /\ Range(s) \subseteq Range(u)
    BY <1>9, <1>10 DEF Range
  <2> QED
    BY <2>1, <2>2
<1>12. ASSUME NEW j \in DOMAIN u, NEW k \in DOMAIN u, j < k PROVE u[j] < u[k]
  <2>1. j \in Int /\ k \in Int
    BY <1>3, <1>6, <1>7
  <2>2. CASE k \in DOMAIN t /\ u[k] = t[k]
    <3>1. j \in DOMAIN t /\ u[j] = t[j]
      BY <1>3, <1>8, <1>12, <2>1, <2>2
    <3> QED
      BY <1>3, <1>12, <2>2, <3>1 DEF Sorted
  <2>3. CASE k > Len(t) /\ k - Len(t) \in DOMAIN s /\ u[k] = s[k - Len(t)]
    <3>1. CASE j \in DOMAIN t /\ u[j] = t[j]
      BY <1>5, <2>3, <3>1 DEF Range
    <3>2. CASE j > Len(t) /\ j - Len(t) \in DOMAIN s /\ u[j] = s[j - Len(t)]
      <4>1. j - Len(t) < k - Len(t)
        BY <1>3, <1>12, <2>1
      <4> QED
        BY <1>4, <2>3, <3>2, <4>1 DEF Sorted
    <3> QED
      BY <1>8, <3>1, <3>2
  <2> QED
    BY <1>8, <2>2, <2>3
<1>13. Joined(seqs, i, u)
  <2>1. \A m \in 1..i : Range(seqs[m]) \subseteq Range(u)
    BY <1>2, <1>3, <1>11 DEF s
  <2>2. \A x \in Range(u) : \E m \in 1..i : x \in Range(seqs[m])
    BY <1>1, <1>3, <1>11 DEF s
  <2> QED
    BY <1>6, <1>12, <2>1, <2>2 DEF Joined, Sorted
<1> QED
  BY <1>13 DEF i, u, s

\* All of them, one behind the other.
LEMMA FlattenJoins ==
  ASSUME NEW seqs, Ascending(seqs), Len(seqs) \in Nat \ {0}, DOMAIN seqs = 1..Len(seqs)
  PROVE  Joined(seqs, Len(seqs), FlattenSeq(seqs))
<1> DEFINE N == Len(seqs)
<1>1. PICK f : /\ DOMAIN f = 1..N /\ f[1] = seqs[1]
               /\ \A i \in 2..N : f[i] = f[i - 1] \o seqs[i]
               /\ FlattenSeq(seqs) = f[N]
  BY Flattening
<1>2. N \in Nat \ {0} /\ DOMAIN seqs = 1..N
  OBVIOUS
<1> HIDE DEF N
<1>3. Joined(seqs, 1, f[1])
  <2>1. 1 \in DOMAIN seqs /\ \A m \in 1..1 : m = 1
    BY <1>2
  <2>2. seqs[1] \in Seq(Int) /\ Sorted(seqs[1]) /\ 1 \in 1..1
    BY <2>1 DEF Ascending
  <2> QED
    BY <1>1, <2>1, <2>2 DEF Joined
<1> DEFINE S == {n \in Nat : n + 1 <= N => Joined(seqs, n + 1, f[n + 1])}
<1>4. 0 \in S
  BY <1>3
<1>5. ASSUME NEW n \in Nat, n \in S PROVE n + 1 \in S
  <2> SUFFICES ASSUME n + 1 + 1 <= N PROVE Joined(seqs, n + 1 + 1, f[n + 1 + 1])
    OBVIOUS
  <2> DEFINE m == n + 1
  <2>1. /\ m \in Nat /\ m + 1 \in 2..N /\ m + 1 - 1 = m /\ m <= N
        /\ 1..(m + 1) \subseteq DOMAIN seqs
    BY <1>2
  <2>2. Joined(seqs, m, f[m])
    BY <1>5, <2>1
  <2> HIDE DEF m
  <2>3. Joined(seqs, m + 1, f[m] \o seqs[m + 1])
    BY <2>1, <2>2, JoinedNext
  <2>4. PICK i : i = m + 1
    OBVIOUS
  <2>6. i \in 2..N /\ i - 1 = m
    BY <2>1, <2>4
  <2>7. f[i] = f[i - 1] \o seqs[i]
    BY <1>1, <2>6
  <2>8. f[m + 1] = f[m] \o seqs[m + 1]
    BY Zenon, <2>4, <2>6, <2>7
  <2>5. Joined(seqs, m + 1, f[m + 1])
    BY <2>3, <2>8
  <2> QED
    BY <2>5 DEF m
<1>6. Nat \subseteq S
  <2> HIDE DEF S
  <2> QED
    BY <1>4, <1>5, Induct
<1>7. N - 1 \in Nat /\ N - 1 + 1 = N /\ N <= N
  BY <1>2
<1>8. Joined(seqs, N, f[N])
  <2>1. N - 1 \in S
    BY <1>6, <1>7
  <2> QED
    BY <1>7, <2>1
<1> QED
  BY <1>1, <1>8 DEF N
-----------------------------------------------------------------------------
(* The inserts. *)

\* While an insert is below the root, its path is a descent from the root, and
\* all its pages are for the key.
Descending(H, K) ==
  pc \in {"leaf", "left", "absorb"} =>
    /\ path \in Seq(DOMAIN H) /\ Descent(pages, path, root, key)
    /\ \A j \in DOMAIN path : H[path[j]] = H[root] + 1 - j /\ key \in K[path[j]]
    /\ pc = "leaf" => pages[page].leaf

\* Page p is in the file but not in the tree, and would fit there.
Spare(p, S, h, H, K) ==
  /\ p \in DOMAIN pages \ DOMAIN H
  /\ Fits(pages[p], S, h, H, K)

\* Between the two writes of a split, left fits the keys below sep of the page in
\* hand, right those from sep on, and they share no child.
Splitting(H, K) ==
  pc = "left" =>
    /\ left \in Nodes /\ NodeOK(left, Len(pages)) /\ left.keys # <<>>
    /\ sep \in K[page]
    /\ Fits(left, {k \in K[page] : k < sep}, H[page], H, K)
    /\ Spare(right, {k \in K[page] : k >= sep}, H[page], H, K)
    /\ Apart(left, page, pages, H) /\ Apart(pages[right], page, pages, H)
    /\ ~left.leaf => Range(left.vals) \cap Range(pages[right].vals) = {}

\* When the parent must absorb the split of its child, sep turns to that child,
\* which has no key from sep on any more: right has them.
Absorbing(H, K) ==
  pc = "absorb" =>
    /\ sep \in K[page] /\ ChildIndex(pages[page].keys, sep) = Slot
    /\ H[page] > 0
    /\ \A k \in K[pages[page].vals[Slot]] : k < sep
    /\ Slot > 1 => pages[page].keys[Slot - 1] < sep
    /\ Spare(right, {k \in K[page] : ChildIndex(pages[page].keys, k) = Slot /\ k >= sep},
             H[page] - 1, H, K)
    /\ Apart(pages[right], right, pages, H)

\* When the root itself was split, right has all its keys from sep on; the new
\* root, once written, is over both.
Rooting(H, K) ==
  /\ pc \in {"root", "set"} => sep \in Keys /\ \A k \in K[root] : k < sep
  /\ pc = "root" =>
       /\ Spare(right, {k \in Keys : k >= sep}, H[root], H, K)
       /\ Apart(pages[right], right, pages, H)
  /\ pc = "set" =>
       \E r \in DOMAIN pages :
         /\ right \in DOMAIN pages \ DOMAIN H /\ right # r
         /\ pages[right] = Internal(<<sep>>, <<root, r>>)
         /\ Spare(r, {k \in Keys : k >= sep}, H[root], H, K)
         /\ Apart(pages[r], r, pages, H)
         /\ H[root] + 1 < Len(pages)

\* A call has its arguments.
Arguments == pc # "idle" => key \in Keys /\ rid \in Nat

\* The shape of the file and of the work on it, for heights H and keys K.
Shape(H, K) ==
  /\ Tree(pages, root, meta, H, K)
  /\ Descending(H, K) /\ Splitting(H, K) /\ Absorbing(H, K) /\ Rooting(H, K)

\* The inductive invariant.  TreeOK alone is not inductive: it says nothing of
\* the pages that are written and not yet linked, nor of where an insert is.
BTreeInv ==
  /\ TypeOK /\ NodesOK /\ Arguments
  /\ \E H, K : Shape(H, K)
-----------------------------------------------------------------------------
\* The file under the invariant.
LEMMA InvIsShape ==
  ASSUME BTreeInv
  PROVE  /\ FileOK(pages) /\ Len(pages) \in Nat /\ DOMAIN pages = 1..Len(pages)
         /\ \A p \in DOMAIN pages : pages[p] \in Nodes /\ NodeOK(pages[p], Len(pages))
<1>1. pages \in Seq(Nodes) /\ \A p \in DOMAIN pages : NodeOK(pages[p], Len(pages))
  BY DEF BTreeInv, TypeOK, NodesOK
<1>2. FileOK(pages)
  BY <1>1 DEF FileOK
<1>3. Len(pages) \in Nat /\ DOMAIN pages = 1..Len(pages) /\ \A p \in DOMAIN pages : pages[p] \in Nodes
  <2> DEFINE N == Nodes
  <2>1. pages \in Seq(N)
    BY <1>1
  <2> HIDE DEF N
  <2>2. Len(pages) \in Nat /\ DOMAIN pages = 1..Len(pages) /\ \A p \in DOMAIN pages : pages[p] \in N
    BY <2>1
  <2> QED
    BY <2>2 DEF N
<1> QED
  BY <1>1, <1>2, <1>3

\* The page in hand.
LEMMA InHand ==
  ASSUME BTreeInv, pc \in {"leaf", "left", "absorb"}, NEW H, NEW K, Shape(H, K)
  PROVE  /\ Len(path) \in Nat \ {0} /\ DOMAIN path = 1..Len(path) /\ page = path[Len(path)]
         /\ page \in DOMAIN H /\ page \in DOMAIN pages /\ H[page] \in Nat
         /\ key \in K[page] /\ K[page] \subseteq Keys
         /\ Fits(pages[page], K[page], H[page], H, K) /\ Apart(pages[page], page, pages, H)
         /\ pages[page] \in Nodes /\ NodeOK(pages[page], Len(pages)) /\ Sorted(pages[page].keys)
         /\ H[page] <= H[root]
<1>1. path \in Seq(DOMAIN H) /\ path # <<>>
  BY DEF Shape, Descending, Descent
<1>2. Len(path) \in Nat \ {0} /\ Len(path) \in 1..Len(path) /\ page = path[Len(path)] /\ page \in DOMAIN H
  BY <1>1, LastOfPath DEF page
<1>3. DOMAIN path = 1..Len(path)
  BY <1>1
<1>4. H \in [DOMAIN H -> Nat] /\ K \in [DOMAIN H -> SUBSET Keys] /\ DOMAIN H \subseteq DOMAIN pages
      /\ \A p \in DOMAIN H : Fits(pages[p], K[p], H[p], H, K) /\ Apart(pages[p], p, pages, H)
  BY DEF Shape, Tree, Forest
<1>5. key \in K[page]
  BY <1>2, <1>3 DEF Shape, Descending
<1>6. pages[page] \in Nodes /\ NodeOK(pages[page], Len(pages))
  BY <1>2, <1>4, InvIsShape
<1>7. Sorted(pages[page].keys)
  BY <1>6 DEF NodeOK, Sorted
<1>8. H[page] <= H[root]
  <2>1. root \in DOMAIN H /\ (page = root \/ H[page] < H[root])
    BY <1>2 DEF Shape, Tree
  <2> QED
    BY <1>2, <1>4, <2>1
<1> QED
  BY <1>2, <1>3, <1>4, <1>5, <1>6, <1>7, <1>8

\* The invariant while no insert is on its way down or up: the tree alone.
LEMMA Settled ==
  ASSUME BTreeInv, NEW H, NEW K, Tree(pages', root', meta', H, K), FileOK(pages'),
         TypeOK', Arguments', pc' \in {"idle", "meta", "done"}
  PROVE  BTreeInv' /\ Shape(H, K)'
<1>1. NodesOK'
  BY DEF FileOK, NodesOK
<1>2. Shape(H, K)'
  BY DEF Shape, Descending, Splitting, Absorbing, Rooting
<1> QED
  BY <1>1, <1>2 DEF BTreeInv

\* A call that is over leaves no argument behind.
LEMMA OverTypes ==
  ASSUME TypeOK, Over, UNCHANGED <<pages, inserts>>, meta' = meta, root' \in {root, meta},
         faults' \in 0..MaxFaults
  PROVE  TypeOK' /\ Arguments' /\ pc' = "idle"
  BY DEF TypeOK, Over, Arguments

\* insert returns.
LEMMA ReturnStep ==
  ASSUME BTreeInv, Return, NEW H, NEW K, Shape(H, K)
  PROVE  BTreeInv' /\ Shape(H, K)'
<1>2. UNCHANGED <<pages, meta, root, inserts, faults>> /\ Over
  BY DEF Return, file
<1>3. TypeOK' /\ Arguments' /\ pc' = "idle"
  BY <1>2, OverTypes DEF BTreeInv, TypeOK
<1>4. FileOK(pages') /\ Tree(pages', root', meta', H, K)
  BY <1>2, InvIsShape DEF Shape
<1> QED
  BY <1>3, <1>4, Settled

\* A failed write leaves a tree: what was not linked is not in it.
LEMMA FailStep ==
  ASSUME BTreeInv, Fail, NEW H, NEW K, Shape(H, K)
  PROVE  BTreeInv' /\ Shape(H, K)'
<1>2. UNCHANGED <<pages, meta, root, inserts>> /\ Over /\ faults' \in 0..MaxFaults
  BY BoundsAssumption DEF Fail, file, BTreeInv, TypeOK
<1>3. TypeOK' /\ Arguments' /\ pc' = "idle"
  BY <1>2, OverTypes DEF BTreeInv
<1>4. FileOK(pages') /\ Tree(pages', root', meta', H, K)
  BY <1>2, InvIsShape DEF Shape
<1> QED
  BY <1>3, <1>4, Settled

\* What is below the root page 0 names is a tree: the process that opens the file
\* next has one.
LEMMA CrashStep ==
  ASSUME BTreeInv, Crash
  PROVE  BTreeInv'
<1>1. PICK H, K : Shape(H, K)
  BY DEF BTreeInv
<1>2. UNCHANGED <<pages, meta, inserts>> /\ root' = meta /\ Over /\ faults' \in 0..MaxFaults
  BY BoundsAssumption DEF Crash, file, BTreeInv, TypeOK
<1>3. TypeOK' /\ Arguments' /\ pc' = "idle"
  BY <1>2, OverTypes DEF BTreeInv
<1>4. Forest(pages, H, K) /\ meta \in DOMAIN H /\ root \in DOMAIN H
      /\ H[root] < Len(pages) /\ \A p \in DOMAIN H : p = root \/ H[p] < H[root]
  BY <1>1 DEF Shape, Tree
<1>5. PICK T : T = {meta} \cup {p \in DOMAIN H : H[p] < H[meta]}
  OBVIOUS
<1>6. PICK H2, K2 : H2 = [p \in T |-> H[p]] /\ K2 = [p \in T |-> K[p]]
  OBVIOUS
<1>7. Forest(pages, H2, K2)
  BY <1>4, <1>5, <1>6, ForestBelow
<1>8. Tree(pages, meta, meta, H2, K2)
  <2>1. H[meta] <= H[root] /\ H[meta] \in Nat /\ H[root] \in Nat
    BY <1>4 DEF Forest
  <2>2. H2[meta] < Len(pages)
    BY <1>4, <1>5, <1>6, <2>1, InvIsShape
  <2> QED
    BY <1>4, <1>5, <1>6, <1>7, <2>2 DEF Tree
<1>9. FileOK(pages') /\ Tree(pages', root', meta', H2, K2)
  BY <1>2, <1>8, InvIsShape
<1> QED
  BY <1>3, <1>9, Settled

\* write_meta names a root that is in the tree.
LEMMA WriteMetaStep ==
  ASSUME BTreeInv, WriteMeta, NEW H, NEW K, Shape(H, K)
  PROVE  BTreeInv' /\ Shape(H, K)'
<1>2. TypeOK' /\ Arguments' /\ pc' = "done"
  BY DEF WriteMeta, BTreeInv, TypeOK, Arguments, call
<1>3. Tree(pages', root', meta', H, K)
  BY DEF WriteMeta, Shape, Tree
<1>4. FileOK(pages')
  BY InvIsShape DEF WriteMeta
<1> QED
  BY <1>2, <1>3, <1>4, Settled

\* insert starts, and its key is added to what the pages of its path are for.
LEMMA InsertStep ==
  ASSUME BTreeInv, NEW k \in Keys, Insert(k), NEW H, NEW K, Shape(H, K),
         NEW K2, K2 = [q \in DOMAIN H |-> IF q \in Range(path') THEN K[q] \cup {k} ELSE K[q]]
  PROVE  BTreeInv' /\ Shape(H, K2)'
<1>2. UNCHANGED <<pages, meta, root, left, sep, right, faults>> /\ pc' = "leaf" /\ key' = k
      /\ rid' = inserts + 1 /\ inserts' = inserts + 1 /\ path' = PathIn(pages, root, k)
      /\ inserts < IF faults = 0 THEN MaxInserts ELSE MaxFaulty
  BY DEF Insert, file
<1>3. FileOK(pages) /\ Tree(pages, root, meta, H, K) /\ root \in DOMAIN H
  BY InvIsShape DEF Shape, Tree
<1>4. Down(path', pages, root, k, H) /\ pages[Last(path')].leaf
  BY <1>2, <1>3, PathDown
<1>6. Forest(pages, H, K2)
  BY <1>3, <1>4, ForestRoute
<1>7. Tree(pages', root', meta', H, K2)
  BY <1>2, <1>3, <1>6 DEF Tree
<1>8. path' \in Seq(DOMAIN H) /\ DOMAIN path' = 1..Len(path') /\ DOMAIN H \subseteq DOMAIN pages
  BY <1>4, <1>6 DEF Down, Forest
<1>9. Descending(H, K2)'
  <2>1. Descent(pages', path', root', key')
    BY <1>2, <1>4 DEF Down
  <2>2. \A j \in DOMAIN path' : H[path'[j]] = H[root'] + 1 - j
    BY <1>2, <1>4, <1>8 DEF Down
  <2>3. \A j \in DOMAIN path' : path'[j] \in DOMAIN H /\ path'[j] \in Range(path')
    BY <1>8 DEF Range
  <2>4. \A j \in DOMAIN path' : key' \in K2[path'[j]]
    BY <1>2, <2>3
  <2>5. pages'[page'].leaf
    BY <1>2, <1>4 DEF page
  <2> QED
    BY <1>2, <1>8, <2>1, <2>2, <2>4, <2>5 DEF Descending
<1>10. Splitting(H, K2)' /\ Absorbing(H, K2)' /\ Rooting(H, K2)'
  BY <1>2 DEF Splitting, Absorbing, Rooting
<1>11. TypeOK' /\ Arguments' /\ NodesOK'
  <2>1. path' \in Seq(DOMAIN pages)
    BY <1>8
  <2>2. inserts' \in 0..MaxInserts /\ rid' \in Nat
    BY <1>2, BoundsAssumption DEF BTreeInv, TypeOK
  <2> QED
    BY <1>2, <2>1, <2>2 DEF BTreeInv, TypeOK, Arguments, NodesOK
<1>12. Shape(H, K2)'
  BY <1>7, <1>9, <1>10 DEF Shape
<1> QED
  BY <1>11, <1>12 DEF BTreeInv

\* The leaf in hand.
LEMMA LeafInHand ==
  ASSUME BTreeInv, pc = "leaf", NEW H, NEW K, Shape(H, K)
  PROVE  /\ pages[page].leaf = TRUE /\ H[page] = 0 /\ Range(pages[page].keys) \subseteq K[page]
         /\ pages[page].keys \in Seq(Keys) /\ pages[page].vals \in Seq(Nat) /\ pages[page].next \in Nat
         /\ Len(pages[page].keys) \in Nat /\ Len(pages[page].vals) = Len(pages[page].keys)
         /\ rid \in Nat /\ key \in Keys
<1>1. /\ Fits(pages[page], K[page], H[page], H, K) /\ pages[page] \in Nodes
      /\ NodeOK(pages[page], Len(pages))
  BY InHand
<1>2. pages[page].leaf /\ pages[page].leaf \in BOOLEAN
  BY <1>1, NodeType DEF Shape, Descending
<1> QED
  BY <1>1, <1>2, NodeType DEF Fits, NodeOK, BTreeInv, Arguments

\* Its entries with the new one among them.
LEMMA LeafEntry ==
  ASSUME BTreeInv, pc = "leaf", NEW H, NEW K, Shape(H, K), key \notin Range(pages[page].keys)
  PROVE  /\ LeafKeys \in Seq(Keys) /\ LeafRids \in Seq(Nat)
         /\ Len(LeafKeys) \in Nat /\ Len(LeafRids) = Len(LeafKeys)
         /\ Len(LeafKeys) = Len(pages[page].keys) + 1
         /\ Sorted(LeafKeys) /\ Range(LeafKeys) \subseteq K[page]
<1> DEFINE ks == pages[page].keys
           vs == pages[page].vals
           C == Keys
           N == Nat
           at == At
<1>1. /\ ks \in Seq(C) /\ ks \in Seq(Int) /\ vs \in Seq(N) /\ Sorted(ks) /\ Len(vs) = Len(ks)
      /\ Len(ks) \in Nat /\ key \in C /\ key \in Int /\ rid \in N
      /\ Range(ks) \subseteq K[page] /\ key \in K[page] /\ key \notin Range(ks)
      /\ DOMAIN ks = 1..Len(ks)
  BY KeysAssumption, LeafInHand, InHand, NodeType
<1>2. LeafKeys = InsertAt(ks, at, key) /\ LeafRids = InsertAt(vs, at, rid)
      /\ at = 1 + Cardinality({i \in DOMAIN ks : ks[i] < key})
  BY DEF LeafKeys, LeafRids, At
<1> HIDE DEF ks, vs, C, N, at
<1>0. ks \in Seq(Int) /\ Sorted(ks) /\ key \in Int /\ key \notin Range(ks)
  BY <1>1
<1>3. /\ at \in 1..(Len(ks) + 1)
      /\ \A i \in 1..Len(ks) : IF i < at THEN ks[i] < key ELSE key < ks[i]
  BY <1>0, <1>2, AtSplits
<1>9. ks \in Seq(C) /\ key \in C
  BY <1>1
<1>10. /\ InsertAt(ks, at, key) \in Seq(C) /\ Len(InsertAt(ks, at, key)) = Len(ks) + 1
       /\ \A j \in 1..(Len(ks) + 1) :
            InsertAt(ks, at, key)[j] = IF j < at THEN ks[j] ELSE IF j = at THEN key ELSE ks[j - 1]
  BY <1>9, <1>3, InsertAtElements
<1>4. /\ LeafKeys \in Seq(C) /\ Len(LeafKeys) = Len(ks) + 1
      /\ \A j \in 1..(Len(ks) + 1) :
           LeafKeys[j] = IF j < at THEN ks[j] ELSE IF j = at THEN key ELSE ks[j - 1]
  BY <1>2, <1>10
<1>5. LeafRids \in Seq(N) /\ Len(LeafRids) = Len(vs) + 1
  BY <1>1, <1>2, <1>3, InsertAtElements
<1>6. Sorted(LeafKeys)
  BY <1>1, <1>2, <1>3, SortedInsert
<1>7. Range(LeafKeys) \subseteq K[page]
  <2>1. ASSUME NEW j \in 1..(Len(ks) + 1)
        PROVE  LeafKeys[j] \in K[page]
    <3>1. CASE j < at
      <4>1. j \in DOMAIN ks /\ LeafKeys[j] = ks[j]
        BY <1>1, <1>3, <1>4, <3>1
      <4> QED
        BY <1>1, <4>1 DEF Range
    <3>2. CASE j = at
      BY <1>1, <1>4, <3>2
    <3>3. CASE j > at
      <4>1. j - 1 \in DOMAIN ks /\ LeafKeys[j] = ks[j - 1]
        BY <1>1, <1>3, <1>4, <3>3
      <4> QED
        BY <1>1, <4>1 DEF Range
    <3> QED
      BY <1>3, <3>1, <3>2, <3>3
  <2>2. DOMAIN LeafKeys = 1..(Len(ks) + 1)
    BY <1>4
  <2> QED
    BY <2>1, <2>2 DEF Range
<1> QED
  BY <1>1, <1>4, <1>5, <1>6, <1>7 DEF C, N, ks

\* A leaf rewritten where it is.
LEMMA LeafWritten ==
  ASSUME BTreeInv, pc = "leaf", NEW H, NEW K, Shape(H, K), Finish,
         NEW n \in Nodes, n.leaf = TRUE, NodeOK(n, Len(pages)), Range(n.keys) \subseteq K[page],
         WriteBack(n)
  PROVE  BTreeInv' /\ Shape(H, K)'
<1>1. UNCHANGED <<meta, root, key, rid, path, inserts, faults>> /\ pc' = "done"
      /\ pages' = [pages EXCEPT ![page] = n]
  BY DEF Finish, call, WriteBack
<1>2. page \in DOMAIN pages /\ page \in DOMAIN H /\ H[page] = 0
  BY InHand, LeafInHand
<1>3. FileOK(pages') /\ DOMAIN pages' = DOMAIN pages /\ Len(pages') = Len(pages)
  <2>1. FileOK(pages)
    BY InvIsShape
  <2>2. /\ FileOK([pages EXCEPT ![page] = n])
        /\ DOMAIN [pages EXCEPT ![page] = n] = DOMAIN pages
        /\ Len([pages EXCEPT ![page] = n]) = Len(pages)
    BY <1>2, <2>1, FileWrite
  <2> QED
    BY <1>1, <2>2
<1>4. Fits(n, K[page], H[page], H, K) /\ Apart(n, page, pages, H)
  BY <1>2, LeafFits
<1>5. Forest(pages', H, [K EXCEPT ![page] = K[page]])
  BY <1>1, <1>2, <1>4, ForestWrite DEF Shape, Tree
<1>6. [K EXCEPT ![page] = K[page]] = K
  BY DEF Shape, Tree, Forest
<1>7. Tree(pages', root', meta', H, K)
  BY <1>1, <1>3, <1>5, <1>6 DEF Shape, Tree
<1>8. TypeOK' /\ Arguments'
  BY <1>1, <1>3 DEF BTreeInv, TypeOK, FileOK, Arguments
<1> QED
  BY <1>1, <1>3, <1>7, <1>8, Settled

\* The row id of a key is replaced.
LEMMA LeafReplaceStep ==
  ASSUME BTreeInv, LeafReplace, NEW H, NEW K, Shape(H, K)
  PROVE  BTreeInv' /\ Shape(H, K)'
<1> DEFINE n == [pages[page] EXCEPT !.vals[At] = rid]
<1>2. pc = "leaf" /\ WriteBack(n) /\ Finish
  BY DEF LeafReplace
<1>3. pages[page] \in Nodes /\ pages[page].leaf = TRUE /\ NodeOK(pages[page], Len(pages))
      /\ Range(pages[page].keys) \subseteq K[page] /\ rid \in Nat
      /\ pages[page].vals \in Seq(Nat)
  BY <1>2, InHand, LeafInHand
<1>8. [pages[page].vals EXCEPT ![At] = rid] \in Seq(Nat)
      /\ Len([pages[page].vals EXCEPT ![At] = rid]) = Len(pages[page].vals)
  <2> DEFINE N == Nat
             v == pages[page].vals
             r == rid
             a == At
  <2>1. v \in Seq(N) /\ r \in N
    BY <1>3
  <2> HIDE DEF N, v, r, a
  <2>2. [v EXCEPT ![a] = r] \in Seq(N) /\ Len([v EXCEPT ![a] = r]) = Len(v)
    BY <2>1, SeqExcept
  <2> QED
    BY <2>2 DEF N, v, r, a
<1>4. /\ n.leaf = TRUE /\ n.keys = pages[page].keys /\ n.next = pages[page].next
      /\ n.vals = [pages[page].vals EXCEPT ![At] = rid]
      /\ n \in [leaf : BOOLEAN, keys : Seq(Keys), vals : Seq(Nat), next : Nat]
  BY <1>3, <1>8 DEF Nodes
<1>5. Len(n.vals) = Len(pages[page].vals)
  BY <1>4, <1>8
<1>6. n \in Nodes
  BY <1>4 DEF Nodes
<1> HIDE DEF n
<1>7. NodeOK(n, Len(pages)) /\ Range(n.keys) \subseteq K[page]
  BY <1>3, <1>4, <1>5 DEF NodeOK
<1> QED
  BY <1>2, <1>4, <1>6, <1>7, LeafWritten

\* An entry is added to a leaf that has room.
LEMMA LeafInsertStep ==
  ASSUME BTreeInv, LeafInsert, NEW H, NEW K, Shape(H, K)
  PROVE  BTreeInv' /\ Shape(H, K)'
<1> DEFINE n == Leaf(LeafKeys, LeafRids, pages[page].next)
<1>2. pc = "leaf" /\ key \notin Range(pages[page].keys) /\ Len(LeafKeys) <= MAX_KEYS
      /\ WriteBack(n) /\ Finish
  BY DEF LeafInsert
<1>3. /\ LeafKeys \in Seq(Keys) /\ LeafRids \in Seq(Nat)
      /\ Len(LeafKeys) \in Nat /\ Len(LeafRids) = Len(LeafKeys)
      /\ Sorted(LeafKeys) /\ Range(LeafKeys) \subseteq K[page]
  BY <1>2, LeafEntry
<1>4. pages[page].next \in Nat
  BY <1>2, LeafInHand
<1>5. n \in Nodes /\ NodeOK(n, Len(pages))
  BY <1>2, <1>3, <1>4, LeafOK
<1>6. n.leaf = TRUE /\ n.keys = LeafKeys
  BY DEF Leaf
<1> HIDE DEF n
<1>7. Range(n.keys) \subseteq K[page]
  BY <1>3, <1>6
<1> QED
  BY <1>2, <1>5, <1>6, <1>7, LeafWritten

\* The half that moved is in the file, and the half that stays is in hand.
LEMMA SplitKeeps ==
  ASSUME BTreeInv, NEW H, NEW K, Tree(pages, root, meta, H, K),
         path \in Seq(DOMAIN H), Descent(pages, path, root, key),
         \A j \in DOMAIN path : H[path[j]] = H[root] + 1 - j /\ key \in K[path[j]],
         NEW l \in Nodes, NEW x, NEW r \in Nodes, Split(l, x, r),
         NodeOK(l, Len(pages)), NodeOK(r, Len(pages)), l.keys # <<>>, x \in K[page],
         Fits(l, {k \in K[page] : k < x}, H[page], H, K), Apart(l, page, pages, H),
         Fits(r, {k \in K[page] : k >= x}, H[page], H, K), Apart(r, page, pages, H),
         ~l.leaf => Range(l.vals) \cap Range(r.vals) = {}, Arguments'
  PROVE  BTreeInv' /\ Shape(H, K)'
<1>1. /\ pages' = Append(pages, r) /\ left' = l /\ sep' = x /\ right' = Len(pages) + 1
      /\ pc' = "left" /\ UNCHANGED <<meta, root, key, rid, path, inserts, faults>>
  BY DEF Split, Alloc, NewPage
<1>2. FileOK(pages) /\ Len(pages) \in Nat
  BY InvIsShape
<1>3. /\ FileOK(pages') /\ Len(pages') = Len(pages) + 1
      /\ DOMAIN pages \subseteq DOMAIN pages' /\ \A q \in DOMAIN pages : pages'[q] = pages[q]
      /\ right' \in DOMAIN pages' \ DOMAIN pages /\ pages'[right'] = r
  <2>1. NodeOK(r, Len(pages) + 1)
    BY <1>2, NodeOKMore
  <2> QED
    BY <1>1, <1>2, <2>1, FileAppend
<1>4. Tree(pages', root', meta', H, K) /\ DOMAIN H \subseteq DOMAIN pages
  <2>1. Tree(pages', root, meta, H, K)
    BY <1>2, <1>3, TreeGrown
  <2> QED
    BY <1>1, <2>1 DEF Tree, Forest
<1>5. path # <<>> /\ page' = page /\ page \in DOMAIN H
  BY <1>1, LastOfPath DEF Descent, page
<1>6. Descending(H, K)'
  <2>1. \A j \in 1..(Len(path) - 1) : path[j] \in DOMAIN pages
    BY <1>4
  <2>2. Descent(pages', path', root', key')
    BY <1>1, <1>3, <2>1 DEF Descent
  <2> QED
    BY <1>1, <2>2 DEF Descending
<1>7. Splitting(H, K)'
  <2>1. NodeOK(left', Len(pages'))
    BY <1>1, <1>2, <1>3, NodeOKMore
  <2>2. Apart(l, page, pages', H) /\ Apart(r, page, pages', H)
    BY <1>3, <1>4, ApartGrown
  <2>3. Spare(right, {k \in K[page] : k >= sep}, H[page], H, K)'
    BY <1>1, <1>3, <1>4, <1>5 DEF Spare
  <2> QED
    BY <1>1, <1>3, <1>5, <2>1, <2>2, <2>3 DEF Splitting
<1>8. Absorbing(H, K)' /\ Rooting(H, K)'
  BY <1>1 DEF Absorbing, Rooting
<1>9. TypeOK' /\ NodesOK'
  <2>1. path \in Seq(DOMAIN pages')
    BY <1>3, <1>4
  <2>2. root \in DOMAIN pages' /\ meta \in DOMAIN pages'
    BY <1>3 DEF BTreeInv, TypeOK
  <2> QED
    BY <1>1, <1>3, <2>1, <2>2 DEF BTreeInv, TypeOK, FileOK, NodesOK
<1>10. Shape(H, K)'
  BY <1>4, <1>6, <1>7, <1>8 DEF Shape
<1> QED
  BY <1>9, <1>10 DEF BTreeInv

\* A leaf with no room is cut at an entry that is not the first: no half is empty,
\* and each has room.
LEMMA LeafCut ==
  ASSUME BTreeInv, LeafSplit, NEW H, NEW K, Shape(H, K), NEW ks, ks = LeafKeys, NEW vs, vs = LeafRids
  PROVE  \E mid \in Nat, n \in Nat :
           /\ n = Len(ks) /\ 0 < mid /\ mid < n /\ mid <= MAX_KEYS /\ n - mid <= MAX_KEYS
           /\ Split(Leaf(SubSeq(ks, 1, mid), SubSeq(vs, 1, mid), NewPage), ks[mid + 1],
                    Leaf(SubSeq(ks, mid + 1, n), SubSeq(vs, mid + 1, n), pages[page].next))
           /\ \A j \in 1..n : IF j <= mid THEN ks[j] < ks[mid + 1] ELSE ks[j] >= ks[mid + 1]
<1>1. PICK n, mid : n = Len(ks) /\ mid = n \div 2
  OBVIOUS
<1>2. PICK x : x = ks[mid + 1]
  OBVIOUS
<1>3. /\ pc = "leaf" /\ key \notin Range(pages[page].keys) /\ n > MAX_KEYS
      /\ Split(Leaf(SubSeq(ks, 1, mid), SubSeq(vs, 1, mid), NewPage), ks[mid + 1],
               Leaf(SubSeq(ks, mid + 1, n), SubSeq(vs, mid + 1, n), pages[page].next))
  BY <1>1 DEF LeafSplit
<1>4. ks \in Seq(Keys) /\ n \in Nat /\ n = Len(pages[page].keys) + 1 /\ Sorted(ks)
  BY <1>1, <1>3, LeafEntry
<1>5. DOMAIN ks = 1..n /\ \A j \in 1..n : ks[j] \in Int
  BY <1>1, <1>4, KeysAssumption, LenProperties, ElementOfSeq
<1>6. Len(pages[page].keys) \in Nat /\ Len(pages[page].keys) <= MAX_KEYS
  BY <1>3, LeafInHand, InHand DEF NodeOK
<1>7. mid \in Nat /\ 0 < mid /\ mid < n /\ mid <= MAX_KEYS /\ n - mid <= MAX_KEYS
  <2>1. n <= MAX_KEYS + 1 /\ n >= 3
    BY <1>3, <1>4, <1>6, FanoutAssumption
  <2>2. 2 * mid <= n /\ n <= 2 * mid + 1 /\ mid \in Nat
    <3>1. \A m \in Nat : 2 * (m \div 2) <= m /\ m <= 2 * (m \div 2) + 1 /\ m \div 2 \in Nat
      OBVIOUS
    <3>2. n \in Nat
      BY <1>4
    <3> QED
      BY <1>1, <3>1, <3>2
  <2> QED
    BY SMTT(30), <1>4, <2>1, <2>2, FanoutAssumption
<1>8. mid + 1 \in 1..n /\ x \in Int
  BY <1>2, <1>4, <1>5, <1>7
<1>9. \A i, j \in 1..n : i < j => ks[i] < ks[j]
  BY <1>4, <1>5 DEF Sorted
<1>10. ASSUME NEW j \in 1..n PROVE IF j <= mid THEN ks[j] < x ELSE ks[j] >= x
  <2>1. CASE j <= mid
    BY <1>2, <1>7, <1>8, <1>9, <2>1
  <2>2. CASE j = mid + 1
    BY <1>2, <1>7, <1>8, <2>2
  <2>3. CASE mid + 1 < j
    <3>1. x < ks[j] /\ ks[j] \in Int
      BY <1>2, <1>5, <1>8, <1>9, <2>3
    <3> QED
      BY <1>7, <1>8, <2>3, <3>1
  <2> QED
    BY <1>7, <2>1, <2>2, <2>3
<1> QED
  BY <1>1, <1>2, <1>3, <1>4, <1>7, <1>10

\* The half that moves is written.
LEMMA LeafSplitStep ==
  ASSUME BTreeInv, LeafSplit, NEW H, NEW K, Shape(H, K)
  PROVE  BTreeInv' /\ Shape(H, K)'
<1>0. PICK ks, vs : ks = LeafKeys /\ vs = LeafRids
  OBVIOUS
<1>1. pc = "leaf" /\ key \notin Range(pages[page].keys)
  BY DEF LeafSplit
<1>2. PICK mid \in Nat, n \in Nat :
        /\ n = Len(ks) /\ 0 < mid /\ mid < n /\ mid <= MAX_KEYS /\ n - mid <= MAX_KEYS
        /\ Split(Leaf(SubSeq(ks, 1, mid), SubSeq(vs, 1, mid), NewPage), ks[mid + 1],
                 Leaf(SubSeq(ks, mid + 1, n), SubSeq(vs, mid + 1, n), pages[page].next))
        /\ \A j \in 1..n : IF j <= mid THEN ks[j] < ks[mid + 1] ELSE ks[j] >= ks[mid + 1]
  BY <1>0, LeafCut
<1>3. PICK x : x = ks[mid + 1]
  OBVIOUS
<1>4. PICK l : l = Leaf(SubSeq(ks, 1, mid), SubSeq(vs, 1, mid), NewPage)
  OBVIOUS
<1>5. PICK r : r = Leaf(SubSeq(ks, mid + 1, n), SubSeq(vs, mid + 1, n), pages[page].next)
  OBVIOUS
<1>6. Split(l, x, r)
  BY <1>2, <1>3, <1>4, <1>5
<1>7. /\ ks \in Seq(Keys) /\ vs \in Seq(Nat)
      /\ n \in Nat /\ Len(vs) = n
      /\ Sorted(ks) /\ Range(ks) \subseteq K[page]
  BY <1>0, <1>1, <1>2, LeafEntry
<1>22. DOMAIN ks = 1..n
  BY <1>2, <1>7, LenProperties
<1>8. pages[page].next \in Nat /\ H[page] = 0
  BY <1>1, LeafInHand
<1>10. /\ mid \in Nat /\ 0 < mid /\ mid < n /\ mid <= MAX_KEYS /\ n - mid <= MAX_KEYS
  BY <1>2
<1>11. NewPage \in Nat
  BY InvIsShape DEF NewPage
<1>12. HasHalf(l, ks, 0, mid, Len(pages))
  <2>5. 0 \in Nat /\ mid \in Nat /\ 0 < mid /\ mid <= n /\ mid - 0 <= MAX_KEYS
    BY <1>7, <1>10
  <2>1. 0 \in Nat /\ mid \in Nat /\ 0 < mid /\ mid <= Len(ks) /\ mid - 0 <= MAX_KEYS
    BY <1>2, <2>5
  <2>2. ks \in Seq(Keys) /\ vs \in Seq(Nat) /\ Len(vs) = Len(ks) /\ Sorted(ks)
    BY <1>2, <1>7
  <2>3. HasHalf(Leaf(SubSeq(ks, 0 + 1, mid), SubSeq(vs, 0 + 1, mid), NewPage), ks, 0, mid, Len(pages))
    BY <1>11, <2>1, <2>2, LeafHalf
  <2>4. 0 + 1 = 1
    OBVIOUS
  <2> QED
    BY <1>4, <2>3, <2>4
<1>13. HasHalf(r, ks, mid, n, Len(pages))
  <2>5. mid \in Nat /\ n \in Nat /\ mid < n /\ n <= n /\ n - mid <= MAX_KEYS
    BY <1>7, <1>10
  <2>1. mid \in Nat /\ n \in Nat /\ mid < n /\ n <= Len(ks) /\ n - mid <= MAX_KEYS
    BY <1>2, <2>5
  <2>2. ks \in Seq(Keys) /\ vs \in Seq(Nat) /\ Len(vs) = Len(ks) /\ Sorted(ks)
    BY <1>2, <1>7
  <2>3. HasHalf(Leaf(SubSeq(ks, mid + 1, n), SubSeq(vs, mid + 1, n), pages[page].next), ks, mid, n, Len(pages))
    BY <1>8, <2>1, <2>2, LeafHalf
  <2> QED
    BY <1>5, <2>3
<1>23. /\ l \in Nodes /\ l.leaf = TRUE /\ NodeOK(l, Len(pages)) /\ l.keys # <<>>
       /\ \A k \in Range(l.keys) : \E j \in 1..mid : k = ks[j]
  BY <1>12 DEF HasHalf
<1>24. /\ r \in Nodes /\ r.leaf = TRUE /\ NodeOK(r, Len(pages))
       /\ \A k \in Range(r.keys) : \E j \in (mid + 1)..n : k = ks[j]
  BY <1>13 DEF HasHalf
<1>14. \A j \in 1..n : ks[j] \in K[page] /\ ks[j] \in Int
  <2>1. \A j \in DOMAIN ks : ks[j] \in K[page] /\ ks[j] \in Keys
    BY <1>7 DEF Range
  <2> QED
    BY <1>22, <2>1, KeysAssumption
<1>15. x \in K[page] /\ x \in Int
  BY SMTT(30), <1>3, <1>7, <1>10, <1>14
<1>16. \A j \in 1..n : IF j <= mid THEN ks[j] < x ELSE ks[j] >= x
  BY <1>2, <1>3
<1>17. Range(l.keys) \subseteq {k \in K[page] : k < x}
  <2>1. \A j \in 1..mid : j \in 1..n /\ j <= mid
    BY <1>7, <1>10
  <2> QED
    BY <1>23, <1>14, <1>16, <2>1
<1>18. Range(r.keys) \subseteq {k \in K[page] : k >= x}
  <2>1. \A j \in (mid + 1)..n : j \in 1..n /\ ~(j <= mid)
    BY <1>7, <1>10
  <2> QED
    BY <1>24, <1>14, <1>16, <2>1
<1>19. /\ Fits(l, {k \in K[page] : k < x}, H[page], H, K) /\ Apart(l, page, pages, H)
       /\ Fits(r, {k \in K[page] : k >= x}, H[page], H, K) /\ Apart(r, page, pages, H)
  BY <1>8, <1>23, <1>24, <1>17, <1>18, LeafFits
<1>20. /\ Tree(pages, root, meta, H, K) /\ path \in Seq(DOMAIN H) /\ Descent(pages, path, root, key)
       /\ \A j \in DOMAIN path : H[path[j]] = H[root] + 1 - j /\ key \in K[path[j]]
  BY <1>1 DEF Shape, Descending
<1>21. Arguments'
  BY <1>1, <1>6 DEF Arguments, Split, BTreeInv
<1> QED
  BY <1>6, <1>23, <1>24, <1>15, <1>19, <1>20, <1>21, SplitKeeps

\* The parent with the separator and the new page in it, before it is written.
LEMMA AbsorbWider ==
  ASSUME BTreeInv, pc = "absorb", NEW H, NEW K, Shape(H, K),
         NEW H2, H2 = Plus(H, right, H[page] - 1),
         NEW K2, K2 = Plus(K, right, Taken(pages, page, Slot, sep, K)),
         NEW w, w = Internal(NodeKeys, NodeChildren)
  PROVE  /\ Tree(pages, root, meta, H2, K2)
         /\ page \in DOMAIN H2 /\ DOMAIN H \subseteq DOMAIN H2
         /\ \A p \in DOMAIN H : H2[p] = H[p] /\ K2[p] = K[p]
         /\ w \in Nodes /\ ~w.leaf /\ Sorted(w.keys) /\ Len(w.vals) = Len(w.keys) + 1
         /\ Len(w.keys) \in Nat /\ Len(w.keys) <= MAX_KEYS + 1
         /\ Range(w.vals) \subseteq 1..Len(pages)
         /\ Fits(w, K2[page], H2[page], H2, K2) /\ Apart(w, page, pages, H2)
<1>1. /\ page \in DOMAIN H /\ page \in DOMAIN pages /\ H[page] \in Nat /\ H[page] <= H[root]
      /\ key \in K[page] /\ K[page] \subseteq Keys
      /\ Fits(pages[page], K[page], H[page], H, K)
      /\ pages[page] \in Nodes /\ NodeOK(pages[page], Len(pages)) /\ Sorted(pages[page].keys)
  BY InHand
<1>2. FileOK(pages) /\ DOMAIN pages = 1..Len(pages) /\ Len(pages) \in Nat
  BY InvIsShape
<1>3. /\ sep \in K[page] /\ ChildIndex(pages[page].keys, sep) = Slot /\ H[page] > 0
      /\ \A k \in K[pages[page].vals[Slot]] : k < sep
      /\ Slot > 1 => pages[page].keys[Slot - 1] < sep
      /\ right \in DOMAIN pages \ DOMAIN H
      /\ Fits(pages[right], Taken(pages, page, Slot, sep, K), H[page] - 1, H, K)
      /\ Apart(pages[right], right, pages, H)
  BY DEF Shape, Absorbing, Spare, Taken
<1>4. ~pages[page].leaf
  BY <1>1, <1>3 DEF Fits
<1>5. Forest(pages, H, K) /\ root \in DOMAIN H /\ meta \in DOMAIN H /\ H[root] < Len(pages)
      /\ \A p \in DOMAIN H : p = root \/ H[p] < H[root]
  BY DEF Shape, Tree
<1>6. w = Wider(pages[page], Slot, sep, right)
  BY DEF Wider, NodeKeys, NodeChildren
<1>7. /\ Forest(pages, H2, K2)
      /\ w \in Nodes /\ ~w.leaf /\ Sorted(w.keys) /\ Len(w.vals) = Len(w.keys) + 1
      /\ Range(w.vals) \subseteq 1..Len(pages)
      /\ Fits(w, K[page], H[page], H2, K2) /\ Apart(w, page, pages, H2)
  <2> DEFINE i == Slot
             p == page
             x == sep
             r == right
             v == Wider(pages[p], i, x, r)
  <2>1. /\ FileOK(pages) /\ Forest(pages, H, K) /\ p \in DOMAIN H /\ ~pages[p].leaf
        /\ x \in K[p] /\ i = ChildIndex(pages[p].keys, x) /\ (i > 1 => pages[p].keys[i - 1] < x)
        /\ (\A k \in K[pages[p].vals[i]] : k < x)
        /\ r \in DOMAIN pages \ DOMAIN H
        /\ Fits(pages[r], Taken(pages, p, i, x, K), H[p] - 1, H, K) /\ Apart(pages[r], r, pages, H)
        /\ H2 = Plus(H, r, H[p] - 1) /\ K2 = Plus(K, r, Taken(pages, p, i, x, K))
    BY <1>1, <1>2, <1>3, <1>4, <1>5
  <2> HIDE DEF i, p, x, r, v
  <2>2. /\ Forest(pages, H2, K2)
        /\ v \in Nodes /\ ~v.leaf /\ Sorted(v.keys) /\ Len(v.vals) = Len(v.keys) + 1
        /\ Range(v.vals) \subseteq 1..Len(pages)
        /\ Fits(v, K[p], H[p], H2, K2) /\ Apart(v, p, pages, H2)
    BY <2>1, WiderFits DEF v
  <2> QED
    BY <1>6, <2>2 DEF i, p, x, r, v
<1>8. /\ DOMAIN H2 = DOMAIN H \cup {right} /\ DOMAIN K = DOMAIN H
      /\ \A p \in DOMAIN H : H2[p] = H[p] /\ K2[p] = K[p]
      /\ H2[right] = H[page] - 1
  BY <1>3, <1>5 DEF Plus, Forest
<1>9. Tree(pages, root, meta, H2, K2)
  <2>1. H[root] \in Nat /\ H[page] - 1 < H[root]
    BY <1>1, <1>5 DEF Forest
  <2> QED
    BY <1>5, <1>7, <1>8, <2>1 DEF Tree
<1>10. Len(w.keys) \in Nat /\ Len(w.keys) <= MAX_KEYS + 1
  <2> DEFINE ks == pages[page].keys
             i == Slot
  <2>1. ks \in Seq(Keys) /\ Len(ks) \in Nat /\ Len(ks) <= MAX_KEYS
    BY <1>1, NodeType DEF NodeOK
  <2>2. i \in 1..(Len(ks) + 1)
    <3>1. ks \in Seq(Int) /\ key \in Int
      BY <1>1, NodeType, KeysAssumption
    <3> QED
      BY <1>1, <3>1, ChildIndexSplits DEF Slot
  <2>3. w.keys = InsertAt(ks, i, sep)
    BY DEF Internal, NodeKeys
  <2>4. sep \in Keys
    BY <1>1, <1>3
  <2> HIDE DEF ks, i
  <2>5. Len(InsertAt(ks, i, sep)) = Len(ks) + 1
    BY <2>1, <2>2, <2>4, InsertAtElements
  <2> QED
    BY <2>1, <2>3, <2>5, FanoutAssumption
<1> QED
  BY <1>1, <1>7, <1>8, <1>9, <1>10

\* The parent has room for the separator: the half that moved joins the tree.
LEMMA AbsorbStep ==
  ASSUME BTreeInv, Absorb, NEW H, NEW K, Shape(H, K),
         NEW H2, H2 = Plus(H, right, H[page] - 1),
         NEW K2, K2 = Plus(K, right, Taken(pages, page, Slot, sep, K))
  PROVE  BTreeInv' /\ Shape(H2, K2)'
<1>3. PICK w : w = Internal(NodeKeys, NodeChildren)
  OBVIOUS
<1>4. /\ pc = "absorb" /\ pc' = "done" /\ Len(w.keys) <= MAX_KEYS /\ pages' = [pages EXCEPT ![page] = w]
      /\ UNCHANGED <<meta, root, key, rid, path, inserts, faults>>
  BY <1>3 DEF Absorb, WriteBack, Finish, call, Internal
<1>5. /\ Tree(pages, root, meta, H2, K2) /\ page \in DOMAIN H2
      /\ w \in Nodes /\ ~w.leaf /\ Sorted(w.keys) /\ Len(w.vals) = Len(w.keys) + 1
      /\ Range(w.vals) \subseteq 1..Len(pages)
      /\ Fits(w, K2[page], H2[page], H2, K2) /\ Apart(w, page, pages, H2)
  BY <1>3, <1>4, AbsorbWider
<1>6. FileOK(pages) /\ page \in DOMAIN pages
  BY <1>4, InvIsShape, InHand
<1>7. NodeOK(w, Len(pages))
  BY <1>4, <1>5 DEF NodeOK, Sorted
<1>8. FileOK(pages') /\ DOMAIN pages' = DOMAIN pages /\ Len(pages') = Len(pages)
  <2>1. /\ FileOK([pages EXCEPT ![page] = w])
        /\ DOMAIN [pages EXCEPT ![page] = w] = DOMAIN pages
        /\ Len([pages EXCEPT ![page] = w]) = Len(pages)
    BY <1>5, <1>6, <1>7, FileWrite
  <2> QED
    BY <1>4, <2>1
<1>9. Forest(pages', H2, [K2 EXCEPT ![page] = K2[page]])
  BY <1>4, <1>5, ForestWrite DEF Tree
<1>10. [K2 EXCEPT ![page] = K2[page]] = K2
  BY <1>5 DEF Tree, Forest
<1>11. Tree(pages', root', meta', H2, K2)
  BY <1>4, <1>5, <1>8, <1>9, <1>10 DEF Tree
<1>12. TypeOK' /\ Arguments'
  BY <1>4, <1>8 DEF BTreeInv, TypeOK, FileOK, Arguments
<1> QED
  BY <1>4, <1>8, <1>11, <1>12, Settled

\* The parent has none: it is cut at a key that is not the first, for no half to be
\* empty, and each has room.
LEMMA AbsorbCut ==
  ASSUME BTreeInv, AbsorbSplit, NEW H, NEW K, Shape(H, K), NEW w, w = Internal(NodeKeys, NodeChildren)
  PROVE  \E n \in Nat, m \in Nat :
           /\ n = Len(w.keys) /\ m \in 2..n /\ m - 1 <= MAX_KEYS /\ n - m <= MAX_KEYS
           /\ Split(Part(w, 0, m - 1), w.keys[m], Part(w, m, n))
<1>1. PICK n, m : n = Len(w.keys) /\ m = n \div 2 + 1
  OBVIOUS
<1>2. w.keys = NodeKeys /\ w.vals = NodeChildren
  BY DEF Internal
<1>3. pc = "absorb" /\ n > MAX_KEYS
  BY <1>1, <1>2 DEF AbsorbSplit
<1>4. n \in Nat /\ n <= MAX_KEYS + 1
  <2>1. PICK H2, K2 : /\ H2 = Plus(H, right, H[page] - 1)
                      /\ K2 = Plus(K, right, Taken(pages, page, Slot, sep, K))
    OBVIOUS
  <2> QED
    BY <1>1, <1>3, <2>1, AbsorbWider
<1>5. m - 1 = n \div 2 /\ m \in 2..n /\ m - 1 <= MAX_KEYS /\ n - m <= MAX_KEYS
  <2>1. n >= 3 /\ n \in Nat /\ n <= MAX_KEYS + 1
    BY <1>3, <1>4, FanoutAssumption
  <2>2. \A i \in Nat : 2 * (i \div 2) <= i /\ i <= 2 * (i \div 2) + 1 /\ i \div 2 \in Nat
    OBVIOUS
  <2>3. PICK h \in Nat : h = n \div 2 /\ 2 * h <= n /\ n <= 2 * h + 1
    BY <2>1, <2>2
  <2>4. m = h + 1 /\ n \div 2 = h
    BY <1>1, <2>3
  <2>5. h + 1 \in 2..n /\ h <= MAX_KEYS /\ n - (h + 1) <= MAX_KEYS
    BY <2>1, <2>3, FanoutAssumption
  <2> QED
    BY <2>4, <2>5
<1>6. Split(Part(w, 0, m - 1), w.keys[m], Part(w, m, n))
  <2>1. LET mid == n \div 2
        IN  Split(Internal(SubSeq(w.keys, 1, mid), SubSeq(w.vals, 1, mid + 1)), w.keys[mid + 1],
                  Internal(SubSeq(w.keys, mid + 2, n), SubSeq(w.vals, mid + 2, n + 1)))
    BY <1>1, <1>2 DEF AbsorbSplit
  <2>2. Split(Internal(SubSeq(w.keys, 1, m - 1), SubSeq(w.vals, 1, m)), w.keys[m],
              Internal(SubSeq(w.keys, m + 1, n), SubSeq(w.vals, m + 1, n + 1)))
    <3>1. n \div 2 = m - 1 /\ n \div 2 + 1 = m /\ n \div 2 + 2 = m + 1
      BY <1>1, <1>5
    <3> QED
      BY <2>1, <3>1
  <2>3. 0 + 1 = 1 /\ m - 1 + 1 = m
    BY <1>5
  <2>4. /\ Part(w, 0, m - 1) = Internal(SubSeq(w.keys, 1, m - 1), SubSeq(w.vals, 1, m))
        /\ Part(w, m, n) = Internal(SubSeq(w.keys, m + 1, n), SubSeq(w.vals, m + 1, n + 1))
    BY <2>3 DEF Part
  <2> QED
    BY <2>2, <2>4
<1>7. m \in Nat
  BY <1>4, <1>5
<1> QED
  BY <1>1, <1>4, <1>5, <1>6, <1>7

\* It is split in turn, with the half of its child in the tree.
LEMMA AbsorbSplitStep ==
  ASSUME BTreeInv, AbsorbSplit, NEW H, NEW K, Shape(H, K),
         NEW H2, H2 = Plus(H, right, H[page] - 1),
         NEW K2, K2 = Plus(K, right, Taken(pages, page, Slot, sep, K))
  PROVE  BTreeInv' /\ Shape(H2, K2)'
<1>3. PICK w : w = Internal(NodeKeys, NodeChildren)
  OBVIOUS
<1>6. pc = "absorb"
  BY DEF AbsorbSplit
<1>4. PICK n \in Nat, m \in Nat :
        /\ n = Len(w.keys) /\ m \in 2..n /\ m - 1 <= MAX_KEYS /\ n - m <= MAX_KEYS
        /\ Split(Part(w, 0, m - 1), w.keys[m], Part(w, m, n))
  BY <1>3, AbsorbCut
<1>7. /\ Tree(pages, root, meta, H2, K2) /\ page \in DOMAIN H2 /\ DOMAIN H \subseteq DOMAIN H2
      /\ \A p \in DOMAIN H : H2[p] = H[p] /\ K2[p] = K[p]
      /\ w \in Nodes /\ ~w.leaf /\ Sorted(w.keys) /\ Len(w.vals) = Len(w.keys) + 1
      /\ Range(w.vals) \subseteq 1..Len(pages)
      /\ Fits(w, K2[page], H2[page], H2, K2) /\ Apart(w, page, pages, H2)
  BY <1>3, <1>6, AbsorbWider
<1>8. m \in 2..n /\ m - 1 <= MAX_KEYS /\ n - m <= MAX_KEYS
  BY <1>4
<1>9. PICK l, r, x : l = Part(w, 0, m - 1) /\ r = Part(w, m, n) /\ x = w.keys[m]
  OBVIOUS
<1>10. Split(l, x, r)
  BY <1>4, <1>9
<1>11. K2[page] \in SUBSET Keys
  BY <1>7 DEF Tree, Forest
<1>12. /\ HasPart(l, w, 0, m - 1) /\ HasPart(r, w, m, n) /\ x \in K2[page]
       /\ Fits(l, {k \in K2[page] : k < x}, H2[page], H2, K2) /\ Apart(l, page, pages, H2)
       /\ Fits(r, {k \in K2[page] : k >= x}, H2[page], H2, K2) /\ Apart(r, page, pages, H2)
       /\ Range(l.vals) \cap Range(r.vals) = {}
  <2>1. PICK G, J, S, h : G = H2 /\ J = K2 /\ S = K2[page] /\ h = H2[page]
    OBVIOUS
  <2>2. /\ w \in Nodes /\ ~w.leaf /\ Sorted(w.keys) /\ Len(w.vals) = Len(w.keys) + 1
        /\ n \in Nat /\ n = Len(w.keys) /\ m \in 1..n /\ S \in SUBSET Keys
        /\ Fits(w, S, h, G, J) /\ Apart(w, page, pages, G)
    <3>1. m \in 1..n
      BY <1>7, <1>8
    <3> QED
      BY <1>4, <1>7, <1>11, <2>1, <3>1
  <2>3. LET y == w.keys[m] IN
       /\ HasPart(Part(w, 0, m - 1), w, 0, m - 1) /\ HasPart(Part(w, m, n), w, m, n) /\ y \in S
       /\ Fits(Part(w, 0, m - 1), Below(S, y), h, G, J) /\ Apart(Part(w, 0, m - 1), page, pages, G)
       /\ Fits(Part(w, m, n), AtLeast(S, y), h, G, J) /\ Apart(Part(w, m, n), page, pages, G)
       /\ Range(Part(w, 0, m - 1).vals) \cap Range(Part(w, m, n).vals) = {}
    BY <2>2, Halves
  <2> QED
    BY <1>9, <2>1, <2>3 DEF Below, AtLeast
<1>13. NodeOK(l, Len(pages)) /\ NodeOK(r, Len(pages))
  <2>1. /\ 0 \in Nat /\ m - 1 \in Nat /\ 0 <= m - 1 /\ m - 1 <= n /\ m - 1 - 0 <= MAX_KEYS
        /\ m \in Nat /\ n \in Nat /\ m <= n /\ n <= n /\ n - m <= MAX_KEYS
    BY <1>7, <1>8
  <2>2. n = Len(w.keys) /\ Len(w.vals) = n + 1
    BY <1>4, <1>7
  <2> DEFINE c == m - 1
             size == Len(pages)
  <2>3. /\ c \in Nat /\ 0 <= c /\ c <= Len(w.keys) /\ c - 0 <= MAX_KEYS /\ HasPart(l, w, 0, c)
        /\ Range(w.vals) \subseteq 1..size
    BY <1>7, <1>12, <2>1, <2>2
  <2>4. m \in Nat /\ m <= n /\ n <= Len(w.keys) /\ n - m <= MAX_KEYS
    BY <2>1, <2>2
  <2> HIDE DEF c, size
  <2>5. NodeOK(l, size)
    BY <1>7, <2>1, <2>2, <2>3, PartOK
  <2>6. NodeOK(r, size)
    BY <1>7, <1>12, <2>1, <2>2, <2>3, <2>4, PartOK
  <2> QED
    BY <2>5, <2>6 DEF size
<1>14. l \in Nodes /\ r \in Nodes /\ l.keys # <<>>
  <2>1. l \in Nodes /\ r \in Nodes /\ Len(l.keys) = m - 1 - 0
    BY <1>12 DEF HasPart
  <2>2. m - 1 - 0 # 0
    BY <1>8
  <2> QED
    BY <2>1, <2>2
<1>15. /\ path \in Seq(DOMAIN H2) /\ Descent(pages, path, root, key)
       /\ \A j \in DOMAIN path : H2[path[j]] = H2[root] + 1 - j /\ key \in K2[path[j]]
  <2>1. /\ path \in Seq(DOMAIN H) /\ Descent(pages, path, root, key)
        /\ \A j \in DOMAIN path : H[path[j]] = H[root] + 1 - j /\ key \in K[path[j]]
    BY <1>6 DEF Shape, Descending
  <2>2. root \in DOMAIN H /\ \A j \in DOMAIN path : path[j] \in DOMAIN H
    BY <2>1 DEF Shape, Tree
  <2>3. path \in Seq(DOMAIN H2)
    BY <1>7, <2>1, SeqMonotonic
  <2>4. \A j \in DOMAIN path : H2[path[j]] = H2[root] + 1 - j /\ key \in K2[path[j]]
    BY <1>7, <2>1, <2>2
  <2> QED
    BY <2>1, <2>3, <2>4
<1>16. Arguments'
  BY <1>6, <1>10 DEF Arguments, Split, BTreeInv
<1> QED
  BY <1>7, <1>10, <1>12, <1>13, <1>14, <1>15, <1>16, SplitKeeps

\* The new root is written, and not yet in use.
LEMMA NewRootStep ==
  ASSUME BTreeInv, NewRoot, NEW H, NEW K, Shape(H, K)
  PROVE  BTreeInv' /\ Shape(H, K)'
<1>2. PICK n : n = Internal(<<sep>>, <<root, right>>)
  OBVIOUS
<1>3. /\ pc = "root" /\ pc' = "set" /\ pages' = Append(pages, n) /\ right' = Len(pages) + 1
      /\ UNCHANGED <<meta, root, key, rid, path, left, sep, inserts, faults>>
  BY <1>2 DEF NewRoot, Alloc, NewPage
<1>4. FileOK(pages) /\ Len(pages) \in Nat /\ DOMAIN pages = 1..Len(pages)
  BY InvIsShape
<1>5. /\ Tree(pages, root, meta, H, K) /\ root \in DOMAIN H /\ DOMAIN H \subseteq DOMAIN pages
      /\ H[root] \in Nat /\ H[root] < Len(pages)
  BY DEF Shape, Tree, Forest
<1>6. /\ sep \in Keys /\ (\A k \in K[root] : k < sep)
      /\ right \in DOMAIN pages \ DOMAIN H
      /\ Fits(pages[right], {k \in Keys : k >= sep}, H[root], H, K)
      /\ Apart(pages[right], right, pages, H)
  BY <1>3 DEF Shape, Rooting, Spare
<1>7. n \in Nodes /\ NodeOK(n, Len(pages) + 1)
  <2>1. /\ n.leaf = FALSE /\ n.keys = <<sep>> /\ n.vals = <<root, right>> /\ n.next = 0
        /\ n = [leaf |-> FALSE, keys |-> <<sep>>, vals |-> <<root, right>>, next |-> 0]
    BY <1>2 DEF Internal
  <2>2. root \in 1..(Len(pages) + 1) /\ right \in 1..(Len(pages) + 1)
    BY <1>4, <1>5, <1>6
  <2>3. n \in Nodes
    <3>1. <<sep>> \in Seq(Keys) /\ <<root, right>> \in Seq(Nat)
      BY <1>6, <2>2
    <3> QED
      BY <2>1, <3>1 DEF Nodes
  <2>4. /\ Len(<<sep>>) = 1 /\ Len(<<root, right>>) = 2 /\ DOMAIN <<sep>> = 1..1
        /\ DOMAIN <<root, right>> = 1..2 /\ <<root, right>>[1] = root /\ <<root, right>>[2] = right
    OBVIOUS
  <2>5. Range(n.vals) \subseteq 1..(Len(pages) + 1)
    <3>1. \A i \in 1..2 : i = 1 \/ i = 2
      OBVIOUS
    <3> QED
      BY <2>1, <2>2, <2>4, <3>1 DEF Range
  <2>6. \A i, j \in DOMAIN n.keys : i < j => n.keys[i] < n.keys[j]
    BY <2>1, <2>4
  <2>7. Len(n.keys) <= MAX_KEYS /\ Len(n.vals) = Len(n.keys) + 1
    BY <2>1, <2>4, FanoutAssumption
  <2> QED
    BY <2>1, <2>3, <2>5, <2>6, <2>7 DEF NodeOK
<1>8. /\ FileOK(pages') /\ Len(pages') = Len(pages) + 1
      /\ DOMAIN pages \subseteq DOMAIN pages' /\ \A q \in DOMAIN pages : pages'[q] = pages[q]
      /\ right' \in DOMAIN pages' \ DOMAIN pages /\ pages'[right'] = n
  BY <1>3, <1>4, <1>7, FileAppend
<1>9. Tree(pages', root', meta', H, K)
  <2>1. Tree(pages', root, meta, H, K)
    BY <1>4, <1>5, <1>8, TreeGrown
  <2> QED
    BY <1>3, <2>1
<1>10. PICK r : r = right
  OBVIOUS
<1>11. Rooting(H, K)'
  <2>1. r \in DOMAIN pages' /\ right' # r /\ right' \in DOMAIN pages' \ DOMAIN H
    BY <1>5, <1>6, <1>8, <1>10
  <2>2. pages'[right'] = Internal(<<sep>>, <<root, r>>)'
    BY <1>2, <1>3, <1>8, <1>10 DEF Internal
  <2>3. Spare(r, {k \in Keys : k >= sep}, H[root], H, K)'
    BY <1>3, <1>6, <1>8, <1>10 DEF Spare
  <2>4. Apart(pages[r], r, pages, H)'
    <3>1. pages'[r] = pages[r] /\ \A q \in DOMAIN H : pages'[q] = pages[q]
      BY <1>5, <1>6, <1>8, <1>10
    <3> QED
      BY <1>6, <1>10, <3>1, ApartGrown
  <2>5. H[root'] + 1 < Len(pages')
    BY <1>3, <1>4, <1>5, <1>8
  <2> QED
    BY <1>3, <1>6, <2>1, <2>2, <2>3, <2>4, <2>5 DEF Rooting
<1>12. Descending(H, K)' /\ Splitting(H, K)' /\ Absorbing(H, K)'
  BY <1>3 DEF Descending, Splitting, Absorbing
<1>13. TypeOK' /\ NodesOK' /\ Arguments'
  <2>1. path \in Seq(DOMAIN pages')
    BY <1>8, SeqMonotonic DEF BTreeInv, TypeOK
  <2>2. root \in DOMAIN pages' /\ meta \in DOMAIN pages'
    BY <1>8 DEF BTreeInv, TypeOK
  <2> QED
    BY <1>3, <1>8, <2>1, <2>2 DEF BTreeInv, TypeOK, FileOK, NodesOK, Arguments
<1>14. Shape(H, K)'
  BY <1>9, <1>11, <1>12 DEF Shape
<1> QED
  BY <1>13, <1>14 DEF BTreeInv

\* The half that stays is written, and its keys are those below the separator.
LEMMA LeftWritten ==
  ASSUME BTreeInv, WriteLeft, NEW H, NEW K, Shape(H, K),
         NEW S, S = Below(K[page], sep),
         NEW K2, K2 = Narrowed(K, page, S)
  PROVE  /\ FileOK(pages') /\ DOMAIN pages' = DOMAIN pages /\ Len(pages') = Len(pages)
         /\ pages'[page] = left /\ \A q \in DOMAIN pages \ {page} : pages'[q] = pages[q]
         /\ Tree(pages', root, meta, H, K2)
         /\ K2[page] = S /\ \A q \in DOMAIN H \ {page} : K2[q] = K[q]
         /\ right \in DOMAIN pages \ DOMAIN H
         /\ pages'[right] = pages[right] /\ Apart(pages'[right], right, pages', H)
         /\ \A T : AtLeast(K[page], sep) \subseteq T => Fits(pages'[right], T, H[page], H, K2)
<1>1. pc = "left" /\ pages' = [pages EXCEPT ![page] = left]
  BY DEF WriteLeft, WriteBack
<1>2. /\ page \in DOMAIN H /\ page \in DOMAIN pages
  BY <1>1, InHand
<1>3. /\ left \in Nodes /\ NodeOK(left, Len(pages))
      /\ Fits(left, S, H[page], H, K)
      /\ right \in DOMAIN pages \ DOMAIN H
      /\ Fits(pages[right], {k \in K[page] : k >= sep}, H[page], H, K)
      /\ Apart(left, page, pages, H) /\ Apart(pages[right], page, pages, H)
      /\ ~left.leaf => Range(left.vals) \cap Range(pages[right].vals) = {}
  BY <1>1 DEF Shape, Splitting, Spare, Below
<1>4. FileOK(pages) /\ Len(pages) \in Nat /\ DOMAIN pages = 1..Len(pages)
  BY InvIsShape
<1>5. FileOK(pages') /\ DOMAIN pages' = DOMAIN pages /\ Len(pages') = Len(pages)
  <2>1. /\ FileOK([pages EXCEPT ![page] = left])
        /\ DOMAIN [pages EXCEPT ![page] = left] = DOMAIN pages
        /\ Len([pages EXCEPT ![page] = left]) = Len(pages)
    BY <1>2, <1>3, <1>4, FileWrite
  <2> QED
    BY <1>1, <2>1
<1>6. pages'[page] = left /\ \A q \in DOMAIN pages \ {page} : pages'[q] = pages[q]
  <2>1. pages \in Seq(Nodes)
    BY <1>4 DEF FileOK
  <2> QED
    BY <1>1, <1>2
<1>7. Forest(pages, H, K) /\ DOMAIN H \subseteq DOMAIN pages /\ K \in [DOMAIN H -> SUBSET Keys]
  BY DEF Shape, Tree, Forest
<1>8. K2[page] = S /\ \A q \in DOMAIN H \ {page} : K2[q] = K[q]
  BY <1>2, <1>7 DEF Narrowed
<1>9. Forest(pages', H, K2)
  <2>1. S \in SUBSET K[page]
    BY DEF Below
  <2>2. Forest([pages EXCEPT ![page] = left], H, [K EXCEPT ![page] = S])
    BY <1>2, <1>3, <1>7, <2>1, ForestWrite
  <2> QED
    BY <1>1, <2>2 DEF Narrowed
<1>10. Tree(pages', root, meta, H, K2)
  BY <1>5, <1>9 DEF Shape, Tree
<1>11. pages'[right] = pages[right] /\ Apart(pages'[right], right, pages', H)
  BY <1>2, <1>3, <1>6, <1>7, SpareKept
<1>12. ASSUME NEW T, AtLeast(K[page], sep) \subseteq T
       PROVE  Fits(pages'[right], T, H[page], H, K2)
  <2>1. \A q \in DOMAIN H : K2[q] \subseteq K[q]
    BY <1>8 DEF Below
  <2> QED
    BY <1>3, <1>11, <1>12, <2>1, FitsMore DEF AtLeast
<1> QED
  BY <1>3, <1>5, <1>6, <1>8, <1>10, <1>11, <1>12

\* A path without its last page.
LEMMA PathUp ==
  ASSUME NEW D, NEW w \in Seq(D), NEW n \in Nat \ {0}, n = Len(w)
  PROVE  /\ Front(w) \in Seq(D) /\ Len(Front(w)) = n - 1 /\ DOMAIN Front(w) = 1..(n - 1)
         /\ \A j \in 1..(n - 1) : Front(w)[j] = w[j]
<1> DEFINE c == n - 1
<1>1. 0 \in Nat /\ c \in Nat /\ 0 <= c /\ c <= Len(w) /\ c - 0 = c /\ \A j \in 1..c : 0 + j = j
  OBVIOUS
<1>2. Front(w) = SubSeq(w, 0 + 1, c)
  BY DEF Front
<1> HIDE DEF c
<1>3. /\ SubSeq(w, 0 + 1, c) \in Seq(D) /\ Len(SubSeq(w, 0 + 1, c)) = c - 0
      /\ \A j \in 1..(c - 0) : SubSeq(w, 0 + 1, c)[j] = w[0 + j]
  BY <1>1, SubSeqFrom
<1>4. /\ Front(w) \in Seq(D) /\ Len(Front(w)) = c
      /\ \A j \in 1..c : Front(w)[j] = w[j]
  BY <1>1, <1>2, <1>3
<1>5. DOMAIN Front(w) = 1..c
  BY <1>4, LenProperties
<1> QED
  BY <1>4, <1>5 DEF c

\* insert_into returns to the parent q of the page in hand.
LEMMA Parent ==
  ASSUME BTreeInv, pc = "left", path' = Front(path), NEW H, NEW K, Shape(H, K),
         Len(path) # 1, NEW q, q = path[Len(path) - 1],
         NEW c, c = ChildIndex(pages[q].keys, key)
  PROVE  /\ q \in DOMAIN H /\ H[q] = H[page] + 1 /\ key \in K[q] /\ q # page
         /\ ~pages[q].leaf /\ page = pages[q].vals[c] /\ page' = q
         /\ \A k \in K[page] : k \in K[q] /\ ChildIndex(pages[q].keys, k) = c
         /\ pages[q].keys \in Seq(Int) /\ Sorted(pages[q].keys)
         /\ c \in 1..(Len(pages[q].keys) + 1) /\ Len(pages[q].keys) \in Nat
<1>0. PICK n : n = Len(path)
  OBVIOUS
<1>1. /\ n \in Nat \ {0} /\ DOMAIN path = 1..n /\ page = path[n] /\ H[page] \in Nat
      /\ key \in K[page] /\ K[page] \subseteq Keys /\ n # 1 /\ q = path[n - 1]
  BY <1>0, InHand
<1>2. /\ path \in Seq(DOMAIN H)
      /\ \A j \in 1..(n - 1) : ~pages[path[j]].leaf /\ path[j + 1] = Child(pages[path[j]], key)
      /\ \A j \in 1..n : path[j] \in DOMAIN H /\ H[path[j]] = H[root] + 1 - j /\ key \in K[path[j]]
  BY <1>0, <1>1 DEF Shape, Descending, Descent
<1>3. /\ root \in DOMAIN H /\ H \in [DOMAIN H -> Nat] /\ DOMAIN H \subseteq DOMAIN pages
      /\ \A p \in DOMAIN H : Fits(pages[p], K[p], H[p], H, K)
  BY DEF Shape, Tree, Forest
<1>4. n - 1 \in 1..n /\ n - 1 \in 1..(n - 1) /\ n - 1 + 1 = n /\ n \in 1..n
  BY <1>1
<1>5. q \in DOMAIN H /\ key \in K[q] /\ ~pages[q].leaf /\ page = pages[q].vals[c]
  <2>1. page = Child(pages[q], key) /\ ~pages[q].leaf
    BY <1>1, <1>2, <1>4
  <2>2. q \in DOMAIN H /\ key \in K[q]
    BY <1>1, <1>2, <1>4
  <2> QED
    BY <2>1, <2>2 DEF Child
<1>6. H[q] = H[page] + 1 /\ q # page
  <2>1. H[q] = H[root] + 1 - (n - 1) /\ H[page] = H[root] + 1 - n /\ H[root] \in Nat
    BY <1>1, <1>2, <1>3, <1>4
  <2>2. PICK h \in Nat : h = H[root]
    BY <2>1
  <2>3. H[q] = H[page] + 1
    <3>1. h + 1 - (n - 1) = (h + 1 - n) + 1
      BY <1>1
    <3> QED
      BY <2>1, <2>2, <3>1
  <2> QED
    BY <1>1, <2>3
<1>7. page' = q
  <2>1. Len(path') = n - 1 /\ path'[n - 1] = path[n - 1]
    BY <1>0, <1>1, <1>2, <1>4, PathUp
  <2>2. page' = path'[Len(path')]
    BY DEF page, Last
  <2> QED
    BY <1>1, <2>1, <2>2
<1>8. c \in DOMAIN pages[q].vals /\ pages[q].keys \in Seq(Int) /\ Sorted(pages[q].keys)
      /\ c \in 1..(Len(pages[q].keys) + 1) /\ Len(pages[q].keys) \in Nat
  <2>1. pages[q] \in Nodes /\ NodeOK(pages[q], Len(pages)) /\ key \in Keys
    BY <1>1, <1>3, <1>5, InvIsShape
  <2>2. key \in Int
    BY <2>1, KeysAssumption
  <2>3. Sorted(pages[q].keys)
    BY <2>1 DEF NodeOK, Sorted
  <2>4. c \in DOMAIN pages[q].vals
    BY <1>5, <2>1, ChildExists
  <2>5. pages[q].keys \in Seq(Int) /\ Len(pages[q].keys) \in Nat
    BY <2>1, NodeType
  <2>6. c \in 1..(Len(pages[q].keys) + 1)
    BY <2>2, <2>3, <2>5, ChildIndexSplits
  <2> QED
    BY <2>3, <2>4, <2>5, <2>6
<1>9. \A k \in K[page] : k \in K[q] /\ ChildIndex(pages[q].keys, k) = c
  <2>1. Fits(pages[q], K[q], H[q], H, K)
    BY <1>3, <1>5
  <2>2. \A k \in K[pages[q].vals[c]] : k \in K[q] /\ ChildIndex(pages[q].keys, k) = c
    BY <1>5, <1>8, <2>1 DEF Fits
  <2> QED
    BY <1>5, <2>2
<1> QED
  BY <1>5, <1>6, <1>7, <1>8, <1>9

\* The half that stays is written back.  Its keys from sep on are not found from
\* here until the parent knows the other half, but none goes astray.
LEMMA WriteLeftStep ==
  ASSUME BTreeInv, WriteLeft, NEW H, NEW K, Shape(H, K),
         NEW S, S = Below(K[page], sep),
         NEW K2, K2 = Narrowed(K, page, S)
  PROVE  BTreeInv' /\ Shape(H, K2)'
<1>4. PICK p, n : p = page /\ n = Len(path)
  OBVIOUS
<1>5. /\ pc = "left" /\ path' = Front(path) /\ pc' = IF n = 1 THEN "root" ELSE "absorb"
      /\ UNCHANGED <<meta, root, key, rid, sep, right, inserts, faults>>
  BY <1>4 DEF WriteLeft
<1>6. /\ FileOK(pages') /\ DOMAIN pages' = DOMAIN pages /\ Len(pages') = Len(pages)
      /\ pages'[p] = left /\ \A q \in DOMAIN pages \ {p} : pages'[q] = pages[q]
      /\ Tree(pages', root, meta, H, K2)
      /\ K2[p] = S /\ \A q \in DOMAIN H \ {p} : K2[q] = K[q]
      /\ right \in DOMAIN pages \ DOMAIN H
      /\ pages'[right] = pages[right] /\ Apart(pages'[right], right, pages', H)
      /\ \A T : AtLeast(K[p], sep) \subseteq T => Fits(pages'[right], T, H[p], H, K2)
  <2>1. /\ FileOK(pages') /\ DOMAIN pages' = DOMAIN pages /\ Len(pages') = Len(pages)
        /\ pages'[page] = left /\ \A q \in DOMAIN pages \ {page} : pages'[q] = pages[q]
        /\ Tree(pages', root, meta, H, K2)
        /\ K2[page] = S /\ \A q \in DOMAIN H \ {page} : K2[q] = K[q]
        /\ right \in DOMAIN pages \ DOMAIN H
        /\ pages'[right] = pages[right] /\ Apart(pages'[right], right, pages', H)
        /\ \A T : AtLeast(K[page], sep) \subseteq T => Fits(pages'[right], T, H[page], H, K2)
    BY LeftWritten
  <2> QED
    BY <1>4, <2>1
<1>7. /\ n \in Nat \ {0} /\ DOMAIN path = 1..n /\ p = path[n] /\ p \in DOMAIN H /\ H[p] \in Nat
      /\ key \in K[p] /\ K[p] \subseteq Keys
  BY <1>4, <1>5, InHand
<1>8. /\ path \in Seq(DOMAIN H) /\ path[1] = root
      /\ \A j \in 1..(n - 1) : ~pages[path[j]].leaf /\ path[j + 1] = Child(pages[path[j]], key)
      /\ \A j \in 1..n : path[j] \in DOMAIN H /\ H[path[j]] = H[root] + 1 - j /\ key \in K[path[j]]
  BY <1>4, <1>5, <1>7 DEF Shape, Descending, Descent
<1>9. /\ sep \in K[p] /\ sep \in Int /\ left.keys # <<>> /\ left \in Nodes
      /\ Fits(left, S, H[p], H, K)
  BY <1>4, <1>5, <1>7, KeysAssumption DEF Shape, Splitting, Below
<1>10. /\ DOMAIN H \subseteq DOMAIN pages /\ root \in DOMAIN H /\ meta \in DOMAIN H
       /\ H \in [DOMAIN H -> Nat]
       /\ \A q \in DOMAIN H : Fits(pages[q], K[q], H[q], H, K)
       /\ \A q \in DOMAIN H : pages[q] \in Nodes
  BY InvIsShape DEF Shape, Tree, Forest
<1>11. /\ path' \in Seq(DOMAIN H) /\ Len(path') = n - 1 /\ DOMAIN path' = 1..(n - 1)
       /\ \A j \in 1..(n - 1) : path'[j] = path[j]
  BY <1>4, <1>5, <1>7, <1>8, PathUp
<1>12. TypeOK' /\ NodesOK' /\ Arguments'
  <2>1. path' \in Seq(DOMAIN pages')
    BY <1>6, <1>10, <1>11, SeqMonotonic
  <2>2. pc' \in {"root", "absorb"}
    BY <1>5
  <2> QED
    BY <1>5, <1>6, <2>1, <2>2 DEF BTreeInv, TypeOK, FileOK, NodesOK, Arguments
<1>13. Splitting(H, K2)' /\ Tree(pages', root', meta', H, K2)
  BY <1>5, <1>6 DEF Splitting
<1>14. CASE n = 1
  <2>1. p = root /\ pc' = "root"
    BY <1>5, <1>7, <1>8, <1>14
  <2>2. Descending(H, K2)' /\ Absorbing(H, K2)'
    BY <2>1 DEF Descending, Absorbing
  <2>3. Rooting(H, K2)'
    <3>1. sep \in Keys /\ \A k \in K2[root] : k < sep
      BY <1>4, <1>6, <1>7, <1>9, <2>1 DEF Below
    <3>2. Fits(pages'[right], {k \in Keys : k >= sep}, H[root], H, K2)
      <4>1. AtLeast(K[p], sep) \subseteq {k \in Keys : k >= sep}
        BY <1>7 DEF AtLeast
      <4> QED
        BY <1>6, <2>1, <4>1
    <3>3. right' \in DOMAIN pages' \ DOMAIN H
      BY <1>5, <1>6
    <3> QED
      BY <1>5, <1>6, <2>1, <3>1, <3>2, <3>3 DEF Rooting, Spare
  <2>4. Shape(H, K2)'
    BY <1>13, <2>2, <2>3 DEF Shape
  <2> QED
    BY <1>12, <2>4 DEF BTreeInv
<1>15. CASE n # 1
  <2>1. pc' = "absorb" /\ n - 1 \in 1..n /\ n - 1 \in Nat \ {0}
    BY <1>5, <1>7, <1>15
  <2>2. PICK q, c : q = path[n - 1] /\ c = ChildIndex(pages[q].keys, key)
    OBVIOUS
  <2>3. /\ q \in DOMAIN H /\ H[q] = H[p] + 1 /\ H[p] \in Nat /\ key \in K[q] /\ q # p
        /\ ~pages[q].leaf /\ p = pages[q].vals[c] /\ page' = q
        /\ \A k \in K[p] : k \in K[q] /\ ChildIndex(pages[q].keys, k) = c
        /\ pages[q].keys \in Seq(Int) /\ Sorted(pages[q].keys)
        /\ c \in 1..(Len(pages[q].keys) + 1) /\ Len(pages[q].keys) \in Nat
    <3>1. /\ pc = "left" /\ path' = Front(path) /\ Len(path) # 1
          /\ q = path[Len(path) - 1] /\ c = ChildIndex(pages[q].keys, key)
      BY <1>4, <1>5, <1>15, <2>2
    <3>2. /\ q \in DOMAIN H /\ H[q] = H[page] + 1 /\ key \in K[q] /\ q # page
          /\ ~pages[q].leaf /\ page = pages[q].vals[c] /\ page' = q
          /\ \A k \in K[page] : k \in K[q] /\ ChildIndex(pages[q].keys, k) = c
          /\ pages[q].keys \in Seq(Int) /\ Sorted(pages[q].keys)
          /\ c \in 1..(Len(pages[q].keys) + 1) /\ Len(pages[q].keys) \in Nat
      BY <3>1, Parent
    <3> QED
      BY <1>4, <1>7, <3>2
  <2>4. pages'[q] = pages[q] /\ K2[q] = K[q] /\ Slot' = c
    BY <1>5, <1>6, <1>10, <2>2, <2>3 DEF Slot
  <2>5. Descending(H, K2)'
    <3>1. ASSUME NEW j \in 1..(n - 1)
          PROVE  /\ path[j] # p /\ path[j] \in DOMAIN pages
                 /\ H[path'[j]] = H[root] + 1 - j /\ key \in K2[path'[j]]
      <4>1. j \in 1..n /\ j # n
        BY <1>7
      <4>2. path[j] \in DOMAIN H /\ H[path[j]] = H[root] + 1 - j /\ key \in K[path[j]]
        BY <1>8, <4>1
      <4>3. H[p] = H[root] + 1 - n /\ H[root] \in Nat
        BY <1>7, <1>8, <1>10
      <4>4. path[j] # p
        BY <4>1, <4>2, <4>3, <1>7
      <4> QED
        BY <1>6, <1>10, <1>11, <4>2, <4>4
    <3>2. path' # <<>> /\ path'[1] = root
      <4>1. 1 \in 1..(n - 1)
        BY <2>1
      <4> QED
        BY <1>8, <1>11, <2>1, <4>1
    <3>3. \A j \in 1..(Len(path') - 1) :
            ~pages'[path'[j]].leaf /\ path'[j + 1] = Child(pages'[path'[j]], key)
      <4>1. ASSUME NEW j \in 1..(Len(path') - 1)
            PROVE  ~pages'[path'[j]].leaf /\ path'[j + 1] = Child(pages'[path'[j]], key)
        <5>1. j \in 1..(n - 1) /\ j + 1 \in 1..(n - 1)
          BY <1>7, <1>11
        <5>2. path'[j] = path[j] /\ path'[j + 1] = path[j + 1]
          BY <1>11, <5>1
        <5>3. pages'[path[j]] = pages[path[j]]
          BY <1>6, <3>1, <5>1
        <5> QED
          BY <1>8, <5>1, <5>2, <5>3
      <4> QED
        BY <4>1
    <3>4. Descent(pages', path', root', key')
      BY <1>5, <3>2, <3>3 DEF Descent
    <3> QED
      BY <1>5, <1>11, <2>1, <3>1, <3>4 DEF Descending
  <2>6. Absorbing(H, K2)'
    <3>1. sep \in K2[q] /\ ChildIndex(pages'[q].keys, sep) = c
      BY <1>9, <2>3, <2>4
    <3>2. H[q] > 0 /\ H[q] - 1 = H[p]
      BY <2>3
    <3>3. \A k \in K2[pages'[q].vals[c]] : k < sep
      BY <1>4, <1>6, <2>3, <2>4 DEF Below
    <3>4. c > 1 => pages'[q].keys[c - 1] < sep
      <4>1. PICK k : k = left.keys[1]
        OBVIOUS
      <4>2. k \in K[p] /\ k < sep /\ k \in Int
        <5>1. 1 \in DOMAIN left.keys
          <6>1. left.keys \in Seq(Int)
            BY <1>9, NodeType
          <6> QED
            BY <1>9, <6>1
        <5>2. k \in S
          BY <1>9, <4>1, <5>1 DEF Fits, Range
        <5> QED
          BY <1>4, <1>7, <5>2, KeysAssumption DEF Below
      <4>3. ChildIndex(pages[q].keys, k) = c
        BY <2>3, <4>2
      <4>4. \A i \in 1..Len(pages[q].keys) : i < c <=> pages[q].keys[i] <= k
        BY <2>3, <4>2, <4>3, ChildIndexSplits
      <4>5. ASSUME c > 1 PROVE pages[q].keys[c - 1] < sep
        <5>1. c - 1 \in 1..Len(pages[q].keys) /\ c - 1 < c
          BY <2>3, <4>5
        <5>2. pages[q].keys[c - 1] <= k /\ pages[q].keys[c - 1] \in Int
          BY <2>3, <4>4, <5>1
        <5> QED
          BY <1>9, <4>2, <5>2
      <4> QED
        BY <2>4, <4>5
    <3>5. Fits(pages'[right], {k \in K2[q] : ChildIndex(pages'[q].keys, k) = c /\ k >= sep}, H[q] - 1, H, K2)
      <4>1. AtLeast(K[p], sep) \subseteq {k \in K2[q] : ChildIndex(pages'[q].keys, k) = c /\ k >= sep}
        BY <2>3, <2>4 DEF AtLeast
      <4> QED
        BY <1>6, <3>2, <4>1
    <3>6. right' \in DOMAIN pages' \ DOMAIN H
      BY <1>5, <1>6
    <3>7. Spare(right, {k \in K2[page] : ChildIndex(pages[page].keys, k) = Slot /\ k >= sep},
                H[page] - 1, H, K2)'
      BY <1>5, <2>3, <2>4, <3>5, <3>6 DEF Spare
    <3> QED
      BY <1>5, <1>6, <2>3, <2>4, <3>1, <3>2, <3>3, <3>4, <3>7 DEF Absorbing
  <2>7. Rooting(H, K2)'
    BY <2>1 DEF Rooting
  <2>8. Shape(H, K2)'
    BY <1>13, <2>5, <2>6, <2>7 DEF Shape
  <2> QED
    BY <1>12, <2>8 DEF BTreeInv
<1> QED
  BY <1>14, <1>15

\* H2 and K2 are H and K with the new root, which is for all keys, and the other
\* half of the old one.
Crowned(H, K, H2, K2) ==
  /\ DOMAIN H2 = DOMAIN H \cup {right, pages[right].vals[2]}
  /\ \A p \in DOMAIN H : H2[p] = H[p] /\ K2[p] = K[p]
  /\ K2[right] = Keys /\ K2[pages[right].vals[2]] = AtLeast(Keys, sep)

\* They join the tree.
LEMMA SetRootStep ==
  ASSUME BTreeInv, SetRoot, NEW H, NEW K, Shape(H, K)
  PROVE  BTreeInv' /\ \E H2, K2 : Shape(H2, K2)' /\ Crowned(H, K, H2, K2)
<1>2. pc = "set" /\ pc' = "meta" /\ root' = right
      /\ UNCHANGED <<pages, meta, key, rid, path, inserts, faults>>
  BY DEF SetRoot, file, call
<1>3. PICK top, n, x : top = root /\ n = right /\ x = sep
  OBVIOUS
<1>4. /\ Forest(pages, H, K) /\ top \in DOMAIN H /\ meta \in DOMAIN H
      /\ \A p \in DOMAIN H : p = top \/ H[p] < H[top]
  BY <1>3 DEF Shape, Tree
<1>5. x \in Keys /\ \A k \in K[top] : k < x
  BY <1>2, <1>3 DEF Shape, Rooting
<1>6. PICK r \in DOMAIN pages :
        /\ n \in DOMAIN pages \ DOMAIN H /\ n # r
        /\ pages[n] = Internal(<<x>>, <<top, r>>)
        /\ r \in DOMAIN pages \ DOMAIN H
        /\ Fits(pages[r], AtLeast(Keys, x), H[top], H, K)
        /\ Apart(pages[r], r, pages, H)
        /\ H[top] + 1 < Len(pages)
  BY <1>2, <1>3 DEF Shape, Rooting, Spare, AtLeast
<1>7. PICK H1, K1 : H1 = Plus(H, r, H[top]) /\ K1 = Plus(K, r, AtLeast(Keys, x))
  OBVIOUS
<1>8. PICK H2, K2 : H2 = Plus(H1, n, H[top] + 1) /\ K2 = Plus(K1, n, Keys)
  OBVIOUS
<1>9. Forest(pages, H1, K1) /\ Fits(pages[n], Keys, H[top] + 1, H1, K1) /\ Apart(pages[n], n, pages, H1)
  BY <1>4, <1>5, <1>6, <1>7, RootFits
<1>10. /\ DOMAIN H1 = DOMAIN H \cup {r} /\ H1[r] = H[top] /\ \A p \in DOMAIN H : H1[p] = H[p]
       /\ H[top] \in Nat /\ \A p \in DOMAIN H : H[p] \in Nat
  BY <1>4, <1>6, <1>7 DEF Plus, Forest
<1>11. Forest(pages, H2, K2)
  <2>1. n \in DOMAIN pages \ DOMAIN H1 /\ H[top] + 1 \in Nat /\ Keys \in SUBSET Keys
    BY <1>6, <1>10
  <2> QED
    BY <1>8, <1>9, <2>1, ForestAdd
<1>12. /\ DOMAIN H2 = DOMAIN H1 \cup {n} /\ H2[n] = H[top] + 1
       /\ \A p \in DOMAIN H1 : H2[p] = H1[p]
  BY <1>6, <1>8, <1>10 DEF Plus
<1>13. Tree(pages', root', meta', H2, K2)
  <2>1. \A p \in DOMAIN H2 : p = n \/ H2[p] < H2[n]
    <3>1. \A p \in DOMAIN H1 : H1[p] <= H[top] /\ H1[p] \in Nat
      BY <1>4, <1>10
    <3> QED
      BY <1>10, <1>12, <3>1
  <2>2. n \in DOMAIN H2 /\ meta \in DOMAIN H2 /\ H2[n] < Len(pages)
    BY <1>4, <1>6, <1>10, <1>12
  <2> QED
    BY <1>2, <1>3, <1>11, <2>1, <2>2 DEF Tree
<1>14. TypeOK' /\ Arguments'
  BY <1>2, <1>3, <1>6 DEF BTreeInv, TypeOK, Arguments
<1>15. FileOK(pages')
  BY <1>2, InvIsShape
<1>16. BTreeInv' /\ Shape(H2, K2)'
  BY <1>2, <1>13, <1>14, <1>15, Settled
<1>17. /\ r = pages[right].vals[2] /\ DOMAIN H2 = DOMAIN H \cup {right, pages[right].vals[2]}
  BY <1>3, <1>6, <1>10, <1>12 DEF Internal
<1>18. \A p \in DOMAIN H : H2[p] = H[p] /\ K2[p] = K[p]
  <2>1. DOMAIN K = DOMAIN H
    BY <1>4 DEF Forest
  <2> QED
    BY <1>6, <1>7, <1>8, <1>10, <1>12, <2>1 DEF Plus
<1>19. K2[n] = Keys /\ K2[r] = AtLeast(Keys, x)
  <2>1. DOMAIN K = DOMAIN H /\ r # n
    BY <1>4, <1>6 DEF Forest
  <2> QED
    BY <1>6, <1>7, <1>8, <2>1 DEF Plus
<1>20. Crowned(H, K, H2, K2)
  BY <1>3, <1>17, <1>18, <1>19 DEF Crowned
<1> QED
  BY <1>16, <1>20
-----------------------------------------------------------------------------
\* The file open_or_create makes.
LEMMA InitInv == Init => BTreeInv
<1> SUFFICES ASSUME Init PROVE BTreeInv
  OBVIOUS
<1>1. PICK n : n = Leaf(<<>>, <<>>, 0)
  OBVIOUS
<1>2. pages = <<n>> /\ Len(pages) = 1 /\ DOMAIN pages = 1..1 /\ pages[1] = n /\ DOMAIN pages = {1}
  BY <1>1 DEF Init
<1>3. n.leaf = TRUE /\ n.keys = <<>> /\ n.vals = <<>>
  BY <1>1 DEF Leaf
<1>4. n \in Nodes /\ NodeOK(n, 1)
  <2>1. /\ <<>> \in Seq(Keys) /\ <<>> \in Seq(Nat) /\ 0 \in Nat /\ Len(<<>>) = 0 /\ Len(<<>>) <= MAX_KEYS
        /\ Sorted(<<>>)
    BY FanoutAssumption DEF Sorted
  <2> QED
    BY <1>1, <2>1, LeafOK
<1>5. TypeOK /\ NodesOK /\ Arguments
  <2>1. pages \in Seq(Nodes)
    <3> DEFINE N == Nodes
    <3>1. n \in N
      BY <1>4
    <3> HIDE DEF N
    <3>2. <<n>> \in Seq(N)
      BY <3>1
    <3> QED
      BY <1>2, <3>2 DEF N
  <2> QED
    BY <1>2, <1>4, <2>1, BoundsAssumption DEF TypeOK, NodesOK, Arguments, Init
<1>6. PICK H, K : H = [p \in {1} |-> 0] /\ K = [p \in {1} |-> {}]
  OBVIOUS
<1>7. Forest(pages, H, K)
  <2>1. Fits(n, K[1], H[1], H, K) /\ Apart(n, 1, pages, H)
    <3>1. Range(n.keys) \subseteq K[1] /\ H[1] = 0
      BY <1>3, <1>6 DEF Range
    <3> QED
      BY <1>3, <3>1, LeafFits
  <2> QED
    BY <1>2, <1>6, <2>1 DEF Forest
<1>8. Tree(pages, root, meta, H, K)
  BY <1>2, <1>6, <1>7 DEF Tree, Init
<1>9. Descending(H, K) /\ Splitting(H, K) /\ Absorbing(H, K) /\ Rooting(H, K)
  BY DEF Init, Descending, Splitting, Absorbing, Rooting
<1>10. Shape(H, K)
  BY <1>8, <1>9 DEF Shape
<1> QED
  BY <1>5, <1>10 DEF BTreeInv

\* A step of another part of the program.
LEMMA StutterInv ==
  ASSUME BTreeInv, UNCHANGED vars
  PROVE  BTreeInv'
<1>1. UNCHANGED <<pages, meta, root, pc, key, rid, path, left, sep, right, inserts, faults>>
  BY DEF vars, call
<1>2. TypeOK' /\ NodesOK' /\ Arguments'
  BY <1>1 DEF BTreeInv, TypeOK, NodesOK, Arguments
<1>3. PICK H, K : Shape(H, K)
  BY DEF BTreeInv
<1>4. Tree(pages', root', meta', H, K) /\ Descending(H, K)' /\ Rooting(H, K)'
  BY <1>1, <1>3 DEF Shape, Descending, Rooting, Spare, page
<1>5. Splitting(H, K)' /\ Absorbing(H, K)'
  BY <1>1, <1>3 DEF Shape, Splitting, Absorbing, Spare, page, Slot
<1>6. Shape(H, K)'
  BY <1>4, <1>5 DEF Shape
<1> QED
  BY <1>2, <1>6 DEF BTreeInv

\* Every step keeps the invariant.
LEMMA NextInv == BTreeInv /\ [Next]_vars => BTreeInv'
<1> SUFFICES ASSUME BTreeInv, [Next]_vars PROVE BTreeInv'
  OBVIOUS
<1>0. PICK H, K : Shape(H, K)
  BY DEF BTreeInv
<1>1. ASSUME NEW k \in Keys, Insert(k) PROVE BTreeInv'
  <2>1. PICK K2 : K2 = [q \in DOMAIN H |-> IF q \in Range(path') THEN K[q] \cup {k} ELSE K[q]]
    OBVIOUS
  <2> QED
    BY <1>0, <1>1, <2>1, InsertStep
<1>2. CASE LeafReplace
  BY <1>0, <1>2, LeafReplaceStep
<1>3. CASE LeafInsert
  BY <1>0, <1>3, LeafInsertStep
<1>4. CASE LeafSplit
  BY <1>0, <1>4, LeafSplitStep
<1>5. CASE WriteLeft
  <2>1. PICK S, K2 : S = Below(K[page], sep) /\ K2 = Narrowed(K, page, S)
    OBVIOUS
  <2> QED
    BY <1>0, <1>5, <2>1, WriteLeftStep
<1>6. CASE Absorb
  <2>1. PICK H2, K2 : /\ H2 = Plus(H, right, H[page] - 1)
                      /\ K2 = Plus(K, right, Taken(pages, page, Slot, sep, K))
    OBVIOUS
  <2> QED
    BY <1>0, <1>6, <2>1, AbsorbStep
<1>7. CASE AbsorbSplit
  <2>1. PICK H2, K2 : /\ H2 = Plus(H, right, H[page] - 1)
                      /\ K2 = Plus(K, right, Taken(pages, page, Slot, sep, K))
    OBVIOUS
  <2> QED
    BY <1>0, <1>7, <2>1, AbsorbSplitStep
<1>8. CASE NewRoot
  BY <1>0, <1>8, NewRootStep
<1>9. CASE SetRoot
  BY <1>0, <1>9, SetRootStep
<1>10. CASE WriteMeta
  BY <1>0, <1>10, WriteMetaStep
<1>11. CASE Return
  BY <1>0, <1>11, ReturnStep
<1>12. CASE Fail
  BY <1>0, <1>12, FailStep
<1>13. CASE Crash
  BY <1>13, CrashStep
<1>14. CASE UNCHANGED vars
  BY <1>14, StutterInv
<1> QED
  BY <1>1, <1>2, <1>3, <1>4, <1>5, <1>6, <1>7, <1>8, <1>9, <1>10, <1>11, <1>12, <1>13, <1>14
     DEF Next

\* The shape of the tree is kept by every call, failed write and process death.
THEOREM Invariance == Spec => []BTreeInv
  BY InitInv, NextInv, PTL DEF Spec

\* TypeOK: the pages are nodes, and the roots in memory and in page 0 are pages.
THEOREM TypeCorrect == Spec => []TypeOK
<1>1. BTreeInv => TypeOK
  BY DEF BTreeInv
<1> QED
  BY <1>1, Invariance, PTL

\* NodesOK: every node ever written, those a failure left behind included, is
\* sorted, no wider than it may be, and points into the file.
THEOREM NodesStaySound == Spec => []NodesOK
<1>1. BTreeInv => NodesOK
  BY DEF BTreeInv
<1> QED
  BY <1>1, Invariance, PTL

\* TreeOK: after every write, from the root in memory and from the one in page 0,
\* all leaves are equally deep, and a search for a stored key arrives at its leaf.
THEOREM SearchNeverStrays == Spec => []TreeOK
<1>1. BTreeInv => TreeOK
  <2> SUFFICES ASSUME BTreeInv PROVE TreeOK
    OBVIOUS
  <2>1. PICK H, K : Shape(H, K)
    BY DEF BTreeInv
  <2>2. FileOK(pages) /\ Tree(pages, root, meta, H, K) /\ root \in DOMAIN H /\ meta \in DOMAIN H
    BY <2>1, InvIsShape DEF Shape, Tree
  <2>3. SearchTree(root) /\ SearchTree(meta)
    BY <2>2, TreeSearches
  <2> QED
    BY <2>3 DEF TreeOK
<1> QED
  BY <1>1, Invariance, PTL
=============================================================================
