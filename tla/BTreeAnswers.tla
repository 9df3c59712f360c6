---------------------------- MODULE BTreeAnswers ----------------------------
(***************************************************************************)
(* What the B+tree answers, for any keys, any fanout, any number of        *)
(* inserts, failed writes and process deaths.  First that a scan along the *)
(* chain of leaves passes every key in order, then that what find answers  *)
(* is what IndexMap promises.                                              *)
(***************************************************************************)
EXTENDS BTreeProofs

\* The page, if any, that is on the chain of leaves or above one that is and which
\* the tree does not reach yet, and the keys it is for: the half that moved, until
\* its parent or the new root is in the tree.
Waits == IF pc \in {"absorb", "root"} THEN {right}
         ELSE IF pc = "set" THEN {pages[right].vals[2]} ELSE {}

WaitKeys(K) == IF pc = "absorb" THEN Taken(pages, page, Slot, sep, K) ELSE AtLeast(Keys, sep)

\* E says which keys each page is for, of the tree and of the one that waits.
Extended(E, H, K) ==
  /\ DOMAIN E = DOMAIN H \cup Waits
  /\ \A p \in DOMAIN H : E[p] = K[p]
  /\ \A p \in Waits : E[p] = WaitKeys(K)

\* Each key of S is one of a child of node n.
Covers(n, S, E) == ~n.leaf => \A k \in S : \E i \in DOMAIN n.vals : k \in E[n.vals[i]]

\* The root is for all keys, and the children of a page for all of the page's: with
\* Fits, for each key there is one leaf.
Covered(E) ==
  /\ E[root] = IF pc \in {"root", "set"} THEN Below(Keys, sep) ELSE Keys
  /\ \A p \in DOMAIN E : (pc \in {"left", "absorb"} /\ p = page) \/ Covers(pages[p], E[p], E)
  /\ pc = "left" => /\ Covers(left, Below(E[page], sep), E)
                    /\ Covers(pages[right], AtLeast(E[page], sep), E)
  /\ pc = "absorb" => Covers(pages[page], E[page] \ E[right], E)

\* The leaves among these pages are c, one after the other as `next` has them.
Linked(E, c) ==
  /\ c \in Seq(DOMAIN pages) /\ c # <<>> /\ c[1] = 1
  /\ \A i, j \in DOMAIN c : c[i] = c[j] => i = j
  /\ \A i \in DOMAIN c : pages[c[i]].next = IF i = Len(c) THEN 0 ELSE c[i + 1]
  /\ Range(c) = {p \in DOMAIN E : pages[p].leaf}

\* What find may return is in one of them.
Holds(c) == \A k \in Keys : found[k] # NoRid => \E i \in DOMAIN c : k \in Range(pages[c[i]].keys)

\* A leaf that is split is followed by the half that moved, and that by what the
\* leaf was followed by; each of its keys is in one of the two.
Cut ==
  pc = "left" /\ left.leaf =>
    /\ left.next = right /\ pages[right].next = pages[page].next
    /\ Range(pages[page].keys) \subseteq Range(left.keys) \cup Range(pages[right].keys)

\* The inductive invariant of the chain, for heights H, keys K and E, and leaves c.
Chained(H, K, E, c) ==
  /\ Shape(H, K) /\ Extended(E, H, K)
  /\ Covered(E) /\ Linked(E, c) /\ Ordered(E, c) /\ Holds(c) /\ Cut

\* While no write has failed, the leaves are chained in the order of their keys.
\* ChainOK alone is not inductive: a key goes to the leaf of the chain in which it
\* is in order only because the pages on the way there are for all the keys.
ChainInv == BTreeInv /\ (faults = 0 => \E H, K, E, c : Chained(H, K, E, c))
-----------------------------------------------------------------------------
\* The shape of what the chain is about.
LEMMA ChainParts ==
  ASSUME BTreeInv, NEW H, NEW K, NEW E, NEW c, Chained(H, K, E, c)
  PROVE  /\ Shape(H, K) /\ Extended(E, H, K)
         /\ Covered(E) /\ Linked(E, c) /\ Ordered(E, c) /\ Holds(c) /\ Cut
         /\ H \in [DOMAIN H -> Nat] /\ K \in [DOMAIN H -> SUBSET Keys] /\ root \in DOMAIN H
         /\ DOMAIN H \subseteq DOMAIN pages /\ DOMAIN E \subseteq DOMAIN pages
         /\ \A p \in DOMAIN E : E[p] \subseteq Keys
         /\ \A p \in DOMAIN H : p \in DOMAIN E /\ E[p] = K[p] /\ Fits(pages[p], K[p], H[p], H, K)
         /\ Len(c) \in Nat \ {0} /\ DOMAIN c = 1..Len(c)
         /\ \A i \in DOMAIN c : c[i] \in DOMAIN pages /\ c[i] \in DOMAIN E /\ pages[c[i]].leaf
<1>1. /\ Shape(H, K) /\ Extended(E, H, K)
      /\ Covered(E) /\ Linked(E, c) /\ Ordered(E, c) /\ Holds(c) /\ Cut
  BY DEF Chained
<1>2. /\ H \in [DOMAIN H -> Nat] /\ K \in [DOMAIN H -> SUBSET Keys] /\ root \in DOMAIN H
      /\ DOMAIN H \subseteq DOMAIN pages
      /\ \A p \in DOMAIN H : Fits(pages[p], K[p], H[p], H, K)
  BY <1>1 DEF Shape, Tree, Forest
<1>3. \A p \in DOMAIN H : p \in DOMAIN E /\ E[p] = K[p]
  BY <1>1 DEF Extended
<1>4. Waits \subseteq DOMAIN pages
  <2>1. CASE pc \in {"absorb", "root"}
    BY <1>1, <2>1 DEF Waits, Shape, Absorbing, Rooting, Spare
  <2>2. CASE pc = "set"
    <3>1. PICK r \in DOMAIN pages : pages[right] = Internal(<<sep>>, <<root, r>>)
      BY <1>1, <2>2 DEF Shape, Rooting
    <3>2. pages[right].vals[2] = r
      BY <3>1 DEF Internal
    <3> QED
      BY <2>2, <3>2 DEF Waits
  <2> QED
    BY <2>1, <2>2 DEF Waits
<1>5. DOMAIN E \subseteq DOMAIN pages
  BY <1>1, <1>2, <1>4 DEF Extended
<1>6. ASSUME NEW p \in DOMAIN E PROVE E[p] \subseteq Keys
  <2>1. CASE p \in DOMAIN H
    BY <1>2, <1>3, <2>1
  <2>2. CASE p \notin DOMAIN H
    <3>1. p \in Waits /\ E[p] = WaitKeys(K)
      BY <1>1, <2>2 DEF Extended
    <3>2. CASE pc = "absorb"
      <4>1. K[page] \subseteq Keys
        BY <1>1, <3>2, InHand
      <4> QED
        BY <3>1, <3>2, <4>1 DEF WaitKeys, Taken
    <3>3. CASE pc # "absorb"
      BY <3>1, <3>3 DEF WaitKeys, AtLeast
    <3> QED
      BY <3>2, <3>3
  <2> QED
    BY <2>1, <2>2
<1>7. /\ Len(c) \in Nat \ {0} /\ DOMAIN c = 1..Len(c)
      /\ \A i \in DOMAIN c : c[i] \in DOMAIN pages /\ c[i] \in Range(c)
  <2> DEFINE D == DOMAIN pages
  <2>1. c \in Seq(D) /\ c # <<>>
    BY <1>1 DEF Linked
  <2> HIDE DEF D
  <2>2. Len(c) \in Nat \ {0} /\ DOMAIN c = 1..Len(c) /\ \A i \in DOMAIN c : c[i] \in D
    BY <2>1
  <2> QED
    BY <2>2 DEF D, Range
<1>8. \A i \in DOMAIN c : c[i] \in DOMAIN E /\ pages[c[i]].leaf
  BY <1>1, <1>7 DEF Linked
<1> QED
  BY <1>1, <1>2, <1>3, <1>5, <1>6, <1>7, <1>8

\* Where no page waits and none is split, only what is in memory changes.
LEMMA ChainRests ==
  ASSUME NEW H, NEW K, NEW E, NEW c, Chained(H, K, E, c), Shape(H, K)',
         {pc, pc'} \subseteq {"idle", "leaf", "meta", "done"}, UNCHANGED <<pages, root>>, Holds(c)'
  PROVE  Chained(H, K, E, c)'
<1>1. Extended(E, H, K)'
  BY DEF Chained, Extended, Waits
<1>2. Covered(E)'
  BY DEF Chained, Covered, Covers
<1>3. Linked(E, c)' /\ Ordered(E, c)' /\ Cut'
  BY DEF Chained, Linked, Ordered, Cut
<1> QED
  BY <1>1, <1>2, <1>3 DEF Chained

\* A search for k goes through pages that are for k.
LEMMA Routed ==
  ASSUME BTreeInv, NEW H, NEW K, NEW E, NEW c, Chained(H, K, E, c),
         pc \in {"idle", "leaf", "meta", "done"}, NEW k \in Keys,
         NEW w, Down(w, pages, root, k, H)
  PROVE  \A j \in 1..Len(w) : w[j] \in DOMAIN H /\ k \in K[w[j]]
<1>1. /\ Shape(H, K) /\ Extended(E, H, K) /\ Covered(E)
      /\ K \in [DOMAIN H -> SUBSET Keys] /\ root \in DOMAIN H /\ DOMAIN H \subseteq DOMAIN pages
      /\ \A p \in DOMAIN H : p \in DOMAIN E /\ E[p] = K[p] /\ Fits(pages[p], K[p], H[p], H, K)
  BY ChainParts
<1>2. /\ w \in Seq(DOMAIN H) /\ w # <<>> /\ w[1] = root /\ Len(w) \in Nat
      /\ \A j \in 1..(Len(w) - 1) : ~pages[w[j]].leaf /\ w[j + 1] = Child(pages[w[j]], k)
      /\ \A j \in 1..Len(w) : w[j] \in DOMAIN H
  BY LastOfPath, ElementOfSeq DEF Down, Descent
<1>3. k \in K[root]
  BY <1>1 DEF Covered
<1>4. DOMAIN E = DOMAIN H
  BY <1>1 DEF Extended, Waits
<1>5. ASSUME NEW p \in DOMAIN H, ~pages[p].leaf, k \in K[p]
      PROVE  k \in K[Child(pages[p], k)]
  <2>1. Covers(pages[p], E[p], E)
    BY <1>1, <1>4 DEF Covered
  <2>2. PICK i \in DOMAIN pages[p].vals : k \in E[pages[p].vals[i]]
    BY <1>1, <1>5, <2>1 DEF Covers
  <2>3. pages[p].vals[i] \in DOMAIN H /\ \A x \in K[pages[p].vals[i]] : ChildIndex(pages[p].keys, x) = i
    BY <1>1, <1>5 DEF Fits
  <2>4. k \in K[pages[p].vals[i]] /\ ChildIndex(pages[p].keys, k) = i
    BY <1>1, <2>2, <2>3
  <2> QED
    BY <2>4 DEF Child
<1> DEFINE S == {n \in Nat : n + 1 <= Len(w) => k \in K[w[n + 1]]}
<1>6. 0 \in S
  BY <1>2, <1>3
<1>7. ASSUME NEW n \in Nat, n \in S PROVE n + 1 \in S
  <2> SUFFICES ASSUME n + 1 + 1 <= Len(w) PROVE k \in K[w[n + 1 + 1]]
    OBVIOUS
  <2>1. n + 1 \in 1..(Len(w) - 1) /\ n + 1 \in 1..Len(w) /\ n + 1 <= Len(w)
    BY <1>2
  <2>2. k \in K[w[n + 1]]
    BY <1>7, <2>1
  <2> QED
    BY <1>2, <1>5, <2>1, <2>2
<1>8. Nat \subseteq S
  <2> HIDE DEF S
  <2> QED
    BY <1>6, <1>7, Induct
<1>9. ASSUME NEW j \in 1..Len(w) PROVE k \in K[w[j]]
  <2>1. j - 1 \in Nat /\ j - 1 + 1 = j /\ j <= Len(w)
    BY <1>2
  <2>2. j - 1 \in S
    BY <1>8, <2>1
  <2> QED
    BY <2>1, <2>2
<1> QED
  BY <1>2, <1>9

\* insert starts: the pages on its way are for its key already.
LEMMA InsertChained ==
  ASSUME BTreeInv, NEW k \in Keys, Insert(k), NEW H, NEW K, NEW E, NEW c, Chained(H, K, E, c)
  PROVE  Chained(H, K, E, c)'
<1>1. UNCHANGED <<pages, root, found>> /\ pc = "idle" /\ pc' = "leaf" /\ path' = PathIn(pages, root, k)
  BY DEF Insert, file
<1>2. Shape(H, K) /\ K \in [DOMAIN H -> SUBSET Keys] /\ root \in DOMAIN H
  BY ChainParts
<1>3. Down(path', pages, root, k, H)
  BY <1>1, <1>2, InvIsShape, PathDown DEF Shape
<1>4. \A j \in 1..Len(path') : path'[j] \in DOMAIN H /\ k \in K[path'[j]]
  BY <1>1, <1>3, Routed
<1>5. \A q \in Range(path') : k \in K[q]
  <2>1. DOMAIN path' = 1..Len(path')
    BY <1>3 DEF Down
  <2> QED
    BY <1>4, <2>1 DEF Range
<1>6. PICK K2 : K2 = [q \in DOMAIN H |-> IF q \in Range(path') THEN K[q] \cup {k} ELSE K[q]]
  OBVIOUS
<1>7. K2 = K
  BY <1>2, <1>5, <1>6
<1>8. Shape(H, K)'
  BY <1>2, <1>6, <1>7, InsertStep
<1>9. Holds(c)'
  BY <1>1 DEF Chained, Holds
<1> QED
  BY <1>1, <1>8, <1>9, ChainRests

\* write_meta has no part in it.
LEMMA WriteMetaChained ==
  ASSUME BTreeInv, WriteMeta, NEW H, NEW K, NEW E, NEW c, Chained(H, K, E, c)
  PROVE  Chained(H, K, E, c)'
<1>1. UNCHANGED <<pages, root, found>> /\ pc = "meta" /\ pc' = "done"
  BY DEF WriteMeta
<1>2. Shape(H, K)'
  BY WriteMetaStep DEF Chained
<1>3. Holds(c)'
  BY <1>1 DEF Chained, Holds
<1> QED
  BY <1>1, <1>2, <1>3, ChainRests

\* insert returns: what find answers from then on is in a leaf of the tree.
LEMMA ReturnChained ==
  ASSUME BTreeInv, Return, NEW H, NEW K, NEW E, NEW c, Chained(H, K, E, c)
  PROVE  Chained(H, K, E, c)'
<1>1. UNCHANGED <<pages, root>> /\ pc = "done" /\ pc' = "idle" /\ found' = FindAll(pages, root)
  BY DEF Return, Over, file
<1>2. Shape(H, K)'
  BY ReturnStep DEF Chained
<1>3. /\ Shape(H, K) /\ Linked(E, c) /\ root \in DOMAIN H
      /\ \A p \in DOMAIN H : p \in DOMAIN E
  BY ChainParts
<1>4. ASSUME NEW k \in Keys, found'[k] # NoRid
      PROVE  \E i \in DOMAIN c : k \in Range(pages[c[i]].keys)
  <2>1. PICK w : w = PathIn(pages, root, k)
    OBVIOUS
  <2>2. Down(w, pages, root, k, H) /\ pages[Last(w)].leaf
    BY <1>3, <2>1, InvIsShape, PathDown DEF Shape
  <2>3. Last(w) \in DOMAIN H
    BY <2>2, LastOfPath DEF Down, Descent
  <2>4. {i \in DOMAIN pages[Last(w)].keys : pages[Last(w)].keys[i] = k} # {}
    BY <1>1, <1>4, <2>1 DEF FindAll, Find
  <2>5. k \in Range(pages[Last(w)].keys)
    BY <2>4 DEF Range
  <2>6. Last(w) \in Range(c)
    BY <1>3, <2>2, <2>3 DEF Linked
  <2> QED
    BY <2>5, <2>6 DEF Range
<1>5. Holds(c)'
  BY <1>1, <1>4 DEF Holds
<1> QED
  BY <1>1, <1>2, <1>5, ChainRests

\* A leaf is written over with one that is linked as it was and has its keys too.
LEMMA LeafChained ==
  ASSUME BTreeInv, pc = "leaf", Finish, NEW n, WriteBack(n), n.leaf = TRUE,
         n.next = pages[page].next, Range(pages[page].keys) \subseteq Range(n.keys),
         NEW H, NEW K, NEW E, NEW c, Chained(H, K, E, c), Shape(H, K)'
  PROVE  Chained(H, K, E, c)'
<1>1. pc' = "done" /\ UNCHANGED <<root, found>> /\ pages' = [pages EXCEPT ![page] = n]
  BY DEF Finish, WriteBack
<1>2. /\ Shape(H, K) /\ Extended(E, H, K) /\ Covered(E) /\ Linked(E, c) /\ Ordered(E, c) /\ Holds(c)
      /\ DOMAIN E \subseteq DOMAIN pages
      /\ \A i \in DOMAIN c : c[i] \in DOMAIN pages
  BY ChainParts
<1>3. page \in DOMAIN pages /\ pages[page].leaf = TRUE
  BY <1>2, InHand, LeafInHand
<1>4. pages \in Seq(Nodes) /\ DOMAIN pages = 1..Len(pages)
  BY InvIsShape DEF FileOK
<1>5. /\ DOMAIN pages' = DOMAIN pages /\ pages'[page] = n
      /\ \A p \in DOMAIN pages \ {page} : pages'[p] = pages[p]
  BY <1>1, <1>3, <1>4
<1>6. \A p \in DOMAIN pages : /\ pages'[p].leaf = pages[p].leaf /\ pages'[p].next = pages[p].next
                              /\ Range(pages[p].keys) \subseteq Range(pages'[p].keys)
                              /\ ~pages[p].leaf => pages'[p] = pages[p]
  BY <1>3, <1>5
<1>7. Extended(E, H, K)'
  BY <1>1, <1>2 DEF Extended, Waits
<1>8. Covered(E)'
  <2>1. \A p \in DOMAIN E : Covers(pages[p], E[p], E)
    BY <1>2 DEF Covered
  <2>2. \A p \in DOMAIN E : Covers(pages'[p], E[p], E)
    BY <1>2, <1>6, <2>1 DEF Covers
  <2> QED
    BY <1>1, <1>2, <2>2 DEF Covered
<1>9. Linked(E, c)'
  BY <1>2, <1>5, <1>6 DEF Linked
<1>10. Holds(c)'
  BY <1>1, <1>2, <1>6 DEF Holds
<1>11. Ordered(E, c)' /\ Cut'
  BY <1>1, <1>2 DEF Ordered, Cut
<1> QED
  BY <1>7, <1>8, <1>9, <1>10, <1>11 DEF Chained

\* A key's entry is replaced.
LEMMA LeafReplaceChained ==
  ASSUME BTreeInv, LeafReplace, NEW H, NEW K, NEW E, NEW c, Chained(H, K, E, c)
  PROVE  Chained(H, K, E, c)'
<1>1. Shape(H, K)'
  BY LeafReplaceStep DEF Chained
<1>2. PICK n : n = [pages[page] EXCEPT !.vals[At] = rid]
  OBVIOUS
<1>3. pc = "leaf" /\ Finish /\ WriteBack(n)
  BY <1>2 DEF LeafReplace
<1>4. pages[page] \in Nodes /\ pages[page].leaf = TRUE
  BY <1>3, InHand, LeafInHand DEF Chained
<1>5. n.leaf = TRUE /\ n.next = pages[page].next /\ n.keys = pages[page].keys
  BY <1>2, <1>4 DEF Nodes
<1> QED
  BY <1>1, <1>3, <1>5, LeafChained

\* The leaf's keys are among those with the new one.
LEMMA EntryAdded ==
  ASSUME BTreeInv, pc = "leaf", NEW H, NEW K, Shape(H, K), key \notin Range(pages[page].keys)
  PROVE  Range(pages[page].keys) \subseteq Range(LeafKeys)
<1> DEFINE ks == pages[page].keys
           C == Keys
           at == At
<1>1. /\ ks \in Seq(C) /\ ks \in Seq(Int) /\ Sorted(ks) /\ Len(ks) \in Nat
      /\ key \in C /\ key \in Int /\ key \notin Range(ks) /\ DOMAIN ks = 1..Len(ks)
  BY KeysAssumption, LeafInHand, InHand, NodeType
<1>2. /\ LeafKeys = InsertAt(ks, at, key)
      /\ at = 1 + Cardinality({i \in DOMAIN ks : ks[i] < key})
  BY DEF LeafKeys, At
<1> HIDE DEF ks, C, at
<1>3. at \in 1..(Len(ks) + 1)
  BY <1>1, <1>2, AtSplits
<1>4. HasInsert(LeafKeys, C, ks, at, key)
  <2>1. HasInsert(InsertAt(ks, at, key), C, ks, at, key)
    BY <1>1, <1>3, InsertHas
  <2> QED
    BY <1>2, <2>1
<1>5. /\ DOMAIN LeafKeys = 1..(Len(ks) + 1)
      /\ \A j \in 1..(Len(ks) + 1) :
           LeafKeys[j] = IF j < at THEN ks[j] ELSE IF j = at THEN key ELSE ks[j - 1]
  BY <1>4 DEF HasInsert
<1>6. ASSUME NEW j \in 1..Len(ks) PROVE ks[j] \in Range(LeafKeys)
  <2>1. CASE j < at
    <3>1. j \in 1..(Len(ks) + 1) /\ LeafKeys[j] = ks[j]
      BY <1>1, <1>5, <2>1
    <3> QED
      BY <1>5, <3>1 DEF Range
  <2>2. CASE ~(j < at)
    <3> DEFINE i == j + 1
    <3>1. i \in 1..(Len(ks) + 1) /\ ~(i < at) /\ i # at /\ i - 1 = j
      BY <1>1, <1>3, <2>2
    <3> HIDE DEF i
    <3>2. LeafKeys[i] = ks[j]
      BY <1>5, <3>1
    <3> QED
      BY <1>5, <3>1, <3>2 DEF Range
  <2> QED
    BY <2>1, <2>2
<1> QED
  BY <1>1, <1>6 DEF Range, ks

\* An entry is added.
LEMMA LeafInsertChained ==
  ASSUME BTreeInv, LeafInsert, NEW H, NEW K, NEW E, NEW c, Chained(H, K, E, c)
  PROVE  Chained(H, K, E, c)'
<1>1. Shape(H, K) /\ Shape(H, K)'
  BY LeafInsertStep DEF Chained
<1>2. PICK n : n = Leaf(LeafKeys, LeafRids, pages[page].next)
  OBVIOUS
<1>3. pc = "leaf" /\ key \notin Range(pages[page].keys) /\ Finish /\ WriteBack(n)
  BY <1>2 DEF LeafInsert
<1>4. n.leaf = TRUE /\ n.next = pages[page].next /\ n.keys = LeafKeys
  BY <1>2 DEF Leaf
<1>5. Range(pages[page].keys) \subseteq Range(n.keys)
  BY <1>1, <1>3, <1>4, EntryAdded
<1> QED
  BY <1>1, <1>3, <1>4, <1>5, LeafChained

\* A part of the file is written that nothing points to yet.
LEMMA FileGrows ==
  ASSUME BTreeInv, NEW n, pages' = Append(pages, n)
  PROVE  /\ DOMAIN pages' = DOMAIN pages \cup {Len(pages) + 1} /\ Len(pages) + 1 \notin DOMAIN pages
         /\ pages'[Len(pages) + 1] = n /\ \A p \in DOMAIN pages : pages'[p] = pages[p]
<1> DEFINE S == Nodes \cup {n}
           a == Append(pages, n)
<1>1. Len(pages) \in Nat /\ DOMAIN pages = 1..Len(pages) /\ pages \in Seq(Nodes)
  BY InvIsShape DEF FileOK
<1>2. pages \in Seq(S) /\ n \in S
  BY <1>1, SeqMonotonic
<1> HIDE DEF S
<1>3. /\ a \in Seq(S) /\ Len(a) = Len(pages) + 1 /\ a[Len(pages) + 1] = n
      /\ \A p \in 1..Len(pages) : a[p] = pages[p]
  BY <1>2, AppendProperties
<1> HIDE DEF a
<1>4. DOMAIN a = 1..(Len(pages) + 1)
  BY <1>3, LenProperties
<1>5. 1..(Len(pages) + 1) = 1..Len(pages) \cup {Len(pages) + 1} /\ Len(pages) + 1 \notin 1..Len(pages)
  BY <1>1
<1> QED
  BY <1>1, <1>3, <1>4, <1>5 DEF a

\* The half that moves is written, with no link to it yet.
LEMMA LeafSplitChained ==
  ASSUME BTreeInv, LeafSplit, NEW H, NEW K, NEW E, NEW c, Chained(H, K, E, c)
  PROVE  Chained(H, K, E, c)'
<1>0. PICK ks, vs : ks = LeafKeys /\ vs = LeafRids
  OBVIOUS
<1>1. pc = "leaf" /\ key \notin Range(pages[page].keys)
  BY DEF LeafSplit
<1>2. /\ Shape(H, K) /\ Extended(E, H, K) /\ Covered(E) /\ Linked(E, c) /\ Ordered(E, c) /\ Holds(c)
      /\ DOMAIN E \subseteq DOMAIN pages
      /\ \A i \in DOMAIN c : c[i] \in DOMAIN pages
  BY ChainParts
<1>3. PICK mid \in Nat, n \in Nat :
        /\ n = Len(ks) /\ 0 < mid /\ mid < n /\ mid <= MAX_KEYS /\ n - mid <= MAX_KEYS
        /\ Split(Leaf(SubSeq(ks, 1, mid), SubSeq(vs, 1, mid), NewPage), ks[mid + 1],
                 Leaf(SubSeq(ks, mid + 1, n), SubSeq(vs, mid + 1, n), pages[page].next))
        /\ \A j \in 1..n : IF j <= mid THEN ks[j] < ks[mid + 1] ELSE ks[j] >= ks[mid + 1]
  BY <1>0, <1>2, LeafCut
<1>4. PICK l, r : /\ l = Leaf(SubSeq(ks, 1, mid), SubSeq(vs, 1, mid), NewPage)
                  /\ r = Leaf(SubSeq(ks, mid + 1, n), SubSeq(vs, mid + 1, n), pages[page].next)
  OBVIOUS
<1>5. /\ pages' = Append(pages, r) /\ left' = l /\ right' = Len(pages) + 1 /\ pc' = "left"
      /\ UNCHANGED <<root, path, found>>
  BY <1>3, <1>4 DEF Split, Alloc, NewPage
<1>6. /\ DOMAIN pages' = DOMAIN pages \cup {right'} /\ right' \notin DOMAIN pages
      /\ pages'[right'] = r /\ \A p \in DOMAIN pages : pages'[p] = pages[p]
  BY <1>5, FileGrows
<1>7. /\ l.leaf = TRUE /\ l.keys = SubSeq(ks, 1, mid) /\ l.next = right'
      /\ r.leaf = TRUE /\ r.keys = SubSeq(ks, mid + 1, n) /\ r.next = pages[page].next
  BY <1>4, <1>5 DEF Leaf, NewPage
<1>8. page' = page /\ page \in DOMAIN pages /\ pages[page].leaf = TRUE
  BY <1>1, <1>2, <1>5, InHand, LeafInHand DEF page
<1>9. Range(ks) \subseteq Range(l.keys) \cup Range(r.keys)
  <2>1. ks \in Seq(Keys) /\ DOMAIN ks = 1..n
    BY <1>0, <1>1, <1>2, <1>3, LeafEntry, LenProperties
  <2>2. /\ SubSeq(ks, 0 + 1, mid) \in Seq(Keys) /\ Len(SubSeq(ks, 0 + 1, mid)) = mid - 0
        /\ \A j \in 1..(mid - 0) : SubSeq(ks, 0 + 1, mid)[j] = ks[0 + j]
    <3>1. 0 \in Nat /\ 0 <= mid /\ mid <= Len(ks)
      BY <1>3
    <3> QED
      BY <2>1, <3>1, SubSeqFrom
  <2>3. /\ SubSeq(ks, mid + 1, n) \in Seq(Keys) /\ Len(SubSeq(ks, mid + 1, n)) = n - mid
        /\ \A j \in 1..(n - mid) : SubSeq(ks, mid + 1, n)[j] = ks[mid + j]
    <3>1. mid <= n /\ n <= Len(ks)
      BY <1>3
    <3> QED
      BY <2>1, <3>1, SubSeqFrom
  <2>4. 0 + 1 = 1 /\ mid - 0 = mid
    OBVIOUS
  <2>5. l.keys \in Seq(Keys) /\ Len(l.keys) = mid /\ r.keys \in Seq(Keys) /\ Len(r.keys) = n - mid
    BY <1>7, <2>2, <2>3, <2>4
  <2>6. DOMAIN l.keys = 1..mid /\ DOMAIN r.keys = 1..(n - mid)
    BY <2>5, LenProperties
  <2>7. ASSUME NEW j \in 1..n PROVE ks[j] \in Range(l.keys) \cup Range(r.keys)
    <3>1. CASE j <= mid
      <4>1. j \in 1..mid /\ 0 + j = j
        BY <3>1
      <4>2. l.keys[j] = ks[j]
        BY <1>7, <2>2, <2>4, <4>1
      <4> QED
        BY <2>6, <4>1, <4>2 DEF Range
    <3>2. CASE ~(j <= mid)
      <4> DEFINE i == j - mid
      <4>1. i \in 1..(n - mid) /\ mid + i = j
        BY <3>2
      <4> HIDE DEF i
      <4>2. r.keys[i] = ks[j]
        BY <1>7, <2>3, <4>1
      <4> QED
        BY <2>6, <4>1, <4>2 DEF Range
    <3> QED
      BY <3>1, <3>2
  <2> QED
    BY <2>1, <2>7 DEF Range
<1>10. Shape(H, K)'
  BY <1>2, LeafSplitStep
<1>11. Extended(E, H, K)'
  BY <1>1, <1>2, <1>5 DEF Extended, Waits
<1>12. Covered(E)'
  <2>1. \A p \in DOMAIN E : Covers(pages'[p], E[p], E)
    BY <1>1, <1>2, <1>6 DEF Covered
  <2>2. Covers(left', Below(E[page'], sep'), E) /\ Covers(pages'[right'], AtLeast(E[page'], sep'), E)
    BY <1>5, <1>6, <1>7 DEF Covers
  <2>3. E[root'] = Keys
    BY <1>1, <1>2, <1>5 DEF Covered
  <2> QED
    BY <1>5, <2>1, <2>2, <2>3 DEF Covered
<1>13. Linked(E, c)'
  <2>1. c \in Seq(DOMAIN pages')
    BY <1>2, <1>6, SeqMonotonic DEF Linked
  <2>2. \A i \in DOMAIN c : pages'[c[i]] = pages[c[i]]
    BY <1>2, <1>6
  <2>3. \A p \in DOMAIN E : pages'[p] = pages[p]
    BY <1>2, <1>6
  <2> QED
    BY <1>2, <2>1, <2>2, <2>3 DEF Linked
<1>14. Holds(c)' /\ Ordered(E, c)'
  BY <1>2, <1>5, <1>6 DEF Holds, Ordered
<1>15. Cut'
  <2>1. Range(pages[page].keys) \subseteq Range(ks)
    BY <1>0, <1>1, <1>2, EntryAdded
  <2>2. pages'[page'] = pages[page]
    BY <1>6, <1>8
  <2> QED
    BY <1>5, <1>6, <1>7, <1>9, <2>1, <2>2 DEF Cut
<1> QED
  BY <1>10, <1>11, <1>12, <1>13, <1>14, <1>15 DEF Chained

\* The keys of the page in hand from sep on are handed to right.
Handed(E) == [q \in DOMAIN E \cup {right} |->
               IF q = right THEN AtLeast(E[page], sep)
               ELSE IF q = page THEN Below(E[page], sep) ELSE E[q]]

\* The half that stays is written to page p, and r is the half that moved: what
\* becomes of the pages and of the keys they are for.
Handing(H, K, E, p, r, E2, K2) ==
  /\ pc = "left" /\ UNCHANGED <<root, key, sep, right, found>> /\ path' = Front(path)
  /\ pc' = IF Len(path) = 1 THEN "root" ELSE "absorb"
  /\ p \in DOMAIN H /\ r \in DOMAIN pages \ DOMAIN H /\ DOMAIN E = DOMAIN H
  /\ \A q \in DOMAIN H : E[q] = K[q] /\ H[q] \in Nat
  /\ DOMAIN E2 = DOMAIN H \cup {r} /\ E2[r] = AtLeast(K[p], sep)
  /\ E2[p] = Below(K[p], sep) /\ \A q \in DOMAIN H \ {p} : E2[q] = K[q]
  /\ DOMAIN pages' = DOMAIN pages /\ pages'[p] = left
  /\ \A q \in DOMAIN pages \ {p} : pages'[q] = pages[q]
  /\ K[p] \subseteq Keys /\ K[p] \subseteq Int /\ sep \in Int
  /\ Fits(left, Below(K[p], sep), H[p], H, K)
  /\ Fits(pages[r], AtLeast(K[p], sep), H[p], H, K)
  /\ Shape(H, K2)' /\ K2[p] = Below(K[p], sep) /\ \A q \in DOMAIN H \ {p} : K2[q] = K[q]

\* WriteLeft does that.
LEMMA LeftHanded ==
  ASSUME BTreeInv, WriteLeft, NEW H, NEW K, NEW E, NEW c, Chained(H, K, E, c),
         NEW p, p = page, NEW r, r = right, NEW E2, E2 = Handed(E),
         NEW K2, K2 = Narrowed(K, page, Below(K[page], sep))
  PROVE  Handing(H, K, E, p, r, E2, K2)
<1>1. /\ pc = "left" /\ UNCHANGED <<root, key, sep, right, found>> /\ path' = Front(path)
      /\ pc' = IF Len(path) = 1 THEN "root" ELSE "absorb"
  BY DEF WriteLeft
<1>2. /\ Shape(H, K) /\ Extended(E, H, K) /\ K \in [DOMAIN H -> SUBSET Keys] /\ H \in [DOMAIN H -> Nat]
      /\ \A q \in DOMAIN H : E[q] = K[q]
  BY ChainParts
<1>3. DOMAIN E = DOMAIN H
  BY <1>1, <1>2 DEF Extended, Waits
<1>4. p \in DOMAIN H /\ K[p] \subseteq Keys
  BY <1>1, <1>2, InHand
<1>5. K[p] \subseteq Int /\ sep \in Int
  <2>1. sep \in K[p]
    BY <1>1, <1>2 DEF Shape, Splitting
  <2> QED
    BY <1>4, <2>1, KeysAssumption
<1>6. PICK S : S = Below(K[page], sep) /\ K2 = Narrowed(K, page, S)
  OBVIOUS
<1>7. /\ DOMAIN pages' = DOMAIN pages
      /\ pages'[page] = left /\ \A q \in DOMAIN pages \ {page} : pages'[q] = pages[q]
      /\ K2[page] = S /\ \A q \in DOMAIN H \ {page} : K2[q] = K[q]
      /\ right \in DOMAIN pages \ DOMAIN H
  BY <1>2, <1>6, LeftWritten
<1>8. Shape(H, K2)'
  BY <1>2, <1>6, WriteLeftStep
<1>9. /\ Fits(left, Below(K[p], sep), H[p], H, K)
      /\ Fits(pages[r], AtLeast(K[p], sep), H[p], H, K)
  BY <1>1, <1>2 DEF Shape, Splitting, Spare, Below, AtLeast
<1>10. /\ DOMAIN E2 = DOMAIN H \cup {r} /\ E2[r] = AtLeast(K[p], sep)
       /\ E2[p] = Below(K[p], sep) /\ \A q \in DOMAIN H \ {p} : E2[q] = K[q]
  BY <1>2, <1>3, <1>4, <1>7 DEF Handed
<1> QED
  BY <1>1, <1>2, <1>3, <1>4, <1>5, <1>6, <1>7, <1>8, <1>9, <1>10 DEF Handing

\* What was right of the separator below the page in hand is right's, for the
\* parent to absorb; the pages over the two are no others.
LEMMA LeftCovered ==
  ASSUME BTreeInv, WriteLeft, NEW H, NEW K, NEW E, NEW c, Chained(H, K, E, c),
         NEW E2, E2 = Handed(E), NEW K2, K2 = Narrowed(K, page, Below(K[page], sep))
  PROVE  Covered(E2)' /\ Extended(E2, H, K2)'
<1>1. PICK p, r, n : p = page /\ r = right /\ n = Len(path)
  OBVIOUS
<1>2. /\ pc = "left" /\ UNCHANGED <<root, key, sep, right, found>> /\ path' = Front(path)
      /\ pc' = IF n = 1 THEN "root" ELSE "absorb"
      /\ p \in DOMAIN H /\ r \in DOMAIN pages \ DOMAIN H /\ DOMAIN E = DOMAIN H
      /\ \A q \in DOMAIN H : E[q] = K[q] /\ H[q] \in Nat
      /\ DOMAIN E2 = DOMAIN H \cup {r} /\ E2[r] = AtLeast(K[p], sep)
      /\ E2[p] = Below(K[p], sep) /\ \A q \in DOMAIN H \ {p} : E2[q] = K[q]
      /\ DOMAIN pages' = DOMAIN pages /\ pages'[p] = left
      /\ \A q \in DOMAIN pages \ {p} : pages'[q] = pages[q]
      /\ K[p] \subseteq Keys /\ K[p] \subseteq Int /\ sep \in Int
      /\ Fits(left, Below(K[p], sep), H[p], H, K)
      /\ Fits(pages[r], AtLeast(K[p], sep), H[p], H, K)
      /\ K2[p] = Below(K[p], sep) /\ \A q \in DOMAIN H \ {p} : K2[q] = K[q]
  <2>1. Handing(H, K, E, p, r, E2, K2)
    BY <1>1, LeftHanded
  <2> QED
    BY <1>1, <2>1 DEF Handing
<1>3. /\ Shape(H, K) /\ Covered(E) /\ root \in DOMAIN H /\ DOMAIN H \subseteq DOMAIN pages
      /\ \A q \in DOMAIN H : Fits(pages[q], K[q], H[q], H, K)
      /\ \A q \in DOMAIN H : q = root \/ H[q] < H[root]
      /\ \A q \in DOMAIN H : Apart(pages[q], q, pages, H)
  BY ChainParts DEF Shape, Tree, Forest
<1>4. /\ E[root] = Keys
      /\ \A q \in DOMAIN H \ {p} : Covers(pages[q], E[q], E)
      /\ Covers(left, Below(K[p], sep), E) /\ Covers(pages[r], AtLeast(K[p], sep), E)
  BY <1>1, <1>2, <1>3 DEF Covered
<1>5. n \in Nat \ {0} /\ path[1] = root /\ p = path[n] /\ DOMAIN path = 1..n
      /\ \A j \in DOMAIN path : H[path[j]] = H[root] + 1 - j
  <2>1. n \in Nat \ {0} /\ p = path[n] /\ DOMAIN path = 1..n
    BY <1>1, <1>2, <1>3, InHand
  <2> QED
    BY <1>2, <1>3, <2>1 DEF Shape, Descending, Descent
<1>6. n = 1 <=> p = root
  <2>1. H[p] = H[root] + 1 - n /\ H[root] \in Nat
    BY <1>2, <1>3, <1>5
  <2> QED
    BY <1>5, <2>1
<1>7. ASSUME NEW q, NEW S, Fits(q, S, H[p], H, K), Covers(q, S, E)
      PROVE  Covers(q, S, E2)
  <2>1. ASSUME ~q.leaf, NEW k \in S PROVE \E i \in DOMAIN q.vals : k \in E2[q.vals[i]]
    <3>1. PICK i \in DOMAIN q.vals : k \in E[q.vals[i]]
      BY <1>7, <2>1 DEF Covers
    <3>2. q.vals[i] \in DOMAIN H /\ H[q.vals[i]] = H[p] - 1
      BY <1>7, <2>1 DEF Fits
    <3>3. q.vals[i] # p
      BY <1>2, <3>2
    <3> QED
      BY <1>2, <3>1, <3>2, <3>3
  <2> QED
    BY <2>1 DEF Covers
<1>8. Covers(pages'[p], E2[p], E2) /\ Covers(pages'[r], E2[r], E2)
  BY <1>2, <1>4, <1>7
<1>9. ASSUME NEW q \in DOMAIN H, q # p, ~pages[q].leaf,
             \A i \in DOMAIN pages[q].vals : pages[q].vals[i] # p
      PROVE  Covers(pages'[q], E2[q], E2)
  <2>1. pages'[q] = pages[q] /\ E2[q] = E[q]
    BY <1>2, <1>3, <1>9
  <2>2. ASSUME NEW k \in E[q] PROVE \E i \in DOMAIN pages[q].vals : k \in E2[pages[q].vals[i]]
    <3>1. PICK i \in DOMAIN pages[q].vals : k \in E[pages[q].vals[i]]
      BY <1>4, <1>9 DEF Covers
    <3>2. pages[q].vals[i] \in DOMAIN H
      BY <1>3, <1>9 DEF Fits
    <3> QED
      BY <1>2, <1>9, <3>1, <3>2
  <2> QED
    BY <2>1, <2>2 DEF Covers
<1>10. ASSUME NEW q \in DOMAIN H, q # p, pages[q].leaf
       PROVE  Covers(pages'[q], E2[q], E2)
  BY <1>2, <1>3, <1>10 DEF Covers
<1>11. CASE n = 1
  <2>1. pc' = "root" /\ p = root
    BY <1>2, <1>6, <1>11
  <2>2. Extended(E2, H, K2)'
    <3>1. Waits' = {r}
      BY <1>1, <1>2, <2>1 DEF Waits
    <3>2. WaitKeys(K2)' = AtLeast(Keys, sep)
      BY <1>2, <2>1 DEF WaitKeys
    <3>3. K[p] = Keys
      BY <1>2, <1>4, <2>1
    <3> QED
      BY <1>2, <3>1, <3>2, <3>3 DEF Extended
  <2>3. ASSUME NEW q \in DOMAIN H, q # p, ~pages[q].leaf, NEW i \in DOMAIN pages[q].vals
        PROVE  pages[q].vals[i] # p
    <3>1. pages[q].vals[i] \in DOMAIN H /\ H[pages[q].vals[i]] = H[q] - 1
      BY <1>3, <2>3 DEF Fits
    <3>2. H[q] < H[p] /\ H[q] \in Nat /\ H[p] \in Nat
      BY <1>2, <1>3, <2>1, <2>3
    <3> QED
      BY <3>1, <3>2
  <2>4. \A q \in DOMAIN E2 : Covers(pages'[q], E2[q], E2)
    BY <1>2, <1>8, <1>9, <1>10, <2>3
  <2>5. E2[root'] = Below(Keys, sep')
    BY <1>2, <1>4, <2>1
  <2>6. Covered(E2)'
    BY <1>2, <2>1, <2>4, <2>5 DEF Covered
  <2> QED
    BY <1>1, <2>2, <2>6
<1>12. CASE n # 1
  <2>1. pc' = "absorb" /\ p # root
    BY <1>2, <1>6, <1>12
  <2>2. PICK q, d : q = path[n - 1] /\ d = ChildIndex(pages[q].keys, key)
    OBVIOUS
  <2>3. /\ q \in DOMAIN H /\ q # p
        /\ ~pages[q].leaf /\ p = pages[q].vals[d] /\ page' = q
        /\ \A k \in K[p] : k \in K[q] /\ ChildIndex(pages[q].keys, k) = d
    <3>1. /\ pc = "left" /\ path' = Front(path) /\ Len(path) # 1
          /\ q = path[Len(path) - 1] /\ d = ChildIndex(pages[q].keys, key)
      BY <1>1, <1>2, <1>12, <2>2
    <3>2. /\ q \in DOMAIN H /\ q # page
          /\ ~pages[q].leaf /\ page = pages[q].vals[d] /\ page' = q
          /\ \A k \in K[page] : k \in K[q] /\ ChildIndex(pages[q].keys, k) = d
      BY <1>3, <3>1, Parent
    <3> QED
      BY <1>1, <3>2
  <2>4. pages'[q] = pages[q] /\ K2[q] = K[q] /\ E2[q] = K[q] /\ E[q] = K[q] /\ Slot' = d
    BY <1>2, <1>3, <2>2, <2>3 DEF Slot
  <2>5. ASSUME NEW k \in K[q]
        PROVE  \E i \in DOMAIN pages[q].vals :
                 /\ k \in K[pages[q].vals[i]] /\ pages[q].vals[i] \in DOMAIN H
                 /\ ChildIndex(pages[q].keys, k) = i
    <3>1. PICK i \in DOMAIN pages[q].vals : k \in E[pages[q].vals[i]]
      BY <1>4, <2>3, <2>4, <2>5 DEF Covers
    <3>2. /\ pages[q].vals[i] \in DOMAIN H
          /\ \A x \in K[pages[q].vals[i]] : ChildIndex(pages[q].keys, x) = i
      BY <1>3, <2>3 DEF Fits
    <3> QED
      BY <1>2, <3>1, <3>2
  <2>6. Taken(pages', q, d, sep, K2) = AtLeast(K[p], sep)
    <3>1. Taken(pages', q, d, sep, K2) = {k \in K[q] : ChildIndex(pages[q].keys, k) = d /\ k >= sep}
      BY <2>4 DEF Taken
    <3>2. \A k \in K[q] : ChildIndex(pages[q].keys, k) = d => k \in K[p]
      BY <2>3, <2>5
    <3> QED
      BY <2>3, <3>1, <3>2 DEF AtLeast
  <2>7. Extended(E2, H, K2)'
    <3>1. Waits' = {r}
      BY <1>1, <1>2, <2>1 DEF Waits
    <3>2. WaitKeys(K2)' = AtLeast(K[p], sep)
      BY <1>2, <2>1, <2>3, <2>4, <2>6 DEF WaitKeys
    <3> QED
      BY <1>2, <3>1, <3>2 DEF Extended
  <2>8. ASSUME NEW m \in DOMAIN H, m # p, m # q, ~pages[m].leaf, NEW i \in DOMAIN pages[m].vals
        PROVE  pages[m].vals[i] # p
    <3>1. d \in DOMAIN pages[q].vals
      <4>1. key \in K[p]
        BY <1>1, <1>2, <1>3, InHand
      <4> QED
        BY <2>3, <2>5, <4>1
    <3>2. pages[m].vals[i] # pages[q].vals[d]
      BY <1>3, <2>3, <2>8, <3>1 DEF Apart
    <3> QED
      BY <2>3, <3>2
  <2>9. \A m \in DOMAIN E2 : m = q \/ Covers(pages'[m], E2[m], E2)
    BY <1>2, <1>8, <1>9, <1>10, <2>8
  <2>10. Covers(pages'[q], E2[q] \ E2[r], E2)
    <3>1. ASSUME NEW k \in E2[q] \ E2[r] PROVE \E i \in DOMAIN pages[q].vals : k \in E2[pages[q].vals[i]]
      <4>1. PICK i \in DOMAIN pages[q].vals :
              k \in K[pages[q].vals[i]] /\ pages[q].vals[i] \in DOMAIN H
        BY <2>4, <2>5, <3>1
      <4>2. CASE pages[q].vals[i] = p
        <5>1. k \in K[p] /\ k \in Int /\ ~(k >= sep)
          BY <1>2, <3>1, <4>1, <4>2 DEF AtLeast
        <5>2. k \in E2[p]
          BY <1>2, <5>1 DEF Below
        <5> QED
          BY <4>2, <5>2
      <4>3. CASE pages[q].vals[i] # p
        BY <1>2, <4>1, <4>3
      <4> QED
        BY <4>2, <4>3
    <3> QED
      BY <2>4, <3>1 DEF Covers
  <2>11. E2[root'] = Keys
    BY <1>2, <1>3, <1>4, <2>1
  <2>12. Covered(E2)'
    BY <1>1, <1>2, <2>1, <2>3, <2>9, <2>10, <2>11 DEF Covered
  <2> QED
    BY <1>1, <2>7, <2>12
<1> QED
  BY <1>11, <1>12

\* A leaf is followed by the half that moved from here on, with the keys of both
\* in order.
LEMMA WriteLeftChained ==
  ASSUME BTreeInv, WriteLeft, NEW H, NEW K, NEW E, NEW c, Chained(H, K, E, c)
  PROVE  \E K2, E2, t : Chained(H, K2, E2, t)'
<1>1. PICK p, r, E2, K2 : /\ p = page /\ r = right /\ E2 = Handed(E)
                          /\ K2 = Narrowed(K, page, Below(K[page], sep))
  OBVIOUS
<1>2. /\ pc = "left" /\ UNCHANGED <<root, key, sep, right, found>> /\ pc' # "left"
      /\ p \in DOMAIN H /\ r \in DOMAIN pages \ DOMAIN H /\ DOMAIN E = DOMAIN H
      /\ \A q \in DOMAIN H : E[q] = K[q]
      /\ DOMAIN E2 = DOMAIN H \cup {r} /\ E2[r] = AtLeast(K[p], sep)
      /\ E2[p] = Below(K[p], sep) /\ \A q \in DOMAIN H \ {p} : E2[q] = K[q]
      /\ DOMAIN pages' = DOMAIN pages /\ pages'[p] = left
      /\ \A q \in DOMAIN pages \ {p} : pages'[q] = pages[q]
      /\ sep \in Int
      /\ Fits(left, Below(K[p], sep), H[p], H, K)
      /\ Fits(pages[r], AtLeast(K[p], sep), H[p], H, K)
      /\ Shape(H, K2)'
  <2>1. Handing(H, K, E, p, r, E2, K2)
    BY <1>1, LeftHanded
  <2> QED
    BY <1>1, <2>1 DEF Handing
<1>3. Covered(E2)' /\ Extended(E2, H, K2)' /\ Cut'
  <2>1. Covered(E2)' /\ Extended(E2, H, K2)'
    BY <1>1, LeftCovered
  <2> QED
    BY <1>2, <2>1 DEF Cut
<1>4. /\ Linked(E, c) /\ Ordered(E, c) /\ Holds(c) /\ Cut
      /\ DOMAIN H \subseteq DOMAIN pages
      /\ \A q \in DOMAIN H : E[q] \subseteq Keys /\ Fits(pages[q], K[q], H[q], H, K)
      /\ \A i \in DOMAIN c : c[i] \in DOMAIN pages /\ c[i] \in DOMAIN E /\ pages[c[i]].leaf
  <2>1. /\ Linked(E, c) /\ Ordered(E, c) /\ Holds(c) /\ Cut
        /\ DOMAIN H \subseteq DOMAIN pages
        /\ \A q \in DOMAIN E : E[q] \subseteq Keys
        /\ \A q \in DOMAIN H : q \in DOMAIN E /\ Fits(pages[q], K[q], H[q], H, K)
        /\ \A i \in DOMAIN c : c[i] \in DOMAIN pages /\ c[i] \in DOMAIN E /\ pages[c[i]].leaf
    BY ChainParts
  <2> QED
    BY <2>1
<1>5. (left.leaf <=> pages[p].leaf) /\ (pages[r].leaf <=> pages[p].leaf)
  BY <1>2, <1>4 DEF Fits
<1>6. CASE ~pages[p].leaf
  <2>1. \A i \in DOMAIN c : c[i] # p /\ pages'[c[i]] = pages[c[i]] /\ E2[c[i]] = E[c[i]]
    BY <1>2, <1>4, <1>6
  <2>2. Linked(E2, c)'
    <3>1. {q \in DOMAIN E2 : pages'[q].leaf} = {q \in DOMAIN E : pages[q].leaf}
      BY <1>2, <1>4, <1>5, <1>6
    <3> QED
      BY <1>2, <1>4, <2>1, <3>1 DEF Linked
  <2>3. Ordered(E2, c)' /\ Holds(c)'
    BY <1>2, <1>4, <2>1 DEF Ordered, Holds
  <2>4. Chained(H, K2, E2, c)'
    BY <1>2, <1>3, <2>2, <2>3 DEF Chained
  <2> QED
    BY <2>4
<1>7. CASE pages[p].leaf
  <2>1. /\ left.next = r /\ pages[r].next = pages[p].next
        /\ Range(pages[p].keys) \subseteq Range(left.keys) \cup Range(pages[r].keys)
    BY <1>1, <1>2, <1>4, <1>5, <1>7 DEF Cut
  <2>2. PICK m \in DOMAIN c : c[m] = p
    <3>1. p \in Range(c)
      BY <1>2, <1>4, <1>7 DEF Linked
    <3> QED
      BY <3>1 DEF Range
  <2>3. PICK t : t = Spliced(c, m, r)
    OBVIOUS
  <2>4. /\ c \in Seq(DOMAIN pages) /\ m \in 1..Len(c) /\ r \in DOMAIN pages /\ r \notin Range(c)
        /\ \A i, j \in DOMAIN c : c[i] = c[j] => i = j
        /\ Range(c) = {q \in DOMAIN E : pages[q].leaf} /\ c[1] = 1 /\ 1 \in 1..Len(c) /\ 1 <= m
    <3>1. c \in Seq(DOMAIN pages) /\ c # <<>> /\ DOMAIN c = 1..Len(c) /\ Len(c) \in Nat
      BY <1>4 DEF Linked
    <3>2. 1 \in 1..Len(c) /\ m \in 1..Len(c) /\ 1 <= m
      BY <3>1, <2>2
    <3> QED
      BY <1>2, <1>4, <3>1, <3>2 DEF Linked
  <2>5. /\ t \in Seq(DOMAIN pages) /\ Len(t) = Len(c) + 1 /\ DOMAIN t = 1..(Len(c) + 1) /\ Len(c) \in Nat
        /\ \A j \in 1..(Len(c) + 1) :
             t[j] = IF j <= m THEN c[j] ELSE IF j = m + 1 THEN r ELSE c[j - 1]
        /\ Range(t) = Range(c) \cup {r}
    <3> DEFINE D == DOMAIN pages
    <3>1. c \in Seq(D) /\ m \in 1..Len(c) /\ r \in D
      BY <2>4
    <3> HIDE DEF D
    <3>2. HasSplice(t, D, c, m, r)
      BY <2>3, <3>1, SpliceElements
    <3> QED
      BY <3>2 DEF HasSplice, D
  <2>6. \A i \in DOMAIN c : i # m => c[i] # p /\ pages'[c[i]] = pages[c[i]] /\ E2[c[i]] = E[c[i]]
    BY <1>2, <1>4, <2>2, <2>4
  <2>7. pages'[r] = pages[r] /\ r # p
    BY <1>2
  <2>8. PICK next, next2 : /\ next = [q \in DOMAIN pages |-> pages[q].next]
                           /\ next2 = [q \in DOMAIN pages |-> pages'[q].next]
    OBVIOUS
  <2>9. /\ Follows(next, c)
        /\ next2[c[m]] = r /\ next2[r] = next[c[m]]
        /\ \A i \in DOMAIN c : i # m => next2[c[i]] = next[c[i]]
    <3>1. \A i \in DOMAIN c : next[c[i]] = IF i = Len(c) THEN 0 ELSE c[i + 1]
      BY <1>4, <2>8 DEF Linked
    <3>2. next2[c[m]] = r /\ next2[r] = next[c[m]]
      BY <1>2, <1>4, <2>1, <2>2, <2>7, <2>8
    <3>3. \A i \in DOMAIN c : i # m => next2[c[i]] = next[c[i]]
      BY <1>4, <2>6, <2>8
    <3> QED
      BY <3>1, <3>2, <3>3 DEF Follows
  <2>10. Distinct(t) /\ Follows(next2, t)
    <3> DEFINE D == DOMAIN pages
    <3>1. c \in Seq(D) /\ r \in D
      BY <2>4
    <3>2. m \in 1..Len(c) /\ r \notin Range(c) /\ Distinct(c)
      BY <2>4 DEF Distinct
    <3> HIDE DEF D
    <3> QED
      BY <2>3, <2>9, <3>1, <3>2, SpliceLinks
  <2>11. Linked(E2, t)'
    <3>1. t # <<>> /\ t[1] = 1
      <4>1. 1 \in 1..(Len(c) + 1)
        BY <2>5
      <4> QED
        BY <2>4, <2>5, <4>1
    <3>2. \A i \in DOMAIN t : t[i] \in DOMAIN pages
      BY <2>5, ElementOfSeq
    <3>3. \A i \in DOMAIN t : pages'[t[i]].next = IF i = Len(t) THEN 0 ELSE t[i + 1]
      BY <2>8, <2>10, <3>2 DEF Follows
    <3>4. {q \in DOMAIN E2 : pages'[q].leaf} = {q \in DOMAIN E : pages[q].leaf} \cup {r}
      BY <1>2, <1>4, <1>5, <1>7, <2>7
    <3>5. t \in Seq(DOMAIN pages')
      BY <1>2, <2>5
    <3> QED
      BY <2>4, <2>5, <2>10, <3>1, <3>3, <3>4, <3>5 DEF Linked, Distinct
  <2>12. Ordered(E2, t)
    <3>1. /\ c \in Seq(DOMAIN pages) /\ m \in 1..Len(c) /\ r \in DOMAIN pages
          /\ Ordered(E, c) /\ sep \in Int
      BY <1>2, <1>4, <2>4
    <3>2. \A i \in DOMAIN c : E[c[i]] \subseteq Int
      BY <1>2, <1>4, KeysAssumption
    <3>3. E2[c[m]] = Below(E[c[m]], sep) /\ E2[r] = AtLeast(E[c[m]], sep)
      BY <1>2, <2>2
    <3>4. \A i \in DOMAIN c : i # m => E2[c[i]] = E[c[i]]
      BY <2>6
    <3>5. PICK x : x = sep
      OBVIOUS
    <3>6. x \in Int /\ E2[c[m]] = Below(E[c[m]], x) /\ E2[r] = AtLeast(E[c[m]], x)
      BY <3>1, <3>3, <3>5
    <3> QED
      BY <2>3, <3>1, <3>2, <3>4, <3>6, SpliceOrder
  <2>13. Holds(t)'
    <3>1. ASSUME NEW k \in Keys, found[k] # NoRid
          PROVE  \E j \in DOMAIN t : k \in Range(pages'[t[j]].keys)
      <4>1. PICK i \in DOMAIN c : k \in Range(pages[c[i]].keys)
        BY <1>4, <3>1 DEF Holds
      <4>2. \E q \in Range(c) \cup {r} : k \in Range(pages'[q].keys)
        <5>1. c[i] \in Range(c) /\ p \in Range(c)
          BY <2>2 DEF Range
        <5>2. CASE i = m
          BY <1>2, <2>1, <2>2, <2>7, <4>1, <5>1, <5>2
        <5>3. CASE i # m
          BY <2>6, <4>1, <5>1, <5>3
        <5> QED
          BY <5>2, <5>3
      <4>3. PICK q \in Range(t) : k \in Range(pages'[q].keys)
        BY <2>5, <4>2
      <4> QED
        BY <4>3 DEF Range
    <3> QED
      BY <1>2, <3>1 DEF Holds
  <2>14. Ordered(E2, t)'
    BY <2>12 DEF Ordered
  <2>15. Chained(H, K2, E2, t)'
    BY <1>2, <1>3, <2>11, <2>13, <2>14 DEF Chained
  <2> QED
    BY <2>15
<1> QED
  BY <1>6, <1>7

\* With the separator absorbed, a page is for the keys it was for, and so is the
\* half that moved.
Absorbed(H, E, H2, K2, w) ==
  /\ pc = "absorb" /\ ~pages[page].leaf /\ ~w.leaf
  /\ page \in DOMAIN H /\ DOMAIN H2 = DOMAIN H \cup {right} /\ DOMAIN E = DOMAIN H2
  /\ \A p \in DOMAIN E : E[p] = K2[p]
  /\ E[root] = Keys /\ DOMAIN E \subseteq DOMAIN pages
  /\ \A p \in DOMAIN E \ {page} : Covers(pages[p], E[p], E)
  /\ Covers(w, E[page], E)

\* The parent with the separator and the new page in it is so.
LEMMA AbsorbCovers ==
  ASSUME BTreeInv, pc = "absorb", NEW H, NEW K, NEW E, NEW c, Chained(H, K, E, c),
         NEW H2, H2 = Plus(H, right, H[page] - 1),
         NEW K2, K2 = Plus(K, right, Taken(pages, page, Slot, sep, K)),
         NEW w, w = Internal(NodeKeys, NodeChildren)
  PROVE  Absorbed(H, E, H2, K2, w)
<1>1. /\ Shape(H, K) /\ Extended(E, H, K) /\ Covered(E) /\ K \in [DOMAIN H -> SUBSET Keys]
      /\ root \in DOMAIN H /\ DOMAIN E \subseteq DOMAIN pages
  BY ChainParts
<1>2. /\ page \in DOMAIN H /\ H[page] \in Nat /\ K[page] \subseteq Keys /\ key \in K[page]
      /\ Fits(pages[page], K[page], H[page], H, K)
      /\ pages[page] \in Nodes /\ NodeOK(pages[page], Len(pages)) /\ Sorted(pages[page].keys)
  BY <1>1, InHand
<1>3. sep \in K[page] /\ H[page] > 0 /\ right \in DOMAIN pages \ DOMAIN H
  BY <1>1 DEF Shape, Absorbing, Spare
<1>4. ~pages[page].leaf
  BY <1>2, <1>3 DEF Fits
<1>5. DOMAIN H2 = DOMAIN H \cup {right}
  BY DEF Plus
<1>6. /\ DOMAIN E = DOMAIN H \cup {right} /\ E[right] = Taken(pages, page, Slot, sep, K)
      /\ \A p \in DOMAIN H : E[p] = K[p]
  BY <1>1 DEF Extended, Waits, WaitKeys
<1>7. \A p \in DOMAIN E : E[p] = K2[p]
  BY <1>1, <1>3, <1>6 DEF Plus
<1>8. /\ E[root] = Keys /\ Covers(pages[page], E[page] \ E[right], E)
      /\ \A p \in DOMAIN E \ {page} : Covers(pages[p], E[p], E)
  BY <1>1 DEF Covered
<1>9. PICK n, i, x, r : n = pages[page] /\ i = Slot /\ x = sep /\ r = right
  OBVIOUS
<1>10. /\ n \in Nodes /\ ~n.leaf /\ Len(n.vals) = Len(n.keys) + 1 /\ Len(n.keys) \in Nat
       /\ DOMAIN n.vals = 1..(Len(n.keys) + 1) /\ i \in 1..(Len(n.keys) + 1)
       /\ x \in Keys /\ r \in Nat
  <2>1. n.keys \in Seq(Int) /\ Len(n.keys) \in Nat /\ Len(n.vals) = Len(n.keys) + 1 /\ n.vals \in Seq(Nat)
    BY <1>2, <1>4, <1>9, NodeType DEF NodeOK
  <2>2. DOMAIN n.vals = 1..(Len(n.keys) + 1)
    BY <2>1, LenProperties
  <2>3. i \in 1..(Len(n.keys) + 1)
    <3>1. key \in Int
      BY <1>2, KeysAssumption
    <3> QED
      BY <1>2, <1>9, <2>1, <3>1, ChildIndexSplits DEF Slot
  <2>4. r \in Nat
    BY <1>3, <1>9, InvIsShape
  <2> QED
    BY <1>2, <1>3, <1>4, <1>9, <2>1, <2>2, <2>3, <2>4
<1>11. w = Wider(n, i, x, r)
  BY <1>9 DEF Wider, NodeKeys, NodeChildren
<1>12. /\ ~w.leaf /\ DOMAIN w.vals = 1..(Len(n.keys) + 2)
       /\ \A j \in 1..(Len(n.keys) + 2) :
            w.vals[j] = IF j <= i THEN n.vals[j] ELSE IF j = i + 1 THEN r ELSE n.vals[j - 1]
  <2>1. i \in 1..Len(n.vals)
    BY <1>10
  <2>2. HasWider(Wider(n, i, x, r), n, i, x, r)
    BY <1>10, <2>1, WiderElements
  <2> QED
    BY <1>11, <2>2 DEF HasWider
<1>13. ASSUME NEW k \in E[page] PROVE \E j \in DOMAIN w.vals : k \in E[w.vals[j]]
  <2>1. CASE k \in E[right]
    <3> DEFINE j == i + 1
    <3>1. j \in 1..(Len(n.keys) + 2) /\ ~(j <= i)
      BY <1>10
    <3>2. w.vals[j] = r
      BY <1>12, <3>1
    <3> QED
      BY <1>9, <1>12, <2>1, <3>1, <3>2
  <2>2. CASE k \notin E[right]
    <3>1. PICK a \in DOMAIN n.vals : k \in E[n.vals[a]]
      BY <1>4, <1>8, <1>9, <1>13, <2>2 DEF Covers
    <3>2. a \in 1..(Len(n.keys) + 1)
      BY <1>10
    <3>3. CASE a <= i
      <4>1. a \in 1..(Len(n.keys) + 2)
        BY <1>10, <3>2
      <4>2. w.vals[a] = n.vals[a]
        BY <1>12, <3>3, <4>1
      <4> QED
        BY <1>12, <3>1, <4>1, <4>2
    <3>4. CASE ~(a <= i)
      <4> DEFINE j == a + 1
      <4>1. j \in 1..(Len(n.keys) + 2) /\ ~(j <= i) /\ j # i + 1 /\ j - 1 = a
        BY <1>10, <3>2, <3>4
      <4> HIDE DEF j
      <4>2. w.vals[j] = n.vals[a]
        BY <1>12, <4>1
      <4> QED
        BY <1>12, <3>1, <4>1, <4>2
    <3> QED
      BY <3>3, <3>4
  <2> QED
    BY <2>1, <2>2
<1>14. Covers(w, E[page], E)
  BY <1>13 DEF Covers
<1> QED
  BY <1>2, <1>1, <1>4, <1>5, <1>6, <1>7, <1>8, <1>12, <1>14 DEF Absorbed

\* The parent has room: the half that moved is in the tree, where it waited to be.
LEMMA AbsorbChained ==
  ASSUME BTreeInv, Absorb, NEW H, NEW K, NEW E, NEW c, Chained(H, K, E, c)
  PROVE  \E H2, K2 : Chained(H2, K2, E, c)'
<1>1. PICK H2, K2, w : /\ H2 = Plus(H, right, H[page] - 1)
                       /\ K2 = Plus(K, right, Taken(pages, page, Slot, sep, K))
                       /\ w = Internal(NodeKeys, NodeChildren)
  OBVIOUS
<1>2. /\ pc = "absorb" /\ pc' = "done" /\ pages' = [pages EXCEPT ![page] = w]
      /\ UNCHANGED <<root, found>>
  BY <1>1 DEF Absorb, WriteBack, Finish
<1>3. /\ Shape(H, K) /\ Linked(E, c) /\ Ordered(E, c) /\ Holds(c)
      /\ DOMAIN H \subseteq DOMAIN pages
      /\ \A i \in DOMAIN c : c[i] \in DOMAIN pages /\ c[i] \in DOMAIN E /\ pages[c[i]].leaf
  BY ChainParts
<1>4. Absorbed(H, E, H2, K2, w)
  BY <1>1, <1>2, AbsorbCovers
<1>5. Shape(H2, K2)'
  BY <1>1, <1>3, AbsorbStep
<1>6. /\ DOMAIN pages' = DOMAIN pages /\ pages'[page] = w
      /\ \A p \in DOMAIN pages \ {page} : pages'[p] = pages[p]
  <2>1. page \in DOMAIN pages
    BY <1>3, <1>4 DEF Absorbed
  <2>2. pages \in Seq(Nodes) /\ DOMAIN pages = 1..Len(pages)
    BY InvIsShape DEF FileOK
  <2> QED
    BY <1>2, <2>1, <2>2
<1>7. Extended(E, H2, K2)'
  BY <1>2, <1>4 DEF Absorbed, Extended, Waits
<1>8. Covered(E)'
  <2>1. \A p \in DOMAIN E : Covers(pages'[p], E[p], E)
    BY <1>4, <1>6 DEF Absorbed
  <2> QED
    BY <1>2, <1>4, <2>1 DEF Covered, Absorbed
<1>9. \A i \in DOMAIN c : pages'[c[i]] = pages[c[i]]
  BY <1>3, <1>4, <1>6 DEF Absorbed
<1>10. Linked(E, c)'
  <2>1. {p \in DOMAIN E : pages'[p].leaf} = {p \in DOMAIN E : pages[p].leaf}
    BY <1>4, <1>6 DEF Absorbed
  <2> QED
    BY <1>3, <1>6, <1>9, <2>1 DEF Linked
<1>11. Holds(c)' /\ Ordered(E, c)' /\ Cut'
  BY <1>2, <1>3, <1>9 DEF Holds, Ordered, Cut
<1>12. Chained(H2, K2, E, c)'
  BY <1>5, <1>7, <1>8, <1>10, <1>11 DEF Chained
<1> QED
  BY <1>12

\* Cut at key m, a page that is for S leaves two that are.
LEMMA HalvesCover ==
  ASSUME NEW w \in Nodes, ~w.leaf, Sorted(w.keys), Len(w.vals) = Len(w.keys) + 1,
         NEW n \in Nat, n = Len(w.keys), NEW m \in 1..n,
         NEW S \in SUBSET Keys, NEW h, NEW H, NEW K, Fits(w, S, h, H, K),
         NEW E, \A p \in DOMAIN H : E[p] = K[p], Covers(w, S, E),
         NEW l, l = Part(w, 0, m - 1), NEW r, r = Part(w, m, n)
  PROVE  Covers(l, Below(S, w.keys[m]), E) /\ Covers(r, AtLeast(S, w.keys[m]), E)
<1>1. w.keys \in Seq(Int) /\ DOMAIN w.keys = 1..n /\ DOMAIN w.vals = 1..(n + 1)
  BY NodeType
<1>2. HasPart(r, w, m, n)
  <2>1. m \in Nat /\ n \in Nat /\ m <= n /\ n <= Len(w.keys)
    OBVIOUS
  <2> QED
    BY <2>1, PartElements
<1>3. HasPart(l, w, 0, m - 1)
  <2> DEFINE b == m - 1
  <2>1. 0 \in Nat /\ b \in Nat /\ 0 <= b /\ b <= Len(w.keys)
    OBVIOUS
  <2> HIDE DEF b
  <2>2. HasPart(Part(w, 0, b), w, 0, b)
    BY <2>1, PartElements
  <2> QED
    BY <2>2 DEF b
<1>4. /\ DOMAIN l.vals = 1..m /\ \A j \in 1..m : l.vals[j] = w.vals[j]
  <2>1. m - 1 - 0 + 1 = m /\ \A j \in 1..m : 0 + j = j
    OBVIOUS
  <2> QED
    BY <1>3, <2>1 DEF HasPart
<1>5. DOMAIN r.vals = 1..(n - m + 1) /\ \A j \in 1..(n - m + 1) : r.vals[j] = w.vals[m + j]
  BY <1>2 DEF HasPart
<1>6. ASSUME NEW k \in S
      PROVE  \E i \in 1..(n + 1) : k \in E[w.vals[i]] /\ (m < i <=> w.keys[m] <= k)
  <2>1. PICK i \in DOMAIN w.vals : k \in E[w.vals[i]]
    BY <1>6 DEF Covers
  <2>2. ChildIndex(w.keys, k) = i
    BY <2>1 DEF Fits
  <2>3. k \in Int
    BY KeysAssumption
  <2>4. \A j \in 1..Len(w.keys) : j < ChildIndex(w.keys, k) <=> w.keys[j] <= k
    BY <1>1, <2>3, ChildIndexSplits
  <2> QED
    BY <1>1, <2>1, <2>2, <2>4
<1>7. w.keys[m] \in Int /\ \A k \in S : k \in Int
  BY <1>1, KeysAssumption
<1>8. ASSUME NEW k \in Below(S, w.keys[m]) PROVE \E i \in DOMAIN l.vals : k \in E[l.vals[i]]
  <2>1. k \in S /\ ~(w.keys[m] <= k)
    BY <1>7 DEF Below
  <2>2. PICK i \in 1..(n + 1) : k \in E[w.vals[i]] /\ ~(m < i)
    BY <1>6, <2>1
  <2>3. i \in 1..m
    BY <2>2
  <2> QED
    BY <1>4, <2>2, <2>3
<1>9. ASSUME NEW k \in AtLeast(S, w.keys[m]) PROVE \E i \in DOMAIN r.vals : k \in E[r.vals[i]]
  <2>1. k \in S /\ w.keys[m] <= k
    BY <1>7 DEF AtLeast
  <2>2. PICK i \in 1..(n + 1) : k \in E[w.vals[i]] /\ m < i
    BY <1>6, <2>1
  <2> DEFINE j == i - m
  <2>3. j \in 1..(n - m + 1) /\ m + j = i
    BY <2>2
  <2> HIDE DEF j
  <2>4. r.vals[j] = w.vals[i]
    BY <1>5, <2>3
  <2> QED
    BY <1>5, <2>2, <2>3, <2>4
<1> QED
  BY <1>8, <1>9 DEF Covers

\* The parent has none and is split in turn, over the half that moved.
LEMMA AbsorbSplitChained ==
  ASSUME BTreeInv, AbsorbSplit, NEW H, NEW K, NEW E, NEW c, Chained(H, K, E, c)
  PROVE  \E H2, K2 : Chained(H2, K2, E, c)'
<1>1. PICK H2, K2, w : /\ H2 = Plus(H, right, H[page] - 1)
                       /\ K2 = Plus(K, right, Taken(pages, page, Slot, sep, K))
                       /\ w = Internal(NodeKeys, NodeChildren)
  OBVIOUS
<1>2. pc = "absorb"
  BY DEF AbsorbSplit
<1>3. /\ Shape(H, K) /\ Linked(E, c) /\ Ordered(E, c) /\ Holds(c)
      /\ DOMAIN H \subseteq DOMAIN pages /\ \A p \in DOMAIN E : E[p] \subseteq Keys
      /\ \A i \in DOMAIN c : c[i] \in DOMAIN pages /\ c[i] \in DOMAIN E /\ pages[c[i]].leaf
  BY ChainParts
<1>4. Absorbed(H, E, H2, K2, w)
  BY <1>1, <1>2, AbsorbCovers
<1>5. Shape(H2, K2)'
  BY <1>1, <1>3, AbsorbSplitStep
<1>6. PICK n \in Nat, m \in Nat :
        /\ n = Len(w.keys) /\ m \in 2..n /\ m - 1 <= MAX_KEYS /\ n - m <= MAX_KEYS
        /\ Split(Part(w, 0, m - 1), w.keys[m], Part(w, m, n))
  BY <1>1, <1>3, AbsorbCut
<1>7. PICK l, r : l = Part(w, 0, m - 1) /\ r = Part(w, m, n)
  OBVIOUS
<1>8. /\ pages' = Append(pages, r) /\ left' = l /\ sep' = w.keys[m]
      /\ right' = Len(pages) + 1 /\ pc' = "left" /\ UNCHANGED <<root, path, found>>
  BY <1>6, <1>7 DEF Split, Alloc, NewPage
<1>9. /\ DOMAIN pages' = DOMAIN pages \cup {right'}
      /\ pages'[right'] = r /\ \A p \in DOMAIN pages : pages'[p] = pages[p]
  BY <1>8, FileGrows
<1>10. page' = page /\ l.leaf = FALSE
  BY <1>7, <1>8 DEF page, Part, Internal
<1>11. Covers(l, Below(E[page], w.keys[m]), E) /\ Covers(r, AtLeast(E[page], w.keys[m]), E)
  <2>1. /\ w \in Nodes /\ ~w.leaf /\ Sorted(w.keys) /\ Len(w.vals) = Len(w.keys) + 1
        /\ Fits(w, K2[page], H2[page], H2, K2)
    BY <1>1, <1>2, <1>3, AbsorbWider
  <2>2. m \in 1..n /\ n = Len(w.keys)
    BY <1>6
  <2>3. PICK S, h : S = E[page] /\ h = H2[page]
    OBVIOUS
  <2>4. /\ S \in SUBSET Keys /\ Fits(w, S, h, H2, K2) /\ Covers(w, S, E)
        /\ \A p \in DOMAIN H2 : E[p] = K2[p]
    BY <1>3, <1>4, <2>1, <2>3 DEF Absorbed
  <2>5. Covers(l, Below(S, w.keys[m]), E) /\ Covers(r, AtLeast(S, w.keys[m]), E)
    BY <1>6, <1>7, <2>1, <2>2, <2>4, HalvesCover
  <2> QED
    BY <2>3, <2>5
<1>12. Extended(E, H2, K2)'
  BY <1>4, <1>8 DEF Absorbed, Extended, Waits
<1>13. Covered(E)'
  <2>1. \A p \in DOMAIN E : p = page' \/ Covers(pages'[p], E[p], E)
    BY <1>4, <1>9, <1>10 DEF Absorbed
  <2>2. Covers(left', Below(E[page'], sep'), E) /\ Covers(pages'[right'], AtLeast(E[page'], sep'), E)
    BY <1>8, <1>9, <1>10, <1>11
  <2>3. E[root'] = Keys
    BY <1>4, <1>8 DEF Absorbed
  <2> QED
    BY <1>8, <2>1, <2>2, <2>3 DEF Covered
<1>14. Linked(E, c)'
  <2>1. c \in Seq(DOMAIN pages')
    BY <1>3, <1>9, SeqMonotonic DEF Linked
  <2>2. \A i \in DOMAIN c : pages'[c[i]] = pages[c[i]]
    BY <1>3, <1>9
  <2>3. \A p \in DOMAIN E : pages'[p] = pages[p]
    BY <1>4, <1>9 DEF Absorbed
  <2> QED
    BY <1>3, <2>1, <2>2, <2>3 DEF Linked
<1>15. Holds(c)' /\ Ordered(E, c)'
  BY <1>3, <1>8, <1>9 DEF Holds, Ordered
<1>16. Cut'
  BY <1>8, <1>10 DEF Cut
<1>17. Chained(H2, K2, E, c)'
  BY <1>5, <1>12, <1>13, <1>14, <1>15, <1>16 DEF Chained
<1> QED
  BY <1>17

\* The new root is written: nothing is below it yet.
LEMMA NewRootChained ==
  ASSUME BTreeInv, NewRoot, NEW H, NEW K, NEW E, NEW c, Chained(H, K, E, c)
  PROVE  Chained(H, K, E, c)'
<1>1. PICK n, r : n = Internal(<<sep>>, <<root, right>>) /\ r = right
  OBVIOUS
<1>2. /\ pc = "root" /\ pc' = "set" /\ pages' = Append(pages, n) /\ right' = Len(pages) + 1
      /\ UNCHANGED <<root, sep, found>>
  BY <1>1 DEF NewRoot, Alloc, NewPage
<1>3. /\ Shape(H, K) /\ Extended(E, H, K) /\ Covered(E) /\ Linked(E, c) /\ Ordered(E, c) /\ Holds(c)
      /\ DOMAIN E \subseteq DOMAIN pages
      /\ \A i \in DOMAIN c : c[i] \in DOMAIN pages
  BY ChainParts
<1>4. /\ DOMAIN pages' = DOMAIN pages \cup {right'}
      /\ pages'[right'] = n /\ \A p \in DOMAIN pages : pages'[p] = pages[p]
  BY <1>2, FileGrows
<1>5. Shape(H, K)'
  BY <1>3, NewRootStep
<1>6. Extended(E, H, K)'
  <2>1. Waits = {r} /\ WaitKeys(K) = AtLeast(Keys, sep)
    BY <1>1, <1>2 DEF Waits, WaitKeys
  <2>2. Waits' = {r}
    BY <1>1, <1>2, <1>4 DEF Waits, Internal
  <2>3. WaitKeys(K)' = AtLeast(Keys, sep)
    BY <1>2 DEF WaitKeys
  <2> QED
    BY <1>3, <2>1, <2>2, <2>3 DEF Extended
<1>7. Covered(E)'
  <2>1. \A p \in DOMAIN E : Covers(pages'[p], E[p], E)
    BY <1>2, <1>3, <1>4 DEF Covered
  <2> QED
    BY <1>2, <1>3, <2>1 DEF Covered
<1>8. Linked(E, c)'
  <2>1. c \in Seq(DOMAIN pages')
    BY <1>3, <1>4, SeqMonotonic DEF Linked
  <2>2. \A i \in DOMAIN c : pages'[c[i]] = pages[c[i]]
    BY <1>3, <1>4
  <2>3. \A p \in DOMAIN E : pages'[p] = pages[p]
    BY <1>3, <1>4
  <2> QED
    BY <1>3, <2>1, <2>2, <2>3 DEF Linked
<1>9. Holds(c)' /\ Ordered(E, c)' /\ Cut'
  BY <1>2, <1>3, <1>4 DEF Holds, Ordered, Cut
<1> QED
  BY <1>5, <1>6, <1>7, <1>8, <1>9 DEF Chained

\* The new root is in use, for all keys: those of the old root and of its half.
LEMMA SetRootChained ==
  ASSUME BTreeInv, SetRoot, NEW H, NEW K, NEW E, NEW c, Chained(H, K, E, c)
  PROVE  \E H2, K2, E2 : Chained(H2, K2, E2, c)'
<1>1. pc = "set" /\ pc' = "meta" /\ root' = right /\ UNCHANGED <<pages, found>>
  BY DEF SetRoot, file, call
<1>2. /\ Shape(H, K) /\ Extended(E, H, K) /\ Covered(E) /\ Linked(E, c) /\ Ordered(E, c) /\ Holds(c)
      /\ root \in DOMAIN H /\ DOMAIN H \subseteq DOMAIN pages
      /\ \A i \in DOMAIN c : c[i] \in DOMAIN pages /\ c[i] \in DOMAIN E /\ pages[c[i]].leaf
      /\ \A p \in DOMAIN H : p \in DOMAIN E /\ E[p] = K[p] /\ Fits(pages[p], K[p], H[p], H, K)
  BY ChainParts
<1>3. PICK H2, K2 : Shape(H2, K2)' /\ Crowned(H, K, H2, K2)
  BY <1>2, SetRootStep
<1>4. PICK r \in DOMAIN pages :
        /\ right \in DOMAIN pages \ DOMAIN H /\ right # r
        /\ pages[right] = Internal(<<sep>>, <<root, r>>)
        /\ r \in DOMAIN pages \ DOMAIN H
        /\ Fits(pages[r], {k \in Keys : k >= sep}, H[root], H, K)
  BY <1>1, <1>2 DEF Shape, Rooting, Spare
<1>5. pages[right].leaf = FALSE /\ pages[right].vals = <<root, r>> /\ pages[right].vals[2] = r
  BY <1>4 DEF Internal
<1>6. /\ DOMAIN E = DOMAIN H \cup {r} /\ E[r] = AtLeast(Keys, sep) /\ E[root] = Below(Keys, sep)
      /\ \A p \in DOMAIN E : Covers(pages[p], E[p], E)
  BY <1>1, <1>2, <1>5 DEF Extended, Waits, WaitKeys, Covered
<1>7. PICK E2 : E2 = [p \in DOMAIN H2 |-> K2[p]]
  OBVIOUS
<1>8. /\ DOMAIN E2 = DOMAIN E \cup {right} /\ DOMAIN H2 = DOMAIN E2 /\ right \notin DOMAIN E
      /\ E2[right] = Keys /\ \A p \in DOMAIN E : E2[p] = E[p]
  <2>1. DOMAIN H2 = DOMAIN H \cup {right, r} /\ K2[right] = Keys /\ K2[r] = AtLeast(Keys, sep)
        /\ \A p \in DOMAIN H : K2[p] = K[p]
    BY <1>3, <1>5 DEF Crowned
  <2> QED
    BY <1>2, <1>4, <1>6, <1>7, <2>1
<1>9. Extended(E2, H2, K2)'
  <2>1. Waits' = {}
    BY <1>1 DEF Waits
  <2> QED
    BY <1>7, <1>8, <2>1 DEF Extended
<1>10. ASSUME NEW p \in DOMAIN E PROVE Covers(pages[p], E2[p], E2)
  <2>1. ASSUME ~pages[p].leaf, NEW k \in E[p]
        PROVE  \E i \in DOMAIN pages[p].vals : k \in E2[pages[p].vals[i]]
    <3>1. PICK i \in DOMAIN pages[p].vals : k \in E[pages[p].vals[i]]
      BY <1>6, <2>1 DEF Covers
    <3>2. pages[p].vals[i] \in DOMAIN H
      BY <1>2, <1>4, <1>6, <2>1 DEF Fits
    <3> QED
      BY <1>6, <1>8, <3>1, <3>2
  <2> QED
    BY <1>8, <2>1 DEF Covers
<1>11. Covers(pages[right], E2[right], E2)
  <2>1. ASSUME NEW k \in Keys PROVE \E i \in DOMAIN <<root, r>> : k \in E2[<<root, r>>[i]]
    <3>1. k \in Int /\ sep \in Int
      BY <1>1, <1>2, KeysAssumption DEF Shape, Rooting
    <3>2. k \in E2[root] \/ k \in E2[r]
      BY <1>2, <1>6, <1>8, <3>1 DEF Below, AtLeast
    <3>3. /\ 1 \in DOMAIN <<root, r>> /\ 2 \in DOMAIN <<root, r>>
          /\ <<root, r>>[1] = root /\ <<root, r>>[2] = r
      OBVIOUS
    <3> QED
      BY <3>2, <3>3
  <2> QED
    BY <1>5, <1>8, <2>1 DEF Covers
<1>12. Covered(E2)'
  <2>1. \A p \in DOMAIN E2 : Covers(pages'[p], E2[p], E2)
    BY <1>1, <1>8, <1>10, <1>11
  <2>2. E2[root'] = Keys
    BY <1>1, <1>8
  <2> QED
    BY <1>1, <2>1, <2>2 DEF Covered
<1>13. Linked(E2, c)'
  <2>1. {p \in DOMAIN E2 : pages[p].leaf} = {p \in DOMAIN E : pages[p].leaf}
    BY <1>5, <1>8
  <2> QED
    BY <1>1, <1>2, <2>1 DEF Linked
<1>14. Ordered(E2, c)' /\ Holds(c)' /\ Cut'
  BY <1>1, <1>2, <1>8 DEF Ordered, Holds, Cut
<1>15. Chained(H2, K2, E2, c)'
  BY <1>3, <1>9, <1>12, <1>13, <1>14 DEF Chained
<1> QED
  BY <1>15
-----------------------------------------------------------------------------
\* The file open_or_create makes: one leaf, for all keys.
LEMMA InitChained == Init => \E H, K, E, c : Chained(H, K, E, c)
<1> SUFFICES ASSUME Init PROVE \E H, K, E, c : Chained(H, K, E, c)
  OBVIOUS
<1>1. PICK n : n = Leaf(<<>>, <<>>, 0)
  OBVIOUS
<1>2. /\ pages = <<n>> /\ Len(pages) = 1 /\ DOMAIN pages = {1} /\ pages[1] = n
      /\ root = 1 /\ meta = 1 /\ pc = "idle" /\ found = FindAll(pages, root)
  BY <1>1 DEF Init
<1>3. n.leaf = TRUE /\ n.keys = <<>> /\ n.next = 0
  BY <1>1 DEF Leaf
<1>4. PICK H, K, c : H = [p \in {1} |-> 0] /\ K = [p \in {1} |-> Keys] /\ c = <<1>>
  OBVIOUS
<1>5. Forest(pages, H, K)
  <2>1. Range(n.keys) \subseteq K[1] /\ H[1] = 0
    BY <1>3, <1>4 DEF Range
  <2>2. Fits(n, K[1], H[1], H, K) /\ Apart(n, 1, pages, H)
    BY <1>3, <2>1, LeafFits
  <2> QED
    BY <1>2, <1>4, <2>2 DEF Forest
<1>6. Tree(pages, root, meta, H, K)
  BY <1>2, <1>4, <1>5 DEF Tree
<1>7. Shape(H, K)
  BY <1>2, <1>6 DEF Shape, Descending, Splitting, Absorbing, Rooting
<1>8. Extended(K, H, K)
  BY <1>2, <1>4 DEF Extended, Waits
<1>9. Covered(K)
  BY <1>2, <1>3, <1>4 DEF Covered, Covers
<1>10. Len(c) = 1 /\ DOMAIN c = {1} /\ c[1] = 1 /\ c # <<>> /\ Range(c) = {1}
  <2>1. Len(c) = 1 /\ c[1] = 1 /\ c # <<>> /\ DOMAIN c = {1}
    BY <1>4
  <2> QED
    BY <2>1 DEF Range
<1>11. Linked(K, c)
  <2>1. c \in Seq(DOMAIN pages)
    BY <1>2, <1>4
  <2>2. Range(c) = {p \in DOMAIN K : pages[p].leaf}
    BY <1>2, <1>3, <1>4, <1>10
  <2> QED
    BY <1>2, <1>3, <1>10, <2>1, <2>2 DEF Linked
<1>12. Ordered(K, c) /\ Cut
  BY <1>2, <1>10 DEF Ordered, Cut
<1>13. ASSUME NEW k \in Keys PROVE found[k] = NoRid
  <2>1. PICK w : w = PathIn(pages, 1, k)
    OBVIOUS
  <2>2. FileOK(pages)
    BY InitInv, InvIsShape
  <2>3. Down(w, pages, 1, k, H)
    BY <1>2, <1>4, <1>6, <2>1, <2>2, PathDown
  <2>4. Last(w) = 1
    BY <1>4, <2>3, LastOfPath DEF Down, Descent
  <2>5. {i \in DOMAIN pages[Last(w)].keys : pages[Last(w)].keys[i] = k} = {}
    BY <1>2, <1>3, <2>4
  <2> QED
    BY <1>2, <2>1, <2>5 DEF FindAll, Find
<1>14. Holds(c)
  BY <1>13 DEF Holds
<1> QED
  BY <1>7, <1>8, <1>9, <1>11, <1>12, <1>14 DEF Chained

\* A step of another part of the program.
LEMMA StutterChained ==
  ASSUME BTreeInv, UNCHANGED vars, NEW H, NEW K, NEW E, NEW c, Chained(H, K, E, c)
  PROVE  Chained(H, K, E, c)'
<1>1. UNCHANGED <<pages, meta, root, pc, key, rid, path, left, sep, right, inserts, faults, found>>
  BY DEF vars, call
<1>2. Shape(H, K)'
  <2>1. Tree(pages', root', meta', H, K) /\ Descending(H, K)' /\ Rooting(H, K)'
    BY <1>1 DEF Chained, Shape, Descending, Rooting, Spare, page
  <2>2. Splitting(H, K)' /\ Absorbing(H, K)'
    BY <1>1 DEF Chained, Shape, Splitting, Absorbing, Spare, page, Slot
  <2> QED
    BY <2>1, <2>2 DEF Shape
<1>3. Waits' = Waits /\ WaitKeys(K)' = WaitKeys(K) /\ page' = page
  BY <1>1 DEF Waits, WaitKeys, Taken, Slot, page
<1>4. Extended(E, H, K)'
  BY <1>3 DEF Chained, Extended
<1>5. Covered(E)'
  BY <1>1, <1>3 DEF Chained, Covered
<1>6. Linked(E, c)' /\ Ordered(E, c)' /\ Holds(c)' /\ Cut'
  BY <1>1, <1>3 DEF Chained, Linked, Ordered, Holds, Cut
<1> QED
  BY <1>2, <1>4, <1>5, <1>6 DEF Chained

\* Every step in which no write fails and no process dies keeps the leaves chained.
LEMMA StepChained ==
  ASSUME BTreeInv, [Next]_vars, UNCHANGED faults, NEW H, NEW K, NEW E, NEW c, Chained(H, K, E, c)
  PROVE  \E H2, K2, E2, c2 : Chained(H2, K2, E2, c2)'
<1>1. ASSUME NEW k \in Keys, Insert(k) PROVE \E H2, K2, E2, c2 : Chained(H2, K2, E2, c2)'
  <2>1. Chained(H, K, E, c)'
    BY <1>1, InsertChained
  <2> QED
    BY <2>1
<1>2. CASE LeafReplace
  <2>1. Chained(H, K, E, c)'
    BY <1>2, LeafReplaceChained
  <2> QED
    BY <2>1
<1>3. CASE LeafInsert
  <2>1. Chained(H, K, E, c)'
    BY <1>3, LeafInsertChained
  <2> QED
    BY <2>1
<1>4. CASE LeafSplit
  <2>1. Chained(H, K, E, c)'
    BY <1>4, LeafSplitChained
  <2> QED
    BY <2>1
<1>5. CASE WriteLeft
  <2>1. \E K2, E2, t : Chained(H, K2, E2, t)'
    BY <1>5, WriteLeftChained
  <2> QED
    BY <2>1
<1>6. CASE Absorb
  <2>1. \E H2, K2 : Chained(H2, K2, E, c)'
    BY <1>6, AbsorbChained
  <2> QED
    BY <2>1
<1>7. CASE AbsorbSplit
  <2>1. \E H2, K2 : Chained(H2, K2, E, c)'
    BY <1>7, AbsorbSplitChained
  <2> QED
    BY <2>1
<1>8. CASE NewRoot
  <2>1. Chained(H, K, E, c)'
    BY <1>8, NewRootChained
  <2> QED
    BY <2>1
<1>9. CASE SetRoot
  <2>1. \E H2, K2, E2 : Chained(H2, K2, E2, c)'
    BY <1>9, SetRootChained
  <2> QED
    BY <2>1
<1>10. CASE WriteMeta
  <2>1. Chained(H, K, E, c)'
    BY <1>10, WriteMetaChained
  <2> QED
    BY <2>1
<1>11. CASE Return
  <2>1. Chained(H, K, E, c)'
    BY <1>11, ReturnChained
  <2> QED
    BY <2>1
<1>12. CASE Fail \/ Crash
  <2>1. faults \in Nat
    BY BoundsAssumption DEF BTreeInv, TypeOK
  <2>2. faults' = faults + 1
    BY <1>12 DEF Fail, Crash
  <2> QED
    BY <2>1, <2>2
<1>13. CASE UNCHANGED vars
  <2>1. Chained(H, K, E, c)'
    BY <1>13, StutterChained
  <2> QED
    BY <2>1
<1> QED
  BY <1>1, <1>2, <1>3, <1>4, <1>5, <1>6, <1>7, <1>8, <1>9, <1>10, <1>11, <1>12, <1>13
     DEF Next

\* Every step keeps them so, as long as none has failed: a failure is not forgotten.
LEMMA NextChained == ChainInv /\ [Next]_vars => ChainInv'
<1> SUFFICES ASSUME ChainInv, [Next]_vars PROVE ChainInv'
  OBVIOUS
<1>1. BTreeInv /\ BTreeInv'
  BY NextInv DEF ChainInv
<1>2. ASSUME faults' = 0 PROVE \E H, K, E, c : Chained(H, K, E, c)'
  <2>1. faults = 0 /\ UNCHANGED faults
    <3>1. faults \in Nat
      BY <1>1, BoundsAssumption DEF BTreeInv, TypeOK
    <3>2. faults' = faults \/ faults' = faults + 1
      BY DEF Next, Insert, LeafReplace, LeafInsert, LeafSplit, Split, WriteLeft, Absorb, AbsorbSplit,
             NewRoot, SetRoot, WriteMeta, Return, Fail, Crash, Finish, vars
    <3> QED
      BY <1>2, <3>1, <3>2
  <2>2. PICK H, K, E, c : Chained(H, K, E, c)
    BY <2>1 DEF ChainInv
  <2> QED
    BY <1>1, <2>1, <2>2, StepChained
<1> QED
  BY <1>1, <1>2 DEF ChainInv

\* The leaves stay chained.
LEMMA ChainInvariance == Spec => []ChainInv
<1>1. Init => ChainInv
  BY InitInv, InitChained DEF ChainInv
<1> QED
  BY <1>1, NextChained, PTL DEF Spec
-----------------------------------------------------------------------------
\* The walk along the leaves w, one leaf further.
Onward(w) == IF pages[Last(w)].next = 0 THEN w ELSE Append(w, pages[Last(w)].next)

\* Chain is the last of a row of walks, each a step from the one before.
LEMMA ChainWalk ==
  ASSUME Len(pages) \in Nat \ {0}
  PROVE  \E f : /\ DOMAIN f = 1..Len(pages) /\ f[1] = <<1>>
                /\ \A n \in 2..Len(pages) : f[n] = Onward(f[n - 1])
                /\ Chain = f[Len(pages)]
<1> DEFINE G(f, n) == IF n = 1 THEN <<1>> ELSE Onward(f[n - 1])
           F(f, n) == f = [m \in 1..n |-> G(f, m)]
           D == {n \in Nat : \E f : F(f, n)}
           walk == CHOOSE f : F(f, Len(pages))
<1>1. 0 \in D
  <2>1. F([m \in 1..0 |-> <<>>], 0)
    OBVIOUS
  <2> QED
    BY <2>1
<1>2. ASSUME NEW n \in Nat, n \in D PROVE n + 1 \in D
  <2>1. PICK f : F(f, n)
    BY <1>2
  <2> DEFINE g == [m \in 1..(n + 1) |-> G(f, m)]
  <2>2. \A m \in 1..n : g[m] = f[m]
    <3> HIDE DEF G
    <3> QED
      BY <2>1
  <2>3. \A m \in 1..(n + 1) : G(f, m) = G(g, m)
    <3>1. \A m \in 2..(n + 1) : m - 1 \in 1..n
      OBVIOUS
    <3>2. \A m \in 2..(n + 1) : g[m - 1] = f[m - 1]
      <4> HIDE DEF g
      <4> QED
        BY <2>2, <3>1
    <3> HIDE DEF g
    <3> QED
      BY <3>2
  <2> HIDE DEF G
  <2>4. F(g, n + 1)
    BY <2>3
  <2> HIDE DEF g
  <2>5. \E h : F(h, n + 1)
    BY <2>4
  <2> HIDE DEF F
  <2> QED
    BY <2>5
<1>3. F(walk, Len(pages))
  <2>1. Len(pages) \in D
    <3> HIDE DEF D
    <3> QED
      BY <1>1, <1>2, Induct
  <2> HIDE DEF F
  <2> QED
    BY <2>1
<1>4. Chain = walk[Len(pages)]
  BY Zenon DEF Chain, Onward
<1> HIDE DEF walk
<1>5. DOMAIN walk = 1..Len(pages) /\ \A n \in 1..Len(pages) : walk[n] = G(walk, n)
  <2> HIDE DEF G
  <2> QED
    BY <1>3
<1>6. walk[1] = <<1>> /\ \A n \in 2..Len(pages) : walk[n] = Onward(walk[n - 1])
  <2>1. 1 \in 1..Len(pages) /\ \A n \in 2..Len(pages) : n \in 1..Len(pages) /\ n # 1
    OBVIOUS
  <2> QED
    BY Zenon, <1>5, <2>1
<1> QED
  BY <1>4, <1>5, <1>6

\* Walk w is at the n-th leaf of c, or at the last if c has no n.
Reaches(w, D, c, n) ==
  /\ w \in Seq(D) /\ Len(w) = IF n <= Len(c) THEN n ELSE Len(c)
  /\ \A j \in 1..Len(w) : w[j] = c[j]

\* One leaf further it is at the next.
LEMMA OnwardReaches ==
  ASSUME NEW D, D \subseteq Nat \ {0}, NEW c \in Seq(D), c # <<>>,
         \A i \in DOMAIN c : pages[c[i]].next = IF i = Len(c) THEN 0 ELSE c[i + 1],
         NEW n \in Nat \ {0}, NEW w, Reaches(w, D, c, n)
  PROVE  Reaches(Onward(w), D, c, n + 1)
<1> DEFINE L == Len(c)
           l == Len(w)
<1>1. L \in Nat \ {0} /\ DOMAIN c = 1..L /\ \A i \in 1..L : c[i] \in D
  BY EmptySeq
<1>2. w \in Seq(D) /\ l \in Nat /\ l = (IF n <= L THEN n ELSE L) /\ \A j \in 1..l : w[j] = c[j]
  BY DEF Reaches
<1> HIDE DEF L
<1>3. l \in 1..L /\ l \in 1..l /\ w # <<>>
  BY <1>1, <1>2
<1> HIDE DEF l
<1>4. Last(w) = c[l]
  BY <1>2, <1>3, LastOfPath DEF l
<1>5. pages[Last(w)].next = IF l = L THEN 0 ELSE c[l + 1]
  BY <1>1, <1>3, <1>4 DEF L
<1>6. CASE l = L
  <2>1. Onward(w) = w
    BY <1>5, <1>6 DEF Onward
  <2>2. l = IF n + 1 <= L THEN n + 1 ELSE L
    BY <1>1, <1>2, <1>6
  <2> QED
    BY <1>2, <2>1, <2>2 DEF Reaches, L, l
<1>7. CASE l # L
  <2>1. l + 1 \in 1..L /\ l = n /\ n + 1 <= L
    BY <1>1, <1>2, <1>3, <1>7
  <2>2. PICK x : x = c[l + 1]
    OBVIOUS
  <2>3. x \in D /\ x # 0
    BY <1>1, <2>1, <2>2
  <2>4. Onward(w) = Append(w, x)
    BY <1>5, <1>7, <2>2, <2>3 DEF Onward
  <2>5. /\ Append(w, x) \in Seq(D) /\ Len(Append(w, x)) = l + 1
        /\ \A j \in 1..l : Append(w, x)[j] = w[j]
        /\ Append(w, x)[l + 1] = x
    BY <1>2, <2>3, AppendProperties DEF l
  <2>6. ASSUME NEW j \in 1..(l + 1) PROVE Append(w, x)[j] = c[j]
    <3>1. CASE j = l + 1
      BY <2>2, <2>5, <3>1
    <3>2. CASE j # l + 1
      <4>1. j \in 1..l
        BY <1>2, <3>2
      <4> QED
        BY <1>2, <2>5, <4>1
    <3> QED
      BY <3>1, <3>2
  <2>7. l + 1 = IF n + 1 <= L THEN n + 1 ELSE L
    BY <2>1
  <2> QED
    BY <2>4, <2>5, <2>6, <2>7 DEF Reaches, L
<1> QED
  BY <1>6, <1>7

\* The chain of leaves is the leaves of the tree: the file has pages enough for
\* the walk to come to the end.
LEMMA ChainIsLinked ==
  ASSUME BTreeInv, NEW H, NEW K, NEW E, NEW c, Chained(H, K, E, c)
  PROVE  Chain = c
<1> DEFINE D == DOMAIN pages
           N == Len(pages)
           L == Len(c)
<1>1. D = 1..N /\ N \in Nat
  BY InvIsShape
<1>2. /\ c \in Seq(D) /\ c # <<>> /\ c[1] = 1 /\ L \in Nat \ {0} /\ DOMAIN c = 1..L
      /\ \A i, j \in DOMAIN c : c[i] = c[j] => i = j
      /\ \A i \in DOMAIN c : pages[c[i]].next = IF i = L THEN 0 ELSE c[i + 1]
      /\ \A i \in DOMAIN c : c[i] \in D
  BY ChainParts DEF Linked
<1>3. N \in Nat \ {0} /\ D \subseteq Nat \ {0}
  <2>1. c[1] \in D
    BY <1>2
  <2> HIDE DEF D, L, N
  <2> QED
    BY <1>1, <2>1
<1>4. L <= N
  <2> HIDE DEF D, L, N
  <2>1. c \in Injection(1..L, 1..N)
    <3>1. c \in [1..L -> 1..N]
      BY <1>1, <1>2
    <3> QED
      BY <1>2, <3>1 DEF Injection, IsInjective
  <2>2. IsFiniteSet(1..N) /\ Cardinality(1..N) = N /\ Cardinality(1..L) = L
    BY <1>2, <1>3, FS_Interval
  <2>3. Cardinality(1..L) <= Cardinality(1..N)
    BY <2>1, <2>2, FS_Injection
  <2> QED
    BY <2>2, <2>3
<1>5. PICK f : /\ DOMAIN f = 1..N /\ f[1] = <<1>>
               /\ \A n \in 2..N : f[n] = Onward(f[n - 1])
               /\ Chain = f[N]
  BY <1>3, ChainWalk
<1> HIDE DEF D
<1>6. Reaches(f[1], D, c, 1)
  <2>1. 1 \in D /\ <<1>> \in Seq(D) /\ Len(<<1>>) = 1 /\ <<1>>[1] = 1 /\ 1 <= L
    BY <1>2
  <2>2. \A j \in 1..Len(<<1>>) : <<1>>[j] = c[j]
    BY <1>2, <2>1
  <2> QED
    BY <1>5, <2>1, <2>2 DEF Reaches
<1> DEFINE S == {n \in Nat : n + 1 <= N => Reaches(f[n + 1], D, c, n + 1)}
<1>7. 0 \in S
  BY <1>6
<1>8. ASSUME NEW n \in Nat, n \in S PROVE n + 1 \in S
  <2> SUFFICES ASSUME n + 1 + 1 <= N PROVE Reaches(f[n + 1 + 1], D, c, n + 1 + 1)
    OBVIOUS
  <2> DEFINE m == n + 1
  <2>1. m \in Nat \ {0} /\ m + 1 \in 2..N /\ m + 1 - 1 = m
    BY <1>1
  <2>2. Reaches(f[m], D, c, m)
    BY <1>1, <1>8
  <2> HIDE DEF m, L, N
  <2>3. Reaches(Onward(f[m]), D, c, m + 1)
    BY <1>2, <1>3, <2>1, <2>2, OnwardReaches DEF L
  <2>4. f[m + 1] = Onward(f[m])
    BY <1>5, <2>1
  <2>5. Reaches(f[m + 1], D, c, m + 1)
    BY <2>3, <2>4
  <2> QED
    BY <2>5 DEF m
<1>9. Nat \subseteq S
  <2> HIDE DEF S
  <2> QED
    BY <1>7, <1>8, Induct
<1>10. Reaches(f[N], D, c, N)
  <2>1. N - 1 \in Nat /\ N - 1 + 1 = N /\ N <= N
    BY <1>3
  <2>2. N - 1 \in S
    BY <1>9, <2>1
  <2> QED
    BY <2>1, <2>2
<1>11. f[N] \in Seq(D) /\ Len(f[N]) = Len(c) /\ \A j \in 1..Len(f[N]) : f[N][j] = c[j]
  BY <1>2, <1>3, <1>4, <1>10 DEF Reaches
<1>12. f[N] = c
  BY <1>2, <1>11, SeqEqual
<1> QED
  BY <1>5, <1>12

\* The keys along the chain: in order, and all of them.
LEMMA ChainKeysJoined ==
  ASSUME BTreeInv, NEW H, NEW K, NEW E, NEW c, Chained(H, K, E, c)
  PROVE  /\ ChainKeys \in Seq(Int) /\ Sorted(ChainKeys)
         /\ \A i \in DOMAIN c : Range(pages[c[i]].keys) \subseteq Range(ChainKeys)
<1> DEFINE seqs == [i \in DOMAIN c |-> pages[c[i]].keys]
<1>1. /\ Shape(H, K) /\ Extended(E, H, K) /\ Ordered(E, c)
      /\ Len(c) \in Nat \ {0} /\ DOMAIN c = 1..Len(c)
      /\ \A i \in DOMAIN c : c[i] \in DOMAIN pages /\ c[i] \in DOMAIN E /\ pages[c[i]].leaf
      /\ \A p \in DOMAIN H : p \in DOMAIN E /\ E[p] = K[p] /\ Fits(pages[p], K[p], H[p], H, K)
  BY ChainParts
<1>2. ASSUME NEW p \in DOMAIN E, pages[p].leaf PROVE Range(pages[p].keys) \subseteq E[p]
  <2>1. CASE p \in DOMAIN H
    BY <1>1, <2>1 DEF Fits
  <2>2. CASE p \notin DOMAIN H
    <3>1. p \in Waits /\ E[p] = WaitKeys(K)
      BY <1>1, <2>2 DEF Extended
    <3>2. CASE pc = "absorb"
      <4>1. p = right /\ E[p] = Taken(pages, page, Slot, sep, K)
        BY <3>1, <3>2 DEF Waits, WaitKeys
      <4> QED
        BY <1>1, <3>2, <4>1 DEF Shape, Absorbing, Spare, Fits, Taken
    <3>3. CASE pc = "root"
      <4>1. p = right /\ E[p] = AtLeast(Keys, sep)
        BY <3>1, <3>3 DEF Waits, WaitKeys
      <4> QED
        BY <1>1, <3>3, <4>1 DEF Shape, Rooting, Spare, Fits, AtLeast
    <3>4. CASE pc = "set"
      <4>1. PICK r \in DOMAIN pages :
              /\ pages[right] = Internal(<<sep>>, <<root, r>>)
              /\ Spare(r, {k \in Keys : k >= sep}, H[root], H, K)
        BY <1>1, <3>4 DEF Shape, Rooting
      <4>2. pages[right].vals[2] = r
        BY <4>1 DEF Internal
      <4>3. p = r /\ E[p] = AtLeast(Keys, sep)
        BY <3>1, <3>4, <4>2 DEF Waits, WaitKeys
      <4> QED
        BY <4>1, <4>3 DEF Spare, Fits, AtLeast
    <3> QED
      BY <3>1, <3>2, <3>3, <3>4 DEF Waits
  <2> QED
    BY <2>1, <2>2
<1>3. ASSUME NEW i \in DOMAIN c
      PROVE  seqs[i] = pages[c[i]].keys /\ seqs[i] \in Seq(Int) /\ Sorted(seqs[i]) /\ Range(seqs[i]) \subseteq E[c[i]]
  <2>1. seqs[i] = pages[c[i]].keys
    OBVIOUS
  <2>2. pages[c[i]] \in Nodes /\ NodeOK(pages[c[i]], Len(pages))
    BY <1>1, InvIsShape
  <2>3. pages[c[i]].keys \in Seq(Int) /\ Sorted(pages[c[i]].keys)
    BY <2>2, NodeType DEF NodeOK, Sorted
  <2>4. Range(pages[c[i]].keys) \subseteq E[c[i]]
    BY <1>1, <1>2
  <2> HIDE DEF seqs
  <2> QED
    BY <2>1, <2>3, <2>4
<1>4. DOMAIN seqs = 1..Len(c) /\ Len(seqs) = Len(c)
  <2>1. DOMAIN seqs = 1..Len(c)
    BY <1>1
  <2> HIDE DEF seqs
  <2>2. seqs = [i \in 1..Len(c) |-> pages[c[i]].keys]
    BY <1>1 DEF seqs
  <2> QED
    BY <1>1, <2>1, <2>2
<1>5. ChainKeys = FlattenSeq(seqs)
  BY ChainIsLinked DEF ChainKeys
<1> HIDE DEF seqs
<1>6. Ascending(seqs)
  <2>1. ASSUME NEW i \in DOMAIN seqs, NEW j \in DOMAIN seqs, i < j,
               NEW a \in Range(seqs[i]), NEW b \in Range(seqs[j])
        PROVE  a < b
    <3>1. i \in DOMAIN c /\ j \in DOMAIN c
      BY <1>1, <1>4
    <3>2. a \in E[c[i]] /\ b \in E[c[j]]
      BY <1>3, <3>1
    <3> QED
      BY <1>1, <2>1, <3>1, <3>2 DEF Ordered
  <2>2. \A i \in DOMAIN seqs : seqs[i] \in Seq(Int) /\ Sorted(seqs[i])
    BY <1>1, <1>3, <1>4
  <2> QED
    BY <2>1, <2>2 DEF Ascending
<1>7. Joined(seqs, Len(seqs), FlattenSeq(seqs))
  BY <1>1, <1>4, <1>6, FlattenJoins
<1>8. \A i \in DOMAIN c : Range(pages[c[i]].keys) \subseteq Range(FlattenSeq(seqs))
  BY <1>1, <1>3, <1>4, <1>7 DEF Joined
<1> QED
  BY <1>5, <1>7, <1>8 DEF Joined

\* ChainOK: for any keys, any fanout and any number of inserts, while no write has
\* failed, the leaves from page 1 on list the keys of the tree once each and in
\* order, between the writes of a split too.
THEOREM LeavesStayChained == Spec => []ChainOK
<1>1. ASSUME ChainInv PROVE ChainOK
  <2> SUFFICES ASSUME faults = 0
               PROVE  /\ \A i \in 2..Len(ChainKeys) : ChainKeys[i - 1] < ChainKeys[i]
                      /\ \A k \in Keys : found[k] # NoRid => k \in Range(ChainKeys)
    BY DEF ChainOK
  <2>1. BTreeInv
    BY <1>1 DEF ChainInv
  <2>2. PICK H, K, E, c : Chained(H, K, E, c)
    BY <1>1 DEF ChainInv
  <2>3. PICK t : t = ChainKeys
    OBVIOUS
  <2>4. t \in Seq(Int) /\ Sorted(t) /\ \A i \in DOMAIN c : Range(pages[c[i]].keys) \subseteq Range(t)
    BY <2>1, <2>2, <2>3, ChainKeysJoined
  <2>5. ASSUME NEW i \in 2..Len(t) PROVE t[i - 1] < t[i]
    <3>1. i \in DOMAIN t /\ i - 1 \in DOMAIN t /\ i - 1 < i
      BY <2>4
    <3> QED
      BY <2>4, <3>1 DEF Sorted
  <2>6. \A k \in Keys : found[k] # NoRid => k \in Range(t)
    BY <2>2, <2>4 DEF Chained, Holds
  <2> QED
    BY <2>3, <2>5, <2>6
<1> QED
  BY <1>1, ChainInvariance, PTL
-----------------------------------------------------------------------------
(* What find answers. *)

\* What a leaf answers for a key.
Hit(n, k) ==
  LET hits == {i \in DOMAIN n.keys : n.keys[i] = k}
  IN  IF hits = {} THEN NoRid ELSE n.vals[CHOOSE i \in hits : \A j \in hits : i <= j]

\* What a search that has come to node n answers, n in the file or not yet.
Answer(pg, n, k) == IF n.leaf THEN Hit(n, k) ELSE Find(pg, Child(n, k), k)

\* What find is to answer once the insert in progress returns.
Want(k) == IF k = key THEN rid ELSE found[k]

\* The parent in hand still leads the search for k to the half without it.
Moved(k, K) == k \in K[page] /\ ChildIndex(pages[page].keys, k) = Slot /\ k >= sep

\* The answers are all there after each write, though find may have to take a
\* page that is not linked yet for the one that is.
Complete(K) ==
  \A k \in Keys :
    /\ pc \in {"idle", "leaf"} => Find(pages, root, k) = found[k]
    /\ pc = "left" =>
         Want(k) = IF k \notin K[page] THEN Find(pages, root, k)
                   ELSE Answer(pages, IF k < sep THEN left ELSE pages[right], k)
    /\ pc = "absorb" =>
         Want(k) = IF Moved(k, K) THEN Answer(pages, pages[right], k) ELSE Find(pages, root, k)
    /\ pc = "root" =>
         Want(k) = IF k >= sep THEN Answer(pages, pages[right], k) ELSE Find(pages, root, k)
    /\ pc = "set" =>
         Want(k) = IF k >= sep THEN Answer(pages, pages[pages[right].vals[2]], k)
                   ELSE Find(pages, root, k)
    /\ pc \in {"meta", "done"} => Want(k) = Find(pages, root, k)

\* What find may answer if the insert in progress fails: nothing that was replaced.
Honest(k) == Find(pages, root, k) \in {found[k], NoRid, Want(k)}

\* The half that stays keeps the first child, and until it is written nothing is
\* out of reach that was not before.
Halved ==
  pc = "left" =>
    /\ ~left.leaf => left.vals[1] = pages[page].vals[1]
    /\ \A k \in Keys : Honest(k)

\* The root page 0 names is a first child of a first child ... of the root in
\* memory, as only set_root comes between the two.
Spine(H) ==
  \E S \in SUBSET DOMAIN H :
    /\ meta \in S
    /\ \A p \in S : p = root \/ \E q \in S : ~pages[q].leaf /\ pages[q].vals[1] = p

\* They are one page unless an insert failed between set_root's two assignments.
Roots == ~failed /\ pc # "meta" => root = meta

\* What find answers, for heights H and keys K of the pages.
Answers(H, K) ==
  /\ found = [k \in Keys |-> found[k]]
  /\ Halved /\ Roots /\ Complete(K) /\ Spine(H)

\* The inductive invariant of the refinement.
MapInv == BTreeInv /\ \E H, K : Shape(H, K) /\ Answers(H, K)
-----------------------------------------------------------------------------
\* A key that is not there is answered with NoRid.
LEMMA HitNone ==
  ASSUME NEW n, NEW k, k \notin Range(n.keys)
  PROVE  Hit(n, k) = NoRid
  BY DEF Hit, Range

\* A key that is there once is found where it is.
LEMMA HitAt ==
  ASSUME NEW n, DOMAIN n.keys \subseteq Nat, NEW i \in DOMAIN n.keys,
         \A j \in DOMAIN n.keys : n.keys[j] = n.keys[i] => j = i
  PROVE  Hit(n, n.keys[i]) = n.vals[i]
<1> DEFINE hits == {j \in DOMAIN n.keys : n.keys[j] = n.keys[i]}
<1>1. hits = {i}
  OBVIOUS
<1>2. (CHOOSE j \in hits : \A l \in hits : j <= l) = i
  <2>1. i \in hits /\ \A l \in hits : i <= l
    BY <1>1
  <2>2. \A j \in hits : j = i
    BY <1>1
  <2> HIDE DEF hits
  <2> QED
    BY <2>1, <2>2
<1> QED
  BY <1>1, <1>2 DEF Hit

\* find answers for the leaf its search ends in.
LEMMA FindIsHit ==
  ASSUME NEW pg, NEW r, NEW k
  PROVE  Find(pg, r, k) = Hit(pg[Last(PathIn(pg, r, k))], k)
  BY DEF Find, Hit

\* A search from a page is a search from its child.
LEMMA AnswerIs ==
  ASSUME NEW pg, NEW top, NEW low, NEW H, NEW K, FileOK(pg), Tree(pg, top, low, H, K),
         NEW p \in DOMAIN H, NEW k \in Keys
  PROVE  Find(pg, p, k) = Answer(pg, pg[p], k)
<1>1. PICK w : w = PathIn(pg, p, k)
  OBVIOUS
<1>2. Down(w, pg, p, k, H) /\ Len(w) = H[p] + 1
  BY <1>1, PathDown
<1>3. /\ w \in Seq(DOMAIN H) /\ w # <<>> /\ w[1] = p /\ Descent(pg, w, p, k)
      /\ Last(w) = w[Len(w)]
  BY <1>2, LastOfPath DEF Down, Descent
<1>4. H[p] \in Nat /\ (pg[p].leaf <=> H[p] = 0)
  BY DEF Tree, Forest, Fits
<1>5. CASE pg[p].leaf
  <2>1. Last(w) = p
    BY <1>2, <1>3, <1>4, <1>5
  <2> QED
    BY <1>1, <1>5, <2>1, FindIsHit DEF Answer
<1>6. CASE ~pg[p].leaf
  <2>1. PICK c : c = Child(pg[p], k)
    OBVIOUS
  <2>2. c \in DOMAIN H /\ H[c] = H[p] - 1
    BY <1>6, <2>1, ChildInTree
  <2>3. PICK v : v = PathIn(pg, c, k)
    OBVIOUS
  <2>4. Down(v, pg, c, k, H) /\ Len(v) = H[c] + 1
    BY <2>2, <2>3, PathDown
  <2>5. /\ v \in Seq(DOMAIN H) /\ v # <<>> /\ v[1] = c /\ Last(v) = v[Len(v)]
        /\ \A j \in 1..(Len(v) - 1) : ~pg[v[j]].leaf /\ v[j + 1] = Child(pg[v[j]], k)
    BY <2>4, LastOfPath DEF Down, Descent
  <2>6. PICK n \in Nat : n = H[p] /\ Len(v) = n /\ Len(w) = n + 1 /\ n # 0
    BY <1>2, <1>4, <1>6, <2>2, <2>4
  <2>7. PICK u : u = [j \in 1..(n + 1) |-> IF j = 1 THEN p ELSE v[j - 1]]
    OBVIOUS
  <2>8. u \in Seq(DOMAIN H) /\ Len(u) = n + 1 /\ u # <<>>
    <3>1. ASSUME NEW j \in 1..(n + 1)
          PROVE  (IF j = 1 THEN p ELSE v[j - 1]) \in DOMAIN H
      <4>1. CASE j = 1
        BY <4>1
      <4>2. CASE j # 1
        <5>1. j - 1 \in 1..Len(v)
          BY <2>6, <4>2
        <5>2. v[j - 1] \in DOMAIN H
          BY <2>5, <5>1, ElementOfSeq
        <5> QED
          BY <4>2, <5>2
      <4> QED
        BY <4>1, <4>2
    <3>2. u \in [1..(n + 1) -> DOMAIN H]
      BY <2>7, <3>1
    <3>3. u \in Seq(DOMAIN H)
      BY <3>2, SeqDef
    <3>4. Len(u) = n + 1
      <4>1. DOMAIN u = 1..Len(u) /\ DOMAIN u = 1..(n + 1) /\ Len(u) \in Nat
        BY <3>2, <3>3, LenProperties
      <4>2. PICK m \in Nat : m = Len(u) /\ 1..m = 1..(n + 1)
        BY <4>1
      <4>3. m = n + 1
        <5>1. n + 1 \in 1..m
          BY <4>2
        <5>2. m \in 1..(n + 1)
          BY <4>2, <5>1
        <5> QED
          BY <5>1, <5>2
      <4> QED
        BY <4>2, <4>3
    <3>5. u # <<>>
      BY <3>4
    <3> QED
      BY <3>3, <3>4, <3>5
  <2>9. u[1] = p /\ \A j \in 2..(n + 1) : u[j] = v[j - 1]
    BY <2>7
  <2>10. Descent(pg, u, p, k)
    <3>1. ASSUME NEW j \in 1..n
          PROVE  ~pg[u[j]].leaf /\ u[j + 1] = Child(pg[u[j]], k)
      <4>1. CASE j = 1
        <5>1. u[1 + 1] = v[1]
          BY <2>6, <2>9
        <5> QED
          BY <1>6, <2>1, <2>5, <2>9, <4>1, <5>1
      <4>2. CASE j # 1
        <5>1. /\ j \in 2..(n + 1) /\ j + 1 \in 2..(n + 1) /\ j - 1 \in 1..(Len(v) - 1)
              /\ (j + 1) - 1 = j /\ (j - 1) + 1 = j
          BY <2>6, <4>2
        <5>2. u[j] = v[j - 1] /\ u[j + 1] = v[j]
          BY <2>9, <5>1
        <5> QED
          BY <2>5, <5>1, <5>2
      <4> QED
        BY <4>1, <4>2
    <3> QED
      BY <2>8, <2>9, <3>1 DEF Descent
  <2>11. u = w
    BY <1>3, <2>6, <2>8, <2>10, OneDescent
  <2>12. Last(w) = Last(v)
    <3>1. n + 1 \in 2..(n + 1) /\ (n + 1) - 1 = n
      BY <2>6
    <3> QED
      BY <1>3, <2>5, <2>6, <2>9, <2>11, <3>1
  <2> QED
    BY <1>1, <1>6, <2>1, <2>3, <2>12, FindIsHit DEF Answer
<1> QED
  BY <1>5, <1>6

\* A search for a key that is not one of the page's finds nothing.
LEMMA NoAnswer ==
  ASSUME NEW pg, NEW top, NEW low, NEW H, NEW K, FileOK(pg), Tree(pg, top, low, H, K),
         NEW p \in DOMAIN H, NEW k \in Keys, k \notin K[p]
  PROVE  Find(pg, p, k) = NoRid
<1>1. PICK w : w = PathIn(pg, p, k)
  OBVIOUS
<1>2. Down(w, pg, p, k, H)
  BY <1>1, PathDown
<1>3. Last(w) \in DOMAIN H /\ 1 \in 1..Len(w) /\ w[1] = p
  BY <1>2, LastOfPath DEF Down, Descent
<1>4. k \notin K[Last(w)]
  BY <1>2, <1>3, Gather
<1>5. k \notin Range(pg[Last(w)].keys)
  BY <1>3, <1>4 DEF Tree, Forest, Fits
<1> QED
  BY <1>1, <1>5, FindIsHit, HitNone

\* The same of a node that would fit a place in the tree.
LEMMA NoAnswerNode ==
  ASSUME NEW pg, NEW top, NEW low, NEW H, NEW K, FileOK(pg), Tree(pg, top, low, H, K),
         NEW n \in Nodes, NodeOK(n, Len(pg)), NEW S, NEW h, Fits(n, S, h, H, K),
         NEW k \in Keys, k \notin S
  PROVE  Answer(pg, n, k) = NoRid
<1>1. CASE n.leaf
  BY <1>1, HitNone DEF Answer, Fits
<1>2. CASE ~n.leaf
  <2>1. ChildIndex(n.keys, k) \in DOMAIN n.vals
    BY <1>2, ChildExists
  <2>2. Child(n, k) \in DOMAIN H /\ k \notin K[Child(n, k)]
    BY <1>2, <2>1 DEF Fits, Child
  <2> QED
    BY <1>2, <2>2, NoAnswer DEF Answer
<1> QED
  BY <1>1, <1>2

\* Writes leave the answers of a page alone if they leave it and its children.
LEMMA SameAnswers ==
  ASSUME NEW pg, NEW top, NEW low, NEW H, NEW K, FileOK(pg), Tree(pg, top, low, H, K),
         NEW pg2, NEW top2, NEW low2, NEW H2, NEW K2, FileOK(pg2), Tree(pg2, top2, low2, H2, K2),
         NEW k \in Keys, NEW D, D \subseteq DOMAIN H, D \subseteq DOMAIN H2,
         \A q \in D : \/ Find(pg2, q, k) = Find(pg, q, k)
                      \/ pg2[q] = pg[q] /\ (~pg[q].leaf => Child(pg[q], k) \in D)
  PROVE  \A q \in D : Find(pg2, q, k) = Find(pg, q, k)
<1> DEFINE S == {n \in Nat : \A q \in D : H[q] < n => Find(pg2, q, k) = Find(pg, q, k)}
<1>1. \A q \in DOMAIN H : H[q] \in Nat
  BY DEF Tree, Forest
<1>2. 0 \in S
  BY <1>1
<1>3. ASSUME NEW n \in Nat, n \in S
      PROVE  n + 1 \in S
  <2> SUFFICES ASSUME NEW q \in D, H[q] < n + 1, pg2[q] = pg[q], ~pg[q].leaf => Child(pg[q], k) \in D
               PROVE  Find(pg2, q, k) = Find(pg, q, k)
    OBVIOUS
  <2>1. Find(pg, q, k) = Answer(pg, pg[q], k) /\ Find(pg2, q, k) = Answer(pg2, pg[q], k)
    BY AnswerIs
  <2>2. CASE pg[q].leaf
    BY <2>1, <2>2 DEF Answer
  <2>3. CASE ~pg[q].leaf
    <3>1. H[Child(pg[q], k)] = H[q] - 1 /\ Child(pg[q], k) \in D
      BY <2>3, ChildInTree
    <3>2. H[Child(pg[q], k)] < n
      BY <1>1, <3>1
    <3> QED
      BY <1>3, <2>1, <2>3, <3>1, <3>2 DEF Answer
  <2> QED
    BY <2>2, <2>3
<1>4. ASSUME NEW q \in D PROVE Find(pg2, q, k) = Find(pg, q, k)
  <2>1. H[q] + 1 \in Nat /\ H[q] < H[q] + 1
    BY <1>1
  <2>2. H[q] + 1 \in S
    <3> HIDE DEF S
    <3> QED
      BY <1>2, <1>3, <2>1, Induct
  <2> QED
    BY <2>1, <2>2
<1> QED
  BY <1>4

\* A key of the last page of a descent is answered there.
LEMMA AnswerAtEnd ==
  ASSUME NEW pg, NEW top, NEW low, NEW H, NEW K, FileOK(pg), Tree(pg, top, low, H, K),
         NEW r \in DOMAIN H, NEW k \in Keys, NEW w, Down(w, pg, r, k, H),
         NEW x \in Keys, x \in K[Last(w)]
  PROVE  Find(pg, r, x) = Answer(pg, pg[Last(w)], x)
<1>1. /\ w \in Seq(DOMAIN H) /\ w # <<>> /\ w[1] = r
      /\ \A j \in 1..(Len(w) - 1) : ~pg[w[j]].leaf /\ w[j + 1] = Child(pg[w[j]], x)
  <2>1. Descent(pg, w, r, x)
    BY Gather
  <2>2. w \in Seq(DOMAIN H)
    BY DEF Down
  <2> QED
    BY <2>1, <2>2 DEF Descent
<1>2. PICK n \in Nat : Len(w) = n + 1 /\ Last(w) = w[n + 1] /\ Last(w) \in DOMAIN H
  <2>1. Len(w) \in Nat \ {0} /\ Last(w) = w[Len(w)] /\ Last(w) \in DOMAIN H
    BY <1>1, LastOfPath
  <2>2. Len(w) - 1 \in Nat /\ Len(w) = (Len(w) - 1) + 1
    BY <2>1
  <2> QED
    BY <2>1, <2>2
<1> DEFINE S == {m \in Nat : m <= n => Find(pg, w[m + 1], x) = Find(pg, r, x)}
<1>3. 0 \in S
  BY <1>1
<1>4. ASSUME NEW m \in Nat, m \in S
      PROVE  m + 1 \in S
  <2> SUFFICES ASSUME m + 1 <= n PROVE Find(pg, w[(m + 1) + 1], x) = Find(pg, r, x)
    OBVIOUS
  <2>1. m + 1 \in 1..(Len(w) - 1) /\ m + 1 \in 1..Len(w)
    BY <1>2
  <2>2. w[m + 1] \in DOMAIN H
    BY <1>1, <2>1, ElementOfSeq
  <2>3. ~pg[w[m + 1]].leaf /\ w[(m + 1) + 1] = Child(pg[w[m + 1]], x)
    BY <1>1, <2>1
  <2>4. Find(pg, w[m + 1], x) = Find(pg, w[(m + 1) + 1], x)
    BY <2>2, <2>3, AnswerIs DEF Answer
  <2>5. Find(pg, w[m + 1], x) = Find(pg, r, x)
    BY <1>4
  <2> QED
    BY <2>4, <2>5
<1>5. n \in S
  <2> HIDE DEF S
  <2> QED
    BY <1>3, <1>4, Induct
<1> QED
  BY <1>2, <1>5, AnswerIs

\* A step writes page p, or adds pages: the tree before and after.
Written(p, H, K, H2, K2) ==
  /\ FileOK(pages) /\ Tree(pages, root, meta, H, K)
  /\ FileOK(pages') /\ Tree(pages', root', meta', H2, K2)
  /\ DOMAIN H \subseteq DOMAIN H2 /\ \A q \in DOMAIN H : H2[q] = H[q]
  /\ \A q \in DOMAIN H : q = p \/ pages'[q] = pages[q]

\* Nothing changes for a key that is none of p's.
LEMMA AnswersBeside ==
  ASSUME NEW p, NEW H, NEW K, NEW H2, NEW K2, Written(p, H, K, H2, K2), NEW k \in Keys,
         p \in DOMAIN H => k \notin K[p] /\ k \notin K2[p]
  PROVE  \A q \in DOMAIN H : Find(pages', q, k) = Find(pages, q, k)
<1>1. ASSUME NEW q \in DOMAIN H
      PROVE  \/ Find(pages', q, k) = Find(pages, q, k)
             \/ pages'[q] = pages[q] /\ (~pages[q].leaf => Child(pages[q], k) \in DOMAIN H)
  <2>1. CASE q = p
    <3>1. p \in DOMAIN H2
      BY <2>1 DEF Written
    <3> QED
      BY <2>1, <3>1, NoAnswer DEF Written
  <2>2. CASE q # p
    BY <2>2, ChildInTree DEF Written
  <2> QED
    BY <2>1, <2>2
<1> QED
  BY <1>1, SameAnswers DEF Written

\* Nothing changes for the pages that are no higher than p, which do not lead to it.
LEMMA AnswersBelow ==
  ASSUME NEW p, NEW H, NEW K, NEW H2, NEW K2, Written(p, H, K, H2, K2), NEW k \in Keys,
         NEW c \in DOMAIN H, p \in DOMAIN H => H[c] < H[p]
  PROVE  Find(pages', c, k) = Find(pages, c, k)
<1> DEFINE D == {q \in DOMAIN H : p \in DOMAIN H => H[q] < H[p]}
<1>1. \A q \in DOMAIN H : H[q] \in Nat
  BY DEF Written, Tree, Forest
<1>2. ASSUME NEW q \in D
      PROVE  pages'[q] = pages[q] /\ (~pages[q].leaf => Child(pages[q], k) \in D)
  <2>1. q # p
    BY <1>1
  <2>2. ASSUME ~pages[q].leaf PROVE Child(pages[q], k) \in D
    <3>1. Child(pages[q], k) \in DOMAIN H /\ H[Child(pages[q], k)] = H[q] - 1
      BY <2>2, ChildInTree DEF Written
    <3> QED
      BY <1>1, <3>1
  <2> QED
    BY <2>1, <2>2 DEF Written
<1>3. c \in D /\ D \subseteq DOMAIN H
  OBVIOUS
<1> HIDE DEF D
<1> QED
  BY <1>2, <1>3, SameAnswers DEF Written

\* Nor for a node no higher than p, in the file or not.
LEMMA AnswersOfNode ==
  ASSUME NEW p, NEW H, NEW K, NEW H2, NEW K2, Written(p, H, K, H2, K2), NEW k \in Keys,
         NEW n \in Nodes, NodeOK(n, Len(pages)), NEW S, NEW h \in Nat, Fits(n, S, h, H, K),
         p \in DOMAIN H => h <= H[p]
  PROVE  Answer(pages', n, k) = Answer(pages, n, k)
<1>1. CASE n.leaf
  BY <1>1 DEF Answer
<1>2. CASE ~n.leaf
  <2>1. ChildIndex(n.keys, k) \in DOMAIN n.vals
    BY <1>2, ChildExists
  <2>2. Child(n, k) \in DOMAIN H /\ H[Child(n, k)] = h - 1
    BY <1>2, <2>1 DEF Fits, Child
  <2>3. p \in DOMAIN H => H[Child(n, k)] < H[p]
    BY <2>2 DEF Written, Tree, Forest
  <2>4. Find(pages', Child(n, k), k) = Find(pages, Child(n, k), k)
    BY <2>2, <2>3, AnswersBelow
  <2> QED
    BY <1>2, <2>4 DEF Answer
<1> QED
  BY <1>1, <1>2

\* The page in hand answers for its keys.
LEMMA AnswersInHand ==
  ASSUME BTreeInv, pc \in {"leaf", "left", "absorb"}, NEW H, NEW K, Shape(H, K),
         NEW k \in Keys, k \in K[page]
  PROVE  Find(pages, root, k) = Answer(pages, pages[page], k)
<1>1. /\ FileOK(pages) /\ Tree(pages, root, meta, H, K) /\ root \in DOMAIN H
      /\ path \in Seq(DOMAIN H) /\ Descent(pages, path, root, key) /\ key \in Keys
      /\ \A j \in DOMAIN path : H[path[j]] = H[root] + 1 - j
  BY InvIsShape DEF Shape, Tree, Descending, BTreeInv, Arguments
<1>2. Down(path, pages, root, key, H)
  <2>1. DOMAIN path = 1..Len(path)
    BY <1>1
  <2> QED
    BY <1>1, <2>1 DEF Down
<1> QED
  BY <1>1, <1>2, AnswerAtEnd DEF page

\* So it does when it is written.
LEMMA AnswersWhenWritten ==
  ASSUME BTreeInv, pc \in {"leaf", "left", "absorb"}, NEW H, NEW K, Shape(H, K),
         NEW H2, NEW K2, Written(page, H, K, H2, K2), root' = root,
         NEW k \in Keys, k \in K2[page]
  PROVE  Find(pages', root, k) = Answer(pages', pages'[page], k)
<1>1. /\ path \in Seq(DOMAIN H) /\ Descent(pages, path, root, key) /\ key \in Keys
      /\ \A j \in DOMAIN path : H[path[j]] = H[root] + 1 - j
  BY DEF Shape, Descending, BTreeInv, Arguments
<1>2. /\ Len(path) \in Nat \ {0} /\ DOMAIN path = 1..Len(path) /\ page = path[Len(path)]
      /\ root \in DOMAIN H /\ \A q \in DOMAIN H : H[q] \in Nat
  BY InHand DEF Shape, Tree, Forest
<1>3. ASSUME NEW j \in 1..(Len(path) - 1)
      PROVE  path[j] \in DOMAIN H /\ path[j] # page
  <2>0. PICK n \in Nat \ {0} : n = Len(path)
    BY <1>2
  <2>1. j \in 1..Len(path) /\ Len(path) \in 1..Len(path) /\ j # Len(path)
    BY <2>0
  <2>2. path[j] \in DOMAIN H
    BY <1>1, <2>1, ElementOfSeq
  <2>3. H[path[j]] = H[root] + 1 - j /\ H[page] = H[root] + 1 - Len(path) /\ H[root] \in Nat
    BY <1>1, <1>2, <2>1
  <2>4. H[path[j]] # H[page]
    <3>1. PICK h \in Nat : h = H[root]
      BY <2>3
    <3>2. h + 1 - j # h + 1 - n
      BY <2>0, <2>1
    <3> QED
      BY <2>0, <2>3, <3>1, <3>2
  <2> QED
    BY <2>2, <2>4
<1>4. Down(path, pages', root, key, H2)
  <2>1. path \in Seq(DOMAIN H2)
    BY <1>1, SeqMonotonic DEF Written
  <2>2. Descent(pages', path, root, key)
    BY <1>1, <1>3 DEF Descent, Written
  <2>3. \A j \in 1..Len(path) : H2[path[j]] = H2[root] + 1 - j
    <3>1. \A j \in 1..Len(path) : path[j] \in DOMAIN H
      BY <1>1, ElementOfSeq
    <3> QED
      BY <1>1, <1>2, <3>1 DEF Written
  <2> QED
    BY <2>1, <2>2, <2>3 DEF Down
<1>5. root \in DOMAIN H2
  BY <1>2 DEF Written
<1> QED
  BY <1>1, <1>4, <1>5, AnswerAtEnd DEF Written, page

-----------------------------------------------------------------------------
\* In a sorted leaf each key is found where it is.
LEMMA HitSorted ==
  ASSUME NEW n, n.keys \in Seq(Int), Sorted(n.keys), NEW i \in 1..Len(n.keys), NEW x, x = n.keys[i]
  PROVE  Hit(n, x) = n.vals[i]
<1>1. DOMAIN n.keys = 1..Len(n.keys) /\ Len(n.keys) \in Nat
  OBVIOUS
<1>2. ASSUME NEW j \in DOMAIN n.keys, n.keys[j] = n.keys[i]
      PROVE  j = i
  <2>1. n.keys[i] \in Int
    BY ElementOfSeq
  <2>2. i \in DOMAIN n.keys
    BY <1>1
  <2>3. j < i => n.keys[j] < n.keys[i]
    BY <2>2 DEF Sorted
  <2>4. i < j => n.keys[i] < n.keys[j]
    BY <2>2 DEF Sorted
  <2>5. ~(j < i) /\ ~(i < j)
    BY <1>2, <2>1, <2>3, <2>4
  <2> QED
    BY <1>1, <2>5
<1> QED
  BY <1>1, <1>2, HitAt

\* m has the entries of leaf n and one more, <<k, r>>, at its place.
HasEntry(m, n, at, k, r) ==
  /\ Len(m.keys) = Len(n.keys) + 1 /\ at \in 1..(Len(n.keys) + 1)
  /\ \A j \in 1..(Len(n.keys) + 1) :
       /\ m.keys[j] = IF j < at THEN n.keys[j] ELSE IF j = at THEN k ELSE n.keys[j - 1]
       /\ m.vals[j] = IF j < at THEN n.vals[j] ELSE IF j = at THEN r ELSE n.vals[j - 1]

\* A leaf with one more entry answers it for its key, and the rest as before.
LEMMA HitInserted ==
  ASSUME NEW n, n.keys \in Seq(Int), Sorted(n.keys), NEW m, m.keys \in Seq(Int), Sorted(m.keys),
         NEW at, NEW k, k \notin Range(n.keys), NEW r, HasEntry(m, n, at, k, r), NEW x
  PROVE  Hit(m, x) = IF x = k THEN r ELSE Hit(n, x)
<1>0. /\ Len(m.keys) = Len(n.keys) + 1 /\ at \in 1..(Len(n.keys) + 1)
      /\ \A j \in 1..(Len(n.keys) + 1) :
           /\ m.keys[j] = IF j < at THEN n.keys[j] ELSE IF j = at THEN k ELSE n.keys[j - 1]
           /\ m.vals[j] = IF j < at THEN n.vals[j] ELSE IF j = at THEN r ELSE n.vals[j - 1]
  BY DEF HasEntry
<1>1. PICK l \in Nat : l = Len(n.keys) /\ DOMAIN n.keys = 1..l /\ Len(m.keys) = l + 1 /\ DOMAIN m.keys = 1..(l + 1)
  BY <1>0
<1>2. CASE x = k
  <2>1. at \in 1..Len(m.keys) /\ m.keys[at] = k /\ m.vals[at] = r
    BY <1>0, <1>1
  <2> QED
    BY <1>2, <2>1, HitSorted
<1>3. ASSUME x # k, NEW i \in 1..l, x = n.keys[i]
      PROVE  Hit(m, x) = Hit(n, x)
  <2>1. Hit(n, x) = n.vals[i]
    BY <1>1, <1>3, HitSorted
  <2>2. CASE i < at
    <3>1. i \in 1..Len(m.keys) /\ m.keys[i] = x /\ m.vals[i] = n.vals[i]
      BY <1>0, <1>1, <1>3, <2>2
    <3> QED
      BY <2>1, <3>1, HitSorted
  <2>3. CASE ~(i < at)
    <3>1. i + 1 \in 1..(l + 1) /\ ~(i + 1 < at) /\ i + 1 # at /\ (i + 1) - 1 = i
      BY <1>0, <1>1, <2>3
    <3>2. i + 1 \in 1..Len(m.keys) /\ m.keys[i + 1] = x /\ m.vals[i + 1] = n.vals[i]
      BY <1>0, <1>1, <1>3, <3>1
    <3> QED
      BY <2>1, <3>2, HitSorted
  <2> QED
    BY <2>2, <2>3
<1>4. CASE x # k /\ x \notin Range(n.keys)
  <2>1. ASSUME NEW j \in 1..(l + 1) PROVE m.keys[j] # x
    <3>1. CASE j < at
      <4>1. j \in DOMAIN n.keys /\ m.keys[j] = n.keys[j]
        BY <1>0, <1>1, <3>1
      <4> QED
        BY <1>4, <4>1 DEF Range
    <3>2. CASE j = at
      BY <1>0, <1>1, <1>4, <3>2
    <3>3. CASE j > at
      <4>1. j - 1 \in DOMAIN n.keys /\ m.keys[j] = n.keys[j - 1]
        BY <1>0, <1>1, <3>3
      <4> QED
        BY <1>4, <4>1 DEF Range
    <3> QED
      BY <1>0, <1>1, <3>1, <3>2, <3>3
  <2>2. x \notin Range(m.keys)
    BY <1>1, <2>1 DEF Range
  <2> QED
    BY <1>4, <2>2, HitNone
<1>5. x \in Range(n.keys) => \E i \in 1..l : x = n.keys[i]
  BY <1>1 DEF Range
<1> QED
  BY <1>2, <1>3, <1>4, <1>5

\* m is the leaf n with one value replaced.
HasValue(m, n, at, r) ==
  /\ at \in 1..Len(n.keys) /\ m.keys = n.keys /\ m.vals[at] = r
  /\ \A j \in 1..Len(n.keys) : j # at => m.vals[j] = n.vals[j]

\* A leaf with one value replaced answers it for its key, and the rest as before.
LEMMA HitReplaced ==
  ASSUME NEW n, n.keys \in Seq(Int), Sorted(n.keys), NEW m, NEW at, NEW r, HasValue(m, n, at, r),
         NEW x
  PROVE  Hit(m, x) = IF x = n.keys[at] THEN r ELSE Hit(n, x)
<1>0. /\ at \in 1..Len(n.keys) /\ m.keys = n.keys /\ m.vals[at] = r
      /\ \A j \in 1..Len(n.keys) : j # at => m.vals[j] = n.vals[j]
  BY DEF HasValue
<1>1. CASE x = n.keys[at]
  BY <1>0, <1>1, HitSorted
<1>2. ASSUME x # n.keys[at], NEW i \in 1..Len(n.keys), x = n.keys[i]
      PROVE  Hit(m, x) = Hit(n, x)
  <2>1. Hit(n, x) = n.vals[i] /\ Hit(m, x) = m.vals[i] /\ i # at
    BY <1>0, <1>2, HitSorted
  <2> QED
    BY <1>0, <2>1
<1>3. CASE x # n.keys[at] /\ x \notin Range(n.keys)
  BY <1>0, <1>3, HitNone
<1>4. x \in Range(n.keys) => \E i \in 1..Len(n.keys) : x = n.keys[i]
  BY DEF Range
<1> QED
  BY <1>1, <1>2, <1>3, <1>4

\* m has the entries of leaf n from a + 1 to b.
HasEntries(m, n, a, b) ==
  /\ Len(m.keys) = b - a
  /\ \A j \in 1..(b - a) : m.keys[j] = n.keys[a + j] /\ m.vals[j] = n.vals[a + j]

\* Key x is between a + 1 and b in ks, or nowhere.
Only(ks, x, a, b) == \A i \in 1..Len(ks) : ks[i] = x => i \in (a + 1)..b

\* It answers as n does for a key that is there or nowhere.
LEMMA HitPart ==
  ASSUME NEW n, n.keys \in Seq(Int), Sorted(n.keys), NEW a \in Nat, NEW b \in Nat, a <= b, b <= Len(n.keys),
         NEW m, m.keys \in Seq(Int), Sorted(m.keys), HasEntries(m, n, a, b),
         NEW x, Only(n.keys, x, a, b)
  PROVE  Hit(m, x) = Hit(n, x)
<1>0. /\ Len(m.keys) = b - a
      /\ \A j \in 1..(b - a) : m.keys[j] = n.keys[a + j] /\ m.vals[j] = n.vals[a + j]
  BY DEF HasEntries
<1>1. DOMAIN n.keys = 1..Len(n.keys) /\ Len(n.keys) \in Nat /\ DOMAIN m.keys = 1..(b - a)
  <2>1. DOMAIN m.keys = 1..Len(m.keys) /\ DOMAIN n.keys = 1..Len(n.keys) /\ Len(n.keys) \in Nat
    BY LenProperties
  <2> QED
    BY <1>0, <2>1
<1>2. ASSUME NEW i \in 1..Len(n.keys), x = n.keys[i]
      PROVE  Hit(m, x) = Hit(n, x)
  <2>1. i \in (a + 1)..b
    BY <1>2 DEF Only
  <2>2. PICK j \in 1..(b - a) : a + j = i
    <3>1. i - a \in 1..(b - a) /\ a + (i - a) = i
      BY <2>1
    <3> QED
      BY <3>1
  <2>3. m.keys[j] = x /\ m.vals[j] = n.vals[i]
    BY <1>0, <1>2, <2>2
  <2>4. j \in 1..Len(m.keys)
    BY <1>0, <2>2
  <2>5. Hit(n, x) = n.vals[i]
    BY <1>2, HitSorted
  <2> QED
    BY <2>3, <2>4, <2>5, HitSorted
<1>3. CASE x \notin Range(n.keys)
  <2>1. \A j \in 1..(b - a) : a + j \in 1..Len(n.keys)
    BY <1>1
  <2>2. ASSUME NEW j \in 1..(b - a) PROVE m.keys[j] # x
    <3>1. a + j \in DOMAIN n.keys /\ m.keys[j] = n.keys[a + j]
      BY <1>0, <1>1, <2>1
    <3> QED
      BY <1>3, <3>1 DEF Range
  <2>3. x \notin Range(m.keys)
    BY <1>1, <2>2 DEF Range
  <2> QED
    BY <1>3, <2>3, HitNone
<1>4. x \in Range(n.keys) => \E i \in 1..Len(n.keys) : x = n.keys[i]
  BY <1>1 DEF Range
<1> QED
  BY <1>2, <1>3, <1>4

\* Where a key is that is there already.
LEMMA AtOfKey ==
  ASSUME NEW ks \in Seq(Int), Sorted(ks), NEW i \in 1..Len(ks), NEW k, k = ks[i]
  PROVE  1 + Cardinality({j \in DOMAIN ks : ks[j] < k}) = i
<1>1. DOMAIN ks = 1..Len(ks) /\ Len(ks) \in Nat /\ \A j \in 1..Len(ks) : ks[j] \in Int
  BY ElementOfSeq
<1>2. \A j \in 1..Len(ks) : ks[j] < k <=> j < i
  BY <1>1 DEF Sorted
<1>3. {j \in DOMAIN ks : ks[j] < k} = 1..(i - 1)
  <2>1. \A j \in DOMAIN ks : j < i <=> j \in 1..(i - 1)
    BY <1>1
  <2>2. \A j \in 1..(i - 1) : j \in DOMAIN ks
    BY <1>1
  <2> QED
    BY <1>1, <1>2, <2>1, <2>2
<1>4. Cardinality(1..(i - 1)) = i - 1
  <2>1. Cardinality(1..(i - 1)) = IF 1 > i - 1 THEN 0 ELSE i - 1 - 1 + 1
    BY FS_Interval
  <2> QED
    BY <2>1
<1>5. 1 + (i - 1) = i
  OBVIOUS
<1> QED
  BY <1>3, <1>4, <1>5

-----------------------------------------------------------------------------
\* A step in which page p alone is written over, or none.
LEMMA WrittenIs ==
  ASSUME BTreeInv, BTreeInv', NEW H, NEW K, Shape(H, K), NEW H2, NEW K2, Shape(H2, K2)',
         DOMAIN H \subseteq DOMAIN H2, \A q \in DOMAIN H : H2[q] = H[q],
         NEW p, \A q \in DOMAIN H : q = p \/ pages'[q] = pages[q]
  PROVE  Written(p, H, K, H2, K2)
<1>1. FileOK(pages) /\ FileOK(pages')
  BY InvIsShape DEF BTreeInv, TypeOK, NodesOK, FileOK
<1>2. Tree(pages, root, meta, H, K) /\ Tree(pages', root', meta', H2, K2)
  BY DEF Shape
<1> QED
  BY <1>1, <1>2 DEF Written

\* The spine stands as long as no page changes its first child.
LEMMA SpineKept ==
  ASSUME NEW H, NEW H2, Spine(H), meta' = meta, root' = root, DOMAIN H \subseteq DOMAIN H2,
         \A q \in DOMAIN H :
           ~pages[q].leaf => ~pages'[q].leaf /\ pages'[q].vals[1] = pages[q].vals[1]
  PROVE  Spine(H2)'
<1>1. PICK S \in SUBSET DOMAIN H :
        /\ meta \in S
        /\ \A p \in S : p = root \/ \E q \in S : ~pages[q].leaf /\ pages[q].vals[1] = p
  BY DEF Spine
<1>2. \A p \in S : p = root' \/ \E q \in S : ~pages'[q].leaf /\ pages'[q].vals[1] = p
  BY <1>1
<1> QED
  BY <1>1, <1>2 DEF Spine

\* What page 0 names answers as the root in memory does, or finds nothing.
LEMMA SpineAnswers ==
  ASSUME BTreeInv, NEW H, NEW K, Shape(H, K), Spine(H), NEW k \in Keys
  PROVE  Find(pages, meta, k) \in {Find(pages, root, k), NoRid}
<1>1. PICK S \in SUBSET DOMAIN H :
        /\ meta \in S
        /\ \A p \in S : p = root \/ \E q \in S : ~pages[q].leaf /\ pages[q].vals[1] = p
  BY DEF Spine
<1>2. /\ FileOK(pages) /\ Tree(pages, root, meta, H, K) /\ root \in DOMAIN H
      /\ \A p \in DOMAIN H : H[p] \in Nat /\ Fits(pages[p], K[p], H[p], H, K)
      /\ \A p \in DOMAIN H : H[p] <= H[root]
      /\ \A p \in DOMAIN H : pages[p] \in Nodes /\ NodeOK(pages[p], Len(pages))
  <2>1. FileOK(pages) /\ Tree(pages, root, meta, H, K)
    BY InvIsShape DEF Shape
  <2>2. /\ root \in DOMAIN H /\ \A p \in DOMAIN H : p = root \/ H[p] < H[root]
        /\ \A p \in DOMAIN H : H[p] \in Nat /\ p \in DOMAIN pages /\ Fits(pages[p], K[p], H[p], H, K)
    BY <2>1 DEF Tree, Forest
  <2>3. \A p \in DOMAIN H : H[p] <= H[root]
    BY <2>2
  <2> QED
    BY <2>1, <2>2, <2>3, InvIsShape
<1> DEFINE D == {n \in Nat : \A p \in S : H[root] - H[p] = n /\ k \in K[p] =>
                                Find(pages, p, k) = Find(pages, root, k)}
<1>3. ASSUME NEW p \in S, p # root, k \in K[p]
      PROVE  \E q \in S : H[q] = H[p] + 1 /\ k \in K[q] /\ Find(pages, q, k) = Find(pages, p, k)
  <2>1. PICK q \in S : ~pages[q].leaf /\ pages[q].vals[1] = p
    BY <1>1, <1>3
  <2>2. 1 \in DOMAIN pages[q].vals
    <3>1. Len(pages[q].vals) = Len(pages[q].keys) + 1
      BY <1>2, <2>1 DEF NodeOK
    <3>2. DOMAIN pages[q].vals = 1..(Len(pages[q].keys) + 1) /\ Len(pages[q].keys) \in Nat
      BY <1>2, <3>1, NodeType
    <3> QED
      BY <3>2
  <2>3. H[p] = H[q] - 1 /\ k \in K[q] /\ ChildIndex(pages[q].keys, k) = 1
    BY <1>2, <1>3, <2>1, <2>2 DEF Fits
  <2>4. Find(pages, q, k) = Find(pages, p, k)
    BY <1>2, <2>1, <2>3, AnswerIs DEF Answer, Child
  <2>5. H[q] = H[p] + 1
    BY <1>2, <2>3
  <2> QED
    BY <2>3, <2>4, <2>5
<1>4. 0 \in D
  <2>1. ASSUME NEW p \in S, H[root] - H[p] = 0, k \in K[p] PROVE Find(pages, p, k) = Find(pages, root, k)
    <3>1. CASE p # root
      <4>1. PICK q \in S : H[q] = H[p] + 1
        BY <1>3, <2>1, <3>1
      <4> QED
        BY <1>2, <2>1, <4>1
    <3> QED
      BY <3>1
  <2> QED
    BY <2>1
<1>5. ASSUME NEW n \in Nat, n \in D
      PROVE  n + 1 \in D
  <2> SUFFICES ASSUME NEW p \in S, H[root] - H[p] = n + 1, k \in K[p]
               PROVE  Find(pages, p, k) = Find(pages, root, k)
    OBVIOUS
  <2>1. CASE p # root
    <3>1. PICK q \in S : H[q] = H[p] + 1 /\ k \in K[q] /\ Find(pages, q, k) = Find(pages, p, k)
      BY <1>3, <2>1
    <3>2. H[root] - H[q] = n
      BY <1>2, <3>1
    <3> QED
      BY <1>5, <3>1, <3>2
  <2> QED
    BY <2>1
<1>6. CASE k \in K[meta]
  <2>1. H[root] - H[meta] \in Nat
    BY <1>1, <1>2
  <2>2. H[root] - H[meta] \in D
    <3> HIDE DEF D
    <3> QED
      BY <1>4, <1>5, <2>1, Induct
  <2> QED
    BY <1>1, <1>6, <2>2
<1>7. CASE k \notin K[meta]
  BY <1>1, <1>2, <1>7, NoAnswer
<1> QED
  BY <1>6, <1>7

\* While an insert is in progress, find has forgotten nothing but what its failure
\* may lose.
LEMMA AllHonest ==
  ASSUME BTreeInv, pc # "idle", NEW H, NEW K, Shape(H, K), Answers(H, K), NEW k \in Keys
  PROVE  Honest(k)
<1>1. FileOK(pages) /\ Tree(pages, root, meta, H, K) /\ root \in DOMAIN H
  BY InvIsShape DEF Shape, Tree
<1>2. k \in Int
  BY KeysAssumption
<1>3. CASE pc = "leaf"
  BY <1>3 DEF Answers, Complete, Honest
<1>4. CASE pc = "left"
  BY <1>4 DEF Answers, Halved
<1>5. CASE pc = "absorb"
  <2>1. CASE ~Moved(k, K)
    BY <1>5, <2>1 DEF Answers, Complete, Honest
  <2>2. CASE Moved(k, K)
    <3>1. k \in K[page] /\ ChildIndex(pages[page].keys, k) = Slot /\ k >= sep
      BY <2>2 DEF Moved
    <3>2. /\ H[page] > 0 /\ sep \in K[page]
          /\ \A x \in K[pages[page].vals[Slot]] : x < sep
      BY <1>5 DEF Shape, Absorbing
    <3>3. /\ page \in DOMAIN H /\ Fits(pages[page], K[page], H[page], H, K) /\ K[page] \subseteq Keys
      BY <1>5, InHand
    <3>4. ~pages[page].leaf /\ sep \in Int
      <4>1. H[page] # 0 /\ sep \in Keys
        BY <3>2, <3>3
      <4> QED
        BY <3>3, <4>1, KeysAssumption DEF Fits
    <3>5. Child(pages[page], k) \in DOMAIN H /\ Child(pages[page], k) = pages[page].vals[Slot]
      BY <1>1, <3>1, <3>3, <3>4, ChildInTree DEF Child
    <3>6. k \notin K[Child(pages[page], k)]
      BY <1>2, <3>1, <3>2, <3>4, <3>5
    <3>7. Find(pages, root, k) = Answer(pages, pages[page], k)
      BY <1>5, <3>1, AnswersInHand
    <3>8. Find(pages, Child(pages[page], k), k) = NoRid
      BY <1>1, <3>5, <3>6, NoAnswer
    <3> QED
      BY <3>4, <3>7, <3>8 DEF Answer, Honest
  <2> QED
    BY <2>1, <2>2
<1>6. CASE pc \in {"root", "set"}
  <2>1. sep \in Int /\ \A x \in K[root] : x < sep
    BY <1>6, KeysAssumption DEF Shape, Rooting
  <2>2. CASE k >= sep
    <3>1. k \notin K[root]
      BY <1>2, <2>1, <2>2
    <3> QED
      BY <1>1, <3>1, NoAnswer DEF Honest
  <2>3. CASE ~(k >= sep)
    BY <1>6, <2>3 DEF Answers, Complete, Honest
  <2> QED
    BY <2>2, <2>3
<1>7. CASE pc \in {"meta", "done"}
  BY <1>7 DEF Answers, Complete, Honest
<1> QED
  BY <1>3, <1>4, <1>5, <1>6, <1>7 DEF BTreeInv, TypeOK

-----------------------------------------------------------------------------
\* A call that is over, with the entries find still answers.
LEMMA OverAnswers ==
  ASSUME BTreeInv, Over, UNCHANGED pages,
         NEW H, NEW K, Spine(H)', Roots'
  PROVE  Answers(H, K)'
<1>1. pc' = "idle" /\ found' = [k \in Keys |-> Find(pages', root', k)]
  BY DEF Over, FindAll
<1>2. found' = [k \in Keys |-> found'[k]]
  BY <1>1
<1>3. Halved'
  BY <1>1 DEF Halved
<1>4. Complete(K)'
  BY <1>1 DEF Complete
<1> QED
  BY <1>2, <1>3, <1>4 DEF Answers

\* insert starts: find answers as before.
LEMMA InsertAnswers ==
  ASSUME BTreeInv, NEW H, NEW K, Shape(H, K), Answers(H, K), NEW k \in Keys, Insert(k)
  PROVE  MapInv'
<1>1. PICK K2 : BTreeInv' /\ Shape(H, K2)'
  <2>1. PICK K2 : K2 = [q \in DOMAIN H |-> IF q \in Range(path') THEN K[q] \cup {k} ELSE K[q]]
    OBVIOUS
  <2> QED
    BY <2>1, InsertStep
<1>2. pc = "idle" /\ pc' = "leaf" /\ UNCHANGED <<pages, meta, root, found, failed>>
  BY DEF Insert, file
<1>3. Complete(K2)'
  BY <1>2 DEF Answers, Complete
<1>4. Halved' /\ Roots'
  BY <1>2 DEF Answers, Halved, Roots
<1>5. Spine(H)'
  BY <1>2, SpineKept DEF Answers
<1>6. Answers(H, K2)'
  BY <1>2, <1>3, <1>4, <1>5 DEF Answers
<1> QED
  BY <1>1, <1>6 DEF MapInv

\* insert returns, and find answers what it put there.
LEMMA ReturnAnswers ==
  ASSUME BTreeInv, NEW H, NEW K, Shape(H, K), Answers(H, K), Return
  PROVE  MapInv'
<1>1. BTreeInv' /\ Shape(H, K)'
  BY ReturnStep
<1>2. pc = "done" /\ UNCHANGED <<pages, meta, root, failed>> /\ Over
  BY DEF Return, file
<1>3. Spine(H)' /\ Roots'
  BY <1>2, SpineKept DEF Answers, Roots
<1>4. Answers(H, K)'
  BY <1>2, <1>3, OverAnswers
<1> QED
  BY <1>1, <1>4 DEF MapInv

\* insert gives up.
LEMMA FailAnswers ==
  ASSUME BTreeInv, NEW H, NEW K, Shape(H, K), Answers(H, K), Fail
  PROVE  MapInv'
<1>1. BTreeInv' /\ Shape(H, K)'
  BY FailStep
<1>2. failed' = TRUE /\ UNCHANGED <<pages, meta, root>> /\ Over
  BY DEF Fail, file
<1>3. Spine(H)' /\ Roots'
  BY <1>2, SpineKept DEF Answers, Roots
<1>4. Answers(H, K)'
  BY <1>2, <1>3, OverAnswers
<1> QED
  BY <1>1, <1>4 DEF MapInv

\* The process dies: the spine is the root that page 0 names.
LEMMA CrashAnswers ==
  ASSUME BTreeInv, Crash
  PROVE  MapInv'
<1>1. BTreeInv'
  BY CrashStep
<1>2. PICK H, K : Shape(H, K)'
  BY <1>1 DEF BTreeInv
<1>3. root' = meta /\ UNCHANGED <<pages, meta>> /\ Over
  BY DEF Crash, file
<1>4. Spine(H)'
  <2>1. meta' \in DOMAIN H
    BY <1>2 DEF Shape, Tree
  <2>2. {meta'} \in SUBSET DOMAIN H /\ \A p \in {meta'} : p = root'
    BY <1>3, <2>1
  <2> QED
    BY <2>2 DEF Spine
<1>5. Roots'
  BY <1>3 DEF Roots
<1>6. Answers(H, K)'
  BY <1>3, <1>4, <1>5, OverAnswers
<1> QED
  BY <1>1, <1>2, <1>6 DEF MapInv

\* write_meta: page 0 names the root in memory.
LEMMA WriteMetaAnswers ==
  ASSUME BTreeInv, NEW H, NEW K, Shape(H, K), Answers(H, K), WriteMeta
  PROVE  MapInv'
<1>1. BTreeInv' /\ Shape(H, K)'
  BY WriteMetaStep
<1>2. pc = "meta" /\ pc' = "done" /\ meta' = root /\ UNCHANGED <<pages, root, key, rid, found, failed>>
  BY DEF WriteMeta, call
<1>3. Spine(H)'
  <2>1. meta' \in DOMAIN H
    BY <1>1 DEF Shape, Tree
  <2>2. {meta'} \in SUBSET DOMAIN H /\ \A p \in {meta'} : p = root'
    BY <1>2, <2>1
  <2> QED
    BY <2>2 DEF Spine
<1>4. Halved' /\ Roots' /\ Complete(K)'
  BY <1>2 DEF Answers, Halved, Roots, Complete, Want
<1>5. Answers(H, K)'
  BY <1>2, <1>3, <1>4 DEF Answers
<1> QED
  BY <1>1, <1>5 DEF MapInv

\* A step that changes nothing.
LEMMA StutterAnswers ==
  ASSUME BTreeInv, NEW H, NEW K, Shape(H, K), Answers(H, K), UNCHANGED vars
  PROVE  MapInv'
<1>1. UNCHANGED <<pages, meta, root, pc, key, rid, path, left, sep, right, inserts, faults, found, failed>>
  BY DEF vars, call
<1>2. BTreeInv'
  BY StutterInv
<1>3. Tree(pages', root', meta', H, K) /\ Descending(H, K)' /\ Rooting(H, K)'
  BY <1>1 DEF Shape, Descending, Rooting, Spare, page
<1>4. Splitting(H, K)' /\ Absorbing(H, K)'
  BY <1>1 DEF Shape, Splitting, Absorbing, Spare, page, Slot
<1>5. Spine(H)'
  BY <1>1, SpineKept DEF Answers
<1>6. Complete(K)'
  BY <1>1 DEF Answers, Complete, Want, Moved, page, Slot
<1>7. Halved' /\ Roots'
  BY <1>1 DEF Answers, Halved, Honest, Want, Roots, page
<1>8. Shape(H, K)' /\ Answers(H, K)'
  BY <1>1, <1>3, <1>4, <1>5, <1>6, <1>7 DEF Shape, Answers
<1> QED
  BY <1>2, <1>8 DEF MapInv

-----------------------------------------------------------------------------
\* The leaf in hand has the answers for its keys.
LEMMA LeafFound ==
  ASSUME BTreeInv, pc = "leaf", NEW H, NEW K, Shape(H, K), Answers(H, K), NEW k \in K[page]
  PROVE  k \in Keys /\ Hit(pages[page], k) = found[k]
<1>1. K[page] \subseteq Keys /\ pages[page].leaf = TRUE
  BY InHand, LeafInHand
<1>2. Find(pages, root, k) = Hit(pages[page], k)
  BY <1>1, AnswersInHand DEF Answer
<1> QED
  BY <1>1, <1>2 DEF Answers, Complete

\* A leaf rewritten where it is, with what find is to answer.
LEMMA LeafDone ==
  ASSUME BTreeInv, NEW H, NEW K, Shape(H, K), Answers(H, K), pc = "leaf",
         NEW n, WriteBack(n), Finish, n.leaf = TRUE, BTreeInv', Shape(H, K)',
         \A k \in K[page] : Hit(n, k) = Want(k)
  PROVE  MapInv'
<1>1. /\ pages' = [pages EXCEPT ![page] = n] /\ pc' = "done"
      /\ UNCHANGED <<meta, root, key, rid, found, failed>>
  BY DEF WriteBack, Finish, call
<1>2. /\ page \in DOMAIN H /\ page \in DOMAIN pages /\ DOMAIN H \subseteq DOMAIN pages
      /\ pages[page].leaf = TRUE /\ key \in K[page]
  BY InHand, LeafInHand DEF Shape, Tree, Forest
<1>3. pages'[page] = n /\ \A q \in DOMAIN H : q = page \/ pages'[q] = pages[q]
  BY <1>1, <1>2
<1>4. Written(page, H, K, H, K)
  BY <1>3, WrittenIs
<1>5. ASSUME NEW k \in Keys PROVE Want(k) = Find(pages', root, k)
  <2>1. CASE k \in K[page]
    <3>1. Find(pages', root, k) = Hit(n, k)
      BY <1>1, <1>3, <1>4, <2>1, AnswersWhenWritten DEF Answer
    <3> QED
      BY <2>1, <3>1
  <2>2. CASE k \notin K[page]
    <3>1. root \in DOMAIN H
      BY DEF Shape, Tree
    <3>2. Find(pages', root, k) = Find(pages, root, k)
      BY <1>4, <2>2, <3>1, AnswersBeside
    <3>3. k # key
      BY <1>2, <2>2
    <3> QED
      BY <3>2, <3>3 DEF Answers, Complete, Want
  <2> QED
    BY <2>1, <2>2
<1>6. Complete(K)'
  BY <1>1, <1>5 DEF Complete, Want
<1>7. Spine(H)'
  BY <1>1, <1>2, <1>3, SpineKept DEF Answers
<1>8. Halved' /\ Roots'
  BY <1>1 DEF Answers, Halved, Roots
<1>9. Answers(H, K)'
  BY <1>1, <1>6, <1>7, <1>8 DEF Answers
<1> QED
  BY <1>9 DEF MapInv

\* The row id of a key is replaced.
LEMMA LeafReplaceAnswers ==
  ASSUME BTreeInv, NEW H, NEW K, Shape(H, K), Answers(H, K), LeafReplace
  PROVE  MapInv'
<1> DEFINE n == [pages[page] EXCEPT !.vals[At] = rid]
<1>1. pc = "leaf" /\ key \in Range(pages[page].keys) /\ WriteBack(n) /\ Finish
  BY DEF LeafReplace
<1>2. BTreeInv' /\ Shape(H, K)'
  BY LeafReplaceStep
<1>3. PICK ks, vs, at : ks = pages[page].keys /\ vs = pages[page].vals /\ at = At
  OBVIOUS
<1>4. /\ pages[page] \in Nodes /\ pages[page].leaf = TRUE
      /\ ks \in Seq(Int) /\ Sorted(ks) /\ DOMAIN ks = 1..Len(ks)
      /\ vs \in Seq(Nat) /\ DOMAIN vs = 1..Len(ks)
  BY <1>1, <1>3, InHand, LeafInHand, NodeType
<1>5. PICK i \in 1..Len(ks) : key = ks[i]
  BY <1>1, <1>3, <1>4 DEF Range
<1>6. at = i
  <2>1. 1 + Cardinality({j \in DOMAIN ks : ks[j] < key}) = i
    BY <1>4, <1>5, AtOfKey
  <2> QED
    BY <1>3, <2>1 DEF At
<1>7. /\ n.leaf = TRUE /\ n.keys = ks /\ n.vals = [vs EXCEPT ![at] = rid]
  <2>1. pages[page] \in [leaf : BOOLEAN, keys : Seq(Keys), vals : Seq(Nat), next : Nat]
    BY <1>4 DEF Nodes
  <2> QED
    BY <1>3, <1>4, <2>1
<1> HIDE DEF n
<1>8. n.vals[at] = rid /\ \A j \in 1..Len(ks) : j # at => n.vals[j] = vs[j]
  BY <1>4, <1>5, <1>6, <1>7
<1>9. ASSUME NEW k \in K[page] PROVE Hit(n, k) = Want(k)
  <2>1. Hit(n, k) = IF k = key THEN rid ELSE Hit(pages[page], k)
    <3>1. PICK m : m = pages[page]
      OBVIOUS
    <3>2. m.keys \in Seq(Int) /\ Sorted(m.keys) /\ HasValue(n, m, at, rid)
      BY <1>3, <1>4, <1>5, <1>6, <1>7, <1>8, <3>1 DEF HasValue
    <3>3. Hit(n, k) = IF k = m.keys[at] THEN rid ELSE Hit(m, k)
      BY <3>2, HitReplaced
    <3> QED
      BY <1>3, <1>5, <1>6, <3>1, <3>3
  <2>2. Hit(pages[page], k) = found[k]
    BY <1>1, LeafFound
  <2> QED
    BY <2>1, <2>2 DEF Want
<1> QED
  BY <1>1, <1>2, <1>7, <1>9, LeafDone

\* A leaf of the entries with the new one among them has what find is to answer.
LEMMA EntryWanted ==
  ASSUME BTreeInv, pc = "leaf", NEW H, NEW K, Shape(H, K), Answers(H, K),
         key \notin Range(pages[page].keys),
         NEW n, n.keys = LeafKeys, n.vals = LeafRids, NEW k \in K[page]
  PROVE  Hit(n, k) = Want(k)
<1>1. PICK m, at : m = pages[page] /\ at = At
  OBVIOUS
<1>2. /\ m \in Nodes /\ m.keys \in Seq(Int) /\ Sorted(m.keys) /\ m.vals \in Seq(Nat)
      /\ m.keys \in Seq(Keys) /\ key \in Keys /\ key \in Int /\ rid \in Nat /\ Len(m.vals) = Len(m.keys)
  BY <1>1, InHand, LeafInHand, NodeType, KeysAssumption
<1>3. key \notin Range(m.keys) /\ at = 1 + Cardinality({i \in DOMAIN m.keys : m.keys[i] < key})
  BY <1>1 DEF At
<1>4. PICK ks, vs : ks = m.keys /\ vs = m.vals
  OBVIOUS
<1>5. at \in 1..(Len(ks) + 1)
  <2>1. ks \in Seq(Int) /\ Sorted(ks) /\ key \notin Range(ks)
        /\ at = 1 + Cardinality({i \in DOMAIN ks : ks[i] < key})
    BY <1>2, <1>3, <1>4
  <2> QED
    BY <1>2, <2>1, AtSplits
<1>6. n.keys = InsertAt(ks, at, key) /\ n.vals = InsertAt(vs, at, rid)
  BY <1>1, <1>4 DEF LeafKeys, LeafRids
<1>7. \A j \in 1..(Len(ks) + 1) :
        n.keys[j] = IF j < at THEN ks[j] ELSE IF j = at THEN key ELSE ks[j - 1]
  <2>1. ks \in Seq(Keys)
    BY <1>2, <1>4
  <2> QED
    BY <1>2, <1>5, <1>6, <2>1, InsertAtElements
<1>8. \A j \in 1..(Len(ks) + 1) :
        n.vals[j] = IF j < at THEN vs[j] ELSE IF j = at THEN rid ELSE vs[j - 1]
  <2> DEFINE N == Nat
             r == rid
  <2>1. vs \in Seq(N) /\ r \in N /\ Len(vs) = Len(ks) /\ at \in 1..(Len(vs) + 1)
    BY <1>2, <1>4, <1>5
  <2> HIDE DEF N, r
  <2>2. \A j \in 1..(Len(vs) + 1) :
          InsertAt(vs, at, r)[j] = IF j < at THEN vs[j] ELSE IF j = at THEN r ELSE vs[j - 1]
    BY <2>1, InsertAtElements
  <2> QED
    BY <1>6, <2>1, <2>2 DEF r
<1>9. n.keys \in Seq(Int) /\ Sorted(n.keys) /\ Len(n.keys) = Len(ks) + 1
  BY <1>1, <1>4, LeafEntry, KeysAssumption, SeqMonotonic
<1>10. Hit(n, k) = IF k = key THEN rid ELSE Hit(m, k)
  <2>1. HasEntry(n, m, at, key, rid)
    BY <1>4, <1>5, <1>7, <1>8, <1>9 DEF HasEntry
  <2> QED
    BY <1>2, <1>3, <1>9, <2>1, HitInserted
<1>11. Hit(m, k) = found[k]
  BY <1>1, LeafFound
<1> QED
  BY <1>10, <1>11 DEF Want

\* An entry is added to a leaf that has room.
LEMMA LeafInsertAnswers ==
  ASSUME BTreeInv, NEW H, NEW K, Shape(H, K), Answers(H, K), LeafInsert
  PROVE  MapInv'
<1> DEFINE n == Leaf(LeafKeys, LeafRids, pages[page].next)
<1>1. pc = "leaf" /\ key \notin Range(pages[page].keys) /\ WriteBack(n) /\ Finish
  BY DEF LeafInsert
<1>2. BTreeInv' /\ Shape(H, K)'
  BY LeafInsertStep
<1>3. n.leaf = TRUE /\ n.keys = LeafKeys /\ n.vals = LeafRids
  BY DEF Leaf
<1> HIDE DEF n
<1>4. \A k \in K[page] : Hit(n, k) = Want(k)
  BY <1>1, <1>3, EntryWanted
<1> QED
  BY <1>1, <1>2, <1>3, <1>4, LeafDone

-----------------------------------------------------------------------------
\* A page added to the file changes no answer.
LEMMA Appended ==
  ASSUME BTreeInv, BTreeInv', NEW H, NEW K,
         Tree(pages, root, meta, H, K), Tree(pages', root', meta', H, K), NEW r, Alloc(r)
  PROVE  /\ NewPage \notin DOMAIN H /\ pages'[NewPage] = r
         /\ \A q \in DOMAIN pages : pages'[q] = pages[q]
         /\ DOMAIN H \subseteq DOMAIN pages
         /\ Written(NewPage, H, K, H, K)
         /\ \A k \in Keys : \A q \in DOMAIN H : Find(pages', q, k) = Find(pages, q, k)
<1> DEFINE N == Nodes \cup {r}
<1>1. pages \in Seq(Nodes) /\ Nodes \subseteq N /\ r \in N /\ pages' = Append(pages, r)
  BY DEF BTreeInv, TypeOK, Alloc
<1> HIDE DEF N
<1>2. pages \in Seq(N)
  BY <1>1, SeqMonotonic
<1>3. /\ DOMAIN pages = 1..Len(pages) /\ Len(pages) \in Nat
      /\ pages'[Len(pages) + 1] = r /\ \A q \in 1..Len(pages) : pages'[q] = pages[q]
  BY <1>1, <1>2, AppendProperties
<1>4. DOMAIN H \subseteq DOMAIN pages
  BY DEF Tree, Forest
<1>5. NewPage \notin DOMAIN H
  BY <1>3, <1>4 DEF NewPage
<1>6. Written(NewPage, H, K, H, K)
  <2>1. FileOK(pages) /\ FileOK(pages')
    BY InvIsShape DEF BTreeInv, TypeOK, NodesOK, FileOK
  <2> QED
    BY <1>3, <1>4, <2>1 DEF Written
<1>7. \A k \in Keys : \A q \in DOMAIN H : Find(pages', q, k) = Find(pages, q, k)
  BY <1>5, <1>6, AnswersBeside
<1> QED
  BY <1>3, <1>4, <1>5, <1>6, <1>7 DEF NewPage

\* A split was begun: what is to be answered is in the halves.
LEMMA SplitAnswers ==
  ASSUME BTreeInv, NEW H, NEW K, BTreeInv', Shape(H, K)', Tree(pages, root, meta, H, K), Spine(H), Roots,
         pc # "meta", page \in DOMAIN H, found = [k \in Keys |-> found[k]],
         NEW l, NEW x, NEW r, Split(l, x, r),
         \A k \in Keys : Honest(k),
         ~l.leaf => l.vals[1] = pages[page].vals[1],
         \A k \in Keys : k \notin K[page] => Want(k) = Find(pages, root, k),
         \A k \in K[page] : k < x => Want(k) = Answer(pages', l, k),
         \A k \in K[page] : ~(k < x) => Want(k) = Answer(pages', r, k)
  PROVE  Answers(H, K)'
<1>1. /\ Alloc(r) /\ left' = l /\ sep' = x /\ right' = NewPage /\ pc' = "left"
      /\ UNCHANGED <<meta, root, key, rid, path, found, failed>>
  BY DEF Split
<1>2. Tree(pages', root', meta', H, K) /\ root \in DOMAIN H /\ K[page] \subseteq Keys
  BY DEF Shape, Tree, Forest
<1>3. /\ pages'[NewPage] = r
      /\ \A q \in DOMAIN pages : pages'[q] = pages[q]
      /\ DOMAIN H \subseteq DOMAIN pages
      /\ \A k \in Keys : \A q \in DOMAIN H : Find(pages', q, k) = Find(pages, q, k)
  BY <1>1, <1>2, Appended
<1>4. page' = page /\ \A k \in Keys : Want(k)' = Want(k) /\ Find(pages', root', k) = Find(pages, root, k)
  BY <1>1, <1>2, <1>3 DEF page, Want
<1>5. Complete(K)'
  <2>1. \A k \in Keys : Want(k)' = IF k \notin K[page] THEN Find(pages', root, k)
                                   ELSE Answer(pages', IF k < x THEN l ELSE r, k)
    BY <1>1, <1>4
  <2> QED
    BY <1>1, <1>3, <1>4, <2>1 DEF Complete
<1>6. Halved'
  <2>1. pages'[page] = pages[page]
    BY <1>3
  <2>2. \A k \in Keys : Honest(k)'
    BY <1>1, <1>4 DEF Honest
  <2> QED
    BY <1>1, <1>4, <2>1, <2>2 DEF Halved
<1>7. Spine(H)'
  BY <1>1, <1>3, SpineKept
<1>8. Roots'
  BY <1>1 DEF Roots
<1> QED
  BY <1>1, <1>5, <1>6, <1>7, <1>8 DEF Answers

\* A half of the entries answers as they all do.
LEMMA HalfAnswers ==
  ASSUME NEW ks \in Seq(Keys), NEW vs \in Seq(Nat), Len(vs) = Len(ks), Sorted(ks),
         NEW a \in Nat, NEW b \in Nat, a < b, b <= Len(ks), b - a <= MAX_KEYS, NEW next \in Nat,
         NEW x, Only(ks, x, a, b)
  PROVE  Hit(Leaf(SubSeq(ks, a + 1, b), SubSeq(vs, a + 1, b), next), x) = Hit(Leaf(ks, vs, 0), x)
<1> DEFINE m == Leaf(SubSeq(ks, a + 1, b), SubSeq(vs, a + 1, b), next)
           n == Leaf(ks, vs, 0)
<1>1. m.keys = SubSeq(ks, a + 1, b) /\ m.vals = SubSeq(vs, a + 1, b) /\ n.keys = ks /\ n.vals = vs
  BY DEF Leaf
<1>2. m \in Nodes /\ NodeOK(m, 0)
  BY LeafHalf DEF HasHalf
<1> HIDE DEF m, n
<1>3. m.keys \in Seq(Int) /\ Sorted(m.keys) /\ n.keys \in Seq(Int) /\ Sorted(n.keys)
  <2>1. ks \in Seq(Int)
    BY KeysAssumption, SeqMonotonic
  <2> QED
    BY <1>1, <1>2, <2>1, NodeType DEF NodeOK, Sorted
<1>4. /\ Len(SubSeq(ks, a + 1, b)) = b - a
      /\ \A j \in 1..(b - a) : SubSeq(ks, a + 1, b)[j] = ks[a + j]
  <2> DEFINE C == Keys
  <2>1. ks \in Seq(C)
    OBVIOUS
  <2> HIDE DEF C
  <2> QED
    BY <2>1, SubSeqFrom
<1>5. \A j \in 1..(b - a) : SubSeq(vs, a + 1, b)[j] = vs[a + j]
  <2> DEFINE N == Nat
             A == a
             B == b
  <2>1. vs \in Seq(N) /\ A \in Nat /\ B \in Nat /\ A <= B /\ B <= Len(vs)
    OBVIOUS
  <2> HIDE DEF N, A, B
  <2>2. \A j \in 1..(B - A) : SubSeq(vs, A + 1, B)[j] = vs[A + j]
    BY SMTT(30), <2>1, SubSeqFrom
  <2> QED
    BY <2>2 DEF N, A, B
<1>6. HasEntries(m, n, a, b)
  BY <1>1, <1>4, <1>5 DEF HasEntries
<1>7. Hit(m, x) = Hit(n, x)
  <2>1. a <= b /\ b <= Len(n.keys) /\ Only(n.keys, x, a, b)
    BY <1>1
  <2>2. PICK f, g : f = m /\ g = n
    OBVIOUS
  <2>3. /\ g.keys \in Seq(Int) /\ Sorted(g.keys) /\ a <= b /\ b <= Len(g.keys)
        /\ f.keys \in Seq(Int) /\ Sorted(f.keys) /\ HasEntries(f, g, a, b) /\ Only(g.keys, x, a, b)
    BY <1>3, <1>6, <2>1, <2>2
  <2>4. Hit(f, x) = Hit(g, x)
    BY <2>3, HitPart
  <2> QED
    BY <2>2, <2>4
<1> QED
  BY <1>7 DEF m, n

\* A leaf with no room is split.
LEMMA LeafSplitAnswers ==
  ASSUME BTreeInv, NEW H, NEW K, Shape(H, K), Answers(H, K), LeafSplit
  PROVE  MapInv'
<1>1. BTreeInv' /\ Shape(H, K)'
  BY LeafSplitStep
<1>2. pc = "leaf" /\ key \notin Range(pages[page].keys)
  BY DEF LeafSplit
<1>3. PICK ks, vs, next : ks = LeafKeys /\ vs = LeafRids /\ next = pages[page].next
  OBVIOUS
<1>4. PICK mid \in Nat, n \in Nat :
        /\ n = Len(ks) /\ 0 < mid /\ mid < n /\ mid <= MAX_KEYS /\ n - mid <= MAX_KEYS
        /\ Split(Leaf(SubSeq(ks, 1, mid), SubSeq(vs, 1, mid), NewPage), ks[mid + 1],
                 Leaf(SubSeq(ks, mid + 1, n), SubSeq(vs, mid + 1, n), pages[page].next))
        /\ \A j \in 1..n : IF j <= mid THEN ks[j] < ks[mid + 1] ELSE ks[j] >= ks[mid + 1]
  BY <1>3, LeafCut
<1>5. PICK x, l, r : /\ x = ks[mid + 1]
                     /\ l = Leaf(SubSeq(ks, 1, mid), SubSeq(vs, 1, mid), NewPage)
                     /\ r = Leaf(SubSeq(ks, mid + 1, n), SubSeq(vs, mid + 1, n), next)
  OBVIOUS
<1>6. Split(l, x, r) /\ \A j \in 1..n : IF j <= mid THEN ks[j] < x ELSE ks[j] >= x
  BY <1>3, <1>4, <1>5
<1>7. /\ ks \in Seq(Keys) /\ vs \in Seq(Nat) /\ Len(vs) = Len(ks) /\ Sorted(ks)
      /\ Range(ks) \subseteq K[page]
  BY <1>2, <1>3, LeafEntry
<1>8. NewPage \in Nat /\ next \in Nat /\ page \in DOMAIN H /\ K[page] \subseteq Keys /\ key \in K[page]
  <2>1. Len(pages) \in Nat
    BY InvIsShape
  <2>2. NewPage \in Nat
    BY <2>1 DEF NewPage
  <2>3. pages[page].next \in Nat
    BY <1>2, LeafInHand
  <2> QED
    BY <1>2, <1>3, <2>2, <2>3, InHand
<1>9. x \in Int /\ \A k \in Keys : k \in Int
  <2>1. mid + 1 \in 1..Len(ks)
    BY <1>4
  <2>2. ks[mid + 1] \in Keys
    BY <1>7, <2>1, ElementOfSeq
  <2> QED
    BY <1>5, <2>2, KeysAssumption
<1>10. ASSUME NEW k \in K[page] PROVE Hit(Leaf(ks, vs, 0), k) = Want(k)
  <2>1. PICK m : m = Leaf(ks, vs, 0)
    OBVIOUS
  <2>2. m.keys = LeafKeys /\ m.vals = LeafRids
    BY <1>3, <2>1 DEF Leaf
  <2> QED
    BY <1>2, <2>1, <2>2, EntryWanted
<1>11. ASSUME NEW k \in K[page], k < x PROVE Want(k) = Answer(pages', l, k)
  <2>1. Only(ks, k, 0, mid)
    <3>1. \A i \in 1..Len(ks) : ks[i] \in Int
      BY <1>7, KeysAssumption, ElementOfSeq
    <3>2. ASSUME NEW i \in 1..Len(ks), ks[i] = k PROVE i \in (0 + 1)..mid
      <4>1. ~(ks[i] >= x)
        BY <1>9, <1>11, <3>1, <3>2
      <4> QED
        BY <1>4, <1>6, <4>1
    <3> QED
      BY <3>2 DEF Only
  <2>2. 0 \in Nat /\ 0 < mid /\ mid <= Len(ks) /\ mid - 0 <= MAX_KEYS
    BY <1>4
  <2>3. Hit(Leaf(SubSeq(ks, 0 + 1, mid), SubSeq(vs, 0 + 1, mid), NewPage), k) = Hit(Leaf(ks, vs, 0), k)
    BY <1>7, <1>8, <2>1, <2>2, HalfAnswers
  <2>4. 0 + 1 = 1 /\ l.leaf = TRUE
    BY <1>5 DEF Leaf
  <2> QED
    BY <1>5, <1>10, <2>3, <2>4 DEF Answer
<1>12. ASSUME NEW k \in K[page], ~(k < x) PROVE Want(k) = Answer(pages', r, k)
  <2>1. Only(ks, k, mid, n)
    BY <1>4, <1>6, <1>12 DEF Only
  <2>2. mid < n /\ n <= Len(ks) /\ n - mid <= MAX_KEYS
    BY <1>4
  <2>3. Hit(Leaf(SubSeq(ks, mid + 1, n), SubSeq(vs, mid + 1, n), next), k) = Hit(Leaf(ks, vs, 0), k)
    BY <1>7, <1>8, <2>1, <2>2, HalfAnswers
  <2>4. r.leaf = TRUE
    BY <1>5 DEF Leaf
  <2> QED
    BY <1>5, <1>10, <2>3, <2>4 DEF Answer
<1>13. \A k \in Keys : Honest(k)
  BY <1>2, AllHonest
<1>14. \A k \in Keys : k \notin K[page] => Want(k) = Find(pages, root, k)
  BY <1>2, <1>8 DEF Answers, Complete, Want
<1>15. l.leaf = TRUE
  BY <1>5 DEF Leaf
<1>16. Answers(H, K)'
  BY <1>1, <1>2, <1>6, <1>8, <1>11, <1>12, <1>13, <1>14, <1>15, SplitAnswers DEF Answers, Shape
<1> QED
  BY <1>1, <1>16 DEF MapInv

\* The new root is written: nothing refers to it yet.
LEMMA NewRootAnswers ==
  ASSUME BTreeInv, NEW H, NEW K, Shape(H, K), Answers(H, K), NewRoot
  PROVE  MapInv'
<1>1. BTreeInv' /\ Shape(H, K)'
  BY NewRootStep
<1>2. PICK n, r : n = Internal(<<sep>>, <<root, right>>) /\ r = right
  OBVIOUS
<1>3. /\ pc = "root" /\ pc' = "set" /\ Alloc(n) /\ right' = NewPage
      /\ UNCHANGED <<meta, root, key, rid, path, left, sep, found, failed>>
  BY <1>2 DEF NewRoot
<1>4. /\ Tree(pages, root, meta, H, K) /\ Tree(pages', root', meta', H, K) /\ root \in DOMAIN H
      /\ H[root] \in Nat
  BY <1>1 DEF Shape, Tree, Forest
<1>5. /\ NewPage \notin DOMAIN H /\ pages'[NewPage] = n
      /\ \A q \in DOMAIN pages : pages'[q] = pages[q]
      /\ DOMAIN H \subseteq DOMAIN pages
      /\ Written(NewPage, H, K, H, K)
      /\ \A k \in Keys : \A q \in DOMAIN H : Find(pages', q, k) = Find(pages, q, k)
  BY <1>1, <1>3, <1>4, Appended
<1>6. r \in DOMAIN pages /\ Fits(pages[r], {k \in Keys : k >= sep}, H[root], H, K)
  BY <1>2, <1>3 DEF Shape, Rooting, Spare
<1>7. pages'[r] = pages[r] /\ pages'[right'].vals[2] = r
  BY <1>2, <1>3, <1>5, <1>6 DEF Internal
<1>8. \A k \in Keys : Answer(pages', pages'[r], k) = Answer(pages, pages[r], k)
  <2>1. pages[r] \in Nodes /\ NodeOK(pages[r], Len(pages))
    BY <1>6, InvIsShape
  <2>2. \A k \in Keys : Answer(pages', pages[r], k) = Answer(pages, pages[r], k)
    BY <1>4, <1>5, <1>6, <2>1, AnswersOfNode
  <2> QED
    BY <1>7, <2>2
<1>9. Complete(K)'
  <2>1. \A k \in Keys : Want(k)' = Want(k)
    BY <1>3 DEF Want
  <2>2. \A k \in Keys :
          Want(k) = IF k >= sep THEN Answer(pages, pages[r], k) ELSE Find(pages, root, k)
    BY <1>2, <1>3 DEF Answers, Complete
  <2>3. \A k \in Keys :
          Want(k)' = IF k >= sep THEN Answer(pages', pages'[pages'[right'].vals[2]], k)
                     ELSE Find(pages', root, k)
    BY <1>4, <1>5, <1>7, <1>8, <2>1, <2>2
  <2> QED
    BY <1>3, <2>3 DEF Complete
<1>10. Spine(H)'
  BY <1>3, <1>5, SpineKept DEF Answers
<1>11. Halved' /\ Roots'
  BY <1>3 DEF Answers, Halved, Roots
<1>12. Answers(H, K)'
  BY <1>3, <1>9, <1>10, <1>11 DEF Answers
<1> QED
  BY <1>1, <1>12 DEF MapInv

\* The root of two children leads to the first for a key below its own.
LEMMA RootChild ==
  ASSUME NEW x \in Keys, NEW c, NEW d, NEW k \in Keys
  PROVE  Child(Internal(<<x>>, <<c, d>>), k) = IF k >= x THEN d ELSE c
<1>1. PICK ks : ks = <<x>>
  OBVIOUS
<1>2. ks \in Seq(Int) /\ Len(ks) = 1 /\ ks[1] = x /\ x \in Int /\ k \in Int
  BY <1>1, KeysAssumption
<1>3. ChildIndex(ks, k) = IF k >= x THEN 2 ELSE 1
  <2>1. CASE k >= x
    <3>1. 2 \in 1..(Len(ks) + 1) /\ \A i \in 1..Len(ks) : i < 2 <=> ks[i] <= k
      BY <1>2, <2>1
    <3> QED
      BY <1>2, <2>1, <3>1, ChildIndexIs
  <2>2. CASE ~(k >= x)
    <3>1. 1 \in 1..(Len(ks) + 1) /\ \A i \in 1..Len(ks) : i < 1 <=> ks[i] <= k
      BY <1>2, <2>2
    <3> QED
      BY <1>2, <2>2, <3>1, ChildIndexIs
  <2> QED
    BY <2>1, <2>2
<1>4. Internal(<<x>>, <<c, d>>).keys = ks /\ Internal(<<x>>, <<c, d>>).vals = <<c, d>>
  BY <1>1 DEF Internal
<1> QED
  BY <1>3, <1>4 DEF Child

\* set_root: find starts at the new root, and finds what both halves hold.
LEMMA SetRootAnswers ==
  ASSUME BTreeInv, NEW H, NEW K, Shape(H, K), Answers(H, K), SetRoot
  PROVE  MapInv'
<1>1. BTreeInv'
  BY SetRootStep
<1>2. PICK H2, K2 : Shape(H2, K2)' /\ Crowned(H, K, H2, K2)
  BY SetRootStep
<1>3. /\ pc = "set" /\ pc' = "meta" /\ root' = right
      /\ UNCHANGED <<pages, meta, key, rid, found, failed>>
  BY DEF SetRoot, file, call
<1>4. PICK r : sep \in Keys /\ pages[right] = Internal(<<sep>>, <<root, r>>) /\ root \in DOMAIN H
  BY <1>3 DEF Shape, Rooting, Tree
<1>5. /\ ~pages[right].leaf /\ pages[right].vals[1] = root /\ pages[right].vals[2] = r
      /\ {root, r, right} \subseteq DOMAIN H2
  BY <1>2, <1>4 DEF Internal, Crowned
<1>6. FileOK(pages) /\ Tree(pages, right, meta, H2, K2)
  BY <1>2, <1>3, InvIsShape DEF Shape
<1>7. ASSUME NEW k \in Keys PROVE Want(k) = Find(pages, right, k)
  <2>1. Find(pages, right, k) = Find(pages, IF k >= sep THEN r ELSE root, k)
    <3>1. Child(pages[right], k) = IF k >= sep THEN r ELSE root
      BY <1>4, RootChild
    <3> QED
      BY <1>5, <1>6, <3>1, AnswerIs DEF Answer
  <2>2. Find(pages, r, k) = Answer(pages, pages[r], k)
    BY <1>5, <1>6, AnswerIs
  <2> QED
    BY <1>3, <1>5, <2>1, <2>2 DEF Answers, Complete
<1>8. Complete(K2)'
  BY <1>3, <1>7 DEF Complete, Want
<1>9. Spine(H2)'
  <2>1. PICK S \in SUBSET DOMAIN H :
          /\ meta \in S
          /\ \A p \in S : p = root \/ \E q \in S : ~pages[q].leaf /\ pages[q].vals[1] = p
    BY DEF Answers, Spine
  <2>2. PICK T : T = S \cup {right}
    OBVIOUS
  <2>3. /\ T \in SUBSET DOMAIN H2 /\ meta \in T
        /\ \A p \in T : p = right \/ \E q \in T : ~pages[q].leaf /\ pages[q].vals[1] = p
    BY <1>2, <1>5, <2>1, <2>2 DEF Crowned
  <2> QED
    BY <1>3, <2>3 DEF Spine
<1>10. Halved' /\ Roots'
  BY <1>3 DEF Halved, Roots
<1>11. Answers(H2, K2)'
  BY <1>3, <1>8, <1>9, <1>10 DEF Answers
<1> QED
  BY <1>1, <1>2, <1>11 DEF MapInv

\* The half that stays is written: the other one still holds its answers.
LEMMA WriteLeftAnswers ==
  ASSUME BTreeInv, NEW H, NEW K, Shape(H, K), Answers(H, K), WriteLeft
  PROVE  MapInv'
<1>1. PICK S, K2, p, n, r : /\ S = Below(K[page], sep) /\ K2 = Narrowed(K, page, S)
                            /\ p = page /\ n = Len(path) /\ r = right
  OBVIOUS
<1>2. BTreeInv' /\ Shape(H, K2)'
  BY <1>1, WriteLeftStep
<1>3. /\ pages'[p] = left /\ \A q \in DOMAIN pages \ {p} : pages'[q] = pages[q]
      /\ K2[p] = S /\ \A q \in DOMAIN H \ {p} : K2[q] = K[q]
      /\ r \in DOMAIN pages \ DOMAIN H /\ pages'[r] = pages[r]
      /\ DOMAIN pages' = DOMAIN pages /\ Len(pages') = Len(pages)
      /\ Fits(pages'[r], AtLeast(K[p], sep), H[p], H, K2)
  <2>1. /\ pages'[page] = left /\ \A q \in DOMAIN pages \ {page} : pages'[q] = pages[q]
        /\ K2[page] = S /\ \A q \in DOMAIN H \ {page} : K2[q] = K[q]
        /\ right \in DOMAIN pages \ DOMAIN H /\ pages'[right] = pages[right]
        /\ DOMAIN pages' = DOMAIN pages /\ Len(pages') = Len(pages)
        /\ \A T : AtLeast(K[page], sep) \subseteq T => Fits(pages'[right], T, H[page], H, K2)
    <3>1. S = Below(K[page], sep) /\ K2 = Narrowed(K, page, S)
      BY <1>1
    <3> QED
      BY <3>1, LeftWritten
  <2>2. Fits(pages'[right], AtLeast(K[page], sep), H[page], H, K2)
    BY <2>1
  <2> QED
    BY <1>1, <2>1, <2>2
<1>4. /\ pc = "left" /\ path' = Front(path) /\ pc' = IF n = 1 THEN "root" ELSE "absorb"
      /\ UNCHANGED <<meta, root, key, rid, sep, right, found, failed>>
  BY <1>1 DEF WriteLeft
<1>5. /\ p \in DOMAIN H /\ K[p] \subseteq Keys /\ H[p] \in Nat /\ DOMAIN H \subseteq DOMAIN pages
      /\ root \in DOMAIN H /\ Fits(pages[p], K[p], H[p], H, K)
  BY <1>1, <1>4, InHand DEF Shape, Tree, Forest
<1>6. /\ left \in Nodes /\ NodeOK(left, Len(pages)) /\ Fits(left, S, H[p], H, K)
      /\ Fits(pages[r], AtLeast(K[p], sep), H[p], H, K)
      /\ pages[r] \in Nodes /\ NodeOK(pages[r], Len(pages)) /\ NodeOK(pages'[r], Len(pages'))
      /\ sep \in K[p] /\ sep \in Int /\ \A k \in Keys : k \in Int
  <2>1. pages[r] \in Nodes /\ NodeOK(pages[r], Len(pages))
    BY <1>3, InvIsShape
  <2> QED
    BY <1>1, <1>3, <1>4, <1>5, <2>1, KeysAssumption DEF Shape, Splitting, Spare, Below, AtLeast
<1>7. Written(p, H, K, H, K2)
  BY <1>2, <1>3, <1>5, WrittenIs
<1>8. \A k \in Keys : Want(k)' = Want(k)
  BY <1>4 DEF Want
<1>9. ASSUME NEW k \in K[p], k < sep PROVE Want(k) = Find(pages', root, k)
  <2>1. Want(k) = Answer(pages, left, k)
    BY <1>1, <1>4, <1>5, <1>9 DEF Answers, Complete
  <2>2. Answer(pages', left, k) = Answer(pages, left, k)
    BY <1>5, <1>6, <1>7, AnswersOfNode
  <2>3. k \in K2[p]
    BY <1>1, <1>3, <1>9 DEF Below
  <2>4. Find(pages', root, k) = Answer(pages', pages'[page], k)
    BY <1>1, <1>4, <1>5, <1>7, <2>3, AnswersWhenWritten
  <2> QED
    BY <1>1, <1>3, <2>1, <2>2, <2>4
<1>10. ASSUME NEW k \in K[p], ~(k < sep) PROVE Want(k) = Answer(pages', pages'[r], k)
  <2>1. Want(k) = Answer(pages, pages[r], k)
    BY <1>1, <1>4, <1>5, <1>10 DEF Answers, Complete
  <2>2. Answer(pages', pages[r], k) = Answer(pages, pages[r], k)
    BY <1>5, <1>6, <1>7, AnswersOfNode
  <2> QED
    BY <1>3, <2>1, <2>2
<1>11. ASSUME NEW k \in Keys, k \notin K[p]
       PROVE  /\ Want(k) = Find(pages', root, k)
              /\ Answer(pages', pages'[r], k) = NoRid /\ Find(pages', p, k) = NoRid
  <2>1. k \notin K2[p]
    BY <1>1, <1>3, <1>11 DEF Below
  <2>2. Find(pages', root, k) = Find(pages, root, k)
    BY <1>5, <1>7, <1>11, <2>1, AnswersBeside
  <2>3. Want(k) = Find(pages, root, k)
    BY <1>1, <1>4, <1>11 DEF Answers, Complete
  <2>4. Answer(pages', pages'[r], k) = NoRid
    <3>1. k \notin AtLeast(K[p], sep)
      BY <1>11 DEF AtLeast
    <3>2. Fits(pages'[r], AtLeast(K[p], sep), H[p], H, K2) /\ pages'[r] \in Nodes
      BY <1>3, <1>6
    <3> QED
      BY <1>6, <1>7, <3>1, <3>2, NoAnswerNode DEF Written
  <2>5. Find(pages', p, k) = NoRid
    BY <1>5, <1>7, <2>1, NoAnswer DEF Written
  <2> QED
    BY <2>2, <2>3, <2>4, <2>5
<1>12. ASSUME n = 1 PROVE Complete(K2)'
  <2>1. p = root /\ pc' = "root"
    BY <1>1, <1>4, <1>12, InHand DEF Shape, Descending, Descent
  <2>2. ASSUME NEW k \in Keys
        PROVE  Want(k) = IF k >= sep THEN Answer(pages', pages'[r], k) ELSE Find(pages', root, k)
    BY <1>6, <1>9, <1>10, <1>11, <2>1
  <2> QED
    BY <1>1, <1>2, <1>4, <1>8, <2>1, <2>2 DEF Complete
<1>13. ASSUME n # 1 PROVE Complete(K2)'
  <2>1. PICK q, c : q = path[n - 1] /\ c = ChildIndex(pages[q].keys, key)
    OBVIOUS
  <2>2. /\ q \in DOMAIN H /\ q # p /\ ~pages[q].leaf /\ p = pages[q].vals[c] /\ page' = q
        /\ \A k \in K[p] : k \in K[q] /\ ChildIndex(pages[q].keys, k) = c
    <3>1. Len(path) # 1 /\ q = path[Len(path) - 1]
      BY <1>1, <1>13, <2>1
    <3>2. /\ q \in DOMAIN H /\ q # page /\ ~pages[q].leaf /\ page = pages[q].vals[c] /\ page' = q
          /\ \A k \in K[page] : k \in K[q] /\ ChildIndex(pages[q].keys, k) = c
      BY <1>4, <2>1, <3>1, Parent
    <3> QED
      BY <1>1, <3>2
  <2>3. pages'[q] = pages[q] /\ K2[q] = K[q] /\ Slot' = c /\ pc' = "absorb"
    BY <1>3, <1>4, <1>5, <1>13, <2>1, <2>2 DEF Slot
  <2>4. ASSUME NEW k \in Keys
        PROVE  Moved(k, K2)' <=> k \in K[q] /\ ChildIndex(pages[q].keys, k) = c /\ k >= sep
    BY <1>4, <2>2, <2>3 DEF Moved
  <2>5. ASSUME NEW k \in Keys, k \notin K[p], k \in K[q], ChildIndex(pages[q].keys, k) = c
        PROVE  Find(pages', root, k) = NoRid
    <3>1. /\ path' \in Seq(DOMAIN H) /\ Descent(pages', path', root, key)
          /\ \A j \in DOMAIN path' : H[path'[j]] = H[root] + 1 - j
      BY <1>2, <1>4, <2>3 DEF Shape, Descending
    <3>2. Down(path', pages', root, key, H) /\ Last(path') = q
      <4>1. DOMAIN path' = 1..Len(path')
        BY <3>1
      <4> QED
        BY <2>2, <3>1, <4>1 DEF Down, page
    <3>3. FileOK(pages') /\ Tree(pages', root', meta', H, K2) /\ key \in Keys
      BY <1>4, <1>7 DEF Written, BTreeInv, Arguments
    <3>4. Find(pages', root, k) = Answer(pages', pages'[q], k)
      BY <1>5, <2>3, <2>5, <3>2, <3>3, AnswerAtEnd
    <3>5. Child(pages'[q], k) = p
      BY <2>2, <2>3, <2>5 DEF Child
    <3> QED
      BY <1>11, <2>2, <2>3, <2>5, <3>4, <3>5 DEF Answer
  <2>6. ASSUME NEW k \in Keys
        PROVE  Want(k) = IF Moved(k, K2)' THEN Answer(pages', pages'[r], k) ELSE Find(pages', root, k)
    <3>1. CASE k \in K[p]
      BY <1>6, <1>9, <1>10, <2>2, <2>4, <3>1
    <3>2. CASE k \notin K[p]
      BY <1>11, <2>4, <2>5, <3>2
    <3> QED
      BY <3>1, <3>2
  <2> QED
    BY <1>1, <1>4, <1>8, <2>3, <2>6 DEF Complete
<1>14. Complete(K2)'
  BY <1>12, <1>13
<1>15. Spine(H)'
  <2>1. ~pages[p].leaf => ~left.leaf /\ left.vals[1] = pages[p].vals[1]
    BY <1>1, <1>4, <1>5, <1>6 DEF Fits, Answers, Halved
  <2>2. \A q \in DOMAIN H : ~pages[q].leaf => ~pages'[q].leaf /\ pages'[q].vals[1] = pages[q].vals[1]
    BY <1>3, <1>5, <2>1
  <2> QED
    BY <1>4, <2>2, SpineKept DEF Answers
<1>16. Halved' /\ Roots'
  <2>1. pc' # "left"
    BY <1>4
  <2> QED
    BY <1>4, <2>1 DEF Answers, Halved, Roots
<1>17. Answers(H, K2)'
  BY <1>4, <1>14, <1>15, <1>16 DEF Answers
<1> QED
  BY <1>2, <1>17 DEF MapInv

-----------------------------------------------------------------------------
\* A node that absorbed a page leads where it led before, but for that page's keys.
LEMMA WiderChild ==
  ASSUME NEW n \in Nodes, ~n.leaf, Len(n.vals) = Len(n.keys) + 1, Sorted(n.keys),
         NEW x \in Keys, NEW i, i = ChildIndex(n.keys, x), i > 1 => n.keys[i - 1] < x,
         NEW r \in Nat, NEW w, w = Wider(n, i, x, r)
  PROVE  /\ w.vals[1] = n.vals[1]
         /\ \A k \in Keys :
              Child(w, k) = IF ChildIndex(n.keys, k) = i /\ k >= x THEN r ELSE Child(n, k)
<1>1. n.keys \in Seq(Int) /\ Len(n.keys) \in Nat /\ \A k \in Keys : k \in Int
  BY NodeType, KeysAssumption
<1>2. PICK N \in Nat : N = Len(n.keys) /\ i \in 1..(N + 1)
  BY <1>1, ChildIndexSplits
<1>3. \A j \in 1..(N + 2) : w.vals[j] = IF j <= i THEN n.vals[j] ELSE IF j = i + 1 THEN r ELSE n.vals[j - 1]
  <2>1. HasWider(w, n, i, x, r)
    BY <1>2, WiderElements
  <2> QED
    BY <1>2, <2>1 DEF HasWider
<1>4. w.vals[1] = n.vals[1]
  BY <1>2, <1>3
<1>5. ASSUME NEW k \in Keys
      PROVE  Child(w, k) = IF ChildIndex(n.keys, k) = i /\ k >= x THEN r ELSE Child(n, k)
  <2>1. PICK c : c = ChildIndex(n.keys, k) /\ c \in 1..(N + 1)
    BY <1>1, <1>2, ChildIndexSplits
  <2>2. ChildIndex(w.keys, k) = IF c < i \/ (c = i /\ k < x) THEN c ELSE c + 1
    BY <2>1, WiderRoutes
  <2>3. CASE c < i \/ (c = i /\ k < x)
    <3>1. w.vals[c] = n.vals[c]
      BY <1>2, <1>3, <2>1, <2>3
    <3>2. ~(c = i /\ k >= x)
      BY <1>1, <1>2, <2>1, <2>3
    <3> QED
      BY <2>1, <2>2, <2>3, <3>1, <3>2 DEF Child
  <2>4. CASE c = i /\ ~(k < x)
    <3>0. c + 1 \in 1..(N + 2) /\ ~(c + 1 <= i) /\ c + 1 = i + 1
      BY <1>2, <2>1, <2>4
    <3>1. w.vals[c + 1] = r
      BY <1>3, <3>0
    <3>2. k >= x /\ ~(c < i)
      BY <1>1, <1>2, <2>1, <2>4
    <3> QED
      BY <2>1, <2>2, <2>4, <3>1, <3>2 DEF Child
  <2>5. CASE c > i
    <3>1. c + 1 \in 1..(N + 2) /\ ~(c + 1 <= i) /\ c + 1 # i + 1 /\ (c + 1) - 1 = c /\ ~(c < i) /\ c # i
      BY <1>2, <2>1, <2>5
    <3>2. w.vals[c + 1] = n.vals[c]
      BY <1>3, <3>1
    <3> QED
      BY <2>1, <2>2, <3>1, <3>2 DEF Child
  <2>6. c < i \/ c = i \/ c > i
    BY <1>2, <2>1
  <2> QED
    BY <2>3, <2>4, <2>5, <2>6
<1> QED
  BY <1>4, <1>5

\* With the half that moved, the parent in hand answers for its keys.
LEMMA AbsorbAnswers ==
  ASSUME BTreeInv, pc = "absorb", NEW H, NEW K, Shape(H, K), Answers(H, K),
         NEW H2, H2 = Plus(H, right, H[page] - 1),
         NEW K2, K2 = Plus(K, right, Taken(pages, page, Slot, sep, K)),
         NEW w, w = Internal(NodeKeys, NodeChildren)
  PROVE  /\ ~pages[page].leaf /\ w.vals[1] = pages[page].vals[1]
         /\ \A k \in K[page] : Want(k) = Answer(pages, w, k)
<1>1. PICK n, i, x, r : n = pages[page] /\ i = Slot /\ x = sep /\ r = right
  OBVIOUS
<1>2. /\ n \in Nodes /\ NodeOK(n, Len(pages)) /\ Sorted(n.keys) /\ K[page] \subseteq Keys
      /\ Fits(n, K[page], H[page], H, K) /\ H[page] \in Nat
  BY <1>1, InHand
<1>3. /\ x \in K[page] /\ i = ChildIndex(n.keys, x) /\ H[page] > 0
      /\ i > 1 => n.keys[i - 1] < x
      /\ r \in DOMAIN pages \ DOMAIN H
  BY <1>1 DEF Shape, Absorbing, Spare
<1>4. ~n.leaf /\ Len(n.vals) = Len(n.keys) + 1 /\ x \in Keys /\ r \in Nat
  <2>1. ~n.leaf
    BY <1>2, <1>3 DEF Fits
  <2>2. r \in Nat
    BY <1>3, InvIsShape
  <2> QED
    BY <1>2, <1>3, <2>1, <2>2 DEF NodeOK
<1>5. w = Wider(n, i, x, r)
  BY <1>1 DEF Wider, NodeKeys, NodeChildren
<1>6. /\ w.vals[1] = n.vals[1]
      /\ \A k \in Keys : Child(w, k) = IF ChildIndex(n.keys, k) = i /\ k >= x THEN r ELSE Child(n, k)
  BY <1>2, <1>3, <1>4, <1>5, WiderChild
<1>7. FileOK(pages) /\ Tree(pages, root, meta, H2, K2) /\ ~w.leaf
  BY InvIsShape, AbsorbWider
<1>8. r \in DOMAIN H2
  BY <1>1 DEF Plus
<1>9. ASSUME NEW k \in K[page] PROVE Want(k) = Answer(pages, w, k)
  <2>1. Moved(k, K) <=> ChildIndex(n.keys, k) = i /\ k >= x
    BY <1>1 DEF Moved
  <2>2. Want(k) = IF Moved(k, K) THEN Answer(pages, pages[r], k) ELSE Find(pages, root, k)
    BY <1>1, <1>2 DEF Answers, Complete
  <2>3. Find(pages, r, k) = Answer(pages, pages[r], k)
    BY <1>2, <1>7, <1>8, AnswerIs
  <2>4. Find(pages, root, k) = Answer(pages, n, k)
    BY <1>1, <1>2, AnswersInHand
  <2> QED
    BY <1>2, <1>4, <1>6, <1>7, <2>1, <2>2, <2>3, <2>4 DEF Answer
<1> QED
  BY <1>1, <1>4, <1>6, <1>9

\* The parent is rewritten where it is.
LEMMA AbsorbDone ==
  ASSUME BTreeInv, NEW H, NEW K, Shape(H, K), Answers(H, K), Absorb
  PROVE  MapInv'
<1>1. PICK H2, K2, w : /\ H2 = Plus(H, right, H[page] - 1)
                       /\ K2 = Plus(K, right, Taken(pages, page, Slot, sep, K))
                       /\ w = Internal(NodeKeys, NodeChildren)
  OBVIOUS
<1>2. BTreeInv' /\ Shape(H2, K2)'
  BY <1>1, AbsorbStep
<1>3. /\ pc = "absorb" /\ pc' = "done" /\ Len(w.keys) <= MAX_KEYS /\ pages' = [pages EXCEPT ![page] = w]
      /\ UNCHANGED <<meta, root, key, rid, path, found, failed>>
  BY <1>1 DEF Absorb, WriteBack, Finish, call, Internal
<1>4. /\ Tree(pages, root, meta, H2, K2) /\ page \in DOMAIN H2 /\ DOMAIN H \subseteq DOMAIN H2
      /\ \A q \in DOMAIN H : H2[q] = H[q] /\ K2[q] = K[q]
      /\ w \in Nodes /\ ~w.leaf /\ Sorted(w.keys) /\ Len(w.vals) = Len(w.keys) + 1
      /\ Range(w.vals) \subseteq 1..Len(pages)
      /\ Fits(w, K2[page], H2[page], H2, K2)
  BY <1>1, <1>3, AbsorbWider
<1>5. /\ ~pages[page].leaf /\ w.vals[1] = pages[page].vals[1]
      /\ \A k \in K[page] : Want(k) = Answer(pages, w, k)
  BY <1>1, <1>3, AbsorbAnswers
<1>6. page \in DOMAIN H /\ page \in DOMAIN pages /\ K[page] \subseteq Keys /\ K2[page] = K[page] /\ root \in DOMAIN H
  BY <1>3, <1>4, InHand DEF Shape, Tree
<1>7. pages'[page] = w /\ DOMAIN H2 \subseteq DOMAIN pages /\ H2[page] \in Nat
      /\ \A q \in DOMAIN pages : q = page \/ pages'[q] = pages[q]
  BY <1>3, <1>4, <1>6 DEF Tree, Forest
<1>8. Written(page, H, K, H2, K2)
  BY <1>2, <1>4, <1>7, WrittenIs
<1>9. Written(page, H2, K2, H2, K2)
  BY <1>4, <1>7, <1>8 DEF Written
<1>10. ASSUME NEW k \in Keys PROVE Want(k) = Find(pages', root, k)
  <2>1. CASE k \in K[page]
    <3>1. NodeOK(w, Len(pages))
      BY <1>3, <1>4 DEF NodeOK, Sorted
    <3>2. Answer(pages', w, k) = Answer(pages, w, k)
      BY <1>4, <1>7, <1>9, <3>1, AnswersOfNode
    <3>3. Find(pages', root, k) = Answer(pages', w, k)
      <4>1. root' = root /\ pc \in {"leaf", "left", "absorb"} /\ k \in K2[page]
        BY <1>3, <1>6, <2>1
      <4>2. Find(pages', root, k) = Answer(pages', pages'[page], k)
        BY <1>8, <4>1, AnswersWhenWritten
      <4> QED
        BY <1>7, <4>2
    <3> QED
      BY <1>5, <2>1, <3>2, <3>3
  <2>2. CASE k \notin K[page]
    <3>1. Find(pages', root, k) = Find(pages, root, k)
      BY <1>6, <1>8, <2>2, AnswersBeside
    <3> QED
      BY <1>3, <2>2, <3>1 DEF Answers, Complete, Moved
  <2> QED
    BY <2>1, <2>2
<1>11. Complete(K2)'
  BY <1>3, <1>10 DEF Complete, Want
<1>12. Spine(H2)'
  <2>1. \A q \in DOMAIN H : ~pages[q].leaf => ~pages'[q].leaf /\ pages'[q].vals[1] = pages[q].vals[1]
    BY <1>4, <1>5, <1>7
  <2> QED
    BY <1>3, <1>4, <2>1, SpineKept DEF Answers
<1>13. Halved' /\ Roots'
  BY <1>3 DEF Answers, Halved, Roots
<1>14. Answers(H2, K2)'
  BY <1>3, <1>11, <1>12, <1>13 DEF Answers
<1> QED
  BY <1>2, <1>14 DEF MapInv

\* A part of a node leads where the node led, for the keys between its bounds.
LEMMA PartChild ==
  ASSUME NEW w \in Nodes, Sorted(w.keys), Len(w.vals) = Len(w.keys) + 1,
         NEW a \in Nat, NEW b \in Nat, a <= b, b <= Len(w.keys), NEW v, HasPart(v, w, a, b),
         NEW k \in Keys, a > 0 => w.keys[a] <= k, b < Len(w.keys) => k < w.keys[b + 1]
  PROVE  Child(v, k) = Child(w, k)
<1>1. PICK N \in Nat : N = Len(w.keys)
  BY NodeType
<1>2. w.keys \in Seq(Int) /\ k \in Int /\ \A j \in 1..N : w.keys[j] \in Int
  BY <1>1, NodeType, KeysAssumption, ElementOfSeq
<1>3. /\ v.keys \in Seq(Int) /\ Len(v.keys) = b - a
      /\ \A j \in 1..(b - a) : v.keys[j] = w.keys[a + j]
      /\ \A j \in 1..(b - a + 1) : v.vals[j] = w.vals[a + j]
  BY NodeType DEF HasPart
<1>4. PICK c : c = ChildIndex(w.keys, k) /\ c \in 1..(N + 1) /\ \A j \in 1..N : j < c <=> w.keys[j] <= k
  BY <1>1, <1>2, ChildIndexSplits
<1>5. a < c
  <2>1. CASE a > 0
    <3>1. a \in 1..N
      BY <1>1, <2>1
    <3> QED
      BY <1>4, <2>1, <3>1
  <2>2. CASE ~(a > 0)
    BY <1>1, <1>4, <2>2
  <2> QED
    BY <2>1, <2>2
<1>6. c <= b + 1
  <2>1. CASE b < N
    <3>1. b + 1 \in 1..N
      BY <1>1, <2>1
    <3>2. ~(w.keys[b + 1] <= k)
      BY <1>1, <1>2, <2>1, <3>1
    <3>3. ~(b + 1 < c)
      BY <1>4, <3>1, <3>2
    <3> QED
      BY <1>1, <1>4, <3>3
  <2>2. CASE ~(b < N)
    BY <1>1, <1>4, <2>2
  <2> QED
    BY <2>1, <2>2
<1>7. PICK j \in 1..(b - a + 1) : a + j = c
  <2>1. c - a \in 1..(b - a + 1) /\ a + (c - a) = c
    BY <1>1, <1>4, <1>5, <1>6
  <2> QED
    BY <2>1
<1>8. ChildIndex(v.keys, k) = j
  <2>1. \A m \in 1..(b - a) : a + m \in 1..N /\ (m < j <=> a + m < a + j)
    BY <1>1
  <2>2. \A m \in 1..Len(v.keys) : m < j <=> v.keys[m] <= k
    BY <1>3, <1>4, <1>7, <2>1
  <2>3. j \in 1..(Len(v.keys) + 1)
    BY <1>3
  <2> QED
    BY <1>2, <1>3, <2>2, <2>3, ChildIndexIs
<1> QED
  BY <1>3, <1>4, <1>7, <1>8 DEF Child

\* The parent is split in turn: each half leads where the whole led.
LEMMA AbsorbSplitAnswers ==
  ASSUME BTreeInv, NEW H, NEW K, Shape(H, K), Answers(H, K), AbsorbSplit
  PROVE  MapInv'
<1>1. PICK H2, K2, w : /\ H2 = Plus(H, right, H[page] - 1)
                       /\ K2 = Plus(K, right, Taken(pages, page, Slot, sep, K))
                       /\ w = Internal(NodeKeys, NodeChildren)
  OBVIOUS
<1>2. BTreeInv' /\ Shape(H2, K2)' /\ pc = "absorb"
  BY <1>1, AbsorbSplitStep DEF AbsorbSplit
<1>3. PICK n \in Nat, m \in Nat :
        /\ n = Len(w.keys) /\ m \in 2..n /\ m - 1 <= MAX_KEYS /\ n - m <= MAX_KEYS
        /\ Split(Part(w, 0, m - 1), w.keys[m], Part(w, m, n))
  BY <1>1, AbsorbCut
<1>4. PICK l, r, x, c : l = Part(w, 0, c) /\ r = Part(w, m, n) /\ x = w.keys[m] /\ c = m - 1
  OBVIOUS
<1>5. Split(l, x, r) /\ c \in Nat /\ c <= n /\ m <= n /\ n \in Nat /\ m \in Nat /\ c >= 1 /\ c + 1 = m /\ c < n
  BY <1>3, <1>4
<1>6. /\ Tree(pages, root, meta, H2, K2) /\ page \in DOMAIN H2 /\ DOMAIN H \subseteq DOMAIN H2
      /\ \A q \in DOMAIN H : H2[q] = H[q] /\ K2[q] = K[q]
      /\ w \in Nodes /\ ~w.leaf /\ Sorted(w.keys) /\ Len(w.vals) = Len(w.keys) + 1
      /\ Range(w.vals) \subseteq 1..Len(pages)
      /\ Fits(w, K2[page], H2[page], H2, K2)
  BY <1>1, <1>2, AbsorbWider
<1>7. /\ ~pages[page].leaf /\ w.vals[1] = pages[page].vals[1]
      /\ \A k \in K[page] : Want(k) = Answer(pages, w, k)
  BY <1>1, <1>2, AbsorbAnswers
<1>8. page \in DOMAIN H /\ K[page] \subseteq Keys /\ K2[page] = K[page]
  BY <1>2, <1>6, InHand
<1>9. HasPart(l, w, 0, c) /\ HasPart(r, w, m, n) /\ ~l.leaf /\ ~r.leaf
  <2>1. HasPart(l, w, 0, c)
    <3>1. 0 \in Nat /\ 0 <= c /\ c <= Len(w.keys)
      BY <1>3, <1>5
    <3> QED
      BY <1>4, <1>5, <1>6, <3>1, PartElements
  <2>2. HasPart(r, w, m, n)
    <3>1. n <= Len(w.keys)
      BY <1>3
    <3> QED
      BY <1>4, <1>5, <1>6, <3>1, PartElements
  <2> QED
    BY <2>1, <2>2 DEF HasPart
<1>10. l.vals[1] = pages[page].vals[1]
  <2>1. 1 \in 1..(c - 0 + 1) /\ 0 + 1 = 1
    BY <1>5
  <2>2. l.vals[1] = w.vals[1]
    BY <1>9, <2>1 DEF HasPart
  <2> QED
    BY <1>7, <2>2
<1>11. Alloc(r) /\ pc' = "left" /\ UNCHANGED <<meta, root>>
  BY <1>5 DEF Split
<1>12. \A k \in Keys : \A q \in DOMAIN H2 : Find(pages', q, k) = Find(pages, q, k)
  <2>1. Tree(pages', root', meta', H2, K2)
    BY <1>2 DEF Shape
  <2> QED
    BY <1>2, <1>6, <1>11, <2>1, Appended
<1>13. ASSUME NEW k \in K[page]
       PROVE  k \in Keys /\ k \in Int /\ Want(k) = Find(pages', Child(w, k), k)
  <2>1. Child(w, k) \in DOMAIN H2
    <3>1. w.keys \in Seq(Int) /\ k \in Int /\ DOMAIN w.vals = 1..(Len(w.keys) + 1)
      BY <1>6, <1>8, NodeType, KeysAssumption
    <3>2. ChildIndex(w.keys, k) \in DOMAIN w.vals
      BY <1>6, <3>1, ChildIndexSplits
    <3> QED
      BY <1>6, <3>2 DEF Fits, Child
  <2>2. Want(k) = Find(pages, Child(w, k), k)
    BY <1>6, <1>7 DEF Answer
  <2> QED
    BY <1>8, <1>12, <2>1, <2>2, KeysAssumption
<1>14. x \in Int
  <2>1. m \in 1..Len(w.keys) /\ w.keys \in Seq(Int)
    BY <1>3, <1>6, NodeType
  <2> QED
    BY <1>4, <2>1, ElementOfSeq
<1>15. ASSUME NEW k \in K[page], k < x PROVE Want(k) = Answer(pages', l, k)
  <2>1. /\ 0 \in Nat /\ 0 <= c /\ c <= Len(w.keys) /\ ~(0 > 0)
        /\ c < Len(w.keys) => k < w.keys[c + 1]
    BY <1>3, <1>4, <1>5, <1>15
  <2>2. Child(l, k) = Child(w, k)
    BY <1>5, <1>6, <1>9, <1>13, <2>1, PartChild
  <2> QED
    BY <1>9, <1>13, <2>2 DEF Answer
<1>16. ASSUME NEW k \in K[page], ~(k < x) PROVE Want(k) = Answer(pages', r, k)
  <2>1. n <= Len(w.keys) /\ ~(n < Len(w.keys)) /\ w.keys[m] <= k
    BY <1>3, <1>4, <1>13, <1>14, <1>16
  <2>2. Child(r, k) = Child(w, k)
    BY <1>5, <1>6, <1>9, <1>13, <2>1, PartChild
  <2> QED
    BY <1>9, <1>13, <2>2 DEF Answer
<1>17. Spine(H2)
  BY <1>6 DEF Answers, Spine
<1>18. \A k \in Keys : Honest(k)
  BY <1>2, AllHonest
<1>19. \A k \in Keys : k \notin K2[page] => Want(k) = Find(pages, root, k)
  BY <1>2, <1>8 DEF Answers, Complete, Moved
<1>20. Answers(H2, K2)'
  <2>1. /\ \A k \in K2[page] : k < x => Want(k) = Answer(pages', l, k)
        /\ \A k \in K2[page] : ~(k < x) => Want(k) = Answer(pages', r, k)
    BY <1>8, <1>15, <1>16
  <2>2. pc # "meta" /\ Roots /\ found = [k \in Keys |-> found[k]]
    BY <1>2 DEF Answers
  <2> QED
    BY <1>2, <1>5, <1>6, <1>9, <1>10, <1>17, <1>18, <1>19, <2>1, <2>2, SplitAnswers
<1> QED
  BY <1>2, <1>20 DEF MapInv

-----------------------------------------------------------------------------
\* Nothing is found in the file of one empty leaf.
LEMMA InitAnswers ==
  ASSUME Init
  PROVE  MapInv /\ found = [k \in Keys |-> NoRid]
<1>1. BTreeInv
  BY InitInv
<1>2. PICK H, K : Shape(H, K)
  BY <1>1 DEF BTreeInv
<1>3. /\ pages[1].leaf = TRUE /\ pages[1].keys = <<>> /\ root = 1 /\ meta = 1 /\ pc = "idle"
      /\ found = [k \in Keys |-> Find(pages, root, k)] /\ failed = FALSE
  BY DEF Init, Leaf, FindAll
<1>4. FileOK(pages) /\ Tree(pages, root, meta, H, K) /\ root \in DOMAIN H
  BY <1>1, <1>2, InvIsShape DEF Shape, Tree
<1>5. ASSUME NEW k \in Keys PROVE Find(pages, root, k) = NoRid
  <2>1. Find(pages, root, k) = Hit(pages[1], k)
    BY <1>3, <1>4, AnswerIs DEF Answer
  <2>2. k \notin Range(pages[1].keys)
    BY <1>3 DEF Range
  <2> QED
    BY <2>1, <2>2, HitNone
<1>6. Spine(H)
  <2>1. {root} \in SUBSET DOMAIN H /\ meta \in {root} /\ \A p \in {root} : p = root
    BY <1>3, <1>4
  <2> QED
    BY <2>1 DEF Spine
<1>7. found = [k \in Keys |-> NoRid] /\ found = [k \in Keys |-> found[k]]
  BY <1>3, <1>5
<1>8. Halved /\ Roots /\ Complete(K)
  BY <1>3 DEF Halved, Roots, Complete
<1>9. Answers(H, K)
  BY <1>6, <1>7, <1>8 DEF Answers
<1> QED
  BY <1>1, <1>2, <1>7, <1>9 DEF MapInv

\* Each step keeps the answers.
LEMMA NextAnswers == MapInv /\ [Next]_vars => MapInv'
<1> SUFFICES ASSUME MapInv, [Next]_vars PROVE MapInv'
  OBVIOUS
<1>0. BTreeInv
  BY DEF MapInv
<1>1. PICK H, K : Shape(H, K) /\ Answers(H, K)
  BY DEF MapInv
<1>2. ASSUME NEW k \in Keys, Insert(k) PROVE MapInv'
  BY <1>0, <1>1, <1>2, InsertAnswers
<1>3. CASE LeafReplace
  BY <1>0, <1>1, <1>3, LeafReplaceAnswers
<1>4. CASE LeafInsert
  BY <1>0, <1>1, <1>4, LeafInsertAnswers
<1>5. CASE LeafSplit
  BY <1>0, <1>1, <1>5, LeafSplitAnswers
<1>6. CASE WriteLeft
  BY <1>0, <1>1, <1>6, WriteLeftAnswers
<1>7. CASE Absorb
  BY <1>0, <1>1, <1>7, AbsorbDone
<1>8. CASE AbsorbSplit
  BY <1>0, <1>1, <1>8, AbsorbSplitAnswers
<1>9. CASE NewRoot
  BY <1>0, <1>1, <1>9, NewRootAnswers
<1>10. CASE SetRoot
  BY <1>0, <1>1, <1>10, SetRootAnswers
<1>11. CASE WriteMeta
  BY <1>0, <1>1, <1>11, WriteMetaAnswers
<1>12. CASE Return
  BY <1>0, <1>1, <1>12, ReturnAnswers
<1>13. CASE Fail
  BY <1>0, <1>1, <1>13, FailAnswers
<1>14. CASE Crash
  BY <1>0, <1>14, CrashAnswers
<1>15. CASE UNCHANGED vars
  BY <1>0, <1>1, <1>15, StutterAnswers
<1> QED
  BY <1>2, <1>3, <1>4, <1>5, <1>6, <1>7, <1>8, <1>9, <1>10, <1>11, <1>12, <1>13, <1>14, <1>15 DEF Next

\* The answers are always those the writes so far should give.
LEMMA MapInvariance == Spec => []MapInv
<1>1. Init => MapInv
  BY InitAnswers
<1> QED
  BY <1>1, NextAnswers, PTL DEF Spec
-----------------------------------------------------------------------------
\* An insert starts in the map.
LEMMA BeginRefines ==
  ASSUME BTreeInv, NEW k \in Keys, Insert(k)
  PROVE  Map!Begin
<1>1. pc = "idle" /\ pc' = "leaf" /\ key' = k /\ UNCHANGED <<found, failed, faults>>
  BY DEF Insert
<1>2. <<key', rid'>> # <<>> /\ <<key', rid'>>[1] \in Keys
  BY <1>1
<1> QED
  BY <1>1, <1>2 DEF Map!Begin

\* It takes effect when it returns.
LEMMA ReturnRefines ==
  ASSUME BTreeInv, NEW H, NEW K, Shape(H, K), Answers(H, K), Return
  PROVE  Map!Return
<1>1. /\ pc = "done" /\ pc' = "idle" /\ UNCHANGED <<failed, faults>>
      /\ found' = [k \in Keys |-> Find(pages, root, k)]
  BY DEF Return, Over, FindAll, file
<1>2. found = [k \in Keys |-> found[k]] /\ \A k \in Keys : Find(pages, root, k) = Want(k)
  BY <1>1 DEF Answers, Complete
<1>3. found' = [found EXCEPT ![key] = rid]
  BY <1>1, <1>2 DEF Want
<1>4. <<key, rid>> # <<>> /\ <<key, rid>>[1] = key /\ <<key, rid>>[2] = rid
  OBVIOUS
<1> QED
  BY <1>1, <1>3, <1>4 DEF Map!Return

\* What an insert that was interrupted may leave behind.
LEMMA LoseRefines ==
  ASSUME NEW r, found' = [k \in Keys |-> Find(pages, r, k)],
         \A k \in Keys : Find(pages, r, k) \in {found[k], NoRid} \/ (pc # "idle" /\ Find(pages, r, k) = Want(k))
  PROVE  Map!Lose
<1>1. DOMAIN found' = Keys /\ \A k \in Keys : found'[k] = Find(pages, r, k)
  OBVIOUS
<1>2. <<key, rid>> # <<>> /\ <<key, rid>>[1] = key /\ <<key, rid>>[2] = rid
  OBVIOUS
<1>3. ASSUME NEW k \in Keys PROVE found'[k] \in Map!Interrupted(k)
  BY <1>1, <1>2 DEF Map!Interrupted, Want
<1> QED
  BY <1>1, <1>3 DEF Map!Lose

\* An insert that fails may lose entries.
LEMMA FailRefines ==
  ASSUME BTreeInv, NEW H, NEW K, Shape(H, K), Answers(H, K), Fail
  PROVE  Map!Fail
<1>1. /\ pc # "idle" /\ pc' = "idle" /\ faults' = faults + 1 /\ failed' = TRUE
      /\ found' = [k \in Keys |-> Find(pages, root, k)]
  BY DEF Fail, Over, FindAll, file
<1>2. \A k \in Keys : Honest(k)
  BY <1>1, AllHonest
<1>3. Map!Lose
  BY <1>1, <1>2, LoseRefines DEF Honest
<1>4. <<key, rid>> # <<>>
  OBVIOUS
<1> QED
  BY <1>1, <1>3, <1>4 DEF Map!Fail

\* A process that dies between two inserts, none of which failed, loses none.
LEMMA CrashRefines ==
  ASSUME BTreeInv, NEW H, NEW K, Shape(H, K), Answers(H, K), Crash
  PROVE  Map!Crash
<1>1. /\ pc' = "idle" /\ faults' = faults + 1 /\ failed' = FALSE
      /\ found' = [k \in Keys |-> Find(pages, meta, k)]
  BY DEF Crash, Over, FindAll, file
<1>2. \A k \in Keys : Find(pages, meta, k) \in {Find(pages, root, k), NoRid}
  BY SpineAnswers DEF Answers
<1>3. CASE pc = "idle" /\ ~failed
  <2>1. root = meta /\ found = [k \in Keys |-> found[k]] /\ \A k \in Keys : Find(pages, root, k) = found[k]
    BY <1>3 DEF Answers, Roots, Complete
  <2>2. found' = found
    BY <1>1, <2>1
  <2> QED
    BY <1>1, <1>3, <2>2 DEF Map!Crash
<1>4. CASE pc = "idle" /\ failed
  <2>1. \A k \in Keys : Find(pages, root, k) = found[k]
    BY <1>4 DEF Answers, Complete
  <2>2. Map!Lose
    BY <1>1, <1>2, <2>1, LoseRefines
  <2> QED
    BY <1>1, <1>4, <2>2 DEF Map!Crash
<1>5. CASE pc # "idle"
  <2>1. \A k \in Keys : Honest(k)
    BY <1>5, AllHonest
  <2>2. Map!Lose
    BY <1>1, <1>2, <1>5, <2>1, LoseRefines DEF Honest
  <2>3. <<key, rid>> # <<>>
    OBVIOUS
  <2> QED
    BY <1>1, <1>5, <2>2, <2>3 DEF Map!Crash
<1> QED
  BY <1>3, <1>4, <1>5

\* Each step of the tree is one of the map, or none.
LEMMA NextRefines ==
  MapInv /\ [Next]_vars => [Map!Begin \/ Map!Return \/ Map!Fail \/ Map!Crash]_(Map!mapVars)
<1> SUFFICES ASSUME MapInv, [Next]_vars
             PROVE  \/ Map!Begin \/ Map!Return \/ Map!Fail \/ Map!Crash
                    \/ UNCHANGED Map!mapVars
  OBVIOUS
<1>0. BTreeInv
  BY DEF MapInv
<1>1. PICK H, K : Shape(H, K) /\ Answers(H, K)
  BY DEF MapInv
<1>2. ASSUME NEW k \in Keys, Insert(k) PROVE Map!Begin
  BY <1>0, <1>2, BeginRefines
<1>3. ASSUME LeafReplace \/ LeafInsert \/ LeafSplit \/ WriteLeft \/ Absorb \/ AbsorbSplit \/ NewRoot
               \/ SetRoot \/ WriteMeta \/ UNCHANGED vars
      PROVE  UNCHANGED Map!mapVars
  <2>1. UNCHANGED <<key, rid, found, failed, faults>> /\ (pc = "idle" <=> pc' = "idle")
    <3>1. CASE LeafReplace \/ LeafInsert \/ Absorb
      BY <3>1 DEF LeafReplace, LeafInsert, Absorb, Finish, call
    <3>2. CASE LeafSplit \/ AbsorbSplit
      BY <3>2 DEF LeafSplit, AbsorbSplit, Split
    <3>3. CASE WriteLeft
      BY <3>3 DEF WriteLeft
    <3>4. CASE NewRoot \/ SetRoot \/ WriteMeta \/ UNCHANGED vars
      BY <3>4 DEF NewRoot, SetRoot, WriteMeta, vars, call
    <3> QED
      BY <1>3, <3>1, <3>2, <3>3, <3>4
  <2> QED
    BY <2>1 DEF Map!mapVars
<1>4. CASE Return
  BY <1>0, <1>1, <1>4, ReturnRefines
<1>5. CASE Fail
  BY <1>0, <1>1, <1>5, FailRefines
<1>6. CASE Crash
  BY <1>0, <1>1, <1>6, CrashRefines
<1> QED
  BY <1>2, <1>3, <1>4, <1>5, <1>6 DEF Next

\* ImplementsMap: find is a map from keys to the row ids last put there, through
\* every split of every insert; a failed write or a process that dies may make it
\* forget entries, and never brings one back that was replaced.
THEOREM TreeRefinesMap == Spec => ImplementsMap
<1>1. Init => Map!MapInit
  <2> SUFFICES ASSUME Init PROVE Map!MapInit
    OBVIOUS
  <2>1. found = [k \in Keys |-> NoRid]
    BY InitAnswers
  <2> QED
    BY <2>1 DEF Init, Map!MapInit
<1> QED
  BY <1>1, NextRefines, MapInvariance, PTL DEF Spec, ImplementsMap, Map!MapSpec
=============================================================================
