-------------------------------- MODULE BTree --------------------------------
(***************************************************************************)
(* src/storage/btree.rs: a B+tree in a file, one node per page, page 0 the *)
(* metadata that names the root.  There is one step per write to the file, *)
(* since write_node and write_meta sync before they return: a write may    *)
(* fail, and the process may die, between any two.                         *)
(*                                                                         *)
(* Row ids are numbers given out in order, as the table's are fresh ones.  *)
(* A node is written whole: it fits in the first sector of its page.       *)
(***************************************************************************)
EXTENDS Integers, Sequences, FiniteSets, SequencesExt

CONSTANTS
  Keys,         \* the primary keys in use
  NoRid,        \* find's None
  MAX_KEYS,     \* keys a node holds before it splits
  MaxInserts,   \* bound: calls of insert
  MaxFaulty,    \* bound: calls of insert in a history that has faults
  MaxFaults     \* bound: failed writes and process deaths

ASSUME KeysAssumption == Keys \subseteq Int

ASSUME FanoutAssumption == MAX_KEYS \in Nat /\ MAX_KEYS >= 2

ASSUME BoundsAssumption ==
  /\ {MaxInserts, MaxFaults} \subseteq Nat
  /\ MaxFaulty \in 0..MaxInserts

VARIABLES
  pages,        \* the file past page 0: pages[p] is the node of page p
  meta,         \* the root page 0 names
  root,         \* BTree.root, in memory
  pc,           \* where the insert in progress is
  key, rid,     \* its arguments
  path,         \* its recursion: pages from the root down to the one in hand
  left,         \* the half node still to be written back to that page
  sep, right,   \* the separator and page the parent must absorb
  inserts, faults,
  found, failed \* history, see IndexMap

file == <<pages, meta>>
call == <<key, rid, path, left, sep, right>>
vars == <<pages, meta, root, pc, call, inserts, faults, found, failed>>
-----------------------------------------------------------------------------
Leaf(ks, rs, next) == [leaf |-> TRUE, keys |-> ks, vals |-> rs, next |-> next]

Internal(ks, children) == [leaf |-> FALSE, keys |-> ks, vals |-> children, next |-> 0]

ChildIndex(ks, k) == 1 + Cardinality({i \in DOMAIN ks : k >= ks[i]})

\* The pages a search of the nodes pg for k reads, from page r down to a leaf.
PathIn(pg, r, k) ==
  LET walk[n \in 1..Len(pg)] ==
        IF n = 1 THEN <<r>>
        ELSE LET w == walk[n - 1]
                 node == pg[Last(w)]
             IN  IF node.leaf THEN w ELSE Append(w, node.vals[ChildIndex(node.keys, k)])
  IN  walk[Len(pg)]

Find(pg, r, k) ==
  LET node == pg[Last(PathIn(pg, r, k))]
      hits == {i \in DOMAIN node.keys : node.keys[i] = k}
  IN  IF hits = {} THEN NoRid ELSE node.vals[CHOOSE i \in hits : \A j \in hits : i <= j]

FindAll(pg, r) == [k \in Keys |-> Find(pg, r, k)]

page == Last(path)                       \* the page insert_into has in hand

Alloc(node) == pages' = Append(pages, node)

NewPage == Len(pages) + 1
-----------------------------------------------------------------------------
Init ==
  /\ pages = <<Leaf(<<>>, <<>>, 0)>>
  /\ meta = 1 /\ root = 1
  /\ pc = "idle"
  /\ key = 0 /\ rid = NoRid /\ path = <<>> /\ left = <<>> /\ sep = 0 /\ right = 0
  /\ inserts = 0 /\ faults = 0
  /\ found = FindAll(pages, root) /\ failed = FALSE

\* insert(k, rid) is called and insert_into recurses down to the leaf.
Insert(k) ==
  /\ pc = "idle" /\ inserts < IF faults = 0 THEN MaxInserts ELSE MaxFaulty
  /\ pc' = "leaf" /\ key' = k /\ rid' = inserts + 1 /\ path' = PathIn(pages, root, k)
  /\ inserts' = inserts + 1
  /\ UNCHANGED <<file, root, left, sep, right, faults, found, failed>>

\* The keys and row ids of the leaf in hand with the new entry in its place.
At == 1 + Cardinality({i \in DOMAIN pages[page].keys : pages[page].keys[i] < key})
LeafKeys == InsertAt(pages[page].keys, At, key)
LeafRids == InsertAt(pages[page].vals, At, rid)

WriteBack(node) == pages' = [pages EXCEPT ![page] = node]

\* The half that stays is written after the half that moved: see WriteLeft.
Split(l, s, r) ==
  /\ Alloc(r)
  /\ left' = l /\ sep' = s /\ right' = NewPage
  /\ pc' = "left"
  /\ UNCHANGED <<meta, root, key, rid, path, inserts, faults, found, failed>>

Finish == pc' = "done" /\ UNCHANGED <<meta, root, call, inserts, faults, found, failed>>

\* Mutant: an existing key keeps its old row id.
LeafKeep ==
  /\ pc = "leaf" /\ key \in Range(pages[page].keys)
  /\ UNCHANGED pages
  /\ Finish

LeafReplace ==
  /\ pc = "leaf" /\ key \in Range(pages[page].keys)
  /\ WriteBack([pages[page] EXCEPT !.vals[At] = rid])
  /\ Finish

LeafInsert ==
  /\ pc = "leaf" /\ key \notin Range(pages[page].keys)
  /\ Len(LeafKeys) <= MAX_KEYS
  /\ WriteBack(Leaf(LeafKeys, LeafRids, pages[page].next))
  /\ Finish

\* Mutant: the separator is the last key that stays, not the first that moves.
LeafSplitLow ==
  LET n   == Len(LeafKeys)
      mid == n \div 2
  IN  /\ pc = "leaf" /\ key \notin Range(pages[page].keys)
      /\ n > MAX_KEYS
      /\ Split(Leaf(SubSeq(LeafKeys, 1, mid), SubSeq(LeafRids, 1, mid), NewPage),
               LeafKeys[mid],
               Leaf(SubSeq(LeafKeys, mid + 1, n), SubSeq(LeafRids, mid + 1, n),
                    pages[page].next))

\* Mutant: the half that moved ends the chain of leaves.
LeafSplitEndsChain ==
  LET n   == Len(LeafKeys)
      mid == n \div 2
  IN  /\ pc = "leaf" /\ key \notin Range(pages[page].keys)
      /\ n > MAX_KEYS
      /\ Split(Leaf(SubSeq(LeafKeys, 1, mid), SubSeq(LeafRids, 1, mid), NewPage),
               LeafKeys[mid + 1],
               Leaf(SubSeq(LeafKeys, mid + 1, n), SubSeq(LeafRids, mid + 1, n), 0))

LeafSplit ==
  LET n   == Len(LeafKeys)
      mid == n \div 2
  IN  /\ pc = "leaf" /\ key \notin Range(pages[page].keys)
      /\ n > MAX_KEYS
      /\ Split(Leaf(SubSeq(LeafKeys, 1, mid), SubSeq(LeafRids, 1, mid), NewPage),
               LeafKeys[mid + 1],
               Leaf(SubSeq(LeafKeys, mid + 1, n), SubSeq(LeafRids, mid + 1, n),
                    pages[page].next))

\* The half that stays is written back, and insert_into returns to the parent.
WriteLeft ==
  /\ pc = "left"
  /\ WriteBack(left)
  /\ path' = Front(path)
  /\ pc' = IF Len(path) = 1 THEN "root" ELSE "absorb"
  /\ left' = <<>>
  /\ UNCHANGED <<meta, root, key, rid, sep, right, inserts, faults, found, failed>>

\* The keys and children of the parent with the separator absorbed.
Slot == ChildIndex(pages[page].keys, key)
NodeKeys == InsertAt(pages[page].keys, Slot, sep)
NodeChildren == InsertAt(pages[page].vals, Slot + 1, right)

Absorb ==
  /\ pc = "absorb" /\ Len(NodeKeys) <= MAX_KEYS
  /\ WriteBack(Internal(NodeKeys, NodeChildren))
  /\ Finish

\* Mutant: the promoted separator also stays with the half that moved.
AbsorbSplitKeepsSep ==
  LET n   == Len(NodeKeys)
      mid == n \div 2
  IN  /\ pc = "absorb" /\ n > MAX_KEYS
      /\ Split(Internal(SubSeq(NodeKeys, 1, mid), SubSeq(NodeChildren, 1, mid + 1)),
               NodeKeys[mid + 1],
               Internal(SubSeq(NodeKeys, mid + 1, n), SubSeq(NodeChildren, mid + 2, n + 1)))

AbsorbSplit ==
  LET n   == Len(NodeKeys)
      mid == n \div 2
  IN  /\ pc = "absorb" /\ n > MAX_KEYS
      /\ Split(Internal(SubSeq(NodeKeys, 1, mid), SubSeq(NodeChildren, 1, mid + 1)),
               NodeKeys[mid + 1],
               Internal(SubSeq(NodeKeys, mid + 2, n), SubSeq(NodeChildren, mid + 2, n + 1)))

\* Mutant: the new root's number is computed after it was appended.
NewRootLate ==
  /\ pc = "root"
  /\ Alloc(Internal(<<sep>>, <<root, right>>))
  /\ right' = Len(pages') + 1 /\ pc' = "set"
  /\ UNCHANGED <<meta, root, key, rid, path, left, sep, inserts, faults, found, failed>>

NewRoot ==
  /\ pc = "root"
  /\ Alloc(Internal(<<sep>>, <<root, right>>))
  /\ right' = NewPage /\ pc' = "set"
  /\ UNCHANGED <<meta, root, key, rid, path, left, sep, inserts, faults, found, failed>>

\* set_root assigns the root in memory before write_meta may fail.
SetRoot ==
  /\ pc = "set"
  /\ root' = right /\ pc' = "meta"
  /\ UNCHANGED <<file, call, inserts, faults, found, failed>>

WriteMeta ==
  /\ pc = "meta"
  /\ meta' = root /\ pc' = "done"
  /\ UNCHANGED <<pages, root, call, inserts, faults, found, failed>>

\* The call is over, whatever came of it.
Over ==
  /\ pc' = "idle"
  /\ key' = 0 /\ rid' = NoRid /\ path' = <<>> /\ left' = <<>> /\ sep' = 0 /\ right' = 0
  /\ found' = FindAll(pages', root')

Return ==
  /\ pc = "done"
  /\ UNCHANGED <<file, root, inserts, faults, failed>>
  /\ Over

\* The next write, or the sync of the last one, reports an error: `?` gives up
\* on the insert where it is.
Fail ==
  /\ pc # "idle" /\ faults < MaxFaults /\ inserts <= MaxFaulty
  /\ faults' = faults + 1 /\ failed' = TRUE
  /\ UNCHANGED <<file, root, inserts>>
  /\ Over

\* The process dies and another one opens the file.
Crash ==
  /\ faults < MaxFaults /\ inserts <= MaxFaulty
  /\ faults' = faults + 1 /\ failed' = FALSE
  /\ root' = meta
  /\ UNCHANGED <<file, inserts>>
  /\ Over

Next ==
  \/ \E k \in Keys : Insert(k)
  \/ LeafReplace \/ LeafInsert \/ LeafSplit \/ WriteLeft
  \/ Absorb \/ AbsorbSplit \/ NewRoot \/ SetRoot \/ WriteMeta
  \/ Return \/ Fail \/ Crash

Spec == Init /\ [][Next]_vars
-----------------------------------------------------------------------------
Nodes == {n \in [leaf : BOOLEAN, keys : Seq(Keys), vals : Seq(Nat), next : Nat] :
            n.leaf \/ n.next = 0}

TypeOK ==
  /\ pages \in Seq(Nodes)
  /\ meta \in DOMAIN pages /\ root \in DOMAIN pages
  /\ pc \in {"idle", "leaf", "left", "absorb", "root", "set", "meta", "done"}
  /\ path \in Seq(DOMAIN pages)
  /\ inserts \in 0..MaxInserts /\ faults \in 0..MaxFaults

\* Every node ever written, those a failure left behind included, has sorted
\* keys, no more than it may hold, and one value per key or one child more,
\* each a page of the file: read_node and find cannot run off a node or the file.
NodeOK(n, size) ==
  /\ Len(n.keys) <= MAX_KEYS
  /\ \A i, j \in DOMAIN n.keys : i < j => n.keys[i] < n.keys[j]
  /\ IF n.leaf THEN Len(n.vals) = Len(n.keys)
     ELSE Len(n.vals) = Len(n.keys) + 1 /\ Range(n.vals) \subseteq 1..size

NodesOK == \A p \in DOMAIN pages : NodeOK(pages[p], Len(pages))

\* Seen from page r: all leaves are equally deep, and a search for a key that
\* any reachable leaf stores arrives at that leaf.
SearchTree(r) ==
  LET searches == {[key |-> k, path |-> PathIn(pages, r, k)] : k \in Keys} IN
  \A v, w \in searches :
    LET leaf == pages[Last(v.path)] IN
    /\ leaf.leaf /\ Len(v.path) = Len(w.path)
    /\ w.key \in Range(leaf.keys) => Last(w.path) = Last(v.path)

\* The file is a search tree after every single write, both from the root in
\* memory and from the one a process that opens the file now would read: no
\* interrupted insert leaves a tree in which a search goes astray.
TreeOK == SearchTree(root) /\ SearchTree(meta)

\* The leaves in key order: what `next` links.
Chain ==
  LET walk[n \in 1..Len(pages)] ==
        IF n = 1 THEN <<1>>
        ELSE LET w == walk[n - 1]
             IN  IF pages[Last(w)].next = 0 THEN w ELSE Append(w, pages[Last(w)].next)
  IN  walk[Len(pages)]

ChainKeys == FlattenSeq([i \in DOMAIN Chain |-> pages[Chain[i]].keys])

\* While no write has failed, the chain of leaves from page 1 lists the keys of
\* the tree once each and in order, in the middle of a split too: a leaf is
\* linked before its parent knows it.
ChainOK ==
  LET keys == ChainKeys IN
  faults = 0 =>
    /\ \A i \in 2..Len(keys) : keys[i - 1] < keys[i]
    /\ \A k \in Keys : found[k] # NoRid => k \in Range(keys)

Map == INSTANCE IndexMap WITH pending <- IF pc = "idle" THEN <<>> ELSE <<key, rid>>

\* find is a map: it returns what the last insert of a key put there, whatever
\* splits that insert and the later ones caused.  Only once a write failed or a
\* process died may entries be forgotten, and even then find never returns a
\* row id that a completed insert replaced.
ImplementsMap == Map!MapSpec
=============================================================================
