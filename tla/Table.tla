-------------------------------- MODULE Table --------------------------------
(***************************************************************************)
(* src/storage/table.rs: one process that uses a table file and its index  *)
(* file through the Table API.  The pages are those HeapPage describes,    *)
(* each a sequence of rows; a row is reduced to its indexed column.  The   *)
(* tree is the IndexMap that BTree implements, faults included.            *)
(*                                                                         *)
(* There is one step per write.  Between any two the process may die, and  *)
(* any write may fail, or take effect and report that it failed; the       *)
(* caller keeps the Table and goes on.                                     *)
(***************************************************************************)
EXTENDS Integers, Sequences, SequencesExt

CONSTANTS
  Keys,         \* values of the indexed INT column
  Null,         \* its NULL, which is not indexed
  Dead,         \* what a deleted slot holds
  NoRid,
  MaxInserts, MaxEdits, MaxFaults   \* bounds: inserts, updates and deletes, faults

\* What a slot holds is a key, NULL or nothing, and never more than one of these.
ASSUME ColumnAssumption == Null \notin Keys /\ Dead \notin Keys \cup {Null}

ASSUME RidAssumption == NoRid \notin Nat \X Nat

ASSUME BoundAssumption == MaxInserts \in Nat

VARIABLES
  tbl,          \* the table file: "absent", "empty" (create died) or "ready"
  pages,        \* its data pages, from page 1
  marker,       \* the indexed-column marker of its metadata page
  idx,          \* the index file: "absent", "empty" or "ready"
  entries,      \* what the tree in it finds for each key
  pc,           \* where the call in progress is; "down" when no Table is open
  index,        \* Table.index is Some
  todo,         \* create_index: the entries still to be inserted
  pending,      \* insert: the entry being inserted into the tree, or <<>>
  failed,       \* see IndexMap
  created,      \* history: create has written the table's metadata
  had,          \* history: the keys the row at each rid has had
  lossy,        \* history: a fault hit the maintenance of the index
  inserts, edits, faults

disk == <<tbl, pages, marker, idx, entries>>
memory == <<index, todo, pending, failed>>
history == <<created, had, lossy>>
counts == <<inserts, edits, faults>>
vars == <<disk, pc, memory, history, counts>>

Idx == INSTANCE IndexMap WITH found <- entries
-----------------------------------------------------------------------------
Allocated == DOMAIN had                   \* every rid a slot was made for

Row(r) == pages[r[1]][r[2]]

Live(r) == r \in Allocated /\ Row(r) # Dead

Get(r) == IF Live(r) THEN Row(r) ELSE Dead

Before(r, s) == r[1] < s[1] \/ (r[1] = s[1] /\ r[2] < s[2])

\* find_by_key reads the row again: an entry whose row is gone, or has another
\* key by now, finds nothing.
FindByKey(k) ==
  IF entries[k] # NoRid /\ Get(entries[k]) = k THEN entries[k] ELSE NoRid

\* What create_index collects: the live rows whose column is not NULL.  They
\* come in the order of Before, as Scan goes by page and then by slot.
ScanEntries == {<<Row(r), r>> : r \in {s \in Allocated : Live(s) /\ Row(s) # Null}}
-----------------------------------------------------------------------------
Init ==
  /\ tbl = "absent" /\ pages = <<>> /\ marker = FALSE /\ idx = "absent"
  /\ pc = "down" /\ index = FALSE /\ todo = {}
  /\ Idx!MapInit
  /\ created = FALSE /\ had = [r \in {} |-> {}] /\ lossy = FALSE
  /\ inserts = 0 /\ edits = 0 /\ faults = 0

\* create: create_new makes an empty file, then the metadata page is written.
Create ==
  /\ pc = "down" /\ tbl = "absent"
  /\ tbl' = "empty" /\ pc' = "create"
  /\ UNCHANGED <<pages, marker, idx, entries, memory, history, counts>>

CreateMeta ==
  /\ pc = "create"
  /\ tbl' = "ready" /\ pc' = "idle" /\ created' = TRUE
  /\ UNCHANGED <<pages, marker, idx, entries, memory, had, lossy, counts>>

\* What open asks of the files: the table has its metadata and, when the marker
\* names a column, the index its tree.
Opens == tbl = "ready" /\ (marker => idx = "ready")

\* open: the tree is opened when the marker says so.
Open ==
  /\ pc = "down" /\ Opens
  /\ pc' = "idle" /\ index' = marker
  /\ UNCHANGED <<disk, todo, pending, failed, history, counts>>

\* Mutant: the new slot's number is the old slot count less one.
FreshOffByOne == {<<Len(pages) + 1, 1>>} \cup
         (IF pages = <<>> THEN {} ELSE {<<Len(pages), Len(Last(pages))>>})

\* Where insert_record may put a row: behind the last page's slots, when that
\* page has room (HeapPage leaves this open), or on a page of its own.
Fresh == {<<Len(pages) + 1, 1>>} \cup
         (IF pages = <<>> THEN {} ELSE {<<Len(pages), Len(Last(pages)) + 1>>})

\* insert: the page is written before the tree is touched.
Insert(k, r) ==
  /\ pc = "idle" /\ inserts < MaxInserts
  /\ pages' = IF r[1] > Len(pages) THEN Append(pages, <<k>>)
              ELSE [pages EXCEPT ![r[1]] = Append(@, k)]
  /\ had' = [s \in Allocated \cup {r} |-> IF s = r THEN {k} ELSE had[s]]
  /\ inserts' = inserts + 1
  /\ IF index /\ k # Null
     THEN pc' = "index" /\ pending' = <<k, r>> /\ Idx!Begin
     ELSE UNCHANGED <<pc, pending, entries, failed>>
  /\ UNCHANGED <<tbl, marker, idx, index, todo, created, lossy, edits, faults>>

IndexInsert ==
  /\ pc = "index" /\ Idx!Return
  /\ pc' = "idle"
  /\ UNCHANGED <<tbl, pages, marker, idx, index, todo, history, counts>>

SetRow(r, v) == pages' = [pages EXCEPT ![r[1]][r[2]] = v]

\* update and delete leave the tree alone.
Update(r, k) ==
  /\ pc = "idle" /\ edits < MaxEdits /\ Live(r)
  /\ SetRow(r, k)
  /\ had' = [had EXCEPT ![r] = @ \cup {k}]
  /\ edits' = edits + 1
  /\ UNCHANGED <<tbl, marker, idx, entries, pc, memory, created, lossy, inserts, faults>>

\* Mutant: deleting the last slot of a page gives the slot back.
DeleteReclaims(r) ==
  /\ pc = "idle" /\ edits < MaxEdits /\ Live(r)
  /\ IF r[2] = Len(pages[r[1]])
     THEN pages' = [pages EXCEPT ![r[1]] = Front(@)] /\ had' = [s \in Allocated \ {r} |-> had[s]]
     ELSE SetRow(r, Dead) /\ UNCHANGED had
  /\ edits' = edits + 1
  /\ UNCHANGED <<tbl, marker, idx, entries, pc, memory, created, lossy, inserts, faults>>

Delete(r) ==
  /\ pc = "idle" /\ edits < MaxEdits /\ Live(r)
  /\ SetRow(r, Dead)
  /\ edits' = edits + 1
  /\ UNCHANGED <<tbl, marker, idx, entries, pc, memory, history, inserts, faults>>

\* Mutant: the marker is written before the tree is built.
CreateIndexMarksFirst ==
  /\ pc = "idle" /\ idx = "absent"
  /\ idx' = "empty" /\ todo' = ScanEntries /\ pc' = "tree" /\ marker' = TRUE
  /\ UNCHANGED <<tbl, pages, entries, index, pending, failed, history, counts>>

\* create_index: scan, create the tree's file, insert what was scanned, write
\* the marker, and only then keep the tree in memory.  An index file that
\* exists, complete or not, makes BTree::create fail.
CreateIndex ==
  /\ pc = "idle" /\ idx = "absent"
  /\ idx' = "empty" /\ todo' = ScanEntries /\ pc' = "tree"
  /\ UNCHANGED <<tbl, pages, marker, entries, index, pending, failed, history, counts>>

CreateTree ==
  /\ pc = "tree"
  /\ idx' = "ready" /\ pc' = "build"
  /\ UNCHANGED <<tbl, pages, marker, entries, memory, history, counts>>

\* Mutant: the newest rows come first.
BuildEntryNewestFirst ==
  /\ pc = "build"
  /\ \E e \in todo :
       /\ \A d \in todo : d = e \/ Before(d[2], e[2])
       /\ entries' = [entries EXCEPT ![e[1]] = e[2]]
       /\ todo' = todo \ {e}
  /\ UNCHANGED <<tbl, pages, marker, idx, pc, index, pending, failed, history, counts>>

BuildEntry ==
  /\ pc = "build"
  /\ \E e \in todo :
       /\ \A d \in todo : d = e \/ Before(e[2], d[2])
       /\ entries' = [entries EXCEPT ![e[1]] = e[2]]
       /\ todo' = todo \ {e}
  /\ UNCHANGED <<tbl, pages, marker, idx, pc, index, pending, failed, history, counts>>

WriteMarker ==
  /\ pc = "build" /\ todo = {}
  /\ marker' = TRUE /\ pc' = "marked"
  /\ UNCHANGED <<tbl, pages, idx, entries, memory, history, counts>>

KeepIndex ==
  /\ pc = "marked"
  /\ index' = TRUE /\ pc' = "idle"
  /\ UNCHANGED <<disk, todo, pending, failed, history, counts>>

\* What find may see of a tree after a fault; IndexMap says which of these.
Damaged ==
  entries' \in IF pending = <<>> /\ ~failed THEN {entries}
               ELSE [Keys -> Allocated \cup {NoRid}]

\* A write fails or reports that it failed, and the call returns the error.
Fail ==
  /\ pc \notin {"down", "idle"} /\ faults < MaxFaults
  /\ faults' = faults + 1
  /\ pc' = IF pc = "create" THEN "down" ELSE "idle"
  /\ todo' = {}
  /\ lossy' = (lossy \/ pc \in {"index", "marked"})
  /\ IF pc = "index" THEN Damaged /\ Idx!Fail ELSE UNCHANGED <<entries, pending, failed>>
  /\ UNCHANGED <<tbl, pages, marker, idx, index, created, had, inserts, edits>>

\* The process dies.
Crash ==
  /\ pc # "down" /\ faults < MaxFaults
  /\ faults' = faults + 1
  /\ pc' = "down" /\ index' = FALSE /\ todo' = {}
  /\ lossy' = (lossy \/ pc = "index")
  /\ Damaged /\ Idx!Crash
  /\ UNCHANGED <<tbl, pages, marker, idx, created, had, inserts, edits>>

Next ==
  \/ Create \/ CreateMeta \/ Open
  \/ \E k \in Keys \cup {Null}, r \in Fresh : Insert(k, r)
  \/ IndexInsert
  \/ \E r \in Allocated : Delete(r) \/ \E k \in Keys \cup {Null} : Update(r, k)
  \/ CreateIndex \/ CreateTree \/ BuildEntry \/ WriteMarker \/ KeepIndex
  \/ Fail \/ Crash

Spec == Init /\ [][Next]_vars
-----------------------------------------------------------------------------
Rids == (1..MaxInserts) \X (1..MaxInserts)

\* The slots of the pages are exactly the rids handed out, and the variables
\* have their types.
TypeOK ==
  /\ tbl \in {"absent", "empty", "ready"} /\ idx \in {"absent", "empty", "ready"}
  /\ pages \in Seq(Seq(Keys \cup {Null, Dead}))
  /\ Allocated = {r \in Rids : r[1] \in DOMAIN pages /\ r[2] \in DOMAIN pages[r[1]]}
  /\ entries \in [Keys -> Rids \cup {NoRid}]
  /\ marker \in BOOLEAN /\ index \in BOOLEAN
  /\ created \in BOOLEAN /\ lossy \in BOOLEAN

\* Once create has written the metadata open accepts the table for good, with a
\* marker or without.  A create that died before leaves a file that is no table:
\* nobody has it open, and no marker is ever in it.  The marker is not ahead of
\* the tree.  Without it every call works as without an index, whatever an
\* interrupted create_index left; with it no call leaves the tree behind, save
\* after write_index_marker or the tree's insert has reported an error.
Openable ==
  /\ created => Opens
  /\ pc \notin {"down", "create"} \/ marker => created
  /\ marker => todo = {}
  /\ index => marker
  /\ marker /\ ~lossy /\ pc \notin {"down", "marked"} => index

\* An entry of an index in use leads to a row that has had its key, so that
\* what find_by_key reads there was once that row and never another's: rows are
\* on disk before their entries, and a rid is never handed out twice.
EntriesHonest ==
  \A k \in Keys : entries[k] # NoRid => entries[k] \in Allocated /\ k \in had[entries[k]]

\* The newest row ever to have a key is found by it while it is live and never
\* had another, whatever happened to older rows with that key, whether the row
\* came before create_index or after, and across any restart, unless a fault
\* hit the very maintenance of the index.
FindsNewest ==
  marker /\ ~lossy /\ pc # "index" =>
    \A k \in Keys, r \in Allocated :
      /\ had[r] = {k} /\ Live(r)
      /\ \A s \in Allocated : k \in had[s] => s = r \/ Before(s, r)
      => FindByKey(k) = r
=============================================================================
