---------------------------- MODULE TableProofs ----------------------------
(***************************************************************************)
(* What holds of a table and its index for any set of keys, any number of  *)
(* inserts, updates and deletes, and any number of faults.                 *)
(***************************************************************************)
EXTENDS Table, TLAPS

Values == Keys \cup {Null}

\* The bounds on pages and slots hold because each insert adds one slot.
Shape ==
  /\ TypeOK
  /\ pc \in {"down", "create", "idle", "index", "tree", "build", "marked"}
  /\ inserts \in 0..MaxInserts /\ Len(pages) <= inserts
  /\ \A p \in DOMAIN pages : Len(pages[p]) <= inserts
  /\ failed \in BOOLEAN

\* A row that is there has had its key, and a slot that was made has had one.
HadKeys ==
  \A r \in Allocated :
    had[r] \in SUBSET Values /\ had[r] # {} /\ (Row(r) # Dead => Row(r) \in had[r])

\* How far create and create_index have come, in the files and in memory.
Stages ==
  /\ pc = "create" => tbl = "empty"
  /\ pc \in {"idle", "index", "tree", "build", "marked"} => tbl = "ready" /\ created
  /\ created <=> tbl = "ready"
  /\ pc = "tree" => idx = "empty"
  /\ pc = "build" => idx = "ready"
  /\ pc = "marked" => marker
  /\ pc \in {"tree", "build"} => ~marker
  /\ pc \notin {"tree", "build"} => todo = {}
  /\ failed => lossy

IsLast(r) == \A s \in Allocated : s = r \/ Before(s, r)

\* The row of the entry being inserted is on disk, and no row is behind it.
PendingHonest ==
  IF pc = "index"
  THEN /\ pending \in Keys \X Allocated
       /\ pending[1] \in had[pending[2]] /\ IsLast(pending[2])
  ELSE pending = <<>>

TodoHonest == \A e \in todo : e \in Keys \X Allocated /\ e[1] \in had[e[2]]

\* r is the newest row ever to have k, is live, and never had another key.
Newest(k, r) ==
  /\ had[r] = {k} /\ Live(r)
  /\ \A s \in Allocated : k \in had[s] => s = r \/ Before(s, r)

\* While the tree is built, what FindsNewest asks for is in it or still to come,
\* and nothing that is still to come replaces it.
Building ==
  pc \in {"tree", "build"} =>
    \A k \in Keys, r \in Allocated :
      Newest(k, r) => <<k, r>> \in todo \/ (entries[k] = r /\ \A e \in todo : e[1] # k)

Indexed ==
  marker /\ ~lossy =>
    \A k \in Keys, r \in Allocated : Newest(k, r) => entries[k] = r \/ pending = <<k, r>>

TableInv ==
  /\ Shape /\ Openable /\ EntriesHonest
  /\ HadKeys /\ Stages /\ PendingHonest /\ TodoHonest /\ Building /\ Indexed
-----------------------------------------------------------------------------
\* Before the table is created there are no rows and no entries.
LEMMA InitTable == Init => TableInv
<1> SUFFICES ASSUME Init PROVE TableInv
  OBVIOUS
<1> USE DEF Init
<1>1. Allocated = {} /\ pages = <<>> /\ DOMAIN pages = {}
  BY DEF Allocated
<1>2. /\ entries = [k \in Keys |-> NoRid] /\ pending = <<>> /\ failed = FALSE
  BY DEF Idx!MapInit
<1>3. TypeOK
  <2>1. {r \in Rids : r[1] \in DOMAIN pages /\ r[2] \in DOMAIN pages[r[1]]} = {}
    BY <1>1
  <2>2. pages \in Seq(Seq(Keys \cup {Null, Dead}))
    BY <1>1
  <2> QED
    BY <1>1, <1>2, <2>1, <2>2 DEF TypeOK
<1>4. inserts = 0 /\ Len(pages) = 0 /\ inserts \in 0..MaxInserts
  BY <1>1, BoundAssumption
<1>5. Shape
  <2>1. Len(pages) <= inserts /\ \A p \in DOMAIN pages : Len(pages[p]) <= inserts
    BY <1>1, <1>4
  <2>2. failed \in BOOLEAN
    BY <1>2
  <2> QED
    BY <1>3, <1>4, <2>1, <2>2 DEF Shape
<1> QED
  BY <1>1, <1>2, <1>5 DEF TableInv, Openable, Opens, EntriesHonest, HadKeys, Stages, PendingHonest,
     TodoHonest, Building, Indexed

\* The slots in use are row ids, and are ordered by page and then by slot.
LEMMA AllocatedAreRids ==
  ASSUME TableInv
  PROVE  /\ Allocated \subseteq Rids /\ \A r \in Rids : r[1] \in Nat /\ r[2] \in Nat
         /\ NoRid \notin Allocated
         /\ \A r, s \in Rids : r = s <=> r[1] = s[1] /\ r[2] = s[2]
         /\ \A r, s \in Rids : ~(Before(r, s) /\ (r = s \/ Before(s, r)))
<1>1. Allocated \subseteq Rids
  BY DEF TableInv, Shape, TypeOK
<1>2. \A r \in Rids : r \in Nat \X Nat
  BY BoundAssumption DEF Rids
<1>3. \A r, s \in Rids : r = s <=> r[1] = s[1] /\ r[2] = s[2]
  BY DEF Rids
<1>4. \A r, s \in Rids : ~(Before(r, s) /\ (r = s \/ Before(s, r)))
  BY <1>2 DEF Before
<1>5. NoRid \notin Allocated /\ \A r \in Rids : r[1] \in Nat /\ r[2] \in Nat
  BY <1>1, <1>2, RidAssumption
<1> QED
  BY <1>1, <1>2, <1>3, <1>4, <1>5

\* What an insert does to the pages: it makes one slot, behind all the others,
\* and leaves every row where it is.
Stored(r, k) ==
  /\ r \in Rids \ Allocated /\ Allocated' = Allocated \cup {r}
  /\ had'[r] = {k} /\ \A s \in Allocated : had'[s] = had[s]
  /\ Row(r)' = k /\ \A s \in Allocated : Row(s)' = Row(s) /\ Before(s, r)

\* An insert, into the last page or a new one, does no more than that.
LEMMA InsertStores ==
  ASSUME TableInv, NEW k \in Values, NEW r \in Fresh, Insert(k, r)
  PROVE  /\ Stored(r, k)
         /\ pages' \in Seq(Seq(Values \cup {Dead})) /\ Len(pages') <= inserts'
         /\ \A p \in DOMAIN pages' : Len(pages'[p]) <= inserts'
         /\ Allocated' = {s \in Rids : s[1] \in DOMAIN pages' /\ s[2] \in DOMAIN pages'[s[1]]}
<1> USE DEF Values
<1>1. /\ pages \in Seq(Seq(Values \cup {Dead})) /\ inserts \in Nat /\ inserts < MaxInserts
      /\ inserts' = inserts + 1
      /\ Len(pages) <= inserts /\ \A p \in DOMAIN pages : Len(pages[p]) <= inserts
      /\ Allocated = {s \in Rids : s[1] \in DOMAIN pages /\ s[2] \in DOMAIN pages[s[1]]}
  BY BoundAssumption DEF TableInv, Shape, TypeOK, Insert
<1>2. had' = [s \in Allocated \cup {r} |-> IF s = r THEN {k} ELSE had[s]]
  BY DEF Insert
<1>3. CASE r = <<Len(pages) + 1, 1>>
  <2>1. pages' = Append(pages, <<k>>)
    BY <1>1, <1>3 DEF Insert
  <2>2. /\ Len(pages') = Len(pages) + 1 /\ pages'[Len(pages) + 1] = <<k>>
        /\ \A p \in 1..Len(pages) : pages'[p] = pages[p]
        /\ pages' \in Seq(Seq(Values \cup {Dead})) /\ DOMAIN pages' = 1..(Len(pages) + 1)
    BY <1>1, <2>1
  <2>3. r \in Rids \ Allocated
    <3>1. Len(pages) + 1 \in 1..MaxInserts /\ 1 \in 1..MaxInserts
      BY <1>1, BoundAssumption
    <3>2. r[1] \notin DOMAIN pages
      BY <1>1, <1>3
    <3> QED
      BY <1>1, <1>3, <3>1, <3>2 DEF Rids
  <2>4. \A s \in Allocated : s[1] \in 1..Len(pages) /\ Row(s)' = Row(s) /\ Before(s, r)
    BY SMTT(30), <1>1, <1>3, <2>2 DEF Row, Before
  <2>5. Allocated' = Allocated \cup {r}
    BY <1>2 DEF Allocated
  <2>6. {s \in Rids : s[1] \in DOMAIN pages' /\ s[2] \in DOMAIN pages'[s[1]]} = Allocated \cup {r}
    <3>1. ASSUME NEW s \in Rids, s[1] \in 1..Len(pages)
          PROVE  s \in Allocated <=> s[2] \in DOMAIN pages'[s[1]]
      BY SMTT(30), <1>1, <2>2, <3>1
    <3>2. ASSUME NEW s \in Rids, s[1] = Len(pages) + 1
          PROVE  s \notin Allocated /\ (s = r <=> s[2] \in DOMAIN pages'[s[1]])
      BY <1>1, <1>3, <2>2, <3>2 DEF Rids
    <3>3. \A s \in Rids : s \in Allocated => s[1] \in 1..Len(pages)
      BY <1>1
    <3>4. DOMAIN pages' = 1..Len(pages) \cup {Len(pages) + 1} /\ r[1] \notin 1..Len(pages)
      BY <1>1, <1>3, <2>2
    <3>5. \A s \in Rids : s \in Allocated \cup {r} <=> s[1] \in DOMAIN pages' /\ s[2] \in DOMAIN pages'[s[1]]
      BY <1>3, <3>1, <3>2, <3>3, <3>4
    <3> QED
      BY <1>1, <2>3, <3>5
  <2>7. \A p \in DOMAIN pages' : Len(pages'[p]) <= inserts'
    BY SMTT(30), <1>1, <2>2
  <2> QED
    <3>1. Row(r)' = k
      BY <1>3, <2>2 DEF Row
    <3>2. had'[r] = {k} /\ \A s \in Allocated : had'[s] = had[s]
      BY <1>2, <2>3
    <3>3. Stored(r, k)
      BY <2>3, <2>4, <2>5, <3>1, <3>2 DEF Stored
    <3> QED
      BY <1>1, <2>2, <2>5, <2>6, <2>7, <3>3
<1>4. CASE r # <<Len(pages) + 1, 1>>
  <2>1. pages # <<>> /\ r = <<Len(pages), Len(pages[Len(pages)]) + 1>>
    BY <1>4 DEF Fresh, Last
  <2> DEFINE n == Len(pages)
  <2>2. n \in 1..Len(pages) /\ pages[n] \in Seq(Values \cup {Dead}) /\ r = <<n, Len(pages[n]) + 1>>
    BY <1>1, <2>1
  <2>3. pages' = [pages EXCEPT ![n] = Append(pages[n], k)]
    BY <1>1, <2>1, <2>2 DEF Insert
  <2>4. /\ Len(pages') = n /\ pages'[n] = Append(pages[n], k)
        /\ \A p \in 1..n : p # n => pages'[p] = pages[p]
        /\ pages' \in Seq(Seq(Values \cup {Dead})) /\ DOMAIN pages' = 1..n
    BY <1>1, <2>2, <2>3
  <2>5. r \in Rids \ Allocated
    <3>1. n \in 1..MaxInserts /\ Len(pages[n]) + 1 \in 1..MaxInserts
      BY <1>1, <2>2, BoundAssumption
    <3>2. r[2] \notin DOMAIN pages[r[1]]
      BY <2>2
    <3> QED
      BY <1>1, <2>2, <3>1, <3>2 DEF Rids
  <2>6. \A s \in Allocated : Row(s)' = Row(s) /\ Before(s, r)
    <3> TAKE s \in Allocated
    <3>1. s[1] \in 1..n /\ s[2] \in 1..Len(pages[s[1]])
      BY <1>1
    <3>2. CASE s[1] = n
      BY <1>1, <2>2, <2>4, <3>1, <3>2 DEF Row, Before
    <3>3. CASE s[1] # n
      BY SMTT(30), <1>1, <2>2, <2>4, <3>1, <3>3 DEF Row, Before
    <3> QED
      BY <3>2, <3>3
  <2>7. Allocated' = Allocated \cup {r}
    BY <1>2 DEF Allocated
  <2>8. {s \in Rids : s[1] \in DOMAIN pages' /\ s[2] \in DOMAIN pages'[s[1]]} = Allocated \cup {r}
    <3>1. ASSUME NEW s \in Rids, s[1] \in 1..n, s[1] # n
          PROVE  s \in Allocated \cup {r} <=> s[2] \in DOMAIN pages'[s[1]]
      <4>1. pages'[s[1]] = pages[s[1]] /\ s[1] \in DOMAIN pages /\ s # r
        BY <1>1, <2>2, <2>4, <3>1
      <4> QED
        BY <1>1, <3>1, <4>1
    <3>2. ASSUME NEW s \in Rids, s[1] = n
          PROVE  s \in Allocated \cup {r} <=> s[2] \in DOMAIN pages'[s[1]]
      BY <1>1, <2>2, <2>4, <3>2 DEF Rids
    <3>3. DOMAIN pages' = 1..n /\ DOMAIN pages = 1..n /\ r[1] = n
      BY <1>1, <2>2, <2>4
    <3>4. \A s \in Rids : s \in Allocated \cup {r} <=> s[1] \in DOMAIN pages' /\ s[2] \in DOMAIN pages'[s[1]]
      <4> TAKE s \in Rids
      <4>1. CASE s[1] = n
        BY <1>1, <2>2, <3>2, <3>3, <4>1
      <4>2. CASE s[1] # n /\ s[1] \in 1..n
        BY <3>1, <3>3, <4>2
      <4>3. CASE s[1] \notin 1..n
        BY <1>1, <2>2, <3>3, <4>3
      <4> QED
        BY <4>1, <4>2, <4>3
    <3> QED
      BY <1>1, <2>5, <3>4
  <2>9. \A p \in DOMAIN pages' : Len(pages'[p]) <= inserts'
    <3> TAKE p \in DOMAIN pages'
    <3>1. CASE p = n
      BY <1>1, <2>2, <2>4, <3>1
    <3>2. CASE p # n
      <4>1. p \in DOMAIN pages /\ pages'[p] = pages[p] /\ pages[p] \in Seq(Values \cup {Dead})
        BY <1>1, <2>2, <2>4, <3>2
      <4>2. Len(pages[p]) \in Nat /\ Len(pages[p]) <= inserts
        BY <1>1, <4>1
      <4> QED
        BY <1>1, <4>1, <4>2
    <3> QED
      BY <3>1, <3>2
  <2>10. Row(r)' = k
    BY <2>2, <2>4 DEF Row
  <2> QED
    <3>1. had'[r] = {k} /\ \A s \in Allocated : had'[s] = had[s]
      BY <1>2, <2>5
    <3>2. Stored(r, k)
      BY <2>5, <2>6, <2>7, <2>10, <3>1 DEF Stored
    <3>3. Len(pages') <= inserts'
      <4>1. n \in Nat /\ n <= inserts
        BY <1>1, <2>2
      <4>2. Len(pages') = n /\ inserts \in Nat /\ inserts' = inserts + 1
        BY <1>1, <2>4
      <4> HIDE DEF n
      <4> QED
        BY <4>1, <4>2
    <3> QED
      BY <2>4, <2>7, <2>8, <2>9, <3>2, <3>3
<1> QED
  BY <1>3, <1>4

\* So it keeps the invariant: the new row is behind every row an entry points to.
LEMMA InsertTable ==
  ASSUME TableInv, NEW k \in Values, NEW r \in Fresh, Insert(k, r)
  PROVE  TableInv'
<1>1. /\ pc = "idle" /\ pending = <<>> /\ tbl = "ready" /\ todo = {} /\ inserts < MaxInserts
      /\ inserts' = inserts + 1 /\ UNCHANGED <<tbl, marker, idx, entries, index, todo, failed, created, lossy>>
  BY DEF TableInv, Stages, PendingHonest, Insert, Idx!Begin
<1>2. \/ pc' = "idle" /\ pending' = <<>> /\ (index => k = Null)
      \/ pc' = "index" /\ pending' = <<k, r>> /\ index /\ k \in Keys
  BY <1>1 DEF Insert, Values
<1>3. Stored(r, k)
  BY InsertStores
<1>4. ASSUME NEW j \in Keys, NEW s \in Allocated', Newest(j, s)'
      PROVE  (s = r /\ j = k) \/ (s \in Allocated /\ Newest(j, s))
  <2>1. CASE s = r
    BY <1>3, <1>4, <2>1 DEF Stored, Newest
  <2>2. CASE s \in Allocated
    BY <1>3, <1>4, <2>2 DEF Stored, Newest, Live, Before
  <2> QED
    BY <1>3, <2>1, <2>2 DEF Stored
<1>5. Shape'
  <2>1. TypeOK'
    BY <1>1, InsertStores DEF TableInv, Shape, TypeOK, Values
  <2>2. inserts' \in 0..MaxInserts
    BY <1>1, BoundAssumption DEF TableInv, Shape
  <2> QED
    BY <1>1, <1>2, <2>1, <2>2, InsertStores DEF TableInv, Shape
<1>6. HadKeys'
  BY <1>3 DEF TableInv, HadKeys, Stored, Values
<1>7. Openable' /\ Stages'
  BY <1>1, <1>2 DEF TableInv, Openable, Opens, Stages
<1>8. EntriesHonest' /\ TodoHonest'
  BY <1>1, <1>3 DEF TableInv, EntriesHonest, TodoHonest, Stored
<1>9. PendingHonest'
  BY <1>2, <1>3 DEF PendingHonest, IsLast, Stored, Before
<1>10. Building'
  BY <1>2 DEF Building
<1>11. Indexed'
  BY <1>1, <1>2, <1>4, ColumnAssumption DEF TableInv, Openable, Indexed
<1> QED
  BY <1>5, <1>6, <1>7, <1>8, <1>9, <1>10, <1>11 DEF TableInv

\* What update and delete do: they write one row, and no slot is made or lost.
LEMMA SetRowSets ==
  ASSUME TableInv, NEW r \in Allocated, NEW v \in Values \cup {Dead}, SetRow(r, v)
  PROVE  /\ Row(r)' = v /\ \A s \in Allocated \ {r} : Row(s)' = Row(s)
         /\ pages' \in Seq(Seq(Values \cup {Dead})) /\ Len(pages') = Len(pages)
         /\ \A p \in DOMAIN pages' : Len(pages'[p]) = Len(pages[p])
         /\ {s \in Rids : s[1] \in DOMAIN pages' /\ s[2] \in DOMAIN pages'[s[1]]} = Allocated
<1> USE DEF Values
<1>1. /\ pages \in Seq(Seq(Values \cup {Dead}))
      /\ Allocated = {s \in Rids : s[1] \in DOMAIN pages /\ s[2] \in DOMAIN pages[s[1]]}
      /\ r[1] \in DOMAIN pages /\ r[2] \in DOMAIN pages[r[1]]
  BY DEF TableInv, Shape, TypeOK
<1> DEFINE page == [pages[r[1]] EXCEPT ![r[2]] = v]
<1>2. pages' = [pages EXCEPT ![r[1]] = page]
  BY DEF SetRow
<1>3. pages[r[1]] \in Seq(Values \cup {Dead})
  BY <1>1
<1>4. page \in Seq(Values \cup {Dead}) /\ Len(page) = Len(pages[r[1]]) /\ DOMAIN page = DOMAIN pages[r[1]]
  BY <1>1, <1>3
<1>5. /\ pages' \in Seq(Seq(Values \cup {Dead})) /\ Len(pages') = Len(pages)
      /\ DOMAIN pages' = DOMAIN pages /\ pages'[r[1]] = page
      /\ \A p \in DOMAIN pages : p # r[1] => pages'[p] = pages[p]
  BY <1>1, <1>2, <1>4
<1>6. \A p \in DOMAIN pages' : Len(pages'[p]) = Len(pages[p]) /\ DOMAIN pages'[p] = DOMAIN pages[p]
  BY <1>4, <1>5
<1>7. Row(r)' = v
  BY <1>1, <1>5 DEF Row
<1>8. \A s \in Allocated \ {r} : Row(s)' = Row(s)
  <2> TAKE s \in Allocated \ {r}
  <2>1. s[1] \in DOMAIN pages /\ s[2] \in DOMAIN pages[s[1]] /\ (s[1] # r[1] \/ s[2] # r[2])
    BY <1>1, AllocatedAreRids
  <2>2. CASE s[1] = r[1]
    BY <1>3, <1>5, <2>1, <2>2 DEF Row
  <2>3. CASE s[1] # r[1]
    BY <1>5, <2>1, <2>3 DEF Row
  <2> QED
    BY <2>2, <2>3
<1> QED
  BY <1>1, <1>5, <1>6, <1>7, <1>8

\* An edit of a live row that adds what it writes to the history of the row.
LEMMA EditKeeps ==
  ASSUME TableInv, NEW r \in Allocated, NEW v \in Values \cup {Dead}, Live(r), pc = "idle", SetRow(r, v),
         DOMAIN had' = Allocated, had'[r] = had[r] \cup ({v} \ {Dead}),
         \A s \in Allocated \ {r} : had'[s] = had[s],
         UNCHANGED <<tbl, marker, idx, entries, pc, memory, created, lossy, inserts>>
  PROVE  TableInv'
<1> USE DEF memory
<1>1. Allocated' = Allocated
  BY DEF Allocated
<1>2. \A s \in Allocated : had[s] \subseteq had'[s]
  OBVIOUS
<1>3. ASSUME NEW k \in Keys, NEW s \in Allocated, Newest(k, s)'
      PROVE  Newest(k, s)
  <2>1. had[s] = {k}
    BY <1>2, <1>3 DEF Newest, TableInv, HadKeys
  <2>2. Live(s)
    BY <1>1, <1>3, SetRowSets DEF Newest, Live
  <2> QED
    BY <1>1, <1>2, <1>3, <2>1, <2>2 DEF Newest, Before
<1>4. Shape'
  <2>1. TypeOK'
    BY <1>1, SetRowSets DEF TableInv, Shape, TypeOK, Values
  <2> QED
    BY <2>1, SetRowSets DEF TableInv, Shape
<1>5. HadKeys'
  <2> SUFFICES ASSUME NEW s \in Allocated
               PROVE  had'[s] \in SUBSET Values /\ had'[s] # {} /\ (Row(s)' # Dead => Row(s)' \in had'[s])
    BY <1>1 DEF HadKeys, Row
  <2>1. had[s] \in SUBSET Values /\ had[s] # {} /\ (Row(s) # Dead => Row(s) \in had[s])
    BY DEF TableInv, HadKeys
  <2>2. CASE s = r
    BY <2>1, <2>2, SetRowSets
  <2>3. CASE s # r
    BY <2>1, <2>3, SetRowSets
  <2> QED
    BY <2>2, <2>3
<1>6. Openable' /\ Stages'
  BY DEF TableInv, Openable, Opens, Stages
<1>7. EntriesHonest' /\ TodoHonest' /\ PendingHonest'
  BY <1>1, <1>2 DEF TableInv, EntriesHonest, TodoHonest, PendingHonest
<1>8. Building' /\ Indexed'
  BY <1>1, <1>3 DEF TableInv, Building, Indexed
<1> QED
  BY <1>4, <1>5, <1>6, <1>7, <1>8 DEF TableInv

\* A delete and an update in place keep it: they change one row and no slot.
LEMMA EditTable ==
  ASSUME TableInv, NEW r \in Allocated, Delete(r) \/ \E k \in Keys \cup {Null} : Update(r, k)
  PROVE  TableInv'
<1>1. CASE Delete(r)
  <2>1. had'[r] = had[r] \cup ({Dead} \ {Dead}) /\ had' = had
    BY <1>1 DEF Delete, history
  <2> QED
    BY <1>1, <2>1, EditKeeps DEF Delete, Allocated, history
<1>2. ASSUME NEW k \in Keys \cup {Null}, Update(r, k)
      PROVE  TableInv'
  <2>1. {k} \ {Dead} = {k} /\ k \in Values
    BY ColumnAssumption DEF Values
  <2>2. had' = [had EXCEPT ![r] = had[r] \cup {k}]
    BY <1>2 DEF Update
  <2>3. DOMAIN had' = Allocated /\ had'[r] = had[r] \cup {k} /\ \A s \in Allocated \ {r} : had'[s] = had[s]
    BY <2>2 DEF Allocated
  <2> QED
    BY <1>2, <2>1, <2>3, EditKeeps DEF Update
<1> QED
  BY <1>1, <1>2

\* Every other step leaves the rows and their history alone.
LEMMA SameRows ==
  ASSUME TableInv, UNCHANGED <<pages, had>>
  PROVE  /\ HadKeys' /\ Allocated' = Allocated
         /\ \A r \in Allocated : had'[r] = had[r] /\ (IsLast(r) => IsLast(r)')
         /\ \A k \in Keys, r \in Allocated : Newest(k, r)' => Newest(k, r)
<1>1. Allocated' = Allocated /\ \A r \in Allocated : Row(r)' = Row(r)
  BY DEF Allocated, Row
<1> QED
  BY <1>1 DEF TableInv, HadKeys, IsLast, Newest, Live, Before

\* A step that leaves the pages alone keeps their shape.
LEMMA SameShape ==
  ASSUME TableInv, UNCHANGED <<pages, had, inserts>>,
         tbl' \in {"absent", "empty", "ready"}, idx' \in {"absent", "empty", "ready"},
         entries' \in [Keys -> Rids \cup {NoRid}],
         marker' \in BOOLEAN, index' \in BOOLEAN, created' \in BOOLEAN, lossy' \in BOOLEAN,
         failed' \in BOOLEAN,
         pc' \in {"down", "create", "idle", "index", "tree", "build", "marked"}
  PROVE  Shape'
<1>1. TypeOK'
  BY SameRows DEF TableInv, Shape, TypeOK
<1> QED
  BY <1>1 DEF TableInv, Shape

\* create, open and the end of create_index: the tree and the work on it stay.
LEMMA FileSteps ==
  ASSUME TableInv, Create \/ CreateMeta \/ Open \/ CreateTree \/ WriteMarker \/ KeepIndex
  PROVE  TableInv'
<1> USE DEF disk, memory, history, counts
<1>1. UNCHANGED <<pages, had, inserts, entries, todo, pending, failed, lossy>>
  BY DEF Create, CreateMeta, Open, CreateTree, WriteMarker, KeepIndex
<1>2. Shape'
  <2>1. /\ tbl' \in {"absent", "empty", "ready"} /\ idx' \in {"absent", "empty", "ready"}
        /\ marker' \in BOOLEAN /\ index' \in BOOLEAN /\ created' \in BOOLEAN
        /\ pc' \in {"down", "create", "idle", "index", "tree", "build", "marked"}
    BY DEF Create, CreateMeta, Open, CreateTree, WriteMarker, KeepIndex, TableInv, Shape, TypeOK
  <2> QED
    BY <1>1, <2>1, SameShape DEF TableInv, Shape, TypeOK
<1>3. Openable' /\ Stages'
  BY DEF Create, CreateMeta, Open, CreateTree, WriteMarker, KeepIndex, TableInv, Openable, Opens, Stages
<1>4. EntriesHonest' /\ TodoHonest' /\ HadKeys'
  BY <1>1, SameRows DEF TableInv, EntriesHonest, TodoHonest
<1>5. PendingHonest'
  <2>1. pc # "index" /\ pc' # "index"
    BY DEF Create, CreateMeta, Open, CreateTree, WriteMarker, KeepIndex
  <2> QED
    BY <1>1, <2>1 DEF TableInv, PendingHonest
<1>6. Building'
  <2>1. CASE CreateTree
    BY <1>1, <2>1, SameRows DEF CreateTree, TableInv, Building
  <2>2. CASE ~CreateTree
    BY <2>2 DEF Create, CreateMeta, Open, WriteMarker, KeepIndex, Building
  <2> QED
    BY <2>1, <2>2
<1>7. Indexed'
  <2>1. CASE WriteMarker
    BY <1>1, <2>1, SameRows DEF WriteMarker, TableInv, Building, Indexed
  <2>2. CASE ~WriteMarker
    <3>1. marker' = marker
      BY <2>2 DEF Create, CreateMeta, Open, CreateTree, KeepIndex
    <3> QED
      BY <1>1, <3>1, SameRows DEF TableInv, Indexed
  <2> QED
    BY <2>1, <2>2
<1> QED
  BY <1>2, <1>3, <1>4, <1>5, <1>6, <1>7 DEF TableInv

\* The tree's insert keeps it: the entry replaced is of an older row.
LEMMA IndexInsertTable ==
  ASSUME TableInv, IndexInsert
  PROVE  TableInv'
<1> DEFINE key == pending[1]
           rid == pending[2]
<1>1. /\ pc = "index" /\ pc' = "idle" /\ pending' = <<>> /\ entries' = [entries EXCEPT ![key] = rid]
      /\ UNCHANGED <<pages, had, inserts, tbl, marker, idx, index, todo, failed, created, lossy>>
  BY DEF IndexInsert, Idx!Return, history, counts
<1>2. key \in Keys /\ rid \in Allocated /\ key \in had[rid] /\ IsLast(rid)
  BY <1>1 DEF TableInv, PendingHonest
<1>3. /\ entries' \in [Keys -> Rids \cup {NoRid}] /\ entries'[key] = rid
      /\ \A k \in Keys : k # key => entries'[k] = entries[k]
  BY <1>1, <1>2, AllocatedAreRids DEF TableInv, Shape, TypeOK
<1>4. Shape'
  BY <1>1, <1>3, SameShape DEF TableInv, Shape, TypeOK
<1>5. Openable' /\ Stages'
  BY <1>1 DEF TableInv, Openable, Opens, Stages
<1>6. EntriesHonest' /\ TodoHonest' /\ HadKeys' /\ PendingHonest'
  BY <1>1, <1>2, <1>3, SameRows DEF TableInv, EntriesHonest, TodoHonest, PendingHonest
<1>7. Building'
  BY <1>1 DEF Building
<1>8. Indexed'
  <2> SUFFICES ASSUME marker, ~lossy, NEW k \in Keys, NEW r \in Allocated, Newest(k, r)
               PROVE  entries'[k] = r
    BY <1>1, SameRows DEF Indexed
  <2>1. CASE k = key
    BY <1>2, <1>3, <2>1, AllocatedAreRids DEF Newest, IsLast
  <2>2. CASE k # key
    BY <1>1, <1>3, <2>2 DEF TableInv, Indexed, PendingHonest
  <2> QED
    BY <2>1, <2>2
<1> QED
  BY <1>4, <1>5, <1>6, <1>7, <1>8 DEF TableInv

\* The start of create_index keeps it: no marker says yet that there is an index.
LEMMA CreateIndexTable ==
  ASSUME TableInv, CreateIndex
  PROVE  TableInv'
<1>1. /\ pc = "idle" /\ idx = "absent" /\ pc' = "tree" /\ idx' = "empty" /\ todo' = ScanEntries
      /\ UNCHANGED <<pages, had, inserts, tbl, marker, entries, index, pending, failed, created, lossy>>
  BY DEF CreateIndex, history, counts
<1>2. Shape'
  BY <1>1, SameShape DEF TableInv, Shape, TypeOK
<1>3. Openable' /\ Stages'
  BY <1>1 DEF TableInv, Openable, Opens, Stages
<1>4. EntriesHonest' /\ HadKeys' /\ PendingHonest'
  BY <1>1, SameRows DEF TableInv, EntriesHonest, PendingHonest
<1>5. TodoHonest'
  <2> SUFFICES ASSUME NEW r \in Allocated, Live(r), Row(r) # Null
               PROVE  Row(r) \in Keys /\ Row(r) \in had[r]
    BY <1>1, SameRows DEF TodoHonest, ScanEntries
  <2> QED
    BY DEF TableInv, HadKeys, Live, Values
<1>6. Building'
  <2> SUFFICES ASSUME NEW k \in Keys, NEW r \in Allocated, Newest(k, r)
               PROVE  <<k, r>> \in ScanEntries
    BY <1>1, SameRows DEF Building
  <2>1. Live(r) /\ Row(r) = k
    BY DEF Newest, Live, TableInv, HadKeys
  <2> QED
    BY <2>1, ColumnAssumption DEF ScanEntries
<1>7. Indexed'
  BY <1>1 DEF TableInv, Stages, Openable, Opens, Indexed
<1> QED
  BY <1>2, <1>3, <1>4, <1>5, <1>6, <1>7 DEF TableInv

\* Each entry create_index inserts keeps it: rows come in the order of their ids.
LEMMA BuildEntryTable ==
  ASSUME TableInv, BuildEntry
  PROVE  TableInv'
<1>1. PICK e \in todo :
        /\ \A d \in todo : d = e \/ Before(e[2], d[2])
        /\ entries' = [entries EXCEPT ![e[1]] = e[2]] /\ todo' = todo \ {e}
  BY DEF BuildEntry
<1>2. /\ pc = "build"
      /\ UNCHANGED <<pages, had, inserts, tbl, marker, idx, pc, index, pending, failed, created, lossy>>
  BY DEF BuildEntry, history, counts
<1>3. e[1] \in Keys /\ e[2] \in Allocated /\ e[1] \in had[e[2]] /\ e = <<e[1], e[2]>>
  BY DEF TableInv, TodoHonest
<1>4. /\ entries' \in [Keys -> Rids \cup {NoRid}] /\ entries'[e[1]] = e[2]
      /\ \A k \in Keys : k # e[1] => entries'[k] = entries[k]
  BY <1>1, <1>3, AllocatedAreRids DEF TableInv, Shape, TypeOK
<1>5. Shape'
  BY <1>2, <1>4, SameShape DEF TableInv, Shape, TypeOK
<1>6. Openable' /\ Stages'
  BY <1>2 DEF TableInv, Openable, Opens, Stages
<1>7. EntriesHonest' /\ HadKeys' /\ PendingHonest'
  BY <1>2, <1>3, <1>4, SameRows DEF TableInv, EntriesHonest, PendingHonest
<1>8. TodoHonest'
  BY <1>1, <1>2, SameRows DEF TableInv, TodoHonest
<1>9. Building'
  <2> SUFFICES ASSUME NEW k \in Keys, NEW r \in Allocated, Newest(k, r)
               PROVE  <<k, r>> \in todo' \/ (entries'[k] = r /\ \A d \in todo' : d[1] # k)
    BY <1>2, SameRows DEF Building
  <2>1. CASE e = <<k, r>>
    <3>1. ASSUME NEW d \in todo', d[1] = k
          PROVE  FALSE
      <4>1. d \in todo /\ d # e /\ Before(r, d[2])
        BY <1>1, <2>1, <3>1
      <4>2. d[2] \in Allocated /\ k \in had[d[2]]
        BY <3>1, <4>1 DEF TableInv, TodoHonest
      <4>3. d[2] = r \/ Before(d[2], r)
        BY <4>2 DEF Newest
      <4> QED
        BY <4>1, <4>2, <4>3, AllocatedAreRids
    <3> QED
      BY <1>4, <2>1, <3>1
  <2>2. CASE e # <<k, r>> /\ <<k, r>> \in todo
    BY <1>1, <2>2
  <2>3. CASE <<k, r>> \notin todo
    BY <1>1, <1>2, <1>4, <2>3 DEF TableInv, Building
  <2> QED
    BY <2>1, <2>2, <2>3
<1>10. Indexed'
  BY <1>2 DEF TableInv, Stages, Indexed
<1> QED
  BY <1>5, <1>6, <1>7, <1>8, <1>9, <1>10 DEF TableInv

\* What an interrupted insert leaves of a key's entry is one the key has had.
LEMMA InterruptedHonest ==
  ASSUME TableInv, UNCHANGED <<pages, had>>,
         entries' \in [Keys -> Allocated \cup {NoRid}] \cup {entries},
         \A k \in Keys : entries'[k] \in Idx!Interrupted(k)
  PROVE  entries' \in [Keys -> Rids \cup {NoRid}] /\ EntriesHonest'
<1>1. entries' \in [Keys -> Rids \cup {NoRid}]
  BY AllocatedAreRids DEF TableInv, Shape, TypeOK
<1>2. ASSUME NEW k \in Keys, entries'[k] # NoRid
      PROVE  entries'[k] \in Allocated /\ k \in had[entries'[k]]
  <2>1. entries'[k] = entries[k] \/ (pending # <<>> /\ k = pending[1] /\ entries'[k] = pending[2])
    BY <1>2 DEF Idx!Interrupted
  <2> QED
    BY <1>2, <2>1 DEF TableInv, EntriesHonest, PendingHonest
<1> QED
  BY <1>1, <1>2, SameRows DEF EntriesHonest

\* What a fault leaves in the tree is honest still, and if it changes the tree
\* at all, the maintenance of the index was hit.
LEMMA FaultLeaves ==
  ASSUME TableInv, Fail \/ Crash
  PROVE  /\ UNCHANGED <<pages, had, inserts, tbl, marker, idx, created>>
         /\ todo' = {} /\ lossy' \in BOOLEAN /\ failed' \in BOOLEAN /\ (lossy => lossy')
         /\ PendingHonest' /\ (failed' => lossy')
         /\ entries' \in [Keys -> Rids \cup {NoRid}]
         /\ EntriesHonest' /\ (~lossy' => entries' = entries /\ pending = pending')
<1>1. CASE Fail
  <2>1. CASE pc = "index"
    <3>1. /\ pending' = <<>> /\ failed' = TRUE /\ lossy' = TRUE
          /\ \A k \in Keys : entries'[k] \in Idx!Interrupted(k)
          /\ entries' \in [Keys -> Allocated \cup {NoRid}] \cup {entries}
          /\ UNCHANGED <<pages, had, inserts, tbl, marker, idx, created>> /\ todo' = {} /\ pc' = "idle"
      BY <1>1, <2>1 DEF Fail, Damaged, Idx!Fail, Idx!Lose
    <3> QED
      BY <3>1, InterruptedHonest DEF PendingHonest
  <2>2. CASE pc # "index"
    BY <1>1, <2>2 DEF Fail, TableInv, Shape, TypeOK, PendingHonest, Stages, EntriesHonest, Allocated
  <2> QED
    BY <2>1, <2>2
<1>2. CASE Crash
  <2>1. /\ pending' = <<>> /\ failed' = FALSE /\ lossy' = (lossy \/ pc = "index")
        /\ UNCHANGED <<pages, had, inserts, tbl, marker, idx, created>> /\ todo' = {} /\ pc' = "down"
    BY <1>2 DEF Crash, Idx!Crash
  <2>2. CASE pending = <<>> /\ ~failed
    <3>1. entries' = entries
      BY <1>2, <2>2 DEF Crash, Idx!Crash
    <3> QED
      BY <2>1, <2>2, <3>1, SameRows DEF PendingHonest, TableInv, Shape, TypeOK, EntriesHonest
  <2>3. CASE ~(pending = <<>> /\ ~failed)
    <3>1. /\ \A k \in Keys : entries'[k] \in Idx!Interrupted(k)
          /\ entries' \in [Keys -> Allocated \cup {NoRid}] \cup {entries}
      BY <1>2, <2>3 DEF Crash, Damaged, Idx!Crash, Idx!Lose
    <3>2. lossy'
      BY <2>1, <2>3 DEF TableInv, PendingHonest, Stages
    <3> QED
      BY <2>1, <3>1, <3>2, InterruptedHonest DEF PendingHonest, TableInv, Shape, TypeOK
  <2> QED
    BY <2>2, <2>3
<1> QED
  BY <1>1, <1>2

\* A failure or the death of the process keeps it.
LEMMA FaultTable ==
  ASSUME TableInv, Fail \/ Crash
  PROVE  TableInv'
<1>1. /\ pc' \in {"down", "idle"} /\ index' \in {FALSE, index}
      /\ pc = "create" => pc' = "down"
      /\ pc' = "idle" => pc # "down" /\ index' = index
      /\ pc = "marked" => pc' = "down" \/ lossy'
  BY DEF Fail, Crash
<1>2. Shape'
  <2>1. index' \in BOOLEAN
    BY <1>1 DEF TableInv, Shape, TypeOK
  <2> QED
    BY <1>1, <2>1, FaultLeaves, SameShape DEF TableInv, Shape, TypeOK
<1>3. Openable'
  <2>1. pc' # "down" => pc \notin {"down", "create"} /\ created
    BY <1>1 DEF TableInv, Shape, Stages
  <2>2. ASSUME marker, ~lossy', pc' # "down"
        PROVE  index'
    <3>1. ~lossy /\ pc \notin {"down", "marked"} /\ index' = index
      BY <1>1, <2>2, FaultLeaves
    <3> QED
      BY <2>2, <3>1 DEF TableInv, Openable
  <2>3. index' => marker
    BY <1>1 DEF TableInv, Openable
  <2> QED
    BY <2>1, <2>2, <2>3, FaultLeaves DEF TableInv, Openable, Opens
<1>4. Stages'
  <2>1. pc' = "idle" => tbl = "ready" /\ created
    BY <1>1 DEF TableInv, Shape, Stages
  <2>2. pc' # "create" /\ pc' \notin {"tree", "build", "marked", "index"}
    BY <1>1
  <2> QED
    BY <1>1, <2>1, <2>2, FaultLeaves DEF TableInv, Stages
<1>5. HadKeys' /\ TodoHonest' /\ Building'
  BY <1>1, FaultLeaves, SameRows DEF TodoHonest, Building
<1>6. Indexed'
  BY FaultLeaves, SameRows DEF TableInv, Indexed
<1> QED
  BY <1>2, <1>3, <1>4, <1>5, <1>6, FaultLeaves DEF TableInv

\* Every step keeps it.
LEMMA NextTable == TableInv /\ [Next]_vars => TableInv'
<1> SUFFICES ASSUME TableInv, [Next]_vars PROVE TableInv'
  OBVIOUS
<1>1. CASE UNCHANGED vars
  <2>1. UNCHANGED <<disk, pc, memory, created, had, lossy, inserts>>
    BY <1>1 DEF vars, counts, history
  <2>2. Shape'
    BY <2>1, SameShape DEF disk, memory, TableInv, Shape, TypeOK
  <2>3. Openable' /\ Stages' /\ EntriesHonest' /\ TodoHonest' /\ HadKeys' /\ PendingHonest'
    BY <2>1, SameRows DEF disk, memory, TableInv, Openable, Opens, Stages, EntriesHonest, TodoHonest, PendingHonest
  <2>4. Building' /\ Indexed'
    BY <2>1, SameRows DEF disk, memory, TableInv, Building, Indexed
  <2> QED
    BY <2>2, <2>3, <2>4 DEF TableInv
<1> QED
  BY <1>1, InsertTable, EditTable, FileSteps, IndexInsertTable, CreateIndexTable, BuildEntryTable,
     FaultTable DEF Next, Values

\* So it holds of every state of the table and its index.
LEMMA Invariant == Spec => []TableInv
  BY InitTable, NextTable, PTL DEF Spec

\* The files and the memory of a table keep their shape: a rid is handed out for
\* each slot that is made, and for nothing else (Table::insert_record).
THEOREM TypeCorrect == Spec => []TypeOK
<1>1. TableInv => TypeOK
  BY DEF TableInv, Shape
<1> QED
  BY <1>1, Invariant, PTL

\* Once create has written the metadata open accepts the table whatever fault ends
\* a call, with an index or without, and an index is used just as the marker says
\* (Table::create, Table::open, write_index_marker).
THEOREM AlwaysOpens == Spec => []Openable
<1>1. TableInv => Openable
  BY DEF TableInv
<1> QED
  BY <1>1, Invariant, PTL

\* An entry of the tree leads to a row that has had its key, so that find_by_key
\* never takes one row for another, whatever was updated, deleted or interrupted.
THEOREM EntriesAreHonest == Spec => []EntriesHonest
<1>1. TableInv => EntriesHonest
  BY DEF TableInv
<1> QED
  BY <1>1, Invariant, PTL

\* find_by_key finds the newest row of a key while that row is live and never
\* had another key, unless a fault hit the maintenance of the index.
THEOREM NewestIsFound == Spec => []FindsNewest
<1>1. TableInv => FindsNewest
  <2> SUFFICES ASSUME TableInv, marker, ~lossy, pc # "index", NEW k \in Keys, NEW r \in Allocated,
                      Newest(k, r)
               PROVE  FindByKey(k) = r
    BY DEF FindsNewest, Newest
  <2>1. entries[k] = r
    BY DEF TableInv, Indexed, PendingHonest
  <2>2. r # NoRid
    BY AllocatedAreRids
  <2>3. Get(r) = k
    BY DEF TableInv, HadKeys, Newest, Live, Get
  <2> QED
    BY <2>1, <2>2, <2>3 DEF FindByKey
<1> QED
  BY <1>1, Invariant, PTL
=============================================================================
