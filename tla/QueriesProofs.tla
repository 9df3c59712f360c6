--------------------------- MODULE QueriesProofs ---------------------------
(***************************************************************************)
(* What holds of the query processes for any set of them, any number of    *)
(* statements, deaths and power failures, and any size of page.            *)
(***************************************************************************)
EXTENDS Queries, SequenceTheorems, NaturalsInduction, WellFoundedInduction, TLAPS

\* What each process is doing fits the statement it runs, and what it has read.
Errands ==
  \A p \in Procs :
    /\ pc[p] \in {"create", "meta"} => stmt[p] = "create"
    /\ pc[p] \in {"read", "write"} => stmt[p] = "insert"
    /\ pc[p] = "scan" => stmt[p] = "select"
    /\ pc[p] \in {"plan", "open"} => stmt[p] # "create"
    /\ pc[p] \in {"sync", "synced"} => stmt[p] # "select"
    /\ pc[p] = "read" => count[p] >= 1
    /\ pc[p] = "write" /\ count[p] = 0 => buf[p] = <<>>
    /\ pc[p] \in {"idle", "plan", "open", "read"} => buf[p] = <<>> /\ at[p] = 1

Creating(p) == stmt[p] = "create" /\ pc[p] \in {"meta", "sync", "synced"}

\* One CREATE TABLE at most is past create_new, and none once one has reported.
\* What is reported has been synced.
Creation ==
  /\ created \in {0, 1}
  /\ \A p \in Procs : Creating(p) => created = 0 /\ tbl # "absent"
  /\ \A p, q \in Procs : Creating(p) /\ Creating(q) => p = q
  /\ \A p \in Procs :
       /\ pc[p] = "meta" => tbl = "empty"
       /\ pc[p] \in {"open", "read", "write", "scan", "sync", "synced"} => tbl = "ready"
       /\ pc[p] = "synced" => stable.tbl = "ready"
  /\ acked # {} \/ created = 1 => stable.tbl = "ready"
  /\ stable.tbl = "ready" => tbl = "ready"

\* Each writer has a row of its own, and those that meet are marked as shared.
Numbering ==
  /\ stmts \in 0..MaxStmts /\ acked \subseteq 1..stmts /\ shared \subseteq 1..stmts
  /\ \A p \in Writers : row[p] \in 1..stmts /\ row[p] \notin acked
  /\ \A p, q \in Writers : p # q => row[p] # row[q] /\ row[p] \in shared

In(page, r, k) == k \in DOMAIN page /\ page[k] = r

\* Row r is the k-th of page n, in the cache, on the disk, or in what a writer
\* that is about to write the page has read of it.
Copy(r, n, k) ==
  \/ n \in DOMAIN pages /\ In(pages[n], r, k)
  \/ n \in DOMAIN stable.pages /\ In(stable.pages[n], r, k)
  \/ \E q \in Procs : pc[q] = "write" /\ count[q] = n /\ In(buf[q], r, k)

\* A row has one place, whatever copies there are of it.
OnePlace ==
  \A r \in 1..MaxStmts : \A n, k, m, j \in Nat :
    Copy(r, n, k) /\ Copy(r, m, j) => n = m /\ k = j

\* There is no row yet that was not written.
Unwritten ==
  /\ \A r \in 1..MaxStmts : \A n, k \in Nat : Copy(r, n, k) => r <= stmts
  /\ \A p \in Writers : pc[p] \in {"plan", "open", "read", "write"} =>
       \A n, k \in Nat : ~Copy(row[p], n, k)

\* No writer that is under way takes row r away from its place: it has seen the
\* page, and if it is to write it again, it has read the row there.
Kept(r, n, k) ==
  /\ n \in DOMAIN pages /\ In(pages[n], r, k)
  /\ \A q \in Writers : row[q] # r =>
       /\ pc[q] \in {"read", "write"} => count[q] >= n
       /\ pc[q] = "write" /\ count[q] = n => In(buf[q], r, k)

OnDisk(r, n, k) == n \in DOMAIN stable.pages /\ In(stable.pages[n], r, k)

\* A row that no INSERT ran alongside is safe in the cache once it is written,
\* and through a power failure once it is synced.
Durable ==
  /\ \A r \in acked \ shared : \E n, k \in Nat : Kept(r, n, k) /\ OnDisk(r, n, k)
  /\ \A p \in Writers : row[p] \notin shared =>
       /\ pc[p] = "sync" => \E n, k \in Nat : Kept(row[p], n, k)
       /\ pc[p] = "synced" => \E n, k \in Nat : Kept(row[p], n, k) /\ OnDisk(row[p], n, k)

QueriesInv == TypeOK /\ Errands /\ Creation /\ Numbering /\ OnePlace /\ Unwritten /\ Durable
-----------------------------------------------------------------------------
\* Before the first statement there is no table and no row.
LEMMA InitQueries == Init => QueriesInv
<1> SUFFICES ASSUME Init PROVE QueriesInv
  OBVIOUS
<1> USE DEF Init
<1>1. pages = <<>> /\ stable = [tbl |-> "absent", pages |-> <<>>] /\ DOMAIN pages = {} /\ Len(pages) = 0
  OBVIOUS
<1>2. TypeOK
  <2>1. <<>> \in Seq(Seq(0..MaxStmts)) /\ <<>> \in Seq(0..MaxStmts) /\ 0 \in 0..MaxStmts
    BY StmtsAssumption
  <2>2. 0 \in 0..Len(pages) /\ 1 \in 1..(Len(pages) + 1)
    BY <1>1
  <2> QED
    BY <1>1, <2>1, <2>2 DEF TypeOK, Labels
<1>3. Errands /\ Creation
  BY <1>1 DEF Errands, Creation, Creating
<1>4. Writers = {}
  BY DEF Writers
<1>5. \A r, n, k : ~Copy(r, n, k)
  BY <1>1 DEF Copy
<1> QED
  BY <1>1, <1>2, <1>3, <1>4, <1>5, StmtsAssumption DEF QueriesInv, Numbering, OnePlace, Unwritten, Durable

Starts(p) == \E s \in {"create", "insert", "select"} : Start(p, s)

\* A process changes its own state only.
Stays(q) ==
  /\ pc'[q] = pc[q] /\ stmt'[q] = stmt[q] /\ row'[q] = row[q]
  /\ count'[q] = count[q] /\ buf'[q] = buf[q] /\ at'[q] = at[q]

\* A step of one process leaves the others' places in their statements alone.
LEMMA OthersStay ==
  ASSUME TypeOK, NEW p \in Procs, Step(p) \/ Crash(p) \/ Starts(p)
  PROVE  \A q \in Procs : q # p => Stays(q)
<1> USE DEF Goto, Exit, Stays
<1>1. /\ pc \in [Procs -> Labels] /\ stmt \in [Procs -> {"create", "insert", "select"}]
      /\ row \in [Procs -> 0..MaxStmts] /\ buf \in [Procs -> Seq(0..MaxStmts)]
      /\ count \in [Procs -> 0..Len(pages)] /\ at \in [Procs -> 1..(Len(pages) + 1)]
  BY DEF TypeOK
<1>2. CASE Starts(p) \/ Crash(p)
  BY <1>1, <1>2 DEF Starts, Start, Crash
<1>3. CASE CreateFile(p) \/ Plan(p)
  BY <1>1, <1>3 DEF CreateFile, Plan
<1>4. CASE CreateMeta(p) \/ Open(p) \/ ReadLast(p)
  BY <1>1, <1>4 DEF CreateMeta, Open, ReadLast
<1>5. CASE InsertLast(p) \/ InsertNew(p)
  BY <1>1, <1>5 DEF InsertLast, InsertNew, WritePage
<1>6. CASE Sync(p) \/ ScanPage(p)
  BY <1>1, <1>6 DEF Sync, ScanPage
<1>7. CASE InsertPanics(p) \/ Report(p) \/ ScanFails(p) \/ PrintResult(p)
  BY <1>1, <1>7 DEF InsertPanics, Report, ScanFails, PrintResult
<1> QED
  BY <1>2, <1>3, <1>4, <1>5, <1>6, <1>7 DEF Step

\* What ends a process leaves of it.
LEMMA ExitEffect ==
  ASSUME TypeOK, NEW p \in Procs, Exit(p)
  PROVE  /\ pc'[p] = "idle" /\ stmt'[p] = "select" /\ row'[p] = 0 /\ count'[p] = 0
         /\ buf'[p] = <<>> /\ at'[p] = 1
  BY DEF TypeOK, Exit, Goto

\* Only three steps write to the disk, and the pages never get fewer while
\* processes run.
LEMMA DiskEffect ==
  ASSUME TypeOK, NEW p \in Procs, Step(p) \/ Crash(p) \/ Starts(p)
  PROVE  /\ ~(InsertLast(p) \/ InsertNew(p)) => pages' = pages
         /\ ~Sync(p) => stable' = stable
         /\ ~(CreateFile(p) \/ CreateMeta(p)) => tbl' = tbl
<1> USE DEF disk
<1>1. CASE Crash(p) \/ Starts(p) \/ CreateFile(p) \/ CreateMeta(p) \/ Plan(p) \/ Open(p) \/ ReadLast(p)
  BY <1>1 DEF Crash, Starts, Start, CreateFile, CreateMeta, Plan, Open, ReadLast
<1>2. CASE InsertLast(p) \/ InsertNew(p) \/ InsertPanics(p) \/ Sync(p) \/ Report(p)
           \/ ScanPage(p) \/ ScanFails(p) \/ PrintResult(p)
  BY <1>2 DEF InsertLast, InsertNew, WritePage, InsertPanics, Sync, Report, ScanPage, ScanFails, PrintResult
<1> QED
  BY <1>1, <1>2 DEF Step

\* A page is written at the end of the file or over what is there.
LEMMA WriteEffect ==
  ASSUME TypeOK, NEW p \in Procs, NEW n \in 1..(Len(pages) + 1),
         NEW content \in Seq(0..MaxStmts), Len(content) \in 0..PageRows, WritePage(p, n, content)
  PROVE  /\ pages' \in Seq(Seq(0..MaxStmts)) /\ Len(pages') >= Len(pages)
         /\ DOMAIN pages' = DOMAIN pages \cup {n} /\ pages'[n] = content
         /\ \A m \in DOMAIN pages : m # n => pages'[m] = pages[m]
         /\ \A m \in DOMAIN pages' : Len(pages'[m]) \in 0..PageRows
<1>1. pages \in Seq(Seq(0..MaxStmts)) /\ \A m \in DOMAIN pages : Len(pages[m]) \in 0..PageRows
  BY DEF TypeOK
<1>2. CASE n > Len(pages)
  <2>1. pages' = Append(pages, content) /\ n = Len(pages) + 1
    BY <1>1, <1>2 DEF WritePage
  <2>2. /\ pages' \in Seq(Seq(0..MaxStmts)) /\ Len(pages') = Len(pages) + 1 /\ pages'[n] = content
        /\ DOMAIN pages = 1..Len(pages) /\ \A m \in 1..Len(pages) : pages'[m] = pages[m]
    BY <1>1, <2>1
  <2>3. DOMAIN pages' = DOMAIN pages \cup {n}
    BY <2>1, <2>2
  <2> QED
    BY <1>1, <2>1, <2>2, <2>3
<1>3. CASE n <= Len(pages)
  <2>1. pages' = [pages EXCEPT ![n] = content] /\ n \in DOMAIN pages
    BY <1>1, <1>3 DEF WritePage
  <2>2. /\ pages' \in Seq(Seq(0..MaxStmts)) /\ Len(pages') = Len(pages) /\ pages'[n] = content
        /\ DOMAIN pages' = DOMAIN pages /\ \A m \in DOMAIN pages : m # n => pages'[m] = pages[m]
    BY <1>1, <2>1
  <2> QED
    BY <1>1, <2>1, <2>2
<1> QED
  BY <1>1, <1>2, <1>3

\* The two ways an INSERT writes its row, as WritePage sees them.
LEMMA InsertWrites ==
  ASSUME TypeOK, Errands, NEW p \in Procs, InsertLast(p) \/ InsertNew(p)
  PROVE  /\ pc[p] = "write" /\ stmt[p] = "insert" /\ pc'[p] = "sync" /\ buf[p] \in Seq(0..MaxStmts)
         /\ UNCHANGED <<tbl, stable, stmt, row, count, buf, at, known, history, stmts, faults>>
         /\ \E n \in 1..(Len(pages) + 1), content \in Seq(0..MaxStmts) :
              /\ Len(content) \in 0..PageRows /\ WritePage(p, n, content)
              /\ \/ n = count[p] /\ content = Append(buf[p], row[p])
                 \/ n = count[p] + 1 /\ content = <<row[p]>>
<1>1. /\ pc[p] = "write" /\ stmt[p] = "insert" /\ pc'[p] = "sync" /\ buf[p] \in Seq(0..MaxStmts)
      /\ UNCHANGED <<tbl, stable, stmt, row, count, buf, at, known, history, stmts, faults>>
  BY DEF InsertLast, InsertNew, WritePage, Goto, TypeOK, Errands
<1>2. row[p] \in 0..MaxStmts /\ count[p] \in 0..Len(pages) /\ Len(pages) \in Nat
  BY DEF TypeOK
<1>3. CASE InsertNew(p)
  <2>1. count[p] + 1 \in 1..(Len(pages) + 1) /\ <<row[p]>> \in Seq(0..MaxStmts) /\ Len(<<row[p]>>) \in 0..PageRows
    BY <1>2, PageAssumption
  <2> QED
    BY <1>1, <1>3, <2>1 DEF InsertNew
<1>4. CASE InsertLast(p)
  <2>1. buf[p] # <<>> /\ Len(buf[p]) < PageRows
    BY <1>4 DEF InsertLast
  <2>2. Append(buf[p], row[p]) \in Seq(0..MaxStmts) /\ Len(Append(buf[p], row[p])) \in 0..PageRows
    BY <1>1, <1>2, <2>1, PageAssumption
  <2>3. count[p] \in 1..(Len(pages) + 1)
    BY <1>1, <1>2, <2>1 DEF Errands
  <2> QED
    BY <1>1, <1>4, <2>2, <2>3 DEF InsertLast
<1> QED
  BY <1>3, <1>4

\* TypeOK of what the processes hold, for a file of n pages.
ProcTypes(n) ==
  /\ pc \in [Procs -> Labels] /\ stmt \in [Procs -> {"create", "insert", "select"}]
  /\ row \in [Procs -> 0..MaxStmts] /\ buf \in [Procs -> Seq(0..MaxStmts)]
  /\ count \in [Procs -> 0..n]
  /\ at \in [Procs -> 1..(n + 1)] /\ \A p \in Procs : at[p] <= count[p] + 1

\* What a process has at hand when it exits is of its type.
LEMMA ExitTypes ==
  ASSUME TypeOK, NEW p \in Procs, Exit(p), pages' = pages
  PROVE  ProcTypes(Len(pages))'
<1>1. Len(pages) \in Nat
  BY DEF TypeOK
<1>2. "idle" \in Labels /\ <<>> \in Seq(0..MaxStmts) /\ 0 \in 0..MaxStmts
  BY StmtsAssumption DEF Labels
<1>3. 0 \in 0..Len(pages)' /\ 1 \in 1..(Len(pages)' + 1)
  BY <1>1
<1>4. pc' \in [Procs -> Labels] /\ stmt' \in [Procs -> {"create", "insert", "select"}]
  BY <1>2 DEF TypeOK, Exit, Goto
<1>5. row' \in [Procs -> 0..MaxStmts] /\ buf' \in [Procs -> Seq(0..MaxStmts)]
  BY <1>2 DEF TypeOK, Exit
<1>6. count' \in [Procs -> 0..Len(pages)'] /\ at' \in [Procs -> 1..(Len(pages)' + 1)]
  BY <1>1, <1>3 DEF TypeOK, Exit
<1>7. \A q \in Procs : at'[q] <= count'[q] + 1
  BY DEF TypeOK, Exit
<1> QED
  BY <1>4, <1>5, <1>6, <1>7 DEF ProcTypes

\* A step keeps the type of what each process has at hand.
LEMMA StepTypes ==
  ASSUME TypeOK, Errands, NEW p \in Procs, stmts \in 0..MaxStmts, Step(p) \/ Crash(p) \/ Starts(p)
  PROVE  ProcTypes(Len(pages))'
<1>1. ProcTypes(Len(pages)) /\ Len(pages) \in Nat
  BY DEF TypeOK, ProcTypes
<1> USE DEF ProcTypes, Goto, Labels
<1>2. CASE Starts(p)
  <2>1. stmts + 1 \in 0..MaxStmts /\ 0 \in 0..MaxStmts
    BY <1>2, StmtsAssumption DEF Starts, Start
  <2>2. pc' \in [Procs -> Labels] /\ stmt' \in [Procs -> {"create", "insert", "select"}]
    BY SMTT(30), <1>1, <1>2 DEF Starts, Start
  <2>3. row' \in [Procs -> 0..MaxStmts] /\ UNCHANGED <<pages, count, buf, at>>
    BY <1>1, <1>2, <2>1 DEF Starts, Start, disk
  <2> QED
    BY <1>1, <2>2, <2>3
<1>3. CASE Exit(p) /\ pages' = pages
  BY <1>3, ExitTypes
<1>4. CASE ~Exit(p) /\ (CreateFile(p) \/ CreateMeta(p) \/ Plan(p))
  BY <1>1, <1>4 DEF CreateFile, CreateMeta, Plan, disk
<1>5. CASE Open(p)
  BY <1>1, <1>5 DEF Open, disk, Errands
<1>6. CASE ReadLast(p)
  <2>1. pages[count[p]] \in Seq(0..MaxStmts)
    BY <1>1, <1>6 DEF ReadLast, Errands, TypeOK
  <2> QED
    BY <1>1, <1>6, <2>1 DEF ReadLast, disk
<1>7. CASE InsertLast(p) \/ InsertNew(p)
  <2>1. Len(pages') \in Nat /\ Len(pages') >= Len(pages) /\ pc' = [pc EXCEPT ![p] = "sync"]
        /\ UNCHANGED <<stmt, row, count, buf, at>>
    <3>1. PICK n \in 1..(Len(pages) + 1), content \in Seq(0..MaxStmts) :
            Len(content) \in 0..PageRows /\ WritePage(p, n, content)
      BY <1>7, InsertWrites
    <3> QED
      BY <3>1, WriteEffect DEF WritePage
  <2> QED
    BY SMTT(30), <1>1, <2>1
<1>8. CASE Sync(p)
  BY <1>1, <1>8 DEF Sync
<1>9. CASE ScanPage(p)
  <2>1. /\ at[p] \in 1..Len(pages) /\ at[p] <= count[p] /\ count[p] \in Nat
        /\ UNCHANGED <<pages, pc, stmt, row, count>>
        /\ buf' = [buf EXCEPT ![p] = @ \o pages[at[p]]] /\ at' = [at EXCEPT ![p] = @ + 1]
    BY <1>1, <1>9 DEF ScanPage, disk
  <2>2. buf[p] \o pages[at[p]] \in Seq(0..MaxStmts)
    BY <1>1, <2>1 DEF TypeOK
  <2>3. buf' \in [Procs -> Seq(0..MaxStmts)]
    BY <1>1, <2>1, <2>2
  <2>4. at' \in [Procs -> 1..(Len(pages) + 1)]
    BY <1>1, <2>1
  <2>5. \A q \in Procs : at'[q] <= count'[q] + 1
    BY SMTT(30), <1>1, <2>1
  <2> QED
    BY <1>1, <2>1, <2>3, <2>4, <2>5
<1> QED
  <2>1. CASE Exit(p) /\ ~(InsertLast(p) \/ InsertNew(p))
    BY <1>3, <2>1, DiskEffect
  <2>2. CASE ~Exit(p)
    BY <1>2, <1>4, <1>5, <1>6, <1>7, <1>8, <1>9, <2>2
       DEF Step, Crash, InsertPanics, Report, ScanFails, PrintResult
  <2> QED
    BY <1>7, <2>1, <2>2

\* A step keeps TypeOK.
LEMMA StepType ==
  ASSUME TypeOK, Errands, NEW p \in Procs, stmts \in 0..MaxStmts, Step(p) \/ Crash(p) \/ Starts(p)
  PROVE  TypeOK'
<1>1. tbl' \in {"absent", "empty", "ready"}
  BY DiskEffect DEF TypeOK, CreateFile, CreateMeta
<1>2. /\ pages' \in Seq(Seq(0..MaxStmts)) /\ \A n \in DOMAIN pages' : Len(pages'[n]) \in 0..PageRows
      /\ Len(pages') >= Len(pages)
  <2>1. CASE InsertLast(p) \/ InsertNew(p)
    BY <2>1, InsertWrites, WriteEffect
  <2>2. CASE ~(InsertLast(p) \/ InsertNew(p))
    BY <2>2, DiskEffect DEF TypeOK
  <2> QED
    BY <2>1, <2>2
<1>3. /\ stable' \in [tbl : {"absent", "empty", "ready"}, pages : Seq(Seq(0..MaxStmts))]
      /\ Len(stable'.pages) <= Len(pages')
      /\ \A n \in DOMAIN stable'.pages : Len(stable'.pages[n]) \in 0..PageRows
  <2>1. CASE Sync(p)
    BY <2>1 DEF Sync, TypeOK
  <2>2. CASE ~Sync(p)
    BY SMTT(30), <1>2, <2>2, DiskEffect DEF TypeOK
  <2> QED
    BY <2>1, <2>2
<1>4. ProcTypes(Len(pages))'
  BY StepTypes
<1> QED
  BY <1>1, <1>2, <1>3, <1>4 DEF TypeOK, ProcTypes

\* The labels between which a process can move, with the statement it runs, and
\* what it holds at the new one.
LEMMA MoveEffect ==
  ASSUME TypeOK, Errands, NEW p \in Procs, Step(p) \/ Crash(p) \/ Starts(p)
  PROVE  \/ Exit(p) /\ pc'[p] = "idle" /\ stmt'[p] = "select" /\ buf'[p] = <<>> /\ at'[p] = 1
         \/ Starts(p) /\ pc[p] = "idle" /\ pc'[p] \in {"create", "plan"}
            /\ (pc'[p] = "create" <=> stmt'[p] = "create") /\ buf'[p] = <<>> /\ at'[p] = 1
         \/ CreateFile(p) /\ pc[p] = "create" /\ pc'[p] = "meta" /\ stmt'[p] = stmt[p]
            /\ tbl = "absent" /\ tbl' = "empty"
         \/ CreateMeta(p) /\ pc[p] = "meta" /\ pc'[p] = "sync" /\ stmt'[p] = stmt[p] /\ tbl' = "ready"
         \/ Plan(p) /\ pc[p] = "plan" /\ pc'[p] = "open" /\ stmt'[p] = stmt[p] /\ tbl = "ready"
            /\ buf'[p] = <<>> /\ at'[p] = 1
         \/ Open(p) /\ pc[p] = "open" /\ stmt'[p] = stmt[p] /\ buf'[p] = <<>> /\ at'[p] = 1
            /\ count'[p] = Len(pages)
            /\ \/ pc'[p] = "scan" /\ stmt[p] = "select"
               \/ pc'[p] = "write" /\ stmt[p] = "insert" /\ pages = <<>>
               \/ pc'[p] = "read" /\ stmt[p] = "insert" /\ pages # <<>>
         \/ ReadLast(p) /\ pc[p] = "read" /\ pc'[p] = "write" /\ stmt'[p] = stmt[p]
            /\ count'[p] = count[p] /\ buf'[p] = pages[count[p]]
         \/ (InsertLast(p) \/ InsertNew(p)) /\ pc[p] = "write" /\ pc'[p] = "sync" /\ stmt'[p] = stmt[p]
         \/ Sync(p) /\ pc[p] = "sync" /\ pc'[p] = "synced" /\ stmt'[p] = stmt[p]
         \/ ScanPage(p) /\ pc[p] = "scan" /\ pc'[p] = "scan" /\ stmt'[p] = stmt[p]
<1> USE DEF Goto
<1>1. /\ pc \in [Procs -> Labels] /\ stmt \in [Procs -> {"create", "insert", "select"}]
      /\ buf \in [Procs -> Seq(0..MaxStmts)] /\ count \in [Procs -> 0..Len(pages)]
      /\ at \in [Procs -> 1..(Len(pages) + 1)]
  BY DEF TypeOK
<1>2. CASE Exit(p)
  BY <1>2, ExitEffect
<1>3. CASE Starts(p)
  <2>1. PICK s \in {"create", "insert", "select"} : Start(p, s)
    BY <1>3 DEF Starts
  <2>2. /\ pc[p] = "idle" /\ pc'[p] = IF s = "create" THEN "create" ELSE "plan"
        /\ stmt'[p] = s /\ buf'[p] = buf[p] /\ at'[p] = at[p]
    BY <1>1, <2>1 DEF Start
  <2>3. buf[p] = <<>> /\ at[p] = 1
    BY <2>2 DEF Errands
  <2>4. pc'[p] \in {"create", "plan"} /\ (pc'[p] = "create" <=> stmt'[p] = "create")
    BY <2>2
  <2>5. buf'[p] = <<>> /\ at'[p] = 1
    BY <2>2, <2>3
  <2> QED
    BY <1>3, <2>2, <2>4, <2>5
<1>4. CASE ~Exit(p) /\ (CreateFile(p) \/ CreateMeta(p) \/ Plan(p))
  BY <1>1, <1>4 DEF CreateFile, CreateMeta, Plan, Errands
<1>5. CASE Open(p)
  BY <1>1, <1>5 DEF Open, Errands
<1>6. CASE ReadLast(p)
  BY <1>1, <1>6 DEF ReadLast
<1>7. CASE InsertLast(p) \/ InsertNew(p)
  BY <1>7, InsertWrites
<1>8. CASE Sync(p)
  BY <1>1, <1>8 DEF Sync
<1>9. CASE ScanPage(p)
  BY <1>1, <1>9 DEF ScanPage
<1> QED
  <2>1. CASE ~Exit(p)
    BY <1>3, <1>4, <1>5, <1>6, <1>7, <1>8, <1>9, <2>1
       DEF Step, Crash, InsertPanics, Report, ScanFails, PrintResult
  <2> QED
    BY <1>2, <2>1

\* A step leaves each process at a place its statement has.
LEMMA StepErrands ==
  ASSUME TypeOK, Errands, NEW p \in Procs, Step(p) \/ Crash(p) \/ Starts(p)
  PROVE  Errands'
<1>1. \A q \in Procs : q # p => Stays(q)
  BY OthersStay
<1> SUFFICES ASSUME TRUE
             PROVE  /\ pc'[p] \in {"create", "meta"} => stmt'[p] = "create"
                    /\ pc'[p] \in {"read", "write"} => stmt'[p] = "insert"
                    /\ pc'[p] = "scan" => stmt'[p] = "select"
                    /\ pc'[p] \in {"plan", "open"} => stmt'[p] # "create"
                    /\ pc'[p] \in {"sync", "synced"} => stmt'[p] # "select"
                    /\ pc'[p] = "read" => count'[p] >= 1
                    /\ pc'[p] = "write" /\ count'[p] = 0 => buf'[p] = <<>>
                    /\ pc'[p] \in {"idle", "plan", "open", "read"} => buf'[p] = <<>> /\ at'[p] = 1
  BY <1>1 DEF Errands, Stays
<1>2. pages # <<>> => Len(pages) >= 1
  BY DEF TypeOK
<1>3. pages = <<>> => Len(pages) = 0
  OBVIOUS
<1>4. Errands
  OBVIOUS
<1> QED
  BY <1>2, <1>3, <1>4, MoveEffect DEF Errands

\* Statements are numbered when they start, and recorded when they report.
LEMMA HistoryEffect ==
  ASSUME NEW p \in Procs, Step(p) \/ Crash(p) \/ Starts(p)
  PROVE  /\ ~Report(p) => UNCHANGED <<acked, created>>
         /\ ~Starts(p) => UNCHANGED <<shared, stmts>>
<1> USE DEF history
<1>1. CASE Crash(p) \/ Starts(p) \/ CreateFile(p) \/ CreateMeta(p) \/ Plan(p) \/ Open(p) \/ ReadLast(p)
  BY <1>1 DEF Crash, Starts, Start, CreateFile, CreateMeta, Plan, Open, ReadLast
<1>2. CASE InsertLast(p) \/ InsertNew(p) \/ InsertPanics(p) \/ Sync(p) \/ Report(p)
           \/ ScanPage(p) \/ ScanFails(p) \/ PrintResult(p)
  BY <1>2 DEF InsertLast, InsertNew, WritePage, InsertPanics, Sync, Report, ScanPage, ScanFails, PrintResult
<1> QED
  BY <1>1, <1>2 DEF Step

\* A step keeps one creator at most: create_new fails where the file exists.
LEMMA StepCreation ==
  ASSUME TypeOK, Errands, Creation, NEW p \in Procs, Step(p) \/ Crash(p) \/ Starts(p)
  PROVE  Creation'
<1> USE DEF Creating
<1>1. \A q \in Procs : q # p => Stays(q)
  BY OthersStay
<1>2. Creation /\ Errands
  OBVIOUS
<1>3. CASE CreateFile(p) /\ ~Exit(p)
  <2>1. /\ pc[p] = "create" /\ pc'[p] = "meta" /\ stmt'[p] = "create" /\ tbl = "absent" /\ tbl' = "empty"
        /\ UNCHANGED <<stable, acked, created>>
    BY <1>2, <1>3 DEF CreateFile, Goto, history, TypeOK, Errands
  <2>2. created = 0 /\ acked = {} /\ stable.tbl # "ready"
    BY <1>2, <2>1 DEF Creation
  <2>3. \A q \in Procs : q # p => ~Creating(q) /\ pc[q] \notin {"open", "read", "write", "scan", "sync", "synced"}
    BY <1>2, <2>1 DEF Creation
  <2> QED
    BY <1>1, <2>1, <2>2, <2>3 DEF Creation, Stays
<1>4. CASE CreateMeta(p)
  <2>1. /\ pc[p] = "meta" /\ pc'[p] = "sync" /\ stmt'[p] = stmt[p] /\ stmt[p] = "create" /\ tbl' = "ready"
        /\ UNCHANGED <<stable, acked, created>>
    BY <1>2, <1>4 DEF CreateMeta, Goto, history, TypeOK, Errands
  <2>2. tbl = "empty" /\ created = 0 /\ \A q \in Procs : q # p => pc[q] # "meta"
    BY <1>2, <2>1 DEF Creation, Errands
  <2> QED
    BY <1>1, <1>2, <2>1, <2>2 DEF Creation, Stays
<1>5. CASE Sync(p)
  <2>1. /\ pc[p] = "sync" /\ pc'[p] = "synced" /\ stmt'[p] = stmt[p] /\ stable'.tbl = tbl
        /\ UNCHANGED <<tbl, acked, created>>
    BY <1>5 DEF Sync, Goto, history, TypeOK
  <2>2. tbl = "ready"
    BY <1>2, <2>1 DEF Creation
  <2> QED
    BY <1>1, <1>2, <2>1, <2>2 DEF Creation, Stays
<1>6. CASE Report(p)
  <2>1. pc[p] = "synced" /\ pc'[p] = "idle" /\ UNCHANGED <<tbl, stable>>
        /\ \/ stmt[p] = "create" /\ created' = created + 1 /\ acked' = acked
           \/ stmt[p] # "create" /\ created' = created
    BY <1>6, ExitEffect DEF Report, disk
  <2>2. stable.tbl = "ready"
    BY <1>2, <2>1 DEF Creation
  <2>3. CASE stmt[p] = "create"
    <3>1. Creating(p) /\ created = 0 /\ created' = 1
      BY <1>2, <2>1, <2>3 DEF Creation
    <3>2. \A q \in Procs : q # p => ~Creating(q)
      BY <1>2, <3>1 DEF Creation
    <3> QED
      BY <1>1, <1>2, <2>1, <2>2, <3>1, <3>2 DEF Creation, Stays
  <2>4. CASE stmt[p] # "create"
    BY <1>1, <1>2, <2>1, <2>2, <2>4 DEF Creation, Stays
  <2> QED
    BY <2>3, <2>4
<1>7. CASE ~(CreateFile(p) /\ ~Exit(p)) /\ ~CreateMeta(p) /\ ~Sync(p) /\ ~Report(p)
  <2>1. UNCHANGED <<tbl, stable, acked, created>>
    <3>1. CreateFile(p) => tbl' = tbl
      BY <1>7, ExitEffect DEF CreateFile, Goto, TypeOK
    <3> QED
      BY <1>7, <3>1, DiskEffect, HistoryEffect
  <2>2. /\ pc'[p] # "meta" /\ ~Creating(p)' /\ pc'[p] # "synced"
        /\ pc'[p] \in {"open", "read", "write", "scan", "sync"} => tbl = "ready"
    BY <1>2, <1>7, MoveEffect, ExitEffect DEF Creation, Errands
  <2> QED
    BY <1>1, <1>2, <2>1, <2>2 DEF Creation, Stays
<1> QED
  BY <1>3, <1>4, <1>5, <1>6, <1>7

\* Who goes on writing keeps its row.
LEMMA WritersKept ==
  ASSUME TypeOK, Errands, NEW p \in Procs, Step(p) \/ Crash(p)
  PROVE  /\ \A q \in Writers' : q \in Writers /\ row'[q] = row[q]
         /\ Exit(p) \/ row' = row
<1>1. \A q \in Procs : q # p => Stays(q)
  BY OthersStay
<1>2. CASE Exit(p)
  BY <1>1, <1>2, ExitEffect DEF Writers, Stays
<1>3. CASE ~Exit(p)
  <2>1. row' = row
    BY <1>3 DEF Step, CreateFile, CreateMeta, Plan, Open, ReadLast, InsertLast, InsertNew, WritePage,
       InsertPanics, Sync, Report, ScanPage, ScanFails, PrintResult, Crash
  <2>2. pc[p] # "idle" /\ stmt'[p] = stmt[p]
    <3>1. ~Starts(p) \/ pc[p] # "idle"
      BY <1>3 DEF Step, CreateFile, CreateMeta, Plan, Open, ReadLast, InsertLast, InsertNew,
         InsertPanics, Sync, Report, ScanPage, ScanFails, PrintResult, Crash
    <3> QED
      BY <1>3, <3>1, MoveEffect
  <2> QED
    BY <1>1, <2>1, <2>2 DEF Writers, Stays
<1> QED
  BY <1>2, <1>3

\* A step keeps the rows numbered by the statements that insert them.
LEMMA StepNumbering ==
  ASSUME TypeOK, Errands, Numbering, NEW p \in Procs, Step(p) \/ Crash(p) \/ Starts(p)
  PROVE  Numbering'
<1>1. \A q \in Procs : q # p => Stays(q)
  BY OthersStay
<1>2. Numbering /\ Errands /\ stmts \in Nat /\ MaxStmts \in Nat
  BY StmtsAssumption DEF Numbering
<1>3. CASE Starts(p)
  <2>1. PICK s \in {"create", "insert", "select"} : Start(p, s)
    BY <1>3 DEF Starts
  <2>2. /\ pc[p] = "idle" /\ stmts' = stmts + 1 /\ stmts' \in 0..MaxStmts /\ acked' = acked
        /\ pc'[p] # "idle" /\ stmt'[p] = s /\ row'[p] = (IF s = "insert" THEN stmts + 1 ELSE 0)
    BY <1>2, <2>1 DEF Start, Goto, TypeOK
  <2>3. p \notin Writers /\ Writers' = (IF s = "insert" THEN Writers \cup {p} ELSE Writers)
    BY <1>1, <2>2 DEF Writers, Stays
  <2>4. \A q \in Writers : row'[q] = row[q] /\ row[q] \in 1..stmts
    BY <1>1, <1>2, <2>3 DEF Numbering, Stays, Writers
  <2>5. CASE s # "insert"
    <3>1. shared' = shared /\ Writers' = Writers
      BY <2>1, <2>3, <2>5 DEF Start
    <3> QED
      BY <1>2, <2>2, <2>4, <3>1 DEF Numbering
  <2>6. CASE s = "insert"
    <3>1. shared' \subseteq 1..stmts' /\ shared \subseteq shared'
      <4>1. shared \subseteq 1..stmts /\ 1..stmts \subseteq 1..stmts' /\ stmts + 1 \in 1..stmts'
        BY <1>2, <2>2 DEF Numbering
      <4>2. shared' = shared \/ shared' = shared \cup {stmts + 1} \cup {row[q] : q \in Writers}
        BY <2>1, <2>6 DEF Start
      <4> QED
        BY <2>4, <4>1, <4>2
    <3>2. \A q \in Writers : row[q] \in shared' /\ row'[p] \in shared'
      BY <2>1, <2>2, <2>6 DEF Start
    <3>3. row'[p] \in 1..stmts' /\ row'[p] \notin acked /\ \A q \in Writers : row[q] # row'[p]
      BY <1>2, <2>2, <2>4, <2>6 DEF Numbering
    <3> QED
      BY <1>2, <2>2, <2>3, <2>4, <2>6, <3>1, <3>2, <3>3 DEF Numbering
  <2> QED
    BY <2>5, <2>6
<1>4. CASE Report(p)
  <2>1. pc[p] = "synced" /\ p \notin Writers' /\ UNCHANGED <<shared, stmts>>
        /\ (acked' = acked \/ (stmt[p] # "create" /\ acked' = acked \cup {row[p]}))
    BY <1>4, ExitEffect DEF Report, Writers
  <2>2. \A q \in Writers' : q \in Writers \ {p} /\ row'[q] = row[q]
    BY <1>4, <2>1, WritersKept DEF Step
  <2>3. stmt[p] # "create" => p \in Writers
    BY <1>2, <2>1 DEF Errands, Writers, TypeOK
  <2> QED
    BY <1>2, <2>1, <2>2, <2>3 DEF Numbering
<1>5. CASE ~Starts(p) /\ ~Report(p)
  <2>1. UNCHANGED <<acked, shared, stmts>>
    BY <1>5, HistoryEffect
  <2>2. \A q \in Writers' : q \in Writers /\ row'[q] = row[q]
    BY <1>5, WritersKept
  <2> QED
    BY <1>2, <2>1, <2>2 DEF Numbering
<1> QED
  BY <1>3, <1>4, <1>5

\* What writing a page makes of the copies: one of the new row, none of another.
LEMMA InsertCopies ==
  ASSUME TypeOK, Errands, NEW p \in Procs, InsertLast(p) \/ InsertNew(p)
  PROVE  \E m, l \in Nat :
           /\ m \in DOMAIN pages' /\ In(pages'[m], row[p], l)
           /\ \A r, n, k : Copy(r, n, k)' => Copy(r, n, k) \/ (r = row[p] /\ n = m /\ k = l)
<1>1. PICK m \in 1..(Len(pages) + 1), content \in Seq(0..MaxStmts) :
        /\ Len(content) \in 0..PageRows /\ WritePage(p, m, content)
        /\ \/ m = count[p] /\ content = Append(buf[p], row[p])
           \/ m = count[p] + 1 /\ content = <<row[p]>>
  BY InsertWrites
<1>2. /\ DOMAIN pages' = DOMAIN pages \cup {m} /\ pages'[m] = content
      /\ \A n \in DOMAIN pages : n # m => pages'[n] = pages[n]
  BY <1>1, WriteEffect
<1>3. /\ pc[p] = "write" /\ pc'[p] = "sync" /\ UNCHANGED <<stable, count, buf>>
      /\ buf[p] \in Seq(0..MaxStmts)
      /\ \A q \in Procs : q # p => pc'[q] = pc[q]
  BY InsertWrites, OthersStay DEF Stays, Step
<1>4. ASSUME NEW r, NEW k, In(content, r, k)
      PROVE  (k = Len(content) /\ r = row[p]) \/ (m = count[p] /\ In(buf[p], r, k))
  <2>1. CASE m = count[p] /\ content = Append(buf[p], row[p])
    <3>1. k \in 1..(Len(buf[p]) + 1) /\ content[k] = r
      BY <1>3, <1>4, <2>1 DEF In
    <3>2. CASE k = Len(buf[p]) + 1
      BY <1>3, <2>1, <3>1, <3>2
    <3>3. CASE k \in 1..Len(buf[p])
      BY <1>3, <2>1, <3>1, <3>3 DEF In
    <3> QED
      BY <1>3, <3>1, <3>2, <3>3
  <2>2. CASE content = <<row[p]>>
    BY <1>4, <2>2 DEF In
  <2> QED
    BY <1>1, <2>1, <2>2
<1>5. In(content, row[p], Len(content))
  <2>1. Len(Append(buf[p], row[p])) = Len(buf[p]) + 1 /\ Len(buf[p]) \in Nat
        /\ Append(buf[p], row[p])[Len(buf[p]) + 1] = row[p]
        /\ DOMAIN Append(buf[p], row[p]) = 1..(Len(buf[p]) + 1)
    BY <1>3
  <2>2. Len(<<row[p]>>) = 1 /\ In(<<row[p]>>, row[p], 1)
    BY DEF In
  <2>3. CASE content = Append(buf[p], row[p])
    BY <2>1, <2>3 DEF In
  <2>4. CASE content = <<row[p]>>
    BY <2>2, <2>4
  <2> QED
    BY <1>1, <2>3, <2>4
<1>6. ASSUME NEW r, NEW n, NEW k, Copy(r, n, k)'
      PROVE  Copy(r, n, k) \/ (r = row[p] /\ n = m /\ k = Len(content))
  BY <1>2, <1>3, <1>4, <1>6 DEF Copy, In
<1>7. m \in Nat /\ Len(content) \in Nat
  BY <1>1 DEF TypeOK
<1> QED
  BY <1>2, <1>5, <1>6, <1>7

\* No other step makes a copy of a row where there was none.
LEMMA OtherCopies ==
  ASSUME TypeOK, Errands, NEW p \in Procs, Step(p) \/ Crash(p) \/ Starts(p), ~(InsertLast(p) \/ InsertNew(p)),
         NEW r, NEW n, NEW k, Copy(r, n, k)'
  PROVE  Copy(r, n, k)
<1>1. pages' = pages /\ (stable'.pages = pages \/ stable' = stable)
  BY DiskEffect DEF Sync, TypeOK
<1>2. \A q \in Procs : q # p => Stays(q)
  BY OthersStay
<1>3. CASE pc'[p] # "write"
  BY <1>1, <1>2, <1>3 DEF Copy, Stays
<1>4. CASE pc'[p] = "write"
  <2>1. \/ buf'[p] = <<>>
        \/ pc[p] = "read" /\ count'[p] = count[p] /\ buf'[p] = pages[count[p]]
    BY <1>4, MoveEffect
  <2>2. pc[p] = "read" => count[p] \in DOMAIN pages
    BY DEF Errands, TypeOK
  <2>3. ~In(<<>>, r, k)
    BY DEF In
  <2> QED
    BY <1>1, <1>2, <2>1, <2>2, <2>3 DEF Copy, Stays
<1> QED
  BY <1>3, <1>4

\* A step keeps each row in one place: an insert appends its row once.
LEMMA StepPlaces ==
  ASSUME TypeOK, Errands, Numbering, OnePlace, Unwritten, NEW p \in Procs, Step(p) \/ Crash(p) \/ Starts(p)
  PROVE  OnePlace' /\ Unwritten'
<1>1. CASE InsertLast(p) \/ InsertNew(p)
  <2>1. PICK m, l \in Nat :
          \A r, n, k : Copy(r, n, k)' => Copy(r, n, k) \/ (r = row[p] /\ n = m /\ k = l)
    BY <1>1, InsertCopies
  <2>2. /\ pc[p] = "write" /\ stmt[p] = "insert" /\ pc'[p] = "sync"
        /\ UNCHANGED <<stmt, row, shared, stmts>>
    BY <1>1, InsertWrites DEF history
  <2>3. p \in Writers /\ row[p] \in 1..stmts /\ \A n, k \in Nat : ~Copy(row[p], n, k)
    BY <2>2 DEF Writers, Numbering, Unwritten
  <2>4. OnePlace'
    BY <2>1, <2>3 DEF OnePlace
  <2>5. \A r \in 1..MaxStmts : \A n, k \in Nat : Copy(r, n, k)' => r <= stmts'
    BY <2>1, <2>2, <2>3 DEF Unwritten, Numbering
  <2>6. ASSUME NEW q \in Writers', pc'[q] \in {"plan", "open", "read", "write"}, NEW n \in Nat, NEW k \in Nat
        PROVE  ~Copy(row[q], n, k)'
    <3>1. q # p /\ q \in Writers /\ pc'[q] = pc[q]
      BY <1>1, <2>2, <2>6, OthersStay DEF Stays, Step, Writers
    <3>2. row[q] # row[p] /\ ~Copy(row[q], n, k)
      BY <2>3, <2>6, <3>1 DEF Numbering, Unwritten
    <3> QED
      BY <2>1, <2>2, <3>2
  <2> QED
    BY <2>2, <2>4, <2>5, <2>6 DEF Unwritten
<1>2. CASE ~(InsertLast(p) \/ InsertNew(p))
  <2>1. \A r, n, k : Copy(r, n, k)' => Copy(r, n, k)
    BY <1>2, OtherCopies
  <2>2. OnePlace'
    BY <2>1 DEF OnePlace
  <2>3. CASE Starts(p)
    <3>1. /\ stmts' = stmts + 1 /\ stmts \in Nat /\ stmts' \in 1..MaxStmts
          /\ stmt'[p] = "insert" => row'[p] = stmts + 1
      BY <2>3, StmtsAssumption DEF Starts, Start, Numbering, TypeOK
    <3>2. \A q \in Writers' : q # p => q \in Writers /\ pc'[q] = pc[q] /\ row'[q] = row[q]
      BY <2>3, OthersStay DEF Stays, Writers
    <3>3. p \in Writers' => \A n, k \in Nat : ~Copy(row'[p], n, k)
      BY <3>1 DEF Unwritten, Writers
    <3> QED
      BY <2>1, <2>2, <3>1, <3>2, <3>3 DEF Unwritten
  <2>4. CASE ~Starts(p)
    <3>1. stmts' = stmts /\ \A q \in Writers' : q \in Writers /\ row'[q] = row[q]
      BY <2>4, HistoryEffect, WritersKept
    <3>2. \A q \in Writers' : pc'[q] \in {"plan", "open", "read", "write"}
                                => pc[q] \in {"plan", "open", "read", "write"}
      BY <1>2, <2>4, <3>1, OthersStay, MoveEffect DEF Stays, Writers
    <3> QED
      BY <2>1, <2>2, <3>1, <3>2 DEF Unwritten
  <2> QED
    BY <2>3, <2>4
<1> QED
  BY <1>1, <1>2

\* A row that is kept stays kept, unless it is the row that the step writes.
LEMMA StepKeeps ==
  ASSUME TypeOK, Errands, NEW p \in Procs, Step(p) \/ Crash(p) \/ Starts(p),
         NEW r, NEW n \in Nat, NEW k \in Nat, Kept(r, n, k),
         InsertLast(p) \/ InsertNew(p) => row[p] # r
  PROVE  Kept(r, n, k)'
<1>1. \A q \in Procs : q # p => Stays(q)
  BY OthersStay
<1>2. n \in DOMAIN pages /\ In(pages[n], r, k)
  BY DEF Kept
<1>3. n \in DOMAIN pages' /\ In(pages'[n], r, k)
  <2>1. CASE InsertLast(p) \/ InsertNew(p)
    <3>1. PICK m \in 1..(Len(pages) + 1), content \in Seq(0..MaxStmts) :
            /\ Len(content) \in 0..PageRows /\ WritePage(p, m, content)
            /\ \/ m = count[p] /\ content = Append(buf[p], row[p])
               \/ m = count[p] + 1 /\ content = <<row[p]>>
      BY <2>1, InsertWrites
    <3>2. /\ DOMAIN pages' = DOMAIN pages \cup {m} /\ pages'[m] = content
          /\ \A l \in DOMAIN pages : l # m => pages'[l] = pages[l]
      BY <3>1, WriteEffect
    <3>3. count[p] >= n /\ (count[p] = n => In(buf[p], r, k)) /\ buf[p] \in Seq(0..MaxStmts)
      BY <2>1, InsertWrites DEF Kept, Writers
    <3>4. CASE n = m
      <4>1. count[p] = n /\ content = Append(buf[p], row[p])
        BY SMTT(30), <3>1, <3>3, <3>4 DEF TypeOK
      <4>2. In(Append(buf[p], row[p]), r, k)
        BY <3>3, <4>1 DEF In
      <4> QED
        BY <3>2, <3>4, <4>1, <4>2
    <3>5. CASE n # m
      BY <1>2, <3>2, <3>5
    <3> QED
      BY <3>4, <3>5
  <2>2. CASE ~(InsertLast(p) \/ InsertNew(p))
    BY <1>2, <2>2, DiskEffect
  <2> QED
    BY <2>1, <2>2
<1>4. ASSUME NEW q \in Writers', row'[q] # r
      PROVE  /\ pc'[q] \in {"read", "write"} => count'[q] >= n
             /\ pc'[q] = "write" /\ count'[q] = n => In(buf'[q], r, k)
  <2>1. CASE q # p
    BY <1>1, <1>4, <2>1 DEF Kept, Writers, Stays
  <2>2. CASE q = p /\ pc'[p] \in {"read", "write"}
    <3>1. \/ Open(p) /\ pages # <<>> /\ count'[p] = Len(pages) /\ pc'[p] = "read"
          \/ Open(p) /\ pages = <<>>
          \/ ReadLast(p) /\ pc[p] = "read" /\ count'[p] = count[p] /\ buf'[p] = pages[count[p]]
      BY <2>2, MoveEffect
    <3>2. n <= Len(pages) /\ pages # <<>>
      BY <1>2 DEF TypeOK
    <3>3. ReadLast(p) => p \in Writers /\ row[p] # r
      BY <1>4, <2>2 DEF ReadLast, Writers, Errands, TypeOK
    <3> QED
      BY <1>2, <2>2, <3>1, <3>2, <3>3 DEF Kept
  <2> QED
    BY <2>1, <2>2
<1> QED
  BY <1>3, <1>4 DEF Kept

\* What is on disk stays there through a step, and a sync puts all of a page there.
LEMMA StepOnDisk ==
  ASSUME TypeOK, NEW p \in Procs, Step(p) \/ Crash(p) \/ Starts(p),
         NEW r, NEW n, NEW k, Kept(r, n, k), OnDisk(r, n, k) \/ Sync(p)
  PROVE  OnDisk(r, n, k)'
<1>1. CASE Sync(p)
  BY <1>1 DEF Sync, Kept, OnDisk
<1>2. CASE ~Sync(p)
  BY <1>2, DiskEffect DEF OnDisk
<1> QED
  BY <1>1, <1>2

\* A step keeps what was acknowledged on disk.
LEMMA StepDurable ==
  ASSUME TypeOK, Errands, Numbering, Durable, NEW p \in Procs, Step(p) \/ Crash(p) \/ Starts(p)
  PROVE  Durable'
<1>1. \A q \in Procs : q # p => Stays(q)
  BY OthersStay
<1>2. shared \subseteq shared' /\ \A q \in Writers : row[q] \notin acked
  BY HistoryEffect DEF Starts, Start, Numbering
<1>3. InsertLast(p) \/ InsertNew(p) => p \in Writers /\ pc[p] = "write" /\ pc'[p] = "sync"
  BY InsertWrites DEF Writers
<1>4. ASSUME NEW r \in acked' \ shared'
      PROVE  \E n, k \in Nat : Kept(r, n, k)' /\ OnDisk(r, n, k)'
  <2>1. CASE r \in acked
    <3>1. PICK n \in Nat, k \in Nat : Kept(r, n, k) /\ OnDisk(r, n, k)
      BY <1>2, <1>4, <2>1 DEF Durable
    <3> QED
      BY <1>2, <1>3, <2>1, <3>1, StepKeeps, StepOnDisk
  <2>2. CASE r \notin acked
    <3>1. Report(p) /\ r = row[p] /\ pc[p] = "synced" /\ stmt[p] = "insert"
      BY <1>4, <2>2, HistoryEffect DEF Report, Errands, TypeOK
    <3>2. p \in Writers /\ r \notin shared
      BY <1>2, <1>4, <3>1 DEF Writers
    <3>3. PICK n \in Nat, k \in Nat : Kept(r, n, k) /\ OnDisk(r, n, k)
      BY <3>1, <3>2 DEF Durable
    <3> QED
      BY <1>3, <3>1, <3>3, StepKeeps, StepOnDisk
  <2> QED
    BY <2>1, <2>2
<1>5. ASSUME NEW q \in Writers', row'[q] \notin shared', q # p
      PROVE  /\ pc'[q] = "sync" => \E n, k \in Nat : Kept(row[q], n, k)'
             /\ pc'[q] = "synced" => \E n, k \in Nat : Kept(row[q], n, k)' /\ OnDisk(row[q], n, k)'
  <2>1. q \in Writers /\ pc'[q] = pc[q] /\ row'[q] = row[q] /\ row[q] \notin shared
    BY <1>1, <1>2, <1>5 DEF Stays, Writers
  <2>2. p \in Writers => row[p] # row[q]
    BY <1>5, <2>1 DEF Numbering
  <2>3. ASSUME pc[q] = "sync"
        PROVE  \E n, k \in Nat : Kept(row[q], n, k)'
    <3>1. PICK n \in Nat, k \in Nat : Kept(row[q], n, k)
      BY <2>1, <2>3 DEF Durable
    <3> QED
      BY <1>3, <2>1, <2>2, <3>1, StepKeeps
  <2>4. ASSUME pc[q] = "synced"
        PROVE  \E n, k \in Nat : Kept(row[q], n, k)' /\ OnDisk(row[q], n, k)'
    <3>1. PICK n \in Nat, k \in Nat : Kept(row[q], n, k) /\ OnDisk(row[q], n, k)
      BY <2>1, <2>4 DEF Durable
    <3> QED
      BY <1>3, <2>1, <2>2, <3>1, StepKeeps, StepOnDisk
  <2> QED
    BY <2>1, <2>3, <2>4
<1>6. ASSUME p \in Writers', row'[p] \notin shared'
      PROVE  /\ pc'[p] = "sync" => \E n, k \in Nat : Kept(row[p], n, k)'
             /\ pc'[p] = "synced" => \E n, k \in Nat : Kept(row[p], n, k)' /\ OnDisk(row[p], n, k)'
  <2>1. CASE InsertLast(p) \/ InsertNew(p)
    <3>1. PICK m \in Nat, l \in Nat : m \in DOMAIN pages' /\ In(pages'[m], row[p], l)
      BY <2>1, InsertCopies
    <3>2. row' = row /\ Writers' = Writers /\ p \in Writers /\ row[p] \notin shared
      BY <1>1, <1>2, <1>3, <1>6, <2>1, InsertWrites DEF Writers, Stays
    <3>3. \A q \in Writers' : q = p
      BY <3>2 DEF Numbering
    <3>4. Kept(row[p], m, l)'
      BY <3>1, <3>2, <3>3 DEF Kept
    <3> QED
      BY <1>3, <2>1, <3>1, <3>4
  <2>2. CASE Sync(p)
    <3>1. pc[p] = "sync" /\ pc'[p] = "synced" /\ row' = row /\ p \in Writers /\ row[p] \notin shared
      BY <1>2, <1>6, <2>2 DEF Sync, Goto, TypeOK, Writers
    <3>2. PICK n \in Nat, k \in Nat : Kept(row[p], n, k)
      BY <3>1 DEF Durable
    <3> QED
      BY <1>3, <2>2, <3>1, <3>2, StepKeeps, StepOnDisk
  <2>3. CASE ~(InsertLast(p) \/ InsertNew(p)) /\ ~Sync(p)
    <3>1. pc'[p] \in {"sync", "synced"} => stmt'[p] # "insert"
      BY <2>3, MoveEffect DEF Errands
    <3> QED
      BY <1>6, <3>1 DEF Writers
  <2> QED
    BY <2>1, <2>2, <2>3
<1> QED
  BY <1>4, <1>5, <1>6 DEF Durable
-----------------------------------------------------------------------------
\* A choice of one of each set is a sequence of them.
LEMMA OneOfEachElements ==
  ASSUME NEW n \in Nat, NEW sets, DOMAIN sets = 1..n, NEW T, \A i \in 1..n : sets[i] \subseteq T,
         NEW s \in OneOfEach(sets)
  PROVE  s \in Seq(T) /\ Len(s) = n /\ DOMAIN s = 1..n /\ \A i \in 1..n : s[i] \in sets[i]
<1>1. s \in [1..n -> UNION Range(sets)] /\ \A i \in 1..n : s[i] \in sets[i]
  BY DEF OneOfEach
<1>2. s \in [1..n -> T]
  BY <1>1
<1>3. s \in Seq(T)
  BY <1>2
<1> QED
  BY <1>1, <1>2, <1>3

\* What is left of a page is on one of its versions, at the same place, or torn,
\* and what both versions have is left.
Left(old, new, page) ==
  /\ page \in Seq(0..MaxStmts) /\ Len(page) \in Len(old)..Len(new) \cup Len(new)..Len(old)
  /\ \A k \in DOMAIN page : page[k] = Torn \/ In(old, page[k], k) \/ In(new, page[k], k)
  /\ \A k \in DOMAIN old \cap DOMAIN new : old[k] = new[k] => In(page, old[k], k)

\* A page that a power failure tears has rows of the two it was torn between.
LEMMA TornPageLeaves ==
  ASSUME NEW old \in Seq(0..MaxStmts), NEW new \in Seq(0..MaxStmts), NEW page \in TornPage(old, new)
  PROVE  Left(old, new, page)
<1> DEFINE versions(k) == {v[k] : v \in {w \in {old, new} : k <= Len(w)}}
           same(k) == k <= Len(old) /\ k <= Len(new) /\ old[k] = new[k]
           left(k) == IF same(k) THEN {old[k]} ELSE versions(k) \cup {Torn}
<1>1. PICK n \in Len(old)..Len(new) \cup Len(new)..Len(old) : page \in OneOfEach([k \in 1..n |-> left(k)])
  BY DEF TornPage
<1>2. n \in Nat
  BY <1>1
<1>3. ASSUME NEW k \in 1..n
      PROVE  /\ left(k) \subseteq 0..MaxStmts
             /\ \A x \in left(k) : x = Torn \/ In(old, x, k) \/ In(new, x, k)
  <2>1. Torn \in 0..MaxStmts
    BY StmtsAssumption DEF Torn
  <2>2. \A w \in {old, new} : k <= Len(w) => k \in DOMAIN w /\ w[k] \in 0..MaxStmts
    <3>1. k \in Nat /\ 1 <= k
      BY <1>2
    <3>2. \A w \in Seq(0..MaxStmts) : k <= Len(w) => k \in DOMAIN w /\ w[k] \in 0..MaxStmts
      <4> SUFFICES ASSUME NEW w \in Seq(0..MaxStmts), k <= Len(w)
                   PROVE  k \in DOMAIN w /\ w[k] \in 0..MaxStmts
        OBVIOUS
      <4>1. Len(w) \in Nat /\ DOMAIN w = 1..Len(w)
        OBVIOUS
      <4>2. k \in 1..Len(w)
        BY <3>1, <4>1
      <4>3. w[k] \in 0..MaxStmts
        BY <4>2, ElementOfSeq
      <4> QED
        BY <4>1, <4>2, <4>3
    <3> QED
      BY <3>2
  <2>3. \A x \in versions(k) : x \in 0..MaxStmts /\ (In(old, x, k) \/ In(new, x, k))
    BY <2>2 DEF In
  <2>4. CASE same(k)
    BY <2>2, <2>4 DEF In
  <2>5. CASE ~same(k)
    BY <2>1, <2>3, <2>5
  <2> QED
    BY <2>4, <2>5
<1>4. page \in Seq(0..MaxStmts) /\ Len(page) = n /\ DOMAIN page = 1..n /\ \A k \in 1..n : page[k] \in left(k)
  <2> HIDE DEF left
  <2> DEFINE sets == [k \in 1..n |-> left(k)]
  <2>1. DOMAIN sets = 1..n /\ \A k \in 1..n : sets[k] = left(k)
    OBVIOUS
  <2>2. page \in OneOfEach(sets) /\ \A k \in 1..n : sets[k] \subseteq 0..MaxStmts
    BY <1>1, <1>3, <2>1
  <2> HIDE DEF sets
  <2> QED
    <3>1. page \in Seq(0..MaxStmts) /\ Len(page) = n /\ DOMAIN page = 1..n
          /\ \A k \in 1..n : page[k] \in sets[k]
      BY <1>2, <2>1, <2>2, OneOfEachElements
    <3> QED
      BY <2>1, <3>1
<1>5. \A k \in DOMAIN old \cap DOMAIN new : old[k] = new[k] => In(page, old[k], k)
  <2> SUFFICES ASSUME NEW k \in DOMAIN old \cap DOMAIN new, old[k] = new[k]
               PROVE  In(page, old[k], k)
    OBVIOUS
  <2>1. k \in 1..n /\ same(k)
    BY <1>1
  <2> QED
    BY <1>4, <2>1 DEF In
<1> QED
  BY <1>1, <1>3, <1>4, <1>5 DEF Left

\* What a power failure leaves of the file.
Remains ==
  /\ Len(stable.pages) <= Len(pages') /\ Len(pages') <= Len(pages)
  /\ pages' \in Seq(Seq(0..MaxStmts))
  /\ \A n \in DOMAIN pages' : Left(StablePage(n), pages[n], pages'[n])

\* The pages a power failure leaves have rows that were there, where they were.
LEMMA PagesRemain ==
  ASSUME TypeOK, PowerFailure, tbl' = "ready"
  PROVE  Remains
<1>1. PICK m \in Len(stable.pages)..Len(pages) :
        pages' \in OneOfEach([n \in 1..m |-> TornPage(StablePage(n), pages[n])])
  BY DEF PowerFailure
<1>2. /\ m \in Nat /\ Len(stable.pages) <= m /\ m <= Len(pages)
      /\ pages \in Seq(Seq(0..MaxStmts)) /\ stable.pages \in Seq(Seq(0..MaxStmts))
  BY DEF TypeOK
<1>3. ASSUME NEW n \in 1..m
      PROVE  pages[n] \in Seq(0..MaxStmts) /\ StablePage(n) \in Seq(0..MaxStmts)
  <2>1. n \in 1..Len(pages) /\ (n <= Len(stable.pages) => n \in 1..Len(stable.pages))
    BY <1>2
  <2>2. pages[n] \in Seq(0..MaxStmts) /\ (n <= Len(stable.pages) => stable.pages[n] \in Seq(0..MaxStmts))
    BY <1>2, <2>1
  <2>3. <<>> \in Seq(0..MaxStmts)
    OBVIOUS
  <2> QED
    BY <2>2, <2>3 DEF StablePage
<1> DEFINE sets == [n \in 1..m |-> TornPage(StablePage(n), pages[n])]
<1>4. /\ pages' \in OneOfEach(sets) /\ DOMAIN sets = 1..m
      /\ \A n \in 1..m : sets[n] = TornPage(StablePage(n), pages[n])
  BY <1>1
<1> HIDE DEF sets
<1>5. \A n \in 1..m : \A page \in sets[n] : Left(StablePage(n), pages[n], page)
  BY <1>3, <1>4, TornPageLeaves
<1>6. \A n \in 1..m : sets[n] \subseteq Seq(0..MaxStmts)
  BY <1>5 DEF Left
<1>7. pages' \in Seq(Seq(0..MaxStmts)) /\ Len(pages') = m /\ DOMAIN pages' = 1..m
      /\ \A n \in 1..m : pages'[n] \in sets[n]
  BY <1>2, <1>4, <1>6, OneOfEachElements
<1> QED
  BY <1>2, <1>5, <1>7 DEF Remains

\* A power failure keeps TypeOK.
LEMMA FailureType ==
  ASSUME TypeOK, PowerFailure
  PROVE  TypeOK'
<1>1. tbl' \in {"absent", "empty", "ready"}
  BY DEF TypeOK, PowerFailure, TornMeta
<1>2. pages' \in Seq(Seq(0..MaxStmts)) /\ \A n \in DOMAIN pages' : Len(pages'[n]) \in 0..PageRows
  <2>1. CASE tbl' # "ready"
    BY <2>1 DEF PowerFailure
  <2>2. CASE tbl' = "ready"
    <3>1. Remains
      BY <2>2, PagesRemain
    <3>2. ASSUME NEW n \in DOMAIN pages'
          PROVE  Len(pages'[n]) \in 0..PageRows
      <4>1. /\ Len(pages'[n]) \in Len(StablePage(n))..Len(pages[n]) \cup Len(pages[n])..Len(StablePage(n))
            /\ n \in DOMAIN pages
        BY <3>1 DEF Remains, Left, TypeOK
      <4>2. Len(pages[n]) \in 0..PageRows /\ Len(StablePage(n)) \in 0..PageRows
        BY <3>1, <4>1, PageAssumption DEF StablePage, TypeOK
      <4> QED
        BY <4>1, <4>2, PageAssumption
    <3> QED
      BY <3>1, <3>2 DEF Remains
  <2> QED
    BY <2>1, <2>2
<1>3. stable' = [tbl |-> tbl', pages |-> pages']
  BY DEF PowerFailure
<1>4. ProcTypes(Len(pages))'
  <2>1. Len(pages') \in Nat
    BY <1>2
  <2>2. 0 \in 0..Len(pages') /\ 1 \in 1..(Len(pages') + 1) /\ 0 \in 0..MaxStmts
    BY <2>1, StmtsAssumption
  <2> QED
    BY <2>2 DEF PowerFailure, ProcTypes, Labels
<1> QED
  BY <1>1, <1>2, <1>3, <1>4 DEF TypeOK, ProcTypes

\* A power failure keeps the invariant.
LEMMA FailureInv ==
  ASSUME QueriesInv, PowerFailure
  PROVE  QueriesInv'
<1> USE DEF QueriesInv
<1>1. /\ \A p \in Procs : pc'[p] = "idle" /\ stmt'[p] = "select" /\ buf'[p] = <<>> /\ at'[p] = 1
      /\ UNCHANGED <<acked, shared, created, stmts>>
      /\ stable' = [tbl |-> tbl', pages |-> pages'] /\ tbl' \in TornMeta
  BY DEF PowerFailure, history
<1>2. TypeOK' /\ Writers' = {}
  BY <1>1, FailureType DEF Writers
<1>3. Errands'
  BY <1>1 DEF Errands
<1>4. stable.tbl = "ready" => tbl' = "ready"
  BY <1>1 DEF TornMeta, Creation
<1>5. Creation' /\ Numbering'
  BY <1>1, <1>2, <1>4 DEF Creation, Creating, Numbering
<1>6. ASSUME NEW r \in 1..MaxStmts, NEW n \in Nat, NEW k \in Nat, Copy(r, n, k)'
      PROVE  Copy(r, n, k)
  <2>1. n \in DOMAIN pages' /\ In(pages'[n], r, k)
    BY <1>1, <1>6 DEF Copy
  <2>2. tbl' = "ready"
    BY <2>1 DEF PowerFailure
  <2>3. Left(StablePage(n), pages[n], pages'[n]) /\ n \in DOMAIN pages
    BY <2>1, <2>2, PagesRemain DEF Remains, TypeOK
  <2>4. r # Torn
    BY DEF Torn
  <2>5. In(StablePage(n), r, k) \/ In(pages[n], r, k)
    BY <2>1, <2>3, <2>4 DEF Left, In
  <2>6. In(StablePage(n), r, k) => n \in DOMAIN stable.pages /\ In(stable.pages[n], r, k)
    BY <2>3 DEF StablePage, In, TypeOK
  <2> QED
    BY <2>3, <2>5, <2>6 DEF Copy
<1>7. OnePlace' /\ Unwritten'
  BY <1>1, <1>2, <1>6 DEF OnePlace, Unwritten
<1>8. Durable'
  <2> SUFFICES ASSUME NEW r \in acked \ shared
               PROVE  \E n, k \in Nat : Kept(r, n, k)' /\ OnDisk(r, n, k)'
    BY <1>1, <1>2 DEF Durable
  <2>1. PICK n \in Nat, k \in Nat : Kept(r, n, k) /\ OnDisk(r, n, k)
    BY DEF Durable
  <2>2. tbl' = "ready"
    BY <1>4 DEF Creation
  <2>3. n \in DOMAIN pages' /\ Left(StablePage(n), pages[n], pages'[n])
    <3>1. Remains
      BY <2>2, PagesRemain
    <3>2. n \in 1..Len(stable.pages) /\ Len(stable.pages) \in Nat /\ Len(pages') \in Nat
      BY SMTT(30), <2>1, <3>1 DEF Remains, OnDisk, TypeOK
    <3>3. n \in DOMAIN pages'
      BY <3>1, <3>2 DEF Remains
    <3> QED
      BY <3>1, <3>3 DEF Remains
  <2>4. StablePage(n) = stable.pages[n]
    BY <2>1 DEF StablePage, OnDisk, TypeOK
  <2>5. In(pages'[n], r, k)
    BY <2>1, <2>3, <2>4 DEF Left, In, Kept, OnDisk
  <2> QED
    BY <1>1, <1>2, <2>1, <2>3, <2>5 DEF Kept, OnDisk
<1> QED
  BY <1>2, <1>3, <1>5, <1>7, <1>8

\* Every step keeps the invariant.
LEMMA NextQueries == QueriesInv /\ [Next]_vars => QueriesInv'
<1> SUFFICES ASSUME QueriesInv, [Next]_vars PROVE QueriesInv'
  OBVIOUS
<1>1. CASE UNCHANGED vars
  BY <1>1 DEF QueriesInv, vars, disk, proc, history, TypeOK, Errands, Creation, Creating, Numbering, Writers,
     OnePlace, Unwritten, Copy, Durable, Kept, OnDisk
<1>2. ASSUME NEW p \in Procs, Step(p) \/ Crash(p) \/ Starts(p)
      PROVE  QueriesInv'
  <2>1. TypeOK' /\ Errands' /\ Creation' /\ Numbering'
    BY <1>2, StepType, StepErrands, StepCreation, StepNumbering DEF QueriesInv, Numbering
  <2>2. OnePlace' /\ Unwritten' /\ Durable'
    BY <1>2, StepPlaces, StepDurable DEF QueriesInv
  <2> QED
    BY <2>1, <2>2 DEF QueriesInv
<1>3. CASE PowerFailure
  BY <1>3, FailureInv
<1> QED
  BY <1>1, <1>2, <1>3 DEF Next, Starts

\* So it holds of every state.
LEMMA Invariant == Spec => []QueriesInv
  BY InitQueries, NextQueries, PTL DEF Spec

\* Files, and what each process knows of them, keep their shape: a process never
\* reads a page behind the end of the file (Scan::next, Table::insert_record).
THEOREM TypeCorrect == Spec => []TypeOK
<1>1. QueriesInv => TypeOK
  BY DEF QueriesInv
<1> QED
  BY <1>1, Invariant, PTL

\* However many CREATE TABLEs race, one at most reports success, and a table that
\* was created opens ever after (Table::create).
THEOREM OneIsCreated == Spec => []OneCreator
<1>1. QueriesInv => OneCreator
  BY DEF QueriesInv, Creation, OneCreator
<1> QED
  BY <1>1, Invariant, PTL

\* A row whose INSERT reported success is in the table, through deaths and power
\* failures, unless another INSERT ran alongside (Table::insert_record, write_page).
THEOREM AckedAloneStays == Spec => []AckedAlonePersist
<1>1. QueriesInv => AckedAlonePersist
  BY DEF QueriesInv, Durable, Kept, In, AckedAlonePersist, Stored, Range
<1> QED
  BY <1>1, Invariant, PTL

\* However INSERTs interleave, and whatever a power failure leaves of a page, no
\* row is in the table twice.
THEOREM RowsAreOnce == Spec => []NoDuplicates
<1>1. QueriesInv => NoDuplicates
  <2> SUFFICES ASSUME QueriesInv,
                      NEW n \in DOMAIN pages, NEW m \in DOMAIN pages,
                      NEW k \in DOMAIN pages[n], NEW j \in DOMAIN pages[m],
                      pages[n][k] = pages[m][j], pages[n][k] # Torn
               PROVE  n = m /\ k = j
    BY DEF NoDuplicates
  <2>1. n \in Nat /\ m \in Nat /\ k \in Nat /\ j \in Nat /\ pages[n][k] \in 1..MaxStmts
    <3>1. pages \in Seq(Seq(0..MaxStmts)) /\ pages[n] \in Seq(0..MaxStmts) /\ pages[m] \in Seq(0..MaxStmts)
      BY DEF QueriesInv, TypeOK
    <3>2. n \in Nat /\ m \in Nat /\ k \in 1..Len(pages[n]) /\ j \in 1..Len(pages[m])
      BY <3>1
    <3>3. k \in Nat /\ j \in Nat
      BY <3>1, <3>2, LenProperties
    <3>4. pages[n][k] \in 0..MaxStmts
      BY <3>1, <3>2, ElementOfSeq
    <3>5. pages[n][k] \in 1..MaxStmts
      <4> DEFINE e == pages[n][k]
      <4>1. e \in 0..MaxStmts /\ e # 0
        BY <3>4 DEF Torn
      <4> HIDE DEF e
      <4>2. e \in 1..MaxStmts
        BY <4>1, StmtsAssumption
      <4> QED
        BY <4>2 DEF e
    <3> QED
      BY <3>2, <3>3, <3>5
  <2>2. Copy(pages[n][k], n, k) /\ Copy(pages[n][k], m, j)
    BY DEF Copy, In
  <2> QED
    BY <2>1, <2>2 DEF QueriesInv, OnePlace
<1> QED
  BY <1>1, Invariant, PTL
-----------------------------------------------------------------------------
\* The rows whose INSERTs ran alone, if they ran.
Own == 1..MaxStmts \ shared

Lies(r, n, k) == n \in DOMAIN pages /\ In(pages[n], r, k)

\* A row that lies on page n at k comes before one on page m at j.
Earlier(n, k, m, j) == n < m \/ (n = m /\ k < j)

\* The rows of INSERTs that ran alone only move into the table at its end: no
\* writer takes one away, nor brings one back, and who writes alone writes last.
Steady ==
  /\ \A r \in Own : \A n, k \in Nat : Lies(r, n, k) => Kept(r, n, k)
  /\ \A q \in Writers : pc[q] = "write" =>
       \A r \in Own, k \in Nat : In(buf[q], r, k) => Lies(r, count[q], k)
  /\ \A q \in Writers : row[q] \notin shared /\ pc[q] \in {"read", "write"} =>
       count[q] = Len(pages)

\* What p has scanned are such rows of the pages before at[p], each once and
\* after all that come before it in the table; of the pages that cannot grow any
\* more it is all of them, and those that were acknowledged are among them.
Scanned(p) ==
  /\ \A r \in Own, i \in Nat : In(buf[p], r, i) => \E n, k \in Nat : n < at[p] /\ Lies(r, n, k)
  /\ \A r \in Own, n, k \in Nat : Lies(r, n, k) /\ n < at[p] /\ n < count[p] =>
       \E i \in Nat : In(buf[p], r, i)
  /\ \A r, s \in Own, n, k, m, j, i \in Nat :
       Lies(r, n, k) /\ Lies(s, m, j) /\ Earlier(n, k, m, j) /\ In(buf[p], s, i) =>
         \E h \in Nat : h < i /\ In(buf[p], r, h)
  /\ \A r \in Own, i, h \in Nat : In(buf[p], r, i) /\ In(buf[p], r, h) => i = h
  /\ \A r \in known[p] \ shared :
       \E n, k \in Nat : n <= count[p] /\ Lies(r, n, k) /\ (n < at[p] => \E i \in Nat : In(buf[p], r, i))

ScanInv ==
  /\ Steady
  /\ known \in [Procs -> SUBSET acked]
  /\ \A p \in Procs : pc[p] = "scan" => Scanned(p)
-----------------------------------------------------------------------------
\* No step makes a row one's own again that ran alongside another.
LEMMA OwnShrinks ==
  ASSUME NEW p \in Procs, Step(p) \/ Crash(p) \/ Starts(p)
  PROVE  Own' \subseteq Own /\ shared \subseteq shared'
  BY HistoryEffect DEF Starts, Start, Own

\* The row a process is to write is its own, and it the only writer, or it is shared.
LEMMA OwnRow ==
  ASSUME QueriesInv, NEW p \in Writers
  PROVE  row[p] \in 1..MaxStmts /\ (row[p] \notin shared => row[p] \in Own /\ Writers = {p})
<1>1. row[p] \in 1..stmts /\ stmts \in 0..MaxStmts
  BY DEF QueriesInv, Numbering
<1>2. row[p] \in 1..MaxStmts
  BY <1>1, StmtsAssumption
<1>3. row[p] \notin shared => \A q \in Writers : q = p
  BY DEF QueriesInv, Numbering
<1> QED
  BY <1>2, <1>3 DEF Own

\* What is in a page is at a natural place.
LEMMA LiesType ==
  ASSUME TypeOK, NEW r, NEW n, NEW k, Lies(r, n, k)
  PROVE  n \in 1..Len(pages) /\ n \in Nat /\ k \in Nat /\ k \in 1..Len(pages[n])
<1>1. pages \in Seq(Seq(0..MaxStmts))
  BY DEF TypeOK
<1>2. n \in 1..Len(pages) /\ n \in Nat /\ pages[n] \in Seq(0..MaxStmts)
  BY <1>1 DEF Lies
<1>3. k \in 1..Len(pages[n]) /\ k \in Nat
  BY <1>2 DEF Lies, In
<1> QED
  BY <1>2, <1>3

\* Writing its row, p puts it at place l of page m and brings nothing else, and
\* the row comes after all of Own if it is of Own itself.
Puts(p, m, l) ==
  /\ m >= count[p] /\ Lies(row[p], m, l)'
  /\ \A r \in Own : \A n, k : Lies(r, n, k)' => Lies(r, n, k) \/ (r = row[p] /\ n = m /\ k = l)
  /\ row[p] \notin shared =>
       /\ count[p] = Len(pages)
       /\ \A r \in Own, n, k \in Nat : Lies(r, n, k) => Earlier(n, k, m, l)

\* A step takes no row of Own away, and brings one to the end of the table.
LEMMA StepLies ==
  ASSUME QueriesInv, Steady, NEW p \in Procs, Step(p) \/ Crash(p) \/ Starts(p)
  PROVE  /\ \A r \in Own, n, k \in Nat : Lies(r, n, k) => Lies(r, n, k)' /\ Kept(r, n, k)'
         /\ ~(InsertLast(p) \/ InsertNew(p)) => \A r, n, k : Lies(r, n, k)' => Lies(r, n, k)
<1>1. TypeOK /\ Errands /\ Unwritten /\ Numbering
  BY DEF QueriesInv
<1>2. ASSUME NEW r \in Own, NEW n \in Nat, NEW k \in Nat, Lies(r, n, k)
      PROVE  Lies(r, n, k)' /\ Kept(r, n, k)'
  <2>1. Kept(r, n, k)
    BY <1>2 DEF Steady
  <2>2. Copy(r, n, k)
    BY <1>2 DEF Copy, Lies
  <2>3. InsertLast(p) \/ InsertNew(p) => row[p] # r
    <3> SUFFICES ASSUME InsertLast(p) \/ InsertNew(p) PROVE row[p] # r
      OBVIOUS
    <3>1. p \in Writers /\ pc[p] = "write"
      BY <1>1, InsertWrites DEF Writers
    <3> QED
      BY <1>1, <1>2, <2>2, <3>1 DEF Unwritten
  <2>4. Kept(r, n, k)'
    BY <1>1, <2>1, <2>3, StepKeeps
  <2> QED
    BY <2>4 DEF Kept, Lies
<1>3. ASSUME ~(InsertLast(p) \/ InsertNew(p)), NEW r, NEW n, NEW k, Lies(r, n, k)'
      PROVE  Lies(r, n, k)
  BY <1>1, <1>3, DiskEffect DEF Lies
<1> QED
  BY <1>2, <1>3

\* The write of a process puts its row at one place and brings no other.
LEMMA InsertLies ==
  ASSUME QueriesInv, Steady, NEW p \in Procs, InsertLast(p) \/ InsertNew(p)
  PROVE  /\ pc[p] = "write" /\ p \in Writers
         /\ \E m, l \in Nat : Puts(p, m, l)
<1>1. TypeOK /\ Errands /\ Numbering /\ Unwritten
  BY DEF QueriesInv
<1>2. PICK m \in 1..(Len(pages) + 1), content \in Seq(0..MaxStmts) :
        /\ Len(content) \in 0..PageRows /\ WritePage(p, m, content)
        /\ \/ m = count[p] /\ content = Append(buf[p], row[p])
           \/ m = count[p] + 1 /\ content = <<row[p]>>
  BY <1>1, InsertWrites
<1>3. /\ DOMAIN pages' = DOMAIN pages \cup {m} /\ pages'[m] = content
      /\ \A n \in DOMAIN pages : n # m => pages'[n] = pages[n]
  BY <1>1, <1>2, WriteEffect
<1>4. pc[p] = "write" /\ p \in Writers /\ buf[p] \in Seq(0..MaxStmts) /\ Len(buf[p]) \in Nat
  BY <1>1, InsertWrites DEF Writers
<1>5. m \in Nat /\ Len(content) \in Nat /\ Len(pages) \in Nat /\ DOMAIN pages = 1..Len(pages) /\ count[p] \in Nat
  BY <1>1, <1>2 DEF TypeOK
<1> DEFINE l == Len(content)
<1>6. /\ content[l] = row[p] /\ l \in DOMAIN content /\ DOMAIN content = 1..l
      /\ \A k \in 1..l : k = l \/ (m = count[p] /\ k \in DOMAIN buf[p] /\ content[k] = buf[p][k])
      /\ m = count[p] => l = Len(buf[p]) + 1
  <2>1. CASE m = count[p] /\ content = Append(buf[p], row[p])
    BY <1>4, <2>1
  <2>2. CASE m = count[p] + 1 /\ content = <<row[p]>>
    BY <1>5, <2>2
  <2> QED
    BY <1>2, <2>1, <2>2
<1> HIDE DEF l
<1>7. Lies(row[p], m, l)' /\ m >= count[p]
  BY <1>2, <1>3, <1>5, <1>6 DEF Lies, In, WritePage
<1>8. ASSUME NEW r \in Own, NEW n, NEW k, Lies(r, n, k)', ~(r = row[p] /\ n = m /\ k = l)
      PROVE  Lies(r, n, k)
  <2>1. CASE n = m
    <3>1. k \in 1..l /\ content[k] = r
      BY <1>3, <1>6, <1>8, <2>1 DEF Lies, In
    <3>2. m = count[p] /\ In(buf[p], r, k)
      BY <1>6, <1>8, <2>1, <3>1 DEF In
    <3>3. k \in Nat
      BY <1>4, <3>2 DEF In
    <3> QED
      BY <1>4, <2>1, <3>2, <3>3 DEF Steady
  <2>2. CASE n # m
    BY <1>3, <1>8, <2>2 DEF Lies
  <2> QED
    BY <2>1, <2>2
<1>9. ASSUME row[p] \notin shared
      PROVE  count[p] = Len(pages)
  BY <1>4, <1>9 DEF Steady
<1>10. ASSUME row[p] \notin shared, NEW r \in Own, NEW n \in Nat, NEW k \in Nat, Lies(r, n, k)
       PROVE  Earlier(n, k, m, l)
  <2>1. n <= Len(pages) /\ Kept(r, n, k)
    BY <1>5, <1>10 DEF Lies, Steady
  <2>2. CASE n = m
    <3>1. row[p] # r
      BY <1>1, <1>4, <1>10 DEF Unwritten, Copy, Lies
    <3>2. m = count[p]
      BY <1>2, <1>5, <1>9, <1>10, <2>1, <2>2
    <3>3. In(buf[p], r, k)
      BY <1>4, <2>1, <2>2, <3>1, <3>2 DEF Kept
    <3> QED
      BY <1>4, <1>6, <2>2, <3>2, <3>3 DEF In, Earlier
  <2>3. CASE n # m
    BY <1>2, <1>5, <1>9, <1>10, <2>1, <2>3 DEF Earlier
  <2> QED
    BY <2>2, <2>3
<1> QED
  <2>1. l \in Nat
    BY <1>5 DEF l
  <2>2. Puts(p, m, l)
    BY <1>7, <1>8, <1>9, <1>10 DEF Puts
  <2> QED
    BY <1>4, <1>5, <2>1, <2>2

\* A step leaves the rows that ran alone where they are, in the order they came.
LEMMA StepSteady ==
  ASSUME QueriesInv, QueriesInv', Steady, NEW p \in Procs, Step(p) \/ Crash(p) \/ Starts(p)
  PROVE  Steady'
<1>1. TypeOK /\ Errands /\ Numbering /\ Unwritten
  BY DEF QueriesInv
<1>2. Own' \subseteq Own /\ shared \subseteq shared'
  BY OwnShrinks
<1>3. \A q \in Procs : q # p => Stays(q)
  BY <1>1, OthersStay
<1>4. \A r \in Own, n, k \in Nat : Lies(r, n, k) => Lies(r, n, k)' /\ Kept(r, n, k)'
  BY StepLies
<1>5. ASSUME NEW r \in Own', NEW n \in Nat, NEW k \in Nat, Lies(r, n, k)'
      PROVE  Kept(r, n, k)'
  <2>1. CASE Lies(r, n, k)
    BY <1>2, <1>4, <2>1
  <2>2. CASE ~Lies(r, n, k)
    <3>1. InsertLast(p) \/ InsertNew(p)
      BY <1>5, <2>2, StepLies
    <3>2. pc[p] = "write" /\ p \in Writers /\ r = row[p]
      BY <1>2, <1>5, <2>2, <3>1, InsertLies DEF Puts
    <3>3. row' = row /\ Writers' = Writers
      BY <1>1, <1>3, <3>1, <3>2, InsertWrites DEF Writers, Stays
    <3>4. Writers = {p}
      BY <1>2, <3>2, OwnRow DEF Own
    <3> QED
      BY <1>5, <3>2, <3>3, <3>4 DEF Kept, Lies
  <2> QED
    BY <2>1, <2>2
<1>6. ASSUME NEW q \in Writers', pc'[q] = "write", NEW r \in Own', NEW k \in Nat, In(buf'[q], r, k)
      PROVE  count'[q] \in DOMAIN pages' /\ In(pages'[count'[q]], r, k)
  <2>1. CASE q # p
    <3>1. q \in Writers /\ pc[q] = "write" /\ In(buf[q], r, k) /\ count'[q] = count[q]
      BY <1>3, <1>6, <2>1 DEF Writers, Stays
    <3>2. Lies(r, count[q], k) /\ count[q] \in Nat
      BY <1>1, <1>2, <1>6, <3>1 DEF Steady, TypeOK, Writers
    <3> QED
      BY <1>2, <1>4, <3>1, <3>2 DEF Lies
  <2>2. CASE q = p
    <3>1. buf'[p] # <<>>
      BY <1>6, <2>2 DEF In
    <3>2. ReadLast(p) /\ pc[p] = "read" /\ count'[p] = count[p] /\ buf'[p] = pages[count[p]]
      BY <1>1, <1>6, <2>2, <3>1, MoveEffect
    <3>3. pages' = pages /\ count[p] \in DOMAIN pages
      BY <1>1, <3>2 DEF ReadLast, disk, Errands, TypeOK
    <3> QED
      BY <1>6, <2>2, <3>2, <3>3 DEF Lies
  <2> QED
    BY <2>1, <2>2
<1>7. ASSUME NEW q \in Writers', row'[q] \notin shared', pc'[q] \in {"read", "write"}
      PROVE  count'[q] = Len(pages')
  <2>1. CASE q # p
    <3>1. q \in Writers /\ pc[q] = pc'[q] /\ row'[q] = row[q] /\ count'[q] = count[q] /\ row[q] \notin shared
      BY <1>2, <1>3, <1>7, <2>1 DEF Writers, Stays
    <3>2. ~(InsertLast(p) \/ InsertNew(p))
      BY <2>1, <3>1, InsertLies, OwnRow
    <3> QED
      BY <1>1, <1>7, <3>1, <3>2, DiskEffect DEF Steady
  <2>2. CASE q = p
    <3>1. \/ Open(p) /\ count'[p] = Len(pages)
          \/ ReadLast(p) /\ pc[p] = "read" /\ stmt'[p] = stmt[p] /\ count'[p] = count[p]
      BY <1>1, <1>7, <2>2, MoveEffect
    <3>2. pages' = pages
      BY <3>1 DEF Open, ReadLast, disk
    <3>3. ReadLast(p) => row' = row /\ p \in Writers
      BY <1>7, <2>2, <3>1 DEF ReadLast, Writers
    <3> QED
      BY <1>2, <1>7, <2>2, <3>1, <3>2, <3>3 DEF Steady
  <2> QED
    BY <2>1, <2>2
<1> QED
  BY <1>5, <1>6, <1>7 DEF Steady, Lies

\* What a SELECT knows of the rows acknowledged before it changes only as it
\* starts and ends.
LEMMA KnownEffect ==
  ASSUME TypeOK, NEW p \in Procs, Step(p) \/ Crash(p) \/ Starts(p), known \in [Procs -> SUBSET acked]
  PROVE  /\ known' \in [Procs -> SUBSET acked'] /\ acked \subseteq acked'
         /\ \A q \in Procs : q # p => known'[q] = known[q]
         /\ pc'[p] = "scan" => known'[p] = known[p]
<1>1. acked \subseteq acked'
  BY HistoryEffect DEF Report
<1>2. CASE Exit(p)
  <2>1. pc'[p] = "idle" /\ known' = [known EXCEPT ![p] = {}]
    BY <1>2, ExitEffect DEF Exit
  <2> QED
    BY <1>1, <2>1
<1>3. CASE Starts(p)
  <2>1. PICK s \in {"create", "insert", "select"} : Start(p, s)
    BY <1>3 DEF Starts
  <2>2. acked' = acked /\ known' = [known EXCEPT ![p] = IF s = "select" THEN acked ELSE {}]
    BY <2>1 DEF Start
  <2>3. pc'[p] # "scan" \/ known'[p] = known[p]
    BY <2>1 DEF Start, Goto
  <2> QED
    BY <2>2, <2>3
<1>4. CASE ~Exit(p) /\ ~Starts(p)
  <2>1. known' = known
    BY <1>4 DEF Step, CreateFile, CreateMeta, Plan, Open, ReadLast, InsertLast, InsertNew, WritePage,
       InsertPanics, Sync, Report, ScanPage, ScanFails, PrintResult, Crash
  <2> QED
    BY <1>1, <2>1
<1> QED
  BY <1>2, <1>3, <1>4

\* The rows of a scan that goes on by a page.
LEMMA ScanPageEffect ==
  ASSUME TypeOK, NEW p \in Procs, ScanPage(p)
  PROVE  /\ at[p] \in DOMAIN pages /\ at[p] <= count[p] /\ at'[p] = at[p] + 1
         /\ UNCHANGED <<pages, count, shared>>
         /\ \A r, i : In(buf'[p], r, i) <=>
              In(buf[p], r, i) \/ \E k \in Nat : In(pages[at[p]], r, k) /\ i = Len(buf[p]) + k
         /\ \A r, i : In(buf[p], r, i) => i \in 1..Len(buf[p])
<1>1. /\ at[p] \in DOMAIN pages /\ at[p] <= count[p] /\ at'[p] = at[p] + 1 /\ UNCHANGED <<pages, count, shared>>
      /\ buf'[p] = buf[p] \o pages[at[p]]
      /\ buf[p] \in Seq(0..MaxStmts) /\ pages[at[p]] \in Seq(0..MaxStmts)
  <2>1. /\ at[p] <= count[p] /\ UNCHANGED <<pages, count, shared>>
        /\ buf' = [buf EXCEPT ![p] = @ \o pages[at[p]]] /\ at' = [at EXCEPT ![p] = @ + 1]
    BY DEF ScanPage, disk, history
  <2>2. /\ at \in [Procs -> 1..(Len(pages) + 1)] /\ buf \in [Procs -> Seq(0..MaxStmts)]
        /\ count[p] \in 0..Len(pages) /\ pages \in Seq(Seq(0..MaxStmts))
    BY DEF TypeOK
  <2>3. at[p] \in 1..Len(pages)
    BY <2>1, <2>2
  <2>4. pages[at[p]] \in Seq(0..MaxStmts) /\ at[p] \in DOMAIN pages
    BY <2>2, <2>3
  <2> QED
    BY <2>1, <2>2, <2>4
<1> DEFINE b == buf[p]
           c == pages[at[p]]
<1>2. b \in Seq(0..MaxStmts) /\ c \in Seq(0..MaxStmts) /\ buf'[p] = b \o c
  BY <1>1
<1> HIDE DEF b, c
<1>3. Len(b) \in Nat /\ Len(c) \in Nat /\ DOMAIN b = 1..Len(b) /\ DOMAIN c = 1..Len(c)
  BY <1>2
<1>4. ASSUME NEW r, NEW i
      PROVE  In(b \o c, r, i) <=> In(b, r, i) \/ \E k \in Nat : In(c, r, k) /\ i = Len(b) + k
  <2>1. DOMAIN (b \o c) = 1..(Len(b) + Len(c))
    BY <1>2
  <2>2. \A h \in 1..Len(b) : (b \o c)[h] = b[h]
    BY <1>2
  <2>3. \A k \in 1..Len(c) : (b \o c)[Len(b) + k] = c[k] /\ Len(b) + k \in 1..(Len(b) + Len(c))
    BY <1>2, <1>3
  <2>4. ASSUME In(b \o c, r, i)
        PROVE  In(b, r, i) \/ \E k \in Nat : In(c, r, k) /\ i = Len(b) + k
    <3>1. CASE i \in 1..Len(b)
      BY <1>3, <2>2, <2>4, <3>1 DEF In
    <3>2. CASE i \notin 1..Len(b)
      <4>1. i \in Nat /\ i > Len(b) /\ i <= Len(b) + Len(c)
        BY <1>3, <2>1, <2>4, <3>2 DEF In
      <4>2. i - Len(b) \in 1..Len(c) /\ i - Len(b) \in Nat /\ i = Len(b) + (i - Len(b))
        BY <1>3, <4>1
      <4> QED
        BY <1>3, <2>3, <2>4, <4>2 DEF In
    <3> QED
      BY <3>1, <3>2
  <2>5. ASSUME In(b, r, i)
        PROVE  In(b \o c, r, i)
    <3>1. i \in 1..Len(b) /\ i \in 1..(Len(b) + Len(c))
      BY <1>3, <2>5 DEF In
    <3> QED
      BY <2>1, <2>2, <2>5, <3>1 DEF In
  <2>6. ASSUME NEW k \in Nat, In(c, r, k), i = Len(b) + k
        PROVE  In(b \o c, r, i)
    BY <1>3, <2>1, <2>3, <2>6 DEF In
  <2> QED
    BY <2>4, <2>5, <2>6
<1>5. \A r, i : In(b, r, i) => i \in 1..Len(b)
  BY <1>3 DEF In
<1>6. \A r, i : In(buf'[p], r, i) <=> In(b, r, i) \/ \E k \in Nat : In(c, r, k) /\ i = Len(b) + k
  BY <1>2, <1>4
<1> QED
  BY Zenon, <1>1, <1>5, <1>6 DEF b, c

\* What other processes do leaves what p has scanned as it is.
LEMMA OthersScanned ==
  ASSUME QueriesInv, ScanInv, NEW p \in Procs, Step(p) \/ Crash(p) \/ Starts(p),
         NEW q \in Procs, q # p, Scanned(q)
  PROVE  Scanned(q)'
<1>1. TypeOK /\ Errands /\ Numbering /\ Unwritten /\ Steady
  BY DEF QueriesInv, ScanInv
<1>2. Own' \subseteq Own /\ shared \subseteq shared'
  BY OwnShrinks
<1>3. Stays(q) /\ known'[q] = known[q] /\ known[q] \subseteq acked
  BY <1>1, OthersStay, KnownEffect DEF ScanInv
<1>4. \A r \in Own, n, k \in Nat : Lies(r, n, k) => Lies(r, n, k)'
  BY <1>1, StepLies
\* A row of Own that was not there before comes last, and was not scanned.
<1>5. ASSUME NEW r \in Own', NEW n \in Nat, NEW k \in Nat, Lies(r, n, k)', ~Lies(r, n, k)
      PROVE  /\ n >= count[q]
             /\ \A s \in Own, m, j \in Nat : Lies(s, m, j) => Earlier(m, j, n, k)
             /\ \A i \in Nat : ~In(buf[q], r, i)
  <2>1. InsertLast(p) \/ InsertNew(p)
    BY <1>1, <1>5, StepLies
  <2>2. pc[p] = "write" /\ p \in Writers /\ r = row[p] /\ Puts(p, n, k)
    <3>1. PICK m, l \in Nat : Puts(p, m, l)
      BY <1>1, <2>1, InsertLies
    <3>2. r = row[p] /\ n = m /\ k = l
      BY <1>2, <1>5, <3>1 DEF Puts
    <3> QED
      BY <1>1, <2>1, <3>1, <3>2, InsertLies
  <2>3. row[p] \notin shared
    BY <1>2, <1>5, <2>2 DEF Own
  <2>4. count[q] <= Len(pages) /\ Len(pages) \in Nat /\ count[q] \in Nat
    BY <1>1 DEF TypeOK
  <2>5. ASSUME NEW i \in Nat, In(buf[q], r, i)
        PROVE  FALSE
    <3>1. PICK m, j \in Nat : Lies(r, m, j)
      BY <1>2, <1>5, <2>5 DEF Scanned
    <3> QED
      BY <1>1, <1>2, <1>5, <2>2, <3>1 DEF Unwritten, Copy, Lies
  <2> QED
    BY <2>2, <2>3, <2>4, <2>5 DEF Puts
<1>6. buf'[q] = buf[q] /\ at'[q] = at[q] /\ count'[q] = count[q] /\ count[q] \in Nat
  BY <1>1, <1>3 DEF Stays, TypeOK
<1>7. \A r \in Own', i \in Nat : In(buf[q], r, i) => \E n, k \in Nat : n < at[q] /\ Lies(r, n, k)'
  BY <1>2, <1>4 DEF Scanned
<1>8. ASSUME NEW r \in Own', NEW n \in Nat, NEW k \in Nat, Lies(r, n, k)', n < at[q], n < count[q]
      PROVE  \E i \in Nat : In(buf[q], r, i)
  <2>1. Lies(r, n, k)
    BY <1>5, <1>6, <1>8
  <2> QED
    BY <1>2, <1>8, <2>1 DEF Scanned
<1>9. ASSUME NEW r \in Own', NEW s \in Own', NEW n \in Nat, NEW k \in Nat, NEW m \in Nat, NEW j \in Nat,
             NEW i \in Nat, Lies(r, n, k)', Lies(s, m, j)', Earlier(n, k, m, j), In(buf[q], s, i)
      PROVE  \E h \in Nat : h < i /\ In(buf[q], r, h)
  <2>1. Lies(s, m, j)
    BY <1>5, <1>9
  <2>2. Lies(r, n, k)
    <3>1. ~Earlier(m, j, n, k)
      BY <1>9 DEF Earlier
    <3> QED
      BY <1>2, <1>5, <1>9, <2>1, <3>1
  <2> QED
    BY <1>2, <1>9, <2>1, <2>2 DEF Scanned
<1>10. \A r \in Own', i, h \in Nat : In(buf[q], r, i) /\ In(buf[q], r, h) => i = h
  BY <1>2 DEF Scanned
<1>11. \A r \in known[q] \ shared' :
         \E n, k \in Nat : n <= count[q] /\ Lies(r, n, k)' /\ (n < at[q] => \E i \in Nat : In(buf[q], r, i))
  <2> SUFFICES ASSUME NEW r \in known[q] \ shared'
               PROVE  \E n, k \in Nat : n <= count[q] /\ Lies(r, n, k)' /\ (n < at[q] => \E i \in Nat : In(buf[q], r, i))
    OBVIOUS
  <2>1. r \in known[q] \ shared
    BY <1>2
  <2>2. r \in Own
    <3>1. r \in 1..stmts /\ stmts \in 0..MaxStmts
      BY <1>1, <1>3, <2>1 DEF Numbering
    <3>2. r \in 1..MaxStmts
      BY <3>1, StmtsAssumption
    <3> QED
      BY <2>1, <3>2 DEF Own
  <2>3. PICK n, k \in Nat : n <= count[q] /\ Lies(r, n, k) /\ (n < at[q] => \E i \in Nat : In(buf[q], r, i))
    BY <2>1 DEF Scanned
  <2> QED
    BY <1>4, <2>2, <2>3
<1> QED
  BY <1>3, <1>6, <1>7, <1>8, <1>9, <1>10, <1>11 DEF Scanned

\* A scan starts with what was acknowledged before, and goes on in order.
LEMMA OpenScanned ==
  ASSUME QueriesInv, ScanInv, NEW p \in Procs, Open(p), pc'[p] = "scan"
  PROVE  Scanned(p)'
<1>1. TypeOK /\ Errands /\ Durable
  BY DEF QueriesInv
<1>2. /\ buf'[p] = <<>> /\ at'[p] = 1 /\ count'[p] = Len(pages)
      /\ UNCHANGED <<pages, known, shared>>
  BY <1>1 DEF Open, Errands, TypeOK, disk, history
<1>3. \A r, i : ~In(<<>>, r, i)
  BY DEF In
<1>4. \A r, n, k : Lies(r, n, k) => n \in 1..Len(pages) /\ ~(n < 1)
  BY <1>1 DEF Lies, TypeOK
<1>5. ASSUME NEW r \in known[p] \ shared
      PROVE  \E n, k \in Nat : n <= Len(pages) /\ Lies(r, n, k) /\ ~(n < 1)
  <2>1. r \in acked \ shared
    BY <1>5 DEF ScanInv
  <2>2. PICK n, k \in Nat : Lies(r, n, k)
    BY <1>1, <2>1 DEF Durable, Kept, Lies
  <2> QED
    BY <1>4, <2>2
<1> QED
  BY <1>2, <1>3, <1>4, <1>5 DEF Scanned, Lies, Own

\* The page a scan reads next continues what it has read.
LEMMA PageScanned ==
  ASSUME QueriesInv, NEW p \in Procs, ScanPage(p), Scanned(p), known'[p] = known[p]
  PROVE  Scanned(p)'
<1>1. TypeOK /\ OnePlace
  BY DEF QueriesInv
<1> DEFINE a == at[p]
           L == Len(buf[p])
<1>2. /\ a \in DOMAIN pages /\ a \in Nat /\ a <= count[p] /\ at'[p] = a + 1
      /\ UNCHANGED <<pages, count, shared>> /\ count[p] \in Nat /\ L \in Nat
  BY <1>1, ScanPageEffect DEF TypeOK
<1>3. \A r, i : In(buf'[p], r, i) <=> In(buf[p], r, i) \/ \E k \in Nat : Lies(r, a, k) /\ i = L + k
  <2>1. \A r, i : In(buf'[p], r, i) <=>
          In(buf[p], r, i) \/ \E k \in Nat : In(pages[a], r, k) /\ i = L + k
    BY <1>1, ScanPageEffect
  <2>2. \A r, k : In(pages[a], r, k) <=> Lies(r, a, k)
    BY <1>2 DEF Lies
  <2> QED
    BY <2>1, <2>2
<1>4. \A r, i : In(buf[p], r, i) => i \in 1..L
  BY <1>1, ScanPageEffect
<1>5. \A r \in Own, n, k, m, j \in Nat : Lies(r, n, k) /\ Lies(r, m, j) => n = m /\ k = j
  BY <1>1 DEF OnePlace, Copy, Lies, Own
<1> HIDE DEF a, L
<1>6. /\ \A r \in Own, i \in Nat : In(buf[p], r, i) => \E n, k \in Nat : n < a /\ Lies(r, n, k)
      /\ \A r \in Own, n, k \in Nat : Lies(r, n, k) /\ n < a /\ n < count[p] =>
           \E i \in Nat : In(buf[p], r, i)
      /\ \A r, s \in Own, n, k, m, j, i \in Nat :
           Lies(r, n, k) /\ Lies(s, m, j) /\ Earlier(n, k, m, j) /\ In(buf[p], s, i) =>
             \E h \in Nat : h < i /\ In(buf[p], r, h)
      /\ \A r \in Own, i, h \in Nat : In(buf[p], r, i) /\ In(buf[p], r, h) => i = h
      /\ \A r \in known[p] \ shared :
           \E n, k \in Nat : n <= count[p] /\ Lies(r, n, k) /\ (n < a => \E i \in Nat : In(buf[p], r, i))
  BY DEF Scanned, a
<1>7. \A r \in Own, i \in Nat : In(buf'[p], r, i) => \E n, k \in Nat : n < a + 1 /\ Lies(r, n, k)
  <2> SUFFICES ASSUME NEW r \in Own, NEW i \in Nat, In(buf'[p], r, i)
               PROVE  \E n, k \in Nat : n < a + 1 /\ Lies(r, n, k)
    OBVIOUS
  <2>1. CASE In(buf[p], r, i)
    BY <1>2, <1>6, <2>1
  <2>2. CASE ~In(buf[p], r, i)
    BY <1>2, <1>3, <2>2
  <2> QED
    BY <2>1, <2>2
<1>8. \A r \in Own, n, k \in Nat : Lies(r, n, k) /\ n < a + 1 /\ n < count[p] => \E i \in Nat : In(buf'[p], r, i)
  <2> SUFFICES ASSUME NEW r \in Own, NEW n \in Nat, NEW k \in Nat, Lies(r, n, k), n < a + 1, n < count[p]
               PROVE  \E i \in Nat : In(buf'[p], r, i)
    OBVIOUS
  <2>1. CASE n < a
    BY <1>3, <1>6, <2>1
  <2>2. CASE n = a
    <3>1. L + k \in Nat
      BY <1>2
    <3> QED
      BY <1>3, <2>2, <3>1
  <2> QED
    BY <1>2, <2>1, <2>2
<1>9. ASSUME NEW r \in Own, NEW s \in Own, NEW n \in Nat, NEW k \in Nat, NEW m \in Nat, NEW j \in Nat,
             NEW i \in Nat, Lies(r, n, k), Lies(s, m, j), Earlier(n, k, m, j), In(buf'[p], s, i)
      PROVE  \E h \in Nat : h < i /\ In(buf'[p], r, h)
  <2>1. CASE In(buf[p], s, i)
    BY <1>3, <1>6, <1>9, <2>1
  <2>2. CASE ~In(buf[p], s, i)
    <3>1. PICK l \in Nat : Lies(s, a, l) /\ i = L + l
      BY <1>3, <1>9, <2>2
    <3>2. m = a /\ j = l
      BY <1>2, <1>5, <1>9, <3>1
    <3>3. CASE n = a
      <4>1. L + k \in Nat /\ L + k < i
        BY <1>2, <1>9, <3>1, <3>2, <3>3 DEF Earlier
      <4> QED
        BY <1>3, <1>9, <3>3, <4>1
    <3>4. CASE n < a
      <4>1. n < count[p]
        BY <1>2, <3>4
      <4>2. PICK h \in Nat : In(buf[p], r, h)
        BY <1>6, <1>9, <3>4, <4>1
      <4>3. h < i
        BY <1>2, <1>4, <1>9, <3>1, <4>2, LiesType, <1>1
      <4> QED
        BY <1>3, <4>2, <4>3
    <3> QED
      BY <1>2, <1>9, <3>2, <3>3, <3>4 DEF Earlier
  <2> QED
    BY <2>1, <2>2
<1>10. ASSUME NEW r \in Own, NEW i \in Nat, NEW h \in Nat, In(buf'[p], r, i), In(buf'[p], r, h)
       PROVE  i = h
  <2>1. \A n, k \in Nat : n < a /\ Lies(r, n, k) => \A j \in Nat : ~Lies(r, a, j)
    BY <1>2, <1>5
  <2>2. \A k, j \in Nat : Lies(r, a, k) /\ Lies(r, a, j) => k = j
    BY <1>2, <1>5
  <2>3. CASE In(buf[p], r, i)
    <3>1. \A j \in Nat : ~Lies(r, a, j)
      BY <1>6, <2>1, <2>3
    <3> QED
      BY <1>3, <1>6, <1>10, <2>3, <3>1
  <2>4. CASE ~In(buf[p], r, i)
    <3>1. PICK k \in Nat : Lies(r, a, k) /\ i = L + k
      BY <1>3, <1>10, <2>4
    <3>2. ~In(buf[p], r, h)
      BY <1>6, <2>1, <3>1
    <3>3. PICK j \in Nat : Lies(r, a, j) /\ h = L + j
      BY <1>3, <1>10, <3>2
    <3> QED
      BY <2>2, <3>1, <3>3
  <2> QED
    BY <2>3, <2>4
<1>11. \A r \in known[p] \ shared :
         \E n, k \in Nat : n <= count[p] /\ Lies(r, n, k) /\ (n < a + 1 => \E i \in Nat : In(buf'[p], r, i))
  <2> SUFFICES ASSUME NEW r \in known[p] \ shared
               PROVE  \E n, k \in Nat : n <= count[p] /\ Lies(r, n, k) /\ (n < a + 1 => \E i \in Nat : In(buf'[p], r, i))
    OBVIOUS
  <2>1. PICK n, k \in Nat : n <= count[p] /\ Lies(r, n, k) /\ (n < a => \E i \in Nat : In(buf[p], r, i))
    BY <1>6
  <2>2. L + k \in Nat
    BY <1>2
  <2>3. n < a + 1 => \E i \in Nat : In(buf'[p], r, i)
    <3>1. CASE n < a
      BY <1>3, <2>1, <3>1
    <3>2. CASE n = a
      BY <1>3, <2>1, <2>2, <3>2
    <3> QED
      BY <1>2, <3>1, <3>2
  <2> QED
    BY <2>1, <2>3
<1>12. Own' = Own /\ \A r, n, k : Lies(r, n, k)' <=> Lies(r, n, k)
  BY <1>2 DEF Own, Lies
<1>13. \A r, s \in Own, n, k, m, j, i \in Nat :
          Lies(r, n, k) /\ Lies(s, m, j) /\ Earlier(n, k, m, j) /\ In(buf'[p], s, i) =>
            \E h \in Nat : h < i /\ In(buf'[p], r, h)
  BY <1>9
<1>14. \A r \in Own, i, h \in Nat : In(buf'[p], r, i) /\ In(buf'[p], r, h) => i = h
  BY <1>10
<1> QED
  <2>1. at'[p] = a + 1 /\ count'[p] = count[p] /\ known'[p] \ shared' = known[p] \ shared
    BY <1>2
  <2>2. \A r \in Own', i \in Nat : In(buf'[p], r, i) => \E n, k \in Nat : n < at'[p] /\ Lies(r, n, k)'
    BY <1>7, <1>12, <2>1
  <2>3. \A r \in Own', n, k \in Nat : Lies(r, n, k)' /\ n < at'[p] /\ n < count'[p] =>
          \E i \in Nat : In(buf'[p], r, i)
    BY <1>8, <1>12, <2>1
  <2>4. \A r, s \in Own', n, k, m, j, i \in Nat :
          Lies(r, n, k)' /\ Lies(s, m, j)' /\ Earlier(n, k, m, j) /\ In(buf'[p], s, i) =>
            \E h \in Nat : h < i /\ In(buf'[p], r, h)
    BY <1>12, <1>13
  <2>5. \A r \in known'[p] \ shared' :
          \E n, k \in Nat : n <= count'[p] /\ Lies(r, n, k)' /\ (n < at'[p] => \E i \in Nat : In(buf'[p], r, i))
    BY <1>11, <1>12, <2>1
  <2> QED
    BY <1>12, <1>14, <2>2, <2>3, <2>4, <2>5 DEF Scanned

\* Every step keeps what the scans have read in step with the pages.
LEMMA NextScans == QueriesInv /\ QueriesInv' /\ ScanInv /\ [Next]_vars => ScanInv'
<1> SUFFICES ASSUME QueriesInv, QueriesInv', ScanInv, [Next]_vars PROVE ScanInv'
  OBVIOUS
<1>1. CASE UNCHANGED vars
  BY <1>1 DEF ScanInv, Steady, Scanned, Own, Lies, Kept, Writers, vars, disk, proc, history
<1>2. ASSUME NEW p \in Procs, Step(p) \/ Crash(p) \/ Starts(p)
      PROVE  ScanInv'
  <2>1. TypeOK /\ Errands
    BY DEF QueriesInv
  <2>2. Steady' /\ known' \in [Procs -> SUBSET acked']
    BY <1>2, <2>1, StepSteady, KnownEffect DEF ScanInv
  <2>3. ASSUME NEW q \in Procs, q # p, pc'[q] = "scan"
        PROVE  Scanned(q)'
    <3>1. pc[q] = "scan"
      BY <1>2, <2>1, <2>3, OthersStay DEF Stays
    <3>2. Scanned(q)
      BY <3>1 DEF ScanInv
    <3> QED
      BY <1>2, <2>3, <3>2, OthersScanned
  <2>4. ASSUME pc'[p] = "scan"
        PROVE  Scanned(p)'
    <3>1. Open(p) \/ (ScanPage(p) /\ pc[p] = "scan")
      BY <1>2, <2>1, <2>4, MoveEffect
    <3>2. CASE Open(p)
      BY <2>4, <3>2, OpenScanned
    <3>3. CASE ScanPage(p) /\ pc[p] = "scan"
      <4>1. Scanned(p) /\ known'[p] = known[p]
        BY <1>2, <2>1, <2>4, <3>3, KnownEffect DEF ScanInv
      <4> QED
        BY <3>3, <4>1, PageScanned
    <3> QED
      BY <3>1, <3>2, <3>3
  <2> QED
    BY <2>2, <2>3, <2>4 DEF ScanInv
<1>3. CASE PowerFailure
  <2>1. /\ \A q \in Procs : pc'[q] = "idle"
        /\ known' = [q \in Procs |-> {}]
    BY <1>3 DEF PowerFailure
  <2>2. Writers' = {} /\ known' \in [Procs -> SUBSET acked']
    BY <2>1 DEF Writers
  <2>3. Steady'
    BY <2>2 DEF Steady, Kept, Lies
  <2> QED
    BY <2>1, <2>2, <2>3 DEF ScanInv
<1> QED
  BY <1>1, <1>2, <1>3 DEF Next, Starts

\* No process scans before the first statement.
LEMMA InitScans == Init => ScanInv
  BY DEF Init, ScanInv, Steady, Kept, Lies, Writers
-----------------------------------------------------------------------------
\* A set of numbers that is not empty has a least one.
LEMMA Least ==
  ASSUME NEW S \in SUBSET Nat, S # {}
  PROVE  \E n \in S : \A m \in S : n <= m
<1> DEFINE R == {p \in Nat \X Nat : p[1] < p[2]}
<1>1. IsWellFoundedOn(R, Nat)
  BY NatLessThanWellFounded DEF OpToRel
<1>2. PICK n \in S : \A m \in S : ~(<<m, n>> \in R)
  <2> HIDE DEF R
  <2> QED
    BY <1>1, WFMin
<1>3. ASSUME NEW m \in S PROVE n <= m
  <2>1. m \in Nat /\ n \in Nat /\ ~(m < n)
    BY <1>2
  <2> QED
    BY <2>1
<1> QED
  BY <1>3

\* What holds of 0, and of each number after one it holds of, holds of all.
LEMMA Induct ==
  ASSUME NEW S, 0 \in S, \A n \in Nat : n \in S => n + 1 \in S
  PROVE  Nat \subseteq S
<1> DEFINE Out == {n \in Nat : n \notin S}
<1>1. CASE Out # {}
  <2>1. PICK n \in Out : \A m \in Out : n <= m
    BY <1>1, Least
  <2>2. n # 0 /\ n - 1 \in Nat /\ n - 1 \notin Out
    BY <2>1
  <2> QED
    BY <2>1, <2>2
<1> QED
  BY <1>1

\* FlattenSeq is the last of a row of sequences, each the one before with the
\* next of seqs behind it.
LEMMA Flattening ==
  ASSUME NEW seqs, Len(seqs) \in Nat \ {0}
  PROVE  \E f : /\ DOMAIN f = 1..Len(seqs) /\ f[1] = seqs[1]
                /\ \A i \in 2..Len(seqs) : f[i] = f[i - 1] \o seqs[i]
                /\ FlattenSeq(seqs) = f[Len(seqs)]
<1> DEFINE G(f, k) == IF k = 1 THEN seqs[k] ELSE f[k - 1] \o seqs[k]
           F(f, n) == f = [k \in 1..n |-> G(f, k)]
           D == {n \in Nat : \E f : F(f, n)}
           flatten == CHOOSE f : F(f, Len(seqs))
<1>1. 0 \in D
  <2>1. F([k \in 1..0 |-> <<>>], 0)
    OBVIOUS
  <2> QED
    BY <2>1
<1>2. ASSUME NEW n \in Nat, n \in D PROVE n + 1 \in D
  <2>1. PICK f : F(f, n)
    BY <1>2
  <2> DEFINE g == [k \in 1..(n + 1) |-> G(f, k)]
  <2>2. \A k \in 1..n : g[k] = f[k]
    <3> HIDE DEF G
    <3> QED
      BY <2>1
  <2>3. \A k \in 1..(n + 1) : G(f, k) = G(g, k)
    <3>1. \A k \in 2..(n + 1) : k - 1 \in 1..n
      OBVIOUS
    <3>2. \A k \in 2..(n + 1) : g[k - 1] = f[k - 1]
      <4> HIDE DEF g
      <4> QED
        BY <2>2, <3>1
    <3> HIDE DEF g
    <3> QED
      BY <3>2
  <2> HIDE DEF G
  <2>4. F(g, n + 1)
    BY <2>3
  <2> HIDE DEF g
  <2>5. \E h : F(h, n + 1)
    BY <2>4
  <2> HIDE DEF F
  <2> QED
    BY <2>5
<1>3. F(flatten, Len(seqs))
  <2>1. Len(seqs) \in D
    <3> HIDE DEF D
    <3> QED
      BY <1>1, <1>2, Induct
  <2> HIDE DEF F
  <2> QED
    BY <2>1
<1>4. FlattenSeq(seqs) = flatten[Len(seqs)]
  BY Zenon DEF FlattenSeq
<1> HIDE DEF flatten
<1>5. DOMAIN flatten = 1..Len(seqs) /\ \A k \in 1..Len(seqs) : flatten[k] = G(flatten, k)
  <2> HIDE DEF G
  <2> QED
    BY <1>3
<1>6. flatten[1] = seqs[1] /\ \A i \in 2..Len(seqs) : flatten[i] = flatten[i - 1] \o seqs[i]
  <2>1. 1 \in 1..Len(seqs) /\ \A i \in 2..Len(seqs) : i \in 1..Len(seqs) /\ i # 1
    OBVIOUS
  <2> QED
    BY Zenon, <1>5, <2>1
<1> QED
  BY <1>4, <1>5, <1>6

\* Alone is the last of a row of sequences, each the one before with the next
\* row behind it, unless it is a torn one or ran alongside another.
LEMMA Leaving ==
  ASSUME NEW rows, Len(rows) \in Nat
  PROVE  \E f : /\ DOMAIN f = 0..Len(rows) /\ f[0] = <<>>
                /\ \A k \in 1..Len(rows) :
                     f[k] = IF rows[k] \in shared \cup {Torn} THEN f[k - 1] ELSE Append(f[k - 1], rows[k])
                /\ Alone(rows) = f[Len(rows)]
<1> DEFINE G(f, k) == IF k = 0 THEN <<>>
                      ELSE IF rows[k] \in shared \cup {Torn} THEN f[k - 1]
                      ELSE Append(f[k - 1], rows[k])
           F(f, n) == f = [k \in 0..n |-> G(f, k)]
           D == {n \in Nat : \E f : F(f, n)}
           alone == CHOOSE f : F(f, Len(rows))
<1>1. 0 \in D
  <2>1. F([k \in 0..0 |-> <<>>], 0)
    OBVIOUS
  <2> QED
    BY <2>1
<1>2. ASSUME NEW n \in Nat, n \in D PROVE n + 1 \in D
  <2>1. PICK f : F(f, n)
    BY <1>2
  <2> DEFINE g == [k \in 0..(n + 1) |-> G(f, k)]
  <2>2. \A k \in 0..n : g[k] = f[k]
    <3> HIDE DEF G
    <3> QED
      BY <2>1
  <2>3. \A k \in 0..(n + 1) : G(f, k) = G(g, k)
    <3>1. \A k \in 1..(n + 1) : k - 1 \in 0..n
      OBVIOUS
    <3>2. \A k \in 1..(n + 1) : g[k - 1] = f[k - 1]
      <4> HIDE DEF g
      <4> QED
        BY <2>2, <3>1
    <3> HIDE DEF g
    <3> QED
      BY <3>2
  <2> HIDE DEF G
  <2>4. F(g, n + 1)
    BY <2>3
  <2> HIDE DEF g
  <2>5. \E h : F(h, n + 1)
    BY <2>4
  <2> HIDE DEF F
  <2> QED
    BY <2>5
<1>3. F(alone, Len(rows))
  <2>1. Len(rows) \in D
    <3> HIDE DEF D
    <3> QED
      BY <1>1, <1>2, Induct
  <2> HIDE DEF F
  <2> QED
    BY <2>1
<1>4. Alone(rows) = alone[Len(rows)]
  BY Zenon DEF Alone
<1> HIDE DEF alone
<1>5. DOMAIN alone = 0..Len(rows) /\ \A k \in 0..Len(rows) : alone[k] = G(alone, k)
  <2> HIDE DEF G
  <2> QED
    BY <1>3
<1>6. /\ alone[0] = <<>>
      /\ \A k \in 1..Len(rows) : alone[k] = IF rows[k] \in shared \cup {Torn} THEN alone[k - 1]
                                            ELSE Append(alone[k - 1], rows[k])
  <2>1. 0 \in 0..Len(rows) /\ \A k \in 1..Len(rows) : k \in 0..Len(rows) /\ k # 0
    OBVIOUS
  <2> QED
    BY Zenon, <1>5, <2>1
<1> QED
  BY <1>4, <1>5, <1>6

\* The x-th of t is the h[x]-th of the g[x]-th of seqs; the first n of them are
\* in t in full and in order.
Places(seqs, n, t, g, h) ==
  /\ g \in [1..Len(t) -> 1..n] /\ h \in [1..Len(t) -> Nat]
  /\ \A x \in 1..Len(t) : In(seqs[g[x]], t[x], h[x])
  /\ \A x, y \in 1..Len(t) : x < y => Earlier(g[x], h[x], g[y], h[y])
  /\ \A m \in 1..n : \A k \in DOMAIN seqs[m] : \E x \in 1..Len(t) : g[x] = m /\ h[x] = k

\* The next of seqs behind the first n: its elements come after all of theirs.
LEMMA PlacesNext ==
  ASSUME NEW S, NEW seqs \in Seq(Seq(S)), NEW n \in Nat, n + 1 <= Len(seqs),
         NEW t \in Seq(S), NEW g, NEW h, Places(seqs, n, t, g, h)
  PROVE  /\ t \o seqs[n + 1] \in Seq(S)
         /\ \E g2, h2 : Places(seqs, n + 1, t \o seqs[n + 1], g2, h2)
<1> DEFINE s == seqs[n + 1]
           u == t \o s
           L == Len(t)
           g2 == [x \in 1..Len(u) |-> IF x <= L THEN g[x] ELSE n + 1]
           h2 == [x \in 1..Len(u) |-> IF x <= L THEN h[x] ELSE x - L]
<1>1. s \in Seq(S)
  <2>1. n + 1 \in 1..Len(seqs)
    OBVIOUS
  <2> QED
    BY <2>1
<1>2. /\ u \in Seq(S) /\ L \in Nat /\ Len(s) \in Nat /\ Len(u) = L + Len(s) /\ DOMAIN s = 1..Len(s)
      /\ \A x \in 1..L : u[x] = t[x]
      /\ \A k \in 1..Len(s) : u[L + k] = s[k]
  <2> HIDE DEF s
  <2> QED
    BY <1>1
<1> HIDE DEF u, L
<1>3. /\ g \in [1..L -> 1..n] /\ h \in [1..L -> Nat]
      /\ \A x \in 1..L : In(seqs[g[x]], t[x], h[x])
      /\ \A x, y \in 1..L : x < y => Earlier(g[x], h[x], g[y], h[y])
      /\ \A m \in 1..n : \A k \in DOMAIN seqs[m] : \E x \in 1..L : g[x] = m /\ h[x] = k
  BY DEF Places, L
<1>4. /\ \A x \in 1..L : x \in 1..Len(u) /\ g2[x] = g[x] /\ h2[x] = h[x] /\ g[x] \in 1..n /\ h[x] \in Nat
      /\ \A k \in 1..Len(s) : L + k \in 1..Len(u) /\ g2[L + k] = n + 1 /\ h2[L + k] = k
  <2>1. ASSUME NEW x \in 1..L
        PROVE  x \in 1..Len(u) /\ g2[x] = g[x] /\ h2[x] = h[x] /\ g[x] \in 1..n /\ h[x] \in Nat
    <3>1. x \in 1..Len(u) /\ x <= L
      <4> HIDE DEF s, g2, h2
      <4> QED
        BY <1>2
    <3> QED
      BY <1>3, <3>1
  <2>2. ASSUME NEW k \in 1..Len(s)
        PROVE  L + k \in 1..Len(u) /\ g2[L + k] = n + 1 /\ h2[L + k] = k
    <3> DEFINE z == L + k
    <3>1. z \in 1..Len(u) /\ ~(z <= L) /\ z - L = k
      <4> HIDE DEF s, g2, h2
      <4> QED
        BY <1>2
    <3> HIDE DEF z
    <3>2. g2[z] = n + 1 /\ h2[z] = k
      BY <3>1
    <3> HIDE DEF g2, h2, s
    <3> QED
      BY <3>1, <3>2 DEF z
  <2> HIDE DEF g2, h2, s
  <2> QED
    BY <2>1, <2>2
<1>5. DOMAIN g2 = 1..Len(u) /\ DOMAIN h2 = 1..Len(u) /\ g2 = [x \in 1..Len(u) |-> g2[x]] /\ h2 = [x \in 1..Len(u) |-> h2[x]]
  OBVIOUS
<1> HIDE DEF g2, h2
\* Each place is one of t or one of s.
<1>6. \A x \in 1..Len(u) : x \in 1..L \/ (x - L \in 1..Len(s) /\ x = L + (x - L))
  <2> HIDE DEF s
  <2> QED
    BY <1>2
<1>7. g2 \in [1..Len(u) -> 1..(n + 1)] /\ h2 \in [1..Len(u) -> Nat]
  <2>1. ASSUME NEW x \in 1..Len(u)
        PROVE  g2[x] \in 1..(n + 1) /\ h2[x] \in Nat
    <3>1. CASE x \in 1..L
      <4>1. g2[x] \in 1..n /\ h2[x] \in Nat
        BY <1>4, <3>1
      <4>2. \A i \in 1..n : i \in 1..(n + 1)
        OBVIOUS
      <4> QED
        BY <4>1, <4>2
    <3>2. CASE x - L \in 1..Len(s) /\ x = L + (x - L)
      <4> DEFINE k == x - L
      <4>1. k \in 1..Len(s) /\ x = L + k
        BY <3>2
      <4> HIDE DEF k, s
      <4> QED
        BY <1>2, <1>4, <4>1
    <3> QED
      BY <1>6, <3>1, <3>2
  <2> QED
    BY <1>5, <2>1
<1>8. ASSUME NEW x \in 1..Len(u)
      PROVE  In(seqs[g2[x]], u[x], h2[x])
  <2>1. CASE x \in 1..L
    BY <1>2, <1>3, <1>4, <2>1
  <2>2. CASE x - L \in 1..Len(s) /\ x = L + (x - L)
    <3> DEFINE k == x - L
    <3>1. k \in 1..Len(s) /\ x = L + k
      BY <2>2
    <3> HIDE DEF k
    <3>2. In(s, u[x], k) /\ g2[x] = n + 1 /\ h2[x] = k
      <4> HIDE DEF s
      <4> QED
        BY <1>2, <1>4, <3>1 DEF In
    <3> QED
      BY <3>2
  <2> QED
    BY <1>6, <2>1, <2>2
<1>9. ASSUME NEW x \in 1..Len(u), NEW y \in 1..Len(u), x < y
      PROVE  Earlier(g2[x], h2[x], g2[y], h2[y])
  <2> HIDE DEF s
  <2>1. CASE y \in 1..L
    <3>1. x \in 1..L
      BY <1>2, <1>9, <2>1
    <3> QED
      BY <1>3, <1>4, <1>9, <2>1, <3>1
  <2>2. CASE y - L \in 1..Len(s) /\ y = L + (y - L)
    <3> DEFINE j == y - L
    <3>1. j \in 1..Len(s) /\ y = L + j
      BY <2>2
    <3> HIDE DEF j
    <3>2. g2[y] = n + 1 /\ h2[y] = j
      BY <1>4, <3>1
    <3>3. CASE x \in 1..L
      <4>1. g2[x] \in 1..n
        BY <1>4, <3>3
      <4>2. \A i \in 1..n : i < n + 1
        OBVIOUS
      <4> QED
        BY <3>2, <4>1, <4>2 DEF Earlier
    <3>4. CASE x - L \in 1..Len(s) /\ x = L + (x - L)
      <4> DEFINE k == x - L
      <4>1. k \in 1..Len(s) /\ x = L + k
        BY <3>4
      <4> HIDE DEF k
      <4>2. g2[x] = n + 1 /\ h2[x] = k /\ k < j
        BY <1>2, <1>4, <1>9, <3>1, <4>1
      <4> QED
        BY <3>2, <4>2 DEF Earlier
    <3> QED
      BY <1>6, <3>3, <3>4
  <2> QED
    BY <1>6, <2>1, <2>2
<1>10. ASSUME NEW m \in 1..(n + 1), NEW k \in DOMAIN seqs[m]
       PROVE  \E x \in 1..Len(u) : g2[x] = m /\ h2[x] = k
  <2>1. CASE m = n + 1
    <3>1. k \in 1..Len(s)
      BY <1>2, <1>10, <2>1
    <3> HIDE DEF s
    <3> QED
      BY <1>4, <2>1, <3>1
  <2>2. CASE m # n + 1
    <3>1. m \in 1..n
      BY <1>10, <2>2
    <3>2. PICK x \in 1..L : g[x] = m /\ h[x] = k
      BY <1>3, <1>10, <3>1
    <3> QED
      BY <1>4, <3>2
  <2> QED
    BY <2>1, <2>2
<1>11. Places(seqs, n + 1, u, g2, h2)
  BY <1>7, <1>8, <1>9, <1>10 DEF Places
<1> QED
  BY <1>2, <1>11 DEF u

\* The elements of FlattenSeq(seqs) are those of seqs, in order.
LEMMA FlattenPlaces ==
  ASSUME NEW S, NEW seqs \in Seq(Seq(S))
  PROVE  /\ FlattenSeq(seqs) \in Seq(S)
         /\ \E g, h : Places(seqs, Len(seqs), FlattenSeq(seqs), g, h)
<1>1. CASE Len(seqs) = 0
  <2>1. seqs = <<>> /\ FlattenSeq(seqs) = <<>> /\ <<>> \in Seq(S)
    BY <1>1 DEF FlattenSeq
  <2>2. Places(seqs, 0, <<>>, <<>>, <<>>)
    BY DEF Places
  <2> QED
    BY <1>1, <2>1, <2>2
<1>2. CASE Len(seqs) # 0
  <2>1. PICK f : /\ DOMAIN f = 1..Len(seqs) /\ f[1] = seqs[1]
                 /\ \A i \in 2..Len(seqs) : f[i] = f[i - 1] \o seqs[i]
                 /\ FlattenSeq(seqs) = f[Len(seqs)]
    <3>1. Len(seqs) \in Nat \ {0}
      BY <1>2
    <3> QED
      BY <3>1, Flattening
  <2> DEFINE Q(n) == f[n] \in Seq(S) /\ \E g, h : Places(seqs, n, f[n], g, h)
             D == {n \in Nat : n \in 1..Len(seqs) => Q(n)}
  <2>2. ASSUME NEW n \in Nat, n \in D
        PROVE  n + 1 \in D
    <3> SUFFICES ASSUME n + 1 \in 1..Len(seqs) PROVE Q(n + 1)
      OBVIOUS
    <3>1. CASE n = 0
      <4>1. Places(seqs, 0, <<>>, <<>>, <<>>)
        BY DEF Places
      <4>2. <<>> \o seqs[1] = seqs[1] /\ <<>> \in Seq(S)
        BY <3>1
      <4>3. /\ <<>> \o seqs[0 + 1] \in Seq(S)
            /\ \E g2, h2 : Places(seqs, 0 + 1, <<>> \o seqs[0 + 1], g2, h2)
        <5>1. 0 + 1 <= Len(seqs) /\ 0 \in Nat
          BY <3>1
        <5> QED
          BY <4>1, <4>2, <5>1, PlacesNext
      <4> QED
        BY <2>1, <3>1, <4>2, <4>3
    <3>2. CASE n # 0
      <4>1. n \in 1..Len(seqs) /\ n + 1 \in 2..Len(seqs) /\ n + 1 - 1 = n
        BY <3>2
      <4>2. f[n + 1] = f[n] \o seqs[n + 1]
        <5> DEFINE i == n + 1
        <5>1. i \in 2..Len(seqs) /\ i - 1 = n
          BY <4>1
        <5> HIDE DEF i
        <5>2. f[i] = f[n] \o seqs[i]
          BY <2>1, <5>1
        <5> QED
          BY <5>2 DEF i
      <4>3. Q(n)
        BY <2>2, <4>1
      <4>4. PICK g, h : Places(seqs, n, f[n], g, h)
        BY <4>3
      <4>5. n + 1 <= Len(seqs) /\ f[n] \in Seq(S)
        BY <4>1, <4>3
      <4>6. /\ f[n] \o seqs[n + 1] \in Seq(S)
            /\ \E g2, h2 : Places(seqs, n + 1, f[n] \o seqs[n + 1], g2, h2)
        BY <4>4, <4>5, PlacesNext
      <4> QED
        BY <4>2, <4>6
    <3> QED
      BY <3>1, <3>2
  <2>3. Len(seqs) \in D
    <3>1. 0 \in D
      OBVIOUS
    <3> HIDE DEF D
    <3> QED
      BY <2>2, <3>1, Induct
  <2>4. Q(Len(seqs))
    <3> HIDE DEF Q
    <3> QED
      BY <1>2, <2>3
  <2> QED
    BY <2>1, <2>4
<1> QED
  BY <1>1, <1>2

\* t has those of the first n rows that Alone leaves, the x-th of them is row f[x].
Picks(rows, n, t, f) ==
  /\ f \in [1..Len(t) -> 1..n]
  /\ \A x \in 1..Len(t) : t[x] = rows[f[x]] /\ rows[f[x]] \notin shared \cup {Torn}
  /\ \A x, y \in 1..Len(t) : x < y => f[x] < f[y]
  /\ \A k \in 1..n : rows[k] \notin shared \cup {Torn} => \E x \in 1..Len(t) : f[x] = k

\* A row that is kept is behind those kept before it.
LEMMA PicksNext ==
  ASSUME NEW S, NEW rows \in Seq(S), NEW n \in Nat, n + 1 <= Len(rows),
         NEW t \in Seq(S), NEW f, Picks(rows, n, t, f), rows[n + 1] \notin shared \cup {Torn}
  PROVE  /\ Append(t, rows[n + 1]) \in Seq(S)
         /\ \E f2 : Picks(rows, n + 1, Append(t, rows[n + 1]), f2)
<1> DEFINE r == rows[n + 1]
           u == Append(t, r)
           L == Len(t)
           f2 == [x \in 1..(L + 1) |-> IF x <= L THEN f[x] ELSE n + 1]
<1>1. r \in S /\ L \in Nat
  <2>1. n + 1 \in 1..Len(rows)
    OBVIOUS
  <2> QED
    BY <2>1
<1>2. /\ u \in Seq(S) /\ Len(u) = L + 1 /\ u[L + 1] = r
      /\ \A x \in 1..L : u[x] = t[x]
  <2> HIDE DEF r
  <2> QED
    BY <1>1
<1> HIDE DEF u
<1>3. /\ f \in [1..L -> 1..n]
      /\ \A x \in 1..L : t[x] = rows[f[x]] /\ rows[f[x]] \notin shared \cup {Torn}
      /\ \A x, y \in 1..L : x < y => f[x] < f[y]
      /\ \A k \in 1..n : rows[k] \notin shared \cup {Torn} => \E x \in 1..L : f[x] = k
  BY DEF Picks
<1> HIDE DEF L
<1>4. /\ \A x \in 1..L : x \in 1..(L + 1) /\ f2[x] = f[x] /\ f[x] \in 1..n
      /\ f2[L + 1] = n + 1 /\ L + 1 \in 1..(L + 1)
      /\ \A x \in 1..(L + 1) : x \in 1..L \/ x = L + 1
  <2>1. L + 1 \in 1..(L + 1) /\ ~(L + 1 <= L) /\ \A x \in 1..(L + 1) : x \in 1..L \/ x = L + 1
    <3> HIDE DEF f2
    <3> QED
      BY <1>1
  <2>2. \A x \in 1..L : x \in 1..(L + 1) /\ x <= L
    <3> HIDE DEF f2
    <3> QED
      BY <1>1
  <2>3. f2[L + 1] = n + 1
    <3> DEFINE z == L + 1
    <3>1. z \in 1..z /\ ~(z <= L) /\ f2 = [x \in 1..z |-> IF x <= L THEN f[x] ELSE n + 1]
      BY <2>1
    <3> HIDE DEF z, f2
    <3>2. f2[z] = n + 1
      BY <3>1
    <3> QED
      BY <3>2 DEF z
  <2> QED
    BY <1>3, <2>1, <2>2, <2>3
<1>5. DOMAIN f2 = 1..(L + 1) /\ f2 = [x \in 1..(L + 1) |-> f2[x]]
  OBVIOUS
<1> HIDE DEF f2
<1>6. (\A i \in 1..n : i \in 1..(n + 1) /\ i < n + 1) /\ n + 1 \in 1..(n + 1)
  OBVIOUS
<1>7. f2 \in [1..(L + 1) -> 1..(n + 1)]
  <2>1. \A x \in 1..(L + 1) : f2[x] \in 1..(n + 1)
    BY <1>4, <1>6
  <2> QED
    BY <1>5, <2>1
<1>8. \A x \in 1..(L + 1) : u[x] = rows[f2[x]] /\ rows[f2[x]] \notin shared \cup {Torn}
  BY <1>2, <1>3, <1>4
<1>9. \A x, y \in 1..(L + 1) : x < y => f2[x] < f2[y]
  <2> SUFFICES ASSUME NEW x \in 1..(L + 1), NEW y \in 1..(L + 1), x < y PROVE f2[x] < f2[y]
    OBVIOUS
  <2>1. x \in 1..L
    BY <1>1
  <2> QED
    BY <1>3, <1>4, <1>6, <2>1
<1>10. \A k \in 1..(n + 1) : rows[k] \notin shared \cup {Torn} => \E x \in 1..(L + 1) : f2[x] = k
  <2> SUFFICES ASSUME NEW k \in 1..(n + 1), rows[k] \notin shared \cup {Torn}
               PROVE  \E x \in 1..(L + 1) : f2[x] = k
    OBVIOUS
  <2>1. CASE k = n + 1
    BY <1>4, <2>1
  <2>2. CASE k # n + 1
    <3>1. k \in 1..n
      BY <2>2
    <3> QED
      BY <1>3, <1>4, <3>1
  <2> QED
    BY <2>1, <2>2
<1>11. Picks(rows, n + 1, u, f2)
  BY <1>2, <1>7, <1>8, <1>9, <1>10 DEF Picks
<1> QED
  BY <1>2, <1>11 DEF u

\* What Alone leaves of rows, in their order.
LEMMA AlonePicks ==
  ASSUME NEW S, NEW rows \in Seq(S)
  PROVE  Alone(rows) \in Seq(S) /\ \E f : Picks(rows, Len(rows), Alone(rows), f)
<1>1. PICK a : /\ DOMAIN a = 0..Len(rows) /\ a[0] = <<>>
               /\ \A k \in 1..Len(rows) :
                    a[k] = IF rows[k] \in shared \cup {Torn} THEN a[k - 1] ELSE Append(a[k - 1], rows[k])
               /\ Alone(rows) = a[Len(rows)]
  <2>1. Len(rows) \in Nat
    OBVIOUS
  <2> QED
    BY <2>1, Leaving
<1> DEFINE Q(n) == a[n] \in Seq(S) /\ \E f : Picks(rows, n, a[n], f)
           D == {n \in Nat : n \in 0..Len(rows) => Q(n)}
<1>2. 0 \in D
  <2>1. Picks(rows, 0, <<>>, <<>>) /\ <<>> \in Seq(S)
    BY DEF Picks
  <2> QED
    BY <1>1, <2>1
<1>3. ASSUME NEW n \in Nat, n \in D
      PROVE  n + 1 \in D
  <2> SUFFICES ASSUME n + 1 \in 0..Len(rows) PROVE Q(n + 1)
    OBVIOUS
  <2>1. n \in 0..Len(rows) /\ n + 1 <= Len(rows)
    OBVIOUS
  <2>2. Q(n)
    BY <1>3, <2>1
  <2>3. PICK f : Picks(rows, n, a[n], f)
    BY <2>2
  <2>4. a[n + 1] = IF rows[n + 1] \in shared \cup {Torn} THEN a[n] ELSE Append(a[n], rows[n + 1])
    <3> DEFINE i == n + 1
    <3>1. i \in 1..Len(rows) /\ i - 1 = n
      BY <2>1
    <3> HIDE DEF i
    <3>2. a[i] = IF rows[i] \in shared \cup {Torn} THEN a[n] ELSE Append(a[n], rows[i])
      BY <1>1, <3>1
    <3> QED
      BY <3>2 DEF i
  <2>5. CASE rows[n + 1] \in shared \cup {Torn}
    <3>1. Picks(rows, n + 1, a[n], f)
      <4>1. \A k \in 1..(n + 1) : k \in 1..n \/ k = n + 1
        OBVIOUS
      <4>2. \A k \in 1..n : k \in 1..(n + 1)
        OBVIOUS
      <4>3. f \in [1..Len(a[n]) -> 1..(n + 1)]
        BY <2>3, <4>2 DEF Picks
      <4> QED
        BY Zenon, <2>3, <2>5, <4>1, <4>3 DEF Picks
    <3> QED
      BY <2>2, <2>4, <2>5, <3>1
  <2>6. CASE rows[n + 1] \notin shared \cup {Torn}
    <3>1. a[n] \in Seq(S)
      BY <2>2
    <3>2. /\ Append(a[n], rows[n + 1]) \in Seq(S)
          /\ \E f2 : Picks(rows, n + 1, Append(a[n], rows[n + 1]), f2)
      BY <2>1, <2>3, <2>6, <3>1, PicksNext
    <3> QED
      BY <2>4, <2>6, <3>2
  <2> QED
    BY <2>5, <2>6
<1>4. Len(rows) \in D
  <2> HIDE DEF D
  <2> QED
    BY <1>2, <1>3, Induct
<1> QED
  <2>1. Q(Len(rows))
    <3>1. Len(rows) \in 0..Len(rows)
      OBVIOUS
    <3> HIDE DEF Q
    <3> QED
      BY <1>4, <3>1
  <2> QED
    BY <1>1, <2>1

\* A sequence that has nothing but elements of t, each once, and with each all
\* that comes before it in t, is a prefix of t.
LEMMA PrefixOf ==
  ASSUME NEW S, NEW s \in Seq(S), NEW t \in Seq(S),
         \A i, j \in 1..Len(s) : s[i] = s[j] => i = j,
         \A i, j \in 1..Len(t) : t[i] = t[j] => i = j,
         \A i \in 1..Len(s) : \E m \in 1..Len(t) : t[m] = s[i],
         \A i \in 1..Len(s), m, l \in 1..Len(t) :
           l < m /\ t[m] = s[i] => \E h \in 1..Len(s) : h < i /\ s[h] = t[l]
  PROVE  IsPrefix(s, t)
<1> DEFINE Bad == {i \in 1..Len(s) : ~(i \in 1..Len(t) /\ s[i] = t[i])}
<1>1. CASE Bad # {}
  <2>1. PICK i \in Bad : \A j \in Bad : i <= j
    <3>1. Bad \in SUBSET Nat
      OBVIOUS
    <3> HIDE DEF Bad
    <3> QED
      BY <1>1, <3>1, Least
  <2>2. i \in 1..Len(s) /\ \A h \in 1..Len(s) : h < i => h \in 1..Len(t) /\ s[h] = t[h]
    BY <2>1
  <2>3. PICK m \in 1..Len(t) : t[m] = s[i]
    BY <2>2
  <2>4. ~(i \in 1..Len(t) /\ s[i] = t[i])
    BY <2>1
  <2> HIDE DEF Bad
  <2>5. CASE m < i
    <3>1. m \in 1..Len(s)
      BY <2>2, <2>5
    <3>2. s[m] = s[i]
      BY <2>2, <2>3, <2>5, <3>1
    <3> QED
      BY <2>2, <2>5, <3>1, <3>2
  <2>6. CASE i < m
    <3>1. i \in 1..Len(t)
      BY <2>2, <2>6
    <3>2. PICK h \in 1..Len(s) : h < i /\ s[h] = t[i]
      BY <2>2, <2>3, <2>6, <3>1
    <3>3. h \in 1..Len(t) /\ t[h] = t[i]
      BY <2>2, <3>2
    <3> QED
      BY <3>1, <3>2, <3>3
  <2>7. CASE m = i
    BY <2>3, <2>4, <2>7
  <2> QED
    <3>1. i \in Nat /\ m \in Nat
      BY <2>2
    <3> QED
      BY <2>5, <2>6, <2>7, <3>1
<1>2. CASE Bad = {}
  <2>1. \A i \in 1..Len(s) : i \in 1..Len(t) /\ s[i] = t[i]
    BY <1>2
  <2>2. Len(s) <= Len(t)
    <3>1. Len(s) \in Nat /\ Len(t) \in Nat
      OBVIOUS
    <3>2. Len(s) > 0 => Len(s) \in 1..Len(s)
      OBVIOUS
    <3> QED
      BY <2>1, <3>1, <3>2
  <2>3. SubSeq(s, 1, Len(s)) = SubSeq(t, 1, Len(s))
    BY <2>1, <2>2
  <2> QED
    BY <2>2, <2>3 DEF IsPrefix
<1> QED
  BY <1>1, <1>2

\* What is not torn and did not run alongside another is a row of Own.
LEMMA PickedOwn ==
  ASSUME NEW rows \in Seq(0..MaxStmts), NEW f, Picks(rows, Len(rows), Alone(rows), f),
         NEW x \in 1..Len(Alone(rows))
  PROVE  /\ Alone(rows)[x] \in Own /\ f[x] \in Nat /\ f[x] \in 1..Len(rows)
         /\ In(rows, Alone(rows)[x], f[x])
<1>1. f[x] \in 1..Len(rows) /\ Alone(rows)[x] = rows[f[x]] /\ rows[f[x]] \notin shared \cup {Torn}
  BY DEF Picks
<1> DEFINE e == rows[f[x]]
<1>2. e \in 0..MaxStmts /\ e # 0 /\ e \notin shared /\ f[x] \in DOMAIN rows /\ f[x] \in Nat
  <2>1. e \in 0..MaxStmts
    BY <1>1, ElementOfSeq
  <2> QED
    BY <1>1, <2>1 DEF Torn
<1> HIDE DEF e
<1>3. e \in 1..MaxStmts
  BY <1>2, StmtsAssumption
<1> QED
  BY <1>1, <1>2, <1>3 DEF e, Own, In

\* And of such a row none is left out.
LEMMA OwnPicked ==
  ASSUME NEW rows \in Seq(0..MaxStmts), NEW f, Picks(rows, Len(rows), Alone(rows), f),
         NEW r \in Own, NEW k, In(rows, r, k)
  PROVE  \E x \in 1..Len(Alone(rows)) : f[x] = k /\ Alone(rows)[x] = r
<1>1. k \in 1..Len(rows) /\ rows[k] = r
  BY DEF In
<1>2. r \notin shared \cup {Torn}
  BY DEF Own, Torn
<1> QED
  BY <1>1, <1>2 DEF Picks

\* A scan at its end has read a prefix of the rows that ran alone, and all it knew of.
LEMMA ScanSeesPrefix ==
  ASSUME QueriesInv, ScanInv, NEW p \in Procs, pc[p] = "scan", at[p] > count[p]
  PROVE  /\ IsPrefix(Alone(buf[p]), Alone(Rows))
         /\ known[p] \ shared \subseteq Range(buf[p])
<1>1. /\ TypeOK /\ OnePlace /\ Scanned(p)
      /\ buf[p] \in Seq(0..MaxStmts) /\ pages \in Seq(Seq(0..MaxStmts)) /\ at[p] = count[p] + 1 /\ count[p] \in Nat
  BY DEF QueriesInv, ScanInv, TypeOK
<1>2. known[p] \ shared \subseteq Range(buf[p])
  <2> SUFFICES ASSUME NEW r \in known[p] \ shared PROVE r \in Range(buf[p])
    OBVIOUS
  <2>1. PICK i \in Nat : In(buf[p], r, i)
    <3>1. PICK n, k \in Nat : n <= count[p] /\ (n < at[p] => \E i \in Nat : In(buf[p], r, i))
      BY <1>1 DEF Scanned
    <3> QED
      BY <1>1, <3>1
  <2> QED
    BY <2>1 DEF In, Range
<1> DEFINE b == buf[p]
           s == Alone(b)
           t == Alone(Rows)
<1>3. \A r \in Own, n, k, m, j \in Nat : Lies(r, n, k) /\ Lies(r, m, j) => n = m /\ k = j
  BY <1>1 DEF OnePlace, Copy, Lies, Own
<1>4. /\ \A r \in Own, i \in Nat : In(b, r, i) => \E n, k \in Nat : Lies(r, n, k)
      /\ \A r, q \in Own, n, k, m, j, i \in Nat :
           Lies(r, n, k) /\ Lies(q, m, j) /\ Earlier(n, k, m, j) /\ In(b, q, i) =>
             \E h \in Nat : h < i /\ In(b, r, h)
      /\ \A r \in Own, i, h \in Nat : In(b, r, i) /\ In(b, r, h) => i = h
  BY <1>1 DEF Scanned
<1>5. b \in Seq(0..MaxStmts) /\ Rows \in Seq(0..MaxStmts)
  <2> DEFINE S == 0..MaxStmts
  <2>1. pages \in Seq(Seq(S))
    BY <1>1
  <2> HIDE DEF S
  <2>2. FlattenSeq(pages) \in Seq(S)
    BY <2>1, FlattenPlaces
  <2> QED
    BY <1>1, <2>2 DEF S, Rows
<1>6. PICK g, h : Places(pages, Len(pages), Rows, g, h)
  <2> DEFINE S == 0..MaxStmts
  <2>1. pages \in Seq(Seq(S))
    BY <1>1
  <2> HIDE DEF S
  <2> QED
    BY <2>1, FlattenPlaces DEF Rows
<1> HIDE DEF b
<1>7. s \in Seq(0..MaxStmts) /\ t \in Seq(0..MaxStmts)
  <2> DEFINE S == 0..MaxStmts
  <2>1. b \in Seq(S) /\ Rows \in Seq(S)
    BY <1>5
  <2> HIDE DEF S
  <2>2. Alone(b) \in Seq(S) /\ Alone(Rows) \in Seq(S)
    BY <2>1, AlonePicks
  <2> QED
    BY <2>2 DEF S
<1>8. PICK f : Picks(b, Len(b), s, f)
  BY <1>5, AlonePicks
<1>9. PICK e : Picks(Rows, Len(Rows), t, e)
  BY <1>5, AlonePicks
\* A row of the table lies where Places has it.
<1>10. ASSUME NEW y \in 1..Len(t)
       PROVE  /\ t[y] \in Own /\ e[y] \in 1..Len(Rows) /\ g[e[y]] \in Nat /\ h[e[y]] \in Nat
              /\ Lies(t[y], g[e[y]], h[e[y]])
  <2>1. t[y] \in Own /\ e[y] \in 1..Len(Rows) /\ In(Rows, t[y], e[y])
    BY <1>5, <1>9, PickedOwn
  <2>2. g[e[y]] \in 1..Len(pages) /\ h[e[y]] \in Nat /\ In(pages[g[e[y]]], Rows[e[y]], h[e[y]])
    BY <1>6, <2>1 DEF Places
  <2>3. g[e[y]] \in DOMAIN pages /\ g[e[y]] \in Nat
    BY <1>1, <2>2
  <2> QED
    BY <2>1, <2>2, <2>3 DEF Lies, In
<1>11. ASSUME NEW y \in 1..Len(t), NEW z \in 1..Len(t), y < z
       PROVE  Earlier(g[e[y]], h[e[y]], g[e[z]], h[e[z]])
  <2>1. e[y] < e[z]
    BY <1>9, <1>11 DEF Picks
  <2> QED
    BY <1>6, <1>10, <2>1 DEF Places
<1>12. ASSUME NEW x \in 1..Len(s)
       PROVE  s[x] \in Own /\ f[x] \in Nat /\ In(b, s[x], f[x])
  BY <1>5, <1>8, PickedOwn
<1>13. /\ \A r \in Own, k \in Nat : In(b, r, k) => \E x \in 1..Len(s) : f[x] = k /\ s[x] = r
       /\ \A r \in Own, k \in Nat : In(Rows, r, k) => \E x \in 1..Len(t) : e[x] = k /\ t[x] = r
  BY <1>5, <1>8, <1>9, OwnPicked
<1>14. \A i, j \in 1..Len(s) : s[i] = s[j] => i = j
  <2> SUFFICES ASSUME NEW i \in 1..Len(s), NEW j \in 1..Len(s), s[i] = s[j] PROVE i = j
    OBVIOUS
  <2>1. f[i] = f[j] /\ f[i] \in Nat
    BY <1>4, <1>12
  <2>2. i < j => f[i] < f[j]
    BY <1>8 DEF Picks
  <2>3. j < i => f[j] < f[i]
    BY <1>8 DEF Picks
  <2>4. i \in Nat /\ j \in Nat
    OBVIOUS
  <2> QED
    BY <2>1, <2>2, <2>3, <2>4
<1>15. \A i, j \in 1..Len(t) : t[i] = t[j] => i = j
  <2> SUFFICES ASSUME NEW i \in 1..Len(t), NEW j \in 1..Len(t), t[i] = t[j] PROVE i = j
    OBVIOUS
  <2>1. g[e[i]] = g[e[j]] /\ h[e[i]] = h[e[j]] /\ g[e[i]] \in Nat /\ h[e[i]] \in Nat
    BY <1>3, <1>10
  <2>2. ~Earlier(g[e[i]], h[e[i]], g[e[j]], h[e[j]]) /\ ~Earlier(g[e[j]], h[e[j]], g[e[i]], h[e[i]])
    BY <2>1 DEF Earlier
  <2>3. ~(i < j) /\ ~(j < i)
    BY <1>11, <2>2
  <2>4. i \in Nat /\ j \in Nat
    OBVIOUS
  <2> QED
    BY <2>3, <2>4
<1>16. \A i \in 1..Len(s) : \E m \in 1..Len(t) : t[m] = s[i]
  <2> SUFFICES ASSUME NEW i \in 1..Len(s) PROVE \E m \in 1..Len(t) : t[m] = s[i]
    OBVIOUS
  <2>1. PICK n, k \in Nat : Lies(s[i], n, k)
    BY <1>4, <1>12
  <2>2. n \in 1..Len(pages) /\ k \in DOMAIN pages[n] /\ pages[n][k] = s[i]
    BY <1>1, <2>1 DEF Lies, In
  <2>3. PICK x \in 1..Len(Rows) : g[x] = n /\ h[x] = k
    BY <1>6, <2>2 DEF Places
  <2>4. Rows[x] = s[i] /\ x \in DOMAIN Rows
    BY <1>5, <1>6, <2>2, <2>3 DEF Places, In
  <2>5. In(Rows, s[i], x) /\ x \in Nat
    BY <2>4 DEF In
  <2> QED
    BY <1>12, <1>13, <2>5
<1>17. \A i \in 1..Len(s), m, l \in 1..Len(t) :
         l < m /\ t[m] = s[i] => \E x \in 1..Len(s) : x < i /\ s[x] = t[l]
  <2> SUFFICES ASSUME NEW i \in 1..Len(s), NEW m \in 1..Len(t), NEW l \in 1..Len(t), l < m, t[m] = s[i]
               PROVE  \E x \in 1..Len(s) : x < i /\ s[x] = t[l]
    OBVIOUS
  <2>1. In(b, t[m], f[i]) /\ f[i] \in Nat
    BY <1>12
  <2>2. PICK k \in Nat : k < f[i] /\ In(b, t[l], k)
    <3>1. Earlier(g[e[l]], h[e[l]], g[e[m]], h[e[m]])
      BY <1>11
    <3> QED
      BY <1>4, <1>10, <2>1, <3>1
  <2>3. PICK x \in 1..Len(s) : f[x] = k /\ s[x] = t[l]
    BY <1>10, <1>13, <2>2
  <2>4. ~(i < x) /\ i # x
    <3>1. i < x => f[i] < f[x]
      BY <1>8 DEF Picks
    <3> QED
      BY <2>1, <2>2, <2>3, <3>1
  <2>5. i \in Nat /\ x \in Nat
    OBVIOUS
  <2> QED
    BY <2>3, <2>4, <2>5
<1>18. IsPrefix(s, t)
  <2> HIDE DEF s, t
  <2> QED
    BY <1>7, <1>14, <1>15, <1>16, <1>17, PrefixOf
<1> QED
  BY <1>2, <1>18 DEF b

\* So the scans are in step in every state.
LEMMA ScanInvariant == Spec => []ScanInv
  BY InitScans, NextScans, Invariant, PTL DEF Spec

\* Of the rows whose INSERTs ran alone, a SELECT that runs alongside any
\* statements, deaths and all, prints a prefix of what the table then holds, with
\* every one acknowledged before it started (SeqScan over Table::scan).
THEOREM SelectsSeeAPrefix == Spec => []SelectsSeePrefix
<1>1. QueriesInv /\ ScanInv => SelectsSeePrefix
  BY ScanSeesPrefix DEF SelectsSeePrefix
<1> QED
  BY <1>1, Invariant, ScanInvariant, PTL
=============================================================================
