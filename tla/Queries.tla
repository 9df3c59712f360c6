------------------------------- MODULE Queries -------------------------------
(***************************************************************************)
(* Several `db-cli query` processes on one table of one database directory *)
(* (src/cli/mod.rs, src/query/mod.rs, src/query/exec.rs).  Each runs one   *)
(* statement, plans it against the table's schema and executes it on the   *)
(* files through Table.  Nothing locks a file: an INSERT reads the last    *)
(* page, adds its row and writes the page back, and each of these accesses *)
(* is a step of its own here.  A process may die between any two.  Written *)
(* pages are in the cache of the operating system until a process syncs    *)
(* the file; when the power fails before, any part of them may be on disk. *)
(***************************************************************************)
EXTENDS Integers, Sequences, SequencesExt

CONSTANTS
  Procs,        \* numbers of the processes at work at the same time
  PageRows,     \* bound: rows of a page
  MaxStmts,     \* bound: statements run
  MaxFaults     \* bound: processes that die, and power failures

\* A row that does not fit on a page of its own is refused before it is written.
ASSUME PageAssumption == PageRows \in Nat \ {0}

ASSUME StmtsAssumption == MaxStmts \in Nat

VARIABLES
  tbl,          \* the .tbl file: "absent", "empty" (no metadata yet) or "ready"
  pages,        \* its data pages, each a sequence of rows; <<>> is a page of zeros
  stable,       \* tbl and pages as they were when the file was last synced
  pc,           \* pc[p]: where p's statement is, "idle" before it starts
  stmt,         \* stmt[p]: "create", "insert" or "select"
  row,          \* row[p]: the row p inserts, rows are numbered
  count,        \* count[p]: the number of data pages p saw
  buf,          \* buf[p]: the last page as p read it, or the rows p has scanned
  at,           \* at[p]: the page p's scan reads next
  acked,        \* history: rows whose INSERT reported success
  known,        \* history: known[p] are the rows acked when p's SELECT started
  shared,       \* history: rows whose INSERT ran alongside another INSERT
  created,      \* history: CREATE TABLEs that reported success
  stmts, faults

disk == <<tbl, pages, stable>>
proc == <<pc, stmt, row, count, buf, at, known>>
history == <<acked, shared, created>>
vars == <<disk, proc, history, stmts, faults>>

Stored == UNION {Range(pages[n]) : n \in DOMAIN pages}

\* The rows in the order of a scan.
Rows == FlattenSeq(pages)

\* Rows are numbered from 1.  A torn row is read as no row, as another or as an
\* error.
Torn == 0
-----------------------------------------------------------------------------
Init ==
  /\ tbl = "absent" /\ pages = <<>> /\ stable = [tbl |-> tbl, pages |-> pages]
  /\ pc = [p \in Procs |-> "idle"] /\ stmt = [p \in Procs |-> "select"]
  /\ row = [p \in Procs |-> 0] /\ count = [p \in Procs |-> 0]
  /\ buf = [p \in Procs |-> <<>>] /\ at = [p \in Procs |-> 1]
  /\ known = [p \in Procs |-> {}]
  /\ acked = {} /\ shared = {} /\ created = 0 /\ stmts = 0 /\ faults = 0

Goto(p, l) == pc' = [pc EXCEPT ![p] = l]

\* The process ends; its name is free for the next one.
Exit(p) ==
  /\ Goto(p, "idle")
  /\ stmt' = [stmt EXCEPT ![p] = "select"]
  /\ row' = [row EXCEPT ![p] = 0] /\ count' = [count EXCEPT ![p] = 0]
  /\ buf' = [buf EXCEPT ![p] = <<>>] /\ at' = [at EXCEPT ![p] = 1]
  /\ known' = [known EXCEPT ![p] = {}]

Writers == {p \in Procs : pc[p] # "idle" /\ stmt[p] = "insert"}

\* A CREATE TABLE is planned without looking at the catalog.  Processes are
\* alike: the first free one starts.
Start(p, s) ==
  /\ pc[p] = "idle" /\ \A q \in Procs : pc[q] = "idle" => p <= q
  /\ stmts < MaxStmts
  /\ stmts' = stmts + 1
  /\ stmt' = [stmt EXCEPT ![p] = s]
  /\ row' = [row EXCEPT ![p] = IF s = "insert" THEN stmts + 1 ELSE 0]
  /\ known' = [known EXCEPT ![p] = IF s = "select" THEN acked ELSE {}]
  /\ shared' = IF s = "insert" /\ Writers # {}
               THEN shared \cup {stmts + 1} \cup {row[q] : q \in Writers} ELSE shared
  /\ Goto(p, IF s = "create" THEN "create" ELSE "plan")
  /\ UNCHANGED <<disk, count, buf, at, acked, created, faults>>

\* Mutant: a file without metadata is taken for nobody's.
CreateFileOverEmpty(p) ==
  /\ pc[p] = "create"
  /\ IF tbl # "ready"
     THEN tbl' = "empty" /\ Goto(p, "meta") /\ UNCHANGED <<stmt, row, count, buf, at, known>>
     ELSE Exit(p) /\ UNCHANGED tbl
  /\ UNCHANGED <<pages, stable, history, stmts, faults>>

\* Mutant: a file without metadata is waited for.
CreateFileWaits(p) ==
  /\ pc[p] = "create" /\ tbl # "empty"
  /\ IF tbl = "absent"
     THEN tbl' = "empty" /\ Goto(p, "meta") /\ UNCHANGED <<stmt, row, count, buf, at, known>>
     ELSE Exit(p) /\ UNCHANGED tbl
  /\ UNCHANGED <<pages, stable, history, stmts, faults>>

\* Table::create: create_new fails on a file that exists, whatever is in it.
CreateFile(p) ==
  /\ pc[p] = "create"
  /\ IF tbl = "absent"
     THEN tbl' = "empty" /\ Goto(p, "meta") /\ UNCHANGED <<stmt, row, count, buf, at, known>>
     ELSE Exit(p) /\ UNCHANGED tbl
  /\ UNCHANGED <<pages, stable, history, stmts, faults>>

CreateMeta(p) ==
  /\ pc[p] = "meta"
  /\ tbl' = "ready" /\ Goto(p, "sync")
  /\ UNCHANGED <<pages, stable, stmt, row, count, buf, at, known, history, stmts, faults>>

\* DirCatalog::schema opens the table; any error is an unknown table.
Plan(p) ==
  /\ pc[p] = "plan"
  /\ IF tbl = "ready"
     THEN Goto(p, "open") /\ UNCHANGED <<stmt, row, count, buf, at, known>>
     ELSE Exit(p)
  /\ UNCHANGED <<disk, history, stmts, faults>>

\* The table is opened again and page_count read off the file's length, once.
Open(p) ==
  /\ pc[p] = "open"
  /\ count' = [count EXCEPT ![p] = Len(pages)]
  /\ Goto(p, IF stmt[p] = "select" THEN "scan" ELSE IF pages = <<>> THEN "write" ELSE "read")
  /\ UNCHANGED <<disk, stmt, row, buf, at, known, history, stmts, faults>>

ReadLast(p) ==
  /\ pc[p] = "read"
  /\ buf' = [buf EXCEPT ![p] = pages[count[p]]]
  /\ Goto(p, "write")
  /\ UNCHANGED <<disk, stmt, row, count, at, known, history, stmts, faults>>

\* Mutant: the file is open for appending.
WritePageAppends(p, n, content) ==
  /\ pages' = Append(pages, content)
  /\ Goto(p, "sync")
  /\ UNCHANGED <<tbl, stable, stmt, row, count, buf, at, known, history, stmts, faults>>

\* write_page writes the whole page, at the end of the file or over what is there.
WritePage(p, n, content) ==
  /\ pages' = IF n > Len(pages) THEN Append(pages, content) ELSE [pages EXCEPT ![n] = content]
  /\ Goto(p, "sync")
  /\ UNCHANGED <<tbl, stable, stmt, row, count, buf, at, known, history, stmts, faults>>

\* Mutant: the room check is off by one.
InsertLastOverfills(p) ==
  /\ pc[p] = "write" /\ buf[p] # <<>> /\ Len(buf[p]) <= PageRows
  /\ WritePage(p, count[p], Append(buf[p], row[p]))

\* insert_record: the row goes on the last page if it fits, else on a new one.
InsertLast(p) ==
  /\ pc[p] = "write" /\ buf[p] # <<>> /\ Len(buf[p]) < PageRows
  /\ WritePage(p, count[p], Append(buf[p], row[p]))

InsertNew(p) ==
  /\ pc[p] = "write" /\ (count[p] = 0 \/ buf[p] # <<>>)
  /\ WritePage(p, count[p] + 1, <<row[p]>>)

\* The last page is one of zeros, and so is its free pointer, from which
\* free_space subtracts the end of the directory: the process panics.
InsertPanics(p) ==
  /\ pc[p] = "write" /\ count[p] > 0 /\ buf[p] = <<>>
  /\ Exit(p)
  /\ UNCHANGED <<disk, history, stmts, faults>>

\* Mutant: success is reported without a sync.
SyncSkipped(p) ==
  /\ pc[p] = "sync"
  /\ Goto(p, "synced")
  /\ UNCHANGED <<disk, stmt, row, count, buf, at, known, history, stmts, faults>>

\* sync_all writes back all of the file, whoever wrote it.
Sync(p) ==
  /\ pc[p] = "sync"
  /\ stable' = [tbl |-> tbl, pages |-> pages]
  /\ Goto(p, "synced")
  /\ UNCHANGED <<tbl, pages, stmt, row, count, buf, at, known, history, stmts, faults>>

Report(p) ==
  /\ pc[p] = "synced"
  /\ IF stmt[p] = "create" THEN created' = created + 1 /\ UNCHANGED acked
     ELSE acked' = acked \cup {row[p]} /\ UNCHANGED created
  /\ Exit(p)
  /\ UNCHANGED <<disk, shared, stmts, faults>>

\* Mutant: the scan steps over every other page.
ScanPageSkips(p) ==
  /\ pc[p] = "scan" /\ at[p] <= count[p]
  /\ buf' = [buf EXCEPT ![p] = @ \o pages[at[p]]]
  /\ at' = [at EXCEPT ![p] = @ + 2]
  /\ UNCHANGED <<disk, pc, stmt, row, count, known, history, stmts, faults>>

\* read_table collects the whole scan, page by page, before a row is printed.
ScanPage(p) ==
  /\ pc[p] = "scan" /\ at[p] <= count[p]
  /\ buf' = [buf EXCEPT ![p] = @ \o pages[at[p]]]
  /\ at' = [at EXCEPT ![p] = @ + 1]
  /\ UNCHANGED <<disk, pc, stmt, row, count, known, history, stmts, faults>>

\* A torn row that cannot be decoded ends the SELECT.
ScanFails(p) ==
  /\ pc[p] = "scan" /\ Torn \in Range(buf[p])
  /\ Exit(p)
  /\ UNCHANGED <<disk, history, stmts, faults>>

PrintResult(p) ==
  /\ pc[p] = "scan" /\ at[p] > count[p]
  /\ Exit(p)
  /\ UNCHANGED <<disk, history, stmts, faults>>

Crash(p) ==
  /\ pc[p] # "idle" /\ faults < MaxFaults
  /\ faults' = faults + 1
  /\ Exit(p)
  /\ UNCHANGED <<disk, history, stmts>>

\* The sequences that take their n-th element from the n-th set.
OneOfEach(sets) ==
  {s \in [DOMAIN sets -> UNION Range(sets)] : \A n \in DOMAIN sets : s[n] \in sets[n]}

\* What may be left of a page that was `old` when the file was synced and is
\* `new` in the cache, as any of its blocks may have been written back: a row
\* is torn unless both have it or all of it was.
TornPage(old, new) ==
  LET versions(k) == {page[k] : page \in {v \in {old, new} : k <= Len(v)}}
      same(k) == k <= Len(old) /\ k <= Len(new) /\ old[k] = new[k]
      left(k) == IF same(k) THEN {old[k]} ELSE versions(k) \cup {Torn}
  IN  UNION {OneOfEach([k \in 1..n |-> left(k)]) :
               n \in Len(old)..Len(new) \cup Len(new)..Len(old)}

StablePage(n) == IF n <= Len(stable.pages) THEN stable.pages[n] ELSE <<>>

\* The metadata was synced, or anything between what was and what is cached is
\* left of it.  A file without metadata is not read again.
TornMeta ==
  {stable.tbl, tbl} \cup IF stable.tbl = "absent" /\ tbl = "ready" THEN {"empty"} ELSE {}

PowerFailure ==
  /\ faults < MaxFaults
  /\ faults' = faults + 1
  /\ tbl' \in TornMeta
  /\ IF tbl' # "ready" THEN pages' = <<>>
     ELSE pages' \in UNION {OneOfEach([n \in 1..m |-> TornPage(StablePage(n), pages[n])]) :
                               m \in Len(stable.pages)..Len(pages)}
  /\ stable' = [tbl |-> tbl', pages |-> pages']
  /\ pc' = [p \in Procs |-> "idle"] /\ stmt' = [p \in Procs |-> "select"]
  /\ row' = [p \in Procs |-> 0] /\ count' = [p \in Procs |-> 0]
  /\ buf' = [p \in Procs |-> <<>>] /\ at' = [p \in Procs |-> 1]
  /\ known' = [p \in Procs |-> {}]
  /\ UNCHANGED <<history, stmts>>

Step(p) ==
  \/ CreateFile(p) \/ CreateMeta(p) \/ Plan(p) \/ Open(p) \/ ReadLast(p)
  \/ InsertLast(p) \/ InsertNew(p) \/ InsertPanics(p) \/ Sync(p) \/ Report(p)
  \/ ScanPage(p) \/ ScanFails(p) \/ PrintResult(p)

Next ==
  \/ \E p \in Procs :
       \/ \E s \in {"create", "insert", "select"} : Start(p, s)
       \/ Step(p)
       \/ Crash(p)
  \/ PowerFailure

Spec == Init /\ [][Next]_vars

\* Each process that runs is scheduled, and its system calls return.
FairSpec == Spec /\ \A p \in Procs : WF_vars(Step(p))
-----------------------------------------------------------------------------
Labels == {"idle", "create", "meta", "plan", "open", "read", "write", "sync", "synced", "scan"}

TypeOK ==
  /\ tbl \in {"absent", "empty", "ready"}
  /\ pages \in Seq(Seq(0..MaxStmts)) /\ \A n \in DOMAIN pages : Len(pages[n]) \in 0..PageRows
  /\ stable \in [tbl : {"absent", "empty", "ready"}, pages : Seq(Seq(0..MaxStmts))]
  /\ Len(stable.pages) <= Len(pages) /\ \A n \in DOMAIN stable.pages : Len(stable.pages[n]) \in 0..PageRows
  /\ pc \in [Procs -> Labels] /\ stmt \in [Procs -> {"create", "insert", "select"}]
  /\ row \in [Procs -> 0..MaxStmts] /\ buf \in [Procs -> Seq(0..MaxStmts)]
  /\ count \in [Procs -> 0..Len(pages)]
  /\ at \in [Procs -> 1..(Len(pages) + 1)] /\ \A p \in Procs : at[p] <= count[p] + 1

\* However many CREATE TABLEs race, at most one reports success, and a table
\* whose CREATE or one of whose INSERTs has reported success opens ever after,
\* though processes die and the power fails.
OneCreator ==
  /\ created <= 1
  /\ acked # {} \/ created = 1 => tbl = "ready"

\* "CREATE TABLE and INSERT go straight to storage, so data persists across
\* runs" (README.md): a row whose INSERT reported success is in the table.
AckedPersist == acked \subseteq Stored

\* A row whose INSERT reported success stays, through power failures and among
\* torn pages too, unless that INSERT ran alongside another one.
AckedAlonePersist == acked \ shared \subseteq Stored

\* However writers interleave, the table holds rows that some INSERT wrote, each
\* of them once: a lost row is the worst that a race can do.
NoDuplicates ==
  \A n, m \in DOMAIN pages : \A k \in DOMAIN pages[n], j \in DOMAIN pages[m] :
    pages[n][k] = pages[m][j] /\ pages[n][k] # Torn => n = m /\ k = j

\* SelectSeq, which the prover knows nothing of, as it is defined.
Alone(rows) ==
  LET alone[k \in 0..Len(rows)] ==
        IF k = 0 THEN <<>>
        ELSE IF rows[k] \in shared \cup {Torn} THEN alone[k - 1]
        ELSE Append(alone[k - 1], rows[k])
  IN  alone[Len(rows)]

\* Of the rows of the INSERTs that ran alone, a SELECT that runs alongside any
\* statements sees a prefix, with all those acknowledged before it started.
SelectsSeePrefix ==
  \A p \in Procs :
    pc[p] = "scan" /\ at[p] > count[p] =>
      IsPrefix(Alone(buf[p]), Alone(Rows)) /\ known[p] \ shared \subseteq Range(buf[p])

\* No statement waits for another process, dead or alive.
QueriesFinish == \A p \in Procs : pc[p] # "idle" ~> pc[p] = "idle"
=============================================================================
