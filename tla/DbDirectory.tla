----------------------------- MODULE DbDirectory -----------------------------
(***************************************************************************)
(* The directory of a database: `db-cli init` makes it and writes the      *)
(* header file, `open` reads the header, CREATE TABLE makes the directory  *)
(* if it is missing (cli/mod.rs, catalog/mod.rs, storage/mod.rs, execute   *)
(* in query/exec.rs).  Several processes run such commands; every access   *)
(* to the file system is a step, and between any two a process may die or  *)
(* an access fail, which leave the same files behind.                      *)
(***************************************************************************)
EXTENDS Integers, Sequences, SequencesExt

CONSTANTS
  Procs,        \* processes at work at the same time
  Args,         \* values of --db: None, or records of absolute and comps
  Base, Cwds,   \* where the binary is; where it may be called from
  Fields,       \* what may stand in a field of the header file
  Contents,     \* the data files that may be there before: None or fields
  None,
  MaxCmds,      \* bound: commands run
  MaxFaults     \* bound: processes that die or fail

ASSUME CwdsAssumption == Cwds # {}

ASSUME NoneAssumption == None \notin Seq(Fields) /\ None \notin {"ok", "failed"}

ASSUME ContentsAssumption == Contents \subseteq Seq(Fields) \cup {None}

VARIABLES
  dirs,         \* the directories there are
  data,         \* data[d]: skipper.dat in d, the fields written so far, or None
  tables,       \* the directories that hold the table
  pc,           \* pc[p]: the access p is about to make, "idle" between commands
  cmd, db,      \* the command of p and the directory it is about
  got,          \* got[p]: the fields that p has read
  result,       \* result[p]: "ok" or "failed", None while there is none
  inited,       \* history: the directories whose init reported success
  known,        \* history: known[p] is inited when p's command started
  cmds, faults

disk == <<dirs, data, tables>>
proc == <<pc, cmd, db, got, result, known>>
vars == <<disk, proc, inited, cmds, faults>>

\* Magic, version, page size and padding, each a write of its own.
Header == <<"SKPRDB", "1", "4096", "padding">>

ASSUME FieldsAssumption == {"SKPRDB", "1", "4096", "padding"} \subseteq Fields
-----------------------------------------------------------------------------
\* The parent of a path of one component is the empty path, also if a separator
\* follows it.
IsBareName(a) == ~a.absolute /\ Len(a.comps) = 1

At(root, comps) == root \o SelectSeq(comps, LAMBDA c : c # ".")

AsGiven(a, from) == IF a.absolute THEN a.comps ELSE At(from, a.comps)

ResolveDb(a, from) ==
  IF a = None THEN Base \o <<"db">>
  ELSE IF IsBareName(a) THEN At(Base, a.comps)
  ELSE AsGiven(a, from)

Places == {ResolveDb(a, c) : a \in Args \cup {None}, c \in Cwds}
-----------------------------------------------------------------------------
Init ==
  /\ dirs \in SUBSET Places
  /\ data \in [Places -> Contents] /\ \A d \in Places : data[d] # None => d \in dirs
  /\ tables = {}
  /\ pc = [p \in Procs |-> "idle"] /\ cmd = [p \in Procs |-> "open"]
  /\ db = [p \in Procs |-> ResolveDb(None, Base)]
  /\ got = [p \in Procs |-> <<>>] /\ result = [p \in Procs |-> None]
  /\ inited = {} /\ known = [p \in Procs |-> {}]
  /\ cmds = 0 /\ faults = 0

Goto(p, l) == pc' = [pc EXCEPT ![p] = l] /\ UNCHANGED <<cmd, db, result, known>>

Exit(p, outcome) ==
  /\ pc' = [pc EXCEPT ![p] = "idle"]
  /\ result' = [result EXCEPT ![p] = outcome]
  /\ UNCHANGED <<cmd, db, known>>

Start(p, c, a, from) ==
  /\ pc[p] = "idle" /\ cmds < MaxCmds
  /\ pc' = [pc EXCEPT ![p] = CASE c = "init" -> "make" [] c = "open" -> "find" [] c = "create" -> "all"]
  /\ cmd' = [cmd EXCEPT ![p] = c]
  /\ db' = [db EXCEPT ![p] = ResolveDb(a, from)]
  /\ got' = [got EXCEPT ![p] = <<>>] /\ result' = [result EXCEPT ![p] = None]
  /\ known' = [known EXCEPT ![p] = inited]
  /\ cmds' = cmds + 1
  /\ UNCHANGED <<disk, inited, faults>>

\* Mutant: create_dir_all, as CREATE TABLE has it.
MakeDirAll(p) ==
  /\ pc[p] = "make"
  /\ dirs' = dirs \cup {db[p]} /\ Goto(p, "file")
  /\ UNCHANGED <<data, tables, got, inited, cmds, faults>>

\* create_dir fails on what exists; the parent is there.
MakeDir(p) ==
  /\ pc[p] = "make"
  /\ IF db[p] \in dirs THEN Exit(p, "failed") /\ UNCHANGED dirs
     ELSE dirs' = dirs \cup {db[p]} /\ Goto(p, "file")
  /\ UNCHANGED <<data, tables, got, inited, cmds, faults>>

CreateData(p) ==
  /\ pc[p] = "file"
  /\ IF data[db[p]] # None THEN Exit(p, "failed") /\ UNCHANGED data
     ELSE data' = [data EXCEPT ![db[p]] = <<>>] /\ Goto(p, "write")
  /\ UNCHANGED <<dirs, tables, got, inited, cmds, faults>>

\* Mutant: success is reported before the page size is written.
WriteFieldEager(p) ==
  LET n == Len(data[db[p]])
  IN  /\ pc[p] = "write"
      /\ data' = [data EXCEPT ![db[p]] = Append(@, Header[n + 1])]
      /\ IF n < 1 THEN Goto(p, "write") /\ UNCHANGED inited
         ELSE Exit(p, "ok") /\ inited' = inited \cup {db[p]}
      /\ UNCHANGED <<dirs, tables, got, cmds, faults>>

\* Mutant: the file is created anew for each field.
WriteFieldAnew(p) ==
  LET n == Len(data[db[p]])
  IN  /\ pc[p] = "write"
      /\ IF n < Len(Header)
         THEN /\ data' = [data EXCEPT ![db[p]] = <<Header[n + 1]>>]
              /\ Goto(p, "write") /\ UNCHANGED inited
         ELSE Exit(p, "ok") /\ inited' = inited \cup {db[p]} /\ UNCHANGED data
      /\ UNCHANGED <<dirs, tables, got, cmds, faults>>

WriteField(p) ==
  LET n == Len(data[db[p]])
  IN  /\ pc[p] = "write"
      /\ IF n < Len(Header)
         THEN /\ data' = [data EXCEPT ![db[p]] = Append(@, Header[n + 1])]
              /\ Goto(p, "write") /\ UNCHANGED inited
         ELSE Exit(p, "ok") /\ inited' = inited \cup {db[p]} /\ UNCHANGED data
      /\ UNCHANGED <<dirs, tables, got, cmds, faults>>

OpenData(p) ==
  /\ pc[p] = "find"
  /\ IF data[db[p]] = None THEN Exit(p, "failed") ELSE Goto(p, "read")
  /\ UNCHANGED <<disk, got, inited, cmds, faults>>

\* Mutant: read instead of read_exact, which leaves a field at zero.
ReadFieldShort(p) ==
  LET n == Len(got[p]) + 1
  IN  /\ pc[p] = "read" /\ n <= 3
      /\ got' = [got EXCEPT ![p] = Append(@, IF n <= Len(data[db[p]]) THEN data[db[p]][n] ELSE "0")]
      /\ Goto(p, "read")
      /\ UNCHANGED <<disk, inited, cmds, faults>>

\* Mutant: one field too many.
ReadFieldMore(p) ==
  LET n == Len(got[p]) + 1
  IN  /\ pc[p] = "read" /\ n <= 4
      /\ IF n > Len(data[db[p]]) THEN Exit(p, "failed") /\ UNCHANGED got
         ELSE got' = [got EXCEPT ![p] = Append(@, data[db[p]][n])] /\ Goto(p, "read")
      /\ UNCHANGED <<disk, inited, cmds, faults>>

\* read_exact fails where the file ends.
ReadField(p) ==
  LET n == Len(got[p]) + 1
  IN  /\ pc[p] = "read" /\ n <= 3
      /\ IF n > Len(data[db[p]]) THEN Exit(p, "failed") /\ UNCHANGED got
         ELSE got' = [got EXCEPT ![p] = Append(@, data[db[p]][n])] /\ Goto(p, "read")
      /\ UNCHANGED <<disk, inited, cmds, faults>>

\* The page size is read and not looked at.
CheckHeader(p) ==
  /\ pc[p] = "read" /\ Len(got[p]) = 3
  /\ Exit(p, IF got[p][1] = Header[1] /\ got[p][2] = Header[2] THEN "ok" ELSE "failed")
  /\ UNCHANGED <<disk, got, inited, cmds, faults>>

MakeDirs(p) ==
  /\ pc[p] = "all"
  /\ dirs' = dirs \cup {db[p]} /\ Goto(p, "table")
  /\ UNCHANGED <<data, tables, got, inited, cmds, faults>>

\* What becomes of the table file is the subject of Queries.
CreateTable(p) ==
  /\ pc[p] = "table"
  /\ Exit(p, IF db[p] \in tables THEN "failed" ELSE "ok")
  /\ tables' = tables \cup {db[p]}
  /\ UNCHANGED <<dirs, data, got, inited, cmds, faults>>

Fail(p) ==
  /\ pc[p] # "idle" /\ faults < MaxFaults
  /\ faults' = faults + 1
  /\ Exit(p, None)
  /\ UNCHANGED <<disk, got, inited, cmds>>

Step(p) ==
  \/ MakeDir(p) \/ CreateData(p) \/ WriteField(p)
  \/ OpenData(p) \/ ReadField(p) \/ CheckHeader(p)
  \/ MakeDirs(p) \/ CreateTable(p)

Next ==
  \E p \in Procs :
    \/ \E c \in {"init", "open", "create"}, a \in Args, from \in Cwds : Start(p, c, a, from)
    \/ Step(p)
    \/ Fail(p)

Spec == Init /\ [][Next]_vars
-----------------------------------------------------------------------------
TypeOK ==
  /\ dirs \subseteq Places /\ tables \subseteq dirs /\ inited \subseteq dirs
  /\ data \in [Places -> Seq(Fields) \cup {None}]
  /\ \A p \in Procs :
       /\ pc[p] \in {"idle", "make", "file", "write", "find", "read", "all", "table"}
       /\ result[p] \in {"ok", "failed", None} /\ db[p] \in Places
       /\ Len(got[p]) <= 3

Writing(p) == pc[p] \in {"file", "write"}

\* However many inits of a directory race, alone or with CREATE TABLE, under
\* whatever names for it, one at most gets to write there, and none once an
\* init of it has reported success.
OneInit ==
  \A p \in Procs : Writing(p) =>
    /\ db[p] \notin inited
    /\ \A q \in Procs : Writing(q) /\ db[q] = db[p] => q = p

\* A directory whose init reported success opens, whatever else runs or dies.
AckedOpens ==
  \A p \in Procs :
    cmd[p] = "open" /\ result[p] = "failed" => db[p] \notin known[p]

\* open reports success only for a file that has the magic, the version and a
\* page size, though it may read while an init writes, or after one died.
OpenHonest ==
  \A p \in Procs :
    cmd[p] = "open" /\ result[p] = "ok" =>
      data[db[p]] # None /\ Len(data[db[p]]) >= 3 /\ \A k \in 1..2 : data[db[p]][k] = Header[k]

\* A header file is only ever added to, and what stood in it before the first
\* command ran stays as it was; no command takes a directory or table away.
NothingLost ==
  [][/\ dirs \subseteq dirs' /\ tables \subseteq tables'
     /\ \A d \in Places :
          data[d] # None => /\ IsPrefix(data[d], data'[d])
                            /\ data[d] # data'[d] => \E p \in Procs : pc[p] = "write" /\ db[p] = d]_vars
=============================================================================
