------------------------- MODULE DbDirectoryProofs -------------------------
(***************************************************************************)
(* What holds of the directories of databases for any number of processes, *)
(* commands and faults.                                                    *)
(***************************************************************************)
EXTENDS DbDirectory, TLAPS

\* d holds the first n fields of a header, and nothing else.
Written(d, n) ==
  /\ data[d] \in Seq(Fields) /\ Len(data[d]) = n
  /\ \A k \in 1..n : data[d][k] = Header[k]

\* What there is on the disk, and what a process has at hand.
Files ==
  /\ dirs \subseteq Places /\ tables \subseteq dirs /\ inited \subseteq dirs
  /\ data \in [Places -> Seq(Fields) \cup {None}]

Processes ==
  /\ cmd \in [Procs -> {"init", "open", "create"}]
  /\ pc \in [Procs -> {"idle", "make", "file", "write", "find", "read", "all", "table"}]
  /\ db \in [Procs -> Places]
  /\ got \in [Procs -> Seq(Fields)] /\ \A p \in Procs : Len(got[p]) <= 3
  /\ result \in [Procs -> {"ok", "failed", None}]
  /\ known \in [Procs -> SUBSET inited]

\* A process that is past find and read is not there to open.
Errands ==
  \A p \in Procs : pc[p] \in {"make", "file", "write", "all", "table"} => cmd[p] # "open"

\* A process that goes on after create_dir or create_dir_all has a directory.
Housed == \A p \in Procs : pc[p] \in {"file", "write", "table"} => db[p] \in dirs

\* A header that is being written is a prefix of one, and a finished one whole.
HeadersSoFar ==
  /\ \A p \in Procs : pc[p] = "write" => \E n \in 0..4 : Written(db[p], n)
  /\ \A d \in inited : Written(d, 4)

\* What a process has read of a finished header are its fields.
Reading ==
  \A p \in Procs :
    /\ pc[p] = "find" => got[p] = <<>>
    /\ pc[p] = "read" =>
         /\ data[db[p]] # None
         /\ db[p] \in known[p] => \A k \in 1..Len(got[p]) : got[p][k] = Header[k]

\* OneInit needs Housed: who created a directory is the first there.  AckedOpens
\* needs to know what an init has left when it succeeds, and what open has read.
DirInv ==
  /\ Files /\ Processes /\ Errands /\ Housed
  /\ OneInit /\ HeadersSoFar /\ Reading /\ AckedOpens
-----------------------------------------------------------------------------
\* A header is four fields.
LEMMA HeaderFacts ==
  Header \in Seq(Fields) /\ Len(Header) = 4 /\ \A k \in 1..4 : Header[k] \in Fields
  BY FieldsAssumption DEF Header

\* What resolve_db returns is one of the places a database may be.
LEMMA ResolvedInPlaces ==
  ASSUME NEW a \in Args \cup {None}, NEW c \in Cwds
  PROVE  ResolveDb(a, c) \in Places
  BY DEF Places

\* The directory of a process that has no argument yet is one too.
LEMMA DefaultInPlaces == ResolveDb(None, Base) \in Places
<1>1. PICK c \in Cwds : TRUE
  BY CwdsAssumption
<1>2. ResolveDb(None, c) = ResolveDb(None, Base)
  BY DEF ResolveDb
<1>3. ResolveDb(None, c) \in Places
  BY <1>1, ResolvedInPlaces
<1> QED
  BY <1>2, <1>3

\* Before the first command there is nothing that could be wrong.
LEMMA InitInv == Init => DirInv
<1> SUFFICES ASSUME Init PROVE DirInv
  OBVIOUS
<1> USE DEF Init
<1>1. data \in [Places -> Seq(Fields) \cup {None}]
  BY ContentsAssumption
<1>2. Files /\ Processes
  BY <1>1, DefaultInPlaces DEF Files, Processes
<1>3. Errands /\ Housed /\ HeadersSoFar /\ Reading
  BY DEF Errands, Housed, HeadersSoFar, Reading
<1>4. OneInit /\ AckedOpens
  BY NoneAssumption DEF OneInit, Writing, AckedOpens
<1> QED
  BY <1>2, <1>3, <1>4 DEF DirInv

\* A file that no step touches keeps the fields written so far.
LEMMA WrittenStays ==
  ASSUME NEW d, NEW n, Written(d, n), data'[d] = data[d]
  PROVE  Written(d, n)'
  BY DEF Written

\* File::create leaves an empty file: none of its fields.
LEMMA WrittenNothing ==
  ASSUME NEW d, data'[d] = <<>>
  PROVE  Written(d, 0)'
<1>1. <<>> \in Seq(Fields) /\ Len(<<>>) = 0 /\ 1..0 = {}
  OBVIOUS
<1> QED
  BY <1>1 DEF Written

\* create_dir, by which init makes a directory its own, keeps the invariant.
LEMMA MakeDirInv == ASSUME DirInv, NEW p \in Procs, MakeDir(p) PROVE DirInv'
<1> USE DEF DirInv, MakeDir, Goto, Exit, disk
<1>1. Files'
  BY DEF Files, Processes
<1>2. Processes'
  BY DEF Processes
<1>3. Errands' /\ Housed'
  BY DEF Processes, Errands, Housed
<1>4. OneInit'
  BY DEF Files, Processes, Housed, OneInit, Writing
<1>5. HeadersSoFar'
  BY DEF Processes, HeadersSoFar, Written
<1>6. Reading'
  BY DEF Processes, Reading
<1>7. AckedOpens'
  BY DEF Processes, Errands, AckedOpens
<1> QED
  BY <1>1, <1>2, <1>3, <1>4, <1>5, <1>6, <1>7

\* So does the creation of the header's file, which fails where there is one.
LEMMA CreateDataInv == ASSUME DirInv, NEW p \in Procs, CreateData(p) PROVE DirInv'
<1> USE DEF DirInv, CreateData, Goto, Exit, disk
<1>1. Files'
  <2>1. <<>> \in Seq(Fields) /\ db[p] \in Places
    BY DEF Processes
  <2>2. data' \in [Places -> Seq(Fields) \cup {None}]
    BY <2>1 DEF Files
  <2> QED
    BY <2>2 DEF Files
<1>2. Processes'
  BY DEF Processes
<1>3. Errands' /\ Housed'
  BY DEF Processes, Errands, Housed
<1>4. OneInit'
  BY DEF Processes, OneInit, Writing
<1>5. HeadersSoFar'
  <2>1. ASSUME NEW q \in Procs, pc'[q] = "write" PROVE \E n \in 0..4 : Written(db[q], n)'
    <3>1. CASE pc[q] = "write"
      <4>1. PICK n \in 0..4 : Written(db[q], n)
        BY <3>1 DEF HeadersSoFar
      <4>2. data'[db[q]] = data[db[q]]
        BY <3>1 DEF OneInit, Writing, Files, Processes
      <4> QED
        BY <4>1, <4>2, WrittenStays
    <3>2. CASE pc[q] # "write"
      <4>1. q = p /\ data'[db[q]] = <<>>
        BY <2>1, <3>2 DEF Files, Processes
      <4>2. db' = db
        OBVIOUS
      <4>3. Written(db[q], 0)'
        BY <4>1, <4>2, WrittenNothing
      <4> QED
        BY <4>3
    <3> QED
      BY <3>1, <3>2
  <2>2. ASSUME NEW d \in inited PROVE Written(d, 4)'
    <3>1. Written(d, 4) /\ d # db[p]
      BY DEF HeadersSoFar, OneInit, Writing
    <3>2. data'[d] = data[d]
      BY <3>1 DEF Files
    <3> QED
      BY <3>1, <3>2, WrittenStays
  <2>3. db' = db /\ inited' = inited
    OBVIOUS
  <2> QED
    BY <2>1, <2>2, <2>3 DEF HeadersSoFar
<1>6. Reading'
  BY NoneAssumption DEF Files, Processes, Reading
<1>7. AckedOpens'
  BY DEF Processes, Errands, AckedOpens
<1> QED
  BY <1>1, <1>2, <1>3, <1>4, <1>5, <1>6, <1>7

\* What was in the file of d is still there.
Extended(d) ==
  /\ data'[d] \in Seq(Fields) /\ Len(data[d]) <= Len(data'[d])
  /\ \A k \in 1..Len(data[d]) : data'[d][k] = data[d][k]

\* The writer adds a field or, with the whole header there, reports success.
LEMMA WriteFieldEffect ==
  ASSUME DirInv, NEW p \in Procs, WriteField(p)
  PROVE  /\ pc[p] = "write" /\ db[p] \in dirs \ inited /\ db[p] \in Places
         /\ \/ /\ data' \in [Places -> Seq(Fields) \cup {None}]
               /\ \A d \in Places : d # db[p] => data'[d] = data[d]
               /\ Extended(db[p]) /\ \E n \in 0..4 : Written(db[p], n)'
               /\ pc' = pc /\ result' = result /\ inited' = inited
            \/ /\ data' = data /\ Written(db[p], 4)
               /\ pc' = [pc EXCEPT ![p] = "idle"] /\ result' = [result EXCEPT ![p] = "ok"]
               /\ inited' = inited \cup {db[p]}
<1> USE HeaderFacts, NoneAssumption DEF DirInv
<1>1. pc[p] = "write" /\ db[p] \in Places /\ db[p] \in dirs \ inited
  BY DEF WriteField, Processes, Housed, OneInit, Writing
<1>2. PICK n \in 0..4 : Written(db[p], n)
  BY <1>1 DEF HeadersSoFar
<1>3. n = Len(data[db[p]]) /\ data[db[p]] \in Seq(Fields)
  BY <1>2 DEF Written
<1>4. CASE n < 4
  <2> DEFINE longer == Append(data[db[p]], Header[n + 1])
  <2>1. data' = [data EXCEPT ![db[p]] = longer]
    BY <1>3, <1>4 DEF WriteField
  <2>2. pc' = pc /\ result' = result /\ inited' = inited /\ db' = db
    BY <1>1, <1>3, <1>4 DEF WriteField, Goto, Processes
  <2>3. Header[n + 1] \in Fields
    BY <1>4
  <2>4. longer \in Seq(Fields) /\ Len(longer) = n + 1
    BY <1>3, <2>3
  <2>5. \A k \in 1..(n + 1) : longer[k] = Header[k]
    BY <1>2, <1>3, <2>3 DEF Written
  <2> HIDE DEF longer
  <2>6. data'[db[p]] = longer
    BY <1>1, <2>1 DEF Files
  <2>7. n + 1 \in 0..4 /\ Written(db[p], n + 1)'
    BY <1>4, <2>2, <2>4, <2>5, <2>6 DEF Written
  <2>8. data' \in [Places -> Seq(Fields) \cup {None}] /\ longer # None
    BY <1>1, <2>1, <2>4 DEF Files
  <2>a. Extended(db[p])
    <3>1. \A k \in 1..n : longer[k] = data[db[p]][k]
      BY <1>3, <2>3 DEF longer
    <3> QED
      BY <1>3, <2>4, <2>6, <3>1 DEF Extended
  <2>9. \A d \in Places : d # db[p] => data'[d] = data[d]
    BY <2>1 DEF Files
  <2> QED
    BY <1>1, <2>2, <2>7, <2>8, <2>9, <2>a
<1>5. CASE n = 4
  <2>1. data' = data /\ inited' = inited \cup {db[p]}
    BY <1>3, <1>5 DEF WriteField
  <2>2. pc' = [pc EXCEPT ![p] = "idle"] /\ result' = [result EXCEPT ![p] = "ok"]
    BY <1>3, <1>5 DEF WriteField, Exit
  <2> QED
    BY <1>1, <1>2, <1>5, <2>1, <2>2
<1> QED
  BY <1>2, <1>4, <1>5

\* So does each field of the header: it is the next one, and the last finishes it.
LEMMA WriteFieldInv == ASSUME DirInv, NEW p \in Procs, WriteField(p) PROVE DirInv'
<1> USE NoneAssumption DEF DirInv
<1>1. UNCHANGED <<dirs, tables, cmd, db, got, known>>
  BY DEF WriteField, Goto, Exit
<1> USE <1>1, WriteFieldEffect
<1>2. Files'
  BY DEF Files
<1>3. Processes'
  BY DEF Processes
<1>4. Errands' /\ Housed'
  BY DEF Processes, Errands, Housed
<1>5. OneInit'
  <2>1. CASE pc' = pc /\ inited' = inited
    BY <2>1 DEF OneInit, Writing
  <2>2. CASE pc' = [pc EXCEPT ![p] = "idle"] /\ inited' = inited \cup {db[p]}
    <3>1. ASSUME NEW q \in Procs, Writing(q)' PROVE q # p /\ Writing(q)
      BY <2>2, <3>1 DEF Writing, Processes
    <3>2. Writing(p)
      BY DEF Writing
    <3> QED
      BY <2>2, <3>1, <3>2 DEF OneInit
  <2> QED
    BY <2>1, <2>2
<1>6. \A d \in Places \ {db[p]} : data'[d] = data[d]
  BY DEF Files
<1>7. HeadersSoFar'
  <2>1. ASSUME NEW q \in Procs, pc'[q] = "write" PROVE \E n \in 0..4 : Written(db[q], n)'
    <3>1. CASE q = p
      BY <2>1, <3>1 DEF Processes
    <3>2. CASE q # p
      <4>1. pc[q] = "write"
        BY <2>1, <3>2 DEF Processes
      <4>2. PICK n \in 0..4 : Written(db[q], n)
        BY <4>1 DEF HeadersSoFar
      <4>3. data'[db[q]] = data[db[q]]
        BY <1>6, <3>2, <4>1 DEF OneInit, Writing, Processes
      <4> QED
        BY <4>2, <4>3, WrittenStays
    <3> QED
      BY <3>1, <3>2
  <2>2. ASSUME NEW d \in inited PROVE Written(d, 4)'
    <3>1. Written(d, 4) /\ d # db[p] /\ d \in Places
      BY DEF HeadersSoFar, Files
    <3> QED
      BY <1>6, <3>1, WrittenStays
  <2>3. inited' = inited \/ (inited' = inited \cup {db[p]} /\ Written(db[p], 4)')
    <3>1. CASE data' = data /\ Written(db[p], 4)
      BY <3>1 DEF Written
    <3>2. CASE inited' = inited
      BY <3>2
    <3> QED
      BY <3>1, <3>2
  <2> QED
    BY <2>1, <2>2, <2>3 DEF HeadersSoFar
<1>8. Reading'
  <2>1. ASSUME NEW q \in Procs, pc'[q] \in {"find", "read"} PROVE pc'[q] = pc[q]
    BY <2>1 DEF Processes
  <2>2. ASSUME NEW d \in Places, data[d] # None PROVE data'[d] # None
    BY <1>6, <2>2 DEF Extended
  <2>3. \A q \in Procs : db[q] \in Places
    BY DEF Processes
  <2> QED
    BY <1>1, <2>1, <2>2, <2>3 DEF Reading
<1>9. AckedOpens'
  BY DEF Processes, AckedOpens
<1> QED
  BY <1>2, <1>3, <1>4, <1>5, <1>7, <1>8, <1>9

\* So does File::open: nothing is read of the header yet.
LEMMA OpenDataInv == ASSUME DirInv, NEW p \in Procs, OpenData(p) PROVE DirInv'
<1> USE DEF DirInv, OpenData, Goto, Exit, disk
<1>1. Files'
  BY DEF Files, Processes
<1>2. Processes'
  BY DEF Processes
<1>3. Errands' /\ Housed'
  BY DEF Processes, Errands, Housed
<1>4. OneInit'
  BY DEF Processes, OneInit, Writing
<1>5. HeadersSoFar'
  BY SMTT(30) DEF Files, Processes, HeadersSoFar, Written
<1>6. Reading'
  BY DEF Processes, Reading
<1>7. AckedOpens'
  BY NoneAssumption DEF Processes, AckedOpens, HeadersSoFar, Written
<1> QED
  BY <1>1, <1>2, <1>3, <1>4, <1>5, <1>6, <1>7

\* So does each field read: what is read of a finished header is that header.
LEMMA ReadFieldInv == ASSUME DirInv, NEW p \in Procs, ReadField(p) PROVE DirInv'
<1> USE DEF DirInv, ReadField, Goto, Exit, disk
<1>0. Len(got[p]) \in Nat /\ Len(data[db[p]]) \in Nat
  BY DEF Processes, Files, Reading
<1>1. Files'
  BY DEF Files, Processes
<1>2. Processes'
  <2>1. CASE Len(got[p]) + 1 > Len(data[db[p]])
    BY <2>1 DEF Processes
  <2>2. CASE Len(got[p]) + 1 <= Len(data[db[p]])
    <3>1. data[db[p]] \in Seq(Fields) /\ got[p] \in Seq(Fields) /\ Len(got[p]) <= 2
      BY DEF Processes, Files, Reading
    <3>2. Append(got[p], data[db[p]][Len(got[p]) + 1]) \in Seq(Fields)
          /\ Len(Append(got[p], data[db[p]][Len(got[p]) + 1])) = Len(got[p]) + 1
      BY <2>2, <3>1
    <3>3. got' = [got EXCEPT ![p] = Append(got[p], data[db[p]][Len(got[p]) + 1])]
          /\ UNCHANGED <<cmd, db, result, known, inited>> /\ pc' = [pc EXCEPT ![p] = "read"]
      BY <2>2, <3>1
    <3> QED
      BY <3>1, <3>2, <3>3 DEF Processes
  <2> QED
    BY <2>1, <2>2, <1>0 DEF Processes
<1>3. Errands' /\ Housed'
  BY DEF Processes, Errands, Housed
<1>4. OneInit'
  BY DEF Processes, OneInit, Writing
<1>5. HeadersSoFar'
  BY DEF Processes, HeadersSoFar, Written
<1>6. Reading'
  <2>1. UNCHANGED <<data, db, known, inited>>
    OBVIOUS
  <2>2. ASSUME NEW q \in Procs, q # p
        PROVE  got'[q] = got[q] /\ pc'[q] = pc[q]
    BY <2>2 DEF Processes
  <2>3. pc'[p] # "find"
    BY DEF Processes
  <2>4. ASSUME pc'[p] = "read", db[p] \in known[p], NEW k \in 1..Len(got'[p])
        PROVE  got'[p][k] = Header[k]
    <3>1. got'[p] = Append(got[p], data[db[p]][Len(got[p]) + 1]) /\ Len(got[p]) <= 2
      BY <1>0, <2>4 DEF Processes
    <3>2. Written(db[p], 4)
      BY <2>4 DEF Processes, HeadersSoFar
    <3>3. got[p] \in Seq(Fields) /\ \A j \in 1..Len(got[p]) : got[p][j] = Header[j]
      BY <2>4 DEF Processes, Reading
    <3>4. data[db[p]][Len(got[p]) + 1] = Header[Len(got[p]) + 1]
      BY SMTT(30), <1>0, <3>1, <3>2 DEF Written
    <3> QED
      BY <3>1, <3>3, <3>4
  <2>5. data[db[p]] # None
    BY DEF Reading
  <2>6. Reading
    OBVIOUS
  <2> HIDE DEF DirInv, ReadField
  <2>7. ASSUME NEW q \in Procs
        PROVE  /\ pc'[q] = "find" => got'[q] = <<>>
               /\ pc'[q] = "read" =>
                    /\ data'[db'[q]] # None
                    /\ db'[q] \in known'[q] => \A k \in 1..Len(got'[q]) : got'[q][k] = Header[k]
    <3>1. CASE q = p
      BY <2>1, <2>3, <2>4, <2>5, <3>1
    <3>2. CASE q # p
      BY <2>1, <2>2, <2>6, <3>2 DEF Reading
    <3> QED
      BY <3>1, <3>2
  <2> QED
    BY <2>7 DEF Reading
<1>7. AckedOpens'
  BY <1>0 DEF Processes, AckedOpens, HeadersSoFar, Written
<1> QED
  BY <1>1, <1>2, <1>3, <1>4, <1>5, <1>6, <1>7

\* So does the check of what was read: of a finished header, it does not fail.
LEMMA CheckHeaderInv == ASSUME DirInv, NEW p \in Procs, CheckHeader(p) PROVE DirInv'
<1> USE DEF DirInv, CheckHeader, Goto, Exit, disk
<1>1. Files'
  BY DEF Files, Processes
<1>2. Processes'
  BY DEF Processes
<1>3. Errands' /\ Housed'
  BY DEF Processes, Errands, Housed
<1>4. OneInit'
  BY DEF Processes, OneInit, Writing
<1>5. HeadersSoFar'
  BY DEF Processes, HeadersSoFar, Written
<1>6. Reading'
  BY DEF Processes, Reading
<1>7. AckedOpens'
  <2>1. ASSUME db[p] \in known[p] PROVE result'[p] # "failed"
    <3>1. got[p][1] = Header[1] /\ got[p][2] = Header[2]
      BY <2>1 DEF Reading
    <3> QED
      BY <3>1 DEF Processes
  <2>2. ASSUME NEW q \in Procs, q # p PROVE result'[q] = result[q]
    BY <2>2 DEF Processes
  <2>3. UNCHANGED <<db, cmd, known>>
    OBVIOUS
  <2> QED
    BY <2>1, <2>2, <2>3 DEF AckedOpens
<1> QED
  BY <1>1, <1>2, <1>3, <1>4, <1>5, <1>6, <1>7

\* So does create_dir_all, which adds to the directories at most its own.
LEMMA MakeDirsInv == ASSUME DirInv, NEW p \in Procs, MakeDirs(p) PROVE DirInv'
<1> USE DEF DirInv, MakeDirs, Goto, Exit, disk
<1>1. Files'
  BY DEF Files, Processes
<1>2. Processes'
  BY DEF Processes
<1>3. Errands' /\ Housed'
  BY DEF Processes, Errands, Housed
<1>4. OneInit'
  BY DEF Processes, OneInit, Writing
<1>5. HeadersSoFar'
  BY DEF Processes, HeadersSoFar, Written
<1>6. Reading'
  BY DEF Processes, Reading
<1>7. AckedOpens'
  BY DEF Processes, Errands, AckedOpens
<1> QED
  BY <1>1, <1>2, <1>3, <1>4, <1>5, <1>6, <1>7

\* So does the creation of the table file, in a directory that is there.
LEMMA CreateTableInv == ASSUME DirInv, NEW p \in Procs, CreateTable(p) PROVE DirInv'
<1> USE DEF DirInv, CreateTable, Goto, Exit, disk
<1>1. Files'
  BY DEF Files, Processes, Housed
<1>2. Processes'
  BY DEF Processes
<1>3. Errands' /\ Housed'
  BY DEF Processes, Errands, Housed
<1>4. OneInit'
  BY DEF Processes, OneInit, Writing
<1>5. HeadersSoFar'
  BY DEF Processes, HeadersSoFar, Written
<1>6. Reading'
  BY DEF Processes, Reading
<1>7. AckedOpens'
  BY DEF Processes, Errands, AckedOpens
<1> QED
  BY <1>1, <1>2, <1>3, <1>4, <1>5, <1>6, <1>7

\* So does a step that fails, whatever its command has left behind.
LEMMA FailInv == ASSUME DirInv, NEW p \in Procs, Fail(p) PROVE DirInv'
<1> USE DEF DirInv, Fail, Goto, Exit, disk
<1>1. Files'
  BY DEF Files, Processes
<1>2. Processes'
  BY DEF Processes
<1>3. Errands' /\ Housed'
  BY DEF Processes, Errands, Housed
<1>4. OneInit'
  BY DEF Processes, OneInit, Writing
<1>5. HeadersSoFar'
  BY DEF Processes, HeadersSoFar, Written
<1>6. Reading'
  <2>1. UNCHANGED <<data, db, known, got>>
    OBVIOUS
  <2>2. ASSUME NEW q \in Procs, pc'[q] \in {"find", "read"} PROVE pc'[q] = pc[q]
    BY <2>2 DEF Processes
  <2> QED
    BY <2>1, <2>2 DEF Reading
<1>7. AckedOpens'
  BY NoneAssumption DEF Processes, AckedOpens
<1> QED
  BY <1>1, <1>2, <1>3, <1>4, <1>5, <1>6, <1>7

\* So does the start of a command: it knows what was inited until then.
LEMMA StartInv ==
  ASSUME DirInv, NEW p \in Procs, NEW c \in {"init", "open", "create"},
         NEW a \in Args, NEW from \in Cwds, Start(p, c, a, from)
  PROVE  DirInv'
<1> USE NoneAssumption DEF DirInv, disk
<1>1. ResolveDb(a, from) \in Places
  BY ResolvedInPlaces
<1>2. UNCHANGED <<dirs, data, tables, inited>>
  BY DEF Start
<1>3. /\ pc' = [pc EXCEPT ![p] = pc'[p]] /\ pc'[p] \in {"make", "find", "all"}
      /\ pc'[p] # "find" => cmd'[p] # "open"
      /\ cmd' = [cmd EXCEPT ![p] = c] /\ db' = [db EXCEPT ![p] = ResolveDb(a, from)]
      /\ got' = [got EXCEPT ![p] = <<>>] /\ result' = [result EXCEPT ![p] = None]
      /\ known' = [known EXCEPT ![p] = inited]
  BY DEF Start, Processes
<1>4. Files'
  BY <1>2 DEF Files
<1>5. Processes'
  BY <1>1, <1>2, <1>3 DEF Processes
<1>6. Errands' /\ Housed'
  BY <1>2, <1>3 DEF Processes, Errands, Housed
<1>7. OneInit'
  BY <1>2, <1>3 DEF Processes, OneInit, Writing
<1>8. HeadersSoFar'
  BY <1>2, <1>3 DEF Processes, HeadersSoFar, Written
<1>9. Reading' /\ AckedOpens'
  BY <1>2, <1>3 DEF Processes, Reading, AckedOpens
<1> QED
  BY <1>4, <1>5, <1>6, <1>7, <1>8, <1>9

\* Every step keeps the invariant.
LEMMA NextInv == DirInv /\ [Next]_vars => DirInv'
<1> SUFFICES ASSUME DirInv, [Next]_vars PROVE DirInv'
  OBVIOUS
<1>1. CASE UNCHANGED vars
  BY <1>1 DEF vars, disk, proc, DirInv, Files, Processes, Errands, Housed, OneInit,
     Writing, HeadersSoFar, Written, Reading, AckedOpens
<1>2. ASSUME NEW p \in Procs, Step(p) PROVE DirInv'
  BY <1>2, MakeDirInv, CreateDataInv, WriteFieldInv, OpenDataInv, ReadFieldInv,
     CheckHeaderInv, MakeDirsInv, CreateTableInv DEF Step
<1> QED
  BY <1>1, <1>2, StartInv, FailInv DEF Next

\* The invariant that the theorems below rest on.
THEOREM Invariant == Spec => []DirInv
  BY InitInv, NextInv, PTL DEF Spec

\* Whatever the processes, the arguments and the files that were there before,
\* one init at most writes into a directory, and none after one succeeded
\* (create_dir in catalog/mod.rs).
THEOREM OneInitWrites == Spec => []OneInit
<1>1. DirInv => OneInit
  BY DEF DirInv
<1> QED
  BY <1>1, Invariant, PTL

\* Files and processes keep their shape.
THEOREM TypeCorrect == Spec => []TypeOK
<1>1. DirInv => TypeOK
  BY DEF DirInv, Files, Processes, TypeOK
<1> QED
  BY <1>1, Invariant, PTL

\* A directory whose init reported success opens from then on.
THEOREM InitedOpens == Spec => []AckedOpens
<1>1. DirInv => AckedOpens
  BY DEF DirInv
<1> QED
  BY <1>1, Invariant, PTL
-----------------------------------------------------------------------------
(* What open reports, and what no command ever undoes. *)

\* The file of d is as it was, or longer by the work of its init.
Kept(d) ==
  /\ data[d] # None => Extended(d)
  /\ data[d] # None /\ data'[d] # data[d] => \E p \in Procs : pc[p] = "write" /\ db[p] = d

\* A file no step touches is kept.
LEMMA Same == ASSUME Files, NEW d \in Places, data'[d] = data[d] PROVE Kept(d)
  BY DEF Files, Kept, Extended

\* No step takes away a directory or a table, nor a field of a file.
LEMMA Growth ==
  ASSUME DirInv, [Next]_vars
  PROVE  dirs \subseteq dirs' /\ tables \subseteq tables' /\ \A d \in Places : Kept(d)
<1> USE DEF DirInv
<1>1. CASE data' = data /\ dirs \subseteq dirs' /\ tables \subseteq tables'
  BY <1>1, Same
<1>2. ASSUME NEW p \in Procs, CreateData(p)
      PROVE  UNCHANGED <<dirs, tables>> /\ \A d \in Places : data'[d] = data[d] \/ data[d] = None
  BY <1>2 DEF CreateData, Files
<1>3. ASSUME NEW p \in Procs, WriteField(p)
      PROVE  UNCHANGED <<dirs, tables>> /\ \A d \in Places : Kept(d)
  <2>1. UNCHANGED <<dirs, tables>>
    BY <1>3 DEF WriteField
  <2>2. ASSUME NEW d \in Places, d # db[p] PROVE Kept(d)
    BY <1>3, <2>2, WriteFieldEffect, Same
  <2>3. Kept(db[p])
    <3>1. CASE data' = data
      BY <1>3, <3>1, WriteFieldEffect, Same
    <3>2. CASE Extended(db[p])
      BY <1>3, <3>2, WriteFieldEffect DEF Kept
    <3> QED
      BY <1>3, <3>1, <3>2, WriteFieldEffect
  <2> QED
    BY <2>1, <2>2, <2>3
<1>4. ASSUME NEW p \in Procs, MakeDir(p) \/ OpenData(p) \/ ReadField(p) \/ CheckHeader(p)
                                \/ MakeDirs(p) \/ CreateTable(p) \/ Fail(p)
      PROVE  data' = data /\ dirs \subseteq dirs' /\ tables \subseteq tables'
  BY <1>4 DEF MakeDir, OpenData, ReadField, CheckHeader, MakeDirs, CreateTable, Fail, disk
<1>5. ASSUME NEW p \in Procs, NEW c \in {"init", "open", "create"},
             NEW a \in Args, NEW from \in Cwds, Start(p, c, a, from)
      PROVE  data' = data /\ dirs' = dirs /\ tables' = tables
  BY <1>5 DEF Start, disk
<1>6. CASE UNCHANGED vars
  BY <1>1, <1>6 DEF vars, disk
<1>7. ASSUME NEW p \in Procs, Step(p)
      PROVE  dirs \subseteq dirs' /\ tables \subseteq tables' /\ \A d \in Places : Kept(d)
  <2>1. CASE CreateData(p)
    BY <1>2, <2>1, Same DEF Kept
  <2>2. CASE WriteField(p)
    BY <1>3, <2>2
  <2> QED
    BY <1>1, <1>4, <1>7, <2>1, <2>2 DEF Step
<1> QED
  BY <1>1, <1>4, <1>5, <1>6, <1>7 DEF Next

\* No command takes back a directory, a table or a part of a header, and only
\* the init at work on a header adds to it.
THEOREM NothingIsLost == Spec => NothingLost
<1>1. DirInv /\ [Next]_vars =>
        [/\ dirs \subseteq dirs' /\ tables \subseteq tables'
         /\ \A d \in Places :
              data[d] # None => /\ IsPrefix(data[d], data'[d])
                                /\ data[d] # data'[d] => \E p \in Procs : pc[p] = "write" /\ db[p] = d]_vars
  <2> SUFFICES ASSUME DirInv, [Next]_vars, NEW d \in Places, data[d] # None
               PROVE  IsPrefix(data[d], data'[d])
    BY Growth DEF Kept
  <2>1. data[d] \in Seq(Fields) /\ Extended(d)
    BY Growth DEF DirInv, Files, Kept
  <2>2. SubSeq(data[d], 1, Len(data[d])) = SubSeq(data'[d], 1, Len(data[d]))
    BY <2>1 DEF Extended
  <2> QED
    BY <2>1, <2>2 DEF IsPrefix, Extended
<1> QED
  BY <1>1, Invariant, PTL DEF Spec, NothingLost

\* The fields a process has read are still in the file.
Copied(p) ==
  /\ Len(got[p]) <= Len(data[db[p]])
  /\ \A k \in 1..Len(got[p]) : got[p][k] = data[db[p]][k]

Honest(p) ==
  data[db[p]] # None /\ Len(data[db[p]]) >= 3 /\ \A k \in 1..2 : data[db[p]][k] = Header[k]

HonestInv ==
  \A p \in Procs :
    /\ pc[p] = "read" => Copied(p)
    /\ cmd[p] = "open" /\ result[p] = "ok" => Honest(p)

Starts(p) ==
  \E c \in {"init", "open", "create"}, a \in Args, from \in Cwds : Start(p, c, a, from)

Stays(p) == UNCHANGED <<pc[p], cmd[p], db[p], got[p], result[p]>>

\* What a process has read stays in the file it read.
LEMMA CopiedStays ==
  ASSUME DirInv, [Next]_vars, NEW p \in Procs, pc[p] = "read", Copied(p),
         db'[p] = db[p], got'[p] = got[p]
  PROVE  Copied(p)'
<1>1. data[db[p]] # None /\ db[p] \in Places /\ got[p] \in Seq(Fields)
  BY DEF DirInv, Reading, Processes
<1>2. Extended(db[p]) /\ data[db[p]] \in Seq(Fields)
  BY <1>1, Growth DEF Kept, DirInv, Files
<1> QED
  BY <1>1, <1>2 DEF Copied, Extended

\* A file that was good to open stays so.
LEMMA HonestStays ==
  ASSUME DirInv, [Next]_vars, NEW p \in Procs, Honest(p), db'[p] = db[p]
  PROVE  Honest(p)'
<1>1. db[p] \in Places
  BY DEF DirInv, Processes
<1>2. Extended(db[p]) /\ data[db[p]] \in Seq(Fields)
  BY <1>1, Growth DEF Kept, Honest, DirInv, Files
<1> QED
  BY <1>1, <1>2, NoneAssumption DEF Honest, Extended

\* Every step keeps the honesty of what open has reported.
LEMMA HonestNext ==
  ASSUME DirInv, HonestInv, [Next]_vars
  PROVE  HonestInv'
<1>1. ASSUME NEW p \in Procs, Stays(p)
      PROVE  (pc[p] = "read" => Copied(p))' /\ (cmd[p] = "open" /\ result[p] = "ok" => Honest(p))'
  BY <1>1, CopiedStays, HonestStays DEF HonestInv, Stays
<1>2. CASE UNCHANGED vars
  BY <1>1, <1>2 DEF vars, proc, Stays, HonestInv
<1>3. ASSUME NEW p \in Procs, Step(p) \/ Fail(p) \/ Starts(p)
      PROVE  HonestInv'
  <2>1. ASSUME NEW q \in Procs, q # p PROVE Stays(q)
    BY <1>3, <2>1 DEF Stays, Step, MakeDir, CreateData, WriteField, OpenData, ReadField, CheckHeader,
       MakeDirs, CreateTable, Fail, Starts, Start, Goto, Exit, DirInv, Processes
  <2> SUFFICES (pc[p] = "read" => Copied(p))' /\ (cmd[p] = "open" /\ result[p] = "ok" => Honest(p))'
    BY <1>1, <2>1 DEF HonestInv
  <2>2. CASE OpenData(p)
    <3>1. /\ db'[p] = db[p] /\ cmd'[p] = cmd[p] /\ data' = data
          /\ pc'[p] = "read" => got'[p] = <<>> /\ result'[p] = result[p] /\ data[db[p]] \in Seq(Fields)
      BY <2>2 DEF OpenData, Goto, Exit, DirInv, Reading, Processes, Files, disk
    <3>2. pc'[p] # "read" => result'[p] = "failed"
      BY <2>2 DEF OpenData, Goto, Exit, DirInv, Processes
    <3> QED
      BY <3>1, <3>2, HonestStays DEF Copied, HonestInv
  <2>3. CASE ReadField(p)
    <3>1. data' = data /\ db'[p] = db[p] /\ cmd'[p] = cmd[p] /\ pc[p] = "read"
      BY <2>3 DEF ReadField, Goto, Exit, disk
    <3>2. data[db[p]] \in Seq(Fields) /\ got[p] \in Seq(Fields) /\ Copied(p)
      BY <3>1 DEF DirInv, Reading, Processes, Files, HonestInv
    <3>3. CASE Len(got[p]) + 1 > Len(data[db[p]])
      BY <2>3, <3>3 DEF ReadField, Exit, DirInv, Processes
    <3>4. CASE Len(got[p]) + 1 <= Len(data[db[p]])
      <4>1. got'[p] = Append(got[p], data[db[p]][Len(got[p]) + 1]) /\ result'[p] = result[p]
        BY <2>3, <3>2, <3>4 DEF ReadField, Goto, DirInv, Processes
      <4>2. Copied(p)'
        BY <3>1, <3>2, <3>4, <4>1 DEF Copied
      <4> QED
        BY <3>1, <4>1, <4>2, HonestStays DEF HonestInv
    <3> QED
      BY <3>2, <3>3, <3>4
  <2>4. CASE CheckHeader(p)
    <3>1. /\ data' = data /\ db'[p] = db[p] /\ pc[p] = "read" /\ Len(got[p]) = 3 /\ pc'[p] = "idle"
          /\ result'[p] = "ok" => got[p][1] = Header[1] /\ got[p][2] = Header[2]
      BY <2>4 DEF CheckHeader, Exit, disk, DirInv, Processes
    <3>2. Copied(p) /\ data[db[p]] # None
      BY <3>1 DEF HonestInv, DirInv, Reading
    <3>3. \A k \in 1..2 : k = 1 \/ k = 2
      OBVIOUS
    <3>4. data[db[p]] \in Seq(Fields)
      BY <3>2 DEF DirInv, Processes, Files
    <3> QED
      BY <3>1, <3>2, <3>3, <3>4 DEF Copied, Honest
  <2>5. CASE MakeDir(p) \/ CreateData(p) \/ WriteField(p) \/ MakeDirs(p) \/ CreateTable(p)
    <3>1. pc[p] \in {"make", "file", "write", "all", "table"} /\ cmd'[p] = cmd[p]
      BY <2>5 DEF MakeDir, CreateData, WriteField, MakeDirs, CreateTable, Goto, Exit
    <3>2. pc'[p] # "read"
      BY <2>5 DEF MakeDir, CreateData, WriteField, MakeDirs, CreateTable, Goto, Exit, DirInv, Processes
    <3> QED
      BY <3>1, <3>2 DEF DirInv, Errands
  <2>6. CASE Fail(p) \/ Starts(p)
    <3>1. pc'[p] # "read" /\ result'[p] = None
      BY <2>6 DEF Fail, Starts, Start, Exit, DirInv, Processes
    <3> QED
      BY <3>1, NoneAssumption
  <2> QED
    BY <1>3, <2>2, <2>3, <2>4, <2>5, <2>6 DEF Step
<1> QED
  BY <1>2, <1>3 DEF Next, Starts

\* open reports success only for a file that has the magic, the version and a
\* page size, though it read while an init wrote (FileHeader::read).
THEOREM OpenIsHonest == Spec => []OpenHonest
<1>1. Init => HonestInv
  BY NoneAssumption DEF Init, HonestInv
<1>2. DirInv /\ HonestInv /\ [Next]_vars => HonestInv'
  BY HonestNext
<1>3. HonestInv => OpenHonest
  BY DEF HonestInv, Honest, OpenHonest
<1> QED
  BY <1>1, <1>2, <1>3, Invariant, PTL DEF Spec
=============================================================================
