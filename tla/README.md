# skipper-db in TLA+

A TLA+ development of the storage engine and the query processes of skipper-db:
modules translated from the source, TLC configurations that check them on small
instances, and proofs checked by TLAPS. File names such as `storage/page.rs` are
relative to the repository's `src/`.

## 1. The system

`db-cli` runs one statement per process. `CREATE TABLE`, `INSERT` and `SELECT`
are lexed, parsed, planned against the schema of the table file and executed on
it; `init` and `open` make and check the directory of a database. The library
below it also offers `update`, `delete` and one B+tree index per table,
which no SQL statement reaches yet.

| component | state | operations | interacts with |
|---|---|---|---|
| slotted page (`storage/page.rs`) | 4096 bytes: slot count, free pointer, slot directory, cells | `new`, `insert`, `get`, `delete`, `update` | owned by the table heap, which reads and writes it whole |
| B+tree (`storage/btree.rs`) | index file (page 0 names the root, one node per page), root in memory | `create`, `open`, `find`, `insert` | called by the table |
| table (`storage/table.rs`) | table file (metadata with index marker, slotted pages), `Option<Index>` in memory | `create`, `open`, `insert`, `get`, `update`, `delete`, `scan`, `create_index`, `find_by_key` | page, tree, record codec, schema |
| record codec (`storage/record.rs`), schema (`catalog/schema.rs`) | none | `encode`, `decode`, `serialize`, `deserialize` | table |
| header and directory (`storage/mod.rs`, `catalog/mod.rs`) | `skipper.dat` (magic, version, page size, padding), the database directory | `init`, `open` | the command line, and CREATE TABLE, which makes a missing directory; queries never read `skipper.dat` |
| planner (`query/mod.rs`, `plan.rs`, `physical.rs`) | none | `plan`, `from_logical`, printing of plans | opens the table for its schema |
| operators (`query/exec.rs`) | rows and cursors of Scan, Filter, Project, Sort, Limit | `next` | table |
| lexer, parser (`parser/`) | byte offset, token cursor | `tokenize`, `parse` | the command line |
| command line (`cli/mod.rs`) | none | `resolve_db`, `init`, `open`, `parse`, `plan`, `query`, `explain` | all |

What is hard here:

* **Bytes.** A page shrinks records in place, relocates them, and never compacts;
  offsets are 16-bit and `free_space` subtracts without a check.
* **Failure.** An index insert is up to a handful of separate synced writes, `?`
  returns in the middle of any of them and the caller keeps the `Table`;
  `set_root` changes memory before the file. The table and its index are two
  files with no log between them. `init` makes a directory and then writes a
  header in four writes. Until `sync_all` returns, a power failure may keep any
  part of a page.
* **Concurrency.** Processes share files without locks; an insert is
  read-page, change, write-page. `open` may read a header that an `init` is
  writing, and several `init` race with each other and with CREATE TABLE.
* **Staleness.** The tree is not maintained by `update` and `delete`;
  `find_by_key` relies on re-reading the row and on rids never being reused.
* **Text.** Offsets count bytes while slices must respect characters; precedence,
  associativity and the position of an error depend on which function looks at
  which token and when it advances; brackets are not part of the tree.

What makes each component correct:

* page: directory and cells never meet, live cells are disjoint, `get` returns
  what was last stored in the slot;
* tree: a search tree after every single write, seen from either root; `find`
  returns the last row id inserted, never one that was replaced;
* table: once created (its metadata written) it can be opened after any crash, and
  uses an index just as its marker says; index entries lead to rows that have had
  their key, the newest row of a key is found by it;
* processes: acknowledged rows stay, through a power failure too, readers see
  prefixes, nobody waits;
* directory: one `init` wins, what it made opens, a header half written does not;
* codec, schema: `decode(encode(r)) = r`; planner and operators: the rows of the
  reference meaning of the statement;
* lexer: the longest tokens, no panic; parser: exactly the grammar, one tree for
  each statement, errors at the first token that cannot stand where it is; the
  printed plan of a statement reads back as a statement of the same meaning, but
  for the brackets, NOT NULLs and aliases it does not print.

## 2. Modules

| module | models | checked by | proved in |
|---|---|---|---|
| `HeapPage` | what a page promises (abstract) | - | - |
| `SlottedPage` | `storage/page.rs` | `MCSlottedPage` | `SlottedPageProofs` |
| `IndexMap` | what an index promises (abstract), with and without faults | - | - |
| `BTree` | `storage/btree.rs`, one step per write | `MCBTree.cfg` | `BTreeProofs`, `BTreeAnswers` |
| `Table` | `storage/table.rs`, composing pages as `HeapPage` has them with an index as `IndexMap` has it | `MCTable.cfg` | `TableProofs` |
| `Queries` | `db-cli query` processes (`cli`, `query/mod.rs`, `query/exec.rs`, file accesses of `storage/table.rs`) | `MCQueries*.cfg` | `QueriesProofs` |
| `DbDirectory` | `init`, `open`, `resolve_db` and the directory part of CREATE TABLE (`cli/mod.rs`, `catalog/mod.rs`, `storage/mod.rs`) | `MCDbDirectory` | `DbDirectoryProofs` |
| `Lexer` | `parser/lexer.rs` | `MCLexer` | `LexerProofs` |
| `Parser` | `parser/mod.rs` | `MCParser` | - (recursive operators) |
| `Explain` | the printing of plans: `query/plan.rs`, `plan_tree` of `query/physical.rs` | `MCParser` | - (recursive operators) |
| `Select` | one SELECT: `plan_select`, `query/physical.rs`, the operators and expressions of `query/exec.rs` | `MCSelect` | `SelectProofs` |
| `Insert` | one row from CREATE TABLE over INSERT to SELECT: `plan_create_table`, `plan_insert`, `catalog/schema.rs`, `storage/record.rs` | `MCInsert` | - |

The layers meet through the abstract modules: `SlottedPage` is shown to
implement `HeapPage` (checked and proved), `BTree` to implement `IndexMap`
(checked and proved), and `Table` is built on the two abstractions, using the actions of
`IndexMap` for its tree. `DbDirectory` ends where the table file begins, and
`Queries` says what processes do to that; `Select` and `Insert` take one table
and say what a statement computes. `Lexer` turns bytes into the kinds of tokens
that `Parser` starts from, and `Explain` extends `Parser` by what becomes of its
trees on the way to a printed plan. Each module also has a few operators whose comment
starts with "Mutant": plausible bugs of the operation that follows, which the
properties must catch.

### HeapPage, SlottedPage
`slotCount`, `freePtr` and `slots` are the header and directory decoded; `bytes`
is the page's byte array, so overlapping cells would corrupt each other as in the
code. `Insert`, `Delete` and `Update` (in place, relocated, refused) are the
methods; `Get` is `get`. `U16` is `as u16`. `reply` is what the method returned.
A slot past the directory stands for an id that is out of range. In `HeapPage`
the page may refuse a record for lack of room at any time.

### IndexMap, BTree
`pages[p]` is the node of page `p`, `meta` the root that page 0 names, `root` the
one in memory. `insert` recurses to a leaf and comes back: `path` is the stack of
pages, `pc` the next write, `left`, `sep`, `right` the half node to write back
and the separator and page the parent must absorb. One action per write:
`LeafReplace`, `LeafInsert`, `LeafSplit` (the moved half is allocated first),
`WriteLeft`, `Absorb`, `AbsorbSplit`, `NewRoot`, `SetRoot` (memory), `WriteMeta`.
`Fail` is a write or sync that reports an error: the insert ends where it is and
the process goes on. A write that took effect and still reports an error is the
action followed by `Fail` in the next state. `Crash` is the death of the process
and the next `open`. Row ids are numbers given out in order.

`found` records what `find` answers between two inserts, and is what `IndexMap`
talks about. `MapSpec` is an exact map as long as there are no faults. A failed
insert or a process death may forget entries, but never brings back a replaced
row id, and a death between two inserts, none of which failed since the file was
opened, forgets nothing. `IndexMap` counts the faults, so that an insert that
returned cannot be excused as one.

### Table
A row is reduced to its indexed column (a key or NULL), a rid to `<<page, slot>>`.
Whether the last page has room for a row is left open, as in `HeapPage`. `pc`
says where the call is: between the write of the row and the insert into the tree
(`"index"`), in `create_index` (`"tree"`, `"build"`, `"marked"`), in `create`, or
`"idle"`/`"down"`. Calls that return an error before they write anything
(unknown column, wrong type, record too large, existing file, missing rid) change
nothing and are the absence of a step. `had` is the history of the keys of each
row, `created` says that `create` has written the metadata, `lossy` that a fault
hit the maintenance of the index itself. `Opens` is what `open` asks of the files:
the metadata and, if the marker names a column, the tree. `Openable` has it of every
table that was created, with a marker or without. A `create` that dies
before the metadata leaves a file that is no table: `Openable` has it that nobody
ever works on such a file.

### Queries
Each process runs one statement; `Start` chooses it, and every file access is a
step: `CreateFile`, `CreateMeta`, `Plan` (the table opens or is unknown), `Open`
(page count), `ReadLast`, `InsertLast`/`InsertNew`, `Sync`, `Report`, `ScanPage`,
`PrintResult`. `Crash` ends a process anywhere. The tables of these runs have no
index: no statement creates one.

`pages` is the file as processes see it, in the cache of the operating system;
`stable` is what `sync_all` has made sure of. `PowerFailure` ends all processes
and leaves, page by page, anything between the two: fewer or more rows, rows
that are torn (`Torn`: a slot whose bytes are no record, or another), pages of
zeros where only the length reached the disk. A SELECT that meets a torn row may
fail (`ScanFails`); an INSERT whose last page is one of zeros panics
(`InsertPanics`), as the free pointer of such a page is 0. What the model takes
from the file system, and marks external, is that a file synced right after its
creation keeps its name, that a synced block stays as it is until it is written
again, and that bytes written again with the same content are not torn.

`shared` are the rows of INSERTs that ran at the same time as another INSERT.

### DbDirectory
`dirs`, `data` (the fields of `skipper.dat` written so far) and `tables` are the
disk. A command is `init`, `open` or `create` (the directory part of CREATE
TABLE), with a value of `--db` and a current directory, from which `ResolveDb`
computes the directory as `resolve_db` does. One action per access: `MakeDir`
(`create_dir`), `CreateData` (`create_new`), `WriteField`, `OpenData`,
`ReadField` (`read_exact`), `CheckHeader`, `MakeDirs` (`create_dir_all`),
`CreateTable`. `Fail` is an access that reports an error or the death of the
process: neither undoes anything. `inited` are the directories whose `init`
reported success, `known` what `inited` was when the command started.

### Lexer, Parser, Explain
`Lexer` takes one step per pass of the loop of `tokenize`, one action per arm.
Bytes are symbols, named in words where the byte itself says little; a character
beyond ASCII is the two symbols `lead` and `cont`, and a slice that cuts one is the
panic it is in Rust. Three digits and two letters stand for their kind, `blank` for
all white space. `Parser` has one operator
for each function of the parser; a result is a tree and the next token, or the
token of the error, and `Then` is `?`. A step of its specification appends one
token to the statement and parses it anew, so that the run visits all
statements of a family and `ErrorsStay` can compare a statement with the one
before. `Explain` plans the parsed statement, as far as it needs no more of the table
than its columns (`Items` for the star, `Ordered` for the values of an INSERT, in the
table's order with NULL where the column list says nothing), prints it with
the brackets of `query/plan.rs`, and reads it back with `Parse`.

### Select
`Init` picks a statement and a table. `Plan` rejects it or stacks up the nodes
(`PlanSelect`) and builds one operator for each (`Build`); `ops` holds their
state: the rows left of the scan, the buffer and the sorted rows of the sort, the
counter of the limit. `at` is the operator in hand, `pc` says whether it is being
called or its input has just returned `row` to it, so the loops inside `next`
are steps: `ScanNext`, `PassCall`, `FilterSkip`, `FilterReturn`, `Project`,
`SortNext`, `SortFill`, `SortAbsorb`, `SortRows`, `LimitNext`, and `Collect` for
`execute`. `EvalScalar` is `eval_scalar` with `eval_predicate` folded in: the
latter is the truth of the former in each of its cases. `sort_by` is modelled by
what it does, a stable sort. A text is its rank and its length; a function call
keeps its argument list, so that the planner's arity check matters. Each operator
has the columns of its input (`ColumnsOf`), which below the projection are the
table's: `NeverPanics` compares the two, so a filter above the projection would
violate it. `EvalScalar` is defined for what `CheckColumns` lets through
(`Checked`): anything else `eval_scalar` need not survive. An expression is a finite
tree, which is what `ExprsAssumption` says with `Depth`.

### Insert
`Create` writes the schema's bytes, `PlanInsert` reads them back and orders the
values, `Store` encodes the row, `Read` decodes it. The byte strings are built
and taken apart as in the code, little-endian, two's complement, bitmap first;
the width of a byte and of each integer are constants. `Reject` stands for every
error that ends a statement.

## 3. Runs

| run | question | bounds and why they are enough | states |
|---|---|---|---|
| `page` | layout, disjointness, refinement of `HeapPage` | 20 bytes: up to four slots; records of 1, 2 and 4 bytes that differ at each position, so pages fill, cells shrink and move, and room runs out by one byte | 27 thousand |
| `page_empty_record` | does the refinement survive records of no bytes? **It does not** (finding 1) | same page | - |
| `btree` | exact map, leaf chain and search trees, with and without faults | six keys, two per node, up to six inserts without a fault (three levels, all splits) and five with up to two: an error that leaves `root` and `meta` apart, then a death | 790 thousand |
| `table` | openable once created, index used as marked, honest entries, newest row found | two keys and NULL, three inserts on up to three pages, two updates or deletes, two faults | 560 thousand |
| `queries` | what stays true of rows, readers and table with any mix of statements, a death or a power failure | three processes, four statements (a CREATE, inserts on the last page or, when it is full or the row too long for what is left, on a new one, a SELECT across two pages), one fault | 285 thousand |
| `select` | does each statement return what it means, evaluate no more than it must, and end? | 41 tables of up to three of four rows (equal keys, NULLs in both columns) in every order, 463 statements: conditions with NULL, mixed types, AND, OR, `LENGTH`, comparisons of comparisons, both directions, an alias that hides a column, LIMIT 0 to 2, and everything the planner must reject | 278 thousand |
| `insert` | does a row come back as inserted, within its schema? | bytes of two bits, so the bitmap takes a second byte at the third column; INT of two bytes with its least value; 86 schemas, 1240 statements, among them too few and too many values, unknown and repeated names, a schema that does not fit | 341 thousand |
| `insert_repeated_column` | is every listed value stored? **It is not** (finding 3) | same | - |
| `db_directory` | who gets to write the header, does it open, is a partial one refused? | two processes, four commands, one fault, one directory under three names and another; data files that were there before with a foreign or newer header or another page size | 487 thousand |
| `lexer` | longest tokens, positions, no panic, an end | 5 or 6 bytes over five alphabets that make arms meet (signs and digits up to a greatest integer of 11; quotes and characters of two bytes; comparison signs; words) | 199 thousand |
| `parser` | is the grammar what is parsed, are errors at the right token, do plans read back? | twelve families of up to 14 tokens: what stands before a WHERE, in it, after it, in lists, in INSERT and CREATE TABLE, every two tokens from the start, and INSERTs into a table of two columns with a column list in either order, of one column, of a column twice | 231 thousand |
| `queries_lost_row` | do acknowledged rows stay with two INSERTs at once? **They do not** (finding 2) | two processes | - |

`CHECK_DEADLOCK FALSE` is set where the bound on calls stops the model, or where
the statement it is about is over; `page`
needs none, its next-state relation is always enabled.

Fairness: `QueriesFinish`, `Finishes` and `Returns` are the liveness
properties. In `Queries`, `FairSpec` assumes that the operating system schedules each process
and that its system calls return (weak fairness of `Step(p)`); starting a
statement and dying are not fair. In `Select` and `Lexer` it assumes that the one thread runs
(weak fairness of `Next`).

`AnswersSelect` compares the operators with a meaning of SELECT written
independently of them: positions of the table, ordered by key and then by
position, for which the condition is true in SQL's three-valued logic. That this
agrees with the two-valued evaluation of the code rests on there being no
negation. Conditions that compare the outcome of a comparison are evaluated as
the code does: `(k = 1) = 0` keeps a row whose `k` is NULL.

`ParsesTheGrammar` compares the parser with a set of trees built by splitting the
statement at its separators, without a cursor: exactly the one tree, or none.
`LongestMatch` defines a token by its text, not by the order of the arms.
`PlanReadsBack` says exactly when the printed condition has lost its brackets:
when a comparison has a comparison or an AND for an operand. Of an INSERT it compares
what the statement and what is read back put into which column (`Assigned`), which
is said without going through the columns in order as `Ordered` does.

### Findings
1. `storage/page.rs:72`: a length of 0 marks a dead slot, so a record of no
   bytes, which the table without columns produces, is stored, acknowledged with
   a slot id, and then invisible to `get`, `update`, `delete` and `scan`.
2. `storage/table.rs:136-139`: an INSERT reads the last page and writes it back
   without a lock; of two concurrent ones, the second erases the first's row
   after it was acknowledged. `AckedAlonePersist` and `NoDuplicates` of `queries`
   show that only rows of overlapping INSERTs are lost and that nothing worse
   happens to them.
3. `query/mod.rs:114`: a column list that names a column twice is accepted, and
   all but the first of its values are dropped, where `query/mod.rs:83` speaks of
   reordering the values. CREATE TABLE rejects a repeated name.

### Behaviour worth knowing
* An interrupted `create_index` leaves a `.tbl.idx` file that is never read and
  that makes every later `create_index` fail (`BTree::create` uses `create_new`).
* An interrupted `CREATE TABLE` leaves an empty file that is neither opened nor
  replaced. `Openable` is about tables that got past that.
* An insert whose index part fails returns an error although the row is stored.
* With two rows of one key, deleting the newer hides the older from
  `find_by_key`. `FindsNewest` states what does hold.
* If `write_index_marker` reports an error after the marker reached the file,
  the process goes on without maintaining an index that the next `open` uses.
* An interrupted `init` leaves a directory that `init` refuses because it exists
  and `open` because its header is missing or short.
* `--db db/` is a bare name to `is_bare_name`, as a trailing separator is no
  component, and so is looked up beside the binary, although the comment at
  `cli/mod.rs:127-128` gives anything with a separator as is.
* After a power failure in an INSERT, a new page of zeros makes every later INSERT
  panic, and a torn row that cannot be decoded makes every SELECT fail.
* A reserved word is accepted as the name of a table or column in CREATE TABLE
  and INSERT, and cannot be named in a SELECT.
* The printed plan of CREATE TABLE has no NOT NULL, and that of a condition no
  brackets around an AND or a comparison that is compared.
* The README names the index file `<table>.idx`; the code calls it `.tbl.idx`.

## 4. Proofs

`SlottedPageProofs` proves, for every page size below 2^16, header size,
directory entry size of at least 1, byte set and record set (the assumptions
`PageAssumption`, `ByteAssumption`, `RecordsAssumption`, `DeadAssumption` of
`SlottedPage`):

* `TypeCorrect`, `LayoutSafe`, `CellsNeverOverlap`: `TypeOK`, `LayoutOK` and
  `CellsDisjoint` always hold. The inductive invariant is their conjunction
  `PageInv`. None is inductive alone: that `U16` does not truncate needs the
  layout, that an in-place update stays clear of its neighbours needs
  disjointness, that a new cell is clear of the others needs the free pointer to
  be below every cell. `NextSlotFits` is the room check of `insert`; `MoveInv`
  is the common argument for `delete` and both forms of `update`: the slot moves
  to a cell clear of the live ones, at or above the new free pointer.
* `PageRefinesHeap`: if no record is empty, `Spec` implements `HeapPage`.
  `WriteEffect` and `StoreEffect` say what `copy_from_slice` and `set_slot`
  change, `StoreGets` that afterwards `get` returns the record for the slot and
  what it did before for every other, and one lemma per method maps its step.
  The hypothesis is needed: see `page_empty_record`.

`DbDirectoryProofs` proves, for every set of processes, values of `--db`, current
directories, files that were there before and number of commands and faults
(`CwdsAssumption`, `NoneAssumption`, `ContentsAssumption`, `FieldsAssumption` of
`DbDirectory`):

* `TypeCorrect`, `OneInitWrites`, `InitedOpens`: `TypeOK`, `OneInit`, `AckedOpens`.
  The inductive invariant `DirInv` adds that a process past `create_dir` has its
  directory (`Housed`: so nobody else can create it), that a file being written
  holds a prefix of the header and a finished one all of it (`HeadersSoFar`), that
  what a process has read of a finished header are its fields (`Reading`), and
  that only `open` opens (`Errands`). One lemma per action preserves it;
  `WriteFieldEffect` says what a write does.
* `NothingIsLost`: `NothingLost`, from `Growth`, which says that every step keeps
  what a header file holds.
* `OpenIsHonest`: `OpenHonest`. `HonestInv` adds that the fields a process has
  read so far are still in the file, which follows from `Growth`.

`TableProofs` proves, for every set of keys and number of inserts and faults
(`ColumnAssumption`, `RidAssumption`, `BoundAssumption` of `Table`: NULL and a dead
slot are not keys, no row id is `NoRid`):

* `TypeCorrect`, `AlwaysOpens`, `EntriesAreHonest`, `NewestIsFound`: `TypeOK`,
  `Openable`, `EntriesHonest`, `FindsNewest`. The inductive invariant is `TableInv`.
  `AlwaysOpens` is about every table whose metadata was written, and says of one
  that was not that it is in no one's hands. `Stages` says how far `create` and
  `create_index` have come in the files and in memory, `HadKeys` ties the history of
  a row to the row, `PendingHonest` and `TodoHonest` say of the entries on their way
  to the tree what `EntriesHonest` says of those in it. `FindsNewest` only speaks of
  a table at rest: `Indexed` adds the row that is stored and not yet in the tree,
  and `Building` the rows `create_index` has still to take up, none of which may
  replace an entry that is right already; that no row is behind the one just stored
  (`InsertStores`) is what keeps both. One lemma per action.

`QueriesProofs` proves, for every set of processes, size of page and number of
statements, deaths and power failures (`PageAssumption`, `StmtsAssumption` of
`Queries`):

* `TypeCorrect`, `OneIsCreated`, `AckedAloneStays`, `RowsAreOnce`: `TypeOK`,
  `OneCreator`, `AckedAlonePersist`, `NoDuplicates`. The inductive invariant is
  `QueriesInv`. A row may have copies in the cache, on the disk and in what a writer
  has read and will write back: `OnePlace` gives all of them one page and slot, and
  `Unwritten` says that a row no writer has stored has none. `Durable` is the
  argument for acknowledged rows: `Kept` says that every other writer under way
  has the row in what it is to write back, or will write elsewhere. It holds
  of a row that met no other INSERT and of no other, which is finding 2.
  `Numbering` and `Creation` tell the processes apart.
* `SelectsSeeAPrefix`: `SelectsSeePrefix`. `ScanInv` says, given `QueriesInv`, two
  things of the rows whose INSERTs ran alone. `Steady`: they only move into the table at
  its end; what any writer is to write back has them where they are, and brings
  none back. `Scanned`: a SELECT has collected those of the pages behind it, each
  once and in the order of the table, from all pages that cannot grow any
  more; what was acknowledged before it started is among them or on a page to
  come. The file is a sequence of pages and what a SELECT prints is one sequence:
  `FlattenPlaces` and `AlonePicks` say which row of which page the x-th is (`Alone` of
  `Queries` is written as a recursive function so that it can be reasoned about).

`BTreeProofs` proves, for every set of integer keys, every `MAX_KEYS` of at least 2 and
every number of inserts, failed writes and process deaths (`KeysAssumption`,
`FanoutAssumption`, `BoundsAssumption` of `BTree`):

* `TypeCorrect`, `NodesStaySound`, `SearchNeverStrays`: `TypeOK`, `NodesOK`, `TreeOK`.
  `TreeOK` says nothing of the pages that are written and not linked yet, so it is
  not inductive. `BTreeInv` says that there are heights `H` and key sets `K` of
  the pages of the tree such that each page fits its own (`Fits`: the
  children of a node divide its keys at its separators and are one lower) and
  no page has two parents (`Apart`). What is in hand is tied to them:
  `Descending` follows the path of an insert, `Splitting`, `Absorbing` and `Rooting`
  say for which keys the half that was split off is right, and that nothing leads
  to it yet. After a failure it stays outside `H` for good. Both roots are in
  `H`, as the old root stays the first child of the new one.
* The first part of the module is what both rest on: what inserting into, splitting and
  linking nodes does to sorted keys and to `ChildIndex`; how `H` and `K` change when a page
  is added or narrowed; and that a search of a file with such an `H` ends in the
  leaf of its key, in as many steps as the root is high (`PathIn` is a
  recursive function; the induction is over its index, as the least
  element of a set of numbers).

`BTreeAnswers` proves, under the same assumptions:

* `LeavesStayChained`: `ChainOK`, which is not inductive either: a key goes to the
  leaf where it is in order only because the pages on the way to it are for it,
  whatever the key. `ChainInv` adds to `BTreeInv`, as long as no write has failed and
  for the same `H` and `K`, the keys `E` that each page is for (`Extended`: those of the
  tree, and of the half that waits for its parent) and the leaves `c`: the root is
  for all keys and the children of a page for all of the page's (`Covered`), the
  leaves are linked from page 1 on (`Linked`) with their keys in order (`Ordered`), each
  key that `find` may return is in one of them (`Holds`), and the half a split
  has moved comes next to the half it leaves (`Cut`). `ChainIsLinked` and
  `ChainKeysJoined` turn this into the walk of `next` and the sequence of keys
  that `ChainOK` speaks of.
* `TreeRefinesMap`: `ImplementsMap`, that `BTree` implements `IndexMap`. It has to say what
  `find` answers between any two writes, which `BTreeInv` leaves open: a tree may
  be in order and answer wrongly. `MapInv` adds that, for the same `H` and `K`,
  - `Complete`: the answer that each key is to get when the insert returns
    (`Want`) is already somewhere: behind the root, or in the half that was split
    off, and which of the two is decided by `sep`, the write that comes next and
    the slot the parent still sends the search to;
  - `Halved`: the half that stays keeps its first child, and until it is written
    no key is out of reach that was not before;
  - `Spine` and `Roots`: the root on disk is a first child of a first child ... of
    the one in memory, and the same page unless `set_root` is between its two
    assignments or failed there.

  From these `AllHonest` follows: at every write, from either root, a key is
  answered with its row id, with the one on its way, or not at all. So a failed
  write is `Lose` of `IndexMap`, as is a death within an insert; a death
  between inserts loses nothing unless one had failed; a `Return` puts the
  new row id; and every other step is a stutter (`NextRefines`, one case for
  each action).

`SelectProofs` proves, for every list of distinct column names, every table, all finite
expressions and all statements over them (`ColumnsAssumption`, `TablesAssumption`,
`ExprsAssumption`, `StatementsAssumption`, `NoneAssumption` of `Select`):

* `AnswersWhatItMeans`, `AsksForNoMore`, `PanicFree`: `AnswersSelect`, `AsksNoMore`,
  `NeverPanics`. That what an operator evaluates is in its own input's columns
  (`EvaluatedResolve`) and the rows that reach it have those (`RowsFit`,
  `SortFindsKeys`) comes from where the operators are, below any projection but their
  own. The inductive invariant is `Inv`. `Stacked` says which operator is
  where (`FilterAt`, `SortAt`, `ProjectAt`, `Top`) and what it was built with. The
  rest follows one row through them: `Left` counts the rows of the answer that
  are collected or on their way above the sort, `Tested` the rows of the table
  that the filter is done with. `Scanning` ties the row that comes up to the table, and
  `Answering` to the answer. Without a sort (`Plain`) the rows wanted among
  the first `Tested` are the first `Left` of the answer, and when a row is asked for
  the scan stands at the last of them. With one (`Sorting`) the buffer has first
  (`Filling`) the rows wanted among the first `Tested`, in their order, and what
  was sorted is then (`Draining`) the rest of the answer. `Limiting`: what is left of
  the limit and what has passed it add up, and no one below is asked when nothing is
  left. One lemma per action (`...Keeps`), on lemmas that say how a step moves one
  operator (`OneMoves`).
* That the rows are the right ones rests on `TruthsAgree`: for a condition the
  two-valued `eval_predicate` and SQL's three values agree on what is true.
  `EvalScalar`, `CheckColumns` and `Sql` are recursive functions over
  expressions. `TreeRecursion` shows that such equations have a solution and
  `SolutionsAgree` that they have only one, by descent to an expression that is
  least deep among those where it fails: no induction rule is needed.
* That they come in the right order rests on `SortsRows`. `Before` is a strict total
  order (`BeforeOrders`), the number of rows before a row is its place (`Ranks`), and
  only one arrangement ascends (`OneArrangement`): so `sort_by` on the rows wanted
  gives `Meaning`, which is stated as the one arrangement in the order of `Before`.

`LexerProofs` proves, for every set of statements that are valid UTF-8 and every
greatest integer (`InputsAssumption`, `MaxIntAssumption` of `Lexer`):

* `CutsLongest`, `BlamesRightly`, `PanicFree`: `LongestMatch`, `BlamesTheByte`,
  `NeverPanics`. The inductive invariant `LexInv` says of the tokens so far that there
  is one in the statement where each begins and it has the value of the longest
  (`Sound`), and that these texts and the blanks between them are the first `i` bytes
  (`Cut`, `Blanks`); and of an error that no token begins there, or a number that is
  out of range (`Stuck`). One lemma per arm (`...Step`). It rests on what a token is by its first byte (`LexemeIs`) and
  where the longest one ends (`SymbolEnd`, `QuoteEnd`, `NumberEnd`, ...), which is
  where the inner loop of the arm stops. It stops between two characters because
  only `cont` is inside one, and it follows a `lead` (`Boundary`).
* An integer has the value of its text by `SameNumber`: reading digits one by one,
  times ten plus the next (`IntegerOf`), gives the sum of their place values
  (`Numeral`). Both are recursive functions, of the number of digits read;
  `SumOfDigits` relates them by the least number at which they would not agree.

Each of these inductive invariants was an invariant of the run of its module
first; those of the tree with `H`, `K` and the chain as variables that the steps
update.

Left to TLC:

* liveness (`QueriesFinish`, `Finishes`, `Returns`), which is beyond the prover;
* what recursive operators and folds over data compute for every input:
  `ReadsWhatWasInserted` and `DetectsTruncation` (the byte strings of `Insert`),
  all of `Parser` and `Explain`;
* `TypeOK` and `RespectsSchema` of `Insert`, which speak of the same byte strings: that
  the bitmap's sums of bits fit in a byte, and of the row as the decoder returns it.

## 5. Plan

1. `Database`: processes of the library on a table with an index, which composes
   `Queries` with `Table`: they share the tree, each with its own root in memory,
   and take page numbers from the length of the file (`storage/btree.rs:263`).
2. Node layout of the B+tree: `to_page` and `from_page` with their capacities.
3. Proofs: `RespectsSchema` up to what `Store` writes.

## 6. Not modelled

* Argument parsing (`clap`), logging, the layout of result tables and the wording
  of messages: no property here depends on them.
* The texts of error messages of the lexer and parser; their positions are.
* The depth of the stack: `parse_primary`, evaluation and printing recurse with
  the nesting of a statement, and nothing in the source says how much a call takes.
* Torn pages of the index file: no statement writes one.
* Other writers of the files than the program itself.
