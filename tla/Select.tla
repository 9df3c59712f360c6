------------------------------- MODULE Select -------------------------------
(***************************************************************************)
(* One SELECT statement: query/mod.rs checks it and stacks up its plan,    *)
(* query/physical.rs keeps that shape, query/exec.rs builds one pull       *)
(* operator per node and asks the top one for rows until there are none.   *)
(* There is one step per call of next and one per return of it, so that    *)
(* the loops of the operators, and what each has consumed, are visible.    *)
(*                                                                         *)
(* A value is an Int, a Text (its rank in the order of strings, and its    *)
(* number of characters) or Null.  The table is read when the operators    *)
(* are built: see Queries for what other processes do to it meanwhile.     *)
(***************************************************************************)
EXTENDS Integers, Sequences, FiniteSets, SequencesExt

CONSTANTS
  Columns,      \* the names of the table's columns, in order
  Tables,       \* the contents the table may have: sequences of rows
  Exprs,        \* the expressions of the statements, with their subexpressions
  Statements,   \* records of filter, order, items and limit
  None          \* an absent clause, an absent row

Null == [type |-> "null"]
Int64(n) == [type |-> "int", v |-> n]

Value == {Null} \cup [type : {"int"}, v : Int] \cup [type : {"text"}, v : Int, chars : Nat]

Row == [DOMAIN Columns -> Value]

\* The immediate parts of an expression, and how deep it nests.
Parts(e) ==
  CASE e.op \in {"column", "literal"} -> {}
    [] e.op = "function" -> Range(e.args)
    [] OTHER -> {e.left, e.right}

Depth[e \in Exprs] == 1 + Max({0} \cup {Depth[x] : x \in Parts(e)})

ASSUME ColumnsAssumption ==     \* plan_create_table rejects a repeated name
  /\ Columns \in Seq(Range(Columns))
  /\ \A i, j \in DOMAIN Columns : Columns[i] = Columns[j] => i = j

ASSUME TablesAssumption == Tables \subseteq Seq(Row)

ASSUME ExprsAssumption ==       \* expressions are finite trees
  /\ \A e \in Exprs :
       /\ e.op \in {"column", "literal", "function", "AND", "OR", "=", "!=", "<", "<=", ">", ">="}
       /\ e.op = "literal" => e.value \in Value
       /\ e.op = "function" => e.args \in Seq(Exprs)
       /\ Parts(e) \subseteq Exprs
       /\ Depth[e] \in Nat /\ \A x \in Parts(e) : Depth[x] < Depth[e]
  /\ \A c \in Range(Columns) : [op |-> "column", name |-> c] \in Exprs

ASSUME StatementsAssumption ==
  \A s \in Statements :
    /\ s.filter \in Exprs \cup {None}
    /\ s.order # None => s.order.descending \in BOOLEAN
    /\ s.items # None => /\ s.items \in Seq(Range(s.items))
                         /\ \A i \in DOMAIN s.items : s.items[i].expr \in Exprs
    /\ s.limit \in Int \cup {None}

ASSUME NoneAssumption == None \notin Seq(Value) /\ None \notin Seq(Row) /\ None \notin Int

VARIABLES
  stmt, table,  \* the statement and the table it reads
  pc,           \* "plan", "call", "return", "done", "rejected" or "panicked"
  ops,          \* the operators, the scan first
  at,           \* the operator being called, or the one its input returns to
  row,          \* the row being returned
  result        \* the rows execute has collected

vars == <<stmt, table, pc, ops, at, row, result>>
-----------------------------------------------------------------------------
Truth(b) == Int64(IF b THEN 1 ELSE 0)
Truthy(x) == x.type = "int" /\ x.v # 0

Position(cols, c) == CHOOSE i \in DOMAIN cols : cols[i] = c /\ \A j \in 1..(i - 1) : cols[j] # c

Holds(l, op, r) ==
  CASE op = "="  -> l = r
    [] op = "!=" -> l # r
    [] op = "<"  -> l < r
    [] op = "<=" -> l <= r
    [] op = ">"  -> l > r
    [] op = ">=" -> l >= r

Compare(l, op, r) ==
  l.type # "null" /\ l.type = r.type /\ Holds(l.v, op, r.v)

ApplyFunction(name, x) ==
  IF name = "LENGTH" /\ x.type = "text" THEN Int64(x.chars) ELSE Null

\* Every column of the expression is one of cols, every call has its argument.
Resolves(e, cols) ==
  LET ok[x \in Exprs] ==
        CASE x.op = "column"   -> x.name \in Range(cols)
          [] x.op = "literal"  -> TRUE
          [] x.op = "function" -> x.name = "LENGTH" /\ Len(x.args) = 1 /\ ok[x.args[1]]
          [] OTHER             -> ok[x.left] /\ ok[x.right]
  IN  ok[e]

CheckColumns(e) == Resolves(e, Columns)

Checked == {e \in Exprs : CheckColumns(e)}

\* eval_scalar, whose last case is eval_predicate; and eval_predicate is the
\* truth of eval_scalar in every case.  It is only given what the planner has
\* checked: a call without an argument would panic.
EvalScalar(e, r, cols) ==
  LET value[x \in Checked] ==
        CASE x.op = "column"   -> IF x.name \in Range(cols) THEN r[Position(cols, x.name)]
                                  ELSE Null
          [] x.op = "literal"  -> x.value
          [] x.op = "function" -> ApplyFunction(x.name, value[x.args[1]])
          [] x.op = "AND"      -> Truth(Truthy(value[x.left]) /\ Truthy(value[x.right]))
          [] x.op = "OR"       -> Truth(Truthy(value[x.left]) \/ Truthy(value[x.right]))
          [] OTHER             -> Truth(Compare(value[x.left], x.op, value[x.right]))
  IN  value[e]

EvalPredicate(e, r, cols) == Truthy(EvalScalar(e, r, cols))

\* NULL sorts first and numbers before texts, which no column mixes.
ValueLess(a, b) ==
  \/ a.type = "null" /\ b.type # "null"
  \/ a.type = "int" /\ b.type = "text"
  \/ a.type = b.type /\ a.type # "null" /\ a.v < b.v
-----------------------------------------------------------------------------
Accepted(s) ==
  /\ s.filter # None => CheckColumns(s.filter)
  /\ s.order # None => s.order.column \in Range(Columns)
  /\ s.items # None => \A i \in DOMAIN s.items : CheckColumns(s.items[i].expr)
  /\ s.limit # None => s.limit >= 0

Items(s) ==
  IF s.items # None THEN s.items
  ELSE [i \in DOMAIN Columns |-> [expr |-> [op |-> "column", name |-> Columns[i]],
                                  name |-> Columns[i]]]

When(clause, node) == IF clause = None THEN <<>> ELSE <<node>>

\* Mutant: the filter is stacked on the projection.
PlanSelectFilterLast(s) ==
  <<[op |-> "Scan"]>>
  \o When(s.order, [op |-> "Sort", order |-> s.order])
  \o <<[op |-> "Projection", items |-> Items(s)]>>
  \o When(s.filter, [op |-> "Filter", predicate |-> s.filter])
  \o When(s.limit, [op |-> "Limit", count |-> s.limit])

\* Mutant: the sort is stacked on the projection.
PlanSelectSortLast(s) ==
  <<[op |-> "Scan"]>>
  \o When(s.filter, [op |-> "Filter", predicate |-> s.filter])
  \o <<[op |-> "Projection", items |-> Items(s)]>>
  \o When(s.order, [op |-> "Sort", order |-> s.order])
  \o When(s.limit, [op |-> "Limit", count |-> s.limit])

PlanSelect(s) ==
  <<[op |-> "Scan"]>>
  \o When(s.filter, [op |-> "Filter", predicate |-> s.filter])
  \o When(s.order, [op |-> "Sort", order |-> s.order])
  \o <<[op |-> "Projection", items |-> Items(s)]>>
  \o When(s.limit, [op |-> "Limit", count |-> s.limit])

\* The columns of the rows that the i-th node of plan p returns.
ColumnsOf(p, i) ==
  LET below == {j \in 1..i : p[j].op = "Projection"}
  IN  IF below = {} THEN Columns
      ELSE LET items == p[CHOOSE j \in below : \A k \in below : k <= j].items
           IN  [n \in DOMAIN items |-> items[n].name]

\* The operator of the i-th node.  SortExec looks its column up with unwrap.
Build(p, i) ==
  LET node == p[i]
      cols == IF i = 1 THEN Columns ELSE ColumnsOf(p, i - 1)
  IN  CASE node.op = "Scan"       -> [op |-> "Scan", rows |-> table]
        [] node.op = "Filter"     -> [op |-> "Filter", predicate |-> node.predicate,
                                      columns |-> cols]
        [] node.op = "Projection" -> [op |-> "Projection", items |-> node.items,
                                      columns |-> cols]
        [] node.op = "Sort"       -> [op |-> "Sort", index |-> Position(cols, node.order.column),
                                      descending |-> node.order.descending,
                                      buffer |-> <<>>, sorted |-> None]
        [] node.op = "Limit"      -> [op |-> "Limit", remaining |-> node.count]

Unwraps(p, i) ==
  p[i].op = "Sort" => p[i].order.column \in Range(ColumnsOf(p, i - 1))
-----------------------------------------------------------------------------
Init ==
  /\ stmt \in Statements /\ table \in Tables
  /\ pc = "plan" /\ ops = <<>> /\ at = 0 /\ row = None /\ result = <<>>

Plan ==
  LET p == PlanSelect(stmt)
  IN  /\ pc = "plan"
      /\ IF ~Accepted(stmt) THEN pc' = "rejected" /\ UNCHANGED <<ops, at>>
         ELSE IF \E i \in DOMAIN p : ~Unwraps(p, i) THEN pc' = "panicked" /\ UNCHANGED <<ops, at>>
         ELSE pc' = "call" /\ at' = Len(p) /\ ops' = [i \in DOMAIN p |-> Build(p, i)]
      /\ UNCHANGED <<stmt, table, row, result>>

Called(op) == pc = "call" /\ ops[at].op = op
Answered(op) == pc = "return" /\ at <= Len(ops) /\ ops[at].op = op

AskInput == pc' = "call" /\ at' = at - 1 /\ row' = None /\ UNCHANGED <<stmt, table, result>>

Return(r) == pc' = "return" /\ at' = at + 1 /\ row' = r /\ UNCHANGED <<stmt, table, result>>

ScanNext ==
  /\ Called("Scan")
  /\ IF ops[at].rows = <<>> THEN Return(None) /\ UNCHANGED ops
     ELSE Return(Head(ops[at].rows)) /\ ops' = [ops EXCEPT ![at].rows = Tail(@)]

\* A filter and a projection ask their input whenever they are asked.
PassCall == (Called("Filter") \/ Called("Projection")) /\ AskInput /\ UNCHANGED ops

Keeps == EvalPredicate(ops[at].predicate, row, ops[at].columns)

\* Mutant: the end of the input is taken for a row that does not match.
FilterSkipEndless ==
  Answered("Filter") /\ (row # None => ~Keeps) /\ AskInput /\ UNCHANGED ops

FilterSkip == Answered("Filter") /\ row # None /\ ~Keeps /\ AskInput /\ UNCHANGED ops

FilterReturn == Answered("Filter") /\ (row # None => Keeps) /\ Return(row) /\ UNCHANGED ops

Project ==
  /\ Answered("Projection")
  /\ Return(IF row = None THEN None
            ELSE [i \in DOMAIN ops[at].items |->
                    EvalScalar(ops[at].items[i].expr, row, ops[at].columns)])
  /\ UNCHANGED ops

\* Mutant: a descending sort is an ascending one read backwards.
SortByReversing(rows, k, descending) ==
  LET less(i, j) == ValueLess(rows[i][k], rows[j][k])
      earlier(i, j) == less(i, j) \/ (~less(j, i) /\ i < j)
      rank(i) == Cardinality({j \in DOMAIN rows : earlier(j, i)})
      place(i) == IF descending THEN Len(rows) - rank(i) ELSE 1 + rank(i)
  IN  [n \in DOMAIN rows |-> rows[CHOOSE i \in DOMAIN rows : place(i) = n]]

\* sort_by keeps the order of equal rows, also when the order is reversed.
SortBy(rows, k, descending) ==
  LET less(i, j) == IF descending THEN ValueLess(rows[j][k], rows[i][k])
                    ELSE ValueLess(rows[i][k], rows[j][k])
      earlier(i, j) == less(i, j) \/ (~less(j, i) /\ i < j)
      rank(i) == 1 + Cardinality({j \in DOMAIN rows : earlier(j, i)})
  IN  [n \in DOMAIN rows |-> rows[CHOOSE i \in DOMAIN rows : rank(i) = n]]

\* What the sort returns when its rows in order are s.
SortReturn(s) ==
  /\ ops' = [ops EXCEPT ![at].buffer = <<>>, ![at].sorted = IF s = <<>> THEN s ELSE Tail(s)]
  /\ Return(IF s = <<>> THEN None ELSE Head(s))

SortNext == Called("Sort") /\ ops[at].sorted # None /\ SortReturn(ops[at].sorted)

SortFill == Called("Sort") /\ ops[at].sorted = None /\ AskInput /\ UNCHANGED ops

SortAbsorb ==
  /\ Answered("Sort") /\ row # None
  /\ ops' = [ops EXCEPT ![at].buffer = Append(@, row)]
  /\ AskInput

SortRows ==
  /\ Answered("Sort") /\ row = None
  /\ SortReturn(SortBy(ops[at].buffer, ops[at].index, ops[at].descending))

\* Mutant: the limit looks whether it is used up once it has a row.
LimitNextLate ==
  \/ Called("Limit") /\ AskInput /\ UNCHANGED ops
  \/ /\ Answered("Limit")
     /\ IF row = None \/ ops[at].remaining = 0 THEN Return(None) /\ UNCHANGED ops
        ELSE Return(row) /\ ops' = [ops EXCEPT ![at].remaining = @ - 1]

LimitNext ==
  \/ /\ Called("Limit")
     /\ IF ops[at].remaining = 0 THEN Return(None) ELSE AskInput
     /\ UNCHANGED ops
  \/ /\ Answered("Limit")
     /\ Return(row)
     /\ ops' = [ops EXCEPT ![at].remaining = IF row = None THEN @ ELSE @ - 1]

\* execute's loop.
Collect ==
  /\ pc = "return" /\ at = Len(ops) + 1
  /\ IF row = None THEN pc' = "done" /\ UNCHANGED <<at, result>>
     ELSE pc' = "call" /\ at' = Len(ops) /\ result' = Append(result, row)
  /\ row' = None
  /\ UNCHANGED <<stmt, table, ops>>

Next ==
  \/ Plan
  \/ ScanNext \/ PassCall \/ FilterSkip \/ FilterReturn \/ Project
  \/ SortNext \/ SortFill \/ SortAbsorb \/ SortRows
  \/ LimitNext
  \/ Collect

Spec == Init /\ [][Next]_vars

FairSpec == Spec /\ WF_vars(Next)
-----------------------------------------------------------------------------
\* The expressions an operator evaluates.
Evaluated(o) ==
  CASE o.op = "Filter"     -> {o.predicate}
    [] o.op = "Projection" -> {o.items[i].expr : i \in DOMAIN o.items}
    [] OTHER               -> {}

\* Where the plan puts its operators, none of them panics and none takes a
\* missing column for NULL: the sort finds its column, every column that an
\* operator evaluates is one its own input has, which a projection below would
\* hide, and every row that reaches it is as long as its columns say, so that
\* neither row[i] nor the comparison of the sort is out of bounds.
NeverPanics ==
  /\ pc # "panicked"
  /\ \A i \in DOMAIN ops : \A e \in Evaluated(ops[i]) : Resolves(e, ops[i].columns)
  /\ (Answered("Filter") \/ Answered("Projection")) /\ row # None =>
       DOMAIN row = DOMAIN ops[at].columns
  /\ \A i \in DOMAIN ops : ops[i].op = "Sort" =>
       \A r \in Range(ops[i].buffer) : ops[i].index \in DOMAIN r

\* The truth of a condition as SQL has it, in three values.
Sql(e, r) ==
  LET truth[x \in Exprs] ==
        LET l == truth[x.left]
            m == truth[x.right]
            a == EvalScalar(x.left, r, Columns)
            b == EvalScalar(x.right, r, Columns)
            v == EvalScalar(x, r, Columns)
        IN  CASE x.op = "AND" -> IF "false" \in {l, m} THEN "false"
                                 ELSE IF "unknown" \in {l, m} THEN "unknown" ELSE "true"
              [] x.op = "OR"  -> IF "true" \in {l, m} THEN "true"
                                 ELSE IF "unknown" \in {l, m} THEN "unknown" ELSE "false"
              [] x.op \in {"column", "literal", "function"} ->
                   IF v.type # "int" THEN "unknown" ELSE IF v.v # 0 THEN "true" ELSE "false"
              [] OTHER ->
                   IF a.type = "null" \/ a.type # b.type THEN "unknown"
                   ELSE IF Holds(a.v, x.op, b.v) THEN "true" ELSE "false"
  IN  truth[e]

\* A condition compares scalars, never the outcome of a comparison.
Condition(e) ==
  LET scalar(x) == x.op \in {"column", "literal", "function"}
      plain[x \in Exprs] ==
        IF x.op \in {"AND", "OR"} THEN plain[x.left] /\ plain[x.right]
        ELSE scalar(x) \/ (scalar(x.left) /\ scalar(x.right))
  IN  plain[e]

Wanted(i) ==
  \/ stmt.filter = None
  \/ IF Condition(stmt.filter) THEN Sql(stmt.filter, table[i]) = "true"
     ELSE EvalPredicate(stmt.filter, table[i], Columns)

Key(i) == table[i][Position(Columns, stmt.order.column)]

\* Row i comes before row j: by key, and where keys are equal as in the table.
Before(i, j) ==
  IF stmt.order = None THEN i < j
  ELSE LET less    == ValueLess(Key(i), Key(j))
           greater == ValueLess(Key(j), Key(i))
       IN  \/ IF stmt.order.descending THEN greater ELSE less
           \/ ~less /\ ~greater /\ i < j

WantedRows == {i \in DOMAIN table : Wanted(i)}

\* The rows the statement means, as positions in the table, in their order:
\* there is one such arrangement, as no two rows are at the same place.
Meaning ==
  CHOOSE m \in [1..Cardinality(WantedRows) -> WantedRows] :
    \A x, y \in DOMAIN m : x < y => Before(m[x], m[y])

Shown(i) ==
  LET items == Items(stmt)
  IN  [n \in DOMAIN items |-> EvalScalar(items[n].expr, table[i], Columns)]

Wished == IF stmt.limit = None \/ stmt.limit > Len(Meaning) THEN Len(Meaning) ELSE stmt.limit

\* The rows collected are at any time the first of those the statement means,
\* and at the end all of them, up to the limit: the rows for which the
\* condition is true in SQL's three-valued logic (the code has two values and
\* no negation), in key order, ties as in the table.
AnswersSelect ==
  Accepted(stmt) =>
    /\ Len(result) <= Wished
    /\ \A n \in DOMAIN result : result[n] = Shown(Meaning[n])
    /\ pc = "done" => Len(result) = Wished

\* How many rows were taken from the scan.
Consumed == IF ops = <<>> THEN 0 ELSE Len(table) - Len(ops[1].rows)

\* A limit never asks for a row it will not return: none for LIMIT 0, not even
\* to sort, and without ORDER BY none beyond the last row of the answer.
AsksNoMore ==
  pc = "done" /\ stmt.limit # None /\ Len(result) = stmt.limit =>
    Consumed = IF stmt.limit = 0 THEN 0
               ELSE IF stmt.order = None THEN Meaning[stmt.limit]
               ELSE Len(table)

\* Every statement comes to an end.
Finishes == <>(pc \in {"done", "rejected"})
=============================================================================
