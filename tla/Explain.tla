------------------------------- MODULE Explain -------------------------------
(***************************************************************************)
(* What `db-cli plan` and `db-cli explain` print for a statement that the  *)
(* parser accepts (query/plan.rs, query/physical.rs, output_name of        *)
(* query/mod.rs), and whether it can be read back.  A line is the name of  *)
(* its node and the tokens of its text; how deep it is indented is its     *)
(* place among the lines.  Of what the planner rejects only the INSERTs    *)
(* whose values it cannot order are here: the columns may be NULL, and the *)
(* names of a SELECT are the subject of Select.                            *)
(***************************************************************************)
EXTENDS Parser

CONSTANT TableColumns   \* the columns of the table, what the star stands for

RECURSIVE FormatExpr(_)

Joined(texts) ==
  FoldLeft(LAMBDA all, x : all \o <<",">> \o x, Head(texts), Tail(texts))

FormatArgs(args) ==
  IF args = <<>> THEN <<>> ELSE Joined([n \in DOMAIN args |-> FormatExpr(args[n])])

FormatLiteral(literal) == <<literal>>

\* Mutant: no brackets around OR.
FormatOrBare(l, r) == l \o <<"OR">> \o r

FormatOr(l, r) == <<"(">> \o l \o <<"OR">> \o r \o <<")">>

FormatExpr(e) ==
  CASE e[1] = "column"  -> <<e[2]>>
    [] e[1] = "literal" -> FormatLiteral(e[2])
    [] e[1] = "call"    -> <<e[2], "(">> \o FormatArgs(e[3]) \o <<")">>
    [] e[1] = "OR"      -> FormatOr(FormatExpr(e[2]), FormatExpr(e[3]))
    [] OTHER            -> FormatExpr(e[2]) \o <<e[1]>> \o FormatExpr(e[3])

OutputName(item) == IF item.alias # <<>> THEN item.alias ELSE FormatExpr(item.expr)

Column(name) == [expr |-> <<"column", name>>, alias |-> <<>>]

Items(s) ==
  IF s.items # <<>> THEN s.items ELSE [n \in DOMAIN TableColumns |-> Column(TableColumns[n])]

ItemNames(s) == Joined([n \in DOMAIN Items(s) |-> OutputName(Items(s)[n])])

FormatOrder(o) == <<o.column>> \o IF o.descending THEN <<"DESC">> ELSE <<>>

\* format_column leaves out whether the column may be NULL.
FormatColumn(c) == <<c.name, c.type>>

Line(node, text) == [node |-> node, text |-> text]

\* The INSERTs whose values plan_insert can order: as many as there are columns,
\* or as many as a list names, all of them columns of the table.
Counted(s) ==
  s.stmt = "insert" =>
    IF s.columns = <<>> THEN Len(s.values) = Len(TableColumns)
    ELSE Len(s.columns) = Len(s.values) /\ Range(s.columns) \subseteq Range(TableColumns)

\* Mutant: the values are left in the order of the column list.
OrderedAsListed(s) ==
  s.values \o [n \in 1..(Len(TableColumns) - Len(s.values)) |-> "NULL"]

\* The values plan_insert makes: in the order of the table's columns, for each
\* the value where the list has its name first, or NULL.
Ordered(s) ==
  IF s.columns = <<>> THEN s.values
  ELSE [n \in DOMAIN TableColumns |->
          LET at == SelectInSeq(s.columns, LAMBDA name : name = TableColumns[n])
          IN  IF at = 0 THEN "NULL" ELSE s.values[at]]

\* LogicalPlan::write_at, from the top of the plan down.
Lines(s) ==
  CASE s.stmt = "create" ->
         <<Line("CreateTable",
                <<s.table>> \o Joined([n \in DOMAIN s.columns |-> FormatColumn(s.columns[n])]))>>
    [] s.stmt = "insert" ->
         <<Line("Insert",
                <<s.table>> \o Joined([n \in DOMAIN Ordered(s) |-> FormatLiteral(Ordered(s)[n])]))>>
    [] s.stmt = "select" ->
         [n \in DOMAIN s.limit |-> Line("Limit", s.limit)]
           \o <<Line("Projection", ItemNames(s))>>
           \o [n \in DOMAIN s.order |-> Line("Sort", FormatOrder(s.order[n]))]
           \o [n \in DOMAIN s.filter |-> Line("Filter", FormatExpr(s.filter[n]))]
           \o <<Line("Scan", <<s.from>>)>>

\* PhysicalPlan::write_at; from_logical turned Scan into TableScan.
PhysicalLines(s) ==
  LET lines == Lines(s)
      renamed(node) == (IF node = "Scan" THEN "TableScan" ELSE node) \o "Exec"
  IN  [n \in DOMAIN lines |-> Line(renamed(lines[n].node), lines[n].text)]
-----------------------------------------------------------------------------
(* A statement put together from the printed lines, and what it is         *)
(* compared by: chains of AND are one conjunction, the star is the columns, *)
(* and an INSERT is what it puts into which column.                        *)

TextOf(lines, node, before) ==
  LET found == SelectSeq(lines, LAMBDA l : l.node \in {node, node \o "Exec", "Table" \o node \o "Exec"})
  IN  IF found = <<>> THEN <<>> ELSE before \o found[1].text

Bracketed(text) == <<"(">> \o text \o <<")">>

Statement(lines) ==
  LET create == TextOf(lines, "CreateTable", <<>>)
      insert == TextOf(lines, "Insert", <<>>)
  IN  CASE create # <<>> -> <<"CREATE", "TABLE", create[1]>> \o Bracketed(Tail(create))
        [] insert # <<>> -> <<"INSERT", "INTO", insert[1], "VALUES">> \o Bracketed(Tail(insert))
        [] OTHER -> TextOf(lines, "Projection", <<"SELECT">>) \o TextOf(lines, "Scan", <<"FROM">>)
                      \o TextOf(lines, "Filter", <<"WHERE">>)
                      \o TextOf(lines, "Sort", <<"ORDER", "BY">>)
                      \o TextOf(lines, "Limit", <<"LIMIT">>)

RECURSIVE Meaning(_), Conjuncts(_)

Conjuncts(e) == IF e[1] = "AND" THEN Conjuncts(e[2]) \o Conjuncts(e[3]) ELSE <<Meaning(e)>>

Meaning(e) ==
  CASE e[1] \in {"column", "literal"} -> e
    [] e[1] = "call" -> <<"call", e[2], [n \in DOMAIN e[3] |-> Meaning(e[3][n])]>>
    [] e[1] = "AND"  -> <<"AND", Conjuncts(e)>>
    [] OTHER         -> <<e[1], Meaning(e[2]), Meaning(e[3])>>

\* What an INSERT puts where: NULL where it says nothing, and what it says first
\* where it says something twice.
Assigned(s) ==
  LET names == IF s.columns = <<>> THEN TableColumns ELSE s.columns
      said  == {<<names[n], s.values[n]>> :
                  n \in {k \in DOMAIN s.values : \A j \in 1..(k - 1) : names[j] # names[k]}}
  IN  {assignment \in said : assignment[2] # "NULL"}

Compared(s) ==
  CASE s.stmt = "select" ->
         [s EXCEPT !.filter = [n \in DOMAIN @ |-> Meaning(@[n])],
                   !.items = [n \in DOMAIN Items(s) |-> Meaning(Items(s)[n].expr)]]
    [] s.stmt = "insert" -> [s EXCEPT !.columns = <<>>, !.values = Assigned(s)]
    [] s.stmt = "create" ->
         [s EXCEPT !.columns = [n \in DOMAIN @ |-> [@[n] EXCEPT !.nullable = TRUE]]]

RECURSIVE Clear(_)

\* No comparison in e has a comparison or an AND for an operand.
Clear(e) ==
  CASE e[1] \in {"column", "literal"} -> TRUE
    [] e[1] = "call"          -> \A n \in DOMAIN e[3] : Clear(e[3][n])
    [] e[1] \in {"AND", "OR"} -> Clear(e[2]) /\ Clear(e[3])
    [] OTHER -> /\ Clear(e[2]) /\ Clear(e[3])
                /\ {e[2][1], e[3][1]} \cap (CompareOps \cup {"AND"}) = {}

Unambiguous(s) ==
  s.stmt = "select" =>
    LET conditions == [n \in DOMAIN s.items |-> s.items[n].expr] \o s.filter
    IN  \A n \in DOMAIN conditions : Clear(conditions[n])

Aliased(s) == s.stmt = "select" /\ \E n \in DOMAIN s.items : s.items[n].alias # <<>>

ReadsBack(lines, s) ==
  LET r == Parse(Append(Statement(lines), Eof))
  IN  r.ok /\ Counted(r.tree) /\ Compared(r.tree) = Compared(s)

\* A plan says which statement it is for.  What `explain` prints, as a logical
\* and as a physical plan, reads back as a statement of the same meaning, up to
\* NOT NULL and to aliases, exactly if no comparison compares the outcome of an
\* AND or of another comparison: those are printed without their brackets.  Of
\* an INSERT it reads back as one of a value for each column, which puts into
\* every column what the statement does, by whatever list.
PlanReadsBack ==
  outcome.ok /\ ~Aliased(outcome.tree) /\ Counted(outcome.tree) =>
    \A lines \in {Lines(outcome.tree), PhysicalLines(outcome.tree)} :
      ReadsBack(lines, outcome.tree) <=> Unambiguous(outcome.tree)
=============================================================================
