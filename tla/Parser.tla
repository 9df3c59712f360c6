------------------------------- MODULE Parser -------------------------------
(***************************************************************************)
(* The recursive-descent parser of parser/mod.rs, one operator per         *)
(* function.  Each takes the tokens t and the position i at which it       *)
(* starts, and answers the tree it built and the position after it, or     *)
(* the position of the token the error names.  A state is a statement that *)
(* somebody submits, one token longer than the one before.                 *)
(*                                                                         *)
(* A word stands for all its spellings in upper and lower case.  A tree is *)
(* a tuple that begins with what it is; an optional part is a sequence of  *)
(* at most one.                                                            *)
(***************************************************************************)
EXTENDS Integers, Sequences, SequencesExt

CONSTANTS
  Names, Ints, Strings,   \* the identifiers and literals that are not reserved words
  Families                \* bound: records of prefix, alphabet and the tokens to follow

Keywords ==
  {"SELECT", "FROM", "WHERE", "ORDER", "BY", "LIMIT", "AND", "OR", "NOT", "NULL", "ASC",
   "DESC", "INSERT", "INTO", "VALUES", "CREATE", "TABLE", "INT", "TEXT", "AS"}

CompareOps == {"=", "!=", "<", "<=", ">", ">="}
Idents     == Keywords \cup Names
Literals   == Ints \cup Strings \cup {"NULL"}
Eof        == "end of input"
Tokens     == Idents \cup Literals \cup CompareOps \cup {"*", ",", ";", "(", ")"}

ASSUME NamesAssumption == Names \cap Keywords = {}

VARIABLES family, tokens, outcome
vars == <<family, tokens, outcome>>
-----------------------------------------------------------------------------
Ok(tree, i) == [ok |-> TRUE, tree |-> tree, at |-> i]

Error(i) == [ok |-> FALSE, at |-> i]

\* The operator `?`.
Then(r, Rest(_)) == IF r.ok THEN Rest(r) ELSE r

Advance(t, i) == IF i < Len(t) THEN i + 1 ELSE i

Expect(t, i, wanted) == IF t[i] \in wanted THEN Ok(t[i], Advance(t, i)) ELSE Error(i)

Eat(t, i, token) == IF t[i] = token THEN Advance(t, i) ELSE i

ParseName(t, i) == Expect(t, i, Names)

ExpectIdent(t, i) == Expect(t, i, Idents)

ParseLiteral(t, i) == Expect(t, i, Literals)

RECURSIVE Item(_, _, _), ParseExpr(_, _), ParseCompare(_, _), ParsePrimary(_, _)

\* item {separator item}, the loops of the parser.
RECURSIVE Separated(_, _, _, _)
Separated(t, i, what, separator) ==
  Then(Item(t, i, what), LAMBDA first :
    IF t[first.at] # separator THEN Ok(<<first.tree>>, first.at)
    ELSE Then(Separated(t, Advance(t, first.at), what, separator), LAMBDA rest :
           Ok(<<first.tree>> \o rest.tree, rest.at)))

\* Mutant: the chain leans to the right.
ChainRight(op, r) == Ok(FoldRight(LAMBDA x, e : <<op, x, e>>, Front(r.tree), Last(r.tree)), r.at)

Chain(op, r) == Ok(FoldLeft(LAMBDA e, x : <<op, e, x>>, Head(r.tree), Tail(r.tree)), r.at)

ParseAnd(t, i) == Then(Separated(t, i, "compare", "AND"), LAMBDA r : Chain("AND", r))

ParseExpr(t, i) == Then(Separated(t, i, "and", "OR"), LAMBDA r : Chain("OR", r))

ParseCompare(t, i) ==
  Then(ParsePrimary(t, i), LAMBDA l :
    IF t[l.at] \notin CompareOps THEN l
    ELSE Then(ParsePrimary(t, Advance(t, l.at)), LAMBDA r : Ok(<<t[l.at], l.tree, r.tree>>, r.at)))

ParseArgs(t, i) == IF t[i] = ")" THEN Ok(<<>>, i) ELSE Separated(t, i, "expr", ",")

ParsePrimary(t, i) ==
  LET next == Advance(t, i)
  IN  CASE t[i] = "(" ->
             Then(ParseExpr(t, next), LAMBDA e :
             Then(Expect(t, e.at, {")"}), LAMBDA c : Ok(e.tree, c.at)))
        [] t[i] \in Literals -> Ok(<<"literal", t[i]>>, next)
        [] t[i] \in Names ->
             IF t[next] # "(" THEN Ok(<<"column", t[i]>>, next)
             ELSE Then(ParseArgs(t, Advance(t, next)), LAMBDA args :
                  Then(Expect(t, args.at, {")"}), LAMBDA c :
                    Ok(<<"call", t[i], args.tree>>, c.at)))
        [] OTHER -> Error(i)

ParseSelectItem(t, i) ==
  Then(ParseExpr(t, i), LAMBDA e :
    IF t[e.at] # "AS" THEN Ok([expr |-> e.tree, alias |-> <<>>], e.at)
    ELSE Then(ExpectIdent(t, Advance(t, e.at)), LAMBDA a :
           Ok([expr |-> e.tree, alias |-> <<a.tree>>], a.at)))

\* Mutant: the star is told from an expression by the token after it.
ParseProjectionAhead(t, i) ==
  IF t[i] = "*" /\ t[Advance(t, i)] = "FROM" THEN Ok(<<>>, Advance(t, i))
  ELSE Separated(t, i, "item", ",")

\* No items stand for the star.
ParseProjection(t, i) ==
  IF t[i] = "*" THEN Ok(<<>>, Advance(t, i)) ELSE Separated(t, i, "item", ",")

ParseOrder(t, i) ==
  Then(Expect(t, i, {"BY"}), LAMBDA b :
  Then(ParseName(t, b.at), LAMBDA c :
    Ok([column |-> c.tree, descending |-> t[c.at] = "DESC"],
       Eat(t, c.at, IF t[c.at] = "DESC" THEN "DESC" ELSE "ASC"))))

\* Mutant: the token is consumed before it is looked at.
ParseLimitConsumes(t, i) == IF t[i] \in Ints THEN Ok(t[i], Advance(t, i)) ELSE Error(Advance(t, i))

ParseLimit(t, i) == Expect(t, i, Ints)

ClauseBody(t, i, keyword) ==
  CASE keyword = "WHERE" -> ParseExpr(t, i)
    [] keyword = "ORDER" -> ParseOrder(t, i)
    [] keyword = "LIMIT" -> ParseLimit(t, i)

Clause(t, i, keyword) ==
  IF t[i] # keyword THEN Ok(<<>>, i)
  ELSE Then(ClauseBody(t, Advance(t, i), keyword), LAMBDA b : Ok(<<b.tree>>, b.at))

ParseSelect(t, i) ==
  Then(Expect(t, i, {"SELECT"}), LAMBDA s :
  Then(ParseProjection(t, s.at), LAMBDA p :
  Then(Expect(t, p.at, {"FROM"}), LAMBDA f :
  Then(ParseName(t, f.at), LAMBDA n :
  Then(Clause(t, n.at, "WHERE"), LAMBDA w :
  Then(Clause(t, w.at, "ORDER"), LAMBDA o :
  Then(Clause(t, o.at, "LIMIT"), LAMBDA l :
    Ok([stmt |-> "select", items |-> p.tree, from |-> n.tree, filter |-> w.tree,
        order |-> o.tree, limit |-> l.tree], l.at))))))))

ParseDataType(t, i) == Expect(t, i, {"INT", "TEXT"})

ParseNullability(t, i) ==
  IF t[i] # "NOT" THEN Ok(TRUE, Eat(t, i, "NULL"))
  ELSE Then(Expect(t, Advance(t, i), {"NULL"}), LAMBDA n : Ok(FALSE, n.at))

ParseColumnDef(t, i) ==
  Then(ExpectIdent(t, i), LAMBDA n :
  Then(ParseDataType(t, n.at), LAMBDA y :
  Then(ParseNullability(t, y.at), LAMBDA o :
    Ok([name |-> n.tree, type |-> y.tree, nullable |-> o.tree], o.at))))

Item(t, i, what) ==
  CASE what = "and"     -> ParseAnd(t, i)
    [] what = "compare" -> ParseCompare(t, i)
    [] what = "expr"    -> ParseExpr(t, i)
    [] what = "item"    -> ParseSelectItem(t, i)
    [] what = "column"  -> ParseColumnDef(t, i)
    [] what = "name"    -> ExpectIdent(t, i)
    [] what = "literal" -> ParseLiteral(t, i)

Parenthesized(t, i, what) ==
  Then(Expect(t, i, {"("}), LAMBDA o :
  Then(Separated(t, o.at, what, ","), LAMBDA l :
  Then(Expect(t, l.at, {")"}), LAMBDA c : Ok(l.tree, c.at))))

ParseCreateTable(t, i) ==
  Then(Expect(t, i, {"CREATE"}), LAMBDA k :
  Then(Expect(t, k.at, {"TABLE"}), LAMBDA b :
  Then(ExpectIdent(t, b.at), LAMBDA n :
  Then(Parenthesized(t, n.at, "column"), LAMBDA c :
    Ok([stmt |-> "create", table |-> n.tree, columns |-> c.tree], c.at)))))

ParseInsert(t, i) ==
  Then(Expect(t, i, {"INSERT"}), LAMBDA k :
  Then(Expect(t, k.at, {"INTO"}), LAMBDA o :
  Then(ExpectIdent(t, o.at), LAMBDA n :
  Then(IF t[n.at] = "(" THEN Parenthesized(t, n.at, "name") ELSE Ok(<<>>, n.at), LAMBDA c :
  Then(Expect(t, c.at, {"VALUES"}), LAMBDA v :
  Then(Parenthesized(t, v.at, "literal"), LAMBDA l :
    Ok([stmt |-> "insert", table |-> n.tree, columns |-> c.tree, values |-> l.tree], l.at)))))))

ParseStatement(t, i) ==
  CASE t[i] = "CREATE" -> ParseCreateTable(t, i)
    [] t[i] = "INSERT" -> ParseInsert(t, i)
    [] t[i] = "SELECT" -> ParseSelect(t, i)
    [] OTHER           -> Error(i)

ExpectEnd(t, i) ==
  LET end == Eat(t, i, ";") IN IF t[end] = Eof THEN Ok(Eof, end) ELSE Error(end)

Parse(t) ==
  Then(ParseStatement(t, 1), LAMBDA s :
  Then(ExpectEnd(t, s.at), LAMBDA e : Ok(s.tree, e.at)))
-----------------------------------------------------------------------------
Init ==
  /\ family \in Families
  /\ tokens = Append(family.prefix, Eof)
  /\ outcome = Parse(tokens)

\* Bound: of the tokens after an error only one more is looked at.
Submit(token) ==
  /\ Len(tokens) <= Len(family.prefix) + family.more
  /\ outcome.at >= Len(tokens) - 1
  /\ tokens' = Append(Front(tokens), token) \o <<Eof>>
  /\ outcome' = Parse(tokens')
  /\ UNCHANGED family

Next == \E token \in family.alphabet : Submit(token)

Spec == Init /\ [][Next]_vars
-----------------------------------------------------------------------------
(* The grammar of README.md, as the set of trees that a sequence of tokens *)
(* has: wherever a rule can cut it in two, without looking ahead.          *)
RECURSIVE Trees(_, _)

Cuts(s, mark) == {k \in DOMAIN s : s[k] = mark}

Left(s, k) == SubSeq(s, 1, k - 1)

Right(s, k) == SubSeq(s, k + 1, Len(s))

Binary(left, right, s, mark) ==
  UNION {{<<mark, l, r>> : l \in Trees(left, Left(s, k)), r \in Trees(right, Right(s, k))} :
           k \in Cuts(s, mark)}

List(one, more, s) ==
  {<<x>> : x \in Trees(one, s)}
    \cup UNION {{Append(l, x) : l \in Trees(more, Left(s, k)), x \in Trees(one, Right(s, k))} :
                  k \in Cuts(s, ",")}

Inside(s, from) == SubSeq(s, from + 1, Len(s) - 1)

Brackets(s, from) == Len(s) > from /\ s[from] = "(" /\ Last(s) = ")"

Trees(rule, s) ==
  CASE s = <<>>         -> {}
    [] rule = "expr"    -> Trees("and", s) \cup Binary("expr", "and", s, "OR")
    [] rule = "and"     -> Trees("compare", s) \cup Binary("and", "compare", s, "AND")
    [] rule = "compare" -> Trees("primary", s)
                             \cup UNION {Binary("primary", "primary", s, op) : op \in CompareOps}
    [] rule = "primary" ->
         {<<"literal", x>> : x \in IF Len(s) = 1 THEN Literals \cap {s[1]} ELSE {}}
           \cup {<<"column", x>> : x \in IF Len(s) = 1 THEN Names \cap {s[1]} ELSE {}}
           \cup (IF Brackets(s, 1) THEN Trees("expr", Inside(s, 1)) ELSE {})
           \cup (IF s[1] \notin Names \/ ~Brackets(s, 2) THEN {}
                 ELSE {<<"call", s[1], a>> : a \in IF Len(s) = 3 THEN {<<>>}
                                                    ELSE Trees("exprs", Inside(s, 2))})
    [] rule = "exprs"   -> List("expr", "exprs", s)
    [] rule = "item"    ->
         {[expr |-> e, alias |-> <<>>] : e \in Trees("expr", s)}
           \cup UNION {{[expr |-> e, alias |-> <<Last(s)>>] : e \in Trees("expr", Left(s, k))} :
                         k \in Cuts(s, "AS") \cap IF Last(s) \in Idents THEN {Len(s) - 1} ELSE {}}
    [] rule = "items"   -> List("item", "items", s)
    [] rule = "name"    -> IF Len(s) = 1 THEN Idents \cap {s[1]} ELSE {}
    [] rule = "names"   -> List("name", "names", s)
    [] rule = "value"   -> IF Len(s) = 1 THEN Literals \cap {s[1]} ELSE {}
    [] rule = "values"  -> List("value", "values", s)
    [] rule = "column"  ->
         IF Len(s) > 1 /\ s[1] \in Idents /\ s[2] \in {"INT", "TEXT"}
              /\ Right(s, 2) \in {<<>>, <<"NULL">>, <<"NOT", "NULL">>}
         THEN {[name |-> s[1], type |-> s[2], nullable |-> Len(s) < 4]} ELSE {}
    [] rule = "columns" -> List("column", "columns", s)

Where(s) ==
  IF s = <<>> THEN {<<>>}
  ELSE {<<e>> : e \in IF s[1] = "WHERE" THEN Trees("expr", Tail(s)) ELSE {}}

OrderBy(s) ==
  {<<[column |-> c, descending |-> d]>> :
     c \in {c \in Names : \E w \in {<<>>, <<"ASC">>, <<"DESC">>} : s = <<"ORDER", "BY", c>> \o w},
     d \in {Len(s) = 4 /\ s[4] = "DESC"}}
  \cup IF s = <<>> THEN {<<>>} ELSE {}

Limit(s) ==
  {<<n>> : n \in {n \in Ints : s = <<"LIMIT", n>>}} \cup IF s = <<>> THEN {<<>>} ELSE {}

Selects(s) ==
  UNION {
    {[stmt |-> "select", items |-> p, from |-> s[k + 1], filter |-> w, order |-> o, limit |-> l] :
       p \in IF SubSeq(s, 2, k - 1) = <<"*">> THEN {<<>>} ELSE Trees("items", SubSeq(s, 2, k - 1)),
       w \in Where(SubSeq(s, k + 2, a)), o \in OrderBy(SubSeq(s, a + 1, b)),
       l \in Limit(Right(s, b))} :
    <<k, a, b>> \in {c \in (DOMAIN s) \X (DOMAIN s) \X (DOMAIN s) :
                      /\ s[c[1]] = "FROM" /\ c[1] + 1 <= c[2] /\ c[2] <= c[3]
                      /\ s[c[1] + 1] \in Names}}

Creates(s) ==
  IF Len(s) < 3 \/ ~Brackets(s, 4) \/ SubSeq(s, 1, 2) # <<"CREATE", "TABLE">> \/ s[3] \notin Idents
  THEN {}
  ELSE {[stmt |-> "create", table |-> s[3], columns |-> c] : c \in Trees("columns", Inside(s, 4))}

Inserts(s) ==
  IF Len(s) < 3 \/ SubSeq(s, 1, 2) # <<"INSERT", "INTO">> \/ s[3] \notin Idents THEN {}
  ELSE UNION {
    {[stmt |-> "insert", table |-> s[3], columns |-> c, values |-> v] :
       c \in LET list == SubSeq(s, 4, k - 1)
             IN  IF list = <<>> THEN {<<>>}
                 ELSE IF Brackets(list, 1) THEN Trees("names", Inside(list, 1)) ELSE {},
       v \in IF Brackets(s, k + 1) THEN Trees("values", Inside(s, k + 1)) ELSE {}} :
    k \in Cuts(s, "VALUES") \ 1..3}

Statements(s) == Selects(s) \cup Creates(s) \cup Inserts(s)

\* A statement is accepted exactly if the grammar derives it, all of it up to a
\* final semicolon, and the tree is the one that the grammar gives it: AND
\* tighter than OR, both to the left, one comparison at most without brackets.
ParsesTheGrammar ==
  LET s == Front(tokens)
      text == IF s # <<>> /\ Last(s) = ";" THEN Front(s) ELSE s
  IN  Statements(text) = IF outcome.ok THEN {outcome.tree} ELSE {}

\* "Errors are positioned" (README.md).  The token that an error names is the
\* first that cannot stand where it is: up to it the statement is complete or
\* breaks off too early, and one that breaks off can be carried on.
BlamesTheToken ==
  ~outcome.ok =>
    /\ LET before == Parse(Append(SubSeq(tokens, 1, outcome.at - 1), Eof))
       IN  before.ok \/ before.at = outcome.at
    /\ outcome.at = Len(tokens) =>
         \E token \in Tokens :
           LET longer == Parse(Append(Front(tokens), token) \o <<Eof>>)
           IN  longer.ok \/ longer.at > outcome.at

\* What follows the token in error makes no difference, and what was read
\* without an error is never blamed later.
ErrorsStay ==
  [][IF ~outcome.ok /\ outcome.at < Len(tokens) THEN ~outcome'.ok /\ outcome'.at = outcome.at
     ELSE outcome'.at >= Len(tokens) - (IF outcome.ok THEN 1 ELSE 0)]_vars
=============================================================================
