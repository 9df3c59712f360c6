---------------------------- MODULE SelectProofs ----------------------------
(***************************************************************************)
(* A SELECT answers what it means, whatever the table, the expressions and *)
(* the clauses are.  First what the evaluation of an expression is, then   *)
(* what a stable sort returns, then the inductive invariant of the         *)
(* operators that pull rows from each other.                               *)
(***************************************************************************)
EXTENDS Select, FiniteSetTheorems, NaturalsInduction, SequenceTheorems, TLAPS

\* A set of numbers that is not empty has a least one.
LEMMA Least ==
  ASSUME NEW S \in SUBSET Nat, S # {}
  PROVE  \E n \in S : \A m \in S : n <= m
<1> DEFINE R == {p \in Nat \X Nat : p[1] < p[2]}
<1>1. IsWellFoundedOn(R, Nat)
  BY NatLessThanWellFounded DEF OpToRel
<1>2. PICK n \in S : \A m \in S : ~(<<m, n>> \in R)
  <2> HIDE DEF R
  <2> QED
    BY <1>1, WFMin
<1>3. ASSUME NEW m \in S PROVE n <= m
  <2>1. m \in Nat /\ n \in Nat /\ ~(m < n)
    BY <1>2
  <2> QED
    BY <2>1
<1> QED
  BY <1>3

\* What holds of 0, and of each number after one it holds of, holds of all.
LEMMA Induct ==
  ASSUME NEW S, 0 \in S, \A n \in Nat : n \in S => n + 1 \in S
  PROVE  Nat \subseteq S
<1> DEFINE Out == {n \in Nat : n \notin S}
<1>1. CASE Out # {}
  <2>1. PICK n \in Out : \A m \in Out : n <= m
    BY <1>1, Least
  <2>2. n # 0 /\ n - 1 \in Nat /\ n - 1 \notin Out
    BY <2>1
  <2> QED
    BY <2>1, <2>2
<1> QED
  BY <1>1

\* Of the members of a set that have depths, one that is in S is no deeper than
\* the others in S.
LEMMA Shallowest ==
  ASSUME NEW E, NEW d \in [E -> Nat], NEW S \in SUBSET E, S # {}
  PROVE  \E x \in S : \A y \in S : d[x] <= d[y]
<1> DEFINE T == {d[x] : x \in S}
<1>1. PICK n \in T : \A m \in T : n <= m
  <2>1. T \in SUBSET Nat /\ T # {}
    OBVIOUS
  <2> HIDE DEF T
  <2> QED
    BY <2>1, Least
<1> QED
  BY <1>1
-----------------------------------------------------------------------------
\* Function f solves equation D for the members that are less than n deep.
Solves(f, D, E, d, n) == \A x \in E : d[x] < n => f[x] = D[f][x]

\* D only looks at what a function says of less deep members.
Local(D, E, R, d) ==
  \A f, g \in [E -> R] : \A x \in E :
    (\A y \in E : d[y] < d[x] => f[y] = g[y]) => D[f][x] = D[g][x]

\* Two solutions agree as far as both are one.
LEMMA SolutionsAgree ==
  ASSUME NEW E, NEW R, NEW d \in [E -> Nat], NEW D, Local(D, E, R, d),
         NEW f \in [E -> R], NEW g \in [E -> R], NEW m \in Nat, NEW n \in Nat,
         Solves(f, D, E, d, m), Solves(g, D, E, d, n),
         NEW x \in E, d[x] < m, d[x] < n
  PROVE  f[x] = g[x]
<1> DEFINE Bad == {y \in E : d[y] < m /\ d[y] < n /\ f[y] # g[y]}
<1>1. CASE Bad # {}
  <2>1. PICK y \in Bad : \A z \in Bad : d[y] <= d[z]
    <3>1. Bad \in SUBSET E
      OBVIOUS
    <3> HIDE DEF Bad
    <3> QED
      BY <1>1, <3>1, Shallowest
  <2>2. \A z \in E : d[z] < d[y] => f[z] = g[z]
    <3> SUFFICES ASSUME NEW z \in E, d[z] < d[y] PROVE f[z] = g[z]
      OBVIOUS
    <3>1. d[z] \in Nat /\ d[y] \in Nat
      OBVIOUS
    <3>2. z \notin Bad
      BY <2>1, <3>1
    <3> QED
      BY <2>1, <3>1, <3>2
  <2>3. D[f][y] = D[g][y]
    BY <2>1, <2>2 DEF Local
  <2> QED
    BY <2>1, <2>3 DEF Solves
<1> QED
  BY <1>1

\* D is an equation for functions from E to R that goes down a tree.
Descends(D, E, R, d) ==
  /\ R # {} /\ d \in [E -> Nat] /\ D \in [[E -> R] -> [E -> R]]
  /\ Local(D, E, R, d)

\* The equation has a solution.
Solvable(D, E, R) == \E f \in [E -> R] : \A x \in E : f[x] = D[f][x]

\* An equation that goes down a tree has a solution.
LEMMA TreeRecursion ==
  ASSUME NEW D, NEW E, NEW R, NEW d, Descends(D, E, R, d)
  PROVE  Solvable(D, E, R)
<1>a. /\ R # {} /\ d \in [E -> Nat] /\ D \in [[E -> R] -> [E -> R]]
      /\ Local(D, E, R, d)
  BY DEF Descends
<1> USE <1>a
<1> SUFFICES \E f \in [E -> R] : \A x \in E : f[x] = D[f][x]
  BY DEF Solvable
<1> DEFINE Ns == {n \in Nat : \E f \in [E -> R] : Solves(f, D, E, d, n)}
<1>1. 0 \in Ns
  <2>1. PICK r \in R : TRUE
    OBVIOUS
  <2>2. [x \in E |-> r] \in [E -> R] /\ Solves([x \in E |-> r], D, E, d, 0)
    BY DEF Solves
  <2> QED
    BY <2>2
<1>2. ASSUME NEW n \in Nat, n \in Ns PROVE n + 1 \in Ns
  <2>1. PICK f \in [E -> R] : Solves(f, D, E, d, n)
    BY <1>2
  <2> DEFINE g == [x \in E |-> D[f][x]]
  <2>2. g \in [E -> R]
    OBVIOUS
  <2>3. \A x \in E : d[x] < n => g[x] = f[x]
    BY <2>1 DEF Solves
  <2>4. \A x \in E : g[x] = D[f][x]
    OBVIOUS
  <2> HIDE DEF g
  <2>5. ASSUME NEW x \in E, d[x] < n + 1 PROVE g[x] = D[g][x]
    <3>1. \A y \in E : d[y] < d[x] => f[y] = g[y]
      BY <2>3, <2>5
    <3> QED
      BY <2>2, <2>4, <3>1 DEF Local
  <2> QED
    BY <2>2, <2>5 DEF Solves
<1>3. Nat \subseteq Ns
  <2> HIDE DEF Ns
  <2> QED
    BY <1>1, <1>2, Induct
<1>4. \A x \in E : \E f \in [E -> R] : Solves(f, D, E, d, d[x] + 1)
  BY <1>3
<1> DEFINE upto(x) == CHOOSE f \in [E -> R] : Solves(f, D, E, d, d[x] + 1)
           h == [x \in E |-> upto(x)[x]]
<1>5. \A x \in E : upto(x) \in [E -> R] /\ Solves(upto(x), D, E, d, d[x] + 1)
  BY <1>4
<1> HIDE DEF upto
<1>6. h \in [E -> R]
  BY <1>5
<1>7. ASSUME NEW x \in E PROVE h[x] = D[h][x]
  <2>1. ASSUME NEW y \in E, d[y] < d[x] PROVE upto(x)[y] = h[y]
    <3>1. d[x] + 1 \in Nat /\ d[y] + 1 \in Nat /\ d[y] < d[x] + 1 /\ d[y] < d[y] + 1
      BY <2>1
    <3>2. upto(x)[y] = upto(y)[y]
      BY <1>5, <2>1, <3>1, SolutionsAgree
    <3> QED
      BY <3>2
  <2>2. upto(x)[x] = D[upto(x)][x]
    <3>1. d[x] < d[x] + 1
      OBVIOUS
    <3> QED
      BY <1>5, <3>1 DEF Solves
  <2>3. D[upto(x)][x] = D[h][x]
    <3> HIDE DEF h
    <3> QED
      BY <1>5, <1>6, <2>1 DEF Local
  <2> QED
    BY <2>2, <2>3
<1> QED
  BY <1>6, <1>7

-----------------------------------------------------------------------------
\* The operators of expressions.
Ops == {"column", "literal", "function", "AND", "OR", "=", "!=", "<", "<=", ">", ">="}

\* The operators that neither compare nor combine.
Leaves == {"column", "literal", "function"}

\* The depth of an expression, as a function that is not recursive.
Deep == [e \in Exprs |-> Depth[e]]

\* What the assumption says of an expression and its parts.
LEMMA PartsAreLess ==
  ASSUME NEW e \in Exprs
  PROVE  /\ e.op \in Ops /\ Deep[e] \in Nat
         /\ e.op = "literal" => e.value \in Value
         /\ e.op = "function" /\ Len(e.args) = 1 =>
              e.args[1] \in Exprs /\ Deep[e.args[1]] < Deep[e]
         /\ e.op \notin Leaves =>
              /\ e.left \in Exprs /\ Deep[e.left] < Deep[e]
              /\ e.right \in Exprs /\ Deep[e.right] < Deep[e]
<1>1. /\ e.op \in Ops /\ Depth[e] \in Nat /\ Parts(e) \subseteq Exprs
      /\ e.op = "literal" => e.value \in Value
      /\ e.op = "function" => e.args \in Seq(Exprs)
      /\ \A x \in Parts(e) : Depth[x] < Depth[e]
  BY ExprsAssumption DEF Ops
<1>2. Deep[e] = Depth[e] /\ \A x \in Exprs : Deep[x] = Depth[x]
  BY DEF Deep
<1>3. ASSUME e.op = "function", Len(e.args) = 1
      PROVE  e.args[1] \in Exprs /\ Deep[e.args[1]] < Deep[e]
  <2>1. Parts(e) = Range(e.args)
    BY <1>3 DEF Parts
  <2>2. e.args[1] \in Range(e.args)
    <3>1. e.args \in Seq(Exprs)
      BY <1>1, <1>3
    <3>2. 1 \in DOMAIN e.args
      BY <3>1, <1>3
    <3> QED
      BY <3>2 DEF Range
  <2> QED
    BY <1>1, <1>2, <2>1, <2>2
<1>4. ASSUME e.op \notin Leaves
      PROVE  /\ e.left \in Exprs /\ Deep[e.left] < Deep[e]
             /\ e.right \in Exprs /\ Deep[e.right] < Deep[e]
  <2>1. Parts(e) = {e.left, e.right}
    BY <1>4 DEF Parts, Leaves
  <2> QED
    BY <1>1, <1>2, <2>1
<1> QED
  BY <1>1, <1>2, <1>3, <1>4

\* Depths are numbers.
LEMMA DeepType == Deep \in [Exprs -> Nat]
  BY ExprsAssumption DEF Deep
-----------------------------------------------------------------------------
\* The equation that CheckColumns solves.
CheckOne(ok, x) ==
  CASE x.op = "column"   -> x.name \in Range(Columns)
    [] x.op = "literal"  -> TRUE
    [] x.op = "function" -> x.name = "LENGTH" /\ Len(x.args) = 1 /\ ok[x.args[1]]
    [] OTHER             -> ok[x.left] /\ ok[x.right]

\* What is checked of an expression, operator by operator.
LEMMA CheckOneCases ==
  ASSUME NEW ok, NEW x
  PROVE  /\ x.op = "column" /\ x.name \in Range(Columns) => CheckOne(ok, x) = TRUE
         /\ x.op = "column" /\ x.name \notin Range(Columns) => CheckOne(ok, x) = FALSE
         /\ x.op = "literal" => CheckOne(ok, x) = TRUE
         /\ x.op = "function" => CheckOne(ok, x) = (x.name = "LENGTH" /\ Len(x.args) = 1 /\ ok[x.args[1]])
         /\ x.op \notin Leaves => CheckOne(ok, x) = (ok[x.left] /\ ok[x.right])
<1>1. x.op = "column" => CheckOne(ok, x) = (x.name \in Range(Columns))
  BY Zenon DEF CheckOne
<1>2. /\ x.op = "column" /\ x.name \in Range(Columns) => CheckOne(ok, x) = TRUE
      /\ x.op = "column" /\ x.name \notin Range(Columns) => CheckOne(ok, x) = FALSE
  <2>1. x.name \in Range(Columns) => (x.name \in Range(Columns)) = TRUE
    OBVIOUS
  <2>2. x.name \notin Range(Columns) => (x.name \in Range(Columns)) = FALSE
    OBVIOUS
  <2> QED
    BY Zenon, <1>1, <2>1, <2>2
<1> QED
  BY Zenon, <1>2 DEF CheckOne, Leaves

\* A check is true or false.
LEMMA CheckOneType ==
  ASSUME NEW ok, NEW x, x.op \in Ops
  PROVE  CheckOne(ok, x) \in BOOLEAN
<1>1. CASE x.op = "column"
  BY <1>1, CheckOneCases
<1>2. CASE x.op = "literal"
  BY <1>2, CheckOneCases
<1>3. CASE x.op = "function"
  <2>1. (x.name = "LENGTH" /\ Len(x.args) = 1 /\ ok[x.args[1]]) \in BOOLEAN
    BY Zenon
  <2>2. CheckOne(ok, x) = (x.name = "LENGTH" /\ Len(x.args) = 1 /\ ok[x.args[1]])
    BY <1>3, CheckOneCases
  <2> QED
    BY Zenon, <2>1, <2>2
<1>4. CASE x.op \notin Leaves
  <2>1. (ok[x.left] /\ ok[x.right]) \in BOOLEAN
    BY Zenon
  <2>2. CheckOne(ok, x) = (ok[x.left] /\ ok[x.right])
    BY <1>4, CheckOneCases
  <2> QED
    BY Zenon, <2>1, <2>2
<1> QED
  BY <1>1, <1>2, <1>3, <1>4 DEF Leaves

\* CheckColumns goes down the tree of an expression.
LEMMA Checks ==
  \E ok \in [Exprs -> BOOLEAN] :
    \A x \in Exprs : CheckColumns(x) = ok[x] /\ ok[x] = CheckOne(ok, x)
<1>0. PICK R : R = BOOLEAN
  OBVIOUS
<1> DEFINE D == [f \in [Exprs -> R] |-> [x \in Exprs |-> CheckOne(f, x)]]
           Is(ok) == ok = [x \in Exprs |-> CheckOne(ok, x)]
           ok1 == CHOOSE ok : Is(ok)
<1>1. ASSUME NEW f \in [Exprs -> R], NEW x \in Exprs PROVE CheckOne(f, x) \in R
  BY <1>0, CheckOneType, PartsAreLess
<1>2. D \in [[Exprs -> R] -> [Exprs -> R]]
  BY <1>1
<1>3. \A f \in [Exprs -> R] : \A x \in Exprs : D[f][x] = CheckOne(f, x)
  OBVIOUS
<1>4. ASSUME NEW f \in [Exprs -> R], NEW g \in [Exprs -> R], NEW x \in Exprs,
             \A y \in Exprs : Deep[y] < Deep[x] => f[y] = g[y]
      PROVE  CheckOne(f, x) = CheckOne(g, x)
  <2>1. x.op \notin Leaves => f[x.left] = g[x.left] /\ f[x.right] = g[x.right]
    BY <1>4, PartsAreLess
  <2>2. x.op = "function" /\ Len(x.args) = 1 => f[x.args[1]] = g[x.args[1]]
    BY <1>4, PartsAreLess
  <2>3. x.op \notin Leaves => CheckOne(f, x) = CheckOne(g, x)
    BY <2>1, CheckOneCases
  <2>4. x.op = "function" => CheckOne(f, x) = CheckOne(g, x)
    BY <2>2, CheckOneCases
  <2> QED
    BY <2>3, <2>4, CheckOneCases DEF Leaves
<1>5. \E ok : Is(ok)
  <2>1. Descends(D, Exprs, R, Deep)
    <3> HIDE DEF D
    <3> QED
      <4>1. R # {}
        BY <1>0
      <4>2. Local(D, Exprs, R, Deep)
        BY <1>3, <1>4 DEF Local
      <4> QED
        BY <1>2, <4>1, <4>2, DeepType DEF Descends
  <2>2. PICK f \in [Exprs -> R] : \A x \in Exprs : f[x] = D[f][x]
    <3> HIDE DEF D
    <3> QED
      BY <2>1, TreeRecursion DEF Solvable
  <2>3. \A x \in Exprs : f[x] = CheckOne(f, x)
    <3> HIDE DEF D
    <3> QED
      BY <1>3, <2>2
  <2>4. Is(f)
    BY <2>3
  <2> QED
    BY <2>4
<1>6. Is(ok1)
  BY <1>5
<1>7. \A x \in Exprs : CheckColumns(x) = ok1[x]
  BY Zenon DEF CheckColumns, Resolves, CheckOne
<1> HIDE DEF ok1
<1>8. \A x \in Exprs : ok1[x] = CheckOne(ok1, x)
  BY <1>6
<1>9. \A x \in Exprs : ok1[x] \in BOOLEAN
  BY <1>8, CheckOneType, PartsAreLess
<1> QED
  <2>1. ok1 \in [Exprs -> BOOLEAN]
    BY <1>6, <1>9
  <2> QED
    BY <1>7, <1>8, <2>1
-----------------------------------------------------------------------------
\* What the planner has checked has been checked part by part.
LEMMA CheckedParts ==
  ASSUME NEW e \in Checked
  PROVE  /\ e \in Exprs
         /\ e.op = "column" => e.name \in Range(Columns)
         /\ e.op = "function" =>
              e.name = "LENGTH" /\ e.args[1] \in Checked /\ Deep[e.args[1]] < Deep[e]
         /\ e.op \notin Leaves =>
              /\ e.left \in Checked /\ Deep[e.left] < Deep[e]
              /\ e.right \in Checked /\ Deep[e.right] < Deep[e]
<1>1. PICK ok \in [Exprs -> BOOLEAN] :
        \A x \in Exprs : CheckColumns(x) = ok[x] /\ ok[x] = CheckOne(ok, x)
  BY Checks
<1>2. e \in Exprs /\ CheckOne(ok, e)
  BY <1>1 DEF Checked
<1>3. ASSUME e.op = "column" PROVE e.name \in Range(Columns)
  BY <1>2, <1>3, CheckOneCases
<1>4. ASSUME e.op = "function"
      PROVE  e.name = "LENGTH" /\ e.args[1] \in Checked /\ Deep[e.args[1]] < Deep[e]
  <2>1. e.name = "LENGTH" /\ Len(e.args) = 1 /\ ok[e.args[1]]
    BY Zenon, <1>2, <1>4, CheckOneCases
  <2>2. e.args[1] \in Exprs /\ Deep[e.args[1]] < Deep[e]
    BY <1>2, <1>4, <2>1, PartsAreLess
  <2> QED
    BY <1>1, <2>1, <2>2 DEF Checked
<1>5. ASSUME e.op \notin Leaves
      PROVE  /\ e.left \in Checked /\ Deep[e.left] < Deep[e]
             /\ e.right \in Checked /\ Deep[e.right] < Deep[e]
  <2>1. ok[e.left] /\ ok[e.right]
    BY Zenon, <1>2, <1>5, CheckOneCases
  <2>2. /\ e.left \in Exprs /\ Deep[e.left] < Deep[e]
        /\ e.right \in Exprs /\ Deep[e.right] < Deep[e]
    BY <1>2, <1>5, PartsAreLess
  <2> QED
    BY <1>1, <2>1, <2>2 DEF Checked
<1> QED
  BY <1>2, <1>3, <1>4, <1>5

\* A column that there is has one position.
LEMMA Positions ==
  ASSUME NEW c \in Range(Columns)
  PROVE  Position(Columns, c) \in DOMAIN Columns /\ Columns[Position(Columns, c)] = c
<1>1. PICK i \in DOMAIN Columns : Columns[i] = c
  BY DEF Range
<1>2. \A j \in 1..(i - 1) : Columns[j] # c
  <2> SUFFICES ASSUME NEW j \in 1..(i - 1) PROVE Columns[j] # c
    OBVIOUS
  <2>1. Columns \in Seq(Range(Columns))
    BY ColumnsAssumption
  <2>2. j \in DOMAIN Columns /\ j # i
    BY <2>1
  <2> QED
    BY <1>1, <2>2, ColumnsAssumption
<1> QED
  BY <1>1, <1>2 DEF Position

\* Truth values, lengths and what a function answers are values.
LEMMA ValueTypes ==
  /\ Null \in Value
  /\ \A n \in Int : Int64(n) \in Value
  /\ \A b \in BOOLEAN : Truth(b) \in Value /\ (Truthy(Truth(b)) <=> b)
  /\ \A name : \A v \in Value : ApplyFunction(name, v) \in Value
<1>1. Null \in Value
  BY DEF Value
<1>2. \A n \in Int : Int64(n) \in Value
  BY DEF Value, Int64
<1>3. \A b \in BOOLEAN : Truth(b) \in Value /\ (Truthy(Truth(b)) <=> b)
  BY <1>2 DEF Truth, Truthy, Int64
<1>4. \A name : \A v \in Value : ApplyFunction(name, v) \in Value
  <2> SUFFICES ASSUME NEW name, NEW v \in Value PROVE ApplyFunction(name, v) \in Value
    OBVIOUS
  <2>1. v.type = "text" => v.chars \in Int
    BY DEF Value, Null
  <2> QED
    BY <1>1, <1>2, <2>1 DEF ApplyFunction
<1> QED
  BY <1>1, <1>2, <1>3, <1>4
-----------------------------------------------------------------------------
\* The equation that the evaluation of expressions on row r solves.
EvalOne(value, x, r) ==
  CASE x.op = "column"   -> IF x.name \in Range(Columns) THEN r[Position(Columns, x.name)]
                            ELSE Null
    [] x.op = "literal"  -> x.value
    [] x.op = "function" -> ApplyFunction(x.name, value[x.args[1]])
    [] x.op = "AND"      -> Truth(Truthy(value[x.left]) /\ Truthy(value[x.right]))
    [] x.op = "OR"       -> Truth(Truthy(value[x.left]) \/ Truthy(value[x.right]))
    [] OTHER             -> Truth(Compare(value[x.left], x.op, value[x.right]))

\* What an expression is worth, operator by operator.
LEMMA EvalOneCases ==
  ASSUME NEW value, NEW x, NEW r
  PROVE  /\ x.op = "column" =>
              EvalOne(value, x, r) = IF x.name \in Range(Columns)
                                     THEN r[Position(Columns, x.name)] ELSE Null
         /\ x.op = "literal" => EvalOne(value, x, r) = x.value
         /\ x.op = "function" => EvalOne(value, x, r) = ApplyFunction(x.name, value[x.args[1]])
         /\ x.op = "AND" =>
              EvalOne(value, x, r) = Truth(Truthy(value[x.left]) /\ Truthy(value[x.right]))
         /\ x.op = "OR" =>
              EvalOne(value, x, r) = Truth(Truthy(value[x.left]) \/ Truthy(value[x.right]))
         /\ x.op \notin Leaves \cup {"AND", "OR"} =>
              EvalOne(value, x, r) = Truth(Compare(value[x.left], x.op, value[x.right]))
  BY Zenon DEF EvalOne, Leaves

\* What Evaluation takes of an expression whose parts have values is a value.
LEMMA EvalOneType ==
  ASSUME NEW r \in Row, NEW x \in Checked, NEW f,
         \A y \in Checked : Deep[y] < Deep[x] => f[y] \in Value
  PROVE  EvalOne(f, x, r) \in Value
<1>1. CASE x.op = "column"
  <2>1. x.name \in Range(Columns)
    BY <1>1, CheckedParts
  <2>2. r[Position(Columns, x.name)] \in Value
    BY <2>1, Positions DEF Row
  <2> QED
    BY <1>1, <2>1, <2>2, EvalOneCases
<1>2. CASE x.op = "literal"
  <2>1. x.value \in Value
    BY <1>2, CheckedParts, PartsAreLess
  <2> QED
    BY <1>2, <2>1, EvalOneCases
<1>3. CASE x.op = "function"
  <2>1. f[x.args[1]] \in Value
    BY <1>3, CheckedParts
  <2> QED
    BY <1>3, <2>1, EvalOneCases, ValueTypes
<1>4. CASE x.op \notin Leaves
  <2>1. \A b : Truth(b) \in Value
    BY ValueTypes DEF Truth, Int64, Value
  <2> QED
    BY <1>4, <2>1, EvalOneCases
<1> QED
  BY <1>1, <1>2, <1>3, <1>4 DEF Leaves

\* The value of an expression depends on those of its parts alone.
LEMMA EvalOneLocal ==
  ASSUME NEW r, NEW x \in Checked, NEW f, NEW g,
         \A y \in Checked : Deep[y] < Deep[x] => f[y] = g[y]
  PROVE  EvalOne(f, x, r) = EvalOne(g, x, r)
<1>1. CASE x.op = "function"
  <2>1. f[x.args[1]] = g[x.args[1]]
    BY <1>1, CheckedParts
  <2> QED
    BY <1>1, <2>1, EvalOneCases
<1>2. CASE x.op \notin Leaves
  <2>1. f[x.left] = g[x.left] /\ f[x.right] = g[x.right]
    BY <1>2, CheckedParts
  <2> QED
    BY <1>2, <2>1, EvalOneCases
<1>3. CASE x.op \in {"column", "literal"}
  BY <1>3, EvalOneCases
<1> QED
  BY <1>1, <1>2, <1>3 DEF Leaves

\* Every checked expression has a value, by its parts.
LEMMA Evaluates ==
  ASSUME NEW r \in Row
  PROVE  \E f \in [Checked -> Value] :
           \A x \in Checked : EvalScalar(x, r, Columns) = f[x] /\ f[x] = EvalOne(f, x, r)
<1> DEFINE D == [f \in [Checked -> Value] |-> [x \in Checked |-> EvalOne(f, x, r)]]
           d == [x \in Checked |-> Deep[x]]
           Is(f) == f = [x \in Checked |-> EvalOne(f, x, r)]
           v == CHOOSE f : Is(f)
<1>1. d \in [Checked -> Nat] /\ \A x \in Checked : d[x] = Deep[x]
  BY DeepType DEF Checked
<1>2. D \in [[Checked -> Value] -> [Checked -> Value]]
  <2> SUFFICES ASSUME NEW f \in [Checked -> Value], NEW x \in Checked
               PROVE  EvalOne(f, x, r) \in Value
    OBVIOUS
  <2> QED
    BY EvalOneType
<1>3. \A f \in [Checked -> Value] : \A x \in Checked : D[f][x] = EvalOne(f, x, r)
  OBVIOUS
<1>4. \E f : Is(f)
  <2>1. Descends(D, Checked, Value, d)
    <3> HIDE DEF D, d
    <3>1. Value # {}
      BY ValueTypes
    <3>2. Local(D, Checked, Value, d)
      BY <1>1, <1>3, EvalOneLocal DEF Local
    <3> QED
      BY <1>1, <1>2, <3>1, <3>2 DEF Descends
  <2>2. PICK f \in [Checked -> Value] : \A x \in Checked : f[x] = D[f][x]
    <3> HIDE DEF D, d
    <3> QED
      BY <2>1, TreeRecursion DEF Solvable
  <2>3. \A x \in Checked : f[x] = EvalOne(f, x, r)
    <3> HIDE DEF D
    <3> QED
      BY <1>3, <2>2
  <2>4. Is(f)
    BY <2>3
  <2> QED
    BY <2>4
<1>5. Is(v)
  BY <1>4
<1>6. \A x \in Checked : EvalScalar(x, r, Columns) = v[x]
  BY Zenon DEF EvalScalar, EvalOne
<1> HIDE DEF v
<1>7. \A x \in Checked : v[x] = EvalOne(v, x, r)
  BY <1>5
<1>8. \A x \in Checked : v[x] \in Value
  <2> DEFINE Bad == {x \in Checked : v[x] \notin Value}
  <2>1. CASE Bad # {}
    <3>1. PICK x \in Bad : \A y \in Bad : d[x] <= d[y]
      <4>1. Bad \in SUBSET Checked
        OBVIOUS
      <4> HIDE DEF Bad, d
      <4> QED
        BY <1>1, <2>1, <4>1, Shallowest
    <3> HIDE DEF d
    <3>2. \A y \in Checked : Deep[y] < Deep[x] => v[y] \in Value
      BY <1>1, <3>1
    <3>3. EvalOne(v, x, r) \in Value
      BY <3>1, <3>2, EvalOneType
    <3> QED
      BY <1>7, <3>1, <3>3
  <2> QED
    BY <2>1
<1>9. v \in [Checked -> Value]
  BY <1>5, <1>8
<1> QED
  BY <1>6, <1>7, <1>9
-----------------------------------------------------------------------------
Truths == {"true", "false", "unknown"}

\* The equation that the truth of a condition on row r in three values solves.
SqlOne(truth, x, r) ==
  LET l == truth[x.left]
      m == truth[x.right]
      a == EvalScalar(x.left, r, Columns)
      b == EvalScalar(x.right, r, Columns)
      v == EvalScalar(x, r, Columns)
  IN  CASE x.op = "AND" -> IF "false" \in {l, m} THEN "false"
                           ELSE IF "unknown" \in {l, m} THEN "unknown" ELSE "true"
        [] x.op = "OR"  -> IF "true" \in {l, m} THEN "true"
                           ELSE IF "unknown" \in {l, m} THEN "unknown" ELSE "false"
        [] x.op \in {"column", "literal", "function"} ->
             IF v.type # "int" THEN "unknown" ELSE IF v.v # 0 THEN "true" ELSE "false"
        [] OTHER ->
             IF a.type = "null" \/ a.type # b.type THEN "unknown"
             ELSE IF Holds(a.v, x.op, b.v) THEN "true" ELSE "false"

\* The truth of a condition in SQL, operator by operator.
LEMMA SqlOneCases ==
  ASSUME NEW truth, NEW x, NEW r
  PROVE  LET l == truth[x.left]
             m == truth[x.right]
             a == EvalScalar(x.left, r, Columns)
             b == EvalScalar(x.right, r, Columns)
             v == EvalScalar(x, r, Columns)
         IN  /\ x.op = "AND" =>
                  SqlOne(truth, x, r) = IF "false" \in {l, m} THEN "false"
                                        ELSE IF "unknown" \in {l, m} THEN "unknown" ELSE "true"
             /\ x.op = "OR" =>
                  SqlOne(truth, x, r) = IF "true" \in {l, m} THEN "true"
                                        ELSE IF "unknown" \in {l, m} THEN "unknown" ELSE "false"
             /\ x.op \in Leaves =>
                  SqlOne(truth, x, r) = IF v.type # "int" THEN "unknown"
                                        ELSE IF v.v # 0 THEN "true" ELSE "false"
             /\ x.op \notin Leaves \cup {"AND", "OR"} =>
                  SqlOne(truth, x, r) = IF a.type = "null" \/ a.type # b.type THEN "unknown"
                                        ELSE IF Holds(a.v, x.op, b.v) THEN "true" ELSE "false"
  BY Zenon DEF SqlOne, Leaves

\* A condition has one of the three truth values, by its parts.
LEMMA SqlSolves ==
  ASSUME NEW r
  PROVE  \E t \in [Exprs -> Truths] :
           \A x \in Exprs : Sql(x, r) = t[x] /\ t[x] = SqlOne(t, x, r)
<1> DEFINE D == [t \in [Exprs -> Truths] |-> [x \in Exprs |-> SqlOne(t, x, r)]]
           Is(t) == t = [x \in Exprs |-> SqlOne(t, x, r)]
           s == CHOOSE t : Is(t)
<1>1. \A t, x : SqlOne(t, x, r) \in Truths
  <2> SUFFICES ASSUME NEW t, NEW x PROVE SqlOne(t, x, r) \in Truths
    OBVIOUS
  <2>1. CASE x.op \in Leaves
    BY <2>1, SqlOneCases DEF Truths
  <2>2. CASE x.op \in {"AND", "OR"}
    BY <2>2, SqlOneCases DEF Truths
  <2>3. CASE x.op \notin Leaves \cup {"AND", "OR"}
    BY <2>3, SqlOneCases DEF Truths
  <2> QED
    BY <2>1, <2>2, <2>3
<1>2. D \in [[Exprs -> Truths] -> [Exprs -> Truths]]
  BY <1>1
<1>3. \A t \in [Exprs -> Truths] : \A x \in Exprs : D[t][x] = SqlOne(t, x, r)
  OBVIOUS
<1>4. ASSUME NEW f, NEW g, NEW x \in Exprs,
             \A y \in Exprs : Deep[y] < Deep[x] => f[y] = g[y]
      PROVE  SqlOne(f, x, r) = SqlOne(g, x, r)
  <2>1. CASE x.op \in Leaves
    BY <2>1, SqlOneCases
  <2>2. CASE x.op \in {"AND", "OR"}
    <3>1. x.op \notin Leaves
      BY <2>2 DEF Leaves
    <3>2. f[x.left] = g[x.left] /\ f[x.right] = g[x.right]
      BY <1>4, <3>1, PartsAreLess
    <3> QED
      BY <2>2, <3>2, SqlOneCases
  <2>3. CASE x.op \notin Leaves \cup {"AND", "OR"}
    BY <2>3, SqlOneCases
  <2> QED
    BY <2>1, <2>2, <2>3
<1>5. \E t : Is(t)
  <2>1. Descends(D, Exprs, Truths, Deep)
    <3> HIDE DEF D
    <3>1. Truths # {}
      BY DEF Truths
    <3>2. Local(D, Exprs, Truths, Deep)
      BY <1>3, <1>4 DEF Local
    <3> QED
      BY <1>2, <3>1, <3>2, DeepType DEF Descends
  <2>2. PICK t \in [Exprs -> Truths] : \A x \in Exprs : t[x] = D[t][x]
    <3> HIDE DEF D
    <3> QED
      BY <2>1, TreeRecursion DEF Solvable
  <2>3. \A x \in Exprs : t[x] = SqlOne(t, x, r)
    <3> HIDE DEF D
    <3> QED
      BY <1>3, <2>2
  <2>4. Is(t)
    BY <2>3
  <2> QED
    BY <2>4
<1>6. Is(s)
  BY <1>5
<1>7. \A x \in Exprs : Sql(x, r) = s[x]
  BY Zenon DEF Sql, SqlOne
<1> HIDE DEF s
<1>8. \A x \in Exprs : s[x] = SqlOne(s, x, r)
  BY <1>6
<1>9. s \in [Exprs -> Truths]
  BY <1>1, <1>6, <1>8
<1> QED
  BY <1>7, <1>8, <1>9

\* A condition is true in three values when it is in two.
LEMMA TruthsAgree ==
  ASSUME NEW r \in Row, NEW e \in Checked
  PROVE  Sql(e, r) = "true" <=> EvalPredicate(e, r, Columns)
<1>1. PICK f \in [Checked -> Value] :
        \A x \in Checked : EvalScalar(x, r, Columns) = f[x] /\ f[x] = EvalOne(f, x, r)
  BY Evaluates
<1>2. PICK t \in [Exprs -> Truths] :
        \A x \in Exprs : Sql(x, r) = t[x] /\ t[x] = SqlOne(t, x, r)
  BY SqlSolves
<1> DEFINE Good(x) == t[x] = "true" <=> Truthy(f[x])
           Bad == {x \in Checked : ~Good(x)}
           d == [x \in Checked |-> Deep[x]]
<1>3. ASSUME NEW x \in Checked, \A y \in Checked : Deep[y] < Deep[x] => Good(y)
      PROVE  Good(x)
  <2>1. x \in Exprs
    BY CheckedParts
  <2>2. CASE x.op \in Leaves
    <3>1. t[x] = IF f[x].type # "int" THEN "unknown" ELSE IF f[x].v # 0 THEN "true" ELSE "false"
      BY <1>1, <1>2, <2>1, <2>2, SqlOneCases
    <3> QED
      BY <3>1 DEF Truthy
  <2>3. CASE x.op \notin Leaves
    <3>1. x.left \in Checked /\ x.right \in Checked /\ Good(x.left) /\ Good(x.right)
      BY <1>3, <2>3, CheckedParts
    <3>2. x.left \in Exprs /\ x.right \in Exprs
      BY <3>1, CheckedParts
    <3>3. t[x.left] \in Truths /\ t[x.right] \in Truths
      BY <3>2
    <3>4. CASE x.op = "AND"
      <4>1. f[x] = Truth(Truthy(f[x.left]) /\ Truthy(f[x.right]))
        BY <1>1, <3>4, EvalOneCases
      <4>2. Truthy(f[x]) <=> Truthy(f[x.left]) /\ Truthy(f[x.right])
        BY <4>1 DEF Truth, Truthy, Int64
      <4>3. t[x] = IF "false" \in {t[x.left], t[x.right]} THEN "false"
                   ELSE IF "unknown" \in {t[x.left], t[x.right]} THEN "unknown" ELSE "true"
        BY <1>2, <2>1, <3>4, SqlOneCases
      <4> QED
        BY <3>1, <3>3, <4>2, <4>3 DEF Truths
    <3>5. CASE x.op = "OR"
      <4>1. f[x] = Truth(Truthy(f[x.left]) \/ Truthy(f[x.right]))
        BY <1>1, <3>5, EvalOneCases
      <4>2. Truthy(f[x]) <=> Truthy(f[x.left]) \/ Truthy(f[x.right])
        BY <4>1 DEF Truth, Truthy, Int64
      <4>3. t[x] = IF "true" \in {t[x.left], t[x.right]} THEN "true"
                   ELSE IF "unknown" \in {t[x.left], t[x.right]} THEN "unknown" ELSE "false"
        BY <1>2, <2>1, <3>5, SqlOneCases
      <4> QED
        BY <3>1, <3>3, <4>2, <4>3 DEF Truths
    <3>6. CASE x.op \notin {"AND", "OR"}
      <4> DEFINE a == f[x.left]
                 b == f[x.right]
      <4>1. x.op \notin Leaves \cup {"AND", "OR"}
        BY <2>3, <3>6
      <4>2. f[x] = Truth(Compare(a, x.op, b))
        BY <1>1, <4>1, EvalOneCases
      <4>3. Truthy(f[x]) <=> a.type # "null" /\ a.type = b.type /\ Holds(a.v, x.op, b.v)
        BY <4>2 DEF Truth, Truthy, Int64, Compare
      <4>4. EvalScalar(x.left, r, Columns) = a /\ EvalScalar(x.right, r, Columns) = b
        BY <1>1, <3>1
      <4>5. t[x] = IF a.type = "null" \/ a.type # b.type THEN "unknown"
                   ELSE IF Holds(a.v, x.op, b.v) THEN "true" ELSE "false"
        BY <1>2, <2>1, <4>1, <4>4, SqlOneCases
      <4> QED
        BY <4>3, <4>5
    <3> QED
      BY <3>4, <3>5, <3>6
  <2> QED
    BY <2>2, <2>3
<1>4. d \in [Checked -> Nat] /\ \A x \in Checked : d[x] = Deep[x]
  BY DeepType DEF Checked
<1>5. Bad = {}
  <2> SUFFICES ASSUME Bad # {} PROVE FALSE
    OBVIOUS
  <2>1. PICK x \in Bad : \A y \in Bad : d[x] <= d[y]
    <3>1. Bad \in SUBSET Checked
      OBVIOUS
    <3> HIDE DEF Bad, d
    <3> QED
      BY <1>4, <3>1, Shallowest
  <2> HIDE DEF d, Good
  <2>2. \A y \in Checked : Deep[y] < Deep[x] => Good(y)
    BY <1>4, <2>1
  <2> QED
    BY <1>3, <2>1, <2>2
<1>6. Good(e)
  BY <1>5
<1> QED
  BY <1>1, <1>2, <1>6, CheckedParts DEF EvalPredicate
-----------------------------------------------------------------------------
\* R is a strict total order of S.
Orders(R, S) ==
  /\ \A a \in S : <<a, a>> \notin R
  /\ \A a, b, c \in S : <<a, b>> \in R /\ <<b, c>> \in R => <<a, c>> \in R
  /\ \A a, b \in S : a = b \/ <<a, b>> \in R \/ <<b, a>> \in R

\* How many members of S come before a.
Rank(R, S, a) == Cardinality({b \in S : <<b, a>> \in R})

\* m lists members of S in order.
Ascends(m, n, R, S) ==
  /\ m \in [1..n -> S]
  /\ \A x, y \in 1..n : x < y => <<m[x], m[y]>> \in R

\* Ranks are in order, and every number below the size of S is one.
LEMMA Ranks ==
  ASSUME NEW S, IsFiniteSet(S), NEW R, Orders(R, S)
  PROVE  /\ \A a \in S : Rank(R, S, a) \in 0..(Cardinality(S) - 1)
         /\ \A a, b \in S : <<a, b>> \in R => Rank(R, S, a) < Rank(R, S, b)
         /\ \A n \in 0..(Cardinality(S) - 1) : \E a \in S : Rank(R, S, a) = n
<1> DEFINE Before1(a) == {b \in S : <<b, a>> \in R}
           n == Cardinality(S)
<1>1. n \in Nat
  BY FS_CardinalityType
<1>2. \A a \in S : IsFiniteSet(Before1(a)) /\ Cardinality(Before1(a)) \in Nat
  <2>1. \A a \in S : IsFiniteSet(Before1(a))
    BY FS_Subset
  <2> QED
    BY <2>1, FS_CardinalityType
<1>3. \A a \in S : Rank(R, S, a) = Cardinality(Before1(a))
  BY DEF Rank
<1>4. ASSUME NEW T, IsFiniteSet(T), NEW U, U \subseteq T, NEW x, x \in T, x \notin U
      PROVE  Cardinality(U) < Cardinality(T)
  <2>1. IsFiniteSet(U) /\ Cardinality(U) <= Cardinality(T) /\ (Cardinality(T) = Cardinality(U) => T = U)
    BY <1>4, FS_Subset
  <2>2. Cardinality(U) \in Nat /\ Cardinality(T) \in Nat /\ T # U
    BY <1>4, <2>1, FS_CardinalityType
  <2> QED
    BY <2>1, <2>2
<1> HIDE DEF n
<1>5. ASSUME NEW a \in S PROVE Rank(R, S, a) \in 0..(n - 1)
  <2>1. Before1(a) \subseteq S /\ a \notin Before1(a)
    BY DEF Orders
  <2>2. Cardinality(Before1(a)) < n
    <3> HIDE DEF Before1
    <3> QED
      BY <1>4, <2>1 DEF n
  <2>3. Cardinality(Before1(a)) \in Nat /\ Rank(R, S, a) = Cardinality(Before1(a))
    BY <1>2, <1>3
  <2> HIDE DEF Before1
  <2> QED
    BY <1>1, <2>2, <2>3
<1>6. ASSUME NEW a \in S, NEW b \in S, <<a, b>> \in R PROVE Rank(R, S, a) < Rank(R, S, b)
  <2>1. Before1(a) \subseteq Before1(b) /\ a \in Before1(b) /\ a \notin Before1(a)
    BY <1>6 DEF Orders
  <2>2. Cardinality(Before1(a)) < Cardinality(Before1(b))
    <3> HIDE DEF Before1
    <3> QED
      BY <1>2, <1>4, <2>1
  <2> QED
    BY <1>3, <2>2
<1>7. ASSUME NEW k \in 0..(n - 1) PROVE \E a \in S : Rank(R, S, a) = k
  <2> DEFINE f == [a \in S |-> Rank(R, S, a)]
             T == 0..(n - 1)
  <2>1. f \in [S -> T]
    BY <1>5
  <2>2. \A a, b \in S : f[a] = f[b] => a = b
    <3> SUFFICES ASSUME NEW a \in S, NEW b \in S, f[a] = f[b] PROVE a = b
      OBVIOUS
    <3>1. Rank(R, S, a) = Rank(R, S, b) /\ Rank(R, S, a) \in Int /\ Rank(R, S, b) \in Int
      BY <1>5
    <3>2. <<a, b>> \notin R /\ <<b, a>> \notin R
      BY <1>6, <3>1
    <3> QED
      BY <3>2 DEF Orders
  <2>3. f \in Injection(S, T)
    <3> HIDE DEF f, T
    <3> QED
      BY <2>1, <2>2 DEF Injection, IsInjective
  <2>4. IsFiniteSet(T) /\ Cardinality(T) = n
    BY <1>1, FS_Interval
  <2>5. f \in Surjection(S, T)
    <3> HIDE DEF f, T
    <3> QED
      BY <2>3, <2>4, FS_Injection DEF n
  <2>6. \A t \in T : \E a \in S : f[a] = t
    <3> HIDE DEF f, T
    <3> QED
      BY <2>5 DEF Surjection
  <2> QED
    BY <2>6
<1> QED
  BY <1>5, <1>6, <1>7 DEF n

\* Members listed by their ranks are in order.
LEMMA RankedAscends ==
  ASSUME NEW S, IsFiniteSet(S), NEW R, Orders(R, S), NEW n, n = Cardinality(S), NEW m,
         m \in [1..n -> S], \A x \in 1..n : Rank(R, S, m[x]) = x - 1
  PROVE  Ascends(m, n, R, S)
<1>1. n \in Nat
  BY FS_CardinalityType
<1>2. \A x \in 1..n : m[x] \in S
  OBVIOUS
<1>3. ASSUME NEW x \in 1..n, NEW y \in 1..n, x < y PROVE <<m[x], m[y]>> \in R
  <2>1. x \in Int /\ y \in Int
    BY <1>1
  <2>2. m[x] # m[y]
    BY <1>3, <2>1
  <2>3. <<m[y], m[x]>> \notin R
    <3>1. <<m[y], m[x]>> \in R => Rank(R, S, m[y]) < Rank(R, S, m[x])
      BY <1>2, Ranks
    <3> QED
      BY <1>3, <2>1, <3>1
  <2> QED
    BY <1>2, <2>2, <2>3 DEF Orders
<1> QED
  BY <1>3 DEF Ascends

\* Every finite set can be listed in order.
LEMMA Arrangement ==
  ASSUME NEW S, IsFiniteSet(S), NEW R, Orders(R, S)
  PROVE  \E m : Ascends(m, Cardinality(S), R, S)
<1> DEFINE n == Cardinality(S)
           m == [x \in 1..n |-> CHOOSE a \in S : Rank(R, S, a) = x - 1]
<1>1. n \in Nat
  BY FS_CardinalityType
<1> HIDE DEF n
<1>2. \A x \in 1..n : m[x] \in S /\ Rank(R, S, m[x]) = x - 1
  <2> SUFFICES ASSUME NEW x \in 1..n PROVE m[x] \in S /\ Rank(R, S, m[x]) = x - 1
    OBVIOUS
  <2>1. x - 1 \in 0..(n - 1)
    BY <1>1
  <2>2. \E a \in S : Rank(R, S, a) = x - 1
    BY <2>1, Ranks DEF n
  <2> QED
    BY <2>2
<1>3. m \in [1..n -> S]
  BY <1>2
<1> HIDE DEF m
<1> QED
  BY <1>2, <1>3, RankedAscends DEF n

\* An ordered list repeats nothing, and lists all of a set if it is as long.
LEMMA AscendsOnto ==
  ASSUME NEW S, IsFiniteSet(S), NEW R, Orders(R, S), NEW m, Ascends(m, Cardinality(S), R, S)
  PROVE  /\ \A x, y \in 1..Cardinality(S) : m[x] = m[y] => x = y
         /\ \A a \in S : \E x \in 1..Cardinality(S) : m[x] = a
<1> DEFINE n == Cardinality(S)
           T == 1..n
<1>1. n \in Nat
  BY FS_CardinalityType
<1>2. m \in [T -> S] /\ \A x, y \in T : x < y => <<m[x], m[y]>> \in R
  BY DEF Ascends
<1>3. \A x, y \in T : m[x] = m[y] => x = y
  <2> SUFFICES ASSUME NEW x \in T, NEW y \in T, x < y PROVE m[x] # m[y]
    BY <1>1
  <2> HIDE DEF T
  <2> QED
    BY <1>2 DEF Orders
<1>4. IsFiniteSet(T) /\ Cardinality(T) = n
  BY <1>1, FS_Interval
<1>5. m \in Injection(T, S)
  <2> HIDE DEF T
  <2> QED
    BY <1>2, <1>3 DEF Injection, IsInjective
<1>6. m \in Surjection(T, S)
  <2> HIDE DEF T
  <2> QED
    BY <1>4, <1>5, FS_Injection
<1>7. \A a \in S : \E x \in T : m[x] = a
  <2> HIDE DEF T
  <2> QED
    BY <1>6 DEF Surjection
<1> QED
  BY <1>3, <1>7

\* There is one ordered list of a set.
LEMMA OneArrangement ==
  ASSUME NEW S, IsFiniteSet(S), NEW R, Orders(R, S), NEW n, n = Cardinality(S),
         NEW m, Ascends(m, n, R, S), NEW k, Ascends(k, n, R, S)
  PROVE  m = k
<1>1. n \in Nat
  BY FS_CardinalityType
<1>2. /\ m \in [1..n -> S] /\ k \in [1..n -> S]
      /\ \A x, y \in 1..n : x < y => <<m[x], m[y]>> \in R /\ <<k[x], k[y]>> \in R
  BY DEF Ascends
<1>3. /\ \A x, y \in 1..n : m[x] = m[y] => x = y
      /\ \A x, y \in 1..n : k[x] = k[y] => x = y
      /\ \A a \in S : \E x \in 1..n : m[x] = a
      /\ \A a \in S : \E x \in 1..n : k[x] = a
  BY AscendsOnto
<1> DEFINE Bad == {x \in 1..n : m[x] # k[x]}
<1>4. Bad = {}
  <2> SUFFICES ASSUME Bad # {} PROVE FALSE
    OBVIOUS
  <2>1. PICK x \in Bad : \A y \in Bad : x <= y
    <3>1. Bad \in SUBSET Nat
      BY <1>1
    <3> HIDE DEF Bad
    <3> QED
      BY <3>1, Least
  <2>2. x \in 1..n /\ m[x] # k[x] /\ \A y \in 1..n : y < x => m[y] = k[y]
    BY <1>1, <2>1
  <2>3. m[x] \in S /\ k[x] \in S
    BY <1>2, <2>2
  <2>4. PICK y \in 1..n : k[y] = m[x]
    BY <1>3, <2>3
  <2>5. PICK z \in 1..n : m[z] = k[x]
    BY <1>3, <2>3
  <2>6. x < y
    <3>1. x # y
      BY <2>2, <2>4
    <3>2. ~(y < x)
      BY <1>3, <2>2, <2>4, <3>1
    <3> QED
      BY <1>1, <2>2, <3>1, <3>2
  <2>7. x < z
    <3>1. x # z
      BY <2>2, <2>5
    <3>2. ~(z < x)
      BY <1>3, <2>2, <2>5, <3>1
    <3> QED
      BY <1>1, <2>2, <3>1, <3>2
  <2>8. <<k[x], k[y]>> \in R /\ <<m[x], m[z]>> \in R
    BY <1>2, <2>2, <2>6, <2>7
  <2> QED
    BY <2>3, <2>4, <2>5, <2>8 DEF Orders
<1>5. \A x \in 1..n : m[x] = k[x]
  BY <1>4
<1>6. m = [x \in 1..n |-> m[x]] /\ k = [x \in 1..n |-> k[x]]
  BY <1>2
<1>7. [x \in 1..n |-> m[x]] = [x \in 1..n |-> k[x]]
  BY <1>5
<1> QED
  BY Zenon, <1>6, <1>7
-----------------------------------------------------------------------------
Given == stmt \in Statements /\ table \in Tables /\ Accepted(stmt)

\* The order of the rows of the table in the answer.
RowOrder == {p \in (DOMAIN table) \X (DOMAIN table) : Before(p[1], p[2])}

\* Values are ordered up to ties.
LEMMA ValueOrder ==
  /\ \A a \in Value : ~ValueLess(a, a)
  /\ \A a, b, c \in Value : ValueLess(a, b) /\ ValueLess(b, c) => ValueLess(a, c)
  /\ \A a, b, c \in Value : ValueLess(a, b) => ValueLess(a, c) \/ ValueLess(c, b)
<1>1. \A a \in Value : a.type \in {"null", "int", "text"} /\ (a.type # "null" => a.v \in Int)
  BY DEF Value, Null
<1>2. \A a \in Value : ~ValueLess(a, a)
  BY <1>1 DEF ValueLess
<1>3. \A a, b, c \in Value : ValueLess(a, b) /\ ValueLess(b, c) => ValueLess(a, c)
  BY <1>1 DEF ValueLess
<1>4. \A a, b, c \in Value : ValueLess(a, b) => ValueLess(a, c) \/ ValueLess(c, b)
  BY <1>1 DEF ValueLess
<1> QED
  BY <1>2, <1>3, <1>4

\* The table is a sequence of rows, and those wanted are some of them.
LEMMA TableType ==
  ASSUME Given
  PROVE  /\ table \in Seq(Row) /\ DOMAIN table = 1..Len(table) /\ Len(table) \in Nat
         /\ \A i \in DOMAIN table : table[i] \in Row
         /\ WantedRows \subseteq DOMAIN table /\ IsFiniteSet(WantedRows)
         /\ Cardinality(WantedRows) \in Nat
<1>1. table \in Seq(Row)
  BY TablesAssumption DEF Given
<1>2. DOMAIN table = 1..Len(table) /\ Len(table) \in Nat
  BY <1>1
<1>3. WantedRows \subseteq DOMAIN table
  BY DEF WantedRows
<1>4. IsFiniteSet(1..Len(table))
  BY <1>2, FS_Interval
<1>5. IsFiniteSet(WantedRows)
  BY <1>2, <1>3, <1>4, FS_Subset
<1> QED
  BY <1>1, <1>2, <1>3, <1>5, FS_CardinalityType

\* The planner accepted the sort's column, so every row has a value in it.
LEMMA KeyType ==
  ASSUME Given, stmt.order # None, NEW i \in DOMAIN table
  PROVE  Key(i) \in Value
<1>1. stmt.order.column \in Range(Columns)
  BY DEF Given, Accepted
<1> QED
  BY <1>1, TableType, Positions DEF Key, Row

\* Before is a strict total order: ties are as in the table.
LEMMA BeforeOrders ==
  ASSUME Given
  PROVE  Orders(RowOrder, DOMAIN table)
<1>1. \A i \in DOMAIN table : i \in Int
  BY TableType
<1>2. \A i, j \in DOMAIN table : <<i, j>> \in RowOrder <=> Before(i, j)
  BY DEF RowOrder
<1>3. CASE stmt.order = None
  <2>1. \A i, j \in DOMAIN table : Before(i, j) <=> i < j
    BY <1>3 DEF Before
  <2> QED
    BY <1>1, <1>2, <2>1 DEF Orders
<1>4. CASE stmt.order # None
  <2> DEFINE Up(i, j) == IF stmt.order.descending THEN ValueLess(Key(j), Key(i))
                         ELSE ValueLess(Key(i), Key(j))
             Tie(i, j) == ~Up(i, j) /\ ~Up(j, i)
  <2>1. \A i, j \in DOMAIN table : Before(i, j) <=> Up(i, j) \/ (Tie(i, j) /\ i < j)
    BY <1>4 DEF Before
  <2>2. \A i \in DOMAIN table : Key(i) \in Value
    BY <1>4, KeyType
  <2>3. \A i \in DOMAIN table : ~Up(i, i)
    BY <2>2, ValueOrder
  <2>4. \A i, j, k \in DOMAIN table : Up(i, j) /\ Up(j, k) => Up(i, k)
    BY <2>2, ValueOrder
  <2>5. \A i, j, k \in DOMAIN table : Up(i, j) => Up(i, k) \/ Up(k, j)
    BY <2>2, ValueOrder
  <2> HIDE DEF Up
  <2>6. \A a \in DOMAIN table : <<a, a>> \notin RowOrder
    BY <1>1, <1>2, <2>1, <2>3
  <2>7. ASSUME NEW a \in DOMAIN table, NEW b \in DOMAIN table, NEW c \in DOMAIN table,
               <<a, b>> \in RowOrder, <<b, c>> \in RowOrder
        PROVE  <<a, c>> \in RowOrder
    <3>1. Before(a, b) /\ Before(b, c)
      BY <1>2, <2>7
    <3>2. (Up(a, b) \/ (Tie(a, b) /\ a < b)) /\ (Up(b, c) \/ (Tie(b, c) /\ b < c))
      BY <2>1, <3>1
    <3>3. Up(a, c) \/ (Tie(a, c) /\ a < c)
      <4>1. CASE Up(a, b) /\ Up(b, c)
        BY <2>4, <4>1
      <4>2. CASE Up(a, b) /\ Tie(b, c)
        BY <2>5, <4>2
      <4>3. CASE Tie(a, b) /\ Up(b, c)
        BY <2>5, <4>3
      <4>4. CASE Tie(a, b) /\ Tie(b, c) /\ a < b /\ b < c
        <5>1. Tie(a, c)
          BY <2>5, <4>4
        <5> QED
          BY <1>1, <4>4, <5>1
      <4> QED
        BY <3>2, <4>1, <4>2, <4>3, <4>4
    <3> QED
      BY <1>2, <2>1, <3>3
  <2>8. \A a, b \in DOMAIN table : a = b \/ <<a, b>> \in RowOrder \/ <<b, a>> \in RowOrder
    <3> SUFFICES ASSUME NEW a \in DOMAIN table, NEW b \in DOMAIN table, a # b
                 PROVE  Before(a, b) \/ Before(b, a)
      BY <1>2
    <3>1. a < b \/ b < a
      BY <1>1
    <3>2. Up(a, b) \/ Up(b, a) \/ (Tie(a, b) /\ Tie(b, a))
      OBVIOUS
    <3> HIDE DEF Tie
    <3> QED
      BY <2>1, <3>1, <3>2
  <2> QED
    BY <2>6, <2>7, <2>8 DEF Orders
<1> QED
  BY <1>3, <1>4

\* The rows wanted are ordered as the table's rows are.
LEMMA WantedOrders ==
  ASSUME Given
  PROVE  Orders(RowOrder, WantedRows)
  BY BeforeOrders, TableType DEF Orders

\* The meaning of a statement lists the rows it wants, each once and in order.
LEMMA Meant ==
  ASSUME Given
  PROVE  /\ Ascends(Meaning, Cardinality(WantedRows), RowOrder, WantedRows)
         /\ Meaning \in Seq(WantedRows) /\ Len(Meaning) = Cardinality(WantedRows)
         /\ \A x \in 1..Len(Meaning) : Meaning[x] \in WantedRows /\ Meaning[x] \in 1..Len(table)
         /\ \A x, y \in 1..Len(Meaning) : x < y => Before(Meaning[x], Meaning[y])
         /\ \A x, y \in 1..Len(Meaning) : Meaning[x] = Meaning[y] => x = y
         /\ \A a \in WantedRows : \E x \in 1..Len(Meaning) : Meaning[x] = a
<1> DEFINE n == Cardinality(WantedRows)
           Fine(m) == m \in [1..n -> WantedRows] /\ \A x, y \in DOMAIN m : x < y => Before(m[x], m[y])
<1>1. n \in Nat /\ IsFiniteSet(WantedRows) /\ WantedRows \subseteq 1..Len(table)
  BY TableType
<1> HIDE DEF n
<1>2. \E m : Ascends(m, n, RowOrder, WantedRows)
  BY <1>1, Arrangement, WantedOrders DEF n
<1>3. \E m \in [1..n -> WantedRows] : \A x, y \in DOMAIN m : x < y => Before(m[x], m[y])
  <2>1. PICK m : Ascends(m, n, RowOrder, WantedRows)
    BY <1>2
  <2>2. m \in [1..n -> WantedRows] /\ \A x, y \in 1..n : x < y => <<m[x], m[y]>> \in RowOrder
    BY <2>1 DEF Ascends
  <2>3. \A i, j : <<i, j>> \in RowOrder => Before(i, j)
    BY DEF RowOrder
  <2> QED
    BY <2>2, <2>3
<1>4. Meaning \in [1..n -> WantedRows] /\ \A x, y \in DOMAIN Meaning : x < y => Before(Meaning[x], Meaning[y])
  BY <1>3 DEF Meaning, n
<1>5. Meaning \in Seq(WantedRows) /\ Len(Meaning) = n
  BY <1>1, <1>4
<1>6. Ascends(Meaning, n, RowOrder, WantedRows)
  <2>1. \A x \in 1..n : Meaning[x] \in DOMAIN table
    BY <1>4, TableType
  <2> QED
    BY <1>4, <2>1 DEF Ascends, RowOrder
<1>7. /\ \A x, y \in 1..n : Meaning[x] = Meaning[y] => x = y
      /\ \A a \in WantedRows : \E x \in 1..n : Meaning[x] = a
  BY <1>1, <1>6, AscendsOnto, WantedOrders DEF n
<1> QED
  BY <1>1, <1>4, <1>5, <1>6, <1>7 DEF n

\* b has the rows of the positions S in order, and k lists those positions.
Lists(rows, k, b, S) ==
  /\ k \in [1..Len(b) -> S]
  /\ \A i \in S : \E x \in 1..Len(b) : k[x] = i
  /\ \A x, y \in 1..Len(b) : x < y => k[x] < k[y]
  /\ \A x \in 1..Len(b) : b[x] = rows[k[x]]

\* Sorting what the table has of the wanted rows gives what the statement means.
LEMMA SortsRows ==
  ASSUME Given, stmt.order # None, NEW b \in Seq(Row), NEW k, Lists(table, k, b, WantedRows)
  PROVE  LET s == SortBy(b, Position(Columns, stmt.order.column), stmt.order.descending)
         IN  /\ s \in Seq(Row) /\ Len(s) = Len(Meaning)
             /\ \A x \in 1..Len(s) : s[x] = table[Meaning[x]]
<1> DEFINE n == Len(b)
           T == 1..n
           c == Position(Columns, stmt.order.column)
           Up(i, j) == IF stmt.order.descending THEN ValueLess(b[j][c], b[i][c])
                       ELSE ValueLess(b[i][c], b[j][c])
           Early(i, j) == Up(i, j) \/ (~Up(j, i) /\ i < j)
           R == {p \in T \X T : Early(p[1], p[2])}
           s == SortBy(b, c, stmt.order.descending)
           m == [x \in T |-> CHOOSE i \in T : 1 + Cardinality({j \in T : Early(j, i)}) = x]
           q == [x \in T |-> k[m[x]]]
<1>1. n \in Nat /\ DOMAIN b = T /\ \A x \in T : x \in Int
  OBVIOUS
<1>2. /\ WantedRows \subseteq DOMAIN table /\ IsFiniteSet(WantedRows)
      /\ \A i \in DOMAIN table : i \in Int /\ table[i] \in Row
  BY TableType
<1>3. s = [x \in T |-> b[m[x]]]
  BY <1>1 DEF SortBy
<1> HIDE DEF n, s
<1>4. /\ k \in [T -> WantedRows] /\ \A i \in WantedRows : \E x \in T : k[x] = i
      /\ \A x, y \in T : x < y => k[x] < k[y]
      /\ \A x \in T : b[x] = table[k[x]] /\ k[x] \in DOMAIN table /\ k[x] \in Int
  BY <1>2 DEF Lists, n
<1>5. IsFiniteSet(T) /\ Cardinality(T) = n
  BY <1>1, FS_Interval
<1>6. \A x, y \in T : (x < y <=> k[x] < k[y]) /\ (x = y <=> k[x] = k[y])
  <2> SUFFICES ASSUME NEW x \in T, NEW y \in T
               PROVE  (x < y <=> k[x] < k[y]) /\ (x = y <=> k[x] = k[y])
    OBVIOUS
  <2>1. x \in Int /\ y \in Int /\ k[x] \in Int /\ k[y] \in Int
    BY <1>1, <1>4
  <2>2. (x < y => k[x] < k[y]) /\ (y < x => k[y] < k[x])
    BY <1>4
  <2> HIDE DEF T
  <2> QED
    BY <2>1, <2>2
<1>7. Cardinality(WantedRows) = n
  <2>1. k \in Injection(T, WantedRows)
    <3> HIDE DEF T
    <3> QED
      BY <1>4, <1>6 DEF Injection, IsInjective
  <2>2. k \in Surjection(T, WantedRows)
    <3> HIDE DEF T
    <3> QED
      BY <1>4 DEF Surjection
  <2> HIDE DEF T
  <2> QED
    BY <1>5, <2>1, <2>2, FS_Surjection
<1>8. ASSUME NEW i \in T, NEW j \in T PROVE <<i, j>> \in R <=> <<k[i], k[j]>> \in RowOrder
  <2>1. b[i][c] = Key(k[i]) /\ b[j][c] = Key(k[j])
    BY <1>4 DEF Key
  <2>2. Early(i, j) <=> Before(k[i], k[j])
    BY <1>6, <2>1 DEF Before
  <2>3. <<k[i], k[j]>> \in RowOrder <=> Before(k[i], k[j])
    BY <1>4 DEF RowOrder
  <2> HIDE DEF T, Early
  <2> QED
    BY <2>2, <2>3
<1>9. \A i \in T : Cardinality({j \in T : Early(j, i)}) = Rank(R, T, i)
  <2> SUFFICES ASSUME NEW i \in T PROVE Cardinality({j \in T : Early(j, i)}) = Rank(R, T, i)
    OBVIOUS
  <2> HIDE DEF T, Early
  <2>1. {j \in T : Early(j, i)} = {j \in T : <<j, i>> \in R}
    OBVIOUS
  <2> QED
    BY <2>1 DEF Rank
<1> HIDE DEF R, Early
<1>10. Orders(R, T)
  <2>1. Orders(RowOrder, WantedRows)
    BY WantedOrders
  <2>2. \A i \in T : k[i] \in WantedRows
    BY <1>4
  <2> HIDE DEF T
  <2>3. \A i \in T : <<i, i>> \notin R
    BY <1>8, <2>1, <2>2 DEF Orders
  <2>4. \A i, j, l \in T : <<i, j>> \in R /\ <<j, l>> \in R => <<i, l>> \in R
    BY <1>8, <2>1, <2>2 DEF Orders
  <2>5. \A i, j \in T : i = j \/ <<i, j>> \in R \/ <<j, i>> \in R
    BY <1>6, <1>8, <2>1, <2>2 DEF Orders
  <2> QED
    BY <2>3, <2>4, <2>5 DEF Orders
<1>11. ASSUME NEW x \in T PROVE m[x] \in T /\ Rank(R, T, m[x]) = x - 1
  <2>1. x - 1 \in 0..(Cardinality(T) - 1)
    BY <1>1, <1>5
  <2>2. \A i \in T : Rank(R, T, i) \in 0..(Cardinality(T) - 1)
    <3> HIDE DEF T
    <3> QED
      BY <1>5, <1>10, Ranks
  <2>3. \E i \in T : Rank(R, T, i) = x - 1
    <3> HIDE DEF T
    <3> QED
      BY <1>5, <1>10, <2>1, Ranks
  <2>4. x \in Int
    BY <1>1
  <2>5. \E i \in T : 1 + Cardinality({j \in T : Early(j, i)}) = x
    <3> HIDE DEF T
    <3> QED
      BY <1>9, <2>3, <2>4
  <2>6. m[x] \in T /\ 1 + Cardinality({j \in T : Early(j, m[x])}) = x
    <3> HIDE DEF T
    <3> QED
      BY <2>5
  <2>7. Rank(R, T, m[x]) \in Int
    BY <2>2, <2>6, <1>1, <1>5
  <2> HIDE DEF T, m
  <2>8. Cardinality({j \in T : Early(j, m[x])}) = Rank(R, T, m[x])
    BY <1>9, <2>6
  <2>9. 1 + Rank(R, T, m[x]) = x
    BY Zenon, <2>6, <2>8
  <2> QED
    BY <2>4, <2>6, <2>7, <2>9
<1>12. m \in [T -> T]
  BY <1>11
<1> HIDE DEF m
<1>13. Ascends(m, n, R, T)
  BY <1>5, <1>10, <1>11, <1>12, RankedAscends
<1>14. Ascends(q, n, RowOrder, WantedRows)
  <2>1. \A x, y \in T : x < y => <<m[x], m[y]>> \in R
    BY <1>13 DEF Ascends
  <2>2. q \in [T -> WantedRows]
    BY <1>4, <1>12
  <2>3. \A x, y \in T : x < y => <<q[x], q[y]>> \in RowOrder
    BY <1>8, <1>12, <2>1
  <2> HIDE DEF q
  <2> QED
    BY <2>2, <2>3 DEF Ascends
<1>15. q = Meaning
  <2>1. Ascends(Meaning, n, RowOrder, WantedRows)
    BY <1>7, Meant
  <2> HIDE DEF q, T
  <2> QED
    BY <1>2, <1>7, <1>14, <2>1, WantedOrders, OneArrangement
<1>16. \A x \in T : s[x] = table[Meaning[x]]
  BY <1>3, <1>4, <1>12, <1>15
<1>17. s \in Seq(Row) /\ Len(s) = n
  <2>1. \A x \in T : b[m[x]] \in Row
    BY <1>2, <1>4, <1>12
  <2> QED
    BY <1>1, <1>3, <2>1
<1>18. Len(Meaning) = n
  BY <1>7, Meant
<1> QED
  BY <1>16, <1>17, <1>18 DEF s
-----------------------------------------------------------------------------
(* Where the operators of the statement are: the filter, if there is one,  *)
(* or else the scan; the sort, if there is one, or else that; the          *)
(* projection; and the limit, if there is one, or else that.               *)
FilterAt  == IF stmt.filter = None THEN 1 ELSE 2
SortAt    == IF stmt.order = None THEN FilterAt ELSE FilterAt + 1
ProjectAt == SortAt + 1
Top       == IF stmt.limit = None THEN ProjectAt ELSE ProjectAt + 1

\* What the operators of an accepted statement are.
ScanOp       == [op : {"Scan"}, rows : Seq(Row)]
FilterOp     == [op : {"Filter"}, predicate : {stmt.filter}, columns : {Columns}]
SortOp       == [op : {"Sort"}, index : {Position(Columns, stmt.order.column)},
                 descending : {stmt.order.descending}, buffer : Seq(Row),
                 sorted : Seq(Row) \cup {None}]
ProjectionOp == [op : {"Projection"}, items : {Items(stmt)}, columns : {Columns}]
LimitOp      == [op : {"Limit"}, remaining : Nat]

\* The operators of the statement, each with what it needs of it.
Built ==
  /\ ops \in [1..Top -> ScanOp \cup FilterOp \cup SortOp \cup ProjectionOp \cup LimitOp]
  /\ ops[1] \in ScanOp
  /\ FilterAt > 1 => ops[FilterAt] \in FilterOp
  /\ SortAt > FilterAt => ops[SortAt] \in SortOp
  /\ ops[ProjectAt] \in ProjectionOp
  /\ Top > ProjectAt => ops[Top] \in LimitOp

\* Where the operators are, as numbers.
LEMMA Places ==
  /\ FilterAt \in {1, 2} /\ SortAt \in {FilterAt, FilterAt + 1}
  /\ ProjectAt = SortAt + 1 /\ Top \in {ProjectAt, ProjectAt + 1}
  /\ FilterAt \in Int /\ SortAt \in Int /\ ProjectAt \in Int /\ Top \in Int
  /\ FilterAt > 1 <=> stmt.filter # None
  /\ SortAt > FilterAt <=> stmt.order # None
  /\ Top > ProjectAt <=> stmt.limit # None
  BY DEF FilterAt, SortAt, ProjectAt, Top

\* An operator is where its name says, and nowhere else.
LEMMA OperatorPlaces ==
  ASSUME Built, NEW i \in 1..Top
  PROVE  /\ ops[i].op = "Scan" <=> i = 1
         /\ ops[i].op = "Filter" <=> i = FilterAt /\ FilterAt > 1
         /\ ops[i].op = "Sort" <=> i = SortAt /\ SortAt > FilterAt
         /\ ops[i].op = "Projection" <=> i = ProjectAt
         /\ ops[i].op = "Limit" <=> i = Top /\ Top > ProjectAt
<1>1. /\ ops[1].op = "Scan" /\ ops[ProjectAt].op = "Projection"
      /\ FilterAt > 1 => ops[FilterAt].op = "Filter"
      /\ SortAt > FilterAt => ops[SortAt].op = "Sort"
      /\ Top > ProjectAt => ops[Top].op = "Limit"
  BY DEF Built, ScanOp, FilterOp, SortOp, ProjectionOp, LimitOp
<1>2. i \in Int /\ i >= 1 /\ i <= Top
  BY Places
<1>3. i = 1 \/ (i = FilterAt /\ FilterAt > 1) \/ (i = SortAt /\ SortAt > FilterAt)
      \/ i = ProjectAt \/ (i = Top /\ Top > ProjectAt)
  BY <1>2, Places
<1> QED
  BY <1>1, <1>2, <1>3, Places

\* There are as many operators as places.
LEMMA OpsLength ==
  ASSUME Built
  PROVE  Len(ops) = Top /\ DOMAIN ops = 1..Top /\ ops # <<>>
<1>1. Top \in Nat /\ Top >= 1
  BY Places
<1>2. ops \in Seq(ScanOp \cup FilterOp \cup SortOp \cup ProjectionOp \cup LimitOp) /\ Len(ops) = Top
  BY <1>1 DEF Built
<1>3. DOMAIN ops = 1..Top
  BY DEF Built
<1>4. ops # <<>>
  BY <1>1, <1>3
<1> QED
  BY <1>2, <1>3, <1>4

\* A sequence of one element, and one more.
LEMMA OneMore ==
  ASSUME NEW X, NEW q \in Seq(X), Len(q) = 1, NEW x \in X
  PROVE  /\ q \o <<x>> \in Seq(X) /\ Len(q \o <<x>>) = 2
         /\ (q \o <<x>>)[1] = q[1] /\ (q \o <<x>>)[2] = x
<1> DEFINE s == <<x>>
<1>1. s \in Seq(X) /\ Len(s) = 1 /\ s[1] = x
  OBVIOUS
<1> HIDE DEF s
<1>2. /\ q \o s \in Seq(X) /\ Len(q \o s) = Len(q) + Len(s)
      /\ \A i \in 1..Len(q) + Len(s) : (q \o s)[i] = IF i <= Len(q) THEN q[i] ELSE s[i - Len(q)]
  BY Zenon, <1>1, ConcatProperties
<1> QED
  BY <1>1, <1>2 DEF s

\* What the plan of an accepted statement is.
LEMMA PlanShape ==
  LET p == PlanSelect(stmt)
  IN  /\ DOMAIN p = 1..Top /\ Len(p) = Top
      /\ p[1] = [op |-> "Scan"]
      /\ FilterAt > 1 => p[FilterAt] = [op |-> "Filter", predicate |-> stmt.filter]
      /\ SortAt > FilterAt => p[SortAt] = [op |-> "Sort", order |-> stmt.order]
      /\ p[ProjectAt] = [op |-> "Projection", items |-> Items(stmt)]
      /\ Top > ProjectAt => p[Top] = [op |-> "Limit", count |-> stmt.limit]
<1> DEFINE a == [op |-> "Scan"]
           f == [op |-> "Filter", predicate |-> stmt.filter]
           s == [op |-> "Sort", order |-> stmt.order]
           c == [op |-> "Projection", items |-> Items(stmt)]
           l == [op |-> "Limit", count |-> stmt.limit]
           p0 == <<a>>
           p1 == p0 \o When(stmt.filter, f)
           p2 == p1 \o When(stmt.order, s)
           p3 == p2 \o <<c>>
           p4 == p3 \o When(stmt.limit, l)
<1>1. PlanSelect(stmt) = p4
  BY DEF PlanSelect
<1> HIDE DEF a, f, s, c, l
<1>2. p1 \in Seq({a, f}) /\ Len(p1) = FilterAt /\ p1[1] = a /\ (FilterAt > 1 => p1[FilterAt] = f)
  <2>1. p0 \in Seq({a, f}) /\ Len(p0) = 1 /\ p0[1] = a
    OBVIOUS
  <2> HIDE DEF p0
  <2>2. CASE stmt.filter = None
    <3>1. p1 = p0 /\ FilterAt = 1
      BY <2>1, <2>2 DEF When, FilterAt
    <3> QED
      BY <2>1, <3>1
  <2>3. CASE stmt.filter # None
    <3>1. p1 = p0 \o <<f>> /\ FilterAt = 2
      BY <2>3 DEF When, FilterAt
    <3>2. <<f>> \in Seq({a, f}) /\ Len(<<f>>) = 1 /\ <<f>>[1] = f
      OBVIOUS
    <3> HIDE DEF p1
    <3>3. p1 \in Seq({a, f}) /\ Len(p1) = 2 /\ p1[1] = a /\ p1[2] = f
      <4> HIDE DEF f
      <4>1. p0 \in Seq({a, f}) /\ f \in {a, f}
        BY <2>1
      <4> QED
        <5>1. /\ Len(p0 \o <<f>>) = 2 /\ p0 \o <<f>> \in Seq({a, f})
              /\ (p0 \o <<f>>)[1] = p0[1] /\ (p0 \o <<f>>)[2] = f
          BY ZenonT(30), <2>1, <4>1, OneMore
        <5> QED
          BY Zenon, <2>1, <3>1, <5>1
    <3> QED
      BY <3>1, <3>3
  <2> QED
    BY <2>2, <2>3
<1> HIDE DEF p0, p1
<1>3. /\ p2 \in Seq({a, f, s}) /\ Len(p2) = SortAt /\ p2[1] = a
      /\ FilterAt > 1 => p2[FilterAt] = f
      /\ SortAt > FilterAt => p2[SortAt] = s
  <2>1. p1 \in Seq({a, f, s}) /\ FilterAt \in {1, 2}
    BY <1>2, Places
  <2>2. CASE stmt.order = None
    <3>1. p2 = p1 /\ SortAt = FilterAt
      BY <2>1, <2>2 DEF When, SortAt
    <3> QED
      BY <1>2, <2>1, <3>1
  <2>3. CASE stmt.order # None
    <3>1. p2 = p1 \o <<s>> /\ SortAt = FilterAt + 1
      BY <2>3 DEF When, SortAt
    <3> HIDE DEF p2
    <3> QED
      BY <1>2, <2>1, <3>1
  <2> QED
    BY <2>2, <2>3
<1> HIDE DEF p2
<1>4. /\ p3 \in Seq({a, f, s, c}) /\ Len(p3) = ProjectAt /\ p3[1] = a
      /\ FilterAt > 1 => p3[FilterAt] = f
      /\ SortAt > FilterAt => p3[SortAt] = s
      /\ p3[ProjectAt] = c
  BY <1>3, Places
<1> HIDE DEF p3
<1>5. /\ p4 \in Seq({a, f, s, c, l}) /\ Len(p4) = Top /\ p4[1] = a
      /\ FilterAt > 1 => p4[FilterAt] = f
      /\ SortAt > FilterAt => p4[SortAt] = s
      /\ p4[ProjectAt] = c
      /\ Top > ProjectAt => p4[Top] = l
  <2>1. p3 \in Seq({a, f, s, c, l})
    BY <1>4
  <2>2. CASE stmt.limit = None
    <3>1. p4 = p3 /\ Top = ProjectAt
      BY <2>1, <2>2 DEF When, Top
    <3> QED
      BY <1>4, <2>1, <3>1
  <2>3. CASE stmt.limit # None
    <3>1. p4 = p3 \o <<l>> /\ Top = ProjectAt + 1
      BY <2>3 DEF When, Top
    <3> HIDE DEF p4
    <3> QED
      BY <1>4, <2>1, <3>1, Places
  <2> QED
    BY <2>2, <2>3
<1> HIDE DEF p4
<1>6. DOMAIN p4 = 1..Top
  BY <1>5
<1> QED
  BY <1>1, <1>5, <1>6 DEF a, f, s, c, l
-----------------------------------------------------------------------------
\* What a projection evaluates was checked by the planner.
LEMMA ItemsChecked ==
  ASSUME Given
  PROVE  /\ Items(stmt) \in Seq(Range(Items(stmt)))
         /\ \A i \in DOMAIN Items(stmt) : Items(stmt)[i].expr \in Checked
<1>1. CASE stmt.items = None
  <2>1. /\ DOMAIN Items(stmt) = DOMAIN Columns
        /\ \A i \in DOMAIN Columns : Items(stmt)[i] =
             [expr |-> [op |-> "column", name |-> Columns[i]], name |-> Columns[i]]
    BY <1>1 DEF Items
  <2>2. Columns \in Seq(Range(Columns)) /\ DOMAIN Columns = 1..Len(Columns) /\ Len(Columns) \in Nat
    BY ColumnsAssumption
  <2>3. ASSUME NEW i \in DOMAIN Columns PROVE Items(stmt)[i].expr \in Checked
    <3> DEFINE e == [op |-> "column", name |-> Columns[i]]
    <3>1. e \in Exprs /\ Columns[i] \in Range(Columns)
      BY ExprsAssumption DEF Range
    <3>2. \A ok : CheckOne(ok, e) = TRUE
      BY <3>1, CheckOneCases
    <3>3. e \in Checked
      <4> HIDE DEF e
      <4> QED
        BY <3>1, <3>2, Checks DEF Checked
    <3> QED
      BY <2>1, <3>3
  <2>4. Items(stmt) \in Seq(Range(Items(stmt)))
    <3>1. Items(stmt) = [i \in 1..Len(Columns) |-> Items(stmt)[i]]
      BY <1>1, <2>2 DEF Items
    <3>2. \A i \in 1..Len(Columns) : Items(stmt)[i] \in Range(Items(stmt))
      BY <2>1, <2>2 DEF Range
    <3> QED
      BY <2>2, <3>1, <3>2
  <2> QED
    BY <2>1, <2>3, <2>4
<1>2. CASE stmt.items # None
  <2>1. Items(stmt) = stmt.items
    BY <1>2 DEF Items
  <2> QED
    BY <1>2, <2>1, StatementsAssumption DEF Given, Accepted, Checked
<1> QED
  BY <1>1, <1>2

\* A row, of the table or of the answer, is not the absence of one.
LEMMA NoneIsNoRow ==
  ASSUME Given
  PROVE  /\ \A r \in Row : r # None
         /\ \A i \in DOMAIN table : Shown(i) # None
         /\ \A s \in Seq(Row) : s # None
<1>1. \A r \in Row : r \in Seq(Value)
  <2>1. Columns \in Seq(Range(Columns))
    BY ColumnsAssumption
  <2>2. DOMAIN Columns = 1..Len(Columns) /\ Len(Columns) \in Nat
    BY <2>1
  <2> QED
    BY <2>2 DEF Row
<1>2. ASSUME NEW i \in DOMAIN table PROVE Shown(i) \in Seq(Value)
  <2> DEFINE items == Items(stmt)
  <2>1. DOMAIN items = 1..Len(items) /\ Len(items) \in Nat
    BY ItemsChecked
  <2>2. \A n \in DOMAIN items : EvalScalar(items[n].expr, table[i], Columns) \in Value
    BY TableType, ItemsChecked, Evaluates
  <2>3. Shown(i) = [n \in 1..Len(items) |-> EvalScalar(items[n].expr, table[i], Columns)]
    BY <2>1 DEF Shown
  <2> HIDE DEF items
  <2> QED
    BY <2>1, <2>2, <2>3
<1> QED
  BY <1>1, <1>2, NoneAssumption

\* A row is wanted when the filter keeps it, whichever logic decides.
LEMMA WantedIsKept ==
  ASSUME Given, NEW i \in DOMAIN table
  PROVE  Wanted(i) <=> stmt.filter = None \/ EvalPredicate(stmt.filter, table[i], Columns)
<1>1. CASE stmt.filter # None
  <2>1. stmt.filter \in Checked
    BY <1>1, StatementsAssumption DEF Given, Accepted, Checked
  <2>2. Sql(stmt.filter, table[i]) = "true" <=> EvalPredicate(stmt.filter, table[i], Columns)
    BY <2>1, TableType, TruthsAgree
  <2> QED
    BY <1>1, <2>2 DEF Wanted
<1> QED
  BY <1>1 DEF Wanted
-----------------------------------------------------------------------------
\* The operators have been built.
Running == pc \in {"call", "return", "done"}

(* What the operators have at hand: the rows the scan has left, those the  *)
(* sort has taken in and gives out, and what is left of the limit.         *)
Unread    == ops[1].rows
Buffer    == ops[SortAt].buffer
Sorted    == ops[SortAt].sorted
Remaining == ops[Top].remaining

\* How many rows were taken from the scan, and whether the limit is used up.
Taken  == Len(table) - Len(Unread)
UsedUp == Top > ProjectAt /\ Remaining = 0

\* The answer's row for each row of the table.
Answer == [i \in DOMAIN table |-> Shown(i)]

\* A row is on its way up, and still before the filter or the sort.
Coming == pc = "return" /\ row # None
Held   == Coming /\ at <= SortAt

\* How many rows of the answer, and how many of the table, are settled.
Left   == IF Coming /\ at > SortAt THEN Len(result) + 1 ELSE Len(result)
Tested == IF Held THEN Taken - 1 ELSE Taken

\* The last row of the table that is in the answer so far.
LastRow == IF Left = 0 THEN 0 ELSE Meaning[Left]

\* The elements of S up to c, and the first n that m lists.
UpTo(S, c) == {i \in S : i <= c}
Listed(m, n) == {m[j] : j \in 1..n}

\* The operators are those of an accepted statement, at any place of the loop.
Stacked ==
  /\ stmt \in Statements /\ table \in Tables
  /\ pc \in {"plan", "call", "return", "done", "rejected"}
  /\ ~Running => ops = <<>> /\ result = <<>> /\ row = None
  /\ Running => Accepted(stmt) /\ Built /\ at \in 1..(Top + 1)
  /\ pc = "call" => at <= Top /\ row = None
  /\ pc = "return" => at > 1
  /\ pc = "done" => at = Top + 1 /\ row = None

\* The scan has the rest of the table; what it gave comes up tested.
Scanning ==
  /\ Len(Unread) <= Len(table)
  /\ \A x \in 1..Len(Unread) : Unread[x] = table[Taken + x]
  /\ Held => Taken >= 1 /\ row = table[Taken] /\ (at > FilterAt => Taken \in WantedRows)
  /\ pc = "return" /\ row = None /\ at <= ProjectAt => Taken = Len(table)

\* What was collected begins the answer, the row on its way continues it, and
\* there is none when the answer is complete or the limit used up.
Answering ==
  /\ result \in Seq(Range(Answer)) /\ Left <= Len(Meaning)
  /\ \A j \in 1..Len(result) : result[j] = Answer[Meaning[j]]
  /\ Coming /\ at > SortAt =>
       row = IF at = ProjectAt THEN table[Meaning[Left]] ELSE Answer[Meaning[Left]]
  /\ pc \in {"return", "done"} /\ row = None /\ at > SortAt =>
       Left = Len(Meaning) \/ (UsedUp /\ at = Top + 1)

\* The limit and what passed it add up, and no one is asked once it is used up.
Limiting ==
  Top > ProjectAt =>
    /\ Remaining + (IF at > Top THEN Left ELSE Len(result)) = stmt.limit
    /\ (pc = "call" /\ at < Top) \/ (pc = "return" /\ at <= Top) => Remaining > 0

\* Without a sort every row that passed is in the answer, and one that is not
\* is only asked for while there is an answer to go on with.
Plain ==
  SortAt = FilterAt =>
    /\ UpTo(WantedRows, Tested) = Listed(Meaning, Left)
    /\ \/ pc = "call" /\ at > FilterAt
       \/ pc = "return" /\ at > SortAt /\ row # None
       \/ pc \in {"return", "done"} /\ at > Top /\ row = None /\ UsedUp
       => Taken = LastRow

\* The sort has first what passed, then what the answer goes on with.
Filling ==
  /\ Left = 0
  /\ \E k : Lists(table, k, Buffer, UpTo(WantedRows, Tested))
  /\ (pc = "call" /\ at >= SortAt) \/ (pc # "call" /\ at > SortAt) => Taken = 0
  /\ pc # "call" /\ at > SortAt => UsedUp

\* The sort gave out all but the rows it has left.
Draining ==
  /\ Taken = Len(table) /\ at >= SortAt /\ (pc = "return" => at > SortAt)
  /\ stmt.limit # 0
  /\ Len(Sorted) = Len(Meaning) - Left
  /\ \A x \in 1..Len(Sorted) : Sorted[x] = table[Meaning[Left + x]]

\* A sort is at one or the other.
Sorting == SortAt > FilterAt => IF Sorted = None THEN Filling ELSE Draining

\* What holds of the rows while the statement runs.
Flowing == Scanning /\ Answering /\ Limiting /\ Plain /\ Sorting

\* The inductive invariant.
Inv == Stacked /\ (Running => Flowing)
-----------------------------------------------------------------------------
\* The statement and the table stay, and with them all that is said of them.
LEMMA Unmoved ==
  ASSUME stmt' = stmt, table' = table
  PROVE  /\ FilterAt' = FilterAt /\ SortAt' = SortAt /\ ProjectAt' = ProjectAt /\ Top' = Top
         /\ WantedRows' = WantedRows /\ Answer' = Answer /\ Meaning' = Meaning
<1>1. FilterAt' = FilterAt /\ SortAt' = SortAt /\ ProjectAt' = ProjectAt /\ Top' = Top
  BY DEF FilterAt, SortAt, ProjectAt, Top
<1>2. WantedRows' = WantedRows
  BY DEF WantedRows, Wanted
<1>3. Answer' = Answer
  BY DEF Answer, Shown
<1>4. Meaning' = Meaning
  BY DEF Meaning, WantedRows, Wanted, Before, Key
<1> QED
  BY <1>1, <1>2, <1>3, <1>4

\* What the operators have, while they are built.
LEMMA StockTypes ==
  ASSUME Given, Built
  PROVE  /\ Unread \in Seq(Row) /\ Len(Unread) \in Nat
         /\ SortAt > FilterAt => /\ Buffer \in Seq(Row) /\ Len(Buffer) \in Nat
                                 /\ Sorted # None => Sorted \in Seq(Row) /\ Len(Sorted) \in Nat
         /\ Top > ProjectAt => Remaining \in Nat
<1>1. Unread \in Seq(Row)
  BY DEF Built, ScanOp, Unread
<1>2. SortAt > FilterAt => Buffer \in Seq(Row) /\ (Sorted # None => Sorted \in Seq(Row))
  BY DEF Built, SortOp, Buffer, Sorted
<1>3. Top > ProjectAt => Remaining \in Nat
  BY DEF Built, LimitOp, Remaining
<1> QED
  BY <1>1, <1>2, <1>3

\* A step that leaves the operators leaves what they have at hand.
LEMMA OpsKept ==
  ASSUME stmt' = stmt, table' = table, ops' = ops
  PROVE  /\ Unread' = Unread /\ Buffer' = Buffer /\ Sorted' = Sorted /\ Remaining' = Remaining
         /\ Built => Built'
<1>1. FilterAt' = FilterAt /\ SortAt' = SortAt /\ ProjectAt' = ProjectAt /\ Top' = Top
  BY Unmoved
<1>2. Unread' = Unread /\ Buffer' = Buffer /\ Sorted' = Sorted /\ Remaining' = Remaining
  BY <1>1 DEF Unread, Buffer, Sorted, Remaining
<1>3. Built => Built'
  BY <1>1 DEF Built, ScanOp, FilterOp, SortOp, ProjectionOp, LimitOp, Items
<1> QED
  BY <1>2, <1>3

\* One operator moves and stays what it is: the operators are still built.
LEMMA OneMoves ==
  ASSUME stmt' = stmt, table' = table, Built, NEW i \in 1..Top, NEW o,
         ops' = [ops EXCEPT ![i] = o],
         i = 1 => o \in ScanOp,
         i # 1 => i = Top \/ i = SortAt,
         i # 1 /\ i = SortAt => SortAt > FilterAt /\ o \in SortOp,
         i # 1 /\ i = Top => Top > ProjectAt /\ o \in LimitOp
  PROVE  /\ Built' /\ ops'[i] = o /\ (i # 1 => Unread' = Unread)
         /\ SortAt > FilterAt /\ i # SortAt => Buffer' = Buffer /\ Sorted' = Sorted
         /\ Top > ProjectAt /\ i # Top => Remaining' = Remaining
<1>1. FilterAt' = FilterAt /\ SortAt' = SortAt /\ ProjectAt' = ProjectAt /\ Top' = Top
  BY Unmoved
<1>2. DOMAIN ops = 1..Top /\ 1 \in 1..Top /\ i \in Int
  BY Places DEF Built
<1>3. ops'[i] = o /\ \A j \in 1..Top : j # i => ops'[j] = ops[j]
  BY <1>2
<1>4. /\ SortAt > FilterAt => SortAt \in 1..Top /\ SortAt # 1
      /\ Top > ProjectAt => Top # 1 /\ Top # SortAt
      /\ FilterAt > 1 => FilterAt \in 1..Top /\ FilterAt # 1
      /\ SortAt > FilterAt => SortAt # FilterAt
      /\ ProjectAt \in 1..Top /\ ProjectAt # 1 /\ ProjectAt # SortAt /\ ProjectAt # FilterAt
      /\ Top # FilterAt /\ Top \in 1..Top
  BY Places
<1>5. i # 1 => Unread' = Unread
  BY <1>2, <1>3 DEF Unread
<1>6. SortAt > FilterAt /\ i # SortAt => Buffer' = Buffer /\ Sorted' = Sorted
  BY <1>1, <1>3, <1>4 DEF Buffer, Sorted
<1>7. Top > ProjectAt /\ i # Top => Remaining' = Remaining
  BY <1>1, <1>3, <1>4 DEF Remaining
<1>8. Built'
  <2>1. ops' \in [1..Top -> ScanOp \cup FilterOp \cup SortOp \cup ProjectionOp \cup LimitOp]
    <3>1. ops \in [1..Top -> ScanOp \cup FilterOp \cup SortOp \cup ProjectionOp \cup LimitOp]
      BY DEF Built
    <3>2. ops' = [j \in 1..Top |-> ops'[j]]
      BY <1>2, <3>1
    <3> HIDE DEF ScanOp, FilterOp, SortOp, ProjectionOp, LimitOp
    <3>3. o \in ScanOp \cup FilterOp \cup SortOp \cup ProjectionOp \cup LimitOp
      OBVIOUS
    <3>4. \A j \in 1..Top : ops'[j] \in ScanOp \cup FilterOp \cup SortOp \cup ProjectionOp \cup LimitOp
      BY <1>3, <3>1, <3>3
    <3> QED
      BY Zenon, <3>2, <3>4
  <2>2. /\ ScanOp' = ScanOp /\ FilterOp' = FilterOp /\ SortOp' = SortOp
        /\ ProjectionOp' = ProjectionOp /\ LimitOp' = LimitOp
    BY DEF ScanOp, FilterOp, SortOp, ProjectionOp, LimitOp, Items
  <2>3. /\ ops'[1] \in ScanOp
        /\ FilterAt > 1 => ops'[FilterAt] \in FilterOp
        /\ SortAt > FilterAt => ops'[SortAt] \in SortOp
        /\ ops'[ProjectAt] \in ProjectionOp
        /\ Top > ProjectAt => ops'[Top] \in LimitOp
    <3>1. FilterAt > 1 => FilterAt # i
      BY <1>4
    <3>2. ProjectAt # i
      BY <1>4
    <3> QED
      BY <1>2, <1>3, <1>4, <3>1, <3>2 DEF Built
  <2> QED
    BY <1>1, <2>1, <2>2, <2>3 DEF Built
<1> QED
  BY <1>3, <1>5, <1>6, <1>7, <1>8

\* The scan gives its first row away, and nothing else moves.
LEMMA ScanMoves ==
  ASSUME stmt' = stmt, table' = table, Built, Unread # <<>>,
         ops' = [ops EXCEPT ![1].rows = Tail(@)]
  PROVE  /\ Unread' = Tail(Unread) /\ Built'
         /\ SortAt > FilterAt => Buffer' = Buffer /\ Sorted' = Sorted
         /\ Top > ProjectAt => Remaining' = Remaining
<1> DEFINE o == [ops[1] EXCEPT !.rows = Tail(@)]
<1>1. ops' = [ops EXCEPT ![1] = o]
  OBVIOUS
<1>2. ops[1] \in ScanOp /\ Unread = ops[1].rows /\ Unread \in Seq(Row)
  BY DEF Built, ScanOp, Unread
<1>3. Tail(Unread) \in Seq(Row)
  BY <1>2
<1>4. o \in ScanOp /\ o.rows = Tail(Unread)
  BY <1>2, <1>3 DEF ScanOp
<1> HIDE DEF o
<1>5. /\ 1 \in 1..Top /\ (SortAt > FilterAt => 1 # SortAt)
      /\ Top > ProjectAt => 1 # Top
  BY Places
<1>6. /\ Built' /\ ops'[1] = o
      /\ SortAt > FilterAt /\ 1 # SortAt => Buffer' = Buffer /\ Sorted' = Sorted
      /\ Top > ProjectAt /\ 1 # Top => Remaining' = Remaining
  BY <1>1, <1>4, <1>5, OneMoves
<1> QED
  BY <1>4, <1>5, <1>6 DEF Unread

\* The sort changes its buffer and its sorted rows, and nothing else moves.
LEMMA SortMoves ==
  ASSUME stmt' = stmt, table' = table, Built, SortAt > FilterAt,
         NEW b \in Seq(Row), NEW s \in Seq(Row) \cup {None},
         ops' = [ops EXCEPT ![SortAt].buffer = b, ![SortAt].sorted = s]
  PROVE  /\ Unread' = Unread /\ Built' /\ Buffer' = b /\ Sorted' = s
         /\ Top > ProjectAt => Remaining' = Remaining
<1> DEFINE o == [ops[SortAt] EXCEPT !.buffer = b, !.sorted = s]
<1>1. SortAt \in 1..Top /\ SortAt # 1 /\ (Top > ProjectAt => SortAt # Top) /\ SortAt # Top
  BY Places
<1>2. ops' = [ops EXCEPT ![SortAt] = o]
  BY <1>1 DEF Built
<1>3. ops[SortAt] \in SortOp
  BY DEF Built
<1>4. o \in SortOp /\ o.buffer = b /\ o.sorted = s
  BY <1>3 DEF SortOp
<1> HIDE DEF o
<1>5. /\ Built' /\ ops'[SortAt] = o /\ Unread' = Unread
      /\ Top > ProjectAt => Remaining' = Remaining
  BY <1>1, <1>2, <1>4, OneMoves
<1>6. SortAt' = SortAt
  BY Unmoved
<1> QED
  BY <1>4, <1>5, <1>6 DEF Buffer, Sorted

\* The limit changes its count, and nothing else moves.
LEMMA LimitMoves ==
  ASSUME stmt' = stmt, table' = table, Built, Top > ProjectAt, NEW n \in Nat,
         ops' = [ops EXCEPT ![Top].remaining = n]
  PROVE  /\ Unread' = Unread /\ Built' /\ Remaining' = n
         /\ SortAt > FilterAt => Buffer' = Buffer /\ Sorted' = Sorted
<1> DEFINE o == [ops[Top] EXCEPT !.remaining = n]
<1>1. Top \in 1..Top /\ Top # 1 /\ Top # SortAt
  BY Places
<1>2. ops' = [ops EXCEPT ![Top] = o]
  BY <1>1 DEF Built
<1>3. ops[Top] \in LimitOp
  BY DEF Built
<1>4. o \in LimitOp /\ o.remaining = n
  BY <1>3 DEF LimitOp
<1> HIDE DEF o
<1>5. /\ Built' /\ ops'[Top] = o /\ Unread' = Unread
      /\ SortAt > FilterAt => Buffer' = Buffer /\ Sorted' = Sorted
  BY <1>1, <1>2, <1>4, OneMoves
<1>6. Top' = Top
  BY Unmoved
<1> QED
  BY <1>4, <1>5, <1>6 DEF Remaining
-----------------------------------------------------------------------------
\* Without a sort the next row that passes is the next of the answer.
LEMMA NextMeant ==
  ASSUME Given, stmt.order = None, NEW c \in Nat, NEW n \in Nat, n <= Len(Meaning),
         UpTo(WantedRows, c) = Listed(Meaning, n), c + 1 \in WantedRows
  PROVE  /\ n + 1 <= Len(Meaning) /\ Meaning[n + 1] = c + 1
         /\ UpTo(WantedRows, c + 1) = Listed(Meaning, n + 1)
<1> DEFINE L == Len(Meaning)
<1>1. /\ L \in Nat /\ WantedRows \subseteq Int
      /\ \A x \in 1..L : Meaning[x] \in WantedRows
      /\ \A x, y \in 1..L : Meaning[x] = Meaning[y] => x = y
      /\ \A x, y \in 1..L : x < y => Meaning[x] < Meaning[y]
  BY Meant, TableType DEF Before
<1>2. PICK x \in 1..L : Meaning[x] = c + 1
  BY Meant
<1> HIDE DEF L
<1>3. \A i : i \in WantedRows /\ i <= c <=> i \in Listed(Meaning, n)
  BY DEF UpTo
<1>4. \A i : i \in Listed(Meaning, n) <=> \E y \in 1..n : Meaning[y] = i
  BY DEF Listed
<1>5. x > n
  <2>1. ~(c + 1 <= c)
    OBVIOUS
  <2>2. x \notin 1..n
    BY <1>2, <1>3, <1>4, <2>1
  <2> QED
    BY <1>1, <1>2, <2>2
<1>6. n + 1 \in 1..L /\ n + 1 <= L
  BY <1>1, <1>2, <1>5
<1>7. Meaning[n + 1] \in WantedRows /\ Meaning[n + 1] \in Int
  BY <1>1, <1>6
<1>8. ~(Meaning[n + 1] <= c)
  <2> SUFFICES ASSUME Meaning[n + 1] <= c PROVE FALSE
    OBVIOUS
  <2>1. PICK y \in 1..n : Meaning[y] = Meaning[n + 1]
    BY <1>3, <1>4, <1>7
  <2>2. y \in 1..L /\ y # n + 1
    BY <1>1, <1>6
  <2> QED
    BY <1>1, <1>6, <2>1, <2>2
<1>9. x = n + 1
  <2>1. x = n + 1 \/ n + 1 < x
    BY <1>1, <1>5
  <2>2. n + 1 < x => Meaning[n + 1] < c + 1
    BY <1>1, <1>2, <1>6
  <2> QED
    BY <1>7, <1>8, <2>1, <2>2
<1>10. UpTo(WantedRows, c + 1) = Listed(Meaning, n + 1)
  <2>1. \A i : i \in UpTo(WantedRows, c + 1) <=> i \in UpTo(WantedRows, c) \/ i = c + 1
    <3>1. \A i \in WantedRows : i <= c + 1 <=> i <= c \/ i = c + 1
      BY <1>1
    <3>2. c + 1 \in WantedRows /\ c + 1 <= c + 1
      OBVIOUS
    <3> QED
      BY <3>1, <3>2 DEF UpTo
  <2>2. \A i : i \in Listed(Meaning, n + 1) <=> i \in Listed(Meaning, n) \/ i = Meaning[n + 1]
    BY DEF Listed
  <2> QED
    BY <1>2, <1>9, <2>1, <2>2
<1> QED
  BY <1>2, <1>6, <1>9, <1>10 DEF L

\* Once the whole table was tested the answer is complete.
LEMMA AllMeant ==
  ASSUME Given
  PROVE  /\ UpTo(WantedRows, Len(table)) = WantedRows
         /\ \A n \in Nat : n <= Len(Meaning) /\ UpTo(WantedRows, Len(table)) = Listed(Meaning, n)
              => n = Len(Meaning)
<1>1. UpTo(WantedRows, Len(table)) = WantedRows
  BY TableType DEF UpTo
<1>2. ASSUME NEW n \in Nat, n < Len(Meaning), WantedRows = Listed(Meaning, n)
      PROVE  FALSE
  <2>1. Len(Meaning) \in Nat /\ n + 1 \in 1..Len(Meaning)
    BY <1>2, Meant, TableType
  <2>2. Meaning[n + 1] \in Listed(Meaning, n)
    BY <1>2, <2>1, Meant
  <2>3. PICK y \in 1..n : Meaning[y] = Meaning[n + 1]
    BY <2>2 DEF Listed
  <2>4. y \in 1..Len(Meaning) /\ y # n + 1
    BY <2>1
  <2> QED
    BY <2>1, <2>3, <2>4, Meant
<1>3. Len(Meaning) \in Nat
  BY Meant, TableType
<1> QED
  BY <1>1, <1>2, <1>3

\* What no row changes, and what a row that fails does not.
LEMMA UpToSteps ==
  ASSUME Given
  PROVE  /\ UpTo(WantedRows, 0) = {} /\ Listed(Meaning, 0) = {}
         /\ \A c \in Nat : c + 1 \notin WantedRows => UpTo(WantedRows, c + 1) = UpTo(WantedRows, c)
<1>1. \A i \in WantedRows : i \in Int /\ i >= 1
  BY TableType
<1>2. UpTo(WantedRows, 0) = {}
  BY <1>1 DEF UpTo
<1>3. ASSUME NEW c \in Nat, c + 1 \notin WantedRows
      PROVE  UpTo(WantedRows, c + 1) = UpTo(WantedRows, c)
  <2>1. \A i \in WantedRows : i <= c + 1 <=> i <= c
    BY <1>1, <1>3
  <2> QED
    BY <2>1 DEF UpTo
<1>4. Listed(Meaning, 0) = {}
  BY DEF Listed
<1> QED
  BY <1>2, <1>3, <1>4

\* An empty buffer has the rows of no position.
LEMMA ListsNone == Lists(table, <<>>, <<>>, {})
<1>1. Len(<<>>) = 0 /\ 1..0 = {}
  OBVIOUS
<1>2. <<>> \in [1..0 -> {}]
  BY <1>1
<1> QED
  BY <1>1, <1>2 DEF Lists

\* The sort takes in one more row.
LEMMA ListsMore ==
  ASSUME Given, NEW b \in Seq(Row), NEW c \in Nat, c + 1 \in WantedRows,
         NEW k, Lists(table, k, b, UpTo(WantedRows, c))
  PROVE  \E q : Lists(table, q, Append(b, table[c + 1]), UpTo(WantedRows, c + 1))
<1> DEFINE n == Len(b)
           S == UpTo(WantedRows, c)
           Z == UpTo(WantedRows, c + 1)
           d == Append(b, table[c + 1])
           q == [x \in 1..(n + 1) |-> IF x = n + 1 THEN c + 1 ELSE k[x]]
<1>1. /\ n \in Nat /\ table[c + 1] \in Row /\ Len(d) = n + 1 /\ d[n + 1] = table[c + 1]
      /\ \A x \in 1..n : d[x] = b[x]
  BY TableType
<1>2. /\ k \in [1..n -> S] /\ \A i \in S : \E x \in 1..n : k[x] = i
      /\ \A x, y \in 1..n : x < y => k[x] < k[y]
      /\ \A x \in 1..n : b[x] = table[k[x]]
  BY DEF Lists
<1>3. /\ \A i : i \in Z <=> i \in S \/ i = c + 1
      /\ \A i \in S : i \in Int /\ i < c + 1
  BY TableType DEF UpTo
<1> HIDE DEF n, S, Z, d
<1>4. \A x \in 1..(n + 1) : x = n + 1 \/ (x \in 1..n /\ x # n + 1)
  BY <1>1
<1>5. q \in [1..(n + 1) -> Z]
  BY <1>2, <1>3, <1>4
<1>6. n + 1 \in 1..(n + 1) /\ \A x \in 1..n : x \in 1..(n + 1) /\ x # n + 1
  BY <1>1
<1>7. q[n + 1] = c + 1 /\ \A x \in 1..n : q[x] = k[x]
  BY <1>6
<1> HIDE DEF q
<1>8. \A i \in Z : \E x \in 1..(n + 1) : q[x] = i
  BY <1>2, <1>3, <1>6, <1>7
<1>9. ASSUME NEW x \in 1..(n + 1), NEW y \in 1..(n + 1), x < y PROVE q[x] < q[y]
  <2>1. x \in 1..n
    BY <1>1, <1>9
  <2>2. CASE y = n + 1
    BY <1>2, <1>3, <1>7, <2>1, <2>2
  <2>3. CASE y \in 1..n
    BY <1>2, <1>7, <1>9, <2>1, <2>3
  <2> QED
    BY <1>4, <2>2, <2>3
<1>10. \A x \in 1..(n + 1) : d[x] = table[q[x]]
  BY <1>1, <1>2, <1>4, <1>7
<1>11. Lists(table, q, d, Z)
  BY <1>1, <1>5, <1>8, <1>9, <1>10 DEF Lists
<1> QED
  BY <1>11 DEF d, Z
-----------------------------------------------------------------------------
\* While the statement runs: what is there, and that it is numbers.
LEMMA Flows ==
  ASSUME Inv, Running
  PROVE  /\ Given /\ Built /\ Scanning /\ Answering /\ Limiting /\ Plain /\ Sorting
         /\ at \in 1..(Top + 1) /\ at \in Int
         /\ Len(table) \in Nat /\ Len(Unread) \in Nat /\ Taken \in Nat /\ Taken <= Len(table)
         /\ Len(Meaning) \in Nat /\ Len(result) \in Nat /\ Left \in Nat
         /\ pc = "call" => row = None /\ at \in 1..Top
<1>1. Given /\ Built /\ Scanning /\ Answering /\ Limiting /\ Plain /\ Sorting /\ at \in 1..(Top + 1)
  BY DEF Inv, Stacked, Flowing, Given
<1>2. Len(table) \in Nat /\ Len(Meaning) \in Nat
  BY <1>1, TableType, Meant
<1>3. Len(Unread) \in Nat
  BY <1>1, StockTypes
<1>4. Taken \in Nat /\ Taken <= Len(table)
  BY <1>1, <1>2, <1>3 DEF Scanning, Taken
<1>5. Len(result) \in Nat
  BY <1>1 DEF Answering
<1>6. Left \in Nat
  BY <1>5 DEF Left
<1>7. at \in Int /\ (pc = "call" => row = None /\ at \in 1..Top)
  BY <1>1, Places DEF Inv, Stacked
<1> QED
  BY <1>1, <1>2, <1>3, <1>4, <1>5, <1>6, <1>7

\* Which operator is called, and which gets an answer.
LEMMA CalledAt ==
  ASSUME Inv
  PROVE  /\ Called("Scan") => pc = "call" /\ at = 1
         /\ Called("Filter") => pc = "call" /\ at = FilterAt /\ FilterAt > 1
         /\ Called("Sort") => pc = "call" /\ at = SortAt /\ SortAt > FilterAt
         /\ Called("Projection") => pc = "call" /\ at = ProjectAt
         /\ Called("Limit") => pc = "call" /\ at = Top /\ Top > ProjectAt
<1>1. CASE pc = "call"
  <2>1. Built /\ at \in 1..Top
    BY <1>1, Flows DEF Running
  <2> QED
    BY <1>1, <2>1, OperatorPlaces DEF Called
<1> QED
  BY <1>1 DEF Called

\* Which operator gets an answer: it is the one at that place.
LEMMA AnsweredAt ==
  ASSUME Inv
  PROVE  /\ Answered("Filter") => pc = "return" /\ at = FilterAt /\ FilterAt > 1
         /\ Answered("Sort") => pc = "return" /\ at = SortAt /\ SortAt > FilterAt
         /\ Answered("Projection") => pc = "return" /\ at = ProjectAt
         /\ Answered("Limit") => pc = "return" /\ at = Top /\ Top > ProjectAt
<1>1. CASE pc = "return" /\ at <= Len(ops)
  <2>1. Built /\ at \in 1..(Top + 1)
    BY <1>1, Flows DEF Running
  <2>2. at \in 1..Top
    BY <1>1, <2>1, OpsLength, Places
  <2> QED
    BY <1>1, <2>1, <2>2, OperatorPlaces DEF Answered
<1> QED
  BY <1>1 DEF Answered

\* The loop goes on with the operators of the statement.
LEMMA StaysStacked ==
  ASSUME Inv, Running, stmt' = stmt, table' = table, Built',
         pc' \in {"call", "return", "done"}, at' \in 1..(Top + 1),
         pc' = "call" => at' <= Top /\ row' = None,
         pc' = "return" => at' > 1,
         pc' = "done" => at' = Top + 1 /\ row' = None
  PROVE  Stacked' /\ Running'
<1>1. Accepted(stmt') /\ Top' = Top
  BY Unmoved DEF Inv, Stacked
<1> QED
  BY <1>1 DEF Inv, Stacked, Running
-----------------------------------------------------------------------------
\* The scan is asked and has nothing left: whatever is to come was taken.
LEMMA ScanEnds ==
  ASSUME Inv, ScanNext, Unread = <<>>
  PROVE  Inv'
<1>1. pc = "call" /\ at = 1 /\ row = None
  BY CalledAt, Flows DEF ScanNext, Running
<1>2. /\ stmt' = stmt /\ table' = table /\ ops' = ops /\ result' = result
      /\ pc' = "return" /\ at' = 2 /\ row' = None
  BY <1>1 DEF ScanNext, Return, Unread
<1>3. /\ Given /\ Built /\ Scanning /\ Answering /\ Limiting /\ Plain /\ Sorting /\ Running
      /\ Len(table) \in Nat /\ Taken \in Nat /\ Len(Meaning) \in Nat /\ Len(result) \in Nat
  BY <1>1, Flows DEF Running
<1>4. /\ FilterAt' = FilterAt /\ SortAt' = SortAt /\ ProjectAt' = ProjectAt /\ Top' = Top
      /\ WantedRows' = WantedRows /\ Answer' = Answer /\ Meaning' = Meaning
  BY <1>2, Unmoved
<1>5. /\ Unread' = Unread /\ Buffer' = Buffer /\ Sorted' = Sorted /\ Remaining' = Remaining
      /\ Built'
  BY <1>2, <1>3, OpsKept
<1>6. Taken' = Taken /\ Taken = Len(table) /\ (UsedUp' <=> UsedUp)
  BY <1>2, <1>3, <1>4, <1>5 DEF Taken, UsedUp
<1>7. Left' = Left /\ Tested' = Tested /\ Left = Len(result) /\ Tested = Taken
  BY <1>1, <1>2, <1>6 DEF Left, Tested, Coming, Held
<1>8. Stacked' /\ Running'
  BY <1>2, <1>3, <1>5, StaysStacked, Places
<1>9. Scanning'
  BY <1>2, <1>3, <1>4, <1>5, <1>6 DEF Scanning, Held, Coming
<1>10. Answering'
  <2>1. SortAt = 1 => Left = Len(Meaning)
    BY <1>3, <1>6, <1>7, AllMeant, Places DEF Plain, Answering
  <2> QED
    BY <1>2, <1>3, <1>4, <1>7, <2>1, Places DEF Answering, Coming
<1>11. Limiting'
  BY <1>1, <1>2, <1>3, <1>4, <1>5, <1>7, Places DEF Limiting
<1>12. Plain'
  BY <1>1, <1>2, <1>3, <1>4, <1>5, <1>6, <1>7, Places DEF Plain
<1>13. Sorting'
  BY <1>1, <1>2, <1>3, <1>4, <1>5, <1>6, <1>7, Places DEF Sorting, Filling, Draining
<1> QED
  BY <1>8, <1>9, <1>10, <1>11, <1>12, <1>13 DEF Inv, Flowing

\* The scan is asked and gives the next row of the table: on a plan of scan
\* and projection it is at once the next row of the answer.
LEMMA ScanGives ==
  ASSUME Inv, ScanNext, Unread # <<>>
  PROVE  Inv'
<1>1. pc = "call" /\ at = 1 /\ row = None
  BY CalledAt, Flows DEF ScanNext, Running
<1>2. /\ stmt' = stmt /\ table' = table /\ ops' = [ops EXCEPT ![1].rows = Tail(@)]
      /\ result' = result /\ pc' = "return" /\ at' = 2 /\ row' = Head(Unread)
  BY <1>1 DEF ScanNext, Return, Unread
<1>3. /\ Given /\ Built /\ Scanning /\ Answering /\ Limiting /\ Plain /\ Sorting /\ Running
      /\ Len(table) \in Nat /\ Taken \in Nat /\ Len(Meaning) \in Nat /\ Len(result) \in Nat
  BY <1>1, Flows DEF Running
<1>4. /\ FilterAt' = FilterAt /\ SortAt' = SortAt /\ ProjectAt' = ProjectAt /\ Top' = Top
      /\ WantedRows' = WantedRows /\ Answer' = Answer /\ Meaning' = Meaning
  BY <1>2, Unmoved
<1>5. /\ Unread' = Tail(Unread) /\ Built'
      /\ SortAt > FilterAt => Buffer' = Buffer /\ Sorted' = Sorted
      /\ Top > ProjectAt => Remaining' = Remaining
  BY <1>2, <1>3, ScanMoves
<1>6. /\ Len(Unread) \in Nat /\ Len(Unread) > 0 /\ Len(Unread') = Len(Unread) - 1
      /\ \A x \in 1..Len(Unread') : Unread'[x] = Unread[x + 1]
      /\ row' = Unread[1]
  <2>1. Unread \in Seq(Row)
    BY <1>3, StockTypes
  <2> QED
    BY <1>2, <1>5, <2>1
<1>7. /\ Taken' = Taken + 1 /\ row' = table[Taken + 1] /\ (UsedUp' <=> UsedUp)
      /\ Taken + 1 \in DOMAIN table /\ row' # None
  <2>1. Taken' = Taken + 1
    BY <1>2, <1>3, <1>6 DEF Taken
  <2>2. row' = table[Taken + 1]
    BY <1>3, <1>6 DEF Scanning
  <2>3. Taken + 1 \in DOMAIN table
    BY <1>3, <1>6, TableType DEF Taken
  <2>4. row' # None
    BY <1>3, <2>2, <2>3, TableType, NoneIsNoRow
  <2> QED
    BY <1>4, <1>5, <2>1, <2>2, <2>3, <2>4 DEF UsedUp
<1>8. Left = Len(result) /\ Tested = Taken /\ Tested \in Int
  BY <1>1, <1>3 DEF Left, Tested, Coming, Held
<1>9. FilterAt = 1 => Taken + 1 \in WantedRows
  <2>1. FilterAt = 1 => stmt.filter = None
    BY Places
  <2> QED
    BY <1>7, <2>1 DEF WantedRows, Wanted
<1>10. Stacked' /\ Running'
  BY <1>2, <1>3, <1>5, StaysStacked, Places
<1>11. Scanning'
  <2>1. \A x \in 1..Len(Unread') : Unread'[x] = table[Taken' + x]
    <3> SUFFICES ASSUME NEW x \in 1..Len(Unread') PROVE Unread'[x] = table[Taken' + x]
      OBVIOUS
    <3>1. x + 1 \in 1..Len(Unread) /\ Taken' + x = Taken + (x + 1)
      BY <1>3, <1>6, <1>7
    <3> QED
      BY <1>3, <1>6, <3>1 DEF Scanning
  <2>2. Len(Unread') <= Len(table)
    BY <1>3, <1>6 DEF Scanning
  <2> QED
    BY <1>2, <1>3, <1>4, <1>7, <1>9, <2>1, <2>2, Places DEF Scanning, Held, Coming
<1>12. CASE SortAt >= 2
  <2>1. Left' = Left /\ Tested' = Tested
    BY <1>2, <1>3, <1>4, <1>7, <1>8, <1>12, Places DEF Left, Tested, Coming, Held
  <2>2. Answering'
    BY <1>2, <1>3, <1>4, <1>7, <1>12, <2>1, Places DEF Answering, Coming
  <2>3. Limiting'
    BY <1>1, <1>2, <1>3, <1>4, <1>5, <1>8, <1>12, <2>1, Places DEF Limiting
  <2>4. Plain'
    BY <1>1, <1>2, <1>3, <1>4, <1>5, <1>7, <1>12, <2>1, Places DEF Plain
  <2>5. Sorting'
    BY <1>1, <1>2, <1>3, <1>4, <1>5, <1>7, <1>12, <2>1, Places DEF Sorting, Filling, Draining
  <2> QED
    BY <1>10, <1>11, <2>2, <2>3, <2>4, <2>5 DEF Inv, Flowing
<1>13. CASE SortAt = 1
  <2>1. FilterAt = 1 /\ ProjectAt = 2 /\ stmt.order = None
    BY <1>13, Places
  <2>2. Left' = Left + 1 /\ Tested' = Taken + 1
    BY <1>2, <1>3, <1>4, <1>7, <1>8, <1>13 DEF Left, Tested, Coming, Held
  <2>3. /\ Left + 1 <= Len(Meaning) /\ Meaning[Left + 1] = Taken + 1
        /\ UpTo(WantedRows, Taken + 1) = Listed(Meaning, Left + 1)
    BY <1>3, <1>8, <1>9, <1>13, <2>1, NextMeant DEF Plain, Answering
  <2>4. Answering'
    BY <1>2, <1>3, <1>4, <1>7, <1>13, <2>1, <2>2, <2>3 DEF Answering, Coming
  <2>5. Limiting'
    BY <1>1, <1>2, <1>3, <1>4, <1>5, <1>8, <2>1, <2>2, Places DEF Limiting
  <2>6. LastRow' = Taken + 1
    BY <1>3, <1>4, <1>8, <2>2, <2>3 DEF LastRow
  <2>7. Plain'
    BY <1>1, <1>2, <1>3, <1>4, <1>5, <1>7, <2>1, <2>2, <2>3, <2>6, Places DEF Plain
  <2>8. Sorting'
    BY <1>4, <1>13, <2>1 DEF Sorting
  <2> QED
    BY <1>10, <1>11, <2>4, <2>5, <2>7, <2>8 DEF Inv, Flowing
<1> QED
  BY <1>12, <1>13, Places

\* The invariant is kept by ScanExec's next.
LEMMA ScanNextKeeps ==
  ASSUME Inv, ScanNext
  PROVE  Inv'
  BY ScanEnds, ScanGives

\* A step that leaves the operators and the rows collected as they are.
LEMMA Quiet ==
  ASSUME Inv, Running, stmt' = stmt, table' = table, ops' = ops, result' = result
  PROVE  /\ FilterAt' = FilterAt /\ SortAt' = SortAt /\ ProjectAt' = ProjectAt /\ Top' = Top
         /\ WantedRows' = WantedRows /\ Answer' = Answer /\ Meaning' = Meaning
         /\ Unread' = Unread /\ Buffer' = Buffer /\ Sorted' = Sorted /\ Remaining' = Remaining
         /\ Built' /\ Taken' = Taken /\ (UsedUp' <=> UsedUp)
<1>1. /\ FilterAt' = FilterAt /\ SortAt' = SortAt /\ ProjectAt' = ProjectAt /\ Top' = Top
      /\ WantedRows' = WantedRows /\ Answer' = Answer /\ Meaning' = Meaning
  BY Unmoved
<1>2. /\ Unread' = Unread /\ Buffer' = Buffer /\ Sorted' = Sorted /\ Remaining' = Remaining
      /\ Built'
  BY Flows, OpsKept
<1>3. Taken' = Taken /\ (UsedUp' <=> UsedUp)
  BY <1>1, <1>2 DEF Taken, UsedUp
<1> QED
  BY <1>1, <1>2, <1>3

\* It is kept when FilterExec or ProjectExec asks its input.
LEMMA PassCallKeeps ==
  ASSUME Inv, PassCall
  PROVE  Inv'
<1>1. /\ pc = "call" /\ row = None /\ at > 1 /\ at \in 1..Top
      /\ (at = FilterAt /\ FilterAt > 1) \/ at = ProjectAt
  BY CalledAt, Flows, Places DEF PassCall, Running, Called
<1>2. /\ stmt' = stmt /\ table' = table /\ ops' = ops /\ result' = result
      /\ pc' = "call" /\ at' = at - 1 /\ row' = None
  BY DEF PassCall, AskInput
<1>3. /\ Given /\ Built /\ Scanning /\ Answering /\ Limiting /\ Plain /\ Sorting /\ Running
      /\ Len(table) \in Nat /\ Taken \in Nat /\ Len(Meaning) \in Nat /\ Len(result) \in Nat
  BY <1>1, Flows DEF Running
<1>4. /\ FilterAt' = FilterAt /\ SortAt' = SortAt /\ ProjectAt' = ProjectAt /\ Top' = Top
      /\ WantedRows' = WantedRows /\ Answer' = Answer /\ Meaning' = Meaning
      /\ Unread' = Unread /\ Buffer' = Buffer /\ Sorted' = Sorted /\ Remaining' = Remaining
      /\ Built' /\ Taken' = Taken /\ (UsedUp' <=> UsedUp)
  BY <1>2, <1>3, Quiet
<1>5. Left' = Left /\ Tested' = Tested
  BY <1>1, <1>2, <1>4 DEF Left, Tested, Coming, Held
<1>6. Stacked' /\ Running'
  BY <1>1, <1>2, <1>3, <1>4, StaysStacked, Places
<1>7. Scanning'
  BY <1>2, <1>3, <1>4 DEF Scanning, Held, Coming
<1>8. Answering'
  BY <1>2, <1>3, <1>4, <1>5 DEF Answering, Coming
<1>9. Limiting'
  BY <1>1, <1>2, <1>3, <1>4, <1>5, Places DEF Limiting
<1>10. Plain'
  BY <1>1, <1>2, <1>3, <1>4, <1>5, Places DEF Plain
<1>11. Sorting'
  BY <1>1, <1>2, <1>3, <1>4, <1>5, Places DEF Sorting, Filling, Draining
<1> QED
  BY <1>6, <1>7, <1>8, <1>9, <1>10, <1>11 DEF Inv, Flowing

\* What the filter tests is whether the row is wanted.
LEMMA KeepsWanted ==
  ASSUME Inv, Answered("Filter"), row # None
  PROVE  Held /\ (Keeps <=> Taken \in WantedRows)
<1>1. pc = "return" /\ at = FilterAt /\ FilterAt > 1
  BY AnsweredAt
<1>2. Given /\ Built /\ Scanning /\ Taken \in Nat /\ Taken <= Len(table)
  BY <1>1, Flows DEF Running
<1>3. Held
  BY <1>1, Places DEF Held, Coming
<1>4. Taken \in DOMAIN table /\ row = table[Taken]
  BY <1>2, <1>3, TableType DEF Scanning
<1>5. ops[at].predicate = stmt.filter /\ ops[at].columns = Columns
  BY <1>1, <1>2 DEF Built, FilterOp
<1>6. Keeps <=> EvalPredicate(stmt.filter, table[Taken], Columns)
  BY <1>4, <1>5 DEF Keeps
<1>7. stmt.filter # None
  BY <1>1, Places
<1>8. Wanted(Taken) <=> EvalPredicate(stmt.filter, table[Taken], Columns)
  BY <1>2, <1>4, <1>7, WantedIsKept
<1> QED
  BY <1>3, <1>4, <1>6, <1>8 DEF WantedRows

\* It is kept when a row fails the filter: the row is tested and not wanted.
LEMMA FilterSkipKeeps ==
  ASSUME Inv, FilterSkip
  PROVE  Inv'
<1>1. pc = "return" /\ at = FilterAt /\ FilterAt > 1 /\ row # None
  BY AnsweredAt DEF FilterSkip
<1>2. /\ stmt' = stmt /\ table' = table /\ ops' = ops /\ result' = result
      /\ pc' = "call" /\ at' = at - 1 /\ row' = None
  BY DEF FilterSkip, AskInput
<1>3. /\ Given /\ Built /\ Scanning /\ Answering /\ Limiting /\ Plain /\ Sorting /\ Running
      /\ Len(table) \in Nat /\ Taken \in Nat /\ Len(Meaning) \in Nat /\ Len(result) \in Nat
  BY <1>1, Flows DEF Running
<1>4. /\ FilterAt' = FilterAt /\ SortAt' = SortAt /\ ProjectAt' = ProjectAt /\ Top' = Top
      /\ WantedRows' = WantedRows /\ Answer' = Answer /\ Meaning' = Meaning
      /\ Unread' = Unread /\ Buffer' = Buffer /\ Sorted' = Sorted /\ Remaining' = Remaining
      /\ Built' /\ Taken' = Taken /\ (UsedUp' <=> UsedUp)
  BY <1>2, <1>3, Quiet
<1>5. Held /\ Taken \notin WantedRows
  BY KeepsWanted DEF FilterSkip
<1>6. Taken >= 1 /\ Tested = Taken - 1 /\ Tested' = Taken
  BY <1>2, <1>3, <1>4, <1>5 DEF Scanning, Tested, Held, Coming
<1>7. Left' = Left
  BY <1>1, <1>2, <1>4, Places DEF Left, Coming
<1>8. UpTo(WantedRows, Tested') = UpTo(WantedRows, Tested)
  <2>1. Taken - 1 \in Nat /\ (Taken - 1) + 1 = Taken
    BY <1>3, <1>6
  <2>2. UpTo(WantedRows, (Taken - 1) + 1) = UpTo(WantedRows, Taken - 1)
    BY <1>3, <1>5, <2>1, UpToSteps
  <2> QED
    BY <1>6, <2>1, <2>2
<1>9. Stacked' /\ Running'
  BY <1>1, <1>2, <1>3, <1>4, StaysStacked, Places
<1>10. Scanning'
  BY <1>2, <1>3, <1>4 DEF Scanning, Held, Coming
<1>11. Answering'
  BY <1>2, <1>3, <1>4, <1>7 DEF Answering, Coming
<1>12. Limiting'
  BY <1>1, <1>2, <1>3, <1>4, <1>7, Places DEF Limiting
<1>13. Plain'
  BY <1>1, <1>2, <1>3, <1>4, <1>7, <1>8, Places DEF Plain
<1>14. Sorting'
  BY <1>1, <1>2, <1>3, <1>4, <1>7, <1>8, Places DEF Sorting, Filling, Draining
<1> QED
  BY <1>9, <1>10, <1>11, <1>12, <1>13, <1>14 DEF Inv, Flowing

\* It is kept when a row passes the filter: without a sort above it, the row
\* is the next of the answer; and when the input ended.
LEMMA FilterReturnKeeps ==
  ASSUME Inv, FilterReturn
  PROVE  Inv'
<1>1. pc = "return" /\ at = 2 /\ FilterAt = 2 /\ SortAt >= 2
  BY AnsweredAt, Places DEF FilterReturn
<1>2. /\ stmt' = stmt /\ table' = table /\ ops' = ops /\ result' = result
      /\ pc' = "return" /\ at' = 3 /\ row' = row
  BY <1>1 DEF FilterReturn, Return
<1>3. /\ Given /\ Built /\ Scanning /\ Answering /\ Limiting /\ Plain /\ Sorting /\ Running
      /\ Len(table) \in Nat /\ Taken \in Nat /\ Len(Meaning) \in Nat /\ Len(result) \in Nat
  BY <1>1, Flows DEF Running
<1>4. /\ FilterAt' = FilterAt /\ SortAt' = SortAt /\ ProjectAt' = ProjectAt /\ Top' = Top
      /\ WantedRows' = WantedRows /\ Answer' = Answer /\ Meaning' = Meaning
      /\ Unread' = Unread /\ Buffer' = Buffer /\ Sorted' = Sorted /\ Remaining' = Remaining
      /\ Built' /\ Taken' = Taken /\ (UsedUp' <=> UsedUp)
  BY <1>2, <1>3, Quiet
<1>5. Stacked' /\ Running'
  BY <1>1, <1>2, <1>3, <1>4, StaysStacked, Places
<1>6. row # None => Held /\ Taken \in WantedRows
  BY KeepsWanted DEF FilterReturn
<1>7. Scanning'
  BY <1>1, <1>2, <1>3, <1>4, <1>6, Places DEF Scanning, Held, Coming
<1>8. CASE row = None \/ SortAt > 2
  <2>1. Left' = Left /\ Tested' = Tested
    BY <1>1, <1>2, <1>3, <1>4, <1>8, Places DEF Left, Tested, Coming, Held
  <2>2. row = None => Taken = Len(table) /\ Tested = Taken /\ Left = Len(result)
    BY <1>1, <1>3, Places DEF Scanning, Tested, Held, Coming, Left
  <2>3. row = None /\ SortAt = 2 => Left = Len(Meaning)
    BY <1>1, <1>3, <2>2, AllMeant DEF Plain, Answering
  <2>4. Answering'
    BY <1>1, <1>2, <1>3, <1>4, <1>8, <2>1, <2>3, Places DEF Answering, Coming
  <2>5. Limiting'
    BY <1>1, <1>2, <1>3, <1>4, <2>1, Places DEF Limiting
  <2>6. Plain'
    BY <1>1, <1>2, <1>3, <1>4, <1>8, <2>1, Places DEF Plain
  <2>7. Sorting'
    BY <1>1, <1>2, <1>3, <1>4, <1>8, <2>1, Places DEF Sorting, Filling, Draining
  <2> QED
    BY <1>5, <1>7, <2>4, <2>5, <2>6, <2>7 DEF Inv, Flowing
<1>9. CASE row # None /\ SortAt = 2
  <2>1. ProjectAt = 3 /\ stmt.order = None
    BY <1>1, <1>9, Places
  <2>2. Left = Len(result) /\ Tested = Taken - 1 /\ Taken >= 1 /\ row = table[Taken]
    BY <1>1, <1>3, <1>6, <1>9 DEF Left, Tested, Coming, Held, Scanning
  <2>3. Left' = Left + 1 /\ Tested' = Taken
    BY <1>1, <1>2, <1>3, <1>4, <1>9, <2>2 DEF Left, Tested, Coming, Held
  <2>4. /\ Left + 1 <= Len(Meaning) /\ Meaning[Left + 1] = Taken
        /\ UpTo(WantedRows, Taken) = Listed(Meaning, Left + 1)
    <3>1. Taken - 1 \in Nat /\ (Taken - 1) + 1 = Taken /\ Left \in Nat
      BY <1>3, <2>2
    <3>2. (Taken - 1) + 1 \in WantedRows
      BY <1>6, <1>9, <3>1
    <3>3. Left <= Len(Meaning) /\ UpTo(WantedRows, Taken - 1) = Listed(Meaning, Left)
      BY <1>1, <1>3, <1>9, <2>2 DEF Plain, Answering
    <3>4. /\ Left + 1 <= Len(Meaning) /\ Meaning[Left + 1] = (Taken - 1) + 1
          /\ UpTo(WantedRows, (Taken - 1) + 1) = Listed(Meaning, Left + 1)
      BY <1>3, <2>1, <3>1, <3>2, <3>3, NextMeant
    <3> QED
      BY <3>1, <3>4
  <2>5. Answering'
    BY <1>1, <1>2, <1>3, <1>4, <1>9, <2>1, <2>2, <2>3, <2>4 DEF Answering, Coming
  <2>6. Limiting'
    BY <1>1, <1>2, <1>3, <1>4, <2>1, <2>2, <2>3, Places DEF Limiting
  <2>7. LastRow' = Taken
    BY <1>3, <1>4, <2>2, <2>3, <2>4 DEF LastRow
  <2>8. Plain'
    BY <1>1, <1>2, <1>3, <1>4, <1>9, <2>1, <2>2, <2>3, <2>4, <2>7, Places DEF Plain
  <2>9. Sorting'
    BY <1>1, <1>4, <1>9 DEF Sorting
  <2> QED
    BY <1>5, <1>7, <2>5, <2>6, <2>8, <2>9 DEF Inv, Flowing
<1> QED
  BY <1>1, <1>8, <1>9, Places

\* It is kept by the projection, which turns the row of the table into the
\* row of the answer.
LEMMA ProjectKeeps ==
  ASSUME Inv, Project
  PROVE  Inv'
<1>1. pc = "return" /\ at = ProjectAt
  BY AnsweredAt DEF Project
<1>2. /\ stmt' = stmt /\ table' = table /\ ops' = ops /\ result' = result
      /\ pc' = "return" /\ at' = at + 1
  BY DEF Project, Return
<1>3. /\ Given /\ Built /\ Scanning /\ Answering /\ Limiting /\ Plain /\ Sorting /\ Running
      /\ Len(table) \in Nat /\ Taken \in Nat /\ Len(Meaning) \in Nat /\ Len(result) \in Nat
  BY <1>1, Flows DEF Running
<1>4. /\ FilterAt' = FilterAt /\ SortAt' = SortAt /\ ProjectAt' = ProjectAt /\ Top' = Top
      /\ WantedRows' = WantedRows /\ Answer' = Answer /\ Meaning' = Meaning
      /\ Unread' = Unread /\ Buffer' = Buffer /\ Sorted' = Sorted /\ Remaining' = Remaining
      /\ Built' /\ Taken' = Taken /\ (UsedUp' <=> UsedUp)
  BY <1>2, <1>3, Quiet
<1>5. row = None => row' = None
  BY DEF Project, Return
<1>6. row # None => row' = Answer[Meaning[Left]] /\ row' # None
  <2> SUFFICES ASSUME row # None PROVE row' = Answer[Meaning[Left]] /\ row' # None
    OBVIOUS
  <2>1. Left = Len(result) + 1 /\ Left <= Len(Meaning) /\ row = table[Meaning[Left]]
    BY <1>1, <1>3, Places DEF Answering, Left, Coming
  <2>2. Left \in 1..Len(Meaning)
    BY <1>3, <2>1
  <2> DEFINE i == Meaning[Left]
  <2>3. i \in DOMAIN table
    BY <1>3, <2>2, Meant, TableType
  <2>4. ops[at].items = Items(stmt) /\ ops[at].columns = Columns
    BY <1>1, <1>3 DEF Built, ProjectionOp
  <2>5. row' = [n \in DOMAIN Items(stmt) |-> EvalScalar(Items(stmt)[n].expr, table[i], Columns)]
    BY <2>1, <2>4 DEF Project, Return
  <2>6. row' = Shown(i)
    BY <2>5 DEF Shown
  <2>7. Answer[i] = Shown(i)
    BY <2>3 DEF Answer
  <2>8. Shown(i) # None
    BY <1>3, <2>3, NoneIsNoRow
  <2> QED
    BY <2>6, <2>7, <2>8
<1>7. Left' = Left /\ Tested' = Tested
  BY <1>1, <1>2, <1>4, <1>5, <1>6, Places DEF Left, Tested, Coming, Held
<1>8. Stacked' /\ Running'
  BY <1>1, <1>2, <1>3, <1>4, StaysStacked, Places
<1>9. Scanning'
  BY <1>1, <1>2, <1>3, <1>4, <1>6, Places DEF Scanning, Held, Coming
<1>10. Answering'
  BY <1>1, <1>2, <1>3, <1>4, <1>5, <1>6, <1>7, Places DEF Answering, Coming
<1>11. Limiting'
  BY <1>1, <1>2, <1>3, <1>4, <1>7, Places DEF Limiting
<1>12. Plain'
  <2>1. LastRow' = LastRow
    BY <1>4, <1>7 DEF LastRow
  <2> QED
    BY <1>1, <1>2, <1>3, <1>4, <1>5, <1>6, <1>7, <2>1, Places DEF Plain, UsedUp
<1>13. Sorting'
  BY <1>1, <1>2, <1>3, <1>4, <1>7, Places DEF Sorting, Filling, Draining
<1> QED
  BY <1>8, <1>9, <1>10, <1>11, <1>12, <1>13 DEF Inv, Flowing

\* The sort gives out the next of its rows, or says that there is none.
LEMMA SortReturnKeeps ==
  ASSUME Inv, Running, SortAt > FilterAt, pc \in {"call", "return"}, at = SortAt, row = None,
         NEW s \in Seq(Row), SortReturn(s), result' = result,
         Taken = Len(table), stmt.limit # 0,
         Len(s) = Len(Meaning) - Left,
         \A x \in 1..Len(s) : s[x] = table[Meaning[Left + x]]
  PROVE  Inv'
<1> DEFINE z == IF s = <<>> THEN s ELSE Tail(s)
<1>1. /\ stmt' = stmt /\ table' = table /\ result' = result
      /\ ops' = [ops EXCEPT ![SortAt].buffer = <<>>, ![SortAt].sorted = z]
      /\ pc' = "return" /\ at' = SortAt + 1 /\ row' = IF s = <<>> THEN None ELSE Head(s)
  BY DEF SortReturn, Return
<1>2. z \in Seq(Row) /\ <<>> \in Seq(Row)
  OBVIOUS
<1>3. /\ Given /\ Built /\ Scanning /\ Answering /\ Limiting /\ Plain /\ Sorting
      /\ Len(table) \in Nat /\ Taken \in Nat /\ Len(Meaning) \in Nat /\ Len(result) \in Nat
      /\ Left = Len(result)
  BY Flows DEF Left, Coming
<1>4. /\ FilterAt' = FilterAt /\ SortAt' = SortAt /\ ProjectAt' = ProjectAt /\ Top' = Top
      /\ WantedRows' = WantedRows /\ Answer' = Answer /\ Meaning' = Meaning
  BY <1>1, Unmoved
<1> HIDE DEF z
<1>5. /\ Unread' = Unread /\ Built' /\ Sorted' = z
      /\ Top > ProjectAt => Remaining' = Remaining
  BY <1>1, <1>2, <1>3, SortMoves
<1>6. Taken' = Taken /\ (UsedUp' <=> UsedUp)
  BY <1>1, <1>4, <1>5 DEF Taken, UsedUp
<1>7. Top > ProjectAt => Remaining > 0
  BY <1>3, Places DEF Limiting
<1>8. Stacked' /\ Running'
  BY <1>1, <1>3, <1>5, StaysStacked, Places
<1>9. Scanning'
  BY <1>1, <1>3, <1>4, <1>5, <1>6, Places DEF Scanning, Held, Coming
<1>10. Sorted' # None
  BY <1>2, <1>3, <1>5, NoneIsNoRow
<1>11. CASE s = <<>>
  <2>1. row' = None /\ z = <<>> /\ Len(s) = 0
    BY <1>1, <1>11 DEF z
  <2>2. Left' = Left /\ Left = Len(Meaning)
    BY <1>1, <1>3, <2>1 DEF Left, Coming
  <2>3. Answering'
    BY <1>1, <1>3, <1>4, <2>1, <2>2 DEF Answering, Coming
  <2>4. Limiting'
    BY <1>1, <1>3, <1>4, <1>5, <1>7, <2>2, Places DEF Limiting
  <2>5. Plain'
    BY <1>4, Places DEF Plain
  <2>6. Draining'
    <3>1. Len(Sorted') = 0 /\ Taken' = Len(table') /\ stmt'.limit # 0
      BY <1>1, <1>5, <1>6, <2>1
    <3>2. at' >= SortAt' /\ at' > SortAt' /\ Len(Sorted') = Len(Meaning') - Left'
      BY <1>1, <1>3, <1>4, <2>2, <3>1, Places
    <3> QED
      BY <3>1, <3>2 DEF Draining
  <2> QED
    BY <1>8, <1>9, <1>10, <2>3, <2>4, <2>5, <2>6 DEF Inv, Flowing, Sorting
<1>12. CASE s # <<>>
  <2>1. /\ Len(s) \in Nat /\ Len(s) > 0 /\ row' = s[1] /\ s[1] \in Row
        /\ Len(z) = Len(s) - 1 /\ \A x \in 1..Len(z) : z[x] = s[x + 1]
    BY <1>1, <1>12 DEF z
  <2>2. row' # None /\ row' = table[Meaning[Left + 1]]
    BY <1>3, <2>1, NoneIsNoRow
  <2>3. Left' = Left + 1
    BY <1>1, <1>3, <1>4, <2>2, Places DEF Left, Coming
  <2>4. Answering'
    BY <1>1, <1>3, <1>4, <2>1, <2>2, <2>3, Places DEF Answering, Coming
  <2>5. Limiting'
    BY <1>1, <1>3, <1>4, <1>5, <1>7, <2>3, Places DEF Limiting
  <2>6. Plain'
    BY <1>4, Places DEF Plain
  <2>7. Draining'
    <3>1. Len(Sorted') = Len(s) - 1 /\ Taken' = Len(table') /\ stmt'.limit # 0
      BY <1>1, <1>5, <1>6, <2>1
    <3>2. at' >= SortAt' /\ at' > SortAt' /\ Len(Sorted') = Len(Meaning') - Left'
      BY <1>1, <1>3, <1>4, <2>1, <2>3, <3>1, Places
    <3>3. ASSUME NEW x \in 1..Len(Sorted') PROVE Sorted'[x] = table'[Meaning'[Left' + x]]
      <4>1. x + 1 \in 1..Len(s) /\ Left' + x = Left + (x + 1)
        BY <1>3, <2>1, <2>3, <3>1
      <4>2. Sorted'[x] = s[x + 1]
        BY <1>5, <2>1
      <4> QED
        BY <1>1, <1>4, <4>1, <4>2
    <3> QED
      BY <3>1, <3>2, <3>3 DEF Draining
  <2> QED
    BY <1>8, <1>9, <1>10, <2>4, <2>5, <2>6, <2>7 DEF Inv, Flowing, Sorting
<1> QED
  BY <1>11, <1>12

\* It is kept when the sort has its rows in order and gives out one.
LEMMA SortNextKeeps ==
  ASSUME Inv, SortNext
  PROVE  Inv'
<1>1. pc = "call" /\ at = SortAt /\ SortAt > FilterAt /\ Running
  BY CalledAt DEF SortNext, Running
<1>2. Given /\ Built /\ Sorting /\ row = None
  BY <1>1, Flows
<1>3. Sorted # None /\ SortReturn(Sorted)
  BY <1>1 DEF SortNext, Sorted
<1>4. Draining /\ Sorted \in Seq(Row)
  BY <1>1, <1>2, <1>3, StockTypes DEF Sorting
<1>5. result' = result
  BY <1>3 DEF SortReturn, Return
<1> HIDE DEF Sorted
<1> QED
  BY <1>1, <1>2, <1>3, <1>4, <1>5, SortReturnKeeps DEF Draining

\* It is kept when the sort, asked first, asks its input.
LEMMA SortFillKeeps ==
  ASSUME Inv, SortFill
  PROVE  Inv'
<1>1. /\ pc = "call" /\ at = SortAt /\ SortAt > FilterAt /\ row = None
      /\ Sorted = None
  BY CalledAt, Flows DEF SortFill, Running, Sorted
<1>2. /\ stmt' = stmt /\ table' = table /\ ops' = ops /\ result' = result
      /\ pc' = "call" /\ at' = at - 1 /\ row' = None
  BY DEF SortFill, AskInput
<1>3. /\ Given /\ Built /\ Scanning /\ Answering /\ Limiting /\ Plain /\ Sorting /\ Running
      /\ Len(table) \in Nat /\ Taken \in Nat /\ Len(Meaning) \in Nat /\ Len(result) \in Nat
  BY <1>1, Flows DEF Running
<1>4. /\ FilterAt' = FilterAt /\ SortAt' = SortAt /\ ProjectAt' = ProjectAt /\ Top' = Top
      /\ WantedRows' = WantedRows /\ Answer' = Answer /\ Meaning' = Meaning
      /\ Unread' = Unread /\ Buffer' = Buffer /\ Sorted' = Sorted /\ Remaining' = Remaining
      /\ Built' /\ Taken' = Taken /\ (UsedUp' <=> UsedUp)
  BY <1>2, <1>3, Quiet
<1>5. Left' = Left /\ Tested' = Tested
  BY <1>1, <1>2, <1>4 DEF Left, Tested, Coming, Held
<1>6. Stacked' /\ Running'
  BY <1>1, <1>2, <1>3, <1>4, StaysStacked, Places
<1>7. Scanning'
  BY <1>2, <1>3, <1>4 DEF Scanning, Held, Coming
<1>8. Answering'
  BY <1>2, <1>3, <1>4, <1>5 DEF Answering, Coming
<1>9. Limiting'
  BY <1>1, <1>2, <1>3, <1>4, <1>5, Places DEF Limiting
<1>10. Plain'
  BY <1>1, <1>4, Places DEF Plain
<1>11. Sorting'
  BY <1>1, <1>2, <1>3, <1>4, <1>5, Places DEF Sorting, Filling
<1> QED
  BY <1>6, <1>7, <1>8, <1>9, <1>10, <1>11 DEF Inv, Flowing

\* It is kept when the sort takes in a row.
LEMMA SortAbsorbKeeps ==
  ASSUME Inv, SortAbsorb
  PROVE  Inv'
<1>1. pc = "return" /\ at = SortAt /\ SortAt > FilterAt /\ row # None
  BY AnsweredAt DEF SortAbsorb
<1>2. /\ Given /\ Built /\ Scanning /\ Answering /\ Limiting /\ Plain /\ Sorting /\ Running
      /\ Len(table) \in Nat /\ Taken \in Nat /\ Taken <= Len(table)
      /\ Len(Meaning) \in Nat /\ Len(result) \in Nat
  BY <1>1, Flows DEF Running
<1>3. Held
  BY <1>1, Places DEF Held, Coming
<1>4. Taken >= 1 /\ row = table[Taken] /\ Taken \in WantedRows /\ Tested = Taken - 1
  BY <1>1, <1>2, <1>3, Places DEF Scanning, Tested
<1>5. row \in Row
  BY <1>2, <1>4, TableType
<1>6. Sorted = None /\ Filling
  BY <1>1, <1>2, Places DEF Sorting, Draining
<1>7. Buffer \in Seq(Row) /\ ops[SortAt].sorted = Sorted /\ ops[SortAt].buffer = Buffer
  BY <1>1, <1>2, StockTypes DEF Buffer, Sorted
<1> DEFINE b == Append(Buffer, row)
<1>8. /\ stmt' = stmt /\ table' = table /\ result' = result
      /\ pc' = "call" /\ at' = at - 1 /\ row' = None
      /\ ops' = [ops EXCEPT ![SortAt].buffer = b]
  BY <1>1, <1>7 DEF SortAbsorb, AskInput
<1>9. ops' = [ops EXCEPT ![SortAt].buffer = b, ![SortAt].sorted = None]
  <2>1. ops[SortAt] \in SortOp /\ ops[SortAt].sorted = None
    BY <1>1, <1>2, <1>6, <1>7 DEF Built
  <2>2. [ops[SortAt] EXCEPT !.buffer = b] = [ops[SortAt] EXCEPT !.buffer = b, !.sorted = None]
    BY <2>1 DEF SortOp
  <2>3. SortAt \in DOMAIN ops
    BY <1>1, <1>2, Places DEF Built
  <2>4. /\ [ops EXCEPT ![SortAt].buffer = b] =
             [ops EXCEPT ![SortAt] = [ops[SortAt] EXCEPT !.buffer = b]]
        /\ [ops EXCEPT ![SortAt].buffer = b, ![SortAt].sorted = None] =
             [ops EXCEPT ![SortAt] = [ops[SortAt] EXCEPT !.buffer = b, !.sorted = None]]
    BY <2>3
  <2> QED
    BY Zenon, <1>8, <2>2, <2>4
<1>10. b \in Seq(Row)
  BY <1>5, <1>7
<1> HIDE DEF b
<1>11. /\ Unread' = Unread /\ Built' /\ Buffer' = b /\ Sorted' = None
       /\ Top > ProjectAt => Remaining' = Remaining
  BY <1>1, <1>2, <1>8, <1>9, <1>10, SortMoves
<1>12. /\ FilterAt' = FilterAt /\ SortAt' = SortAt /\ ProjectAt' = ProjectAt /\ Top' = Top
       /\ WantedRows' = WantedRows /\ Answer' = Answer /\ Meaning' = Meaning
  BY <1>8, Unmoved
<1>13. Taken' = Taken /\ (UsedUp' <=> UsedUp)
  BY <1>8, <1>11, <1>12 DEF Taken, UsedUp
<1>14. Left' = Left /\ Tested' = Taken
  BY <1>1, <1>8, <1>12, <1>13, Places DEF Left, Tested, Coming, Held
<1>15. \E k : Lists(table, k, b, UpTo(WantedRows, Taken))
  <2>1. PICK k : Lists(table, k, Buffer, UpTo(WantedRows, Taken - 1))
    BY <1>4, <1>6 DEF Filling
  <2>2. Taken - 1 \in Nat /\ (Taken - 1) + 1 = Taken
    BY <1>2, <1>4
  <2>3. (Taken - 1) + 1 \in WantedRows
    BY <1>4, <2>2
  <2>4. \E q : Lists(table, q, Append(Buffer, table[(Taken - 1) + 1]), UpTo(WantedRows, (Taken - 1) + 1))
    BY <1>2, <1>7, <2>1, <2>2, <2>3, ListsMore
  <2> QED
    BY <1>4, <2>2, <2>4 DEF b
<1>16. Stacked' /\ Running'
  BY <1>1, <1>2, <1>8, <1>11, StaysStacked, Places
<1>17. Scanning'
  BY <1>2, <1>8, <1>11, <1>12, <1>13 DEF Scanning, Held, Coming
<1>18. Answering'
  BY <1>2, <1>8, <1>12, <1>14 DEF Answering, Coming
<1>19. Limiting'
  BY <1>1, <1>2, <1>8, <1>11, <1>12, <1>14, Places DEF Limiting
<1>20. Plain'
  BY <1>1, <1>12, Places DEF Plain
<1>21. Filling'
  BY <1>1, <1>6, <1>8, <1>11, <1>12, <1>14, <1>15, Places DEF Filling
<1> QED
  BY <1>11, <1>16, <1>17, <1>18, <1>19, <1>20, <1>21 DEF Inv, Flowing, Sorting

\* It is kept when the input of the sort ended: the rows in the buffer are all
\* the rows wanted, and sorted they are the rows of the answer.
LEMMA SortRowsKeeps ==
  ASSUME Inv, SortRows
  PROVE  Inv'
<1>1. pc = "return" /\ at = SortAt /\ SortAt > FilterAt /\ row = None /\ Running
  BY AnsweredAt DEF SortRows, Running
<1>2. /\ Given /\ Built /\ Scanning /\ Answering /\ Limiting /\ Sorting
      /\ Len(table) \in Nat /\ Taken \in Nat /\ Len(Meaning) \in Nat /\ Len(result) \in Nat
  BY <1>1, Flows
<1>3. Taken = Len(table) /\ Tested = Taken
  BY <1>1, <1>2, Places DEF Scanning, Tested, Held, Coming
<1>4. Sorted = None /\ Filling
  BY <1>1, <1>2, Places DEF Sorting, Draining
<1>5. stmt.order # None /\ Buffer \in Seq(Row)
  BY <1>1, <1>2, StockTypes, Places
<1>6. PICK k : Lists(table, k, Buffer, WantedRows)
  BY <1>2, <1>3, <1>4, AllMeant DEF Filling
<1> DEFINE s == SortBy(Buffer, Position(Columns, stmt.order.column), stmt.order.descending)
<1>7. /\ s \in Seq(Row) /\ Len(s) = Len(Meaning)
      /\ \A x \in 1..Len(s) : s[x] = table[Meaning[x]]
  BY <1>2, <1>5, <1>6, SortsRows
<1>8. SortReturn(s)
  <2>1. /\ ops[at].index = Position(Columns, stmt.order.column)
        /\ ops[at].descending = stmt.order.descending /\ ops[at].buffer = Buffer
    BY <1>1, <1>2 DEF Built, SortOp, Buffer
  <2> QED
    BY <2>1 DEF SortRows
<1> HIDE DEF s
<1>9. result' = result
  BY <1>8 DEF SortReturn, Return
<1>10. Left = 0
  BY <1>4 DEF Filling
<1>11. stmt.limit # 0
  <2>1. CASE stmt.limit = None
    BY <2>1, NoneAssumption
  <2>2. CASE stmt.limit # None
    <3>1. Top > ProjectAt /\ Remaining \in Nat
      BY <1>2, <2>2, StockTypes, Places
    <3>2. Remaining > 0 /\ Remaining + Len(result) = stmt.limit
      BY <1>1, <1>2, <3>1, Places DEF Limiting
    <3> QED
      BY <1>2, <3>1, <3>2
  <2> QED
    BY <2>1, <2>2
<1>12. Len(s) = Len(Meaning) - Left /\ \A x \in 1..Len(s) : s[x] = table[Meaning[Left + x]]
  BY <1>2, <1>7, <1>10
<1> QED
  BY <1>1, <1>3, <1>7, <1>8, <1>9, <1>11, <1>12, SortReturnKeeps

\* It is kept when the limit is asked: used up, it ends the answer by itself.
LEMMA LimitAsks ==
  ASSUME Inv, LimitNext, pc = "call"
  PROVE  Inv'
<1>1. at = Top /\ Top > ProjectAt /\ row = None /\ Called("Limit") /\ ~Answered("Limit")
  BY CalledAt, Flows DEF LimitNext, Running, Answered
<1>2. /\ Given /\ Built /\ Scanning /\ Answering /\ Limiting /\ Plain /\ Sorting /\ Running
      /\ Len(table) \in Nat /\ Taken \in Nat /\ Len(Meaning) \in Nat /\ Len(result) \in Nat
      /\ Remaining \in Nat
  BY <1>1, Flows, StockTypes DEF Running
<1>3. /\ stmt' = stmt /\ table' = table /\ ops' = ops /\ result' = result /\ row' = None
      /\ \/ Remaining = 0 /\ pc' = "return" /\ at' = Top + 1
         \/ Remaining # 0 /\ pc' = "call" /\ at' = Top - 1
  BY <1>1 DEF LimitNext, AskInput, Return, Remaining
<1>4. /\ FilterAt' = FilterAt /\ SortAt' = SortAt /\ ProjectAt' = ProjectAt /\ Top' = Top
      /\ WantedRows' = WantedRows /\ Answer' = Answer /\ Meaning' = Meaning
      /\ Unread' = Unread /\ Buffer' = Buffer /\ Sorted' = Sorted /\ Remaining' = Remaining
      /\ Built' /\ Taken' = Taken /\ (UsedUp' <=> UsedUp)
  BY <1>2, <1>3, Quiet
<1>5. UsedUp <=> Remaining = 0
  BY <1>1 DEF UsedUp
<1>6. Left' = Left /\ Left = Len(result) /\ Tested' = Tested
  BY <1>1, <1>3, <1>4 DEF Left, Tested, Coming, Held
<1>7. LastRow' = LastRow
  BY <1>4, <1>6 DEF LastRow
<1>8. Stacked' /\ Running'
  BY <1>1, <1>2, <1>3, <1>4, StaysStacked, Places
<1>9. Scanning'
  BY <1>1, <1>2, <1>3, <1>4, Places DEF Scanning, Held, Coming
<1>10. Answering'
  BY <1>1, <1>2, <1>3, <1>4, <1>5, <1>6, Places DEF Answering, Coming
<1>11. Limiting'
  BY <1>1, <1>2, <1>3, <1>4, <1>6, Places DEF Limiting
<1>12. Plain'
  BY <1>1, <1>2, <1>3, <1>4, <1>5, <1>6, <1>7, Places DEF Plain
<1>13. Sorting'
  BY <1>1, <1>2, <1>3, <1>4, <1>5, <1>6, Places DEF Sorting, Filling, Draining
<1> QED
  BY <1>8, <1>9, <1>10, <1>11, <1>12, <1>13 DEF Inv, Flowing

\* It is kept when the limit passes a row or the end on and counts.
LEMMA LimitPasses ==
  ASSUME Inv, LimitNext, pc # "call"
  PROVE  Inv'
<1>1. Answered("Limit") /\ pc = "return" /\ at = Top /\ Top > ProjectAt
  BY AnsweredAt DEF LimitNext, Called
<1>2. /\ Given /\ Built /\ Scanning /\ Answering /\ Limiting /\ Plain /\ Sorting /\ Running
      /\ Len(table) \in Nat /\ Taken \in Nat /\ Len(Meaning) \in Nat /\ Len(result) \in Nat
      /\ Remaining \in Nat
  BY <1>1, Flows, StockTypes DEF Running
<1>3. Remaining > 0 /\ Remaining + Len(result) = stmt.limit
  BY <1>1, <1>2, Places DEF Limiting
<1> DEFINE n == IF row = None THEN Remaining ELSE Remaining - 1
<1>4. /\ stmt' = stmt /\ table' = table /\ result' = result /\ row' = row
      /\ ops' = [ops EXCEPT ![Top].remaining = n] /\ pc' = "return" /\ at' = Top + 1
  BY <1>1 DEF LimitNext, Return, Remaining, Called
<1>5. n \in Nat
  BY <1>2, <1>3
<1>6. row = None => n = Remaining
  OBVIOUS
<1>7. row # None => n = Remaining - 1
  OBVIOUS
<1> HIDE DEF n
<1>8. /\ Unread' = Unread /\ Built' /\ Remaining' = n
      /\ SortAt > FilterAt => Buffer' = Buffer /\ Sorted' = Sorted
  BY <1>1, <1>2, <1>4, <1>5, LimitMoves
<1>9. /\ FilterAt' = FilterAt /\ SortAt' = SortAt /\ ProjectAt' = ProjectAt /\ Top' = Top
      /\ WantedRows' = WantedRows /\ Answer' = Answer /\ Meaning' = Meaning
  BY <1>4, Unmoved
<1>10. Taken' = Taken /\ ~UsedUp /\ (row = None => ~UsedUp')
  BY <1>3, <1>4, <1>6, <1>8, <1>9 DEF Taken, UsedUp
<1>11. Left' = Left /\ Tested' = Tested /\ Left = IF row = None THEN Len(result) ELSE Len(result) + 1
  BY <1>1, <1>4, <1>9, <1>10, Places DEF Left, Tested, Coming, Held
<1>12. LastRow' = LastRow
  BY <1>9, <1>11 DEF LastRow
<1>13. Stacked' /\ Running'
  <2>1. Top + 1 \in 1..(Top + 1) /\ Top + 1 > 1
    BY Places
  <2>2. /\ pc' \in {"call", "return", "done"} /\ pc' # "call" /\ pc' # "done"
        /\ at' \in 1..(Top + 1) /\ at' > 1
    BY <1>4, <2>1
  <2> QED
    BY <1>2, <1>4, <1>8, <2>2, StaysStacked
<1>14. Scanning'
  BY <1>1, <1>2, <1>4, <1>8, <1>9, <1>10, Places DEF Scanning, Held, Coming
<1>15. Answering'
  BY <1>1, <1>2, <1>4, <1>9, <1>10, <1>11, Places DEF Answering, Coming
<1>16. Limiting'
  BY <1>1, <1>2, <1>3, <1>4, <1>6, <1>7, <1>8, <1>9, <1>11, Places DEF Limiting
<1>17. Plain'
  BY <1>1, <1>2, <1>4, <1>9, <1>10, <1>11, <1>12, Places DEF Plain
<1>18. Sorting'
  BY <1>1, <1>2, <1>4, <1>8, <1>9, <1>10, <1>11, Places DEF Sorting, Filling, Draining
<1> QED
  BY <1>13, <1>14, <1>15, <1>16, <1>17, <1>18 DEF Inv, Flowing

\* It is kept when execute collects the row that came up, or is done.
LEMMA CollectKeeps ==
  ASSUME Inv, Collect
  PROVE  Inv'
<1>1. pc = "return" /\ Running
  BY DEF Collect, Running
<1>2. /\ Given /\ Built /\ Scanning /\ Answering /\ Limiting /\ Plain /\ Sorting
      /\ Len(table) \in Nat /\ Taken \in Nat /\ Len(Meaning) \in Nat /\ Len(result) \in Nat
  BY <1>1, Flows
<1>3. Len(ops) = Top
  BY <1>2, OpsLength
<1>4. /\ stmt' = stmt /\ table' = table /\ ops' = ops /\ row' = None /\ at = Top + 1
      /\ \/ row = None /\ pc' = "done" /\ at' = at /\ result' = result
         \/ row # None /\ pc' = "call" /\ at' = Top /\ result' = Append(result, row)
  BY <1>3 DEF Collect
<1>5. /\ FilterAt' = FilterAt /\ SortAt' = SortAt /\ ProjectAt' = ProjectAt /\ Top' = Top
      /\ WantedRows' = WantedRows /\ Answer' = Answer /\ Meaning' = Meaning
  BY <1>4, Unmoved
<1>6. /\ Unread' = Unread /\ Buffer' = Buffer /\ Sorted' = Sorted /\ Remaining' = Remaining
      /\ Built'
  BY <1>2, <1>4, OpsKept
<1>7. Taken' = Taken /\ (UsedUp' <=> UsedUp)
  BY <1>4, <1>5, <1>6 DEF Taken, UsedUp
<1>8. Stacked' /\ Running'
  BY <1>1, <1>4, <1>6, StaysStacked, Places
<1>9. Scanning'
  BY <1>2, <1>4, <1>5, <1>6, <1>7 DEF Scanning, Held, Coming
<1>10. CASE row = None
  <2>1. Left' = Left /\ Tested' = Tested /\ Left = Len(result)
    BY <1>4, <1>7, <1>10 DEF Left, Tested, Coming, Held
  <2>2. LastRow' = LastRow
    BY <1>5, <2>1 DEF LastRow
  <2>3. Answering'
    BY <1>1, <1>2, <1>4, <1>5, <1>7, <1>10, <2>1, Places DEF Answering, Coming
  <2>4. Limiting'
    BY <1>1, <1>2, <1>4, <1>5, <1>6, <1>10, <2>1, Places DEF Limiting
  <2>5. Plain'
    BY <1>1, <1>2, <1>4, <1>5, <1>7, <1>10, <2>1, <2>2, Places DEF Plain
  <2>6. Sorting'
    BY <1>1, <1>2, <1>4, <1>5, <1>6, <1>7, <1>10, <2>1, Places DEF Sorting, Filling, Draining
  <2> QED
    BY <1>8, <1>9, <2>3, <2>4, <2>5, <2>6 DEF Inv, Flowing
<1>11. CASE row # None
  <2>1. Left = Len(result) + 1 /\ Tested = Taken
    BY <1>1, <1>4, <1>11, Places DEF Left, Tested, Coming, Held
  <2>2. Left \in 1..Len(Meaning) /\ Left <= Len(Meaning)
    BY <1>2, <2>1 DEF Answering
  <2>3. row = Answer[Meaning[Left]] /\ row \in Range(Answer)
    <3>1. row = Answer[Meaning[Left]]
      BY <1>1, <1>2, <1>4, <1>11, Places DEF Answering, Coming
    <3>2. Meaning[Left] \in DOMAIN Answer
      BY <1>2, <2>2, Meant, TableType DEF Answer
    <3> QED
      BY <3>1, <3>2 DEF Range
  <2>4. /\ result' \in Seq(Range(Answer)) /\ Len(result') = Len(result) + 1
        /\ result'[Left] = row /\ \A j \in 1..Len(result) : result'[j] = result[j]
    BY <1>2, <1>4, <1>11, <2>1, <2>3 DEF Answering
  <2>5. Left' = Left /\ Tested' = Tested
    BY <1>4, <1>7, <1>11, <2>1, <2>4 DEF Left, Tested, Coming, Held
  <2>6. LastRow' = LastRow
    BY <1>5, <2>5 DEF LastRow
  <2>7. \A j \in 1..Len(result') : result'[j] = Answer[Meaning[j]]
    <3>1. \A j \in 1..Len(result') : j \in 1..Len(result) \/ j = Left
      BY <1>2, <2>1, <2>4
    <3> QED
      BY <1>2, <2>3, <2>4, <3>1 DEF Answering
  <2>8. Answering'
    BY <1>4, <1>5, <1>11, <2>2, <2>4, <2>5, <2>7 DEF Answering, Coming
  <2>9. Limiting'
    BY <1>1, <1>2, <1>4, <1>5, <1>6, <1>11, <2>1, <2>4, Places DEF Limiting
  <2>10. Plain'
    BY <1>1, <1>2, <1>4, <1>5, <1>7, <1>11, <2>5, <2>6, Places DEF Plain
  <2>11. Sorting'
    BY <1>1, <1>2, <1>4, <1>5, <1>6, <1>7, <1>11, <2>1, <2>5, Places DEF Sorting, Filling, Draining
  <2> QED
    BY <1>8, <1>9, <2>8, <2>9, <2>10, <2>11 DEF Inv, Flowing
<1> QED
  BY <1>10, <1>11

\* Below the projection the rows have the columns of the table.
LEMMA ColumnsBelow ==
  ASSUME NEW i \in 1..SortAt
  PROVE  ColumnsOf(PlanSelect(stmt), i) = Columns
<1> DEFINE p == PlanSelect(stmt)
<1>1. /\ p[1].op = "Scan"
      /\ FilterAt > 1 => p[FilterAt].op = "Filter"
      /\ SortAt > FilterAt => p[SortAt].op = "Sort"
  BY PlanShape
<1> HIDE DEF p
<1>2. \A j \in 1..i : j = 1 \/ (j = FilterAt /\ FilterAt > 1) \/ (j = SortAt /\ SortAt > FilterAt)
  BY Places
<1>3. \A j \in 1..i : p[j].op # "Projection"
  BY <1>1, <1>2
<1>4. {j \in 1..i : p[j].op = "Projection"} = {}
  BY <1>3
<1>5. ColumnsOf(p, i) = Columns
  BY <1>4 DEF ColumnsOf
<1> QED
  BY <1>5 DEF p

\* What the planner accepts it builds, and the sort finds its column.
LEMMA PlanBuilds ==
  ASSUME Given
  PROVE  LET p == PlanSelect(stmt)
         IN  /\ \A i \in DOMAIN p : Unwraps(p, i)
             /\ ops' = [i \in DOMAIN p |-> Build(p, i)] /\ stmt' = stmt /\ table' = table =>
                  /\ Built' /\ Unread' = table
                  /\ SortAt > FilterAt => Buffer' = <<>> /\ Sorted' = None
                  /\ Top > ProjectAt => Remaining' = stmt.limit
<1> DEFINE p == PlanSelect(stmt)
<1>1. /\ DOMAIN p = 1..Top /\ Len(p) = Top
      /\ p[1] = [op |-> "Scan"]
      /\ FilterAt > 1 => p[FilterAt] = [op |-> "Filter", predicate |-> stmt.filter]
      /\ SortAt > FilterAt => p[SortAt] = [op |-> "Sort", order |-> stmt.order]
      /\ p[ProjectAt] = [op |-> "Projection", items |-> Items(stmt)]
      /\ Top > ProjectAt => p[Top] = [op |-> "Limit", count |-> stmt.limit]
  BY PlanShape
<1>2. \A i \in 1..SortAt : ColumnsOf(p, i) = Columns
  BY ColumnsBelow
<1> HIDE DEF p
<1>3. /\ 1 \in 1..Top /\ FilterAt \in 1..Top /\ SortAt \in 1..Top /\ ProjectAt \in 1..Top
      /\ Top \in 1..Top
      /\ FilterAt > 1 => FilterAt # 1 /\ FilterAt - 1 \in 1..SortAt
      /\ SortAt > FilterAt => SortAt # 1 /\ SortAt - 1 \in 1..SortAt
      /\ ProjectAt # 1 /\ ProjectAt - 1 \in 1..SortAt
      /\ Top > ProjectAt => Top # 1
  BY Places
<1>4. \A i \in 1..Top : i = 1 \/ (i = FilterAt /\ FilterAt > 1) \/ (i = SortAt /\ SortAt > FilterAt)
                        \/ i = ProjectAt \/ (i = Top /\ Top > ProjectAt)
  BY Places
<1>5. /\ FilterAt > 1 => stmt.filter # None
      /\ SortAt > FilterAt => /\ stmt.order # None /\ stmt.order.descending \in BOOLEAN
                              /\ stmt.order.column \in Range(Columns)
      /\ Top > ProjectAt => stmt.limit \in Nat
  BY Places, StatementsAssumption DEF Given, Accepted
<1>6. \A i \in 1..Top : Unwraps(p, i)
  <2> SUFFICES ASSUME NEW i \in 1..Top, p[i].op = "Sort"
               PROVE  p[i].order.column \in Range(ColumnsOf(p, i - 1))
    BY DEF Unwraps
  <2>1. i = SortAt /\ SortAt > FilterAt
    BY <1>1, <1>4
  <2> QED
    BY <1>1, <1>2, <1>3, <1>5, <2>1
<1>7. ASSUME ops' = [i \in DOMAIN p |-> Build(p, i)], stmt' = stmt, table' = table
      PROVE  /\ Built' /\ Unread' = table
             /\ SortAt > FilterAt => Buffer' = <<>> /\ Sorted' = None
             /\ Top > ProjectAt => Remaining' = stmt.limit
  <2>1. /\ FilterAt' = FilterAt /\ SortAt' = SortAt /\ ProjectAt' = ProjectAt /\ Top' = Top
        /\ ScanOp' = ScanOp /\ FilterOp' = FilterOp /\ SortOp' = SortOp
        /\ ProjectionOp' = ProjectionOp /\ LimitOp' = LimitOp
    BY <1>7, Unmoved DEF ScanOp, FilterOp, SortOp, ProjectionOp, LimitOp, Items
  <2>2. ops' = [i \in 1..Top |-> Build(p, i)]
    BY <1>1, <1>7
  <2>3. ops'[1] = [op |-> "Scan", rows |-> table]
    <3>1. Build(p, 1) = [op |-> "Scan", rows |-> table]
      BY <1>1 DEF Build
    <3> QED
      BY <1>3, <2>2, <3>1
  <2>4. FilterAt > 1 => ops'[FilterAt] = [op |-> "Filter", predicate |-> stmt.filter, columns |-> Columns]
    <3>1. FilterAt > 1 => Build(p, FilterAt) = [op |-> "Filter", predicate |-> stmt.filter, columns |-> Columns]
      BY <1>1, <1>2, <1>3 DEF Build
    <3> QED
      BY <1>3, <2>2, <3>1
  <2>5. SortAt > FilterAt =>
          ops'[SortAt] = [op |-> "Sort", index |-> Position(Columns, stmt.order.column),
                          descending |-> stmt.order.descending, buffer |-> <<>>, sorted |-> None]
    <3>1. SortAt > FilterAt =>
            Build(p, SortAt) = [op |-> "Sort", index |-> Position(Columns, stmt.order.column),
                                descending |-> stmt.order.descending, buffer |-> <<>>, sorted |-> None]
      BY <1>1, <1>2, <1>3 DEF Build
    <3> QED
      BY <1>3, <2>2, <3>1
  <2>6. ops'[ProjectAt] = [op |-> "Projection", items |-> Items(stmt), columns |-> Columns]
    <3>1. Build(p, ProjectAt) = [op |-> "Projection", items |-> Items(stmt), columns |-> Columns]
      BY <1>1, <1>2, <1>3 DEF Build
    <3> QED
      BY <1>3, <2>2, <3>1
  <2>7. Top > ProjectAt => ops'[Top] = [op |-> "Limit", remaining |-> stmt.limit]
    <3>1. Top > ProjectAt => Build(p, Top) = [op |-> "Limit", remaining |-> stmt.limit]
      BY <1>1 DEF Build
    <3> QED
      BY <1>3, <2>2, <3>1
  <2>8. ops'[1] \in ScanOp
    BY <2>3, TableType DEF ScanOp
  <2>9. FilterAt > 1 => ops'[FilterAt] \in FilterOp
    BY <2>4 DEF FilterOp
  <2>10. SortAt > FilterAt => ops'[SortAt] \in SortOp
    <3> SUFFICES ASSUME SortAt > FilterAt PROVE ops'[SortAt] \in SortOp
      OBVIOUS
    <3>1. PICK d : d = stmt.order.descending
      OBVIOUS
    <3>2. PICK n : n = Position(Columns, stmt.order.column)
      OBVIOUS
    <3>3. ops'[SortAt] = [op |-> "Sort", index |-> n, descending |-> d, buffer |-> <<>>, sorted |-> None]
      BY <2>5, <3>1, <3>2
    <3>4. SortOp = [op : {"Sort"}, index : {n}, descending : {d}, buffer : Seq(Row),
                    sorted : Seq(Row) \cup {None}]
      BY <3>1, <3>2 DEF SortOp
    <3>5. <<>> \in Seq(Row)
      OBVIOUS
    <3> QED
      BY <3>3, <3>4, <3>5
  <2>11. ops'[ProjectAt] \in ProjectionOp
    BY <2>6 DEF ProjectionOp
  <2>12. Top > ProjectAt => ops'[Top] \in LimitOp
    BY <1>5, <2>7 DEF LimitOp
  <2>13. Built'
    <3> HIDE DEF ScanOp, FilterOp, SortOp, ProjectionOp, LimitOp
    <3>1. \A i \in 1..Top : ops'[i] \in ScanOp \cup FilterOp \cup SortOp \cup ProjectionOp \cup LimitOp
      BY <1>4, <2>8, <2>9, <2>10, <2>11, <2>12
    <3>2. ops' = [i \in 1..Top |-> ops'[i]]
      BY <2>2
    <3>3. ops' \in [1..Top -> ScanOp \cup FilterOp \cup SortOp \cup ProjectionOp \cup LimitOp]
      BY Zenon, <3>1, <3>2
    <3> QED
      BY <2>1, <2>8, <2>9, <2>10, <2>11, <2>12, <3>3 DEF Built
  <2> QED
    BY <2>1, <2>3, <2>5, <2>7, <2>13 DEF Unread, Buffer, Sorted, Remaining
<1> QED
  BY <1>1, <1>6, <1>7 DEF p

\* It holds when the operators of an accepted statement have been built.
LEMMA PlanKeeps ==
  ASSUME Inv, Plan
  PROVE  Inv'
<1> DEFINE p == PlanSelect(stmt)
<1>1. /\ pc = "plan" /\ ~Running /\ ops = <<>> /\ result = <<>> /\ row = None
      /\ stmt \in Statements /\ table \in Tables
      /\ stmt' = stmt /\ table' = table /\ result' = <<>> /\ row' = None
  BY DEF Plan, Running, Inv, Stacked
<1>2. CASE ~Accepted(stmt)
  <2>1. pc' = "rejected" /\ ops' = ops
    BY <1>2 DEF Plan
  <2> QED
    BY <1>1, <2>1 DEF Inv, Stacked, Running
<1>3. CASE Accepted(stmt)
  <2>1. Given
    BY <1>1, <1>3 DEF Given
  <2>2. /\ \A i \in DOMAIN p : Unwraps(p, i)
        /\ ops' = [i \in DOMAIN p |-> Build(p, i)] /\ stmt' = stmt /\ table' = table =>
             /\ Built' /\ Unread' = table
             /\ SortAt > FilterAt => Buffer' = <<>> /\ Sorted' = None
             /\ Top > ProjectAt => Remaining' = stmt.limit
    BY <2>1, PlanBuilds
  <2>3. pc' = "call" /\ at' = Len(p) /\ ops' = [i \in DOMAIN p |-> Build(p, i)]
    BY <1>3, <2>2 DEF Plan
  <2>4. Len(p) = Top
    BY PlanShape
  <2> HIDE DEF p
  <2>5. /\ Built' /\ Unread' = table /\ at' = Top
        /\ SortAt > FilterAt => Buffer' = <<>> /\ Sorted' = None
        /\ Top > ProjectAt => Remaining' = stmt.limit
    BY <1>1, <2>2, <2>3, <2>4
  <2>6. /\ FilterAt' = FilterAt /\ SortAt' = SortAt /\ ProjectAt' = ProjectAt /\ Top' = Top
        /\ WantedRows' = WantedRows /\ Answer' = Answer /\ Meaning' = Meaning
    BY <1>1, Unmoved
  <2>7. Len(table) \in Nat /\ Len(Meaning) \in Nat /\ Len(<<>>) = 0 /\ <<>> \in Seq(Range(Answer))
    BY <2>1, Meant, TableType
  <2>8. Taken' = 0 /\ Left' = 0 /\ Tested' = 0 /\ LastRow' = 0
    BY <1>1, <2>3, <2>5, <2>7 DEF Taken, Left, Tested, Held, Coming, LastRow
  <2>9. Stacked' /\ Running'
    BY <1>1, <1>3, <2>3, <2>5, <2>6, Places DEF Stacked, Running
  <2>10. Scanning'
    BY <1>1, <2>3, <2>5, <2>7, <2>8 DEF Scanning, Held, Coming
  <2>11. Answering'
    BY <1>1, <2>3, <2>6, <2>7, <2>8 DEF Answering, Coming
  <2>12. Top > ProjectAt => stmt.limit \in Nat
    BY <2>1, StatementsAssumption, Places DEF Given, Accepted
  <2>13. Limiting'
    BY <1>1, <2>3, <2>5, <2>6, <2>7, <2>12, Places DEF Limiting
  <2>14. UpTo(WantedRows, 0) = {} /\ Listed(Meaning, 0) = {}
    BY <2>1, UpToSteps
  <2>15. Plain'
    BY <2>6, <2>8, <2>14 DEF Plain
  <2>16. SortAt > FilterAt => Filling'
    BY <2>3, <2>5, <2>6, <2>8, <2>14, <1>1, ListsNone DEF Filling
  <2> QED
    BY <2>5, <2>6, <2>9, <2>10, <2>11, <2>13, <2>15, <2>16 DEF Inv, Flowing, Sorting
<1> QED
  BY <1>2, <1>3
-----------------------------------------------------------------------------
\* The invariant holds at first,
LEMMA InitInv == Init => Inv
  BY DEF Init, Inv, Stacked, Running

\* and every step keeps it.
LEMMA NextInv == Inv /\ [Next]_vars => Inv'
<1> SUFFICES ASSUME Inv, [Next]_vars
             PROVE  Inv'
  OBVIOUS
<1>1. CASE Plan
  BY <1>1, PlanKeeps
<1>2. CASE ScanNext
  BY <1>2, ScanNextKeeps
<1>3. CASE PassCall
  BY <1>3, PassCallKeeps
<1>4. CASE FilterSkip
  BY <1>4, FilterSkipKeeps
<1>5. CASE FilterReturn
  BY <1>5, FilterReturnKeeps
<1>6. CASE Project
  BY <1>6, ProjectKeeps
<1>7. CASE SortNext
  BY <1>7, SortNextKeeps
<1>8. CASE SortFill
  BY <1>8, SortFillKeeps
<1>9. CASE SortAbsorb
  BY <1>9, SortAbsorbKeeps
<1>10. CASE SortRows
  BY <1>10, SortRowsKeeps
<1>11. CASE LimitNext
  BY <1>11, LimitAsks, LimitPasses
<1>12. CASE Collect
  BY <1>12, CollectKeeps
<1>13. CASE UNCHANGED vars
  <2>1. /\ stmt' = stmt /\ table' = table /\ pc' = pc /\ ops' = ops /\ at' = at
        /\ row' = row /\ result' = result
    BY <1>13 DEF vars
  <2>2. Running' <=> Running
    BY <2>1 DEF Running
  <2>3. CASE ~Running
    BY <2>1, <2>2, <2>3 DEF Inv, Stacked, Running
  <2>4. CASE Running
    <3>1. /\ FilterAt' = FilterAt /\ SortAt' = SortAt /\ ProjectAt' = ProjectAt /\ Top' = Top
          /\ WantedRows' = WantedRows /\ Answer' = Answer /\ Meaning' = Meaning
          /\ Unread' = Unread /\ Buffer' = Buffer /\ Sorted' = Sorted /\ Remaining' = Remaining
          /\ Built' /\ Taken' = Taken /\ (UsedUp' <=> UsedUp)
      BY <2>1, <2>4, Quiet
    <3>2. Left' = Left /\ Tested' = Tested /\ (Held' <=> Held) /\ (Coming' <=> Coming)
      BY <2>1, <3>1 DEF Left, Tested, Held, Coming
    <3>3. LastRow' = LastRow
      BY <3>1, <3>2 DEF LastRow
    <3>4. Stacked'
      BY <2>1, <2>2, <2>4, <3>1 DEF Inv, Stacked
    <3>5. Scanning /\ Answering /\ Limiting /\ Plain /\ Sorting
      BY <2>4, Flows
    <3>6. Scanning' /\ Answering' /\ Limiting'
      BY <2>1, <3>1, <3>2, <3>5 DEF Scanning, Answering, Limiting
    <3>7. Plain'
      BY <2>1, <3>1, <3>2, <3>3, <3>5 DEF Plain
    <3>8. Sorting'
      BY <2>1, <3>1, <3>2, <3>5 DEF Sorting, Filling, Draining
    <3> QED
      BY <3>4, <3>6, <3>7, <3>8 DEF Inv, Flowing
  <2> QED
    BY <2>3, <2>4
<1> QED
  BY <1>1, <1>2, <1>3, <1>4, <1>5, <1>6, <1>7, <1>8, <1>9, <1>10, <1>11, <1>12, <1>13 DEF Next

\* The invariant holds in every state of every SELECT (plan_select of
\* query/mod.rs, the operators and execute of query/exec.rs).
THEOREM Invariance == Spec => []Inv
  BY InitInv, NextInv, PTL DEF Spec

\* The filter and the projection are below any other projection: the columns of
\* their input are the table's, for which the planner has checked what they
\* evaluate.
LEMMA EvaluatedResolve ==
  ASSUME Inv, NEW i \in DOMAIN ops, NEW e \in Evaluated(ops[i])
  PROVE  Resolves(e, ops[i].columns)
<1>1. Running
  BY DEF Inv, Stacked
<1>2. Given /\ Built
  BY <1>1, Flows
<1>3. i \in 1..Top
  BY <1>2, OpsLength
<1>4. (i = FilterAt /\ FilterAt > 1) \/ i = ProjectAt
  BY <1>2, <1>3, OperatorPlaces DEF Evaluated
<1>5. CASE i = FilterAt /\ FilterAt > 1
  <2>1. e = stmt.filter /\ stmt.filter # None /\ ops[i].columns = Columns
    BY <1>2, <1>5, Places DEF Evaluated, Built, FilterOp
  <2> QED
    BY <1>2, <2>1 DEF Given, Accepted, CheckColumns
<1>6. CASE i = ProjectAt
  <2>1. ops[i].op = "Projection" /\ ops[i].items = Items(stmt) /\ ops[i].columns = Columns
    BY <1>2, <1>6 DEF Built, ProjectionOp
  <2>2. PICK n \in DOMAIN Items(stmt) : e = Items(stmt)[n].expr
    BY <2>1 DEF Evaluated
  <2> QED
    BY <1>2, <2>1, <2>2, ItemsChecked DEF Checked, CheckColumns
<1> QED
  BY <1>4, <1>5, <1>6

\* The row that reaches a filter or a projection is one of the table, and the
\* columns are the table's.
LEMMA RowsFit ==
  ASSUME Inv, Answered("Filter") \/ Answered("Projection"), row # None
  PROVE  DOMAIN row = DOMAIN ops[at].columns
<1>1. pc = "return" /\ Running /\ Coming
  BY DEF Answered, Running, Coming
<1>2. /\ Given /\ Built /\ Scanning /\ Answering /\ at \in Int
      /\ Taken \in Nat /\ Taken <= Len(table)
      /\ Len(Meaning) \in Nat /\ Len(result) \in Nat /\ Left \in Nat
  BY <1>1, Flows
<1>3. (at = FilterAt /\ FilterAt > 1) \/ at = ProjectAt
  BY AnsweredAt
<1>4. ops[at].columns = Columns
  BY <1>2, <1>3 DEF Built, FilterOp, ProjectionOp
<1>5. PICK i \in DOMAIN table : row = table[i]
  <2>1. CASE at <= SortAt
    <3>1. Taken >= 1 /\ row = table[Taken]
      BY <1>1, <1>2, <2>1 DEF Scanning, Held
    <3>2. Taken \in DOMAIN table
      BY <1>2, <3>1, TableType
    <3> QED
      BY <3>1, <3>2
  <2>2. CASE at > SortAt
    <3>1. row = table[Meaning[Left]]
      BY <1>1, <1>2, <1>3, <2>2, Places DEF Answering
    <3>2. Left \in 1..Len(Meaning)
      BY <1>1, <1>2, <2>2 DEF Answering, Left
    <3> QED
      BY <1>2, <3>1, <3>2, Meant, TableType
  <2> QED
    BY <1>2, <2>1, <2>2, Places
<1>6. DOMAIN row = DOMAIN Columns
  BY <1>2, <1>5, TableType DEF Row
<1> QED
  BY <1>4, <1>6

\* The rows the sort takes in are the table's, which have the column it sorts by.
LEMMA SortFindsKeys ==
  ASSUME Inv, NEW i \in DOMAIN ops, ops[i].op = "Sort", NEW r \in Range(ops[i].buffer)
  PROVE  ops[i].index \in DOMAIN r
<1>1. Running
  BY DEF Inv, Stacked
<1>2. Given /\ Built
  BY <1>1, Flows
<1>3. i = SortAt /\ SortAt > FilterAt
  BY <1>2, OpsLength, OperatorPlaces
<1>4. ops[i].buffer \in Seq(Row) /\ ops[i].index = Position(Columns, stmt.order.column)
  BY <1>2, <1>3 DEF Built, SortOp
<1>5. stmt.order.column \in Range(Columns)
  BY <1>2, <1>3, Places DEF Given, Accepted
<1>6. ops[i].index \in DOMAIN Columns
  BY <1>4, <1>5, Positions
<1>7. r \in Row
  BY <1>4 DEF Range
<1> QED
  BY <1>6, <1>7 DEF Row

\* The invariant has all three.
LEMMA InvNeverPanics == Inv => NeverPanics
  BY EvaluatedResolve, RowsFit, SortFindsKeys DEF NeverPanics, Inv, Stacked

\* No SELECT panics and none loses a column on the way, whatever the table and
\* the statement are: the sort finds its column, and the filter and the
\* projection find in the rows of their own input all that they evaluate
\* (plan_select of query/mod.rs, SortExec and eval_scalar of query/exec.rs).
THEOREM PanicFree == Spec => []NeverPanics
  BY Invariance, InvNeverPanics, PTL

\* The invariant has what was collected, and that the end is only said when the
\* answer is complete or the limit used up.
LEMMA InvAnswersSelect == Inv => AnswersSelect
<1> SUFFICES ASSUME Inv, Accepted(stmt)
             PROVE  /\ Len(result) <= Wished
                    /\ \A n \in DOMAIN result : result[n] = Shown(Meaning[n])
                    /\ pc = "done" => Len(result) = Wished
  BY DEF AnswersSelect
<1>1. Given
  BY DEF Inv, Stacked, Given
<1>2. Len(Meaning) \in Nat /\ (stmt.limit # None => stmt.limit \in Nat)
  BY <1>1, Meant, TableType, StatementsAssumption DEF Given, Accepted
<1>3. CASE ~Running
  <2>1. result = <<>> /\ Len(result) = 0 /\ DOMAIN result = {} /\ pc # "done"
    BY <1>3 DEF Inv, Stacked, Running
  <2> QED
    BY <1>2, <2>1 DEF Wished
<1>4. CASE Running
  <2>1. /\ Built /\ Answering /\ Limiting /\ at \in Int
        /\ Len(result) \in Nat /\ Left \in Nat
    BY <1>4, Flows
  <2>2. Len(result) <= Left /\ Left <= Len(Meaning)
    BY <2>1 DEF Answering, Left
  <2>3. Top > ProjectAt => Remaining \in Nat /\ Remaining + (IF at > Top THEN Left ELSE Len(result)) = stmt.limit
    BY <1>1, <2>1, StockTypes DEF Limiting
  <2>4. stmt.limit # None => Len(result) <= stmt.limit
    BY <1>2, <2>1, <2>2, <2>3, Places
  <2>5. Len(result) <= Wished
    BY <1>2, <2>1, <2>2, <2>4 DEF Wished
  <2>6. ASSUME NEW n \in DOMAIN result PROVE result[n] = Shown(Meaning[n])
    <3>1. n \in 1..Len(result)
      BY <2>1, <2>6 DEF Answering
    <3>2. n \in 1..Len(Meaning)
      BY <1>2, <2>1, <2>2, <3>1
    <3>3. Meaning[n] \in DOMAIN table
      BY <1>1, <3>2, Meant, TableType
    <3> QED
      BY <2>1, <3>1, <3>3 DEF Answering, Answer
  <2>7. ASSUME pc = "done" PROVE Len(result) = Wished
    <3>1. at = Top + 1 /\ row = None /\ Left = Len(result)
      BY <2>7 DEF Inv, Stacked, Left, Coming
    <3>2. Left = Len(Meaning) \/ UsedUp
      BY <2>1, <2>7, <3>1, Places DEF Answering
    <3>3. UsedUp => stmt.limit # None /\ stmt.limit = Left
      BY <2>1, <2>3, <3>1, Places DEF UsedUp
    <3>4. stmt.limit # None => Left <= stmt.limit
      BY <2>4, <3>1
    <3> QED
      BY <1>2, <2>1, <2>2, <3>1, <3>2, <3>3, <3>4 DEF Wished
  <2> QED
    BY <2>5, <2>6, <2>7
<1> QED
  BY <1>3, <1>4

\* What execute has collected are always the first rows the statement means,
\* and at the end it has all of them up to the limit, whatever the table, the
\* expressions and the clauses are.
THEOREM AnswersWhatItMeans == Spec => []AnswersSelect
  BY Invariance, InvAnswersSelect, PTL

\* The invariant has how far the scan came when the limit is used up.
LEMMA InvAsksNoMore == Inv => AsksNoMore
<1> SUFFICES ASSUME Inv, pc = "done", stmt.limit # None, Len(result) = stmt.limit
             PROVE  Consumed = IF stmt.limit = 0 THEN 0
                               ELSE IF stmt.order = None THEN Meaning[stmt.limit]
                               ELSE Len(table)
  BY DEF AsksNoMore
<1>1. /\ Running /\ Built /\ Given /\ Limiting /\ Plain /\ Sorting /\ at \in Int
      /\ Len(result) \in Nat /\ Taken \in Nat
  BY Flows DEF Running
<1>2. at = Top + 1 /\ row = None /\ Left = Len(result)
  BY DEF Inv, Stacked, Left, Coming
<1>3. Top > ProjectAt /\ Remaining \in Nat
  BY <1>1, StockTypes, Places
<1>4. Remaining + Left = stmt.limit
  BY <1>1, <1>2, <1>3, Places DEF Limiting
<1>5. UsedUp /\ Left = stmt.limit
  BY <1>1, <1>2, <1>3, <1>4 DEF UsedUp
<1>6. Consumed = Taken
  BY <1>1, OpsLength DEF Consumed, Taken, Unread
<1>7. CASE SortAt = FilterAt
  <2>1. stmt.order = None
    <3>1. ~(SortAt > FilterAt)
      BY <1>7, Places
    <3> QED
      BY <3>1, Places
  <2>2. Taken = LastRow
    BY <1>1, <1>2, <1>5, <1>7, Places DEF Plain
  <2> QED
    BY <1>5, <1>6, <2>1, <2>2 DEF LastRow
<1>8. CASE SortAt > FilterAt
  <2>1. stmt.order # None
    BY <1>8, Places
  <2>2. CASE Sorted = None
    <3>1. Left = 0 /\ Taken = 0
      BY <1>1, <1>2, <1>8, <2>2, Places DEF Sorting, Filling
    <3> QED
      BY <1>5, <1>6, <3>1
  <2>3. CASE Sorted # None
    <3>1. stmt.limit # 0 /\ Taken = Len(table)
      BY <1>1, <1>8, <2>3 DEF Sorting, Draining
    <3> QED
      BY <1>6, <2>1, <3>1
  <2> QED
    BY <2>2, <2>3
<1> QED
  BY <1>7, <1>8, Places

\* A limit that was reached has read nothing beyond the answer's last row, and
\* nothing at all when it is zero; a sort has read the whole table.
THEOREM AsksForNoMore == Spec => []AsksNoMore
  BY Invariance, InvAsksNoMore, PTL
=============================================================================
