------------------------------ MODULE MCSelect ------------------------------
\* Tables of two columns, k INT and v TEXT, and the statements on them.
EXTENDS Select

MCColumns == <<"k", "v">>

Text(rank, n) == [type |-> "text", v |-> rank, chars |-> n]

MCRows == {<<Int64(1), Text(1, 1)>>, <<Int64(1), Text(2, 2)>>,
           <<Int64(2), Null>>, <<Null, Text(1, 1)>>}

\* Tables of up to three of these rows, in every order.
MCTables == UNION {{t \in [1..n -> MCRows] : Cardinality(Range(t)) = n} : n \in 0..3}

K == [op |-> "column", name |-> "k"]
V == [op |-> "column", name |-> "v"]
Missing == [op |-> "column", name |-> "x"]
Lit(x) == [op |-> "literal", value |-> x]
Call(f, args) == [op |-> "function", name |-> f, args |-> args]
Bin(l, op, r) == [op |-> op, left |-> l, right |-> r]

Length == Call("LENGTH", <<V>>)
One == Lit(Int64(1))
Zero == Lit(Int64(0))
KIsOne == Bin(K, "=", One)
Above == Bin(K, ">", One)
IsNull == Bin(V, "!=", Lit(Null))
Mixed == Bin(K, "<=", V)
Short == Bin(Length, "<", Lit(Int64(2)))
Either == Bin(Above, "OR", Short)
Both == Bin(KIsOne, "AND", Short)
Nested == Bin(KIsOne, "=", Zero)
Unknown == Bin(Missing, "=", One)
NoFunction == Call("UPPER", <<V>>)
NoArgument == Bin(Call("LENGTH", <<>>), ">=", One)

Wrong == {Unknown, NoFunction, NoArgument}
Right == {K, V, KIsOne, IsNull, Mixed, Either, Both, Nested}

MCExprs == Wrong \cup Right
             \cup {Missing, Length, One, Zero, Lit(Null), Lit(Int64(2)), Above, Short,
                   Call("LENGTH", <<>>)}

By(c, d) == [column |-> c, descending |-> d]

Named(e, n) == <<[expr |-> e, name |-> n]>>

\* Among the items, one whose alias is the name of the other column.
MCStatements ==
  [filter : {None} \cup Right,
   order  : {None, By("k", FALSE), By("k", TRUE), By("v", TRUE)},
   items  : {None, Named(Length, "n"), Named(V, "k")},
   limit  : {None, 0, 1, 2}]
  \cup
  [filter : {None} \cup Wrong, order : {None, By("n", FALSE)},
   items  : {Named(Length, "n"), Named(Missing, "v")}, limit : {None, 0 - 1}]
=============================================================================
