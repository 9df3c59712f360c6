------------------------------ MODULE MCInsert ------------------------------
\* Schemas of up to three columns: with two bits to the byte, the null bitmap
\* takes a second byte at the third.
EXTENDS Insert

MCNames == <<<<1>>, <<2>>, <<1, 2>>>>

Shapes == {<<"int", FALSE>>, <<"int", TRUE>>, <<"text", TRUE>>, <<"text", FALSE>>}

Column(name, shape) == [name |-> name, ty |-> shape[1], nullable |-> shape[2]]

MCSchemas ==
  UNION {{[i \in 1..n |-> Column(MCNames[i], s[i])] : s \in [1..n -> Shapes]} : n \in 1..3}
  \cup {<<Column(<<2>>, <<"int", TRUE>>), Column(<<2>>, <<"text", TRUE>>)>>,
        [i \in 1..3 |-> Column(<<i, 1, 1>>, <<"int", TRUE>>)]}

Values == {Null, Int64(-8), Int64(6), Text(<<>>), Text(<<3, 1>>)}

Lists == {None, <<MCNames[1]>>, <<MCNames[2]>>, <<MCNames[2], MCNames[1]>>,
          <<MCNames[1], MCNames[1]>>, <<<<3>>>>,
          <<MCNames[3], MCNames[1], MCNames[2]>>, <<MCNames[2], MCNames[3], MCNames[1]>>}

MCInserts ==
  UNION {[names : Lists, values : [1..n -> Values]] : n \in 1..3}
=============================================================================
