------------------------------ MODULE MCParser ------------------------------
(* The statements of each family: a beginning, the words that may follow it *)
(* and how many.                                                            *)
EXTENDS Explain

Family(prefix, alphabet, more) == [prefix |-> prefix, alphabet |-> alphabet, more |-> more]

From == <<"SELECT", "*", "FROM", "x">>

MCTableColumns == <<"x", "y">>

MCFamilies ==
  { Family(<<>>, Tokens, 2),
    Family(From \o <<"WHERE">>, {"x", "1", "=", "AND", "OR", "(", ")"}, 6),
    Family(From \o <<"WHERE">>, {"x", "=", "AND", "OR"}, 9),
    Family(From \o <<"WHERE">>, {"x", "=", "AND", "OR", "(", ")"}, 8),
    Family(From \o <<"WHERE", "x">>, {"x", "(", ")", ",", "="}, 7),
    Family(From, {"WHERE", "x", "ORDER", "BY", "ASC", "DESC", "LIMIT", "1", ";", "NULL", "'s'"}, 8),
    Family(<<"SELECT">>, {"*", "x", "'s'", ",", "AS", "LIMIT", "FROM", ";"}, 7),
    Family(<<"SELECT">>, {"x", "LENGTH", "<", "(", ")", ",", "FROM"}, 7),
    Family(<<"INSERT", "INTO">>, {"x", "ORDER", "(", ")", ",", "VALUES", "1", "NULL", ";"}, 9),
    Family(<<"INSERT", "INTO", "x">>, {"x", "y", "(", ")", ",", "VALUES", "1", "'s'"}, 11),
    Family(<<"CREATE", "TABLE">>, {"x", "TABLE", "(", ")", ",", "INT", "NOT", "NULL", ";"}, 9),
    Family(<<"CREATE", "TABLE", "y", "(">>, {"x", "y", ",", "TEXT", "NOT", "NULL", ")"}, 7) }
=============================================================================
