--------------------------- MODULE MCDbDirectory ---------------------------
(* The same directory by three names (no --db, a bare name, a path from the *)
(* directory of the binary), and another one by a path from elsewhere.      *)
EXTENDS DbDirectory

MCBase == <<"bin">>
MCCwds == {<<"bin">>, <<"home">>}
Path(comps) == [absolute |-> FALSE, comps |-> comps]
MCArgs == {None, Path(<<"db">>), Path(<<".", "db">>)}
MCFields == {"SKPRDB", "1", "4096", "padding", "other", "2"}
MCContents ==
  {None, <<"other">>, <<"SKPRDB", "2", "4096", "padding">>, <<"SKPRDB", "1", "other">>}
=============================================================================
