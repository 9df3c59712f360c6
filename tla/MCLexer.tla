------------------------------- MODULE MCLexer -------------------------------
(* Statements of up to five or six bytes over the alphabets that make the  *)
(* arms of tokenize meet; 11 plays the part of i64::MAX.                   *)
EXTENDS Lexer

Utf8(s) ==
  \A n \in DOMAIN s : s[n] = "cont" <=> n > 1 /\ s[n - 1] = "lead"

WellFormed(s) == Utf8(s) /\ (s # <<>> => Last(s) # "lead")

Over(alphabet, n) == UNION {{s \in [1..k -> alphabet] : WellFormed(s)} : k \in 0..n}

MCInputs ==
  Over({"-", "0", "1", "2", "a", "blank"}, 5)
    \cup Over({"'", "a", "lead", "cont", "1", "@"}, 6)
    \cup Over({"<", ">", "!", "=", "blank", "a"}, 5)
    \cup Over({"a", "underscore", "1", "(", "comma", "'", "-"}, 5)
    \cup Over(Bytes, 3)
=============================================================================
