-------------------------------- MODULE Lexer --------------------------------
(***************************************************************************)
(* tokenize of parser/lexer.rs: the loop over the bytes of a statement,    *)
(* one step per pass.  Offsets count from 0 as in the code.  A byte is     *)
(* named by its ASCII character or in a word; "lead" and "cont" are the    *)
(* two bytes of a character beyond ASCII, "blank" is any white space and   *)
(* "@" any other byte that begins no token.  A slice of a string that does *)
(* not start and end between two characters is a panic.                    *)
(***************************************************************************)
EXTENDS Integers, Sequences, SequencesExt

CONSTANTS
  Inputs,       \* the statements: sequences of bytes that are valid UTF-8
  MaxInt        \* the greatest integer, i64::MAX in the code

Digits  == [d \in {"0", "1", "2"} |-> CASE d = "0" -> 0 [] d = "1" -> 1 [] d = "2" -> 2]
Letters == {"a", "b", "underscore"}
Symbols == {"*", "comma", "semicolon", "(", ")", "="}
Bytes   == DOMAIN Digits \cup Letters \cup Symbols
             \cup {"-", "!", "<", ">", "'", "blank", "lead", "cont", "@"}

ASSUME InputsAssumption ==      \* a &str is valid UTF-8
  /\ Inputs \subseteq Seq(Bytes)
  /\ \A s \in Inputs : \A n \in DOMAIN s : s[n] = "cont" => n > 1 /\ s[n - 1] = "lead"

ASSUME MaxIntAssumption == MaxInt \in Nat

VARIABLES
  input,        \* the bytes of the statement
  i,            \* the offset of the next byte
  tokens,       \* the tokens so far
  pc,           \* "lexing", "done", "failed" or "panicked"
  error         \* the offset in the error, 0 before there is one

vars == <<input, i, tokens, pc, error>>
-----------------------------------------------------------------------------
Has(k, S) == k < Len(input) /\ input[k + 1] \in S

\* The first offset from k on at which there is no byte of S.
RunEnd(k, S) == Min({n \in k..Len(input) : ~Has(n, S)})

Slice(a, b) == SubSeq(input, a + 1, b)

CharBoundary(k) == ~Has(k, {"cont"})

IntegerOf(text) ==
  LET digits == IF Head(text) = "-" THEN Tail(text) ELSE text
      value[n \in 0..Len(digits)] ==
        IF n = 0 THEN 0 ELSE 10 * value[n - 1] + Digits[digits[n]]
  IN  IF Head(text) = "-" THEN -value[Len(digits)] ELSE value[Len(digits)]

Int64 == (-MaxInt - 1)..MaxInt

\* A sign belongs to the digits that follow it.
NumberStart ==
  \/ Has(i, DOMAIN Digits)
  \/ Has(i, {"-"}) /\ Has(i + 1, DOMAIN Digits)
-----------------------------------------------------------------------------
Init ==
  /\ input \in Inputs
  /\ i = 0 /\ tokens = <<>> /\ pc = "lexing" /\ error = 0

Emit(kind, value, end) ==
  /\ tokens' = Append(tokens, [kind |-> kind, value |-> value, pos |-> i])
  /\ i' = end
  /\ UNCHANGED <<input, pc, error>>

\* Every slice the code takes is checked by str's indexing.
EmitSlice(kind, a, b, end) ==
  IF CharBoundary(a) /\ CharBoundary(b)
  THEN Emit(kind, IF kind = "Int" THEN IntegerOf(Slice(a, b)) ELSE Slice(a, b), end)
  ELSE pc' = "panicked" /\ UNCHANGED <<input, i, tokens, error>>

Err(pos) ==
  /\ pc' = "failed" /\ error' = pos
  /\ UNCHANGED <<input, i, tokens>>

AtByte(S) == pc = "lexing" /\ Has(i, S)

\* Mutant: the loop goes on without a step.
BlankStuck == AtByte({"blank"}) /\ UNCHANGED vars

Blank ==
  /\ AtByte({"blank"})
  /\ i' = i + 1
  /\ UNCHANGED <<input, tokens, pc, error>>

Single == AtByte(Symbols) /\ Emit(input[i + 1], <<>>, i + 1)

Bang ==
  /\ AtByte({"!"})
  /\ IF Has(i + 1, {"="}) THEN Emit("!=", <<>>, i + 2) ELSE Err(i)

\* Mutant: the second character is not looked at.
TwoOrOneShort == AtByte({"<", ">"}) /\ Emit(input[i + 1], <<>>, i + 1)

TwoOrOne ==
  /\ AtByte({"<", ">"})
  /\ IF Has(i + 1, {"="}) THEN Emit(IF Has(i, {"<"}) THEN "<=" ELSE ">=", <<>>, i + 2)
     ELSE Emit(input[i + 1], <<>>, i + 1)

\* Mutant: an unterminated string is reported where the input ends.
QuotedBlamesEnd ==
  LET j == RunEnd(i + 1, Bytes \ {"'"})
  IN  /\ AtByte({"'"})
      /\ IF j >= Len(input) THEN Err(j) ELSE EmitSlice("Str", i + 1, j, j + 1)

Quoted ==
  LET j == RunEnd(i + 1, Bytes \ {"'"})
  IN  /\ AtByte({"'"})
      /\ IF j >= Len(input) THEN Err(i) ELSE EmitSlice("Str", i + 1, j, j + 1)

Number ==
  LET j == RunEnd(i + 1, DOMAIN Digits)
  IN  /\ pc = "lexing" /\ NumberStart
      /\ IF IntegerOf(Slice(i, j)) \in Int64 THEN EmitSlice("Int", i, j, j) ELSE Err(i)

\* Mutant: a byte is taken for a character, and "lead" is then a letter.
WordLatin ==
  LET first == Letters \cup {"lead"}
      j == RunEnd(i + 1, first \cup DOMAIN Digits)
  IN  AtByte(first) /\ EmitSlice("Ident", i, j, j)

Word ==
  LET j == RunEnd(i + 1, Letters \cup DOMAIN Digits)
  IN  AtByte(Letters) /\ EmitSlice("Ident", i, j, j)

Unexpected ==
  /\ AtByte({"-", "lead", "cont", "@"}) /\ ~NumberStart
  /\ Err(i)

End ==
  /\ pc = "lexing" /\ i >= Len(input)
  /\ tokens' = Append(tokens, [kind |-> "Eof", value |-> <<>>, pos |-> Len(input)])
  /\ pc' = "done"
  /\ UNCHANGED <<input, i, error>>

Next ==
  \/ Blank \/ Single \/ Bang \/ TwoOrOne \/ Quoted \/ Number \/ Word
  \/ Unexpected \/ End

Spec == Init /\ [][Next]_vars /\ WF_vars(Next)
-----------------------------------------------------------------------------
(* What a token is, said without reference to the order of the arms above. *)

Lexeme(a, b) ==
  LET s == Slice(a, b)
  IN  /\ s # <<>>
      /\ CASE s[1] \in Symbols    -> Len(s) = 1
           [] s[1] \in {"<", ">"} -> Tail(s) = <<>> \/ Tail(s) = <<"=">>
           [] s[1] = "!"          -> Tail(s) = <<"=">>
           [] s[1] = "'"          -> Len(s) > 1 /\ \A n \in 2..Len(s) : s[n] = "'" <=> n = Len(s)
           [] s[1] = "-"          -> Len(s) > 1 /\ Range(Tail(s)) \subseteq DOMAIN Digits
           [] s[1] \in DOMAIN Digits -> Range(s) \subseteq DOMAIN Digits
           [] s[1] \in Letters    -> Range(s) \subseteq Letters \cup DOMAIN Digits
           [] OTHER               -> FALSE

\* What the digits of s, after a sign or not, stand for in base ten: the sum of
\* their place values.
Numeral(s) ==
  LET tens[n \in 0..Len(s)] == IF n = 0 THEN 1 ELSE 10 * tens[n - 1]
      sum[n \in 0..Len(s)] ==
        IF n = 0 THEN 0
        ELSE sum[n - 1] + (IF s[n] = "-" THEN 0 ELSE Digits[s[n]] * tens[Len(s) - n])
  IN  IF s[1] = "-" THEN -sum[Len(s)] ELSE sum[Len(s)]

Ends(a) == {b \in a..Len(input) : Lexeme(a, b)}

\* "bad input never panics" (README.md): no string is cut inside a character,
\* whatever characters beyond ASCII stand in or between tokens.
NeverPanics == pc # "panicked"

\* The tokens are the input, in order, each as long as a token at its place can
\* be, with nothing but blanks between them; and each has the value of its text.
LongestMatch ==
  LET done == IF pc = "done" THEN Front(tokens) ELSE tokens
      from(n) == IF n = 0 THEN 0 ELSE Max(Ends(done[n].pos))
      to(n) == IF n = Len(done) THEN i ELSE done[n + 1].pos
  IN  /\ \A n \in 1..Len(done) : Ends(done[n].pos) # {}
      /\ \A n \in 0..Len(done) :
           from(n) <= to(n) /\ Range(Slice(from(n), to(n))) \subseteq {"blank"}
      /\ \A n \in 1..Len(done) :
           done[n].kind \in {"Ident", "Int", "Str"} =>
             LET s == Slice(done[n].pos, from(n))
             IN  done[n].value = CASE done[n].kind = "Str" -> SubSeq(s, 2, Len(s) - 1)
                                   [] done[n].kind = "Int" -> Numeral(s)
                                   [] OTHER                -> s

\* "Errors are positioned" (README.md): an error names the first offset at which
\* the rest of the input begins with no token, or with a number out of range.
BlamesTheByte ==
  pc = "failed" =>
    /\ error = i /\ ~Has(i, {"blank"})
    /\ Ends(i) # {} => NumberStart /\ Numeral(Slice(i, Max(Ends(i)))) \notin Int64

\* Every pass of the loop moves on: tokenize returns.
Returns == <>(pc # "lexing")
=============================================================================
