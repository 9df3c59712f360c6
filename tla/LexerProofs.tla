----------------------------- MODULE LexerProofs -----------------------------
(***************************************************************************)
(* tokenize cuts every statement the way Lexeme says, whatever the         *)
(* statements are.  First what a token is by its first byte, then what a   *)
(* numeral stands for, then the inductive invariant of the loop.  The      *)
(* operators here speak of a statement s where those of Lexer speak of the *)
(* state variable input, so that a step needs no primes of them.           *)
(***************************************************************************)
EXTENDS Lexer, FiniteSetTheorems, NaturalsInduction, SequenceTheorems, TLAPS

WordRest == Letters \cup DOMAIN Digits

\* Bytes a + 1 to b of s, and each of them in S.
All(s, a, b, S) == \A n \in (a + 1)..b : s[n] \in S

\* Lexeme, by the first byte.
IsToken(s, a, b) ==
  /\ a \in Nat /\ b \in Nat /\ a < b /\ b <= Len(s)
  /\ \/ b = a + 1 /\ s[a + 1] \in Symbols \cup {"<", ">"}
     \/ b = a + 2 /\ s[a + 1] \in {"!", "<", ">"} /\ s[a + 2] = "="
     \/ b > a + 1 /\ s[a + 1] = "'" /\ s[b] = "'" /\ All(s, a + 1, b - 1, Bytes \ {"'"})
     \/ b > a + 1 /\ s[a + 1] = "-" /\ All(s, a + 1, b, DOMAIN Digits)
     \/ s[a + 1] \in DOMAIN Digits /\ All(s, a + 1, b, DOMAIN Digits)
     \/ s[a + 1] \in Letters /\ All(s, a + 1, b, WordRest)

EndsOf(s, a) == {b \in a..Len(s) : IsToken(s, a, b)}

EndOf(s, a) == Max(EndsOf(s, a))
-----------------------------------------------------------------------------
\* The digits are three bytes, with the values they have.
LEMMA DigitsAre ==
  /\ DOMAIN Digits = {"0", "1", "2"}
  /\ \A d \in DOMAIN Digits : Digits[d] \in Nat
<1>1. DOMAIN Digits = {"0", "1", "2"}
  BY DEF Digits
<1>2. Digits["0"] = 0 /\ Digits["1"] = 1 /\ Digits["2"] = 2
  BY DEF Digits
<1> QED
  BY <1>1, <1>2

\* No byte is of two kinds.
LEMMA Kinds ==
  /\ Symbols = {"*", "comma", "semicolon", "(", ")", "="}
  /\ Letters = {"a", "b", "underscore"}
  /\ WordRest = {"a", "b", "underscore", "0", "1", "2"}
  /\ Bytes = {"0", "1", "2", "a", "b", "*", "comma", "semicolon", "(", ")", "=",
              "underscore", "-", "!", "<", ">", "'", "blank", "lead", "cont", "@"}
BY DigitsAre DEF Symbols, WordRest, Letters, Bytes

\* A slice of s, byte by byte.
LEMMA SliceIs ==
  ASSUME NEW s \in Seq(Bytes), NEW a \in Nat, NEW b \in Nat, a <= b, b <= Len(s)
  PROVE  LET t == SubSeq(s, a + 1, b)
         IN  /\ t \in Seq(Bytes) /\ Len(t) = b - a
             /\ \A n \in 1..(b - a) : t[n] = s[a + n]
<1> DEFINE t == SubSeq(s, a + 1, b)
<1>1. CASE a = b
  <2>1. t = <<>>
    BY <1>1, SubSeqProperties
  <2> QED
    BY <1>1, <2>1
<1>2. CASE a < b
  <2>1. a + 1 \in 1..(Len(s) + 1) /\ b \in a..Len(s)
    BY <1>2, LenProperties
  <2> QED
    BY <1>2, <2>1, SubSeqProperties
<1> QED
  BY <1>1, <1>2

\* The bytes of a slice are in S when each byte of s there is.
LEMMA SliceRange ==
  ASSUME NEW s \in Seq(Bytes), NEW a \in Nat, NEW b \in Nat, a <= b, b <= Len(s), NEW S
  PROVE  Range(SubSeq(s, a + 1, b)) \subseteq S <=> All(s, a, b, S)
<1> DEFINE t == SubSeq(s, a + 1, b)
<1>1. /\ t \in Seq(Bytes) /\ Len(t) = b - a
      /\ \A n \in 1..(b - a) : t[n] = s[a + n]
  BY SliceIs
<1>2. DOMAIN t = 1..(b - a)
  BY <1>1
<1> HIDE DEF t
<1>3. ASSUME Range(t) \subseteq S, NEW n \in (a + 1)..b PROVE s[n] \in S
  <2>1. n - a \in 1..(b - a) /\ a + (n - a) = n
    OBVIOUS
  <2>2. t[n - a] \in S
    BY <1>2, <1>3, <2>1 DEF Range
  <2> QED
    BY <1>1, <2>1, <2>2
<1>4. ASSUME All(s, a, b, S), NEW n \in 1..(b - a) PROVE t[n] \in S
  <2>1. a + n \in (a + 1)..b
    OBVIOUS
  <2> QED
    BY <1>1, <1>4, <2>1 DEF All
<1> QED
  BY <1>2, <1>3, <1>4 DEF t, Range, All

\* The same of the tail of a slice.
LEMMA TailRange ==
  ASSUME NEW s \in Seq(Bytes), NEW a \in Nat, NEW b \in Nat, a < b, b <= Len(s), NEW S
  PROVE  Range(Tail(SubSeq(s, a + 1, b))) \subseteq S <=> All(s, a + 1, b, S)
<1> DEFINE t == SubSeq(s, a + 1, b)
           u == SubSeq(s, a + 2, b)
<1>1. /\ t \in Seq(Bytes) /\ Len(t) = b - a
      /\ \A n \in 1..(b - a) : t[n] = s[a + n]
  BY SliceIs
<1>2. /\ u \in Seq(Bytes) /\ Len(u) = b - (a + 1)
      /\ \A n \in 1..(b - (a + 1)) : u[n] = s[(a + 1) + n]
  <2>1. a + 1 \in Nat /\ a + 1 <= b /\ (a + 1) + 1 = a + 2
    OBVIOUS
  <2> QED
    BY <2>1, SliceIs
<1>3. Tail(t) = u
  <2> HIDE DEF t, u
  <2>1. t # <<>>
    BY <1>1
  <2>2. Tail(t) \in Seq(Bytes) /\ Len(Tail(t)) = Len(t) - 1
        /\ \A n \in 1..(Len(t) - 1) : Tail(t)[n] = t[n + 1]
    BY <1>1, <2>1, HeadTailProperties
  <2>3. Len(Tail(t)) = Len(u)
    BY <1>1, <1>2, <2>2
  <2>4. ASSUME NEW n \in 1..Len(u) PROVE Tail(t)[n] = u[n]
    BY <1>1, <1>2, <2>2
  <2> QED
    BY <1>2, <2>2, <2>3, <2>4, SeqEqual
<1>4. Range(u) \subseteq S <=> All(s, a + 1, b, S)
  <2>1. a + 1 \in Nat /\ a + 1 <= b /\ (a + 1) + 1 = a + 2
    OBVIOUS
  <2> QED
    BY <2>1, SliceRange
<1> QED
  BY <1>3, <1>4

\* The sequences of one element.
LEMMA OneByte ==
  ASSUME NEW S, NEW u \in Seq(S), NEW c
  PROVE  u = <<c>> <=> Len(u) = 1 /\ u[1] = c
OBVIOUS

\* The kinds of first bytes exclude each other, so that Lexeme has one arm for each.
LEMMA Lone ==
  ASSUME NEW c
  PROVE  /\ c \in Symbols =>
              /\ c \notin {"<", ">"} /\ c # "!" /\ c # "'" /\ c # "-"
              /\ c \notin DOMAIN Digits /\ c \notin Letters
         /\ c \in {"<", ">"} =>
              /\ c \notin Symbols /\ c # "!" /\ c # "'" /\ c # "-"
              /\ c \notin DOMAIN Digits /\ c \notin Letters
         /\ c = "!" =>
              /\ c \notin Symbols /\ c \notin {"<", ">"} /\ c # "'" /\ c # "-"
              /\ c \notin DOMAIN Digits /\ c \notin Letters
         /\ c = "'" =>
              /\ c \notin Symbols /\ c \notin {"<", ">"} /\ c # "!" /\ c # "-"
              /\ c \notin DOMAIN Digits /\ c \notin Letters
         /\ c = "-" =>
              /\ c \notin Symbols /\ c \notin {"<", ">"} /\ c # "!" /\ c # "'"
              /\ c \notin DOMAIN Digits /\ c \notin Letters
         /\ c \in DOMAIN Digits =>
              /\ c \notin Symbols /\ c \notin {"<", ">"} /\ c # "!" /\ c # "'" /\ c # "-"
              /\ c \notin Letters
         /\ c \in Letters =>
              /\ c \notin Symbols /\ c \notin {"<", ">"} /\ c # "!" /\ c # "'" /\ c # "-"
              /\ c \notin DOMAIN Digits
BY DigitsAre DEF Symbols, Letters

\* The arms of Lexeme.
LEMMA LexemeArms ==
  ASSUME NEW a, NEW b, Slice(a, b) # <<>>
  PROVE  LET s == Slice(a, b)
             c == s[1]
         IN  /\ c \in Symbols => Lexeme(a, b) = (Len(s) = 1)
             /\ c \in {"<", ">"} => Lexeme(a, b) = (Tail(s) = <<>> \/ Tail(s) = <<"=">>)
             /\ c = "!" => Lexeme(a, b) = (Tail(s) = <<"=">>)
             /\ c = "'" => Lexeme(a, b) = (Len(s) > 1 /\ \A n \in 2..Len(s) : s[n] = "'" <=> n = Len(s))
             /\ c = "-" => Lexeme(a, b) = (Len(s) > 1 /\ Range(Tail(s)) \subseteq DOMAIN Digits)
             /\ c \in DOMAIN Digits => Lexeme(a, b) = (Range(s) \subseteq DOMAIN Digits)
             /\ c \in Letters => Lexeme(a, b) = (Range(s) \subseteq Letters \cup DOMAIN Digits)
             /\ Lexeme(a, b) =>
                  \/ c \in Symbols \cup {"<", ">"} \/ c = "!" \/ c = "'" \/ c = "-"
                  \/ c \in DOMAIN Digits \/ c \in Letters
<1> DEFINE s == Slice(a, b)
           c == s[1]
<1>1. c \in Symbols => Lexeme(a, b) = (Len(s) = 1)
  BY Lone, Zenon DEF Lexeme
<1>2. c \in {"<", ">"} => Lexeme(a, b) = (Tail(s) = <<>> \/ Tail(s) = <<"=">>)
  BY Lone, Zenon DEF Lexeme
<1>3. c = "!" => Lexeme(a, b) = (Tail(s) = <<"=">>)
  BY Lone, Zenon DEF Lexeme
<1>4. c = "'" => Lexeme(a, b) = (Len(s) > 1 /\ \A n \in 2..Len(s) : s[n] = "'" <=> n = Len(s))
  BY Lone, Zenon DEF Lexeme
<1>5. c = "-" => Lexeme(a, b) = (Len(s) > 1 /\ Range(Tail(s)) \subseteq DOMAIN Digits)
  BY Lone, Zenon DEF Lexeme
<1>6. c \in DOMAIN Digits => Lexeme(a, b) = (Range(s) \subseteq DOMAIN Digits)
  BY Lone, Zenon DEF Lexeme
<1>7. c \in Letters => Lexeme(a, b) = (Range(s) \subseteq Letters \cup DOMAIN Digits)
  BY Lone, Zenon DEF Lexeme
<1>8. Lexeme(a, b) =>
         \/ c \in Symbols \cup {"<", ">"} \/ c = "!" \/ c = "'" \/ c = "-"
         \/ c \in DOMAIN Digits \/ c \in Letters
  BY Zenon DEF Lexeme
<1> HIDE DEF s, c
<1>9. QED
  BY <1>1, <1>2, <1>3, <1>4, <1>5, <1>6, <1>7, <1>8, Zenon DEF s, c

\* A slice that is a token is one by its first byte.
LEMMA LexemeIs ==
  ASSUME input \in Seq(Bytes), NEW a \in Nat, NEW b \in Nat, a <= b, b <= Len(input)
  PROVE  Lexeme(a, b) <=> IsToken(input, a, b)
<1> DEFINE s == Slice(a, b)
<1>1. /\ s \in Seq(Bytes) /\ Len(s) = b - a
      /\ \A n \in 1..(b - a) : s[n] = input[a + n]
  BY SliceIs DEF Slice
<1>2. CASE a = b
  <2>1. s = <<>>
    BY <1>1, <1>2, EmptySeq
  <2>2. ~Lexeme(a, b)
    BY <2>1, Zenon DEF Lexeme
  <2> QED
    BY <1>2, <2>2 DEF IsToken
<1>3. CASE a < b
  <2>0. s # <<>> /\ s[1] = input[a + 1] /\ input[a + 1] \in Bytes
    BY <1>1, <1>3
  <2> DEFINE c == input[a + 1]
  <2>1. Range(s) \subseteq DOMAIN Digits <=> All(input, a, b, DOMAIN Digits)
    BY <1>3, SliceRange DEF Slice
  <2>2. Range(s) \subseteq Letters \cup DOMAIN Digits <=> All(input, a, b, WordRest)
    BY <1>3, SliceRange DEF Slice, WordRest
  <2>3. Range(Tail(s)) \subseteq DOMAIN Digits <=> All(input, a + 1, b, DOMAIN Digits)
    BY <1>3, TailRange DEF Slice
  <2>t. /\ Tail(s) \in Seq(Bytes) /\ Len(Tail(s)) = b - a - 1
        /\ \A n \in 1..(b - a - 1) : Tail(s)[n] = input[a + n + 1]
    <3> HIDE DEF s
    <3>1. Tail(s) \in Seq(Bytes) /\ Len(Tail(s)) = Len(s) - 1
          /\ \A n \in 1..(Len(s) - 1) : Tail(s)[n] = s[n + 1]
      BY <1>1, <2>0, HeadTailProperties
    <3> QED
      BY <1>1, <1>3, <3>1
  <2>4. Tail(s) = <<"=">> <=> b = a + 2 /\ input[a + 2] = "="
    <3> DEFINE u == Tail(s)
    <3>2. u \in Seq(Bytes) /\ Len(u) = b - a - 1
          /\ \A n \in 1..(b - a - 1) : u[n] = input[a + n + 1]
      BY <2>t
    <3> HIDE DEF u
    <3>3. u = <<"=">> <=> Len(u) = 1 /\ u[1] = "="
      BY <3>2, OneByte
    <3>4. u = <<"=">> <=> b = a + 2 /\ input[a + 2] = "="
      BY <1>3, <3>2, <3>3
    <3> QED
      BY <3>4 DEF u
  <2>5. (Len(s) > 1 /\ \A n \in 2..Len(s) : s[n] = "'" <=> n = Len(s))
          <=> (b > a + 1 /\ input[b] = "'" /\ All(input, a + 1, b - 1, Bytes \ {"'"}))
    <3> HIDE DEF s
    <3>1. ASSUME Len(s) > 1, \A n \in 2..Len(s) : s[n] = "'" <=> n = Len(s)
          PROVE  b > a + 1 /\ input[b] = "'" /\ All(input, a + 1, b - 1, Bytes \ {"'"})
      <4>1. b > a + 1 /\ s[Len(s)] = input[b]
        BY <1>1, <3>1
      <4>2. ASSUME NEW n \in (a + 2)..(b - 1) PROVE input[n] \in Bytes \ {"'"}
        <5>1. n - a \in 2..Len(s) /\ n - a # Len(s) /\ n - a \in 1..(b - a) /\ a + (n - a) = n
          BY <1>1
        <5>2. s[n - a] = input[n]
          BY <1>1, <5>1
        <5>3. s[n - a] # "'"
          BY <3>1, <5>1
        <5>4. n \in 1..Len(input)
          OBVIOUS
        <5> QED
          BY <5>2, <5>3, <5>4
      <4> QED
        BY <1>1, <3>1, <4>1, <4>2 DEF All
    <3>2. ASSUME b > a + 1, input[b] = "'", All(input, a + 1, b - 1, Bytes \ {"'"})
          PROVE  Len(s) > 1 /\ \A n \in 2..Len(s) : s[n] = "'" <=> n = Len(s)
      <4>1. Len(s) > 1
        BY <1>1, <3>2
      <4>2. ASSUME NEW n \in 2..Len(s) PROVE s[n] = "'" <=> n = Len(s)
        <5>1. s[n] = input[a + n]
          BY <1>1
        <5>2. CASE n = Len(s)
          BY <1>1, <3>2, <5>1, <5>2
        <5>3. CASE n # Len(s)
          <6>1. a + n \in (a + 2)..(b - 1)
            BY <1>1, <5>3
          <6> QED
            BY <3>2, <5>1, <5>3, <6>1 DEF All
        <5> QED
          BY <5>2, <5>3
      <4> QED
        BY <4>1, <4>2
    <3> QED
      BY <3>1, <3>2
  <2>6. /\ All(input, a, b, DOMAIN Digits)
             <=> c \in DOMAIN Digits /\ All(input, a + 1, b, DOMAIN Digits)
        /\ All(input, a, b, WordRest) <=> c \in WordRest /\ All(input, a + 1, b, WordRest)
    BY <1>3 DEF All
  <2>7. Len(s) = 1 <=> b = a + 1
    BY <1>1
  <2>8. Tail(s) = <<>> <=> b = a + 1
    <3> DEFINE u == Tail(s)
    <3>1. u \in Seq(Bytes) /\ Len(u) = b - a - 1
      BY <2>t
    <3> HIDE DEF u
    <3>2. u = <<>> <=> Len(u) = 0
      BY <3>1, EmptySeq
    <3>3. u = <<>> <=> b = a + 1
      BY <1>3, <3>1, <3>2
    <3> QED
      BY <3>3 DEF u
  <2> HIDE DEF s
  <2>9. s[1] = c
    BY <2>0
  <2>10. CASE c \in Symbols
    BY <1>1, <1>3, <2>0, <2>6, <2>9, <2>7, <2>10, Lone, LexemeArms DEF IsToken, s
  <2>11. CASE c \in {"<", ">"}
    BY <1>1, <1>3, <2>0, <2>6, <2>9, <2>4, <2>7, <2>8, <2>11, Lone, LexemeArms DEF IsToken, s
  <2>12. CASE c = "!"
    BY <1>1, <1>3, <2>0, <2>6, <2>9, <2>4, <2>12, Lone, LexemeArms DEF IsToken, s
  <2>13. CASE c = "'"
    BY <1>1, <1>3, <2>0, <2>6, <2>9, <2>5, <2>13, Lone, LexemeArms DEF IsToken, s
  <2>14. CASE c = "-"
    <3>1. Lexeme(a, b) <=> Len(s) > 1 /\ All(input, a + 1, b, DOMAIN Digits)
      BY <2>0, <2>3, <2>9, <2>14, LexemeArms DEF s
    <3>2. Len(s) > 1 <=> b > a + 1
      BY <1>1
    <3>3. IsToken(input, a, b) <=> b > a + 1 /\ All(input, a + 1, b, DOMAIN Digits)
      BY <1>3, <2>14, Lone DEF IsToken
    <3> QED
      BY <3>1, <3>2, <3>3
  <2>15. CASE c \in DOMAIN Digits
    BY <1>1, <1>3, <2>0, <2>6, <2>9, <2>1, <2>15, Lone, LexemeArms DEF IsToken, s
  <2>16. CASE c \in Letters
    <3>1. Lexeme(a, b) <=> All(input, a + 1, b, WordRest)
      BY <2>0, <2>2, <2>6, <2>9, <2>16, LexemeArms DEF s, WordRest
    <3>2. IsToken(input, a, b) <=> All(input, a + 1, b, WordRest)
      BY <1>3, <2>16, Lone DEF IsToken
    <3> QED
      BY <3>1, <3>2
  <2>17. CASE ~(\/ c \in Symbols \cup {"<", ">"} \/ c = "!" \/ c = "'" \/ c = "-"
                \/ c \in DOMAIN Digits \/ c \in Letters)
    BY <2>0, <2>9, <2>17, LexemeArms DEF IsToken, s
  <2> QED
    BY <2>10, <2>11, <2>12, <2>13, <2>14, <2>15, <2>16, <2>17
<1> QED
  BY <1>2, <1>3
-----------------------------------------------------------------------------
\* A set of numbers that is not empty has a least one.
LEMMA Least ==
  ASSUME NEW S \in SUBSET Nat, S # {}
  PROVE  \E n \in S : \A m \in S : n <= m
<1> DEFINE R == {p \in Nat \X Nat : p[1] < p[2]}
<1>1. IsWellFoundedOn(R, Nat)
  BY NatLessThanWellFounded DEF OpToRel
<1>2. PICK n \in S : \A m \in S : ~(<<m, n>> \in R)
  <2> HIDE DEF R
  <2> QED
    BY <1>1, WFMin
<1>3. ASSUME NEW m \in S PROVE n <= m
  <2>1. m \in Nat /\ n \in Nat /\ ~(m < n)
    BY <1>2
  <2> QED
    BY <2>1
<1> QED
  BY <1>3

\* What holds of 0, and of each number after one it holds of, holds of all.
LEMMA Induct ==
  ASSUME NEW S, 0 \in S, \A n \in Nat : n \in S => n + 1 \in S
  PROVE  Nat \subseteq S
<1> DEFINE Out == {n \in Nat : n \notin S}
<1>1. CASE Out # {}
  <2>1. PICK n \in Out : \A m \in Out : n <= m
    BY <1>1, Least
  <2>2. n # 0 /\ n - 1 \in Nat /\ n - 1 \notin Out
    BY <2>1
  <2> QED
    BY <2>1, <2>2
<1> QED
  BY <1>1

\* A run ends where there is no byte of S, and no sooner.
LEMMA RunIs ==
  ASSUME input \in Seq(Bytes), NEW k \in Nat, k <= Len(input), NEW S
  PROVE  LET j == RunEnd(k, S)
         IN  /\ j \in Nat /\ k <= j /\ j <= Len(input)
             /\ All(input, k, j, S)
             /\ j < Len(input) => input[j + 1] \notin S
<1> DEFINE T == {n \in k..Len(input) : ~Has(n, S)}
<1>1. Len(input) \in T
  BY DEF Has
<1>2. PICK j \in T : \A m \in T : j <= m
  <2>1. T \in SUBSET Nat /\ T # {}
    BY <1>1
  <2> HIDE DEF T
  <2> QED
    BY <2>1, Least
<1>3. RunEnd(k, S) = Min(T)
  BY DEF RunEnd
<1>4. Min(T) \in T /\ \A m \in T : Min(T) <= m
  <2> HIDE DEF T
  <2> QED
    BY <1>2, Zenon DEF Min
<1>5. Min(T) = j
  <2>1. Min(T) \in Nat /\ j \in Nat /\ Min(T) <= j /\ j <= Min(T)
    BY <1>2, <1>4
  <2> QED
    BY <2>1
<1>6. ASSUME NEW n \in (k + 1)..j PROVE input[n] \in S
  <2>1. n - 1 \in k..Len(input) /\ n - 1 \notin T
    BY <1>2
  <2>2. Has(n - 1, S)
    BY <2>1
  <2> QED
    BY <2>2 DEF Has
<1>7. j \in Nat /\ k <= j /\ j <= Len(input) /\ ~Has(j, S) /\ RunEnd(k, S) = j
  BY <1>2, <1>3, <1>5
<1>8. All(input, k, j, S)
  BY <1>6 DEF All
<1> HIDE DEF T
<1> QED
  BY <1>7, <1>8 DEF Has

\* The greatest number of a set is the one that no other exceeds.
LEMMA MaxIs ==
  ASSUME NEW S \in SUBSET Int, NEW b \in S, \A n \in S : n <= b
  PROVE  Max(S) = b
<1>1. Max(S) \in S /\ \A n \in S : Max(S) >= n
  <2>1. \E x \in S : \A y \in S : x >= y
    OBVIOUS
  <2> QED
    BY <2>1, Zenon DEF Max
<1>2. Max(S) \in Int /\ b \in Int /\ Max(S) >= b /\ Max(S) <= b
  BY <1>1
<1> QED
  BY <1>2

\* The end of the longest token is the end of one that no later end exceeds.
LEMMA EndIs ==
  ASSUME NEW s \in Seq(Bytes), NEW a, NEW b, IsToken(s, a, b),
         \A n \in Nat : IsToken(s, a, n) => n <= b
  PROVE  EndsOf(s, a) # {} /\ EndOf(s, a) = b
<1>1. b \in EndsOf(s, a) /\ EndsOf(s, a) \in SUBSET Int
  BY DEF EndsOf, IsToken
<1>2. \A n \in EndsOf(s, a) : n <= b
  <2>1. a \in Nat
    BY DEF IsToken
  <2> QED
    BY <2>1 DEF EndsOf
<1> QED
  BY <1>1, <1>2, MaxIs DEF EndOf

\* Conversely there is such a token at the end of the longest one.
LEMMA EndIsToken ==
  ASSUME NEW s \in Seq(Bytes), NEW a \in Nat, EndsOf(s, a) # {}
  PROVE  IsToken(s, a, EndOf(s, a))
<1> DEFINE T == {Len(s) - b : b \in EndsOf(s, a)}
<1>1. T \in SUBSET Nat /\ T # {}
  BY DEF EndsOf
<1>2. PICK n \in T : \A m \in T : n <= m
  <2> HIDE DEF T
  <2> QED
    BY <1>1, Least
<1>3. PICK b \in EndsOf(s, a) : n = Len(s) - b
  BY <1>2
<1>4. \A e \in EndsOf(s, a) : e <= b
  <2> SUFFICES ASSUME NEW e \in EndsOf(s, a) PROVE e <= b
    OBVIOUS
  <2>1. Len(s) - b <= Len(s) - e
    BY <1>2, <1>3
  <2> QED
    BY <2>1 DEF EndsOf
<1>5. EndOf(s, a) = b
  <2>1. EndsOf(s, a) \in SUBSET Int
    BY DEF EndsOf
  <2> QED
    BY <1>4, <2>1, MaxIs DEF EndOf
<1> QED
  BY <1>3, <1>5 DEF EndsOf
-----------------------------------------------------------------------------
\* The ends of the tokens of one or two bytes.
LEMMA ShortEnds ==
  ASSUME NEW s, NEW a, NEW b, IsToken(s, a, b)
  PROVE  /\ s[a + 1] \in Symbols => b = a + 1
         /\ s[a + 1] \in {"<", ">"} => b = a + 1 \/ (b = a + 2 /\ s[a + 2] = "=")
         /\ s[a + 1] = "!" => b = a + 2 /\ s[a + 2] = "="
<1> DEFINE c == s[a + 1]
<1>1. CASE c \in Symbols
  <2>1. /\ c \notin {"<", ">"} /\ c # "!" /\ c # "'" /\ c # "-"
        /\ c \notin DOMAIN Digits /\ c \notin Letters
    BY <1>1, Lone
  <2> HIDE DEF c
  <2> QED
    BY <1>1, <2>1 DEF IsToken, c
<1>2. CASE c \in {"<", ">"}
  <2>1. /\ c \notin Symbols /\ c # "!" /\ c # "'" /\ c # "-"
        /\ c \notin DOMAIN Digits /\ c \notin Letters
    BY <1>2, Lone
  <2> HIDE DEF c
  <2> QED
    BY <1>2, <2>1 DEF IsToken, c
<1>3. CASE c = "!"
  <2>1. /\ c \notin Symbols /\ c \notin {"<", ">"} /\ c # "'" /\ c # "-"
        /\ c \notin DOMAIN Digits /\ c \notin Letters
    BY <1>3, Lone
  <2> HIDE DEF c
  <2> QED
    BY <1>3, <2>1 DEF IsToken, c
<1> QED
  BY <1>1, <1>2, <1>3

\* A one-byte token is as long as it can be.
LEMMA SymbolEnd ==
  ASSUME NEW s \in Seq(Bytes), NEW a \in Nat, a < Len(s), s[a + 1] \in Symbols
  PROVE  EndsOf(s, a) # {} /\ EndOf(s, a) = a + 1
<1>1. IsToken(s, a, a + 1)
  BY DEF IsToken
<1>2. ASSUME NEW n \in Nat, IsToken(s, a, n) PROVE n <= a + 1
  BY <1>2, ShortEnds
<1> QED
  BY <1>1, <1>2, EndIs

\* A comparison takes the "=" behind it.
LEMMA LessEnd ==
  ASSUME NEW s \in Seq(Bytes), NEW a \in Nat, a < Len(s), s[a + 1] \in {"<", ">"}
  PROVE  /\ EndsOf(s, a) # {}
         /\ EndOf(s, a) = IF a + 1 < Len(s) /\ s[a + 2] = "=" THEN a + 2 ELSE a + 1
<1>1. CASE a + 1 < Len(s) /\ s[a + 2] = "="
  <2>1. IsToken(s, a, a + 2)
    BY <1>1 DEF IsToken
  <2>2. ASSUME NEW n \in Nat, IsToken(s, a, n) PROVE n <= a + 2
    BY <2>2, ShortEnds
  <2> QED
    BY <1>1, <2>1, <2>2, EndIs
<1>2. CASE ~(a + 1 < Len(s) /\ s[a + 2] = "=")
  <2>1. IsToken(s, a, a + 1)
    BY DEF IsToken
  <2>2. ASSUME NEW n \in Nat, IsToken(s, a, n) PROVE n <= a + 1
    <3>1. n \in Nat /\ n <= Len(s)
      BY <2>2 DEF IsToken
    <3>2. n = a + 1 \/ (n = a + 2 /\ s[a + 2] = "=")
      BY <2>2, ShortEnds
    <3> QED
      BY <1>2, <3>1, <3>2
  <2> QED
    BY <1>2, <2>1, <2>2, EndIs
<1> QED
  BY <1>1, <1>2

\* "!" begins a token only before "=".
LEMMA BangEnd ==
  ASSUME NEW s \in Seq(Bytes), NEW a \in Nat, a < Len(s), s[a + 1] = "!"
  PROVE  /\ a + 1 < Len(s) /\ s[a + 2] = "=" => EndsOf(s, a) # {} /\ EndOf(s, a) = a + 2
         /\ ~(a + 1 < Len(s) /\ s[a + 2] = "=") => EndsOf(s, a) = {}
<1>1. ASSUME NEW n \in Nat, IsToken(s, a, n) PROVE n = a + 2 /\ a + 1 < Len(s) /\ s[a + 2] = "="
  <2>1. n = a + 2 /\ s[a + 2] = "="
    BY <1>1, ShortEnds
  <2>2. n <= Len(s)
    BY <1>1 DEF IsToken
  <2> QED
    BY <2>1, <2>2
<1>2. CASE a + 1 < Len(s) /\ s[a + 2] = "="
  <2>1. IsToken(s, a, a + 2)
    BY <1>2 DEF IsToken
  <2> QED
    BY <1>1, <1>2, <2>1, EndIs
<1>3. CASE ~(a + 1 < Len(s) /\ s[a + 2] = "=")
  BY <1>1, <1>3 DEF EndsOf
<1> QED
  BY <1>2, <1>3

\* A string ends with the first quote behind the one it begins with.
LEMMA QuoteEnd ==
  ASSUME NEW s \in Seq(Bytes), NEW a \in Nat, a < Len(s), s[a + 1] = "'",
         NEW j \in Nat, a + 1 <= j, j <= Len(s), All(s, a + 1, j, Bytes \ {"'"})
  PROVE  /\ j < Len(s) /\ s[j + 1] = "'" => EndsOf(s, a) # {} /\ EndOf(s, a) = j + 1
         /\ j = Len(s) => EndsOf(s, a) = {}
<1>1. ASSUME NEW n \in Nat, IsToken(s, a, n)
      PROVE  n > a + 1 /\ n <= Len(s) /\ s[n] = "'" /\ All(s, a + 1, n - 1, Bytes \ {"'"})
  BY <1>1, Lone DEF IsToken
<1>2. ASSUME NEW n \in Nat, IsToken(s, a, n) PROVE n > j
  <2>1. CASE n <= j
    <3>1. n \in (a + 1 + 1)..j
      BY <1>1, <1>2, <2>1
    <3> QED
      BY <1>1, <1>2, <3>1 DEF All
  <2> QED
    BY <2>1
<1>3. CASE j < Len(s) /\ s[j + 1] = "'"
  <2>1. IsToken(s, a, j + 1)
    BY <1>3 DEF IsToken
  <2>2. ASSUME NEW n \in Nat, IsToken(s, a, n) PROVE n <= j + 1
    <3>1. CASE n > j + 1
      <4>1. j + 1 \in (a + 1 + 1)..(n - 1)
        BY <3>1
      <4>2. All(s, a + 1, n - 1, Bytes \ {"'"})
        BY <1>1, <2>2
      <4> QED
        BY <1>3, <4>1, <4>2 DEF All
    <3> QED
      BY <3>1
  <2> QED
    BY <1>3, <2>1, <2>2, EndIs
<1>4. CASE j = Len(s)
  BY <1>1, <1>2, <1>4 DEF EndsOf
<1> QED
  BY <1>3, <1>4

\* A number ends where its digits do.
LEMMA NumberEnd ==
  ASSUME NEW s \in Seq(Bytes), NEW a \in Nat, a < Len(s),
         NEW j \in Nat, a + 1 <= j, j <= Len(s), All(s, a + 1, j, DOMAIN Digits),
         j < Len(s) => s[j + 1] \notin DOMAIN Digits,
         s[a + 1] \in DOMAIN Digits \/ (s[a + 1] = "-" /\ a + 1 < j)
  PROVE  EndsOf(s, a) # {} /\ EndOf(s, a) = j
<1>1. IsToken(s, a, j)
  BY DEF IsToken
<1>2. ASSUME NEW n \in Nat, IsToken(s, a, n) PROVE n <= j
  <2>1. All(s, a + 1, n, DOMAIN Digits) /\ n <= Len(s)
    BY <1>2, Lone DEF IsToken
  <2>2. CASE n > j
    <3>1. j + 1 \in (a + 1 + 1)..n /\ j < Len(s)
      BY <2>1, <2>2
    <3> QED
      BY <2>1, <3>1 DEF All
  <2> QED
    BY <2>2
<1> QED
  BY <1>1, <1>2, EndIs

\* A word ends where its letters and digits do.
LEMMA WordEnd ==
  ASSUME NEW s \in Seq(Bytes), NEW a \in Nat, a < Len(s), s[a + 1] \in Letters,
         NEW j \in Nat, a + 1 <= j, j <= Len(s), All(s, a + 1, j, WordRest),
         j < Len(s) => s[j + 1] \notin WordRest
  PROVE  EndsOf(s, a) # {} /\ EndOf(s, a) = j
<1>1. IsToken(s, a, j)
  BY DEF IsToken
<1>2. ASSUME NEW n \in Nat, IsToken(s, a, n) PROVE n <= j
  <2>1. All(s, a + 1, n, WordRest) /\ n <= Len(s)
    BY <1>2, Lone DEF IsToken
  <2>2. CASE n > j
    <3>1. j + 1 \in (a + 1 + 1)..n /\ j < Len(s)
      BY <2>1, <2>2
    <3> QED
      BY <2>1, <3>1 DEF All
  <2> QED
    BY <2>2
<1> QED
  BY <1>1, <1>2, EndIs

\* The bytes that begin no token.
LEMMA NoEnd ==
  ASSUME NEW s \in Seq(Bytes), NEW a \in Nat, a < Len(s),
         s[a + 1] \in {"-", "lead", "cont", "@"},
         ~(s[a + 1] = "-" /\ a + 1 < Len(s) /\ s[a + 2] \in DOMAIN Digits)
  PROVE  EndsOf(s, a) = {}
<1> SUFFICES ASSUME NEW n \in Nat, IsToken(s, a, n) PROVE FALSE
  BY DEF EndsOf
<1>1. s[a + 1] = "-" /\ n > a + 1 /\ All(s, a + 1, n, DOMAIN Digits) /\ n <= Len(s)
  BY Kinds, DigitsAre DEF IsToken
<1>2. a + 2 \in (a + 1 + 1)..n
  BY <1>1
<1> QED
  BY <1>1, <1>2 DEF All
-----------------------------------------------------------------------------
\* A row of integers in which each follows from the one before.
Steps(L) == [1..L -> [Int -> Int]]

Row(f, m, b, G) ==
  f \in [0..m -> Int] /\ f[0] = b /\ \A n \in 1..m : f[n] = G[n][f[n - 1]]

\* Such a row can be continued.
LEMMA Longer ==
  ASSUME NEW L \in Nat, NEW b \in Int, NEW G \in Steps(L),
         NEW m \in Nat, m + 1 <= L, NEW f, Row(f, m, b, G)
  PROVE  \E g : Row(g, m + 1, b, G)
<1> DEFINE g == [n \in 0..(m + 1) |-> IF n = m + 1 THEN G[m + 1][f[m]] ELSE f[n]]
<1>1. f \in [0..m -> Int] /\ f[0] = b /\ \A n \in 1..m : f[n] = G[n][f[n - 1]]
  BY DEF Row
<1>2. m + 1 \in 1..L /\ f[m] \in Int /\ G[m + 1] \in [Int -> Int]
  BY <1>1 DEF Steps
<1>3. G[m + 1][f[m]] \in Int
  BY <1>2
<1>4. g \in [0..(m + 1) -> Int]
  BY <1>1, <1>3
<1>5. g[0] = b
  BY <1>1
<1>6. ASSUME NEW n \in 1..(m + 1) PROVE g[n] = G[n][g[n - 1]]
  <2>1. CASE n = m + 1
    BY <2>1
  <2>2. CASE n # m + 1
    <3>1. n \in 1..m /\ n - 1 \in 0..m
      BY <2>2
    <3> QED
      BY <1>1, <3>1
  <2> QED
    BY <2>1, <2>2
<1> HIDE DEF g
<1>7. Row(g, m + 1, b, G)
  BY <1>4, <1>5, <1>6 DEF Row
<1> QED
  BY <1>7

\* There is such a row of every length.
LEMMA Iterates ==
  ASSUME NEW L \in Nat, NEW b \in Int, NEW G \in Steps(L)
  PROVE  \E f : Row(f, L, b, G)
<1> DEFINE S == {m \in Nat : m <= L => \E f : Row(f, m, b, G)}
<1>1. 0 \in S
  <2>1. Row([n \in 0..0 |-> b], 0, b, G)
    BY DEF Row
  <2> QED
    BY <2>1
<1>2. ASSUME NEW m \in Nat, m \in S PROVE m + 1 \in S
  <2>1. CASE m + 1 <= L
    <3>1. PICK f : Row(f, m, b, G)
      BY <1>2, <2>1
    <3> QED
      BY <2>1, <3>1, Longer
  <2>2. CASE ~(m + 1 <= L)
    BY <2>2
  <2> QED
    BY <2>1, <2>2
<1>3. Nat \subseteq S
  <2> HIDE DEF S
  <2> QED
    BY <1>1, <1>2, Induct
<1> QED
  BY <1>3

\* A row that starts with an integer and stays with them.
LEMMA Integral ==
  ASSUME NEW L \in Nat, NEW f, f[0] \in Int, \A n \in 1..L : f[n - 1] \in Int => f[n] \in Int
  PROVE  \A n \in 0..L : f[n] \in Int
<1> DEFINE S == {m \in Nat : m <= L => f[m] \in Int}
<1>1. 0 \in S
  OBVIOUS
<1>2. ASSUME NEW m \in Nat, m \in S PROVE m + 1 \in S
  <2>1. CASE m + 1 <= L
    <3>1. m + 1 \in 1..L /\ (m + 1) - 1 = m /\ f[m] \in Int
      BY <1>2, <2>1
    <3> QED
      BY <3>1
  <2> QED
    BY <2>1
<1>3. Nat \subseteq S
  <2> HIDE DEF S
  <2> QED
    BY <1>1, <1>2, Induct
<1> QED
  BY <1>3

\* The rows that IntegerOf and Numeral run through.
Values(w) ==
  LET value[n \in 0..Len(w)] ==
        IF n = 0 THEN 0 ELSE 10 * value[n - 1] + Digits[w[n]]
  IN  value

Tens(s) ==
  LET tens[n \in 0..Len(s)] == IF n = 0 THEN 1 ELSE 10 * tens[n - 1]
  IN  tens

Sums(s) ==
  LET tens[n \in 0..Len(s)] == IF n = 0 THEN 1 ELSE 10 * tens[n - 1]
      sum[n \in 0..Len(s)] ==
        IF n = 0 THEN 0
        ELSE sum[n - 1] + (IF s[n] = "-" THEN 0 ELSE Digits[s[n]] * tens[Len(s) - n])
  IN  sum

\* What IntegerOf returns is the last of a row.
LEMMA IntegerOfIs ==
  ASSUME NEW s
  PROVE  IntegerOf(s) = LET w == IF Head(s) = "-" THEN Tail(s) ELSE s
                        IN  IF Head(s) = "-" THEN -Values(w)[Len(w)] ELSE Values(w)[Len(w)]
BY Zenon DEF IntegerOf, Values

\* So is what Numeral returns.
LEMMA NumeralIs ==
  ASSUME NEW s
  PROVE  Numeral(s) = IF s[1] = "-" THEN -Sums(s)[Len(s)] ELSE Sums(s)[Len(s)]
BY Zenon DEF Numeral, Sums

\* The value of the first n digits.
LEMMA ValuesAre ==
  ASSUME NEW w \in Seq(DOMAIN Digits)
  PROVE  LET v == Values(w)
         IN  /\ v[0] = 0
             /\ \A n \in 1..Len(w) : v[n] = 10 * v[n - 1] + Digits[w[n]]
             /\ \A n \in 0..Len(w) : v[n] \in Int
<1> DEFINE L == Len(w)
           Is(f) == f = [n \in 0..L |-> IF n = 0 THEN 0 ELSE 10 * f[n - 1] + Digits[w[n]]]
           G == [n \in 1..L |-> [x \in Int |-> 10 * x + Digits[w[n]]]]
<1>0. L \in Nat /\ \A n \in 1..L : Digits[w[n]] \in Int
  BY DigitsAre
<1>1. PICK f : Row(f, L, 0, G)
  <2>1. G \in Steps(L)
    BY <1>0 DEF Steps
  <2> HIDE DEF G, L
  <2> QED
    BY <1>0, <2>1, Iterates
<1>2. Is(f)
  <2> SUFFICES ASSUME NEW n \in 0..L
               PROVE  f[n] = IF n = 0 THEN 0 ELSE 10 * f[n - 1] + Digits[w[n]]
    BY <1>1 DEF Row
  <2>1. CASE n # 0
    <3>1. n \in 1..L /\ f[n - 1] \in Int
      BY <1>1, <2>1 DEF Row
    <3> QED
      BY <1>1, <2>1, <3>1 DEF Row
  <2> QED
    BY <1>1, <2>1 DEF Row
<1>3. Is(Values(w))
  <2>1. Values(w) = CHOOSE g : Is(g)
    BY Zenon DEF Values
  <2> HIDE DEF Is
  <2> QED
    BY <1>2, <2>1, Zenon
<1> DEFINE v == Values(w)
<1>4. v = [n \in 0..L |-> IF n = 0 THEN 0 ELSE 10 * v[n - 1] + Digits[w[n]]]
  BY <1>3
<1> HIDE DEF v, L
<1>5. v[0] = 0 /\ \A n \in 1..L : v[n] = 10 * v[n - 1] + Digits[w[n]]
  BY <1>0, <1>4
<1>6. \A n \in 0..L : v[n] \in Int
  <2>1. ASSUME NEW n \in 1..L, v[n - 1] \in Int PROVE v[n] \in Int
    <3>1. v[n] = 10 * v[n - 1] + Digits[w[n]] /\ Digits[w[n]] \in Int
      BY <1>0, <1>5
    <3> QED
      BY <2>1, <3>1
  <2>2. L \in Nat /\ v[0] \in Int
    BY <1>0, <1>5
  <2> QED
    BY <2>1, <2>2, Integral, Zenon
<1> QED
  BY <1>5, <1>6 DEF v, L

\* The powers of ten.
LEMMA TensAre ==
  ASSUME NEW s \in Seq(Bytes)
  PROVE  LET v == Tens(s)
         IN  /\ v[0] = 1
             /\ \A n \in 1..Len(s) : v[n] = 10 * v[n - 1]
             /\ \A n \in 0..Len(s) : v[n] \in Int
<1> DEFINE L == Len(s)
           Is(f) == f = [n \in 0..L |-> IF n = 0 THEN 1 ELSE 10 * f[n - 1]]
           G == [n \in 1..L |-> [x \in Int |-> 10 * x]]
<1>0. L \in Nat
  OBVIOUS
<1>1. PICK f : Row(f, L, 1, G)
  <2>1. G \in Steps(L)
    BY <1>0 DEF Steps
  <2> HIDE DEF G, L
  <2> QED
    BY <1>0, <2>1, Iterates
<1>2. Is(f)
  <2> SUFFICES ASSUME NEW n \in 0..L
               PROVE  f[n] = IF n = 0 THEN 1 ELSE 10 * f[n - 1]
    BY <1>1 DEF Row
  <2>1. CASE n # 0
    <3>1. n \in 1..L /\ f[n - 1] \in Int
      BY <1>1, <2>1 DEF Row
    <3> QED
      BY <1>1, <2>1, <3>1 DEF Row
  <2> QED
    BY <1>1, <2>1 DEF Row
<1>3. Is(Tens(s))
  <2>1. Tens(s) = CHOOSE g : Is(g)
    BY Zenon DEF Tens
  <2> HIDE DEF Is
  <2> QED
    BY <1>2, <2>1, Zenon
<1> DEFINE v == Tens(s)
<1>4. v = [n \in 0..L |-> IF n = 0 THEN 1 ELSE 10 * v[n - 1]]
  BY <1>3
<1> HIDE DEF v, L
<1>5. v[0] = 1 /\ \A n \in 1..L : v[n] = 10 * v[n - 1]
  BY <1>0, <1>4
<1>6. \A n \in 0..L : v[n] \in Int
  <2>1. ASSUME NEW n \in 1..L, v[n - 1] \in Int PROVE v[n] \in Int
    <3>1. v[n] = 10 * v[n - 1]
      BY <1>5
    <3> QED
      BY <1>0, <2>1, <3>1
  <2>2. L \in Nat /\ v[0] \in Int
    BY <1>0, <1>5
  <2> QED
    BY <2>1, <2>2, Integral, Zenon
<1> QED
  BY <1>5, <1>6 DEF v, L

\* What the byte at n of s adds to the sum.
Place(s, n) == IF s[n] = "-" THEN 0 ELSE Digits[s[n]] * Tens(s)[Len(s) - n]

\* The sum of the first n place values.
LEMMA SumsAre ==
  ASSUME NEW s \in Seq(DOMAIN Digits \cup {"-"})
  PROVE  LET v == Sums(s)
         IN  /\ v[0] = 0
             /\ \A n \in 1..Len(s) : v[n] = v[n - 1] + Place(s, n)
             /\ \A n \in 0..Len(s) : v[n] \in Int
<1> DEFINE L == Len(s)
           Is(f) == f = [n \in 0..L |-> IF n = 0 THEN 0 ELSE f[n - 1] + Place(s, n)]
           G == [n \in 1..L |-> [x \in Int |-> x + Place(s, n)]]
<1>0. L \in Nat /\ \A n \in 1..L : Place(s, n) \in Int
  <2>1. s \in Seq(Bytes)
    <3>1. DOMAIN Digits \cup {"-"} \subseteq Bytes
      BY DEF Bytes
    <3> QED
      BY <3>1
  <2>2. \A n \in 0..Len(s) : Tens(s)[n] \in Int
    BY <2>1, TensAre
  <2> SUFFICES ASSUME NEW n \in 1..Len(s) PROVE Place(s, n) \in Int
    OBVIOUS
  <2>3. Len(s) - n \in 0..Len(s) /\ s[n] \in DOMAIN Digits \cup {"-"}
    OBVIOUS
  <2> QED
    BY <2>2, <2>3, DigitsAre DEF Place
<1>1. PICK f : Row(f, L, 0, G)
  <2>1. G \in Steps(L)
    BY <1>0 DEF Steps
  <2> HIDE DEF G, L
  <2> QED
    BY <1>0, <2>1, Iterates
<1>2. Is(f)
  <2> SUFFICES ASSUME NEW n \in 0..L
               PROVE  f[n] = IF n = 0 THEN 0 ELSE f[n - 1] + Place(s, n)
    BY <1>1 DEF Row
  <2>1. CASE n # 0
    <3>1. n \in 1..L /\ f[n - 1] \in Int
      BY <1>1, <2>1 DEF Row
    <3> QED
      BY <1>1, <2>1, <3>1 DEF Row
  <2> QED
    BY <1>1, <2>1 DEF Row
<1>3. Is(Sums(s))
  <2>1. Sums(s) = CHOOSE g : Is(g)
    BY Zenon DEF Sums, Tens, Place
  <2> HIDE DEF Is
  <2> QED
    BY <1>2, <2>1, Zenon
<1> DEFINE v == Sums(s)
<1>4. v = [n \in 0..L |-> IF n = 0 THEN 0 ELSE v[n - 1] + Place(s, n)]
  BY <1>3
<1> HIDE DEF v, L
<1>5. v[0] = 0 /\ \A n \in 1..L : v[n] = v[n - 1] + Place(s, n)
  BY <1>0, <1>4
<1>6. \A n \in 0..L : v[n] \in Int
  <2>1. ASSUME NEW n \in 1..L, v[n - 1] \in Int PROVE v[n] \in Int
    <3>1. v[n] = v[n - 1] + Place(s, n)
      BY <1>5
    <3> QED
      BY <1>0, <2>1, <3>1
  <2>2. L \in Nat /\ v[0] \in Int
    BY <1>0, <1>5
  <2> QED
    BY <2>1, <2>2, Integral, Zenon
<1> QED
  BY <1>5, <1>6 DEF v, L

\* The arithmetic of one digit more.
LEMMA Factor ==
  ASSUME NEW v \in Int, NEW d \in Int, NEW p \in Int
  PROVE  v * (10 * p) + d * p = (10 * v + d) * p
OBVIOUS

\* Reading the digits one after the other gives the sum of their place values,
\* whether z bytes of sign stand before them or none.
LEMMA SumOfDigits ==
  ASSUME NEW w \in Seq(DOMAIN Digits), NEW z \in {0, 1}, NEW s \in Seq(DOMAIN Digits \cup {"-"}),
         Len(s) = Len(w) + z, \A n \in 1..Len(w) : s[n + z] = w[n], z = 1 => s[1] = "-"
  PROVE  Sums(s)[Len(s)] = Values(w)[Len(w)]
<1> DEFINE L == Len(w)
           v == Values(w)
           p == Tens(s)
           u == Sums(s)
           S == {e \in Nat : e <= L => u[e + z] = v[e] * p[L - e]}
<1>1. L \in Nat /\ v[0] = 0 /\ (\A n \in 1..L : v[n] = 10 * v[n - 1] + Digits[w[n]])
      /\ \A n \in 0..L : v[n] \in Int
  BY ValuesAre
<1>2. p[0] = 1 /\ (\A n \in 1..(L + z) : p[n] = 10 * p[n - 1]) /\ \A n \in 0..(L + z) : p[n] \in Int
  <2>1. s \in Seq(Bytes)
    <3>1. DOMAIN Digits \cup {"-"} \subseteq Bytes
      BY DEF Bytes
    <3> QED
      BY <3>1
  <2> QED
    BY <2>1, TensAre
<1>3. u[0] = 0 /\ (\A n \in 1..(L + z) : u[n] = u[n - 1] + Place(s, n))
      /\ \A n \in 0..(L + z) : u[n] \in Int
  BY SumsAre
<1>4. ASSUME NEW n \in 1..L
      PROVE  Place(s, n + z) = Digits[w[n]] * p[L - n] /\ Digits[w[n]] \in Int
  <2>1. s[n + z] = w[n] /\ w[n] \in DOMAIN Digits /\ Digits[w[n]] \in Int
    BY DigitsAre
  <2>2. Len(s) - (n + z) = L - n
    BY <1>1
  <2>3. s[n + z] # "-"
    BY <2>1, DigitsAre
  <2> QED
    BY <2>1, <2>2, <2>3 DEF Place
<1>5. z = 1 => Place(s, 1) = 0
  BY DEF Place
<1> HIDE DEF L, v, p, u
<1>6. 0 \in S
  <2>1. u[z] = 0
    BY <1>1, <1>3, <1>5
  <2>2. v[0] * p[L - 0] = 0
    <3>1. p[L - 0] \in Int /\ v[0] = 0
      BY <1>1, <1>2
    <3> QED
      BY <3>1
  <2> QED
    BY <2>1, <2>2
<1>7. ASSUME NEW n \in Nat, n \in S PROVE n + 1 \in S
  <2> SUFFICES ASSUME n + 1 <= L PROVE u[n + 1 + z] = v[n + 1] * p[L - (n + 1)]
    OBVIOUS
  <2> DEFINE m == L - (n + 1)
             k == n + 1
  <2>1. n \in 0..L /\ k \in 1..L /\ k - 1 = n /\ m \in 0..(L + z) /\ m + 1 \in 1..(L + z)
        /\ (m + 1) - 1 = m /\ L - n = m + 1 /\ L - k = m
        /\ k + z \in 1..(L + z) /\ (k + z) - 1 = n + z
    BY <1>1
  <2>2. u[n + z] = v[n] * p[m + 1]
    BY <1>1, <1>7, <2>1
  <2> HIDE DEF k, m
  <2>3. u[k + z] = u[n + z] + Place(s, k + z)
    BY <1>3, <2>1
  <2>4. Place(s, k + z) = Digits[w[k]] * p[m] /\ Digits[w[k]] \in Int
    BY <1>4, <2>1
  <2>5. p[m + 1] = 10 * p[m] /\ p[m] \in Int
    BY <1>2, <2>1
  <2>6. v[k] = 10 * v[n] + Digits[w[k]] /\ v[n] \in Int
    BY <1>1, <2>1
  <2>7. v[n] * (10 * p[m]) + Digits[w[k]] * p[m] = (10 * v[n] + Digits[w[k]]) * p[m]
    BY <2>4, <2>5, <2>6, Factor
  <2>8. u[k + z] = v[k] * p[m]
    BY <2>2, <2>3, <2>4, <2>5, <2>6, <2>7
  <2> QED
    BY <2>8 DEF k, m
<1>8. L \in S
  <2> HIDE DEF S
  <2>1. Nat \subseteq S
    BY <1>6, <1>7, Induct
  <2> QED
    BY <1>1, <2>1
<1>9. u[L + z] = v[L] * p[0]
  BY <1>1, <1>8
<1>10. u[L + z] = v[L]
  BY <1>1, <1>2, <1>9
<1> QED
  BY <1>10 DEF L, u, v
\* So a token of digits has the value its text stands for, a whole number.
LEMMA SameNumber ==
  ASSUME NEW s \in Seq(Bytes), s # <<>>, \A n \in 2..Len(s) : s[n] \in DOMAIN Digits,
         s[1] \in DOMAIN Digits \cup {"-"}
  PROVE  IntegerOf(s) = Numeral(s) /\ IntegerOf(s) \in Int
<1>1. Len(s) \in Nat /\ Len(s) > 0 /\ Head(s) = s[1] /\ DOMAIN s = 1..Len(s)
  OBVIOUS
<1>2. \A n \in 1..Len(s) : s[n] \in DOMAIN Digits \cup {"-"}
  BY <1>1
<1>3. s \in Seq(DOMAIN Digits \cup {"-"})
  BY <1>1, <1>2
<1>4. CASE s[1] # "-"
  <2>1. \A n \in 1..Len(s) : s[n] \in DOMAIN Digits
    BY <1>1, <1>4
  <2>2. s \in Seq(DOMAIN Digits)
    BY <1>1, <2>1
  <2>3. Sums(s)[Len(s)] = Values(s)[Len(s)]
    <3>1. 0 \in {0, 1} /\ Len(s) = Len(s) + 0 /\ (\A n \in 1..Len(s) : s[n + 0] = s[n]) /\ 0 # 1
      BY <1>1
    <3> QED
      BY <1>3, <2>2, <3>1, SumOfDigits
  <2>4. Values(s)[Len(s)] \in Int
    BY <1>1, <2>2, ValuesAre
  <2>5. IntegerOf(s) = Values(s)[Len(s)]
    BY <1>1, <1>4, IntegerOfIs
  <2>6. Numeral(s) = Sums(s)[Len(s)]
    BY <1>4, NumeralIs
  <2> QED
    BY <2>3, <2>4, <2>5, <2>6
<1>5. CASE s[1] = "-"
  <2> DEFINE w == Tail(s)
  <2>1. /\ w \in Seq(Bytes) /\ Len(w) = Len(s) - 1
        /\ \A n \in 1..(Len(s) - 1) : w[n] = s[n + 1]
    BY HeadTailProperties
  <2>2. IntegerOf(s) = -Values(w)[Len(w)]
    BY <1>1, <1>5, IntegerOfIs
  <2> HIDE DEF w
  <2>3. Len(w) \in Nat /\ DOMAIN w = 1..Len(w) /\ Len(s) = Len(w) + 1
    BY <1>1, <2>1
  <2>4. \A n \in 1..Len(w) : w[n] = s[n + 1] /\ w[n] \in DOMAIN Digits
    BY <1>1, <2>1, <2>3
  <2>5. w \in Seq(DOMAIN Digits)
    BY <2>1, <2>3, <2>4
  <2>6. Sums(s)[Len(s)] = Values(w)[Len(w)]
    BY <1>3, <1>5, <2>3, <2>4, <2>5, SumOfDigits
  <2>7. Values(w)[Len(w)] \in Int
    BY <2>3, <2>5, ValuesAre
  <2>8. Numeral(s) = -Sums(s)[Len(s)]
    BY <1>5, NumeralIs
  <2> QED
    BY <2>2, <2>6, <2>7, <2>8
<1> QED
  BY <1>4, <1>5
-----------------------------------------------------------------------------
(* The inductive invariant: how far the statement is cut. *)

Bare  == Symbols \cup {"<", ">", "!=", "<=", ">="}
Token == [kind : Bare \cup {"Ident", "Int", "Str", "Eof"}, value : Seq(Bytes) \cup Int, pos : Nat]

\* The text of token t, and that t has the value of it.
Text(s, t) == SubSeq(s, t.pos + 1, EndOf(s, t.pos))

Sound(s, t) ==
  /\ t.pos <= Len(s) /\ EndsOf(s, t.pos) # {}
  /\ t.kind = "Ident" => t.value = Text(s, t)
  /\ t.kind = "Int" => t.value = Numeral(Text(s, t))
  /\ t.kind = "Str" => t.value = SubSeq(Text(s, t), 2, Len(Text(s, t)) - 1)

\* Tokens ts and the blanks between them are the first e bytes of s.
From(s, ts, n)  == IF n = 0 THEN 0 ELSE EndOf(s, ts[n].pos)
Until(ts, n, e) == IF n = Len(ts) THEN e ELSE ts[n + 1].pos
Blanks(s, a, b) == a <= b /\ All(s, a, b, {"blank"})

Cut(s, ts, e) ==
  /\ \A n \in 1..Len(ts) : Sound(s, ts[n])
  /\ \A n \in 0..Len(ts) : Blanks(s, From(s, ts, n), Until(ts, n, e))

NumberAt(s, a) ==
  \/ a < Len(s) /\ s[a + 1] \in DOMAIN Digits
  \/ a + 1 < Len(s) /\ s[a + 1] = "-" /\ s[a + 2] \in DOMAIN Digits

\* No token begins at a, or a number does that is no 64-bit integer.
Stuck(s, a) ==
  /\ ~(a < Len(s) /\ s[a + 1] = "blank")
  /\ EndsOf(s, a) # {} => NumberAt(s, a) /\ Numeral(SubSeq(s, a + 1, EndOf(s, a))) \notin Int64

LexInv ==
  /\ input \in Inputs /\ i \in 0..Len(input) /\ tokens \in Seq(Token)
  /\ pc \in {"lexing", "done", "failed"}
  /\ pc # "done" => Cut(input, tokens, i)
  /\ pc = "done" => tokens # <<>> /\ Cut(input, Front(tokens), i)
  /\ pc = "failed" => error = i /\ Stuck(input, i)
-----------------------------------------------------------------------------
\* A statement is a sequence of bytes, and no character begins in its middle.
LEMMA InputIs ==
  ASSUME NEW s \in Inputs
  PROVE  /\ s \in Seq(Bytes) /\ Len(s) \in Nat /\ DOMAIN s = 1..Len(s)
         /\ \A n \in 1..Len(s) : s[n] = "cont" => n > 1 /\ s[n - 1] = "lead"
<1>1. s \in Seq(Bytes) /\ DOMAIN s = 1..Len(s) /\ Len(s) \in Nat
  BY InputsAssumption
<1> QED
  BY <1>1, InputsAssumption

\* A token's text ends behind its start.
LEMMA SoundEnd ==
  ASSUME NEW s \in Seq(Bytes), NEW t \in Token, Sound(s, t)
  PROVE  EndOf(s, t.pos) \in Nat /\ t.pos < EndOf(s, t.pos) /\ EndOf(s, t.pos) <= Len(s)
<1>1. t.pos \in Nat
  BY DEF Token
<1>2. IsToken(s, t.pos, EndOf(s, t.pos))
  BY <1>1, EndIsToken DEF Sound
<1> QED
  BY <1>2 DEF IsToken

\* No bytes are a run of blanks.
LEMMA NoBlanks ==
  ASSUME NEW s, NEW e \in Nat
  PROVE  Blanks(s, e, e)
<1>1. \A n \in (e + 1)..e : s[n] \in {"blank"}
  <2> SUFFICES ASSUME NEW n \in (e + 1)..e PROVE FALSE
    OBVIOUS
  <2> QED
    OBVIOUS
<1> QED
  BY <1>1 DEF Blanks, All

\* A blank at the end of a run makes a longer one.
LEMMA OneMore ==
  ASSUME NEW s, NEW a \in Nat, NEW b \in Nat, Blanks(s, a, b), s[b + 1] = "blank"
  PROVE  Blanks(s, a, b + 1)
<1>1. a <= b /\ \A n \in (a + 1)..b : s[n] \in {"blank"}
  BY DEF Blanks, All
<1>2. ASSUME NEW n \in (a + 1)..(b + 1) PROVE s[n] \in {"blank"}
  <2>1. CASE n = b + 1
    BY <2>1
  <2>2. CASE n # b + 1
    <3>1. n \in (a + 1)..b
      BY <2>2
    <3> QED
      BY <1>1, <3>1
  <2> QED
    BY <2>1, <2>2
<1>3. a <= b + 1
  BY <1>1
<1> QED
  BY <1>2, <1>3 DEF Blanks, All

\* A blank byte more.
LEMMA CutOn ==
  ASSUME NEW s \in Seq(Bytes), NEW ts \in Seq(Token), NEW e \in Nat, e < Len(s),
         Cut(s, ts, e), s[e + 1] = "blank"
  PROVE  Cut(s, ts, e + 1)
<1> DEFINE L == Len(ts)
<1>1. L \in Nat /\ \A n \in 1..L : ts[n] \in Token
  BY LenProperties
<1>2. From(s, ts, L) \in Nat
  <2>1. CASE L # 0
    <3>0. L \in 1..L
      BY <1>1, <2>1
    <3>1. L \in 1..L /\ ts[L] \in Token
      BY <1>1, <3>0
    <3>2. Sound(s, ts[L])
      BY <3>1 DEF Cut
    <3>3. EndOf(s, ts[L].pos) \in Nat
      BY <3>1, <3>2, SoundEnd
    <3> QED
      BY <2>1, <3>3 DEF From
  <2> QED
    BY <2>1 DEF From
<1>3. ASSUME NEW n \in 0..L PROVE Blanks(s, From(s, ts, n), Until(ts, n, e + 1))
  <2>1. Blanks(s, From(s, ts, n), Until(ts, n, e))
    BY <1>3 DEF Cut
  <2>2. CASE n = L
    <3>1. Blanks(s, From(s, ts, n), e)
      BY <2>1, <2>2 DEF Until
    <3> DEFINE f == From(s, ts, n)
    <3>2. f \in Nat
      BY <1>2, <2>2
    <3> HIDE DEF f
    <3>3. Blanks(s, f, e + 1)
      BY <3>1, <3>2, OneMore DEF f
    <3>4. Until(ts, n, e + 1) = e + 1
      BY <2>2 DEF Until
    <3> QED
      BY <3>3, <3>4 DEF f
  <2>3. CASE n # L
    BY <2>1, <2>3 DEF Until
  <2> QED
    BY <2>2, <2>3
<1> QED
  BY <1>3 DEF Cut

\* A token more.
LEMMA CutGrows ==
  ASSUME NEW s \in Seq(Bytes), NEW ts \in Seq(Token), NEW t \in Token,
         Cut(s, ts, t.pos), Sound(s, t)
  PROVE  Cut(s, Append(ts, t), EndOf(s, t.pos))
<1> DEFINE L == Len(ts)
           us == Append(ts, t)
           e == EndOf(s, t.pos)
<1>1. /\ L \in Nat /\ Len(us) = L + 1 /\ us[L + 1] = t
      /\ \A n \in 1..L : us[n] = ts[n]
  BY AppendProperties
<1>2. e \in Nat
  BY SoundEnd
<1> HIDE DEF us, e
<1>3. ASSUME NEW n \in 1..(L + 1) PROVE Sound(s, us[n])
  <2>1. CASE n = L + 1
    BY <1>1, <2>1
  <2>2. CASE n # L + 1
    BY <1>1, <2>2 DEF Cut
  <2> QED
    BY <2>1, <2>2
<1>4. ASSUME NEW n \in 0..(L + 1) PROVE Blanks(s, From(s, us, n), Until(us, n, e))
  <2>1. CASE n = L + 1
    <3>1. From(s, us, n) = e /\ Until(us, n, e) = e
      BY <1>1, <2>1 DEF From, Until, e
    <3>2. Blanks(s, e, e)
      BY <1>2, NoBlanks
    <3> QED
      BY <3>1, <3>2
  <2>2. CASE n = L
    <3>1. From(s, us, n) = From(s, ts, n) /\ Until(us, n, e) = Until(ts, n, t.pos)
      BY <1>1, <2>2 DEF From, Until
    <3> QED
      BY <1>1, <2>2, <3>1 DEF Cut
  <2>3. CASE n \in 0..(L - 1)
    <3>1. From(s, us, n) = From(s, ts, n) /\ Until(us, n, e) = Until(ts, n, t.pos)
      BY <1>1, <2>3 DEF From, Until
    <3> QED
      BY <1>1, <2>3, <3>1 DEF Cut
  <2> QED
    BY <1>1, <2>1, <2>2, <2>3
<1> QED
  BY <1>1, <1>3, <1>4 DEF Cut, us, e
-----------------------------------------------------------------------------
\* A sequence with an element more is the sequence before it.
LEMMA FrontOfAppend ==
  ASSUME NEW S, NEW ts \in Seq(S), NEW x \in S
  PROVE  Append(ts, x) \in Seq(S) /\ Append(ts, x) # <<>> /\ Front(Append(ts, x)) = ts
<1> DEFINE us == Append(ts, x)
<1>1. /\ us \in Seq(S) /\ Len(us) = Len(ts) + 1 /\ Len(ts) \in Nat
      /\ \A n \in 1..Len(ts) : us[n] = ts[n]
  BY AppendProperties
<1> HIDE DEF us
<1>2. us # <<>>
  BY <1>1
<1>3. /\ Front(us) \in Seq(S) /\ Len(Front(us)) = Len(ts)
      /\ \A n \in 1..Len(ts) : Front(us)[n] = us[n]
  BY <1>1, SubSeqProperties DEF Front
<1>4. Front(us) = ts
  BY <1>1, <1>3, SeqEqual
<1> QED
  BY <1>1, <1>2, <1>4 DEF us

\* Before the end the tokens so far are the statement up to i.
LEMMA Lexing ==
  ASSUME LexInv, pc = "lexing"
  PROVE  /\ input \in Inputs /\ input \in Seq(Bytes) /\ i \in Nat /\ i <= Len(input)
         /\ Len(input) \in Nat /\ tokens \in Seq(Token) /\ Cut(input, tokens, i)
BY InputIs DEF LexInv

\* A token that is as long as it can be goes behind the others.
LEMMA TokenStep ==
  ASSUME LexInv, pc = "lexing", NEW t \in Token, t.pos = i, Sound(input, t),
         tokens' = Append(tokens, t), i' = EndOf(input, i), UNCHANGED <<input, pc, error>>
  PROVE  LexInv'
<1>1. /\ input \in Inputs /\ input \in Seq(Bytes) /\ tokens \in Seq(Token)
      /\ Cut(input, tokens, i) /\ Len(input) \in Nat
  BY Lexing
<1>2. Cut(input, Append(tokens, t), EndOf(input, i))
  BY <1>1, CutGrows
<1>3. Append(tokens, t) \in Seq(Token)
  BY <1>1, AppendProperties
<1>4. EndOf(input, i) \in 0..Len(input)
  BY <1>1, SoundEnd
<1> QED
  BY <1>1, <1>2, <1>3, <1>4 DEF LexInv

\* An error is at a byte at which the loop is stuck.
LEMMA ErrStep ==
  ASSUME LexInv, pc = "lexing", Stuck(input, i), Err(i)
  PROVE  LexInv'
BY Lexing DEF LexInv, Err

\* Between two characters: before a byte that begins one, and behind one that
\* ends one.
LEMMA Boundary ==
  ASSUME NEW b \in Nat, input \in Inputs,
         b < Len(input) => (b > 0 /\ input[b] # "lead") \/ input[b + 1] # "cont"
  PROVE  CharBoundary(b)
<1> SUFFICES ASSUME Has(b, {"cont"}) PROVE FALSE
  BY DEF CharBoundary
<1>1. b < Len(input) /\ input[b + 1] = "cont" /\ b + 1 \in 1..Len(input) /\ (b + 1) - 1 = b
  BY InputIs DEF Has
<1>2. input[b] = "lead"
  BY <1>1, InputIs
<1> QED
  BY <1>1, <1>2

\* Each pass of the loop keeps the invariant, by the arm it takes: white space,
LEMMA BlankStep ==
  ASSUME LexInv, Blank
  PROVE  LexInv'
<1>1. /\ pc = "lexing" /\ i < Len(input) /\ input[i + 1] = "blank"
      /\ i' = i + 1 /\ UNCHANGED <<input, tokens, pc, error>>
  BY DEF Blank, AtByte, Has
<1>2. Cut(input, tokens, i + 1)
  BY <1>1, Lexing, CutOn
<1> QED
  BY <1>1, <1>2, Lexing DEF LexInv

\* A token that has no value but its kind.
LEMMA BareToken ==
  ASSUME LexInv, pc = "lexing", NEW k \in Bare, EndsOf(input, i) # {},
         NEW t, t = [kind |-> k, value |-> <<>>, pos |-> i]
  PROVE  t \in Token /\ t.pos = i /\ Sound(input, t)
<1>1. t.kind = k /\ t.pos = i /\ i \in Nat /\ i <= Len(input)
  BY Lexing
<1>2. k \notin {"Ident", "Int", "Str"}
  BY DEF Bare, Symbols
<1>3. t \in Token
  <2>1. <<>> \in Seq(Bytes) \cup Int
    OBVIOUS
  <2> QED
    BY <1>1, <2>1 DEF Token
<1>4. Sound(input, t)
  BY <1>1, <1>2 DEF Sound
<1> QED
  BY <1>1, <1>3, <1>4

\* a symbol,
LEMMA SingleStep ==
  ASSUME LexInv, Single
  PROVE  LexInv'
<1>0. PICK k : k = input[i + 1]
  OBVIOUS
<1>1. PICK t : t = [kind |-> k, value |-> <<>>, pos |-> i]
  OBVIOUS
<1>2. /\ pc = "lexing" /\ i < Len(input) /\ input[i + 1] \in Symbols
      /\ tokens' = Append(tokens, t) /\ i' = i + 1 /\ UNCHANGED <<input, pc, error>>
  BY <1>0, <1>1 DEF Single, AtByte, Has, Emit
<1>3. EndsOf(input, i) # {} /\ EndOf(input, i) = i + 1
  BY <1>2, Lexing, SymbolEnd
<1>4. t \in Token /\ t.pos = i /\ Sound(input, t)
  <2>1. k \in Bare
    BY <1>0, <1>2 DEF Bare
  <2> QED
    BY <1>1, <1>2, <1>3, <2>1, BareToken
<1> QED
  BY <1>2, <1>3, <1>4, TokenStep

\* "!",
LEMMA BangStep ==
  ASSUME LexInv, Bang
  PROVE  LexInv'
<1>1. pc = "lexing" /\ i < Len(input) /\ input[i + 1] = "!"
  BY DEF Bang, AtByte, Has
<1>2. Has(i + 1, {"="}) <=> i + 1 < Len(input) /\ input[i + 2] = "="
  <2>1. (i + 1) + 1 = i + 2
    BY <1>1, Lexing
  <2> QED
    BY <2>1 DEF Has
<1>3. CASE Has(i + 1, {"="})
  <2>1. PICK t : t = [kind |-> "!=", value |-> <<>>, pos |-> i]
    OBVIOUS
  <2>2. tokens' = Append(tokens, t) /\ i' = i + 2 /\ UNCHANGED <<input, pc, error>>
    BY <1>3, <2>1 DEF Bang, Emit
  <2>3. EndsOf(input, i) # {} /\ EndOf(input, i) = i + 2
    BY <1>1, <1>2, <1>3, Lexing, BangEnd
  <2>4. t \in Token /\ t.pos = i /\ Sound(input, t)
    <3>1. "!=" \in Bare
      BY DEF Bare
    <3> QED
      BY <1>1, <2>1, <2>3, <3>1, BareToken
  <2> QED
    BY <1>1, <2>2, <2>3, <2>4, TokenStep
<1>4. CASE ~Has(i + 1, {"="})
  <2>1. EndsOf(input, i) = {}
    BY <1>1, <1>2, <1>4, Lexing, BangEnd
  <2>2. Stuck(input, i) /\ Err(i)
    BY <1>1, <1>4, <2>1 DEF Stuck, Bang
  <2> QED
    BY <1>1, <2>2, ErrStep
<1> QED
  BY <1>3, <1>4

\* a comparison,
LEMMA TwoOrOneStep ==
  ASSUME LexInv, TwoOrOne
  PROVE  LexInv'
<1>1. pc = "lexing" /\ i < Len(input) /\ input[i + 1] \in {"<", ">"}
  BY DEF TwoOrOne, AtByte, Has
<1>2. Has(i + 1, {"="}) <=> i + 1 < Len(input) /\ input[i + 2] = "="
  <2>1. (i + 1) + 1 = i + 2
    BY <1>1, Lexing
  <2> QED
    BY <2>1 DEF Has
<1>3. PICK k : k = IF Has(i + 1, {"="}) THEN IF Has(i, {"<"}) THEN "<=" ELSE ">="
                   ELSE input[i + 1]
  OBVIOUS
<1>4. PICK t : t = [kind |-> k, value |-> <<>>, pos |-> i]
  OBVIOUS
<1>5. /\ tokens' = Append(tokens, t) /\ UNCHANGED <<input, pc, error>>
      /\ i' = IF Has(i + 1, {"="}) THEN i + 2 ELSE i + 1
  BY <1>3, <1>4 DEF TwoOrOne, Emit
<1>6. EndsOf(input, i) # {} /\ i' = EndOf(input, i)
  BY <1>1, <1>2, <1>5, Lexing, LessEnd
<1>7. t \in Token /\ t.pos = i /\ Sound(input, t)
  <2>1. k \in Bare
    BY <1>1, <1>3 DEF Bare
  <2> QED
    BY <1>1, <1>4, <1>6, <2>1, BareToken
<1> QED
  BY <1>1, <1>5, <1>6, <1>7, TokenStep

\* A text without its first and last byte.
LEMMA Inside ==
  ASSUME NEW w \in Seq(Bytes), Len(w) > 0
  PROVE  SubSeq(w, 2, Len(w) - 1) \in Seq(Bytes)
<1>1. Len(w) \in Nat
  OBVIOUS
<1>2. CASE Len(w) = 1
  <2>1. SubSeq(w, 2, Len(w) - 1) = <<>> /\ <<>> \in Seq(Bytes)
    BY <1>1, <1>2, SubSeqProperties
  <2> QED
    BY <2>1
<1>3. CASE Len(w) # 1
  <2> DEFINE L == Len(w)
  <2>1. L \in Nat /\ L > 0 /\ L # 1
    BY <1>1, <1>3
  <2> HIDE DEF L
  <2>2. 1 \in Nat /\ L - 1 \in Nat /\ 1 <= L - 1 /\ L - 1 <= L /\ 1 + 1 = 2
    BY <2>1
  <2> QED
    BY <2>2, SliceIs DEF L
<1> QED
  BY <1>2, <1>3

\* A quoted text without its quotes.
LEMMA Unquoted ==
  ASSUME NEW s \in Seq(Bytes), NEW a \in Nat, NEW j \in Nat, a + 1 <= j, j < Len(s)
  PROVE  LET w == SubSeq(s, a + 1, j + 1)
         IN  SubSeq(s, a + 2, j) = SubSeq(w, 2, Len(w) - 1)
<1> DEFINE w == SubSeq(s, a + 1, j + 1)
           L == j - (a + 1)
           u == SubSeq(s, a + 2, j)
           x == SubSeq(w, 2, Len(w) - 1)
<1>0. L \in Nat /\ Len(s) \in Nat
  OBVIOUS
<1>1. /\ w \in Seq(Bytes) /\ Len(w) = L + 2 /\ \A n \in 1..(L + 2) : w[n] = s[a + n]
  <2>1. a <= j + 1 /\ j + 1 <= Len(s) /\ (j + 1) - a = L + 2 /\ j + 1 \in Nat
    BY <1>0
  <2> HIDE DEF L
  <2> QED
    BY <2>1, SliceIs
<1>2. /\ u \in Seq(Bytes) /\ Len(u) = L /\ \A n \in 1..L : u[n] = s[a + 1 + n]
  <2>1. a + 1 <= j /\ j <= Len(s) /\ j - (a + 1) = L /\ a + 1 \in Nat /\ (a + 1) + 1 = a + 2
    BY <1>0
  <2> HIDE DEF L
  <2> QED
    BY <2>1, SliceIs
<1> HIDE DEF L, w, u
<1>3. /\ x \in Seq(Bytes) /\ Len(x) = L /\ \A n \in 1..L : x[n] = w[1 + n]
  <2>1. 1 <= L + 1 /\ L + 1 <= Len(w) /\ (L + 1) - 1 = L /\ 1 \in Nat /\ 1 + 1 = 2 /\ L + 1 \in Nat
        /\ Len(w) - 1 = L + 1
    BY <1>0, <1>1
  <2> QED
    BY <1>1, <2>1, SliceIs
<1>4. ASSUME NEW n \in 1..L PROVE u[n] = x[n]
  <2>1. 1 + n \in 1..(L + 2) /\ a + (1 + n) = a + 1 + n
    BY <1>0
  <2> QED
    BY <1>1, <1>2, <1>3, <2>1
<1>5. u = x
  <2> HIDE DEF x
  <2> QED
    BY <1>2, <1>3, <1>4, SeqEqual
<1> QED
  BY <1>5 DEF u, w

\* A token that has its text, or the value of it.
LEMMA ValueToken ==
  ASSUME LexInv, pc = "lexing", NEW t, EndsOf(input, i) # {},
         LET w == SubSeq(input, i + 1, EndOf(input, i))
         IN  \/ t = [kind |-> "Ident", value |-> w, pos |-> i]
             \/ t = [kind |-> "Int", value |-> Numeral(w), pos |-> i] /\ Numeral(w) \in Int
             \/ t = [kind |-> "Str", value |-> SubSeq(w, 2, Len(w) - 1), pos |-> i]
  PROVE  t \in Token /\ t.pos = i /\ Sound(input, t)
<1> DEFINE e == EndOf(input, i)
           w == SubSeq(input, i + 1, e)
           x == SubSeq(w, 2, Len(w) - 1)
<1>1. i \in Nat /\ i <= Len(input) /\ input \in Seq(Bytes)
  BY Lexing
<1>2. e \in Nat /\ i < e /\ e <= Len(input)
  BY <1>1, EndIsToken DEF IsToken
<1>3. w \in Seq(Bytes) /\ Len(w) \in Nat /\ Len(w) > 0
  BY <1>1, <1>2, SliceIs
<1>4. x \in Seq(Bytes)
  BY <1>3, Inside
<1>5. t.pos = i
  OBVIOUS
<1> HIDE DEF e, w, x
<1>6. \/ t = [kind |-> "Ident", value |-> w, pos |-> i]
      \/ t = [kind |-> "Int", value |-> Numeral(w), pos |-> i] /\ Numeral(w) \in Int
      \/ t = [kind |-> "Str", value |-> x, pos |-> i]
  BY DEF e, w, x
<1>7. t \in Token
  BY <1>1, <1>3, <1>4, <1>6 DEF Token
<1>8. Text(input, t) = w
  BY <1>5 DEF Text, w, e
<1>9. Sound(input, t)
  <2>1. CASE t = [kind |-> "Ident", value |-> w, pos |-> i]
    BY <1>1, <1>5, <1>8, <2>1 DEF Sound
  <2>2. CASE t = [kind |-> "Int", value |-> Numeral(w), pos |-> i]
    BY <1>1, <1>5, <1>8, <2>2 DEF Sound
  <2>3. CASE t = [kind |-> "Str", value |-> x, pos |-> i]
    BY <1>1, <1>5, <1>8, <2>3 DEF Sound, x
  <2> QED
    BY <1>6, <2>1, <2>2, <2>3
<1> QED
  BY <1>5, <1>7, <1>9

\* a word,
LEMMA WordStep ==
  ASSUME LexInv, Word
  PROVE  LexInv'
<1> DEFINE j == RunEnd(i + 1, WordRest)
<1>1. /\ pc = "lexing" /\ i < Len(input) /\ input[i + 1] \in Letters
      /\ EmitSlice("Ident", i, j, j)
  BY DEF Word, AtByte, Has, WordRest
<1>2. /\ j \in Nat /\ i + 1 <= j /\ j <= Len(input) /\ All(input, i + 1, j, WordRest)
      /\ j < Len(input) => input[j + 1] \notin WordRest
  BY <1>1, Lexing, RunIs
<1> HIDE DEF j
<1>3. EndsOf(input, i) # {} /\ EndOf(input, i) = j
  BY <1>1, <1>2, Lexing, WordEnd
<1>4. CharBoundary(i)
  <2>1. input[i + 1] # "cont"
    BY <1>1, Kinds
  <2> QED
    BY <1>1, <2>1, Lexing, Boundary
<1>5. CharBoundary(j)
  <2>1. input[j] \in WordRest
    <3>1. CASE j = i + 1
      BY <1>1, <3>1 DEF WordRest
    <3>2. CASE j # i + 1
      <4>1. j \in (i + 1 + 1)..j
        BY <1>1, <1>2, <3>2, Lexing
      <4> QED
        BY <1>2, <4>1 DEF All
    <3> QED
      BY <3>1, <3>2
  <2>2. input[j] # "lead" /\ j > 0
    BY <1>1, <1>2, <2>1, Lexing, Kinds
  <2> QED
    BY <1>1, <1>2, <2>2, Lexing, Boundary
<1>6. PICK t : t = [kind |-> "Ident", value |-> SubSeq(input, i + 1, j), pos |-> i]
  OBVIOUS
<1>7. tokens' = Append(tokens, t) /\ i' = j /\ UNCHANGED <<input, pc, error>>
  BY <1>1, <1>4, <1>5, <1>6 DEF EmitSlice, Emit, Slice
<1>8. t \in Token /\ t.pos = i /\ Sound(input, t)
  BY <1>1, <1>3, <1>6, ValueToken
<1> QED
  BY <1>1, <1>3, <1>7, <1>8, TokenStep

\* a string,
LEMMA QuotedStep ==
  ASSUME LexInv, Quoted
  PROVE  LexInv'
<1> DEFINE j == RunEnd(i + 1, Bytes \ {"'"})
<1>1. /\ pc = "lexing" /\ i < Len(input) /\ input[i + 1] = "'"
      /\ IF j >= Len(input) THEN Err(i) ELSE EmitSlice("Str", i + 1, j, j + 1)
  BY DEF Quoted, AtByte, Has
<1>2. /\ j \in Nat /\ i + 1 <= j /\ j <= Len(input) /\ All(input, i + 1, j, Bytes \ {"'"})
      /\ j < Len(input) => input[j + 1] \notin Bytes \ {"'"}
  BY <1>1, Lexing, RunIs
<1> HIDE DEF j
<1>3. CASE j = Len(input)
  <2>1. EndsOf(input, i) = {}
    BY <1>1, <1>2, <1>3, Lexing, QuoteEnd
  <2>2. Stuck(input, i) /\ Err(i)
    BY <1>1, <1>2, <1>3, <2>1, Lexing DEF Stuck
  <2> QED
    BY <1>1, <2>2, ErrStep
<1>4. CASE j < Len(input)
  <2>1. input[j + 1] = "'"
    <3>0. j + 1 \in 1..Len(input)
      BY <1>1, <1>2, <1>4, Lexing
    <3>1. input[j + 1] \in Bytes
      BY <1>1, <3>0, Lexing
    <3> QED
      BY <1>2, <1>4, <3>1
  <2>2. EndsOf(input, i) # {} /\ EndOf(input, i) = j + 1
    BY <1>1, <1>2, <1>4, <2>1, Lexing, QuoteEnd
  <2>3. CharBoundary(i + 1)
    <3>1. i + 1 \in Nat /\ i + 1 > 0 /\ input[i + 1] # "lead"
      BY <1>1, Lexing
    <3> QED
      BY <3>1, Lexing, <1>1, Boundary
  <2>4. CharBoundary(j)
    <3>1. input[j + 1] # "cont"
      BY <2>1
    <3> QED
      BY <1>1, <1>2, <3>1, Lexing, Boundary
  <2> DEFINE w == SubSeq(input, i + 1, j + 1)
  <2>5. Slice(i + 1, j) = SubSeq(w, 2, Len(w) - 1)
    <3>1. (i + 1) + 1 = i + 2
      BY <1>1, Lexing
    <3> QED
      BY <1>1, <1>2, <1>4, <3>1, Lexing, Unquoted DEF Slice
  <2>6. PICK t : t = [kind |-> "Str", value |-> SubSeq(w, 2, Len(w) - 1), pos |-> i]
    OBVIOUS
  <2>7. tokens' = Append(tokens, t) /\ i' = j + 1 /\ UNCHANGED <<input, pc, error>>
    <3> HIDE DEF w
    <3>1. ~(j >= Len(input))
      BY <1>2, <1>4, <1>1, Lexing
    <3> QED
      BY <1>1, <2>3, <2>4, <2>5, <2>6, <3>1 DEF EmitSlice, Emit
  <2>8. t \in Token /\ t.pos = i /\ Sound(input, t)
    BY <1>1, <2>2, <2>6, ValueToken
  <2> QED
    BY <1>1, <2>2, <2>7, <2>8, TokenStep
<1> QED
  BY <1>1, <1>2, <1>3, <1>4, Lexing

\* NumberStart, of the statement at i.
LEMMA NumberStartIs ==
  ASSUME i \in Nat, Len(input) \in Nat
  PROVE  NumberStart <=> NumberAt(input, i)
<1>1. (i + 1) + 1 = i + 2
  OBVIOUS
<1>2. Has(i, {"-"}) <=> i < Len(input) /\ input[i + 1] = "-"
  BY DEF Has
<1>3. Has(i, DOMAIN Digits) <=> i < Len(input) /\ input[i + 1] \in DOMAIN Digits
  BY DEF Has
<1>4. Has(i + 1, DOMAIN Digits) <=> i + 1 < Len(input) /\ input[i + 2] \in DOMAIN Digits
  BY <1>1 DEF Has
<1>5. i + 1 < Len(input) => i < Len(input)
  OBVIOUS
<1> QED
  BY <1>2, <1>3, <1>4, <1>5 DEF NumberStart, NumberAt

\* a number,
LEMMA NumberStep ==
  ASSUME LexInv, Number
  PROVE  LexInv'
<1> DEFINE j == RunEnd(i + 1, DOMAIN Digits)
           w == SubSeq(input, i + 1, j)
<1>1. /\ pc = "lexing" /\ NumberStart
      /\ IF IntegerOf(w) \in Int64 THEN EmitSlice("Int", i, j, j) ELSE Err(i)
  BY DEF Number, Slice
<1>0. /\ i \in Nat /\ i <= Len(input) /\ Len(input) \in Nat /\ input \in Seq(Bytes) /\ input \in Inputs
  BY <1>1, Lexing
<1>2. NumberAt(input, i) /\ i < Len(input) /\ input[i + 1] \in DOMAIN Digits \cup {"-"}
  BY <1>0, <1>1, NumberStartIs DEF NumberAt
<1>3. /\ j \in Nat /\ i + 1 <= j /\ j <= Len(input) /\ All(input, i + 1, j, DOMAIN Digits)
      /\ j < Len(input) => input[j + 1] \notin DOMAIN Digits
  BY <1>0, <1>2, RunIs
<1> HIDE DEF j
<1>4. input[i + 1] \in DOMAIN Digits \/ (input[i + 1] = "-" /\ i + 1 < j)
  <2>1. CASE j = i + 1
    <3>1. j + 1 = i + 2
      BY <1>0, <2>1
    <3> QED
      BY <1>2, <1>3, <2>1, <3>1, DigitsAre DEF NumberAt
  <2>2. CASE j # i + 1
    <3>1. i + 1 < j
      BY <1>0, <1>3, <2>2
    <3> QED
      BY <1>2, <3>1
  <2> QED
    BY <2>1, <2>2
<1>5. EndsOf(input, i) # {} /\ EndOf(input, i) = j
  BY <1>0, <1>2, <1>3, <1>4, NumberEnd
<1>6. IntegerOf(w) = Numeral(w) /\ IntegerOf(w) \in Int
  <2>1. /\ w \in Seq(Bytes) /\ Len(w) = j - i
        /\ \A n \in 1..(j - i) : w[n] = input[i + n]
    BY <1>0, <1>3, SliceIs
  <2> HIDE DEF w
  <2>2. w # <<>> /\ w[1] = input[i + 1]
    BY <1>0, <1>3, <2>1
  <2>3. ASSUME NEW n \in 2..Len(w) PROVE w[n] \in DOMAIN Digits
    <3>1. n \in 1..(j - i) /\ i + n \in (i + 1 + 1)..j
      BY <1>0, <1>3, <2>1
    <3> QED
      BY <1>3, <2>1, <3>1 DEF All
  <2> QED
    BY <1>2, <2>1, <2>2, <2>3, SameNumber
<1>7. CharBoundary(i)
  <2>1. input[i + 1] # "cont"
    BY <1>2, DigitsAre
  <2> QED
    BY <1>0, <2>1, Boundary
<1>8. CharBoundary(j)
  <2>1. input[j] \in DOMAIN Digits \cup {"-"}
    <3>1. CASE j = i + 1
      BY <1>2, <3>1
    <3>2. CASE j # i + 1
      <4>1. j \in (i + 1 + 1)..j
        BY <1>0, <1>3, <3>2
      <4> QED
        BY <1>3, <4>1 DEF All
    <3> QED
      BY <3>1, <3>2
  <2>2. input[j] # "lead" /\ j > 0
    BY <1>0, <1>3, <2>1, DigitsAre
  <2> QED
    BY <1>0, <1>3, <2>2, Boundary
<1> HIDE DEF w
<1>9. CASE IntegerOf(w) \in Int64
  <2>1. PICK t : t = [kind |-> "Int", value |-> Numeral(w), pos |-> i]
    OBVIOUS
  <2>2. EmitSlice("Int", i, j, j)
    BY <1>1, <1>9
  <2>3. Emit("Int", IF "Int" = "Int" THEN IntegerOf(Slice(i, j)) ELSE Slice(i, j), j)
    BY <1>7, <1>8, <2>2 DEF EmitSlice
  <2>4. Slice(i, j) = w
    BY DEF Slice, w
  <2>5. Emit("Int", Numeral(w), j)
    BY <1>6, <2>3, <2>4
  <2>6. tokens' = Append(tokens, t) /\ i' = j /\ UNCHANGED <<input, pc, error>>
    BY <2>1, <2>5 DEF Emit
  <2>7. t \in Token /\ t.pos = i /\ Sound(input, t)
    <3>1. w = SubSeq(input, i + 1, EndOf(input, i))
      BY <1>5 DEF w
    <3>2. Numeral(w) \in Int
      BY <1>6
    <3> QED
      BY <1>1, <1>5, <2>1, <3>1, <3>2, ValueToken
  <2> QED
    BY <1>1, <1>5, <2>6, <2>7, TokenStep
<1>10. CASE IntegerOf(w) \notin Int64
  <2>1. Err(i)
    BY <1>1, <1>10
  <2>2. input[i + 1] # "blank"
    BY <1>2, DigitsAre
  <2>3. Stuck(input, i)
    BY <1>2, <1>5, <1>6, <1>10, <2>2 DEF Stuck, w
  <2> QED
    BY <1>1, <2>1, <2>3, ErrStep
<1> QED
  BY <1>9, <1>10

\* a byte that begins no token,
LEMMA UnexpectedStep ==
  ASSUME LexInv, Unexpected
  PROVE  LexInv'
<1>1. /\ pc = "lexing" /\ i < Len(input) /\ input[i + 1] \in {"-", "lead", "cont", "@"}
      /\ ~NumberStart /\ Err(i)
  BY DEF Unexpected, AtByte, Has
<1>2. ~NumberAt(input, i)
  BY <1>1, Lexing, NumberStartIs
<1>3. EndsOf(input, i) = {}
  <2>1. ~(input[i + 1] = "-" /\ i + 1 < Len(input) /\ input[i + 2] \in DOMAIN Digits)
    BY <1>2 DEF NumberAt
  <2> QED
    BY <1>1, <2>1, Lexing, NoEnd
<1>4. Stuck(input, i)
  BY <1>1, <1>3 DEF Stuck
<1> QED
  BY <1>1, <1>4, ErrStep

\* the end of the statement.
LEMMA EndStep ==
  ASSUME LexInv, End
  PROVE  LexInv'
<1>1. PICK t : t = [kind |-> "Eof", value |-> <<>>, pos |-> Len(input)]
  OBVIOUS
<1>2. /\ pc = "lexing" /\ tokens' = Append(tokens, t) /\ pc' = "done"
      /\ UNCHANGED <<input, i, error>>
  BY <1>1 DEF End
<1>3. t \in Token
  BY <1>1, <1>2, Lexing DEF Token
<1>4. Append(tokens, t) \in Seq(Token) /\ Append(tokens, t) # <<>> /\ Front(Append(tokens, t)) = tokens
  BY <1>2, <1>3, Lexing, FrontOfAppend
<1> QED
  BY <1>2, <1>4, Lexing DEF LexInv

\* The loop begins with nothing cut.
LEMMA InitInv == Init => LexInv
<1> SUFFICES ASSUME Init PROVE LexInv
  OBVIOUS
<1>1. input \in Inputs /\ i = 0 /\ tokens = <<>> /\ pc = "lexing"
  BY DEF Init
<1>2. Cut(input, <<>>, 0)
  <2>1. Blanks(input, 0, 0)
    BY NoBlanks
  <2>2. Len(<<>>) = 0
    OBVIOUS
  <2>3. From(input, <<>>, 0) = 0 /\ Until(<<>>, 0, 0) = 0
    BY <2>2 DEF From, Until
  <2> QED
    BY <2>1, <2>2, <2>3 DEF Cut
<1>3. <<>> \in Seq(Token)
  OBVIOUS
<1> QED
  BY <1>1, <1>2, <1>3, InputIs DEF LexInv

\* No pass of the loop breaks the invariant.
LEMMA NextInv == LexInv /\ [Next]_vars => LexInv'
<1> SUFFICES ASSUME LexInv, [Next]_vars PROVE LexInv'
  OBVIOUS
<1>1. CASE UNCHANGED vars
  BY <1>1 DEF vars, LexInv
<1> QED
  BY <1>1, BlankStep, SingleStep, BangStep, TwoOrOneStep, QuotedStep, NumberStep, WordStep,
     UnexpectedStep, EndStep DEF Next

\* tokenize keeps the invariant.
THEOREM Invariance == Spec => []LexInv
BY InitInv, NextInv, PTL DEF Spec
-----------------------------------------------------------------------------
\* Ends says the same of a statement as EndsOf.
LEMMA EndsAre ==
  ASSUME input \in Seq(Bytes), NEW a \in Nat
  PROVE  Ends(a) = EndsOf(input, a)
<1>1. Len(input) \in Nat
  OBVIOUS
<1>2. ASSUME NEW b \in a..Len(input) PROVE Lexeme(a, b) <=> IsToken(input, a, b)
  <2>1. b \in Nat /\ a <= b /\ b <= Len(input)
    BY <1>1
  <2> QED
    BY <2>1, LexemeIs
<1> QED
  BY <1>2 DEF Ends, EndsOf

\* The tokens that LongestMatch speaks of.
Tokenized == IF pc = "done" THEN Front(tokens) ELSE tokens

\* They are the statement up to i.
LEMMA TokenizedIs ==
  ASSUME LexInv
  PROVE  /\ Tokenized \in Seq(Token) /\ Cut(input, Tokenized, i)
         /\ input \in Seq(Bytes) /\ Len(input) \in Nat /\ i \in Nat /\ i <= Len(input)
<1>1. input \in Seq(Bytes) /\ Len(input) \in Nat /\ i \in Nat /\ i <= Len(input)
  BY InputIs DEF LexInv
<1>2. CASE pc = "done"
  <2>1. tokens \in Seq(Token) /\ tokens # <<>> /\ Tokenized = Front(tokens)
    BY <1>2 DEF LexInv, Tokenized
  <2>2. Len(tokens) \in Nat /\ Len(tokens) > 0
    BY <2>1
  <2>3. Front(tokens) \in Seq(Token)
    BY <2>1, <2>2, SubSeqProperties DEF Front
  <2> QED
    BY <1>1, <1>2, <2>1, <2>3 DEF LexInv
<1>3. CASE pc # "done"
  BY <1>1, <1>3 DEF LexInv, Tokenized
<1> QED
  BY <1>2, <1>3

\* No string is cut inside a character: NeverPanics, whatever the statements are.
THEOREM PanicFree == Spec => []NeverPanics
<1>1. LexInv => NeverPanics
  BY DEF LexInv, NeverPanics
<1> QED
  BY <1>1, Invariance, PTL

\* The tokens are the statement, each as long as it can be, and each has the value
\* of its text: LongestMatch, whatever the statements are.
THEOREM CutsLongest == Spec => []LongestMatch
<1>1. ASSUME LexInv PROVE LongestMatch
  <2> DEFINE done == Tokenized
             from(n) == IF n = 0 THEN 0 ELSE Max(Ends(done[n].pos))
             to(n) == IF n = Len(done) THEN i ELSE done[n + 1].pos
  <2>1. /\ done \in Seq(Token) /\ Cut(input, done, i)
        /\ input \in Seq(Bytes) /\ Len(input) \in Nat /\ i \in Nat /\ i <= Len(input)
    BY <1>1, TokenizedIs
  <2>2. Len(done) \in Nat /\ \A n \in 1..Len(done) : done[n] \in Token /\ done[n].pos \in Nat
    <3> HIDE DEF done
    <3>1. Len(done) \in Nat /\ \A n \in 1..Len(done) : done[n] \in Token
      BY <2>1, LenProperties
    <3>2. \A x \in Token : x.pos \in Nat
      BY DEF Token
    <3> QED
      BY <3>1, <3>2
  <2> HIDE DEF done
  <2>3. ASSUME NEW n \in 1..Len(done)
        PROVE  /\ Sound(input, done[n]) /\ Ends(done[n].pos) = EndsOf(input, done[n].pos)
               /\ EndOf(input, done[n].pos) \in Nat /\ done[n].pos < EndOf(input, done[n].pos)
               /\ EndOf(input, done[n].pos) <= Len(input)
    BY <2>1, <2>2, EndsAre, SoundEnd DEF Cut
  <2>4. ASSUME NEW n \in 0..Len(done)
        PROVE  from(n) = From(input, done, n) /\ to(n) = Until(done, n, i)
               /\ from(n) \in Nat /\ to(n) \in Nat /\ to(n) <= Len(input)
    <3>1. from(n) = From(input, done, n) /\ from(n) \in Nat
      <4>1. CASE n = 0
        BY <4>1 DEF From
      <4>2. CASE n # 0
        <5>1. n \in 1..Len(done)
          BY <2>2, <4>2
        <5> QED
          BY <2>3, <4>2, <5>1 DEF From, EndOf
      <4> QED
        BY <4>1, <4>2
    <3>2. to(n) = Until(done, n, i) /\ to(n) \in Nat /\ to(n) <= Len(input)
      <4>1. CASE n = Len(done)
        BY <2>1, <4>1 DEF Until
      <4>2. CASE n # Len(done)
        <5>1. n + 1 \in 1..Len(done)
          BY <2>2, <4>2
        <5>2. done[n + 1].pos \in Nat /\ done[n + 1].pos <= Len(input)
          BY <2>2, <2>3, <5>1 DEF Sound
        <5> QED
          BY <4>2, <5>2 DEF Until
      <4> QED
        BY <4>1, <4>2
    <3> QED
      BY <3>1, <3>2
  <2>5. \A n \in 1..Len(done) : Ends(done[n].pos) # {}
    BY <2>3 DEF Sound
  <2>6. ASSUME NEW n \in 0..Len(done)
        PROVE  from(n) <= to(n) /\ Range(Slice(from(n), to(n))) \subseteq {"blank"}
    <3> DEFINE a == from(n)
               b == to(n)
    <3>1. Blanks(input, a, b) /\ a \in Nat /\ b \in Nat /\ b <= Len(input)
      BY <2>1, <2>4 DEF Cut
    <3> HIDE DEF a, b
    <3>2. a <= b /\ All(input, a, b, {"blank"})
      BY <3>1 DEF Blanks
    <3>3. Range(SubSeq(input, a + 1, b)) \subseteq {"blank"}
      BY <2>1, <3>1, <3>2, SliceRange
    <3> QED
      BY <3>2, <3>3 DEF Slice, a, b
  <2>7. ASSUME NEW n \in 1..Len(done), done[n].kind \in {"Ident", "Int", "Str"}
        PROVE  LET s == Slice(done[n].pos, from(n))
               IN  done[n].value = CASE done[n].kind = "Str" -> SubSeq(s, 2, Len(s) - 1)
                                     [] done[n].kind = "Int" -> Numeral(s)
                                     [] OTHER                -> s
    <3> DEFINE s == Slice(done[n].pos, from(n))
    <3>1. s = Text(input, done[n])
      <4>1. from(n) = EndOf(input, done[n].pos)
        <5>1. n # 0 /\ from(n) = Max(Ends(done[n].pos))
          OBVIOUS
        <5> QED
          BY <2>3, <5>1 DEF EndOf
      <4> QED
        BY <4>1 DEF Slice, Text
    <3> HIDE DEF s
    <3>2. /\ done[n].kind = "Ident" => done[n].value = s
          /\ done[n].kind = "Int" => done[n].value = Numeral(s)
          /\ done[n].kind = "Str" => done[n].value = SubSeq(s, 2, Len(s) - 1)
      BY <2>3, <3>1 DEF Sound
    <3>3. done[n].value = CASE done[n].kind = "Str" -> SubSeq(s, 2, Len(s) - 1)
                            [] done[n].kind = "Int" -> Numeral(s)
                            [] OTHER                -> s
      <4> PICK k : k = done[n].kind
        OBVIOUS
      <4>1. CASE k = "Str"
        BY <3>2, <4>1
      <4>2. CASE k = "Int"
        BY <3>2, <4>2
      <4>3. CASE k = "Ident"
        BY <3>2, <4>3
      <4> QED
        BY <2>7, <4>1, <4>2, <4>3
    <3> QED
      BY <3>3 DEF s
  <2> HIDE DEF from, to
  <2> QED
    BY <2>5, <2>6, <2>7, Zenon DEF LongestMatch, Tokenized, done, from, to
<1> QED
  BY <1>1, Invariance, PTL

\* An error is at the first byte of what is no token, or of a number out of range:
\* BlamesTheByte, whatever the statements are.
THEOREM BlamesRightly == Spec => []BlamesTheByte
<1>1. ASSUME LexInv, pc = "failed"
      PROVE  /\ error = i /\ ~Has(i, {"blank"})
             /\ Ends(i) # {} => NumberStart /\ Numeral(Slice(i, Max(Ends(i)))) \notin Int64
  <2>1. input \in Seq(Bytes) /\ Len(input) \in Nat /\ i \in Nat
    BY <1>1, TokenizedIs
  <2>2. error = i /\ Stuck(input, i)
    BY <1>1 DEF LexInv
  <2>3. Ends(i) = EndsOf(input, i)
    <3>1. PICK a : a = i
      OBVIOUS
    <3>2. Ends(a) = EndsOf(input, a)
      BY <2>1, <3>1, EndsAre
    <3> QED
      BY <3>1, <3>2
  <2>4. ~Has(i, {"blank"})
    BY <2>2 DEF Stuck, Has
  <2>5. ASSUME Ends(i) # {}
        PROVE  NumberStart /\ Numeral(Slice(i, Max(Ends(i)))) \notin Int64
    <3>1. NumberAt(input, i) /\ Numeral(SubSeq(input, i + 1, EndOf(input, i))) \notin Int64
      BY <2>2, <2>3, <2>5 DEF Stuck
    <3>2. Slice(i, Max(Ends(i))) = SubSeq(input, i + 1, EndOf(input, i))
      BY <2>3 DEF Slice, EndOf
    <3> QED
      BY <2>1, <3>1, <3>2, NumberStartIs
  <2> QED
    BY <2>2, <2>4, <2>5
<1>2. LexInv => BlamesTheByte
  BY <1>1 DEF BlamesTheByte
<1> QED
  BY <1>2, Invariance, PTL
=============================================================================
