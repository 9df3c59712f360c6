------------------------------- MODULE Insert -------------------------------
(***************************************************************************)
(* The way of one row: CREATE TABLE writes the schema into the metadata    *)
(* page (catalog/schema.rs), INSERT reads it back, puts its values in the  *)
(* order of the columns (plan_insert in query/mod.rs) and encodes them     *)
(* (storage/record.rs), a later SELECT decodes the record.  Each of the    *)
(* three is a process of its own and shares only the file with the others. *)
(*                                                                         *)
(* A byte has BITS bits and an INT takes INT_SIZE bytes, so that every INT *)
(* of a small instance can be tried.  A text or name is its bytes; they    *)
(* are valid UTF-8, and decode is never given others.  How a page keeps    *)
(* the record is SlottedPage's subject.                                    *)
(***************************************************************************)
EXTENDS Integers, Sequences, FiniteSets, SequencesExt

CONSTANTS
  BITS, INT_SIZE, LEN_SIZE, COUNT_SIZE, \* 8 bits; i64, u32 and u16 in bytes
  META_ROOM,    \* the bytes of page 0 the schema may take
  Schemas,      \* the schemas of CREATE TABLE: sequences of columns
  Inserts,      \* the statements: records of names (or None) and values
  None

ASSUME WidthAssumption ==
  BITS \in Nat \ {0} /\ INT_SIZE \in Nat \ {0} /\ LEN_SIZE \in Nat \ {0}
  /\ COUNT_SIZE \in Nat \ {0} /\ META_ROOM \in Nat

VARIABLES
  schema, stmt, \* what CREATE TABLE and INSERT say
  pc,           \* "create", "plan", "encode", "stored", "read" or "rejected"
  meta,         \* the schema's bytes in page 0
  ordered,      \* the INSERT's values in the order of the columns
  record,       \* the bytes of the row
  row           \* the row SELECT gets

vars == <<schema, stmt, pc, meta, ordered, record, row>>
-----------------------------------------------------------------------------
BASE == 2^BITS

Null == [type |-> "null"]
Int64(n) == [type |-> "int", v |-> n]
Text(s) == [type |-> "text", v |-> s]

\* Mutant: the last byte is not cut off to its width.
LittleEndianWide(n, size) ==
  [i \in 1..size |-> IF i = size THEN n \div BASE^(i - 1) ELSE (n \div BASE^(i - 1)) % BASE]

\* to_le_bytes of n as a two's complement number of that many bytes.
LittleEndian(n, size) == [i \in 1..size |-> (n \div BASE^(i - 1)) % BASE]

Unsigned(b) == FoldLeftDomain(LAMBDA sum, i : sum + b[i] * BASE^(i - 1), 0, b)

Signed(b) ==
  IF 2 * Unsigned(b) < BASE^Len(b) THEN Unsigned(b) ELSE Unsigned(b) - BASE^Len(b)

Drop(s, n) == SubSeq(s, n + 1, Len(s))
-----------------------------------------------------------------------------
ColumnBytes(c) ==
  <<IF c.ty = "int" THEN 0 ELSE 1, IF c.nullable THEN 1 ELSE 0>>
  \o LittleEndian(Len(c.name), COUNT_SIZE) \o c.name

Serialize(s) ==
  LittleEndian(Len(s), COUNT_SIZE) \o FlattenSeq([i \in DOMAIN s |-> ColumnBytes(s[i])])

\* One turn of deserialize's loop: from the columns read and the bytes left.
TakeColumn(acc) ==
  LET b == acc.rest
      n == Unsigned(SubSeq(b, 3, 2 + COUNT_SIZE))
      end == 2 + COUNT_SIZE + n
  IN  IF ~acc.ok \/ Len(b) < 2 + COUNT_SIZE \/ b[1] \notin {0, 1} \/ Len(b) < end
      THEN [acc EXCEPT !.ok = FALSE]
      ELSE [acc EXCEPT !.rest = Drop(b, end),
                       !.got = Append(@, [name |-> SubSeq(b, 3 + COUNT_SIZE, end),
                                          ty |-> IF b[1] = 0 THEN "int" ELSE "text",
                                          nullable |-> b[2] # 0])]

Start(bytes, n) == [ok |-> Len(bytes) >= n, rest |-> Drop(bytes, n), got |-> <<>>]

Outcome(acc) == IF acc.ok THEN acc.got ELSE None

Deserialize(b) ==
  IF Len(b) < COUNT_SIZE THEN None
  ELSE LET count == Unsigned(SubSeq(b, 1, COUNT_SIZE))
       IN  Outcome(FoldLeft(LAMBDA acc, i : TakeColumn(acc), Start(b, COUNT_SIZE),
                            [i \in 1..count |-> i]))
-----------------------------------------------------------------------------
Names(s) == {s[i].name : i \in DOMAIN s}

Repeats(seq) == Cardinality(Range(seq)) < Len(seq)

\* The value a column list gives the column of that name: the first it names so.
Given(names, values, name) ==
  LET at == {n \in DOMAIN names : names[n] = name}
  IN  IF at = {} THEN Null ELSE values[CHOOSE n \in at : \A m \in at : n <= m]

\* Mutant: the values of a column list are taken as they come.
OrderedAsGiven(s, st) ==
  IF st.names = None THEN st.values
  ELSE [i \in DOMAIN s |-> IF i \in DOMAIN st.values /\ s[i].name \in Range(st.names)
                           THEN st.values[i] ELSE Null]

Ordered(s, st) ==
  IF st.names = None THEN st.values
  ELSE [i \in DOMAIN s |-> Given(st.names, st.values, s[i].name)]

Counted(s, st) ==
  IF st.names = None THEN Len(st.values) = Len(s)
  ELSE Len(st.names) = Len(st.values) /\ Range(st.names) \subseteq Names(s)

\* Mutant: NOT NULL is checked on the values as written.
NullsAllowedAsWritten(s, st) ==
  \A i \in DOMAIN s : i \in DOMAIN st.values /\ st.values[i] = Null => s[i].nullable

NullsAllowed(s, st) ==
  \A i \in DOMAIN s : Ordered(s, st)[i] = Null => s[i].nullable

BitmapLen(s) == (Len(s) + BITS - 1) \div BITS

NullBit(i) == 2^((i - 1) % BITS)             \* of column i, in its byte

ByteOf(i) == 1 + (i - 1) \div BITS

Bitmap(vs, len) ==
  [b \in 1..len |->
     FoldLeftDomain(LAMBDA sum, i : IF ByteOf(i) = b /\ vs[i] = Null THEN sum + NullBit(i) ELSE sum,
                    0, vs)]

Field(v) ==
  CASE v.type = "null" -> <<>>
    [] v.type = "int"  -> LittleEndian(v.v, INT_SIZE)
    [] v.type = "text" -> LittleEndian(Len(v.v), LEN_SIZE) \o v.v

Encodes(s, vs) ==
  /\ Len(vs) = Len(s)
  /\ \A i \in DOMAIN s : vs[i] = Null \/ vs[i].type = s[i].ty

Encode(s, vs) ==
  Bitmap(vs, BitmapLen(s)) \o FlattenSeq([i \in DOMAIN vs |-> Field(vs[i])])

\* Mutant: a text ends where the record does.
TakeTextLenient(acc) ==
  LET b == acc.rest
      n == Unsigned(SubSeq(b, 1, LEN_SIZE))
      end == IF Len(b) < LEN_SIZE + n THEN Len(b) ELSE LEN_SIZE + n
  IN  IF Len(b) < LEN_SIZE THEN [acc EXCEPT !.ok = FALSE]
      ELSE [acc EXCEPT !.rest = Drop(b, end),
                       !.got = Append(@, Text(SubSeq(b, LEN_SIZE + 1, end)))]

TakeText(acc) ==
  LET b == acc.rest
      end == LEN_SIZE + Unsigned(SubSeq(b, 1, LEN_SIZE))
  IN  IF Len(b) < LEN_SIZE \/ Len(b) < end THEN [acc EXCEPT !.ok = FALSE]
      ELSE [acc EXCEPT !.rest = Drop(b, end),
                       !.got = Append(@, Text(SubSeq(b, LEN_SIZE + 1, end)))]

TakeInt(acc) ==
  IF Len(acc.rest) < INT_SIZE THEN [acc EXCEPT !.ok = FALSE]
  ELSE [acc EXCEPT !.rest = Drop(@, INT_SIZE),
                   !.got = Append(@, Int64(Signed(SubSeq(acc.rest, 1, INT_SIZE))))]

Decode(s, bytes) ==
  LET take(acc, i) ==
        IF ~acc.ok THEN acc
        ELSE IF (bytes[ByteOf(i)] \div NullBit(i)) % 2 = 1
             THEN [acc EXCEPT !.got = Append(@, Null)]
             ELSE IF s[i].ty = "int" THEN TakeInt(acc) ELSE TakeText(acc)
  IN  Outcome(FoldLeftDomain(take, Start(bytes, BitmapLen(s)), s))
-----------------------------------------------------------------------------
Init ==
  /\ schema \in Schemas /\ stmt \in Inserts
  /\ pc = "create" /\ meta = <<>> /\ ordered = <<>> /\ record = <<>> /\ row = None

Reject == pc' = "rejected" /\ UNCHANGED <<meta, ordered, record, row>>

\* plan_create_table and Table::create.
Create ==
  /\ pc = "create"
  /\ IF Repeats([i \in DOMAIN schema |-> schema[i].name]) \/ Len(Serialize(schema)) > META_ROOM
     THEN Reject
     ELSE meta' = Serialize(schema) /\ pc' = "plan" /\ UNCHANGED <<ordered, record, row>>
  /\ UNCHANGED <<schema, stmt>>

\* plan_insert, on the schema that the catalog reads from the file.
PlanInsert ==
  LET s == Deserialize(meta)
  IN  /\ pc = "plan"
      /\ IF Counted(s, stmt) /\ NullsAllowed(s, stmt)
         THEN ordered' = Ordered(s, stmt) /\ pc' = "encode" /\ UNCHANGED <<meta, record, row>>
         ELSE Reject
      /\ UNCHANGED <<schema, stmt>>

\* Table::insert, on a page with room.
Store ==
  LET s == Deserialize(meta)
  IN  /\ pc = "encode"
      /\ IF Encodes(s, ordered)
         THEN record' = Encode(s, ordered) /\ pc' = "stored" /\ UNCHANGED <<meta, ordered, row>>
         ELSE Reject
      /\ UNCHANGED <<schema, stmt>>

\* The row as a scan or get decodes it.
Read ==
  /\ pc = "stored"
  /\ row' = Decode(Deserialize(meta), record) /\ pc' = "read"
  /\ UNCHANGED <<schema, stmt, meta, ordered, record>>

Next == Create \/ PlanInsert \/ Store \/ Read

Spec == Init /\ [][Next]_vars
-----------------------------------------------------------------------------
Bytes == 0..(BASE - 1)

TypeOK ==
  /\ pc \in {"create", "plan", "encode", "stored", "read", "rejected"}
  /\ meta \in Seq(Bytes) /\ Len(meta) <= META_ROOM
  /\ record \in Seq(Bytes)

\* What a row read later is: for each column of the CREATE TABLE the value the
\* INSERT gave it, by position or by name (the first one, if it names the column
\* twice), bit for bit, and NULL if it gave none.
ReadsWhatWasInserted ==
  pc = "read" =>
    /\ DOMAIN row = DOMAIN schema
    /\ \A i \in DOMAIN schema :
         \/ stmt.names = None /\ row[i] = stmt.values[i]
         \/ /\ stmt.names # None
            /\ \/ schema[i].name \notin Range(stmt.names) /\ row[i] = Null
               \/ \E n \in DOMAIN stmt.names :
                    /\ stmt.names[n] = schema[i].name /\ row[i] = stmt.values[n]
                    /\ \A m \in 1..(n - 1) : stmt.names[m] # schema[i].name

\* No INSERT brings NULL into a NOT NULL column, be it by leaving it out, nor
\* a value of another type into any.
RespectsSchema ==
  pc = "read" =>
    /\ Len(row) = Len(schema)
    /\ \A i \in DOMAIN row :
         IF row[i] = Null THEN schema[i].nullable ELSE row[i].type = schema[i].ty

\* A record or schema that lost bytes at its end is reported as malformed, at
\* whatever byte it ends: it is never read as another row or schema.
DetectsTruncation ==
  pc = "stored" =>
    /\ \A n \in 0..(Len(record) - 1) : Decode(schema, SubSeq(record, 1, n)) = None
    /\ \A n \in 0..(Len(meta) - 1) : Deserialize(SubSeq(meta, 1, n)) = None

\* "Reorder values into table-column order": an INSERT that is accepted stores
\* every value it lists.
StoresEveryValue ==
  pc = "stored" => \A n \in DOMAIN stmt.values : stmt.values[n] \in Range(ordered)
=============================================================================
