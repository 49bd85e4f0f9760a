----------------------------- MODULE SqlBuilder -----------------------------
(***************************************************************************)
(* fastBuilder (src/onesql/builder.go): what the statements it builds ask  *)
(* for. The text of a statement is squirrel's; what matters here is which  *)
(* arguments are refused, which window of the rows a query asks for, and   *)
(* which value goes with which column. A Go map is iterated in any order.  *)
(***************************************************************************)
EXTENDS Integers, Sequences, FiniteSets

CONSTANTS
  NoLimit,  \* no "_limit" in a where
  Null      \* the value of a column a row does not have

(***************************************************************************)
(* A where, as its caller gives it: its "_limit", the special keys whose   *)
(* value is not of the type the code takes it for, whether it groups, and  *)
(* whether all its conditions are ones that formatWhere knows.             *)
(***************************************************************************)
Special == {"_limit", "_orderby", "_having", "_groupby"}
Where == [limit: {NoLimit} \union Seq(Nat), odd: SUBSET Special, grouped: BOOLEAN, known: BOOLEAN]

InvalidLimit(l) == l # NoLimit /\ Len(l) \notin {1, 2}

\* How buildSelect may end: the type assertion of an odd value panics, unless
\* the iteration met an invalid limit first; formatWhere comes after it.
Refused(w) == InvalidLimit(w.limit) /\ "_limit" \notin w.odd
SelectOutcomes(w) ==
  CASE w.odd # {} -> {"panic"} \union (IF Refused(w) THEN {"error"} ELSE {})
    [] w.odd = {} /\ (Refused(w) \/ ~w.known) -> {"error"}
    [] OTHER -> {"query"}

\* How many of n rows "_limit" leaves: offset first, then row count.
Offset(l) == IF Len(l) = 2 THEN l[1] ELSE 0
RowCount(l) == l[Len(l)]
After(o, n) == IF n > o THEN n - o ELSE 0
Window(l, n) ==
  IF l = NoLimit THEN n
  ELSE IF After(Offset(l), n) < RowCount(l) THEN After(Offset(l), n) ELSE RowCount(l)

-----------------------------------------------------------------------------
(* buildInsert: the columns are those of the first row that has any, and   *)
(* every later row is read by them.                                        *)

Orders(S) == {s \in [1..Cardinality(S) -> S] : \A i, j \in DOMAIN s : i # j => s[i] # s[j]}

HasColumns(data) == {i \in DOMAIN data : DOMAIN data[i] # {}}
First(data) == CHOOSE i \in HasColumns(data) : \A j \in HasColumns(data) : i <= j

ColumnsOf(data) ==
  IF HasColumns(data) = {} THEN {<<>>} ELSE Orders(DOMAIN data[First(data)])

ValueAt(row, c) == IF c \in DOMAIN row THEN row[c] ELSE Null

\* the tuple of values of row i, the columns being cols
InItsOwnOrder(data, i, cols) ==                                       \* faulty
  LET s == CHOOSE s \in Orders(DOMAIN data[i]) : TRUE IN
  [j \in 1..Len(cols) |-> IF j \in DOMAIN s THEN data[i][s[j]] ELSE Null]
ValuesOf(data, i, cols) ==
  IF HasColumns(data) = {} \/ i < First(data) THEN <<>>
  ELSE [j \in 1..Len(cols) |-> ValueAt(data[i], cols[j])]

Inserts(data) ==
  {[columns |-> cols, values |-> [i \in DOMAIN data |-> ValuesOf(data, i, cols)]] : cols \in ColumnsOf(data)}

\* Without a row squirrel refuses; BuildInsertIgnore and BuildReplaceIgnore
\* drop that error and return an empty statement, which the server refuses.
InsertOutcome(data) == IF data = <<>> THEN "error" ELSE "statement"

\* The server takes a statement all of whose rows have a value per column, and
\* reads each row by position.
WellFormed(s) == \A i \in DOMAIN s.values : Len(s.values[i]) = Len(s.columns)
StoredRow(s, i) ==
  [c \in {s.columns[j] : j \in DOMAIN s.columns} |->
     s.values[i][CHOOSE j \in DOMAIN s.columns : s.columns[j] = c]]
Stored(s) == [i \in DOMAIN s.values |-> StoredRow(s, i)]

=============================================================================
