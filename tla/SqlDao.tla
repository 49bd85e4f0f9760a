------------------------------- MODULE SqlDao -------------------------------
(***************************************************************************)
(* FastDaoImpl, fastScanner and the functions that run built statements    *)
(* (src/onesql/dao.go, scanner.go, fastsql.go) over the pool of            *)
(* connections of database/sql, which is external: a query takes one of    *)
(* the connections for as long as its Rows are open, and waits while none  *)
(* is free; Rows are closed by Close, by a Next that has no row to give,   *)
(* and by the end of the context of the query.                             *)
(*                                                                         *)
(* Calls run in goroutines of their own and share the maps their callers   *)
(* pass as where. One step is one call of database/sql or of bind.         *)
(***************************************************************************)
EXTENDS SqlBuilder

CONSTANTS
  Callers,   \* goroutines that use the dao
  Conns,     \* connections the pool may open (SetMaxOpenConns)
  NoConn,
  Names,     \* the maps callers pass as where
  Given,     \* what each of them says
  Rows,      \* the data callers insert: sequences of rows
  Bounded,   \* callers whose contexts end
  MaxFound   \* bound on the rows a statement matches

ASSUME ConnAssumption == NoConn \notin Conns
ASSUME GivenAssumption == Given \in [Names -> Where] /\ Null \notin Names
\* Rows are slices of maps, as Go has them: of some length, with some keys.
ASSUME RowsAssumption ==
  \A d \in Rows : /\ Len(d) \in Nat /\ DOMAIN d = 1..Len(d)
                  /\ \A i \in DOMAIN d : IsFiniteSet(DOMAIN d[i])
ASSUME DataAssumption == MaxFound \in Nat /\ Bounded \subseteq Callers

VARIABLES
  where,   \* the maps, as they are now
  at,      \* where each caller is
  call,    \* what each call works on
  conn,    \* the connection it works with
  held,    \* the connections with open Rows, or a result, of each caller
  result,  \* what the last call of each caller returned
  \* history, which no action reads
  leaky    \* callers that have left Rows open

vars == <<where, at, call, conn, held, result, leaky>>

\* SelectOne; SelectMulti and ComplexQuery; CountOf; of the caller's own Rows,
\* ScanMapClose, ScanMapDecodeClose and ScanClose into a slice, and ScanClose into
\* anything else; ComplexSelect of the constructor; what goes through ExecContext.
Selects == {"one", "multi", "count"}
Theirs == {"scanClose", "closeOne"}
Ops == Selects \union Theirs \union {"bind", "exec"}
Single == {"one", "closeOne"}
Places == {"out", "waiting", "rows", "exec"}
Errors == {"none", "error", "empty", "panic"}
\* what ended a call: its rows did, something failed, or bind gave nil for a row
Causes == {"end", "failed", "nil"}
Statements == {Null} \union UNION {Inserts(d) : d \in Rows}
Call == [op: Ops, name: Names \union {Null}, limit: {NoLimit} \union Seq(Nat), total: Nat, due: Nat, got: Nat,
         data: Rows \union {Null}, stmt: Statements]
Storable == {s \in Statements : s # Null /\ WellFormed(s)}
Result == [of: [op: Ops, name: Names \union {Null}, total: Nat, data: Rows \union {Null}],
           err: Errors, n: Nat, cause: Causes, stored: {Null} \union {Stored(s) : s \in Storable}]

\* total is how many rows the answer would have without a limit, due how many
\* are still to come, got how many were read.
Work(o, n, l, d, s) ==
  [op |-> o, name |-> n, limit |-> l, total |-> 0, due |-> 0, got |-> 0, data |-> d, stmt |-> s]
Task == Work("exec", Null, NoLimit, Null, Null)

\* What of it the properties of its result are about.
Asked(c) == [op |-> c.op, name |-> c.name, total |-> c.total, data |-> c.data]
Nothing(e) == [of |-> Asked(Task), err |-> e, n |-> 0, cause |-> "end", stored |-> Null]

Init ==
  /\ where = Given
  /\ at = [p \in Callers |-> "out"]
  /\ call = [p \in Callers |-> Task]
  /\ conn = [p \in Callers |-> NoConn]
  /\ held = [p \in Callers |-> {}]
  /\ result = [p \in Callers |-> Nothing("none")]
  /\ leaky = {}

-----------------------------------------------------------------------------
(* Helpers. A definition marked faulty is what the one below it must not be:
   the properties are tested against it. *)

Busy == UNION {held[p] : p \in Callers}

\* An early return: nothing was asked of the database.
Refuse(p, e) ==
  /\ result' = [result EXCEPT ![p] = Nothing(e)]
  /\ UNCHANGED <<where, at, call, conn, held, leaky>>

Ask(p, c) ==
  /\ at' = [at EXCEPT ![p] = "waiting"]
  /\ call' = [call EXCEPT ![p] = c]
  /\ result' = [result EXCEPT ![p] = Nothing("none")]
  /\ UNCHANGED <<conn, held, leaky>>

Return(p, e, n, cause, stored) ==
  /\ at' = [at EXCEPT ![p] = "out"]
  /\ conn' = [conn EXCEPT ![p] = NoConn]
  /\ call' = [call EXCEPT ![p] = Task]
  /\ result' = [result EXCEPT ![p] = [of |-> Asked(call[p]), err |-> e, n |-> n, cause |-> cause, stored |-> stored]]
  /\ UNCHANGED where

\* Its Rows are closed, by the deferred Close or by the function itself, or
\* left open.
NeverCloses(p) == UNCHANGED <<held, leaky>>                            \* faulty
Close(p) ==
  /\ held' = [held EXCEPT ![p] = @ \ {conn[p]}]
  /\ UNCHANGED leaky

LeaveOpen(p) ==
  /\ UNCHANGED held
  /\ leaky' = leaky \union {p}

\* CountOf has no Close, neither deferred nor on the way out; ScanClose and its
\* like close after Scan, not in a defer.
NeverDefers(p, how) == UNCHANGED <<held, leaky>>                      \* faulty
CloseOnFailure(p, how) ==
  IF call[p].op = "count" \/ (call[p].op \in Theirs /\ how = "panic") THEN LeaveOpen(p) ELSE Close(p)

-----------------------------------------------------------------------------
(* A call begins: the statement is built, by the builder or by the caller. *)

\* SelectOne adds a limit to a copy of the map.
OneRow(l) == IF l = NoLimit THEN <<0, 1>> ELSE l
AddedInPlace(n) == [where EXCEPT ![n].limit = OneRow(@)]              \* faulty
AddedToCopy(n) == where

Select(p, o, n) ==
  /\ at[p] = "out"
  /\ \/ /\ "query" \in SelectOutcomes(where[n])
        /\ Ask(p, Work(o, n, IF o = "one" THEN OneRow(where[n].limit) ELSE where[n].limit, Null, Null))
        /\ where' = IF o = "one" THEN AddedToCopy(n) ELSE where
     \/ \E e \in SelectOutcomes(where[n]) \ {"query"} : Refuse(p, e)

\* A statement of the caller's own, read or run; or what Upsert, Update and
\* Delete run.
Complex(p, o) ==
  /\ at[p] = "out"
  /\ \/ Ask(p, Work(o, Null, NoLimit, Null, Null)) /\ UNCHANGED where
     \/ Refuse(p, "error")

Insert(p, d) ==
  /\ at[p] = "out"
  /\ \/ /\ InsertOutcome(d) = "statement"
        /\ \E s \in Inserts(d) : Ask(p, Work("exec", Null, NoLimit, d, s))
        /\ UNCHANGED where
     \/ InsertOutcome(d) = "error" /\ Refuse(p, "error")

-----------------------------------------------------------------------------
(* QueryContext and ExecContext. *)

\* how many rows there may be: a count has one, unless it is grouped
Totals(c) == IF c.op = "count" /\ ~where[c.name].grouped THEN {1} ELSE 0..MaxFound

Connect(p) ==
  /\ at[p] = "waiting"
  /\ \E c \in Conns \ Busy :
       /\ held' = [held EXCEPT ![p] = @ \union {c}]
       /\ conn' = [conn EXCEPT ![p] = c]
  /\ \/ /\ call[p].op = "exec"
        /\ at' = [at EXCEPT ![p] = "exec"] /\ UNCHANGED call
     \/ /\ call[p].op # "exec"
        /\ at' = [at EXCEPT ![p] = "rows"]
        /\ \E n \in Totals(call[p]) :
             call' = [call EXCEPT ![p].total = n, ![p].due = Window(call[p].limit, n)]
  /\ UNCHANGED <<where, result, leaky>>

\* The context ends in the queue for a connection, or the server refuses.
ConnectFails(p) ==
  /\ at[p] = "waiting"
  /\ Return(p, "error", 0, "failed", Null)
  /\ UNCHANGED <<held, leaky>>

\* database/sql gives the connection back before ExecContext returns.
Exec(p) ==
  /\ at[p] = "exec"
  /\ LET s == call[p].stmt IN
     \/ s = Null /\ Return(p, "none", 0, "end", Null)
     \/ s # Null /\ WellFormed(s) /\ Return(p, "none", 0, "end", Stored(s))
     \/ Return(p, "error", 0, "failed", Null)
  /\ Close(p)

-----------------------------------------------------------------------------
(* Scan, and the loop of CountOf. *)

Reading(p) == at[p] = "rows" /\ call[p].op # "bind"

\* what Next says, which the loops ask before each row
Unasked(p) == TRUE                                                    \* faulty
MoreRows(p) == call[p].due > 0

\* Scan looks at target and bind before the first row: it refuses them, or panics
\* in IsNil at a target that is no pointer, as only ScanClose may be given.
ScanRefuses(p) ==
  /\ Reading(p) /\ call[p].op # "count" /\ call[p].got = 0
  /\ \E how \in {"error"} \union (IF call[p].op \in Theirs THEN {"panic"} ELSE {}) :
       Return(p, how, 0, "failed", Null) /\ CloseOnFailure(p, how)

\* Next gives a row and bind takes it. A target that is no slice needs no other;
\* if bind gives nil for it, and no error, Scan calls the result empty.
Row(p) ==
  /\ Reading(p) /\ MoreRows(p)
  /\ \/ /\ call[p].op \in Single
        /\ Return(p, "none", 1, "end", Null) \/ Return(p, "empty", 0, "nil", Null)
        /\ Close(p)
     \/ /\ call[p].op \notin Single
        /\ call' = [call EXCEPT ![p].due = @ - 1, ![p].got = @ + 1]
        /\ UNCHANGED <<where, at, conn, held, result, leaky>>

\* bind, or Scan in CountOf, returns an error or panics; of what was read
\* nothing is returned.
RowFails(p) ==
  /\ at[p] = "rows" /\ (MoreRows(p) \/ call[p].op = "bind")
  /\ \E how \in {"error", "panic"} :
       Return(p, how, 0, "failed", Null) /\ CloseOnFailure(p, how)

\* ComplexSelect hands all the rows to bind.
BindAll(p) ==
  /\ at[p] = "rows" /\ call[p].op = "bind"
  /\ Return(p, "none", call[p].due, "end", Null)
  /\ Close(p)

\* Next says that there is no row left, and has closed the Rows: as it does
\* when the connection breaks or the context ends, which nobody asks Rows.Err.
AtEnd(p, cause) ==
  \/ call[p].op \in Single /\ Return(p, "empty", 0, cause, Null)
  \/ call[p].op \notin Single /\ Return(p, "none", call[p].got, cause, Null)

NoMoreRows(p) == Reading(p) /\ ~MoreRows(p) /\ AtEnd(p, "end") /\ Close(p)
RowsBreak(p) == Reading(p) /\ MoreRows(p) /\ AtEnd(p, "failed") /\ Close(p)

\* The rows read do not fit the target of Scan.
Misfit(p) ==
  /\ Reading(p) /\ ~MoreRows(p) /\ call[p].op \in {"multi", "scanClose"}
  /\ Return(p, "error", 0, "failed", Null)
  /\ Close(p)

\* A context ends, and with it the Rows left open under it.
Reclaim(p) ==
  /\ p \in Bounded
  /\ \E c \in held[p] \ {conn[p]} : held' = [held EXCEPT ![p] = @ \ {c}]
  /\ UNCHANGED <<where, at, call, conn, result, leaky>>

-----------------------------------------------------------------------------

Runs(p) ==
  \/ Exec(p) \/ ScanRefuses(p) \/ Row(p) \/ RowFails(p) \/ BindAll(p)
  \/ NoMoreRows(p) \/ RowsBreak(p) \/ Misfit(p)

Next ==
  \E p \in Callers :
    \/ \E o \in Selects, n \in Names : Select(p, o, n)
    \/ \E o \in Ops \ {"one", "count"} : Complex(p, o)
    \/ \E d \in Rows : Insert(p, d)
    \/ Connect(p) \/ ConnectFails(p) \/ Runs(p) \/ Reclaim(p)

Spec == Init /\ [][Next]_vars

\* A statement that runs ends, and so does a context with an end. A connection
\* given back goes to a waiting call picked at random, so that none is passed
\* over for ever.
Fairness == \A p \in Callers : WF_vars(Runs(p)) /\ SF_vars(Connect(p)) /\ WF_vars(Reclaim(p))
FairSpec == Spec /\ Fairness

-----------------------------------------------------------------------------
(* Properties. *)

TypeOK ==
  /\ where \in [Names -> Where]
  /\ at \in [Callers -> Places]
  /\ conn \in [Callers -> Conns \union {NoConn}]
  /\ held \in [Callers -> SUBSET Conns]
  /\ leaky \subseteq Callers
  /\ call \in [Callers -> Call]
  /\ result \in [Callers -> Result]

\* A call that has returned, with or without an error, or by a panic, holds no
\* connection, and one that runs holds the one it works with: only a CountOf
\* whose Scan fails and a panic under ScanClose leave Rows open (dao.go:85, 104,
\* 186-191, 220; fastsql.go:64; scanner.go:114-147).
HoldsOnlyItsOwn == \A p \in Callers \ leaky : held[p] = {conn[p]} \ {NoConn}

\* What a select returns without an error is all that the where its caller gave
\* asks for, whatever other calls do with the same map. A SelectOne, or a ScanClose
\* into one value, that reports an empty result had no row to read, or its bind gave
\* nil for the row there was, which its caller cannot tell from none. Excepted are
\* the Rows that break on the way, which nobody checks (dao.go:72-75, 105, 186;
\* scanner.go:49, 64-75, 137-147).
Least(m, n) == IF m < n THEN m ELSE n
Allowed(l, n) ==                    \* "_limit": []uint{offset, row_count}
  IF l = NoLimit THEN n
  ELSE IF Len(l) = 1 THEN Least(l[1], n)
  ELSE Least(l[1] + l[2], n) - Least(l[1], n)
AskedFor(t) ==
  LET n == IF t.name = Null THEN t.total ELSE Allowed(Given[t.name].limit, t.total)
  IN IF t.op \in Single THEN Least(1, n) ELSE n

\* rows that the result r accounts for
Accounted(r) == r.n + (IF r.cause = "nil" THEN 1 ELSE 0)

WholeUnlessBroken ==
  \A p \in Callers :
    LET r == result[p] IN
    r.cause # "failed" /\ r.err \in {"none", "empty"} =>
      /\ Accounted(r) = AskedFor(r.of)
      /\ r.err = "none" => r.cause = "end"

\* The rows stored for an Insert are those given, column by column, whichever
\* order the maps are read in, with Null for what a row lacks; but a column
\* that the first row lacks is dropped from the others (builder.go:143-160).
StoredAsGiven ==
  \A p \in Callers :
    LET d == result[p].of.data
        s == result[p].stored
    IN s # Null => \A i \in DOMAIN d : \A c \in DOMAIN s[i] :
                     s[i][c] = ValueAt(d[i], c) /\ (\E j \in DOMAIN d : c \in DOMAIN d[j])

\* A call that waits for a connection gets one, or fails, and returns; unless
\* every connection was left open under a context without an end.
Drained == Conns \subseteq UNION {held[p] \ {conn[p]} : p \in leaky \ Bounded}
CallsReturn == \A p \in Callers : at[p] # "out" ~> at[p] = "out" \/ Drained

=============================================================================
