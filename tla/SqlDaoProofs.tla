---------------------------- MODULE SqlDaoProofs ----------------------------
(***************************************************************************)
(* Theorems about SqlDao: its types, that no call keeps a connection but   *)
(* where its code leaves Rows open, that a select without an error         *)
(* returned all that its where asks for, and that an Insert stores the     *)
(* values it is given in the columns they are given for.                   *)
(***************************************************************************)
EXTENDS SqlDao, FiniteSetTheorems, WellFoundedInduction, TLAPS

Valid(l) == l = NoLimit \/ (l \in Seq(Nat) /\ Len(l) \in {1, 2})

\* What a call at work asked for, and how far it is.
Faithful(c) ==
  /\ Valid(c.limit)
  /\ c.name = Null => c.op # "one" /\ c.limit = NoLimit
  /\ c.name # Null => c.op \in Selects
  /\ c.name # Null => c.limit = IF c.op = "one" THEN OneRow(Given[c.name].limit) ELSE Given[c.name].limit

Progress(p) ==
  /\ at[p] = "rows" => /\ call[p].due + call[p].got = Window(call[p].limit, call[p].total)
                       /\ call[p].op \in Single \union {"bind"} => call[p].got = 0
                       /\ call[p].op # "exec"
  /\ at[p] = "waiting" => call[p].got = 0 /\ call[p].total = 0
  /\ at[p] = "exec" => call[p].total = 0 /\ call[p].op = "exec"

IInv ==
  /\ TypeOK /\ where = Given
  /\ \A p \in Callers : at[p] \in {"out", "waiting"} => conn[p] = NoConn
  /\ \A p \in Callers : Faithful(call[p]) /\ Progress(p)

-----------------------------------------------------------------------------

\* A window is a number of rows.
LEMMA WindowNat ==
  ASSUME NEW l, Valid(l), NEW n \in Nat
  PROVE  Window(l, n) \in Nat
<1>1. CASE l = NoLimit
  BY <1>1 DEF Window
<1>2. CASE l \in Seq(Nat) /\ Len(l) \in {1, 2}
  <2>1. RowCount(l) \in Nat /\ Offset(l) \in Nat
    BY <1>2 DEF RowCount, Offset
  <2>2. After(Offset(l), n) \in Nat
    BY <2>1 DEF After
  <2>3. QED
    BY <2>1, <2>2 DEF Window
<1>3. QED
  BY <1>1, <1>2 DEF Valid

LEMMA NumbersIn == ASSUME NEW l \in Seq(Nat), Len(l) > 0 PROVE l[1] \in Nat
OBVIOUS

\* A window is as many rows as its limit allows: what the builder makes of a
\* "_limit" is what the caller meant by it.
LEMMA WindowAllowed ==
  ASSUME NEW l, Valid(l), NEW n \in Nat
  PROVE  Window(l, n) = Allowed(l, n)
<1>1. CASE l = NoLimit
  BY <1>1 DEF Window, Allowed
<1>2. CASE l # NoLimit /\ l \in Seq(Nat) /\ Len(l) = 1
  <2>1. RowCount(l) = l[1] /\ Offset(l) = 0 /\ l[1] \in Nat
    <3>1. Len(l) = 1 /\ Len(l) # 2
      BY <1>2
    <3>2. l \in Seq(Nat) /\ Len(l) > 0
      BY <1>2
    <3>3. l[1] \in Nat
      BY <3>2, NumbersIn
    <3> QED BY <3>1, <3>3 DEF RowCount, Offset
  <2>2. Allowed(l, n) = Least(l[1], n)
    BY <1>2 DEF Allowed
  <2>3. Window(l, n) = IF After(0, n) < l[1] THEN After(0, n) ELSE l[1]
    BY <1>2, <2>1 DEF Window
  <2>4. QED
    BY <2>1, <2>2, <2>3 DEF After, Least
<1>3. CASE l # NoLimit /\ l \in Seq(Nat) /\ Len(l) = 2
  <2>1. RowCount(l) = l[2] /\ Offset(l) = l[1] /\ l[1] \in Nat /\ l[2] \in Nat
    <3>1. l[1] \in Nat /\ l[2] \in Nat
      <4>1. l \in [1..2 -> Nat]
        BY <1>3
      <4>2. 1 \in 1..2 /\ 2 \in 1..2
        OBVIOUS
      <4>3. QED
        BY <4>1, <4>2
    <3>2. RowCount(l) = l[2]
      BY <1>3 DEF RowCount
    <3>3. Offset(l) = l[1]
      BY <1>3 DEF Offset
    <3>4. QED
      BY <3>1, <3>2, <3>3
  <2>2. Allowed(l, n) = Least(l[1] + l[2], n) - Least(l[1], n)
    BY <1>3 DEF Allowed
  <2>3. Window(l, n) = IF After(l[1], n) < l[2] THEN After(l[1], n) ELSE l[2]
    BY <1>3, <2>1 DEF Window
  <2>4. QED
    BY <2>1, <2>2, <2>3 DEF After, Least
<1>4. QED
  BY <1>1, <1>2, <1>3 DEF Valid

\* The limit SelectOne asks for is one that buildSelect takes.
LEMMA OneRowValid ==
  ASSUME NEW l, Valid(l)
  PROVE  Valid(OneRow(l)) /\ OneRow(l) \in {NoLimit} \union Seq(Nat)
<1>1. CASE l = NoLimit
  <2>1. <<0, 1>> \in Seq(Nat) /\ Len(<<0, 1>>) = 2
    OBVIOUS
  <2>2. QED
    BY <1>1, <2>1 DEF Valid, OneRow
<1>2. CASE l # NoLimit
  BY <1>2 DEF Valid, OneRow
<1>3. QED
  BY <1>1, <1>2

\* A where that buildSelect makes a query of has a limit of one or two numbers.
LEMMA QueryValid ==
  ASSUME NEW w \in Where, "query" \in SelectOutcomes(w)
  PROVE  Valid(w.limit)
<1>1. w.odd = {} /\ ~Refused(w)
  BY DEF SelectOutcomes
<1>2. ~InvalidLimit(w.limit)
  BY <1>1 DEF Refused
<1>3. QED
  BY <1>2 DEF InvalidLimit, Valid, Where

-----------------------------------------------------------------------------
(* The shapes of a step: of the variables of a caller, one by one. *)

\* A task is a call that is faithful to what it was given: to nothing.
LEMMA TaskFaithful == Task \in Call /\ Faithful(Task) /\ Task.got = 0 /\ Task.total = 0
  BY DEF Task, Work, Call, Faithful, Valid, Ops, Selects, Statements

LEMMA NothingType ==
  ASSUME NEW e \in Errors
  PROVE  Nothing(e) \in Result
BY TaskFaithful DEF Nothing, Result, Asked, Call, Causes

LEMMA RefuseKeeps ==
  ASSUME IInv, NEW p \in Callers, NEW e \in Errors, Refuse(p, e)
  PROVE  IInv'
<1>1. TypeOK'
  BY NothingType DEF IInv, TypeOK, Refuse
<1>2. QED
  BY <1>1 DEF IInv, Refuse, Faithful, Progress, Valid

LEMMA AskKeeps ==
  ASSUME IInv, NEW p \in Callers, NEW c \in Call, Faithful(c), c.got = 0, c.total = 0, at[p] = "out",
         Ask(p, c), where' = where
  PROVE  IInv'
<1>1. TypeOK'
  BY NothingType DEF IInv, TypeOK, Ask, Places, Errors
<1>2. \A q \in Callers : q # p => at'[q] = at[q] /\ call'[q] = call[q] /\ conn'[q] = conn[q]
  BY DEF IInv, TypeOK, Ask
<1>3. at'[p] = "waiting" /\ call'[p] = c /\ conn'[p] = conn[p]
  BY DEF IInv, TypeOK, Ask
<1>4. \A q \in Callers : Faithful(call[q])' /\ Progress(q)'
  BY <1>2, <1>3 DEF IInv, Faithful, Progress, Valid
<1>5. QED
  BY <1>1, <1>2, <1>3, <1>4 DEF IInv

LEMMA ReturnKeeps ==
  ASSUME IInv, NEW p \in Callers, NEW e \in Errors, NEW n \in Nat, NEW cause \in Causes,
         NEW stored \in {Null} \union {Stored(s) : s \in Storable}, Return(p, e, n, cause, stored),
         held' \in [Callers -> SUBSET Conns], leaky' \subseteq Callers
  PROVE  IInv'
<1> DEFINE R == [of |-> Asked(call[p]), err |-> e, n |-> n, cause |-> cause, stored |-> stored]
<1>0. R \in Result
  <2>1. call[p] \in Call
    BY DEF IInv, TypeOK
  <2>2. QED
    BY <2>1 DEF Result, Asked, Call
<1>1. TypeOK'
  <2>1. result' = [result EXCEPT ![p] = R]
    BY DEF Return
  <2> HIDE DEF R
  <2>2. result' \in [Callers -> Result]
    BY <1>0, <2>1 DEF IInv, TypeOK
  <2>3. QED
    BY <2>2, TaskFaithful DEF IInv, TypeOK, Return, Places
<1>2. \A q \in Callers : q # p => at'[q] = at[q] /\ call'[q] = call[q] /\ conn'[q] = conn[q]
  BY DEF IInv, TypeOK, Return
<1>3. at'[p] = "out" /\ call'[p] = Task /\ conn'[p] = NoConn
  BY DEF IInv, TypeOK, Return
<1>4. \A q \in Callers : Faithful(call[q])' /\ Progress(q)'
  BY <1>2, <1>3, TaskFaithful DEF IInv, Faithful, Progress, Valid
<1>5. QED
  BY <1>1, <1>2, <1>3, <1>4 DEF IInv, Return

\* Its Rows are closed or left open.
LEMMA CloseTypes ==
  ASSUME TypeOK, NEW p \in Callers, Close(p) \/ LeaveOpen(p)
  PROVE  held' \in [Callers -> SUBSET Conns] /\ leaky' \subseteq Callers
BY DEF TypeOK, Close, LeaveOpen

LEMMA Unchanged == ASSUME IInv, UNCHANGED vars PROVE IInv'
  BY DEF IInv, TypeOK, vars, Faithful, Progress, Valid

-----------------------------------------------------------------------------
(* The actions. *)

LEMMA SelectKeeps ==
  ASSUME IInv, NEW p \in Callers, NEW o \in Selects, NEW n \in Names, Select(p, o, n)
  PROVE  IInv'
<1> DEFINE L == IF o = "one" THEN OneRow(where[n].limit) ELSE where[n].limit
           C == Work(o, n, L, Null, Null)
<1>1. CASE "query" \in SelectOutcomes(where[n]) /\ Ask(p, C) /\ where' = where
  <2>1. where[n] \in Where /\ where = Given /\ n # Null
    BY GivenAssumption DEF IInv, TypeOK
  <2>2. Valid(where[n].limit) /\ where[n].limit \in {NoLimit} \union Seq(Nat)
    BY <1>1, <2>1, QueryValid DEF Where
  <2>3. Valid(L) /\ L \in {NoLimit} \union Seq(Nat)
    BY <2>2, OneRowValid
  <2>4. /\ C.op = o /\ C.name = n /\ C.limit = L /\ C.got = 0 /\ C.total = 0 /\ C.due = 0
        /\ C.data = Null /\ C.stmt = Null
        /\ C = [op |-> o, name |-> n, limit |-> L, total |-> 0, due |-> 0, got |-> 0, data |-> Null, stmt |-> Null]
    BY DEF Work
  <2>5. C \in Call
    BY <2>3, <2>4 DEF Call, Ops, Statements
  <2>6. Faithful(C)
    BY <2>1, <2>3, <2>4 DEF Faithful
  <2>7. at[p] = "out"
    BY DEF Select
  <2>8. QED
    BY <1>1, <2>4, <2>5, <2>6, <2>7, AskKeeps
<1>2. CASE \E e \in SelectOutcomes(where[n]) \ {"query"} : Refuse(p, e)
  <2>1. SelectOutcomes(where[n]) \ {"query"} \subseteq Errors
    BY DEF SelectOutcomes, Errors
  <2>2. QED
    BY <1>2, <2>1, RefuseKeeps
<1>3. QED
  BY <1>1, <1>2 DEF Select, AddedToCopy

LEMMA ComplexKeeps ==
  ASSUME IInv, NEW p \in Callers, NEW o \in Ops \ {"one", "count"}, Complex(p, o)
  PROVE  IInv'
<1> DEFINE C == Work(o, Null, NoLimit, Null, Null)
<1>1. CASE Ask(p, C) /\ UNCHANGED where
  <2>1. C = [op |-> o, name |-> Null, limit |-> NoLimit, total |-> 0, due |-> 0, got |-> 0, data |-> Null, stmt |-> Null]
    BY DEF Work
  <2>2. C \in Call /\ Faithful(C) /\ C.got = 0 /\ C.total = 0
    BY <2>1 DEF Call, Faithful, Valid, Statements
  <2>3. QED
    BY <1>1, <2>2, AskKeeps DEF Complex
<1>2. CASE Refuse(p, "error")
  BY <1>2, RefuseKeeps DEF Errors
<1>3. QED
  BY <1>1, <1>2 DEF Complex

LEMMA InsertKeeps ==
  ASSUME IInv, NEW p \in Callers, NEW d \in Rows, Insert(p, d)
  PROVE  IInv'
<1>1. ASSUME NEW s \in Inserts(d), Ask(p, Work("exec", Null, NoLimit, d, s)), UNCHANGED where
      PROVE  IInv'
  <2> DEFINE C == Work("exec", Null, NoLimit, d, s)
  <2>1. C = [op |-> "exec", name |-> Null, limit |-> NoLimit, total |-> 0, due |-> 0, got |-> 0, data |-> d, stmt |-> s]
    BY DEF Work
  <2>2. s \in Statements
    BY DEF Statements
  <2>3. C \in Call /\ Faithful(C) /\ C.got = 0 /\ C.total = 0
    BY <2>1, <2>2 DEF Call, Faithful, Valid, Ops
  <2>4. QED
    BY <1>1, <2>3, AskKeeps DEF Insert
<1>2. CASE Refuse(p, "error")
  BY <1>2, RefuseKeeps DEF Errors
<1>3. QED
  BY <1>1, <1>2 DEF Insert

LEMMA ConnectKeeps ==
  ASSUME IInv, NEW p \in Callers, Connect(p)
  PROVE  IInv'
<1>1. PICK c \in Conns : held' = [held EXCEPT ![p] = @ \union {c}] /\ conn' = [conn EXCEPT ![p] = c]
  BY DEF Connect
<1>2. UNCHANGED <<where, result, leaky>> /\ at[p] = "waiting"
  BY DEF Connect
<1>3. held' \in [Callers -> SUBSET Conns] /\ conn' \in [Callers -> Conns \union {NoConn}]
  BY <1>1 DEF IInv, TypeOK
<1>4. CASE call[p].op = "exec" /\ at' = [at EXCEPT ![p] = "exec"] /\ UNCHANGED call
  <2>1. TypeOK'
    BY <1>2, <1>3, <1>4 DEF IInv, TypeOK, Places
  <2>2. \A q \in Callers : q # p => at'[q] = at[q] /\ conn'[q] = conn[q]
    BY <1>1, <1>4 DEF IInv, TypeOK
  <2>3. at'[p] = "exec"
    BY <1>4 DEF IInv, TypeOK
  <2>4. QED
    BY <1>2, <1>4, <2>1, <2>2, <2>3 DEF IInv, Faithful, Progress, Valid
<1>5. CASE /\ call[p].op # "exec" /\ at' = [at EXCEPT ![p] = "rows"]
           /\ \E n \in Totals(call[p]) :
                call' = [call EXCEPT ![p].total = n, ![p].due = Window(call[p].limit, n)]
  <2>1. PICK n \in Totals(call[p]) :
               call' = [call EXCEPT ![p].total = n, ![p].due = Window(call[p].limit, n)]
    BY <1>5
  <2>2. n \in Nat
    BY DataAssumption DEF Totals
  <2> DEFINE D == Window(call[p].limit, n)
  <2>3. D \in Nat
    BY <2>2, WindowNat DEF IInv, Faithful
  <2> HIDE DEF D
  <2>4. call' = [call EXCEPT ![p] = [[call[p] EXCEPT !.total = n] EXCEPT !.due = D]]
    BY <2>1 DEF D, IInv, TypeOK
  <2>5. call[p] \in Call
    BY DEF IInv, TypeOK
  <2> DEFINE C == [[call[p] EXCEPT !.total = n] EXCEPT !.due = D]
  <2>6. /\ C \in Call /\ C.op = call[p].op /\ C.name = call[p].name /\ C.limit = call[p].limit
        /\ C.total = n /\ C.due = D /\ C.got = call[p].got
    BY <2>2, <2>3, <2>5 DEF Call
  <2> HIDE DEF C
  <2>7. call' = [call EXCEPT ![p] = C]
    BY <2>4 DEF C
  <2>8. call' \in [Callers -> Call] /\ call'[p] = C /\ \A q \in Callers : q # p => call'[q] = call[q]
    BY <2>6, <2>7 DEF IInv, TypeOK
  <2>9. TypeOK'
    BY <1>2, <1>3, <1>5, <2>8 DEF IInv, TypeOK, Places
  <2>10. \A q \in Callers : q # p => at'[q] = at[q] /\ conn'[q] = conn[q]
    BY <1>1, <1>5 DEF IInv, TypeOK
  <2>11. at'[p] = "rows"
    BY <1>5 DEF IInv, TypeOK
  <2>12. Faithful(C) /\ C.got = 0
    BY <1>2, <2>6 DEF IInv, Faithful, Progress
  <2>13. \A q \in Callers : Faithful(call'[q])
    <3> TAKE q \in Callers
    <3>1. CASE q = p
      BY <3>1, <2>8, <2>12
    <3>2. CASE q # p
      BY <3>2, <2>8 DEF IInv
    <3>3. QED
      BY <3>1, <3>2
  <2>14. C.due + C.got = Window(C.limit, C.total)
    BY <2>3, <2>6, <2>12 DEF D
  <2>15. \A q \in Callers : Progress(q)'
    <3> TAKE q \in Callers
    <3>1. CASE q = p
      BY <3>1, <1>5, <2>6, <2>8, <2>11, <2>12, <2>14 DEF Progress
    <3>2. CASE q # p
      BY <3>2, <2>8, <2>10 DEF IInv, Progress
    <3>3. QED
      BY <3>1, <3>2
  <2>16. QED
    BY <1>2, <2>9, <2>10, <2>11, <2>13, <2>15 DEF IInv, Faithful
<1>6. QED
  BY <1>4, <1>5 DEF Connect

LEMMA ConnectFailsKeeps ==
  ASSUME IInv, NEW p \in Callers, ConnectFails(p)
  PROVE  IInv'
<1>1. Return(p, "error", 0, "failed", Null) /\ UNCHANGED <<held, leaky>>
  BY DEF ConnectFails
<1>2. held' \in [Callers -> SUBSET Conns] /\ leaky' \subseteq Callers
  BY <1>1 DEF IInv, TypeOK
<1>3. QED
  BY <1>1, <1>2, ReturnKeeps DEF Errors, Causes

\* How a statement that runs may return: with what, and what is left open.
Returns(p) ==
  /\ \E e \in Errors, n \in Nat, cause \in Causes, stored \in {Null} \union {Stored(s) : s \in Storable} :
       /\ Return(p, e, n, cause, stored)
       /\ cause # "failed" /\ e \in {"none", "empty"} =>
            /\ n + (IF cause = "nil" THEN 1 ELSE 0) = AskedFor(Asked(call[p]))
            /\ e = "none" => cause = "end"
  /\ Close(p) \/ LeaveOpen(p)

\* One value, or all there are, at the end of the rows.
LEMMA WholeAnswer ==
  ASSUME IInv, NEW p \in Callers, at[p] = "rows"
  PROVE  LET c == call[p] IN
         /\ c.op \in Single => AskedFor(Asked(c)) = IF c.due = 0 THEN 0 ELSE 1
         /\ c.op \notin Single => AskedFor(Asked(c)) = c.due + c.got
         /\ c.op = "bind" => AskedFor(Asked(c)) = c.due
         /\ c.due \in Nat /\ c.got \in Nat
<1> DEFINE c == call[p]
<1>1. c \in Call /\ Faithful(c) /\ Progress(p)
  BY DEF IInv, TypeOK
<1>2. c.due \in Nat /\ c.got \in Nat /\ c.total \in Nat
  BY <1>1 DEF Call
<1>3. c.due + c.got = Window(c.limit, c.total) /\ (c.op \in Single \union {"bind"} => c.got = 0)
  BY <1>1 DEF Progress
<1>4. Asked(c).op = c.op /\ Asked(c).name = c.name /\ Asked(c).total = c.total
  BY DEF Asked
<1> HIDE DEF c
<1>5. CASE c.name = Null
  <2>1. c.due + c.got = c.total /\ c.op # "one"
    BY <1>1, <1>3, <1>5 DEF Faithful, Window
  <2>2. AskedFor(Asked(c)) = IF c.op \in Single THEN Least(1, c.total) ELSE c.total
    BY <1>4, <1>5 DEF AskedFor
  <2> QED BY <1>2, <1>3, <2>1, <2>2 DEF Least, Single, c
<1>6. CASE c.name # Null /\ c.op = "one"
  <2>2. c.limit = OneRow(Given[c.name].limit) /\ c.got = 0
    BY <1>1, <1>3, <1>6 DEF Faithful, Single
  <2> DEFINE l == Given[c.name].limit
  <2>3. c.due = Window(OneRow(l), c.total) /\ Valid(OneRow(l))
    BY <1>1, <1>2, <1>3, <2>2 DEF Faithful
  <2>4. c.due = Allowed(OneRow(l), c.total)
    BY <1>2, <2>3, WindowAllowed
  <2>5. AskedFor(Asked(c)) = Least(1, Allowed(l, c.total))
    BY <1>4, <1>6 DEF AskedFor, Single
  <2> HIDE DEF l
  <2>6. CASE l = NoLimit
    <3>1. OneRow(l) = <<0, 1>> /\ Allowed(l, c.total) = c.total
      BY <2>6 DEF OneRow, Allowed
    <3>2. Valid(<<0, 1>>) /\ Window(<<0, 1>>, c.total) = c.due
      BY <2>3, <3>1
    <3>3. RowCount(<<0, 1>>) = 1 /\ Offset(<<0, 1>>) = 0
      BY DEF RowCount, Offset
    <3>4. c.due = 0 <=> c.total = 0
      BY <1>2, <3>2, <3>3 DEF Window, After
    <3> QED BY <1>2, <1>6, <2>5, <3>1, <3>4 DEF Least, Single, c
  <2>7. CASE l # NoLimit
    BY <1>2, <1>6, <2>4, <2>5, <2>7 DEF OneRow, Least, Single, c
  <2> QED BY <2>6, <2>7
<1>7. CASE c.name # Null /\ c.op # "one"
  <2>1. c.op \notin Single /\ c.op # "bind"
    BY <1>1, <1>7 DEF Faithful, Single, Selects
  <2>2. Window(c.limit, c.total) = Allowed(c.limit, c.total)
    BY <1>1, <1>2, WindowAllowed DEF Faithful
  <2>3. AskedFor(Asked(c)) = c.due + c.got
    BY <1>1, <1>3, <1>4, <1>7, <2>1, <2>2 DEF Faithful, AskedFor
  <2> QED BY <1>2, <2>1, <2>3 DEF c
<1> QED BY <1>5, <1>6, <1>7

LEMMA RunsReturn ==
  ASSUME IInv, NEW p \in Callers, Runs(p)
  PROVE  \/ Returns(p)
         \/ Row(p) /\ call[p].op \notin Single
<1>1. Null \in {Null} \union {Stored(s) : s \in Storable} /\ {"end", "failed", "nil"} \subseteq Causes
  BY DEF Causes
<1>2. call[p] \in Call /\ call[p].stmt \in Statements
  BY DEF IInv, TypeOK, Call
<1>3. CASE Exec(p)
  <2>1. AskedFor(Asked(call[p])) = 0
    BY <1>3 DEF Exec, IInv, Progress, Faithful, Asked, AskedFor, Selects, Single
  <2>2. ASSUME NEW stored \in {Null} \union {Stored(s) : s \in Storable}, Return(p, "none", 0, "end", stored)
        PROVE  Returns(p)
    <3>1. "none" \in Errors /\ 0 \in Nat /\ Close(p)
      BY <1>3 DEF Exec, Errors
    <3>2. QED
      BY <1>1, <2>1, <2>2, <3>1 DEF Returns
  <2>3. CASE call[p].stmt # Null /\ WellFormed(call[p].stmt)
    <3>1. Stored(call[p].stmt) \in {Null} \union {Stored(s) : s \in Storable}
      BY <1>2, <2>3 DEF Storable
    <3>2. QED
      BY <1>1, <1>3, <2>2, <3>1, <2>3 DEF Exec, Returns, Errors
  <2>4. CASE ~(call[p].stmt # Null /\ WellFormed(call[p].stmt))
    BY <1>1, <1>3, <2>2, <2>4 DEF Exec, Returns, Errors
  <2>5. QED
    BY <2>3, <2>4
<1>4. CASE Row(p) /\ call[p].op \in Single
  <2>1. /\ Return(p, "none", 1, "end", Null) \/ Return(p, "empty", 0, "nil", Null)
        /\ Close(p) /\ call[p].due > 0 /\ at[p] = "rows"
    BY <1>4 DEF Row, Reading, MoreRows
  <2>2. AskedFor(Asked(call[p])) = 1
    BY <1>2, <1>4, <2>1, WholeAnswer DEF Call
  <2>3. QED
    BY <1>1, <2>1, <2>2 DEF Returns, Errors
<1>5. CASE ScanRefuses(p) \/ RowFails(p)
  <2>1. PICK how \in {"error", "panic"} : Return(p, how, 0, "failed", Null) /\ CloseOnFailure(p, how)
    BY <1>5 DEF ScanRefuses, RowFails, MoreRows
  <2>2. Close(p) \/ LeaveOpen(p)
    BY <2>1 DEF CloseOnFailure
  <2>3. how \in Errors /\ 0 \in Nat
    BY DEF Errors
  <2>4. QED
    BY <1>1, <2>1, <2>2, <2>3 DEF Returns
<1>6. CASE BindAll(p)
  <2>1. AskedFor(Asked(call[p])) = call[p].due /\ call[p].due \in Nat
    BY <1>6, WholeAnswer DEF BindAll
  <2>2. QED
    BY <1>1, <1>6, <2>1 DEF BindAll, Returns, Errors
<1>7. CASE NoMoreRows(p)
  <2>1. at[p] = "rows" /\ call[p].due = 0 /\ AtEnd(p, "end") /\ Close(p)
    <3>1. call[p].due \in Nat
      BY <1>2 DEF Call
    <3>2. at[p] = "rows" /\ ~(call[p].due > 0) /\ AtEnd(p, "end") /\ Close(p)
      BY <1>7 DEF NoMoreRows, Reading, MoreRows
    <3>3. \A d \in Nat : ~(d > 0) => d = 0
      OBVIOUS
    <3>4. call[p].due = 0
      BY <3>1, <3>2, <3>3
    <3>5. QED
      BY <3>2, <3>4
  <2>2. CASE call[p].op \in Single
    <3>1. Return(p, "empty", 0, "end", Null) /\ AskedFor(Asked(call[p])) = 0
      BY <2>1, <2>2, WholeAnswer DEF AtEnd
    <3>2. QED
      BY <1>1, <2>1, <3>1 DEF Returns, Errors
  <2>3. CASE call[p].op \notin Single
    <3>1. AskedFor(Asked(call[p])) = call[p].due + call[p].got /\ call[p].got \in Nat
      BY <2>1, <2>3, WholeAnswer
    <3>2. Return(p, "none", call[p].got, "end", Null)
      BY <2>1, <2>3 DEF AtEnd
    <3>3. AskedFor(Asked(call[p])) = call[p].got
      BY <2>1, <3>1
    <3>4. QED
      BY <1>1, <2>1, <3>1, <3>2, <3>3 DEF Returns, Errors
  <2>4. QED
    BY <2>2, <2>3
<1>8. CASE RowsBreak(p)
  <2>1. at[p] = "rows" /\ AtEnd(p, "failed") /\ Close(p) /\ call[p].got \in Nat
    BY <1>8, <1>2 DEF RowsBreak, Reading, Call, MoreRows
  <2>2. QED
    BY <1>1, <2>1 DEF AtEnd, Returns, Errors
<1>9. CASE Misfit(p)
  <2>1. Return(p, "error", 0, "failed", Null) /\ Close(p)
    BY <1>9 DEF Misfit, MoreRows
  <2>2. "error" \in Errors \ {"none", "empty"} /\ 0 \in Nat
    BY DEF Errors
  <2>3. QED
    BY <1>1, <2>1, <2>2 DEF Returns
<1>10. QED
  BY <1>3, <1>4, <1>5, <1>6, <1>7, <1>8, <1>9 DEF Runs

LEMMA RunsKeep ==
  ASSUME IInv, NEW p \in Callers, Runs(p)
  PROVE  IInv'
<1>1. CASE Returns(p)
  BY <1>1, ReturnKeeps, CloseTypes DEF Returns, IInv
<1>2. CASE Row(p) /\ call[p].op \notin Single
  <2> DEFINE D == call[p].due - 1
             G == call[p].got + 1
             C == [[call[p] EXCEPT !.due = D] EXCEPT !.got = G]
  <2>1. call' = [call EXCEPT ![p] = C] /\ UNCHANGED <<where, at, conn, held, result, leaky>>
    <3>1. call' = [call EXCEPT ![p].due = D, ![p].got = G] /\ UNCHANGED <<where, at, conn, held, result, leaky>>
      BY <1>2 DEF Row, MoreRows
    <3> HIDE DEF D, G
    <3>2. QED
      BY <3>1 DEF IInv, TypeOK
  <2>2. call[p] \in Call /\ call[p].due > 0 /\ call[p].op # "bind" /\ at[p] = "rows"
    BY <1>2 DEF Row, Reading, IInv, TypeOK, MoreRows
  <2>3. /\ C \in Call /\ C.op = call[p].op /\ C.name = call[p].name /\ C.limit = call[p].limit
        /\ C.total = call[p].total /\ C.due = call[p].due - 1 /\ C.got = call[p].got + 1
    <3>1. D \in Nat /\ G \in Nat
      BY <2>2 DEF Call
    <3>2. /\ C \in Call /\ C.op = call[p].op /\ C.name = call[p].name /\ C.limit = call[p].limit
          /\ C.total = call[p].total /\ C.due = D /\ C.got = G
      <4> HIDE DEF D, G
      <4>1. QED
        BY <2>2, <3>1 DEF Call
    <3>3. QED
      BY <3>2
  <2> HIDE DEF C
  <2>4. call' \in [Callers -> Call] /\ call'[p] = C /\ \A q \in Callers : q # p => call'[q] = call[q]
    BY <2>1, <2>3 DEF IInv, TypeOK
  <2>5. TypeOK'
    BY <2>1, <2>4 DEF IInv, TypeOK
  <2>6. Faithful(C)
    BY <2>3 DEF IInv, Faithful
  <2>7. C.due + C.got = Window(C.limit, C.total) /\ C.op # "exec"
    BY <2>2, <2>3 DEF IInv, Progress, Call
  <2>8. \A q \in Callers : Faithful(call'[q]) /\ Progress(q)'
    <3> TAKE q \in Callers
    <3>1. CASE q = p
      BY <3>1, <1>2, <2>1, <2>2, <2>3, <2>4, <2>6, <2>7 DEF Progress
    <3>2. CASE q # p
      BY <3>2, <2>1, <2>4 DEF IInv, Progress
    <3>3. QED
      BY <3>1, <3>2
  <2>9. QED
    BY <2>1, <2>5, <2>8 DEF IInv, Faithful
<1>3. QED
  BY <1>1, <1>2, RunsReturn

LEMMA ReclaimKeeps ==
  ASSUME IInv, NEW p \in Callers, Reclaim(p)
  PROVE  IInv'
<1>1. TypeOK'
  BY DEF IInv, TypeOK, Reclaim
<1>2. QED
  BY <1>1 DEF IInv, Reclaim, Faithful, Progress, Valid

LEMMA NextKeeps ==
  ASSUME IInv, [Next]_vars
  PROVE  IInv'
BY SelectKeeps, ComplexKeeps, InsertKeeps, ConnectKeeps, ConnectFailsKeeps, RunsKeep, ReclaimKeeps, Unchanged
   DEF Next

LEMMA InitHolds == Init => IInv
<1> SUFFICES ASSUME Init PROVE IInv
  OBVIOUS
<1>1. TypeOK
  BY GivenAssumption, TaskFaithful, NothingType DEF Init, TypeOK, Places, Errors
<1>2. QED
  BY <1>1, TaskFaithful DEF Init, IInv, Progress

\* Whatever the callers do, every variable keeps its type, and the maps they
\* pass are never changed (dao.go:72-75).
THEOREM TypesHold == Spec => []TypeOK
<1>1. IInv => TypeOK
  BY DEF IInv
<1>2. QED
  BY InitHolds, NextKeeps, <1>1, PTL DEF Spec

LEMMA IInvHolds == Spec => []IInv
  BY InitHolds, NextKeeps, PTL DEF Spec

-----------------------------------------------------------------------------

\* What each step does to the connections.
LEMMA HoldsKept ==
  ASSUME IInv, HoldsOnlyItsOwn, [Next]_vars
  PROVE  HoldsOnlyItsOwn'
<1>1. ASSUME UNCHANGED <<conn, held, leaky>> PROVE HoldsOnlyItsOwn'
  BY <1>1 DEF HoldsOnlyItsOwn
<1>2. ASSUME NEW p \in Callers, Connect(p) PROVE HoldsOnlyItsOwn'
  <2>1. PICK c \in Conns : held' = [held EXCEPT ![p] = @ \union {c}] /\ conn' = [conn EXCEPT ![p] = c]
    BY <1>2 DEF Connect
  <2>2. conn[p] = NoConn /\ UNCHANGED leaky
    BY <1>2 DEF Connect, IInv
  <2>3. held'[p] = held[p] \union {c} /\ conn'[p] = c /\ \A q \in Callers : q # p => held'[q] = held[q] /\ conn'[q] = conn[q]
    BY <2>1 DEF IInv, TypeOK
  <2>4. QED
    BY <2>2, <2>3, ConnAssumption DEF HoldsOnlyItsOwn
<1>3. ASSUME NEW p \in Callers, conn' = [conn EXCEPT ![p] = NoConn], Close(p) \/ LeaveOpen(p) PROVE HoldsOnlyItsOwn'
  <2>1. conn'[p] = NoConn /\ \A q \in Callers : q # p => held'[q] = held[q] /\ conn'[q] = conn[q]
    BY <1>3 DEF Close, LeaveOpen, IInv, TypeOK
  <2>2. CASE Close(p)
    <3>1. held'[p] = held[p] \ {conn[p]} /\ UNCHANGED leaky
      BY <2>2 DEF Close, IInv, TypeOK
    <3>2. QED
      BY <2>1, <3>1 DEF HoldsOnlyItsOwn
  <2>3. CASE LeaveOpen(p)
    BY <2>1, <2>3 DEF LeaveOpen, HoldsOnlyItsOwn
  <2>4. QED
    BY <1>3, <2>2, <2>3
<1>4. ASSUME NEW p \in Callers, ConnectFails(p) PROVE HoldsOnlyItsOwn'
  <2>1. conn[p] = NoConn /\ conn' = [conn EXCEPT ![p] = NoConn] /\ UNCHANGED <<held, leaky>>
    BY <1>4 DEF ConnectFails, Return, IInv
  <2>2. conn' = conn
    BY <2>1 DEF IInv, TypeOK
  <2>3. QED
    BY <1>1, <2>1, <2>2
<1>5. ASSUME NEW p \in Callers, Runs(p) PROVE HoldsOnlyItsOwn'
  <2>1. CASE Returns(p)
    BY <1>3, <2>1 DEF Returns, Return
  <2>2. CASE Row(p) /\ call[p].op \notin Single
    BY <1>1, <2>2 DEF Row, MoreRows
  <2>3. QED
    BY <1>5, <2>1, <2>2, RunsReturn
<1>6. ASSUME NEW p \in Callers, Reclaim(p) PROVE HoldsOnlyItsOwn'
  <2>1. PICK c \in held[p] \ {conn[p]} : held' = [held EXCEPT ![p] = @ \ {c}]
    BY <1>6 DEF Reclaim
  <2>2. held'[p] = held[p] \ {c} /\ \A q \in Callers : q # p => held'[q] = held[q]
    BY <2>1 DEF IInv, TypeOK
  <2>3. p \in leaky
    BY <2>1 DEF HoldsOnlyItsOwn
  <2>4. QED
    BY <1>6, <2>2, <2>3 DEF Reclaim, HoldsOnlyItsOwn
<1>7. ASSUME NEW p \in Callers,
             \/ \E o \in Selects, n \in Names : Select(p, o, n)
             \/ \E o \in Ops \ {"one", "count"} : Complex(p, o)
             \/ \E d \in Rows : Insert(p, d)
      PROVE  HoldsOnlyItsOwn'
  BY <1>1, <1>7 DEF Select, Complex, Insert, Ask, Refuse
<1>8. QED
  BY <1>1, <1>2, <1>4, <1>5, <1>6, <1>7 DEF Next, vars

\* A call gives its connection back however it ends, but for the two places
\* where the code leaves Rows open.
THEOREM ConnectionsComeBack == Spec => []HoldsOnlyItsOwn
<1>1. Init => HoldsOnlyItsOwn
  BY DEF Init, HoldsOnlyItsOwn
<1>2. IInv /\ HoldsOnlyItsOwn /\ [Next]_vars => HoldsOnlyItsOwn'
  BY HoldsKept
<1>3. QED
  BY <1>1, <1>2, IInvHolds, PTL DEF Spec

\* A call never waits for a connection that nobody is about to give back: when
\* all are in use, some call is at work with one, or all were left open
\* (dao.go:186-191; scanner.go:114-147). With the end of each statement this is why
\* calls return.
AtWork == {p \in Callers : at[p] \in {"rows", "exec"}}

THEOREM OnlyLeaksExhaust ==
  Spec => [](Conns \subseteq Busy => AtWork # {} \/ Conns \subseteq UNION {held[p] : p \in leaky})
<1>1. IInv /\ HoldsOnlyItsOwn =>
        (Conns \subseteq Busy => AtWork # {} \/ Conns \subseteq UNION {held[p] : p \in leaky})
  <2> SUFFICES ASSUME IInv, HoldsOnlyItsOwn, Conns \subseteq Busy, AtWork = {}, NEW c \in Conns
               PROVE  \E p \in leaky : c \in held[p]
    OBVIOUS
  <2>1. PICK p \in Callers : c \in held[p]
    BY DEF Busy
  <2>2. at[p] \in {"out", "waiting"}
    BY DEF AtWork, IInv, TypeOK, Places
  <2>3. conn[p] = NoConn
    BY <2>2 DEF IInv
  <2>4. p \in leaky
    BY <2>1, <2>3 DEF HoldsOnlyItsOwn
  <2> QED BY <2>1, <2>4
<1> QED BY <1>1, ConnectionsComeBack, IInvHolds, PTL

-----------------------------------------------------------------------------

LEMMA WholeKept ==
  ASSUME IInv, WholeUnlessBroken, [Next]_vars
  PROVE  WholeUnlessBroken'
<1> DEFINE Good(r) == r.cause # "failed" /\ r.err \in {"none", "empty"} =>
                        /\ Accounted(r) = AskedFor(r.of)
                        /\ r.err = "none" => r.cause = "end"
<1>1. ASSUME NEW p \in Callers, NEW r, Good(r), result' = [result EXCEPT ![p] = r] PROVE WholeUnlessBroken'
  <2>1. result'[p] = r /\ \A q \in Callers : q # p => result'[q] = result[q]
    BY <1>1 DEF IInv, TypeOK
  <2>2. QED
    BY <1>1, <2>1 DEF WholeUnlessBroken
<1>2. ASSUME UNCHANGED result PROVE WholeUnlessBroken'
  BY <1>2 DEF WholeUnlessBroken
<1>3. Good(Nothing("none"))
  BY DEF Nothing, Asked, Task, Work, AskedFor, Accounted, Single
<1>4. ASSUME NEW e \in {"error", "panic"} PROVE Good(Nothing(e))
  BY <1>4 DEF Nothing
<1>5. ASSUME NEW p \in Callers, NEW o \in Selects, NEW n \in Names, Select(p, o, n) PROVE WholeUnlessBroken'
  <2>1. SelectOutcomes(where[n]) \ {"query"} \subseteq {"error", "panic"}
    BY DEF SelectOutcomes
  <2> HIDE DEF Good
  <2>2. QED
    BY <1>1, <1>3, <1>4, <1>5, <2>1 DEF Select, Ask, Refuse
<1>6. ASSUME NEW p \in Callers, NEW o \in Ops, Complex(p, o) PROVE WholeUnlessBroken'
  <2> HIDE DEF Good
  <2>1. QED
    BY <1>1, <1>3, <1>4, <1>6 DEF Complex, Ask, Refuse
<1>7. ASSUME NEW p \in Callers, NEW d \in Rows, Insert(p, d) PROVE WholeUnlessBroken'
  <2> HIDE DEF Good
  <2>1. QED
    BY <1>1, <1>3, <1>4, <1>7 DEF Insert, Ask, Refuse
<1>8. ASSUME NEW p \in Callers, ConnectFails(p) PROVE WholeUnlessBroken'
  <2> DEFINE r == [of |-> Asked(call[p]), err |-> "error", n |-> 0, cause |-> "failed", stored |-> Null]
  <2>1. result' = [result EXCEPT ![p] = r]
    BY <1>8 DEF ConnectFails, Return
  <2>2. Good(r)
    OBVIOUS
  <2> HIDE DEF Good, r
  <2>3. QED
    BY <1>1, <2>1, <2>2
<1>9. ASSUME NEW p \in Callers, Returns(p) PROVE WholeUnlessBroken'
  <2>1. PICK e \in Errors, n \in Nat, cause \in Causes, stored \in {Null} \union {Stored(s) : s \in Storable} :
               /\ Return(p, e, n, cause, stored)
               /\ cause # "failed" /\ e \in {"none", "empty"} =>
                    /\ n + (IF cause = "nil" THEN 1 ELSE 0) = AskedFor(Asked(call[p]))
                    /\ e = "none" => cause = "end"
    BY <1>9 DEF Returns
  <2> DEFINE r == [of |-> Asked(call[p]), err |-> e, n |-> n, cause |-> cause, stored |-> stored]
  <2>2. result' = [result EXCEPT ![p] = r]
    BY <2>1 DEF Return
  <2>3. Good(r)
    BY <2>1 DEF Accounted
  <2> HIDE DEF Good, r
  <2>4. QED
    BY <1>1, <2>2, <2>3
<1>10. ASSUME NEW p \in Callers, Runs(p) PROVE WholeUnlessBroken'
  <2>1. CASE Row(p) /\ call[p].op \notin Single
    BY <1>2, <2>1 DEF Row, MoreRows
  <2>2. QED
    BY <1>9, <1>10, <2>1, RunsReturn
<1>11. ASSUME NEW p \in Callers, Connect(p) \/ Reclaim(p) PROVE WholeUnlessBroken'
  BY <1>2, <1>11 DEF Connect, Reclaim
<1>12. QED
  BY <1>2, <1>5, <1>6, <1>7, <1>8, <1>10, <1>11 DEF Next, vars

\* A select that returns no error returned the rows its where asks for, all of
\* them, for any maps, rows and interleaving, but when the Rows broke unseen; and an
\* empty result means no row, or one that bind made nil of (scanner.go:64-75).
THEOREM SelectsAreWhole == Spec => []WholeUnlessBroken
<1>1. Init => WholeUnlessBroken
  BY DEF Init, WholeUnlessBroken, Nothing, Asked, Task, Work, AskedFor, Accounted, Single
<1>2. IInv /\ WholeUnlessBroken /\ [Next]_vars => WholeUnlessBroken'
  BY WholeKept
<1>3. QED
  BY <1>1, <1>2, IInvHolds, PTL DEF Spec

-----------------------------------------------------------------------------
(* What an Insert stores. *)

\* Natural numbers have a least one.
LEMMA LeastOf ==
  ASSUME NEW T, T \subseteq Nat, T # {}
  PROVE  \E x \in T : \A y \in T : x <= y
<1> DEFINE R == OpToRel(<, Nat)
<1>1. IsWellFoundedOn(R, Nat)
  BY NatLessThanWellFounded
<1>2. \A x, y \in Nat : (<<y, x>> \in R) <=> y < x
  BY DEF OpToRel
<1> HIDE DEF R
<1>3. PICK x \in T : \A y \in T : ~(<<y, x>> \in R)
  BY <1>1, WFMin
<1>4. \A y \in T : ~(y < x)
  BY <1>2, <1>3
<1> QED BY <1>4

\* The columns are those of one of the rows, or none.
LEMMA ColumnsAre ==
  ASSUME NEW d \in Rows, NEW cols \in ColumnsOf(d)
  PROVE  \/ HasColumns(d) = {} /\ cols = <<>>
         \/ /\ HasColumns(d) # {} /\ First(d) \in DOMAIN d
            /\ Len(cols) \in Nat /\ DOMAIN cols = 1..Len(cols)
            /\ \A j \in DOMAIN cols : cols[j] \in DOMAIN d[First(d)]
<1>1. CASE HasColumns(d) = {}
  BY <1>1 DEF ColumnsOf
<1>2. CASE HasColumns(d) # {}
  <2>1. HasColumns(d) \subseteq Nat /\ HasColumns(d) \subseteq DOMAIN d
    BY RowsAssumption DEF HasColumns
  <2>2. \E i \in HasColumns(d) : \A j \in HasColumns(d) : i <= j
    BY <1>2, <2>1, LeastOf
  <2>3. First(d) \in HasColumns(d)
    BY <2>2 DEF First
  <2> DEFINE S == DOMAIN d[First(d)]
             n == Cardinality(S)
  <2>4. n \in Nat
    BY <2>1, <2>3, RowsAssumption, FS_CardinalityType
  <2>5. cols \in [1..n -> S]
    BY <1>2 DEF ColumnsOf, Orders
  <2> HIDE DEF S, n
  <2>6. cols \in Seq(S) /\ Len(cols) = n
    BY <2>4, <2>5
  <2>7. DOMAIN cols = 1..Len(cols) /\ \A j \in DOMAIN cols : cols[j] \in S
    BY <2>5, <2>6
  <2> QED BY <1>2, <2>1, <2>3, <2>4, <2>6, <2>7 DEF S
<1> QED BY <1>1, <1>2

\* A statement that the server takes stores in each row, for each of the columns,
\* what that row has for it.
LEMMA StoresWhatIsGiven ==
  ASSUME NEW d \in Rows, NEW s \in Inserts(d), WellFormed(s), NEW i \in DOMAIN d, NEW c \in DOMAIN Stored(s)[i]
  PROVE  Stored(s)[i][c] = ValueAt(d[i], c) /\ \E j \in DOMAIN d : c \in DOMAIN d[j]
<1>1. PICK cols \in ColumnsOf(d) :
           s = [columns |-> cols, values |-> [k \in DOMAIN d |-> ValuesOf(d, k, cols)]]
  BY DEF Inserts
<1> DEFINE row == ValuesOf(d, i, cols)
<1>2. s.columns = cols /\ DOMAIN s.values = DOMAIN d /\ s.values[i] = row
  BY <1>1
<1> HIDE DEF row
<1>3. Stored(s)[i] = [b \in {cols[j] : j \in DOMAIN cols} |-> row[CHOOSE j \in DOMAIN cols : cols[j] = b]]
  BY <1>2 DEF Stored, StoredRow
<1>4. c \in {cols[j] : j \in DOMAIN cols}
  BY <1>3
<1> DEFINE k == CHOOSE j \in DOMAIN cols : cols[j] = c
<1>5. k \in DOMAIN cols /\ cols[k] = c
  BY <1>4
<1>6. Stored(s)[i][c] = row[k]
  BY <1>3, <1>4
<1> HIDE DEF k
<1>7. /\ HasColumns(d) # {} /\ First(d) \in DOMAIN d
      /\ Len(cols) \in Nat /\ DOMAIN cols = 1..Len(cols)
      /\ \A j \in DOMAIN cols : cols[j] \in DOMAIN d[First(d)]
  <2>1. DOMAIN <<>> = {}
    OBVIOUS
  <2> QED BY <1>5, <2>1, ColumnsAre
<1>8. Len(row) = Len(cols)
  BY <1>2 DEF WellFormed
<1>9. row = [j \in 1..Len(cols) |-> ValueAt(d[i], cols[j])]
  <2>1. CASE i < First(d)
    <3>1. row = <<>>
      BY <1>7, <2>1 DEF row, ValuesOf
    <3>2. Len(cols) = 0
      BY <1>8, <3>1
    <3> QED BY <1>5, <1>7, <3>2
  <2>2. CASE ~(i < First(d))
    BY <1>7, <2>2 DEF row, ValuesOf
  <2> QED BY <2>1, <2>2
<1>10. row[k] = ValueAt(d[i], c)
  BY <1>5, <1>7, <1>9
<1> QED BY <1>5, <1>6, <1>7, <1>10

\* The statement of a call is one for its data, and what a result says was stored
\* is what such a statement stores.
Built(c) == c.stmt # Null => c.data \in Rows /\ c.stmt \in Inserts(c.data)
Kept(r) == r.stored # Null => /\ r.of.data \in Rows
                              /\ \E s \in Inserts(r.of.data) : WellFormed(s) /\ r.stored = Stored(s)
StoredInv == \A p \in Callers : Built(call[p]) /\ Kept(result[p])

LEMMA StoredKept ==
  ASSUME IInv, StoredInv, [Next]_vars
  PROVE  StoredInv'
<1>1. \A p \in Callers : Built(call[p]) /\ Kept(result[p])
  BY DEF StoredInv
<1>2. call \in [Callers -> Call] /\ result \in [Callers -> Result]
  BY DEF IInv, TypeOK
<1>3. ASSUME NEW p \in Callers, NEW c, NEW r, Built(c), Kept(r),
             call' = call \/ call' = [call EXCEPT ![p] = c],
             result' = result \/ result' = [result EXCEPT ![p] = r]
      PROVE  StoredInv'
  <2>1. ASSUME NEW q \in Callers PROVE Built(call'[q]) /\ Kept(result'[q])
    <3>1. call'[q] = call[q] \/ call'[q] = c
      BY <1>2, <1>3
    <3>2. result'[q] = result[q] \/ result'[q] = r
      BY <1>2, <1>3
    <3> QED BY <1>1, <1>3, <3>1, <3>2
  <2> QED BY <2>1 DEF StoredInv
<1>4. ASSUME NEW e PROVE Kept(Nothing(e))
  BY DEF Kept, Nothing
<1>5. ASSUME NEW o, NEW n, NEW l PROVE Built(Work(o, n, l, Null, Null))
  BY DEF Built, Work
<1>6. Built(Task)
  BY <1>5 DEF Task
<1>7. ASSUME NEW p \in Callers, NEW c, Built(c), Ask(p, c) \/ (\E e : Refuse(p, e)) PROVE StoredInv'
  BY <1>3, <1>4, <1>7 DEF Ask, Refuse
<1>8. ASSUME NEW p \in Callers, NEW e, NEW n, NEW cause, NEW stored, Return(p, e, n, cause, stored),
             stored # Null => stored = Stored(call[p].stmt) /\ WellFormed(call[p].stmt) /\ call[p].stmt # Null
      PROVE  StoredInv'
  <2> DEFINE r == [of |-> Asked(call[p]), err |-> e, n |-> n, cause |-> cause, stored |-> stored]
  <2>1. r.stored = stored /\ r.of.data = call[p].data
    BY DEF Asked
  <2>2. call' = [call EXCEPT ![p] = Task] /\ result' = [result EXCEPT ![p] = r]
    BY <1>8 DEF Return
  <2> HIDE DEF r
  <2>3. Kept(r)
    BY <1>1, <1>8, <2>1 DEF Kept, Built
  <2> QED BY <1>3, <1>6, <2>2, <2>3
<1>9. ASSUME NEW p \in Callers, NEW o \in Selects, NEW n \in Names, Select(p, o, n) PROVE StoredInv'
  BY <1>5, <1>7, <1>9 DEF Select
<1>10. ASSUME NEW p \in Callers, NEW o, Complex(p, o) PROVE StoredInv'
  BY <1>5, <1>7, <1>10 DEF Complex
<1>11. ASSUME NEW p \in Callers, NEW d \in Rows, Insert(p, d) PROVE StoredInv'
  <2>1. ASSUME NEW s \in Inserts(d) PROVE Built(Work("exec", Null, NoLimit, d, s))
    BY DEF Built, Work
  <2> QED BY <1>6, <1>7, <1>11, <2>1 DEF Insert
<1>12. ASSUME NEW p \in Callers, Connect(p) PROVE StoredInv'
  <2>1. CASE UNCHANGED <<call, result>>
    BY <1>3, <1>4, <1>6, <2>1
  <2>2. CASE \E n \in Totals(call[p]) : call' = [call EXCEPT ![p].total = n, ![p].due = Window(call[p].limit, n)]
    <3>1. PICK n : call' = [call EXCEPT ![p].total = n, ![p].due = Window(call[p].limit, n)]
      BY <2>2
    <3> DEFINE c == [call[p] EXCEPT !.total = n, !.due = Window(call[p].limit, n)]
    <3>2. call' = [call EXCEPT ![p] = c]
      BY <3>1
    <3>3. c.stmt = call[p].stmt /\ c.data = call[p].data
      BY <1>2 DEF Call
    <3> HIDE DEF c
    <3>4. Built(c) /\ result' = result
      BY <1>1, <1>12, <3>3 DEF Built, Connect
    <3> QED BY <1>3, <1>4, <3>2, <3>4
  <2> QED BY <1>12, <2>1, <2>2 DEF Connect
<1>13. ASSUME NEW p \in Callers, Row(p), call[p].op \notin Single PROVE StoredInv'
  <2> DEFINE c == [call[p] EXCEPT !.due = @ - 1, !.got = @ + 1]
  <2>1. call' = [call EXCEPT ![p] = c] /\ result' = result
    BY <1>13 DEF Row
  <2>2. c.stmt = call[p].stmt /\ c.data = call[p].data
    BY <1>2 DEF Call
  <2> HIDE DEF c
  <2>3. Built(c)
    BY <1>1, <2>2 DEF Built
  <2> QED BY <1>3, <1>4, <2>1, <2>3
<1>14. ASSUME NEW p \in Callers,
              \/ ConnectFails(p) \/ Exec(p) \/ ScanRefuses(p) \/ (Row(p) /\ call[p].op \in Single) \/ RowFails(p)
              \/ BindAll(p) \/ NoMoreRows(p) \/ RowsBreak(p) \/ Misfit(p)
       PROVE  StoredInv'
  <2>1. \E e, n, cause, stored :
          /\ Return(p, e, n, cause, stored)
          /\ stored # Null => stored = Stored(call[p].stmt) /\ WellFormed(call[p].stmt) /\ call[p].stmt # Null
    <3>1. CASE Exec(p)
      BY <3>1 DEF Exec
    <3>2. CASE ~Exec(p)
      BY <1>14, <3>2 DEF ConnectFails, ScanRefuses, Row, RowFails, BindAll, NoMoreRows, RowsBreak, Misfit, AtEnd
    <3> QED BY <3>1, <3>2
  <2> QED BY <1>8, <2>1
<1>15. ASSUME UNCHANGED <<call, result>> PROVE StoredInv'
  BY <1>15 DEF StoredInv
<1> QED
  BY <1>9, <1>10, <1>11, <1>12, <1>13, <1>14, <1>15 DEF Next, Runs, Reclaim, vars

\* The rows stored for an Insert are those given, column by column, for any data
\* and any order the maps are read in; only columns can be missing.
THEOREM InsertsAreKept == Spec => []StoredAsGiven
<1>1. Init => StoredInv
  BY DEF Init, StoredInv, Built, Kept, Task, Work, Nothing
<1>2. StoredInv => StoredAsGiven
  <2> SUFFICES ASSUME StoredInv, NEW p \in Callers, result[p].stored # Null,
                      NEW i \in DOMAIN result[p].of.data, NEW c \in DOMAIN result[p].stored[i]
               PROVE  /\ result[p].stored[i][c] = ValueAt(result[p].of.data[i], c)
                      /\ \E j \in DOMAIN result[p].of.data : c \in DOMAIN result[p].of.data[j]
    BY DEF StoredAsGiven
  <2> DEFINE d == result[p].of.data
  <2>1. d \in Rows /\ \E s \in Inserts(d) : WellFormed(s) /\ result[p].stored = Stored(s)
    BY DEF StoredInv, Kept
  <2> HIDE DEF d
  <2>2. i \in DOMAIN d
    BY DEF d
  <2>3. result[p].stored[i][c] = ValueAt(d[i], c) /\ \E j \in DOMAIN d : c \in DOMAIN d[j]
    BY <2>1, <2>2, StoresWhatIsGiven
  <2> QED BY <2>3 DEF d
<1> QED BY <1>1, <1>2, StoredKept, IInvHolds, PTL DEF Spec

=============================================================================
