---------------------------- MODULE PoolContract ----------------------------
(***************************************************************************)
(* What a onepool.Pool promises (src/onepool/pool.go), whatever keeps its  *)
(* books: each connection New returned is at any time idle in the pool, in *)
(* the hands of one caller of Get, or on its way out, at most limit of the *)
(* first two kinds exist, and a closed pool has no idle connections and    *)
(* gets none. List and Slice implement this specification.                 *)
(***************************************************************************)
EXTENDS Naturals, FiniteSets

CONSTANTS
  Clients, Conns,
  NoClient     \* "nobody", not one of Clients

VARIABLES
  limit,    \* how many connections Config.Active allows, for good: 0 is no limit
  phase,    \* of a connection: "none" (not open), "spare", "lent", "doomed"
  holder,   \* the client a connection is lent to
  closed

vars == <<limit, phase, holder, closed>>

Phases == {"none", "spare", "lent", "doomed"}
In(ph) == {c \in Conns : phase[c] = ph}
Usable == In("spare") \union In("lent")

Init ==
  /\ limit \in Nat
  /\ phase = [c \in Conns |-> "none"]
  /\ holder = [c \in Conns |-> NoClient]
  /\ closed = FALSE

EmptyHanded(p) == \A c \in Conns : holder[c] # p
HasRoom == limit = 0 \/ Cardinality(Usable) < limit

\* Get dials for its caller, a call that began before Close included.
Dial(c, p) ==
  /\ phase[c] = "none" /\ EmptyHanded(p) /\ HasRoom
  /\ phase' = [phase EXCEPT ![c] = "lent"]
  /\ holder' = [holder EXCEPT ![c] = p]
  /\ UNCHANGED closed

\* The pool dials on its own account.
Stock(c) ==
  /\ phase[c] = "none" /\ ~closed /\ HasRoom
  /\ phase' = [phase EXCEPT ![c] = "spare"]
  /\ UNCHANGED <<holder, closed>>

Lend(c, p) ==
  /\ phase[c] = "spare" /\ ~closed /\ EmptyHanded(p)
  /\ phase' = [phase EXCEPT ![c] = "lent"]
  /\ holder' = [holder EXCEPT ![c] = p]
  /\ UNCHANGED closed

\* Put, the connection going straight to a caller that waits for one
Handoff(c, p) ==
  /\ phase[c] = "lent" /\ ~closed /\ EmptyHanded(p)
  /\ holder' = [holder EXCEPT ![c] = p]
  /\ UNCHANGED <<phase, closed>>

\* The connections of D are retired: closed at once, or left to be closed.
Retired(ph, D, how) == [c \in Conns |-> IF c \in D THEN how ELSE ph[c]]
Unheld(D) == [c \in Conns |-> IF c \in D THEN NoClient ELSE holder[c]]
Ways == {"doomed", "none"}

\* Put, the connection staying; at most one idle one makes way for it.
Return(c, D) ==
  /\ phase[c] = "lent" /\ ~closed /\ Cardinality(D) <= 1
  /\ D \subseteq In("spare") \union {c}
  /\ phase' = Retired([phase EXCEPT ![c] = "spare"], D, "doomed")
  /\ holder' = Unheld({c})
  /\ UNCHANGED closed

Retire(D, how) ==
  /\ D # {} /\ D \subseteq Usable
  /\ phase' = Retired(phase, D, how)
  /\ holder' = Unheld(D)
  /\ UNCHANGED closed

Dispose(c) ==
  /\ phase[c] = "doomed"
  /\ phase' = [phase EXCEPT ![c] = "none"]
  /\ UNCHANGED <<holder, closed>>

Shut(how) ==
  /\ closed' = TRUE
  /\ phase' = Retired(phase, In("spare"), how)
  /\ UNCHANGED holder

Step ==
  \/ \E c \in Conns, p \in Clients : Dial(c, p) \/ Lend(c, p) \/ Handoff(c, p)
  \/ \E c \in Conns : Stock(c) \/ Dispose(c) \/ \E D \in SUBSET Conns : Return(c, D)
  \/ \E how \in Ways : Shut(how) \/ \E D \in SUBSET Conns : Retire(D, how)

Next == Step /\ UNCHANGED limit

Spec == Init /\ [][Next]_vars

=============================================================================
