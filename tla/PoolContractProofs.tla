------------------------ MODULE PoolContractProofs ------------------------
(***************************************************************************)
(* What PoolContract promises, whatever the clients, the connections and   *)
(* the limit: who implements it keeps these promises.                      *)
(***************************************************************************)
EXTENDS PoolContract, FiniteSetTheorems, TLAPS

Held == {c \in Conns : holder[c] # NoClient}

\* A connection is lent to one client or to none, and a client has one at most.
Exclusive ==
  /\ Held = In("lent")
  /\ \A c, d \in Held : holder[c] = holder[d] => c = d

\* Those that are spare or lent stay within the limit.
Bounded == limit # 0 => IsFiniteSet(Usable) /\ Cardinality(Usable) <= limit

Drained == closed => In("spare") = {}

Types ==
  /\ NoClient \notin Clients
  /\ limit \in Nat /\ closed \in BOOLEAN
  /\ phase \in [Conns -> Phases]
  /\ holder \in [Conns -> Clients \union {NoClient}]

Promise == Types /\ Exclusive /\ Bounded /\ Drained

LEMMA UsableIs == Types => Usable = {c \in Conns : phase[c] \in {"spare", "lent"}}
BY DEF Usable, In

LEMMA InitPromise == NoClient \notin Clients /\ Init => Promise
<1> SUFFICES ASSUME NoClient \notin Clients, Init PROVE Promise
  OBVIOUS
<1>1. Types
  BY DEF Init, Types, Phases
<1>2. In("lent") = {} /\ In("spare") = {} /\ Held = {}
  BY DEF Init, In, Held
<1>3. Bounded
  BY <1>1, <1>2, FS_EmptySet DEF Bounded, Usable, Types
<1> QED BY <1>1, <1>2, <1>3 DEF Promise, Exclusive, Drained

\* A step that leaves no more usable connections keeps them within the limit,
\* and so does one that adds one where there is room.
LEMMA FewerBounded ==
  ASSUME Bounded, Types, UNCHANGED limit, Usable' \subseteq Usable
  PROVE  Bounded'
<1>1. ASSUME limit # 0 PROVE IsFiniteSet(Usable') /\ Cardinality(Usable') <= limit
  <2>1. IsFiniteSet(Usable) /\ Cardinality(Usable) <= limit
    BY <1>1 DEF Bounded
  <2>2. IsFiniteSet(Usable') /\ Cardinality(Usable') <= Cardinality(Usable)
    BY <2>1, FS_Subset
  <2>3. Cardinality(Usable') \in Nat /\ Cardinality(Usable) \in Nat /\ limit \in Nat
    BY <2>1, <2>2, FS_CardinalityType DEF Types
  <2> QED BY <2>1, <2>2, <2>3
<1> QED BY <1>1 DEF Bounded

LEMMA OneMoreBounded ==
  ASSUME Bounded, Types, UNCHANGED limit, HasRoom, NEW c \in Conns, Usable' = Usable \union {c}
  PROVE  Bounded'
<1>1. ASSUME limit # 0 PROVE IsFiniteSet(Usable') /\ Cardinality(Usable') <= limit
  <2>1. IsFiniteSet(Usable) /\ Cardinality(Usable) < limit
    BY <1>1 DEF Bounded, HasRoom
  <2>2. /\ IsFiniteSet(Usable \union {c})
        /\ Cardinality(Usable \union {c}) = IF c \in Usable THEN Cardinality(Usable) ELSE Cardinality(Usable) + 1
    BY <2>1, FS_AddElement
  <2>3. Cardinality(Usable) \in Nat /\ limit \in Nat
    BY <2>1, FS_CardinalityType DEF Types
  <2> QED BY <2>1, <2>2, <2>3
<1> QED BY <1>1 DEF Bounded

LEMMA NextPromise == Promise /\ [Next]_vars => Promise'
<1> SUFFICES ASSUME Promise, [Next]_vars PROVE Promise'
  OBVIOUS
<1> USE DEF Promise
<1>0. Types /\ Usable = {c \in Conns : phase[c] \in {"spare", "lent"}}
  BY UsableIs
<1>1. UNCHANGED limit
  BY DEF Next, vars
<1>2. ASSUME Types' PROVE Usable' = {c \in Conns : phase'[c] \in {"spare", "lent"}}
  BY <1>2 DEF Usable, In, Types
<1>3. Exclusive <=> /\ \A c \in Conns : holder[c] # NoClient <=> phase[c] = "lent"
                    /\ \A c, d \in Conns : holder[c] # NoClient /\ holder[c] = holder[d] => c = d
  BY DEF Exclusive, Held, In
<1>4. ASSUME /\ \A c \in Conns : holder'[c] # NoClient <=> phase'[c] = "lent"
             /\ \A c, d \in Conns : holder'[c] # NoClient /\ holder'[c] = holder'[d] => c = d
      PROVE  Exclusive'
  BY <1>4 DEF Exclusive, Held, In
<1>5. ASSUME NEW c \in Conns, NEW p \in Clients, Dial(c, p) PROVE Promise'
  <2> USE <1>5 DEF Dial
  <2>1. Types'
    BY <1>0, <1>1 DEF Types, Phases
  <2>2. \A d \in Conns : /\ phase'[d] = IF d = c THEN "lent" ELSE phase[d]
                         /\ holder'[d] = IF d = c THEN p ELSE holder[d]
    BY <1>0 DEF Types
  <2>3. Exclusive'
    BY <1>3, <1>4, <2>2 DEF EmptyHanded, Types
  <2>4. Usable' = Usable \union {c}
    BY <1>0, <1>2, <2>1, <2>2
  <2>5. Bounded'
    BY <1>0, <1>1, <2>4, OneMoreBounded
  <2>6. Drained'
    BY <2>2 DEF Drained, In
  <2> QED BY <2>1, <2>3, <2>5, <2>6
<1>6. ASSUME NEW c \in Conns, Stock(c) PROVE Promise'
  <2> USE <1>6 DEF Stock
  <2>1. Types'
    BY <1>0, <1>1 DEF Types, Phases
  <2>2. \A d \in Conns : phase'[d] = (IF d = c THEN "spare" ELSE phase[d]) /\ holder'[d] = holder[d]
    BY <1>0 DEF Types
  <2>3. Exclusive'
    BY <1>3, <1>4, <2>2
  <2>4. Usable' = Usable \union {c}
    BY <1>0, <1>2, <2>1, <2>2
  <2>5. Bounded'
    BY <1>0, <1>1, <2>4, OneMoreBounded
  <2>6. Drained'
    BY DEF Drained
  <2> QED BY <2>1, <2>3, <2>5, <2>6
<1>7. ASSUME NEW c \in Conns, NEW p \in Clients, Lend(c, p) \/ Handoff(c, p) PROVE Promise'
  <2> USE <1>7 DEF Lend, Handoff
  <2>1. Types'
    BY <1>0, <1>1 DEF Types, Phases
  <2>2. \A d \in Conns : /\ phase'[d] = IF d = c THEN "lent" ELSE phase[d]
                         /\ holder'[d] = IF d = c THEN p ELSE holder[d]
    BY <1>0 DEF Types
  <2>3. Exclusive'
    BY <1>3, <1>4, <2>2 DEF EmptyHanded, Types
  <2>4. Usable' \subseteq Usable
    BY <1>0, <1>2, <2>1, <2>2
  <2>5. Bounded'
    BY <1>0, <1>1, <2>4, FewerBounded
  <2>6. Drained'
    BY DEF Drained
  <2> QED BY <2>1, <2>3, <2>5, <2>6
<1>8. ASSUME NEW c \in Conns, NEW D \in SUBSET Conns, Return(c, D) PROVE Promise'
  <2>1. \A d \in Conns : /\ phase'[d] = IF d \in D THEN "doomed" ELSE IF d = c THEN "spare" ELSE phase[d]
                         /\ holder'[d] = IF d = c THEN NoClient ELSE holder[d]
    BY <1>0, <1>8 DEF Return, Retired, Unheld, Types
  <2>2. Types'
    BY <1>0, <1>1, <1>8, <2>1 DEF Return, Retired, Unheld, Types, Phases
  <2>3. phase[c] = "lent" /\ ~closed /\ UNCHANGED closed /\ \A d \in D : phase[d] = "spare" \/ d = c
    BY <1>8 DEF Return, In
  <2>4. Exclusive'
    BY <1>3, <1>4, <2>1, <2>3
  <2>5. Usable' \subseteq Usable
    BY <1>0, <1>2, <2>1, <2>2, <2>3
  <2>6. Bounded'
    BY <1>0, <1>1, <2>5, FewerBounded
  <2> QED BY <2>2, <2>3, <2>4, <2>6 DEF Drained
<1>9. ASSUME NEW D \in SUBSET Conns, NEW how \in Ways, Retire(D, how) PROVE Promise'
  <2>1. \A d \in Conns : /\ phase'[d] = IF d \in D THEN how ELSE phase[d]
                         /\ holder'[d] = IF d \in D THEN NoClient ELSE holder[d]
    BY <1>0, <1>9 DEF Retire, Retired, Unheld, Types
  <2>2. Types' /\ how \notin {"spare", "lent"}
    BY <1>0, <1>1, <1>9, <2>1 DEF Retire, Retired, Unheld, Types, Phases, Ways
  <2>3. Exclusive'
    BY <1>3, <1>4, <2>1, <2>2
  <2>4. Usable' \subseteq Usable
    BY <1>0, <1>2, <2>1, <2>2
  <2>5. Bounded'
    BY <1>0, <1>1, <2>4, FewerBounded
  <2>6. Drained'
    BY <1>9, <2>1, <2>2 DEF Retire, Drained, In
  <2> QED BY <2>2, <2>3, <2>5, <2>6
<1>10. ASSUME NEW c \in Conns, Dispose(c) PROVE Promise'
  <2>1. \A d \in Conns : phase'[d] = (IF d = c THEN "none" ELSE phase[d]) /\ holder'[d] = holder[d]
    BY <1>0, <1>10 DEF Dispose, Types
  <2>2. Types'
    BY <1>0, <1>1, <1>10 DEF Dispose, Types, Phases
  <2>3. phase[c] = "doomed" /\ UNCHANGED closed
    BY <1>10 DEF Dispose
  <2>4. Exclusive'
    BY <1>3, <1>4, <2>1, <2>3
  <2>5. Usable' \subseteq Usable
    BY <1>0, <1>2, <2>1, <2>2
  <2>6. Bounded'
    BY <1>0, <1>1, <2>5, FewerBounded
  <2>7. Drained'
    BY <2>1, <2>3 DEF Drained, In
  <2> QED BY <2>2, <2>4, <2>6, <2>7
<1>11. ASSUME NEW how \in Ways, Shut(how) PROVE Promise'
  <2>1. \A d \in Conns : phase'[d] = (IF phase[d] = "spare" THEN how ELSE phase[d]) /\ holder'[d] = holder[d]
    BY <1>0, <1>11 DEF Shut, Retired, In, Types
  <2>2. Types' /\ how \notin {"spare", "lent"}
    BY <1>0, <1>1, <1>11, <2>1 DEF Shut, Retired, Types, Phases, Ways
  <2>3. Exclusive'
    BY <1>3, <1>4, <2>1, <2>2
  <2>4. Usable' \subseteq Usable
    BY <1>0, <1>2, <2>1, <2>2
  <2>5. Bounded'
    BY <1>0, <1>1, <2>4, FewerBounded
  <2>6. Drained'
    BY <2>1, <2>2 DEF Drained, In
  <2> QED BY <2>2, <2>3, <2>5, <2>6
<1>12. CASE UNCHANGED vars
  BY <1>12 DEF vars, Types, Exclusive, Held, Bounded, Usable, In, Drained
<1> QED BY <1>5, <1>6, <1>7, <1>8, <1>9, <1>10, <1>11, <1>12 DEF Next, Step

\* A pool that keeps the contract lends each connection to one client at a time,
\* has never more than limit of them in use or idle, and none idle once closed
\* (pool.go:11-27, 50-60).
THEOREM ContractPromises == NoClient \notin Clients /\ Spec => []Promise
BY InitPromise, NextPromise, PTL DEF Spec

=============================================================================
