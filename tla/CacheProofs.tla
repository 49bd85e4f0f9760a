---------------------------- MODULE CacheProofs ----------------------------
(***************************************************************************)
(* Theorems about Cache: its types, what an invalidation keeps out, and    *)
(* that the tokens of the limiter add up.                                  *)
(***************************************************************************)
EXTENDS Cache, FiniteSetTheorems, TLAPS

\* A row that was fetched and is not yet stored was already in flight when its
\* key was last deleted, or is no older than the row there was in the source.
NotBefore(k, v) == v >= mark[k] \/ v \in inFlight[k]
Settled ==
  /\ \A q \in Callers, k \in Keys : fetched[q][k] # NoVer => NotBefore(k, fetched[q][k])
  /\ \A k \in Keys : mark[k] <= truth[k]

LastInv == TypeOK /\ Settled /\ NeverOlder

USE DEF Vers, history, deletions

\* The places of a caller and what it may be moved to are of the right type.
LEMMA AtType ==
  ASSUME NEW place \in Places, NEW o \in Ops, NEW t \in SUBSET Keys, NEW m \in SUBSET Keys,
         NEW e \in BOOLEAN
  PROVE  At(place, o, t, m, e) \in Call
BY DEF At, Call

LEMMA CallFields ==
  ASSUME call \in [Callers -> Call], NEW p \in Callers
  PROVE  /\ call[p] \in Call /\ call[p].at \in Places /\ call[p].op \in Ops
         /\ call[p].todo \in SUBSET Keys /\ call[p].miss \in SUBSET Keys
         /\ call[p].onErr \in BOOLEAN
BY DEF Call

LEMMA OutType == Out \in Call
BY AtType DEF Out, Places, Ops

LEMMA MoveType ==
  ASSUME call \in [Callers -> Call], NEW p \in Callers, NEW c \in Call, Move(p, c)
  PROVE  call' \in [Callers -> Call]
BY DEF Move

LEMMA NothingType == Nothing \in [Keys -> Vers \union {NoVer}]
BY DEF Nothing

LEMMA WithoutType ==
  ASSUME store \in [Keys -> Entry \union {NoEntry}], NEW C
  PROVE  Without(C) \in [Keys -> Entry \union {NoEntry}]
BY DEF Without


LEMMA FetchedType ==
  ASSUME fetched \in [Callers -> [Keys -> Vers \union {NoVer}]], NEW p \in Callers
  PROVE  [fetched EXCEPT ![p] = Nothing] \in [Callers -> [Keys -> Vers \union {NoVer}]]
BY NothingType

LEMMA ContentType ==
  ASSUME TypeOK, NEW e \in Entry
  PROVE  Content(e) \in Value \union {NoEntry}
BY DEF TypeOK, Entry, Content, Value

LEMMA AssignType ==
  ASSUME dst \in [Callers -> Value \union {NoEntry}], NEW p \in Callers,
         NEW v \in Value \union {NoEntry}, Assign(p, v)
  PROVE  dst' \in [Callers -> Value \union {NoEntry}]
BY DEF Assign

LEMMA ChargedType ==
  ASSUME tokens \in Nat, NEW e \in BOOLEAN, e => MayFallBack
  PROVE  Charged(e) \in Nat
BY DEF Charged, MayFallBack

LEMMA ChunksType == ASSUME NEW K \in SUBSET Keys PROVE Chunks(K) \subseteq SUBSET Keys
BY DEF Chunks

LEMMA InitTypes == Init => TypeOK
<1> SUFFICES ASSUME Init PROVE TypeOK
    OBVIOUS
<1>1. Out \in Call /\ Nothing \in [Keys -> Vers \union {NoVer}]
    BY OutType, NothingType
<1>2. 0 \in Vers
    BY BoundAssumption
<1> QED
    BY <1>1, <1>2, BoundAssumption DEF Init, TypeOK

-----------------------------------------------------------------------------
(* Every step keeps the types. *)

LEMMA NextTypes == TypeOK /\ [Next]_vars => TypeOK'
<1> SUFFICES ASSUME TypeOK, [Next]_vars PROVE TypeOK'
    OBVIOUS
<1> USE DEF TypeOK
<1>0. Out \in Call /\ [Out EXCEPT !.at = "panicked"] \in Call
    BY OutType DEF Call, Places
<1>1. ASSUME NEW p \in Callers, NEW k \in Keys, GetHit(p, k) PROVE TypeOK'
  <2>1. Content(store[k]) \in Value \union {NoEntry}
    BY <1>1, ContentType DEF GetHit
  <2>2. call' \in [Callers -> Call]
    BY <1>0, <1>1, MoveType DEF GetHit
  <2>3. dst' \in [Callers -> Value \union {NoEntry}]
    BY <1>1, <2>1, AssignType DEF GetHit
  <2> QED
    BY <1>1, <2>2, <2>3 DEF GetHit
<1>2. ASSUME NEW p \in Callers, NEW k \in Keys, GetMiss(p, k) PROVE TypeOK'
  <2>1. At("asking", "get", {}, {k}, FALSE) \in Call
    BY AtType DEF Places, Ops
  <2>2. call' \in [Callers -> Call] /\ tokens' \in Nat
    BY <1>2, <2>1, MoveType, ChargedType DEF GetMiss
  <2> QED
    BY <1>2, <2>2 DEF GetMiss
<1>3. ASSUME NEW p \in Callers, NEW k \in Keys, GetError(p, k) PROVE TypeOK'
  <2>1. At("asking", "get", {}, {k}, TRUE) \in Call
    BY AtType DEF Places, Ops
  <2>2. call' \in [Callers -> Call] /\ tokens' \in Nat
    BY <1>3, <2>1, MoveType, ChargedType DEF GetError
  <2> QED
    BY <1>3, <2>2 DEF GetError
<1>4. ASSUME NEW p \in Callers, NEW K \in Some, GetMulti(p, K) PROVE TypeOK'
  <2>1. At("reading", "getMulti", K, {}, FALSE) \in Call
    BY AtType DEF Places, Ops, Some
  <2>2. call' \in [Callers -> Call]
    BY <1>4, <2>1, MoveType DEF GetMulti
  <2> QED
    BY <1>4, <2>2 DEF GetMulti
<1>5. ASSUME NEW p \in Callers, NEW K \in SUBSET Keys, NEW o \in Ops, Invalidate(p, o, K) PROVE TypeOK'
  <2>1. At("deleting", o, K, K, FALSE) \in Call
    BY AtType DEF Places
  <2>2. call' \in [Callers -> Call]
    BY <1>5, <2>1, MoveType DEF Invalidate
  <2> QED
    BY <1>5, <2>2 DEF Invalidate
<1>6. ASSUME NEW p \in Callers, Read(p) PROVE TypeOK'
  <2>1. PICK C \in Chunks(call[p].todo) :
          LET todo == call[p].todo \ C
              miss == call[p].miss \union (C \ Present)
          IN Move(p, IF todo # {} THEN At("reading", "getMulti", todo, miss, FALSE)
                     ELSE IF miss # {} THEN At("asking", "getMulti", {}, miss, FALSE)
                     ELSE Out)
    BY <1>6 DEF Read
  <2> DEFINE todo == call[p].todo \ C
             miss == call[p].miss \union (C \ Present)
  <2>2. todo \in SUBSET Keys /\ miss \in SUBSET Keys
    BY ChunksType, CallFields
  <2>3. /\ At("reading", "getMulti", todo, miss, FALSE) \in Call
        /\ At("asking", "getMulti", {}, miss, FALSE) \in Call
    BY <2>2, AtType DEF Places, Ops
  <2>4. call' \in [Callers -> Call] /\ tokens' \in Nat
    BY <1>0, <1>6, <2>1, <2>3, MoveType, ChargedType DEF Read
  <2> QED
    BY <1>6, <2>4 DEF Read
<1>7. ASSUME NEW p \in Callers, ReadError(p) PROVE TypeOK'
  <2>1. ASSUME NEW H PROVE At("asking", "getMulti", {}, call[p].todo \ H, TRUE) \in Call
    <3>1. call[p].todo \ H \in SUBSET Keys /\ {} \in SUBSET Keys
      BY CallFields
    <3>2. "asking" \in Places /\ "getMulti" \in Ops
      BY DEF Places, Ops
    <3> HIDE DEF TypeOK
    <3> QED
      BY <3>1, <3>2, AtType
  <2>2. call' \in [Callers -> Call] /\ tokens' \in Nat
    BY <1>0, <1>7, <2>1, MoveType, ChargedType DEF ReadError
  <2> QED
    BY <1>7, <2>2 DEF ReadError
<1>8. ASSUME NEW p \in Callers, Delete(p) PROVE TypeOK'
  <2>1. PICK C \in Chunks(call[p].todo) :
          /\ store' = Without(Removed(C))
          /\ Settle(C)
          /\ LET todo == call[p].todo \ C IN
             Move(p, IF todo # {} THEN [call[p] EXCEPT !.todo = todo]
                     ELSE IF call[p].op = "evict" THEN Out
                     ELSE At("asking", call[p].op, {}, call[p].miss, FALSE))
    BY <1>8 DEF Delete
  <2> DEFINE todo == call[p].todo \ C
  <2>2. [call[p] EXCEPT !.todo = todo] \in Call
    <3>1. call[p] \in Call /\ todo \in SUBSET Keys
      BY CallFields
    <3> HIDE DEF todo
    <3> QED
      BY <3>1 DEF Call
  <2>3. At("asking", call[p].op, {}, call[p].miss, FALSE) \in Call
    BY AtType, CallFields DEF Places
  <2>4. call' \in [Callers -> Call]
    BY <1>0, <2>1, <2>2, <2>3, MoveType
  <2>5. store' \in [Keys -> Entry \union {NoEntry}] /\ mark' \in [Keys -> Vers]
    BY <2>1, WithoutType DEF Settle
  <2>6. inFlight' \in [Keys -> SUBSET Vers]
    <3>1. \A k \in Keys : Held(k) \in SUBSET Vers
      BY DEF Held
    <3> QED
      BY <2>1, <3>1 DEF Settle
  <2> QED
    BY <1>8, <2>4, <2>5, <2>6 DEF Delete
<1>9. ASSUME NEW p \in Callers, DeleteError(p) PROVE TypeOK'
  <2>1. call' \in [Callers -> Call] /\ store' \in [Keys -> Entry \union {NoEntry}]
    BY <1>0, <1>9, MoveType, WithoutType DEF DeleteError
  <2> QED
    BY <1>9, <2>1 DEF DeleteError
<1>10. ASSUME NEW p \in Callers, Ask(p) PROVE TypeOK'
  <2>1. PICK R \in Kept(p) :
          IF R = {} THEN Return(p) /\ UNCHANGED dst
          ELSE /\ fetched' = [fetched EXCEPT ![p] = [k \in Keys |-> IF k \in R THEN truth[k] ELSE NoVer]]
               /\ Move(p, At("setting", call[p].op, {}, {}, FALSE))
               /\ IF call[p].op = "get"
                  THEN \E k \in R : Assign(p, [of |-> k, ver |-> truth[k]])
                  ELSE UNCHANGED dst
    BY <1>10 DEF Ask
  <2>2. R \subseteq Keys
    BY CallFields DEF Kept, There
  <2>3. At("setting", call[p].op, {}, {}, FALSE) \in Call
    BY AtType, CallFields DEF Places
  <2>4. call' \in [Callers -> Call]
    BY <1>0, <2>1, <2>3, MoveType DEF Return
  <2>5. [k \in Keys |-> IF k \in R THEN truth[k] ELSE NoVer] \in [Keys -> Vers \union {NoVer}]
    OBVIOUS
  <2>6. fetched' \in [Callers -> [Keys -> Vers \union {NoVer}]]
    BY <2>1, <2>5, FetchedType DEF Return
  <2>7. \A k \in R : [of |-> k, ver |-> truth[k]] \in Value \union {NoEntry}
    BY <2>2 DEF Value
  <2>8. dst' \in [Callers -> Value \union {NoEntry}]
    BY <2>1, <2>7, AssignType
  <2> QED
    BY <1>10, <2>4, <2>6, <2>8 DEF Ask
<1>11. ASSUME NEW p \in Callers, AskError(p) PROVE TypeOK'
  <2>1. call' \in [Callers -> Call]
    BY <1>0, <1>11, MoveType DEF AskError
  <2> QED
    BY <1>11, <2>1 DEF AskError
<1>12. ASSUME NEW p \in Callers, Set(p) PROVE TypeOK'
  <2>1. PICK k \in Keys :
          /\ fetched[p][k] # NoVer
          /\ store' = [store EXCEPT ![k] =
               [of |-> k, ver |-> fetched[p][k],
                ref |-> IF kind = "local" /\ Reuse /\ call[p].op = "get" THEN p ELSE NoCaller]]
          /\ fetched' = [fetched EXCEPT ![p][k] = NoVer]
    BY <1>12 DEF Set
  <2>2. [of |-> k, ver |-> fetched[p][k],
         ref |-> IF kind = "local" /\ Reuse /\ call[p].op = "get" THEN p ELSE NoCaller] \in Entry
    BY <2>1 DEF Entry
  <2>3. store' \in [Keys -> Entry \union {NoEntry}]
    BY <2>1, <2>2
  <2>4. fetched' \in [Callers -> [Keys -> Vers \union {NoVer}]]
    BY <2>1
  <2>5. call' \in [Callers -> Call]
    BY <1>0, <1>12, MoveType DEF Set
  <2> QED
    BY <1>12, <2>3, <2>4, <2>5 DEF Set
<1>13. ASSUME NEW p \in Callers, SetError(p) PROVE TypeOK'
  <2>1. /\ call' \in [Callers -> Call]
        /\ fetched' \in [Callers -> [Keys -> Vers \union {NoVer}]]
    BY <1>0, <1>13, MoveType, FetchedType DEF SetError, Return
  <2> QED
    BY <1>13, <2>1 DEF SetError
<1>14. ASSUME NEW k \in Keys, Write(k) PROVE TypeOK'
  <2>1. truth' \in [Keys -> Vers]
    BY <1>14, BoundAssumption DEF Write
  <2> QED
    BY <1>14, <2>1 DEF Write
<1>15. ASSUME NEW k \in Keys, Expire(k) PROVE TypeOK'
  <2>1. store' \in [Keys -> Entry \union {NoEntry}]
    BY <1>15, WithoutType DEF Expire
  <2> QED
    BY <1>15, <2>1 DEF Expire
<1>16. CASE UNCHANGED vars
    BY <1>16 DEF vars
<1> QED
    BY <1>1, <1>2, <1>3, <1>4, <1>5, <1>6, <1>7, <1>8, <1>9, <1>10, <1>11, <1>12, <1>13, <1>14,
       <1>15, <1>16
    DEF Next, Evict, Refresh, RefreshMulti, Some, Ops

\* The variables of Cache keep their types; the limiter is never overdrawn,
\* and the cache holds rows, whatever fails (box.go:58-436).
THEOREM CacheTypes == Spec => []TypeOK
BY InitTypes, NextTypes, PTL DEF Spec

-----------------------------------------------------------------------------
(* What invalidations keep out. *)

LEMMA InitLast == Init => LastInv
<1> SUFFICES ASSUME Init PROVE LastInv
    OBVIOUS
<1>1. Settled /\ NeverOlder
    BY NoneAssumption DEF Init, Settled, NeverOlder, NotBefore, Nothing
<1> QED
    BY <1>1, InitTypes DEF LastInv

\* The steps that bring no row closer to the cache and settle nothing.
LEMMA QuietLast ==
  ASSUME LastInv, TypeOK',
         UNCHANGED <<truth, mark, inFlight>>,
         \A k \in Keys : store'[k] \in {store[k], NoEntry},
         \A q \in Callers, k \in Keys : fetched'[q][k] \in {fetched[q][k], NoVer}
  PROVE  Settled' /\ NeverOlder'
BY DEF LastInv, Settled, NeverOlder, NotBefore, TypeOK

LEMMA NextLast == LastInv /\ [Next]_vars => LastInv'
<1> SUFFICES ASSUME LastInv, [Next]_vars PROVE Settled' /\ NeverOlder'
    BY NextTypes DEF LastInv
<1> USE DEF LastInv
<1>0. TypeOK /\ TypeOK'
    BY NextTypes
<1> DEFINE Quiet == /\ UNCHANGED <<truth, mark, inFlight>>
                    /\ \A k \in Keys : store'[k] \in {store[k], NoEntry}
                    /\ \A q \in Callers, k \in Keys : fetched'[q][k] \in {fetched[q][k], NoVer}
<1>1. ASSUME NEW p \in Callers, NEW k \in Keys,
             GetHit(p, k) \/ GetMiss(p, k) \/ GetError(p, k) \/ Refresh(p, k)
      PROVE  Quiet
    BY <1>1 DEF GetHit, GetMiss, GetError, Refresh, Invalidate
<1>2. ASSUME NEW p \in Callers, NEW K \in Some, GetMulti(p, K) \/ Evict(p, K) \/ RefreshMulti(p, K)
      PROVE  Quiet
    BY <1>2 DEF GetMulti, Evict, RefreshMulti, Invalidate
<1>3. ASSUME NEW p \in Callers, Read(p) \/ ReadError(p) \/ AskError(p)
      PROVE  Quiet
    BY <1>3 DEF Read, ReadError, AskError
<1>4. ASSUME NEW p \in Callers, DeleteError(p) PROVE Quiet
    BY <1>4 DEF DeleteError, Without
<1>5. ASSUME NEW p \in Callers, SetError(p) PROVE Quiet
    BY <1>0, <1>5 DEF SetError, Return, Nothing, TypeOK
<1>6. ASSUME NEW k \in Keys, Expire(k) PROVE Quiet
    BY <1>6 DEF Expire, Without
<1>7. CASE Quiet
    BY <1>0, <1>7, QuietLast
<1>8. ASSUME NEW p \in Callers, Delete(p) PROVE Settled' /\ NeverOlder'
  <2>1. PICK C \in Chunks(call[p].todo) : store' = Without(C) /\ Settle(C)
    BY <1>8 DEF Delete, Removed
  <2>2. UNCHANGED <<truth, fetched>>
    BY <1>8 DEF Delete
  <2>3. ASSUME NEW k \in Keys
        PROVE  /\ store'[k] # NoEntry => NotBefore(k, store[k].ver)'
               /\ mark'[k] <= truth'[k]
               /\ \A q \in Callers : fetched'[q][k] # NoVer => NotBefore(k, fetched[q][k])'
    <3>1. CASE k \in C
      <4>1. mark'[k] = truth[k] /\ inFlight'[k] = Held(k) /\ store'[k] = NoEntry
        BY <2>1, <3>1 DEF Settle, Without
      <4>2. \A q \in Callers : fetched[q][k] # NoVer => fetched[q][k] \in Held(k)
        BY DEF Held
      <4>3. truth[k] \in Nat
        BY <1>0 DEF TypeOK
      <4> QED
        BY <2>2, <4>1, <4>2, <4>3 DEF NotBefore
    <3>2. CASE k \notin C
      <4>1. mark'[k] = mark[k] /\ inFlight'[k] = inFlight[k] /\ store'[k] \in {store[k], NoEntry}
        BY <2>1, <3>2 DEF Settle, Without
      <4> QED
        BY <2>2, <4>1 DEF Settled, NeverOlder, NotBefore
    <3> QED
      BY <3>1, <3>2
  <2> QED
    BY <2>3 DEF Settled, NeverOlder, NotBefore
<1>9. ASSUME NEW p \in Callers, Ask(p) PROVE Settled' /\ NeverOlder'
  <2>1. UNCHANGED <<store, truth, mark, inFlight>>
    BY <1>9 DEF Ask
  <2>2. \A q \in Callers, k \in Keys : fetched'[q][k] \in {fetched[q][k], NoVer, truth[k]}
    <3>1. PICK R : fetched' = [fetched EXCEPT ![p] = Nothing]
                   \/ fetched' = [fetched EXCEPT ![p] = [k \in Keys |-> IF k \in R THEN truth[k] ELSE NoVer]]
      BY <1>9 DEF Ask, Return
    <3>2. fetched'[p] = Nothing \/ fetched'[p] = [k \in Keys |-> IF k \in R THEN truth[k] ELSE NoVer]
      BY <1>0, <3>1 DEF TypeOK
    <3>3. \A q \in Callers \ {p} : fetched'[q] = fetched[q]
      BY <1>0, <3>1 DEF TypeOK
    <3> QED
      BY <3>2, <3>3 DEF Nothing
  <2>3. \A k \in Keys : truth[k] >= mark[k]
    BY <1>0 DEF Settled, TypeOK
  <2> QED
    BY <2>1, <2>2, <2>3 DEF Settled, NeverOlder, NotBefore
<1>10. ASSUME NEW p \in Callers, Set(p) PROVE Settled' /\ NeverOlder'
  <2>1. PICK k \in Keys :
          /\ fetched[p][k] # NoVer
          /\ store' = [store EXCEPT ![k] =
               [of |-> k, ver |-> fetched[p][k],
                ref |-> IF kind = "local" /\ Reuse /\ call[p].op = "get" THEN p ELSE NoCaller]]
          /\ fetched' = [fetched EXCEPT ![p][k] = NoVer]
    BY <1>10 DEF Set
  <2>2. UNCHANGED <<truth, mark, inFlight>>
    BY <1>10 DEF Set
  <2>3. \A q \in Callers, j \in Keys : fetched'[q][j] \in {fetched[q][j], NoVer}
    BY <1>0, <2>1 DEF TypeOK
  <2>4. store'[k].ver = fetched[p][k] /\ \A j \in Keys \ {k} : store'[j] = store[j]
    BY <1>0, <2>1 DEF TypeOK
  <2>5. NotBefore(k, fetched[p][k])
    BY <2>1 DEF Settled
  <2> QED
    BY <2>2, <2>3, <2>4, <2>5 DEF Settled, NeverOlder, NotBefore
<1>11. ASSUME NEW k \in Keys, Write(k) PROVE Settled' /\ NeverOlder'
  <2>1. UNCHANGED <<store, fetched, mark, inFlight>>
    BY <1>11 DEF Write
  <2>2. \A j \in Keys : truth'[j] >= truth[j]
    BY <1>0, <1>11 DEF Write, TypeOK
  <2>3. \A j \in Keys : mark[j] \in Nat /\ truth[j] \in Nat /\ truth'[j] \in Nat
    BY <1>0 DEF TypeOK
  <2> QED
    BY <2>1, <2>2, <2>3 DEF Settled, NeverOlder, NotBefore
<1>12. CASE UNCHANGED vars
    BY <1>12 DEF vars, Settled, NeverOlder, NotBefore
<1> QED
    BY <1>1, <1>2, <1>3, <1>4, <1>5, <1>6, <1>7, <1>8, <1>9, <1>10, <1>11, <1>12 DEF Next

\* A row older than the source's when its key was last deleted is in the cache
\* only if a caller had read it by then and stored it later: for any number of
\* callers and keys, either store, and failures at every step (box.go:68-436).
THEOREM InvalidationsLast == Spec => []NeverOlder
<1>1. LastInv => NeverOlder
    BY DEF LastInv
<1> QED
    BY <1>1, InitLast, NextLast, PTL DEF Spec

-----------------------------------------------------------------------------
(* The tokens of the limiter. A caller that an error of the store has sent   *)
(* to the source has taken a token, and asks the source once.               *)

OnErr == {p \in Callers : call[p].onErr}
AskingOnErr == \A p \in Callers : call[p].onErr => call[p].at = "asking"
TokenInv == TypeOK /\ AskingOnErr /\ TokensAccounted

LEMMA OnErrFinite == IsFiniteSet(OnErr) /\ Cardinality(OnErr) \in Nat
<1>1. OnErr \in SUBSET Callers
  BY DEF OnErr
<1> QED BY <1>1, CallersAssumption, FS_Subset, FS_CardinalityType

\* The caller that moves joins those sent to the source by an error, or not.
LEMMA OnErrMoves ==
  ASSUME TypeOK, NEW p \in Callers, NEW c \in Call, Move(p, c)
  PROVE  /\ c.onErr = call[p].onErr => OnErr' = OnErr
         /\ ~call[p].onErr /\ c.onErr => Cardinality(OnErr)' = Cardinality(OnErr) + 1
         /\ call[p].onErr /\ ~c.onErr => Cardinality(OnErr)' = Cardinality(OnErr) - 1
<1>1. call \in [Callers -> Call] /\ call' = [call EXCEPT ![p] = c]
  BY DEF TypeOK, Move
<1>2. \A q \in Callers : call'[q] = IF q = p THEN c ELSE call[q]
  BY <1>1
<1>3. c.onErr = call[p].onErr => OnErr' = OnErr
  BY <1>2 DEF OnErr
<1>4. ASSUME ~call[p].onErr, c.onErr PROVE Cardinality(OnErr)' = Cardinality(OnErr) + 1
  <2>1. OnErr' = OnErr \union {p} /\ p \notin OnErr
    BY <1>2, <1>4 DEF OnErr
  <2> QED BY <2>1, OnErrFinite, FS_AddElement
<1>5. ASSUME call[p].onErr, ~c.onErr PROVE Cardinality(OnErr)' = Cardinality(OnErr) - 1
  <2>1. OnErr' = OnErr \ {p} /\ p \in OnErr
    BY <1>2, <1>5 DEF OnErr
  <2> QED BY <2>1, OnErrFinite, FS_RemoveElement
<1> QED BY <1>3, <1>4, <1>5

LEMMA Accounts == TokensAccounted <=> (mode = "limited" => asked + tokens + Cardinality(OnErr) = MaxTokens)
BY DEF TokensAccounted, OnErr

LEMMA AskingMoves ==
  ASSUME TypeOK, AskingOnErr, NEW p \in Callers, NEW c \in Call, Move(p, c), c.onErr => c.at = "asking"
  PROVE  AskingOnErr'
<1>1. \A q \in Callers : call'[q] = IF q = p THEN c ELSE call[q]
  BY DEF TypeOK, Move
<1> QED BY <1>1 DEF AskingOnErr

\* A move of a caller whose call no error has sent to the source.
LEMMA Uncharged ==
  ASSUME TokenInv, NEW p \in Callers, NEW c \in Call, Move(p, c), ~call[p].onErr, ~c.onErr,
         UNCHANGED <<mode, tokens, asked>>
  PROVE  AskingOnErr' /\ TokensAccounted'
<1>1. OnErr' = OnErr
  <2>1. c.onErr = call[p].onErr
    BY CallFields DEF TokenInv, TypeOK, Call
  <2> QED BY <2>1, OnErrMoves DEF TokenInv
<1>2. TokensAccounted'
  BY <1>1, Accounts DEF TokenInv, TokensAccounted, OnErr
<1> QED BY <1>2, AskingMoves DEF TokenInv

\* An error of the store sends a caller to the source.
LEMMA ChargedOnce ==
  ASSUME TokenInv, NEW p \in Callers, NEW c \in Call, Move(p, c), ~call[p].onErr, c.onErr,
         c.at = "asking", MayFallBack, tokens' = Charged(TRUE), UNCHANGED <<mode, asked>>
  PROVE  AskingOnErr' /\ TokensAccounted'
<1>1. Cardinality(OnErr)' = Cardinality(OnErr) + 1
  BY OnErrMoves DEF TokenInv
<1>2. Cardinality(OnErr) \in Nat /\ tokens \in Nat /\ asked \in Nat
  BY OnErrFinite DEF TokenInv, TypeOK
<1>3. mode = "limited" => asked' + tokens' + Cardinality(OnErr)' = MaxTokens
  BY <1>1, <1>2, Accounts DEF TokenInv, Charged
<1> QED BY <1>3, AskingMoves DEF TokenInv, TokensAccounted, OnErr

\* The source is asked.
LEMMA AskedOnce ==
  ASSUME TokenInv, NEW p \in Callers, NEW c \in Call, Move(p, c), ~c.onErr,
         asked' = IF call[p].onErr /\ mode = "limited" THEN asked + 1 ELSE asked,
         UNCHANGED <<mode, tokens>>
  PROVE  AskingOnErr' /\ TokensAccounted'
<1>1. CASE ~call[p].onErr
  BY <1>1, Uncharged
<1>2. CASE call[p].onErr
  <2>1. Cardinality(OnErr)' = Cardinality(OnErr) - 1
    BY <1>2, OnErrMoves DEF TokenInv
  <2>2. Cardinality(OnErr) \in Nat /\ tokens \in Nat /\ asked \in Nat
    BY OnErrFinite DEF TokenInv, TypeOK
  <2>3. mode = "limited" => asked' + tokens' + Cardinality(OnErr)' = MaxTokens
    BY <1>2, <2>1, <2>2, Accounts DEF TokenInv
  <2> QED BY <2>3, AskingMoves DEF TokenInv, TokensAccounted, OnErr
<1> QED BY <1>1, <1>2

\* What a caller is moved to, not sent by an error, and sent by one.
LEMMA AtFree ==
  ASSUME NEW place \in Places, NEW o \in Ops, NEW t \in SUBSET Keys, NEW m \in SUBSET Keys
  PROVE  At(place, o, t, m, FALSE) \in Call /\ ~At(place, o, t, m, FALSE).onErr
<1>1. At(place, o, t, m, FALSE) \in Call
  BY AtType
<1> QED BY <1>1 DEF At

LEMMA AtOnErr ==
  ASSUME NEW o \in Ops, NEW m \in SUBSET Keys
  PROVE  LET c == At("asking", o, {}, m, TRUE) IN c \in Call /\ c.onErr /\ c.at = "asking"
<1>1. "asking" \in Places /\ {} \in SUBSET Keys
  BY DEF Places
<1>2. At("asking", o, {}, m, TRUE) \in Call
  BY <1>1, AtType
<1> QED BY <1>2 DEF At

LEMMA InitTokens == Init => TokenInv
<1> SUFFICES ASSUME Init PROVE TokenInv
  OBVIOUS
<1>1. \A p \in Callers : ~call[p].onErr
  BY DEF Init, Out, At
<1>2. {p \in Callers : call[p].onErr} = {}
  BY <1>1
<1>3. asked + tokens + 0 = MaxTokens
  BY BoundAssumption DEF Init
<1> QED BY <1>1, <1>2, <1>3, InitTypes, FS_EmptySet DEF TokenInv, AskingOnErr, TokensAccounted

LEMMA NextTokens == TokenInv /\ [Next]_vars => TokenInv'
<1> SUFFICES ASSUME TokenInv, [Next]_vars PROVE AskingOnErr' /\ TokensAccounted'
  BY NextTypes DEF TokenInv
<1>0. /\ Out \in Call /\ ~Out.onErr /\ [Out EXCEPT !.at = "panicked"] \in Call
      /\ ~[Out EXCEPT !.at = "panicked"].onErr
  BY OutType DEF Call, Places, Out, At
<1>1. \A p \in Callers : /\ call[p] \in Call
                         /\ call[p].at # "asking" => ~call[p].onErr
                         /\ call[p].todo \in SUBSET Keys /\ call[p].miss \in SUBSET Keys
                         /\ call[p].op \in Ops
  BY CallFields DEF TokenInv, TypeOK, AskingOnErr
<1>2. /\ {} \in SUBSET Keys /\ \A k \in Keys : {k} \in SUBSET Keys
      /\ {"reading", "deleting", "asking", "setting"} \subseteq Places /\ {"get", "getMulti"} \subseteq Ops
  BY DEF Places, Ops
<1>3. Charged(FALSE) = tokens
  BY DEF Charged
<1>4. CASE UNCHANGED <<mode, tokens, asked, call>>
  BY <1>4 DEF TokenInv, AskingOnErr, TokensAccounted
<1>5. ASSUME NEW p \in Callers, NEW k \in Keys, GetHit(p, k) PROVE AskingOnErr' /\ TokensAccounted'
  <2>1. UNCHANGED call \/ Move(p, [Out EXCEPT !.at = "panicked"])
    BY <1>5 DEF GetHit
  <2>2. call[p].at = "out" /\ UNCHANGED <<mode, tokens, asked>>
    BY <1>5 DEF GetHit
  <2>3. CASE Move(p, [Out EXCEPT !.at = "panicked"])
    BY <1>0, <1>1, <2>2, <2>3, Uncharged
  <2> QED BY <1>4, <2>1, <2>2, <2>3
<1>6. ASSUME NEW p \in Callers, NEW k \in Keys, GetMiss(p, k) PROVE AskingOnErr' /\ TokensAccounted'
  <2>1. At("asking", "get", {}, {k}, FALSE) \in Call /\ ~At("asking", "get", {}, {k}, FALSE).onErr
    BY <1>2, AtFree
  <2>2. /\ Move(p, At("asking", "get", {}, {k}, FALSE)) /\ ~call[p].onErr
        /\ UNCHANGED <<mode, tokens, asked>>
    BY <1>1, <1>3, <1>6 DEF GetMiss
  <2> QED BY <2>1, <2>2, Uncharged
<1>7. ASSUME NEW p \in Callers, NEW k \in Keys, GetError(p, k) PROVE AskingOnErr' /\ TokensAccounted'
  <2>1. /\ At("asking", "get", {}, {k}, TRUE) \in Call /\ At("asking", "get", {}, {k}, TRUE).onErr
        /\ At("asking", "get", {}, {k}, TRUE).at = "asking"
    BY <1>2, AtOnErr
  <2>2. /\ Move(p, At("asking", "get", {}, {k}, TRUE)) /\ ~call[p].onErr /\ MayFallBack
        /\ tokens' = Charged(TRUE) /\ UNCHANGED <<mode, asked>>
    BY <1>1, <1>7 DEF GetError
  <2> QED BY <2>1, <2>2, ChargedOnce
<1>8. ASSUME NEW p \in Callers, NEW K \in SUBSET Keys, NEW o \in Ops, GetMulti(p, K) \/ Invalidate(p, o, K)
      PROVE  AskingOnErr' /\ TokensAccounted'
  <2>1. PICK c \in {At("reading", "getMulti", K, {}, FALSE), At("deleting", o, K, K, FALSE)} : Move(p, c)
    BY <1>8 DEF GetMulti, Invalidate
  <2>2. c \in Call /\ ~c.onErr
    <3>1. /\ At("reading", "getMulti", K, {}, FALSE) \in Call /\ ~At("reading", "getMulti", K, {}, FALSE).onErr
          /\ At("deleting", o, K, K, FALSE) \in Call /\ ~At("deleting", o, K, K, FALSE).onErr
      BY <1>2, AtFree
    <3> QED BY <2>1, <3>1
  <2>3. ~call[p].onErr /\ UNCHANGED <<mode, tokens, asked>>
    BY <1>1, <1>8 DEF GetMulti, Invalidate
  <2> QED BY <2>1, <2>2, <2>3, Uncharged
<1>9. ASSUME NEW p \in Callers, Read(p) PROVE AskingOnErr' /\ TokensAccounted'
  <2>1. PICK C \in Chunks(call[p].todo) :
          LET todo == call[p].todo \ C
              miss == call[p].miss \union (C \ Present)
          IN Move(p, IF todo # {} THEN At("reading", "getMulti", todo, miss, FALSE)
                     ELSE IF miss # {} THEN At("asking", "getMulti", {}, miss, FALSE)
                     ELSE Out)
    BY <1>9 DEF Read
  <2> DEFINE todo == call[p].todo \ C
             miss == call[p].miss \union (C \ Present)
  <2>2. todo \in SUBSET Keys /\ miss \in SUBSET Keys
    BY <1>1, ChunksType
  <2>3. \E c \in {At("reading", "getMulti", todo, miss, FALSE), At("asking", "getMulti", {}, miss, FALSE), Out} :
          Move(p, c)
    BY <2>1
  <2> HIDE DEF todo, miss
  <2>4. PICK c \in {At("reading", "getMulti", todo, miss, FALSE), At("asking", "getMulti", {}, miss, FALSE), Out} :
          Move(p, c)
    BY <2>3
  <2>5. c \in Call /\ ~c.onErr
    <3>1. /\ At("reading", "getMulti", todo, miss, FALSE) \in Call /\ ~At("reading", "getMulti", todo, miss, FALSE).onErr
          /\ At("asking", "getMulti", {}, miss, FALSE) \in Call /\ ~At("asking", "getMulti", {}, miss, FALSE).onErr
      BY <1>2, <2>2, AtFree
    <3> QED BY <1>0, <2>4, <3>1
  <2>6. ~call[p].onErr /\ UNCHANGED <<mode, tokens, asked>>
    BY <1>1, <1>3, <1>9 DEF Read
  <2> QED BY <2>4, <2>5, <2>6, Uncharged
<1>10. ASSUME NEW p \in Callers, ReadError(p) PROVE AskingOnErr' /\ TokensAccounted'
  <2>1. ~call[p].onErr /\ UNCHANGED <<mode, asked>>
    BY <1>1, <1>10 DEF ReadError
  <2>2. CASE Move(p, Out) /\ UNCHANGED tokens
    BY <1>0, <2>1, <2>2, Uncharged
  <2>3. CASE /\ MayFallBack /\ tokens' = Charged(TRUE)
             /\ \E H : Move(p, At("asking", "getMulti", {}, call[p].todo \ H, TRUE))
    <3>1. PICK H : Move(p, At("asking", "getMulti", {}, call[p].todo \ H, TRUE))
      BY <2>3
    <3> DEFINE m == call[p].todo \ H
    <3>2. m \in SUBSET Keys
      BY <1>1
    <3> HIDE DEF m
    <3>3. /\ At("asking", "getMulti", {}, m, TRUE) \in Call /\ At("asking", "getMulti", {}, m, TRUE).onErr
          /\ At("asking", "getMulti", {}, m, TRUE).at = "asking"
      BY <1>2, <3>2, AtOnErr
    <3>4. Move(p, At("asking", "getMulti", {}, m, TRUE))
      BY <3>1 DEF m
    <3> QED BY <2>1, <2>3, <3>3, <3>4, ChargedOnce
  <2> QED BY <1>10, <2>2, <2>3 DEF ReadError
<1>11. ASSUME NEW p \in Callers, Delete(p) \/ DeleteError(p) PROVE AskingOnErr' /\ TokensAccounted'
  <2>1. call[p].at = "deleting" /\ ~call[p].onErr /\ UNCHANGED <<mode, tokens, asked>>
    BY <1>1, <1>11 DEF Delete, DeleteError
  <2>2. CASE Move(p, Out)
    BY <1>0, <2>1, <2>2, Uncharged
  <2>3. CASE Move(p, At("asking", call[p].op, {}, call[p].miss, FALSE))
    <3>1. /\ At("asking", call[p].op, {}, call[p].miss, FALSE) \in Call
          /\ ~At("asking", call[p].op, {}, call[p].miss, FALSE).onErr
      BY <1>1, <1>2, AtFree
    <3> QED BY <2>1, <2>3, <3>1, Uncharged
  <2>4. CASE \E t \in SUBSET Keys : Move(p, [call[p] EXCEPT !.todo = t])
    <3>1. PICK t \in SUBSET Keys : Move(p, [call[p] EXCEPT !.todo = t])
      BY <2>4
    <3>2. [call[p] EXCEPT !.todo = t] \in Call /\ ~[call[p] EXCEPT !.todo = t].onErr
      BY <1>1, <2>1 DEF Call
    <3> QED BY <2>1, <3>1, <3>2, Uncharged
  <2>5. \A C : call[p].todo \ C \in SUBSET Keys
    BY <1>1
  <2> QED BY <1>11, <2>2, <2>3, <2>4, <2>5 DEF Delete, DeleteError
<1>12. ASSUME NEW p \in Callers, Ask(p) \/ AskError(p) PROVE AskingOnErr' /\ TokensAccounted'
  <2>1. /\ asked' = IF call[p].onErr /\ mode = "limited" THEN asked + 1 ELSE asked
        /\ UNCHANGED <<mode, tokens>>
    BY <1>12 DEF Ask, AskError
  <2>2. PICK c \in {Out, At("setting", call[p].op, {}, {}, FALSE)} : Move(p, c)
    BY <1>12 DEF Ask, AskError, Return
  <2>3. c \in Call /\ ~c.onErr
    <3>1. At("setting", call[p].op, {}, {}, FALSE) \in Call /\ ~At("setting", call[p].op, {}, {}, FALSE).onErr
      BY <1>1, <1>2, AtFree
    <3> QED BY <1>0, <2>2, <3>1
  <2> QED BY <2>1, <2>2, <2>3, AskedOnce
<1>13. ASSUME NEW p \in Callers, Set(p) \/ SetError(p) PROVE AskingOnErr' /\ TokensAccounted'
  <2>1. ~call[p].onErr /\ UNCHANGED <<mode, tokens, asked>>
    BY <1>1, <1>13 DEF Set, SetError
  <2>2. PICK c \in {Out, call[p]} : Move(p, c)
    BY <1>13 DEF Set, SetError, Return
  <2>3. c \in Call /\ ~c.onErr
    BY <1>0, <1>1, <2>1
  <2> QED BY <2>1, <2>2, <2>3, Uncharged
<1>14. ASSUME NEW k \in Keys, Write(k) \/ Expire(k) PROVE AskingOnErr' /\ TokensAccounted'
  BY <1>4, <1>14 DEF Write, Expire
<1>15. CASE UNCHANGED vars
  BY <1>4, <1>15 DEF vars
<1>16. ASSUME NEW p \in Callers, NEW k \in Keys, Refresh(p, k) PROVE AskingOnErr' /\ TokensAccounted'
  BY <1>8, <1>16 DEF Refresh, Ops
<1>17. ASSUME NEW p \in Callers, NEW K \in Some, GetMulti(p, K) \/ Evict(p, K) \/ RefreshMulti(p, K)
       PROVE  AskingOnErr' /\ TokensAccounted'
  BY <1>8, <1>17 DEF Evict, RefreshMulti, Ops, Some
<1> QED BY <1>5, <1>6, <1>7, <1>9, <1>10, <1>11, <1>12, <1>13, <1>14, <1>15, <1>16, <1>17 DEF Next

\* While the store fails, the source is called once for each token taken from
\* the limiter, for any number of callers and tokens, and no miss takes one
\* (box.go:58, 78, 189).
THEOREM TokensAreAccounted == Spec => []TokensAccounted
<1>1. TokenInv => TokensAccounted
  BY DEF TokenInv
<1> QED BY <1>1, InitTokens, NextTokens, PTL DEF Spec

-----------------------------------------------------------------------------
(* What is cached is a row of the source.                                    *)

\* v is what the source says of a key, where that is t, or what it has said: a
\* row, or that there is none.
Real(t, v) == v \in Value /\ v.ver <= t[v.of]
Row(t, v) == Real(t, v) /\ v.ver > 0

\* So is what was fetched and what an entry holds; what a caller that reuses its
\* dst has been given, and an entry may refer to, is a row.
FetchedReal == \A q \in Callers, k \in Keys : fetched[q][k] # NoVer => fetched[q][k] <= truth[k]
GivenReal ==
  \A q \in Callers :
    /\ dst[q] # NoEntry => Row(truth, dst[q])
    /\ Reuse /\ call[q].at = "setting" /\ call[q].op = "get" => Row(truth, dst[q])
StoredReal ==
  \A k \in Keys : store[k] # NoEntry =>
    /\ store[k].of = k /\ store[k].ver <= truth[k]
    /\ store[k].ref # NoCaller => kind = "local" /\ Reuse /\ Row(truth, dst[store[k].ref])
RowInv == FetchedReal /\ GivenReal /\ StoredReal

LEMMA InitRows == Init => RowInv
<1> SUFFICES ASSUME Init PROVE RowInv
  OBVIOUS
<1>1. FetchedReal
  BY DEF Init, FetchedReal, Nothing
<1>2. GivenReal
  BY DEF Init, GivenReal, Out, At
<1>3. StoredReal
  BY DEF Init, StoredReal
<1> QED BY <1>1, <1>2, <1>3 DEF RowInv

LEMMA StaysReal ==
  ASSUME TypeOK, TypeOK', \A k \in Keys : truth'[k] >= truth[k], NEW v, Real(truth, v)
  PROVE  Real(truth', v)
<1>1. v.of \in Keys /\ v.ver \in Nat
  BY DEF Real, Value
<1>2. truth[v.of] \in Nat /\ truth'[v.of] \in Nat
  BY <1>1 DEF TypeOK
<1> QED BY <1>1, <1>2 DEF Real

LEMMA ContentReal ==
  ASSUME TypeOK, RowInv, NEW k \in Keys, store[k] # NoEntry
  PROVE  /\ Real(truth, Content(store[k]))
         /\ Content(store[k]).of = k \/ (kind = "local" /\ Reuse)
         /\ Content(store[k]).ver = 0 => store[k].ver = 0
<1>1. store[k] \in Entry
  BY DEF TypeOK
<1>2. CASE store[k].ref = NoCaller
  <2>1. Content(store[k]) = [of |-> k, ver |-> store[k].ver] /\ store[k].ver \in 0..MaxVer
    BY <1>1, <1>2 DEF Content, RowInv, StoredReal, Entry
  <2> QED BY <2>1 DEF RowInv, StoredReal, Real, Value
<1>3. CASE store[k].ref # NoCaller
  <2>1. Content(store[k]) = dst[store[k].ref] /\ Row(truth, dst[store[k].ref]) /\ kind = "local" /\ Reuse
    BY <1>3 DEF RowInv, StoredReal, Content
  <2>2. dst[store[k].ref].ver \in Nat
    BY <2>1 DEF Row, Real, Value
  <2> QED BY <2>1, <2>2 DEF Row
<1> QED BY <1>2, <1>3

\* The steps that store nothing and fetch nothing.
Idler ==
  /\ UNCHANGED kind
  /\ \A k \in Keys : truth'[k] >= truth[k]
  /\ \A k \in Keys : store'[k] \in {store[k], NoEntry}
  /\ \A q \in Callers, k \in Keys : fetched'[q][k] \in {fetched[q][k], NoVer}
  /\ \A q \in Callers : dst'[q] = dst[q] \/ Row(truth, dst'[q])
  /\ \A q \in Callers : call'[q].at = "setting" => call'[q] = call[q]

LEMMA IdlerRows == TypeOK /\ TypeOK' /\ RowInv /\ Idler => RowInv'
<1> SUFFICES ASSUME TypeOK, TypeOK', RowInv, Idler PROVE RowInv'
  OBVIOUS
<1>1. \A v : Row(truth, v) => Row(truth', v)
  BY StaysReal DEF Idler, Row
<1>2. FetchedReal'
  BY DEF FetchedReal, RowInv, Idler, TypeOK
<1>3. \A q \in Callers : Row(truth, dst[q]) \/ Row(truth, dst'[q]) => Row(truth', dst'[q])
  BY <1>1 DEF Idler
<1>4. GivenReal'
  <2> SUFFICES ASSUME NEW q \in Callers,
                      dst'[q] # NoEntry \/ (Reuse /\ call'[q].at = "setting" /\ call'[q].op = "get")
               PROVE  Row(truth', dst'[q])
    BY DEF GivenReal
  <2> QED BY <1>3 DEF Idler, RowInv, GivenReal
<1>5. StoredReal'
  <2> SUFFICES ASSUME NEW k \in Keys, store'[k] # NoEntry
               PROVE  /\ store'[k].of = k /\ store'[k].ver <= truth'[k]
                      /\ store'[k].ref # NoCaller =>
                           kind' = "local" /\ Reuse /\ Row(truth', dst'[store'[k].ref])
    BY DEF StoredReal
  <2>1. store'[k] = store[k] /\ store[k] \in Entry
    BY DEF Idler, TypeOK
  <2>2. store[k].of = k /\ store[k].ver \in Nat /\ store[k].ver <= truth[k]
    BY <2>1 DEF RowInv, StoredReal, Entry
  <2>3. truth[k] \in Nat /\ truth'[k] \in Nat /\ truth'[k] >= truth[k]
    BY DEF TypeOK, Idler
  <2>4. ASSUME store[k].ref # NoCaller
        PROVE  kind = "local" /\ Reuse /\ Row(truth, dst[store[k].ref]) /\ store[k].ref \in Callers
    BY <2>1, <2>4 DEF RowInv, StoredReal, Entry
  <2> QED BY <1>3, <2>1, <2>2, <2>3, <2>4 DEF Idler
<1> QED BY <1>2, <1>4, <1>5 DEF RowInv

LEMMA AssignReal ==
  ASSUME TypeOK, NEW p \in Callers, NEW v, Row(truth, v), Assign(p, v)
  PROVE  /\ \A q \in Callers : dst'[q] = dst[q] \/ Row(truth, dst'[q])
         /\ Reuse => Row(truth, dst'[p])
BY DEF TypeOK, Assign

LEMMA MoveTo ==
  ASSUME TypeOK, NEW p \in Callers, NEW c, Move(p, c)
  PROVE  \A q \in Callers : call'[q] = IF q = p THEN c ELSE call[q]
BY DEF TypeOK, Move

\* A caller that moves is not setting, or stays as it was.
LEMMA MovesOn ==
  ASSUME TypeOK, NEW p \in Callers, NEW c, Move(p, c), c.at # "setting" \/ c = call[p]
  PROVE  \A q \in Callers : call'[q].at = "setting" => call'[q] = call[q]
BY MoveTo

LEMMA NextRows == TypeOK /\ RowInv /\ [Next]_vars => RowInv'
<1> SUFFICES ASSUME TypeOK, RowInv, [Next]_vars PROVE RowInv'
  OBVIOUS
<1>0. TypeOK'
  BY NextTypes
<1>1. CASE Idler
  BY <1>0, <1>1, IdlerRows
<1>2. \A k \in Keys : truth[k] \in Nat /\ truth[k] >= truth[k]
  BY DEF TypeOK
<1>3. \A place, o, t, m, e : At(place, o, t, m, e).at = place /\ At(place, o, t, m, e).op = o
  BY DEF At
<1>4. Out.at = "out" /\ [Out EXCEPT !.at = "panicked"].at = "panicked"
  BY DEF Out, At
<1>5. ASSUME NEW p \in Callers, NEW k \in Keys, GetHit(p, k) PROVE Idler
  <2>1. UNCHANGED dst \/ (Content(store[k]).ver > 0 /\ Assign(p, Content(store[k])))
    BY <1>5 DEF GetHit
  <2>2. Real(truth, Content(store[k]))
    BY <1>5, ContentReal DEF GetHit
  <2>3. \A q \in Callers : dst'[q] = dst[q] \/ Row(truth, dst'[q])
    BY <2>1, <2>2, AssignReal DEF Row
  <2>4. UNCHANGED call \/ Move(p, [Out EXCEPT !.at = "panicked"])
    BY <1>5 DEF GetHit
  <2>5. \A q \in Callers : call'[q].at = "setting" => call'[q] = call[q]
    BY <1>4, <2>4, MovesOn
  <2> QED BY <1>2, <1>5, <2>3, <2>5 DEF GetHit, Idler
<1>6. ASSUME NEW p \in Callers, UNCHANGED <<kind, store, truth, fetched, dst>>,
             NEW c, Move(p, c), c.at # "setting" \/ c = call[p]
      PROVE  Idler
  <2>1. \A q \in Callers : call'[q].at = "setting" => call'[q] = call[q]
    BY <1>6, MovesOn
  <2> QED BY <1>2, <1>6, <2>1 DEF Idler
<1>7. ASSUME NEW p \in Callers, NEW k \in Keys, GetMiss(p, k) \/ GetError(p, k) \/ Refresh(p, k) PROVE Idler
  <2>1. UNCHANGED <<kind, store, truth, fetched, dst>>
    BY <1>7 DEF GetMiss, GetError, Refresh, Invalidate
  <2>2. \E place \in {"asking", "deleting"} : \E o, t, m, e : Move(p, At(place, o, t, m, e))
    BY <1>7 DEF GetMiss, GetError, Refresh, Invalidate
  <2> QED BY <1>3, <1>6, <2>1, <2>2
<1>8. ASSUME NEW p \in Callers, NEW K \in Some, GetMulti(p, K) \/ Evict(p, K) \/ RefreshMulti(p, K) PROVE Idler
  <2>1. UNCHANGED <<kind, store, truth, fetched, dst>>
    BY <1>8 DEF GetMulti, Evict, RefreshMulti, Invalidate
  <2>2. \E place \in {"reading", "deleting"} : \E o, t, m, e : Move(p, At(place, o, t, m, e))
    BY <1>8 DEF GetMulti, Evict, RefreshMulti, Invalidate
  <2> QED BY <1>3, <1>6, <2>1, <2>2
<1>9. ASSUME NEW p \in Callers, Read(p) \/ ReadError(p) \/ AskError(p) PROVE Idler
  <2>1. UNCHANGED <<kind, store, truth, fetched, dst>>
    BY <1>9 DEF Read, ReadError, AskError
  <2>2. \/ Move(p, Out)
        \/ \E place \in {"reading", "asking"} : \E o, t, m, e : Move(p, At(place, o, t, m, e))
    BY <1>9 DEF Read, ReadError, AskError
  <2> QED BY <1>3, <1>4, <1>6, <2>1, <2>2
<1>10. ASSUME NEW p \in Callers, Delete(p) PROVE Idler
  <2>1. PICK C : /\ store' = Without(C)
                 /\ \/ Move(p, [call[p] EXCEPT !.todo = call[p].todo \ C]) \/ Move(p, Out)
                    \/ Move(p, At("asking", call[p].op, {}, call[p].miss, FALSE))
    BY <1>10 DEF Delete, Removed
  <2>2. call[p].at = "deleting" /\ UNCHANGED <<kind, truth, fetched, dst>>
    BY <1>10 DEF Delete
  <2>3. [call[p] EXCEPT !.todo = call[p].todo \ C].at = "deleting"
    BY <2>2 DEF TypeOK, Call
  <2>4. \A q \in Callers : call'[q].at = "setting" => call'[q] = call[q]
    <3>1. CASE Move(p, [call[p] EXCEPT !.todo = call[p].todo \ C])
      BY <2>3, <3>1, MovesOn
    <3>2. CASE Move(p, Out)
      BY <1>4, <3>2, MovesOn
    <3>3. CASE Move(p, At("asking", call[p].op, {}, call[p].miss, FALSE))
      <4> DEFINE c == At("asking", call[p].op, {}, call[p].miss, FALSE)
      <4>1. c.at # "setting"
        BY DEF At
      <4>2. Move(p, c)
        BY <3>3
      <4> HIDE DEF c
      <4> QED BY <4>1, <4>2, MovesOn
    <3> QED BY <2>1, <3>1, <3>2, <3>3
  <2>5. \A k \in Keys : store'[k] \in {store[k], NoEntry}
    BY <2>1 DEF Without
  <2> QED BY <1>2, <2>2, <2>4, <2>5 DEF Idler
<1>11. ASSUME NEW p \in Callers, DeleteError(p) PROVE Idler
  <2>1. \A q \in Callers : call'[q].at = "setting" => call'[q] = call[q]
    BY <1>4, <1>11, MovesOn DEF DeleteError
  <2>2. \A k \in Keys : store'[k] \in {store[k], NoEntry}
    BY <1>11 DEF DeleteError, Without
  <2> QED BY <1>2, <1>11, <2>1, <2>2 DEF DeleteError, Idler
<1>12. ASSUME NEW p \in Callers, SetError(p) PROVE Idler
  <2>1. \A q \in Callers : call'[q].at = "setting" => call'[q] = call[q]
    BY <1>4, <1>12, MovesOn DEF SetError, Return
  <2>2. \A q \in Callers, k \in Keys : fetched'[q][k] \in {fetched[q][k], NoVer}
    BY <1>12 DEF SetError, Return, Nothing, TypeOK
  <2> QED BY <1>2, <1>12, <2>1, <2>2 DEF SetError, Idler
<1>13. ASSUME NEW k \in Keys, Write(k) PROVE Idler
  <2>1. \A j \in Keys : truth'[j] >= truth[j]
    BY <1>2, <1>13 DEF Write, TypeOK
  <2> QED BY <1>13, <2>1 DEF Write, Idler
<1>14. ASSUME NEW k \in Keys, Expire(k) PROVE Idler
  BY <1>2, <1>14 DEF Expire, Without, Idler
<1>15. ASSUME UNCHANGED vars PROVE Idler
  <2>1. UNCHANGED <<kind, store, truth, call, fetched, dst>>
    BY <1>15 DEF vars
  <2> QED BY <1>2, <2>1 DEF Idler
<1>16. ASSUME NEW p \in Callers, Ask(p) PROVE RowInv'
  <2>1. UNCHANGED <<kind, store, truth>>
    BY <1>16 DEF Ask
  <2>2. PICK R \in Kept(p) :
          IF R = {} THEN Return(p) /\ UNCHANGED dst
          ELSE /\ fetched' = [fetched EXCEPT ![p] = [k \in Keys |-> IF k \in R THEN truth[k] ELSE NoVer]]
               /\ Move(p, At("setting", call[p].op, {}, {}, FALSE))
               /\ IF call[p].op = "get"
                  THEN \E k \in R : Assign(p, [of |-> k, ver |-> truth[k]])
                  ELSE UNCHANGED dst
    BY <1>16 DEF Ask
  <2>3. R \subseteq Keys
    BY CallFields DEF Kept, There, TypeOK
  <2>4. CASE R = {}
    <3>1. \A q \in Callers, k \in Keys : fetched'[q][k] \in {fetched[q][k], NoVer}
      BY <2>2, <2>4 DEF Return, Nothing, TypeOK
    <3>2. \A q \in Callers : call'[q].at = "setting" => call'[q] = call[q]
      BY <1>4, <2>2, <2>4, MovesOn DEF Return
    <3> QED BY <1>1, <1>2, <2>1, <2>2, <2>4, <3>1, <3>2 DEF Idler
  <2>5. CASE R # {}
    <3>1. FetchedReal'
      <4>1. \A q \in Callers, k \in Keys : fetched'[q][k] \in {fetched[q][k], NoVer, truth[k]}
        <5>1. fetched'[p] = [k \in Keys |-> IF k \in R THEN truth[k] ELSE NoVer]
          BY <2>2, <2>5 DEF TypeOK
        <5>2. \A q \in Callers \ {p} : fetched'[q] = fetched[q]
          BY <2>2, <2>5 DEF TypeOK
        <5> QED BY <5>1, <5>2
      <4> QED BY <1>2, <2>1, <4>1 DEF RowInv, FetchedReal
    <3>2. /\ \A q \in Callers : dst'[q] = dst[q] \/ Row(truth, dst'[q])
          /\ call[p].op = "get" /\ Reuse => Row(truth, dst'[p])
      <4>1. CASE UNCHANGED dst /\ call[p].op # "get"
        BY <4>1
      <4>2. CASE call[p].op = "get" /\ \E k \in R : Assign(p, [of |-> k, ver |-> truth[k]])
        <5>1. PICK k \in R : Assign(p, [of |-> k, ver |-> truth[k]])
          BY <4>2
        <5> DEFINE v == [of |-> k, ver |-> truth[k]]
        <5>2. Row(truth, v)
          <6>1. k \in Keys /\ truth[k] \in 0..MaxVer /\ truth[k] <= truth[k] /\ truth[k] > 0
            BY <1>2, <2>3, <4>2 DEF TypeOK, Kept, There
          <6>2. v.of = k /\ v.ver = truth[k] /\ v \in [of: Keys, ver: 0..MaxVer]
            BY <6>1
          <6> QED BY <6>1, <6>2 DEF Row, Real, Value
        <5>3. Assign(p, v)
          BY <5>1
        <5> HIDE DEF v
        <5> QED BY <5>2, <5>3, AssignReal
      <4> QED BY <2>2, <2>5, <4>1, <4>2
    <3>4. \A q \in Callers : call'[q] = IF q = p THEN At("setting", call[p].op, {}, {}, FALSE) ELSE call[q]
      BY <2>2, <2>5, MoveTo
    <3>5. \A q \in Callers : call'[q].at = "setting" /\ call'[q].op = "get" /\ q # p =>
            call[q].at = "setting" /\ call[q].op = "get"
      BY <3>4
    <3>7. GivenReal'
      <4> SUFFICES ASSUME NEW q \in Callers,
                          dst'[q] # NoEntry \/ (Reuse /\ call'[q].at = "setting" /\ call'[q].op = "get")
                   PROVE  Row(truth', dst'[q])
        BY DEF GivenReal
      <4>1. Row(truth, dst'[q])
        <5>1. dst'[q] = dst[q] \/ Row(truth, dst'[q])
          BY <3>2
        <5>2. CASE dst'[q] # NoEntry
          BY <5>1, <5>2 DEF RowInv, GivenReal
        <5>3. CASE Reuse /\ call'[q].at = "setting" /\ call'[q].op = "get" /\ q = p
          <6>1. call[p].op = "get"
            BY <3>4, <5>3 DEF At
          <6> QED BY <3>2, <5>3, <6>1
        <5>4. CASE Reuse /\ call'[q].at = "setting" /\ call'[q].op = "get" /\ q # p
          BY <3>5, <5>1, <5>4 DEF RowInv, GivenReal
        <5> QED BY <5>2, <5>3, <5>4
      <4> QED BY <2>1, <4>1
    <3>8. StoredReal'
      <4> SUFFICES ASSUME NEW k \in Keys, store'[k] # NoEntry
                   PROVE  /\ store'[k].of = k /\ store'[k].ver <= truth'[k]
                          /\ store'[k].ref # NoCaller =>
                               kind' = "local" /\ Reuse /\ Row(truth', dst'[store'[k].ref])
        BY DEF StoredReal
      <4>1. store'[k] = store[k] /\ store[k] \in Entry /\ store[k].of = k /\ store[k].ver <= truth'[k]
        BY <2>1 DEF TypeOK, RowInv, StoredReal
      <4>2. store[k].ref # NoCaller => kind = "local" /\ Reuse /\ Row(truth, dst'[store[k].ref])
        BY <2>1, <3>2, <4>1 DEF Entry, RowInv, StoredReal
      <4> QED BY <2>1, <4>1, <4>2
    <3> QED BY <3>1, <3>7, <3>8 DEF RowInv
  <2> QED BY <2>4, <2>5
<1>17. ASSUME NEW p \in Callers, Set(p) PROVE RowInv'
  <2>1. call[p].at = "setting" /\ UNCHANGED <<kind, truth, dst>>
    BY <1>17 DEF Set
  <2>2. PICK k \in Keys :
          /\ fetched[p][k] # NoVer
          /\ store' = [store EXCEPT ![k] =
               [of |-> k, ver |-> fetched[p][k],
                ref |-> IF kind = "local" /\ Reuse /\ call[p].op = "get" THEN p ELSE NoCaller]]
          /\ fetched' = [fetched EXCEPT ![p][k] = NoVer]
    BY <1>17 DEF Set
  <2>3. \A q \in Callers, j \in Keys : fetched'[q][j] \in {fetched[q][j], NoVer}
    BY <2>2 DEF TypeOK
  <2>4. \A j \in Keys : store'[j] = IF j = k THEN [of |-> k, ver |-> fetched[p][k],
            ref |-> IF kind = "local" /\ Reuse /\ call[p].op = "get" THEN p ELSE NoCaller] ELSE store[j]
    BY <2>2 DEF TypeOK
  <2>5. Move(p, Out) \/ Move(p, call[p])
    BY <1>17 DEF Set
  <2>6. \A q \in Callers : call'[q].at = "setting" => call'[q] = call[q]
    BY <1>4, <2>5, MovesOn
  <2>7. FetchedReal'
    BY <2>1, <2>3 DEF RowInv, FetchedReal
  <2>8. GivenReal'
    BY <2>1, <2>6 DEF RowInv, GivenReal
  <2>9. StoredReal'
    <3> SUFFICES ASSUME NEW j \in Keys, store'[j] # NoEntry
                 PROVE  /\ store'[j].of = j /\ store'[j].ver <= truth[j]
                        /\ store'[j].ref # NoCaller => kind = "local" /\ Reuse /\ Row(truth, dst[store'[j].ref])
      BY <2>1 DEF StoredReal
    <3>1. CASE j = k
      BY <2>1, <2>2, <2>4, <3>1 DEF RowInv, FetchedReal, GivenReal
    <3>2. CASE j # k
      BY <2>4, <3>2 DEF RowInv, StoredReal
    <3> QED BY <3>1, <3>2
  <2> QED BY <2>7, <2>8, <2>9 DEF RowInv
<1> QED BY <1>1, <1>5, <1>7, <1>8, <1>9, <1>10, <1>11, <1>12, <1>13, <1>14, <1>15, <1>16, <1>17 DEF Next

LEMMA RowsHold == Spec => [](TypeOK /\ RowInv)
BY InitTypes, NextTypes, InitRows, NextRows, PTL DEF Spec

\* Whoever reads an entry gets a row that the source has or had, never one it
\* did not have: with either store, with a dst that is reused or not, whatever
\* fails (box.go:68-436).
THEOREM NothingInvented == Spec => [](\A k \in Keys : store[k] # NoEntry => Real(truth, Content(store[k])))
<1>1. TypeOK /\ RowInv => \A k \in Keys : store[k] # NoEntry => Real(truth, Content(store[k]))
  BY ContentReal
<1> QED BY <1>1, RowsHold, PTL

\* With RedisStore, and with LocalStore as long as no caller uses a dst twice,
\* it is a row of the entry's own key: OwnRow fails for no other reason than
\* the pointer LocalStore keeps (box.go:100, gcache.go:149).
THEOREM OwnUnlessShared == Spec => [](OwnRow \/ (kind = "local" /\ Reuse))
<1>1. TypeOK /\ RowInv => OwnRow \/ (kind = "local" /\ Reuse)
  BY ContentReal DEF OwnRow
<1> QED BY <1>1, RowsHold, PTL

-----------------------------------------------------------------------------
(* The nil of a row that is not there.                                       *)

\* Only refreshMulti has one to store.
NilInv ==
  \A q \in Callers, k \in Keys :
    fetched[q][k] = 0 => call[q].at = "setting" /\ call[q].op = "refreshMulti"

\* The steps that fetch nothing: a caller that stops setting has nothing left.
LEMMA NilMoves ==
  ASSUME TypeOK, NilInv, NEW p \in Callers, NEW c, Move(p, c),
         \A q \in Callers, k \in Keys : fetched'[q][k] \in {fetched[q][k], NoVer},
         call[p].at # "setting" \/ c = call[p] \/ fetched'[p] = Nothing
  PROVE  NilInv'
<1>1. \A q \in Callers : call'[q] = IF q = p THEN c ELSE call[q]
  BY MoveTo
<1>2. NoVer # 0 /\ \A k \in Keys : Nothing[k] # 0
  BY NoneAssumption DEF Nothing
<1> QED BY <1>1, <1>2 DEF NilInv

LEMMA NextNil == TypeOK /\ NilInv /\ [Next]_vars => NilInv'
<1> SUFFICES ASSUME TypeOK, NilInv, [Next]_vars PROVE NilInv'
  OBVIOUS
<1>1. ASSUME UNCHANGED <<call, fetched>> PROVE NilInv'
  BY <1>1 DEF NilInv
<1>2. ASSUME NEW p \in Callers, call[p].at # "setting", UNCHANGED fetched, \E c : Move(p, c) PROVE NilInv'
  BY <1>2, NilMoves
<1>3. ASSUME NEW p \in Callers, NEW k \in Keys,
             GetHit(p, k) \/ GetMiss(p, k) \/ GetError(p, k) \/ Refresh(p, k)
      PROVE  NilInv'
  <2>1. call[p].at # "setting" /\ UNCHANGED fetched /\ (UNCHANGED call \/ \E c : Move(p, c))
    BY <1>3 DEF GetHit, GetMiss, GetError, Refresh, Invalidate
  <2> QED BY <1>1, <1>2, <2>1
<1>4. ASSUME NEW p \in Callers, NEW K \in Some, GetMulti(p, K) \/ Evict(p, K) \/ RefreshMulti(p, K)
      PROVE  NilInv'
  <2>1. call[p].at # "setting" /\ UNCHANGED fetched /\ \E c : Move(p, c)
    BY <1>4 DEF GetMulti, Evict, RefreshMulti, Invalidate
  <2> QED BY <1>2, <2>1
<1>5. ASSUME NEW p \in Callers, Read(p) \/ ReadError(p) \/ Delete(p) \/ DeleteError(p) \/ AskError(p)
      PROVE  NilInv'
  <2>1. call[p].at # "setting" /\ UNCHANGED fetched /\ \E c : Move(p, c)
    BY <1>5 DEF Read, ReadError, Delete, DeleteError, AskError
  <2> QED BY <1>2, <2>1
<1>6. ASSUME NEW p \in Callers, Ask(p) PROVE NilInv'
  <2>1. PICK R \in Kept(p) :
          \/ R = {} /\ Return(p)
          \/ /\ fetched' = [fetched EXCEPT ![p] = [k \in Keys |-> IF k \in R THEN truth[k] ELSE NoVer]]
             /\ Move(p, At("setting", call[p].op, {}, {}, FALSE))
    BY <1>6 DEF Ask
  <2>2. CASE Return(p)
    <3>1. \A q \in Callers, k \in Keys : fetched'[q][k] \in {fetched[q][k], NoVer}
      BY <2>2 DEF Return, Nothing, TypeOK
    <3>2. call[p].at # "setting" /\ \E c : Move(p, c)
      BY <1>6, <2>2 DEF Ask, Return
    <3> QED BY <3>1, <3>2, NilMoves
  <2>3. CASE /\ fetched' = [fetched EXCEPT ![p] = [k \in Keys |-> IF k \in R THEN truth[k] ELSE NoVer]]
             /\ Move(p, At("setting", call[p].op, {}, {}, FALSE))
    <3>1. \A q \in Callers : call'[q] = IF q = p THEN At("setting", call[p].op, {}, {}, FALSE) ELSE call[q]
      BY <2>3, MoveTo
    <3>2. call'[p].at = "setting" /\ call'[p].op = call[p].op
      BY <3>1 DEF At
    <3>3. /\ \A k \in Keys : fetched'[p][k] = IF k \in R THEN truth[k] ELSE NoVer
          /\ \A q \in Callers \ {p} : fetched'[q] = fetched[q]
      BY <2>3 DEF TypeOK
    <3>4. ASSUME NEW k \in Keys, fetched'[p][k] = 0 PROVE call[p].op = "refreshMulti"
      <4>1. k \in R /\ truth[k] = 0
        BY <3>3, <3>4, NoneAssumption
      <4>2. k \notin There(call[p].miss)
        BY <4>1 DEF There
      <4> QED BY <4>1, <4>2 DEF Kept
    <3> QED BY <3>1, <3>2, <3>3, <3>4 DEF NilInv
  <2> QED BY <2>1, <2>2, <2>3
<1>7. ASSUME NEW p \in Callers, Set(p) \/ SetError(p) PROVE NilInv'
  <2>1. \A q \in Callers, k \in Keys : fetched'[q][k] \in {fetched[q][k], NoVer}
    <3>1. CASE SetError(p)
      BY <3>1 DEF SetError, Return, Nothing, TypeOK
    <3>2. CASE Set(p)
      <4>1. PICK k \in Keys : fetched' = [fetched EXCEPT ![p][k] = NoVer]
        BY <3>2 DEF Set
      <4> QED BY <4>1 DEF TypeOK
    <3> QED BY <1>7, <3>1, <3>2
  <2>2. \E c : Move(p, c) /\ (c = call[p] \/ fetched'[p] = Nothing)
    <3>1. CASE SetError(p)
      BY <3>1 DEF SetError, Return, TypeOK
    <3>2. CASE Set(p)
      BY <3>2 DEF Set
    <3> QED BY <1>7, <3>1, <3>2
  <2> QED BY <2>1, <2>2, NilMoves
<1>8. ASSUME NEW k \in Keys, Write(k) \/ Expire(k) PROVE NilInv'
  BY <1>1, <1>8 DEF Write, Expire
<1>9. CASE UNCHANGED vars
  BY <1>1, <1>9 DEF vars
<1> QED BY <1>3, <1>4, <1>5, <1>6, <1>7, <1>8, <1>9 DEF Next

\* What a nil is stored by, and what it does.
StoredByRefresh ==
  \A k \in Keys : store'[k] # store[k] /\ store'[k] # NoEntry /\ store'[k].ver = 0 =>
    \E p \in Callers : call[p].at = "setting" /\ call[p].op = "refreshMulti"
PanicsOnNil ==
  \A p \in Callers : call'[p].at = "panicked" /\ call[p].at # "panicked" =>
    kind = "local" /\ \E k \in Keys : store[k] # NoEntry /\ store[k].ver = 0

LEMMA NilsStored == TypeOK /\ NilInv /\ [Next]_vars => StoredByRefresh
<1> SUFFICES ASSUME TypeOK, NilInv, [Next]_vars PROVE StoredByRefresh
  OBVIOUS
<1>1. ASSUME \A k \in Keys : store'[k] \in {store[k], NoEntry} PROVE StoredByRefresh
  BY <1>1 DEF StoredByRefresh
<1>2. ASSUME NEW p \in Callers, NEW k \in Keys,
             GetHit(p, k) \/ GetMiss(p, k) \/ GetError(p, k) \/ Refresh(p, k)
      PROVE  StoredByRefresh
  BY <1>1, <1>2 DEF GetHit, GetMiss, GetError, Refresh, Invalidate
<1>3. ASSUME NEW p \in Callers, NEW K \in Some, GetMulti(p, K) \/ Evict(p, K) \/ RefreshMulti(p, K)
      PROVE  StoredByRefresh
  BY <1>1, <1>3 DEF GetMulti, Evict, RefreshMulti, Invalidate
<1>4. ASSUME NEW p \in Callers, Read(p) \/ ReadError(p) \/ Ask(p) \/ AskError(p) \/ SetError(p)
      PROVE  StoredByRefresh
  BY <1>1, <1>4 DEF Read, ReadError, Ask, AskError, SetError
<1>5. ASSUME NEW p \in Callers, Delete(p) \/ DeleteError(p) PROVE StoredByRefresh
  <2>1. \A k \in Keys : store'[k] \in {store[k], NoEntry}
    BY <1>5 DEF Delete, DeleteError, Without
  <2> QED BY <1>1, <2>1
<1>6. ASSUME NEW p \in Callers, Set(p) PROVE StoredByRefresh
  <2>1. PICK k \in Keys :
          store' = [store EXCEPT ![k] =
               [of |-> k, ver |-> fetched[p][k],
                ref |-> IF kind = "local" /\ Reuse /\ call[p].op = "get" THEN p ELSE NoCaller]]
    BY <1>6 DEF Set
  <2>2. store'[k].ver = fetched[p][k] /\ \A j \in Keys \ {k} : store'[j] = store[j]
    BY <2>1 DEF TypeOK
  <2> QED BY <2>2 DEF StoredByRefresh, NilInv
<1>7. ASSUME NEW k \in Keys, Write(k) \/ Expire(k) PROVE StoredByRefresh
  <2>1. \A j \in Keys : store'[j] \in {store[j], NoEntry}
    BY <1>7 DEF Write, Expire, Without
  <2> QED BY <1>1, <2>1
<1>8. CASE UNCHANGED vars
  BY <1>1, <1>8 DEF vars
<1> QED BY <1>2, <1>3, <1>4, <1>5, <1>6, <1>7, <1>8 DEF Next

LEMMA NilsPanic == TypeOK /\ RowInv /\ [Next]_vars => PanicsOnNil
<1> SUFFICES ASSUME TypeOK, RowInv, [Next]_vars PROVE PanicsOnNil
  OBVIOUS
<1>1. CASE UNCHANGED call
  BY <1>1 DEF PanicsOnNil
<1>2. ASSUME NEW p \in Callers, NEW c, Move(p, c), c.at # "panicked" \/ c = call[p] PROVE PanicsOnNil
  BY <1>2, MoveTo DEF PanicsOnNil
<1>3. Out.at # "panicked" /\ \A place, o, t, m, e : At(place, o, t, m, e).at = place
  BY DEF Out, At
<1>4. ASSUME NEW p \in Callers, NEW place \in Places \ {"panicked"},
             \E o, t, m, e : Move(p, At(place, o, t, m, e))
      PROVE  PanicsOnNil
  BY <1>2, <1>3, <1>4
<1>5. ASSUME NEW p \in Callers, NEW k \in Keys, GetHit(p, k) PROVE PanicsOnNil
  <2> DEFINE v == Content(store[k])
  <2>1. store[k] # NoEntry /\ Real(truth, v) /\ (v.ver = 0 => store[k].ver = 0)
    BY <1>5, ContentReal DEF GetHit
  <2>2. v.ver \in Nat
    BY <2>1 DEF Real, Value
  <2>3. UNCHANGED call \/ (kind = "local" /\ ~(v.ver > 0))
    BY <1>5 DEF GetHit
  <2> HIDE DEF v
  <2>4. CASE kind = "local" /\ ~(v.ver > 0)
    BY <2>1, <2>2, <2>4 DEF PanicsOnNil
  <2> QED BY <1>1, <2>3, <2>4
<1>6. ASSUME NEW p \in Callers, NEW k \in Keys, GetMiss(p, k) \/ GetError(p, k) \/ Refresh(p, k) PROVE PanicsOnNil
  <2>1. \E place \in {"asking", "deleting"} : \E o, t, m, e : Move(p, At(place, o, t, m, e))
    BY <1>6 DEF GetMiss, GetError, Refresh, Invalidate
  <2> QED BY <1>4, <2>1 DEF Places
<1>7. ASSUME NEW p \in Callers, NEW K \in Some, GetMulti(p, K) \/ Evict(p, K) \/ RefreshMulti(p, K)
      PROVE  PanicsOnNil
  <2>1. \E place \in {"reading", "deleting"} : \E o, t, m, e : Move(p, At(place, o, t, m, e))
    BY <1>7 DEF GetMulti, Evict, RefreshMulti, Invalidate
  <2> QED BY <1>4, <2>1 DEF Places
<1>8. ASSUME NEW p \in Callers, Read(p) \/ ReadError(p) \/ AskError(p) \/ DeleteError(p) PROVE PanicsOnNil
  <2>1. \/ Move(p, Out)
        \/ \E place \in {"reading", "asking"} : \E o, t, m, e : Move(p, At(place, o, t, m, e))
    BY <1>8 DEF Read, ReadError, AskError, DeleteError
  <2> QED BY <1>2, <1>3, <1>4, <2>1 DEF Places
<1>9. ASSUME NEW p \in Callers, Delete(p) PROVE PanicsOnNil
  <2>1. PICK C : \/ Move(p, [call[p] EXCEPT !.todo = call[p].todo \ C])
                 \/ Move(p, Out)
                 \/ Move(p, At("asking", call[p].op, {}, call[p].miss, FALSE))
    BY <1>9 DEF Delete
  <2>2. [call[p] EXCEPT !.todo = call[p].todo \ C].at = "deleting"
    BY <1>9 DEF Delete, TypeOK, Call
  <2>3. CASE Move(p, [call[p] EXCEPT !.todo = call[p].todo \ C])
    BY <1>2, <2>2, <2>3
  <2>4. CASE Move(p, Out)
    BY <1>2, <1>3, <2>4
  <2>5. CASE Move(p, At("asking", call[p].op, {}, call[p].miss, FALSE))
    <3>1. \E o, t, m, e : Move(p, At("asking", o, t, m, e))
      BY <2>5
    <3> QED BY <1>4, <3>1 DEF Places
  <2> QED BY <2>1, <2>3, <2>4, <2>5
<1>10. ASSUME NEW p \in Callers, Ask(p) PROVE PanicsOnNil
  <2>1. Move(p, Out) \/ \E o, t, m, e : Move(p, At("setting", o, t, m, e))
    BY <1>10 DEF Ask, Return
  <2> QED BY <1>2, <1>3, <1>4, <2>1 DEF Places
<1>11. ASSUME NEW p \in Callers, Set(p) \/ SetError(p) PROVE PanicsOnNil
  <2>1. Move(p, Out) \/ Move(p, call[p])
    BY <1>11 DEF Set, SetError, Return
  <2> QED BY <1>2, <1>3, <2>1
<1>12. ASSUME NEW k \in Keys, Write(k) \/ Expire(k) PROVE PanicsOnNil
  BY <1>1, <1>12 DEF Write, Expire
<1>13. CASE UNCHANGED vars
  BY <1>1, <1>13 DEF vars
<1> QED BY <1>5, <1>6, <1>7, <1>8, <1>9, <1>10, <1>11, <1>12, <1>13 DEF Next

\* The nil of a row that is not there gets into the cache in one way only, with
\* RefreshMulti, and a Get panics for no other reason than such a nil in
\* LocalStore: an entry that refers to a caller's dst never leads to one
\* (box.go:84-87, 433; gcache.go:59-62).
THEOREM NilsAreRefreshed == Spec => [][StoredByRefresh /\ PanicsOnNil]_vars
<1>1. Init => NilInv
  BY NoneAssumption DEF Init, NilInv, Nothing
<1>2. TypeOK /\ RowInv /\ NilInv /\ [Next]_vars => StoredByRefresh /\ PanicsOnNil
  BY NilsStored, NilsPanic
<1>3. TypeOK /\ RowInv /\ NilInv /\ [Next]_vars => [StoredByRefresh /\ PanicsOnNil]_vars
  BY <1>2
<1> QED BY <1>1, <1>3, NextNil, RowsHold, PTL DEF Spec

=============================================================================
