------------------------------- MODULE Cache -------------------------------
(***************************************************************************)
(* onecache.Cache (src/onecache/box.go) over a Store (src/onecache/store): *)
(* the calls of several goroutines that read a source through the cache,   *)
(* evict keys and refresh them, while the source is updated by others.     *)
(*                                                                         *)
(* Each access to the store or to the source (the fallback function) is a  *)
(* step of its own: the code holds no lock from one to the next. A value   *)
(* is a key and the version of its row in the source; version 0 stands for *)
(* a row that is not there, for which the fallback gives a nil pointer.    *)
(* Values are pointers or structs of one type: no type mismatch occurs.    *)
(***************************************************************************)
EXTENDS Integers, FiniteSets

CONSTANTS
  Callers,    \* goroutines that use the cache
  Keys,
  NoCaller, NoVer, NoEntry,
  Kinds,      \* the stores: "redis" (RedisStore) or "local" (LocalStore)
  Modes,      \* of fallbackWhenError: "never", "always", or "limited" by a limiter
  Reuse,      \* whether a caller passes the same dst variable to each Get
  MaxVer,     \* bound on the updates of a row
  MaxTokens   \* what the limiter has to give

Vers == 0..MaxVer
Value == [of: Keys, ver: Vers]
Entry == [of: Keys, ver: Vers, ref: Callers \union {NoCaller}]

ASSUME BoundAssumption == MaxVer \in Nat /\ MaxTokens \in Nat /\ Reuse \in BOOLEAN
ASSUME StoreAssumption == Kinds \subseteq {"redis", "local"} /\ Modes \subseteq {"never", "always", "limited"}
ASSUME CallersAssumption == IsFiniteSet(Callers) /\ NoCaller \notin Callers
ASSUME NoneAssumption == NoVer \notin Nat /\ NoEntry \notin Entry

VARIABLES
  kind, mode,  \* what NewCache was given
  store,       \* the entry of each key, or NoEntry
  truth,       \* the version of each row in the source
  tokens,      \* what is left in the limiter
  call,        \* where each caller is
  fetched,     \* what each caller read from the source and has not stored yet
  dst,         \* the variable each caller has passed to Get, when it is reused
  \* history, which no action reads
  asked,       \* calls of the source that an error of the store led to
  mark,        \* of each key, the source's version when it was last deleted
  inFlight     \* and the versions that callers were about to store then

history == <<asked, mark, inFlight>>
deletions == <<mark, inFlight>>
vars == <<kind, mode, store, truth, tokens, call, fetched, dst, history>>

Ops == {"get", "getMulti", "evict", "refresh", "refreshMulti"}
Places == {"out", "reading", "deleting", "asking", "setting", "panicked"}
Call == [at: Places, op: Ops, todo: SUBSET Keys, miss: SUBSET Keys, onErr: BOOLEAN]

At(place, o, todo, miss, err) == [at |-> place, op |-> o, todo |-> todo, miss |-> miss, onErr |-> err]
Out == At("out", "get", {}, {}, FALSE)
Nothing == [k \in Keys |-> NoVer]

Init ==
  /\ kind \in Kinds /\ mode \in Modes
  /\ store = [k \in Keys |-> NoEntry]
  /\ truth = [k \in Keys |-> 0]
  /\ tokens = MaxTokens
  /\ call = [p \in Callers |-> Out]
  /\ fetched = [p \in Callers |-> Nothing]
  /\ dst = [p \in Callers |-> NoEntry]
  /\ asked = 0
  /\ mark = [k \in Keys |-> 0]
  /\ inFlight = [k \in Keys |-> {}]

-----------------------------------------------------------------------------
(* Helpers. A definition marked faulty is what the one below it must not be:
   the properties are tested against it. *)

Move(p, c) == call' = [call EXCEPT ![p] = c]
Return(p) == Move(p, Out) /\ fetched' = [fetched EXCEPT ![p] = Nothing]

\* canFallbackWhenError, asked for only when the store gave an error other
\* than "not found", and the tokens it leaves
MayFallBack == mode = "always" \/ (mode = "limited" /\ tokens > 0)
ChargedAlways(err) == IF mode = "limited" /\ tokens > 0 THEN tokens - 1 ELSE tokens  \* faulty
ChargedTwice(err) == IF err /\ mode = "limited" THEN tokens - 2 ELSE tokens          \* faulty
Charged(err) == IF err /\ mode = "limited" THEN tokens - 1 ELSE tokens

\* What an entry holds: LocalStore keeps the pointer Cache.get gives it, which
\* is the caller's own dst.
Content(e) == IF e.ref = NoCaller THEN [of |-> e.of, ver |-> e.ver] ELSE dst[e.ref]

\* dst is remembered only if the caller will use it again.
Assign(p, v) == dst' = IF Reuse THEN [dst EXCEPT ![p] = v] ELSE dst

Present == {k \in Keys : store[k] # NoEntry}
Without(C) == [k \in Keys |-> IF k \in C THEN NoEntry ELSE store[k]]

-----------------------------------------------------------------------------
(* Get. *)

\* A nil that RefreshMulti stored comes back from Redis as "null", which sets
\* nothing; LocalStore.Get panics on it.
GetHit(p, k) ==
  /\ call[p].at = "out" /\ store[k] # NoEntry
  /\ LET v == Content(store[k]) IN
       IF v.ver > 0 THEN Assign(p, v) /\ UNCHANGED call
       ELSE /\ UNCHANGED dst
            /\ IF kind = "local" THEN Move(p, [Out EXCEPT !.at = "panicked"]) ELSE UNCHANGED call
  /\ UNCHANGED <<kind, mode, store, truth, tokens, fetched, history>>

GetMiss(p, k) ==
  /\ call[p].at = "out" /\ store[k] = NoEntry
  /\ Move(p, At("asking", "get", {}, {k}, FALSE))
  /\ tokens' = Charged(FALSE)
  /\ UNCHANGED <<kind, mode, store, truth, fetched, dst, history>>

\* Redis, or the decoding, fails. When the cache may not fall back, Get
\* returns the error and nothing changes.
GetError(p, k) ==
  /\ call[p].at = "out" /\ kind = "redis" /\ MayFallBack
  /\ Move(p, At("asking", "get", {}, {k}, TRUE))
  /\ tokens' = Charged(TRUE)
  /\ UNCHANGED <<kind, mode, store, truth, fetched, dst, history>>

-----------------------------------------------------------------------------
(* GetMulti. *)

GetMulti(p, K) ==
  /\ call[p].at = "out"
  /\ Move(p, At("reading", "getMulti", K, {}, FALSE))
  /\ UNCHANGED <<kind, mode, store, truth, tokens, fetched, dst, history>>

\* RedisStore reads all the keys at once, LocalStore one by one.
Chunks(K) == IF kind = "redis" THEN {K} ELSE {{k} : k \in K}

Read(p) ==
  /\ call[p].at = "reading"
  /\ \E C \in Chunks(call[p].todo) :
       LET todo == call[p].todo \ C
           miss == call[p].miss \union (C \ Present)
       IN Move(p, IF todo # {} THEN At("reading", "getMulti", todo, miss, FALSE)
                  ELSE IF miss # {} THEN At("asking", "getMulti", {}, miss, FALSE)
                  ELSE Out)
  /\ tokens' = Charged(FALSE)
  /\ UNCHANGED <<kind, mode, store, truth, fetched, dst, history>>

\* An error, after the values of H were decoded: they count as found.
ReadError(p) ==
  /\ call[p].at = "reading" /\ kind = "redis"
  /\ \/ /\ MayFallBack
        /\ \E H \in SUBSET (call[p].todo \intersect Present) :
             H # call[p].todo /\ Move(p, At("asking", "getMulti", {}, call[p].todo \ H, TRUE))
        /\ tokens' = Charged(TRUE)
     \/ ~MayFallBack /\ Move(p, Out) /\ UNCHANGED tokens
  /\ UNCHANGED <<kind, mode, store, truth, fetched, dst, history>>

-----------------------------------------------------------------------------
(* Evict, EvictMulti, Refresh and RefreshMulti start with a Delete. *)

Invalidate(p, o, K) ==
  /\ call[p].at = "out"
  /\ Move(p, At("deleting", o, K, K, FALSE))
  /\ UNCHANGED <<kind, mode, store, truth, tokens, fetched, dst, history>>

Evict(p, K) == Invalidate(p, "evict", K)
Refresh(p, k) == Invalidate(p, "refresh", {k})
RefreshMulti(p, K) == Invalidate(p, "refreshMulti", K)

\* the keys a Delete removes
AllButOne(C) == C \ {CHOOSE k \in C : TRUE}                           \* faulty
Removed(C) == C

\* what a Delete of the keys C finds
Held(k) == {fetched[q][k] : q \in Callers} \ {NoVer}
Settle(C) ==
  /\ mark' = [k \in Keys |-> IF k \in C THEN truth[k] ELSE mark[k]]
  /\ inFlight' = [k \in Keys |-> IF k \in C THEN Held(k) ELSE inFlight[k]]

Delete(p) ==
  /\ call[p].at = "deleting"
  /\ \E C \in Chunks(call[p].todo) :
       /\ store' = Without(Removed(C))
       /\ Settle(C)
       /\ LET todo == call[p].todo \ C IN
          Move(p, IF todo # {} THEN [call[p] EXCEPT !.todo = todo]
                  ELSE IF call[p].op = "evict" THEN Out
                  ELSE At("asking", call[p].op, {}, call[p].miss, FALSE))
  /\ UNCHANGED <<kind, mode, truth, tokens, fetched, dst, asked>>

\* The call ends with an error, whether Redis has run the command or not.
DeleteError(p) ==
  /\ call[p].at = "deleting" /\ kind = "redis"
  /\ store' \in {store, Without(call[p].todo)}
  /\ Move(p, Out)
  /\ UNCHANGED <<kind, mode, truth, tokens, fetched, dst, history>>

-----------------------------------------------------------------------------
(* The fallback function, and what is done with its result. *)

There(K) == {k \in K : truth[k] > 0}

\* the rows a call stores: a nil is skipped, but not by refreshMulti, which
\* takes the ones the fallback leaves in its map
Kept(p) ==
  IF call[p].op = "refreshMulti" THEN {R \in SUBSET call[p].miss : There(call[p].miss) \subseteq R}
  ELSE {There(call[p].miss)}

Ask(p) ==
  /\ call[p].at = "asking"
  /\ \E R \in Kept(p) :
       IF R = {} THEN Return(p) /\ UNCHANGED dst
       ELSE /\ fetched' = [fetched EXCEPT ![p] = [k \in Keys |-> IF k \in R THEN truth[k] ELSE NoVer]]
            /\ Move(p, At("setting", call[p].op, {}, {}, FALSE))
            /\ IF call[p].op = "get"
               THEN \E k \in R : Assign(p, [of |-> k, ver |-> truth[k]])
               ELSE UNCHANGED dst
  /\ asked' = IF call[p].onErr /\ mode = "limited" THEN asked + 1 ELSE asked
  /\ UNCHANGED <<kind, mode, store, truth, tokens, deletions>>

\* The fallback returns an error, and so does the call.
AskError(p) ==
  /\ call[p].at = "asking"
  /\ Move(p, Out)
  /\ asked' = IF call[p].onErr /\ mode = "limited" THEN asked + 1 ELSE asked
  /\ UNCHANGED <<kind, mode, store, truth, tokens, fetched, dst, deletions>>

\* Set, or one command of SetMulti, which is atomic in neither store.
Set(p) ==
  /\ call[p].at = "setting"
  /\ \E k \in Keys :
       /\ fetched[p][k] # NoVer
       /\ store' = [store EXCEPT ![k] =
            [of |-> k, ver |-> fetched[p][k],
             ref |-> IF kind = "local" /\ Reuse /\ call[p].op = "get" THEN p ELSE NoCaller]]
       /\ fetched' = [fetched EXCEPT ![p][k] = NoVer]
  /\ Move(p, IF fetched'[p] = Nothing THEN Out ELSE call[p])
  /\ UNCHANGED <<kind, mode, truth, tokens, dst, history>>

\* Redis fails: get and getMulti ignore it, the others return the error.
SetError(p) ==
  /\ call[p].at = "setting" /\ kind = "redis"
  /\ Return(p)
  /\ UNCHANGED <<kind, mode, store, truth, tokens, dst, history>>

-----------------------------------------------------------------------------
(* What is around the cache. *)

\* A row of the source is inserted or updated.
Write(k) ==
  /\ truth[k] < MaxVer
  /\ truth' = [truth EXCEPT ![k] = @ + 1]
  /\ UNCHANGED <<kind, mode, store, tokens, call, fetched, dst, history>>

\* An entry reaches its expiry, or the LRU drops it.
Expire(k) ==
  /\ store[k] # NoEntry
  /\ store' = Without({k})
  /\ UNCHANGED <<kind, mode, truth, tokens, call, fetched, dst, history>>

-----------------------------------------------------------------------------

Some == SUBSET Keys \ {{}}

Next ==
  \/ \E p \in Callers, k \in Keys : GetHit(p, k) \/ GetMiss(p, k) \/ GetError(p, k) \/ Refresh(p, k)
  \/ \E p \in Callers, K \in Some : GetMulti(p, K) \/ Evict(p, K) \/ RefreshMulti(p, K)
  \/ \E p \in Callers : Read(p) \/ ReadError(p) \/ Delete(p) \/ DeleteError(p)
                        \/ Ask(p) \/ AskError(p) \/ Set(p) \/ SetError(p)
  \/ \E k \in Keys : Write(k) \/ Expire(k)

Spec == Init /\ [][Next]_vars

-----------------------------------------------------------------------------
(* Properties. *)

TypeOK ==
  /\ kind \in Kinds /\ mode \in Modes
  /\ store \in [Keys -> Entry \union {NoEntry}]
  /\ truth \in [Keys -> Vers] /\ mark \in [Keys -> Vers] /\ inFlight \in [Keys -> SUBSET Vers]
  /\ tokens \in Nat /\ asked \in Nat
  /\ call \in [Callers -> Call]
  /\ fetched \in [Callers -> [Keys -> Vers \union {NoVer}]]
  /\ dst \in [Callers -> Value \union {NoEntry}]

\* What a key was deleted for stays out of the cache, whichever calls, a Get or a
\* Refresh begun earlier included, store what they have read: an older row than the
\* source had when the key was last deleted is one that a caller had read by then
\* and not yet stored. Such a row may come back, and the code does nothing against
\* it; nothing older, and nothing read later, does (box.go:100, 252, 279, 308, 317,
\* 340, 397, 435).
NeverOlder ==
  \A k \in Keys : store[k] # NoEntry => store[k].ver >= mark[k] \/ store[k].ver \in inFlight[k]

\* While the store fails, the source is called once for each token the limiter
\* gave and a token is spent on nothing else: a miss costs none (box.go:58, 78,
\* 189).
TokensAccounted ==
  mode = "limited" => asked + tokens + Cardinality({p \in Callers : call[p].onErr}) = MaxTokens

\* What the cache holds for a key is a row of that key: "Set set key and value"
\* (store/store.go:60), "Get from backend and store the value in dst" (41). It
\* fails when a caller reuses its dst with LocalStore.
OwnRow == \A k \in Keys : store[k] # NoEntry => Content(store[k]).of = k

=============================================================================
