--------------------------- MODULE ExchangeProofs ---------------------------
(***************************************************************************)
(* Theorems about Exchange, for all callers, goroutines, readers, chains   *)
(* of middleware and kinds of response: its types, that nothing of a pool  *)
(* is in two hands, whose answer a response holds, what nil means, and     *)
(* how the middleware counts and answers.                                  *)
(***************************************************************************)
EXTENDS Exchange, FiniteSetTheorems, TLAPS

-----------------------------------------------------------------------------
(* The clients. *)

\* The end of a Call, whatever it returns.
LEMMA FinishType ==
  ASSUME Net!TypeOK, NEW t \in Tasks, by[t] \in Callers, NEW how \in {"ok", "error"},
         Net!Finish(t, how), res' \in [Callers -> Net!Bytes \union {None}]
  PROVE  Net!TypeOK'
<1> USE DEF Net!TypeOK, Net!Finish, Net!Places
<1>1. /\ at' \in [Tasks -> Net!Places] /\ text' \in [Tasks -> Net!Bytes \union {None}]
      /\ heard' \in [Tasks -> {"whole", "part", "cut"}]
  OBVIOUS
<1>2. /\ reader' \in [Tasks -> Readers \union {None}] /\ buffer' \in [Tasks -> Buffers \union {None}]
      /\ pool' \subseteq Readers /\ buffers' \subseteq Buffers
  BY DEF Net!PutBack
<1>3. source' \in [Readers -> Tasks \union {NoTask}] /\ content' \in [Buffers -> Tasks \union {NoTask}]
  OBVIOUS
<1>4. waits' \in [Callers -> Tasks \union {NoTask}] /\ returned' \in [Callers -> {"none", "ok", "error", "timeout"}]
  OBVIOUS
<1> QED BY <1>1, <1>2, <1>3, <1>4 DEF Net!setup

\* What is in nobody's hands is in the pool: f says what each goroutine has of R.
Shared(R, P, f) ==
  /\ \A t, u \in Tasks : t # u /\ f[t] # None => f[t] # f[u]
  /\ \A t \in Tasks : f[t] \notin P
  /\ \A r \in R : r \in P \/ \E t \in Tasks : f[t] = r

\* A goroutine that has none finds one: there are no more goroutines than R.
LEMMA SomeLeft ==
  ASSUME NEW R, NEW P, NEW f \in [Tasks -> R \union {None}], None \notin R, Shared(R, P, f),
         Cardinality(R) >= Cardinality(Tasks), NEW t \in Tasks, f[t] = None
  PROVE  Net!Any(P) \in P
<1>1. ASSUME P = {} PROVE FALSE
  <2> DEFINE S == {u \in Tasks : f[u] # None}
             g == [u \in S |-> f[u]]
  <2>1. g \in Surjection(S, R)
    BY <1>1 DEF Surjection, Shared
  <2>2. S \subseteq Tasks \ {t}
    OBVIOUS
  <2> HIDE DEF S, g
  <2>3. IsFiniteSet(Tasks \ {t}) /\ Cardinality(Tasks \ {t}) = Cardinality(Tasks) - 1
    BY PoolAssumption, FS_RemoveElement
  <2>4. IsFiniteSet(S) /\ Cardinality(S) <= Cardinality(Tasks \ {t})
    BY <2>2, <2>3, FS_Subset
  <2>5. IsFiniteSet(R) /\ Cardinality(R) <= Cardinality(S)
    BY <2>1, <2>4, FS_Surjection
  <2>6. Cardinality(R) \in Nat /\ Cardinality(S) \in Nat /\ Cardinality(Tasks) \in Nat
    BY <2>4, <2>5, PoolAssumption, FS_CardinalityType
  <2> QED BY <2>3, <2>4, <2>5, <2>6
<1> QED BY <1>1 DEF Net!Any

Late == {"zipped", "unzipping", "decoding"}

\* Whose a goroutine is, and where it has a reader, a response and bytes.
Fits(t) ==
  /\ at[t] # "unborn" => by[t] \in Callers
  /\ reader[t] # None => at[t] \in {"unzipping", "decoding"}
  /\ at[t] = "unzipping" => reader[t] # None
  /\ reader[t] # None => source[reader[t]] = t
  /\ buffer[t] # None => at[t] \notin {"unborn", "building", "done"}
  /\ at[t] \in Late => text[t] = Net!Own(t)

HandInv ==
  /\ Net!TypeOK
  /\ Shared(Readers, pool, reader) /\ Shared(Buffers, buffers, buffer)
  /\ \A t \in Tasks : Fits(t)

\* The end of a Call, and what it leaves in the response.
Ending(t, how) ==
  /\ Net!Finish(t, how) /\ Net!Running(t)
  /\ how \in {"ok", "error"}
  /\ \/ how = "error" /\ res' = res
     \/ res' = [res EXCEPT ![by[t]] = Net!Own(t)]

LEMMA EndingType ==
  ASSUME HandInv, NEW t \in Tasks, NEW how, Ending(t, how)
  PROVE  Net!TypeOK'
<1>1. by[t] \in Callers /\ how \in {"ok", "error"}
  BY DEF HandInv, Fits, Ending, Net!Running
<1>2. Net!Own(t) \in Net!Bytes
  BY DEF Net!Bytes
<1>3. res' \in [Callers -> Net!Bytes \union {None}]
  BY <1>1, <1>2 DEF Ending, HandInv, Net!TypeOK
<1> QED BY <1>1, <1>3, FinishType DEF HandInv, Ending

LEMMA EndingHands ==
  ASSUME HandInv, NEW t \in Tasks, NEW how, Ending(t, how)
  PROVE  HandInv'
<1> USE DEF HandInv, Fits, Net!TypeOK
<1>1. Net!TypeOK'
  BY EndingType
<1>2. /\ pool' = pool \union ({reader[t]} \ {None}) /\ reader' = [reader EXCEPT ![t] = None]
      /\ buffers' = buffers \union ({buffer[t]} \ {None}) /\ buffer' = [buffer EXCEPT ![t] = None]
      /\ source' = [r \in Readers |-> IF r = reader[t] THEN NoTask ELSE source[r]]
      /\ at' = [at EXCEPT ![t] = "done"] /\ text' = [text EXCEPT ![t] = None] /\ by' = by
  BY DEF Ending, Net!Finish, Net!PutBack
<1>3. Shared(Readers, pool', reader')
  BY <1>2, NoneAssumption DEF Shared
<1>4. Shared(Buffers, buffers', buffer')
  BY <1>2, NoneAssumption DEF Shared
<1>5. ASSUME NEW u \in Tasks PROVE Fits(u)'
  <2>1. CASE u = t
    BY <1>2, <2>1 DEF Late, Ending, Net!Running
  <2>2. CASE u # t
    BY <1>2, <2>2 DEF Shared
  <2> QED BY <2>1, <2>2
<1> QED BY <1>1, <1>3, <1>4, <1>5

\* The steps that end a Call.
FailsCall(t) ==
  \/ Net!BuildFails(t) \/ Net!DoFails(t) \/ Net!ReadFails(t)
  \/ Net!NilReader(t) \/ Net!UnzipFails(t) \/ Net!DecodeFails(t)
EndsCall(t) == FailsCall(t) \/ Copy(t) \/ Net!Decode(t)

LEMMA EndingsAre ==
  ASSUME HandInv, NEW t \in Tasks
  PROVE  /\ FailsCall(t) => Ending(t, "error")
         /\ Net!Copy(t) \/ Net!Decode(t) => Ending(t, "ok")
<1> USE DEF Ending, Net!Fails, Net!FailsAmid, Net!Running
<1>1. ASSUME Net!BuildFails(t) \/ Net!DoFails(t) \/ Net!ReadFails(t) PROVE Ending(t, "error")
  BY <1>1 DEF Net!BuildFails, Net!DoFails, Net!ReadFails
<1>2. ASSUME Net!NilReader(t) \/ Net!UnzipFails(t) \/ Net!DecodeFails(t) PROVE Ending(t, "error")
  BY <1>2 DEF Net!NilReader, Net!UnzipFails, Net!DecodeFails, HandInv, Fits, Late
<1>3. ASSUME Net!Copy(t) PROVE Ending(t, "ok")
  BY <1>3 DEF Net!Copy
<1>4. ASSUME Net!Decode(t) PROVE Ending(t, "ok")
  BY <1>4 DEF Net!Decode, HandInv, Fits, Late
<1> HIDE DEF Ending
<1> QED BY <1>1, <1>2, <1>3, <1>4 DEF FailsCall

\* The steps that do not.
LEMMA SendHands ==
  ASSUME HandInv, NEW t \in Tasks, Net!Send(t)
  PROVE  HandInv'
<1> USE DEF HandInv, Fits, Net!TypeOK
<1>1. /\ at[t] = "building" /\ at' = [at EXCEPT ![t] = "sent"] /\ buffer[t] = None /\ reader[t] = None
      /\ UNCHANGED <<kind, target, waits, returned, last, late, by, text, heard, pool, source, reader, res, content>>
  BY DEF Net!Send, Net!GoTo, Net!setup, Net!calls
<1>2. Shared(Buffers, buffers', buffer') /\ buffer' \in [Tasks -> Buffers \union {None}] /\ buffers' \subseteq Buffers
      /\ \A u \in Tasks : u # t => buffer'[u] = buffer[u]
  <2>1. CASE UNCHANGED <<buffers, buffer>>
    BY <2>1
  <2>2. CASE ~UNCHANGED <<buffers, buffer>>
    <3> DEFINE b == Net!Any(buffers)
    <3>1. b \in buffers
      BY <1>1, SomeLeft, NoneAssumption, PoolAssumption
    <3>2. buffers' = buffers \ {b} /\ buffer' = [buffer EXCEPT ![t] = b]
      BY <2>2 DEF Net!Send
    <3> HIDE DEF b
    <3>3. Shared(Buffers, buffers', buffer')
      BY <1>1, <3>1, <3>2, NoneAssumption DEF Shared
    <3> QED BY <3>1, <3>2, <3>3
  <2> QED BY <2>1, <2>2
<1>3. Net!TypeOK'
  BY <1>1, <1>2 DEF Net!Places
<1>4. ASSUME NEW u \in Tasks PROVE Fits(u)'
  BY <1>1, <1>2 DEF Late
<1> QED BY <1>1, <1>2, <1>3, <1>4

LEMMA GetReaderHands ==
  ASSUME HandInv, NEW t \in Tasks, Net!GetReader(t)
  PROVE  HandInv'
<1> USE DEF HandInv, Fits, Net!TypeOK
<1> DEFINE r == Net!Any(pool)
<1>1. /\ at[t] = "zipped" /\ at' = [at EXCEPT ![t] = "unzipping"] /\ reader[t] = None
      /\ UNCHANGED <<kind, target, waits, returned, last, late, by, text, heard, buffers, buffer, content, res>>
      /\ pool' = pool \ {r} /\ reader' = [reader EXCEPT ![t] = r] /\ source' = [source EXCEPT ![r] = t]
  BY DEF Net!GetReader, Net!GoTo, Net!Taken, Net!setup, Net!calls
<1>2. r \in pool
  BY <1>1, SomeLeft, NoneAssumption, PoolAssumption
<1> HIDE DEF r
<1>3. Shared(Readers, pool', reader') /\ pool' \subseteq Readers /\ reader' \in [Tasks -> Readers \union {None}]
  BY <1>1, <1>2, NoneAssumption DEF Shared
<1>4. Net!TypeOK'
  BY <1>1, <1>2, <1>3 DEF Net!Places
<1>5. ASSUME NEW u \in Tasks PROVE Fits(u)'
  <2>1. r # None /\ reader[u] # r
    BY <1>2, NoneAssumption DEF Shared
  <2>2. CASE u = t
    BY <1>1, <1>2, <2>1, <2>2 DEF Late
  <2>3. CASE u # t
    BY <1>1, <1>2, <2>1, <2>3 DEF Late
  <2> QED BY <2>2, <2>3
<1> QED BY <1>1, <1>3, <1>4, <1>5

LEMMA OtherHands ==
  ASSUME HandInv, NEW t \in Tasks,
         Net!Receive(t) \/ (\E how \in {"whole", "part", "cut"} : Net!Read(t, how)) \/ Net!Unzip(t)
  PROVE  HandInv'
<1> USE DEF HandInv, Fits, Net!TypeOK
<1>1. PICK place \in Net!Places \ {"unborn", "unzipping", "done", "building"} : at' = [at EXCEPT ![t] = place]
  BY DEF Net!Receive, Net!Read, Net!Unzip, Net!GoTo, Net!Places
<1>2. /\ UNCHANGED <<kind, target, waits, returned, last, late, by, pool, buffers, source, reader, buffer, res>>
      /\ at[t] \in {"sent", "reading", "unzipping"}
  BY DEF Net!Receive, Net!Read, Net!Unzip, Net!GoTo, Net!setup, Net!calls, Net!pools
<1>3. /\ heard' \in [Tasks -> {"whole", "part", "cut"}]
      /\ content' \in [Buffers -> Tasks \union {NoTask}]
      /\ text' = text \/ text' = [text EXCEPT ![t] = Net!Own(t)]
  BY DEF Net!Receive, Net!Read, Net!Unzip, Net!pools, Net!BodyOf
<1>4. Net!TypeOK'
  <2>1. Net!Own(t) \in Net!Bytes
    BY DEF Net!Bytes
  <2>2. text' \in [Tasks -> Net!Bytes \union {None}] /\ at' \in [Tasks -> Net!Places]
    BY <1>1, <1>3, <2>1
  <2> QED BY <1>2, <1>3, <2>2
<1>5. /\ reader[t] # None => place = "decoding"
      /\ place \in Late => text' = [text EXCEPT ![t] = Net!Own(t)]
  <2>1. CASE Net!Receive(t)
    BY <1>1, <1>2, <2>1 DEF Net!Receive, Net!GoTo, Late
  <2>2. CASE \E how \in {"whole", "part", "cut"} : Net!Read(t, how)
    BY <1>1, <1>2, <2>2 DEF Net!Read, Net!GoTo, Net!BodyOf
  <2>3. CASE Net!Unzip(t)
    <3>1. place = "decoding" /\ text' = [text EXCEPT ![t] = Net!Own(source[reader[t]])]
      BY <1>1, <2>3 DEF Net!Unzip, Net!GoTo
    <3>2. source[reader[t]] = t
      BY <2>3 DEF Net!Unzip
    <3> QED BY <3>1, <3>2
  <2> QED BY <2>1, <2>2, <2>3
<1>6. ASSUME NEW u \in Tasks PROVE Fits(u)'
  <2>1. CASE u = t
    BY <1>1, <1>2, <1>3, <1>5, <2>1
  <2>2. CASE u # t
    BY <1>1, <1>2, <1>3, <2>2
  <2> QED BY <2>1, <2>2
<1> QED BY <1>2, <1>4, <1>6

LEMMA CallerHands ==
  ASSUME HandInv, NEW p \in Callers, (\E t \in Tasks : Net!Call(p, t)) \/ Net!TimeOut(p)
  PROVE  HandInv'
<1> USE DEF HandInv, Fits, Net!TypeOK
<1>1. CASE Net!TimeOut(p)
  <2>1. /\ UNCHANGED <<kind, target, last, late, at, by, text, heard, pool, buffers, source, content, reader, buffer, res>>
        /\ waits' \in [Callers -> Tasks \union {NoTask}]
        /\ returned' \in [Callers -> {"none", "ok", "error", "timeout"}]
    BY <1>1 DEF Net!TimeOut, Net!setup, Net!pools
  <2> QED BY <2>1
<1>2. ASSUME NEW t \in Tasks, Net!Call(p, t) PROVE HandInv'
  <2>1. /\ UNCHANGED <<kind, target, text, heard, pool, buffers, source, content, reader, buffer, res>>
        /\ at[t] = "unborn" /\ at' = [at EXCEPT ![t] = "building"] /\ by' = [by EXCEPT ![t] = p]
    BY <1>2 DEF Net!Call, Net!setup, Net!pools
  <2>2. /\ waits' \in [Callers -> Tasks \union {NoTask}] /\ last' \in [Callers -> Tasks \union {NoTask}]
        /\ returned' \in [Callers -> {"none", "ok", "error", "timeout"}] /\ late' \in [Callers -> SUBSET Tasks]
    BY <1>2 DEF Net!Call
  <2>3. Net!TypeOK'
    BY <2>1, <2>2 DEF Net!Places
  <2>4. ASSUME NEW u \in Tasks PROVE Fits(u)'
    BY <2>1 DEF Late
  <2> QED BY <2>1, <2>3, <2>4
<1> QED BY <1>1, <1>2

\* What Next is for the clients.
LEMMA ClientCases ==
  ASSUME NEW t \in Tasks, Client(t)
  PROVE  \/ EndsCall(t) /\ UNCHANGED servers
         \/ Send(t) \/ Receive(t) \/ Read(t)
         \/ (Net!GetReader(t) \/ Net!Unzip(t)) /\ UNCHANGED servers
BY DEF Client, EndsCall, FailsCall, Net!Works, DoFails, Copy

LEMMA NextHands == HandInv /\ [Next]_vars => HandInv'
<1> SUFFICES ASSUME HandInv, [Next]_vars PROVE HandInv'
  OBVIOUS
<1>1. ASSUME NEW p \in Callers, Caller(p) PROVE HandInv'
  BY <1>1, CallerHands DEF Caller
<1>2. ASSUME NEW t \in Tasks, Client(t) PROVE HandInv'
  <2>1. CASE EndsCall(t)
    BY <2>1, EndingsAre, EndingHands DEF EndsCall, Copy
  <2>2. CASE Send(t)
    BY <2>2, SendHands DEF Send
  <2>3. CASE Receive(t)
    BY <2>3, OtherHands DEF Receive
  <2>4. CASE Read(t)
    <3>1. \E how \in {"whole", "part", "cut"} : Net!Read(t, how)
      BY <2>4 DEF Read
    <3> QED BY <3>1, OtherHands
  <2>5. CASE Net!GetReader(t) \/ Net!Unzip(t)
    BY <2>5, GetReaderHands, OtherHands
  <2> QED BY <1>2, <2>1, <2>2, <2>3, <2>4, <2>5, ClientCases
<1>3. ASSUME UNCHANGED clients PROVE HandInv'
  BY <1>3 DEF clients, HandInv, Fits, Net!TypeOK, Shared, Late
<1> QED BY <1>1, <1>2, <1>3 DEF Next, Server, vars

LEMMA InitHands == Init => HandInv
<1> SUFFICES ASSUME Init PROVE HandInv
  OBVIOUS
<1> USE DEF Init, Net!Init
<1>1. Shared(Readers, pool, reader) /\ Shared(Buffers, buffers, buffer)
  BY NoneAssumption DEF Shared
<1>2. \A t \in Tasks : Fits(t)
  BY DEF Fits, Late
<1>3. <<kind, target>> \in Setups /\ target \in [Callers -> Net!Res]
  <2>1. PICK s \in Setups : kind = s[1] /\ target = s[2]
    OBVIOUS
  <2>2. s \in {"standard", "fast"} \X [Callers -> Net!Res]
    BY SetupsAssumption
  <2>3. s = <<kind, target>>
    BY <2>1, <2>2
  <2> QED BY <2>1, <2>2, <2>3
<1>4. /\ at \in [Tasks -> Net!Places] /\ source \in [Readers -> Tasks \union {NoTask}]
      /\ content \in [Buffers -> Tasks \union {NoTask}] /\ waits \in [Callers -> Tasks \union {NoTask}]
      /\ returned \in [Callers -> {"none", "ok", "error", "timeout"}]
      /\ heard \in [Tasks -> {"whole", "part", "cut"}] /\ res \in [Callers -> Net!Bytes \union {None}]
  BY DEF Net!Places
<1>5. Net!TypeOK
  BY <1>3, <1>4 DEF Net!TypeOK
<1> QED BY <1>1, <1>2, <1>5 DEF HandInv

-----------------------------------------------------------------------------
(* Whose answer a response holds. *)

\* A caller waits for the goroutine of its last Call and for no other; once that
\* Call has returned nil its goroutine is done. The goroutines of a caller that
\* run are that one and late ones, and what its response holds is of one of its
\* goroutines: of one of those, when the Call returned nil.
Left(p, t) == res[p] = Net!Own(t) /\ at[t] # "unborn" /\ by[t] = p

CallInv ==
  /\ \A p \in Callers : waits[p] # NoTask => /\ waits[p] = last[p] /\ by[last[p]] = p
                                             /\ Net!Running(last[p]) /\ returned[p] = "none"
  /\ \A p \in Callers : returned[p] = "ok" => last[p] \in Tasks /\ by[last[p]] = p /\ at[last[p]] = "done"
  /\ \A p \in Callers, t \in Tasks : Net!Running(t) /\ by[t] = p => t \in {last[p]} \union late[p]
  /\ \A p \in Callers : returned[p] = "ok" => \E t \in {last[p]} \union late[p] : res[p] = Net!Own(t)
  /\ \A p \in Callers : res[p] # None => \E t \in Tasks : Left(p, t)

LEMMA EndingCalls ==
  ASSUME HandInv, CallInv, NEW t \in Tasks, NEW how, Ending(t, how)
  PROVE  CallInv'
<1> DEFINE q == by[t]
<1>1. /\ q \in Callers /\ at[t] \notin {"unborn", "done"} /\ at' = [at EXCEPT ![t] = "done"]
      /\ UNCHANGED <<last, late, by>>
      /\ at \in [Tasks -> Net!Places] /\ waits \in [Callers -> Tasks \union {NoTask}]
      /\ last \in [Callers -> Tasks \union {NoTask}]
      /\ res \in [Callers -> Net!Bytes \union {None}]
      /\ returned \in [Callers -> {"none", "ok", "error", "timeout"}]
  BY DEF Ending, Net!Finish, Net!Running, HandInv, Fits, Net!TypeOK
<1>2. /\ res' = res \/ res' = [res EXCEPT ![q] = Net!Own(t)]
      /\ how = "ok" => res' = [res EXCEPT ![q] = Net!Own(t)]
      /\ how \in {"ok", "error"}
  BY DEF Ending
<1>3. IF waits[q] = t
      THEN waits' = [waits EXCEPT ![q] = NoTask] /\ returned' = [returned EXCEPT ![q] = how]
      ELSE UNCHANGED <<waits, returned>>
  BY DEF Ending, Net!Finish
<1>4. t \in {last[q]} \union late[q]
  BY <1>1 DEF CallInv, Net!Running
<1> HIDE DEF q
<1>5. ASSUME NEW p \in Callers, waits'[p] # NoTask
      PROVE  /\ waits'[p] = last'[p] /\ by'[last'[p]] = p
             /\ at'[last'[p]] \notin {"unborn", "done"} /\ returned'[p] = "none"
  <2>1. waits'[p] = waits[p] /\ returned'[p] = returned[p] /\ (p = q => waits[p] # t)
    BY <1>1, <1>3, <1>5
  <2>2. waits[p] = last[p] /\ by[last[p]] = p /\ at[last[p]] \notin {"unborn", "done"} /\ returned[p] = "none"
    BY <1>5, <2>1 DEF CallInv, Net!Running
  <2>3. last[p] # t
    BY <2>1, <2>2 DEF q
  <2>4. last[p] \in Tasks
    BY <1>1, <1>5, <2>1, <2>2
  <2> QED BY <1>1, <2>1, <2>2, <2>3, <2>4
<1>6. ASSUME NEW p \in Callers, returned'[p] = "ok"
      PROVE  /\ last'[p] \in Tasks /\ by'[last'[p]] = p /\ at'[last'[p]] = "done"
             /\ \E u \in {last'[p]} \union late'[p] : res'[p] = Net!Own(u)
  <2>1. CASE p = q /\ waits[q] = t
    <3>1. last[p] = t /\ by[last[p]] = p /\ how = "ok"
      BY <1>1, <1>3, <1>6, <2>1, NoneAssumption DEF CallInv
    <3> QED BY <1>1, <1>2, <2>1, <3>1
  <2>2. CASE ~(p = q /\ waits[q] = t)
    <3>1. returned[p] = "ok"
      BY <1>1, <1>3, <1>6, <2>2
    <3>2. last[p] \in Tasks /\ by[last[p]] = p /\ at[last[p]] = "done"
      BY <3>1 DEF CallInv
    <3>3. \E u \in {last[p]} \union late[p] : res[p] = Net!Own(u)
      BY <3>1 DEF CallInv
    <3>4. res'[p] = res[p] \/ (p = q /\ res'[p] = Net!Own(t))
      BY <1>1, <1>2
    <3>5. \E u \in {last[p]} \union late[p] : res'[p] = Net!Own(u)
      BY <1>4, <3>3, <3>4
    <3> QED BY <1>1, <3>2, <3>5
  <2> QED BY <2>1, <2>2
<1>7. ASSUME NEW p \in Callers, NEW u \in Tasks, at'[u] \notin {"unborn", "done"}, by'[u] = p
      PROVE  u \in {last'[p]} \union late'[p]
  BY <1>1, <1>7 DEF CallInv, Net!Running
<1>8. ASSUME NEW p \in Callers, res'[p] # None
      PROVE  \E u \in Tasks : Left(p, u)'
  <2>1. CASE p = q /\ res' = [res EXCEPT ![q] = Net!Own(t)]
    BY <1>1, <2>1 DEF Left, q
  <2>2. CASE ~(p = q /\ res' = [res EXCEPT ![q] = Net!Own(t)])
    <3>1. res'[p] = res[p]
      BY <1>1, <1>2, <2>2
    <3>2. PICK u \in Tasks : Left(p, u)
      BY <1>8, <3>1 DEF CallInv
    <3> QED BY <1>1, <3>1, <3>2 DEF Left
  <2> QED BY <2>1, <2>2
<1> QED BY <1>5, <1>6, <1>7, <1>8 DEF CallInv, Net!Running

\* The steps between, by which a goroutine goes on.
LEMMA OngoingCalls ==
  ASSUME HandInv, CallInv, NEW t \in Tasks, NEW place \in Net!Places \ {"unborn", "done"},
         Net!GoTo(t, place), at[t] \notin {"unborn", "done"}, res' = res
  PROVE  CallInv'
<1>1. /\ at' = [at EXCEPT ![t] = place] /\ UNCHANGED <<waits, returned, last, late, by, res>>
      /\ at \in [Tasks -> Net!Places] /\ last \in [Callers -> Tasks \union {NoTask}]
      /\ waits \in [Callers -> Tasks \union {NoTask}]
  BY DEF Net!GoTo, Net!calls, HandInv, Net!TypeOK
<1>2. \A u \in Tasks : at'[u] \in {"unborn", "done"} <=> at[u] \in {"unborn", "done"}
  BY <1>1
<1>3. \A u \in Tasks : at[u] = "done" => at'[u] = "done"
  BY <1>1
<1>4. \A p \in Callers, u \in Tasks : Left(p, u) => Left(p, u)'
  BY <1>1 DEF Left
<1> QED BY <1>1, <1>2, <1>3, <1>4 DEF CallInv, Net!Running

LEMMA CallCalls ==
  ASSUME HandInv, CallInv, NEW p \in Callers, NEW t \in Tasks, Net!Call(p, t)
  PROVE  CallInv'
<1>1. /\ waits[p] = NoTask /\ at[t] = "unborn" /\ res' = res
      /\ at' = [at EXCEPT ![t] = "building"] /\ by' = [by EXCEPT ![t] = p]
      /\ waits' = [waits EXCEPT ![p] = t] /\ last' = [last EXCEPT ![p] = t]
      /\ returned' = [returned EXCEPT ![p] = "none"]
      /\ late' = [late EXCEPT ![p] = {u \in Tasks : Net!Running(u) /\ by[u] = p}]
  BY DEF Net!Call
<1>2. /\ at \in [Tasks -> Net!Places] /\ last \in [Callers -> Tasks \union {NoTask}]
      /\ waits \in [Callers -> Tasks \union {NoTask}] /\ by \in [Tasks -> Callers \union {None}]
      /\ returned \in [Callers -> {"none", "ok", "error", "timeout"}] /\ late \in [Callers -> SUBSET Tasks]
  BY DEF HandInv, Net!TypeOK
<1>3. ASSUME NEW q \in Callers, waits'[q] # NoTask
      PROVE  /\ waits'[q] = last'[q] /\ by'[last'[q]] = q
             /\ at'[last'[q]] \notin {"unborn", "done"} /\ returned'[q] = "none"
  <2>1. CASE q = p
    BY <1>1, <1>2, <2>1
  <2>2. CASE q # p
    <3>1. waits[q] # NoTask /\ waits[q] = last[q] /\ by[last[q]] = q /\ returned[q] = "none"
          /\ at[last[q]] \notin {"unborn", "done"}
      BY <1>1, <1>2, <1>3, <2>2 DEF CallInv, Net!Running
    <3>2. last[q] \in Tasks /\ last[q] # t
      BY <1>1, <1>2, <3>1
    <3> QED BY <1>1, <1>2, <2>2, <3>1, <3>2
  <2> QED BY <2>1, <2>2
<1>4. ASSUME NEW q \in Callers, returned'[q] = "ok"
      PROVE  /\ last'[q] \in Tasks /\ by'[last'[q]] = q /\ at'[last'[q]] = "done"
             /\ \E u \in {last'[q]} \union late'[q] : res'[q] = Net!Own(u)
  <2>1. q # p /\ returned[q] = "ok"
    BY <1>1, <1>2, <1>4
  <2>2. last[q] \in Tasks /\ by[last[q]] = q /\ at[last[q]] = "done" /\ last[q] # t
    BY <1>1, <2>1 DEF CallInv
  <2>3. \E u \in {last[q]} \union late[q] : res[q] = Net!Own(u)
    BY <2>1 DEF CallInv
  <2>4. last'[q] = last[q] /\ late'[q] = late[q]
    BY <1>1, <1>2, <2>1
  <2> QED BY <1>1, <1>2, <2>2, <2>3, <2>4
<1>5. ASSUME NEW q \in Callers, NEW u \in Tasks, at'[u] \notin {"unborn", "done"}, by'[u] = q
      PROVE  u \in {last'[q]} \union late'[q]
  <2>1. CASE u = t
    BY <1>1, <1>2, <1>5, <2>1
  <2>2. CASE u # t
    <3>1. Net!Running(u) /\ by[u] = q
      BY <1>1, <1>2, <1>5, <2>2 DEF Net!Running
    <3>2. CASE q = p
      BY <1>1, <1>2, <3>1, <3>2
    <3>3. CASE q # p
      BY <1>1, <1>2, <3>1, <3>3 DEF CallInv
    <3> QED BY <3>2, <3>3
  <2> QED BY <2>1, <2>2
<1>6. ASSUME NEW q \in Callers, res'[q] # None
      PROVE  \E u \in Tasks : Left(q, u)'
  <2>1. PICK u \in Tasks : Left(q, u)
    BY <1>1, <1>6 DEF CallInv
  <2>2. u # t
    BY <1>1, <2>1 DEF Left
  <2> QED BY <1>1, <1>2, <2>1, <2>2 DEF Left
<1> QED BY <1>3, <1>4, <1>5, <1>6 DEF CallInv, Net!Running

LEMMA TimeOutCalls ==
  ASSUME HandInv, CallInv, NEW p \in Callers, Net!TimeOut(p)
  PROVE  CallInv'
<1>1. /\ waits' = [waits EXCEPT ![p] = NoTask] /\ returned' = [returned EXCEPT ![p] = "timeout"]
      /\ UNCHANGED <<last, late, at, by, res>>
      /\ waits \in [Callers -> Tasks \union {NoTask}]
      /\ returned \in [Callers -> {"none", "ok", "error", "timeout"}]
  BY DEF Net!TimeOut, HandInv, Net!TypeOK
<1>2. \A q \in Callers : waits'[q] # NoTask => waits'[q] = waits[q] /\ returned'[q] = returned[q]
  BY <1>1
<1>3. \A q \in Callers : returned'[q] = "ok" => returned[q] = "ok"
  BY <1>1
<1>4. \A q \in Callers, u \in Tasks : Left(q, u) => Left(q, u)'
  BY <1>1 DEF Left
<1> QED BY <1>1, <1>2, <1>3, <1>4 DEF CallInv, Net!Running

LEMMA NextCalls == HandInv /\ CallInv /\ [Next]_vars => CallInv'
<1> SUFFICES ASSUME HandInv, CallInv, [Next]_vars PROVE CallInv'
  OBVIOUS
<1>1. ASSUME NEW p \in Callers, Caller(p) PROVE CallInv'
  BY <1>1, CallCalls, TimeOutCalls DEF Caller
<1>2. ASSUME NEW t \in Tasks, Client(t) PROVE CallInv'
  <2>1. CASE EndsCall(t)
    BY <2>1, EndingsAre, EndingCalls DEF EndsCall, Copy
  <2>2. CASE Send(t) \/ Receive(t) \/ Read(t) \/ Net!GetReader(t) \/ Net!Unzip(t)
    <3>1. /\ at[t] \notin {"unborn", "done"} /\ res' = res
          /\ \E place \in {"sent", "reading", "zipped", "decoding", "unzipping"} : Net!GoTo(t, place)
      <4>1. CASE Send(t)
        BY <4>1 DEF Send, Net!Send
      <4>2. CASE Receive(t)
        BY <4>2 DEF Receive, Net!Receive
      <4>3. CASE Read(t)
        BY <4>3 DEF Read, Net!Read
      <4>4. CASE Net!GetReader(t) \/ Net!Unzip(t)
        BY <4>4 DEF Net!GetReader, Net!Unzip
      <4> QED BY <2>2, <4>1, <4>2, <4>3, <4>4
    <3>2. {"sent", "reading", "zipped", "decoding", "unzipping"} \subseteq Net!Places \ {"unborn", "done"}
      BY DEF Net!Places
    <3> QED BY <3>1, <3>2, OngoingCalls
  <2> QED BY <1>2, <2>1, <2>2, ClientCases
<1>3. ASSUME UNCHANGED clients PROVE CallInv'
  BY <1>3 DEF clients, CallInv, Net!Running, Left
<1> QED BY <1>1, <1>2, <1>3 DEF Next, Server, vars

LEMMA InitCalls == Init => CallInv
BY NoneAssumption DEF Init, Net!Init, CallInv, Net!Running

\* No gzip reader and no response of fasthttp is ever in two hands, or in a hand
\* and the pool, and a reader reads the bytes of the goroutine that has it.
THEOREM NothingShared == Spec => []OneHand
<1>1. HandInv => OneHand
  BY DEF HandInv, Fits, Shared, OneHand, Net!OneHand
<1> QED BY <1>1, InitHands, NextHands, PTL DEF Spec

\* When a Call has returned nil the response holds its answer, or that of an
\* earlier Call of the same caller which was still running when it began; and
\* no response ever holds anything of another caller, whatever timed out or
\* failed, and whatever the calls do with the pools.
THEOREM RepliesAreOwn == Spec => []OwnReply
<1>1. ASSUME NEW t \in Tasks PROVE Net!Own(t) # None /\ Net!Look(Net!Own(t)) = t
  BY NoneAssumption DEF Net!Bytes, Net!Look, Net!Own
<1>2. HandInv /\ CallInv => OwnReply
  <2> SUFFICES ASSUME HandInv, CallInv, NEW p \in Callers
               PROVE  /\ returned[p] = "ok" => res[p] # None /\ Net!Look(res[p]) \in {last[p]} \union late[p]
                      /\ res[p] # None => Net!Look(res[p]) \in Tasks /\ by[Net!Look(res[p])] = p
    BY DEF OwnReply, Net!OwnReply
  <2>1. ASSUME returned[p] = "ok"
        PROVE  res[p] # None /\ Net!Look(res[p]) \in {last[p]} \union late[p]
    <3>1. PICK t \in {last[p]} \union late[p] : res[p] = Net!Own(t)
      BY <2>1 DEF CallInv
    <3>2. t \in Tasks
      BY <2>1, <3>1 DEF CallInv, HandInv, Net!TypeOK
    <3> QED BY <1>1, <3>1, <3>2
  <2>2. ASSUME res[p] # None
        PROVE  Net!Look(res[p]) \in Tasks /\ by[Net!Look(res[p])] = p
    BY <1>1, <2>2 DEF CallInv, Left
  <2> QED BY <2>1, <2>2
<1> QED BY <1>2, InitHands, NextHands, InitCalls, NextCalls, PTL DEF Spec

-----------------------------------------------------------------------------
(* The middleware. *)

\* A chain has a layer l, and where.
IsIn(l, ch) == \E i \in 1..Len(ch) : ch[i] = l
Pos(l, ch) == CHOOSE i \in 1..Len(ch) : ch[i] = l

LEMMA Positions ==
  /\ \A l : (Gov!Has(l) <=> IsIn(l, chain)) /\ Gov!Position(l) = Pos(l, chain)
BY DEF Gov!Has, Gov!Position, IsIn, Pos

LEMMA Placed ==
  ASSUME NEW ch \in Chains, NEW l
  PROVE  /\ Len(ch) \in Nat
         /\ IsIn(l, ch) => Pos(l, ch) \in 1..Len(ch) /\ ch[Pos(l, ch)] = l
         /\ \A i \in 1..Len(ch) : ch[i] = l => IsIn(l, ch) /\ i = Pos(l, ch)
<1>1. ch \in Seq(Gov!Layers) /\ \A i, j \in 1..Len(ch) : ch[i] = ch[j] => i = j
  BY ChainsAssumption
<1>2. IsIn(l, ch) => Pos(l, ch) \in 1..Len(ch) /\ ch[Pos(l, ch)] = l
  BY DEF IsIn, Pos
<1> QED BY <1>1, <1>2 DEF IsIn

\* The course of a request: it panics in the handler, Recover stops what it can
\* stop, and by then there is a status line.
Course(q) ==
  LET n == Len(chain)
      recoverer == Pos("Recover", chain) IN
  /\ going[q] = "no" => panicked[q] = "no"
  /\ going[q] = "in" => panicked[q] = "no" /\ depth[q] >= 1
  /\ going[q] = "unwinding" => /\ panicked[q] # "no" /\ depth[q] <= n
                               /\ panicked[q] = "panic" /\ IsIn("Recover", chain) => recoverer <= depth[q]
  /\ going[q] = "out" =>
       /\ depth[q] <= n
       /\ panicked[q] # "no" => /\ panicked[q] = "panic" /\ IsIn("Recover", chain)
                                /\ depth[q] < recoverer /\ status[q] # 0

\* what Gov!TypeOK says, without the counts
Kinds ==
  /\ chain \in Chains
  /\ depth \in [Tasks -> 0..Len(chain) + 1]
  /\ going \in [Tasks -> {"no", "in", "out", "unwinding"}]
  /\ panicked \in [Tasks -> {"no", "panic", "abort"}]
  /\ status \in [Tasks -> Gov!Codes]
  /\ body \in [Tasks -> {"none", "part", "whole"}]

GovInv == Kinds /\ \A q \in Tasks : Course(q)

LEMMA StepCourse ==
  ASSUME GovInv, NEW q \in Tasks, Gov!Arrive(q) \/ Gov!Step(q)
  PROVE  GovInv'
<1> DEFINE n == Len(chain)
           d == depth[q]
           recoverer == Pos("Recover", chain)
<1> USE DEF GovInv, Kinds
<1>1. /\ n \in Nat /\ d \in 0..n + 1
      /\ IsIn("Recover", chain) => recoverer \in 1..n /\ chain[recoverer] = "Recover"
      /\ \A i \in 1..n : chain[i] = "Recover" => IsIn("Recover", chain) /\ i = recoverer
  BY Placed
<1>2. Course(q)
  OBVIOUS
<1>3. \A u \in Tasks : u # q => Course(u)
  OBVIOUS
<1>4. ASSUME chain' = chain,
             \A u \in Tasks : u # q => /\ going'[u] = going[u] /\ depth'[u] = depth[u]
                                       /\ panicked'[u] = panicked[u] /\ status'[u] = status[u],
             Course(q)'
      PROVE  \A u \in Tasks : Course(u)'
  <2> SUFFICES ASSUME NEW u \in Tasks, u # q PROVE Course(u)'
    BY <1>4
  <2> QED BY <1>3, <1>4 DEF Course
<1>5. CASE Gov!Arrive(q)
  <2>1. Kinds'
    BY <1>1, <1>5 DEF Gov!Arrive
  <2>2. Course(q)'
    BY <1>1, <1>2, <1>5 DEF Gov!Arrive, Course
  <2> QED BY <1>4, <1>5, <2>1, <2>2 DEF Gov!Arrive
<1>6. CASE Gov!Enter(q)
  <2>1. Kinds'
    BY <1>1, <1>6 DEF Gov!Enter
  <2>2. Course(q)'
    BY <1>1, <1>2, <1>6 DEF Gov!Enter, Course
  <2> QED BY <1>4, <1>6, <2>1, <2>2 DEF Gov!Enter
<1>7. CASE Gov!Write(q)
  <2>1. Kinds'
    BY <1>1, <1>7 DEF Gov!Write, Gov!Codes
  <2>2. Course(q)'
    BY <1>1, <1>2, <1>7 DEF Gov!Write, Gov!InHandler, Course
  <2> QED BY <1>4, <1>7, <2>1, <2>2 DEF Gov!Write
<1>8. CASE Gov!Return(q)
  <2>1. Kinds'
    BY <1>1, <1>8 DEF Gov!Return, Gov!InHandler
  <2>2. Course(q)'
    BY <1>1, <1>2, <1>8 DEF Gov!Return, Gov!InHandler, Course
  <2> QED BY <1>4, <1>8, <2>1, <2>2 DEF Gov!Return
<1>9. CASE Gov!Panic(q)
  <2>1. Kinds'
    BY <1>1, <1>9 DEF Gov!Panic, Gov!InHandler
  <2>2. Course(q)'
    BY <1>1, <1>2, <1>9 DEF Gov!Panic, Gov!InHandler, Course
  <2> QED BY <1>4, <1>9, <2>1, <2>2 DEF Gov!Panic
<1>10. CASE Gov!Leave(q)
  <2>1. Kinds'
    BY <1>1, <1>10 DEF Gov!Leave
  <2>2. Course(q)'
    BY <1>1, <1>2, <1>10 DEF Gov!Leave, Course
  <2> QED BY <1>4, <1>10, <2>1, <2>2 DEF Gov!Leave
<1>11. CASE Gov!Unwind(q)
  <2>1. status' \in [Tasks -> Gov!Codes] /\ (Gov!Recovers(q) => status'[q] # 0)
        /\ \A u \in Tasks : u # q => status'[u] = status[u]
    BY <1>11 DEF Gov!Unwind, Gov!Answer, Gov!Codes
  <2>2. Kinds'
    BY <1>1, <1>11, <2>1 DEF Gov!Unwind
  <2>3. going[q] = "unwinding" /\ d > 0 /\ depth'[q] = d - 1 /\ panicked' = panicked /\ chain' = chain
        /\ going'[q] = IF Gov!Recovers(q) THEN "out" ELSE "unwinding"
    BY <1>1, <1>11 DEF Gov!Unwind
  <2>4. Gov!Recovers(q) => panicked[q] = "panic" /\ IsIn("Recover", chain) /\ d = recoverer
    BY <1>1, <1>2, <2>3 DEF Gov!Recovers, Course
  <2>5. ~Gov!Recovers(q) /\ panicked[q] = "panic" => chain[d] # "Recover"
    BY DEF Gov!Recovers
  <2>6. Course(q)'
    BY <1>1, <1>2, <2>1, <2>3, <2>4, <2>5 DEF Course
  <2> QED BY <1>4, <1>11, <2>1, <2>2, <2>6 DEF Gov!Unwind
<1> QED BY <1>5, <1>6, <1>7, <1>8, <1>9, <1>10, <1>11 DEF Gov!Step

LEMMA NextCourse == GovInv /\ [Next]_vars => GovInv'
<1> SUFFICES ASSUME GovInv, [Next]_vars PROVE GovInv'
  OBVIOUS
<1>1. ASSUME NEW t \in Tasks, Gov!Arrive(t) \/ Gov!Step(t) PROVE GovInv'
  BY <1>1, StepCourse
<1>2. CASE UNCHANGED servers
  BY <1>2 DEF servers, GovInv, Kinds, Course
<1> QED BY <1>1, <1>2 DEF Next, Caller, Client, Server, Send, DoFails, Receive, Read, Copy, vars

LEMMA InitCourse == Init => GovInv
<1> SUFFICES ASSUME Init PROVE GovInv
  OBVIOUS
<1>1. Len(chain) \in Nat
  BY Placed DEF Init, Gov!Init
<1> QED BY <1>1 DEF Init, Gov!Init, GovInv, Kinds, Course, Gov!Codes

\* A request whose handler panicked is never answered as if it had gone well.
THEOREM PanicsGetAnswers == Spec => []PanicsAnswered
<1>1. GovInv => PanicsAnswered
  BY DEF GovInv, Course, PanicsAnswered, Gov!PanicsAnswered, Gov!Replied
<1> QED BY <1>1, InitCourse, NextCourse, PTL DEF Spec

-----------------------------------------------------------------------------
(* Both: what nil means. *)

\* What a goroutine has read says how far the handler has come.
HeardOf(t) ==
  at[t] \in Late => /\ heard[t] = "whole" => body[t] = "whole"
                    /\ heard[t] = "part" => Gov!Replied(t)
                    /\ heard[t] = "cut" => by[t] \in Limited

NilInv == NilMeansWhole /\ \A t \in Tasks : HeardOf(t)

\* A body that is whole and an answer that is over stay so.
LEMMA AnswersStay ==
  ASSUME GovInv, NEW q \in Tasks, Gov!Arrive(q) \/ Gov!Step(q) \/ UNCHANGED servers, NEW t \in Tasks
  PROVE  /\ body[t] = "whole" => body'[t] = "whole"
         /\ Gov!Replied(t) => Gov!Replied(t)'
<1> USE DEF GovInv, Kinds, Gov!Replied
<1>1. CASE UNCHANGED servers
  BY <1>1 DEF servers
<1>2. CASE Gov!Arrive(q) \/ Gov!Enter(q) \/ Gov!Leave(q) \/ Gov!Unwind(q)
  BY <1>2 DEF Gov!Arrive, Gov!Enter, Gov!Leave, Gov!Unwind
<1>3. CASE Gov!Write(q) \/ Gov!Return(q) \/ Gov!Panic(q)
  BY <1>3 DEF Gov!Write, Gov!Return, Gov!Panic, Gov!InHandler
<1> QED BY <1>1, <1>2, <1>3 DEF Gov!Step

\* How a server's step, or none, leaves what the clients know.
LEMMA NilKept ==
  ASSUME HandInv, CallInv, NilInv, last' = last,
         \A t \in Tasks : /\ body[t] = "whole" => body'[t] = "whole"
                          /\ Gov!Replied(t) => Gov!Replied(t)'
  PROVE  /\ \A p \in Callers : returned[p] = "ok" =>
              \/ body'[last[p]] = "whole"
              \/ target[p] # "json" /\ (Gov!Replied(last[p])' \/ p \in Limited)
         /\ \A t \in Tasks : at[t] \in Late => /\ heard[t] = "whole" => body'[t] = "whole"
                                               /\ heard[t] = "part" => Gov!Replied(t)'
                                               /\ heard[t] = "cut" => by[t] \in Limited
<1>1. \A p \in Callers : returned[p] = "ok" => last[p] \in Tasks
  BY DEF CallInv
<1>2. \A t \in Tasks : HeardOf(t)
  BY DEF NilInv
<1>3. \A p \in Callers : returned[p] = "ok" =>
        \/ body[last[p]] = "whole"
        \/ target[p] # "json" /\ (Gov!Replied(last[p]) \/ p \in Limited)
  BY DEF NilInv, NilMeansWhole
<1>4. \A p \in Callers : returned[p] = "ok" => (Gov!Replied(last[p]) => Gov!Replied(last[p])')
  BY <1>1 DEF Gov!Replied
<1>5. ASSUME NEW p \in Callers, returned[p] = "ok"
      PROVE  \/ body'[last[p]] = "whole"
             \/ target[p] # "json" /\ (Gov!Replied(last[p])' \/ p \in Limited)
  BY <1>1, <1>3, <1>4, <1>5
<1>6. ASSUME NEW t \in Tasks, at[t] \in Late
      PROVE  /\ heard[t] = "whole" => body'[t] = "whole"
             /\ heard[t] = "part" => Gov!Replied(t)'
             /\ heard[t] = "cut" => by[t] \in Limited
  BY <1>2, <1>6 DEF HeardOf
<1> QED BY <1>5, <1>6

\* The end of a Call: of one that is returned nil, only by Copy or Decode.
LEMMA EndingNil ==
  ASSUME HandInv, CallInv, NilInv, NEW t \in Tasks, NEW how, Ending(t, how), UNCHANGED servers,
         how = "ok" => (Net!Copy(t) /\ Gov!Replied(t)) \/ Net!Decode(t)
  PROVE  NilInv'
<1> DEFINE q == by[t]
<1>1. Ending(t, how) /\ how \in {"ok", "error"}
  BY DEF Ending
<1>2. /\ q \in Callers /\ at' = [at EXCEPT ![t] = "done"] /\ heard' = [heard EXCEPT ![t] = "part"]
      /\ UNCHANGED <<last, by, target, body, going, depth>>
      /\ at \in [Tasks -> Net!Places] /\ heard \in [Tasks -> {"whole", "part", "cut"}]
      /\ returned \in [Callers -> {"none", "ok", "error", "timeout"}]
  BY <1>1 DEF Ending, Net!Finish, Net!Running, HandInv, Fits, Net!TypeOK, servers, Net!setup
<1>3. IF waits[q] = t
      THEN returned' = [returned EXCEPT ![q] = how]
      ELSE UNCHANGED returned
  BY <1>1 DEF Ending, Net!Finish
<1>4. \A u \in Tasks : HeardOf(u)'
  BY <1>2 DEF NilInv, HeardOf, Gov!Replied, Late
<1>5. ASSUME NEW p \in Callers, returned'[p] = "ok"
      PROVE  \/ body[last[p]] = "whole"
             \/ target[p] # "json" /\ (Gov!Replied(last[p]) \/ p \in Limited)
  <2>1. CASE p = q /\ waits[q] = t
    <3>1. how = "ok" /\ last[p] = t
      BY <1>2, <1>3, <1>5, <2>1, NoneAssumption DEF CallInv
    <3>2. CASE Net!Copy(t) /\ Gov!Replied(t)
      BY <2>1, <3>1, <3>2 DEF Net!Copy
    <3>3. CASE Net!Decode(t)
      <4>1. at[t] = "decoding" /\ (target[p] = "json" => heard[t] = "whole")
        BY <2>1, <3>3 DEF Net!Decode, Net!Decodes
      <4>2. HeardOf(t) /\ heard[t] \in {"whole", "part", "cut"}
        BY <1>2 DEF NilInv
      <4> QED BY <2>1, <3>1, <4>1, <4>2 DEF HeardOf, Late
    <3> QED BY <3>1, <3>2, <3>3
  <2>2. CASE ~(p = q /\ waits[q] = t)
    <3>1. returned[p] = "ok"
      BY <1>2, <1>3, <1>5, <2>2
    <3> QED BY <3>1 DEF NilInv, NilMeansWhole
  <2> QED BY <2>1, <2>2
<1> QED BY <1>2, <1>4, <1>5 DEF NilInv, NilMeansWhole, Gov!Replied

\* The other steps of a goroutine.
LEMMA OngoingNil ==
  ASSUME HandInv, CallInv, NilInv, GovInv, NEW t \in Tasks,
         Send(t) \/ Receive(t) \/ Read(t) \/ ((Net!GetReader(t) \/ Net!Unzip(t)) /\ UNCHANGED servers)
  PROVE  NilInv'
<1>1. PICK place \in {"sent", "reading", "zipped", "decoding", "unzipping"} :
           at' = [at EXCEPT ![t] = place] /\ UNCHANGED <<target, returned, last, by>>
  BY DEF Send, Receive, Read, Net!Send, Net!Receive, Net!Read, Net!GetReader, Net!Unzip,
         Net!GoTo, Net!setup, Net!calls
<1>2. at \in [Tasks -> Net!Places] /\ heard \in [Tasks -> {"whole", "part", "cut"}]
  BY DEF HandInv, Net!TypeOK
<1>3. Gov!Arrive(t) \/ Gov!Step(t) \/ UNCHANGED servers
  BY DEF Send, Receive, Read
<1>4. \A u \in Tasks : /\ body[u] = "whole" => body'[u] = "whole"
                       /\ Gov!Replied(u) => Gov!Replied(u)'
  BY <1>3, AnswersStay
<1>5. NilMeansWhole'
  BY <1>1, <1>4, NilKept DEF NilMeansWhole
<1>6. ASSUME NEW u \in Tasks, u # t PROVE HeardOf(u)'
  <2>1. at'[u] = at[u] /\ heard'[u] = heard[u] /\ by'[u] = by[u]
    BY <1>1, <1>2, <1>6
       DEF Send, Receive, Read, Net!Send, Net!Receive, Net!Read, Net!GetReader, Net!Unzip
  <2>2. HeardOf(u)
    BY DEF NilInv
  <2> QED BY <1>4, <2>1, <2>2 DEF HeardOf
<1>7. HeardOf(t)'
  <2>1. CASE Send(t) \/ Receive(t)
    <3>1. at'[t] \notin Late
      BY <1>2, <2>1 DEF Send, Receive, Net!Send, Net!Receive, Net!GoTo, Late
    <3> QED BY <3>1 DEF HeardOf
  <2>2. CASE Read(t)
    <3>1. PICK how \in {"whole", "part", "cut"} : Ends(t, how) /\ Net!Read(t, how) /\ UNCHANGED servers
      BY <2>2 DEF Read
    <3>2. heard'[t] = how /\ (how = "cut" => by'[t] \in Limited) /\ body' = body
      BY <1>1, <1>2, <3>1 DEF Net!Read, servers
    <3>3. (how = "whole" => body[t] = "whole") /\ (how = "part" => Gov!Replied(t))
      BY <3>1 DEF Ends
    <3> QED BY <1>4, <3>2, <3>3 DEF HeardOf
  <2>3. CASE (Net!GetReader(t) \/ Net!Unzip(t)) /\ UNCHANGED servers
    <3>1. at[t] \in Late /\ heard' = heard /\ by' = by
      BY <1>1, <2>3 DEF Net!GetReader, Net!Unzip, Late
    <3>2. HeardOf(t)
      BY DEF NilInv
    <3> QED BY <1>4, <3>1, <3>2 DEF HeardOf
  <2> QED BY <2>1, <2>2, <2>3
<1> QED BY <1>5, <1>6, <1>7 DEF NilInv

LEMMA CallerNil ==
  ASSUME HandInv, CallInv, NilInv, NEW p \in Callers, Caller(p)
  PROVE  NilInv'
<1>1. /\ \A q \in Callers : returned'[q] = "ok" => returned[q] = "ok" /\ last'[q] = last[q]
      /\ UNCHANGED <<target, heard, body, going, depth>>
  BY DEF Caller, Net!Call, Net!TimeOut, servers, Net!setup, HandInv, Net!TypeOK
<1>2. NilMeansWhole'
  BY <1>1 DEF NilInv, NilMeansWhole, Gov!Replied
<1>3. ASSUME NEW t \in Tasks, at'[t] \in Late PROVE at[t] \in Late /\ by'[t] = by[t]
  BY <1>3 DEF Caller, Net!Call, Net!TimeOut, Late, HandInv, Net!TypeOK
<1>4. ASSUME NEW t \in Tasks PROVE HeardOf(t)'
  BY <1>1, <1>3 DEF NilInv, HeardOf, Gov!Replied
<1> QED BY <1>2, <1>4 DEF NilInv

LEMMA NextNil == HandInv /\ CallInv /\ GovInv /\ NilInv /\ [Next]_vars => NilInv'
<1> SUFFICES ASSUME HandInv, CallInv, GovInv, NilInv, [Next]_vars PROVE NilInv'
  OBVIOUS
<1>1. ASSUME NEW p \in Callers, Caller(p) PROVE NilInv'
  BY <1>1, CallerNil
<1>2. ASSUME NEW t \in Tasks, Client(t) PROVE NilInv'
  <2>1. CASE EndsCall(t) /\ UNCHANGED servers
    <3>2. CASE FailsCall(t)
      BY <2>1, <3>2, EndingsAre, EndingNil
    <3>3. CASE Net!Decode(t) \/ Copy(t)
      BY <2>1, <3>3, EndingsAre, EndingNil DEF Copy
    <3> QED BY <2>1, <3>2, <3>3 DEF EndsCall
  <2> QED BY <1>2, <2>1, OngoingNil, ClientCases
<1>3. ASSUME NEW t \in Tasks, Server(t) \/ UNCHANGED vars PROVE NilInv'
  <2>1. UNCHANGED <<kind, target, returned, last, by, at, heard>> /\ (Gov!Step(t) \/ UNCHANGED servers)
    BY <1>3 DEF Server, clients, vars
  <2>2. \A u \in Tasks : /\ body[u] = "whole" => body'[u] = "whole"
                         /\ Gov!Replied(u) => Gov!Replied(u)'
    BY <2>1, AnswersStay
  <2> QED BY <2>1, <2>2, NilKept DEF NilInv, NilMeansWhole, HeardOf
<1>4. CASE UNCHANGED vars
  BY <1>4 DEF vars, clients, servers, NilInv, NilMeansWhole, HeardOf, Gov!Replied
<1> QED BY <1>1, <1>2, <1>3, <1>4 DEF Next

LEMMA InitNil == Init => NilInv
BY DEF Init, Net!Init, NilInv, NilMeansWhole, HeardOf, Late

\* A Call that decodes JSON returns nil only for a body that the handler has
\* written to its end, any other for that, for an answer that is over, or for
\* one that MaxResBodySize may have cut.
THEOREM NilIsWhole == Spec => []NilMeansWhole
<1>1. NilInv => NilMeansWhole
  BY DEF NilInv
<1> QED BY <1>1, InitHands, NextHands, InitCalls, NextCalls, InitCourse, NextCourse, InitNil, NextNil, PTL DEF Spec

-----------------------------------------------------------------------------
(* How the middleware counts. *)

\* A request that the layer l has let in, and one that it has seen out.
LetIn(l, q) == IsIn(l, chain) /\ going[q] # "no" /\ (going[q] = "in" => depth[q] > Pos(l, chain))
Torn(l, q) ==
  panicked[q] # "no" /\ ~(panicked[q] = "panic" /\ IsIn("Recover", chain) /\ Pos("Recover", chain) > Pos(l, chain))
SeenOut(l, q) == LetIn(l, q) /\ going[q] # "in" /\ depth[q] < Pos(l, chain) /\ ~Torn(l, q)

\* Entering a layer lets in, leaving it sees out, and nothing else does either.
Counters == {"Prom", "Logger"}

LEMMA EnterLetsIn ==
  ASSUME GovInv, NEW q \in Tasks, Gov!Enter(q), NEW l \in Counters
  PROVE  /\ \A u \in Tasks : LetIn(l, u)' <=> LetIn(l, u) \/ (u = q /\ chain[depth[q]] = l)
         /\ chain[depth[q]] = l => ~LetIn(l, q)
         /\ \A u \in Tasks : SeenOut(l, u)' <=> SeenOut(l, u)
<1> DEFINE n == Len(chain)
           k == Pos(l, chain)
<1> USE DEF GovInv, Kinds
<1>1. /\ n \in Nat /\ depth[q] \in 0..n + 1
      /\ IsIn(l, chain) => k \in 1..n /\ chain[k] = l
      /\ \A i \in 1..n : chain[i] = l => IsIn(l, chain) /\ i = k
  BY Placed
<1>2. /\ UNCHANGED <<chain, going, panicked>> /\ going[q] = "in" /\ depth[q] <= n /\ depth[q] >= 1
      /\ depth'[q] = depth[q] + 1 /\ \A u \in Tasks : u # q => depth'[u] = depth[u]
  BY DEF Gov!Enter, Course
<1> HIDE DEF n, k
<1>3. LetIn(l, q)' <=> LetIn(l, q) \/ chain[depth[q]] = l
  BY <1>1, <1>2 DEF LetIn, k
<1>4. chain[depth[q]] = l => ~LetIn(l, q)
  BY <1>1, <1>2 DEF LetIn, k
<1>5. ASSUME NEW u \in Tasks, u # q
      PROVE  (LetIn(l, u)' <=> LetIn(l, u)) /\ (SeenOut(l, u)' <=> SeenOut(l, u))
  BY <1>2, <1>5 DEF LetIn, SeenOut, Torn
<1>6. ~SeenOut(l, q) /\ ~SeenOut(l, q)'
  BY <1>2 DEF SeenOut
<1> QED BY <1>3, <1>4, <1>5, <1>6

LEMMA LeaveSeesOut ==
  ASSUME GovInv, NEW q \in Tasks, Gov!Leave(q), NEW l \in Counters
  PROVE  /\ \A u \in Tasks : LetIn(l, u)' <=> LetIn(l, u)
         /\ \A u \in Tasks : SeenOut(l, u)' <=> SeenOut(l, u) \/ (u = q /\ chain[depth[q]] = l)
         /\ chain[depth[q]] = l => ~SeenOut(l, q)
<1> DEFINE n == Len(chain)
           k == Pos(l, chain)
           recoverer == Pos("Recover", chain)
<1> USE DEF GovInv, Kinds
<1>1. /\ n \in Nat /\ depth[q] \in 0..n + 1
      /\ IsIn(l, chain) => k \in 1..n /\ chain[k] = l
      /\ \A i \in 1..n : chain[i] = l => IsIn(l, chain) /\ i = k
      /\ IsIn("Recover", chain) => recoverer \in 1..n /\ chain[recoverer] = "Recover"
  BY Placed
<1>2. /\ UNCHANGED <<chain, going, panicked>> /\ going[q] = "out" /\ depth[q] <= n /\ depth[q] > 0
      /\ depth'[q] = depth[q] - 1 /\ \A u \in Tasks : u # q => depth'[u] = depth[u]
  BY DEF Gov!Leave, Course
<1>3. panicked[q] # "no" => panicked[q] = "panic" /\ IsIn("Recover", chain) /\ depth[q] < recoverer
  BY <1>2 DEF Course
<1> HIDE DEF n, k, recoverer
<1>4. ASSUME NEW u \in Tasks
      PROVE  (LetIn(l, u)' <=> LetIn(l, u)) /\ (u # q => (SeenOut(l, u)' <=> SeenOut(l, u)))
  BY <1>2 DEF LetIn, SeenOut, Torn
<1>5. chain[depth[q]] = l => ~Torn(l, q)
  BY <1>1, <1>2, <1>3 DEF Torn, k, recoverer
<1>6. (Torn(l, q)' <=> Torn(l, q)) /\ (LetIn(l, q) <=> IsIn(l, chain))
  BY <1>2 DEF Torn, LetIn
<1>7. SeenOut(l, q)' <=> SeenOut(l, q) \/ chain[depth[q]] = l
  <2>1. SeenOut(l, q)' <=> IsIn(l, chain) /\ depth[q] - 1 < k /\ ~Torn(l, q)
    BY <1>2, <1>4, <1>6 DEF SeenOut, k
  <2>2. SeenOut(l, q) <=> IsIn(l, chain) /\ depth[q] < k /\ ~Torn(l, q)
    BY <1>2, <1>6 DEF SeenOut, k
  <2>3. CASE chain[depth[q]] = l
    <3>1. IsIn(l, chain) /\ depth[q] = k
      BY <1>1, <1>2, <2>3
    <3> QED BY <1>1, <1>5, <2>1, <2>3, <3>1
  <2>4. CASE chain[depth[q]] # l
    <3>1. IsIn(l, chain) => depth[q] # k
      BY <1>1, <2>4
    <3> QED BY <1>1, <2>1, <2>2, <2>4, <3>1
  <2> QED BY <2>3, <2>4
<1>8. chain[depth[q]] = l => ~SeenOut(l, q)
  BY <1>1, <1>2 DEF SeenOut, k
<1> QED BY <1>4, <1>7, <1>8

LEMMA OthersDoNeither ==
  ASSUME GovInv, NEW q \in Tasks, NEW l \in Counters,
         Gov!Arrive(q) \/ Gov!Write(q) \/ Gov!Return(q) \/ Gov!Panic(q) \/ Gov!Unwind(q)
  PROVE  /\ \A u \in Tasks : LetIn(l, u)' <=> LetIn(l, u)
         /\ \A u \in Tasks : SeenOut(l, u)' <=> SeenOut(l, u)
         /\ \A u \in Tasks : SeenOut(l, u) => status'[u] = status[u]
<1> DEFINE n == Len(chain)
           k == Pos(l, chain)
           recoverer == Pos("Recover", chain)
<1> USE DEF GovInv, Kinds
<1>1. /\ n \in Nat /\ depth[q] \in 0..n + 1
      /\ IsIn(l, chain) => k \in 1..n /\ chain[k] = l
      /\ \A i \in 1..n : chain[i] = "Recover" => IsIn("Recover", chain) /\ i = recoverer
      /\ IsIn("Recover", chain) => recoverer \in 1..n /\ chain[recoverer] = "Recover"
      /\ l # "Recover"
  BY Placed DEF Counters
<1>2. /\ chain' = chain
      /\ \A u \in Tasks : u # q => /\ going'[u] = going[u] /\ depth'[u] = depth[u]
                                   /\ panicked'[u] = panicked[u] /\ status'[u] = status[u]
  BY DEF Gov!Arrive, Gov!Write, Gov!Return, Gov!Panic, Gov!Unwind, Gov!Answer
<1>3. ASSUME NEW u \in Tasks, u # q
      PROVE  (LetIn(l, u)' <=> LetIn(l, u)) /\ (SeenOut(l, u)' <=> SeenOut(l, u))
  BY <1>2, <1>3 DEF LetIn, SeenOut, Torn
<1>4. CASE Gov!Arrive(q)
  <2>1. ~LetIn(l, q) /\ ~LetIn(l, q)'
    BY <1>1, <1>4 DEF Gov!Arrive, LetIn
  <2> QED BY <1>2, <1>3, <2>1 DEF SeenOut
<1>5. CASE Gov!Write(q)
  <2>1. (LetIn(l, q)' <=> LetIn(l, q)) /\ ~SeenOut(l, q) /\ ~SeenOut(l, q)'
    BY <1>5 DEF Gov!Write, Gov!InHandler, LetIn, SeenOut
  <2> QED BY <1>2, <1>3, <2>1
<1>6. CASE Gov!Return(q) \/ Gov!Panic(q)
  <2>1. /\ going[q] = "in" /\ going'[q] \in {"out", "unwinding"} /\ depth[q] = n + 1 /\ depth'[q] = n
    BY <1>1, <1>6 DEF Gov!Return, Gov!Panic, Gov!InHandler
  <2>2. (LetIn(l, q)' <=> LetIn(l, q))
    BY <1>1, <1>2, <2>1 DEF LetIn
  <2>3. ~SeenOut(l, q) /\ ~SeenOut(l, q)'
    BY <1>1, <1>2, <2>1 DEF SeenOut, LetIn
  <2> QED BY <1>2, <1>3, <2>2, <2>3
<1>7. CASE Gov!Unwind(q)
  <2>1. /\ going[q] = "unwinding" /\ going'[q] \in {"out", "unwinding"} /\ depth[q] > 0 /\ depth[q] <= n
        /\ depth'[q] = depth[q] - 1 /\ panicked' = panicked
        /\ panicked[q] # "no"
        /\ panicked[q] = "panic" /\ IsIn("Recover", chain) => recoverer <= depth[q]
    BY <1>1, <1>7 DEF Gov!Unwind, Course
  <2>2. LetIn(l, q)' <=> LetIn(l, q)
    BY <1>2, <2>1 DEF LetIn
  <2>3. Torn(l, q)' <=> Torn(l, q)
    BY <1>2, <2>1 DEF Torn
  <2>4. ~Torn(l, q) => IsIn("Recover", chain) /\ recoverer <= depth[q] /\ recoverer > k
    BY <2>1 DEF Torn
  <2>5. ~SeenOut(l, q) /\ ~SeenOut(l, q)'
    BY <1>1, <1>2, <2>1, <2>3, <2>4 DEF SeenOut, LetIn
  <2> QED BY <1>2, <1>3, <2>2, <2>5
<1> QED BY <1>4, <1>5, <1>6, <1>7

Counted == Tasks \ Ignored
AllIn(l) == {q \in Counted : LetIn(l, q)}
AllOut(l) == {q \in Counted : SeenOut(l, q)}
OutWith(c) == {q \in Counted : SeenOut("Prom", q) /\ status[q] = c}

CountInv ==
  /\ started = Cardinality(AllIn("Prom"))
  /\ handled \in [Gov!Codes -> Nat]
  /\ \A c \in Gov!Codes : handled[c] = Cardinality(OutWith(c))
  /\ logged = AllOut("Logger")

\* One more, or none.
LEMMA OneMore ==
  ASSUME NEW S, IsFiniteSet(S), NEW q, q \notin S
  PROVE  Cardinality(S \union {q}) = Cardinality(S) + 1
BY FS_AddElement

LEMMA CountedFinite ==
  /\ IsFiniteSet(AllIn("Prom"))
  /\ \A c : IsFiniteSet(OutWith(c))
<1>1. IsFiniteSet(Counted)
  BY PoolAssumption, FS_Subset DEF Counted
<1>2. AllIn("Prom") \subseteq Counted /\ \A c : OutWith(c) \subseteq Counted
  BY DEF AllIn, OutWith
<1> QED BY <1>1, <1>2, FS_Subset

LEMMA EnterCounts ==
  ASSUME GovInv, CountInv, NEW q \in Tasks, Gov!Enter(q)
  PROVE  CountInv'
<1>1. /\ "Prom" \in Counters /\ "Logger" \in Counters
      /\ status' = status /\ handled' = handled /\ logged' = logged
      /\ started' = IF chain[depth[q]] = "Prom" /\ q \notin Ignored THEN started + 1 ELSE started
  BY DEF Counters, Gov!Enter
<1>2. /\ \A u \in Tasks : LetIn("Prom", u)' <=> LetIn("Prom", u) \/ (u = q /\ chain[depth[q]] = "Prom")
      /\ chain[depth[q]] = "Prom" => ~LetIn("Prom", q)
      /\ \A u \in Tasks : SeenOut("Prom", u)' <=> SeenOut("Prom", u)
      /\ \A u \in Tasks : SeenOut("Logger", u)' <=> SeenOut("Logger", u)
  BY <1>1, EnterLetsIn
<1>3. AllOut("Logger")' = AllOut("Logger") /\ \A c \in Gov!Codes : OutWith(c)' = OutWith(c)
  BY <1>1, <1>2 DEF AllOut, OutWith, Counted
<1>4. started' = Cardinality(AllIn("Prom")')
  <2>1. CASE chain[depth[q]] = "Prom" /\ q \notin Ignored
    <3>1. AllIn("Prom")' = AllIn("Prom") \union {q} /\ q \notin AllIn("Prom")
      BY <1>2, <2>1 DEF AllIn, Counted
    <3>2. started' = started + 1 /\ started = Cardinality(AllIn("Prom"))
      BY <1>1, <2>1 DEF CountInv
    <3> QED BY <3>1, <3>2, OneMore, CountedFinite
  <2>2. CASE ~(chain[depth[q]] = "Prom" /\ q \notin Ignored)
    <3>1. AllIn("Prom")' = AllIn("Prom")
      BY <1>2, <2>2 DEF AllIn, Counted
    <3> QED BY <1>1, <2>2, <3>1 DEF CountInv
  <2> QED BY <2>1, <2>2
<1> QED BY <1>1, <1>3, <1>4 DEF CountInv

LEMMA LeaveCounts ==
  ASSUME GovInv, CountInv, NEW q \in Tasks, Gov!Leave(q)
  PROVE  CountInv'
<1>1. /\ "Prom" \in Counters /\ "Logger" \in Counters
      /\ status' = status /\ started' = started
      /\ handled' = IF chain[depth[q]] = "Prom" /\ q \notin Ignored
                    THEN [handled EXCEPT ![status[q]] = @ + 1] ELSE handled
      /\ logged' = IF chain[depth[q]] = "Logger" /\ q \notin Ignored THEN logged \union {q} ELSE logged
  BY DEF Counters, Gov!Leave, Gov!CountedAs
<1>2. /\ \A u \in Tasks : LetIn("Prom", u)' <=> LetIn("Prom", u)
      /\ \A u \in Tasks : SeenOut("Prom", u)' <=> SeenOut("Prom", u) \/ (u = q /\ chain[depth[q]] = "Prom")
      /\ chain[depth[q]] = "Prom" => ~SeenOut("Prom", q)
      /\ \A u \in Tasks : SeenOut("Logger", u)' <=> SeenOut("Logger", u) \/ (u = q /\ chain[depth[q]] = "Logger")
  BY <1>1, LeaveSeesOut
<1>3. AllIn("Prom")' = AllIn("Prom")
  BY <1>2 DEF AllIn, Counted
<1>4. logged' = AllOut("Logger")'
  <2>1. logged = AllOut("Logger")
    BY DEF CountInv
  <2>2. AllOut("Logger")' = IF chain[depth[q]] = "Logger" /\ q \notin Ignored
                            THEN AllOut("Logger") \union {q} ELSE AllOut("Logger")
    <3>1. CASE chain[depth[q]] = "Logger" /\ q \notin Ignored
      BY <1>2, <3>1 DEF AllOut, Counted
    <3>2. CASE ~(chain[depth[q]] = "Logger" /\ q \notin Ignored)
      BY <1>2, <3>2 DEF AllOut, Counted
    <3> QED BY <3>1, <3>2
  <2> QED BY <1>1, <2>1, <2>2
<1>5. status \in [Tasks -> Gov!Codes] /\ handled \in [Gov!Codes -> Nat]
  BY DEF GovInv, Kinds, CountInv
<1>6. handled' \in [Gov!Codes -> Nat]
  BY <1>1, <1>5
<1>7. ASSUME NEW c \in Gov!Codes PROVE handled'[c] = Cardinality(OutWith(c)')
  <2>1. handled[c] = Cardinality(OutWith(c))
    BY DEF CountInv
  <2>2. CASE chain[depth[q]] = "Prom" /\ q \notin Ignored /\ status[q] = c
    <3>1. OutWith(c)' = OutWith(c) \union {q} /\ q \notin OutWith(c)
      BY <1>1, <1>2, <2>2 DEF OutWith, Counted
    <3>2. handled'[c] = handled[c] + 1
      BY <1>1, <1>5, <2>2
    <3> QED BY <2>1, <3>1, <3>2, OneMore, CountedFinite
  <2>3. CASE ~(chain[depth[q]] = "Prom" /\ q \notin Ignored /\ status[q] = c)
    <3>1. OutWith(c)' = OutWith(c)
      BY <1>1, <1>2, <2>3 DEF OutWith, Counted
    <3>2. handled'[c] = handled[c]
      BY <1>1, <1>5, <2>3
    <3> QED BY <2>1, <3>1, <3>2
  <2> QED BY <2>2, <2>3
<1> QED BY <1>1, <1>3, <1>4, <1>6, <1>7 DEF CountInv

LEMMA OthersCountNothing ==
  ASSUME GovInv, CountInv, NEW q \in Tasks,
         Gov!Arrive(q) \/ Gov!Write(q) \/ Gov!Return(q) \/ Gov!Panic(q) \/ Gov!Unwind(q)
  PROVE  CountInv'
<1>1. "Prom" \in Counters /\ "Logger" \in Counters /\ UNCHANGED <<started, handled, logged>>
  BY DEF Counters, Gov!Arrive, Gov!Write, Gov!Return, Gov!Panic, Gov!Unwind
<1>2. /\ \A u \in Tasks : LetIn("Prom", u)' <=> LetIn("Prom", u)
      /\ \A u \in Tasks : SeenOut("Prom", u)' <=> SeenOut("Prom", u)
      /\ \A u \in Tasks : SeenOut("Prom", u) => status'[u] = status[u]
      /\ \A u \in Tasks : SeenOut("Logger", u)' <=> SeenOut("Logger", u)
  BY <1>1, OthersDoNeither
<1>3. AllIn("Prom")' = AllIn("Prom") /\ AllOut("Logger")' = AllOut("Logger")
  BY <1>2 DEF AllIn, AllOut, Counted
<1>4. ASSUME NEW c \in Gov!Codes PROVE OutWith(c)' = OutWith(c)
  BY <1>2 DEF OutWith, Counted
<1> QED BY <1>1, <1>3, <1>4 DEF CountInv

LEMMA NextCounts == GovInv /\ CountInv /\ [Next]_vars => CountInv'
<1> SUFFICES ASSUME GovInv, CountInv, [Next]_vars PROVE CountInv'
  OBVIOUS
<1>1. ASSUME NEW t \in Tasks, Gov!Arrive(t) \/ Gov!Step(t) PROVE CountInv'
  BY <1>1, EnterCounts, LeaveCounts, OthersCountNothing DEF Gov!Step
<1>2. CASE UNCHANGED servers
  <2>1. AllIn("Prom")' = AllIn("Prom") /\ AllOut("Logger")' = AllOut("Logger") /\ \A c : OutWith(c)' = OutWith(c)
    BY <1>2 DEF servers, AllIn, AllOut, OutWith, LetIn, SeenOut, Torn
  <2> QED BY <1>2, <2>1 DEF servers, CountInv
<1> QED BY <1>1, <1>2 DEF Next, Caller, Client, Server, Send, DoFails, Receive, Read, Copy, vars

LEMMA InitCounts == Init => CountInv
<1> SUFFICES ASSUME Init PROVE CountInv
  OBVIOUS
<1>1. AllIn("Prom") = {} /\ AllOut("Logger") = {} /\ \A c : OutWith(c) = {}
  BY DEF Init, Gov!Init, AllIn, AllOut, OutWith, LetIn, SeenOut, Counted
<1> QED BY <1>1, FS_EmptySet DEF Init, Gov!Init, CountInv, Gov!Codes

\* Cardinality as Governor has it is the one of FiniteSets.
LEMMA SameCount == \A S : Gov!Cardinality(S) = Cardinality(S)
BY DEF Gov!Cardinality, Cardinality

\* Prom and Logger count each request they let in once, and once again when it
\* is over, under the status its client is sent, but for those whose panic comes
\* through them.
THEOREM CountsAddUp == Spec => []CountsBalance
<1>1. CountInv => CountsBalance
  <2> SUFFICES ASSUME CountInv PROVE CountsBalance
    OBVIOUS
  <2>1. Gov!Began("Prom") = AllIn("Prom")
    BY Positions DEF Gov!Began, AllIn, LetIn, Counted
  <2>2. ASSUME NEW l PROVE Gov!Left(l) \ Gov!TornThrough(l) = AllOut(l)
    BY <2>2, Positions DEF Gov!Began, Gov!Left, Gov!TornThrough, Gov!StoppedWithin, AllOut, SeenOut, LetIn, Torn, Counted
  <2>3. \A c : {q \in Gov!Left("Prom") \ Gov!TornThrough("Prom") : status[q] = c} = OutWith(c)
    BY <2>2 DEF AllOut, OutWith
  <2> QED BY <2>1, <2>2, <2>3, SameCount DEF CountInv, CountsBalance, Gov!CountsBalance
<1> QED BY <1>1, InitCourse, NextCourse, InitCounts, NextCounts, PTL DEF Spec

\* Every variable of the clients and of the middleware keeps its type.
THEOREM TypesHold == Spec => []TypeOK
<1>1. HandInv /\ GovInv /\ CountInv => TypeOK
  <2> SUFFICES ASSUME HandInv, GovInv, CountInv PROVE TypeOK
    OBVIOUS
  <2>1. started \in Nat
    BY CountedFinite, FS_CardinalityType DEF CountInv
  <2>2. logged \subseteq Tasks
    BY DEF CountInv, AllOut, Counted
  <2> QED BY <2>1, <2>2 DEF HandInv, GovInv, Kinds, CountInv, TypeOK, Gov!TypeOK
<1> QED BY <1>1, InitHands, NextHands, InitCourse, NextCourse, InitCounts, NextCounts, PTL DEF Spec

=============================================================================
