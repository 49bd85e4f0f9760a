--------------------------- MODULE WatchDogProofs ---------------------------
(***************************************************************************)
(* Theorems about WatchDog, for all processes, keys and durations that     *)
(* satisfy its assumptions, and any number of goroutines.                  *)
(***************************************************************************)
EXTENDS WatchDog, TLAPS

\* A goroutine has a key and a duration; one that has ever sent an Expire has
\* a ticker.
Sound(w) ==
  w.at # "off" => /\ w.key \in Keys /\ w.dur \in Durs
                  /\ (w.renewed \/ w.at = "sending") => Interval(w.dur) > 0

\* So has a client in a call.
Named ==
  /\ \A d \in Dogs : call[d].at \in {"won", "deleting"} => call[d].key \in Keys
  /\ \A d \in Dogs : call[d].at = "won" => call[d].dur \in Durs

Goroutines == \A d \in Dogs, i \in Slots : Sound(watch[d][i])

\* An entry that is not there, or is there for ever, or has a whole lease of
\* somebody to last, of which "gone" has passed.
Whole(e, gone) ==
  e.by = Nobody \/ e.ttl = 0 \/ \E b \in Durs : b > 0 /\ b <= e.ttl + gone

\* What is left of a key that w prolongs, together with the time since w's tick,
\* is a whole lease: w's own, or that of whoever set or prolonged the key since.
Lasts(w, r) ==
  w.at = "waiting" /\ w.renewed /\ ~w.cancelled /\ w.since < MaxSince => Whole(r[w.key], w.since)

Leased == \A d \in Dogs, i \in Slots : Lasts(watch[d][i], redis)

IndInv == TypeOK /\ Named /\ Goroutines /\ Leased

-----------------------------------------------------------------------------
(* Arithmetic of the ticker. *)

\* The period is a natural number, and 0 only for a duration below 7.
LEMMA IntervalNat ==
  ASSUME NEW a \in Nat
  PROVE  Interval(a) \in Nat /\ (Interval(a) > 0 => a > 0)
  BY DEF Interval

LEMMA Phase ==
  ASSUME NEW a \in Nat, NEW b \in Nat, b > 0
  PROVE  a % b \in 0..(b - 1)
  OBVIOUS

LEMMA DursNat == \A a \in Durs \union {0} : a \in 0..MaxDur /\ a \in Nat
  BY BoundAssumption, DursAssumption

-----------------------------------------------------------------------------
(* Types of what the actions write. *)

LEMMA OffType == Off \in Watcher
  BY BoundAssumption DEF Off, Watcher

LEMMA StartedType ==
  ASSUME NEW k \in Keys, NEW dur \in Durs
  PROVE  Started(k, dur) \in Watcher
  BY BoundAssumption DEF Started, Watcher

LEMMA CallType ==
  /\ Out \in Call /\ Dead \in Call
  /\ \A k \in Keys : \A dur \in Durs \union {0} :
       Calling("won", k, dur) \in Call /\ Calling("deleting", k, dur) \in Call
  BY DEF Out, Dead, Calling, Call

LEMMA EntryType ==
  /\ Absent \in Entry
  /\ \A d \in Dogs, dur \in Durs : SetEntry(d, dur) \in Entry
  /\ \A e \in Entry, dur \in Durs : Prolonged(e, dur) \in Entry
  /\ \A e \in Entry : Aged(e) \in Entry
  BY BoundAssumption, DursAssumption DEF Absent, SetEntry, Prolonged, Aged, Entry

LEMMA WaitedType == ASSUME NEW w \in Watcher PROVE Waited(w) \in Watcher
  BY BoundAssumption DEF Waited, Watcher

\* What every action but Tick, which ages all goroutines, keeps of their types.
LEMMA SetWatchType ==
  ASSUME TypeOK, NEW d \in Dogs, NEW i \in Slots, NEW w \in Watcher, SetWatch(d, i, w)
  PROVE  /\ watch' \in [Dogs -> [Slots -> Watcher]]
         /\ watch'[d][i] = w
         /\ \A e \in Dogs, j \in Slots : e # d \/ j # i => watch'[e][j] = watch[e][j]
  BY DEF SetWatch, TypeOK

LEMMA CancelSlot ==
  ASSUME TypeOK, NEW d \in Dogs, cancel[d] # 0
  PROVE  cancel[d] \in Slots /\ watch[d][cancel[d]].at # "off"
<1>1. cancel[d] \in 0..MaxWatchers
  BY DEF TypeOK
<1>2. cancel[d] \in 1..MaxWatchers
  BY <1>1, BoundAssumption
<1> QED
  BY <1>2 DEF TypeOK, Running, Slots

LEMMA CancelledType ==
  ASSUME NEW w \in Watcher
  PROVE  [w EXCEPT !.cancelled = TRUE] \in Watcher
  BY DEF Watcher

LEMMA EndsType ==
  ASSUME TypeOK, NEW d \in Dogs, NEW i \in Slots, Ends(d, i)
  PROVE  /\ watch' \in [Dogs -> [Slots -> Watcher]]
         /\ watch'[d][i] = Off
         /\ \A e \in Dogs, j \in Slots : e # d \/ j # i => watch'[e][j] = watch[e][j]
         /\ cancel' \in [Dogs -> 0..MaxWatchers]
         /\ \A e \in Dogs : cancel'[e] # 0 => cancel'[e] = cancel[e] /\ (e # d \/ cancel'[e] # i)
<1>1. SetWatch(d, i, Off) /\ cancel' = [cancel EXCEPT ![d] = IF @ = i THEN 0 ELSE @]
  BY DEF Ends
<1>2. cancel \in [Dogs -> 0..MaxWatchers] /\ i # 0
  BY DEF TypeOK, Slots
<1> QED
  BY <1>1, <1>2, SetWatchType, OffType, BoundAssumption

LEMMA InitInv == Init => IndInv
<1> SUFFICES ASSUME Init PROVE IndInv
  OBVIOUS
<1>1. TypeOK
  BY OffType, CallType, EntryType, BoundAssumption DEF Init, TypeOK, Running
<1>2. Named
  BY DEF Init, Named, Out, Calling
<1>3. Goroutines /\ Leased
  BY DEF Init, Goroutines, Sound, Leased, Lasts, Off
<1> QED
  BY <1>1, <1>2, <1>3 DEF IndInv

-----------------------------------------------------------------------------
(* What a new entry and a new state of a goroutine mean for the rest. *)

LEMMA NewEntriesAreWhole ==
  /\ \A gone \in Nat : Whole(Absent, gone)
  /\ \A d \in Dogs, dur \in Durs, gone \in Nat : Whole(SetEntry(d, dur), gone)
  /\ \A e \in Entry, dur \in Durs, gone \in Nat : Whole(Prolonged(e, dur), gone)
<1>1. \A e \in Entry, dur \in Durs, gone \in Nat : e.ttl = dur => Whole(e, gone)
  BY DursNat DEF Whole, Entry
<1>2. \A e \in Entry, dur \in Durs : (Prolonged(e, dur) = e /\ e.by = Nobody) \/ Prolonged(e, dur).ttl = dur
  BY DEF Prolonged, Entry
<1>3. \A d \in Dogs, dur \in Durs : SetEntry(d, dur).ttl = dur
  BY DEF SetEntry
<1>4. \A gone \in Nat : Whole(Absent, gone)
  BY DEF Whole, Absent
<1>5. \A e \in Entry, gone \in Nat : e.by = Nobody => Whole(e, gone)
  BY DEF Whole
<1> QED
  BY <1>1, <1>2, <1>3, <1>4, <1>5, EntryType

\* A write of one such entry keeps the leases of goroutines that do not change.
LEMMA WriteKeepsLeases ==
  ASSUME IndInv, NEW k \in Keys, NEW v \in Entry, \A gone \in Nat : Whole(v, gone),
         redis' = [redis EXCEPT ![k] = v], NEW d \in Dogs, NEW i \in Slots
  PROVE  redis' \in [Keys -> Entry] /\ Lasts(watch[d][i], redis')
<1>1. redis \in [Keys -> Entry] /\ watch[d][i] \in Watcher /\ Lasts(watch[d][i], redis)
  BY DEF IndInv, TypeOK, Leased
<1>2. watch[d][i].at = "waiting" => watch[d][i].key \in Keys /\ watch[d][i].since \in Nat
  BY <1>1, BoundAssumption DEF IndInv, Goroutines, Sound, Watcher
<1>3. \A x \in Keys : redis'[x] = IF x = k THEN v ELSE redis[x]
  BY <1>1
<1> QED
  BY <1>1, <1>2, <1>3 DEF Lasts

\* One goroutine becomes w and the others stay.
LEMMA OneGoroutine ==
  ASSUME IndInv, NEW d \in Dogs, NEW i \in Slots, NEW w \in Watcher, SetWatch(d, i, w),
         Sound(w), Lasts(w, redis'),
         \A e \in Dogs, j \in Slots : e # d \/ j # i => Lasts(watch[e][j], redis')
  PROVE  Goroutines' /\ Leased'
<1>1. /\ watch'[d][i] = w
      /\ \A e \in Dogs, j \in Slots : e # d \/ j # i => watch'[e][j] = watch[e][j]
  BY SetWatchType DEF IndInv
<1>2. \A e \in Dogs, j \in Slots : Sound(watch'[e][j]) /\ Lasts(watch'[e][j], redis')
  BY <1>1 DEF IndInv, Goroutines
<1> QED
  BY <1>2 DEF Goroutines, Leased

\* One goroutine ends, and the others keep their leases.
LEMMA OneEnds ==
  ASSUME IndInv, NEW d \in Dogs, NEW i \in Slots, Ends(d, i),
         redis' \in [Keys -> Entry], call' = call, frozen' = frozen,
         \A e \in Dogs, j \in Slots : Lasts(watch[e][j], redis')
  PROVE  IndInv'
<1>1. Sound(Off) /\ Lasts(Off, redis')
  BY DEF Sound, Lasts, Off
<1>2. Goroutines' /\ Leased'
  BY <1>1, OneGoroutine, OffType DEF Ends
<1>3. TypeOK'
  BY EndsType DEF IndInv, TypeOK, Running, Slots
<1>4. Named'
  BY DEF IndInv, Named
<1> QED
  BY <1>2, <1>3, <1>4 DEF IndInv

-----------------------------------------------------------------------------
(* Each action keeps the invariant. *)

LEMMA LockWonInv ==
  ASSUME IndInv, NEW d \in Dogs, NEW k \in Keys, NEW dur \in Durs, LockWon(d, k, dur)
  PROVE  IndInv'
<1>1. SetEntry(d, dur) \in Entry /\ \A gone \in Nat : Whole(SetEntry(d, dur), gone)
  BY EntryType, NewEntriesAreWhole
<1>2. redis' \in [Keys -> Entry]
  BY <1>1 DEF LockWon, IndInv, TypeOK
<1>3. Leased'
  BY <1>1, WriteKeepsLeases DEF LockWon, Leased
<1>4. TypeOK'
  BY <1>2, CallType DEF LockWon, Move, IndInv, TypeOK, Running
<1>5. Named' /\ Goroutines'
  BY DEF LockWon, Move, Calling, IndInv, TypeOK, Named, Goroutines
<1> QED
  BY <1>3, <1>4, <1>5 DEF IndInv

LEMMA LockReplyLostInv ==
  ASSUME IndInv, NEW d \in Dogs, NEW k \in Keys, NEW dur \in Durs, LockReplyLost(d, k, dur)
  PROVE  IndInv'
<1>1. SetEntry(d, dur) \in Entry /\ \A gone \in Nat : Whole(SetEntry(d, dur), gone)
  BY EntryType, NewEntriesAreWhole
<1>2. redis' \in [Keys -> Entry]
  BY <1>1 DEF LockReplyLost, IndInv, TypeOK
<1>3. Leased'
  BY <1>1, WriteKeepsLeases DEF LockReplyLost, Leased
<1>4. TypeOK' /\ Named' /\ Goroutines'
  BY <1>2 DEF LockReplyLost, IndInv, TypeOK, Running, Named, Goroutines
<1> QED
  BY <1>3, <1>4 DEF IndInv

\* A goroutine that has just begun has not prolonged anything.
LEMMA StartedIsSound ==
  ASSUME NEW k \in Keys, NEW dur \in Durs, NEW r
  PROVE  Sound(Started(k, dur)) /\ Lasts(Started(k, dur), r)
  BY DEF Sound, Lasts, Started

LEMMA LockReturnInv ==
  ASSUME IndInv, NEW d \in Dogs, LockReturn(d)
  PROVE  IndInv'
<1>1. call[d].key \in Keys /\ call[d].dur \in Durs
  BY DEF LockReturn, IndInv, Named
<1>2. PICK i \in Slots : /\ SetWatch(d, i, Started(call[d].key, call[d].dur))
                         /\ cancel' = [cancel EXCEPT ![d] = i]
  BY DEF LockReturn
<1>3. /\ watch' \in [Dogs -> [Slots -> Watcher]]
      /\ watch'[d][i] = Started(call[d].key, call[d].dur)
      /\ \A e \in Dogs, j \in Slots : e # d \/ j # i => watch'[e][j] = watch[e][j]
  BY <1>1, <1>2, StartedType, SetWatchType DEF IndInv
<1>4. Goroutines' /\ Leased'
  BY <1>1, <1>2, StartedType, StartedIsSound, OneGoroutine DEF LockReturn, IndInv, Leased
<1>5. /\ cancel' \in [Dogs -> 0..MaxWatchers]
      /\ (\A e \in Dogs : cancel[e] # 0 => Running(e, cancel[e]))'
  <2>1. watch'[d][i].at # "off"
    BY <1>3 DEF Started
  <2>2. \A e \in Dogs : e # d /\ cancel[e] # 0 => watch'[e][cancel[e]].at # "off"
    BY <1>3, CancelSlot DEF IndInv
  <2>3. i \in 0..MaxWatchers /\ cancel \in [Dogs -> 0..MaxWatchers]
    BY BoundAssumption DEF IndInv, TypeOK, Slots
  <2>4. \A e \in Dogs : cancel'[e] = IF e = d THEN i ELSE cancel[e]
    BY <1>2, <2>3
  <2>5. cancel' \in [Dogs -> 0..MaxWatchers]
    BY <1>2, <2>3
  <2>6. \A e \in Dogs : cancel'[e] # 0 => watch'[e][cancel'[e]].at # "off"
    BY <2>1, <2>2, <2>4
  <2> QED
    BY <2>5, <2>6 DEF Running
<1>6. TypeOK'
  BY <1>3, <1>5, CallType DEF LockReturn, Move, IndInv, TypeOK
<1>7. Named'
  BY DEF LockReturn, Move, Out, Calling, IndInv, TypeOK, Named
<1> QED
  BY <1>4, <1>6, <1>7 DEF IndInv

LEMMA WatchInv ==
  ASSUME IndInv, NEW d \in Dogs, NEW k \in Keys, NEW dur \in Durs, Watch(d, k, dur)
  PROVE  IndInv'
<1>1. PICK i \in Slots : SetWatch(d, i, Started(k, dur)) /\ ~Running(d, i)
  BY DEF Watch
<1>2. Goroutines' /\ Leased'
  BY <1>1, StartedType, StartedIsSound, OneGoroutine DEF Watch, IndInv, Leased
<1>3. watch' \in [Dogs -> [Slots -> Watcher]] /\ watch'[d][i].at # "off"
  BY <1>1, StartedType, SetWatchType DEF IndInv, Started
<1>4. \A e \in Dogs, j \in Slots : watch[e][j].at # "off" => watch'[e][j].at # "off"
  BY <1>1, <1>3, StartedType, SetWatchType DEF IndInv
<1>5. TypeOK' /\ Named'
  BY <1>3, <1>4, CancelSlot DEF Watch, IndInv, TypeOK, Named, Running
<1> QED
  BY <1>2, <1>5 DEF IndInv

\* To cancel the context of a goroutine only takes its lease off the books.
LEMMA CancelledGoroutine ==
  ASSUME IndInv, NEW d \in Dogs, NEW i \in Slots, redis' = redis, watch[d][i].at # "off",
         SetWatch(d, i, [watch[d][i] EXCEPT !.cancelled = TRUE])
  PROVE  /\ Goroutines' /\ Leased'
         /\ watch' \in [Dogs -> [Slots -> Watcher]]
         /\ \A e \in Dogs, j \in Slots : watch[e][j].at # "off" => watch'[e][j].at # "off"
<1> DEFINE w == [watch[d][i] EXCEPT !.cancelled = TRUE]
<1>1. watch[d][i] \in Watcher /\ Sound(watch[d][i])
  BY DEF IndInv, TypeOK, Goroutines
<1>2. w \in Watcher /\ w.at # "off"
  BY <1>1, CancelledType DEF Watcher
<1>3. /\ w.at = watch[d][i].at /\ w.key = watch[d][i].key /\ w.dur = watch[d][i].dur
      /\ w.renewed = watch[d][i].renewed /\ w.cancelled
  BY <1>1 DEF Watcher
<1> HIDE DEF w
<1>7. Sound(w) /\ Lasts(w, redis')
  BY <1>1, <1>3 DEF Sound, Lasts
<1>4. \A e \in Dogs, j \in Slots : Lasts(watch[e][j], redis')
  BY DEF IndInv, Leased
<1>5. Goroutines' /\ Leased'
  BY <1>2, <1>4, <1>7, OneGoroutine DEF w
<1>8. /\ watch' \in [Dogs -> [Slots -> Watcher]] /\ watch'[d][i] = w
      /\ \A e \in Dogs, j \in Slots : e # d \/ j # i => watch'[e][j] = watch[e][j]
  <2>1. SetWatch(d, i, w) /\ TypeOK
    BY DEF w, IndInv
  <2> QED
    BY <1>2, <2>1, SetWatchType
<1>6. \A e \in Dogs, j \in Slots : watch[e][j].at # "off" => watch'[e][j].at # "off"
  BY <1>2, <1>8
<1> QED
  BY <1>5, <1>6, <1>8

LEMMA ContextDoneInv ==
  ASSUME IndInv, NEW d \in Dogs, NEW i \in Slots, ContextDone(d, i)
  PROVE  IndInv'
<1>1. /\ Goroutines' /\ Leased'
      /\ watch' \in [Dogs -> [Slots -> Watcher]]
      /\ \A e \in Dogs, j \in Slots : watch[e][j].at # "off" => watch'[e][j].at # "off"
  BY CancelledGoroutine DEF ContextDone, Running
<1>2. TypeOK' /\ Named'
  BY <1>1, CancelSlot DEF ContextDone, IndInv, TypeOK, Named, Running
<1> QED
  BY <1>1, <1>2 DEF IndInv

LEMMA UnlockInv ==
  ASSUME IndInv, NEW d \in Dogs, NEW k \in Keys, Unlock(d, k)
  PROVE  IndInv'
<1>1. Calling("deleting", k, 0) \in Call
  BY CallType
<1>2. /\ Goroutines' /\ Leased'
      /\ watch' \in [Dogs -> [Slots -> Watcher]]
      /\ \A e \in Dogs, j \in Slots : watch[e][j].at # "off" => watch'[e][j].at # "off"
  <2>1. CASE cancel[d] = 0
    BY <2>1 DEF Unlock, IndInv, TypeOK, Goroutines, Leased
  <2>2. CASE cancel[d] # 0
    <3>1. cancel[d] \in Slots /\ watch[d][cancel[d]].at # "off"
      BY <2>2, CancelSlot DEF IndInv
    <3> QED
      BY <2>2, <3>1, CancelledGoroutine DEF Unlock
  <2> QED
    BY <2>1, <2>2
<1>3. TypeOK'
  BY <1>1, <1>2, CancelSlot DEF Unlock, Move, IndInv, TypeOK, Running
<1>4. Named'
  BY DEF Unlock, Move, Calling, IndInv, TypeOK, Named
<1> QED
  BY <1>2, <1>3, <1>4 DEF IndInv

LEMMA UnlockReturnInv ==
  ASSUME IndInv, NEW d \in Dogs, UnlockReturn(d)
  PROVE  IndInv'
<1>1. call[d].key \in Keys /\ Absent \in Entry /\ \A gone \in Nat : Whole(Absent, gone)
  BY EntryType, NewEntriesAreWhole DEF UnlockReturn, IndInv, Named
<1>2. Leased'
  BY <1>1, WriteKeepsLeases DEF UnlockReturn, Leased
<1>3. TypeOK'
  BY <1>1, CallType DEF UnlockReturn, Move, IndInv, TypeOK, Running
<1>4. Named' /\ Goroutines'
  BY DEF UnlockReturn, Move, Out, Calling, IndInv, TypeOK, Named, Goroutines
<1> QED
  BY <1>2, <1>3, <1>4 DEF IndInv

LEMMA UnlockFailsInv ==
  ASSUME IndInv, NEW d \in Dogs, UnlockFails(d)
  PROVE  IndInv'
<1>1. TypeOK'
  BY CallType DEF UnlockFails, Move, IndInv, TypeOK, Running
<1>2. Named' /\ Goroutines' /\ Leased'
  BY DEF UnlockFails, Move, Out, Calling, IndInv, TypeOK, Named, Goroutines, Leased
<1> QED
  BY <1>1, <1>2 DEF IndInv

LEMMA SeesDoneInv ==
  ASSUME IndInv, NEW d \in Dogs, NEW i \in Slots, SeesDone(d, i)
  PROVE  IndInv'
  BY OneEnds DEF SeesDone, IndInv, TypeOK, Leased

LEMMA TickerFiresInv ==
  ASSUME IndInv, NEW d \in Dogs, NEW i \in Slots, TickerFires(d, i)
  PROVE  IndInv'
<1> DEFINE w == watch[d][i]
           v == [w EXCEPT !.at = "sending", !.since = @ % Interval(w.dur)]
<1>1. w \in Watcher /\ Sound(w) /\ w.at = "waiting" /\ Due(w) /\ SetWatch(d, i, v)
  BY DEF TickerFires, IndInv, TypeOK, Goroutines
<1>2. w.since \in 0..MaxSince /\ w.dur \in Durs
  BY <1>1 DEF Watcher, Sound
<1>3. /\ w.since \in Nat /\ w.since <= MaxSince
      /\ Interval(w.dur) \in Nat /\ Interval(w.dur) > 0 /\ w.since >= Interval(w.dur)
  BY <1>1, <1>2, BoundAssumption, DursNat, IntervalNat DEF Due
<1>4. w.since % Interval(w.dur) \in 0..(Interval(w.dur) - 1)
  BY <1>3, Phase
<1>5. w.since % Interval(w.dur) \in 0..MaxSince
  BY <1>3, <1>4, BoundAssumption
<1>6. v \in Watcher
  BY <1>1, <1>5 DEF Watcher
<1>7. v.at = "sending" /\ v.key = w.key /\ v.dur = w.dur
  BY <1>1 DEF Watcher
<1> HIDE DEF v
<1>8. Sound(v) /\ Lasts(v, redis')
  BY <1>1, <1>3, <1>7 DEF Sound, Lasts
<1>9. Goroutines' /\ Leased'
  BY <1>1, <1>6, <1>8, OneGoroutine DEF TickerFires, IndInv, Leased
<1>10. /\ watch' \in [Dogs -> [Slots -> Watcher]]
       /\ \A e \in Dogs, j \in Slots : watch[e][j].at # "off" => watch'[e][j].at # "off"
  <2>1. /\ watch' \in [Dogs -> [Slots -> Watcher]] /\ watch'[d][i] = v
        /\ \A e \in Dogs, j \in Slots : e # d \/ j # i => watch'[e][j] = watch[e][j]
    BY <1>1, <1>6, SetWatchType DEF IndInv
  <2> QED
    BY <1>7, <2>1
<1>11. TypeOK' /\ Named'
  BY <1>10, CancelSlot DEF TickerFires, IndInv, TypeOK, Named, Running
<1> QED
  BY <1>9, <1>11 DEF IndInv

\* An Expire, of whichever goroutine, keeps the leases of all.
LEMMA ProlongKeepsLeases ==
  ASSUME IndInv, NEW d \in Dogs, NEW i \in Slots, watch[d][i].at = "sending",
         redis' = [redis EXCEPT ![watch[d][i].key] = Prolonged(@, watch[d][i].dur)]
  PROVE  /\ redis' \in [Keys -> Entry]
         /\ \A gone \in Nat : Whole(redis'[watch[d][i].key], gone)
         /\ \A e \in Dogs, j \in Slots : Lasts(watch[e][j], redis')
<1> DEFINE k == watch[d][i].key
           v == Prolonged(redis[k], watch[d][i].dur)
<1>1. k \in Keys /\ watch[d][i].dur \in Durs /\ redis \in [Keys -> Entry]
  BY DEF IndInv, TypeOK, Goroutines, Sound
<1>2. v \in Entry /\ \A gone \in Nat : Whole(v, gone)
  BY <1>1, EntryType, NewEntriesAreWhole
<1>3. redis' = [redis EXCEPT ![k] = v]
  BY <1>1
<1>4. redis'[k] = v
  BY <1>1, <1>3
<1> HIDE DEF v
<1> QED
  BY <1>1, <1>2, <1>3, <1>4, WriteKeepsLeases

LEMMA RenewInv ==
  ASSUME IndInv, NEW d \in Dogs, NEW i \in Slots, Renew(d, i)
  PROVE  IndInv'
<1> DEFINE w == watch[d][i]
           v == [w EXCEPT !.at = "waiting", !.renewed = TRUE]
<1>1. w \in Watcher /\ Sound(w) /\ w.at = "sending"
  BY DEF Renew, IndInv, TypeOK, Goroutines
<1>2. /\ redis' \in [Keys -> Entry]
      /\ \A gone \in Nat : Whole(redis'[w.key], gone)
      /\ \A e \in Dogs, j \in Slots : Lasts(watch[e][j], redis')
  BY ProlongKeepsLeases DEF Renew
<1>3. CASE ~Taken(w.key)
  BY <1>2, <1>3, OneEnds DEF Renew
<1>4. CASE Taken(w.key)
  <2>1. SetWatch(d, i, v) /\ cancel' = cancel
    BY <1>4 DEF Renew
  <2>2. /\ v \in Watcher /\ v.at = "waiting" /\ v.key = w.key /\ v.dur = w.dur
        /\ v.since \in 0..MaxSince
    BY <1>1 DEF Watcher
  <2> HIDE DEF v
  <2>3. Sound(v) /\ Lasts(v, redis')
    BY <1>1, <1>2, <2>2, BoundAssumption DEF Sound, Lasts
  <2>4. Goroutines' /\ Leased'
    BY <1>2, <2>1, <2>2, <2>3, OneGoroutine
  <2>5. /\ watch' \in [Dogs -> [Slots -> Watcher]]
        /\ \A e \in Dogs, j \in Slots : watch[e][j].at # "off" => watch'[e][j].at # "off"
    <3>1. /\ watch' \in [Dogs -> [Slots -> Watcher]] /\ watch'[d][i] = v
          /\ \A e \in Dogs, j \in Slots : e # d \/ j # i => watch'[e][j] = watch[e][j]
      BY <2>1, <2>2, SetWatchType DEF IndInv
    <3> QED
      BY <2>2, <3>1
  <2>6. TypeOK' /\ Named'
    BY <1>2, <2>1, <2>5, CancelSlot DEF Renew, IndInv, TypeOK, Named, Running
  <2> QED
    BY <2>4, <2>6 DEF IndInv
<1> QED
  BY <1>3, <1>4

LEMMA RenewFailsInv ==
  ASSUME IndInv, NEW d \in Dogs, NEW i \in Slots, RenewFails(d, i)
  PROVE  IndInv'
<1>1. CASE redis' = redis
  BY <1>1, OneEnds DEF RenewFails, IndInv, TypeOK, Leased
<1>2. CASE redis' = [redis EXCEPT ![watch[d][i].key] = Prolonged(@, watch[d][i].dur)]
  BY <1>2, ProlongKeepsLeases, OneEnds DEF RenewFails
<1> QED
  BY <1>1, <1>2 DEF RenewFails

LEMMA PanicInv ==
  ASSUME IndInv, NEW d \in Dogs, NEW i \in Slots, Panic(d, i)
  PROVE  IndInv'
<1>1. /\ watch' \in [Dogs -> [Slots -> Watcher]]
      /\ \A j \in Slots : watch'[d][j] = Off
      /\ \A e \in Dogs, j \in Slots : e # d => watch'[e][j] = watch[e][j]
  BY OffType DEF Panic, IndInv, TypeOK
<1>2. Sound(Off) /\ Lasts(Off, redis')
  BY DEF Sound, Lasts, Off
<1>3. Goroutines' /\ Leased'
  BY <1>1, <1>2 DEF Panic, IndInv, Goroutines, Leased
<1>4. /\ cancel' \in [Dogs -> 0..MaxWatchers]
      /\ \A e \in Dogs : cancel'[e] = IF e = d THEN 0 ELSE cancel[e]
  BY BoundAssumption DEF Panic, IndInv, TypeOK
<1>5. TypeOK'
  BY <1>1, <1>4, CallType, CancelSlot DEF Panic, Move, IndInv, TypeOK, Running
<1>6. Named'
  BY DEF Panic, Move, Dead, Calling, IndInv, TypeOK, Named
<1> QED
  BY <1>3, <1>5, <1>6 DEF IndInv

LEMMA FreezeInv ==
  ASSUME IndInv, NEW d \in Dogs, Freeze(d) \/ Thaw(d)
  PROVE  IndInv'
  BY DEF Freeze, Thaw, IndInv, TypeOK, Running, Named, Goroutines, Leased

\* The time a goroutine has waited is the time its key has lost.
LEMMA AgedLasts ==
  ASSUME NEW w \in Watcher, Sound(w), NEW r \in [Keys -> Entry], Lasts(w, r),
         NEW s \in [Keys -> Entry], \A k \in Keys : s[k] = Aged(r[k])
  PROVE  Sound(Waited(w)) /\ Lasts(Waited(w), s)
<1>1. CASE w.at = "off" \/ w.cancelled \/ w.since = MaxSince
  <2>1. Waited(w) = w
    BY <1>1 DEF Waited
  <2>2. ~(w.at = "waiting" /\ ~w.cancelled /\ w.since < MaxSince)
    BY <1>1, BoundAssumption
  <2> QED
    BY <2>1, <2>2 DEF Lasts
<1>2. CASE ~(w.at = "off" \/ w.cancelled \/ w.since = MaxSince)
  <2> DEFINE v == [w EXCEPT !.since = @ + 1]
  <2>1. Waited(w) = v
    BY <1>2 DEF Waited
  <2>2. /\ v.at = w.at /\ v.key = w.key /\ v.dur = w.dur /\ v.renewed = w.renewed
        /\ v.cancelled = w.cancelled /\ v.since = w.since + 1
    BY DEF Watcher
  <2>3. w.since \in Nat /\ w.since < MaxSince /\ w.key \in Keys /\ ~w.cancelled
    BY <1>2, BoundAssumption DEF Watcher, Sound
  <2>4. Whole(r[w.key], w.since) => Whole(s[w.key], w.since + 1)
    <3> DEFINE e == r[w.key]
    <3>1. e \in Entry /\ e.ttl \in Nat /\ s[w.key] = Aged(e)
      BY <2>3, BoundAssumption DEF Entry
    <3>2. CASE e.ttl = 0
      BY <2>3, <3>1, <3>2 DEF Aged, Whole
    <3>3. CASE e.ttl = 1
      BY <3>1, <3>3 DEF Aged, Whole, Absent
    <3>4. CASE e.ttl > 1
      <4>1. Aged(e).by = e.by /\ Aged(e).ttl = e.ttl - 1
        BY <3>1, <3>4 DEF Aged, Entry
      <4> QED
        BY <2>3, <3>1, <3>4, <4>1, DursNat DEF Whole
    <3> QED
      BY <3>1, <3>2, <3>3, <3>4
  <2> HIDE DEF v
  <2> QED
    BY <2>1, <2>2, <2>3, <2>4 DEF Sound, Lasts
<1> QED
  BY <1>1, <1>2

LEMMA TickInv == ASSUME IndInv, Tick PROVE IndInv'
<1>1. redis' \in [Keys -> Entry] /\ \A k \in Keys : redis'[k] = Aged(redis[k])
  BY EntryType DEF Tick, IndInv, TypeOK
<1>2. /\ watch' \in [Dogs -> [Slots -> Watcher]]
      /\ \A d \in Dogs, i \in Slots : watch'[d][i] = Waited(watch[d][i])
  BY WaitedType DEF Tick, IndInv, TypeOK
<1>3. \A d \in Dogs, i \in Slots : Sound(watch'[d][i]) /\ Lasts(watch'[d][i], redis')
  <2> SUFFICES ASSUME NEW d \in Dogs, NEW i \in Slots
               PROVE  Sound(watch'[d][i]) /\ Lasts(watch'[d][i], redis')
    OBVIOUS
  <2>1. /\ watch[d][i] \in Watcher /\ redis \in [Keys -> Entry]
        /\ Sound(watch[d][i]) /\ Lasts(watch[d][i], redis)
    BY DEF IndInv, TypeOK, Goroutines, Leased
  <2> QED
    BY <1>1, <1>2, <2>1, AgedLasts
<1>4. \A d \in Dogs, i \in Slots : watch[d][i].at # "off" => watch'[d][i].at # "off"
  <2>1. \A w \in Watcher : Waited(w).at = w.at
    BY DEF Waited, Watcher
  <2> QED
    BY <1>2, <2>1 DEF IndInv, TypeOK
<1>5. TypeOK'
  BY <1>1, <1>2, <1>4, CancelSlot DEF Tick, IndInv, TypeOK, Running
<1>6. Named'
  BY DEF Tick, IndInv, Named
<1> QED
  BY <1>3, <1>5, <1>6 DEF IndInv, Goroutines, Leased

LEMMA NextInv == IndInv /\ [Next]_vars => IndInv'
<1> SUFFICES ASSUME IndInv, [Next]_vars PROVE IndInv'
  OBVIOUS
<1>1. CASE \E d \in Dogs : Client(d)
  BY <1>1, LockWonInv, LockReplyLostInv, LockReturnInv, WatchInv, UnlockInv, UnlockReturnInv,
     UnlockFailsInv DEF Client
<1>2. CASE \E d \in Dogs, i \in Slots : Goroutine(d, i)
  BY <1>2, PanicInv, SeesDoneInv, TickerFiresInv, RenewInv, RenewFailsInv DEF Goroutine
<1>3. CASE \E d \in Dogs, i \in Slots : ContextDone(d, i)
  BY <1>3, ContextDoneInv
<1>4. CASE \E d \in Dogs : Freeze(d) \/ Thaw(d)
  BY <1>4, FreezeInv
<1>5. CASE Tick
  BY <1>5, TickInv
<1>6. CASE UNCHANGED vars
  BY <1>6 DEF vars, IndInv, TypeOK, Running, Named, Goroutines, Leased
<1> QED
  BY <1>1, <1>2, <1>3, <1>4, <1>5, <1>6 DEF Next

LEMMA Inductive == Spec => []IndInv
  BY InitInv, NextInv, PTL DEF Spec

-----------------------------------------------------------------------------
(* The theorems. *)

\* Each variable keeps its type, and the cancel function of a WatchDog is that
\* of a goroutine that runs (impl.go:44-45).
THEOREM WatchTypes == Spec => []TypeOK
<1>1. IndInv => TypeOK
  BY DEF IndInv
<1> QED
  BY <1>1, Inductive, PTL

\* Time does not take a key from the goroutine that prolongs it.
LEMMA TickKeeps ==
  ASSUME IndInv, Tick, NEW k \in Keys, Taken(k), Watched(k)
  PROVE  redis'[k].by = redis[k].by
<1>1. PICK d \in Dogs, i \in Slots :
        Up(d) /\ Running(d, i) /\ watch[d][i].key = k /\ watch[d][i].renewed /\ ~watch[d][i].cancelled
  BY DEF Watched
<1> DEFINE w == watch[d][i]
           e == redis[k]
<1>2. w \in Watcher /\ Sound(w) /\ Lasts(w, redis) /\ e \in Entry /\ redis'[k] = Aged(e)
  BY DEF Tick, IndInv, TypeOK, Goroutines, Leased
<1>3. w.dur \in Durs /\ Interval(w.dur) > 0 /\ w.since \in Nat /\ e.ttl \in Nat
  BY <1>1, <1>2, BoundAssumption DEF Running, Sound, Watcher, Entry
<1>4. w.at = "waiting" /\ w.since < Interval(w.dur) + Late
  BY <1>1, <1>3 DEF Tick, InTime, Running
<1>5. Interval(w.dur) \in Nat
  BY <1>3, DursNat, IntervalNat
<1>6. CASE e.ttl = 0
  BY <1>2, <1>6 DEF Aged
<1>7. CASE e.ttl # 0
  <2>1. w.dur > 0
    BY <1>3, DursNat, IntervalNat
  <2>2. Interval(w.dur) + Late <= MaxSince
    BY <1>3, <2>1, LeaseAssumption
  <2>3. w.since < MaxSince
    BY <1>3, <1>4, <1>5, <2>2, BoundAssumption
  <2>4. PICK b \in Durs : b > 0 /\ b <= e.ttl + w.since
    BY <1>1, <1>2, <1>4, <1>7, <2>3 DEF Lasts, Whole, Taken
  <2>5. Interval(w.dur) + Late < b /\ b \in Nat
    BY <1>3, <2>4, LeaseAssumption, DursNat
  <2>6. e.ttl > 1
    BY <1>3, <1>4, <1>5, <2>4, <2>5, BoundAssumption
  <2> QED
    BY <1>2, <1>3, <2>6 DEF Aged, Entry
<1> QED
  BY <1>6, <1>7

\* A key that a goroutine has begun to prolong does not expire, and passes to
\* no other owner, while that goroutine runs: only a Del ends it
\* (impl.go:58-68).
THEOREM KeptForTheWatched == Spec => KeptWhileRenewed
<1> DEFINE Kept == \A k \in Keys : Taken(k) /\ Watched(k) /\ ~Deleted(k) => redis'[k].by = redis[k].by
<1>1. IndInv /\ [Next]_vars => Kept
  <2> SUFFICES ASSUME IndInv, [Next]_vars, NEW k \in Keys, Taken(k), Watched(k), ~Deleted(k)
               PROVE  redis'[k].by = redis[k].by
    OBVIOUS
  <2>1. redis \in [Keys -> Entry]
    BY DEF IndInv, TypeOK
  <2>2. CASE redis' = redis
    BY <2>2
  <2>3. ASSUME NEW d \in Dogs, NEW x \in Keys, NEW dur \in Durs,
               LockWon(d, x, dur) \/ LockReplyLost(d, x, dur)
        PROVE  redis'[k].by = redis[k].by
    BY <2>1, <2>3 DEF LockWon, LockReplyLost, Taken
  <2>4. ASSUME NEW d \in Dogs, UnlockReturn(d)
        PROVE  redis'[k].by = redis[k].by
    <3>1. call'[d].at = "out"
      BY <2>4 DEF UnlockReturn, Move, Out, Calling, IndInv, TypeOK
    <3>2. call[d].key # k
      BY <2>4, <3>1 DEF UnlockReturn, Deleted
    <3> QED
      BY <2>1, <2>4, <3>2 DEF UnlockReturn
  <2>5. ASSUME NEW d \in Dogs, NEW i \in Slots, Renew(d, i) \/ RenewFails(d, i)
        PROVE  redis'[k].by = redis[k].by
    <3>1. \A e \in Entry : \A dur : Prolonged(e, dur).by = e.by
      BY DEF Prolonged, Entry
    <3> QED
      BY <2>1, <2>5, <3>1 DEF Renew, RenewFails
  <2>6. CASE Tick
    BY <2>6, TickKeeps
  <2> QED
    BY <2>2, <2>3, <2>4, <2>5, <2>6
    DEF Next, Client, Goroutine, Watch, LockReturn, ContextDone, Unlock, UnlockFails, SeesDone,
        TickerFires, Panic, Freeze, Thaw, vars
<1> QED
  BY <1>1, Inductive, PTL DEF Spec, KeptWhileRenewed

=============================================================================
