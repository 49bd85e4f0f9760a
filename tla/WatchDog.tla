------------------------------ MODULE WatchDog ------------------------------
(***************************************************************************)
(* watchdog.WatchDog (src/watchdog/impl.go): a lock that is a key in Redis *)
(* with an expiry, set by SetNX, prolonged by a goroutine that Watch       *)
(* starts, and deleted by Unlock.                                          *)
(*                                                                         *)
(* A dog is a process with one WatchDog and one client. Between a call to  *)
(* Redis and what the process does with its reply anything may happen. A   *)
(* process may freeze (a pause of the runtime, a lost network) and thaw;   *)
(* one that never thaws has crashed. Time is in units of which a process   *)
(* that is not frozen needs none to handle a reply, and at most Late from  *)
(* the tick of a ticker to the Expire it leads to.                         *)
(***************************************************************************)
EXTENDS Integers, FiniteSets

CONSTANTS
  Dogs, Keys, Nobody, NoKey,
  Durs,         \* the dur a client may pass to Lock and Watch
  Fragile,      \* the processes that may freeze
  Late,         \* how late a goroutine that is not frozen may be
  MaxWatchers,  \* bound on the goroutines of a process
  MaxDur,       \* the longest of them
  MaxSince      \* where the time since a tick stops to be counted

\* Watch: the period of the ticker is dur / 7, an integer division.
Interval(dur) == dur \div 7

ASSUME BoundAssumption == Late \in Nat /\ MaxWatchers \in Nat /\ MaxDur \in Nat /\ MaxSince \in Nat
ASSUME DursAssumption == Durs \subseteq 0..MaxDur
ASSUME NoneAssumption == Nobody \notin Dogs /\ NoKey \notin Keys
ASSUME LeaseAssumption ==
  \A a, b \in Durs : Interval(a) > 0 /\ b > 0 => Interval(a) + Late < b /\ Interval(a) + Late <= MaxSince

VARIABLES
  redis,   \* who has set each key, and the time it has left; 0 is for ever
  call,    \* where the call of each client is
  watch,   \* the goroutines of each process
  cancel,  \* w.cancel: the goroutine it ends, or 0
  frozen   \* processes that do not run

vars == <<redis, call, watch, cancel, frozen>>

Slots == 1..MaxWatchers
Entry == [by: Dogs \union {Nobody}, ttl: 0..MaxDur]
Call == [at: {"out", "won", "deleting", "dead"}, key: Keys \union {NoKey}, dur: Durs \union {0}]
Watcher == [at: {"off", "waiting", "sending"}, key: Keys \union {NoKey}, dur: Durs \union {0},
            since: 0..MaxSince, renewed: BOOLEAN, cancelled: BOOLEAN]

Absent == [by |-> Nobody, ttl |-> 0]
Calling(place, k, dur) == [at |-> place, key |-> k, dur |-> dur]
Out == Calling("out", NoKey, 0)
Dead == Calling("dead", NoKey, 0)
Off == [at |-> "off", key |-> NoKey, dur |-> 0, since |-> 0, renewed |-> FALSE, cancelled |-> FALSE]
Started(k, dur) ==
  [at |-> "waiting", key |-> k, dur |-> dur, since |-> 0, renewed |-> FALSE, cancelled |-> FALSE]

Init ==
  /\ redis = [k \in Keys |-> Absent]
  /\ call = [d \in Dogs |-> Out]
  /\ watch = [d \in Dogs |-> [i \in Slots |-> Off]]
  /\ cancel = [d \in Dogs |-> 0]
  /\ frozen = {}

-----------------------------------------------------------------------------
(* Helpers. A definition marked faulty is what the one below it must not be:
   the properties are tested against it. *)

Taken(k) == redis[k].by # Nobody
Up(d) == d \notin frozen /\ call[d].at # "dead"
Running(d, i) == watch[d][i].at # "off"
Move(d, c) == call' = [call EXCEPT ![d] = c]
SetWatch(d, i, w) == watch' = [watch EXCEPT ![d][i] = w]

\* A goroutine ends; to cancel its context has no effect any more.
Ends(d, i) ==
  /\ SetWatch(d, i, Off)
  /\ cancel' = [cancel EXCEPT ![d] = IF @ = i THEN 0 ELSE @]

\* What SetNX with an expiry writes, and what Expire leaves of an entry
SetForEver(d, dur) == [by |-> d, ttl |-> 0]  \* faulty
SetEntry(d, dur) == [by |-> d, ttl |-> dur]
ProlongedByInterval(e, dur) == IF e.by = Nobody THEN e ELSE [e EXCEPT !.ttl = Interval(dur)]  \* faulty
Prolonged(e, dur) == IF e.by = Nobody THEN e ELSE [e EXCEPT !.ttl = dur]

\* The ticker is due.
Due(w) == Interval(w.dur) > 0 /\ w.since >= Interval(w.dur)

-----------------------------------------------------------------------------
(* Lock. SetNX is one command. When another owner has the key, or Redis fails
   before it runs the command, Lock returns and nothing has changed; in the
   first case it returns no error. *)

FreeSlot(d) == \E i \in Slots : ~Running(d, i)

LockWon(d, k, dur) ==
  /\ Up(d) /\ call[d].at = "out" /\ FreeSlot(d) /\ ~Taken(k)
  /\ redis' = [redis EXCEPT ![k] = SetEntry(d, dur)]
  /\ Move(d, Calling("won", k, dur))
  /\ UNCHANGED <<watch, cancel, frozen>>

\* The command was run and its reply lost: Lock returns the error.
LockReplyLost(d, k, dur) ==
  /\ Up(d) /\ call[d].at = "out" /\ ~Taken(k)
  /\ redis' = [redis EXCEPT ![k] = SetEntry(d, dur)]
  /\ UNCHANGED <<call, watch, cancel, frozen>>

LockUnwatched(d) ==  \* faulty
  /\ Up(d) /\ call[d].at = "won"
  /\ \E i \in Slots : ~Running(d, i) /\ cancel' = [cancel EXCEPT ![d] = i]
  /\ Move(d, Out)
  /\ UNCHANGED <<redis, watch, frozen>>

\* A new context replaces w.cancel, whatever goroutine that one was for.
LockReturn(d) ==
  /\ Up(d) /\ call[d].at = "won"
  /\ \E i \in Slots :
       /\ ~Running(d, i)
       /\ SetWatch(d, i, Started(call[d].key, call[d].dur))
       /\ cancel' = [cancel EXCEPT ![d] = i]
  /\ Move(d, Out)
  /\ UNCHANGED <<redis, frozen>>

\* Watch is exported: a client may call it without Lock.
Watch(d, k, dur) ==
  /\ Up(d) /\ call[d].at = "out"
  /\ \E i \in Slots : ~Running(d, i) /\ SetWatch(d, i, Started(k, dur))
  /\ UNCHANGED <<redis, call, cancel, frozen>>

\* The context the client gave to Lock or Watch ends.
ContextDone(d, i) ==
  /\ Up(d) /\ Running(d, i) /\ ~watch[d][i].cancelled
  /\ SetWatch(d, i, [watch[d][i] EXCEPT !.cancelled = TRUE])
  /\ UNCHANGED <<redis, call, cancel, frozen>>

-----------------------------------------------------------------------------
(* Unlock. A client may unlock any key at any time: Lock does not tell it
   whether it has won, and Unlock does not ask. *)

Unlock(d, k) ==
  /\ Up(d) /\ call[d].at = "out"
  /\ IF cancel[d] = 0 THEN UNCHANGED watch
     ELSE SetWatch(d, cancel[d], [watch[d][cancel[d]] EXCEPT !.cancelled = TRUE])
  /\ Move(d, Calling("deleting", k, 0))
  /\ UNCHANGED <<redis, cancel, frozen>>

\* Del reaches Redis, even when the process that sent it is frozen by now.
UnlockReturn(d) ==
  /\ call[d].at = "deleting"
  /\ redis' = [redis EXCEPT ![call[d].key] = Absent]
  /\ Move(d, Out)
  /\ UNCHANGED <<watch, cancel, frozen>>

UnlockFails(d) ==
  /\ Up(d) /\ call[d].at = "deleting"
  /\ Move(d, Out)
  /\ UNCHANGED <<redis, watch, cancel, frozen>>

-----------------------------------------------------------------------------
(* The goroutine of Watch. *)

\* ctx.Done. When the ticker is chosen instead, Expire fails with the
\* context's error and the goroutine returns as well.
DoneIgnored(d, i) == FALSE /\ Ends(d, i) /\ UNCHANGED <<redis, call, frozen>>  \* faulty
SeesDone(d, i) ==
  /\ Up(d) /\ watch[d][i].at = "waiting" /\ watch[d][i].cancelled /\ Interval(watch[d][i].dur) > 0
  /\ Ends(d, i)
  /\ UNCHANGED <<redis, call, frozen>>

\* Ticks nobody received in time are dropped; the ticker keeps its phase.
TickerFires(d, i) ==
  LET w == watch[d][i] IN
    /\ Up(d) /\ w.at = "waiting" /\ ~w.cancelled /\ Due(w)
    /\ SetWatch(d, i, [w EXCEPT !.at = "sending", !.since = @ % Interval(w.dur)])
    /\ UNCHANGED <<redis, call, cancel, frozen>>

\* Expire, by the name of the key, runs and is answered.
Renew(d, i) ==
  LET w == watch[d][i] IN
    /\ w.at = "sending"
    /\ redis' = [redis EXCEPT ![w.key] = Prolonged(@, w.dur)]
    /\ IF ~Taken(w.key) THEN Ends(d, i)
       ELSE SetWatch(d, i, [w EXCEPT !.at = "waiting", !.renewed = TRUE]) /\ UNCHANGED cancel
    /\ UNCHANGED <<call, frozen>>

\* An error ends the goroutine for good, whether the command was run or not.
RenewFails(d, i) ==
  LET w == watch[d][i] IN
    /\ w.at = "sending"
    /\ redis' \in {redis, [redis EXCEPT ![w.key] = Prolonged(@, w.dur)]}
    /\ Ends(d, i)
    /\ UNCHANGED <<call, frozen>>

\* Before anything else NewTicker panics when dur / 7 is 0: the process is gone.
Panic(d, i) ==
  /\ Up(d) /\ Running(d, i) /\ Interval(watch[d][i].dur) = 0
  /\ Move(d, Dead)
  /\ watch' = [watch EXCEPT ![d] = [j \in Slots |-> Off]]
  /\ cancel' = [cancel EXCEPT ![d] = 0]
  /\ UNCHANGED <<redis, frozen>>

-----------------------------------------------------------------------------
(* The world outside. *)

Freeze(d) == d \in Fragile /\ Up(d) /\ frozen' = frozen \union {d} /\ UNCHANGED <<redis, call, watch, cancel>>
Thaw(d) == d \in frozen /\ frozen' = frozen \ {d} /\ UNCHANGED <<redis, call, watch, cancel>>

\* Time does not pass a process that runs and is due to do something.
InTime(w) ==
  \/ w.at = "off"
  \/ w.at = "waiting" /\ (w.cancelled \/ Interval(w.dur) = 0 \/ w.since < Interval(w.dur) + Late)

Aged(e) == IF e.ttl = 0 THEN e ELSE IF e.ttl = 1 THEN Absent ELSE [e EXCEPT !.ttl = @ - 1]
Waited(w) == IF w.at = "off" \/ w.cancelled \/ w.since = MaxSince THEN w ELSE [w EXCEPT !.since = @ + 1]

Tick ==
  /\ \A d \in Dogs : Up(d) => call[d].at # "won" /\ \A i \in Slots : InTime(watch[d][i])
  /\ redis' = [k \in Keys |-> Aged(redis[k])]
  /\ watch' = [d \in Dogs |-> [i \in Slots |-> Waited(watch[d][i])]]
  /\ UNCHANGED <<call, cancel, frozen>>

-----------------------------------------------------------------------------

Client(d) ==
  \/ \E k \in Keys, dur \in Durs : LockWon(d, k, dur) \/ LockReplyLost(d, k, dur) \/ Watch(d, k, dur)
  \/ \E k \in Keys : Unlock(d, k)
  \/ LockReturn(d) \/ UnlockReturn(d) \/ UnlockFails(d)

Goroutine(d, i) == Panic(d, i) \/ SeesDone(d, i) \/ TickerFires(d, i) \/ Renew(d, i) \/ RenewFails(d, i)

Next ==
  \/ \E d \in Dogs : Client(d) \/ Freeze(d) \/ Thaw(d)
  \/ \E d \in Dogs, i \in Slots : Goroutine(d, i) \/ ContextDone(d, i)
  \/ Tick

\* What a process that is not frozen has begun goes on, a command in flight is
\* answered, and time passes. Clients need not call, nor frozen processes thaw.
Fairness ==
  /\ \A d \in Dogs : WF_vars(LockReturn(d))
  /\ \A d \in Dogs, i \in Slots : WF_vars(Goroutine(d, i))
  /\ SF_vars(Tick)

Spec == Init /\ [][Next]_vars
FairSpec == Spec /\ Fairness

-----------------------------------------------------------------------------
(* Properties. *)

\* Each variable has its type, and a cancel function that may still have an
\* effect is the one of a goroutine that runs (impl.go:44-45).
TypeOK ==
  /\ redis \in [Keys -> Entry]
  /\ call \in [Dogs -> Call]
  /\ watch \in [Dogs -> [Slots -> Watcher]]
  /\ cancel \in [Dogs -> 0..MaxWatchers]
  /\ frozen \subseteq Dogs
  /\ \A d \in Dogs : cancel[d] # 0 => Running(d, cancel[d])

\* A goroutine of a process that runs prolongs k and is not cancelled.
Watched(k) ==
  \E d \in Dogs, i \in Slots :
    Up(d) /\ Running(d, i) /\ watch[d][i].key = k /\ watch[d][i].renewed /\ ~watch[d][i].cancelled

Deleted(k) == \E d \in Dogs : call[d].at = "deleting" /\ call[d].key = k /\ call'[d].at = "out"

\* impl.go:58-68. A key that a goroutine has begun to prolong does not expire,
\* and passes to no other owner, while that goroutine runs: between two of its
\* Expires there is less than what either leaves, however late the ticks and
\* whoever else prolongs or takes the key, with durations that LeaseAssumption
\* allows. Only a Del, of any client, ends it.
KeptWhileRenewed ==
  [][\A k \in Keys : Taken(k) /\ Watched(k) /\ ~Deleted(k) => redis'[k].by = redis[k].by]_vars

\* impl.go:61-66. A goroutine whose context is done, or whose key is gone, ends
\* (or somebody sets the key anew, or its process stops): none prolongs for ever
\* a lock that was given up.
StrayEnds ==
  \A d \in Dogs, i \in Slots :
    LET stray == Running(d, i) /\ (watch[d][i].cancelled \/ ~Taken(watch[d][i].key))
        called == Running(d, i) /\ ~watch[d][i].cancelled /\ Taken(watch[d][i].key)
    IN  stray ~> ~Running(d, i) \/ called \/ ~Up(d)

\* impl.go:39. A lock that expires and is left by a process that crashed or
\* panicked, at whatever point, is free again in time, unless a goroutine of a
\* process that runs prolongs it.
LeftLocksExpire ==
  0 \notin Durs =>
    \A k \in Keys :
      Taken(k) ~> \/ ~Taken(k)
                  \/ \E d \in Dogs, i \in Slots : Up(d) /\ Running(d, i) /\ watch[d][i].key = k
=============================================================================
