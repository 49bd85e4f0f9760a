------------------------------ MODULE ListPool ------------------------------
(***************************************************************************)
(* onepool.List (src/onepool/list.go): a pool of connections kept in a     *)
(* stack of idle items under a mutex, with an unbuffered channel used as a *)
(* condition variable and a goroutine that closes stale items.             *)
(*                                                                         *)
(* The mutex is never held across a call that blocks, so what the code     *)
(* does between Lock and Unlock is one atomic step here; everything it     *)
(* does outside the mutex (checking an expiry, dialing, closing a          *)
(* connection, parking in the select) is a step of its own, and a program  *)
(* counter per client says where its call of Get or Put is.                *)
(***************************************************************************)
EXTENDS Integers, Sequences, FiniteSets

CONSTANTS
  Clients,   \* goroutines that call Get and Put
  Conns,     \* connections New may return
  NoConn,    \* "no connection"
  Configs,   \* the configurations NewList and Reload may be given
  Bounded,   \* the clients whose context has a deadline or is cancelled
  Closable,  \* whether Close is ever called
  MaxNow     \* bound on the clock

Config == [Active: Nat, Idle: Nat, IdleTimeout: Nat, WaitTimeout: Nat, Wait: BOOLEAN]

ASSUME ClientsAssumption == IsFiniteSet(Clients) /\ Bounded \subseteq Clients
ASSUME ConnsAssumption == NoConn \notin Conns \union Clients
ASSUME ConfigAssumption == Configs \subseteq Config
ASSUME BoundAssumption == MaxNow \in Nat /\ Closable \in BOOLEAN

VARIABLES
  \* the fields of List
  conf, closed, active, idles, cleanerCh,
  \* the calls in progress
  pc,        \* where client p is
  conn,      \* the connection p's call or p itself has in hand
  stamp,     \* createdAt of the item Get popped
  left,      \* idle items Get's inner loop may still look at (n - i)
  late,      \* clients whose own context has ended during this Get
  timed,     \* clients parked, or about to be, with a WaitTimeout
  \* the goroutine staleCleaner, and the loop at the end of Close
  cleaner, victim, sweepLeft, doomed,
  \* the environment: the clock, and the connections opened and not closed
  now, open

pool      == <<conf, closed, active, idles, cleanerCh>>
calls     == <<pc, conn, stamp, left, late, timed>>
sweep     == <<cleaner, victim, sweepLeft>>
vars      == <<pool, calls, sweep, doomed, now, open>>

-----------------------------------------------------------------------------
(* Program counters. *)

InGet == {"got", "stale", "relock", "dialing", "parking", "waiting", "woken"}
PCs   == InGet \union {"out", "holding", "closing"}

\* the places where a call or its client is charged one unit of active
Charged == {"got", "stale", "relock", "dialing", "holding"}
\* the places where a call or its client has a connection in hand
InHand  == {"got", "stale", "holding", "closing"}

Item == [c: Conns, at: 0..MaxNow]

Init ==
  /\ conf \in {k \in Configs : k.Active >= k.Idle}
  /\ closed = FALSE
  /\ active = 0
  /\ idles = <<>>
  /\ cleanerCh = IF conf.IdleTimeout > 0 THEN "empty" ELSE "nil"
  /\ cleaner = IF conf.IdleTimeout > 0 THEN "select" ELSE "none"
  /\ victim = NoConn
  /\ sweepLeft = 0
  /\ doomed = {}
  /\ pc = [p \in Clients |-> "out"]
  /\ conn = [p \in Clients |-> NoConn]
  /\ stamp = [p \in Clients |-> 0]
  /\ left = [p \in Clients |-> 0]
  /\ late = {}
  /\ timed = {}
  /\ now = 0
  /\ open = {}

-----------------------------------------------------------------------------
(* Helpers. A definition marked faulty is what the one below it must not be:
   the properties are tested against it. *)

\* item.expired
Expired(at, timeout) == timeout > 0 /\ at + timeout < now

\* signal: a send that does not block on a channel with no buffer. It wakes
\* one of the goroutines blocked in the select; when there is none, nothing
\* remembers it.
Waiting(f) == {p \in Clients : f[p] = "waiting"}
SignalNobody(f) == {f}                                                \* faulty
Signal(f) == IF Waiting(f) = {} THEN {f} ELSE {[f EXCEPT ![p] = "woken"] : p \in Waiting(f)}

\* the count of release; the signal that goes with it is in each action
ReleasedNever == active                                               \* faulty
ReleasedTwice == active - 2                                            \* faulty
Released == active - 1

\* a connection's Close
CloseConnNever(c) == UNCHANGED open                                   \* faulty
CloseConn(c) == open' = open \ {c}

\* the Back and the rest of a list
BackIsFront(s) == s[1]                                                \* faulty
Back(s) == s[Len(s)]
ButBack(s) == SubSeq(s, 1, Len(s) - 1)

\* the conditions of Get's loop: list.go:161, 166, 179, 193
ForgetsClosed == FALSE                                                \* faulty
ShutOut == closed
DialsPastLimit(a) == conf.Active = 0 \/ a <= conf.Active              \* faulty
MayDial(a) == conf.Active = 0 \/ a < conf.Active
MayWait == conf.WaitTimeout > 0 \/ conf.Wait
IgnoresCtx(p) == FALSE                                                \* faulty
CtxEnded(p) == p \in late

-----------------------------------------------------------------------------
(* Get. The loop of list.go:143-200 is entered, with mu held, from three   *)
(* places: the start of the call, after an expired item was closed, and    *)
(* after a wake-up. There, n is the number of idle items the inner loop    *)
(* may still look at, a the count of connections and f the program         *)
(* counters, the effects of the caller's release() included.               *)

PopIdle(p, n, a, f) ==
  /\ n > 0 /\ idles # <<>>
  /\ idles' = Tail(idles)
  /\ conn' = [conn EXCEPT ![p] = Head(idles).c]
  /\ stamp' = [stamp EXCEPT ![p] = Head(idles).at]
  /\ left' = [left EXCEPT ![p] = n - 1]
  /\ active' = a
  /\ timed' = timed \ {p}
  /\ pc' = [f EXCEPT ![p] = "got"]

NoIdle(p, a, f) ==
  /\ UNCHANGED <<idles, stamp>>
  /\ conn' = [conn EXCEPT ![p] = NoConn]
  /\ left' = [left EXCEPT ![p] = 0]
  /\ \/ /\ ~ShutOut /\ MayDial(a)
        /\ active' = a + 1 /\ pc' = [f EXCEPT ![p] = "dialing"]
        /\ timed' = timed \ {p}
     \/ /\ ~ShutOut /\ ~MayDial(a) /\ MayWait
        /\ active' = a /\ pc' = [f EXCEPT ![p] = "parking"]
        /\ timed' = IF conf.WaitTimeout > 0 THEN timed \union {p} ELSE timed \ {p}
     \/ /\ ShutOut \/ (~MayDial(a) /\ ~MayWait)   \* ErrPoolClosed, ErrPoolExhausted
        /\ active' = a /\ pc' = [f EXCEPT ![p] = "out"]
        /\ timed' = timed \ {p}

GetLoop(p, n, a, f) ==
  /\ \/ PopIdle(p, n, a, f)
     \/ (n = 0 \/ idles = <<>>) /\ NoIdle(p, a, f)
  /\ UNCHANGED <<conf, closed, cleanerCh, sweep, doomed, now, open>>

\* The call of Get, on an open pool; on a closed one it returns ErrPoolClosed
\* and changes nothing.
GetStart(p) ==
  /\ pc[p] = "out" /\ ~closed
  /\ late' = late \ {p}
  /\ GetLoop(p, Len(idles), active, pc)

\* The item just popped is checked against the configuration read without
\* the mutex: whatever Reload has stored by now.
CheckExpired(p) ==
  /\ pc[p] = "got"
  /\ pc' = [pc EXCEPT ![p] = IF Expired(stamp[p], conf.IdleTimeout) THEN "stale" ELSE "holding"]
  /\ stamp' = [stamp EXCEPT ![p] = 0]
  /\ left' = [left EXCEPT ![p] = IF pc'[p] = "stale" THEN @ ELSE 0]
  /\ UNCHANGED <<pool, conn, late, timed, sweep, doomed, now, open>>

CloseStale(p) ==
  /\ pc[p] = "stale"
  /\ CloseConn(conn[p])
  /\ conn' = [conn EXCEPT ![p] = NoConn]
  /\ pc' = [pc EXCEPT ![p] = "relock"]
  /\ UNCHANGED <<pool, stamp, left, late, timed, sweep, doomed, now>>

RetryAfterStale(p) ==
  /\ pc[p] = "relock"
  /\ UNCHANGED late
  /\ \E f \in Signal(pc) : GetLoop(p, left[p], Released, f)

\* New returns a connection, or fails and the slot is released.
DialOk(p) ==
  /\ pc[p] = "dialing"
  /\ \E c \in Conns \ open :
       /\ open' = open \union {c}
       /\ conn' = [conn EXCEPT ![p] = c]
  /\ pc' = [pc EXCEPT ![p] = "holding"]
  /\ UNCHANGED <<pool, stamp, left, late, timed, sweep, doomed, now>>

DialFail(p) ==
  /\ pc[p] = "dialing"
  /\ active' = Released
  /\ \E f \in Signal(pc) : pc' = [f EXCEPT ![p] = "out"]
  /\ UNCHANGED <<conf, closed, idles, cleanerCh, conn, stamp, left, late, timed, sweep, doomed, now, open>>

\* The select of list.go:192. Between the Unlock and this step p is not yet
\* a receiver of cond, and no signal reaches it. A context already done is
\* the only ready case.
EnterSelect(p) ==
  /\ pc[p] = "parking"
  /\ IF CtxEnded(p)
     THEN pc' = [pc EXCEPT ![p] = "out"] /\ timed' = timed \ {p}
     ELSE pc' = [pc EXCEPT ![p] = "waiting"] /\ UNCHANGED timed
  /\ UNCHANGED <<pool, conn, stamp, left, late, sweep, doomed, now, open>>

\* nctx is done: the caller's context is, or WaitTimeout, counted from this
\* pass of the loop, has gone by.
WaitTimedOut(p) ==
  /\ pc[p] = "waiting"
  /\ CtxEnded(p) \/ p \in timed
  /\ pc' = [pc EXCEPT ![p] = "out"]
  /\ timed' = timed \ {p}
  /\ UNCHANGED <<pool, conn, stamp, left, late, sweep, doomed, now, open>>

WakeUp(p) ==
  /\ pc[p] = "woken"
  /\ UNCHANGED late
  /\ GetLoop(p, Len(idles), active, pc)

\* The caller's context ends while its Get is in progress.
CtxDone(p) ==
  /\ p \in Bounded \ late /\ pc[p] \in InGet
  /\ late' = late \union {p}
  /\ UNCHANGED <<pool, pc, conn, stamp, left, timed, sweep, doomed, now, open>>

-----------------------------------------------------------------------------
(* Put: the item goes to the front; when that is one idle item too many    *)
(* the oldest goes, and is closed after the mutex is released.             *)

PushedBack(p) == Append(idles, [c |-> conn[p], at |-> now])            \* faulty
Pushed(p) == <<[c |-> conn[p], at |-> now]>> \o idles

PutKept(p) ==
  /\ pc[p] = "holding" /\ ~closed /\ Len(idles) < conf.Idle
  /\ idles' = Pushed(p)
  /\ conn' = [conn EXCEPT ![p] = NoConn]
  /\ \E f \in Signal(pc) : pc' = [f EXCEPT ![p] = "out"]
  /\ UNCHANGED <<conf, closed, active, cleanerCh, stamp, left, late, timed, sweep, doomed, now, open>>

PutEvicting(p) ==
  /\ pc[p] = "holding" /\ ~closed /\ Len(idles) >= conf.Idle
  /\ idles' = ButBack(Pushed(p))
  /\ conn' = [conn EXCEPT ![p] = Back(Pushed(p)).c]
  /\ active' = Released
  /\ \E f \in Signal(pc) : pc' = [f EXCEPT ![p] = "closing"]
  /\ UNCHANGED <<conf, closed, cleanerCh, stamp, left, late, timed, sweep, doomed, now, open>>

\* forceClose, which any caller may ask for, or a closed pool
PutDropped(p) ==
  /\ pc[p] = "holding"
  /\ active' = Released
  /\ \E f \in Signal(pc) : pc' = [f EXCEPT ![p] = "closing"]
  /\ UNCHANGED <<conf, closed, idles, cleanerCh, conn, stamp, left, late, timed, sweep, doomed, now, open>>

CloseReturned(p) ==
  /\ pc[p] = "closing"
  /\ CloseConn(conn[p])
  /\ conn' = [conn EXCEPT ![p] = NoConn]
  /\ pc' = [pc EXCEPT ![p] = "out"]
  /\ UNCHANGED <<pool, stamp, left, late, timed, sweep, doomed, now>>

Put(p) == PutKept(p) \/ PutEvicting(p) \/ PutDropped(p)

-----------------------------------------------------------------------------
(* Close and Reload. *)

IdleConns == {idles[i].c : i \in 1..Len(idles)}

\* Close wakes nobody. Its caller closes the idle items one after another.
Close ==
  /\ Closable
  /\ closed' = TRUE
  /\ doomed' = doomed \union IdleConns
  /\ active' = active - Len(idles)
  /\ idles' = <<>>
  /\ UNCHANGED <<conf, cleanerCh, calls, sweep, now, open>>

CloseDoomed ==
  /\ \E c \in doomed : doomed' = doomed \ {c} /\ CloseConn(c)
  /\ UNCHANGED <<pool, calls, sweep, now>>

\* startCleanerLocked(k.IdleTimeout), run before conf is replaced
StartAnother(k) ==                                                    \* faulty
  IF k.IdleTimeout > 0 /\ cleaner \in {"none", "exited"}
  THEN cleanerCh' = "empty" /\ cleaner' = "select"
  ELSE UNCHANGED <<cleanerCh, cleaner>>

StartCleaner(k) ==
  IF k.IdleTimeout > 0 /\ cleanerCh = "nil"
  THEN cleanerCh' = "empty" /\ cleaner' = "select"
  ELSE /\ cleanerCh' = IF k.IdleTimeout > 0 /\ k.IdleTimeout < conf.IdleTimeout THEN "full" ELSE cleanerCh
       /\ UNCHANGED cleaner

Reload(k) ==
  /\ StartCleaner(k)
  /\ conf' = k
  /\ UNCHANGED <<closed, active, idles, calls, victim, sweepLeft, doomed, now, open>>

-----------------------------------------------------------------------------
(* staleCleaner. *)

\* one pass of the loop of list.go:114, with mu held and n passes left
Sweep(n) ==
  /\ IF n > 0 /\ idles # <<>> /\ Expired(Back(idles).at, conf.IdleTimeout)
     THEN /\ idles' = ButBack(idles)
          /\ victim' = Back(idles).c
          /\ sweepLeft' = n - 1
          /\ cleaner' = "closing"
          /\ active' = Released
          /\ pc' \in Signal(pc)
     ELSE /\ cleaner' = "select"
          /\ sweepLeft' = 0
          /\ UNCHANGED <<idles, victim, active, pc>>
  /\ UNCHANGED <<conf, closed, conn, stamp, left, late, timed, doomed, now, open>>

\* The ticker may fire at any time; a message in cleanerCh wakes it as well.
CleanerWake ==
  /\ cleaner = "select"
  /\ cleanerCh' = cleanerCh \/ (cleanerCh = "full" /\ cleanerCh' = "empty")
  /\ IF closed \/ conf.IdleTimeout = 0
     THEN /\ cleaner' = "exited"
          /\ UNCHANGED <<conf, closed, active, idles, calls, victim, sweepLeft, doomed, now, open>>
     ELSE Sweep(Len(idles))

CleanerClose ==
  /\ cleaner = "closing"
  /\ CloseConn(victim)
  /\ victim' = NoConn
  /\ cleaner' = "relock"
  /\ UNCHANGED <<pool, calls, sweepLeft, doomed, now>>

CleanerRelock ==
  /\ cleaner = "relock"
  /\ UNCHANGED cleanerCh
  /\ Sweep(sweepLeft)

Tick ==
  /\ now < MaxNow
  /\ now' = now + 1
  /\ UNCHANGED <<pool, calls, sweep, doomed, open>>

-----------------------------------------------------------------------------

GetStep(p) ==
  \/ CheckExpired(p) \/ CloseStale(p) \/ RetryAfterStale(p)
  \/ DialOk(p) \/ DialFail(p)
  \/ EnterSelect(p) \/ WaitTimedOut(p) \/ WakeUp(p)

Cleaner == CleanerWake \/ CleanerClose \/ CleanerRelock

Next ==
  \/ \E p \in Clients :
       GetStart(p) \/ GetStep(p) \/ CtxDone(p) \/ Put(p) \/ CloseReturned(p)
  \/ Close \/ CloseDoomed
  \/ \E k \in Configs : Reload(k)
  \/ Cleaner
  \/ Tick

Spec == Init /\ [][Next]_vars

(***************************************************************************)
(* Fairness. A goroutine inside Get, inside the Close of a connection or   *)
(* in the cleaner keeps running: the Go scheduler and its mutex, which     *)
(* hands itself over to the longest waiter, starve nobody. New returns.    *)
(* A context with a deadline ends. Nothing makes a client call Get or Put, *)
(* or anybody call Close or Reload; FairClients adds that clients return   *)
(* what they hold.                                                         *)
(***************************************************************************)
Fairness ==
  /\ \A p \in Clients : /\ WF_vars(GetStep(p)) /\ WF_vars(CloseReturned(p))
                        /\ WF_vars(CtxDone(p))
  /\ WF_vars(Cleaner) /\ WF_vars(CloseDoomed)

FairClients == \A p \in Clients : WF_vars(Put(p))

FairSpec == Spec /\ Fairness /\ FairClients

-----------------------------------------------------------------------------
(* Safety. *)

TypeOK ==
  /\ conf \in Configs /\ closed \in BOOLEAN /\ active \in Nat
  /\ idles \in Seq(Item)
  /\ cleanerCh \in {"nil", "empty", "full"}
  /\ pc \in [Clients -> PCs]
  /\ conn \in [Clients -> Conns \union {NoConn}]
  /\ stamp \in [Clients -> 0..MaxNow]
  /\ left \in [Clients -> Nat]
  /\ late \subseteq Bounded /\ timed \subseteq Clients
  /\ cleaner \in {"none", "select", "closing", "relock", "exited"}
  /\ victim \in Conns \union {NoConn}
  /\ sweepLeft \in Nat
  /\ doomed \subseteq Conns /\ open \subseteq Conns
  /\ now \in 0..MaxNow

In(places) == {p \in Clients : pc[p] \in places}

\* active counts, at every moment, the idle items, the dials in flight, the
\* items out on loan and those Get found expired and has not released yet.
\* Every path through Get, Put, Close and the cleaner pays its slot back once
\* and only once (list.go:130, 158, 168, 173, 219, 230).
ActiveExact == active = Len(idles) + Cardinality(In(Charged))

\* A connection is in one place: idle once, in the hands of one caller, in
\* the cleaner's, or on the list Close works through. Nobody gets a
\* connection somebody else uses, or closes one twice.
OneOwner ==
  /\ \A i, j \in 1..Len(idles) : idles[i].c = idles[j].c => i = j
  /\ \A p, q \in In(InHand) : conn[p] = conn[q] => p = q
  /\ \A p \in In(InHand) : conn[p] \notin IdleConns \union doomed \union {victim}
  /\ IdleConns \intersect (doomed \union {victim}) = {}
  /\ victim \notin doomed

\* No connection leaks and none is closed in use: those opened and not closed
\* are the ones the pool, a caller, the cleaner or Close has.
NoLeak ==
  open = IdleConns \union {conn[p] : p \in In(InHand)} \union doomed \union ({victim} \ {NoConn})

\* From front to back, idle items only get older: the cleaner may stop at
\* the first one that has not expired (list.go:121-124).
IdlesOrdered == \A i, j \in 1..Len(idles) : i < j => idles[i].at >= idles[j].at

\* The callers of Get never hold more connections than the largest Active of
\* the configurations in Configs, which Reload may have lowered since.
LentWithinLimit ==
  \E k \in Configs : k.Active = 0 \/ Cardinality(In({"got", "holding"})) <= k.Active

\* A closed pool stays closed, keeps nothing that is given back, and opens
\* nothing for the calls that were under way when it was closed.
ClosedOnlyShrinks == [][closed => closed' /\ idles' = <<>> /\ active' <= active]_vars

\* Every step after which fewer connections are in use or being opened wakes
\* a caller parked in the select of Get, if there is one (list.go:215, 219,
\* 158, 173).
InUse == active - Len(idles)
ReturnsWake ==
  [][InUse' < InUse /\ Waiting(pc) # {} => \E p \in Waiting(pc) : pc'[p] # "waiting"]_vars

\* The cleaner, once it has seen a closed pool or an IdleTimeout of zero, is
\* gone for good: whatever IdleTimeout is reloaded later, "run only one" finds
\* a channel and starts none, and items stay past it (list.go:95, 110-112).
CleanerGoneForGood == [][cleaner = "exited" => cleaner' = "exited"]_vars

-----------------------------------------------------------------------------
(* The contract List keeps. *)

PhaseOf(c) ==
  IF c \notin open THEN "none"
  ELSE IF c \in IdleConns THEN "spare"
  ELSE IF \E p \in In({"got", "holding"}) : conn[p] = c THEN "lent"
  ELSE "doomed"

HolderOf(c) ==
  IF PhaseOf(c) = "lent" THEN CHOOSE p \in In({"got", "holding"}) : conn[p] = c ELSE NoConn

Phase == [c \in Conns |-> PhaseOf(c)]
Holder == [c \in Conns |-> HolderOf(c)]

\* the limit that holds whatever is reloaded: none when a configuration has
\* none, or when there is a larger one than each
Largest(k) == \A m \in Configs : 0 < m.Active /\ m.Active <= k.Active
LargestActive ==
  IF \E k \in Configs : Largest(k) THEN (CHOOSE k \in Configs : Largest(k)).Active ELSE 0

Contract == INSTANCE PoolContract WITH
  NoClient <- NoConn,
  limit <- LargestActive,
  phase <- Phase,
  holder <- Holder

\* List implements the contract of a pool.
ImplementsContract == Contract!Spec

-----------------------------------------------------------------------------
(* Liveness. *)

Pending(p) == pc[p] \in InGet

\* A Get whose caller's context ends returns, however often it is woken and
\* loses the connection to another caller.
BoundedGetReturns == \A p \in Bounded : Pending(p) ~> ~Pending(p)

\* An idle item that outlived IdleTimeout does not stay in the pool ("Close
\* items after remaining item for this duration", pool.go:58): if
\* IdleTimeout is never zero, see CleanerGoneForGood.
StaleIdle(c) == \E i \in 1..Len(idles) : idles[i].c = c /\ Expired(idles[i].at, conf.IdleTimeout)
StaleGoes == \A c \in Conns : StaleIdle(c) ~> ~StaleIdle(c)

\* After Close, once its callers have given back what they hold, every
\* connection is closed and every slot is free.
CloseDrains == closed ~> (open = {} /\ active = 0)

\* A Get parked while there are idle items does not stay parked: pool.go says
\* that it waits "until a item to be returned to the pool". It fails, a signal
\* sent before the select is entered being lost.
WaiterServed ==
  \A p \in Clients : (pc[p] = "waiting" /\ idles # <<>>) ~> (pc[p] # "waiting" \/ idles = <<>>)

=============================================================================
