----------------------------- MODULE SlicePool -----------------------------
(***************************************************************************)
(* onepool.Slice (src/onepool/slice.go): a pool of connections modelled on *)
(* database/sql. Idle items wait in a queue; a Get that finds the pool at  *)
(* its limit registers a request, a buffered channel of its own, which Put *)
(* or the goroutine itemOpener fills; releasing a slot asks itemOpener to  *)
(* dial for the requests that are left.                                    *)
(*                                                                         *)
(* Each stretch of code between Lock and Unlock is one atomic step; what   *)
(* happens outside the mutex is a step of its own. Reload locks the mutex  *)
(* twice, so the mutex is a variable here: nothing that needs it happens   *)
(* once Reload has been called.                                            *)
(***************************************************************************)
EXTENDS Integers, Sequences, FiniteSets

CONSTANTS
  Clients,    \* goroutines that call Get and Put
  Conns,      \* connections New may return
  NoConn,     \* "no connection"
  Configs,    \* the configurations NewSlice and Reload may be given
  Bounded,    \* the clients whose context has a deadline or is cancelled
  Closable,   \* whether Close is ever called
  Reloadable, \* whether Reload is ever called
  MaxNow      \* bound on the clock

Config == [Active: Nat, Idle: Nat, IdleTimeout: Nat, WaitTimeout: Nat, Wait: BOOLEAN]

ASSUME ClientsAssumption == IsFiniteSet(Clients) /\ Bounded \subseteq Clients
ASSUME ConnsAssumption == NoConn \notin Conns \union Clients
ASSUME ConfigAssumption == Configs \subseteq Config
ASSUME BoundAssumption == MaxNow \in Nat /\ {Closable, Reloadable} \subseteq BOOLEAN

VARIABLES
  \* the fields of Slice; conf is what NewSlice was given, for good
  conf, closed, active, freeItem, mu,
  requests,  \* the clients with a channel in itemRequests
  tokens,    \* sends to openerCh not yet received
  \* the calls in progress
  pc,        \* where client p is
  conn,      \* the connection in p's hands, or in its channel while it waits
  stamp,     \* the createdAt that goes with conn[p]
  late,      \* clients whose own context has ended during this Get
  shut,      \* clients whose channel Close has closed
  \* the goroutines itemOpener and staleCleaner
  opener, cleaner, doomed,
  \* the environment: the clock, the connections opened and not closed, and
  \* those of them that only a channel nobody will read again refers to
  now, open, lost

calls == <<pc, conn, stamp, late, shut>>
books == <<active, freeItem, requests, tokens>>
vars  == <<conf, closed, mu, books, calls, opener, cleaner, doomed, now, open, lost>>

InGet == {"got", "stale", "relock", "dialing", "waiting", "cancelling", "staleMail", "redial"}
PCs   == InGet \union {"out", "holding"}
Item  == [c: Conns, at: 0..MaxNow]

Init ==
  /\ conf \in {k \in Configs : k.Active >= k.Idle}
  /\ closed = FALSE /\ mu = "free"
  /\ active = 0 /\ freeItem = <<>> /\ requests = {} /\ tokens = 0
  /\ pc = [p \in Clients |-> "out"]
  /\ conn = [p \in Clients |-> NoConn]
  /\ stamp = [p \in Clients |-> 0]
  /\ late = {} /\ shut = {}
  /\ opener = "select"
  /\ cleaner = IF conf.IdleTimeout > 0 THEN "select" ELSE "none"
  /\ doomed = {} /\ now = 0 /\ open = {} /\ lost = {}

-----------------------------------------------------------------------------
(* Helpers. A definition marked faulty is what the one below it must not be:
   the properties are tested against it. *)

Free == mu = "free"

Lesser(a, b) == IF a < b THEN a ELSE b

\* item.expired
Expired(at, timeout) == timeout > 0 /\ at + timeout < now

\* maxIdleItemsLocked, Idle being no less than 0: zero means the default
maxIdleItems == IF conf.Idle = 0 THEN 2 ELSE conf.Idle

AtLimit(a) == conf.Active > 0 /\ a >= conf.Active

\* how many items maybeOpenNewItems wants opened when active is a
OpensNone(a) == 0                                                     \* faulty
OpensForAll(a) == Cardinality(requests)                               \* faulty
Opens(a) ==
  IF conf.Active = 0 THEN Cardinality(requests)
  ELSE IF a >= conf.Active THEN 0
  ELSE Lesser(Cardinality(requests), conf.Active - a)

\* release: active and tokens after it. On a closed pool the loop counts one
\* item and returns before it asks for it.
ReleasedTwice == [active |-> active - 2, tokens |-> tokens]           \* faulty
ReleasedUncounted == [active |-> active - 1, tokens |-> tokens + Opens(active - 1)]  \* faulty
Released ==
  LET k == Opens(active - 1) IN
  IF closed THEN [active |-> active - 1 + Lesser(k, 1), tokens |-> tokens]
            ELSE [active |-> active - 1 + k, tokens |-> tokens + k]

Release == active' = Released.active /\ tokens' = Released.tokens

\* putItemLocked, of a connection c that its caller gives up: it goes to a
\* request, whichever the iteration over the map yields, or joins the queue,
\* or is refused.
RefusesNever == FALSE                                                 \* faulty
RefusesWhenFull == conf.Active > 0 /\ active > conf.Active            \* faulty
Refuses == closed \/ (conf.Active > 0 /\ active > conf.Active)

Deliver(c, q, h) ==
  /\ ~Refuses /\ q \in requests
  /\ requests' = requests \ {q}
  /\ conn' = [h EXCEPT ![q] = c]
  /\ stamp' = [stamp EXCEPT ![q] = now]
  /\ UNCHANGED <<active, tokens, freeItem>>

MayQueueFirst == maxIdleItems > Len(freeItem)                         \* faulty
MayQueue == ~closed /\ requests = {} /\ maxIdleItems > Len(freeItem)

Enqueue(c, h) ==
  /\ ~Refuses /\ MayQueue
  /\ freeItem' = Append(freeItem, [c |-> c, at |-> now])
  /\ conn' = h
  /\ UNCHANGED <<active, tokens, requests, stamp>>

Refused == Refuses \/ (requests = {} /\ ~MayQueue)

-----------------------------------------------------------------------------
(* Get. *)

\* The body of Get from the loop on the free items to the limit, with mu held
\* and active and tokens as the caller's release(), if any, leaves them.
GetLoop(p, a, t) ==
  /\ tokens' = t
  /\ \/ /\ freeItem # <<>>
        /\ freeItem' = Tail(freeItem)
        /\ conn' = [conn EXCEPT ![p] = Head(freeItem).c]
        /\ stamp' = [stamp EXCEPT ![p] = Head(freeItem).at]
        /\ pc' = [pc EXCEPT ![p] = "got"]
        /\ active' = a /\ UNCHANGED requests
     \/ /\ freeItem = <<>> /\ ~AtLimit(a)
        /\ pc' = [pc EXCEPT ![p] = "dialing"]
        /\ active' = a + 1 /\ UNCHANGED <<freeItem, conn, stamp, requests>>
     \/ /\ freeItem = <<>> /\ AtLimit(a) /\ conf.WaitTimeout = 0 /\ ~conf.Wait
        /\ pc' = [pc EXCEPT ![p] = "out"]                   \* ErrPoolExhausted
        /\ active' = a /\ UNCHANGED <<freeItem, conn, stamp, requests>>
     \/ /\ freeItem = <<>> /\ AtLimit(a) /\ (conf.WaitTimeout > 0 \/ conf.Wait)
        /\ requests' = requests \union {p}
        /\ pc' = [pc EXCEPT ![p] = "waiting"]
        /\ active' = a /\ UNCHANGED <<freeItem, conn, stamp>>
  /\ UNCHANGED <<conf, closed, mu, shut, opener, cleaner, doomed, now, open, lost>>

\* The call of Get, on an open pool; a closed one refuses and changes nothing.
GetStart(p) ==
  /\ Free /\ pc[p] = "out" /\ ~closed
  /\ late' = late \ {p}
  /\ GetLoop(p, active, tokens)

\* The item popped, or received from the channel, is looked at.
CheckExpired(p) ==
  /\ pc[p] = "got"
  /\ pc' = [pc EXCEPT ![p] = IF Expired(stamp[p], conf.IdleTimeout) THEN "stale" ELSE "holding"]
  /\ stamp' = [stamp EXCEPT ![p] = 0]
  /\ UNCHANGED <<conf, closed, mu, books, conn, late, shut, opener, cleaner, doomed, now, open, lost>>

Receive(p) ==
  /\ pc[p] = "waiting" /\ conn[p] # NoConn
  /\ pc' = [pc EXCEPT ![p] = IF Expired(stamp[p], conf.IdleTimeout) THEN "staleMail" ELSE "holding"]
  /\ stamp' = [stamp EXCEPT ![p] = 0]
  /\ UNCHANGED <<conf, closed, mu, books, conn, late, shut, opener, cleaner, doomed, now, open, lost>>

\* The channel was closed by Close: ErrPoolClosed. The request stays in the map.
ReceiveClosed(p) ==
  /\ pc[p] = "waiting" /\ p \in shut
  /\ pc' = [pc EXCEPT ![p] = "out"]
  /\ shut' = shut \ {p}
  /\ UNCHANGED <<conf, closed, mu, books, conn, stamp, late, opener, cleaner, doomed, now, open, lost>>

\* ctx.Done is ready, and the select may take it whatever the channel holds.
DoneReady(p) == p \in late \/ conf.WaitTimeout > 0

TimeoutFires(p) ==
  /\ pc[p] = "waiting" /\ DoneReady(p)
  /\ pc' = [pc EXCEPT ![p] = "cancelling"]
  /\ UNCHANGED <<conf, closed, mu, books, conn, stamp, late, shut, opener, cleaner, doomed, now, open, lost>>

\* The request is removed; what its channel already holds is not looked at.
CancelRequest(p) ==
  /\ Free /\ pc[p] = "cancelling"
  /\ requests' = requests \ {p}
  /\ shut' = shut \ {p}
  /\ lost' = lost \union ({conn[p]} \ {NoConn})
  /\ conn' = [conn EXCEPT ![p] = NoConn]
  /\ stamp' = [stamp EXCEPT ![p] = 0]
  /\ pc' = [pc EXCEPT ![p] = "out"]
  /\ UNCHANGED <<conf, closed, mu, active, freeItem, tokens, late, opener, cleaner, doomed, now, open>>

\* An expired item is closed outside the mutex.
CloseStale(p) ==
  /\ pc[p] \in {"stale", "staleMail"}
  /\ open' = open \ {conn[p]}
  /\ conn' = [conn EXCEPT ![p] = NoConn]
  /\ pc' = [pc EXCEPT ![p] = IF @ = "stale" THEN "relock" ELSE "redial"]
  /\ UNCHANGED <<conf, closed, mu, books, stamp, late, shut, opener, cleaner, doomed, now, lost>>

\* After an expired free item the loop goes on; it does not look at closed.
RetryAfterStale(p) ==
  /\ Free /\ pc[p] = "relock"
  /\ UNCHANGED late
  /\ GetLoop(p, Released.active, Released.tokens)

\* After an expired item from the channel Get dials, whatever the limit.
DialAfterStale(p) ==
  /\ Free /\ pc[p] = "redial"
  /\ active' = Released.active + 1
  /\ tokens' = Released.tokens
  /\ pc' = [pc EXCEPT ![p] = "dialing"]
  /\ UNCHANGED <<conf, closed, mu, freeItem, requests, conn, stamp, late, shut, opener, cleaner, doomed, now, open, lost>>

\* New returns a connection, or fails and the slot is released.
DialOk(p) ==
  /\ pc[p] = "dialing"
  /\ \E c \in Conns \ open :
       open' = open \union {c} /\ conn' = [conn EXCEPT ![p] = c]
  /\ pc' = [pc EXCEPT ![p] = "holding"]
  /\ UNCHANGED <<conf, closed, mu, books, stamp, late, shut, opener, cleaner, doomed, now, lost>>

DialFail(p) ==
  /\ Free /\ pc[p] = "dialing"
  /\ Release
  /\ pc' = [pc EXCEPT ![p] = "out"]
  /\ UNCHANGED <<conf, closed, mu, freeItem, requests, conn, stamp, late, shut, opener, cleaner, doomed, now, open, lost>>

\* The caller's context ends while its Get is in progress.
CtxDone(p) ==
  /\ p \in Bounded \ late /\ pc[p] \in InGet
  /\ late' = late \union {p}
  /\ UNCHANGED <<conf, closed, mu, books, pc, conn, stamp, shut, opener, cleaner, doomed, now, open, lost>>

-----------------------------------------------------------------------------
(* Put. What the pool does not take is closed with mu held. *)

PutKept(p) ==
  /\ Free /\ pc[p] = "holding"
  /\ LET h == [conn EXCEPT ![p] = NoConn] IN
       Enqueue(conn[p], h) \/ \E q \in Clients : Deliver(conn[p], q, h)
  /\ pc' = [pc EXCEPT ![p] = "out"]
  /\ UNCHANGED <<conf, closed, mu, late, shut, opener, cleaner, doomed, now, open, lost>>

PutClosed(p) ==
  /\ Free /\ pc[p] = "holding"
  /\ \/ Release                                                   \* forceClose
     \/ Refused /\ active' = active - 1 /\ UNCHANGED tokens
  /\ open' = open \ {conn[p]}
  /\ conn' = [conn EXCEPT ![p] = NoConn]
  /\ pc' = [pc EXCEPT ![p] = "out"]
  /\ UNCHANGED <<conf, closed, mu, freeItem, requests, stamp, late, shut, opener, cleaner, doomed, now, lost>>

Put(p) == PutKept(p) \/ PutClosed(p)

-----------------------------------------------------------------------------
(* itemOpener and openNewItem. *)

OpenerTake ==
  /\ opener = "select" /\ tokens > 0
  /\ tokens' = tokens - 1
  /\ opener' = "dialing"
  /\ UNCHANGED <<conf, closed, mu, active, freeItem, requests, calls, cleaner, doomed, now, open, lost>>

\* stop() has cancelled the opener's context.
OpenerExit ==
  /\ opener = "select" /\ closed
  /\ opener' = "exited"
  /\ UNCHANGED <<conf, closed, mu, books, calls, cleaner, doomed, now, open, lost>>

OpenKept ==
  /\ Free /\ opener = "dialing"
  /\ \E c \in Conns \ open :
       /\ open' = open \union {c}
       /\ Enqueue(c, conn) \/ \E q \in Clients : Deliver(c, q, conn)
  /\ opener' = "select"
  /\ UNCHANGED <<conf, closed, mu, pc, late, shut, cleaner, doomed, now, lost>>

\* New fails, or the pool refuses the connection and it is closed at once.
OpenFails ==
  /\ Free /\ opener = "dialing"
  /\ Release \/ (Refused /\ active' = active - 1 /\ UNCHANGED tokens)
  /\ opener' = "select"
  /\ UNCHANGED <<conf, closed, mu, freeItem, requests, calls, cleaner, doomed, now, open, lost>>

-----------------------------------------------------------------------------
(* staleCleaner. *)

\* The queue after the loop of slice.go:371-382, which fills the place of each
\* expired item with the last one of the queue and looks at it in turn: the
\* holes are filled with the fresh items of the tail, last one first.
Fresh(i) == ~Expired(freeItem[i].at, conf.IdleTimeout)
FreshIn(a, b) == {i \in a..b : Fresh(i)}
SweptNothing == freeItem                                              \* faulty
Swept ==
  LET n == Len(freeItem) IN
  [i \in 1..Cardinality(FreshIn(1, n)) |->
     IF Fresh(i) THEN freeItem[i]
     ELSE LET holes == i - Cardinality(FreshIn(1, i)) IN
          freeItem[CHOOSE m \in FreshIn(1, n) : Cardinality(FreshIn(m, n)) = holes]]

Stale == {freeItem[i].c : i \in (1..Len(freeItem)) \ FreshIn(1, Len(freeItem))}

\* The timer may fire at any time; Close closes cleanerCh, which wakes it too.
CleanerWake ==
  /\ Free /\ cleaner = "select"
  /\ IF closed
     THEN cleaner' = "exited" /\ UNCHANGED <<doomed, active, freeItem>>
     ELSE /\ doomed' = Stale
          /\ active' = active - Cardinality(Stale)
          /\ freeItem' = Swept
          /\ cleaner' = IF Stale = {} THEN "select" ELSE "closing"
  /\ UNCHANGED <<conf, closed, mu, requests, tokens, calls, opener, now, open, lost>>

CleanerClose ==
  /\ cleaner = "closing"
  /\ \E c \in doomed :
       /\ open' = open \ {c}
       /\ doomed' = doomed \ {c}
       /\ cleaner' = IF doomed' = {} THEN "select" ELSE "closing"
  /\ UNCHANGED <<conf, closed, mu, books, calls, opener, now, lost>>

-----------------------------------------------------------------------------
(* Close, Reload and the clock. *)

\* Close leaves active and the map of requests as they are.
Close ==
  /\ Closable /\ Free /\ ~closed
  /\ closed' = TRUE
  /\ open' = open \ {freeItem[i].c : i \in 1..Len(freeItem)}
  /\ freeItem' = <<>>
  /\ shut' = requests
  /\ UNCHANGED <<conf, mu, active, requests, tokens, pc, conn, stamp, late, opener, cleaner, doomed, now, lost>>

\* Reload calls setActive with mu held, whose first statement waits for mu
\* (slice.go:318): the mutex stays with this call, and nothing that follows in
\* it is ever reached. Before that, on a closed pool, a shorter IdleTimeout is
\* a send on a closed channel.
Reload(k) ==
  /\ Reloadable /\ Free
  /\ mu' = IF closed /\ cleaner # "none" /\ 0 < k.IdleTimeout /\ k.IdleTimeout < conf.IdleTimeout
           THEN "panicked" ELSE "reload"
  /\ cleaner' = IF cleaner = "none" /\ k.IdleTimeout > 0 THEN "select" ELSE cleaner
  /\ UNCHANGED <<conf, closed, books, calls, opener, doomed, now, open, lost>>

Tick ==
  /\ now < MaxNow
  /\ now' = now + 1
  /\ UNCHANGED <<conf, closed, mu, books, calls, opener, cleaner, doomed, open, lost>>

-----------------------------------------------------------------------------

GetStep(p) ==
  \/ CheckExpired(p) \/ Receive(p) \/ ReceiveClosed(p) \/ TimeoutFires(p) \/ CancelRequest(p)
  \/ CloseStale(p) \/ RetryAfterStale(p) \/ DialAfterStale(p) \/ DialOk(p) \/ DialFail(p)

Opener == OpenerTake \/ OpenerExit \/ OpenKept \/ OpenFails
Cleaner == CleanerWake \/ CleanerClose

Next ==
  \/ \E p \in Clients : GetStart(p) \/ GetStep(p) \/ CtxDone(p) \/ Put(p)
  \/ Opener \/ Cleaner
  \/ Close \/ (\E k \in Configs : Reload(k))
  \/ Tick

Spec == Init /\ [][Next]_vars

\* A goroutine inside Get, the opener and the cleaner keep running, New
\* returns, a context with a deadline ends; FairClients adds that clients
\* return what they hold. Nobody need call Get, Close or Reload.
Fairness ==
  /\ \A p \in Clients : WF_vars(GetStep(p)) /\ WF_vars(CtxDone(p))
  /\ WF_vars(Opener) /\ WF_vars(Cleaner)

FairClients == \A p \in Clients : WF_vars(Put(p))

FairSpec == Spec /\ Fairness /\ FairClients

\* A request is taken from the map by an iteration over it, which Go starts
\* at a random place, and New does not fail for ever: a request that items are
\* delivered to again and again, while it is in the map, gets one.
Serves(q) == (OpenKept \/ \E p \in Clients : PutKept(p)) /\ requests' = requests \ {q}
FairMap == \A q \in Clients : SF_vars(q \in requests /\ Serves(q))

FairMapSpec == FairSpec /\ FairMap

-----------------------------------------------------------------------------
(* Safety. *)

TypeOK ==
  /\ conf \in Configs /\ closed \in BOOLEAN /\ mu \in {"free", "reload", "panicked"}
  /\ active \in Nat /\ tokens \in Nat
  /\ freeItem \in Seq(Item)
  /\ requests \subseteq Clients /\ shut \subseteq Clients /\ late \subseteq Bounded
  /\ pc \in [Clients -> PCs]
  /\ conn \in [Clients -> Conns \union {NoConn}]
  /\ stamp \in [Clients -> 0..MaxNow]
  /\ opener \in {"select", "dialing", "exited"}
  /\ cleaner \in {"none", "select", "closing", "exited"}
  /\ {doomed, open, lost} \subseteq SUBSET Conns
  /\ now \in 0..MaxNow

FreeConns == {freeItem[i].c : i \in 1..Len(freeItem)}
WithConn == {p \in Clients : conn[p] # NoConn}
Between == {p \in Clients : pc[p] \in {"relock", "redial", "dialing"}}

\* Until Close, active counts the idle items, those in the hands or in the
\* channel of a client, the slots of the Gets between two connections, the
\* items itemOpener was asked for, and those lost to a timeout: every release
\* and every optimistic increment balances (slice.go:112, 157, 164, 169, 182,
\* 187, 250, 268, 272, 375).
ActiveExact ==
  ~closed => active = Len(freeItem) + Cardinality(WithConn) + Cardinality(Between)
                      + tokens + (IF opener = "dialing" THEN 1 ELSE 0) + Cardinality(lost)

\* Every open connection is in one place, and every connection in some place
\* is open: idle, with a client or in its channel, with the cleaner, or lost.
OneHome ==
  /\ open = FreeConns \union {conn[p] : p \in WithConn} \union doomed \union lost
  /\ Cardinality(open) = Len(freeItem) + Cardinality(WithConn) + Cardinality(doomed) + Cardinality(lost)

\* No Get waits while there is an idle item: Put and itemOpener serve the
\* requests first, and no item becomes idle behind the back of one that
\* registers. The cleaner, which wakes nobody, may rely on it.
NoneWaitsByIdle == ~closed /\ requests # {} => freeItem = <<>>

\* While a request waits, the pool is full of items in use or being opened,
\* one of which will serve it: no released slot goes unused.
WaitersMeanFull == ~closed /\ requests # {} => active >= conf.Active /\ conf.Active > 0

\* openerCh never holds more than Active tokens, however often slots are
\* released before itemOpener runs: release sends with mu held, and a channel
\* of a million blocks it only if Active is larger (slice.go:75, 250-256).
OpenerChBounded == tokens <= conf.Active

\* A closed pool only winds down, whoever is still in the middle of a call: no
\* item is put back or handed to a request (it would be a send on a channel that
\* Close closed), also not to one that registers after Close; nobody but the
\* calls that had a connection, or were between two, holds one; and only those
\* between two still open any (slice.go:108-131, 164-173, 202-227, 424-443).
Claims == WithConn \union Between

ClosedOnlyShrinks ==
  [][closed => /\ closed' /\ freeItem' = <<>>
               /\ Claims' \subseteq Claims
               /\ open' \ open \subseteq {conn'[p] : p \in Between}]_vars

(* What comments say and the code does not keep. *)

\* "ensure no value has been sent on it after removing" (slice.go:144)
NoItemLost == lost = {}

\* Active is the "number of items allocated by the pool at a given time"
\* (pool.go:53)
WithinActive == conf.Active = 0 \/ active <= conf.Active

-----------------------------------------------------------------------------
(* The contract Slice keeps. *)

\* A Get that met an expired item in its channel dials above the limit
\* (slice.go:164-171): one more than Active there may be, and never two.
Ceiling ==
  IF conf.Active = 0 \/ conf.IdleTimeout = 0 THEN conf.Active ELSE conf.Active + 1

Lent(c) == {p \in Clients : conn[p] = c /\ pc[p] \in {"got", "holding", "waiting", "cancelling"}}

PhaseOf(c) ==
  IF c \notin open THEN "none"
  ELSE IF c \in FreeConns THEN "spare"
  ELSE IF Lent(c) # {} THEN "lent"
  ELSE "doomed"

HolderOf(c) == IF PhaseOf(c) = "lent" THEN CHOOSE p \in Lent(c) : TRUE ELSE NoConn

Phase == [c \in Conns |-> PhaseOf(c)]
Holder == [c \in Conns |-> HolderOf(c)]

Contract == INSTANCE PoolContract WITH
  NoClient <- NoConn,
  limit <- Ceiling,
  phase <- Phase,
  holder <- Holder

\* Slice implements the contract of a pool, but for the one item that it may
\* have too many of.
ImplementsContract == Contract!Spec

-----------------------------------------------------------------------------
(* Liveness. *)

\* Every Get returns, after a Close too, which answers the requests it finds.
\* A Get that closed an expired item meanwhile may register after it, and has
\* only its timeout left (slice.go:111-131).
GetReturns == \A p \in Clients : pc[p] \in InGet ~> pc[p] \notin InGet

=============================================================================
