# A verification project for eins

`eins` is a Go toolkit: connection pools, a read-through cache, a lock in
Redis, SQL, HTTP, logging and metrics helpers. Most of its packages are thin
layers over a library and keep no state. Three packages carry concurrent logic
of their own, **onepool**, **onecache** and **watchdog**; three more keep little
state but share what a library keeps, the connections of `database/sql`, pools
of readers, counters: **onesql**, **onenet** and **onegovernor**. This project
is about these six.

## 1. The system

| Component | State | Operations | Works with |
|---|---|---|---|
| `onepool.List` | configuration, `closed`, `active`, a stack of idle items, an unbuffered channel `cond`, a cleaner goroutine | Get, Put, Close, Reload, Stat | callers, the `New` function, its cleaner |
| `onepool.Slice` | configuration, `closed`, `active`, a queue of free items, a map of requests, `openerCh`, two goroutines | Get, Put, Close, Reload | callers, `New`, `itemOpener`, its cleaner |
| `onepool.Pool`, `Config`, `item` | none | the interface both pools satisfy | |
| `onecache.Cache` | a store, a default expiry, the fallback option and limiter | Get, GetMulti, Evict, EvictMulti, Refresh, RefreshMulti, and a panicking `Must` form of each | a Store, the fallback function, the limiter |
| `onecache/store` | Redis, or an LRU of `gcache` in memory | Get, Set, Delete, Exists and their Multi forms | Cache |
| `watchdog` | the cancel function of the last lock | Lock, Unlock, Watch | Redis, a renewing goroutine |
| `onesql` | none of its own; the connections that open Rows hold, the maps callers share | SelectOne, SelectMulti, CountOf, Insert, Upsert, Update, Delete, the complex forms, Scan and its closing forms | `database/sql`, squirrel, a bind function |
| `onenet` | a pool of gzip readers per client; the caller's request and response | Call, of a client over `net/http` and one over `fasthttp` | `saferun.TimeoutRun`, a server |
| `onegovernor` | counters of `oneprom` | the middleware Recover, Prom, Logger, Request; Status, String, Json, Proto | `net/http`, handlers |
| `onegin` | none | parameters and responses for gin | gin |
| `onelog`, `oneprom`, `oneenv`, `onees`, `oneredis`, `eins.PanicIf` | handles of libraries | wrappers | libraries |

What is hard in each, and what makes it right:

* **List.** Get lets go of the mutex in the middle of its loop three times: to
  look at and close an expired item, to dial, and to wait. Its condition
  variable is a send that does not block on a channel without buffer. The count
  `active` is paid and paid back at nine places. It is right when `active` is
  exact, each connection has one owner and none leaks, callers never hold more
  than the limit, the stack stays ordered (the cleaner stops at the first item
  that has not expired), a returned item wakes a caller, a Get with a deadline
  returns and a closed pool drains.
* **Slice.** Releases count a slot before anything fills it and ask
  `itemOpener` to do so; Put hands items to waiting requests through buffered
  channels; a timeout may fire while an item is in the channel. It is right when
  the count is exact all the same, each connection has one home, nobody waits
  beside an idle item or an unused slot, and every Get returns.
* **Cache.** Delete, fallback and Set are separate steps, without a lock. It is
  right when an invalidation holds against the steps of other calls, when what
  is cached for a key is a row of that key, and when a failing store sends no
  more calls to the source than the limiter allows.
* **watchdog.** The lock is taken by SetNX, renewed by name from a goroutine and
  deleted by name, by processes that may pause or crash. It is right when a key
  that is being renewed does not expire, when a goroutine ends once its context is
  done or its key is gone, and when the lock of a crashed process becomes free.
* **onesql.** A query holds a connection until its Rows are closed, by a defer, by
  a call at the end, or by nobody. It is right when every way out of a call gives
  the connection back, when a select returns what its where asks for although
  SelectOne adds a limit to that map, and when inserted values stay with their
  columns although Go reads a map in any order.
* **onenet.** Call leaves its goroutine behind when the timeout comes first, and
  the goroutine goes on with the caller's response and with readers and responses
  out of pools. It is right when a response holds the answer to its own Call,
  when nothing of a pool is in two hands, and when nil means what it can mean.
* **onegovernor.** A panic skips what a middleware does after the handler. It is
  right when started and handled requests balance, and when a panic is not
  answered as a success.

## 2. The modules

| Module | What it is |
|---|---|
| `PoolContract` | what a Pool promises: each connection is nowhere, spare, lent to one client, or doomed; at most `limit` are spare or lent; a closed pool has no spare ones |
| `ListPool` | `onepool/list.go` |
| `SlicePool` | `onepool/slice.go` |
| `Cache` | `onecache/box.go` over `onecache/store` |
| `WatchDog` | `watchdog/impl.go` over a key in Redis |
| `SqlBuilder` | `onesql/builder.go`: what the statements ask for, as operators |
| `SqlDao` | `onesql/dao.go`, `scanner.go` and `fastsql.go` over the connections of `database/sql`; extends `SqlBuilder` |
| `NetCall` | `onenet/standard.go` and `fast.go` |
| `Governor` | `onegovernor/http.go` around a handler |
| `Exchange` | `NetCall` and `Governor` composed: the calls of one service are the requests of another |
| `MCListPool`, `MCSlicePool`, `MCCache`, `MCWatchDog`, `MCSqlDao`, `MCExchange` | instances for TLC |
| `PoolContractProofs`, `ListPoolProofs`, `SlicePoolProofs`, `CacheProofs`, `WatchDogProofs`, `SqlDaoProofs`, `ExchangeProofs` | theorems about the module each is named after, checked by TLAPS; that `ListPool` implements `PoolContract` is at the end of `ListPoolProofs` |
| `SliceRefinement` | that `SlicePool` implements `PoolContract`, and what follows from it; extends `SlicePoolProofs` |

### How the pools correspond to the code

What the code does between Lock and Unlock is one action: nothing else can
happen in between. What it does outside the mutex is a step of its own. `pc[p]`
says where the call of client `p` is; the labels are the places where the code
has let go of the mutex. `conn[p]` is the connection in the call's, or then in
the client's, hands.

| `ListPool` | list.go |
|---|---|
| `GetStart`, `RetryAfterStale`, `WakeUp` | the three entries into the loop of Get with the mutex held (138, 157, 199); all continue in `GetLoop` |
| `CheckExpired`, `CloseStale` | 153 and 156, without the mutex, against the configuration of that moment |
| `DialOk`, `DialFail` | 170-177 |
| `EnterSelect`, `WaitTimedOut` | the select of 192; between the Unlock of 184 and it, no signal reaches the caller |
| `PutKept`, `PutEvicting`, `PutDropped`, `CloseReturned` | Put; the connection is closed after the Unlock |
| `Signal` | the signal: it moves one client from `waiting` to `woken`, or is lost |
| `Close`, `CloseDoomed`, `Reload` | 224-236, 73-99 |
| `CleanerWake`, `CleanerClose`, `CleanerRelock` | the cleaner, which lets go of the mutex for each item it closes |

In `SlicePool` a client that waits has its channel's content in `conn[p]`;
`requests` is the map `itemRequests`, `tokens` counts the sends to `openerCh`
nobody has received, `shut` are the channels Close has closed. `mu` is a
variable because Reload locks it twice. `lost` holds the connections that only
a channel nobody will read refers to. `Swept` is the result of the cleaner's
loop, which fills each hole with the last item, in closed form.

Abstracted: the connections (opaque), the errors (a call that ends is just
out), the clock (`now`, advanced by `Tick`; a ticker or a WaitTimeout may fire
at any moment, which allows every real timing), and the map iteration of
`putItemLocked` (any request). When all of `Conns` is open New can only fail.
Not modelled in `Slice`: a negative `Idle`, and the bodies of `setActive` and
`setIdle`, which Reload never reaches.

### How Cache corresponds to the code

A row of the source is a key and a version; version 0 is a row that is not
there, for which the fallback gives nil. Each access to the store or the source
is a step. `call[p]` says at which step caller `p` is: `reading` and `deleting`
(LocalStore goes key by key, RedisStore does all at once: `Chunks`), `asking`
the fallback, `setting` (one command per key in both stores). An error can
happen at each step of RedisStore; a failed Delete may have been executed.
`Write` and `Expire` are the world outside: updates of the source, expiry and
the LRU. `asked`, `mark` and `inFlight` are history variables, read by no action. `mark[k]`
is the version of `k` in the source at its last Delete, `inFlight[k]` are the versions callers
had read of it by then and not yet stored: these may come back, since nothing in the code
tells a Set that its row was evicted meanwhile, and `NeverOlder` says that nothing else older does.
Left out: the checks of types by reflection, the encoding, the `Must` forms.
Values are taken to be structs in Get and pointers to structs in the Multi forms.

### How WatchDog corresponds to the code

A dog is a process with one `WatchDog` and one client. `redis[k]` says who set the
key and what time it has left, `watch[d]` are the goroutines `Watch` has started,
`cancel[d]` is the one `w.cancel` ends.

| `WatchDog` | impl.go |
|---|---|
| `LockWon`, `LockReplyLost`, `LockReturn` | SetNX at Redis (39), with its reply lost, and what Lock does with it (44-46) |
| `Unlock`, `UnlockReturn`, `UnlockFails` | cancel (50-52) and Del (53) |
| `Watch` | a call of Watch alone (56-71) |
| `Panic`, `SeesDone`, `TickerFires`, `Renew`, `RenewFails` | the goroutine: NewTicker (58), ctx.Done (61), ticker.C (63), Expire (64-67) |
| `ContextDone`, `Freeze`, `Thaw`, `Tick` | the world outside |

A Lock that finds the key taken returns nil, like one that wins, and changes
nothing. A client can therefore not know whether it has the lock: in the model any
client may unlock any key at any time. A Del or Expire in flight may arrive when
its sender is frozen, after others have taken the key. The value of the key and
the error of Unlock are left out: no code reads them. The fields of a `WatchDog` that
`NewWatchDog` makes are nil and cannot be set from outside the package, so its
Lock panics; the model is of one that has a client.

Time: a unit is the period of the ticker of the longer lease. A process that is
not frozen needs no time to handle a reply and at most `Late` from a tick to its
Expire; a frozen one may take for ever. `LeaseAssumption` says that a period and
`Late` together are shorter than every lease in use, which 7 against 1 gives as long
as the durations used for one key are not seven times apart.

### How SqlDao corresponds to the code

`at[p]` says where the call of `p` is: waiting for a connection, with Rows open, or
in ExecContext; `call[p]` is what it works on, `held[p]` are the connections that
its Rows, the present and the forgotten ones, hold. One step is one call of
`database/sql` or of bind.

| `SqlDao` | onesql |
|---|---|
| `Select` | SelectOne, SelectMulti and CountOf up to QueryContext (dao.go:68-81, 91-100, 173-182), with `SelectOutcomes` of `SqlBuilder` for buildSelect (builder.go:50-105) |
| `Complex` | ComplexQuery, ComplexExec, ComplexSelect, ScanClose and its like on the caller's Rows; Upsert, Update and Delete |
| `Insert` | Insert, with `Inserts` for buildInsert (builder.go:140-169) |
| `Connect`, `ConnectFails`, `Exec` | QueryContext and ExecContext |
| `ScanRefuses`, `Row`, `RowFails`, `NoMoreRows`, `RowsBreak`, `Misfit` | Scan (scanner.go:36-77) and the loop of CountOf (dao.go:186-191) |
| `BindAll` | ComplexSelect, which hands the Rows to bind (fastsql.go:64-68) |
| `Close`, `LeaveOpen` | the deferred Close, the Close at the end, and none |
| `Reclaim` | `database/sql` closes Rows when their context ends |

A where is what the code tells apart of it: its `_limit`, which special keys have a
value of a type the code does not expect, whether it groups, and whether its
conditions are known. Rows of the database are counted, not told apart; the rows of an
Insert are maps from columns to values. ScanClose into anything but a slice (`closeOne`) reads
one row, like SelectOne. Either calls its result empty when there is no row, when the Rows
broke before it, and when bind gave nil for it: `cause` in a result tells these apart, which the
caller cannot. `leaky` and `result` are history.

### How Exchange corresponds to the code

`at[t]` is where the goroutine `t` of a Call is in `do`; `by[t]` is whose it is,
`waits[p]` the one caller `p` still waits for. `text[t]` are the bytes it has: of
their own, or in a response of fasthttp that somebody else may be given. A request has
the name of the goroutine that makes it; `depth[q]` is how many layers of the chain it
is in, on its way in, out, or unwinding a panic.

| Module | Code |
|---|---|
| `NetCall`: `Call`, `TimeOut` | standard.go:196-205, fast.go:178-187 |
| `BuildFails`, `Send`, `DoFails`, `Receive` | do up to the answer (standard.go:64-147, fast.go:51-132) |
| `Copy`; `Read`, `ReadFails` | an io.Writer (149-152); the body, whole or up to MaxResBodySize (154-166; fast.go:139-148) |
| `GetReader`, `NilReader`, `Unzip`, `UnzipFails` | gzip (168-175, 207-220) |
| `Decode`, `DecodeFails`, `Finish` | 178-193, and the deferred calls |
| `Governor`: `Enter`, `Leave` | a layer before and after h.ServeHTTP (http.go:73-91, 93-94, 104-125, 127-138) |
| `Unwind` | Recover, or a layer that does not recover (45-63) |
| `Write`, `Return`, `Panic` | the handler, external |

`Exchange` adds the connection: a request may be lost, the standard client has an answer
once the status line was sent, the fast one once all of it was, and a body ends when
the chain returns, complete or not, but not when a panic aborts the connection.

A read, a write or a decoding that fails may leave a part of the answer in the response
(`FailsAmid`): a writer has been given what came before, a JSON value has the fields that could be
decoded, a proto message what came before the error. `late[p]` are the goroutines of `p` that still ran at its last
Call, a history variable.

Left out: what is asked (URL, query, headers, body of the request), the status of the
response, which `do` does not look at, and logging. The standard client never closes
`hres.Body` (standard.go:139-194): a body read to its end gives its connection back by
itself, one cut by MaxResBodySize does not. The connections of `net/http` are not modelled.
The goroutine of a Call that timed out
and a new Call with the same request race on its URL and header maps; the Go runtime may
end the process for that, which ends any behaviour of the model as well. `Any` takes some
reader nobody has from the pool: which one does not matter, and one not yet made is as
good.

A definition marked *faulty* is a version of the one below it with a plausible
bug. Nothing uses it; it documents what each property is able to detect.

## 3. The runs

| Run | Instance | Shows |
|---|---|---|
| `list_safety` | 3 clients, 3 connections, three configurations exchanged by Reload, Close, clock to 2 | `ActiveExact`, `OneOwner`, `NoLeak`, `IdlesOrdered`, `LentWithinLimit`, `ClosedOnlyShrinks`, `ReturnsWake`, `CleanerGoneForGood`, and `List` implements `PoolContract` |
| `list_live` | 2 clients, one with a deadline, 2 connections, one slot or two | `BoundedGetReturns`, `StaleGoes`, `CloseDrains` under fairness |
| `slice_safety` | 3 clients, 4 connections, four configurations, timeouts, Close, Reload, clock to 2 | `ActiveExact`, `OneHome`, `NoneWaitsByIdle`, `WaitersMeanFull`, `OpenerChBounded`, `ClosedOnlyShrinks` |
| `slice_live` | 3 clients, 3 connections, one slot, items that expire where waits are timed and items that do not where they are not, Close, clock to 2 | `GetReturns` under fairness, and `Slice` implements `PoolContract` with the limit `Ceiling` |
| `cache_safety` | 2 callers, 2 keys, 2 updates per row, both stores, all fallback modes, 1 token | `NeverOlder`, `TokensAccounted` |
| `watchdog_safety_live` | 2 processes, one that may freeze or crash, 1 key, durations of 7 (a period of 1) and 6 (no ticker), 1 goroutine per process, `Late` = 1 | `KeptWhileRenewed`; `StrayEnds` and `LeftLocksExpire` under fairness |
| `sql` | 2 callers, one with a context that ends, 1 connection, 3 maps, 4 inserts, at most 2 rows found | `HoldsOnlyItsOwn`, `WholeUnlessBroken`, `StoredAsGiven`; `CallsReturn` under fairness |
| `exchange` | 2 callers, 2 calls, each client with two kinds of response, two orders of two layers, one request ignored | `OneHand`, `OwnReply`, `NilMeansWhole`, `CountsBalance`, `PanicsAnswered` |
| `list_lost_wake_up` | 2 clients, 1 slot | **violated**: a Get stays parked beside an idle item |
| `slice_lost` | 2 clients, a WaitTimeout | **violated**: a connection stays in the channel of a request that timed out |
| `slice_over_limit` | 3 clients, 1 slot | **violated**: `active` exceeds `Active` |
| `cache_aliased` | LocalStore, dst reused | **violated**: the entry of one key becomes the row of another |

Why the bounds are enough. Three clients are one that holds an item, one that
waits and one that returns or takes; the waits and hand-overs of the pools are
between two calls, with a third to interfere. The configurations have one or two
slots, so that the limit is reached, exceeded by a Reload and waited at; the
clock reaches 2, past an IdleTimeout of 1, so items expire in the stack, in a
call and in a channel. Two rows and two callers give the cache a slow reader and
an invalidation, with updates before, between and after. Two processes give the
lock an owner that pauses and another that takes over, in both directions of
Expire and Del; one that never thaws is a crash. That one of them freezes is enough
for two that play the same part, and more goroutines per process are left to the
theorem. `MaxSince` = 2 is where the next tick is overdue in any case. One connection and two
callers are enough for one call of `onesql` to wait for what another holds or has
forgotten; two rows are more than one, fewer than a window, or none after an offset. In
`exchange` two calls are either of two callers, or one caller's second call beside the
goroutine of its first; with a pool as large as the calls, a shared reader is a fault
and not a shortage. Symmetry is used in
the safety runs only (clients, connections and keys are interchangeable there).
`CHECK_DEADLOCK FALSE` is said where the system may really stop: a closed
`Slice` whose goroutines have returned or whose mutex is locked for good, and
callers of the cache that panicked.

### What disagrees with the documents

1, 4, 5 and 6 are violated runs; 2 is a property that holds and says what the code
does instead (`CleanerGoneForGood`). 3 is read off the code: the model has what it comes
to, a mutex that Reload holds for ever, and no property that would only say so again.

1. **Lost wake-up** (list.go:184-196, 252-257). Put signals while a caller has
   unlocked the mutex but not reached its select. No one receives, nothing
   remembers; the caller waits until another signal or its timeout.
2. **Cleaner not restarted** (list.go:95, 110). It returns at IdleTimeout 0 and
   `cleanerCh` stays set, so a later Reload starts none.
3. **Reload of Slice** (slice.go:85-87, 318) locks the mutex it holds.
4. **Lost item** (slice.go:143-149). After ctx.Done the request is deleted, and
   the item already in its channel neither returned nor closed nor uncounted. It
   happens for no other reason (`OnlyTimeoutsLose`).
5. **Beyond Active** (slice.go:157, 164). After an expired item from the channel
   Get releases its slot, which `itemOpener` may be given, and takes one
   without looking at the limit. It is one too many, never two, and only when
   items expire (`OneOverAtMost`).
6. **Aliased entries** (box.go:100, gcache.go:149). LocalStore keeps the
   caller's own pointer. Nothing else puts a row under another key, and even then
   it is a row the source has had (`OwnUnlessShared`, `NothingInvented`).

Some more shortcomings are listed as hazards without a run: a List waiter
without a deadline may lose the item each time it is woken, each pass starting a
new WaitTimeout (list.go:190); Close of List wakes nobody (list.go:225); and a Get
of Slice that closes an expired item while Close runs may register a request
that nobody serves (slice.go:111-131). In the cache RefreshMulti stores the nil of a row
that is not there, on which a Get of LocalStore panics (box.go:433); `NilsAreRefreshed` proves that
this is the only way to such a panic. In `watchdog` Lock does not say that another
owner has the key (impl.go:41), Unlock deletes whatever is there (53), a second
Lock replaces the cancel function of the first (44), and one failed Expire ends the
renewal without a word (65). No document of the repository says otherwise, so these
are not findings, but the model shows what survives them: no mutual exclusion,
only what `KeptWhileRenewed` says.

In `onesql` CountOf never closes its Rows when Scan fails (dao.go:186-191), and nobody asks
`rows.Err`, so that a broken connection looks like the last row. An empty result may be a row for
which bind gave nil (scanner.go:70). In `onenet` a nil error
means neither a whole answer nor a good status, and a Call that timed out may still write
the response a later Call is using. In `onegovernor` a request whose panic passes Prom
is started for ever. The properties of `sql` and `exchange` say when each of
these happens, and that nothing else of the kind does.

### Fairness

`Fairness` says that a goroutine inside a call, the opener and the cleaner keep
running (the Go scheduler and mutex starve nobody), that New returns, and that
a deadline passes. `FairClients` adds that clients return what they hold,
without which nobody could be served. Calls of Get, Close and Reload and the
clock are not fair. `slice_live` also assumes `FairMap`: a request to which items
are delivered again and again while it is in the map gets one. Go starts the
iteration over a map at a random place, and New does not fail for ever.

In `WatchDog` a process that is not frozen gets on with what it does, a command in
flight is answered, and time passes (`SF_vars(Tick)`, since a process that freezes
and thaws again and again interrupts it). Nothing makes clients unlock, or
frozen processes thaw.

In `SqlDao` a statement that runs ends, a context with an end ends, and `SF_vars(Connect)`:
`database/sql` gives a connection that comes back to a waiting request picked at random, so
none is passed over for ever. `Exchange` states no fairness: the server may never answer, and
that a Call returns all the same is its timer.

## 4. What is proved

`ListPoolProofs` proves, for all clients, connections, configurations and
clocks, with only the named assumptions of `ListPool`:

* `TypeCorrect`: `[]TypeOK`. That `active` is a natural number needs `ActiveExact`.
* `CountExact`: `[]ActiveExact`.
* `LimitHolds`: `[]LentWithinLimit`.
* `ClosedForGood`: `ClosedOnlyShrinks`.
* `OwnedOnce`: `[]OneOwner`, and `NothingLeaks`: `[]NoLeak`.
* `OldestLast`: `[]IdlesOrdered`, `NoSecondCleaner`: `CleanerGoneForGood`, and `SlotsWake`:
  `ReturnsWake`.

The argument. `IndInv` is `TypeOK`, `ActiveExact`, the limit, and `Hands`: a call
has a connection exactly at the places where `pc` says so. The limit is made
inductive by counting the idle items and the slots charged together: they stay
within the largest Active once it was configured, because only a dial adds to
the sum and a dial looks at it. `DrainInv` adds that a closed pool has no idle
items. For ownership, `OwnInv` says that the idle connections are distinct, that
those in the hands of calls are distinct and open and in no other place, and
what the cleaner's `victim` is at each of its places. Each action is shown to
preserve each part; the lemmas on cardinality (moving one client changes a count
by one) come first. `AgeInv` needs the clock with the order of the list: nothing is newer
than now, and what is pushed is of now.

* `ListKeepsContract`: `Spec => ImplementsContract`.
* `ListPromises`: `[]Promises!Promise`, and `ClosedKeepsNothing`: once closed, what is open is in the
  hands of calls and clients or about to be closed, and `active` counts the calls alone.

For the refinement the phase and
the holder of a connection are functions of the idle stack, of `conn` and of `open`, so that
`OwnInv` decides them, and a step of `ListPool` is shown to be one step of `PoolContract`,
or none of it: a dial is Dial, with room because of `ActiveExact` and the limit; Put is
Return or Retire; Reload and the steps by which a call only moves are stutters. The limit is the
largest Active, or 0 when the configurations have none.

`SlicePoolProofs` proves, for all clients, connections and configurations:

* `SliceTypes`: `[]TypeOK`; `EachInOneHome`: `[]OneHome`; `ActiveIsExact`: `[]ActiveExact`.
* `WaitersSeeNoIdle`: `[]NoneWaitsByIdle`, and `WaitersFindItFull`: `[]WaitersMeanFull`.
* `OpenerChWithinActive`: `[]OpenerChBounded`.
* `ClosedForGood`: `ClosedOnlyShrinks`.

`HomeInv` says where every connection is, and at which places of a call there is one.
`BalanceInv` counts them: until Close `active` is exact, after it `active` is at
least what is still charged, since Close empties the queue without counting. `DrainInv` adds that a
closed pool has no idle items; a Get that is between an expired item and the next may still dial, once, or
register a request, which `ClosedOnlyShrinks` says is served by nobody. `BoundInv` counts tokens
in `active`, and a release asks for a new item only below Active. The cleaner's sweep
needs an argument of its own: that the closed form of its loop keeps each unexpired item
once, since a hole is filled from the end and there are as many holes as fillers.

`SliceRefinement` proves, for all clients, connections and configurations:

* `SliceKeepsContract`: `Spec => ImplementsContract`, and `SlicePromises`: `[]Promises!Promise`.
* `OneOverAtMost`: `WithinActive`, or `active` is Active + 1 and items expire.
* `OnlyTimeoutsLose`: `NoItemLost`, or a context can end.
* `ClosedKeepsNothing`: once closed, what is open is with a client, about to be closed by the
  cleaner, or lost to a timeout.
* `WaitersHaveASource`: in an open pool that has lost nothing, whoever waits can still be served: a
  client has an item, or one is being opened or asked for.

The limit is `Ceiling`: Active, or Active + 1 when items expire, which is what a pool has that may
exceed Active by one. (No configuration changes: Reload never gets past its lock.) `Within` is the
strengthening: `active` is within `Ceiling`, and no Get comes to the places of an expired item when
none expires. A release fills free slots only, so that it leaves `active` within Active, and the Get
that dials for an expired item adds one to that. An expired item is `doomed` in the contract from the
moment a Get or the cleaner finds it, and closing it is Dispose. A step moves at most one connection (`OneMoves`), or is Close: what Put and `itemOpener` hand to a
request is Handoff and Dial, a cancelled request that has an item already is a Retire of it to
`doomed`, where it stays, and a dial finds room since `BalanceInv` counts the slot of whoever
dials beside the idle and the lent connections.

`PoolContractProofs` proves of `PoolContract` alone, for all clients, connections and limits:

* `ContractPromises`: `[]Promise`. A connection has a client exactly while it is lent, and no
  client has two (`Exclusive`), those spare or lent are within `limit` (`Bounded`), and a closed pool
  has no spare one (`Drained`). Its one hypothesis is that nobody is named `NoClient`.

`limit` is a variable of the contract that never changes, so that a pool may say what it is by a
function of its own state. `ListPromises` and `SlicePromises` state the same of the two pools, by
their refinement mappings, and rest on this theorem and the two refinements only.

`CacheProofs` proves, for all callers, keys and versions:

* `CacheTypes`: `[]TypeOK`; the limiter is never overdrawn.
* `InvalidationsLast`: `[]NeverOlder`. `NeverOlder` alone is not inductive, since a Set
  stores what was fetched before: `Settled` adds that a row fetched and not yet
  stored is not older than `mark` either, unless it was in flight at the Delete, and that `mark`
  is not ahead of the source.
* `TokensAreAccounted`: `[]TokensAccounted`. Its invariant adds that a caller whom an error of the store
  has sent to the fallback is at `asking`, so that no other call takes a token.
* `NothingInvented`: what an entry says is what the source says of some key, or has said;
  `OwnUnlessShared`: of its own key, unless a dst is used twice with LocalStore.
* `NilsAreRefreshed`: an action property. A nil gets into the store by RefreshMulti only, and a
  Get panics only on such a nil in LocalStore.

The last three rest on `RowInv`, that what is fetched, given to a caller and stored is real, and on
`NilInv`, that a call with a nil to store is a RefreshMulti. Updates of the source only add versions, so
that what was real stays so; a dst that an entry refers to is only written with rows.

`WatchDogProofs` proves, for all processes, keys, durations and any number of
goroutines, from `LeaseAssumption`:

* `WatchTypes`: `[]TypeOK`.
* `KeptForTheWatched`: `KeptWhileRenewed`.

The invariant is `Leased`: what an entry has left and the time since the tick of any
goroutine that has prolonged it add up to at least one whole lease, that of
whoever wrote the entry last. Every write makes it so, and time takes from the one
what it adds to the other. `Goroutines` says that such a goroutine has a ticker.

`SqlDaoProofs` proves, for all callers, connections, maps and rows:

* `TypesHold`: `[]TypeOK`.
* `ConnectionsComeBack`: `[]HoldsOnlyItsOwn`.
* `SelectsAreWhole`: `[]WholeUnlessBroken`.
* `InsertsAreKept`: `[]StoredAsGiven`.
* `OnlyLeaksExhaust`: when all connections are in use, some call is at work with one, or all of them
  were left open.

The invariant adds to the types that the maps are as they were given, that a call at rest has
no connection, that what a call works on is what its where says (`Faithful`), and that the
rows read and the rows due add up to the window (`Progress`). `InsertsAreKept` rests on
`StoresWhatIsGiven`, about buildInsert alone: a statement that has a value per column in each
row has, for each column, what that row's map has for it. `RowsAssumption` says that data are slices
of finite maps.

`ExchangeProofs` proves, for all callers, goroutines, readers, responses, chains and requests:

* `TypesHold`: `[]TypeOK`.
* `NothingShared`: `[]OneHand`, and `RepliesAreOwn`: `[]OwnReply`.
* `NilIsWhole`: `[]NilMeansWhole`.
* `PanicsGetAnswers`: `[]PanicsAnswered`, and `CountsAddUp`: `[]CountsBalance`.

`HandInv` says that what is not in a hand is in its pool (so that one is left for whoever asks,
as there are no more goroutines than readers: `PoolAssumption`), and where in `do` a goroutine
has what. `CallInv` says that a caller waits only for the goroutine of its last Call, and that a
goroutine of its that runs is that one or a late one, and whose bytes its response has. `NilInv` ties what a goroutine has read to how
far the handler has come, which no later step of the server takes back. `GovInv` follows a panic: it
is above Recover until Recover stops it, which leaves a status line. `CountInv` says what the counters are in
terms of where each request is: entering Prom adds one to one set and leaving it to the other, and
a panic that passes it adds to neither. `ChainsAssumption` (a chain has a layer once) is used there only.

Only model-checked: all liveness, since the prover has no rule for fairness here. These are
`BoundedGetReturns`, `CloseDrains` and `StaleGoes` of `List`, `GetReturns` of `Slice`, `StrayEnds` and
`LeftLocksExpire` of `WatchDog`, and `CallsReturn` of `SqlDao`. What keeps three of them from failing
in some state is proved, that there is always somebody to wait for: `ClosedKeepsNothing`,
`WaitersHaveASource`, `OnlyLeaksExhaust`. Every other property of a passing run is a theorem; of the four
properties that are violated, three have a theorem that says how far they hold.

## 5. The plan

1. Done: `PoolContract`, `ListPool`, `SlicePool`, `Cache`, `WatchDog`, `SqlBuilder`, `SqlDao`,
   `NetCall`, `Governor`, `Exchange`, their runs, a theorem for each safety property, the two
   refinements without conditions, what the contract promises, and how far the violated
   properties hold.
2. An abstract specification of the cache, a source with a delay, and a proof that `Cache` implements it.
3. The query and the headers of a request that two calls of `onenet` share; the Exists
   operations of the stores.

## 6. Not modelled, and why

`onegin` parses parameters and renders responses: it keeps no state between calls, and what
can go wrong in it is in the wording. `onelog`, `oneprom`, `oneenv`, `onees`, `oneredis` are
wrappers. Of `onesql` the text of the statements, the decoding of ScanMapDecode and the
interfaces of repositories are left out, of `onenet` the settings of a request, and of
`onegovernor` Request, which copies a request into its context, and its accessors.
`onepool` after an integer overflow of `active` or of `nextRequest`, and the
capacity of `openerCh` (a million), are out of reach of a small instance and
of any real load; `OpenerChBounded` says how many tokens there can be.
