-------------------------- MODULE SliceRefinement --------------------------
(***************************************************************************)
(* The proof that Slice keeps the contract of a pool: every step of         *)
(* SlicePool is, seen through Phase and Holder, one step of PoolContract or *)
(* none. The limit it keeps is Active, or Active + 1 when items expire.     *)
(***************************************************************************)
EXTENDS SlicePoolProofs

\* The places of a Get that met an expired item.
Expiry == {"stale", "staleMail", "relock", "redial"}

\* active stays within the ceiling, no Get meets an expired item when none
\* expires, and a closed pool has no idle items.
Within ==
  /\ conf.Active = 0 \/ active <= Ceiling
  /\ conf.IdleTimeout = 0 => \A p \in Clients : pc[p] \notin Expiry
  /\ closed => freeItem = <<>>

LEMMA ConfTypes ==
  ASSUME HomeInv
  PROVE  conf.Active \in Nat /\ conf.IdleTimeout \in Nat /\ Ceiling \in Nat
<1>1. conf \in Config
  BY ConfigAssumption DEF HomeInv, Shape
<1> QED BY <1>1 DEF Config, Ceiling

LEMMA SameConf == Next => conf' = conf
BY DEF Next, GetStart, GetLoop, GetStep, CheckExpired, Receive, ReceiveClosed, TimeoutFires,
       CancelRequest, CloseStale, RetryAfterStale, DialAfterStale, DialOk, DialFail, CtxDone, Put,
       PutKept, PutClosed, Opener, OpenerTake, OpenerExit, OpenKept, OpenFails, Cleaner, CleanerWake,
       CleanerClose, Close, Reload, Tick

LEMMA InitWithin == Init => Within
<1> SUFFICES ASSUME Init PROVE Within
  OBVIOUS
<1>1. Ceiling \in Nat
  BY InitHome, ConfTypes
<1> QED BY <1>1 DEF Init, Within, Expiry

\* A release leaves active within Active: what it adds fills free slots only.
LEMMA ReleaseWithin ==
  ASSUME HomeInv, BalanceInv, Within, conf.Active > 0
  PROVE  Released.active <= conf.Active /\ active - 1 <= conf.Active
<1>1. /\ active \in Nat /\ conf.Active \in Nat /\ Cardinality(requests) \in Nat
      /\ active - 1 <= conf.Active
  <2>1. active \in Nat /\ conf.Active \in Nat /\ Cardinality(requests) \in Nat
    BY OpensNat, ConfTypes DEF BalanceInv
  <2>2. Ceiling = conf.Active \/ Ceiling = conf.Active + 1
    BY DEF Ceiling
  <2>3. active <= Ceiling
    BY <2>1 DEF Within
  <2> HIDE DEF Ceiling
  <2> QED BY <2>1, <2>2, <2>3
<1> DEFINE k == Opens(active - 1)
<1>2. k \in Nat /\ active - 1 + k <= conf.Active
  BY <1>1 DEF Opens, Lesser
<1> HIDE DEF k
<1>3. Released.active = IF closed THEN active - 1 + Lesser(k, 1) ELSE active - 1 + k
  BY DEF Released, k
<1> QED BY <1>1, <1>2, <1>3 DEF Lesser

LEMMA NextWithin == HomeInv /\ BalanceInv /\ Within /\ [Next]_vars => Within'
<1> SUFFICES ASSUME HomeInv, BalanceInv, Within, Next PROVE Within'
  <2>1. Within /\ UNCHANGED vars => Within'
    BY DEF vars, books, calls, Within, Ceiling
  <2> QED BY <2>1
<1>1. /\ conf' = conf /\ Ceiling' = Ceiling /\ Ceiling \in Nat
      /\ active \in Nat /\ conf.Active \in Nat /\ conf.IdleTimeout \in Nat /\ pc \in [Clients -> PCs]
  BY SameConf, ConfTypes DEF HomeInv, Shape, BalanceInv, Ceiling
<1>2. ASSUME conf.IdleTimeout = 0, NEW p \in Clients, GetStart(p) \/ GetStep(p) \/ CtxDone(p) \/ Put(p)
      PROVE  \A q \in Clients : pc'[q] \notin Expiry
  <2>1. pc[p] \notin Expiry /\ \A a : ~Expired(a, conf.IdleTimeout)
    BY <1>2 DEF Within, Expired
  <2>2. \E w \in PCs \ Expiry : pc' = [pc EXCEPT ![p] = w]
    <3>1. CASE GetStart(p)
      BY <3>1 DEF GetStart, GetLoop, PCs, InGet, Expiry
    <3>2. CASE CheckExpired(p) \/ Receive(p)
      BY <2>1, <3>2 DEF CheckExpired, Receive, PCs, InGet, Expiry
    <3>3. CASE CtxDone(p)
      <4>1. pc' = [pc EXCEPT ![p] = pc[p]]
        BY <1>1, <3>3 DEF CtxDone
      <4> QED BY <1>1, <2>1, <4>1
    <3>4. CASE \/ ReceiveClosed(p) \/ TimeoutFires(p) \/ CancelRequest(p) \/ DialOk(p) \/ DialFail(p)
               \/ PutKept(p) \/ PutClosed(p)
      BY <3>4 DEF ReceiveClosed, TimeoutFires, CancelRequest, DialOk, DialFail, PutKept, PutClosed,
                  PCs, InGet, Expiry
    <3>5. CASE CloseStale(p) \/ RetryAfterStale(p) \/ DialAfterStale(p)
      BY <2>1, <3>5 DEF CloseStale, RetryAfterStale, DialAfterStale, Expiry
    <3> QED BY <1>2, <3>1, <3>2, <3>3, <3>4, <3>5 DEF GetStep, Put
  <2> QED BY <1>1, <1>2, <2>2 DEF Within
<1>3. ASSUME Opener \/ Cleaner \/ Close \/ (\E k \in Configs : Reload(k)) \/ Tick PROVE  pc' = pc
  BY <1>3 DEF Opener, OpenerTake, OpenerExit, OpenKept, OpenFails, Cleaner, CleanerWake, CleanerClose,
              Close, Reload, Tick, calls
<1>4. conf.Active > 0 => active' <= Ceiling
  <2> SUFFICES ASSUME conf.Active > 0 PROVE active' <= Ceiling
    OBVIOUS
  <2>1. /\ active <= Ceiling /\ active - 1 <= conf.Active /\ Released.active <= conf.Active
        /\ conf.Active <= Ceiling /\ (conf.IdleTimeout > 0 => Ceiling = conf.Active + 1)
    BY <1>1, ReleaseWithin DEF Within, Ceiling
  <2>2. active \in Int /\ Released.active \in Int /\ conf.Active \in Int /\ Ceiling \in Int
    <3>1. Released.active \in Int
      <4>1. active - 1 \in Int /\ Opens(active - 1) \in Int
        BY <1>1, OpensNat DEF Opens, Lesser
      <4> HIDE DEF Opens
      <4> QED BY <4>1 DEF Released, Lesser
    <3> QED BY <1>1, <3>1
  <2> HIDE DEF Released, Ceiling
  <2>3. ASSUME NEW p \in Clients, GetStart(p) PROVE active' <= Ceiling
    <3>1. active' = active \/ (active' = active + 1 /\ ~AtLimit(active))
      BY <2>3 DEF GetStart, GetLoop
    <3> QED BY <2>1, <2>2, <3>1 DEF AtLimit
  <2>4. ASSUME NEW p \in Clients, GetStep(p) \/ CtxDone(p) \/ Put(p) PROVE active' <= Ceiling
    <3>1. CASE RetryAfterStale(p)
      <4>1. \/ active' = Released.active
            \/ active' = Released.active + 1 /\ ~AtLimit(Released.active)
        BY <3>1 DEF RetryAfterStale, GetLoop
      <4> QED BY <2>1, <2>2, <4>1 DEF AtLimit
    <3>2. CASE DialAfterStale(p)
      <4>1. pc[p] \in Expiry /\ active' = Released.active + 1
        BY <3>2 DEF DialAfterStale, Expiry
      <4>2. conf.IdleTimeout > 0
        BY <1>1, <4>1 DEF Within
      <4> QED BY <2>1, <2>2, <4>1, <4>2
    <3>3. CASE DialFail(p) \/ PutClosed(p)
      <4>1. active' = Released.active \/ active' = active - 1
        BY <3>3 DEF DialFail, PutClosed, Release
      <4> QED BY <2>1, <2>2, <4>1
    <3>4. CASE PutKept(p)
      BY <2>1, <3>4 DEF PutKept, Enqueue, Deliver
    <3>5. CASE \/ CheckExpired(p) \/ Receive(p) \/ ReceiveClosed(p) \/ TimeoutFires(p) \/ CtxDone(p)
               \/ CloseStale(p) \/ DialOk(p) \/ CancelRequest(p)
      BY <2>1, <3>5 DEF CheckExpired, Receive, ReceiveClosed, TimeoutFires, CtxDone, CloseStale, DialOk,
                        CancelRequest, books
    <3> QED BY <2>4, <3>1, <3>2, <3>3, <3>4, <3>5 DEF GetStep, Put
  <2>5. CASE Opener
    <3>1. CASE OpenerTake \/ OpenerExit \/ OpenKept
      BY <2>1, <3>1 DEF OpenerTake, OpenerExit, OpenKept, Enqueue, Deliver, books
    <3>2. CASE OpenFails
      <4>1. active' = Released.active \/ active' = active - 1
        BY <3>2 DEF OpenFails, Release
      <4> QED BY <2>1, <2>2, <4>1
    <3> QED BY <2>5, <3>1, <3>2 DEF Opener
  <2>6. CASE CleanerWake
    <3>1. Cardinality(Stale) \in Nat
      BY HomeTypes, SweepKeeps
    <3>2. active' = active \/ active' = active - Cardinality(Stale)
      BY <2>6 DEF CleanerWake
    <3> QED BY <2>1, <2>2, <3>1, <3>2
  <2>7. CASE CleanerClose \/ Close \/ (\E k \in Configs : Reload(k)) \/ Tick
    BY <2>1, <2>7 DEF CleanerClose, Close, Reload, Tick, books
  <2> QED BY <2>3, <2>4, <2>5, <2>6, <2>7 DEF Next, Cleaner
<1>5. closed' => freeItem' = <<>>
  <2>1. CASE closed
    <3>1. freeItem = <<>> /\ Refuses
      BY <2>1 DEF Within, Refuses
    <3>2. ASSUME NEW p \in Clients, GetStart(p) \/ GetStep(p) \/ CtxDone(p) \/ Put(p) PROVE freeItem' = <<>>
      BY <3>1, <3>2 DEF GetStart, GetLoop, GetStep, CheckExpired, Receive, ReceiveClosed, TimeoutFires,
            CancelRequest, CloseStale, RetryAfterStale, DialAfterStale, DialOk, DialFail, CtxDone, Put,
            PutKept, PutClosed, Enqueue, Deliver, books
    <3>3. CASE Opener \/ Cleaner \/ Close \/ (\E k \in Configs : Reload(k)) \/ Tick
      BY <2>1, <3>1, <3>3 DEF Opener, OpenerTake, OpenerExit, OpenKept, OpenFails, Cleaner, CleanerWake,
            CleanerClose, Close, Reload, Tick, Enqueue, Deliver, books
    <3> QED BY <3>2, <3>3 DEF Next
  <2>2. CASE ~closed
    <3>1. ASSUME NEW p \in Clients, GetStart(p) \/ GetStep(p) \/ CtxDone(p) \/ Put(p) PROVE ~closed'
      BY <2>2, <3>1 DEF GetStart, GetLoop, GetStep, CheckExpired, Receive, ReceiveClosed, TimeoutFires,
            CancelRequest, CloseStale, RetryAfterStale, DialAfterStale, DialOk, DialFail, CtxDone, Put,
            PutKept, PutClosed
    <3>2. CASE Opener \/ Cleaner \/ (\E k \in Configs : Reload(k)) \/ Tick
      BY <2>2, <3>2 DEF Opener, OpenerTake, OpenerExit, OpenKept, OpenFails, Cleaner, CleanerWake,
            CleanerClose, Reload, Tick
    <3>3. CASE Close
      BY <3>3 DEF Close
    <3> QED BY <3>1, <3>2, <3>3 DEF Next
  <2> QED BY <2>1, <2>2
<1>6. conf'.IdleTimeout = 0 => \A p \in Clients : pc'[p] \notin Expiry
  BY <1>1, <1>2, <1>3 DEF Next, Within
<1> QED BY <1>1, <1>4, <1>5, <1>6 DEF Within

-----------------------------------------------------------------------------
(* What is seen of the pool. *)

\* I are idle, h with the clients and o open, each connection at one place.
Apart(I, h, o) ==
  /\ I \in SUBSET o /\ o \in SUBSET Conns /\ h \in [Clients -> Conns \union {NoConn}]
  /\ \A p \in Clients : h[p] \in Conns => h[p] \in o \ I
  /\ \A p, q \in Clients : h[p] \in Conns /\ h[p] = h[q] => p = q

\* P and H are the phases and the holders then.
Shows(P, H, I, h, o) ==
  /\ P \in [Conns -> {"none", "spare", "lent", "doomed"}]
  /\ H \in [Conns -> Clients \union {NoConn}]
  /\ \A c \in Conns : /\ P[c] = "none" <=> c \notin o
                      /\ P[c] = "spare" <=> c \in I
                      /\ P[c] = "lent" <=> \E p \in Clients : h[p] = c
  /\ \A c \in Conns, p \in Clients : H[c] = p <=> h[p] = c

Met == {"stale", "staleMail"}

\* What p has: an expired item in its hands is on its way out.
Has == [p \in Clients |-> IF pc[p] \in Met THEN NoConn ELSE conn[p]]

Shown == Apart(FreeConns, Has, open) /\ Shows(Phase, Holder, FreeConns, Has, open)

LEMMA HasTypes ==
  ASSUME HomeInv
  PROVE  /\ Has \in [Clients -> Conns \union {NoConn}]
         /\ \A p \in Clients : Has[p] = IF pc[p] \in Met THEN NoConn ELSE conn[p]
         /\ \A p \in Clients : Has[p] \in Conns => Has[p] = conn[p]
BY HomeTypes, ConnsAssumption DEF Has

\* p goes to w, with what was v in its hands.
LEMMA HasMoves ==
  ASSUME HomeInv, NEW p \in Clients, NEW w, NEW v, pc' = [pc EXCEPT ![p] = w], conn' = [conn EXCEPT ![p] = v]
  PROVE  Has' = [Has EXCEPT ![p] = IF w \in Met THEN NoConn ELSE v]
<1>1. pc'[p] = w /\ conn'[p] = v /\ \A q \in Clients \ {p} : pc'[q] = pc[q] /\ conn'[q] = conn[q]
  BY HomeTypes DEF HomeInv, Shape
<1>2. Has' = [q \in Clients |-> IF pc'[q] \in Met THEN NoConn ELSE conn'[q]]
  BY DEF Has
<1> DEFINE h == IF w \in Met THEN NoConn ELSE v
<1>3. Has'[p] = h /\ \A q \in Clients \ {p} : Has'[q] = Has[q]
  BY <1>1, <1>2 DEF Has
<1>4. DOMAIN Has' = Clients /\ Has' = [q \in Clients |-> Has'[q]]
  BY <1>2
<1>5. [Has EXCEPT ![p] = h] = [q \in Clients |-> IF q = p THEN h ELSE Has[q]]
  BY DEF Has
<1> HIDE DEF h
<1>6. Has' = [Has EXCEPT ![p] = h]
  BY <1>3, <1>4, <1>5
<1> QED BY <1>6 DEF h

LEMMA HasStays ==
  ASSUME HomeInv, NEW p \in Clients, NEW w, pc' = [pc EXCEPT ![p] = w], conn' = conn, w \in Met <=> pc[p] \in Met
  PROVE  Has' = Has
<1>1. pc'[p] = w /\ \A q \in Clients \ {p} : pc'[q] = pc[q]
  BY DEF HomeInv, Shape
<1>2. \A q \in Clients : pc'[q] \in Met <=> pc[q] \in Met
  BY <1>1
<1> QED BY <1>2 DEF Has

LEMMA HasSame == UNCHANGED <<pc, conn>> => Has' = Has
BY DEF Has

LEMMA ShownNow == HomeInv => Shown
<1> SUFFICES ASSUME HomeInv PROVE Shown
  OBVIOUS
<1>1. /\ FreeConns = ConnsOf(freeItem) /\ FreeConns \in SUBSET Conns
      /\ conn \in [Clients -> Conns \union {NoConn}]
      /\ open \in SUBSET Conns /\ lost \in SUBSET Conns
      /\ Own(FreeConns, conn, doomed, lost, open)
  BY HomeTypes DEF FreeConns, ConnsOf, HomeInv, Homes
<1>2. Apart(FreeConns, Has, open)
  BY <1>1, HasTypes DEF Apart, Own
<1>3. ASSUME NEW c \in Conns PROVE Lent(c) = {p \in Clients : Has[p] = c}
  <2>1. ASSUME NEW p \in Clients, Has[p] = c PROVE p \in Lent(c)
    <3>1. pc[p] \in PCs /\ pc[p] \notin Met /\ Placed(p) /\ conn[p] = c /\ conn[p] # NoConn
      BY <2>1, HasTypes, ConnsAssumption DEF HomeInv, Shape
    <3> QED BY <3>1 DEF Placed, PCs, InGet, Met, Lent
  <2>2. ASSUME NEW p \in Lent(c) PROVE p \in Clients /\ Has[p] = c
    BY HasTypes DEF Lent, Met
  <2> QED BY <2>1, <2>2 DEF Lent
<1>4. ASSUME NEW c \in Conns
      PROVE  /\ PhaseOf(c) \in {"none", "spare", "lent", "doomed"}
             /\ PhaseOf(c) = "none" <=> c \notin open
             /\ PhaseOf(c) = "spare" <=> c \in FreeConns
             /\ PhaseOf(c) = "lent" <=> \E p \in Clients : Has[p] = c
  <2>1. Lent(c) # {} <=> \E p \in Clients : Has[p] = c
    BY <1>3
  <2> QED BY <1>2, <2>1 DEF PhaseOf, Apart
<1>5. ASSUME NEW c \in Conns
      PROVE  /\ HolderOf(c) \in Clients \union {NoConn}
             /\ \A p \in Clients : HolderOf(c) = p <=> Has[p] = c
  <2>1. CASE PhaseOf(c) = "lent"
    <3>1. PICK p \in Clients : Has[p] = c
      BY <1>4, <2>1
    <3>2. p \in Lent(c)
      BY <1>3, <3>1
    <3>3. \A q \in Lent(c) : q = p
      BY <1>2, <1>3, <3>1 DEF Apart
    <3>4. HolderOf(c) = p
      BY <2>1, <3>2, <3>3 DEF HolderOf
    <3> QED BY <1>2, <3>1, <3>4 DEF Apart
  <2>2. CASE PhaseOf(c) # "lent"
    <3>1. HolderOf(c) = NoConn
      BY <2>2 DEF HolderOf
    <3>2. \A p \in Clients : Has[p] # c /\ NoConn # p
      BY <1>4, <2>2, ConnsAssumption
    <3> QED BY <3>1, <3>2
  <2> QED BY <2>1, <2>2
<1> QED BY <1>2, <1>4, <1>5 DEF Shown, Shows, Phase, Holder

LEMMA ShownThen == HomeInv' => Shown'
BY ShownNow, PTL

LEMMA LentShown ==
  ASSUME NEW P, NEW H, NEW I, NEW h, NEW o, Shows(P, H, I, h, o),
         NEW c \in Conns, NEW p \in Clients, h[p] = c
  PROVE  P[c] = "lent" /\ H[c] = p
BY DEF Shows

Changed(f, x, v) == [f EXCEPT ![x] = v]

\* Every connection but c is where it was.
SameBut(c, I, h, o, J, m, u) ==
  \A d \in Conns \ {c} : /\ (d \in o <=> d \in u) /\ (d \in I <=> d \in J)
                         /\ \A q \in Clients : h[q] = d <=> m[q] = d

\* A step that moves one connection changes its phase and its holder only.
LEMMA OneMoves ==
  ASSUME NEW P, NEW H, NEW Q, NEW G, NEW I, NEW h, NEW o, NEW J, NEW m, NEW u, NEW c,
         Shows(P, H, I, h, o), Shows(Q, G, J, m, u), SameBut(c, I, h, o, J, m, u)
  PROVE  Q = Changed(P, c, Q[c]) /\ G = Changed(H, c, G[c])
<1>1. ASSUME NEW d \in Conns \ {c} PROVE Q[d] = P[d]
  <2>1. (\E q \in Clients : h[q] = d) <=> \E q \in Clients : m[q] = d
    BY DEF SameBut
  <2>2. P[d] \in {"none", "spare", "lent", "doomed"} /\ Q[d] \in {"none", "spare", "lent", "doomed"}
    BY DEF Shows
  <2>3. /\ P[d] = "none" <=> Q[d] = "none"
        /\ P[d] = "spare" <=> Q[d] = "spare"
        /\ P[d] = "lent" <=> Q[d] = "lent"
    BY <2>1 DEF Shows, SameBut
  <2> QED BY <2>2, <2>3
<1>2. ASSUME NEW d \in Conns \ {c} PROVE G[d] = H[d]
  <2>1. \A q \in Clients : G[d] = q <=> H[d] = q
    BY DEF Shows, SameBut
  <2>2. G[d] \in Clients \union {NoConn} /\ H[d] \in Clients \union {NoConn}
    BY DEF Shows
  <2> QED BY <2>1, <2>2, ConnsAssumption
<1>3. /\ Q = [d \in Conns |-> Q[d]] /\ P = [d \in Conns |-> P[d]]
      /\ G = [d \in Conns |-> G[d]] /\ H = [d \in Conns |-> H[d]]
  BY DEF Shows
<1> QED BY <1>1, <1>2, <1>3 DEF Changed

-----------------------------------------------------------------------------
(* The steps. *)

Sees == Contract!Step \/ UNCHANGED <<Phase, Holder, closed>>

LEMMA FreeSame == freeItem' = freeItem => FreeConns' = FreeConns
BY DEF FreeConns

LEMMA FreeIs == FreeConns = ConnsOf(freeItem) /\ FreeConns' = ConnsOf(freeItem')
BY DEF FreeConns, ConnsOf

\* A step that leaves what is idle, held and open is none of the contract's.
LEMMA Unseen ==
  ASSUME Shown, Shown', UNCHANGED <<FreeConns, Has, open, closed>>
  PROVE  Sees
<1>1. Phase' = Phase
  <2>1. ASSUME NEW c \in Conns PROVE Phase'[c] = Phase[c]
    BY DEF Shown, Shows
  <2> QED BY <2>1 DEF Shown, Shows
<1>2. Holder' = Holder
  <2>1. ASSUME NEW c \in Conns PROVE Holder'[c] = Holder[c]
    BY ConnsAssumption DEF Shown, Shows
  <2> QED BY <2>1 DEF Shown, Shows
<1> QED BY <1>1, <1>2 DEF Sees

\* c goes to p, which has none: newly opened, or from the idle ones.
LEMMA GivenSeen ==
  ASSUME Shown, Shown', NEW p \in Clients, NEW c \in Conns, Has[p] = NoConn,
         Has' = [Has EXCEPT ![p] = c], closed' = closed,
         FreeConns' = FreeConns \ {c}, open' = open \union {c}, \A q \in Clients : Has[q] # c,
         c \notin open => Contract!HasRoom, c \in open => c \in FreeConns /\ ~closed
  PROVE  Sees
<1>1. Has'[p] = c /\ \A q \in Clients \ {p} : Has'[q] = Has[q]
  BY DEF Shown, Apart
<1>2. \A d \in Conns \ {c} : \A q \in Clients : Has[q] = d <=> Has'[q] = d
  BY <1>1, ConnsAssumption
<1>3. /\ \A d \in Conns \ {c} : (d \in open <=> d \in open') /\ (d \in FreeConns <=> d \in FreeConns')
      /\ Shows(Phase, Holder, FreeConns, Has, open)
      /\ Shows(Phase', Holder', FreeConns', Has', open')
  BY DEF Shown
<1>4. Phase' = Changed(Phase, c, Phase'[c]) /\ Holder' = Changed(Holder, c, Holder'[c])
  <2>1. SameBut(c, FreeConns, Has, open, FreeConns', Has', open')
    BY <1>2, <1>3 DEF SameBut
  <2> QED BY <1>2, <1>3, <2>1, OneMoves
<1>5. Phase'[c] = "lent" /\ Holder'[c] = p
  BY <1>1, <1>3 DEF Shows
<1>6. Contract!EmptyHanded(p)
  BY <1>3, ConnsAssumption DEF Shows, Contract!EmptyHanded
<1>7. CASE c \notin open
  <2>1. Contract!Dial(c, p)
    BY <1>3, <1>4, <1>5, <1>6, <1>7 DEF Contract!Dial, Changed, Shows
  <2> QED BY <2>1 DEF Sees, Contract!Step
<1>8. CASE c \in open
  <2>1. Contract!Lend(c, p)
    BY <1>3, <1>4, <1>5, <1>6, <1>8 DEF Contract!Lend, Changed, Shows
  <2> QED BY <2>1 DEF Sees, Contract!Step
<1> QED BY <1>7, <1>8

Handed(h, p, q) == [[h EXCEPT ![p] = NoConn] EXCEPT ![q] = h[p]]

\* What p had goes to q.
LEMMA HandedSeen ==
  ASSUME Shown, Shown', NEW p \in Clients, NEW q \in Clients, Has[p] \in Conns, Has[q] = NoConn,
         Has' = Handed(Has, p, q),
         UNCHANGED <<FreeConns, open, closed>>, ~closed
  PROVE  Sees
<1> DEFINE c == Has[p]
<1>1. c \in Conns /\ p # q /\ Has'[p] = NoConn /\ Has'[q] = c /\ Has[p] = c
      /\ \A r \in Clients \ {p, q} : Has'[r] = Has[r]
  BY ConnsAssumption DEF Shown, Apart, Handed
<1> HIDE DEF c
<1>2. \A d \in Conns \ {c} : \A r \in Clients : Has[r] = d <=> Has'[r] = d
  BY <1>1, ConnsAssumption
<1>3. /\ \A d \in Conns \ {c} : (d \in open <=> d \in open') /\ (d \in FreeConns <=> d \in FreeConns')
      /\ Shows(Phase, Holder, FreeConns, Has, open)
      /\ Shows(Phase', Holder', FreeConns', Has', open')
  BY DEF Shown
<1>4. Phase' = Changed(Phase, c, Phase'[c]) /\ Holder' = Changed(Holder, c, Holder'[c])
  <2>1. SameBut(c, FreeConns, Has, open, FreeConns', Has', open')
    BY <1>2, <1>3 DEF SameBut
  <2> QED BY <1>2, <1>3, <2>1, OneMoves
<1>5. Phase'[c] = "lent" /\ Holder'[c] = q /\ Phase[c] = "lent"
  <2>1. Phase'[c] = "lent" /\ Holder'[c] = q
    BY <1>1, <1>3, LentShown
  <2>2. Phase[c] = "lent"
    BY <1>1, <1>3, LentShown
  <2> QED BY <2>1, <2>2
<1>6. Contract!EmptyHanded(q)
  BY <1>3, ConnsAssumption DEF Shows, Contract!EmptyHanded
<1>7. Phase' = Phase
  BY <1>3, <1>4, <1>5 DEF Changed, Shows
<1>8. Contract!Handoff(c, q)
  BY <1>4, <1>5, <1>6, <1>7 DEF Contract!Handoff, Changed
<1> QED BY <1>1, <1>8 DEF Sees, Contract!Step

\* PoolContract counts as SlicePool does.
LEMMA SameCount == ASSUME NEW S PROVE Contract!Cardinality(S) = Cardinality(S)
BY DEF Contract!Cardinality, Cardinality

\* p has c no more: it joins the idle ones, is closed, or is lost.
LEMMA GivenUpSeen ==
  ASSUME Shown, Shown', NEW p \in Clients, Has[p] \in Conns, Has' = [Has EXCEPT ![p] = NoConn],
         closed' = closed,
         \/ FreeConns' = FreeConns \union {Has[p]} /\ open' = open /\ ~closed
         \/ FreeConns' = FreeConns /\ open' \in {open, open \ {Has[p]}}
  PROVE  Sees
<1> DEFINE c == Has[p]
<1>1. c \in Conns /\ Has'[p] = NoConn /\ Has[p] = c /\ \A r \in Clients \ {p} : Has'[r] = Has[r] /\ Has[r] # c
  BY DEF Shown, Apart
<1>2. /\ \A d \in Conns \ {c} : (d \in open <=> d \in open') /\ (d \in FreeConns <=> d \in FreeConns')
      /\ Shows(Phase, Holder, FreeConns, Has, open)
      /\ Shows(Phase', Holder', FreeConns', Has', open')
      /\ c \in open \ FreeConns
  BY DEF Shown, Apart
<1> HIDE DEF c
<1>3. \A d \in Conns \ {c} : \A r \in Clients : Has[r] = d <=> Has'[r] = d
  BY <1>1, ConnsAssumption
<1>4. Phase' = Changed(Phase, c, Phase'[c]) /\ Holder' = Changed(Holder, c, Holder'[c])
  <2>1. SameBut(c, FreeConns, Has, open, FreeConns', Has', open')
    BY <1>2, <1>3 DEF SameBut
  <2> QED BY <1>2, <1>3, <2>1, OneMoves
<1>5. Phase[c] = "lent" /\ Holder'[c] = NoConn
  <2>1. \A r \in Clients : Has'[r] # c
    BY <1>1, ConnsAssumption
  <2>2. Holder'[c] \in Clients \union {NoConn} /\ Holder'[c] \notin Clients
    BY <1>1, <1>2, <2>1 DEF Shows
  <2> QED BY <1>1, <1>2, <2>2 DEF Shows
<1>6. Holder' = Contract!Unheld({c})
  <2>1. \A d \in Conns : Holder'[d] = IF d \in {c} THEN NoConn ELSE Holder[d]
    BY <1>2, <1>4, <1>5 DEF Changed, Shows
  <2> QED BY <1>2, <2>1 DEF Shows, Contract!Unheld
<1>7. CASE FreeConns' = FreeConns \union {c} /\ open' = open /\ ~closed
  <2>1. Phase'[c] = "spare"
    BY <1>1, <1>2, <1>7 DEF Shows
  <2>2. Phase' = [Phase EXCEPT ![c] = "spare"]
    BY <1>4, <2>1 DEF Changed
  <2>3. Phase' = Contract!Retired([Phase EXCEPT ![c] = "spare"], {}, "doomed")
    <3>1. Phase' = [d \in Conns |-> Phase'[d]]
      BY <1>2 DEF Shows
    <3> QED BY <2>2, <3>1 DEF Contract!Retired
  <2>4. Contract!Cardinality({}) <= 1
    <3>1. Cardinality({}) = 0
      BY FS_EmptySet
    <3>2. Contract!Cardinality({}) = Cardinality({})
      BY SameCount
    <3> QED BY <3>1, <3>2
  <2>5. Contract!Return(c, {})
    BY <1>5, <1>6, <1>7, <2>3, <2>4 DEF Contract!Return
  <2> QED BY <1>1, <2>5 DEF Sees, Contract!Step
<1>8. CASE FreeConns' = FreeConns /\ open' \in {open, open \ {c}}
  <2> DEFINE how == Phase'[c]
  <2>1. how \in {"none", "doomed"}
    <3>1. /\ Phase'[c] \in {"none", "spare", "lent", "doomed"} /\ Phase'[c] # "spare"
          /\ Phase'[c] = "lent" => \E r \in Clients : Has'[r] = c
      BY <1>1, <1>2, <1>8 DEF Shows
    <3>2. \A r \in Clients : Has'[r] # c
      BY <1>1, ConnsAssumption
    <3> QED BY <3>1, <3>2
  <2>2. Phase' = Contract!Retired(Phase, {c}, how)
    <3>1. \A d \in Conns : Phase'[d] = IF d \in {c} THEN how ELSE Phase[d]
      BY <1>2, <1>4 DEF Changed, Shows
    <3>2. Phase' = [d \in Conns |-> Phase'[d]]
      BY <1>2 DEF Shows
    <3> HIDE DEF how
    <3> QED BY <3>1, <3>2 DEF Contract!Retired
  <2> HIDE DEF how
  <2>3. {c} # {} /\ {c} \in SUBSET Conns /\ {c} \subseteq Contract!Usable
    BY <1>1, <1>5 DEF Contract!Usable, Contract!In
  <2>4. Contract!Retire({c}, how)
    BY <1>6, <2>2, <2>3 DEF Contract!Retire
  <2>5. how \in Contract!Ways
    BY <2>1 DEF Contract!Ways
  <2> QED BY <2>3, <2>4, <2>5 DEF Sees, Contract!Step
<1> QED BY <1>7, <1>8 DEF c

\* The pool gets c, which it dialed on its own account.
LEMMA StockSeen ==
  ASSUME Shown, Shown', NEW c \in Conns, c \notin open, open' = open \union {c},
         FreeConns' = FreeConns \union {c}, UNCHANGED <<Has, closed>>, ~closed, Contract!HasRoom
  PROVE  Sees
<1>1. /\ \A d \in Conns \ {c} : (d \in open <=> d \in open') /\ (d \in FreeConns <=> d \in FreeConns')
      /\ Shows(Phase, Holder, FreeConns, Has, open)
      /\ Shows(Phase', Holder', FreeConns', Has', open')
      /\ \A q \in Clients : Has[q] # c
  BY DEF Shown, Apart
<1>2. \A d \in Conns \ {c} : \A q \in Clients : Has[q] = d <=> Has'[q] = d
  OBVIOUS
<1>3. Phase' = Changed(Phase, c, Phase'[c]) /\ Holder' = Changed(Holder, c, Holder'[c])
  <2>1. SameBut(c, FreeConns, Has, open, FreeConns', Has', open')
    BY <1>1, <1>2 DEF SameBut
  <2> QED BY <1>1, <1>2, <2>1, OneMoves
<1>4. Phase[c] = "none" /\ Phase'[c] = "spare" /\ Holder'[c] = Holder[c]
  <2>1. /\ Holder'[c] \in Clients \union {NoConn} /\ Holder[c] \in Clients \union {NoConn}
        /\ \A q \in Clients : Holder'[c] # q /\ Holder[c] # q
    BY <1>1 DEF Shows
  <2>2. Phase[c] = "none" /\ Phase'[c] = "spare"
    BY <1>1 DEF Shows
  <2> QED BY <2>1, <2>2
<1>5. Holder' = Holder
  BY <1>1, <1>3, <1>4 DEF Changed, Shows
<1>6. Contract!Stock(c)
  BY <1>3, <1>4, <1>5 DEF Contract!Stock, Changed
<1> QED BY <1>6 DEF Sees, Contract!Step

LEMMA ShutSeen ==
  ASSUME Shown, Shown', closed', FreeConns' = {}, open' = open \ FreeConns, Has' = Has
  PROVE  Sees
<1>1. /\ Shows(Phase, Holder, FreeConns, Has, open) /\ Apart(FreeConns, Has, open)
      /\ Shows(Phase', Holder', {}, Has, open \ FreeConns)
  BY DEF Shown
<1>2. ASSUME NEW c \in Conns PROVE Phase'[c] = IF c \in FreeConns THEN "none" ELSE Phase[c]
  <2>1. Phase[c] \in {"none", "spare", "lent", "doomed"} /\ Phase'[c] \in {"none", "spare", "lent", "doomed"}
    BY <1>1 DEF Shows
  <2>2. /\ Phase[c] = "none" <=> c \notin open
        /\ Phase[c] = "spare" <=> c \in FreeConns
        /\ Phase'[c] = "none" <=> c \notin open \ FreeConns
        /\ Phase'[c] # "spare"
        /\ Phase[c] = "lent" <=> \E q \in Clients : Has[q] = c
        /\ Phase'[c] = "lent" <=> \E q \in Clients : Has[q] = c
    BY <1>1 DEF Shows
  <2> QED BY <2>1, <2>2
<1>3. \A c \in Conns : Holder'[c] = Holder[c]
  <2> TAKE c \in Conns
  <2>1. /\ Holder'[c] \in Clients \union {NoConn} /\ Holder[c] \in Clients \union {NoConn}
        /\ \A q \in Clients : Holder'[c] = q <=> Holder[c] = q
    BY <1>1 DEF Shows
  <2> QED BY <2>1, ConnsAssumption
<1>4. Holder' = Holder
  BY <1>1, <1>3 DEF Shows
<1>5. Contract!In("spare") = FreeConns
  BY <1>1 DEF Contract!In, Shows, Apart
<1>6. Phase' = Contract!Retired(Phase, Contract!In("spare"), "none")
  <2>1. Phase' = [c \in Conns |-> Phase'[c]]
    BY <1>1 DEF Shows
  <2> QED BY <1>2, <1>5, <2>1 DEF Contract!Retired
<1>7. Contract!Shut("none")
  BY <1>4, <1>6 DEF Contract!Shut
<1> QED BY <1>7 DEF Sees, Contract!Step, Contract!Ways

\* c, on its way out, is closed.
LEMMA DisposeSeen ==
  ASSUME Shown, Shown', NEW c \in open, c \notin FreeConns, \A q \in Clients : Has[q] # c,
         UNCHANGED <<FreeConns, Has, closed>>, open' = open \ {c}
  PROVE  Sees
<1>1. /\ c \in Conns /\ \A d \in Conns \ {c} : (d \in open <=> d \in open') /\ (d \in FreeConns <=> d \in FreeConns')
      /\ Shows(Phase, Holder, FreeConns, Has, open)
      /\ Shows(Phase', Holder', FreeConns', Has', open')
  BY DEF Shown, Apart
<1>2. Phase' = Changed(Phase, c, Phase'[c]) /\ Holder' = Changed(Holder, c, Holder'[c])
  <2>1. SameBut(c, FreeConns, Has, open, FreeConns', Has', open')
    BY <1>1 DEF SameBut
  <2> QED BY <1>1, <2>1, OneMoves
<1>3. Phase[c] = "doomed" /\ Phase'[c] = "none"
  BY <1>1 DEF Shows
<1>4. Holder'[c] = Holder[c]
  <2>1. /\ Holder'[c] \in Clients \union {NoConn} /\ Holder[c] \in Clients \union {NoConn}
        /\ \A q \in Clients : Holder'[c] = q <=> Holder[c] = q
    BY <1>1 DEF Shows
  <2> QED BY <2>1
<1>5. Holder' = Holder
  BY <1>1, <1>2, <1>4 DEF Changed, Shows
<1>6. Contract!Dispose(c)
  BY <1>2, <1>3, <1>5 DEF Contract!Dispose, Changed
<1> QED BY <1>1, <1>6 DEF Sees, Contract!Step

\* Idle connections D are retired at once.
LEMMA RetireSeen ==
  ASSUME Shown, Shown', NEW D \in SUBSET FreeConns, D # {},
         FreeConns' = FreeConns \ D, UNCHANGED <<Has, open, closed>>
  PROVE  Sees
<1>1. /\ Shows(Phase, Holder, FreeConns, Has, open) /\ Apart(FreeConns, Has, open)
      /\ Shows(Phase', Holder', FreeConns \ D, Has, open)
  BY DEF Shown
<1>2. ASSUME NEW c \in Conns PROVE Phase'[c] = IF c \in D THEN "doomed" ELSE Phase[c]
  <2>1. Phase[c] \in {"none", "spare", "lent", "doomed"} /\ Phase'[c] \in {"none", "spare", "lent", "doomed"}
    BY <1>1 DEF Shows
  <2>2. /\ Phase[c] = "none" <=> c \notin open
        /\ Phase[c] = "spare" <=> c \in FreeConns
        /\ Phase'[c] = "none" <=> c \notin open
        /\ Phase'[c] = "spare" <=> c \in FreeConns \ D
        /\ Phase[c] = "lent" <=> \E q \in Clients : Has[q] = c
        /\ Phase'[c] = "lent" <=> \E q \in Clients : Has[q] = c
        /\ c \in D => c \in open /\ \A q \in Clients : Has[q] # c
    BY <1>1 DEF Shows, Apart
  <2> QED BY <2>1, <2>2
<1>3. \A c \in Conns : Holder'[c] = Holder[c] /\ (c \in D => Holder[c] = NoConn)
  <2> TAKE c \in Conns
  <2>1. /\ Holder'[c] \in Clients \union {NoConn} /\ Holder[c] \in Clients \union {NoConn}
        /\ \A q \in Clients : Holder'[c] = q <=> Holder[c] = q
        /\ c \in D => \A q \in Clients : Holder[c] # q
    BY <1>1 DEF Shows, Apart
  <2> QED BY <2>1
<1>4. Holder' = Contract!Unheld(D)
  <2>1. Holder' = [c \in Conns |-> Holder'[c]]
    BY <1>1 DEF Shows
  <2> QED BY <1>3, <2>1 DEF Contract!Unheld
<1>5. Phase' = Contract!Retired(Phase, D, "doomed")
  <2>1. Phase' = [c \in Conns |-> Phase'[c]]
    BY <1>1 DEF Shows
  <2> QED BY <1>2, <2>1 DEF Contract!Retired
<1>6. D \in SUBSET Conns /\ D \subseteq Contract!Usable
  BY <1>1 DEF Contract!Usable, Contract!In, Shows, Apart
<1>7. Contract!Retire(D, "doomed")
  BY <1>4, <1>5, <1>6 DEF Contract!Retire
<1> QED BY <1>6, <1>7 DEF Sees, Contract!Step, Contract!Ways

\* Who dials has a slot that active counts, and the connections idle and lent
\* have others: there is room for one more.
LEMMA DialHasRoom ==
  ASSUME HomeInv, BalanceInv, Within, Shown, opener = "dialing" \/ \E p \in Clients : pc[p] = "dialing"
  PROVE  Contract!HasRoom
<1> DEFINE M == {conn[p] : p \in WithConn}
<1>1. /\ IsFiniteSet(FreeConns) /\ Cardinality(FreeConns) = Len(freeItem)
      /\ IsFiniteSet(M) /\ Cardinality(M) = Cardinality(WithConn)
  BY ConnsCounted
<1>2. FreeConns \intersect M = {} /\ Contract!Usable \subseteq FreeConns \union M
  <2>1. \A c : c \in M <=> c \in Conns /\ \E p \in Clients : conn[p] = c
    BY HomeTypes, ConnsAssumption DEF WithConn
  <2> HIDE DEF M
  <2>2. \A c \in Conns : Phase[c] = "spare" \/ Phase[c] = "lent" => c \in FreeConns \/ c \in M
    BY <2>1, HasTypes DEF Shown, Shows
  <2>3. Contract!Usable \subseteq FreeConns \union M
    BY <2>2 DEF Contract!Usable, Contract!In
  <2>4. \A c \in M : c \notin FreeConns
    BY <2>1, HomeTypes, FreeIs DEF Own
  <2> QED BY <2>3, <2>4
<1>3. Cardinality(Contract!Usable) <= Idle + InHands /\ Cardinality(Contract!Usable) \in Nat
  <2>1. Cardinality(WithConn) = InHands /\ Len(freeItem) = Idle
    BY DEF WithConn, InHands, With, HandOf, Idle
  <2> HIDE DEF M
  <2>2. /\ IsFiniteSet(FreeConns \union M)
        /\ Cardinality(FreeConns \union M) = Cardinality(FreeConns) + Cardinality(M)
    BY <1>1, <1>2, DisjointUnion
  <2>3. Cardinality(Contract!Usable) <= Cardinality(FreeConns \union M)
    BY <1>2, <2>2, FS_Subset
  <2>4. Cardinality(Contract!Usable) \in Nat
    BY <1>2, <2>2, FS_Subset, FS_CardinalityType
  <2> QED BY <1>1, <2>1, <2>2, <2>3, <2>4
<1>4. /\ active \in Nat /\ tokens \in Nat /\ Idle \in Nat /\ InHands \in Nat /\ Midway \in Nat
      /\ Opening \in Nat /\ Forgotten \in Nat
  BY BooksAreNat
<1>5. Opening + Midway > 0
  <2>1. CASE opener = "dialing"
    BY <1>4, <2>1 DEF Opening
  <2>2. CASE \E p \in Clients : pc[p] = "dialing"
    <3>1. PICK p \in Clients : pc[p] = "dialing"
      BY <2>2
    <3>2. p \in PassOf(pc)
      BY <3>1 DEF PassOf
    <3>3. Midway # 0
      BY <3>2, CountsAreNat, FS_EmptySet DEF Midway, Passing
    <3> QED BY <1>4, <3>3
  <2> QED BY <2>1, <2>2
<1>6. Idle + InHands < Tally /\ Tally \in Nat
  BY <1>4, <1>5 DEF Tally
<1>7. Tally <= active
  <2> HIDE DEF Tally
  <2> QED BY <1>4, <1>6 DEF BalanceInv, Balanced
<1>8. (Ceiling = 0 \/ active <= Ceiling) /\ Ceiling \in Nat
  BY ConfTypes DEF Within, Ceiling
<1>9. Ceiling = 0 \/ Cardinality(Contract!Usable) < Ceiling
  <2> HIDE DEF Tally, Ceiling
  <2> QED BY <1>3, <1>4, <1>6, <1>7, <1>8
<1> QED BY <1>9, SameCount DEF Contract!HasRoom

\* c goes to the queue, or to one of the requests.
LEMMA EnqueueFrees ==
  ASSUME HomeInv, NEW c \in Conns, c \notin FreeConns, NEW h, Enqueue(c, h)
  PROVE  FreeConns' = FreeConns \union {c} /\ ~closed /\ conn' = h
<1> DEFINE e == [c |-> c, at |-> now]
<1>1. e \in Item /\ e.c = c /\ e.c \notin ConnsOf(freeItem) /\ freeItem' = Append(freeItem, e)
  BY FreeIs DEF HomeInv, Shape, Item, Enqueue
<1> HIDE DEF e
<1>2. ConnsOf(Append(freeItem, e)) = ConnsOf(freeItem) \union {e.c}
  BY <1>1, HomeTypes, QueueAppend
<1> QED BY <1>1, <1>2, FreeIs DEF Enqueue, Refuses

\* A Get takes the first idle item, or none.
LEMMA LoopSeen ==
  ASSUME HomeInv, Within, Shown, Shown', NEW p \in Clients, NEW a, NEW t, GetLoop(p, a, t),
         conn[p] = NoConn, pc[p] \notin Met
  PROVE  Sees
<1>1. UNCHANGED <<open, closed>>
  BY DEF GetLoop
<1>2. CASE /\ freeItem # <<>> /\ freeItem' = Tail(freeItem) /\ conn' = [conn EXCEPT ![p] = Head(freeItem).c]
           /\ pc' = [pc EXCEPT ![p] = "got"]
  <2> DEFINE c == Head(freeItem).c
  <2>1. FreeConns' = FreeConns \ {c} /\ c \in FreeConns
    BY <1>2, HomeTypes, QueueTail, FreeIs
  <2>2. conn' = [conn EXCEPT ![p] = c] /\ Has[p] = NoConn
    BY <1>2, HasTypes
  <2> HIDE DEF c
  <2>3. Has' = [Has EXCEPT ![p] = c]
    BY <1>2, <2>2, HasMoves DEF Met
  <2>4. c \in Conns /\ c \in open /\ open' = open \union {c} /\ \A q \in Clients : Has[q] # c
    BY <1>1, <2>1 DEF Shown, Apart
  <2>5. ~closed
    BY <1>2 DEF Within
  <2> QED BY <1>1, <2>1, <2>2, <2>3, <2>4, <2>5, GivenSeen
<1>3. CASE UNCHANGED <<freeItem, conn>> /\ \E w \in {"dialing", "out", "waiting"} : pc' = [pc EXCEPT ![p] = w]
  <2>1. Has' = Has
    BY <1>3, HasStays DEF Met
  <2> QED BY <1>1, <1>3, <2>1, FreeSame, Unseen
<1> QED BY <1>2, <1>3 DEF GetLoop

LEMMA ClientSeen ==
  ASSUME HomeInv, BalanceInv, Within, Shown, Shown', NEW p \in Clients,
         GetStart(p) \/ GetStep(p) \/ CtxDone(p) \/ Put(p)
  PROVE  Sees
<1>1. /\ Placed(p) /\ conn \in [Clients -> Conns \union {NoConn}]
      /\ pc \in [Clients -> PCs]
      /\ Has[p] = (IF pc[p] \in Met THEN NoConn ELSE conn[p])
      /\ \A c \in FreeConns : c \in open /\ c \in Conns /\ \A q \in Clients : Has[q] # c
  BY HomeTypes, HasTypes DEF HomeInv, Shape, Shown, Apart
<1>2. CASE GetStart(p) \/ RetryAfterStale(p)
  <2>1. conn[p] = NoConn /\ pc[p] \notin Met
    BY <1>1, <1>2 DEF GetStart, RetryAfterStale, Placed, Met
  <2> QED BY <1>2, <2>1, LoopSeen DEF GetStart, RetryAfterStale
<1>3. CASE CheckExpired(p) \/ Receive(p)
  <2>1. /\ UNCHANGED <<freeItem, conn, open, closed>> /\ conn[p] \in Conns /\ pc[p] \notin Met
        /\ \E w \in Met \union {"holding"} : pc' = [pc EXCEPT ![p] = w]
    BY <1>1, <1>3 DEF CheckExpired, Receive, books, Placed, Met
  <2>2. PICK w \in Met \union {"holding"} : pc' = [pc EXCEPT ![p] = w]
    BY <2>1
  <2>3. CASE w \in Met
    <3>1. conn' = [conn EXCEPT ![p] = conn[p]]
      BY <1>1, <2>1
    <3>2. Has' = [Has EXCEPT ![p] = NoConn] /\ Has[p] \in Conns
      BY <1>1, <2>1, <2>2, <2>3, <3>1, HasMoves
    <3> QED BY <2>1, <3>2, FreeSame, GivenUpSeen
  <2>4. CASE w \notin Met
    <3>1. Has' = Has
      BY <2>1, <2>2, <2>4, HasStays
    <3> QED BY <2>1, <3>1, FreeSame, Unseen
  <2> QED BY <2>3, <2>4
<1>4. CASE ReceiveClosed(p) \/ TimeoutFires(p) \/ DialFail(p) \/ DialAfterStale(p)
  <2>1. /\ UNCHANGED <<freeItem, conn, open, closed>> /\ pc[p] \notin Met
        /\ \E w \in PCs \ Met : pc' = [pc EXCEPT ![p] = w]
    BY <1>4 DEF ReceiveClosed, TimeoutFires, DialFail, DialAfterStale, books, Met, PCs, InGet
  <2>2. Has' = Has
    BY <2>1, HasStays
  <2> QED BY <2>1, <2>2, FreeSame, Unseen
<1>5. CASE CtxDone(p)
  <2>1. UNCHANGED <<freeItem, pc, conn, open, closed>>
    BY <1>5 DEF CtxDone, books
  <2> QED BY <2>1, HasSame, FreeSame, Unseen
<1>6. CASE CloseStale(p)
  <2>1. /\ pc[p] \in Met /\ open' = open \ {conn[p]} /\ UNCHANGED <<freeItem, closed>>
        /\ conn' = [conn EXCEPT ![p] = NoConn] /\ \E w \in {"relock", "redial"} : pc' = [pc EXCEPT ![p] = w]
    BY <1>6 DEF CloseStale, books, Met
  <2>2. conn[p] \in Conns /\ Has[p] = NoConn
    BY <1>1, <2>1 DEF Placed, Met
  <2>3. Has' = Has
    <3>1. Has' = [Has EXCEPT ![p] = NoConn]
      BY <2>1, HasMoves DEF Met
    <3> QED BY <2>2, <3>1, HasTypes
  <2>4. conn[p] \in open /\ conn[p] \notin FreeConns /\ \A q \in Clients : Has[q] # conn[p]
    <3>1. conn[p] \in open /\ conn[p] \notin FreeConns /\ \A q \in Clients : conn[q] = conn[p] => q = p
      BY <2>2, HomeTypes, FreeIs DEF Own
    <3> QED BY <2>2, <3>1, HasTypes, ConnsAssumption
  <2> QED BY <2>1, <2>3, <2>4, FreeSame, DisposeSeen
<1>7. CASE CancelRequest(p)
  <2>1. /\ UNCHANGED <<freeItem, open, closed>> /\ conn' = [conn EXCEPT ![p] = NoConn]
        /\ pc' = [pc EXCEPT ![p] = "out"] /\ pc[p] \notin Met
    BY <1>7 DEF CancelRequest, Met
  <2>2. Has' = [Has EXCEPT ![p] = NoConn]
    BY <2>1, HasMoves
  <2>3. CASE conn[p] = NoConn
    <3>1. Has' = Has
      BY <1>1, <2>2, <2>3, HasTypes
    <3> QED BY <2>1, <3>1, FreeSame, Unseen
  <2>4. CASE conn[p] \in Conns
    <3>1. Has[p] \in Conns
      BY <1>1, <2>1, <2>4
    <3> QED BY <2>1, <2>2, <3>1, FreeSame, GivenUpSeen
  <2> QED BY <1>1, <2>3, <2>4
<1>8. CASE DialOk(p)
  <2>1. PICK c \in Conns \ open : open' = open \union {c} /\ conn' = [conn EXCEPT ![p] = c]
    BY <1>8 DEF DialOk
  <2>2. pc[p] = "dialing" /\ Has[p] = NoConn /\ UNCHANGED <<freeItem, closed>> /\ pc' = [pc EXCEPT ![p] = "holding"]
    BY <1>1, <1>8 DEF DialOk, Placed, books
  <2>3. \A q \in Clients : Has[q] # c
    BY <2>1 DEF Shown, Apart
  <2>4. FreeConns' = FreeConns \ {c}
    BY <1>1, <2>1, <2>2, FreeSame
  <2>5. Contract!HasRoom
    BY <2>2, DialHasRoom
  <2>6. Has' = [Has EXCEPT ![p] = c]
    BY <2>1, <2>2, HasMoves DEF Met
  <2> QED BY <2>1, <2>2, <2>3, <2>4, <2>5, <2>6, GivenSeen
<1>9. CASE PutKept(p)
  <2> DEFINE h == [conn EXCEPT ![p] = NoConn]
  <2>1. /\ pc[p] = "holding" /\ conn[p] \in Conns /\ UNCHANGED <<open, closed>> /\ Has[p] = conn[p]
        /\ conn[p] \notin FreeConns /\ pc' = [pc EXCEPT ![p] = "out"]
    BY <1>1, <1>9 DEF PutKept, Placed, Met
  <2>2. CASE Enqueue(conn[p], h)
    <3>1. FreeConns' = FreeConns \union {conn[p]} /\ ~closed /\ conn' = h
      <4> HIDE DEF h
      <4> QED BY <2>1, <2>2, EnqueueFrees
    <3>2. Has' = [Has EXCEPT ![p] = NoConn]
      BY <2>1, <3>1, HasMoves
    <3> QED BY <2>1, <3>1, <3>2, GivenUpSeen
  <2>3. ASSUME NEW q \in Clients, Deliver(conn[p], q, h) PROVE Sees
    <3>1. /\ conn[q] = NoConn /\ ~closed /\ freeItem' = freeItem /\ conn' = [h EXCEPT ![q] = conn[p]]
          /\ pc[q] \in Queued /\ p # q
      BY <2>1, <2>3, ConnsAssumption DEF Deliver, Refuses, HomeInv, Placed
    <3>2. /\ conn'[p] = NoConn /\ conn'[q] = conn[p] /\ \A r \in Clients \ {p, q} : conn'[r] = conn[r]
          /\ pc'[p] = "out" /\ \A r \in Clients \ {p} : pc'[r] = pc[r]
      BY <1>1, <2>1, <3>1
    <3>3. Has' = Handed(Has, p, q)
      <4>1. Has' = [r \in Clients |-> IF pc'[r] \in Met THEN NoConn ELSE conn'[r]]
        BY DEF Has
      <4>2. \A r \in Clients : Has'[r] = IF r = p THEN NoConn ELSE IF r = q THEN Has[p] ELSE Has[r]
        BY <2>1, <3>1, <3>2, <4>1, HasTypes DEF Met, Queued
      <4>3. Handed(Has, p, q) = [r \in Clients |-> IF r = p THEN NoConn ELSE IF r = q THEN Has[p] ELSE Has[r]]
        BY <3>1, HasTypes DEF Handed
      <4> QED BY <4>1, <4>2, <4>3
    <3>4. Has[q] = NoConn /\ Has[p] \in Conns
      BY <2>1, <3>1, HasTypes DEF Queued, Met
    <3> QED BY <2>1, <3>1, <3>3, <3>4, FreeSame, HandedSeen
  <2> QED BY <1>9, <2>2, <2>3 DEF PutKept
<1>10. CASE PutClosed(p)
  <2>1. /\ conn[p] \in Conns /\ conn' = [conn EXCEPT ![p] = NoConn] /\ open' = open \ {conn[p]}
        /\ UNCHANGED <<freeItem, closed>> /\ pc' = [pc EXCEPT ![p] = "out"] /\ Has[p] = conn[p]
    BY <1>1, <1>10 DEF PutClosed, Placed, Met
  <2>2. Has' = [Has EXCEPT ![p] = NoConn]
    BY <2>1, HasMoves
  <2> QED BY <2>1, <2>2, FreeSame, GivenUpSeen
<1> QED BY <1>2, <1>3, <1>4, <1>5, <1>6, <1>7, <1>8, <1>9, <1>10 DEF GetStep, Put

LEMMA PoolSeen ==
  ASSUME HomeInv, BalanceInv, Within, Shown, Shown',
         Opener \/ Cleaner \/ Close \/ (\E k \in Configs : Reload(k)) \/ Tick \/ UNCHANGED vars
  PROVE  Sees
<1>1. CASE OpenerTake \/ OpenerExit \/ OpenFails \/ (\E k \in Configs : Reload(k)) \/ Tick \/ UNCHANGED vars
  <2>1. UNCHANGED <<freeItem, pc, conn, open, closed>>
    BY <1>1 DEF OpenerTake, OpenerExit, OpenFails, Reload, Tick, vars, books, calls
  <2> QED BY <2>1, HasSame, FreeSame, Unseen
<1>2. CASE OpenKept
  <2>1. PICK c \in Conns \ open :
          /\ open' = open \union {c}
          /\ Enqueue(c, conn) \/ \E q \in Clients : Deliver(c, q, conn)
    BY <1>2 DEF OpenKept
  <2>2. UNCHANGED <<closed, pc>> /\ opener = "dialing" /\ c \notin FreeConns /\ \A q \in Clients : Has[q] # c
    BY <1>2, <2>1 DEF OpenKept, Shown, Apart
  <2>3. Contract!HasRoom
    BY <2>2, DialHasRoom
  <2>4. CASE Enqueue(c, conn)
    <3>1. FreeConns' = FreeConns \union {c} /\ ~closed /\ conn' = conn
      BY <2>1, <2>2, <2>4, EnqueueFrees
    <3> QED BY <2>1, <2>2, <2>3, <3>1, HasSame, StockSeen
  <2>5. ASSUME NEW q \in Clients, Deliver(c, q, conn) PROVE Sees
    <3>1. conn[q] = NoConn /\ freeItem' = freeItem /\ conn' = [conn EXCEPT ![q] = c] /\ ~closed
      BY <2>5 DEF Deliver, Refuses, HomeInv, Placed
    <3>2. FreeConns' = FreeConns \ {c}
      BY <2>2, <3>1, FreeSame
    <3>3. pc' = [pc EXCEPT ![q] = pc[q]] /\ pc[q] \notin Met
      BY <2>2, <2>5, <3>1 DEF HomeInv, Shape, Deliver, Placed, Queued, Met
    <3>4. Has' = [Has EXCEPT ![q] = c] /\ Has[q] = NoConn
      BY <3>1, <3>3, HasMoves, HasTypes
    <3> QED BY <2>1, <2>2, <2>3, <3>2, <3>4, GivenSeen
  <2> QED BY <2>1, <2>4, <2>5
<1>3. CASE CleanerWake
  <2>1. UNCHANGED <<pc, conn, open, closed>>
    BY <1>3 DEF CleanerWake, calls
  <2>2. CASE freeItem' = freeItem
    BY <2>1, <2>2, HasSame, FreeSame, Unseen
  <2>3. CASE freeItem' = Swept
    <3>1. Stale \in SUBSET FreeConns /\ FreeConns' = FreeConns \ Stale
      BY <2>3, HomeTypes, SweepKeeps, FreeIs
    <3>2. CASE Stale = {}
      BY <2>1, <3>1, <3>2, HasSame, Unseen
    <3>3. CASE Stale # {}
      BY <2>1, <3>1, <3>3, HasSame, RetireSeen
    <3> QED BY <3>2, <3>3
  <2> QED BY <1>3, <2>2, <2>3 DEF CleanerWake
<1>4. CASE CleanerClose
  <2>1. PICK c \in doomed : open' = open \ {c}
    BY <1>4 DEF CleanerClose
  <2>2. UNCHANGED <<freeItem, pc, conn, closed>>
    BY <1>4 DEF CleanerClose, books, calls
  <2>3. c \in open /\ c \notin FreeConns /\ \A q \in Clients : Has[q] # c
    BY HomeTypes, HasTypes, FreeIs DEF Own
  <2> QED BY <2>1, <2>2, <2>3, HasSame, FreeSame, DisposeSeen
<1>5. CASE Close
  <2>1. closed' /\ open' = open \ FreeConns /\ UNCHANGED <<pc, conn>> /\ freeItem' = <<>>
    BY <1>5 DEF Close, FreeConns
  <2>2. FreeConns' = {}
    BY <2>1, FreeIs, QueueEmpty
  <2> QED BY <2>1, <2>2, HasSame, ShutSeen
<1> QED BY <1>1, <1>2, <1>3, <1>4, <1>5 DEF Opener, Cleaner

LEMMA NextSeen ==
  HomeInv /\ BalanceInv /\ Within /\ Shown /\ Shown' /\ [Next]_vars => [Contract!Next]_Contract!vars
<1> SUFFICES ASSUME HomeInv, BalanceInv, Within, Shown, Shown', [Next]_vars
             PROVE  [Contract!Next]_Contract!vars
  OBVIOUS
<1>1. Sees
  BY ClientSeen, PoolSeen DEF Next
<1>2. Ceiling' = Ceiling
  <2>1. conf' = conf
    BY SameConf DEF vars
  <2> QED BY <2>1 DEF Ceiling
<1> QED BY <1>1, <1>2 DEF Sees, Contract!Next, Contract!vars

LEMMA InitSeen == Init => Contract!Init
<1> SUFFICES ASSUME Init PROVE Contract!Init
  OBVIOUS
<1>1. Shown
  BY InitHome, ShownNow
<1>2. open = {} /\ closed = FALSE /\ \A p \in Clients : Has[p] = NoConn
  BY InitHome, HasTypes DEF Init
<1>3. \A c \in Conns : Phase[c] = "none" /\ Holder[c] = NoConn
  <2> TAKE c \in Conns
  <2>1. Holder[c] \in Clients \union {NoConn} /\ \A p \in Clients : Holder[c] # p
    BY <1>1, <1>2, ConnsAssumption DEF Shown, Shows
  <2> QED BY <1>1, <1>2, <2>1 DEF Shown, Shows
<1>4. Phase = [c \in Conns |-> "none"] /\ Holder = [c \in Conns |-> NoConn]
  BY <1>3 DEF Phase, Holder
<1>5. Ceiling \in Nat
  BY InitHome, ConfTypes
<1> QED BY <1>2, <1>4, <1>5 DEF Contract!Init

LEMMA SliceKeepsWithin == Spec => [](SliceInv /\ Within)
<1>1. Init => SliceInv /\ Within
  BY InitHome, InitBalance, InitBound, InitWithin DEF SliceInv
<1>2. SliceInv /\ Within /\ [Next]_vars => SliceInv' /\ Within'
  BY NextHome, NextBalance, NextBound, NextWithin DEF SliceInv
<1> QED BY <1>1, <1>2, PTL DEF Spec

\* Slice keeps the contract of a pool, whatever its configuration: a
\* connection is idle, lent to one caller or on its way out (an expired one, one
\* that is refused, one lost to a timeout), of the first two kinds there are never
\* more than Ceiling, and a closed pool has and lends no idle ones.
THEOREM SliceKeepsContract == Spec => ImplementsContract
<1>1. SliceInv /\ Within /\ (SliceInv /\ Within)' /\ [Next]_vars => [Contract!Next]_Contract!vars
  <2>1. SliceInv => HomeInv /\ BalanceInv
    BY DEF SliceInv
  <2>2. (SliceInv /\ Within)' => HomeInv'
    BY <2>1, PTL
  <2> QED BY <2>1, <2>2, ShownNow, ShownThen, NextSeen
<1> QED BY <1>1, SliceKeepsWithin, InitSeen, PTL DEF Spec, ImplementsContract, Contract!Spec

-----------------------------------------------------------------------------
(* What comments say and the code does not keep, as far as it keeps it. *)

\* WithinActive fails by one item at most, and only when items expire: a Get
\* that dials for an expired item of its channel does so at a moment when the
\* others are within the limit, and nobody dials above it before active is
\* back (slice.go:112, 164-171, 268-282).
THEOREM OneOverAtMost ==
  Spec => [](WithinActive \/ (conf.IdleTimeout > 0 /\ active = conf.Active + 1))
<1>1. SliceInv /\ Within => WithinActive \/ (conf.IdleTimeout > 0 /\ active = conf.Active + 1)
  <2> SUFFICES ASSUME SliceInv, Within, ~WithinActive PROVE conf.IdleTimeout > 0 /\ active = conf.Active + 1
    OBVIOUS
  <2>1. conf.Active \in Nat /\ conf.IdleTimeout \in Nat /\ active \in Nat
    BY ConfTypes DEF SliceInv, BalanceInv
  <2>2. active <= Ceiling /\ active > conf.Active
    BY <2>1 DEF Within, WithinActive
  <2> QED BY <2>1, <2>2 DEF Ceiling
<1> QED BY <1>1, SliceKeepsWithin, PTL

\* While no context ends nobody is cancelled.
Undisturbed ==
  conf.WaitTimeout = 0 /\ Bounded = {} =>
    late = {} /\ lost = {} /\ \A p \in Clients : pc[p] # "cancelling"

LEMMA NextUndisturbed == SliceInv /\ Undisturbed /\ [Next]_vars => Undisturbed'
<1> SUFFICES ASSUME SliceInv, Undisturbed, Next, conf.WaitTimeout = 0, Bounded = {}
             PROVE  late' = {} /\ lost' = {} /\ \A p \in Clients : pc'[p] # "cancelling"
  <2>1. UNCHANGED vars \/ Next => conf' = conf
    BY SameConf DEF vars
  <2>2. UNCHANGED vars /\ Undisturbed => Undisturbed'
    BY DEF vars, calls, Undisturbed
  <2> QED BY <2>1, <2>2 DEF Undisturbed
<1>1. late = {} /\ lost = {} /\ pc \in [Clients -> PCs] /\ \A p \in Clients : pc[p] # "cancelling"
  BY DEF Undisturbed, SliceInv, HomeInv, Shape
<1>2. ASSUME NEW p \in Clients, GetStart(p) \/ GetStep(p) \/ CtxDone(p) \/ Put(p)
      PROVE  late' = {} /\ lost' = {} /\ \E w \in PCs \ {"cancelling"} : pc' = [pc EXCEPT ![p] = w]
  <2>1. CASE GetStart(p) \/ RetryAfterStale(p)
    BY <1>1, <2>1 DEF GetStart, RetryAfterStale, GetLoop, PCs, InGet
  <2>2. CASE TimeoutFires(p) \/ CancelRequest(p) \/ CtxDone(p)
    BY <1>1, <2>2 DEF TimeoutFires, CancelRequest, CtxDone, DoneReady
  <2>3. CASE \/ CheckExpired(p) \/ Receive(p) \/ ReceiveClosed(p) \/ CloseStale(p) \/ DialAfterStale(p)
             \/ DialOk(p) \/ DialFail(p) \/ PutKept(p) \/ PutClosed(p)
    BY <1>1, <2>3 DEF CheckExpired, Receive, ReceiveClosed, CloseStale, DialAfterStale, DialOk, DialFail,
                      PutKept, PutClosed, PCs, InGet
  <2> QED BY <1>2, <2>1, <2>2, <2>3 DEF GetStep, Put
<1>3. ASSUME Opener \/ Cleaner \/ Close \/ (\E k \in Configs : Reload(k)) \/ Tick
      PROVE  UNCHANGED <<late, lost, pc>>
  BY <1>3 DEF Opener, OpenerTake, OpenerExit, OpenKept, OpenFails, Cleaner, CleanerWake, CleanerClose,
              Close, Reload, Tick, calls
<1> QED BY <1>1, <1>2, <1>3 DEF Next

\* NoItemLost holds while no context can end, neither one of WaitTimeout nor
\* the caller's own: it is only CancelRequest that forgets an item
\* (slice.go:141-151).
THEOREM OnlyTimeoutsLose == Spec => [](NoItemLost \/ conf.WaitTimeout > 0 \/ Bounded # {})
<1>1. Init => Undisturbed
  BY DEF Init, Undisturbed
<1>2. SliceInv /\ Undisturbed => NoItemLost \/ conf.WaitTimeout > 0 \/ Bounded # {}
  <2>1. SliceInv => conf.WaitTimeout \in Nat
    BY ConfigAssumption DEF SliceInv, HomeInv, Shape, Config
  <2> QED BY <2>1 DEF Undisturbed, NoItemLost
<1> QED BY <1>1, <1>2, NextUndisturbed, SliceInvHolds, PTL DEF Spec

\* Once the pool is closed nothing is left in it: the connections open are
\* those its callers have, those the cleaner is about to close, and the ones
\* that a timeout has lost, which nobody will ever close (slice.go:143-149,
\* 178-191, 385-394, 424-445).
THEOREM ClosedKeepsNothing ==
  Spec => [](closed => open = {conn[p] : p \in WithConn} \union doomed \union lost)
<1>1. ASSUME Within, OneHome, closed
      PROVE  open = {conn[p] : p \in WithConn} \union doomed \union lost
  <2>1. FreeConns = {}
    BY <1>1 DEF Within, FreeConns
  <2> QED BY <1>1, <2>1 DEF OneHome
<1> QED BY <1>1, SliceKeepsWithin, EachInOneHome, PTL

\* What a waiting request can be served from: an item with a client, or one
\* that is being opened or asked for.
Sources == WithConn \union Between # {} \/ tokens > 0 \/ opener = "dialing"

\* A request of an open pool is never left with nobody who could serve it: some
\* client has an item that it may put back, or somebody opens one. The one way
\* to this state is to lose an item to a timeout (slice.go:112-190, 250-288).
THEOREM WaitersHaveASource == Spec => [](~closed /\ requests # {} /\ lost = {} => Sources)
<1>1. SliceInv /\ ~closed /\ requests # {} /\ lost = {} => Sources
  <2> SUFFICES ASSUME SliceInv, ~closed, requests # {}, lost = {}, ~Sources PROVE FALSE
    OBVIOUS
  <2>1. active = Tally /\ freeItem = <<>> /\ active >= conf.Active /\ conf.Active > 0
    <3>1. active = Tally
      BY DEF SliceInv, BalanceInv, Balanced
    <3> QED BY <3>1 DEF SliceInv, BoundInv, NoneWaitsByIdle, WaitersMeanFull
  <2>2. tokens \in Nat /\ conf.Active \in Nat
    BY ConfTypes DEF SliceInv, BalanceInv
  <2>3. Idle = 0 /\ InHands = 0 /\ Midway = 0 /\ tokens = 0 /\ Opening = 0 /\ Forgotten = 0
    <3>1. WithConn = {} /\ Between = {} /\ ~(tokens > 0) /\ opener # "dialing"
      BY DEF Sources
    <3>2. HandOf(conn) = {} /\ PassOf(pc) = {}
      BY <3>1 DEF HandOf, WithConn, PassOf, Between
    <3>3. Cardinality({}) = 0
      BY FS_EmptySet
    <3>4. InHands = 0 /\ Midway = 0 /\ Forgotten = 0
      BY <3>2, <3>3 DEF InHands, With, Midway, Passing, Forgotten
    <3>5. Idle = 0 /\ tokens = 0 /\ Opening = 0
      BY <2>1, <2>2, <3>1, QueueEmpty DEF Idle, Opening
    <3> QED BY <3>4, <3>5
  <2>4. Tally = 0
    BY <2>3 DEF Tally
  <2> QED BY <2>1, <2>2, <2>4
<1> QED BY <1>1, SliceInvHolds, PTL

-----------------------------------------------------------------------------
(* The promises of the contract, for this pool: the steps of the contract as  *)
(* Contract and as Promises have them are the same.                           *)

Promises == INSTANCE PoolContractProofs WITH
  NoClient <- NoConn,
  limit <- Ceiling,
  phase <- Phase,
  holder <- Holder

LEMMA SameCards == ASSUME NEW S PROVE Promises!Cardinality(S) = Contract!Cardinality(S)
BY DEF Promises!Cardinality, Contract!Cardinality

LEMMA SameSteps == Contract!Step => Promises!Step
<1>1. \A c \in Conns, p \in Clients : Contract!Dial(c, p) => Promises!Dial(c, p)
  BY SameCards DEF Contract!Dial, Promises!Dial, Contract!HasRoom, Promises!HasRoom, Contract!EmptyHanded,
      Promises!EmptyHanded, Contract!Usable, Promises!Usable, Contract!In, Promises!In
<1>2. \A c \in Conns, p \in Clients : Contract!Lend(c, p) => Promises!Lend(c, p)
  BY DEF Contract!Lend, Promises!Lend, Contract!EmptyHanded, Promises!EmptyHanded
<1>3. \A c \in Conns, p \in Clients : Contract!Handoff(c, p) => Promises!Handoff(c, p)
  BY DEF Contract!Handoff, Promises!Handoff, Contract!EmptyHanded, Promises!EmptyHanded
<1>4. \A c \in Conns : Contract!Stock(c) => Promises!Stock(c)
  BY SameCards DEF Contract!Stock, Promises!Stock, Contract!HasRoom, Promises!HasRoom, Contract!Usable,
      Promises!Usable, Contract!In, Promises!In
<1>5. \A c \in Conns : Contract!Dispose(c) => Promises!Dispose(c)
  BY DEF Contract!Dispose, Promises!Dispose
<1>6. \A c \in Conns, D \in SUBSET Conns : Contract!Return(c, D) => Promises!Return(c, D)
  BY SameCards DEF Contract!Return, Promises!Return, Contract!Retired, Promises!Retired, Contract!Unheld,
      Promises!Unheld, Contract!In, Promises!In
<1>7. \A D \in SUBSET Conns, how \in Contract!Ways : Contract!Retire(D, how) => Promises!Retire(D, how)
  BY DEF Contract!Retire, Promises!Retire, Contract!Retired, Promises!Retired, Contract!Unheld,
      Promises!Unheld, Contract!Usable, Promises!Usable, Contract!In, Promises!In
<1>8. \A how \in Contract!Ways : Contract!Shut(how) => Promises!Shut(how)
  BY DEF Contract!Shut, Promises!Shut, Contract!Retired, Promises!Retired, Contract!In, Promises!In
<1>9. Contract!Ways = Promises!Ways
  BY DEF Contract!Ways, Promises!Ways
<1> QED BY <1>1, <1>2, <1>3, <1>4, <1>5, <1>6, <1>7, <1>8, <1>9 DEF Contract!Step, Promises!Step

\* A connection is with one client at a time, those idle or lent are never more
\* than Ceiling, and a closed pool has no idle one: whatever is opened, timed
\* out, expired or reloaded meanwhile (pool.go:28-33, 50-60).
THEOREM SlicePromises == Spec => []Promises!Promise
<1>1. Contract!Init => Promises!Init
  BY DEF Contract!Init, Promises!Init
<1>2. UNCHANGED Contract!vars => UNCHANGED Promises!vars
  BY DEF Contract!vars, Promises!vars
<1>3. Contract!Next => Promises!Next
  BY SameSteps DEF Contract!Next, Promises!Next
<1>4. [Contract!Next]_Contract!vars => [Promises!Next]_Promises!vars
  BY <1>2, <1>3
<1>5. NoConn \notin Clients
  BY ConnsAssumption
<1> QED BY SliceKeepsContract, Promises!ContractPromises, <1>1, <1>4, <1>5, PTL
        DEF ImplementsContract, Contract!Spec, Promises!Spec

=============================================================================
