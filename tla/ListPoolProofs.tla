--------------------------- MODULE ListPoolProofs ---------------------------
(***************************************************************************)
(* Proofs about ListPool, for every set of clients, connections and        *)
(* configurations: its types, the exactness of active, the limit on the    *)
(* connections lent, what a closed pool does, who owns a connection, the   *)
(* order of the idle items, the cleaner's end and the signals; and that    *)
(* List keeps the contract of a pool.                                      *)
(***************************************************************************)
EXTENDS ListPool, FiniteSetTheorems, SequenceTheorems, TLAPS

-----------------------------------------------------------------------------
(* Lemmas about the operators. *)

\* The clients that a vector of program counters charges one unit of active.
ChargedIn(f) == {q \in Clients : f[q] \in Charged}
Used(f) == Cardinality(ChargedIn(f))

\* A signal only moves a client from "waiting" to "woken": it keeps the type
\* of the program counters and charges nobody.
LEMMA SignalKeeps ==
  ASSUME NEW f \in [Clients -> PCs], NEW g \in Signal(f)
  PROVE  /\ g \in [Clients -> PCs]
         /\ \A q \in Clients : g[q] = f[q] \/ (f[q] = "waiting" /\ g[q] = "woken")
         /\ ChargedIn(g) = ChargedIn(f)
<1>1. CASE Waiting(f) = {}
  <2>1. g = f  BY <1>1 DEF Signal
  <2> QED BY <2>1
<1>2. CASE Waiting(f) # {}
  <2>1. PICK p \in Waiting(f) : g = [f EXCEPT ![p] = "woken"]
    BY <1>2 DEF Signal
  <2>2. p \in Clients /\ f[p] = "waiting"
    BY DEF Waiting
  <2>3. g \in [Clients -> PCs]
    BY <2>1, <2>2 DEF PCs, InGet
  <2>4. \A q \in Clients : g[q] = f[q] \/ (f[q] = "waiting" /\ g[q] = "woken")
    BY <2>1, <2>2
  <2> QED BY <2>3, <2>4 DEF ChargedIn, Charged
<1> QED BY <1>1, <1>2

\* The count of charged clients, whatever the program counters, is a natural
\* number.
LEMMA UsedType == ASSUME NEW f PROVE IsFiniteSet(ChargedIn(f)) /\ Used(f) \in Nat
<1>1. IsFiniteSet(ChargedIn(f))
  BY ClientsAssumption, FS_Subset DEF ChargedIn
<1> QED BY <1>1, FS_CardinalityType DEF Used

\* Moving one client changes the count by what its old and its new place
\* are charged.
LEMMA UsedMove ==
  ASSUME NEW f \in [Clients -> PCs], NEW p \in Clients, NEW v \in PCs
  PROVE  /\ (f[p] \in Charged <=> v \in Charged) => Used([f EXCEPT ![p] = v]) = Used(f)
         /\ f[p] \notin Charged /\ v \in Charged => Used([f EXCEPT ![p] = v]) = Used(f) + 1
         /\ f[p] \in Charged /\ v \notin Charged => Used([f EXCEPT ![p] = v]) = Used(f) - 1
<1> DEFINE g == [f EXCEPT ![p] = v]
<1>0. IsFiniteSet(ChargedIn(f)) /\ Used(f) \in Nat
  BY UsedType
<1>1. ASSUME f[p] \in Charged <=> v \in Charged PROVE Used(g) = Used(f)
  <2>1. ChargedIn(g) = ChargedIn(f)
    BY <1>1 DEF ChargedIn
  <2> QED BY <2>1 DEF Used
<1>2. ASSUME f[p] \notin Charged, v \in Charged PROVE Used(g) = Used(f) + 1
  <2>1. ChargedIn(g) = ChargedIn(f) \union {p}
    BY <1>2 DEF ChargedIn
  <2>2. p \notin ChargedIn(f)
    BY <1>2 DEF ChargedIn
  <2> QED BY <1>0, <2>1, <2>2, FS_AddElement DEF Used
<1>3. ASSUME f[p] \in Charged, v \notin Charged PROVE Used(g) = Used(f) - 1
  <2>1. ChargedIn(g) = ChargedIn(f) \ {p}
    BY <1>3 DEF ChargedIn
  <2>2. p \in ChargedIn(f)
    BY <1>3 DEF ChargedIn
  <2> QED BY <1>0, <2>1, <2>2, FS_RemoveElement DEF Used
<1> QED BY <1>1, <1>2, <1>3

\* The sequences of items the actions build.
LEMMA ItemSeqs ==
  ASSUME NEW s \in Seq(Item), NEW e \in Item
  PROVE  /\ <<e>> \o s \in Seq(Item) /\ Len(<<e>> \o s) = Len(s) + 1
         /\ s # <<>> => /\ Head(s) \in Item /\ Tail(s) \in Seq(Item) /\ Len(Tail(s)) = Len(s) - 1
                        /\ Back(s) \in Item
                        /\ ButBack(s) \in Seq(Item) /\ Len(ButBack(s)) = Len(s) - 1
                        /\ Len(s) > 0
<1>1. <<e>> \o s \in Seq(Item) /\ Len(<<e>> \o s) = Len(s) + 1
  OBVIOUS
<1>2. ASSUME s # <<>> PROVE Head(s) \in Item /\ Tail(s) \in Seq(Item) /\ Len(Tail(s)) = Len(s) - 1 /\ Len(s) > 0
  BY <1>2
<1>3. ASSUME s # <<>> PROVE Back(s) \in Item
  <2>1. Len(s) \in 1..Len(s)
    BY <1>2, <1>3
  <2> QED BY <2>1, ElementOfSeq DEF Back
<1>4. ASSUME s # <<>> PROVE ButBack(s) \in Seq(Item) /\ Len(ButBack(s)) = Len(s) - 1
  <2>1. Len(s) \in Nat /\ Len(s) > 0
    BY <1>2, <1>4
  <2>2. \A i \in 1..Len(s) - 1 : s[i] \in Item
    BY <2>1, ElementOfSeq
  <2> DEFINE n == Len(s) - 1
  <2>3. n \in Nat /\ \A i \in 1..n : s[i] \in Item
    BY <2>1, <2>2
  <2> HIDE DEF n
  <2>4. /\ SubSeq(s, 1, n) \in Seq(Item)
        /\ Len(SubSeq(s, 1, n)) = IF 1 <= n THEN n - 1 + 1 ELSE 0
    BY <2>3, SubSeqProperties
  <2>5. (IF 1 <= n THEN n - 1 + 1 ELSE 0) = n
    BY <2>3
  <2> QED BY <2>4, <2>5 DEF ButBack, n
<1> QED BY <1>1, <1>2, <1>3, <1>4
-----------------------------------------------------------------------------
(* The inductive invariant: the types, the exact count, and a limit on the  *)
(* count. TypeOK is not inductive alone: that active stays natural is known *)
(* only because it counts something, and that Put is given a connection only *)
(* because of where its caller is.                                           *)

LimitInv == \E k \in Configs : k.Active = 0 \/ active <= k.Active

Hands(f, h) == \A q \in Clients : h[q] \in Conns <=> f[q] \in InHand

IndInv == TypeOK /\ ActiveExact /\ LimitInv /\ Hands(pc, conn)

LEMMA ExactIsUsed == ActiveExact <=> active = Len(idles) + Used(pc)
BY DEF ActiveExact, Used, ChargedIn, In

\* One pass of Get's loop, entered by a client that is charged nothing (its
\* slot, if it had one, released in a): the count is exact again, whichever
\* way the pass ends, and grew only below the limit in force.
LEMMA GetLoopKeeps ==
  ASSUME TypeOK, NEW p \in Clients, NEW n \in Nat, NEW f \in [Clients -> PCs], NEW a,
         a = Len(idles) + Used([f EXCEPT ![p] = "out"]),
         \A q \in Clients \ {p} : conn[q] \in Conns <=> f[q] \in InHand,
         GetLoop(p, n, a, f)
  PROVE  /\ Hands(pc', conn')
         /\ idles' \in Seq(Item) /\ pc' \in [Clients -> PCs]
         /\ conn' \in [Clients -> Conns \union {NoConn}]
         /\ stamp' \in [Clients -> 0..MaxNow] /\ left' \in [Clients -> Nat]
         /\ timed' \subseteq Clients
         /\ active' = Len(idles') + Used(pc')
         /\ active' <= a \/ conf.Active = 0 \/ active' <= conf.Active
<1> DEFINE f0 == [f EXCEPT ![p] = "out"]
<1>1. f0 \in [Clients -> PCs] /\ f0[p] \notin Charged
  BY DEF PCs, Charged
<1>2. \A v : [f EXCEPT ![p] = v] = [f0 EXCEPT ![p] = v]
  OBVIOUS
<1>3. Len(idles) \in Nat /\ Used(f0) \in Nat /\ a = Len(idles) + Used(f0)
  BY UsedType DEF TypeOK
<1>4. \A v \in PCs : /\ v \in Charged => Used([f EXCEPT ![p] = v]) = Used(f0) + 1
                     /\ v \notin Charged => Used([f EXCEPT ![p] = v]) = Used(f0)
  <2> TAKE v \in PCs
  <2>1. Used([f0 EXCEPT ![p] = v]) = IF v \in Charged THEN Used(f0) + 1 ELSE Used(f0)
    <3> HIDE DEF f0
    <3> QED BY <1>1, UsedMove
  <2> QED BY <1>2, <2>1
<1>5. conf.Active \in Nat
  BY ConfigAssumption DEF TypeOK, Config
<1> HIDE DEF f0
<1>6. CASE PopIdle(p, n, a, f)
  <2>1. /\ idles # <<>> /\ idles' = Tail(idles) /\ active' = a /\ n - 1 \in Nat
        /\ pc' = [f EXCEPT ![p] = "got"] /\ "got" \in PCs \intersect Charged
    BY <1>6 DEF PopIdle, PCs, InGet, Charged
  <2>2. /\ Tail(idles) \in Seq(Item) /\ Len(Tail(idles)) = Len(idles) - 1
        /\ Head(idles) \in Item
    BY <2>1, HeadTailProperties DEF TypeOK
  <2>3. Head(idles).c \in Conns /\ Head(idles).at \in 0..MaxNow
    BY <2>2 DEF Item
  <2>4. active' = Len(idles') + Used(pc')
    <3>1. Used([f EXCEPT ![p] = "got"]) = Used(f0) + 1
      BY <1>4, <2>1
    <3>2. Used(pc') = Used(f0) + 1
      BY <2>1, <3>1
    <3> QED BY <1>3, <2>1, <2>2, <3>2
  <2>5. active' <= a
    BY <1>3, <2>1
  <2>6. Hands(pc', conn')
    <3>1. conn' = [conn EXCEPT ![p] = Head(idles).c] /\ "got" \in InHand
      BY <1>6 DEF PopIdle, InHand
    <3>2. \A q \in Clients : conn'[q] \in Conns <=> pc'[q] \in InHand
      BY <2>1, <2>3, <3>1 DEF TypeOK
    <3> QED BY <3>2 DEF Hands
  <2>7. /\ conn' \in [Clients -> Conns \union {NoConn}] /\ stamp' \in [Clients -> 0..MaxNow]
        /\ left' \in [Clients -> Nat] /\ timed' \subseteq Clients
    BY <1>6, <2>1, <2>3 DEF PopIdle, TypeOK
  <2>8. pc' \in [Clients -> PCs]
    BY <2>1
  <2> QED BY <2>1, <2>2, <2>4, <2>5, <2>6, <2>7, <2>8
<1>7. CASE NoIdle(p, a, f)
  <2>1. /\ idles' = idles /\ stamp' = stamp
        /\ conn' \in [Clients -> Conns \union {NoConn}]
        /\ left' \in [Clients -> Nat] /\ timed' \subseteq Clients
    BY <1>7 DEF NoIdle, TypeOK
  <2>4. \E v \in {"dialing", "parking", "out"} : pc' = [f EXCEPT ![p] = v]
    BY <1>7 DEF NoIdle
  <2>5. Hands(pc', conn')
    <3>1. conn' = [conn EXCEPT ![p] = NoConn]
      BY <1>7 DEF NoIdle
    <3>2. \A q \in Clients : conn'[q] \in Conns <=> pc'[q] \in InHand
      BY <2>4, <3>1, ConnsAssumption DEF TypeOK, InHand
    <3> QED BY <3>2 DEF Hands
  <2>2. CASE MayDial(a) /\ active' = a + 1 /\ pc' = [f EXCEPT ![p] = "dialing"]
    <3>1. "dialing" \in PCs \intersect Charged
      BY DEF PCs, InGet, Charged
    <3>2. Used([f EXCEPT ![p] = "dialing"]) = Used(f0) + 1
      BY <1>4, <3>1
    <3>3. active' = Len(idles') + Used(pc')
      BY <1>3, <2>1, <2>2, <3>2
    <3>4. conf.Active = 0 \/ active' <= conf.Active
      BY <1>3, <1>5, <2>2 DEF MayDial
    <3> QED BY <2>1, <2>2, <2>5, <3>1, <3>3, <3>4 DEF TypeOK
  <2>3. CASE active' = a /\ \E v \in {"parking", "out"} : pc' = [f EXCEPT ![p] = v]
    <3>1. PICK v \in {"parking", "out"} : pc' = [f EXCEPT ![p] = v]
      BY <2>3
    <3>2. v \in PCs /\ v \notin Charged
      BY DEF PCs, InGet, Charged
    <3>3. active' = Len(idles') + Used(pc')
      BY <1>3, <1>4, <2>1, <2>3, <3>1, <3>2
    <3>4. active' <= a
      BY <1>3, <2>3
    <3> QED BY <2>1, <2>5, <3>1, <3>2, <3>3, <3>4 DEF TypeOK
  <2> QED BY <1>7, <2>2, <2>3, <2>5 DEF NoIdle
<1> QED BY <1>6, <1>7 DEF GetLoop

\* What a step that moves one client, after a signal or without one, does to
\* the count.
LEMMA MoveCounts ==
  ASSUME TypeOK, NEW p \in Clients, NEW v \in PCs, NEW f \in Signal(pc) \union {pc}
  PROVE  /\ f \in [Clients -> PCs] /\ [f EXCEPT ![p] = v] \in [Clients -> PCs]
         /\ Used(f) = Used(pc)
         /\ (pc[p] \in Charged <=> v \in Charged) => Used([f EXCEPT ![p] = v]) = Used(pc)
         /\ pc[p] \notin Charged /\ v \in Charged => Used([f EXCEPT ![p] = v]) = Used(pc) + 1
         /\ pc[p] \in Charged /\ v \notin Charged => Used([f EXCEPT ![p] = v]) = Used(pc) - 1
<1>1. f \in [Clients -> PCs] /\ ChargedIn(f) = ChargedIn(pc)
  <2>1. pc \in [Clients -> PCs]
    BY DEF TypeOK
  <2>2. CASE f \in Signal(pc)
    BY <2>1, <2>2, SignalKeeps
  <2>3. CASE f = pc
    BY <2>1, <2>3
  <2> QED BY <2>2, <2>3
<1>2. Used(f) = Used(pc)
  BY <1>1 DEF Used
<1>3. f[p] \in Charged <=> pc[p] \in Charged
  BY <1>1 DEF ChargedIn
<1> QED BY <1>1, <1>2, <1>3, UsedMove

LEMMA LimitKeeps ==
  ASSUME IndInv, active' \in Int,
         active' <= active \/ conf.Active = 0 \/ active' <= conf.Active
  PROVE  LimitInv'
<1>1. \A k \in Configs : k.Active \in Nat
  BY ConfigAssumption DEF Config
<1>2. conf \in Configs /\ active \in Nat
  BY DEF IndInv, TypeOK
<1>3. PICK k \in Configs : k.Active = 0 \/ active <= k.Active
  BY DEF IndInv, LimitInv
<1> QED BY <1>1, <1>2, <1>3 DEF LimitInv

\* The count is back in step with what it counts: its type follows.
LEMMA ExactIsNat ==
  ASSUME idles' \in Seq(Item), active' = Len(idles') + Used(pc')
  PROVE  active' \in Nat /\ ActiveExact'
<1>1. Used(pc') \in Nat
  BY UsedType
<1>2. Len(idles') \in Nat
  OBVIOUS
<1>3. ActiveExact'
  BY DEF ActiveExact, Used, ChargedIn, In
<1> QED BY <1>1, <1>2, <1>3

LEMMA InitInd == Init => IndInv
<1> SUFFICES ASSUME Init PROVE IndInv
  OBVIOUS
<1>1. Len(idles) = 0 /\ idles \in Seq(Item) /\ active = 0
  BY DEF Init
<1>2. conf \in Configs /\ conf.Active \in Nat
  BY ConfigAssumption DEF Init, Config
<1>3. TypeOK
  <2>1. 0 \in 0..MaxNow /\ "out" \in PCs
    BY BoundAssumption DEF PCs
  <2>2. /\ cleanerCh \in {"nil", "empty", "full"}
        /\ cleaner \in {"none", "select", "closing", "relock", "exited"}
    BY <1>2 DEF Init
  <2>3. /\ pc \in [Clients -> PCs] /\ conn \in [Clients -> Conns \union {NoConn}]
        /\ stamp \in [Clients -> 0..MaxNow] /\ left \in [Clients -> Nat]
    BY <2>1 DEF Init
  <2>4. closed \in BOOLEAN /\ late \subseteq Bounded /\ timed \subseteq Clients
    BY DEF Init
  <2>5. /\ victim \in Conns \union {NoConn} /\ sweepLeft \in Nat
        /\ doomed \subseteq Conns /\ open \subseteq Conns /\ now \in 0..MaxNow
    BY <2>1 DEF Init
  <2> QED BY <1>1, <1>2, <2>2, <2>3, <2>4, <2>5 DEF TypeOK
<1>4. In(Charged) = {}
  BY DEF Init, In, Charged
<1>5. ActiveExact
  BY <1>1, <1>4, FS_EmptySet DEF ActiveExact
<1>6. LimitInv
  BY <1>1, <1>2 DEF LimitInv
<1>7. Hands(pc, conn)
  BY ConnsAssumption DEF Init, Hands, InHand
<1> QED BY <1>3, <1>5, <1>6, <1>7 DEF IndInv

-----------------------------------------------------------------------------
(* Every step keeps the inductive invariant. *)

\* Steps of Get that run its loop, entered from three places.
LEMMA LoopStepsKeep ==
  ASSUME IndInv, NEW p \in Clients, GetStart(p) \/ RetryAfterStale(p) \/ WakeUp(p)
  PROVE  IndInv'
<1> USE DEF IndInv
<1>0. active = Len(idles) + Used(pc) /\ Len(idles) \in Nat /\ Used(pc) \in Nat
  BY ExactIsUsed, UsedType DEF TypeOK
<1>1. \E n \in Nat, f \in Signal(pc) \union {pc}, a \in Int :
           /\ GetLoop(p, n, a, f) /\ a <= active
           /\ a = Len(idles) + Used([f EXCEPT ![p] = "out"])
  <2>0. "out" \in PCs /\ "out" \notin Charged
    BY DEF PCs, Charged
  <2>1. ASSUME GetStart(p) \/ WakeUp(p)
        PROVE  \E n \in Nat, f \in Signal(pc) \union {pc}, a \in Int :
                  /\ GetLoop(p, n, a, f) /\ a <= active
                  /\ a = Len(idles) + Used([f EXCEPT ![p] = "out"])
    <3>1. pc[p] \notin Charged /\ GetLoop(p, Len(idles), active, pc)
      BY <2>1 DEF GetStart, WakeUp, Charged
    <3>2. Used([pc EXCEPT ![p] = "out"]) = Used(pc)
      BY <2>0, <3>1, MoveCounts
    <3> WITNESS Len(idles) \in Nat, pc \in Signal(pc) \union {pc}, active \in Int
    <3> QED BY <1>0, <3>1, <3>2
  <2>2. CASE RetryAfterStale(p)
    <3>1. PICK f \in Signal(pc) : GetLoop(p, left[p], Released, f)
      BY <2>2 DEF RetryAfterStale
    <3>2. pc[p] \in Charged
      BY <2>2 DEF RetryAfterStale, Charged
    <3>3. Used([f EXCEPT ![p] = "out"]) = Used(pc) - 1
      BY <2>0, <3>2, MoveCounts
    <3>4. left[p] \in Nat
      BY DEF TypeOK
    <3>5. Released = Len(idles) + Used([f EXCEPT ![p] = "out"]) /\ Released \in Int /\ Released <= active
      BY <1>0, <3>3 DEF Released
    <3> QED BY <3>1, <3>4, <3>5
  <2> QED BY <2>1, <2>2
<1>2. PICK n \in Nat, f \in Signal(pc) \union {pc}, a \in Int :
           /\ GetLoop(p, n, a, f) /\ a <= active
           /\ a = Len(idles) + Used([f EXCEPT ![p] = "out"])
  BY <1>1
<1>3. f \in [Clients -> PCs] /\ \A q \in Clients : conn[q] \in Conns <=> f[q] \in InHand
  <2>1. \A q \in Clients : f[q] = pc[q] \/ (pc[q] = "waiting" /\ f[q] = "woken")
    BY SignalKeeps DEF TypeOK
  <2> QED BY <2>1, MoveCounts DEF PCs, Hands, InHand
<1>4. /\ Hands(pc', conn')
      /\ idles' \in Seq(Item) /\ pc' \in [Clients -> PCs]
      /\ conn' \in [Clients -> Conns \union {NoConn}]
      /\ stamp' \in [Clients -> 0..MaxNow] /\ left' \in [Clients -> Nat]
      /\ timed' \subseteq Clients
      /\ active' = Len(idles') + Used(pc')
      /\ active' <= a \/ conf.Active = 0 \/ active' <= conf.Active
  BY <1>2, <1>3, GetLoopKeeps
<1>5. active' \in Nat /\ ActiveExact'
  BY <1>4, ExactIsNat
<1>6. TypeOK'
  <2>1. late' \subseteq Bounded
    BY DEF GetStart, RetryAfterStale, WakeUp, TypeOK
  <2> QED BY <1>2, <1>4, <1>5, <2>1 DEF TypeOK, GetLoop, sweep
<1>7. active' <= active \/ conf.Active = 0 \/ active' <= conf.Active
  BY <1>0, <1>2, <1>4, <1>5
<1>8. LimitInv'
  BY <1>5, <1>7, LimitKeeps
<1> QED BY <1>4, <1>5, <1>6, <1>8

\* Steps of Get outside its loop.
LEMMA GetStepsKeep ==
  ASSUME IndInv, NEW p \in Clients,
         \/ CheckExpired(p) \/ CloseStale(p) \/ DialOk(p) \/ DialFail(p)
         \/ EnterSelect(p) \/ WaitTimedOut(p) \/ CtxDone(p)
  PROVE  IndInv'
<1> USE DEF IndInv
<1>0. active = Len(idles) + Used(pc) /\ Len(idles) \in Nat /\ Used(pc) \in Nat
  BY ExactIsUsed, UsedType DEF TypeOK
<1>1. {"got", "stale", "relock", "dialing", "holding"} \subseteq PCs \intersect Charged
  BY DEF PCs, InGet, Charged
<1>2. {"out", "parking", "waiting"} \subseteq PCs \ Charged
  BY DEF PCs, InGet, Charged
<1>3. /\ idles' = idles /\ pc' \in [Clients -> PCs]
      /\ active' = Len(idles') + Used(pc') /\ active' <= active
  <2>1. CASE CheckExpired(p) \/ CloseStale(p) \/ DialOk(p) \/ EnterSelect(p) \/ WaitTimedOut(p)
    <3>1. /\ active' = active /\ idles' = idles
          /\ \E v \in PCs : (pc[p] \in Charged <=> v \in Charged) /\ pc' = [pc EXCEPT ![p] = v]
      BY <1>1, <1>2, <2>1 DEF CheckExpired, CloseStale, DialOk, EnterSelect, WaitTimedOut, pool
    <3>2. PICK v \in PCs : (pc[p] \in Charged <=> v \in Charged) /\ pc' = [pc EXCEPT ![p] = v]
      BY <3>1
    <3>3. Used([pc EXCEPT ![p] = v]) = Used(pc)
      BY <3>2, MoveCounts
    <3>4. pc' \in [Clients -> PCs] /\ Used(pc') = Used(pc)
      BY <3>2, <3>3 DEF TypeOK
    <3> QED BY <1>0, <3>1, <3>4
  <2>2. CASE DialFail(p)
    <3>1. PICK f \in Signal(pc) : pc' = [f EXCEPT ![p] = "out"]
      BY <2>2 DEF DialFail
    <3>2. pc[p] \in Charged /\ "out" \in PCs /\ "out" \notin Charged
      BY <1>1, <1>2, <2>2 DEF DialFail
    <3>3. pc' \in [Clients -> PCs] /\ Used(pc') = Used(pc) - 1
      BY <3>1, <3>2, MoveCounts
    <3>4. idles' = idles /\ active' = active - 1
      BY <2>2 DEF DialFail, Released
    <3> QED BY <1>0, <3>3, <3>4
  <2>3. CASE CtxDone(p)
    <3>1. idles' = idles /\ active' = active /\ pc' = pc
      BY <2>3 DEF CtxDone, pool
    <3> QED BY <1>0, <3>1 DEF TypeOK
  <2> QED BY <2>1, <2>2, <2>3
<1>4. active' \in Nat /\ ActiveExact'
  <2>1. idles' \in Seq(Item)
    BY <1>3 DEF TypeOK
  <2> QED BY <1>3, <2>1, ExactIsNat
<1>5. TypeOK'
  <2>1. CASE CheckExpired(p)
    <3>1. /\ stamp' \in [Clients -> 0..MaxNow] /\ left' \in [Clients -> Nat]
      BY <2>1, BoundAssumption DEF CheckExpired, TypeOK
    <3> QED BY <1>3, <1>4, <2>1, <3>1 DEF CheckExpired, TypeOK, pool, sweep
  <2>2. CASE CloseStale(p) \/ DialOk(p)
    <3>1. open' \subseteq Conns /\ conn' \in [Clients -> Conns \union {NoConn}]
      BY <2>2 DEF CloseStale, DialOk, CloseConn, TypeOK
    <3> QED BY <1>3, <1>4, <2>2, <3>1 DEF CloseStale, DialOk, TypeOK, pool, sweep
  <2>3. CASE DialFail(p)
    BY <1>3, <1>4, <2>3 DEF DialFail, TypeOK, sweep
  <2>4. CASE EnterSelect(p) \/ WaitTimedOut(p)
    <3>1. timed' \subseteq Clients
      BY <2>4 DEF EnterSelect, WaitTimedOut, TypeOK
    <3> QED BY <1>3, <1>4, <2>4, <3>1 DEF EnterSelect, WaitTimedOut, TypeOK, pool, sweep
  <2>5. CASE CtxDone(p)
    <3>1. late' \subseteq Bounded
      BY <2>5 DEF CtxDone, TypeOK
    <3> QED BY <1>3, <1>4, <2>5, <3>1 DEF CtxDone, TypeOK, pool, sweep
  <2> QED BY <2>1, <2>2, <2>3, <2>4, <2>5
<1>6. LimitInv'
  BY <1>3, <1>4, LimitKeeps
<1>7. Hands(pc', conn')
  <2>1. CASE CheckExpired(p) \/ EnterSelect(p) \/ WaitTimedOut(p) \/ CtxDone(p)
    BY <2>1 DEF CheckExpired, EnterSelect, WaitTimedOut, CtxDone, TypeOK, Hands, InHand
  <2>2. CASE CloseStale(p) \/ DialOk(p)
    BY <2>2, ConnsAssumption DEF CloseStale, DialOk, TypeOK, Hands, InHand
  <2>3. CASE DialFail(p)
    <3>1. PICK f \in Signal(pc) : pc' = [f EXCEPT ![p] = "out"]
      BY <2>3 DEF DialFail
    <3>2. \A q \in Clients : f[q] = pc[q] \/ (pc[q] = "waiting" /\ f[q] = "woken")
      BY SignalKeeps DEF TypeOK
    <3> QED BY <2>3, <3>1, <3>2, MoveCounts DEF DialFail, TypeOK, Hands, InHand, PCs
  <2> QED BY <2>1, <2>2, <2>3
<1> QED BY <1>4, <1>5, <1>6, <1>7

\* Put, and the close at its end.
LEMMA PutStepsKeep ==
  ASSUME IndInv, NEW p \in Clients, Put(p) \/ CloseReturned(p)
  PROVE  IndInv'
<1> USE DEF IndInv
<1>0. active = Len(idles) + Used(pc) /\ Len(idles) \in Nat /\ Used(pc) \in Nat
  BY ExactIsUsed, UsedType DEF TypeOK
<1>1. "holding" \in Charged \intersect InHand /\ "closing" \in (PCs \ Charged) \intersect InHand
  BY DEF PCs, InGet, Charged, InHand
<1>2. "out" \in (PCs \ Charged) \ InHand
  BY DEF PCs, InGet, Charged, InHand
<1>3. CASE Put(p)
  <2>1. PICK f \in Signal(pc), v \in {"out", "closing"} :
          /\ pc' = [f EXCEPT ![p] = v]
          /\ (v = "out" /\ PutKept(p)) \/ (v = "closing" /\ (PutEvicting(p) \/ PutDropped(p)))
    BY <1>3 DEF Put, PutKept, PutEvicting, PutDropped
  <2>2. \A q \in Clients : f[q] = pc[q] \/ (pc[q] = "waiting" /\ f[q] = "woken")
    BY SignalKeeps DEF TypeOK
  <2>3. pc[p] = "holding" /\ conn[p] \in Conns
    BY <1>1, <1>3 DEF Put, PutKept, PutEvicting, PutDropped, Hands
  <2>4. Used([f EXCEPT ![p] = v]) = Used(pc) - 1 /\ [f EXCEPT ![p] = v] \in [Clients -> PCs]
        /\ f \in [Clients -> PCs]
    <3>1. v \in PCs /\ v \notin Charged /\ pc[p] \in Charged
      BY <1>1, <1>2, <2>3
    <3> QED BY <3>1, MoveCounts
  <2>5. Used(pc') = Used(pc) - 1 /\ pc' \in [Clients -> PCs]
    BY <2>1, <2>4
  <2>6. /\ Pushed(p) \in Seq(Item) /\ Len(Pushed(p)) = Len(idles) + 1 /\ Pushed(p) # <<>>
    <3>1. [c |-> conn[p], at |-> now] \in Item
      BY <2>3 DEF Item, TypeOK
    <3>2. Pushed(p) \in Seq(Item) /\ Len(Pushed(p)) = Len(idles) + 1
      BY <3>1, ItemSeqs DEF Pushed, TypeOK
    <3>3. Pushed(p) # <<>>
      BY <1>0, <3>2
    <3> QED BY <3>2, <3>3
  <2>7. /\ Back(Pushed(p)).c \in Conns /\ ButBack(Pushed(p)) \in Seq(Item)
        /\ Len(ButBack(Pushed(p))) = Len(idles)
    <3>1. PICK e \in Item : TRUE
      BY <2>6, HeadTailProperties
    <3>2. /\ Back(Pushed(p)) \in Item /\ ButBack(Pushed(p)) \in Seq(Item)
          /\ Len(ButBack(Pushed(p))) = Len(Pushed(p)) - 1
      BY <2>6, <3>1, ItemSeqs
    <3> QED BY <1>0, <2>6, <3>2 DEF Item
  <2>8. /\ idles' \in Seq(Item)
        /\ \/ Len(idles') = Len(idles) + 1 /\ active' = active
           \/ Len(idles') = Len(idles) /\ active' = active - 1
    BY <2>1, <2>6, <2>7 DEF PutKept, PutEvicting, PutDropped, Released, TypeOK
  <2>9. /\ v = "out" => conn' = [conn EXCEPT ![p] = NoConn]
        /\ v = "closing" => \E c \in Conns : conn' = [conn EXCEPT ![p] = c]
    <3>1. CASE PutKept(p) /\ v = "out"
      BY <3>1 DEF PutKept
    <3>2. CASE PutEvicting(p) /\ v = "closing"
      BY <2>7, <3>2 DEF PutEvicting
    <3>3. CASE PutDropped(p) /\ v = "closing"
      BY <2>3, <3>3 DEF PutDropped, TypeOK
    <3> QED BY <2>1, <3>1, <3>2, <3>3
  <2>10. conn' \in [Clients -> Conns \union {NoConn}] /\ Hands(pc', conn')
    <3>1. conn' \in [Clients -> Conns \union {NoConn}]
      BY <2>9 DEF TypeOK
    <3>2. \A q \in Clients \ {p} : conn'[q] = conn[q] /\ pc'[q] = f[q]
      BY <2>1, <2>4, <2>9 DEF TypeOK
    <3>3. conn'[p] \in Conns <=> pc'[p] \in InHand
      BY <1>1, <1>2, <2>1, <2>4, <2>9, ConnsAssumption DEF TypeOK
    <3>4. \A q \in Clients : f[q] \in InHand <=> pc[q] \in InHand
      BY <2>2 DEF InHand
    <3> QED BY <3>1, <3>2, <3>3, <3>4 DEF Hands
  <2>11. active' \in Nat /\ ActiveExact' /\ active' <= active
    <3>1. active' = Len(idles') + Used(pc') /\ active' <= active
      BY <1>0, <2>5, <2>8
    <3> QED BY <2>8, <3>1, ExactIsNat
  <2>12. TypeOK'
    BY <1>3, <2>5, <2>8, <2>10, <2>11 DEF Put, PutKept, PutEvicting, PutDropped, TypeOK, sweep
  <2> QED BY <2>10, <2>11, <2>12, LimitKeeps
<1>4. CASE CloseReturned(p)
  <2>1. /\ idles' = idles /\ active' = active /\ pc' = [pc EXCEPT ![p] = "out"]
        /\ conn' = [conn EXCEPT ![p] = NoConn] /\ pc[p] \notin Charged
    BY <1>1, <1>4 DEF CloseReturned, pool
  <2>2. Used([pc EXCEPT ![p] = "out"]) = Used(pc)
    BY <1>2, <2>1, MoveCounts
  <2>3. active' = Len(idles') + Used(pc')
    BY <1>0, <2>1, <2>2
  <2>4. active' \in Nat /\ ActiveExact'
    BY <2>1, <2>3, ExactIsNat DEF TypeOK
  <2>5. /\ pc' \in [Clients -> PCs] /\ conn' \in [Clients -> Conns \union {NoConn}]
        /\ Hands(pc', conn')
    BY <1>2, <2>1, ConnsAssumption DEF TypeOK, Hands
  <2>6. TypeOK'
    BY <1>4, <2>4, <2>5 DEF CloseReturned, CloseConn, TypeOK, pool, sweep
  <2>7. LimitInv'
    BY <1>0, <2>1, <2>4, LimitKeeps
  <2> QED BY <2>4, <2>5, <2>6, <2>7
<1> QED BY <1>3, <1>4

\* Close, Reload, the cleaner and the clock.
LEMMA PoolStepsKeep ==
  ASSUME IndInv, Close \/ CloseDoomed \/ (\E k \in Configs : Reload(k)) \/ Cleaner \/ Tick
  PROVE  IndInv'
<1> USE DEF IndInv
<1>0. active = Len(idles) + Used(pc) /\ Len(idles) \in Nat /\ Used(pc) \in Nat
  BY ExactIsUsed, UsedType DEF TypeOK
<1>1. CASE Close
  <2>1. idles' = <<>> /\ active' = active - Len(idles) /\ pc' = pc /\ conn' = conn
    BY <1>1 DEF Close, calls
  <2>2. idles' \in Seq(Item) /\ Len(idles') = 0
    BY <2>1
  <2>3. active' = Len(idles') + Used(pc') /\ active' <= active
    BY <1>0, <2>1, <2>2
  <2>4. active' \in Nat /\ ActiveExact'
    BY <2>2, <2>3, ExactIsNat
  <2>5. IdleConns \subseteq Conns
    <3>1. \A i \in 1..Len(idles) : idles[i] \in Item
      BY ElementOfSeq DEF TypeOK
    <3> QED BY <3>1 DEF IdleConns, Item
  <2>6. TypeOK'
    BY <1>1, <2>2, <2>4, <2>5 DEF Close, TypeOK, calls, sweep
  <2>7. LimitInv'
    BY <2>3, <2>4, LimitKeeps
  <2> QED BY <2>1, <2>4, <2>6, <2>7
<1>2. CASE CloseDoomed \/ Tick \/ (\E k \in Configs : Reload(k)) \/ CleanerClose
  <2>1. idles' = idles /\ active' = active /\ pc' = pc /\ conn' = conn
    BY <1>2 DEF CloseDoomed, Tick, Reload, CleanerClose, pool, calls
  <2>2. ActiveExact' /\ LimitInv' /\ Hands(pc', conn')
    BY <2>1 DEF ActiveExact, In, LimitInv
  <2>3. ASSUME CloseDoomed PROVE TypeOK'
    BY <2>3 DEF CloseDoomed, CloseConn, TypeOK, pool, calls, sweep
  <2>4. ASSUME Tick PROVE TypeOK'
    <3>1. now' \in 0..MaxNow
      BY <2>4, BoundAssumption DEF Tick, TypeOK
    <3> QED BY <2>4, <3>1 DEF Tick, TypeOK, pool, calls, sweep
  <2>5. ASSUME NEW k \in Configs, Reload(k) PROVE TypeOK'
    <3>1. /\ conf' \in Configs /\ cleanerCh' \in {"nil", "empty", "full"}
          /\ cleaner' \in {"none", "select", "closing", "relock", "exited"}
      BY <2>5 DEF Reload, StartCleaner, TypeOK
    <3> QED BY <2>5, <3>1 DEF Reload, TypeOK, calls
  <2>6. ASSUME CleanerClose PROVE TypeOK'
    BY <2>6 DEF CleanerClose, CloseConn, TypeOK, pool, calls
  <2>7. TypeOK'
    BY <1>2, <2>3, <2>4, <2>5, <2>6
  <2> QED BY <2>2, <2>7
<1>3. ASSUME NEW n \in Nat, Sweep(n), cleanerCh' \in {"nil", "empty", "full"} PROVE IndInv'
  <2>1. CASE n > 0 /\ idles # <<>> /\ Expired(Back(idles).at, conf.IdleTimeout)
    <3>1. /\ idles' = ButBack(idles) /\ victim' = Back(idles).c /\ sweepLeft' = n - 1
          /\ cleaner' = "closing" /\ active' = active - 1 /\ pc' \in Signal(pc) /\ conn' = conn
      BY <1>3, <2>1 DEF Sweep, Released
    <3>2. PICK e \in Item : e = Head(idles)
      BY <2>1, HeadTailProperties DEF TypeOK
    <3>3. /\ idles' \in Seq(Item) /\ Len(idles') = Len(idles) - 1 /\ victim' \in Conns
      BY <2>1, <3>1, <3>2, ItemSeqs DEF TypeOK, Item
    <3>4. /\ pc' \in [Clients -> PCs] /\ ChargedIn(pc') = ChargedIn(pc)
          /\ \A q \in Clients : pc'[q] = pc[q] \/ (pc[q] = "waiting" /\ pc'[q] = "woken")
      BY <3>1, SignalKeeps DEF TypeOK
    <3>5. active' = Len(idles') + Used(pc') /\ active' <= active
      BY <1>0, <3>1, <3>3, <3>4 DEF Used
    <3>6. active' \in Nat /\ ActiveExact'
      BY <3>3, <3>5, ExactIsNat
    <3>7. TypeOK'
      BY <1>3, <2>1, <3>1, <3>3, <3>4, <3>6 DEF Sweep, TypeOK
    <3>8. Hands(pc', conn')
      BY <3>1, <3>4 DEF Hands, InHand
    <3> QED BY <3>5, <3>6, <3>7, <3>8, LimitKeeps
  <2>2. CASE ~(n > 0 /\ idles # <<>> /\ Expired(Back(idles).at, conf.IdleTimeout))
    <3>1. idles' = idles /\ active' = active /\ pc' = pc /\ conn' = conn
      BY <1>3, <2>2 DEF Sweep
    <3>2. ActiveExact' /\ LimitInv' /\ Hands(pc', conn')
      BY <1>3, <3>1 DEF ActiveExact, In, LimitInv, Sweep
    <3>3. TypeOK'
      BY <1>3, <2>2, <3>1 DEF Sweep, TypeOK
    <3> QED BY <3>2, <3>3
  <2> QED BY <2>1, <2>2
<1>4. CASE CleanerWake
  <2>1. cleanerCh' \in {"nil", "empty", "full"}
    BY <1>4 DEF CleanerWake, TypeOK
  <2>2. CASE closed \/ conf.IdleTimeout = 0
    <3>1. idles' = idles /\ active' = active /\ pc' = pc /\ conn' = conn
      BY <1>4, <2>2 DEF CleanerWake, calls
    <3>2. ActiveExact' /\ LimitInv' /\ Hands(pc', conn')
      BY <3>1 DEF ActiveExact, In, LimitInv
    <3>3. TypeOK'
      BY <1>4, <2>1, <2>2, <3>1 DEF CleanerWake, TypeOK, calls
    <3> QED BY <3>2, <3>3
  <2>3. CASE ~(closed \/ conf.IdleTimeout = 0)
    BY <1>0, <1>3, <1>4, <2>1, <2>3 DEF CleanerWake
  <2> QED BY <2>2, <2>3
<1>5. CASE CleanerRelock
  BY <1>3, <1>5 DEF CleanerRelock, TypeOK
<1> QED BY <1>1, <1>2, <1>4, <1>5 DEF Cleaner

LEMMA StutterKeeps == ASSUME IndInv, UNCHANGED vars PROVE IndInv'
<1>1. TypeOK'
  BY DEF IndInv, TypeOK, vars, pool, calls, sweep
<1>2. ActiveExact' /\ LimitInv' /\ Hands(pc', conn')
  BY DEF IndInv, ActiveExact, In, LimitInv, vars, pool, calls
<1> QED BY <1>1, <1>2 DEF IndInv

LEMMA NextKeeps == IndInv /\ [Next]_vars => IndInv'
<1> SUFFICES ASSUME IndInv, [Next]_vars PROVE IndInv'
  OBVIOUS
<1>1. ASSUME NEW p \in Clients,
             GetStart(p) \/ GetStep(p) \/ CtxDone(p) \/ Put(p) \/ CloseReturned(p)
      PROVE  IndInv'
  BY <1>1, LoopStepsKeep, GetStepsKeep, PutStepsKeep DEF GetStep
<1>2. CASE UNCHANGED vars
  BY <1>2, StutterKeeps
<1> QED BY <1>1, <1>2, PoolStepsKeep DEF Next

-----------------------------------------------------------------------------
(* The theorems. *)

\* In every reachable state the variables have their types, the count of
\* connections being a natural number among them: no slot is paid back twice.
THEOREM TypeCorrect == Spec => []TypeOK
<1>1. IndInv => TypeOK
  BY DEF IndInv
<1> QED BY <1>1, InitInd, NextKeeps, PTL DEF Spec

\* In every reachable state active is the number of idle items, dials in
\* flight, items on loan and expired items not yet released.
THEOREM CountExact == Spec => []ActiveExact
<1>1. IndInv => ActiveExact
  BY DEF IndInv
<1> QED BY <1>1, InitInd, NextKeeps, PTL DEF Spec

\* The callers of Get hold at most as many connections as the largest Active
\* ever configured, through every reload.
THEOREM LimitHolds == Spec => []LentWithinLimit
<1>1. IndInv => LentWithinLimit
  <2> SUFFICES ASSUME IndInv PROVE LentWithinLimit
    OBVIOUS
  <2>1. /\ active = Len(idles) + Used(pc)
        /\ Len(idles) \in Nat /\ Used(pc) \in Nat /\ IsFiniteSet(ChargedIn(pc))
    BY ExactIsUsed, UsedType DEF IndInv, TypeOK
  <2>2. In({"got", "holding"}) \subseteq ChargedIn(pc)
    BY DEF In, ChargedIn, Charged
  <2>3. /\ Cardinality(In({"got", "holding"})) \in Nat
        /\ Cardinality(In({"got", "holding"})) <= Used(pc)
    BY <2>1, <2>2, FS_Subset, FS_CardinalityType DEF Used
  <2>4. \A k \in Configs : k.Active \in Nat
    BY ConfigAssumption DEF Config
  <2>5. PICK k \in Configs : k.Active = 0 \/ active <= k.Active
    BY DEF IndInv, LimitInv
  <2>6. k.Active = 0 \/ Cardinality(In({"got", "holding"})) <= k.Active
    BY <2>1, <2>3, <2>4, <2>5
  <2> QED BY <2>6 DEF LentWithinLimit
<1> QED BY <1>1, InitInd, NextKeeps, PTL DEF Spec

-----------------------------------------------------------------------------
(* After Close. *)

DrainInv == closed => idles = <<>>

Drains == closed => closed' /\ idles' = <<>> /\ active' <= active

\* On a closed pool a pass of Get's loop dials nothing.
LEMMA ClosedLoop ==
  ASSUME closed, idles = <<>>, NEW p, NEW n, NEW a, NEW f, GetLoop(p, n, a, f)
  PROVE  closed' /\ idles' = <<>> /\ active' = a
BY DEF GetLoop, PopIdle, NoIdle, ShutOut

LEMMA NextDrains == IndInv /\ DrainInv /\ [Next]_vars => DrainInv' /\ Drains
<1> SUFFICES ASSUME IndInv, DrainInv, [Next]_vars PROVE DrainInv' /\ Drains
  OBVIOUS
<1>0. active \in Nat /\ Len(idles) \in Nat
  BY DEF IndInv, TypeOK
<1>1. ASSUME NEW p \in Clients, GetStart(p) PROVE DrainInv' /\ Drains
  BY <1>1 DEF GetStart, GetLoop, DrainInv, Drains
<1>2. ASSUME NEW p \in Clients, RetryAfterStale(p) PROVE DrainInv' /\ Drains
  <2>1. CASE ~closed
    BY <1>2, <2>1 DEF RetryAfterStale, GetLoop, DrainInv, Drains
  <2>2. CASE closed
    <3>1. closed' /\ idles' = <<>> /\ active' = Released
      BY <1>2, <2>2, ClosedLoop DEF RetryAfterStale, DrainInv
    <3> QED BY <1>0, <3>1 DEF DrainInv, Drains, Released
  <2> QED BY <2>1, <2>2
<1>3. ASSUME NEW p \in Clients, WakeUp(p) PROVE DrainInv' /\ Drains
  <2>1. CASE ~closed
    BY <1>3, <2>1 DEF WakeUp, GetLoop, DrainInv, Drains
  <2>2. CASE closed
    <3>1. closed' /\ idles' = <<>> /\ active' = active
      BY <1>3, <2>2, ClosedLoop DEF WakeUp, DrainInv
    <3> QED BY <1>0, <3>1 DEF DrainInv, Drains
  <2> QED BY <2>1, <2>2
<1>4. ASSUME NEW p \in Clients,
             \/ CheckExpired(p) \/ CloseStale(p) \/ DialOk(p) \/ DialFail(p)
             \/ EnterSelect(p) \/ WaitTimedOut(p) \/ CtxDone(p) \/ Put(p) \/ CloseReturned(p)
      PROVE  DrainInv' /\ Drains
  BY <1>0, <1>4 DEF CheckExpired, CloseStale, DialOk, DialFail, EnterSelect, WaitTimedOut, CtxDone,
                    Put, PutKept, PutEvicting, PutDropped, CloseReturned, Released,
                    DrainInv, Drains, pool
<1>5. CASE Close
  BY <1>0, <1>5, EmptySeq DEF Close, DrainInv, Drains
<1>6. CASE CloseDoomed \/ (\E k \in Configs : Reload(k)) \/ Tick \/ UNCHANGED vars
  BY <1>0, <1>6 DEF CloseDoomed, Reload, Tick, DrainInv, Drains, pool, vars
<1>7. ASSUME NEW n, Sweep(n) PROVE DrainInv' /\ Drains
  BY <1>0, <1>7 DEF Sweep, DrainInv, Drains
<1>8. CASE Cleaner
  BY <1>0, <1>7, <1>8 DEF Cleaner, CleanerWake, CleanerClose, CleanerRelock, DrainInv, Drains, pool
<1> QED BY <1>1, <1>2, <1>3, <1>4, <1>5, <1>6, <1>8 DEF Next, GetStep

\* A pool that is closed stays closed, keeps nothing that is given back, and
\* takes no new slot for a Get that was in progress.
THEOREM ClosedForGood == Spec => ClosedOnlyShrinks
<1>1. Init => DrainInv
  BY DEF Init, DrainInv
<1>2. IndInv /\ DrainInv /\ [Next]_vars => DrainInv' /\ [Drains]_vars
  BY NextDrains
<1>3. Drains <=> (closed => closed' /\ idles' = <<>> /\ active' <= active)
  BY DEF Drains
<1> QED BY <1>1, <1>2, <1>3, InitInd, NextKeeps, PTL DEF Spec, ClosedOnlyShrinks

-----------------------------------------------------------------------------
(* One owner for every connection. The sequence of idle items enters only   *)
(* through the set of its connections and through their being distinct.     *)

ConnsOf(s) == {s[i].c : i \in 1..Len(s)}
Distinct(s) == \A i, j \in 1..Len(s) : s[i].c = s[j].c => i = j

LEMMA DistinctTail ==
  ASSUME NEW s \in Seq(Item), s # <<>>, Distinct(s)
  PROVE  /\ Distinct(Tail(s)) /\ ConnsOf(Tail(s)) = ConnsOf(s) \ {Head(s).c}
         /\ Head(s).c \in ConnsOf(s)
<1>1. Len(s) \in Nat /\ Len(s) >= 1 /\ Head(s) = s[1]
  OBVIOUS
<1>2. Len(Tail(s)) = Len(s) - 1 /\ \A i \in 1..Len(s) - 1 : Tail(s)[i] = s[i + 1]
  BY HeadTailProperties
<1>3. Distinct(Tail(s))
  <2> SUFFICES ASSUME NEW i \in 1..Len(Tail(s)), NEW k \in 1..Len(Tail(s)), Tail(s)[i].c = Tail(s)[k].c
               PROVE  i = k
    BY DEF Distinct
  <2>1. s[i + 1].c = s[k + 1].c /\ i + 1 \in 1..Len(s) /\ k + 1 \in 1..Len(s)
    BY <1>1, <1>2
  <2> QED BY <2>1 DEF Distinct
<1>4. ConnsOf(Tail(s)) \subseteq ConnsOf(s) \ {Head(s).c}
  <2> SUFFICES ASSUME NEW i \in 1..Len(Tail(s))
               PROVE  Tail(s)[i].c \in ConnsOf(s) /\ Tail(s)[i].c # s[1].c
    BY <1>1 DEF ConnsOf
  <2>1. Tail(s)[i] = s[i + 1] /\ i + 1 \in 1..Len(s) /\ i + 1 # 1 /\ 1 \in 1..Len(s)
    BY <1>1, <1>2
  <2> QED BY <2>1 DEF ConnsOf, Distinct
<1>5. ConnsOf(s) \ {Head(s).c} \subseteq ConnsOf(Tail(s))
  <2> SUFFICES ASSUME NEW i \in 1..Len(s), s[i].c # s[1].c PROVE s[i].c \in ConnsOf(Tail(s))
    BY <1>1 DEF ConnsOf
  <2>1. i - 1 \in 1..Len(Tail(s)) /\ Tail(s)[i - 1] = s[i]
    <3>1. i # 1
      OBVIOUS
    <3>2. i - 1 \in 1..Len(s) - 1
      BY <1>1, <3>1
    <3>3. Tail(s)[i - 1] = s[(i - 1) + 1]
      BY <1>2, <3>2
    <3> QED BY <1>1, <1>2, <3>2, <3>3
  <2> QED BY <2>1 DEF ConnsOf
<1>6. Head(s).c \in ConnsOf(s)
  BY <1>1 DEF ConnsOf
<1> QED BY <1>3, <1>4, <1>5, <1>6

\* All but the last item, one by one.
LEMMA ButBackIs ==
  ASSUME NEW s \in Seq(Item), s # <<>>
  PROVE  /\ Len(ButBack(s)) = Len(s) - 1
         /\ \A i \in 1..Len(s) - 1 : ButBack(s)[i] = s[i]
<1> DEFINE n == Len(s)
<1>1. n \in Nat /\ n >= 1
  OBVIOUS
<1>2. \A i \in 1..n - 1 : s[i] \in Item
  BY <1>1, ElementOfSeq
<1>3. Len(ButBack(s)) = n - 1
  <2>1. PICK e \in Item : TRUE
    BY <1>1, ElementOfSeq
  <2> QED BY <2>1, ItemSeqs
<1>4. n - 1 \in Int
  BY <1>1
<1>5. \A i \in 1..n - 1 - 1 + 1 : SubSeq(s, 1, n - 1)[i] = s[1 + i - 1]
  <2> DEFINE m == n - 1
  <2>1. m \in Int /\ \A i \in 1..m : s[i] \in Item
    BY <1>2, <1>4
  <2> HIDE DEF m
  <2>2. \A i \in 1..m - 1 + 1 : SubSeq(s, 1, m)[i] = s[1 + i - 1]
    BY <2>1, SubSeqProperties
  <2> QED BY <2>2 DEF m
<1>6. \A i \in 1..n - 1 : SubSeq(s, 1, n - 1)[i] = s[i]
  BY <1>1, <1>5
<1> QED BY <1>3, <1>6 DEF ButBack

LEMMA DistinctButBack ==
  ASSUME NEW s \in Seq(Item), s # <<>>, Distinct(s)
  PROVE  /\ Distinct(ButBack(s)) /\ ConnsOf(ButBack(s)) = ConnsOf(s) \ {Back(s).c}
         /\ Back(s).c \in ConnsOf(s)
<1> DEFINE n == Len(s)
<1>1. n \in Nat /\ n >= 1
  OBVIOUS
<1>2. /\ Len(ButBack(s)) = n - 1
      /\ \A i \in 1..n - 1 : ButBack(s)[i] = s[i]
  BY ButBackIs
<1>3. Distinct(ButBack(s))
  BY <1>1, <1>2 DEF Distinct
<1>4. ConnsOf(ButBack(s)) = {s[i].c : i \in 1..n - 1}
  BY <1>2 DEF ConnsOf
<1>5. {s[i].c : i \in 1..n - 1} = ConnsOf(s) \ {s[n].c}
  <2>1. \A i \in 1..n - 1 : s[i].c # s[n].c
    BY <1>1 DEF Distinct
  <2>2. \A i \in 1..n : s[i].c # s[n].c => i \in 1..n - 1
    BY <1>1
  <2> QED BY <1>1, <2>1, <2>2 DEF ConnsOf
<1>6. s[n].c \in ConnsOf(s)
  BY <1>1 DEF ConnsOf
<1> QED BY <1>3, <1>4, <1>5, <1>6 DEF Back

LEMMA DistinctPushed ==
  ASSUME NEW s \in Seq(Item), NEW e \in Item, Distinct(s), e.c \notin ConnsOf(s)
  PROVE  /\ Distinct(<<e>> \o s) /\ ConnsOf(<<e>> \o s) = ConnsOf(s) \union {e.c}
<1> DEFINE t == <<e>> \o s
<1>1. /\ Len(t) = Len(s) + 1 /\ Len(s) \in Nat /\ t[1] = e
      /\ \A i \in 2..Len(s) + 1 : t[i] = s[i - 1]
  OBVIOUS
<1> HIDE DEF t
<1>2. \A i \in 2..Len(s) + 1 : t[i].c \in ConnsOf(s)
  BY <1>1 DEF ConnsOf
<1>3. Distinct(t)
  <2> SUFFICES ASSUME NEW i \in 1..Len(t), NEW k \in 1..Len(t), t[i].c = t[k].c PROVE i = k
    BY DEF Distinct
  <2>1. CASE i # 1 /\ k # 1
    <3>1. i - 1 \in 1..Len(s) /\ k - 1 \in 1..Len(s) /\ t[i] = s[i - 1] /\ t[k] = s[k - 1]
      BY <1>1, <2>1
    <3>2. i - 1 = k - 1
      BY <3>1 DEF Distinct
    <3> QED BY <3>2
  <2>2. CASE i = 1 \/ k = 1
    BY <1>1, <1>2, <2>2
  <2> QED BY <2>1, <2>2
<1>4. ConnsOf(t) = ConnsOf(s) \union {e.c}
  <2>1. \A i \in 1..Len(s) : i + 1 \in 1..Len(t) /\ t[i + 1] = s[i]
    BY <1>1
  <2>2. ConnsOf(s) \subseteq ConnsOf(t)
    BY <2>1 DEF ConnsOf
  <2>3. e.c \in ConnsOf(t)
    BY <1>1 DEF ConnsOf
  <2>4. \A i \in 1..Len(t) : i = 1 \/ i \in 2..Len(s) + 1
    BY <1>1
  <2>5. \A i \in 1..Len(t) : t[i].c \in ConnsOf(s) \union {e.c}
    BY <1>1, <1>2, <2>4
  <2>6. ConnsOf(t) \subseteq ConnsOf(s) \union {e.c}
    BY <2>5 DEF ConnsOf
  <2> QED BY <2>2, <2>3, <2>6
<1> QED BY <1>3, <1>4 DEF t

\* Idle connections I, connections h in hand, doomed ones D and the cleaner's v
\* are apart, and are together those open (o).
Own(I, h, D, v, o) ==
  /\ \A p, q \in Clients : h[p] \in Conns /\ h[p] = h[q] => p = q
  /\ \A p \in Clients : h[p] \in Conns => h[p] \notin I \union D \union {v}
  /\ I \intersect (D \union {v}) = {} /\ v \notin D
  /\ \A c \in Conns : c \in o <=> c \in I \/ c \in D \/ c = v \/ \E p \in Clients : h[p] = c

\* The moves a connection makes, each keeping Own: from idle to a hand and
\* back, dialed, closed by the client that has it, set aside by Close, taken
\* and closed by the cleaner.
LEMMA OwnMoves ==
  ASSUME NEW I \in SUBSET Conns, NEW h \in [Clients -> Conns \union {NoConn}],
         NEW D \in SUBSET Conns, NEW v \in Conns \union {NoConn}, NEW o \in SUBSET Conns,
         NEW p \in Clients, NEW c \in Conns, Own(I, h, D, v, o)
  PROVE  /\ h[p] = NoConn /\ c \in I => Own(I \ {c}, [h EXCEPT ![p] = c], D, v, o)
         /\ h[p] \in Conns => Own(I \union {h[p]}, [h EXCEPT ![p] = NoConn], D, v, o)
         /\ h[p] = NoConn /\ c \notin o => Own(I, [h EXCEPT ![p] = c], D, v, o \union {c})
         /\ h[p] \in Conns => Own(I, [h EXCEPT ![p] = NoConn], D, v, o \ {h[p]})
<1> USE ConnsAssumption DEF Own
<1>1. ASSUME h[p] = NoConn, c \in I PROVE Own(I \ {c}, [h EXCEPT ![p] = c], D, v, o)
  BY <1>1
<1>2. ASSUME h[p] \in Conns PROVE Own(I \union {h[p]}, [h EXCEPT ![p] = NoConn], D, v, o)
  BY <1>2
<1>3. ASSUME h[p] = NoConn, c \notin o PROVE Own(I, [h EXCEPT ![p] = c], D, v, o \union {c})
  BY <1>3
<1>4. ASSUME h[p] \in Conns PROVE Own(I, [h EXCEPT ![p] = NoConn], D, v, o \ {h[p]})
  BY <1>4
<1> QED BY <1>1, <1>2, <1>3, <1>4

LEMMA OwnRetires ==
  ASSUME NEW I \in SUBSET Conns, NEW h \in [Clients -> Conns \union {NoConn}],
         NEW D \in SUBSET Conns, NEW v \in Conns \union {NoConn}, NEW o \in SUBSET Conns,
         NEW c \in Conns, Own(I, h, D, v, o)
  PROVE  /\ c \in D => Own(I, h, D \ {c}, v, o \ {c})
         /\ v = NoConn /\ c \in I => Own(I \ {c}, h, D, c, o)
         /\ v \in Conns => Own(I, h, D, NoConn, o \ {v})
<1> USE ConnsAssumption DEF Own
<1>1. ASSUME c \in D PROVE Own(I, h, D \ {c}, v, o \ {c})
  BY <1>1
<1>2. ASSUME v = NoConn, c \in I PROVE Own(I \ {c}, h, D, c, o)
  BY <1>2
<1>3. ASSUME v \in Conns PROVE Own(I, h, D, NoConn, o \ {v})
  BY <1>3
<1> QED BY <1>1, <1>2, <1>3

LEMMA OwnShut ==
  ASSUME NEW I \in SUBSET Conns, NEW h \in [Clients -> Conns \union {NoConn}],
         NEW D \in SUBSET Conns, NEW v \in Conns \union {NoConn}, NEW o \in SUBSET Conns,
         Own(I, h, D, v, o)
  PROVE  Own({}, h, D \union I, v, o)
BY ConnsAssumption DEF Own

CleanerInv == (cleaner = "closing" <=> victim \in Conns) /\ (cleanerCh = "nil" => cleaner = "none")

OwnInv == Distinct(idles) /\ Own(ConnsOf(idles), conn, doomed, victim, open) /\ CleanerInv

\* What the moves above need to know of the current state.
LEMMA OwnTypes ==
  ASSUME IndInv
  PROVE  /\ ConnsOf(idles) \in SUBSET Conns /\ IdleConns = ConnsOf(idles)
         /\ conn \in [Clients -> Conns \union {NoConn}] /\ idles \in Seq(Item)
         /\ doomed \in SUBSET Conns /\ victim \in Conns \union {NoConn} /\ open \in SUBSET Conns
         /\ \A p \in Clients : IF pc[p] \in InHand THEN conn[p] \in Conns ELSE conn[p] = NoConn
<1>1. \A i \in 1..Len(idles) : idles[i] \in Item
  BY ElementOfSeq DEF IndInv, TypeOK
<1>2. ConnsOf(idles) \in SUBSET Conns
  BY <1>1 DEF ConnsOf, Item
<1>3. \A p \in Clients : IF pc[p] \in InHand THEN conn[p] \in Conns ELSE conn[p] = NoConn
  BY DEF IndInv, Hands, TypeOK
<1> QED BY <1>2, <1>3 DEF IndInv, TypeOK, ConnsOf, IdleConns

\* Get's loop takes an idle connection or none.
LEMMA LoopOwns ==
  ASSUME IndInv, OwnInv, NEW p \in Clients, conn[p] = NoConn,
         NEW n, NEW a, NEW f, GetLoop(p, n, a, f)
  PROVE  OwnInv'
<1>1. CASE PopIdle(p, n, a, f)
  <2>1. /\ idles # <<>> /\ idles' = Tail(idles) /\ conn' = [conn EXCEPT ![p] = Head(idles).c]
        /\ UNCHANGED <<doomed, victim, open, cleaner, cleanerCh>>
    BY <1>1 DEF PopIdle, GetLoop, sweep
  <2>2. /\ Distinct(Tail(idles)) /\ ConnsOf(Tail(idles)) = ConnsOf(idles) \ {Head(idles).c}
        /\ Head(idles).c \in ConnsOf(idles)
    BY <2>1, OwnTypes, DistinctTail DEF OwnInv
  <2>3. Own(ConnsOf(idles) \ {Head(idles).c}, [conn EXCEPT ![p] = Head(idles).c], doomed, victim, open)
    BY <2>2, OwnTypes, OwnMoves DEF OwnInv
  <2> QED BY <2>1, <2>2, <2>3 DEF OwnInv, CleanerInv
<1>2. CASE NoIdle(p, a, f)
  <2>1. conn' = conn /\ UNCHANGED <<idles, doomed, victim, open, cleaner, cleanerCh>>
    BY <1>2, OwnTypes DEF NoIdle, GetLoop, sweep
  <2> QED BY <2>1 DEF OwnInv, CleanerInv
<1> QED BY <1>1, <1>2 DEF GetLoop

LEMMA SweepOwns ==
  ASSUME IndInv, OwnInv, NEW n, Sweep(n), cleaner # "closing", cleaner # "none",
         cleanerCh' # "nil"
  PROVE  OwnInv'
<1>1. CASE n > 0 /\ idles # <<>> /\ Expired(Back(idles).at, conf.IdleTimeout)
  <2>1. /\ idles' = ButBack(idles) /\ victim' = Back(idles).c /\ cleaner' = "closing"
        /\ UNCHANGED <<conn, doomed, open>>
    BY <1>1 DEF Sweep
  <2>2. /\ Distinct(ButBack(idles)) /\ ConnsOf(ButBack(idles)) = ConnsOf(idles) \ {Back(idles).c}
        /\ Back(idles).c \in ConnsOf(idles)
    BY <1>1, OwnTypes, DistinctButBack DEF OwnInv
  <2>3. victim = NoConn
    BY OwnTypes DEF OwnInv, CleanerInv
  <2>4. Own(ConnsOf(idles) \ {Back(idles).c}, conn, doomed, Back(idles).c, open)
    BY <2>2, <2>3, OwnTypes, OwnRetires DEF OwnInv
  <2>5. victim' \in Conns
    BY <2>1, <2>2, OwnTypes
  <2> QED BY <2>1, <2>2, <2>4, <2>5 DEF OwnInv, CleanerInv
<1>2. CASE ~(n > 0 /\ idles # <<>> /\ Expired(Back(idles).at, conf.IdleTimeout))
  <2>1. /\ cleaner' = "select" /\ UNCHANGED <<idles, victim, conn, doomed, open>>
    BY <1>2 DEF Sweep
  <2> QED BY <2>1 DEF OwnInv, CleanerInv
<1> QED BY <1>1, <1>2

LEMMA PutOwns ==
  ASSUME IndInv, OwnInv, NEW p \in Clients, Put(p)
  PROVE  OwnInv'
<1>1. pc[p] = "holding" /\ conn[p] \in Conns /\ UNCHANGED <<doomed, victim, open, cleaner, cleanerCh>>
  BY OwnTypes DEF Put, PutKept, PutEvicting, PutDropped, InHand, sweep
<1> DEFINE e == [c |-> conn[p], at |-> now]
<1>2. e \in Item /\ e.c = conn[p] /\ e.c \notin ConnsOf(idles)
  BY <1>1 DEF Item, IndInv, TypeOK, OwnInv, Own
<1>3. /\ Distinct(Pushed(p)) /\ ConnsOf(Pushed(p)) = ConnsOf(idles) \union {conn[p]}
      /\ Pushed(p) \in Seq(Item) /\ Pushed(p) # <<>>
  <2>1. Pushed(p) = <<e>> \o idles
    BY DEF Pushed
  <2>2. Pushed(p) \in Seq(Item) /\ Len(Pushed(p)) = Len(idles) + 1
    BY <1>2, <2>1, ItemSeqs, OwnTypes
  <2>3. Pushed(p) # <<>>
    BY <2>2, OwnTypes
  <2> HIDE DEF e
  <2>4. Distinct(<<e>> \o idles) /\ ConnsOf(<<e>> \o idles) = ConnsOf(idles) \union {e.c}
    BY <1>2, OwnTypes, DistinctPushed DEF OwnInv
  <2> QED BY <1>2, <2>1, <2>2, <2>3, <2>4
<1>4. Own(ConnsOf(idles) \union {conn[p]}, [conn EXCEPT ![p] = NoConn], doomed, victim, open)
  BY <1>1, OwnTypes, OwnMoves DEF OwnInv
<1>5. CASE PutKept(p)
  <2>1. idles' = Pushed(p) /\ conn' = [conn EXCEPT ![p] = NoConn]
    BY <1>5 DEF PutKept
  <2> QED BY <1>1, <1>3, <1>4, <2>1 DEF OwnInv, CleanerInv
<1>6. CASE PutEvicting(p)
  <2>1. idles' = ButBack(Pushed(p)) /\ conn' = [conn EXCEPT ![p] = Back(Pushed(p)).c]
    BY <1>6 DEF PutEvicting
  <2> DEFINE c == Back(Pushed(p)).c
             I == ConnsOf(idles) \union {conn[p]}
             h == [conn EXCEPT ![p] = NoConn]
  <2>2. Distinct(idles') /\ ConnsOf(idles') = I \ {c} /\ c \in I
    BY <1>3, <2>1, DistinctButBack
  <2>3. I \in SUBSET Conns /\ h \in [Clients -> Conns \union {NoConn}] /\ h[p] = NoConn
    BY <1>1, OwnTypes
  <2>4. [h EXCEPT ![p] = c] = conn'
    BY <2>1, OwnTypes
  <2> HIDE DEF c, I, h
  <2>5. Own(I, h, doomed, victim, open)
    BY <1>4 DEF I, h
  <2>6. Own(I \ {c}, [h EXCEPT ![p] = c], doomed, victim, open)
    BY <2>2, <2>3, <2>5, OwnTypes, OwnMoves
  <2> QED BY <1>1, <2>2, <2>4, <2>6 DEF OwnInv, CleanerInv
<1>7. CASE PutDropped(p)
  <2>1. idles' = idles /\ conn' = conn
    BY <1>7 DEF PutDropped
  <2> QED BY <1>1, <2>1 DEF OwnInv, CleanerInv
<1> QED BY <1>5, <1>6, <1>7 DEF Put

LEMMA NextOwns == IndInv /\ OwnInv /\ [Next]_vars => OwnInv'
<1> SUFFICES ASSUME IndInv, OwnInv, [Next]_vars PROVE OwnInv'
  OBVIOUS
<1>1. ASSUME NEW p \in Clients, GetStart(p) \/ RetryAfterStale(p) \/ WakeUp(p) PROVE OwnInv'
  <2>1. conn[p] = NoConn
    BY <1>1, OwnTypes DEF GetStart, RetryAfterStale, WakeUp, InHand
  <2> QED BY <1>1, <2>1, LoopOwns DEF GetStart, RetryAfterStale, WakeUp
<1>2. ASSUME NEW p \in Clients, CloseStale(p) \/ CloseReturned(p) PROVE OwnInv'
  <2>1. /\ conn[p] \in Conns /\ conn' = [conn EXCEPT ![p] = NoConn] /\ open' = open \ {conn[p]}
        /\ UNCHANGED <<idles, doomed, victim, cleaner, cleanerCh>>
    BY <1>2, OwnTypes DEF CloseStale, CloseReturned, CloseConn, InHand, pool, sweep
  <2>2. Own(ConnsOf(idles), [conn EXCEPT ![p] = NoConn], doomed, victim, open \ {conn[p]})
    BY <2>1, OwnTypes, OwnMoves DEF OwnInv
  <2> QED BY <2>1, <2>2 DEF OwnInv, CleanerInv
<1>3. ASSUME NEW p \in Clients, DialOk(p) PROVE OwnInv'
  <2>1. PICK c \in Conns \ open : open' = open \union {c} /\ conn' = [conn EXCEPT ![p] = c]
    BY <1>3 DEF DialOk
  <2>2. conn[p] = NoConn /\ UNCHANGED <<idles, doomed, victim, cleaner, cleanerCh>>
    BY <1>3, OwnTypes DEF DialOk, InHand, pool, sweep
  <2>3. Own(ConnsOf(idles), [conn EXCEPT ![p] = c], doomed, victim, open \union {c})
    BY <2>1, <2>2, OwnTypes, OwnMoves DEF OwnInv
  <2> QED BY <2>1, <2>2, <2>3 DEF OwnInv, CleanerInv
<1>4. ASSUME NEW p \in Clients,
             CheckExpired(p) \/ DialFail(p) \/ EnterSelect(p) \/ WaitTimedOut(p) \/ CtxDone(p)
      PROVE  OwnInv'
  BY <1>4 DEF CheckExpired, DialFail, EnterSelect, WaitTimedOut, CtxDone, pool, sweep,
              OwnInv, CleanerInv
<1>5. CASE Close
  <2>1. /\ idles' = <<>> /\ doomed' = doomed \union ConnsOf(idles)
        /\ UNCHANGED <<conn, victim, open, cleaner, cleanerCh>>
    BY <1>5, OwnTypes DEF Close, calls, sweep
  <2>2. Distinct(<<>>) /\ ConnsOf(<<>>) = {}
    BY DEF Distinct, ConnsOf
  <2>3. Own({}, conn, doomed \union ConnsOf(idles), victim, open)
    BY OwnTypes, OwnShut DEF OwnInv
  <2> QED BY <2>1, <2>2, <2>3 DEF OwnInv, CleanerInv
<1>6. CASE CloseDoomed
  <2>1. PICK c \in doomed : doomed' = doomed \ {c} /\ open' = open \ {c}
    BY <1>6 DEF CloseDoomed, CloseConn
  <2>2. c \in Conns /\ UNCHANGED <<idles, conn, victim, cleaner, cleanerCh>>
    BY <1>6, OwnTypes DEF CloseDoomed, pool, calls, sweep
  <2>3. Own(ConnsOf(idles), conn, doomed \ {c}, victim, open \ {c})
    BY <2>2, OwnTypes, OwnRetires DEF OwnInv
  <2> QED BY <2>1, <2>2, <2>3 DEF OwnInv, CleanerInv
<1>7. ASSUME NEW k \in Configs, Reload(k) PROVE OwnInv'
  <2>1. UNCHANGED <<idles, conn, doomed, victim, open>>
    BY <1>7 DEF Reload, calls
  <2>2. CleanerInv'
    BY <1>7 DEF Reload, StartCleaner, OwnInv, CleanerInv
  <2> QED BY <2>1, <2>2 DEF OwnInv
<1>8. CASE CleanerWake
  <2>1. cleanerCh # "nil" /\ cleanerCh' # "nil" /\ cleaner = "select"
    BY <1>8 DEF CleanerWake, OwnInv, CleanerInv
  <2>2. CASE closed \/ conf.IdleTimeout = 0
    BY <1>8, <2>1, <2>2 DEF CleanerWake, calls, OwnInv, CleanerInv
  <2>3. CASE ~(closed \/ conf.IdleTimeout = 0)
    BY <1>8, <2>1, <2>3, SweepOwns DEF CleanerWake
  <2> QED BY <2>2, <2>3
<1>9. CASE CleanerRelock
  BY <1>9, SweepOwns DEF CleanerRelock, OwnInv, CleanerInv
<1>10. CASE CleanerClose
  <2>1. /\ victim \in Conns /\ victim' = NoConn /\ open' = open \ {victim} /\ cleaner' = "relock"
        /\ UNCHANGED <<idles, conn, doomed, cleanerCh>> /\ cleanerCh # "nil"
    BY <1>10 DEF CleanerClose, CloseConn, pool, calls, OwnInv, CleanerInv
  <2>2. Own(ConnsOf(idles), conn, doomed, NoConn, open \ {victim})
    BY <2>1, OwnTypes, OwnRetires DEF OwnInv
  <2> QED BY <2>1, <2>2, ConnsAssumption DEF OwnInv, CleanerInv
<1>11. CASE Tick \/ UNCHANGED vars
  BY <1>11 DEF Tick, vars, pool, calls, sweep, OwnInv, CleanerInv
<1> QED BY <1>1, <1>2, <1>3, <1>4, <1>5, <1>6, <1>7, <1>8, <1>9, <1>10, <1>11, PutOwns
        DEF Next, GetStep, Cleaner

LEMMA InitOwns == Init => OwnInv
<1> SUFFICES ASSUME Init PROVE OwnInv
  OBVIOUS
<1>1. Distinct(idles) /\ ConnsOf(idles) = {}
  BY DEF Init, Distinct, ConnsOf
<1>2. Own({}, conn, doomed, victim, open)
  BY ConnsAssumption DEF Init, Own
<1>3. CleanerInv
  BY ConnsAssumption DEF Init, CleanerInv
<1> QED BY <1>1, <1>2, <1>3 DEF OwnInv

\* No connection is in two places: idle twice, lent to two callers, lent
\* while idle, or closed by one while another has it.
THEOREM OwnedOnce == Spec => []OneOwner
<1>1. IndInv /\ OwnInv => OneOwner
  <2> SUFFICES ASSUME IndInv, OwnInv PROVE OneOwner
    OBVIOUS
  <2>1. \A p \in In(InHand) : p \in Clients /\ conn[p] \in Conns
    BY OwnTypes DEF In
  <2> QED BY <2>1, OwnTypes DEF OwnInv, Own, Distinct, OneOwner
<1> QED BY <1>1, InitInd, NextKeeps, InitOwns, NextOwns, PTL DEF Spec

\* The connections open are those some party still has: none leaks, none is
\* closed under its user.
THEOREM NothingLeaks == Spec => []NoLeak
<1>1. IndInv /\ OwnInv => NoLeak
  <2> SUFFICES ASSUME IndInv, OwnInv PROVE NoLeak
    OBVIOUS
  <2> DEFINE Rest == IdleConns \union {conn[p] : p \in In(InHand)} \union doomed \union ({victim} \ {NoConn})
  <2>1. \A p \in Clients : p \in In(InHand) <=> conn[p] \in Conns
    BY OwnTypes, ConnsAssumption DEF In
  <2>2. open \subseteq Conns /\ Rest \subseteq Conns
    BY <2>1, OwnTypes DEF In
  <2>3. \A c \in Conns : c \in open <=> c \in Rest
    BY <2>1, OwnTypes, ConnsAssumption DEF OwnInv, Own, In
  <2> QED BY <2>2, <2>3 DEF NoLeak
<1> QED BY <1>1, InitInd, NextKeeps, InitOwns, NextOwns, PTL DEF Spec

\* Once the pool is closed nothing is left in it: the connections open are
\* those its callers have not given back and those somebody is about to close,
\* and active counts calls alone. When the last of them has ended every
\* connection is closed and every slot free (list.go:127-131, 212-219, 224-236).
THEOREM ClosedKeepsNothing ==
  Spec => [](closed => /\ open = {conn[p] : p \in In(InHand)} \union doomed \union ({victim} \ {NoConn})
                       /\ active = Cardinality(In(Charged)))
<1>1. Init => DrainInv
  BY DEF Init, DrainInv
<1>2. IndInv /\ DrainInv /\ [Next]_vars => DrainInv'
  BY NextDrains
<1>3. ASSUME IndInv, DrainInv, NoLeak, closed
      PROVE  /\ open = {conn[p] : p \in In(InHand)} \union doomed \union ({victim} \ {NoConn})
             /\ active = Cardinality(In(Charged))
  <2>1. idles = <<>> /\ Len(idles) = 0 /\ IdleConns = {}
    BY <1>3 DEF DrainInv, IdleConns
  <2>2. IsFiniteSet(In(Charged)) /\ Cardinality(In(Charged)) \in Nat
    BY UsedType DEF In, ChargedIn, Used
  <2>3. active = Len(idles) + Cardinality(In(Charged))
    BY <1>3 DEF IndInv, ActiveExact
  <2>4. active = Cardinality(In(Charged))
    BY <2>1, <2>2, <2>3
  <2> QED BY <1>3, <2>1, <2>4 DEF NoLeak
<1> QED BY <1>1, <1>2, <1>3, InitInd, NextKeeps, NothingLeaks, PTL DEF Spec

-----------------------------------------------------------------------------
(* The order of the idle items: none is younger than the one before it, and *)
(* none is from the future, so that the next to be pushed is the youngest.  *)

Aging(s, t) ==
  /\ \A i, j \in 1..Len(s) : i < j => s[i].at >= s[j].at
  /\ \A i \in 1..Len(s) : s[i].at <= t

\* A stretch of it is in order as well.
LEMMA AgingPart ==
  ASSUME NEW s \in Seq(Item), NEW r \in Seq(Item), NEW t, NEW d \in Nat, Aging(s, t),
         Len(r) + d <= Len(s), \A i \in 1..Len(r) : r[i] = s[i + d]
  PROVE  Aging(r, t)
<1>1. Len(r) \in Nat /\ Len(s) \in Nat
  OBVIOUS
<1>2. \A i \in 1..Len(r) : i + d \in 1..Len(s)
  BY <1>1
<1>3. \A i, j \in 1..Len(r) : i < j => r[i].at >= r[j].at
  <2> SUFFICES ASSUME NEW i \in 1..Len(r), NEW j \in 1..Len(r), i < j PROVE r[i].at >= r[j].at
    OBVIOUS
  <2>1. i + d \in 1..Len(s) /\ j + d \in 1..Len(s) /\ i + d < j + d
    BY <1>1, <1>2
  <2>2. r[i] = s[i + d] /\ r[j] = s[j + d]
    OBVIOUS
  <2>3. s[i + d].at >= s[j + d].at
    BY <2>1 DEF Aging
  <2> QED BY <2>2, <2>3
<1>4. \A i \in 1..Len(r) : r[i].at <= t
  BY <1>2 DEF Aging
<1> QED BY <1>3, <1>4 DEF Aging

LEMMA AgingTail ==
  ASSUME NEW s \in Seq(Item), NEW t, s # <<>>, Aging(s, t)
  PROVE  Aging(Tail(s), t)
<1>1. Tail(s) \in Seq(Item) /\ Len(Tail(s)) = Len(s) - 1 /\ \A i \in 1..Len(Tail(s)) : Tail(s)[i] = s[i + 1]
  BY HeadTailProperties
<1>2. Len(Tail(s)) + 1 <= Len(s) /\ 1 \in Nat
  BY <1>1
<1> QED BY <1>1, <1>2, AgingPart

LEMMA AgingButBack ==
  ASSUME NEW s \in Seq(Item), NEW t, s # <<>>, Aging(s, t)
  PROVE  Aging(ButBack(s), t)
<1>1. Len(ButBack(s)) = Len(s) - 1 /\ \A i \in 1..Len(s) - 1 : ButBack(s)[i] = s[i]
  BY ButBackIs
<1>2. ButBack(s) \in Seq(Item)
  <2>1. PICK e \in Item : TRUE
    BY HeadTailProperties
  <2> QED BY <2>1, ItemSeqs
<1>3. /\ Len(ButBack(s)) + 0 <= Len(s) /\ 0 \in Nat
      /\ \A i \in 1..Len(ButBack(s)) : ButBack(s)[i] = s[i + 0]
  BY <1>1
<1> QED BY <1>2, <1>3, AgingPart

LEMMA AgingPushed ==
  ASSUME NEW s \in Seq(Item), NEW e \in Item, NEW t \in Nat, e.at = t, Aging(s, t)
  PROVE  Aging(<<e>> \o s, t)
<1> DEFINE r == <<e>> \o s
<1>1. /\ Len(r) = Len(s) + 1 /\ Len(s) \in Nat /\ r[1] = e
      /\ \A i \in 2..Len(s) + 1 : r[i] = s[i - 1]
  OBVIOUS
<1> HIDE DEF r
<1>2. \A i \in 2..Len(s) + 1 : i - 1 \in 1..Len(s) /\ r[i].at <= t
  <2> TAKE i \in 2..Len(s) + 1
  <2>1. i - 1 \in 1..Len(s) /\ r[i] = s[i - 1]
    BY <1>1
  <2> QED BY <2>1 DEF Aging
<1>3. \A i \in 1..Len(r) : i = 1 \/ i \in 2..Len(s) + 1
  BY <1>1
<1>4. \A i \in 1..Len(r) : r[i].at <= t
  BY <1>1, <1>2, <1>3
<1>5. \A i, j \in 1..Len(r) : i < j => r[i].at >= r[j].at
  <2> SUFFICES ASSUME NEW i \in 1..Len(r), NEW j \in 1..Len(r), i < j PROVE r[i].at >= r[j].at
    OBVIOUS
  <2>1. j \in 2..Len(s) + 1
    BY <1>1, <1>3
  <2>2. CASE i = 1
    <3>1. r[j].at <= t /\ r[j] = s[j - 1] /\ j - 1 \in 1..Len(s)
      BY <1>1, <1>2, <2>1
    <3>2. s[j - 1] \in Item
      BY <3>1, ElementOfSeq
    <3>3. r[j].at \in Int
      BY <3>1, <3>2 DEF Item
    <3> QED BY <1>1, <2>2, <3>1, <3>3
  <2>3. CASE i # 1
    <3>1. /\ i - 1 \in 1..Len(s) /\ j - 1 \in 1..Len(s) /\ i - 1 < j - 1
          /\ r[i] = s[i - 1] /\ r[j] = s[j - 1]
      BY <1>1, <1>2, <1>3, <2>1, <2>3
    <3>2. s[i - 1].at >= s[j - 1].at
      BY <3>1 DEF Aging
    <3> QED BY <3>1, <3>2
  <2> QED BY <2>2, <2>3
<1> QED BY <1>4, <1>5 DEF Aging, r

\* As time passes the items stay in order.
LEMMA AgingLater ==
  ASSUME NEW s \in Seq(Item), NEW t \in Nat, Aging(s, t)
  PROVE  Aging(s, t + 1)
<1>1. \A i \in 1..Len(s) : s[i].at \in Nat
  <2> TAKE i \in 1..Len(s)
  <2>1. s[i] \in Item
    BY ElementOfSeq
  <2> QED BY <2>1 DEF Item
<1> QED BY <1>1 DEF Aging

AgeInv == Aging(idles, now)

LEMMA NextAges == IndInv /\ AgeInv /\ [Next]_vars => AgeInv'
<1> SUFFICES ASSUME IndInv, AgeInv, [Next]_vars PROVE AgeInv'
  OBVIOUS
<1>0. idles \in Seq(Item) /\ now \in 0..MaxNow /\ now \in Nat /\ Aging(idles, now)
  BY BoundAssumption DEF IndInv, TypeOK, AgeInv
<1>1. ASSUME NEW p, NEW n, NEW a, NEW f, GetLoop(p, n, a, f) PROVE AgeInv'
  <2>1. CASE PopIdle(p, n, a, f)
    <3>1. idles # <<>> /\ idles' = Tail(idles) /\ now' = now
      BY <1>1, <2>1 DEF GetLoop, PopIdle
    <3> QED BY <1>0, <3>1, AgingTail DEF AgeInv
  <2>2. CASE NoIdle(p, a, f)
    BY <1>1, <2>2 DEF GetLoop, NoIdle, AgeInv
  <2> QED BY <1>1, <2>1, <2>2 DEF GetLoop
<1>2. ASSUME NEW p \in Clients, GetStart(p) \/ RetryAfterStale(p) \/ WakeUp(p) PROVE AgeInv'
  BY <1>1, <1>2 DEF GetStart, RetryAfterStale, WakeUp
<1>3. ASSUME NEW p \in Clients,
             \/ CheckExpired(p) \/ CloseStale(p) \/ DialOk(p) \/ DialFail(p) \/ EnterSelect(p)
             \/ WaitTimedOut(p) \/ CtxDone(p) \/ PutDropped(p) \/ CloseReturned(p)
      PROVE  AgeInv'
  BY <1>3 DEF CheckExpired, CloseStale, DialOk, DialFail, EnterSelect, WaitTimedOut, CtxDone,
              PutDropped, CloseReturned, pool, AgeInv
<1>4. ASSUME NEW p \in Clients, PutKept(p) \/ PutEvicting(p) PROVE AgeInv'
  <2> DEFINE e == [c |-> conn[p], at |-> now]
  <2>1. conn[p] \in Conns /\ now' = now
    BY <1>4, OwnTypes DEF PutKept, PutEvicting, InHand
  <2>2. e \in Item /\ e.at = now /\ Pushed(p) = <<e>> \o idles
    BY <1>0, <2>1 DEF Item, Pushed
  <2> HIDE DEF e
  <2>3. Pushed(p) \in Seq(Item) /\ Pushed(p) # <<>> /\ Aging(Pushed(p), now)
    <3>1. Pushed(p) \in Seq(Item) /\ Len(Pushed(p)) = Len(idles) + 1
      BY <1>0, <2>2, ItemSeqs
    <3>2. Pushed(p) # <<>>
      BY <1>0, <3>1
    <3> QED BY <1>0, <2>2, <3>1, <3>2, AgingPushed
  <2>4. Aging(ButBack(Pushed(p)), now)
    BY <2>3, AgingButBack
  <2> QED BY <1>4, <2>1, <2>3, <2>4 DEF PutKept, PutEvicting, AgeInv
<1>5. CASE Close
  BY <1>5, EmptySeq DEF Close, Aging, AgeInv
<1>6. CASE CloseDoomed \/ (\E k \in Configs : Reload(k)) \/ CleanerClose \/ UNCHANGED vars
  BY <1>6 DEF CloseDoomed, Reload, CleanerClose, pool, vars, AgeInv
<1>7. ASSUME NEW n, Sweep(n) PROVE AgeInv'
  <2>1. CASE n > 0 /\ idles # <<>> /\ Expired(Back(idles).at, conf.IdleTimeout)
    <3>1. idles # <<>> /\ idles' = ButBack(idles) /\ now' = now
      BY <1>7, <2>1 DEF Sweep
    <3> QED BY <1>0, <3>1, AgingButBack DEF AgeInv
  <2>2. CASE ~(n > 0 /\ idles # <<>> /\ Expired(Back(idles).at, conf.IdleTimeout))
    BY <1>7, <2>2 DEF Sweep, AgeInv
  <2> QED BY <2>1, <2>2
<1>8. CASE CleanerWake \/ CleanerRelock
  BY <1>7, <1>8 DEF CleanerWake, CleanerRelock, AgeInv
<1>9. CASE Tick
  <2>1. idles' = idles /\ now' = now + 1
    BY <1>9 DEF Tick, pool
  <2> QED BY <1>0, <2>1, AgingLater DEF AgeInv
<1> QED BY <1>2, <1>3, <1>4, <1>5, <1>6, <1>8, <1>9 DEF Next, GetStep, Put, Cleaner

\* From front to back the idle items only get older, however Puts, pops at
\* both ends and sweeps interleave: the first that has not expired ends a sweep.
THEOREM OldestLast == Spec => []IdlesOrdered
<1>1. Init => AgeInv
  BY EmptySeq DEF Init, AgeInv, Aging
<1>2. AgeInv => IdlesOrdered
  BY DEF AgeInv, Aging, IdlesOrdered
<1> QED BY <1>1, <1>2, InitInd, NextKeeps, NextAges, PTL DEF Spec

-----------------------------------------------------------------------------
(* The cleaner, once gone, and the signals. *)

Gone == cleaner = "exited" => cleaner' = "exited"

\* A cleaner that has exited is not replaced, whatever Reload asks for: it
\* leaves its channel behind.
THEOREM NoSecondCleaner == Spec => CleanerGoneForGood
<1>1. OwnInv /\ [Next]_vars => [Gone]_vars
  <2> SUFFICES ASSUME OwnInv, Next, cleaner = "exited" PROVE cleaner' = "exited"
    BY DEF Gone
  <2>1. cleanerCh # "nil"
    BY DEF OwnInv, CleanerInv
  <2>2. ASSUME NEW p \in Clients,
               GetStart(p) \/ GetStep(p) \/ CtxDone(p) \/ Put(p) \/ CloseReturned(p)
        PROVE  cleaner' = "exited"
    BY <2>2 DEF GetStart, GetStep, CheckExpired, CloseStale, RetryAfterStale, DialOk, DialFail,
                EnterSelect, WaitTimedOut, WakeUp, GetLoop, CtxDone, Put, PutKept, PutEvicting,
                PutDropped, CloseReturned, sweep
  <2>3. ASSUME NEW k \in Configs, Reload(k) PROVE cleaner' = "exited"
    BY <2>1, <2>3 DEF Reload, StartCleaner
  <2>4. ASSUME Close \/ CloseDoomed \/ Tick PROVE cleaner' = "exited"
    BY <2>4 DEF Close, CloseDoomed, Tick, sweep
  <2>5. ~Cleaner
    BY DEF Cleaner, CleanerWake, CleanerClose, CleanerRelock
  <2> QED BY <2>2, <2>3, <2>4, <2>5 DEF Next
<1>2. Gone <=> (cleaner = "exited" => cleaner' = "exited")
  BY DEF Gone
<1> QED BY <1>1, <1>2, InitInd, NextKeeps, InitOwns, NextOwns, PTL DEF Spec, CleanerGoneForGood

Wakes == InUse' < InUse /\ Waiting(pc) # {} => \E q \in Waiting(pc) : pc'[q] # "waiting"

\* A signal, when somebody waits, is received, whatever the signaller does next.
LEMMA SignalWakes ==
  ASSUME TypeOK, NEW f \in Signal(pc), NEW p \in Clients, pc[p] # "waiting",
         NEW v, pc' = [f EXCEPT ![p] = v]
  PROVE  Wakes
<1>1. ASSUME Waiting(pc) # {} PROVE \E q \in Waiting(pc) : pc'[q] # "waiting"
  <2>1. PICK q \in Waiting(pc) : f = [pc EXCEPT ![q] = "woken"]
    BY <1>1 DEF Signal
  <2>2. q \in Clients /\ q # p /\ pc \in [Clients -> PCs]
    BY DEF Waiting, TypeOK
  <2>3. pc'[q] = "woken"
    BY <2>1, <2>2
  <2> QED BY <2>3
<1> QED BY <1>1 DEF Wakes

LEMMA NextWakes == IndInv /\ [Next]_vars => [Wakes]_vars
<1> SUFFICES ASSUME IndInv, Next PROVE Wakes
  OBVIOUS
<1>0. TypeOK /\ active \in Nat /\ idles \in Seq(Item) /\ Len(idles) \in Nat
  BY DEF IndInv, TypeOK
<1>1. ASSUME NEW p \in Clients, NEW n, NEW a \in Int, NEW f, GetLoop(p, n, a, f)
      PROVE  /\ InUse' >= a - Len(idles) /\ InUse' \in Int
             /\ \E v : pc' = [f EXCEPT ![p] = v]
  <2>1. CASE PopIdle(p, n, a, f)
    <3>1. idles # <<>> /\ idles' = Tail(idles) /\ active' = a /\ pc' = [f EXCEPT ![p] = "got"]
      BY <2>1 DEF PopIdle
    <3>2. Len(idles') = Len(idles) - 1
      BY <1>0, <3>1, HeadTailProperties
    <3>3. InUse' >= a - Len(idles) /\ InUse' \in Int
      BY <1>0, <3>1, <3>2 DEF InUse
    <3> QED BY <3>1, <3>3
  <2>2. CASE NoIdle(p, a, f)
    <3>1. idles' = idles /\ active' \in {a, a + 1}
      BY <2>2 DEF NoIdle
    <3>2. \E v : pc' = [f EXCEPT ![p] = v]
      BY <2>2 DEF NoIdle
    <3>3. InUse' >= a - Len(idles) /\ InUse' \in Int
      BY <1>0, <3>1 DEF InUse
    <3> QED BY <3>2, <3>3
  <2> QED BY <1>1, <2>1, <2>2 DEF GetLoop
<1>2. ASSUME NEW p \in Clients, GetStart(p) \/ WakeUp(p) PROVE Wakes
  <2>1. GetLoop(p, Len(idles), active, pc) /\ active \in Int
    BY <1>0, <1>2 DEF GetStart, WakeUp
  <2>2. InUse' >= InUse /\ InUse' \in Int /\ InUse \in Int
    BY <1>0, <1>1, <2>1 DEF InUse
  <2> QED BY <2>2 DEF Wakes
<1>3. ASSUME NEW p \in Clients, RetryAfterStale(p) PROVE Wakes
  <2>1. PICK f \in Signal(pc) : GetLoop(p, left[p], Released, f)
    BY <1>3 DEF RetryAfterStale
  <2>2. Released \in Int /\ pc[p] # "waiting"
    BY <1>0, <1>3 DEF Released, RetryAfterStale
  <2>3. \E v : pc' = [f EXCEPT ![p] = v]
    <3> DEFINE n == left[p]
               a == Released
    <3>1. GetLoop(p, n, a, f) /\ a \in Int
      BY <2>1, <2>2
    <3> HIDE DEF n, a
    <3> QED BY <1>1, <3>1
  <2>4. PICK v : pc' = [f EXCEPT ![p] = v]
    BY <2>3
  <2> QED BY <1>0, <2>2, <2>4, SignalWakes
<1>4. ASSUME NEW p \in Clients,
             \/ CheckExpired(p) \/ CloseStale(p) \/ DialOk(p) \/ EnterSelect(p)
             \/ WaitTimedOut(p) \/ CtxDone(p) \/ CloseReturned(p)
      PROVE  Wakes
  <2>1. active' = active /\ idles' = idles
    BY <1>4 DEF CheckExpired, CloseStale, DialOk, EnterSelect, WaitTimedOut, CtxDone, CloseReturned, pool
  <2> QED BY <1>0, <2>1 DEF Wakes, InUse
<1>5. ASSUME NEW p \in Clients, DialFail(p) \/ Put(p) PROVE Wakes
  <2>1. PICK f \in Signal(pc), v \in {"out", "closing"} : pc[p] # "waiting" /\ pc' = [f EXCEPT ![p] = v]
    BY <1>5 DEF DialFail, Put, PutKept, PutEvicting, PutDropped
  <2> QED BY <1>0, <2>1, SignalWakes
<1>6. CASE Close
  <2>1. active' = active - Len(idles) /\ Len(idles') = 0
    BY <1>6, EmptySeq DEF Close
  <2> QED BY <1>0, <2>1 DEF Wakes, InUse
<1>7. CASE CloseDoomed \/ (\E k \in Configs : Reload(k)) \/ CleanerClose \/ Tick
  <2>1. active' = active /\ idles' = idles
    BY <1>7 DEF CloseDoomed, Reload, CleanerClose, Tick, pool
  <2> QED BY <1>0, <2>1 DEF Wakes, InUse
<1>8. ASSUME NEW n, Sweep(n) PROVE Wakes
  <2>1. CASE n > 0 /\ idles # <<>> /\ Expired(Back(idles).at, conf.IdleTimeout)
    <3>1. idles # <<>> /\ idles' = ButBack(idles) /\ active' = active - 1
      BY <1>8, <2>1 DEF Sweep, Released
    <3>2. Len(idles') = Len(idles) - 1
      BY <1>0, <3>1, ButBackIs
    <3> QED BY <1>0, <3>1, <3>2 DEF Wakes, InUse
  <2>2. CASE ~(n > 0 /\ idles # <<>> /\ Expired(Back(idles).at, conf.IdleTimeout))
    <3>1. active' = active /\ idles' = idles
      BY <1>8, <2>2 DEF Sweep
    <3> QED BY <1>0, <3>1 DEF Wakes, InUse
  <2> QED BY <2>1, <2>2
<1>9. CASE CleanerWake /\ (closed \/ conf.IdleTimeout = 0)
  <2>1. active' = active /\ idles' = idles
    BY <1>9 DEF CleanerWake
  <2> QED BY <1>0, <2>1 DEF Wakes, InUse
<1>10. CASE CleanerRelock \/ (CleanerWake /\ ~(closed \/ conf.IdleTimeout = 0))
  BY <1>8, <1>10 DEF CleanerWake, CleanerRelock
<1> QED BY <1>2, <1>3, <1>4, <1>5, <1>6, <1>7, <1>9, <1>10 DEF Next, GetStep, Cleaner

\* A step after which fewer connections are in use or being opened wakes a
\* caller that is parked, if there is one: no path out of a slot forgets to.
THEOREM SlotsWake == Spec => ReturnsWake
<1>1. Wakes <=> (InUse' < InUse /\ Waiting(pc) # {} => \E p \in Waiting(pc) : pc'[p] # "waiting")
  BY DEF Wakes
<1> QED BY <1>1, InitInd, NextKeeps, NextWakes, PTL DEF Spec, ReturnsWake

-----------------------------------------------------------------------------
(* List keeps the contract of a pool: every step of ListPool is, seen through *)
(* Phase and Holder, one step of PoolContract or none.                        *)

\* the connections lent, by client
Lends == [p \in Clients |-> IF pc[p] \in {"got", "holding"} THEN conn[p] ELSE NoConn]

\* I, L and o are idle, lent and open, each connection at one place.
Apart(I, L, o) ==
  /\ o \subseteq Conns /\ I \subseteq o
  /\ L \in [Clients -> Conns \union {NoConn}]
  /\ \A p \in Clients : L[p] \in Conns => L[p] \in o \ I
  /\ \A p, q \in Clients : L[p] \in Conns /\ L[p] = L[q] => p = q

\* P and H are the phases and the holders then.
Shows(P, H, I, L, o) ==
  /\ P \in [Conns -> {"none", "spare", "lent", "doomed"}]
  /\ H \in [Conns -> Clients \union {NoConn}]
  /\ \A c \in Conns : /\ P[c] = "none" <=> c \notin o
                      /\ P[c] = "spare" <=> c \in I
                      /\ P[c] = "lent" <=> \E p \in Clients : L[p] = c
  /\ \A c \in Conns, p \in Clients : H[c] = p <=> L[p] = c

Shown == Apart(IdleConns, Lends, open) /\ Shows(Phase, Holder, IdleConns, Lends, open)

LEMMA ShownNow == IndInv /\ OwnInv => Shown
<1> SUFFICES ASSUME IndInv, OwnInv PROVE Shown
  OBVIOUS
<1>1. /\ Apart(IdleConns, Lends, open)
      /\ \A p \in Clients : Lends[p] \in Conns <=> p \in In({"got", "holding"})
      /\ \A p \in Clients : Lends[p] \in Conns => Lends[p] = conn[p]
  BY OwnTypes, ConnsAssumption DEF OwnInv, Own, Lends, In, InHand, Apart
<1>2. ASSUME NEW c \in Conns
      PROVE  /\ PhaseOf(c) \in {"none", "spare", "lent", "doomed"}
             /\ PhaseOf(c) = "none" <=> c \notin open
             /\ PhaseOf(c) = "spare" <=> c \in IdleConns
             /\ PhaseOf(c) = "lent" <=> \E p \in Clients : Lends[p] = c
  <2>1. (\E p \in In({"got", "holding"}) : conn[p] = c) <=> \E p \in Clients : Lends[p] = c
    BY <1>1 DEF In, Apart
  <2> QED BY <1>1, <2>1 DEF PhaseOf, Apart
<1>3. ASSUME NEW c \in Conns
      PROVE  /\ HolderOf(c) \in Clients \union {NoConn}
             /\ \A p \in Clients : HolderOf(c) = p <=> Lends[p] = c
  <2>1. CASE PhaseOf(c) = "lent"
    <3>1. PICK p \in Clients : Lends[p] = c
      BY <1>2, <2>1
    <3>2. p \in In({"got", "holding"}) /\ conn[p] = c
      BY <1>1, <3>1
    <3>3. \A q \in In({"got", "holding"}) : conn[q] = c => q = p
      BY <1>1, <3>1 DEF In, Apart
    <3>4. HolderOf(c) = p
      BY <2>1, <3>2, <3>3 DEF HolderOf
    <3> QED BY <1>1, <3>1, <3>4 DEF Apart
  <2>2. CASE PhaseOf(c) # "lent"
    <3>1. HolderOf(c) = NoConn
      BY <2>2 DEF HolderOf
    <3>2. \A p \in Clients : Lends[p] # c /\ NoConn # p
      BY <1>2, <2>2, ConnsAssumption
    <3> QED BY <3>1, <3>2
  <2> QED BY <2>1, <2>2
<1> QED BY <1>1, <1>2, <1>3 DEF Shown, Shows, Phase, Holder

LEMMA ShownThen == (IndInv /\ OwnInv)' => Shown'
BY ShownNow, PTL

-----------------------------------------------------------------------------
(* What becomes of phases and holders when connections are moved. *)

With(f, x, v) == [f EXCEPT ![x] = v]
Aside(P, D) == [d \in Conns |-> IF d \in D THEN "doomed" ELSE P[d]]
Freed(H, D) == [d \in Conns |-> IF d \in D THEN NoConn ELSE H[d]]

LEMMA SameSeen ==
  ASSUME NEW P, NEW H, NEW Q, NEW G, NEW I, NEW L, NEW o,
         Shows(P, H, I, L, o), Shows(Q, G, I, L, o)
  PROVE  Q = P /\ G = H
<1>1. Q = P
  BY DEF Shows
<1>2. G = H
  <2>1. \A c \in Conns : G[c] = H[c]
    BY ConnsAssumption DEF Shows
  <2> QED BY <2>1 DEF Shows
<1> QED BY <1>1, <1>2

\* c goes to p, from the idle ones or newly opened.
LEMMA LentSeen ==
  ASSUME NEW P, NEW H, NEW Q, NEW G, NEW I, NEW L, NEW o, 
         NEW p \in Clients, NEW c \in Conns, L[p] = NoConn, \A q \in Clients : L[q] # c,
         Apart(I, L, o), Shows(P, H, I, L, o),
         Shows(Q, G, I \ {c}, [L EXCEPT ![p] = c], o \union {c})
  PROVE  Q = With(P, c, "lent") /\ G = With(H, c, p)
<1> DEFINE M == [L EXCEPT ![p] = c]
<1>1. \A d \in Conns : (\E q \in Clients : M[q] = d) <=> d = c \/ \E q \in Clients : L[q] = d
  BY ConnsAssumption DEF Apart
<1>2. \A d \in Conns : Q[d] = IF d = c THEN "lent" ELSE P[d]
  BY <1>1 DEF Shows
<1>3. Q = [P EXCEPT ![c] = "lent"]
  BY <1>2 DEF Shows
<1>4. \A d \in Conns, q \in Clients : M[q] = d <=> IF d = c THEN q = p ELSE L[q] = d
  BY ConnsAssumption DEF Apart
<1>5. \A d \in Conns : G[d] = IF d = c THEN p ELSE H[d]
  BY <1>4, ConnsAssumption DEF Shows
<1>6. G = [H EXCEPT ![c] = p]
  BY <1>5 DEF Shows
<1> QED BY <1>3, <1>6 DEF With

Has(L, p, c) == L[p] = c

\* c comes to the idle ones, and those of D go.
Evicts(I, c, D, J) == D \subseteq I \union {c} /\ J = (I \union {c}) \ D

\* p gives c back. The connections of D, idle ones or c, are set aside.
LEMMA BackSeen ==
  ASSUME NEW P, NEW H, NEW Q, NEW G, NEW I, NEW L, NEW o,
         NEW p \in Clients, NEW c \in Conns, Has(L, p, c), NEW D, NEW J, Evicts(I, c, D, J),
         Apart(I, L, o), Shows(P, H, I, L, o),
         Shows(Q, G, J, With(L, p, NoConn), o)
  PROVE  Q = Aside(With(P, c, "spare"), D) /\ G = Freed(H, {c})
<1> DEFINE M == With(L, p, NoConn)
<1>1. \A d \in Conns, q \in Clients : M[q] = d <=> L[q] = d /\ d # c
  BY ConnsAssumption DEF Apart, With, Has
<1>2. \A d \in Conns : (\E q \in Clients : M[q] = d) <=> d # c /\ \E q \in Clients : L[q] = d
  BY <1>1
<1>3. c \in o \ I
  BY DEF Apart, Has
<1>4. \A d \in Conns : Q[d] = IF d \in D THEN "doomed" ELSE IF d = c THEN "spare" ELSE P[d]
  <2> TAKE d \in Conns
  <2>1. CASE d = c
    BY <1>2, <1>3, <2>1 DEF Shows, Evicts
  <2>2. CASE d # c
    <3>1. d \in D => d \in o /\ d \in I
      BY <2>2 DEF Apart, Evicts
    <3>2. P[d] = "none" <=> d \notin o
      BY DEF Shows
    <3>3. P[d] = "spare" <=> d \in I
      BY DEF Shows
    <3>4. P[d] = "lent" <=> \E q \in Clients : L[q] = d
      BY DEF Shows
    <3>5. Q[d] = "none" <=> d \notin o
      BY DEF Shows
    <3>6. Q[d] = "spare" <=> d \in I \ D
      BY <2>2 DEF Shows, Evicts
    <3>7. Q[d] = "lent" <=> \E q \in Clients : L[q] = d
      BY <1>2, <2>2 DEF Shows
    <3>8. P[d] \in {"none", "spare", "lent", "doomed"} /\ Q[d] \in {"none", "spare", "lent", "doomed"}
      BY DEF Shows
    <3>9. d \in I => ~\E q \in Clients : L[q] = d
      BY DEF Apart
    <3> QED BY <2>2, <3>1, <3>2, <3>3, <3>4, <3>5, <3>6, <3>7, <3>8, <3>9
  <2> QED BY <2>1, <2>2
<1>5. \A d \in Conns : G[d] = IF d = c THEN NoConn ELSE H[d]
  BY <1>1, ConnsAssumption DEF Shows
<1>6. Q = [d \in Conns |-> Q[d]] /\ G = [d \in Conns |-> G[d]] /\ P = [d \in Conns |-> P[d]]
  BY DEF Shows
<1> QED BY <1>4, <1>5, <1>6 DEF Aside, Freed, With

\* p's connection, which does not stay in the pool
LEMMA DroppedSeen ==
  ASSUME NEW P, NEW H, NEW Q, NEW G, NEW I, NEW L, NEW o,
         NEW p \in Clients, NEW c \in Conns, L[p] = c,
         Apart(I, L, o), Shows(P, H, I, L, o), Shows(Q, G, I, With(L, p, NoConn), o)
  PROVE  Q = Aside(P, {c}) /\ G = Freed(H, {c})
<1> DEFINE M == With(L, p, NoConn)
<1>1. \A d \in Conns, q \in Clients : M[q] = d <=> L[q] = d /\ d # c
  BY ConnsAssumption DEF Apart, With
<1>2. \A d \in Conns : (\E q \in Clients : M[q] = d) <=> d # c /\ \E q \in Clients : L[q] = d
  BY <1>1
<1>3. c \in o \ I
  BY DEF Apart
<1>4. \A d \in Conns : Q[d] = IF d = c THEN "doomed" ELSE P[d]
  BY <1>2, <1>3 DEF Shows
<1>5. \A d \in Conns : G[d] = IF d = c THEN NoConn ELSE H[d]
  BY <1>1, ConnsAssumption DEF Shows
<1>6. Q = [d \in Conns |-> Q[d]] /\ G = [d \in Conns |-> G[d]]
  BY DEF Shows
<1> QED BY <1>4, <1>5, <1>6 DEF Aside, Freed, With

\* The idle connections of D are set aside.
LEMMA RetiredSeen ==
  ASSUME NEW P, NEW H, NEW Q, NEW G, NEW I, NEW L, NEW o, NEW D,
         Apart(I, L, o), Shows(P, H, I, L, o), Shows(Q, G, I \ D, L, o), D \subseteq I
  PROVE  Q = Aside(P, D) /\ G = Freed(H, D) /\ G = H
<1>1. \A d \in D : d \in o \ {} /\ \A q \in Clients : L[q] # d
  BY DEF Apart
<1>2. \A d \in Conns : Q[d] = IF d \in D THEN "doomed" ELSE P[d]
  BY <1>1 DEF Shows
<1>3. \A d \in Conns : G[d] = H[d] /\ (d \in D => H[d] = NoConn)
  BY <1>1, ConnsAssumption DEF Shows
<1>4. /\ Q = [d \in Conns |-> Q[d]] /\ G = [d \in Conns |-> G[d]] /\ H = [d \in Conns |-> H[d]]
  BY DEF Shows
<1> QED BY <1>2, <1>3, <1>4 DEF Aside, Freed

\* c, set aside before, is closed.
LEMMA ClosedSeen ==
  ASSUME NEW P, NEW H, NEW Q, NEW G, NEW I, NEW L, NEW o, NEW c \in o,
         Apart(I, L, o), Shows(P, H, I, L, o), Shows(Q, G, I, L, o \ {c}),
         c \notin I, \A q \in Clients : L[q] # c
  PROVE  P[c] = "doomed" /\ Q = With(P, c, "none") /\ G = H
<1>1. c \in Conns
  BY DEF Apart
<1>2. P[c] = "doomed"
  BY <1>1 DEF Shows
<1>3. \A d \in Conns : Q[d] = IF d = c THEN "none" ELSE P[d]
  BY <1>1 DEF Shows
<1>4. \A d \in Conns : G[d] = H[d]
  BY ConnsAssumption DEF Shows
<1>5. Q = [P EXCEPT ![c] = "none"]
  BY <1>3 DEF Shows
<1>6. G = H
  BY <1>4 DEF Shows
<1> QED BY <1>2, <1>5, <1>6 DEF With

-----------------------------------------------------------------------------
(* The steps. *)

Sees == Contract!Step \/ UNCHANGED <<Phase, Holder, closed>>

\* What a step must leave alone to be no step of the contract: what is idle
\* and open, and of the calls those that have something.
LEMMA Unseen ==
  ASSUME Shown, Shown', UNCHANGED <<idles, open, closed>>, Lends' = Lends
  PROVE  Sees
<1>1. IdleConns' = IdleConns
  BY DEF IdleConns
<1>2. Shows(Phase', Holder', IdleConns, Lends, open)
  BY <1>1 DEF Shown
<1>3. Phase' = Phase /\ Holder' = Holder
  BY <1>2, SameSeen DEF Shown
<1> QED BY <1>3 DEF Sees

\* A client that gets and keeps nothing does not change what is lent.
LEMMA LendsAre ==
  ASSUME TypeOK, NEW p \in Clients, NEW f, f \in Signal(pc) \/ f = pc, NEW w \in PCs,
         pc' = [f EXCEPT ![p] = w], \A q \in Clients \ {p} : conn'[q] = conn[q]
  PROVE  Lends' = [Lends EXCEPT ![p] = IF w \in {"got", "holding"} THEN conn'[p] ELSE NoConn]
<1>1. /\ f \in [Clients -> PCs]
      /\ \A q \in Clients : f[q] = pc[q] \/ (pc[q] = "waiting" /\ f[q] = "woken")
  <2>1. pc \in [Clients -> PCs]
    BY DEF TypeOK
  <2>2. CASE f \in Signal(pc)
    BY <2>1, <2>2, SignalKeeps
  <2>3. CASE f = pc
    BY <2>1, <2>3
  <2> QED BY <2>2, <2>3
<1>2. \A q \in Clients : Lends'[q] = IF pc'[q] \in {"got", "holding"} THEN conn'[q] ELSE NoConn
  BY DEF Lends
<1>3. \A q \in Clients \ {p} : Lends'[q] = Lends[q]
  BY <1>1, <1>2 DEF Lends
<1>4. Lends'[p] = IF w \in {"got", "holding"} THEN conn'[p] ELSE NoConn
  BY <1>1, <1>2
<1> QED BY <1>3, <1>4 DEF Lends

LEMMA LoopSeen ==
  ASSUME IndInv, OwnInv, DrainInv, Shown, Shown', NEW p \in Clients, conn[p] = NoConn,
         pc[p] \notin {"got", "holding"},
         NEW n, NEW a, NEW f, f \in Signal(pc) \/ f = pc, GetLoop(p, n, a, f)
  PROVE  Sees
<1>1. Lends[p] = NoConn /\ UNCHANGED <<open, closed>>
  BY DEF Lends, GetLoop
<1>2. CASE PopIdle(p, n, a, f)
  <2> DEFINE c == Head(idles).c
  <2>1. /\ idles # <<>> /\ idles' = Tail(idles) /\ pc' = [f EXCEPT ![p] = "got"]
        /\ conn' = [conn EXCEPT ![p] = c]
    BY <1>2 DEF PopIdle
  <2>2. /\ ConnsOf(Tail(idles)) = ConnsOf(idles) \ {c} /\ c \in ConnsOf(idles)
    BY <2>1, OwnTypes, DistinctTail DEF OwnInv
  <2>3. IdleConns' = IdleConns \ {c} /\ c \in IdleConns /\ c \in Conns
    <3>1. IdleConns' = ConnsOf(idles')
      BY DEF IdleConns, ConnsOf
    <3> QED BY <2>1, <2>2, <3>1, OwnTypes
  <2>4. conn \in [Clients -> Conns \union {NoConn}]
    BY OwnTypes
  <2> HIDE DEF c
  <2>5. conn'[p] = c /\ \A q \in Clients \ {p} : conn'[q] = conn[q]
    BY <2>1, <2>4
  <2>6. Lends' = [Lends EXCEPT ![p] = c]
    BY <2>1, <2>5, LendsAre DEF IndInv, PCs, InGet
  <2>7. \A q \in Clients : Lends[q] # c
    BY <2>3 DEF Shown, Apart
  <2>8. Apart(IdleConns, Lends, open) /\ Apart(IdleConns', Lends', open')
    BY DEF Shown
  <2>9. open' = open \union {c}
    BY <1>1, <2>3, <2>8 DEF Apart
  <2>10. Phase' = With(Phase, c, "lent") /\ Holder' = With(Holder, c, p)
    <3>1. /\ Shows(Phase, Holder, IdleConns, Lends, open)
          /\ Shows(Phase', Holder', IdleConns \ {c}, [Lends EXCEPT ![p] = c], open \union {c})
      BY <2>3, <2>6, <2>9 DEF Shown
    <3> QED BY <1>1, <2>3, <2>7, <2>8, <3>1, LentSeen
  <2>11. Phase[c] = "spare" /\ Contract!EmptyHanded(p)
    BY <1>1, <2>3, ConnsAssumption DEF Shown, Shows, Contract!EmptyHanded
  <2>12. ~closed
    BY <2>1 DEF DrainInv
  <2>13. Contract!Lend(c, p)
    BY <1>1, <2>10, <2>11, <2>12 DEF Contract!Lend, With
  <2> QED BY <2>3, <2>13 DEF Sees, Contract!Step
<1>3. CASE NoIdle(p, a, f)
  <2>1. conn' = conn /\ idles' = idles
    BY <1>3, OwnTypes DEF NoIdle
  <2>2. PICK w \in {"dialing", "parking", "out"} : pc' = [f EXCEPT ![p] = w]
    BY <1>3 DEF NoIdle
  <2>3. Lends' = [Lends EXCEPT ![p] = NoConn]
    BY <2>1, <2>2, LendsAre DEF IndInv, PCs, InGet
  <2>4. Lends' = Lends
    BY <1>1, <2>3 DEF Lends
  <2> QED BY <1>1, <2>1, <2>4, Unseen
<1> QED BY <1>2, <1>3 DEF GetLoop

\* PoolContract counts as ListPool does.
LEMMA SameCount == ASSUME NEW S PROVE Contract!Cardinality(S) = Cardinality(S)
BY DEF Contract!Cardinality, Cardinality

\* A set named by the values of a function has no more members than its domain.
LEMMA ImageBound ==
  ASSUME NEW S, IsFiniteSet(S), NEW g, DOMAIN g = S, g = [x \in S |-> g[x]]
  PROVE  LET T == {g[x] : x \in S}
         IN  IsFiniteSet(T) /\ Cardinality(T) <= Cardinality(S) /\ Cardinality(T) \in Nat
<1> DEFINE T == {g[x] : x \in S}
<1>1. g \in Surjection(S, T)
  BY DEF Surjection
<1> HIDE DEF T
<1>2. IsFiniteSet(T) /\ Cardinality(T) <= Cardinality(S)
  BY <1>1, FS_Surjection
<1>3. Cardinality(T) \in Nat
  BY <1>2, FS_CardinalityType
<1> QED BY <1>2, <1>3 DEF T

\* A dial finds room: it is charged one of the slots that the limit allows, the
\* connections idle and lent the others.
LEMMA DialHasRoom ==
  ASSUME IndInv, OwnInv, Shown, NEW p \in Clients, pc[p] = "dialing"
  PROVE  Contract!HasRoom
<1> DEFINE U == {c \in Conns : Phase[c] = "spare" \/ Phase[c] = "lent"}
           T == In({"got", "holding"})
           N == Used(pc)
<1>1. Contract!Usable = U
  BY DEF Contract!Usable, Contract!In
<1>2. U \subseteq ConnsOf(idles) \union {conn[q] : q \in T}
  <2> SUFFICES ASSUME NEW c \in U PROVE c \in ConnsOf(idles) \union {conn[q] : q \in T}
    OBVIOUS
  <2>1. CASE Phase[c] = "spare"
    BY <2>1, OwnTypes DEF Shown, Shows
  <2>2. CASE Phase[c] = "lent"
    <3>1. PICK q \in Clients : Lends[q] = c
      BY <2>2 DEF Shown, Shows
    <3>2. q \in T /\ conn[q] = c
      BY <3>1, ConnsAssumption DEF Lends, In
    <3> QED BY <3>2
  <2> QED BY <2>1, <2>2
<1>3. T \subseteq ChargedIn(pc) \ {p} /\ p \in ChargedIn(pc)
  BY DEF In, ChargedIn, Charged
<1>4. IsFiniteSet(ChargedIn(pc)) /\ N \in Nat
  BY UsedType
<1>5. IsFiniteSet(T) /\ Cardinality(T) <= N - 1 /\ Cardinality(T) \in Nat
  <2>1. IsFiniteSet(ChargedIn(pc) \ {p}) /\ Cardinality(ChargedIn(pc) \ {p}) = N - 1
    BY <1>3, <1>4, FS_RemoveElement DEF Used
  <2>2. IsFiniteSet(T) /\ Cardinality(T) <= Cardinality(ChargedIn(pc) \ {p})
    BY <1>3, <2>1, FS_Subset
  <2> HIDE DEF T, N
  <2> QED BY <2>1, <2>2, FS_CardinalityType
<1> DEFINE V == {conn[q] : q \in T}
           W == ConnsOf(idles)
           n == Len(idles)
<1>6. IsFiniteSet(V) /\ Cardinality(V) <= Cardinality(T) /\ Cardinality(V) \in Nat
  <2> DEFINE g == [q \in T |-> conn[q]]
  <2>1. V = {g[q] : q \in T} /\ DOMAIN g = T /\ g = [q \in T |-> g[q]]
    OBVIOUS
  <2> HIDE DEF V, T, g
  <2> QED BY <1>5, <2>1, ImageBound
<1>7. n \in Nat /\ IsFiniteSet(W) /\ Cardinality(W) <= n /\ Cardinality(W) \in Nat
  <2>1. n \in Nat
    BY OwnTypes
  <2>2. IsFiniteSet(1..n) /\ Cardinality(1..n) = n
    <3> HIDE DEF n
    <3>1. 0 \in Int /\ 1 \in Int /\ n \in Int
      BY <2>1
    <3>2. Cardinality(1..n) = IF 1 > n THEN 0 ELSE n - 1 + 1
      BY <3>1, FS_Interval
    <3>3. IsFiniteSet(1..n)
      BY <3>1, FS_Interval
    <3> QED BY <2>1, <3>2, <3>3
  <2> DEFINE g == [i \in 1..n |-> idles[i].c]
  <2>3. W = {g[i] : i \in 1..n} /\ DOMAIN g = 1..n /\ g = [i \in 1..n |-> g[i]]
    BY DEF ConnsOf
  <2> HIDE DEF W, n, g
  <2> QED BY <2>1, <2>2, <2>3, ImageBound
<1>8. active = n + N /\ active \in Nat
  BY ExactIsUsed DEF IndInv, TypeOK
<1>9. PICK k \in Configs : k.Active = 0 \/ active <= k.Active
  BY DEF IndInv, LimitInv
<1>10. IsFiniteSet(U) /\ Cardinality(U) <= n + (N - 1) /\ Cardinality(U) \in Nat
  <2> HIDE DEF U, V, W, T, N, n
  <2>1. /\ IsFiniteSet(W \union V)
        /\ Cardinality(W \union V) = Cardinality(W) + Cardinality(V) - Cardinality(W \intersect V)
    BY <1>6, <1>7, FS_Union
  <2>2. Cardinality(W \intersect V) \in Nat
    BY <1>6, FS_Intersection, FS_CardinalityType
  <2>3. U \subseteq W \union V
    BY <1>2 DEF V, W
  <2>4. IsFiniteSet(U) /\ Cardinality(U) <= Cardinality(W \union V) /\ Cardinality(U) \in Nat
    BY <2>1, <2>3, FS_Subset, FS_CardinalityType
  <2>5. Cardinality(W \union V) \in Nat /\ Cardinality(W \union V) <= n + (N - 1)
    <3>1. Cardinality(W \union V) \in Nat
      BY <2>1, FS_CardinalityType
    <3>2. Cardinality(W) + Cardinality(V) - Cardinality(W \intersect V) <= n + (N - 1)
      BY <1>4, <1>5, <1>6, <1>7, <2>2
    <3> QED BY <2>1, <3>1, <3>2
  <2> QED BY <1>4, <1>7, <2>4, <2>5
<1>11. LargestActive = 0 \/ Cardinality(U) < LargestActive
  <2>1. CASE \E m \in Configs : Largest(m)
    <3> DEFINE m == CHOOSE m \in Configs : Largest(m)
    <3>1. m \in Configs /\ Largest(m) /\ LargestActive = m.Active
      BY <2>1 DEF LargestActive
    <3> HIDE DEF m, U, N, n
    <3>2. m.Active \in Nat /\ k.Active \in Nat /\ 0 < k.Active /\ k.Active <= m.Active
      BY <1>9, <3>1, ConfigAssumption DEF Largest, Config
    <3> QED BY <1>4, <1>7, <1>8, <1>9, <1>10, <3>1, <3>2
  <2>2. CASE ~\E m \in Configs : Largest(m)
    BY <2>2 DEF LargestActive
  <2> QED BY <2>1, <2>2
<1>12. LargestActive = 0 \/ Cardinality(Contract!Usable) < LargestActive
  BY <1>1, <1>11, Zenon
<1> QED BY <1>12, SameCount DEF Contract!HasRoom

\* Connections idle ones or p's own, set aside and not yet closed.
LEMMA RetireSeen ==
  ASSUME Shown, NEW D, D # {}, D \subseteq Conns, UNCHANGED closed,
         \A c \in D : Phase[c] = "spare" \/ Phase[c] = "lent",
         Phase' = Aside(Phase, D), Holder' = Freed(Holder, D)
  PROVE  Sees
<1>1. D \subseteq Contract!Usable
  BY DEF Contract!Usable, Contract!In
<1>2. Contract!Retire(D, "doomed")
  BY <1>1 DEF Contract!Retire, Contract!Retired, Contract!Unheld, Aside, Freed
<1>3. D \in SUBSET Conns /\ "doomed" \in Contract!Ways
  BY DEF Contract!Ways
<1> QED BY <1>2, <1>3 DEF Sees, Contract!Step

LEMMA GiveUpSeen ==
  ASSUME Shown, Shown', NEW p \in Clients, pc[p] \in {"got", "holding"}, conn[p] \in Conns,
         Lends' = [Lends EXCEPT ![p] = NoConn], UNCHANGED <<idles, open, closed>>
  PROVE  Sees
<1> DEFINE c == conn[p]
<1>1. Lends[p] = c /\ c \in Conns
  BY DEF Lends
<1>2. IdleConns' = IdleConns
  BY DEF IdleConns
<1> HIDE DEF c
<1>3. /\ Shows(Phase, Holder, IdleConns, Lends, open) /\ Apart(IdleConns, Lends, open)
      /\ Shows(Phase', Holder', IdleConns, With(Lends, p, NoConn), open)
  BY <1>2 DEF Shown, With
<1>4. Phase' = Aside(Phase, {c}) /\ Holder' = Freed(Holder, {c})
  BY <1>1, <1>3, DroppedSeen
<1>5. Phase[c] = "lent"
  BY <1>1, <1>3 DEF Shows
<1> QED BY <1>1, <1>4, <1>5, RetireSeen

\* What is closed was set aside: it is open, not idle, and not lent.
LEMMA DisposeSeen ==
  ASSUME Shown, Shown', NEW c \in open, c \notin IdleConns, \A q \in Clients : Lends[q] # c,
         open' = open \ {c}, Lends' = Lends, UNCHANGED <<idles, closed>>
  PROVE  Sees
<1>1. IdleConns' = IdleConns
  BY DEF IdleConns
<1>2. /\ Shows(Phase, Holder, IdleConns, Lends, open) /\ Apart(IdleConns, Lends, open)
      /\ Shows(Phase', Holder', IdleConns, Lends, open \ {c})
  BY <1>1 DEF Shown
<1>3. Phase[c] = "doomed" /\ Phase' = With(Phase, c, "none") /\ Holder' = Holder
  BY <1>2, ClosedSeen
<1>4. c \in Conns
  BY <1>2 DEF Apart
<1>5. Contract!Dispose(c)
  BY <1>3 DEF Contract!Dispose, With
<1> QED BY <1>4, <1>5 DEF Sees, Contract!Step

LEMMA ReturnSeen ==
  ASSUME Shown, Shown', NEW p \in Clients, NEW c \in Conns, Lends[p] = c, ~closed,
         NEW D, D \subseteq IdleConns \union {c}, D = {} \/ \E d \in Conns : D = {d},
         IdleConns' = (IdleConns \union {c}) \ D, Lends' = [Lends EXCEPT ![p] = NoConn],
         UNCHANGED <<open, closed>>
  PROVE  Sees
<1>1. /\ Shows(Phase, Holder, IdleConns, Lends, open) /\ Apart(IdleConns, Lends, open)
      /\ Shows(Phase', Holder', IdleConns', With(Lends, p, NoConn), open)
      /\ Evicts(IdleConns, c, D, IdleConns') /\ Has(Lends, p, c)
  BY DEF Shown, With, Evicts, Has
<1>2. Phase' = Aside(With(Phase, c, "spare"), D) /\ Holder' = Freed(Holder, {c})
  BY <1>1, BackSeen
<1>3. Phase[c] = "lent" /\ IdleConns \subseteq Conns
  BY <1>1 DEF Shows, Apart, Has
<1>4. D \subseteq Contract!In("spare") \union {c} /\ D \in SUBSET Conns
  BY <1>1, <1>3 DEF Shows, Contract!In
<1>5. Contract!Cardinality(D) <= 1
  <2>1. Cardinality(D) = 0 \/ Cardinality(D) = 1
    BY FS_EmptySet, FS_Singleton
  <2> QED BY <2>1, SameCount
<1>6. Contract!Return(c, D)
  BY <1>2, <1>3, <1>4, <1>5 DEF Contract!Return, Contract!Retired, Contract!Unheld, Aside, With, Freed
<1> QED BY <1>4, <1>6 DEF Sees, Contract!Step

LEMMA ShutSeen ==
  ASSUME Shown, Shown', closed', IdleConns' = {}, Lends' = Lends, UNCHANGED open
  PROVE  Sees
<1>1. /\ Shows(Phase, Holder, IdleConns, Lends, open) /\ Apart(IdleConns, Lends, open)
      /\ Shows(Phase', Holder', IdleConns \ IdleConns, Lends, open)
  BY DEF Shown
<1>2. Phase' = Aside(Phase, IdleConns) /\ Holder' = Holder
  BY <1>1, RetiredSeen
<1>3. Contract!In("spare") = IdleConns
  BY <1>1 DEF Contract!In, Shows, Apart
<1>4. Contract!Shut("doomed")
  BY <1>2, <1>3 DEF Contract!Shut, Contract!Retired, Aside
<1> QED BY <1>4 DEF Sees, Contract!Step, Contract!Ways

\* The cleaner takes the last item, or none.
LEMMA SweepSeen ==
  ASSUME IndInv, OwnInv, Shown, Shown', NEW n, Sweep(n)
  PROVE  Sees
<1>1. UNCHANGED <<conn, open, closed>> /\ Lends' = Lends
  <2>1. UNCHANGED <<conn, open, closed>>
    BY DEF Sweep
  <2>2. \A q \in Clients : pc'[q] = pc[q] \/ (pc[q] = "waiting" /\ pc'[q] = "woken")
    BY SignalKeeps DEF Sweep, IndInv, TypeOK
  <2> QED BY <2>1, <2>2 DEF Lends
<1>2. CASE n > 0 /\ idles # <<>> /\ Expired(Back(idles).at, conf.IdleTimeout)
  <2> DEFINE c == Back(idles).c
  <2>1. idles' = ButBack(idles) /\ idles # <<>>
    BY <1>2 DEF Sweep
  <2>2. ConnsOf(ButBack(idles)) = ConnsOf(idles) \ {c} /\ c \in ConnsOf(idles)
    BY <2>1, OwnTypes, DistinctButBack DEF OwnInv
  <2>3. IdleConns' = IdleConns \ {c} /\ c \in IdleConns /\ c \in Conns
    <3>1. IdleConns' = ConnsOf(idles')
      BY DEF IdleConns, ConnsOf
    <3> QED BY <2>1, <2>2, <3>1, OwnTypes
  <2> HIDE DEF c
  <2>4. /\ Shows(Phase, Holder, IdleConns, Lends, open) /\ Apart(IdleConns, Lends, open)
        /\ Shows(Phase', Holder', IdleConns \ {c}, Lends, open)
    BY <1>1, <2>3 DEF Shown
  <2>5. Phase' = Aside(Phase, {c}) /\ Holder' = Freed(Holder, {c})
    BY <2>3, <2>4, RetiredSeen
  <2>6. Phase[c] = "spare"
    BY <2>3, <2>4 DEF Shows
  <2> QED BY <1>1, <2>3, <2>5, <2>6, RetireSeen
<1>3. CASE ~(n > 0 /\ idles # <<>> /\ Expired(Back(idles).at, conf.IdleTimeout))
  <2>1. idles' = idles
    BY <1>3 DEF Sweep
  <2> QED BY <1>1, <2>1, Unseen
<1> QED BY <1>2, <1>3

\* Put: the connection stays, makes another (or itself) go, or goes.
LEMMA PutSeen ==
  ASSUME IndInv, OwnInv, Shown, Shown', NEW p \in Clients, Put(p)
  PROVE  Sees
<1> DEFINE c == conn[p]
           e == [c |-> conn[p], at |-> now]
<1>1. pc[p] = "holding" /\ c \in Conns /\ UNCHANGED <<open, closed>>
  BY OwnTypes DEF Put, PutKept, PutEvicting, PutDropped, InHand
<1>2. Lends[p] = c
  BY <1>1 DEF Lends
<1>3. /\ ConnsOf(Pushed(p)) = IdleConns \union {c}
      /\ Distinct(Pushed(p)) /\ Pushed(p) \in Seq(Item) /\ Pushed(p) # <<>>
  <2>1. Pushed(p) = <<e>> \o idles
    BY DEF Pushed
  <2>2. e \in Item /\ e.c = c /\ e.c \notin ConnsOf(idles)
    BY <1>1 DEF Item, IndInv, TypeOK, OwnInv, Own
  <2>3. Pushed(p) \in Seq(Item) /\ Len(Pushed(p)) = Len(idles) + 1
    BY <2>1, <2>2, ItemSeqs, OwnTypes
  <2>4. Pushed(p) # <<>>
    BY <2>3, OwnTypes
  <2> HIDE DEF e, c
  <2>5. Distinct(<<e>> \o idles) /\ ConnsOf(<<e>> \o idles) = ConnsOf(idles) \union {e.c}
    BY <2>2, OwnTypes, DistinctPushed DEF OwnInv
  <2> QED BY <2>1, <2>2, <2>3, <2>4, <2>5, OwnTypes
<1>4. IdleConns' = ConnsOf(idles')
  BY DEF IdleConns, ConnsOf
<1> HIDE DEF c
<1>5. ASSUME NEW f \in Signal(pc), NEW w \in {"out", "closing"}, pc' = [f EXCEPT ![p] = w],
             \A q \in Clients \ {p} : conn'[q] = conn[q]
      PROVE  Lends' = [Lends EXCEPT ![p] = NoConn]
  BY <1>5, LendsAre DEF IndInv, PCs, InGet
<1>6. CASE PutKept(p)
  <2>1. IdleConns' = (IdleConns \union {c}) \ {} /\ ~closed
    BY <1>3, <1>4, <1>6 DEF PutKept
  <2>2. Lends' = [Lends EXCEPT ![p] = NoConn]
    BY <1>5, <1>6, OwnTypes DEF PutKept
  <2> QED BY <1>1, <1>2, <2>1, <2>2, ReturnSeen
<1>7. CASE PutEvicting(p)
  <2> DEFINE d == Back(Pushed(p)).c
  <2>1. ConnsOf(ButBack(Pushed(p))) = ConnsOf(Pushed(p)) \ {d} /\ d \in ConnsOf(Pushed(p))
    BY <1>3, DistinctButBack
  <2>2. idles' = ButBack(Pushed(p)) /\ ~closed
    BY <1>7 DEF PutEvicting
  <2> HIDE DEF d
  <2>3. IdleConns' = (IdleConns \union {c}) \ {d} /\ {d} \subseteq IdleConns \union {c}
    BY <1>3, <1>4, <2>1, <2>2
  <2>4. d \in Conns
    BY <1>1, <2>3, OwnTypes
  <2>5. Lends' = [Lends EXCEPT ![p] = NoConn]
    BY <1>5, <1>7, OwnTypes DEF PutEvicting
  <2> DEFINE D == {d}
  <2>6. D = {} \/ \E x \in Conns : D = {x}
    BY <2>4
  <2>7. IdleConns' = (IdleConns \union {c}) \ D /\ D \subseteq IdleConns \union {c}
    BY <2>3
  <2> HIDE DEF D
  <2> QED BY <1>1, <1>2, <2>2, <2>5, <2>6, <2>7, ReturnSeen
<1>8. CASE PutDropped(p)
  <2>1. Lends' = [Lends EXCEPT ![p] = NoConn]
    BY <1>5, <1>8, OwnTypes DEF PutDropped
  <2>2. idles' = idles
    BY <1>8 DEF PutDropped
  <2> QED BY <1>1, <2>1, <2>2, GiveUpSeen DEF c
<1> QED BY <1>6, <1>7, <1>8 DEF Put

LEMMA NextSeen ==
  IndInv /\ OwnInv /\ DrainInv /\ Shown /\ Shown' /\ [Next]_vars => Sees
<1> SUFFICES ASSUME IndInv, OwnInv, DrainInv, Shown, Shown', [Next]_vars PROVE Sees
  OBVIOUS
<1>1. TypeOK
  BY DEF IndInv
<1>2. ASSUME NEW p \in Clients, GetStart(p) \/ RetryAfterStale(p) \/ WakeUp(p) PROVE Sees
  <2>1. conn[p] = NoConn /\ pc[p] \notin {"got", "holding"}
    BY <1>2, OwnTypes DEF GetStart, RetryAfterStale, WakeUp, InHand
  <2> QED BY <1>2, <2>1, LoopSeen DEF GetStart, RetryAfterStale, WakeUp
<1>3. ASSUME NEW p \in Clients, CheckExpired(p) PROVE Sees
  <2>1. pc[p] = "got" /\ conn[p] \in Conns /\ UNCHANGED <<idles, open, closed, conn>>
    BY <1>3, OwnTypes DEF CheckExpired, InHand, pool
  <2>2. PICK w \in {"stale", "holding"} : pc' = [pc EXCEPT ![p] = w]
    BY <1>3 DEF CheckExpired
  <2>3. Lends' = [Lends EXCEPT ![p] = IF w \in {"got", "holding"} THEN conn'[p] ELSE NoConn]
    BY <1>1, <2>1, <2>2, LendsAre DEF PCs, InGet
  <2>4. CASE w = "stale"
    BY <2>1, <2>3, <2>4, GiveUpSeen
  <2>5. CASE w = "holding"
    <3>1. Lends' = Lends
      BY <2>1, <2>3, <2>5 DEF Lends
    <3> QED BY <2>1, <3>1, Unseen
  <2> QED BY <2>4, <2>5
<1>4. ASSUME NEW p \in Clients, CloseStale(p) \/ CloseReturned(p) PROVE Sees
  <2>1. /\ conn[p] \in Conns /\ pc[p] \in {"stale", "closing"} /\ conn' = [conn EXCEPT ![p] = NoConn]
        /\ open' = open \ {conn[p]} /\ UNCHANGED <<idles, closed>>
    BY <1>4, OwnTypes DEF CloseStale, CloseReturned, CloseConn, InHand, pool
  <2>2. PICK w \in {"relock", "out"} : pc' = [pc EXCEPT ![p] = w]
    BY <1>4 DEF CloseStale, CloseReturned
  <2>3. Lends' = [Lends EXCEPT ![p] = NoConn]
    BY <1>1, <2>1, <2>2, LendsAre, OwnTypes DEF PCs, InGet
  <2>4. Lends' = Lends
    BY <2>1, <2>3 DEF Lends
  <2>5. conn[p] \in open /\ conn[p] \notin IdleConns
    BY <2>1, OwnTypes DEF OwnInv, Own
  <2>6. \A q \in Clients : Lends[q] # conn[p]
    BY <2>1, OwnTypes, ConnsAssumption DEF OwnInv, Own, Lends
  <2> QED BY <2>1, <2>4, <2>5, <2>6, DisposeSeen
<1>5. ASSUME NEW p \in Clients, DialOk(p) PROVE Sees
  <2>1. PICK c \in Conns \ open : open' = open \union {c} /\ conn' = [conn EXCEPT ![p] = c]
    BY <1>5 DEF DialOk
  <2>2. pc[p] = "dialing" /\ pc' = [pc EXCEPT ![p] = "holding"] /\ UNCHANGED <<idles, closed>>
    BY <1>5 DEF DialOk, pool
  <2>3. conn'[p] = c /\ \A q \in Clients \ {p} : conn'[q] = conn[q]
    BY <2>1, OwnTypes
  <2>4. Lends' = [Lends EXCEPT ![p] = c]
    BY <1>1, <2>2, <2>3, LendsAre DEF PCs, InGet
  <2>5. /\ Shows(Phase, Holder, IdleConns, Lends, open) /\ Apart(IdleConns, Lends, open)
        /\ Shows(Phase', Holder', IdleConns', Lends', open')
    BY DEF Shown
  <2>6. IdleConns' = IdleConns \ {c}
    <3>1. IdleConns' = IdleConns
      BY <2>2 DEF IdleConns
    <3> QED BY <2>1, <2>5, <3>1 DEF Apart
  <2>7. Lends[p] = NoConn /\ \A q \in Clients : Lends[q] # c
    BY <2>1, <2>2, <2>5 DEF Lends, Apart
  <2>8. Shows(Phase', Holder', IdleConns \ {c}, [Lends EXCEPT ![p] = c], open \union {c})
    BY <2>1, <2>4, <2>5, <2>6
  <2>9. Phase' = With(Phase, c, "lent") /\ Holder' = With(Holder, c, p)
    BY <2>1, <2>5, <2>7, <2>8, LentSeen
  <2>10. Phase[c] = "none" /\ Contract!EmptyHanded(p)
    BY <2>1, <2>5, <2>7, ConnsAssumption DEF Shows, Contract!EmptyHanded
  <2>11. Contract!HasRoom
    BY <2>2, DialHasRoom
  <2>12. Contract!Dial(c, p)
    BY <2>2, <2>9, <2>10, <2>11 DEF Contract!Dial, With
  <2> QED BY <2>12 DEF Sees, Contract!Step
<1>6. ASSUME NEW p \in Clients, DialFail(p) \/ EnterSelect(p) \/ WaitTimedOut(p) PROVE Sees
  <2>1. /\ pc[p] \in {"dialing", "parking", "waiting"} /\ UNCHANGED <<idles, open, closed, conn>>
    BY <1>6 DEF DialFail, EnterSelect, WaitTimedOut, pool
  <2>2. PICK f \in Signal(pc) \union {pc}, w \in {"out", "waiting"} : pc' = [f EXCEPT ![p] = w]
    BY <1>6 DEF DialFail, EnterSelect, WaitTimedOut
  <2>3. Lends' = [Lends EXCEPT ![p] = NoConn]
    BY <1>1, <2>1, <2>2, LendsAre DEF PCs, InGet
  <2>4. Lends' = Lends
    BY <2>1, <2>3 DEF Lends
  <2> QED BY <2>1, <2>4, Unseen
<1>7. ASSUME NEW p \in Clients, CtxDone(p) PROVE Sees
  BY <1>7, Unseen DEF CtxDone, pool, Lends
<1>8. CASE Close
  <2>1. idles' = <<>> /\ closed' /\ UNCHANGED <<pc, conn, open>>
    BY <1>8 DEF Close, calls
  <2>2. IdleConns' = {} /\ Lends' = Lends
    BY <2>1 DEF IdleConns, Lends
  <2> QED BY <2>1, <2>2, ShutSeen
<1>9. CASE CloseDoomed
  <2>1. PICK c \in doomed : open' = open \ {c}
    BY <1>9 DEF CloseDoomed, CloseConn
  <2>2. c \in Conns /\ UNCHANGED <<idles, closed>> /\ Lends' = Lends
    BY <1>9, OwnTypes DEF CloseDoomed, pool, calls, Lends
  <2>3. c \in open /\ c \notin IdleConns /\ \A q \in Clients : Lends[q] # c
    BY <2>2, OwnTypes, ConnsAssumption DEF OwnInv, Own, Lends
  <2> QED BY <2>1, <2>2, <2>3, DisposeSeen
<1>10. ASSUME NEW k \in Configs, Reload(k) PROVE Sees
  BY <1>10, Unseen DEF Reload, calls, Lends
<1>11. CASE CleanerWake
  <2>1. CASE closed \/ conf.IdleTimeout = 0
    BY <1>11, <2>1, Unseen DEF CleanerWake, calls, Lends
  <2>2. CASE ~(closed \/ conf.IdleTimeout = 0)
    BY <1>11, <2>2, SweepSeen DEF CleanerWake
  <2> QED BY <2>1, <2>2
<1>12. CASE CleanerRelock
  BY <1>12, SweepSeen DEF CleanerRelock
<1>13. CASE CleanerClose
  <2>1. victim \in Conns /\ open' = open \ {victim}
    BY <1>13 DEF CleanerClose, CloseConn, OwnInv, CleanerInv
  <2>2. UNCHANGED <<idles, closed>> /\ Lends' = Lends
    BY <1>13 DEF CleanerClose, pool, calls, Lends
  <2>3. victim \in open /\ victim \notin IdleConns /\ \A q \in Clients : Lends[q] # victim
    BY <2>1, OwnTypes, ConnsAssumption DEF OwnInv, Own, Lends
  <2> QED BY <2>1, <2>2, <2>3, DisposeSeen
<1>14. CASE Tick \/ UNCHANGED vars
  BY <1>14, Unseen DEF Tick, vars, pool, calls, Lends
<1> QED BY <1>2, <1>3, <1>4, <1>5, <1>6, <1>7, <1>8, <1>9, <1>10, <1>11, <1>12, <1>13, <1>14, PutSeen
        DEF Next, GetStep, Cleaner

LEMMA LimitKept == LargestActive \in Nat /\ LargestActive' = LargestActive
<1>1. CASE \E k \in Configs : Largest(k)
  <2> DEFINE m == CHOOSE k \in Configs : Largest(k)
  <2>1. m \in Configs /\ LargestActive = m.Active
    BY <1>1 DEF LargestActive
  <2> HIDE DEF m
  <2> QED BY <2>1, ConfigAssumption DEF Config, LargestActive
<1>2. CASE ~\E k \in Configs : Largest(k)
  BY <1>2 DEF LargestActive
<1> QED BY <1>1, <1>2

LEMMA InitSeen == Init => Contract!Init
<1> SUFFICES ASSUME Init PROVE Contract!Init
  OBVIOUS
<1>1. Shown
  BY InitInd, InitOwns, ShownNow
<1>2. open = {} /\ closed = FALSE /\ \A p \in Clients : Lends[p] = NoConn
  BY DEF Init, Lends
<1>3. \A c \in Conns : Phase[c] = "none" /\ Holder[c] = NoConn
  BY <1>1, <1>2, ConnsAssumption DEF Shown, Shows
<1>4. Phase = [c \in Conns |-> "none"] /\ Holder = [c \in Conns |-> NoConn]
  BY <1>3 DEF Phase, Holder
<1> QED BY <1>2, <1>4, LimitKept DEF Contract!Init

\* List keeps the contract of a pool: a connection is idle, lent to one caller
\* or on its way out, there are never more of the first two kinds than the
\* largest Active allows, and a closed pool has and lends no idle ones.
THEOREM ListKeepsContract == Spec => ImplementsContract
<1>1. IndInv /\ OwnInv /\ DrainInv /\ (IndInv /\ OwnInv)' /\ [Next]_vars => [Contract!Next]_Contract!vars
  BY ShownNow, ShownThen, NextSeen, LimitKept DEF Sees, Contract!Next, Contract!vars
<1>2. Init => DrainInv
  BY DEF Init, DrainInv
<1> QED BY <1>1, <1>2, InitSeen, InitInd, InitOwns, NextKeeps, NextOwns, NextDrains, PTL
        DEF Spec, ImplementsContract, Contract!Spec

-----------------------------------------------------------------------------
(* The promises of the contract, for this pool: the steps of the contract as  *)
(* Contract and as Promises have them are the same.                           *)

Promises == INSTANCE PoolContractProofs WITH
  NoClient <- NoConn,
  limit <- LargestActive,
  phase <- Phase,
  holder <- Holder

LEMMA SameCards == ASSUME NEW S PROVE Promises!Cardinality(S) = Contract!Cardinality(S)
BY DEF Promises!Cardinality, Contract!Cardinality

LEMMA SameSteps == Contract!Step => Promises!Step
<1>1. \A c \in Conns, p \in Clients : Contract!Dial(c, p) => Promises!Dial(c, p)
  BY SameCards DEF Contract!Dial, Promises!Dial, Contract!HasRoom, Promises!HasRoom, Contract!EmptyHanded,
      Promises!EmptyHanded, Contract!Usable, Promises!Usable, Contract!In, Promises!In
<1>2. \A c \in Conns, p \in Clients : Contract!Lend(c, p) => Promises!Lend(c, p)
  BY DEF Contract!Lend, Promises!Lend, Contract!EmptyHanded, Promises!EmptyHanded
<1>3. \A c \in Conns, p \in Clients : Contract!Handoff(c, p) => Promises!Handoff(c, p)
  BY DEF Contract!Handoff, Promises!Handoff, Contract!EmptyHanded, Promises!EmptyHanded
<1>4. \A c \in Conns : Contract!Stock(c) => Promises!Stock(c)
  BY SameCards DEF Contract!Stock, Promises!Stock, Contract!HasRoom, Promises!HasRoom, Contract!Usable,
      Promises!Usable, Contract!In, Promises!In
<1>5. \A c \in Conns : Contract!Dispose(c) => Promises!Dispose(c)
  BY DEF Contract!Dispose, Promises!Dispose
<1>6. \A c \in Conns, D \in SUBSET Conns : Contract!Return(c, D) => Promises!Return(c, D)
  BY SameCards DEF Contract!Return, Promises!Return, Contract!Retired, Promises!Retired, Contract!Unheld,
      Promises!Unheld, Contract!In, Promises!In
<1>7. \A D \in SUBSET Conns, how \in Contract!Ways : Contract!Retire(D, how) => Promises!Retire(D, how)
  BY DEF Contract!Retire, Promises!Retire, Contract!Retired, Promises!Retired, Contract!Unheld,
      Promises!Unheld, Contract!Usable, Promises!Usable, Contract!In, Promises!In
<1>8. \A how \in Contract!Ways : Contract!Shut(how) => Promises!Shut(how)
  BY DEF Contract!Shut, Promises!Shut, Contract!Retired, Promises!Retired, Contract!In, Promises!In
<1>9. Contract!Ways = Promises!Ways
  BY DEF Contract!Ways, Promises!Ways
<1> QED BY <1>1, <1>2, <1>3, <1>4, <1>5, <1>6, <1>7, <1>8, <1>9 DEF Contract!Step, Promises!Step

\* A connection is with one client at a time, those idle or lent are never more
\* than the largest Active, and a closed pool has no idle one (pool.go:28-33,
\* 50-60).
THEOREM ListPromises == Spec => []Promises!Promise
<1>1. Contract!Init => Promises!Init
  BY DEF Contract!Init, Promises!Init
<1>2. UNCHANGED Contract!vars => UNCHANGED Promises!vars
  BY DEF Contract!vars, Promises!vars
<1>3. Contract!Next => Promises!Next
  BY SameSteps DEF Contract!Next, Promises!Next
<1>4. [Contract!Next]_Contract!vars => [Promises!Next]_Promises!vars
  BY <1>2, <1>3
<1>5. NoConn \notin Clients
  BY ConnsAssumption
<1> QED BY ListKeepsContract, Promises!ContractPromises, <1>1, <1>4, <1>5, PTL
        DEF ImplementsContract, Contract!Spec, Promises!Spec

=============================================================================
