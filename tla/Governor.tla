------------------------------ MODULE Governor ------------------------------
(***************************************************************************)
(* The HTTP middleware of onegovernor (src/onegovernor/http.go): Recover,  *)
(* Prom and Logger, in the order the server's chain puts them, around a    *)
(* handler that writes a response, panics, or both. Requests run in        *)
(* goroutines of their own and share the counters of oneprom.              *)
(*                                                                         *)
(* net/http is external: a status line is sent once, by WriteHeader or by  *)
(* the first write; a panic that leaves the chain aborts the connection.   *)
(***************************************************************************)
EXTENDS Integers, Sequences, FiniteSets

CONSTANTS
  Requests,
  Chains,    \* the orders of the middleware, outermost first
  Ignored    \* requests an Ignore function of Prom and Logger picks out

Layers == {"Recover", "Prom", "Logger"}

\* 0 stands for no status line, for which net/http sends 200 in the end.
Codes == {0, 200, 500}

VARIABLES
  chain,
  depth,     \* how many layers each request is in; the handler is one more
  going,     \* "in", "out", or "unwinding" a panic
  panicked,  \* "no", "panic", or "abort" for http.ErrAbortHandler
  status,    \* the status line sent
  body,      \* what was written of the body: "none", "part" or "whole"
  started,   \* server_started_total
  handled,   \* server_handled_total, by code
  logged     \* requests with a log line

vars == <<chain, depth, going, panicked, status, body, started, handled, logged>>

Init ==
  /\ chain \in Chains
  /\ depth = [q \in Requests |-> 0]
  /\ going = [q \in Requests |-> "no"]
  /\ panicked = [q \in Requests |-> "no"]
  /\ status = [q \in Requests |-> 0]
  /\ body = [q \in Requests |-> "none"]
  /\ started = 0
  /\ handled = [c \in Codes |-> 0]
  /\ logged = {}

-----------------------------------------------------------------------------

Position(l) == CHOOSE i \in 1..Len(chain) : chain[i] = l
Has(l) == \E i \in 1..Len(chain) : chain[i] = l

InHandler(q) == going[q] = "in" /\ depth[q] = Len(chain) + 1

\* A request comes in.
Arrive(q) ==
  /\ going[q] = "no"
  /\ going' = [going EXCEPT ![q] = "in"]
  /\ depth' = [depth EXCEPT ![q] = 1]
  /\ UNCHANGED <<chain, panicked, status, body, started, handled, logged>>

\* A layer's code before h.ServeHTTP.
Enter(q) ==
  /\ going[q] = "in" /\ depth[q] <= Len(chain)
  /\ started' = IF chain[depth[q]] = "Prom" /\ q \notin Ignored THEN started + 1 ELSE started
  /\ depth' = [depth EXCEPT ![q] = @ + 1]
  /\ UNCHANGED <<chain, going, panicked, status, body, handled, logged>>

\* The handler writes: Status, String, Json and Proto write the status line
\* and then the body, which may be cut short.
Write(q) ==
  /\ InHandler(q) /\ body[q] # "whole"
  /\ \E b \in {"part", "whole"} : body' = [body EXCEPT ![q] = b]
  /\ status' = [status EXCEPT ![q] = IF @ = 0 THEN 200 ELSE @]
  /\ UNCHANGED <<chain, depth, going, panicked, started, handled, logged>>

Return(q) ==
  /\ InHandler(q)
  /\ going' = [going EXCEPT ![q] = "out"]
  /\ depth' = [depth EXCEPT ![q] = @ - 1]
  /\ UNCHANGED <<chain, panicked, status, body, started, handled, logged>>

Panic(q) ==
  /\ InHandler(q)
  /\ going' = [going EXCEPT ![q] = "unwinding"]
  /\ depth' = [depth EXCEPT ![q] = @ - 1]
  /\ \E k \in {"panic", "abort"} : panicked' = [panicked EXCEPT ![q] = k]
  /\ UNCHANGED <<chain, status, body, started, handled, logged>>

\* A layer's code after h.ServeHTTP: skipped by a panic.
CountedAs200(q) == 200                                                \* faulty
CountedAs(q) == status[q]

Leave(q) ==
  /\ going[q] = "out" /\ depth[q] > 0
  /\ handled' = IF chain[depth[q]] = "Prom" /\ q \notin Ignored
                THEN [handled EXCEPT ![CountedAs(q)] = @ + 1] ELSE handled
  /\ logged' = IF chain[depth[q]] = "Logger" /\ q \notin Ignored THEN logged \union {q} ELSE logged
  /\ depth' = [depth EXCEPT ![q] = @ - 1]
  /\ UNCHANGED <<chain, going, panicked, status, body, started>>

\* Recover answers 500 unless a status line was sent; it does not recover
\* http.ErrAbortHandler.
Recovers(q) == chain[depth[q]] = "Recover" /\ panicked[q] # "abort"
SilentAnswer(q) == status                                             \* faulty
Answer(q) == [status EXCEPT ![q] = IF @ = 0 THEN 500 ELSE @]

Unwind(q) ==
  /\ going[q] = "unwinding" /\ depth[q] > 0
  /\ going' = [going EXCEPT ![q] = IF Recovers(q) THEN "out" ELSE "unwinding"]
  /\ status' = IF Recovers(q) THEN Answer(q) ELSE status
  /\ depth' = [depth EXCEPT ![q] = @ - 1]
  /\ UNCHANGED <<chain, panicked, body, started, handled, logged>>

Step(q) == Enter(q) \/ Write(q) \/ Return(q) \/ Panic(q) \/ Leave(q) \/ Unwind(q)
Next == \E q \in Requests : Arrive(q) \/ Step(q)
Spec == Init /\ [][Next]_vars

\* what the client is sent
Replied(q) == going[q] = "out" /\ depth[q] = 0
Aborted(q) == going[q] = "unwinding" /\ depth[q] = 0

-----------------------------------------------------------------------------
(* Properties. *)

TypeOK ==
  /\ chain \in Chains
  /\ depth \in [Requests -> 0..Len(chain) + 1]
  /\ going \in [Requests -> {"no", "in", "out", "unwinding"}]
  /\ panicked \in [Requests -> {"no", "panic", "abort"}]
  /\ status \in [Requests -> Codes]
  /\ body \in [Requests -> {"none", "part", "whole"}]
  /\ started \in Nat /\ handled \in [Codes -> Nat]
  /\ logged \subseteq Requests

\* For Prom or Logger: the requests it let through and took account of, those
\* of them that have left it again, and those that a panic took through it.
Began(l) == {q \in Requests \ Ignored : /\ Has(l) /\ going[q] # "no"
                                        /\ going[q] = "in" => depth[q] > Position(l)}
Left(l) == {q \in Began(l) : going[q] # "in" /\ depth[q] < Position(l)}
StoppedWithin(q, l) == panicked[q] = "panic" /\ Has("Recover") /\ Position("Recover") > Position(l)
TornThrough(l) == {q \in Left(l) : panicked[q] # "no" /\ ~StoppedWithin(q, l)}

\* Prom counts each request as started once and, when it is over, as handled
\* once, under the status its client is sent, and Logger writes one line for
\* it: but not for a request whose panic comes through them, because Recover is
\* outside of them or because the handler aborts (http.go:88-94, 124-138). The
\* started count of such a request is never balanced.
CountsBalance ==
  /\ started = Cardinality(Began("Prom"))
  /\ \A c \in Codes : handled[c] = Cardinality({q \in Left("Prom") \ TornThrough("Prom") : status[q] = c})
  /\ logged = Left("Logger") \ TornThrough("Logger")

\* A request whose handler panicked is never answered as if it had gone well
\* with nothing to say: Recover has sent a status line, or the handler had
\* before it panicked, or the connection is aborted (http.go:45-63).
PanicsAnswered == \A q \in Requests : Replied(q) /\ panicked[q] # "no" => status[q] # 0

=============================================================================
