------------------------------ MODULE Exchange ------------------------------
(***************************************************************************)
(* One service built from eins calls another: the clients of onenet, and   *)
(* the middleware of onegovernor around the handler that answers. A        *)
(* goroutine of a Call and the request it makes have one name. What is     *)
(* between them, a connection, is external: it carries the status line and *)
(* the body, may break, and is aborted when a panic leaves the chain.      *)
(***************************************************************************)
EXTENDS Integers, Sequences, FiniteSets

CONSTANTS
  Callers, Tasks, NoTask, Readers, Buffers, None, Setups, Limited,
  Chains, Ignored

VARIABLES
  kind, target, waits, returned, at, by, text, heard, reader, buffer, pool,
  buffers, source, content, res, last, late,
  chain, depth, going, panicked, status, body, started, handled, logged

Net == INSTANCE NetCall
Gov == INSTANCE Governor WITH Requests <- Tasks

ASSUME NoneAssumption ==
  NoTask \notin Tasks /\ None \notin Readers \union Buffers \union Callers \union Net!Bytes
ASSUME SetupsAssumption == Setups \subseteq {"standard", "fast"} \X [Callers -> Net!Res]
\* A pool never has to be without a reader or response to give.
ASSUME PoolAssumption ==
  /\ IsFiniteSet(Tasks)
  /\ Cardinality(Readers) >= Cardinality(Tasks) /\ Cardinality(Buffers) >= Cardinality(Tasks)
\* A chain has a layer once.
ASSUME ChainsAssumption ==
  \A s \in Chains : /\ s \in Seq(Gov!Layers)
                    /\ \A i, j \in 1..Len(s) : s[i] = s[j] => i = j

clients == <<kind, target, waits, returned, at, by, text, heard, reader, buffer, pool,
             buffers, source, content, res, last, late>>
servers == <<chain, depth, going, panicked, status, body, started, handled, logged>>
vars    == <<clients, servers>>

Init == Net!Init /\ Gov!Init

-----------------------------------------------------------------------------

\* The request reaches the server, or is lost on the way.
Send(t) == Net!Send(t) /\ (Gov!Arrive(t) \/ UNCHANGED servers)

\* Do fails: there is no connection, or none of the answer came.
DoFails(t) == Net!DoFails(t) /\ UNCHANGED servers

\* The standard client has an answer once there is a status line; the fast one
\* once the answer is over. A handler that writes nothing is answered with 200.
Answered(t) ==
  Gov!Replied(t) \/ (kind = "standard" /\ status[t] # 0)
Receive(t) == Net!Receive(t) /\ Answered(t) /\ UNCHANGED servers

\* A body is over when the chain has returned, whatever the handler wrote; one
\* the connection of which is aborted never is.
Ends(t, how) ==
  \/ how = "cut" /\ body[t] # "none"
  \/ how = (IF body[t] = "whole" THEN "whole" ELSE "part") /\ Gov!Replied(t)
Read(t) == (\E how \in {"whole", "part", "cut"} : Ends(t, how) /\ Net!Read(t, how)) /\ UNCHANGED servers
Copy(t) == Net!Copy(t) /\ Gov!Replied(t) /\ UNCHANGED servers

Client(t) ==
  \/ /\ (Net!BuildFails(t) \/ Net!ReadFails(t) \/ Net!Works(t)) /\ UNCHANGED servers
  \/ Send(t) \/ DoFails(t) \/ Receive(t) \/ Read(t) \/ Copy(t)

Caller(p) == ((\E t \in Tasks : Net!Call(p, t)) \/ Net!TimeOut(p)) /\ UNCHANGED servers

Server(t) == Gov!Step(t) /\ UNCHANGED clients

Next ==
  \/ \E p \in Callers : Caller(p)
  \/ \E t \in Tasks : Client(t) \/ Server(t)

Spec == Init /\ [][Next]_vars

-----------------------------------------------------------------------------
(* Properties: of the clients, of the middleware, and of both. *)

TypeOK == Net!TypeOK /\ Gov!TypeOK

\* See NetCall: no reader or response of a pool is shared.
OneHand == Net!OneHand

\* See NetCall: a response holds the answer to its own Call, or to a late one.
OwnReply == Net!OwnReply

\* See Governor: started and handled requests balance, but for panics.
CountsBalance == Gov!CountsBalance

\* See Governor: a panic is answered, and not by an empty success.
PanicsAnswered == Gov!PanicsAnswered

\* A Call that decodes JSON returns nil only if the handler wrote all of its
\* body. Any other may return nil for part of one: when MaxResBodySize cut it,
\* or when the handler stopped short, as in a panic that Recover turned into
\* the end of an answer begun with 200 (standard.go:149-194; fast.go:134-175;
\* onegovernor/http.go:45-63). But never when the connection was aborted.
NilMeansWhole ==
  \A p \in Callers : returned[p] = "ok" =>
    LET t == last[p] IN
    \/ body[t] = "whole"
    \/ target[p] # "json" /\ (Gov!Replied(t) \/ p \in Limited)

=============================================================================
