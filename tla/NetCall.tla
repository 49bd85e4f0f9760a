------------------------------- MODULE NetCall -------------------------------
(***************************************************************************)
(* The HTTP clients of onenet (src/onenet/standard.go, fast.go): Call runs *)
(* do in a goroutine of its own and gives up on it after a timeout, while  *)
(* the goroutine goes on, with the caller's request and response in hand.  *)
(* Gzip readers, and the responses of fasthttp, come from pools that all   *)
(* the calls share.                                                        *)
(*                                                                         *)
(* saferun.TimeoutRun, the pools, net/http and fasthttp are external. What *)
(* the server answers is for the module that composes this one with it.    *)
(***************************************************************************)
EXTENDS Integers, FiniteSets

CONSTANTS
  Callers,   \* each with one request and one response that it uses again
  Tasks,     \* the goroutines TimeoutRun may start, one per Call
  NoTask,
  Readers,   \* gzip readers
  Buffers,   \* fasthttp responses
  None,      \* no reader, no buffer, no bytes
  Setups,    \* pairs: a client, "standard" or "fast", and what the callers' Res are
  Limited    \* callers whose MaxResBodySize an answer may exceed

\* An io.Writer, a *string or *[]byte, a proto message, or what JSON decodes to.
Res == {"writer", "bytes", "proto", "json"}

VARIABLES
  kind, target,
  waits,     \* the goroutine each caller waits for
  returned,  \* what its last Call returned: "ok", "error" or "timeout"
  at, by,    \* where each goroutine is, and whose it is
  text,      \* the bytes it has: resBody
  heard,     \* "whole", "part" if the server wrote less, "cut" if more was not read
  reader, buffer, \* what it took from the pools
  pool, buffers,  \* what nobody has: it is in a pool, or not yet made
  source,    \* the goroutine whose bytes each reader was Reset to
  content,   \* the goroutine whose answer each buffer holds
  res,       \* what Res of each caller holds
  \* history, which no action reads
  last,      \* the goroutine of each caller's last Call
  late       \* the goroutines of each caller that still ran at its last Call

setup == <<kind, target>>
calls == <<waits, returned, last, late>>
pools == <<pool, buffers, source, content, reader, buffer>>
vars  == <<setup, calls, at, by, text, heard, pools, res>>

\* Bytes: those of a goroutine's answer, in memory of their own or in a buffer.
Own(t) == <<"own", t>>
In(b) == <<"buffer", b>>
Bytes == {Own(t) : t \in Tasks} \union {In(b) : b \in Buffers}
Look(v) == IF v[1] = "buffer" THEN content[v[2]] ELSE v[2]

Places == {"unborn", "building", "sent", "reading", "zipped", "unzipping", "decoding", "done"}

Init ==
  /\ \E s \in Setups : kind = s[1] /\ target = s[2]
  /\ waits = [p \in Callers |-> NoTask] /\ last = waits
  /\ returned = [p \in Callers |-> "none"]
  /\ late = [p \in Callers |-> {}]
  /\ at = [t \in Tasks |-> "unborn"]
  /\ by = [t \in Tasks |-> None] /\ text = by /\ reader = by /\ buffer = by
  /\ heard = [t \in Tasks |-> "part"]
  /\ pool = Readers /\ buffers = Buffers
  /\ source = [r \in Readers |-> NoTask]
  /\ content = [b \in Buffers |-> NoTask]
  /\ res = [p \in Callers |-> None]

-----------------------------------------------------------------------------

Running(t) == at[t] \notin {"unborn", "done"}

\* One out of a pool, or a new one: one that nobody has, and which does not
\* matter.
Any(S) == CHOOSE x \in S : TRUE

GoTo(t, place) == at' = [at EXCEPT ![t] = place] /\ UNCHANGED <<setup, calls, by>>

\* the reader do puts back, if it took one
PutBackEvenNil(t) == {reader[t]}                                      \* faulty
PutBack(t) == {reader[t]} \ {None}

\* do returns: what it deferred runs, and the caller, if it still waits, has
\* its result. Whether that is an error does not depend on the status.
Finish(t, how) ==
  /\ at' = [at EXCEPT ![t] = "done"]
  /\ pool' = pool \union PutBack(t)
  /\ reader' = [reader EXCEPT ![t] = None]
  /\ source' = [r \in Readers |-> IF r = reader[t] THEN NoTask ELSE source[r]]
  /\ buffers' = buffers \union ({buffer[t]} \ {None})
  /\ buffer' = [buffer EXCEPT ![t] = None]
  /\ content' = [b \in Buffers |-> IF b = buffer[t] THEN NoTask ELSE content[b]]
  /\ text' = [text EXCEPT ![t] = None]
  /\ heard' = [heard EXCEPT ![t] = "part"]
  /\ IF waits[by[t]] = t
     THEN /\ waits' = [waits EXCEPT ![by[t]] = NoTask]
          /\ returned' = [returned EXCEPT ![by[t]] = how]
     ELSE UNCHANGED <<waits, returned>>
  /\ UNCHANGED <<setup, last, late, by>>

Fails(t) == Finish(t, "error") /\ UNCHANGED res

\* It failed with some of v written to the response, or none.
FailsAmid(t, v) == Finish(t, "error") /\ res' \in {res, [res EXCEPT ![by[t]] = v]}

-----------------------------------------------------------------------------
(* Call, and its timeout: an hour when the request has none. *)

Call(p, t) ==
  /\ waits[p] = NoTask /\ at[t] = "unborn"
  /\ at' = [at EXCEPT ![t] = "building"]
  /\ by' = [by EXCEPT ![t] = p]
  /\ waits' = [waits EXCEPT ![p] = t]
  /\ last' = [last EXCEPT ![p] = t]
  /\ late' = [late EXCEPT ![p] = {u \in Tasks : Running(u) /\ by[u] = p}]
  /\ returned' = [returned EXCEPT ![p] = "none"]
  /\ UNCHANGED <<setup, text, heard, pools, res>>

TimeOut(p) ==
  /\ waits[p] # NoTask
  /\ waits' = [waits EXCEPT ![p] = NoTask]
  /\ returned' = [returned EXCEPT ![p] = "timeout"]
  /\ UNCHANGED <<setup, last, late, at, by, text, heard, pools, res>>

-----------------------------------------------------------------------------
(* do, up to the answer. *)

\* The request is built from the body: it may not marshal, or make no request.
BuildFails(t) == at[t] = "building" /\ Fails(t)

\* client.Do is called; what fasthttp's client answers into comes from a pool.
Send(t) ==
  /\ at[t] = "building"
  /\ \/ /\ kind = "standard" /\ UNCHANGED <<buffers, buffer, content>>
     \/ /\ kind = "fast" /\ UNCHANGED content
        /\ LET b == Any(buffers) IN
             /\ buffers' = buffers \ {b}
             /\ buffer' = [buffer EXCEPT ![t] = b]
  /\ GoTo(t, "sent")
  /\ UNCHANGED <<text, heard, pool, source, reader, res>>

DoFails(t) == at[t] = "sent" /\ Fails(t)

\* The answer comes: of the standard client its header, of the fast one all of it.
Receive(t) ==
  /\ at[t] = "sent"
  /\ content' = [b \in Buffers |-> IF b = buffer[t] THEN t ELSE content[b]]
  /\ GoTo(t, "reading")
  /\ UNCHANGED <<text, heard, pool, buffers, source, reader, buffer, res>>

-----------------------------------------------------------------------------
(* do, from the answer. *)

\* The bytes read. The fast client copies them out of its buffer.
Aliased(t) == IF kind = "fast" THEN In(buffer[t]) ELSE Own(t)         \* faulty
BodyOf(t) == Own(t)

\* An io.Writer is given the bytes as they are, compressed or not.
Copy(t) ==
  /\ at[t] = "reading" /\ target[by[t]] = "writer"
  /\ Finish(t, "ok")
  /\ res' = [res EXCEPT ![by[t]] = Own(t)]

\* The body is read, all of it or up to MaxResBodySize.
Read(t, how) ==
  /\ at[t] = "reading" /\ target[by[t]] # "writer"
  /\ how = "cut" => by[t] \in Limited
  /\ heard' = [heard EXCEPT ![t] = how]
  /\ text' = [text EXCEPT ![t] = BodyOf(t)]
  /\ \E place \in {"zipped", "decoding"} : GoTo(t, place)
  /\ UNCHANGED <<pools, res>>

\* The connection breaks while the body is read, or the io.Writer fails, which
\* may have been given some of it. The fast client has read the body before it
\* has an answer.
ReadFails(t) ==
  /\ at[t] = "reading"
  /\ \/ target[by[t]] = "writer" /\ FailsAmid(t, Own(t))
     \/ target[by[t]] # "writer" /\ kind = "standard" /\ Fails(t)

\* GetGzipReader: one from the pool, which ignores what Reset says, or a new one.
PutAtOnce(r) == pool                                                  \* faulty
Taken(r) == pool \ {r}

GetReader(t) ==
  /\ at[t] = "zipped"
  /\ LET r == Any(pool) IN
       /\ pool' = Taken(r)
       /\ reader' = [reader EXCEPT ![t] = r]
       /\ source' = [source EXCEPT ![r] = t]
  /\ GoTo(t, "unzipping")
  /\ UNCHANGED <<text, heard, buffers, content, buffer, res>>

\* NewReader may have to refuse the bytes, and its error is dropped: reading
\* from the nil it returns panics, before anything is put in the pool.
NilReader(t) == at[t] = "zipped" /\ Fails(t)

\* What the reader reads is what it was Reset to.
Unzip(t) ==
  /\ at[t] = "unzipping" /\ heard[t] # "cut"
  /\ text' = [text EXCEPT ![t] = Own(source[reader[t]])]
  /\ GoTo(t, "decoding")
  /\ UNCHANGED <<heard, pools, res>>

UnzipFails(t) == at[t] = "unzipping" /\ Fails(t)

\* JSON is whole or no JSON; a proto message may look whole and not be.
Regardless(t) == TRUE                                                 \* faulty
Decodes(t) == target[by[t]] = "json" => heard[t] = "whole"

Decode(t) ==
  /\ at[t] = "decoding" /\ Decodes(t)
  /\ Finish(t, "ok")
  /\ res' = [res EXCEPT ![by[t]] = text[t]]

\* What came before the error, or is of the type expected, stays decoded.
DecodeFails(t) ==
  at[t] = "decoding" /\ target[by[t]] \in {"json", "proto"} /\ FailsAmid(t, text[t])

\* the steps that need no answer of the server
Works(t) == GetReader(t) \/ NilReader(t) \/ Unzip(t) \/ UnzipFails(t) \/ Decode(t) \/ DecodeFails(t)

-----------------------------------------------------------------------------
(* Properties. *)

TypeOK ==
  /\ <<kind, target>> \in Setups /\ target \in [Callers -> Res]
  /\ {waits, last} \subseteq [Callers -> Tasks \union {NoTask}]
  /\ returned \in [Callers -> {"none", "ok", "error", "timeout"}]
  /\ at \in [Tasks -> Places]
  /\ by \in [Tasks -> Callers \union {None}]
  /\ text \in [Tasks -> Bytes \union {None}]
  /\ heard \in [Tasks -> {"whole", "part", "cut"}]
  /\ reader \in [Tasks -> Readers \union {None}] /\ pool \subseteq Readers
  /\ buffer \in [Tasks -> Buffers \union {None}] /\ buffers \subseteq Buffers
  /\ source \in [Readers -> Tasks \union {NoTask}]
  /\ content \in [Buffers -> Tasks \union {NoTask}]
  /\ res \in [Callers -> Bytes \union {None}]
  /\ late \in [Callers -> SUBSET Tasks]

\* A gzip reader or a fasthttp response is in the hands of one goroutine, or in
\* its pool, so that what is unzipped is what was read
\* (standard.go:168-175, 207-220; fast.go:51-55, 150-157, 189-202).
OneHand ==
  /\ \A t, u \in Tasks : t # u => /\ reader[t] # None => reader[t] # reader[u]
                                  /\ buffer[t] # None => buffer[t] # buffer[u]
  /\ \A t \in Tasks : reader[t] \notin pool /\ buffer[t] \notin buffers
  /\ \A t \in Tasks : reader[t] # None => source[reader[t]] = t

\* After a Call that returned nil the response holds the answer to that Call,
\* and keeps it whatever other calls do with the pools; but an earlier Call of
\* the caller that timed out, and still ran when this one began, may have put
\* its own there instead. That is as far as a late goroutine reaches: an answer
\* it leaves, or a part of one when it fails, is in its own caller's response
\* (standard.go:149-205; fast.go:134-187).
OwnReply ==
  \A p \in Callers :
    /\ returned[p] = "ok" => res[p] # None /\ Look(res[p]) \in {last[p]} \union late[p]
    /\ res[p] # None => Look(res[p]) \in Tasks /\ by[Look(res[p])] = p

=============================================================================
