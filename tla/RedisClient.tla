---------------------------- MODULE RedisClient -----------------------------
(***************************************************************************)
(* The single-connection redis client (redis/CoRedisCli.cc): one active    *)
(* operation at a time, a connection that is retired as soon as a command  *)
(* did not end with a complete reply, and an explicit Connect to replace   *)
(* it.  An operation is one call, a connection of its own each dial; what  *)
(* travels on it are the calls that await a reply and the calls whose      *)
(* reply arrived.                                                          *)
(***************************************************************************)
EXTENDS Naturals, Sequences, SequencesExt, FiniteSets

CONSTANTS Op,          \* the calls: each a Connect or a command
          Dials,       \* bound: connections ever dialled
          Handshake    \* how many of AUTH and SELECT are configured

\* What the parameters have to be; assumed wherever they are given values.
RedisClientAssumption ==
  /\ Dials \in Nat /\ Handshake \in 0..2
  /\ IsFiniteSet(Op) /\ "none" \notin Op

VARIABLES closed, busy, broken, reader,  \* the state's bits; whether the reader exists
          conn,      \* the published connection, 0 when there is none
          dialled,   \* the last connection dialled
          stream,    \* connection -> open, calls the server owes, replies that arrived
          op,        \* call -> where it is, its connection, and the result
          got        \* ghost: call -> the reply it was given

redisVars == <<closed, busy, broken, reader, conn, dialled, stream, op, got>>
bits == <<closed, busy, broken, reader>>

Conns == 1..Dials
Active == {"dialing", "hello", "checking", "writing", "reading", "confirming", "leaving"}

RedisTypes ==
  /\ {closed, busy, broken, reader} \subseteq BOOLEAN
  /\ {conn, dialled} \subseteq 0..Dials
  /\ \A e \in Conns : stream[e].open \in BOOLEAN
  /\ \A o \in Op : op[o].pc \in Active \cup {"new", "over"} /\ op[o].at \in 0..Dials

RedisInit ==
  /\ closed = FALSE /\ busy = FALSE /\ broken = FALSE /\ reader = TRUE
  /\ conn = 0 /\ dialled = 0
  /\ stream = [e \in Conns |-> [open |-> FALSE, owed |-> <<>>, back |-> <<>>]]
  /\ op = [o \in Op |-> [pc |-> "new", at |-> 0, kind |-> "none", res |-> "none",
                     sent |-> FALSE, left |-> 0]]
  /\ got = [o \in Op |-> "none"]

Open(e) == e # 0 /\ stream[e].open
\* RequestClose on a connection handle, which may be empty.
Shut(e) == [f \in Conns |-> IF f = e THEN [stream[f] EXCEPT !.open = FALSE] ELSE stream[f]]

\* A call that is refused ends without having been active.
RefuseOp(o, k, r) == op' = [op EXCEPT ![o].pc = "over", ![o].kind = k, ![o].res = r]
\* A call that was active still has to leave the active place.
Conclude(o, r) == op' = [op EXCEPT ![o].pc = "leaving", ![o].res = r]
Enter(o, k, p, e) == op' = [op EXCEPT ![o].pc = p, ![o].kind = k, ![o].at = e]
Move(o, p) == op' = [op EXCEPT ![o].pc = p]

-----------------------------------------------------------------------------
\* What a reply may be: a status, a bulk string, nil, an integer, an array of pairs, of
\* odd length or with a hole, a nested or too large one, or a server error.
Numbers == {"0", "1", "2", "-1", "-2", "-3"}
Shapes == {"OK", "PONG", "text", "bulk", "nil", "pairs", "odd", "holed", "nested", "error"} \cup Numbers

\* The replies each kind of command takes for its own.
Accepts ==
  [ping |-> {"PONG"}, set |-> {"OK"}, setif |-> {"OK", "nil"}, get |-> {"bulk", "nil"},
   exists |-> {"0", "1"}, del |-> {"0", "1", "2"}, incr |-> Numbers, pttl |-> Numbers,
   hgetall |-> {"pairs"}, connect |-> {"OK"}]
Commands == DOMAIN Accepts \ {"connect"}

\* An array that is not flat or is too large is a protocol error, a server error is the
\* server's word; everything else is a value.
Decode(s) == IF s = "error" THEN "remote" ELSE IF s = "nested" THEN "protocol" ELSE "value"

\* What the caller makes of an accepted reply: of the integers PTTL may return, those
\* below -2 mean nothing.
Answer(k, s) == IF k = "pttl" /\ s = "-3" THEN "protocol" ELSE "ok"

\* Connect: nothing to do on a healthy connection; refused while a call is active.
Connect(o) ==
  /\ op[o].pc = "new"
  /\ \/ closed /\ RefuseOp(o, "connect", "closed") /\ UNCHANGED <<busy, conn, stream>>
     \/ /\ ~closed /\ ~broken /\ Open(conn)
        /\ RefuseOp(o, "connect", "ok") /\ UNCHANGED <<busy, conn, stream>>
     \/ /\ ~closed /\ (broken \/ ~Open(conn))
        /\ \/ busy /\ RefuseOp(o, "connect", "busy") /\ UNCHANGED <<busy, conn, stream>>
           \/ /\ ~busy /\ dialled < Dials
              /\ busy' = TRUE /\ stream' = Shut(conn) /\ conn' = 0
              /\ Enter(o, "connect", "dialing", 0)
  /\ UNCHANGED <<closed, broken, reader, dialled, got>>

\* AUTH, then SELECT, then the second look at Close.
AfterHello(n) == IF n = 0 THEN "confirming" ELSE "hello"

\* The dial comes back: published unless it failed, Close came first or a new reader
\* cannot be allocated; a connection that is not published is closed at once.
Dialled(o) ==
  /\ op[o].pc = "dialing"
  /\ \/ closed /\ Conclude(o, "closed") /\ UNCHANGED <<broken, reader, conn, dialled, stream>>
     \/ ~closed /\ Conclude(o, "transport") /\ UNCHANGED <<broken, reader, conn, dialled, stream>>
     \/ ~closed /\ ~reader /\ Conclude(o, "internal") /\ UNCHANGED <<broken, reader, conn, dialled, stream>>
     \/ /\ ~closed
        /\ dialled' = dialled + 1 /\ conn' = dialled'
        /\ stream' = [stream EXCEPT ![dialled'].open = TRUE]
        /\ broken' = FALSE /\ reader' = TRUE
        /\ op' = [op EXCEPT ![o].pc = AfterHello(Handshake), ![o].at = dialled', ![o].left = Handshake]
  /\ UNCHANGED <<closed, busy, got>>

\* The handshake's own command goes out on the connection just published.
Hello(o) == op[o].pc = "hello" /\ Move(o, "writing")
            /\ UNCHANGED <<bits, conn, dialled, stream, got>>

\* After the handshake Close is looked for once more.
Confirm(o) ==
  /\ op[o].pc = "confirming"
  /\ IF closed
     THEN /\ broken' = TRUE /\ reader' = FALSE /\ stream' = Shut(conn) /\ conn' = 0
          /\ Conclude(o, "closed")
     ELSE Conclude(o, "ok") /\ UNCHANGED <<broken, reader, conn, stream>>
  /\ UNCHANGED <<closed, busy, dialled, got>>

\* A command's admission: one active call, on a connection that is not broken.
Execute(o) ==
  /\ op[o].pc = "new"
  /\ \E k \in Commands :
     \/ closed /\ RefuseOp(o, k, "closed") /\ UNCHANGED <<busy, broken, reader, stream>>
     \/ ~closed /\ k # "ping" /\ RefuseOp(o, k, "invalid") /\ UNCHANGED <<busy, broken, reader, stream>>
     \/ ~closed /\ busy /\ RefuseOp(o, k, "busy") /\ UNCHANGED <<busy, broken, reader, stream>>
     \/ /\ ~closed /\ ~busy /\ (broken \/ (conn # 0 /\ ~Open(conn)))
        /\ broken' = TRUE /\ reader' = FALSE /\ stream' = Shut(conn)
        /\ RefuseOp(o, k, "transport") /\ UNCHANGED busy
     \/ /\ ~closed /\ ~busy /\ ~broken /\ conn = 0
        /\ RefuseOp(o, k, "unavailable") /\ UNCHANGED <<busy, broken, reader, stream>>
     \/ /\ ~closed /\ ~busy /\ ~broken /\ Open(conn)
        /\ busy' = TRUE /\ Enter(o, k, "checking", conn)
        /\ UNCHANGED <<broken, reader, stream>>
  /\ UNCHANGED <<closed, conn, dialled, got>>

\* Slip: a call that failed leaves the connection published for the next one.
FailGently(o, r) == Conclude(o, r) /\ UNCHANGED <<broken, reader, conn, stream>>

\* Fail retires the stream before the failure is known to anybody.
FailStream(o, r) ==
  /\ broken' = TRUE /\ reader' = FALSE
  /\ stream' = Shut(conn) /\ conn' = 0
  /\ Conclude(o, r)

\* Slip: bytes nobody asked for are left for the next reply.
CheckNothing(o) ==
  /\ op[o].pc = "checking"
  /\ Move(o, "writing") /\ UNCHANGED <<broken, reader, conn, stream>>
  /\ UNCHANGED <<closed, busy, dialled, got>>

\* Bytes on the connection before the command belong to nobody.
Check(o) ==
  /\ op[o].pc = "checking"
  /\ IF stream[op[o].at].back # <<>> THEN FailStream(o, "protocol")
     ELSE Move(o, "writing") /\ UNCHANGED <<broken, reader, conn, stream>>
  /\ UNCHANGED <<closed, busy, dialled, got>>

\* The write: accepted (its wait may still fail), rejected because the connection
\* is gone, or rejected with the stream untouched.
Write(o) ==
  /\ op[o].pc = "writing"
  /\ LET e == op[o].at
         accepted == [stream EXCEPT ![e].owed = Append(@, o)]
     IN \/ /\ Open(e)
           /\ stream' = accepted
           /\ op' = [op EXCEPT ![o].pc = "reading", ![o].sent = TRUE]
           /\ UNCHANGED <<broken, reader, conn>>
        \/ /\ Open(e)
           /\ broken' = TRUE /\ reader' = FALSE /\ conn' = 0
           /\ stream' = [accepted EXCEPT ![e].open = FALSE]
           /\ op' = [op EXCEPT ![o].pc = "leaving", ![o].res = "unknown", ![o].sent = TRUE]
        \/ ~Open(e) /\ FailStream(o, IF closed THEN "closed" ELSE "transport")
        \/ IF op[o].kind = "connect" THEN FailStream(o, "timed_out")
           ELSE Conclude(o, "timed_out") /\ UNCHANGED <<broken, reader, conn, stream>>
  /\ UNCHANGED <<closed, busy, dialled, got>>

\* The server answers what it owes, in order, also on a retired connection.
Serve(e) ==
  /\ stream[e].owed # <<>>
  /\ stream' = [stream EXCEPT ![e].owed = Tail(@), ![e].back = Append(@, Head(stream[e].owed))]
  /\ UNCHANGED <<bits, conn, dialled, op, got>>

\* The server pushes something of its own while no call is active (one that does
\* so during a call cannot be told from one that answers it).
Push(e) ==
  /\ Open(e) /\ ~busy /\ stream[e].back = <<>>
  /\ stream' = [stream EXCEPT ![e].back = <<"push">>]
  /\ UNCHANGED <<bits, conn, dialled, op, got>>

\* The connection fails or its peer leaves.
Lose(e) ==
  /\ Open(e)
  /\ stream' = Shut(e)
  /\ UNCHANGED <<bits, conn, dialled, op, got>>

\* One whole reply ends the call.  A server error keeps the stream, except in the
\* handshake; bytes beyond it, or a reply of another shape, retire it.
Reply(o) ==
  /\ op[o].pc = "reading" /\ stream[op[o].at].back # <<>>
  /\ LET e == op[o].at
         back == stream[e].back
         k == op[o].kind
         keeps == stream' = [stream EXCEPT ![e].back = <<>>] /\ UNCHANGED <<broken, reader, conn>>
     IN /\ got' = [got EXCEPT ![o] = Head(back)]
        /\ \E s \in Shapes :
             CASE Len(back) > 1 \/ Decode(s) = "protocol" \/ (Decode(s) = "value" /\ s \notin Accepts[k]) ->
                    FailStream(o, "unknown")
               [] Len(back) = 1 /\ Decode(s) = "remote" ->
                    IF k = "connect" THEN FailStream(o, "remote") ELSE Conclude(o, "remote") /\ keeps
               [] Len(back) = 1 /\ Decode(s) = "value" /\ s \in Accepts[k] ->
                    /\ keeps
                    /\ IF k = "connect"
                       THEN op' = [op EXCEPT ![o].pc = AfterHello(op[o].left - 1), ![o].left = @ - 1]
                       ELSE Conclude(o, Answer(k, s))
  /\ UNCHANGED <<closed, busy, dialled>>

\* The read ends without a reply: the command may have taken effect.
ReadFails(o) ==
  /\ op[o].pc = "reading"
  /\ FailStream(o, "unknown")
  /\ UNCHANGED <<closed, busy, dialled, got>>

\* The active place is given up; the reader of a dead stream goes with it.
Leave(o) ==
  /\ op[o].pc = "leaving"
  /\ busy' = FALSE
  /\ reader' = (reader /\ ~closed /\ ~broken)
  /\ op' = [op EXCEPT ![o].pc = "over"]
  /\ UNCHANGED <<closed, broken, conn, dialled, stream, got>>

\* Slip: Close frees the reader although a call is reading with it.
CloseFreely ==
  /\ closed' = TRUE
  /\ stream' = Shut(conn)
  /\ reader' = FALSE
  /\ UNCHANGED <<busy, broken, conn, dialled, op, got>>

\* Close seals and asks the connection to close; an active call keeps the reader.
CloseRedis ==
  /\ closed' = TRUE
  /\ stream' = Shut(conn)
  /\ reader' = (reader /\ busy)
  /\ UNCHANGED <<busy, broken, conn, dialled, op, got>>

RedisNext ==
  \/ \E o \in Op :
       \/ Connect(o) \/ Dialled(o) \/ Hello(o) \/ Confirm(o) \/ Execute(o) \/ Check(o)
       \/ Write(o) \/ Reply(o) \/ ReadFails(o) \/ Leave(o)
  \/ \E e \in Conns : Serve(e) \/ Push(e) \/ Lose(e)
  \/ CloseRedis

RedisSpec == RedisInit /\ [][RedisNext]_redisVars

-----------------------------------------------------------------------------
\* A call is only ever answered with the reply to itself: a late reply, and bytes
\* nobody asked for, never reach the next command.
ReplyMatches == \A o \in Op : op[o].pc = "over" /\ got[o] # "none" => got[o] = o

\* One call at a time holds the client, and while it reads the reader is there,
\* whatever Close does meanwhile.
OneActive ==
  /\ {o \in Op : op[o].pc \in Active} = {} <=> ~busy
  /\ Cardinality({o \in Op : op[o].pc \in Active}) <= 1
  /\ \A o \in Op : op[o].pc \in {"hello", "checking", "writing", "reading"} => reader

\* A command that was sent and whose own answer the caller does not get is told as
\* unknown, one that was not sent never is; and what stays published after a call is in
\* step: nobody is owed a reply on it.
UnknownExact ==
  /\ \A o \in Op : op[o].kind \in Commands /\ op[o].pc = "over" =>
       /\ op[o].res = "unknown" => op[o].sent
       /\ op[o].sent /\ got[o] = "none" => op[o].res = "unknown"
  /\ conn # 0 /\ ~busy => stream[conn].owed = <<>>

\* One call at a time, on a stream in step, truthfully ended.
RedisExact == RedisTypes /\ OneActive /\ ReplyMatches /\ UnknownExact

\* What CoRedisCli.hpp says of Connect: ok means that the connection is usable, the
\* handshake included, and a competing active call is answered Overloaded.
ConnectOkIsReady ==
  [][\A o \in Op : op[o].pc = "new" /\ op'[o].res = "ok" => ~busy]_redisVars
=============================================================================
