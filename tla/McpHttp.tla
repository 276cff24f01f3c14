------------------------------ MODULE McpHttp ------------------------------
(***************************************************************************)
(* The HTTP transport of the MCP server: the gates a POST passes before    *)
(* its body reaches the core, and the event stream that answers a          *)
(* subscription.  The sink of the session is first a list filled while the *)
(* request is handled (captured) and then the queue of the stream (body);  *)
(* a publisher copies the sink under a lock and calls it later.            *)
(*                                                                         *)
(* One request, on a connection of its own.  Frames are Ack and the        *)
(* numbers of the changes published.                                       *)
(***************************************************************************)
EXTENDS Naturals, FiniteSets, SequencesExt

CONSTANTS MaxEvents, MaxPublish

\* What the parameters have to be; assumed wherever they are given values.
HttpAssumption == MaxEvents \in Nat \ {0} /\ MaxPublish \in Nat

VARIABLES
  request, at, reply,
  listed,     \* the core lists the subscription; acknowledged, it gets changes
  acked,
  sink,       \* where the session's notifications go: captured, body or none
  calling,    \* changes on their way: the sink that was copied and the number
  published,
  captured, body, dropped,
  cancelled, detached,
  sent        \* chunks given to the client, but for keep-alives

mcpHttpVars == <<request, at, reply, listed, acked, sink, calling, published,
                 captured, body, dropped, cancelled, detached, sent>>

-----------------------------------------------------------------------------
\* What the gates look at, in the terms of what they compare with: an authority
\* is a host, with a port or without; a media range covers json, sse or both; a
\* routing header repeats the body, plainly or coded, or does not.
Authority == [host : {"ours", "alias", "foreign"}, port : {"", "80", "90"}]
Allowed == {[host |-> "ours", port |-> "80"], [host |-> "alias", port |-> ""]}
Covers == [json |-> {"json"}, sse |-> {"sse"}, any |-> {"json", "sse"},
           application |-> {"json"}, text |-> {"sse"}, image |-> {}]
Value == [none |-> "none", same |-> "body", coded |-> "body", miscoded |-> "none",
          other |-> "other", twice |-> "none"]
Routing == {"none", "same", "other", "twice"}

Ack == 0

Good == [path |-> TRUE, post |-> TRUE, origins |-> {}, hosts |-> <<[host |-> "alias", port |-> "90"]>>,
         accept |-> {"any"}, fits |-> TRUE, parsed |-> TRUE, modern |-> TRUE,
         named |-> FALSE, listen |-> TRUE, version |-> "same", method |-> "same", name |-> "none"]

\* Requests that differ from a good one at the door, and all those whose routing
\* headers may be wrong.
AtTheDoor ==
  { [Good EXCEPT !.path = p, !.post = m, !.fits = f] : p, m, f \in BOOLEAN }
    \cup { [Good EXCEPT !.listen = FALSE, !.origins = o, !.hosts = h, !.accept = a] :
             o \in SUBSET {"allowed", "other"},
             h \in {<<>>} \cup {<<x>> : x \in Authority} \cup {<<x, y>> : x, y \in Allowed},
             a \in {x \in SUBSET DOMAIN Covers : Cardinality(x) <= 2} }
Routed ==
  { [Good EXCEPT !.parsed = p, !.modern = m, !.named = n, !.listen = FALSE,
                 !.version = v, !.method = t, !.name = w] :
      p, m, n \in BOOLEAN, v, t \in Routing, w \in DOMAIN Value }

\* A browser names its origin; any other client has none.
OriginOk(r) == r.origins = {} \/ "allowed" \in r.origins

\* One host, not even the same twice, and an entry that names it and, if it has a
\* port, the same port.
HostOk(r) ==
  /\ Len(r.hosts) = 1
  /\ \E e \in Allowed : e.host = r.hosts[1].host /\ e.port \in {"", r.hosts[1].port}

AcceptOk(r) == {"json", "sse"} \subseteq UNION {Covers[x] : x \in r.accept}

\* The first gate that fails decides the status.
Door(r) ==
  CASE ~r.path -> 404
    [] r.path /\ ~r.post -> 405
    [] r.path /\ r.post /\ ~OriginOk(r) -> 403
    [] r.path /\ r.post /\ OriginOk(r) /\ ~HostOk(r) -> 421
    [] r.path /\ r.post /\ OriginOk(r) /\ HostOk(r) /\ ~AcceptOk(r) -> 406
    [] r.path /\ r.post /\ OriginOk(r) /\ HostOk(r) /\ AcceptOk(r) /\ ~r.fits -> 413
    [] OTHER -> 200

\* Slip: the headers of a request without an envelope are not looked at.
ModernGateOnly(r) ==
  \/ ~r.parsed \/ ~r.modern
  \/ /\ r.version = "same" /\ r.method = "same"
     /\ IF r.named THEN Value[r.name] = "body" ELSE r.name = "none"

\* No routing header comes twice.  Those of a modern request repeat its body; a
\* legacy one has none but a version that is served, which stands for its
\* initialize.
HeaderGate(r) ==
  \/ ~r.parsed
  \/ /\ "twice" \notin {r.version, r.method, r.name}
     /\ IF r.modern
        THEN /\ r.version = "same" /\ r.method = "same"
             /\ IF r.named THEN Value[r.name] = "body" ELSE r.name = "none"
        ELSE r.version \in {"none", "same"} /\ r.method = "none" /\ r.name = "none"

McpHttpInit ==
  /\ request \in AtTheDoor \cup Routed
  /\ at = "door" /\ reply = 0 /\ listed = FALSE /\ acked = FALSE
  /\ sink = "captured" /\ calling = <<>> /\ published = 0
  /\ captured = <<>> /\ body = <<>> /\ dropped = 0
  /\ cancelled = FALSE /\ detached = FALSE /\ sent = <<>>

streamVars == <<listed, acked, sink, calling, published, captured, body, dropped,
                cancelled, detached, sent>>

Handle ==
  /\ at = "door"
  /\ LET status == IF Door(request) = 200 /\ ~HeaderGate(request) THEN 400 ELSE Door(request)
     IN IF status = 200
          THEN at' = (IF request.listen THEN "listen" ELSE "core") /\ UNCHANGED reply
          ELSE at' = "replied" /\ reply' = status
  /\ UNCHANGED <<request, streamVars>>

\* The core answers, takes a notification, or refuses.
CoreAnswers ==
  /\ at = "core" /\ at' = "replied"
  /\ reply' \in {200, 202, 503} \cup (IF request.parsed /\ request.modern THEN {400, 404} ELSE {})
  /\ UNCHANGED <<request, streamVars>>

-----------------------------------------------------------------------------
\* The core enters the subscription and gives the acknowledgement to the sink.
Listen ==
  /\ at = "listen" /\ at' = "acking"
  /\ listed' = TRUE /\ captured' = Append(captured, Ack)
  /\ UNCHANGED <<request, reply, acked, sink, calling, published, body, dropped,
                 cancelled, detached, sent>>

MarkAcked ==
  /\ at = "acking" /\ at' = "captured" /\ acked' = TRUE
  /\ UNCHANGED <<request, reply, listed, sink, calling, published, captured, body,
                 dropped, cancelled, detached, sent>>

\* The stream takes nothing more: it was given up, or its body is no more.
Over == cancelled \/ at = "dropped"

\* Slip: the queue has no limit.
PushAll(frames) ==
  IF Over THEN UNCHANGED <<body, dropped>> ELSE body' = body \o frames /\ UNCHANGED dropped

\* A frame enters the queue of the stream if there is room.
Push(frames) ==
  LET kept == SubSeq(frames, 1, IF Len(frames) <= MaxEvents - Len(body)
                                  THEN Len(frames) ELSE MaxEvents - Len(body))
  IN IF Over THEN UNCHANGED <<body, dropped>>
     ELSE body' = body \o kept /\ dropped' = dropped + Len(frames) - Len(kept)

\* What was captured becomes the start of the stream ...
MoveCaptured ==
  /\ at = "captured" /\ at' = "moved"
  /\ Push(captured) /\ captured' = <<>>
  /\ UNCHANGED <<request, reply, listed, acked, sink, calling, published,
                 cancelled, detached, sent>>

\* ... and only then does the sink lead there.
Attach ==
  /\ at = "moved" /\ at' = "stream" /\ sink' = "body"
  /\ UNCHANGED <<request, reply, listed, acked, calling, published, captured, body,
                 dropped, cancelled, detached, sent>>

\* A change for this subscription: the sink is copied ...
Publish ==
  /\ listed /\ acked /\ sink # "none" /\ published < MaxPublish
  /\ published' = published + 1
  /\ calling' = Append(calling, <<sink, published + 1>>)
  /\ UNCHANGED <<request, at, reply, listed, acked, sink, captured, body, dropped,
                 cancelled, detached, sent>>

\* ... and called; publishers do not wait for each other.
CallSink(n) ==
  /\ n \in DOMAIN calling
  /\ LET to == calling[n][1]
         what == <<calling[n][2]>>
     IN IF to = "captured"
          THEN captured' = captured \o what /\ UNCHANGED <<body, dropped>>
          ELSE Push(what) /\ UNCHANGED captured
  /\ calling' = RemoveAt(calling, n)
  /\ UNCHANGED <<request, at, reply, listed, acked, sink, published, cancelled,
                 detached, sent>>

\* Start and Next hand over the first frame; an empty queue is answered with a
\* keep-alive, which is not kept here.
Next ==
  /\ at = "stream" /\ body # <<>>
  /\ sent' = Append(sent, Head(body)) /\ body' = Tail(body)
  /\ UNCHANGED <<request, at, reply, listed, acked, sink, calling, published,
                 captured, dropped, cancelled, detached>>

\* The stream is given up by the HTTP server: nothing is queued from now on ...
CancelStream ==
  /\ at = "stream" /\ ~cancelled /\ cancelled' = TRUE
  /\ UNCHANGED <<request, at, reply, listed, acked, sink, calling, published,
                 captured, body, dropped, detached, sent>>

\* Its body dies without a Cancel, with what it holds: a sink that is called from
\* now on finds nobody ...
DropBody ==
  /\ at = "stream" /\ ~cancelled /\ at' = "dropped" /\ body' = <<>>
  /\ UNCHANGED <<request, reply, listed, acked, sink, calling, published, captured,
                 dropped, cancelled, detached, sent>>

\* ... then the sink is taken down and the subscription ended.
Unmount ==
  /\ Over /\ sink # "none" /\ sink' = "none"
  /\ UNCHANGED <<request, at, reply, listed, acked, calling, published, captured,
                 body, dropped, cancelled, detached, sent>>
Detach ==
  /\ Over /\ sink = "none" /\ ~detached
  /\ listed' = FALSE /\ detached' = TRUE
  /\ UNCHANGED <<request, at, reply, acked, sink, calling, published, captured,
                 body, dropped, cancelled, sent>>

McpHttpNext ==
  \/ Handle \/ CoreAnswers \/ Listen \/ MarkAcked \/ MoveCaptured \/ Attach
  \/ Publish \/ Next \/ CancelStream \/ DropBody \/ Unmount \/ Detach
  \/ \E n \in 1..MaxPublish : CallSink(n)

McpHttpSpec == McpHttpInit /\ [][McpHttpNext]_mcpHttpVars

-----------------------------------------------------------------------------
\* The core sees no request whose routing headers contradict its body, a legacy
\* one no more than a modern one, or whose origin or host is not allowed
\* (HttpTransport.cc:558-577, 688-756).
GatesHold ==
  at \in {"core", "listen", "acking", "captured", "moved", "stream"} =>
    /\ request.path /\ request.post /\ request.fits
    /\ \E h \in Authority :
         request.hosts = <<h>> /\ h.host # "foreign" /\ (h.host = "ours" => h.port = "80")
    /\ request.origins # {"other"}
    /\ request.parsed =>
         /\ request.version \notin {"twice", "other"} /\ request.method \notin {"twice", "other"}
         /\ request.name \notin {"twice", "other", "miscoded"}
         /\ ~request.modern => request.method = "none" /\ request.name = "none"

\* The stream begins with the acknowledgement, holds no change twice, and its
\* queue never outgrows its limit (Push, PopLocked; HttpTransport.cc:341-358, 391-401).
StreamExact ==
  LET all == sent \o body
  IN /\ all # <<>> => Head(all) = Ack
     /\ IsInjective(all)
     /\ Len(body) <= MaxEvents
     /\ detached => ~listed

\* What passes the door is in order, and so is what goes back on a stream.
HttpExact == GatesHold /\ StreamExact

\* No change is lost between the capture and the stream (the comment at
\* HttpTransport.cc:628-630).  One is: a change that reaches the captured list
\* after it was moved stays there.
NoWindowLoss ==
  at = "stream" => captured = <<>>
=============================================================================
