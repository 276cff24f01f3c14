----------------------------- MODULE HttpClient -----------------------------
(***************************************************************************)
(* One request of the HTTP client (http/Client.cc, detail/Http11.cc): it   *)
(* is built from the client's and the request's options, may be altered by *)
(* its owner, is validated again, written over a leased connection and     *)
(* answered.  The pool is HttpPool's; here a lease is granted or refused.  *)
(* A URL is the record of its parts, a header a name class and a value.    *)
(***************************************************************************)
EXTENDS Naturals, Sequences, SequencesExt

CONSTANTS Phase,     \* the timeouts' phases: connect, read, write, pool
          Inputs,   \* the (client options, url, request options) to build from
          Interims   \* informational responses tolerated before the final one

\* What the parameters have to be; assumed wherever they are given values.
HttpClientAssumption == Interims \in Nat

VARIABLES input,     \* the options and the url
          prepared,  \* the PreparedRequest, or NoRequest
          pc,        \* where the call is
          closed,    \* the pool's closing: open, draining or closed
          wire,      \* the request's bytes: none, queued, sent or failed
          pending,   \* bytes read beyond the response
          interim,   \* informational responses seen
          pool,      \* what became of the lease: none, leased, kept or destroyed
          result     \* the result: code and request_phase

vars == <<input, prepared, pc, closed, wire, pending, interim, pool, result>>

NoRequest == [method |-> "none"]

-----------------------------------------------------------------------------
(* Building and validating. *)

\* ParseUrl: numeric http hosts only; port 80 is the default.
UrlParses(u) ==
  /\ u.scheme = "http"
  /\ u.host \in {"v4", "v6"}
  /\ u.port \in {"absent", "80", "8080"}

Destination(u) == <<u.host, IF u.port = "absent" THEN "80" ELSE u.port>>

\* HostHeader: the default port is not written.
HostHeader(u) == <<u.host, IF Destination(u)[2] = "80" THEN "absent" ELSE Destination(u)[2]>>

Named(H, n) == SelectSeq(H, LAMBDA h : h.name = n)

\* ValidateHeaders: tokens, no framing fields, at most one Host.
HeadersValid(H) ==
  /\ \A i \in DOMAIN H : H[i].name \notin {"bad", "framing"} /\ H[i].value # "control"
  /\ Len(Named(H, "host")) <= 1

\* A request header replaces the first one of its name, or is added.
Put(H, h) ==
  IF Named(H, h.name) = <<>> THEN Append(H, h)
  ELSE [H EXCEPT ![CHOOSE i \in DOMAIN H : H[i].name = h.name
                     /\ \A j \in 1..(i - 1) : H[j].name # h.name] = h]

\* The merged headers; where nobody gave a Host it is the URL's ("url").
Merged(C, R) ==
  LET H == FoldLeft(Put, C, R)
  IN  IF Named(H, "host") = <<>> THEN Append(H, [name |-> "host", value |-> "url"]) ELSE H

\* ResolvePhase: a request's phase counts unless it inherits.
ResolvePhase(r, c) == IF r = "inherit" THEN c ELSE r

Resolved(t) == \A p \in Phase : t[p] \in {"off", "finite"}

\* A relative url is resolved against base_url.
Absolute(i) == IF i.url.scheme = "none" THEN [i.base EXCEPT !.query = i.url.query] ELSE i.url

\* ValidatePrepared: everything BuildRequest established, once more.
Valid(q) ==
  /\ q.method \in {"GET", "POST", "HEAD"}
  /\ HeadersValid(q.headers)
  /\ Len(SelectSeq(q.headers, LAMBDA h : h.name = "host" /\ h.value # "")) = 1
  /\ Resolved(q.timeout)
  /\ UrlParses(q.url)
  /\ q.target = q.url.query
  /\ q.address = Destination(q.url)
  /\ q.host_header = HostHeader(q.url)

\* BuildRequest: the query is the URL's followed by the client's and the request's
\* parameters; the prepared url is rebuilt from the Host header and the target.
BuildRequest(i) ==
  LET u == Absolute(i)
      query == u.query \o i.client.params \o i.request.params
  IN [method |-> i.method,
      url |-> [scheme |-> "http", host |-> u.host, port |-> HostHeader(u)[2], query |-> query],
      target |-> query,
      address |-> Destination(u),
      host_header |-> HostHeader(u),
      headers |-> Merged(i.client.headers, i.request.headers),
      timeout |-> [p \in Phase |-> ResolvePhase(i.request.timeout[p], i.client.timeout[p])]]

\* Client::Create refuses defaults that no request could use.
ClientValid(i) ==
  /\ HeadersValid(i.client.headers)
  /\ Resolved(i.client.timeout)
  /\ i.base.scheme = "none" \/ UrlParses(i.base)

\* SerializeRequest sets field after field: the last one of a name stays.
OnWire(q, n) == LET N == Named(q.headers, n) IN IF N = <<>> THEN "" ELSE Last(N).value

-----------------------------------------------------------------------------
Init ==
  /\ input \in {i \in Inputs : ClientValid(i)}
  /\ prepared = NoRequest
  /\ pc = "new"
  /\ closed = "open"
  /\ wire = "none" /\ pending = FALSE /\ interim = 0 /\ pool = "none"
  /\ result = [code |-> "none", phase |-> "none"]

Answer(c, p) == result' = [code |-> c, phase |-> p] /\ pc' = "done"
Lost == pool' = IF pool = "leased" THEN "destroyed" ELSE pool

\* Send's fail(): a committed request keeps its outcome, anything else that fails
\* while the client is closed is answered with the close reason.
Fail(c, p) == Answer(IF closed = "closed" /\ p # "committed" THEN "closed" ELSE c, p) /\ Lost

Build ==
  /\ pc = "new"
  /\ IF UrlParses(Absolute(input)) /\ Valid(BuildRequest(input))
     THEN prepared' = BuildRequest(input) /\ pc' = "built" /\ UNCHANGED result
     ELSE Answer("invalid", "none") /\ UNCHANGED prepared
  /\ UNCHANGED <<input, closed, wire, pending, interim, pool>>

\* The prepared request is a plain value that its owner may change before Send.
Alter ==
  /\ pc = "built"
  /\ \E h \in {[name |-> "framing", value |-> "v1"], [name |-> "host", value |-> "v2"]} :
       \/ prepared' = [prepared EXCEPT !.headers = Append(@, h)]
       \/ prepared' = [prepared EXCEPT !.target = Append(@, "v2")]
       \/ prepared' = [prepared EXCEPT !.address = <<"v4", "8080">>]
       \/ prepared' = [prepared EXCEPT !.timeout = [p \in Phase |-> "inherit"]]
  /\ pc' = "altered"
  /\ UNCHANGED <<input, closed, wire, pending, interim, pool, result>>

\* Slip: Send trusts what BuildRequest validated.
SendTrusting ==
  /\ pc \in {"built", "altered"}
  /\ \/ closed # "open" /\ Answer("closed", "none")
     \/ closed = "open" /\ pc' = "acquiring" /\ UNCHANGED result
  /\ UNCHANGED <<input, prepared, closed, wire, pending, interim, pool>>

\* Send's gates: the client is open, the request valid, the call not yet over.
Send ==
  /\ pc \in {"built", "altered"}
  /\ \/ closed # "open" /\ Answer("closed", "none")
     \/ closed = "open" /\ ~Valid(prepared) /\ Answer("invalid", "none")
     \/ closed = "open" /\ Valid(prepared) /\ \E c \in {"cancelled", "timed_out"} : Answer(c, "none")
     \/ closed = "open" /\ Valid(prepared) /\ pc' = "acquiring" /\ UNCHANGED result
  /\ UNCHANGED <<input, prepared, closed, wire, pending, interim, pool>>

\* The pool grants a connection, or the wait for one fails.
Acquire ==
  /\ pc = "acquiring"
  /\ \/ closed # "closed" /\ pool' = "leased" /\ pc' = "writing" /\ UNCHANGED result
     \/ \E c \in {"cancelled", "timed_out", "unavailable"} : Fail(c, "none")
  /\ UNCHANGED <<input, prepared, closed, wire, pending, interim>>

\* WriteRequest: refused before submission, rejected, or handed to the connection.
Submit ==
  /\ pc = "writing"
  /\ \/ \E c \in {"cancelled", "timed_out"} : Fail(c, "none") /\ UNCHANGED wire
     \/ Fail("unavailable", "writing") /\ UNCHANGED wire
     \/ wire' = "queued" /\ pc' = "submitted" /\ UNCHANGED <<pool, result>>
  /\ UNCHANGED <<input, prepared, closed, pending, interim>>

\* The connection's writer: the queued bytes leave or the connection fails.  It
\* goes on after the call has ended.
Transmit ==
  /\ wire = "queued"
  /\ wire' \in {"sent", "failed"}
  /\ UNCHANGED <<input, prepared, pc, closed, pending, interim, pool, result>>

\* Slip: a wait that ended while the write was in flight is a plain timeout.
WriteTimesOut == {[code |-> c, phase |-> "writing"] : c \in {"timed_out", "cancelled"}}

\* How an ended wait over a write in flight is told: accepted bytes are not
\* withdrawn, so it is unknown whether the request took effect.
WriteEnds == {[code |-> c, phase |-> "writing"] : c \in {"unknown", "cancelled"}}

\* The write's wait ends: everything sent (with or without an error of the wait
\* itself), the connection failed, or still in flight.
Written ==
  /\ pc = "submitted"
  /\ \/ wire = "sent" /\ pc' = "reading" /\ UNCHANGED <<pool, result>>
     \/ wire = "sent" /\ \E c \in {"unknown", "cancelled"} : Fail(c, "committed")
     \/ wire = "failed" /\ \E c \in {"unavailable", "timed_out", "cancelled"} : Fail(c, "writing")
     \/ wire = "queued" /\ \E r \in WriteEnds : Fail(r.code, r.phase)
  /\ UNCHANGED <<input, prepared, closed, wire, pending, interim>>

\* ReadResponse fails: the request is out, so the outcome is unknown unless it was
\* cancelled or the peer broke the protocol.
ReadFails ==
  /\ pc = "reading"
  /\ \E c \in {"unknown", "cancelled", "protocol"} : Fail(c, "committed")
  /\ UNCHANGED <<input, prepared, closed, wire, pending, interim>>

\* An informational response is skipped, up to the limit.
Interim ==
  /\ pc = "reading"
  /\ IF interim < Interims
     THEN interim' = interim + 1 /\ UNCHANGED <<pool, pc, result>>
     ELSE interim' = interim /\ Fail("protocol", "committed")
  /\ UNCHANGED <<input, prepared, closed, wire, pending>>

\* A connection is reused when both ends agree and nothing was read beyond.
KeepAlive(more, asked) == asked /\ ~more

\* The final response; Release returns the connection or lets it go.
Respond ==
  /\ pc = "reading"
  /\ \E more, asked \in BOOLEAN :
       /\ pending' = more
       /\ pool' = IF KeepAlive(more, asked) THEN "kept" ELSE "destroyed"
  /\ Answer("ok", "committed")
  /\ UNCHANGED <<input, prepared, closed, wire, interim>>

\* Shutdown refuses new requests; Close publishes its reason.
Seal ==
  /\ \/ closed = "open" /\ closed' = "draining"
     \/ closed # "closed" /\ closed' = "closed"
  /\ pc \notin {"new", "done"}
  /\ UNCHANGED <<input, prepared, pc, wire, pending, interim, pool, result>>

Next ==
  \/ Build \/ Alter \/ Send \/ Acquire \/ Submit \/ Transmit \/ Written
  \/ ReadFails \/ Interim \/ Respond \/ Seal

Spec == Init /\ [][Next]_vars

-----------------------------------------------------------------------------
TypeOK ==
  /\ pc \in {"new", "built", "altered", "acquiring", "writing", "submitted", "reading", "done"}
  /\ closed \in {"open", "draining", "closed"}
  /\ wire \in {"none", "queued", "sent", "failed"}
  /\ interim \in 0..Interims
  /\ pool \in {"none", "leased", "kept", "destroyed"}

Sending == pc \in {"acquiring", "writing", "submitted", "reading"} \/ pool # "none"

\* What leaves the client is well formed whatever was done to the prepared request:
\* one Host, no framing field, resolved timeouts, target and address of its url;
\* unaltered, each of its headers has the value the request gave last, else the
\* client's (for names the client's defaults do not repeat).
WireSound ==
  Sending =>
    LET q == prepared
        C == input.client.headers
        R == input.request.headers
    IN /\ Len(Named(q.headers, "host")) = 1 /\ Named(q.headers, "framing") = <<>>
       /\ q.address = Destination(q.url) /\ q.target = q.url.query
       /\ \A p \in Phase :
            q.timeout[p] # "inherit"
            /\ (input.request.timeout[p] # "inherit" => q.timeout[p] = input.request.timeout[p])
       /\ \A n \in {"host", "plain"} :
            Len(Named(C, n)) <= 1 =>
              CASE Named(R, n) # <<>> -> OnWire(q, n) = Last(Named(R, n)).value
                [] Named(C, n) # <<>> -> OnWire(q, n) = Named(C, n)[1].value
                [] OTHER -> OnWire(q, n) = IF n = "host" THEN "url" ELSE ""

\* The error tells the truth about the request: one that is neither unknown,
\* cancelled, committed nor the close reason was never sent and never will be, a
\* committed one was sent in full, and a connection kept for reuse is clean.
OutcomeHonest ==
  pc = "done" =>
    /\ result.code \in {"invalid", "timed_out", "unavailable"} => wire \in {"none", "failed"}
    /\ result.phase = "committed" => wire = "sent" /\ result.code # "closed"
    /\ pool = "kept" => result.code = "ok" /\ ~pending
    /\ pool # "leased"

\* An exchange is well formed on the wire and truthful to its caller.
ExchangeExact == TypeOK /\ WireSound /\ OutcomeHonest

\* What the comment on fail() says of every request that may have taken effect:
\* the close reason does not replace it.
ClosedIsDefinite == pc = "done" /\ result.code = "closed" => wire \in {"none", "failed"}
=============================================================================
