---------------------------- MODULE RpcAdmission ----------------------------
(***************************************************************************)
(* Inbound requests of the RPC server: counted and queued by the readers   *)
(* of the links, handed to the application by one worker, answered once,   *)
(* and the drain of the server that waits for all of them.                 *)
(*                                                                         *)
(* Each request comes over a link of its own.  Lanes are one lane; the     *)
(* size of an item is 1.                                                   *)
(***************************************************************************)
EXTENDS Integers, FiniteSets, Sequences

CONSTANTS
  Calls, AckedSends, PlainSends,   \* requests, by what they expect
  MaxInflight, MaxHandlerItems,    \* limits: leases, and size of the queue
  Nobody

VARIABLES
  place,       \* of each request: where it is
  terminal,    \* ReplyCompletion::terminal
  answers,     \* reply frames put into the link's queue so far
  writing,     \* replies whose frame is not settled (writes_outstanding)
  lease,       \* none, held, released
  inflight,    \* the server's counter
  queue, queueClosed,
  worker,      \* the request the worker is at
  deadLinks,   \* requests whose link is dead
  drain        \* no, waiting, ok

admissionVars == <<place, terminal, answers, writing, lease, inflight, queue, queueClosed,
                   worker, deadLinks, drain>>

Request  == Calls \cup AckedSends \cup PlainSends
HasReply == Calls \cup AckedSends

\* What the parameters have to be; assumed wherever they are given values.
AdmissionConstants ==
  /\ IsFiniteSet(Request) /\ HasReply \cap PlainSends = {} /\ Nobody \notin Request
  /\ MaxInflight \in Nat /\ MaxHandlerItems \in Nat

AdmissionInit ==
  /\ place = [r \in Request |-> "wire"] /\ terminal = [r \in Request |-> FALSE]
  /\ answers = [r \in Request |-> 0] /\ writing = {}
  /\ lease = [r \in Request |-> "none"] /\ inflight = 0
  /\ queue = <<>> /\ queueClosed = FALSE /\ worker = Nobody /\ deadLinks = {} /\ drain = "no"

GoTo(r, p) == place' = [place EXCEPT ![r] = p]

-----------------------------------------------------------------------------
(* Terminals and leases. *)

\* A reply frame into the queue of the link, unless the link is dead or its
\* queue refuses.
Post(r) ==
  \/ /\ r \notin deadLinks
     /\ answers' = [answers EXCEPT ![r] = @ + 1] /\ writing' = writing \cup {r}
  \/ UNCHANGED <<answers, writing>>

\* Slip: the terminal is set but not looked at.
ReplyAgain(r) == terminal' = [terminal EXCEPT ![r] = TRUE] /\ Post(r)

\* Complete and Fail: only the first of them goes on.
Reply(r) ==
  IF terminal[r] THEN UNCHANGED <<terminal, answers, writing>>
  ELSE terminal' = [terminal EXCEPT ![r] = TRUE] /\ Post(r)

\* The reader refuses a request: an error frame that nobody waits for.
Reject(r) == IF r \in HasReply THEN Reply(r) ELSE UNCHANGED <<terminal, answers, writing>>

Release(r) ==
  IF lease[r] = "released" THEN UNCHANGED <<lease, inflight>>
  ELSE lease' = [lease EXCEPT ![r] = "released"] /\ inflight' = inflight - 1

-----------------------------------------------------------------------------
(* AdmitInbound, on the reader of the link. *)

\* No server is there, or its queue is not yet: the session is told of an error, nothing
\* is counted, and the request itself gets no reply.
NobodyServes(r) ==
  /\ place[r] = "wire" /\ r \notin deadLinks /\ GoTo(r, "unserved")
  /\ UNCHANGED <<terminal, answers, writing, lease, inflight, queue, queueClosed, worker,
                 deadLinks, drain>>

\* The limit is checked where the lease is counted.
CountLease(r) ==
  /\ place[r] = "wire" /\ r \notin deadLinks
  /\ IF inflight >= MaxInflight
     THEN GoTo(r, "over") /\ Reject(r) /\ UNCHANGED <<lease, inflight>>
     ELSE /\ GoTo(r, "counted") /\ inflight' = inflight + 1
          /\ lease' = [lease EXCEPT ![r] = "held"]
          /\ UNCHANGED <<terminal, answers, writing>>
  /\ UNCHANGED <<queue, queueClosed, worker, deadLinks, drain>>

\* Slip: a refused request is taken from the counter by hand as well.
AdmitCountsTwice(r) ==
  /\ place[r] = "counted"
  /\ IF queueClosed \/ Len(queue) >= MaxHandlerItems
     THEN /\ GoTo(r, "over") /\ Reject(r) /\ UNCHANGED queue
          /\ lease' = [lease EXCEPT ![r] = "released"] /\ inflight' = inflight - 2
     ELSE /\ GoTo(r, "queued") /\ queue' = Append(queue, r)
          /\ UNCHANGED <<terminal, answers, writing, lease, inflight>>
  /\ UNCHANGED <<queueClosed, worker, deadLinks, drain>>

Admit(r) ==
  /\ place[r] = "counted"
  /\ IF queueClosed \/ Len(queue) >= MaxHandlerItems
     THEN GoTo(r, "over") /\ Reject(r) /\ Release(r) /\ UNCHANGED queue
     ELSE /\ GoTo(r, "queued") /\ queue' = Append(queue, r)
          /\ UNCHANGED <<terminal, answers, writing, lease, inflight>>
  /\ UNCHANGED <<queueClosed, worker, deadLinks, drain>>

-----------------------------------------------------------------------------
(* AdmissionWorker: one request at a time. *)

WorkerTake ==
  /\ worker = Nobody /\ queue # <<>>
  /\ worker' = Head(queue) /\ queue' = Tail(queue) /\ GoTo(Head(queue), "handler")
  /\ UNCHANGED <<terminal, answers, writing, lease, inflight, queueClosed, deadLinks, drain>>

\* The handler took the request: a call belongs to the framework from now on,
\* a send is acknowledged, or over.
HandlerAccepts(r) ==
  /\ worker = r /\ place[r] = "handler"
  /\ \/ /\ r \in Calls /\ GoTo(r, "framework") /\ worker' = Nobody
        /\ UNCHANGED <<terminal, answers, writing, lease, inflight>>
     \/ /\ r \in AckedSends /\ GoTo(r, "replying") /\ Reply(r)
        /\ UNCHANGED <<worker, lease, inflight>>
     \/ /\ r \in PlainSends /\ GoTo(r, "over") /\ Release(r) /\ worker' = Nobody
        /\ UNCHANGED <<terminal, answers, writing>>
  /\ UNCHANGED <<queue, queueClosed, deadLinks, drain>>

\* The handler refused it or threw.
HandlerRefuses(r) ==
  /\ worker = r /\ place[r] = "handler"
  /\ \/ /\ r \in HasReply /\ GoTo(r, "replying") /\ Reply(r)
        /\ UNCHANGED <<worker, lease, inflight>>
     \/ /\ r \in PlainSends /\ GoTo(r, "over") /\ Release(r) /\ worker' = Nobody
        /\ UNCHANGED <<terminal, answers, writing>>
  /\ UNCHANGED <<queue, queueClosed, deadLinks, drain>>

\* The worker has waited for the write of its reply, or long enough.
WorkerGoesOn(r) ==
  /\ worker = r /\ place[r] = "replying"
  /\ GoTo(r, "over") /\ Release(r) /\ worker' = Nobody
  /\ UNCHANGED <<terminal, answers, writing, queue, queueClosed, deadLinks, drain>>

\* The framework answers, from any coroutine and as often as it likes.
FrameworkReplies(r) ==
  /\ place[r] = "framework" /\ Reply(r) /\ terminal' # terminal
  /\ UNCHANGED <<place, lease, inflight, queue, queueClosed, worker, deadLinks, drain>>

FrameworkRepliesAgain(r) ==
  /\ place[r] = "framework" /\ terminal[r] /\ Reply(r)
  /\ UNCHANGED <<place, lease, inflight, queue, queueClosed, worker, deadLinks, drain>>

FrameworkReleases(r) ==
  /\ place[r] = "framework" /\ lease[r] = "held" /\ Release(r)
  /\ UNCHANGED <<place, terminal, answers, writing, queue, queueClosed, worker, deadLinks, drain>>

-----------------------------------------------------------------------------
\* The writer or Kill settles the frame.
Settle(r) ==
  /\ r \in writing /\ writing' = writing \ {r}
  /\ UNCHANGED <<place, terminal, answers, lease, inflight, queue, queueClosed, worker,
                 deadLinks, drain>>

\* Of interest while a reply is still to be posted.
LinkDies(r) ==
  /\ r \in HasReply \ deadLinks /\ ~terminal[r] /\ deadLinks' = deadLinks \cup {r}
  /\ UNCHANGED <<place, terminal, answers, writing, lease, inflight, queue, queueClosed,
                 worker, drain>>

\* Drain and Shutdown: stop accepting, close the queue, wait.
DrainBegins ==
  /\ drain = "no" /\ drain' = "waiting" /\ queueClosed' = TRUE
  /\ UNCHANGED <<place, terminal, answers, writing, lease, inflight, queue, worker, deadLinks>>

\* Slip: the request the worker or the framework holds is not looked at.
QueueEmpty == queue = <<>> /\ writing = {}

DrainedLocked == inflight = 0 /\ queue = <<>> /\ writing = {}

DrainReturns ==
  /\ drain = "waiting" /\ DrainedLocked /\ drain' = "ok"
  /\ UNCHANGED <<place, terminal, answers, writing, lease, inflight, queue, queueClosed,
                 worker, deadLinks>>

AdmissionNext ==
  \/ \E r \in Request :
       \/ NobodyServes(r) \/ CountLease(r) \/ Admit(r)
       \/ HandlerAccepts(r) \/ HandlerRefuses(r) \/ WorkerGoesOn(r)
       \/ FrameworkReplies(r) \/ FrameworkRepliesAgain(r) \/ FrameworkReleases(r)
       \/ Settle(r) \/ LinkDies(r)
  \/ WorkerTake \/ DrainBegins \/ DrainReturns

AdmissionSpec == AdmissionInit /\ [][AdmissionNext]_admissionVars

-----------------------------------------------------------------------------
\* The counter of the server is at every moment the number of leases held, on
\* every path a request can take, and within its limit; no request is answered
\* twice, and none with a reply leaves the server without its terminal decided.
AdmissionExact ==
  /\ inflight = Cardinality({ r \in Request : lease[r] = "held" }) /\ inflight <= MaxInflight
  /\ \A r \in Request : /\ answers[r] <= IF r \in HasReply THEN 1 ELSE 0
                        /\ place[r] = "over" /\ r \in HasReply => terminal[r]

\* After a drain that reported success no request is with the handler, the
\* worker or the framework, and none gets there any more.
DrainIsFinal ==
  drain = "ok" =>
    \A r \in Request : /\ place[r] \in {"wire", "unserved", "counted", "framework", "over"}
                       /\ place[r] = "framework" => lease[r] = "released"

\* Requests are counted, answered and drained exactly.
RequestsAccounted == AdmissionExact /\ DrainIsFinal
=============================================================================
