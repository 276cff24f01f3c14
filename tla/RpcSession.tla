----------------------------- MODULE RpcSession -----------------------------
(***************************************************************************)
(* One link of an RPC session (SessionCore): callers that register a call  *)
(* and queue its frame, the writer coroutine that takes frames from three  *)
(* lanes, the reader coroutine that matches replies, and Kill, which any   *)
(* of them or the owner may start.                                         *)
(*                                                                         *)
(* A critical section of out_mu or pending_mu is one step; what the code   *)
(* does between two of them is open to the others.  A Send that asks for   *)
(* acceptance goes the way of a call (its table is sends), one that does   *)
(* not is a Tell, as are the frames the reader posts without waiting; a    *)
(* Reply is ReplyCompletion::Complete or Fail.  Every frame is one unit of *)
(* the lane's byte limit.  An operation that leaves a dead link to try     *)
(* another one has the result "moved".  Error codes are kept as far as     *)
(* they tell what the caller may believe of its frame:                     *)
(*   "reply"       the peer answered                                       *)
(*   "closed"      not committed when the link died                        *)
(*   "failed"      the write failed, phase Writing or before               *)
(*   "unknown"     OutcomeUnknown, or Cancelled in phase RequestCommitted  *)
(*   "gaveUp"      TimedOut or Cancelled, not committed                    *)
(***************************************************************************)
EXTENDS Naturals, Sequences, FiniteSets

CONSTANTS
  Calls, Tells, Replies,  \* the operations of the run
  Nobody,
  Lane,                   \* TrafficClass of every operation
  LaneCap,                \* ServiceQueueBytes and its like
  ServiceWeight, ActorWeight

Op == Calls \cup Tells \cup Replies
Lanes == {"system", "service", "actor"}

ASSUME SessionConstants ==
  /\ IsFiniteSet(Op) /\ Nobody \notin Op
  /\ Calls \cap Tells = {} /\ Calls \cap Replies = {} /\ Tells \cap Replies = {}
  /\ Lane \in [Op -> Lanes]
  /\ LaneCap \in Nat \ {0} /\ ServiceWeight \in Nat \ {0} /\ ActorWeight \in Nat \ {0}

VARIABLES
  dead, sealed,        \* dead, out_sealed
  kill, killWake,      \* where Kill is, and the waiters FailPending still owes
  queue, credit,       \* out_q, rr_credit
  outstanding,         \* writes_outstanding
  table,               \* calls and sends, the keys
  committed, done,     \* of the pending records; settled of the replies
  outcome,
  pc, woken, result,   \* the operations: place, waiter notified, what it returned
  writer, hand, failure, writerWake,
  reader, matched,
  closing,             \* RequestClose was called, or the connection broke
  kernel, sent         \* the accepted write under way; frames sent in full

killVars   == <<dead, sealed, kill, killWake>>
outVars    == <<queue, credit, outstanding>>
pendVars   == <<table, committed, done, outcome>>
opVars     == <<pc, woken, result>>
writerVars == <<writer, hand, failure, writerWake>>
readerVars == <<reader, matched>>
netVars    == <<closing, kernel, sent>>
vars == <<killVars, outVars, pendVars, opVars, writerVars, readerVars, netVars>>

Init ==
  /\ dead = FALSE /\ sealed = FALSE /\ kill = "none" /\ killWake = {}
  /\ queue = [l \in Lanes |-> <<>>]
  /\ credit = [l \in {"service", "actor"} |-> 0]
  /\ outstanding = 0
  /\ table = {} /\ committed = {} /\ done = {}
  /\ outcome = [o \in Op |-> "unset"]
  /\ pc = [o \in Op |-> IF o \in Calls THEN "insert" ELSE "enqueue"]
  /\ woken = {} /\ result = [o \in Op |-> "none"]
  /\ writer = "idle" /\ hand = Nobody /\ failure = "none" /\ writerWake = {}
  /\ reader = "read" /\ matched = Nobody
  /\ closing = FALSE /\ kernel = Nobody /\ sent = {}

-----------------------------------------------------------------------------
(***************************************************************************)
(* The callers.                                                            *)
(***************************************************************************)
Goto(o, p) == pc' = [pc EXCEPT ![o] = p]
Return(o, r) == Goto(o, "done") /\ result' = [result EXCEPT ![o] = r]

\* A record is kept while somebody waits on it.
Forget(o) ==
  /\ committed' = committed \ {o} /\ done' = done \ {o} /\ woken' = woken \ {o}
  /\ outcome' = [outcome EXCEPT ![o] = "unset"]
Publish(S, value) ==
  LET kept == { o \in S : pc[o] # "done" } IN
  /\ outcome' = [o \in Op |-> IF o \in kept THEN value ELSE outcome[o]]
  /\ done' = done \cup kept

\* CoWaiter::Notify: without a registered wait it leaves no trace.
Notified(S) == { o \in S : pc[o] \in {"recheck", "parked"} }

\* Slip: the record is entered without another look at dead.
InsertUnchecked(o) ==
  /\ pc[o] = "insert"
  /\ table' = table \cup {o}
  /\ Goto(o, "enqueue")
  /\ UNCHANGED <<killVars, outVars, committed, done, outcome, woken, result,
                 writerVars, readerVars, netVars>>

\* CallImpl under pending_mu: a dead link sends the caller to another one.
Insert(o) ==
  /\ pc[o] = "insert"
  /\ IF dead THEN Return(o, "moved") /\ UNCHANGED table
             ELSE Goto(o, "enqueue") /\ table' = table \cup {o} /\ UNCHANGED result
  /\ UNCHANGED <<killVars, outVars, committed, done, outcome, woken,
                 writerVars, readerVars, netVars>>

\* Slip: the limit of the lane is not looked at.
EnqueueUnbounded(o) ==
  /\ pc[o] = "enqueue" /\ ~(sealed \/ dead)
  /\ queue' = [queue EXCEPT ![Lane[o]] = Append(@, o)]
  /\ outstanding' = outstanding + 1
  /\ IF o \in Tells THEN Return(o, "accepted")
                    ELSE Goto(o, "enqueued") /\ UNCHANGED result
  /\ UNCHANGED <<killVars, credit, pendVars, woken, writerVars, readerVars,
                 netVars>>

\* Enqueue under out_mu.  A refused call takes its record out again in a
\* critical section of its own.
Enqueue(o) ==
  LET refused == sealed \/ dead
      full    == Len(queue[Lane[o]]) + 1 > LaneCap
      why     == IF ~refused THEN "overloaded"
                 ELSE IF o \in Replies THEN "closed" ELSE "moved"
  IN
  /\ pc[o] = "enqueue"
  /\ IF refused \/ full
     THEN /\ result' = [result EXCEPT ![o] = why]
          /\ Goto(o, IF o \in Calls THEN "undo" ELSE "done")
          /\ UNCHANGED <<queue, outstanding>>
     ELSE /\ queue' = [queue EXCEPT ![Lane[o]] = Append(@, o)]
          /\ outstanding' = outstanding + 1
          /\ IF o \in Tells THEN Return(o, "accepted")
                            ELSE Goto(o, "enqueued") /\ UNCHANGED result
  /\ UNCHANGED <<killVars, credit, pendVars, woken, writerVars, readerVars,
                 netVars>>

Undo(o) ==
  /\ pc[o] = "undo"
  /\ table' = table \ {o}
  /\ Goto(o, "done") /\ Forget(o)
  /\ UNCHANGED <<killVars, outVars, result, writerVars, readerVars, netVars>>

\* The wait: a call registers its waiter and then looks at done again
\* (WaitWithCallback); a reply only registers (Wait).
Register(o) ==
  /\ pc[o] = "enqueued"
  /\ Goto(o, IF o \in Calls THEN "recheck" ELSE "parked")
  /\ UNCHANGED <<killVars, outVars, pendVars, woken, result, writerVars, readerVars,
                 netVars>>

\* Slip: registered without the second look.
RecheckNothing(o) ==
  /\ pc[o] = "recheck"
  /\ Goto(o, "parked")
  /\ UNCHANGED <<killVars, outVars, pendVars, woken, result, writerVars, readerVars,
                 netVars>>

Recheck(o) ==
  /\ pc[o] = "recheck"
  /\ woken' = woken \cup ({o} \cap done)
  /\ Goto(o, "parked")
  /\ UNCHANGED <<killVars, outVars, pendVars, result, writerVars, readerVars, netVars>>

Completed(o) ==
  /\ pc[o] = "parked" /\ o \in woken
  /\ Return(o, outcome[o]) /\ Forget(o)
  /\ UNCHANGED <<killVars, outVars, table, writerVars, readerVars, netVars>>

\* The deadline or a cancellation wins the wait.
Expire(o) ==
  /\ pc[o] = "parked" /\ o \notin woken
  /\ IF o \in Calls THEN Goto(o, "expired") /\ UNCHANGED <<result, committed, done, outcome, woken>>
                    ELSE Return(o, "gaveUp") /\ Forget(o)
  /\ UNCHANGED <<killVars, outVars, table, writerVars, readerVars, netVars>>

\* Then the call is taken out of the table under pending_mu, and committed
\* decides what is said about it.  Its frame stays where it is.
GiveUp(o) ==
  /\ pc[o] = "expired"
  /\ table' = table \ {o}
  /\ Return(o, IF o \in committed THEN "unknown" ELSE "gaveUp") /\ Forget(o)
  /\ UNCHANGED <<killVars, outVars, writerVars, readerVars, netVars>>

-----------------------------------------------------------------------------
(***************************************************************************)
(* Kill.                                                                   *)
(***************************************************************************)
\* dead.exchange: the first caller goes on, the others return.
BeginKill ==
  /\ dead' = TRUE
  /\ kill' = IF dead THEN kill ELSE "drop"
  /\ UNCHANGED <<sealed, killWake>>

\* The owner's Seal, an eviction by a better link, or a failed Submit.
OwnerKills ==
  /\ ~dead /\ BeginKill
  /\ UNCHANGED <<outVars, pendVars, opVars, writerVars, readerVars, netVars>>

Queued == UNION { { queue[l][i] : i \in DOMAIN queue[l] } : l \in Lanes }

\* Slip: what is dropped is not settled.
DropUnsettled ==
  /\ kill = "drop"
  /\ sealed' = TRUE
  /\ queue' = [l \in Lanes |-> <<>>]
  /\ kill' = "close"
  /\ UNCHANGED <<dead, killWake, credit, outstanding, pendVars, opVars, writerVars,
                 readerVars, netVars>>

\* Under out_mu: seal the queues and settle what they still hold.
Drop ==
  /\ kill = "drop"
  /\ sealed' = TRUE
  /\ queue' = [l \in Lanes |-> <<>>]
  /\ outstanding' = outstanding - Cardinality(Queued)
  /\ Publish(Queued \cap Replies, "closed")
  /\ woken' = woken \cup Notified(Queued \cap Replies)
  /\ kill' = "close"
  /\ UNCHANGED <<dead, killWake, credit, table, committed, pc, result, writerVars,
                 readerVars, netVars>>

KillCloses ==
  /\ kill = "close"
  /\ closing' = TRUE
  /\ kill' = "fail"
  /\ UNCHANGED <<dead, sealed, killWake, outVars, pendVars, opVars, writerVars,
                 readerVars, kernel, sent>>

\* SettledPendingError for every record that is left.
FailPending(next) ==
  /\ outcome' = [o \in Op |-> IF o \notin table THEN outcome[o]
                              ELSE IF o \in committed THEN "unknown" ELSE "closed"]
  /\ done' = done \cup table
  /\ killWake' = table
  /\ table' = {}
  /\ kill' = next
  /\ UNCHANGED <<dead, sealed, outVars, committed, opVars, writerVars, readerVars>>

\* Slip: the records fail before the connection is closed.
FailThenClose ==
  \/ kill = "close" /\ FailPending("fail") /\ UNCHANGED netVars
  \/ /\ kill = "fail" /\ closing' = TRUE /\ kill' = "notify"
     /\ UNCHANGED <<dead, sealed, killWake, outVars, pendVars, opVars, writerVars,
                    readerVars, kernel, sent>>

CloseThenFail ==
  \/ KillCloses
  \/ kill = "fail" /\ FailPending("notify") /\ UNCHANGED netVars

KillNotifies ==
  /\ kill = "notify"
  /\ woken' = woken \cup Notified(killWake)
  /\ killWake' = {} /\ kill' = "done"
  /\ UNCHANGED <<dead, sealed, outVars, pendVars, pc, result, writerVars, readerVars,
                 netVars>>

KillStep == Drop \/ CloseThenFail \/ KillNotifies

-----------------------------------------------------------------------------
(***************************************************************************)
(* WriterLoop.                                                             *)
(***************************************************************************)
Reloaded ==
  IF credit["service"] = 0 /\ credit["actor"] = 0
  THEN [credit EXCEPT !["service"] = ServiceWeight, !["actor"] = ActorWeight]
  ELSE credit

Spend(c, l) == IF c[l] = 0 THEN c ELSE [c EXCEPT ![l] = @ - 1]

\* Dequeue: System first, then Service and Actor by their shares, then
\* whatever there is.
NextLane ==
  LET waits(l) == queue[l] # <<>>
      due(l)   == waits(l) /\ Reloaded[l] # 0
  IN IF waits("system") THEN "system"
     ELSE IF due("service") THEN "service"
     ELSE IF due("actor") THEN "actor"
     ELSE IF waits("service") THEN "service" ELSE "actor"

Dequeue ==
  LET l == NextLane IN
  /\ writer = "idle" /\ Queued # {}
  /\ hand' = Head(queue[l])
  /\ queue' = [queue EXCEPT ![l] = Tail(@)]
  /\ credit' = IF l = "system" THEN credit ELSE Spend(Reloaded, l)
  /\ writer' = "gate" /\ failure' = "none"
  /\ UNCHANGED <<killVars, outstanding, pendVars, opVars, writerWake, readerVars, netVars>>

\* Nothing to take: the writer looks at dead, sleeps and looks at dead again, and
\* leaves without another look at the lanes.
FindNothing ==
  /\ writer = "idle" /\ Queued = {}
  /\ writer' = "waiting"
  /\ UNCHANGED <<killVars, outVars, pendVars, opVars, hand, failure, writerWake,
                 readerVars, netVars>>

WriterExits ==
  /\ writer = "waiting"
  /\ writer' = IF dead THEN "gone" ELSE "idle"
  /\ UNCHANGED <<killVars, outVars, pendVars, opVars, hand, failure, writerWake,
                 readerVars, netVars>>

Fails(f) == failure' = f /\ writer' = "fail"

\* The BeforeWrite checkpoint refuses: paused past a deadline, injected, closed.
GateFails ==
  /\ writer = "gate"
  /\ Fails("failed")
  /\ UNCHANGED <<killVars, outVars, pendVars, opVars, hand, writerWake, readerVars,
                 netVars>>

\* From here on the writer answers for the frame.
Commit ==
  /\ writer = "gate"
  /\ committed' = committed \cup ({hand} \cap table)
  /\ writer' = "write"
  /\ UNCHANGED <<killVars, outVars, table, done, outcome, opVars, hand, failure,
                 writerWake, readerVars, netVars>>

\* conn.Write: refused by a closing connection, or after waiting in vain for
\* room; otherwise accepted.
Write ==
  /\ writer = "write"
  /\ \/ Fails("failed") /\ UNCHANGED kernel
     \/ /\ ~closing
        /\ kernel' = hand /\ writer' = "writing" /\ UNCHANGED failure
  /\ UNCHANGED <<killVars, outVars, pendVars, opVars, hand, writerWake, readerVars,
                 closing, sent>>

BytesOut ==
  /\ kernel # Nobody
  /\ sent' = sent \cup {kernel} /\ kernel' = Nobody
  /\ UNCHANGED <<killVars, outVars, pendVars, opVars, writerVars, readerVars, closing>>

\* TcpSettleWrite of the report: done; the connection failed first; the wait
\* ended with the bytes still on their way, or Write threw; the wait ended and
\* the sample taken after it says done, which counts as a failed write.
WriteReturns ==
  /\ writer = "writing"
  /\ \/ hand \in sent /\ writer' = "settle" /\ UNCHANGED <<failure, kernel>>
     \/ hand \notin sent /\ Fails("failed") /\ kernel' = Nobody
     \/ Fails("unknown") /\ UNCHANGED kernel
     \/ hand \in sent /\ Fails("failed") /\ UNCHANGED kernel
  /\ UNCHANGED <<killVars, outVars, pendVars, opVars, hand, writerWake, readerVars,
                 closing, sent>>

\* FailItemPending: under pending_mu, then the notification.
FailItemPending ==
  /\ writer = "fail"
  /\ Publish({hand} \cap table, failure)
  /\ writerWake' = {hand} \cap table
  /\ table' = table \ {hand}
  /\ writer' = "tell"
  /\ UNCHANGED <<killVars, outVars, committed, opVars, hand, failure, readerVars, netVars>>

WriterTells ==
  /\ writer = "tell"
  /\ woken' = woken \cup Notified(writerWake)
  /\ writerWake' = {} /\ writer' = "settle"
  /\ UNCHANGED <<killVars, outVars, pendVars, pc, result, hand, failure, readerVars,
                 netVars>>

\* NoteWriteSettled.
Settle ==
  /\ writer = "settle"
  /\ outstanding' = outstanding - 1
  /\ Publish({hand} \cap Replies, IF failure = "none" THEN "ok" ELSE failure)
  /\ woken' = woken \cup Notified({hand} \cap Replies)
  /\ hand' = Nobody
  /\ writer' = IF failure = "none" THEN "idle" ELSE "kill"
  /\ UNCHANGED <<killVars, queue, credit, table, committed, pc, result, failure,
                 writerWake, readerVars, netVars>>

WriterKills ==
  /\ writer = "kill"
  /\ BeginKill
  /\ writer' = "gone" /\ failure' = "none"
  /\ UNCHANGED <<outVars, pendVars, opVars, hand, writerWake, readerVars, netVars>>

WriterStep ==
  \/ Dequeue \/ FindNothing \/ WriterExits \/ GateFails \/ Commit \/ Write
  \/ WriteReturns \/ FailItemPending \/ WriterTells \/ Settle \/ WriterKills

-----------------------------------------------------------------------------
(***************************************************************************)
(* ReaderLoop and the replies of DispatchInbound.  A reply to a call that  *)
(* is not in the table is dropped, which changes nothing.                  *)
(***************************************************************************)
\* Slip: the record stays in the table.
MatchKeeping(o) ==
  /\ reader = "read" /\ o \in sent \cap table
  /\ matched' = o /\ reader' = "matched"
  /\ UNCHANGED <<killVars, outVars, pendVars, opVars, writerVars, netVars>>

Match(o) ==
  /\ reader = "read" /\ o \in sent \cap table
  /\ matched' = o /\ reader' = "matched"
  /\ table' = table \ {o}
  /\ UNCHANGED <<killVars, outVars, committed, done, outcome, opVars, writerVars, netVars>>

\* The outcome and done are written without pending_mu.
SetReply ==
  /\ reader = "matched"
  /\ Publish({matched}, "reply")
  /\ reader' = "tell"
  /\ UNCHANGED <<killVars, outVars, table, committed, opVars, writerVars, matched, netVars>>

ReaderTells ==
  /\ reader = "tell"
  /\ woken' = woken \cup Notified({matched})
  /\ matched' = Nobody
  /\ reader' = IF dead THEN "gone" ELSE "read"
  /\ UNCHANGED <<killVars, outVars, pendVars, pc, result, writerVars, netVars>>

\* End of stream, a read error, a frame that does not decode or is not allowed
\* here, SessionError or Close.
ReaderEnds ==
  /\ reader = "read"
  /\ BeginKill
  /\ reader' = "gone"
  /\ UNCHANGED <<outVars, pendVars, opVars, writerVars, matched, netVars>>

\* The peer or the engine closes the connection.
NetBreaks ==
  /\ ~closing /\ closing' = TRUE
  /\ UNCHANGED <<killVars, outVars, pendVars, opVars, writerVars, readerVars, kernel, sent>>

-----------------------------------------------------------------------------
OpStep(o) ==
  Insert(o) \/ Enqueue(o) \/ Undo(o) \/ Register(o) \/ Recheck(o) \/ Completed(o) \/ GiveUp(o)

ReaderStep == SetReply \/ ReaderTells

Next ==
  \/ \E o \in Op : OpStep(o) \/ Expire(o) \/ Match(o)
  \/ KillStep \/ WriterStep \/ ReaderStep
  \/ OwnerKills \/ ReaderEnds \/ BytesOut \/ NetBreaks

Spec == Init /\ [][Next]_vars

-----------------------------------------------------------------------------
(***************************************************************************)
(* Properties.                                                             *)
(***************************************************************************)
OutcomeSet == {"unset", "reply", "closed", "failed", "unknown", "ok"}
OpPc == {"insert", "enqueue", "undo", "enqueued", "recheck", "parked", "expired", "done"}

\* Type invariant of the link; every lane stays within its limit.
TypeOK ==
  /\ dead \in BOOLEAN /\ sealed \in BOOLEAN
  /\ kill \in {"none", "drop", "close", "fail", "notify", "done"}
  /\ killWake \subseteq Calls
  /\ queue \in [Lanes -> Seq(Op)] /\ \A l \in Lanes : Len(queue[l]) <= LaneCap
  /\ credit \in [{"service", "actor"} -> 0..(ServiceWeight + ActorWeight)]
  /\ outstanding \in Nat
  /\ table \subseteq Calls /\ committed \subseteq Calls /\ done \subseteq Op
  /\ outcome \in [Op -> OutcomeSet]
  /\ pc \in [Op -> OpPc] /\ woken \subseteq Op
  /\ result \in [Op -> OutcomeSet \cup {"none", "moved", "overloaded", "accepted", "gaveUp"}]
  /\ writer \in {"idle", "waiting", "gate", "write", "writing", "fail", "tell", "settle", "kill",
                "gone"}
  /\ hand \in Op \cup {Nobody} /\ failure \in {"none", "failed", "unknown"}
  /\ writerWake \subseteq Calls
  /\ reader \in {"read", "matched", "tell", "gone"} /\ matched \in Calls \cup {Nobody}
  /\ closing \in BOOLEAN /\ kernel \in Op \cup {Nobody} /\ sent \subseteq Op

\* writes_outstanding is what Drain and Shutdown trust: it counts the queued
\* frames and the one in the writer's hand, each until its own settlement and
\* never longer, whoever drops, fails or writes it.
OutstandingExact ==
  outstanding = Cardinality(Queued) + (IF hand = Nobody THEN 0 ELSE 1)

\* "Closed before commit", "queue full" and the move to another link all say
\* that the frame did not go out here, so that it may be sent again.  A frame
\* that the writer already holds when Kill fails its call is refused by the
\* connection that Kill closed before.
ClosedMeansUnsent ==
  \A o \in Op : (outcome[o] = "closed" \/ result[o] \in {"closed", "moved", "overloaded"})
                   => o \notin sent

\* A pending record gets one outcome: reply, write failure and Kill exclude each
\* other by taking it out of the table.
OneOutcome ==
  [][\A o \in done : pc'[o] = "done" \/ outcome'[o] = outcome[o]]_vars

\* A caller whose outcome is there has been notified, or somebody still owes it
\* the notification: none is lost between the first look at the table, the
\* registration and the second look at done.
NotifyDue(o) == o \in killWake \cup writerWake \/ (reader = "tell" /\ matched = o)
NoLostWakeup ==
  \A o \in Calls : pc[o] = "parked" /\ o \in done => o \in woken \/ NotifyDue(o)

\* Once Kill has failed the pending calls, none is registered any more: a call that
\* would wait for a reply nobody reads cannot exist.  When the writer has left too,
\* nothing is outstanding, so that Drain and Shutdown do not wait for a frame nobody
\* will settle; and no call waits for a reply.
DeathSettlesAll ==
  /\ kill \in {"notify", "done"} => table = {}
  /\ kill = "done" /\ writer = "gone" =>
    /\ outstanding = 0
    /\ \A o \in Calls : pc[o] = "parked" => o \in woken \/ reader \in {"matched", "tell"}

\* Every call is decided once and told, whatever becomes of the link.
CallsDecided == [](TypeOK /\ NoLostWakeup /\ DeathSettlesAll) /\ OneOutcome
=============================================================================
