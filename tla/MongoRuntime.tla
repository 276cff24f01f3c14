---------------------------- MODULE MongoRuntime ----------------------------
(***************************************************************************)
(* The owner of MongoDB resources: commands submitted by coroutines, a     *)
(* bounded queue, worker threads that make blocking driver calls, the      *)
(* serial executor completions are posted to, Start, Close and the one     *)
(* finalizer.  The owner is used directly (CoMongoDb) or wrapped by a      *)
(* client that pairs its own Start and Close (CoMongoCli): `client`.       *)
(*                                                                         *)
(* One step is one critical section or one atomic operation, except that   *)
(* the end of MongoOp::Finish (outcome, unregister, notify) is one step.   *)
(***************************************************************************)
EXTENDS Naturals, Sequences, FiniteSets, SequencesExt

CONSTANTS
  Op, Worker, Closer,   \* commands, worker threads, threads that close
  Starter, Strand,      \* the thread that starts; the executor's strand
  None,
  MaxQueue              \* max_queue

Thread == Closer \cup {Starter}
Actor  == Op \cup Worker \cup Thread \cup {Strand}

\* What the parameters have to be; assumed wherever they are given values.
MongoConstants ==
  /\ IsFiniteSet(Op) /\ IsFiniteSet(Worker) /\ Worker # {}
  /\ MaxQueue \in Nat \ {0} /\ None \notin Op

VARIABLES
  client,                     \* wrapped by CoMongoCliImpl
  cliOpen, starting, handle,  \* m_close and m_starting of the client; the collection handle
  state, close, pool,         \* m_state, m_close, m_pool
  registry, ioDead, live,     \* m_ops, m_io_dead, m_live_workers
  asleep,                     \* the finalizer sleeps on m_drain_cv
  queue, stopping,            \* m_queue, m_queue_stopping
  waiters, waitersClosed,     \* CloseWaiters
  sealed, posted,             \* MongoIoEngine and the handlers on its strand
  phase, finished, outcome,   \* of the operations
  pc, woken, result,          \* Submit: where it is, notified, what it returned
  work, hand,                 \* the workers: where they are, the operation and its result
  tpc, todo,                  \* Start and Close: where they are; what Teardown still finishes
  once,                       \* m_finalize_once: the thread that runs it
  fin                         \* a Finish that has won and has not yet settled

lifeVars   == <<client, cliOpen, starting, handle, state, close, pool>>
drainVars  == <<registry, ioDead, live, asleep>>
queueVars  == <<queue, stopping, waiters, waitersClosed, sealed, posted>>
opVars     == <<phase, finished, outcome>>
submitVars == <<pc, woken, result>>
workVars   == <<work, hand>>
closeVars  == <<tpc, todo, once>>
vars == <<lifeVars, drainVars, queueVars, opVars, submitVars, workVars, closeVars, fin>>

Init ==
  /\ client \in BOOLEAN /\ cliOpen = TRUE /\ starting = FALSE /\ handle = "none"
  /\ state = "Created" /\ close = "open" /\ pool = FALSE
  /\ registry = {} /\ ioDead = FALSE /\ live = 0 /\ asleep = FALSE
  /\ queue = <<>> /\ stopping = FALSE /\ waiters = {} /\ waitersClosed = FALSE
  /\ sealed = FALSE /\ posted = <<>>
  /\ phase = [o \in Op |-> "queued"] /\ finished = {}
  /\ outcome = [o \in Op |-> "none"]
  /\ pc = [o \in Op |-> "idle"] /\ woken = {} /\ result = [o \in Op |-> "none"]
  /\ work = [w \in Worker |-> "none"] /\ hand = [w \in Worker |-> <<None, "none">>]
  /\ tpc = [t \in Thread |-> "idle"] /\ todo = <<>> /\ once = None
  /\ fin = [a \in Actor |-> <<None, "none">>]

-----------------------------------------------------------------------------
(* MongoOp. *)

Free(a) == fin[a] = <<None, "none">>

\* m_drain_cv is notified by whoever sees the drain complete.
DrainNotify(ops, dead, n) == asleep' = (asleep /\ ~(dead /\ ops = {} /\ n = 0))

\* UnregisterOp of what is finished and no longer touched.
Unregister(o, ph) ==
  LET left == IF ph[o] = "done" THEN registry \ {o} ELSE registry IN
  /\ registry' = left
  /\ DrainNotify(left, ioDead, live)
  /\ UNCHANGED <<ioDead, live>>

\* Slip: a late finisher also writes.
FinishAgain(a, o, value, ph) ==
  /\ finished' = finished \cup {o}
  /\ fin' = [fin EXCEPT ![a] = <<o, value>>]
  /\ UNCHANGED drainVars

\* Slip: a late finisher does not look.
FinishForgets(a, o, value, ph) ==
  IF o \in finished
  THEN UNCHANGED <<drainVars, finished, fin>>
  ELSE /\ finished' = finished \cup {o}
       /\ fin' = [fin EXCEPT ![a] = <<o, value>>]
       /\ UNCHANGED drainVars

\* Finish, its exchange: the first one goes on, the others only look whether
\* the operation can leave the registry.
Finish(a, o, value, ph) ==
  IF o \in finished
  THEN Unregister(o, ph) /\ UNCHANGED <<finished, fin>>
  ELSE /\ finished' = finished \cup {o}
       /\ fin' = [fin EXCEPT ![a] = <<o, value>>]
       /\ UNCHANGED drainVars

\* CoWaiter::Notify: without a registered wait it leaves no trace.
Notified(S) == { o \in S : pc[o] \in {"add", "enqueue", "parked"} }

\* Finish, the rest.
Settle(a) ==
  LET o == fin[a][1] IN
  /\ ~Free(a)
  /\ outcome' = [outcome EXCEPT ![o] = fin[a][2]]
  /\ Unregister(o, phase)
  /\ woken' = woken \cup Notified({o})
  /\ fin' = [fin EXCEPT ![a] = <<None, "none">>]
  /\ UNCHANGED <<lifeVars, queueVars, phase, finished, pc, result, workVars, closeVars>>

-----------------------------------------------------------------------------
(* Submit, from a collection handle. *)

Goto(o, p) == pc' = [pc EXCEPT ![o] = p]
Return(o, r) == Goto(o, "done") /\ result' = [result EXCEPT ![o] = r]
Done(o) == phase' = [phase EXCEPT ![o] = "done"]

\* CoMongoDb::Collection wants a running owner; a client has its handle once
\* Start published it.
Collection ==
  /\ ~client /\ handle = "none" /\ state = "Running" /\ close # "closed"
  /\ handle' = "open"
  /\ UNCHANGED <<client, cliOpen, starting, state, close, pool, drainVars, queueVars, opVars,
                 submitVars, workVars, closeVars, fin>>

CloseHandle ==
  /\ handle = "open" /\ handle' = "closed"
  /\ UNCHANGED <<client, cliOpen, starting, state, close, pool, drainVars, queueVars, opVars,
                 submitVars, workVars, closeVars, fin>>

\* A collection handle checks itself; the client hands its collection on as
\* long as it has one.
Accepting == handle = "open" \/ (client /\ handle # "none")

PreCheck == close = "open" /\ state = "Running"

\* Every operation checks its documents first.
RefuseArguments(o) ==
  /\ pc[o] = "idle" /\ Return(o, "invalid")
  /\ UNCHANGED <<lifeVars, drainVars, queueVars, opVars, woken, workVars, closeVars, fin>>

\* A client that has not published a collection refuses.
NoCollection(o) ==
  /\ pc[o] = "idle" /\ client /\ handle = "none" /\ Return(o, "closed")
  /\ UNCHANGED <<lifeVars, drainVars, queueVars, opVars, woken, workVars, closeVars, fin>>

Call(o) ==
  /\ pc[o] = "idle" /\ handle # "none"
  /\ IF Accepting /\ PreCheck THEN Goto(o, "register") /\ UNCHANGED result
                              ELSE Return(o, "closed")
  /\ UNCHANGED <<lifeVars, drainVars, queueVars, opVars, woken, workVars, closeVars, fin>>

RegisterOp(o) ==
  /\ pc[o] = "register"
  /\ IF ioDead THEN Return(o, "closed") /\ UNCHANGED registry
     ELSE registry' = registry \cup {o} /\ Goto(o, "wait") /\ UNCHANGED result
  /\ UNCHANGED <<lifeVars, ioDead, live, asleep, queueVars, opVars, woken, workVars,
                 closeVars, fin>>

\* WaitWithCallback registers the wait; it may refuse (deadline over, cancelled),
\* and then the callback does not run.
Register(o) ==
  /\ pc[o] = "wait"
  /\ Goto(o, "add")
  /\ UNCHANGED <<lifeVars, drainVars, queueVars, opVars, woken, result, workVars, closeVars, fin>>

RegisterRefused(o) ==
  /\ pc[o] = "wait" /\ Done(o)
  /\ Finish(o, o, "gaveUp", phase')
  /\ Return(o, "gaveUp")
  /\ UNCHANGED <<lifeVars, queueVars, outcome, woken, workVars, closeVars>>

\* The callback: enter CloseWaiters ...
AddWaiter(o) ==
  /\ pc[o] = "add"
  /\ IF waitersClosed
     THEN /\ Done(o) /\ Finish(o, o, "closed", phase')
          /\ Goto(o, "parked") /\ UNCHANGED waiters
     ELSE /\ waiters' = waiters \cup {o} /\ Goto(o, "enqueue")
          /\ UNCHANGED <<phase, finished, fin, drainVars>>
  /\ UNCHANGED <<lifeVars, queue, stopping, waitersClosed, sealed, posted, outcome, woken,
                 result, workVars, closeVars>>

\* ... and put the operation in the queue.
Enqueue(o) ==
  /\ pc[o] = "enqueue" /\ Goto(o, "parked")
  /\ IF ~stopping /\ Len(queue) < MaxQueue
     THEN queue' = Append(queue, o) /\ UNCHANGED <<phase, finished, fin, drainVars>>
     ELSE /\ Done(o) /\ UNCHANGED queue
          /\ Finish(o, o, IF stopping THEN "closed" ELSE "overloaded", phase')
  /\ UNCHANGED <<lifeVars, stopping, waiters, waitersClosed, sealed, posted, outcome, woken,
                 result, workVars, closeVars>>

\* Completed: the outcome is read as it is found.
Resume(o) ==
  /\ pc[o] = "parked" /\ Free(o) /\ o \in woken
  /\ waiters' = waiters \ {o}
  /\ Return(o, IF outcome[o] = "none" THEN "internal" ELSE outcome[o])
  /\ UNCHANGED <<lifeVars, drainVars, queue, stopping, waitersClosed, sealed, posted, opVars,
                 woken, workVars, closeVars, fin>>

\* The deadline or a cancellation wins the wait.
GiveUp(o) ==
  /\ pc[o] = "parked" /\ Free(o) /\ o \notin woken
  /\ waiters' = waiters \ {o}
  /\ Finish(o, o, "gaveUp", phase)
  /\ Return(o, "gaveUp")
  /\ UNCHANGED <<lifeVars, queue, stopping, waitersClosed, sealed, posted, phase, outcome,
                 woken, workVars, closeVars>>

-----------------------------------------------------------------------------
(* WorkerLoop. *)

To(w, p) == work' = [work EXCEPT ![w] = p]

WorkerBegins(w) ==
  /\ \/ work[w] = "spawned" /\ To(w, "started") /\ UNCHANGED live
     \/ work[w] = "started" /\ To(w, "idle") /\ live' = live + 1
  /\ UNCHANGED <<lifeVars, registry, ioDead, asleep, queueVars, opVars, submitVars, hand,
                 closeVars, fin>>

Take(w) ==
  /\ work[w] = "idle" /\ Free(w) /\ queue # <<>>
  /\ hand' = [hand EXCEPT ![w] = <<Head(queue), "none">>]
  /\ queue' = Tail(queue) /\ To(w, "took")
  /\ UNCHANGED <<lifeVars, drainVars, stopping, waiters, waitersClosed, sealed, posted, opVars,
                 submitVars, closeVars, fin>>

\* Before the call and again after phase is kRunning: an operation that was
\* given up meanwhile only leaves.
Check(w) ==
  LET o == hand[w][1] IN
  /\ work[w] \in {"took", "check"}
  /\ IF o \in finished
     THEN Done(o) /\ Unregister(o, phase') /\ To(w, "idle")
     ELSE /\ phase' = [phase EXCEPT ![o] = "running"]
          /\ To(w, IF work[w] = "took" THEN "check" ELSE "driver")
          /\ UNCHANGED drainVars
  /\ UNCHANGED <<lifeVars, queueVars, finished, outcome, submitVars, hand, closeVars, fin>>

\* What RunDriverCall can return: no exception of the driver passes; the class
\* an error is given is not told apart.
DriverResults == {"ok", "error"}

DriverReturns(w) ==
  /\ work[w] = "driver"
  /\ \E r \in DriverResults : hand' = [hand EXCEPT ![w][2] = r]
  /\ Done(hand[w][1]) /\ To(w, "publish")
  /\ UNCHANGED <<lifeVars, drainVars, queueVars, finished, outcome, submitVars, closeVars, fin>>

\* Publish: by the executor, or directly when it takes nothing any more.
Publish(w) ==
  /\ work[w] = "publish" /\ To(w, "idle")
  /\ \/ /\ ~sealed /\ posted' = Append(posted, hand[w])
        /\ UNCHANGED <<finished, fin, drainVars>>
     \/ Finish(w, hand[w][1], hand[w][2], phase) /\ UNCHANGED posted
  /\ hand' = [hand EXCEPT ![w] = <<None, "none">>]
  /\ UNCHANGED <<lifeVars, queue, stopping, waiters, waitersClosed, sealed, phase, outcome,
                 submitVars, closeVars>>

RunPosted ==
  /\ Free(Strand) /\ posted # <<>>
  /\ posted' = Tail(posted)
  /\ Finish(Strand, Head(posted)[1], Head(posted)[2], phase)
  /\ UNCHANGED <<lifeVars, queue, stopping, waiters, waitersClosed, sealed, phase, outcome,
                 submitVars, workVars, closeVars>>

\* Slip: the last worker leaves without a word.
WorkerLeavesSilently(w) ==
  /\ \/ /\ work[w] = "idle" /\ Free(w) /\ stopping /\ queue = <<>>
        /\ live' = live - 1 /\ To(w, "leaving")
     \/ work[w] = "leaving" /\ To(w, "gone") /\ UNCHANGED live
  /\ UNCHANGED <<lifeVars, registry, ioDead, asleep, queueVars, opVars, submitVars, hand,
                 closeVars, fin>>

WorkerLeaves(w) ==
  /\ \/ /\ work[w] = "idle" /\ Free(w) /\ stopping /\ queue = <<>>
        /\ live' = live - 1 /\ To(w, "leaving") /\ UNCHANGED asleep
     \/ /\ work[w] = "leaving" /\ To(w, "gone")
        /\ DrainNotify(registry, ioDead, live) /\ UNCHANGED live
  /\ UNCHANGED <<lifeVars, registry, ioDead, queueVars, opVars, submitVars, hand, closeVars, fin>>

-----------------------------------------------------------------------------
(* Start. *)

At(t, p) == tpc[t] = p
Go(t, p) == tpc' = [tpc EXCEPT ![t] = p]
StartOver == IF client THEN "finishStart" ELSE "over"

\* The client's gate.
BeginStart ==
  /\ At(Starter, "idle")
  /\ IF client /\ ~cliOpen THEN Go(Starter, "over") /\ UNCHANGED starting
                           ELSE Go(Starter, "acquire") /\ starting' = client
  /\ UNCHANGED <<client, cliOpen, handle, state, close, pool, drainVars, queueVars, opVars,
                 submitVars, workVars, todo, once, fin>>

\* The lease may be refused; then the state and the lease change together.
StartRunning ==
  /\ At(Starter, "acquire")
  /\ \/ Go(Starter, StartOver) /\ UNCHANGED <<state, pool>>
     \/ /\ state = "Created" /\ Go(Starter, "spawn")
        /\ state' = "Running" /\ pool' = TRUE
  /\ UNCHANGED <<client, cliOpen, starting, handle, close, drainVars, queueVars, opVars,
                 submitVars, workVars, todo, once, fin>>

\* Under the lifecycle mutex: not after Close, perhaps not all of them.
Spawn ==
  /\ At(Starter, "spawn")
  /\ IF state # "Running"
     THEN Go(Starter, StartOver) /\ UNCHANGED <<work, stopping>>
     ELSE \E S \in SUBSET Worker :
            /\ work' = [w \in Worker |-> IF w \in S THEN "spawned" ELSE "none"]
            /\ Go(Starter, IF S = Worker THEN "latch" ELSE "spawnFailed")
            /\ UNCHANGED stopping
  /\ UNCHANGED <<lifeVars, drainVars, queue, waiters, waitersClosed, sealed, posted, opVars,
                 submitVars, hand, todo, once, fin>>

SpawnFailed ==
  /\ At(Starter, "spawnFailed")
  /\ stopping' = TRUE /\ Go(Starter, "finalize")
  /\ UNCHANGED <<lifeVars, drainVars, queue, waiters, waitersClosed, sealed, posted, opVars,
                 submitVars, workVars, todo, once, fin>>

Latch ==
  /\ At(Starter, "latch")
  /\ state # "Running" \/ \A w \in Worker : work[w] # "spawned"
  /\ Go(Starter, IF client THEN (IF state = "Running" THEN "publish" ELSE "finishStart")
                           ELSE "over")
  /\ UNCHANGED <<lifeVars, drainVars, queueVars, opVars, submitVars, workVars, todo, once, fin>>

\* The client publishes runtime and handle together, unless it was closed; a
\* handle that cannot be made ends the runtime as well.
PublishClient ==
  /\ At(Starter, "publish")
  /\ \/ cliOpen /\ handle' = "open" /\ Go(Starter, "finishStart")
     \/ Go(Starter, "close") /\ UNCHANGED handle
  /\ UNCHANGED <<client, cliOpen, starting, state, close, pool, drainVars, queueVars, opVars,
                 submitVars, workVars, todo, once, fin>>

FinishStarting ==
  /\ At(Starter, "finishStart")
  /\ starting' = FALSE /\ Go(Starter, "over")
  /\ UNCHANGED <<client, cliOpen, handle, state, close, pool, drainVars, queueVars, opVars,
                 submitVars, workVars, todo, once, fin>>

-----------------------------------------------------------------------------
(* Close and the finalizer. *)

\* The client first seals itself, waits for a Start under way and closes what
\* was published; nothing published, nothing to do.
CloseClient(t) ==
  /\ t \in Closer
  /\ \/ /\ At(t, "idle") /\ Go(t, IF client THEN "await" ELSE "close")
        /\ cliOpen' = FALSE /\ UNCHANGED handle
     \/ /\ At(t, "await") /\ ~starting
        /\ Go(t, IF handle = "none" THEN "over" ELSE "close")
        /\ handle' = (IF handle = "none" THEN "none" ELSE "closed") /\ UNCHANGED cliOpen
  /\ UNCHANGED <<client, starting, state, close, pool, drainVars, queueVars, opVars,
                 submitVars, workVars, todo, once, fin>>

Close(t) ==
  /\ At(t, "close")
  /\ IF close = "open" THEN close' = "closing" /\ state' = "Closed" /\ Go(t, "teardown")
                       ELSE Go(t, "finalize") /\ UNCHANGED <<close, state>>
  /\ UNCHANGED <<client, cliOpen, starting, handle, pool, drainVars, queueVars, opVars,
                 submitVars, workVars, todo, once, fin>>

\* Teardown, first section: no operation registers any more; the set is walked in
\* some order.
TeardownOps(t) ==
  /\ At(t, "teardown") \/ (At(t, "finalTeardown") /\ once = t)
  /\ IF ioDead
     THEN Go(t, IF At(t, "teardown") THEN "wake" ELSE "drain") /\ UNCHANGED <<ioDead, todo>>
     ELSE /\ ioDead' = TRUE /\ todo' \in SetToSeqs(registry)
          /\ Go(t, IF At(t, "teardown") THEN "sweep" ELSE "finalSweep")
  /\ UNCHANGED <<lifeVars, registry, live, asleep, queueVars, opVars, submitVars, workVars,
                 once, fin>>

\* Second: the queue is taken over; its operations are never dispatched.
Sweep(t) ==
  /\ At(t, "sweep") \/ At(t, "finalSweep")
  /\ stopping' = TRUE /\ queue' = <<>> /\ sealed' = TRUE
  /\ phase' = [o \in Op |-> IF o \in ToSet(queue) THEN "done" ELSE phase[o]]
  /\ todo' = queue \o todo
  /\ Go(t, IF At(t, "sweep") THEN "finish" ELSE "finalFinish")
  /\ UNCHANGED <<lifeVars, drainVars, waiters, waitersClosed, posted, finished, outcome,
                 submitVars, workVars, once, fin>>

FinishAll(t) ==
  /\ At(t, "finish") \/ At(t, "finalFinish")
  /\ Free(t)
  /\ IF todo = <<>>
     THEN /\ Go(t, IF At(t, "finish") THEN "wake" ELSE "drain")
          /\ DrainNotify(registry, ioDead, live)
          /\ UNCHANGED <<registry, ioDead, live, finished, fin, todo>>
     ELSE /\ Finish(t, Head(todo), "closed", phase)
          /\ todo' = Tail(todo) /\ UNCHANGED tpc
  /\ UNCHANGED <<lifeVars, queueVars, phase, outcome, submitVars, workVars, once>>

\* CloseAndWakeAll.
WakeAll(t) ==
  /\ At(t, "wake") /\ Go(t, "finalize")
  /\ waitersClosed' = TRUE /\ waiters' = {}
  /\ woken' = woken \cup Notified(waiters)
  /\ UNCHANGED <<lifeVars, drainVars, queue, stopping, sealed, posted, opVars, pc, result,
                 workVars, todo, once, fin>>

\* call_once: one thread runs FinalizeOnce, the others wait for its end.
Finalize(t) ==
  /\ At(t, "finalize")
  /\ \/ /\ once = None /\ once' = t /\ Go(t, "finalTeardown")
        /\ close' = (IF close = "open" THEN "closing" ELSE close) /\ state' = "Closed"
     \/ /\ once # None /\ close = "closed"
        /\ Go(t, IF t = Starter THEN StartOver ELSE "over") /\ UNCHANGED <<close, state, once>>
  /\ UNCHANGED <<client, cliOpen, starting, handle, pool, drainVars, queueVars, opVars,
                 submitVars, workVars, todo, fin>>

Drained == ioDead /\ registry = {} /\ live = 0

\* Slip: the pool goes back when the operations are over, threads or not.
ReleaseUnjoined(t) ==
  /\ At(t, "join") /\ Go(t, "closed") /\ pool' = FALSE
  /\ UNCHANGED <<client, cliOpen, starting, handle, state, close, drainVars, queueVars, opVars,
                 submitVars, workVars, todo, once, fin>>

DrainWait(t) ==
  /\ At(t, "drain") /\ ~asleep
  /\ IF Drained THEN Go(t, "join") /\ UNCHANGED asleep ELSE asleep' = TRUE /\ UNCHANGED tpc
  /\ UNCHANGED <<lifeVars, registry, ioDead, live, queueVars, opVars, submitVars, workVars,
                 todo, once, fin>>

\* JoinWorkers, then the lease.
Release(t) ==
  /\ At(t, "join") /\ \A w \in Worker : work[w] \in {"none", "gone"}
  /\ Go(t, "closed") /\ pool' = FALSE
  /\ UNCHANGED <<client, cliOpen, starting, handle, state, close, drainVars, queueVars, opVars,
                 submitVars, workVars, todo, once, fin>>

MarkClosed(t) ==
  /\ At(t, "closed")
  /\ close' = "closed" /\ Go(t, IF t = Starter THEN StartOver ELSE "over")
  /\ UNCHANGED <<client, cliOpen, starting, handle, state, pool, drainVars, queueVars, opVars,
                 submitVars, workVars, todo, once, fin>>

-----------------------------------------------------------------------------
SubmitStep(o) ==
  RegisterOp(o) \/ Register(o) \/ AddWaiter(o) \/ Enqueue(o) \/ Resume(o)
WorkerStep(w) ==
  \/ WorkerBegins(w) \/ Take(w) \/ Check(w) \/ DriverReturns(w) \/ Publish(w)
  \/ WorkerLeaves(w)
StartStep ==
  StartRunning \/ Spawn \/ SpawnFailed \/ Latch \/ PublishClient \/ FinishStarting
CloseStep(t) ==
  \/ Close(t) \/ TeardownOps(t) \/ Sweep(t) \/ FinishAll(t) \/ WakeAll(t) \/ Finalize(t)
  \/ DrainWait(t) \/ Release(t) \/ MarkClosed(t)

Next ==
  \/ \E o \in Op : RefuseArguments(o) \/ NoCollection(o) \/ Call(o)
  \/ \E o \in Op : SubmitStep(o) \/ RegisterRefused(o) \/ GiveUp(o)
  \/ \E w \in Worker : WorkerStep(w)
  \/ \E t \in Thread : CloseClient(t) \/ CloseStep(t)
  \/ \E a \in Actor : Settle(a)
  \/ BeginStart \/ StartStep \/ RunPosted \/ Collection \/ CloseHandle

Spec == Init /\ [][Next]_vars

-----------------------------------------------------------------------------
(* Properties. *)

TypeOK ==
  /\ state \in {"Created", "Running", "Closed"} /\ close \in {"open", "closing", "closed"}
  /\ registry \subseteq Op /\ finished \subseteq Op /\ waiters \subseteq Op /\ woken \subseteq Op
  /\ queue \in Seq(Op) /\ Len(queue) <= MaxQueue /\ live \in 0 .. Cardinality(Worker)
  /\ phase \in [Op -> {"queued", "running", "done"}]

\* Once the owner is closed nothing of it is left: no worker thread, no driver
\* call on the released pool, no registered operation, nothing queued and no
\* handler on the strand that has an operation still to decide.
ClosedMeansQuiet ==
  /\ TypeOK
  /\ \A w \in Worker : work[w] = "driver" => pool
  /\ close = "closed" =>
       /\ ~pool /\ live = 0 /\ registry = {} /\ queue = <<>>
       /\ \A w \in Worker : work[w] \in {"none", "gone"}
       /\ \A i \in DOMAIN posted : posted[i][1] \in finished

\* An operation that is decided and that nobody touches any more has left the
\* registry, and only such a one: the drain neither waits for ever nor ends
\* under a worker that still holds the operation.
Untouched(o) ==
  /\ \A a \in Actor : fin[a][1] # o
  /\ \A w \in Worker : hand[w][1] # o \/ work[w] = "idle"
  /\ o \notin ToSet(todo) /\ \A i \in DOMAIN posted : posted[i][1] # o

RegistryExact ==
  \A o \in Op :
    /\ (o \in finished /\ phase[o] = "done" /\ Untouched(o)) => o \notin registry
    /\ (\E w \in Worker : work[w] = "driver" /\ hand[w][1] = o) => o \in registry

\* The terminal of an operation is written once, whoever of the worker, the
\* strand, the deadline, the refusal and Teardown comes first.
OneTerminal ==
  [][\A o \in Op : outcome[o] # "none" => outcome'[o] = outcome[o]]_vars

\* The finalizer never sleeps on m_drain_cv with the drain complete, unless
\* the worker that left last is still about to notify.
DrainNotMissed ==
  asleep /\ Drained => \E w \in Worker : work[w] = "leaving"

\* What MongoRuntime.cc says at RegisterOp: a registered operation is decided,
\* and its waiter told, by a racing close; nobody is left to his deadline.
NotStranded ==
  \A o \in Op : (pc[o] = "parked" /\ Free(o) /\ outcome[o] # "none") => o \in woken \cup waiters
=============================================================================
