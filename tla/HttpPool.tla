------------------------------ MODULE HttpPool ------------------------------
(***************************************************************************)
(* The connection pool of the HTTP client: coroutines that acquire a       *)
(* connection to an origin (an idle one, a newly dialled one, or one they  *)
(* queue for), use it and give it back; Shutdown that waits for them, and  *)
(* Close that does not.                                                    *)
(*                                                                         *)
(* Every critical section of State::mutex is one step.  An entry is named  *)
(* by a slot, which stands for its address: a slot is not used again while *)
(* somebody still points to it.  The gates that Close and Shutdown open    *)
(* after the unlock belong to waiters that only read the phase from then   *)
(* on, so opening them is part of the step.  Allocation failures are left  *)
(* out, and a write through a pointer to an erased entry is taken to touch *)
(* nothing else.                                                           *)
(***************************************************************************)
EXTENDS Naturals, Sequences, FiniteSets, SequencesExt, Lists

CONSTANTS
  Caller,          \* coroutines that make requests
  Origin,          \* scheme, host and port
  NoOrigin,
  MaxConnections,  \* limits.max_connections
  MaxKeepalive,    \* limits.max_keepalive_connections
  MaxQueue         \* limits.max_queue

\* What the parameters have to be; assumed wherever they are given values.
PoolConstants ==
  /\ MaxConnections \in Nat \ {0} /\ MaxKeepalive \in Nat /\ MaxQueue \in Nat
  /\ IsFiniteSet(Caller) /\ NoOrigin \notin Origin

\* Enough addresses for the entries and for one stale pointer per caller.
Slot == 1..(MaxConnections + Cardinality(Caller))

VARIABLES
  phase,      \* State::phase
  inflight,   \* State::inflight
  pool,       \* State::entries: the list of slots and what every slot holds
  waiters,    \* State::waiters
  call,       \* where every caller is in Acquire or with its Lease
  shut,       \* where the thread in Shutdown is
  drained     \* history: Shutdown has returned ok

vars == <<phase, inflight, pool, waiters, call, shut, drained>>

NoCall == [pc |-> "idle", origin |-> NoOrigin, slot |-> 0, told |-> FALSE]
Freed  == [phase |-> "Freed", origin |-> NoOrigin, net |-> "none", spoiled |-> FALSE]

Init ==
  /\ phase = "Open" /\ inflight = 0
  /\ pool = [list |-> <<>>, ent |-> [s \in Slot |-> Freed]]
  /\ waiters = <<>>
  /\ call = [c \in Caller |-> NoCall]
  /\ shut = "none" /\ drained = FALSE

-----------------------------------------------------------------------------
(***************************************************************************)
(* The entries.  net is the connection below an entry: "none" before a     *)
(* dial returned, "failing" a failed dial whose receipt is outstanding,    *)
(* "up", "closing" after RequestClose, "gone" once physically released.    *)
(***************************************************************************)

\* Connection::Released, ReclaimReceipt::Released; a receipt that was never
\* filled in counts as released.
Released(e) == e.net \in {"none", "gone"}

RetiredEntry(e) == [e EXCEPT !.phase = "Retiring",
                             !.net = IF @ = "up" THEN "closing" ELSE @]
RetireLocked(p, s) == [p EXCEPT !.ent[s] = RetiredEntry(@)]
SetPhase(p, s, ph) == [p EXCEPT !.ent[s].phase = ph]

\* Slip: a retired entry gives its place back before the connection is gone.
SweepAllRetired(p) ==
  LET kept == Without(p.list, { s \in Slot : p.ent[s].phase = "Retiring" }) IN
  [list |-> kept,
   ent  |-> [s \in Slot |->
              IF s \in ToSet(kept) /\ p.ent[s].phase = "Idle" /\ p.ent[s].spoiled
              THEN RetiredEntry(p.ent[s]) ELSE p.ent[s]]]

\* Erase what is released, retire idle connections that are stale or expired.
SweepLocked(p) ==
  LET gone == { s \in ToSet(p.list) : p.ent[s].phase = "Retiring" /\ Released(p.ent[s]) }
  IN  [list |-> Without(p.list, gone),
       ent  |-> [s \in Slot |->
                  IF s \in gone THEN Freed
                  ELSE IF p.ent[s].phase = "Idle" /\ p.ent[s].spoiled
                  THEN RetiredEntry(p.ent[s]) ELSE p.ent[s]]]

\* The first entry of the list with property P, 0 if there is none.
First(list, P(_)) ==
  LET S == { i \in DOMAIN list : P(list[i]) }
  IN  IF S = {} THEN 0 ELSE list[CHOOSE i \in S : \A j \in S : i <= j]

IdleFor(p, o) ==
  First(p.list, LAMBDA s : p.ent[s].phase = "Idle" /\ p.ent[s].origin = o)

RetireOtherIdleLocked(p, o) ==
  LET s == First(p.list, LAMBDA t : p.ent[t].phase = "Idle" /\ p.ent[t].origin # o)
  IN  IF s = 0 THEN p ELSE RetireLocked(p, s)

\* Slip: the number of idle connections is not looked at.
AdmitToIdleAlways(p, s) == SetPhase(p, s, "Idle")

AdmitToIdleLocked(p, s) ==
  IF /\ phase = "Open"
     /\ Cardinality({ t \in ToSet(p.list) : p.ent[t].phase = "Idle" }) < MaxKeepalive
  THEN SetPhase(p, s, "Idle")
  ELSE RetireLocked(p, s)

HasRoom(p) == Len(p.list) < MaxConnections

Unused(s) ==
  /\ s \notin ToSet(pool.list)
  /\ pool.ent[s].net \notin {"up", "closing", "failing"}
  /\ \A c \in Caller : call[c].slot # s
FreshSlot == CHOOSE s \in Slot : Unused(s) /\ \A t \in Slot : Unused(t) => s <= t

Reserve(p, o) ==
  [list |-> Append(p.list, FreshSlot),
   ent  |-> [p.ent EXCEPT ![FreshSlot] = [phase |-> "Dialing", origin |-> o,
                                          net |-> "none", spoiled |-> FALSE]]]

-----------------------------------------------------------------------------
(***************************************************************************)
(* Acquire.                                                                *)
(***************************************************************************)
At(c, pc) == call[c].pc = pc
Goes(c, pc) == call' = [call EXCEPT ![c].pc = pc]
Holds(c, pc, s) == call' = [call EXCEPT ![c].pc = pc, ![c].slot = s]
quiet == <<phase, inflight, shut, drained>>

\* Slip: admission does not look at the phase.
AcquireUnchecked(c, o) ==
  /\ At(c, "idle")
  /\ inflight' = inflight + 1
  /\ call' = [call EXCEPT ![c] = [NoCall EXCEPT !.pc = "fast", !.origin = o]]
  /\ UNCHANGED <<phase, pool, waiters, shut, drained>>

Acquire(c, o) ==
  /\ At(c, "idle") /\ phase = "Open"
  /\ inflight' = inflight + 1
  /\ call' = [call EXCEPT ![c] = [NoCall EXCEPT !.pc = "fast", !.origin = o]]
  /\ UNCHANGED <<phase, pool, waiters, shut, drained>>

\* CheckCall or the pool deadline ends the call, or the pool is not open.
Refuse(c) ==
  /\ call[c].pc \in {"fast", "reserve", "queue"}
  /\ Goes(c, "fail")
  /\ UNCHANGED <<quiet, pool, waiters>>

\* The fast path: an idle connection of the origin.
TakeFast(c) ==
  LET p == SweepLocked(pool)
      s == IdleFor(p, call[c].origin)
  IN
  /\ At(c, "fast") /\ phase = "Open"
  /\ IF s # 0 THEN Holds(c, "lease", s) /\ pool' = SetPhase(p, s, "Active")
     ELSE Goes(c, "reserve") /\ pool' = p
  /\ UNCHANGED <<quiet, waiters>>

\* A place within max_connections is taken before dialling.
ReserveDial(c) ==
  /\ At(c, "reserve") /\ phase = "Open"
  /\ IF HasRoom(pool)
     THEN Holds(c, "dial", FreshSlot) /\ pool' = Reserve(pool, call[c].origin)
     ELSE Goes(c, "queue") /\ UNCHANGED pool
  /\ UNCHANGED <<quiet, waiters>>

\* One turn of the queueing loop up to the wait.  A full queue refuses the
\* call after an idle connection of another origin was sacrificed for it.
Enqueue(c) ==
  LET p == SweepLocked(pool)
      s == IdleFor(p, call[c].origin)
      q == RetireOtherIdleLocked(p, call[c].origin)
  IN
  /\ At(c, "queue") /\ phase = "Open"
  /\ \/ /\ s # 0
        /\ Holds(c, "lease", s) /\ pool' = SetPhase(p, s, "Active")
        /\ UNCHANGED waiters
     \/ /\ s = 0 /\ HasRoom(p)
        /\ Holds(c, "dial", FreshSlot) /\ pool' = Reserve(p, call[c].origin)
        /\ UNCHANGED waiters
     \/ /\ s = 0 /\ ~HasRoom(p)
        /\ pool' = q
        /\ IF Len(waiters) >= MaxQueue
           THEN Goes(c, "fail") /\ UNCHANGED waiters
           ELSE Goes(c, "added") /\ waiters' = Append(waiters, c)
  /\ UNCHANGED quiet

\* The callback of WaitWithCallback looks again after the event is registered.
Recheck(c) ==
  LET p    == SweepLocked(pool)
      s    == IdleFor(p, call[c].origin)
      open == phase = "Open" /\ call[c].slot = 0
  IN
  /\ At(c, "added")
  /\ IF open /\ s # 0
     THEN /\ call' = [call EXCEPT ![c].pc = "parked", ![c].slot = s, ![c].told = TRUE]
          /\ waiters' = Without(waiters, {c})
          /\ pool' = SetPhase(p, s, "Active")
     ELSE /\ call' = [call EXCEPT ![c].pc = "parked", ![c].told = @ \/ ~open \/ HasRoom(p)]
          /\ pool' = IF open THEN p ELSE pool
          /\ UNCHANGED waiters
  /\ UNCHANGED quiet

\* The wait completed: claim what was handed over, or go round again.
Resume(c) ==
  /\ At(c, "parked") /\ call[c].told
  /\ waiters' = Without(waiters, {c})
  /\ call' = [call EXCEPT ![c].pc = IF call[c].slot # 0 THEN "lease" ELSE "queue",
                          ![c].told = FALSE]
  /\ UNCHANGED <<quiet, pool>>

\* The slice ended or the coroutine was cancelled first.
SliceEnds(c) ==
  /\ At(c, "parked") /\ ~call[c].told
  /\ Goes(c, "sliced")
  /\ UNCHANGED <<quiet, pool, waiters>>

\* Slip: an orphaned connection goes to the idle ones past the waiters.
GiveBackIdle(c, then, s) ==
  /\ call' = [call EXCEPT ![c] = then]
  /\ pool' = AdmitToIdleLocked(pool, s)
  /\ waiters' = Without(waiters, {c})

\* Slip: whoever gives the connection back goes on pointing to it.
GiveBackKeeps(c, then, s) ==
  /\ call' = [call EXCEPT ![c] = [then EXCEPT !.slot = s]]
  /\ pool' = AdmitToIdleLocked(pool, s)
  /\ waiters' = Without(waiters, {c})

\* A connection in good order goes to the first waiter for its origin, or to
\* the idle ones.  c leaves the queue, if it was in it, and goes on as then.
GiveBack(c, then, s) ==
  LET ws   == Without(waiters, {c})
      want == { i \in DOMAIN ws : call[ws[i]].origin = pool.ent[s].origin }
      w    == ws[CHOOSE i \in want : \A j \in want : i <= j]
      mine == [call EXCEPT ![c] = then]
  IN  IF want # {}
      THEN /\ call' = [mine EXCEPT ![w].slot = s, ![w].told = TRUE]
           /\ waiters' = Without(ws, {w})
           /\ pool' = SetPhase(pool, s, "Active")
      ELSE /\ call' = mine /\ waiters' = ws
           /\ pool' = AdmitToIdleLocked(pool, s)

\* After the slice: a connection handed over too late is not kept.
Sliced(c) ==
  LET s == call[c].slot IN
  /\ At(c, "sliced")
  /\ \E pc \in {"queue", "fail"} :
       LET then == [NoCall EXCEPT !.pc = pc, !.origin = call[c].origin] IN
       IF s \in ToSet(pool.list) /\ phase = "Open"
       THEN GiveBack(c, then, s)
       ELSE /\ call' = [call EXCEPT ![c] = then]
            /\ waiters' = Without(waiters, {c})
            /\ pool' = IF s \in ToSet(pool.list) THEN RetireLocked(pool, s) ELSE pool
  /\ UNCHANGED quiet

\* CoDial failed, or was not even tried.
DialFails(c) ==
  LET s == call[c].slot IN
  /\ At(c, "dial")
  /\ \E net \in {"none", "failing"} :
       pool' = RetireLocked([pool EXCEPT !.ent[s].net = net], s)
  /\ Holds(c, "fail", 0)
  /\ UNCHANGED <<quiet, waiters>>

\* Slip: a pool closed during the dial is not noticed.
DialSucceedsAlways(c) ==
  LET s == call[c].slot IN
  /\ At(c, "dial")
  /\ Goes(c, "lease")
  /\ pool' = SetPhase([pool EXCEPT !.ent[s].net = "up"], s, "Active")
  /\ UNCHANGED <<quiet, waiters>>

DialSucceeds(c) ==
  LET s == call[c].slot
      p == [pool EXCEPT !.ent[s].net = "up"]
  IN
  /\ At(c, "dial")
  /\ IF phase = "Open"
     THEN Goes(c, "lease") /\ pool' = SetPhase(p, s, "Active")
     ELSE Holds(c, "fail", 0) /\ pool' = RetireLocked(p, s)
  /\ UNCHANGED <<quiet, waiters>>

\* cv.notify_all.  The other places that call it change nothing Shutdown waits
\* for.
NotifyShutdown == shut' = IF shut = "asleep" THEN "check" ELSE shut

\* Slip: the thread in Shutdown is not told.
FailSilent(c) ==
  /\ At(c, "fail")
  /\ inflight' = inflight - 1
  /\ call' = [call EXCEPT ![c] = NoCall]
  /\ UNCHANGED <<phase, pool, waiters, shut, drained>>

\* The one exit of a failed Acquire.
Fail(c) ==
  /\ At(c, "fail")
  /\ inflight' = inflight - 1
  /\ call' = [call EXCEPT ![c] = NoCall]
  /\ NotifyShutdown
  /\ UNCHANGED <<phase, pool, waiters, drained>>

\* Lease::Release, from the exchange or from the destructor.
Release(c, healthy) ==
  LET s == call[c].slot IN
  /\ At(c, "lease")
  /\ inflight' = inflight - 1
  /\ NotifyShutdown
  /\ IF s \notin ToSet(pool.list)
     THEN call' = [call EXCEPT ![c] = NoCall] /\ UNCHANGED <<pool, waiters>>
     ELSE IF ~healthy \/ phase # "Open"
     THEN /\ call' = [call EXCEPT ![c] = NoCall]
          /\ pool' = RetireLocked(pool, s) /\ UNCHANGED waiters
     ELSE GiveBack(c, NoCall, s)
  /\ UNCHANGED <<phase, drained>>

-----------------------------------------------------------------------------
(***************************************************************************)
(* Closing, statistics, and the connections below.                         *)
(***************************************************************************)
\* The waiters leave the queue and their gates are opened.
DismissWaiters ==
  /\ waiters' = <<>>
  /\ call' = [c \in Caller |-> IF c \in ToSet(waiters) THEN [call[c] EXCEPT !.told = TRUE]
                               ELSE call[c]]

\* Slip: leased connections are left to their users.
CloseIdleOnly ==
  /\ phase # "Closed"
  /\ phase' = "Closed"
  /\ pool' = [pool EXCEPT !.ent = [s \in Slot |->
                IF s \in ToSet(pool.list) /\ pool.ent[s].phase = "Idle"
                THEN RetiredEntry(pool.ent[s]) ELSE pool.ent[s]]]
  /\ DismissWaiters
  /\ NotifyShutdown
  /\ UNCHANGED <<inflight, drained>>

Close ==
  /\ phase # "Closed"
  /\ phase' = "Closed"
  /\ pool' = [pool EXCEPT !.ent = [s \in Slot |->
                IF s \in ToSet(pool.list) THEN RetiredEntry(pool.ent[s]) ELSE pool.ent[s]]]
  /\ DismissWaiters
  /\ NotifyShutdown
  /\ UNCHANGED <<inflight, drained>>

\* The first Shutdown; a later one only reports.
Shutdown ==
  /\ shut = "none" /\ phase = "Open"
  /\ phase' = "Draining"
  /\ DismissWaiters
  /\ shut' = "check"
  /\ UNCHANGED <<inflight, pool, drained>>

ShutdownAgain ==
  /\ phase = "Draining" /\ inflight = 0
  /\ drained' = TRUE
  /\ UNCHANGED <<phase, inflight, pool, waiters, call, shut>>

\* The loop around cv.wait_until: drained first, then closed, then the deadline.
ShutdownCheck ==
  /\ shut = "check"
  /\ IF inflight = 0 THEN shut' = "none" /\ drained' = TRUE
     ELSE /\ shut' \in (IF phase = "Closed" THEN {"none"} ELSE {"none", "asleep"})
          /\ UNCHANGED drained
  /\ UNCHANGED <<phase, inflight, pool, waiters, call>>

\* The deadline of wait_until, or a wake-up without a cause.
ShutdownWakes ==
  /\ shut = "asleep" /\ shut' = "check"
  /\ UNCHANGED <<phase, inflight, pool, waiters, call, drained>>

\* Stats sweeps as well, in every phase.
Stats ==
  /\ pool' = SweepLocked(pool)
  /\ UNCHANGED <<phase, inflight, waiters, call, shut, drained>>

\* The engine releases a connection that was closed, by either side, or whose
\* dial failed.
NetReleases(s) ==
  /\ \/ pool.ent[s].net \in {"closing", "failing"}
     \/ pool.ent[s].net = "up" /\ pool.ent[s].spoiled
  /\ pool' = [pool EXCEPT !.ent[s].net = "gone"]
  /\ UNCHANGED <<phase, inflight, waiters, call, shut, drained>>

\* The peer closes or talks out of turn, or the keepalive expires.
Spoils(s) ==
  /\ pool.ent[s].net = "up" /\ ~pool.ent[s].spoiled
  /\ pool' = [pool EXCEPT !.ent[s].spoiled = TRUE]
  /\ UNCHANGED <<phase, inflight, waiters, call, shut, drained>>

-----------------------------------------------------------------------------
CallerStep(c) ==
  \/ TakeFast(c) \/ ReserveDial(c) \/ Enqueue(c) \/ Recheck(c) \/ Resume(c)
  \/ SliceEnds(c) \/ Sliced(c) \/ DialFails(c) \/ DialSucceeds(c) \/ Fail(c)
  \/ \E healthy \in BOOLEAN : Release(c, healthy)
  \/ Refuse(c)

Next ==
  \/ \E c \in Caller : CallerStep(c) \/ \E o \in Origin : Acquire(c, o)
  \/ Close \/ Shutdown \/ ShutdownAgain \/ ShutdownCheck \/ ShutdownWakes \/ Stats
  \/ \E s \in Slot : NetReleases(s) \/ Spoils(s)

Spec == Init /\ [][Next]_vars

-----------------------------------------------------------------------------
(***************************************************************************)
(* Properties.                                                             *)
(***************************************************************************)
EntryType == [phase : {"Freed", "Dialing", "Active", "Idle", "Retiring"},
              origin : Origin \cup {NoOrigin},
              net : {"none", "failing", "up", "closing", "gone"}, spoiled : BOOLEAN]
CallPc == {"idle", "fast", "reserve", "queue", "added", "parked", "sliced", "dial",
           "lease", "fail"}

\* Type invariant of the pool's State and of the calls in progress; the idle
\* connections stay within max_keepalive_connections.
TypeOK ==
  /\ phase \in {"Open", "Draining", "Closed"} /\ inflight \in Nat
  /\ pool.list \in Seq(Slot) /\ pool.ent \in [Slot -> EntryType]
  /\ waiters \in Seq(Caller)
  /\ call \in [Caller -> [pc : CallPc, origin : Origin \cup {NoOrigin},
                          slot : Slot \cup {0}, told : BOOLEAN]]
  /\ shut \in {"none", "check", "asleep"} /\ drained \in BOOLEAN
  /\ Cardinality({ s \in Slot : pool.ent[s].phase = "Idle" }) <= MaxKeepalive

\* HTTP/1.1: a connection serves one request at a time.  No connection is
\* leased or handed to two callers, an idle one to none; and an active entry
\* always has its user, so that no place of the pool leaks.
Users(s) == { c \in Caller : call[c].slot = s /\ call[c].pc # "dial" }
ExclusiveUse ==
  \A s \in ToSet(pool.list) :
    /\ Cardinality(Users(s)) <= 1
    /\ pool.ent[s].phase = "Idle" => Users(s) = {}
    /\ pool.ent[s].phase = "Active" => Users(s) # {}

\* "Logically removing an entry does not give its place back": what physically
\* exists, dials in progress included, never exceeds max_connections.
PhysicalBudget ==
  Cardinality({ s \in Slot : \/ pool.ent[s].net \in {"up", "closing", "failing"}
                             \/ \E c \in Caller : At(c, "dial") /\ call[c].slot = s })
    <= MaxConnections

\* A waiter comes before the idle list: while somebody queues for an origin no
\* connection of that origin idles, and the queue is within max_queue.
WaitersFirst ==
  /\ Len(waiters) <= MaxQueue
  /\ \A c \in ToSet(waiters), s \in ToSet(pool.list) :
       ~(pool.ent[s].phase = "Idle" /\ pool.ent[s].origin = call[c].origin)

\* Every connection has its place, its one user and its turn.
PoolExact == TypeOK /\ ExclusiveUse /\ PhysicalBudget /\ WaitersFirst

\* After Close no connection stays open, neither a leased one, nor one handed
\* to a waiter, nor one whose dial was under way.
CloseReachesAll == phase = "Closed" => \A s \in Slot : pool.ent[s].net # "up"

\* Once Shutdown has reported success the pool stays empty of requests.
DrainIsFinal ==
  drained => /\ inflight = 0
             /\ \A c \in Caller : At(c, "idle")

\* Shutdown sleeps only as long as there is something to wait for: whoever ends
\* the last request, and whoever closes the pool, tells it, by every way out of
\* Acquire and of a Lease.
ShutdownNotStranded == shut = "asleep" => inflight > 0 /\ phase # "Closed"

\* The end of the pool is the end of everything in it, and is told.
PoolEnds == CloseReachesAll /\ DrainIsFinal /\ ShutdownNotStranded

\* Pool.hpp: the entry DialReserved points to keeps its address over the
\* suspension.
DialEntryStays == \A c \in Caller : At(c, "dial") => call[c].slot \in ToSet(pool.list)
=============================================================================
