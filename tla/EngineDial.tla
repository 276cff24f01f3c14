----------------------------- MODULE EngineDial -----------------------------
(***************************************************************************)
(* Outgoing connections of the Engine: the table of connect operations,    *)
(* the owner that opens, awaits and adopts the socket, the coroutine that  *)
(* waits for the result, and the control thread that seals, unbinds and    *)
(* finalizes.  With a raw handler the result goes to OnConnect instead.    *)
(*                                                                         *)
(* One step is one critical section or one posted handler; the handler     *)
(* that adopts a descriptor is three, split where the seal may come in.    *)
(* ConnCore after StartOwner is one descriptor that can be closed          *)
(* (ConnectionState models the rest).  The test seams are left out.        *)
(***************************************************************************)
EXTENDS Naturals, Sequences, FiniteSets

CONSTANTS Dial, ConnectLimit  \* kMaxConnectOps

\* What the parameters have to be; assumed wherever they are given values.
EngineDialConstants == IsFiniteSet(Dial) /\ ConnectLimit \in Nat \ {0}

VARIABLES
  raw,                     \* a raw handler is installed
  dialPhase, dialSealed,   \* EnginePhase, service_sealed
  table, op,               \* connects and its ConnectOps
  dialTasks,               \* handlers posted to the owner
  dialBound, dialFailed,   \* the driver is bound; it is Failed
  shut, pend, calls,       \* m_sealed, m_pending_connects, m_pending_connect_callbacks
  onZero, sealDone,        \* m_on_pending_zero, the promise of the seal
  owner,                   \* where the owner's handler is
  fd, asked, released,     \* descriptors, connections asked to close, released records
  told,                    \* calls of OnConnect
  dialPc, dialWoken, result, \* the callers
  retry,                   \* cancel_retry_needed
  ctl, closer              \* Run after Running, and a thread in RequestClose

tableVars  == <<table, op>>
dialOwnerVars == <<shut, pend, calls, onZero, sealDone, owner>>
fdVars     == <<fd, asked, released>>
callVars   == <<dialPc, dialWoken, result>>
driverVars == <<dialTasks, dialBound, dialFailed>>
ctlVars    == <<dialPhase, dialSealed, ctl, closer>>
dialVars == <<raw, tableVars, dialOwnerVars, fdVars, callVars, driverVars, ctlVars, told, retry>>

Fresh == [done |-> FALSE, abandoned |-> FALSE, waiting |-> ~raw, held |-> ~raw,
          cancel |-> FALSE, delivering |-> FALSE, conn |-> FALSE]

Idle == [at |-> "idle"]
Busy(a, d) == [at |-> a, dial |-> d]

DialInit ==
  /\ raw \in BOOLEAN /\ dialPhase = "Running" /\ dialSealed = FALSE
  /\ table = {} /\ op = [d \in Dial |-> Fresh]
  /\ dialTasks = <<>> /\ dialBound = TRUE /\ dialFailed = FALSE
  /\ shut = FALSE /\ pend = [d \in Dial |-> "no"] /\ calls = 0
  /\ onZero = FALSE /\ sealDone = FALSE /\ owner = Idle
  /\ fd = [d \in Dial |-> "none"] /\ asked = {} /\ released = {}
  /\ told = [d \in Dial |-> 0]
  /\ dialPc = [d \in Dial |-> "idle"] /\ dialWoken = {} /\ result = [d \in Dial |-> "none"]
  /\ retry = FALSE /\ ctl = "loop" /\ closer = "idle"

(***************************************************************************)
(* The connect operation                                                   *)
(***************************************************************************)

\* What a caller that already gave up, or nobody, would receive is recycled.
Takes(d) == ~op[d].done /\ ~(op[d].abandoned /\ ~op[d].waiting /\ ~raw)

\* Slip: a finished operation leaves the table with its record unreleased.
ErasableAtOnce(o, rel, d) == o.done /\ ~o.waiting

Erasable(o, rel, d) == o.done /\ ~o.waiting /\ (~o.held \/ d \in rel)

\* ResolveConnect followed by MaybeEraseConnect, `conn` being a connection or not,
\* `old` the operation as the caller of ResolveConnect left it.
Resolve(d, old, conn) ==
  LET now   == IF old.done THEN old
               ELSE [old EXCEPT !.done = TRUE,
                                !.conn = conn /\ Takes(d),
                                !.waiting = @ /\ ~raw]
      found == d \in table
  IN /\ op' = IF found THEN [op EXCEPT ![d] = now] ELSE op
     /\ asked' = IF conn /\ ~(found /\ Takes(d)) THEN asked \cup {d} ELSE asked
     /\ dialWoken' = IF found /\ dialPc[d] = "parked" THEN dialWoken \cup {d} ELSE dialWoken
     /\ table' = IF found /\ Erasable(now, released', d) THEN table \ {d} ELSE table

\* FinishConnectCallback
FinishCallback ==
  /\ calls' = IF calls = 0 THEN 0 ELSE calls - 1
  /\ sealDone' = (sealDone \/ (calls = 1 /\ onZero))
  /\ onZero' = (onZero /\ calls # 1)

TellHandler(d) == told' = IF raw THEN [told EXCEPT ![d] = @ + 1] ELSE told

\* MarkReclaimReleased: without a record (raw) there is nothing to mark.
Released(d) == released' = IF raw THEN released ELSE released \cup {d}

\* Every failure on the owner: close what is open, mark, tell, resolve.
Fail(d) ==
  /\ fd' = [fd EXCEPT ![d] = "closed"]
  /\ Released(d) /\ TellHandler(d) /\ Resolve(d, op[d], FALSE)
  /\ UNCHANGED <<dialPc, result>>

(***************************************************************************)
(* Submission: StartConnectImpl, CoDial                                    *)
(***************************************************************************)

\* A rejected submission leaves no responsibility behind.
Reject(d) ==
  /\ dialPc' = [dialPc EXCEPT ![d] = "done"] /\ result' = [result EXCEPT ![d] = "error"]

SubmitDial(d) ==
  /\ dialPc[d] = "idle"
  /\ IF dialPhase # "Running" \/ dialSealed
     THEN Reject(d) /\ Released(d)
     ELSE dialPc' = [dialPc EXCEPT ![d] = "insert"] /\ UNCHANGED <<result, released>>
  /\ UNCHANGED <<raw, tableVars, dialOwnerVars, fd, asked, dialWoken, driverVars, ctlVars, told,
                 retry>>

Insert(d) ==
  LET kept == {e \in table : ~Erasable(op[e], released, e)} IN
  /\ dialPc[d] = "insert"
  /\ IF Cardinality(kept) >= ConnectLimit
     THEN table' = kept /\ Reject(d) /\ Released(d) /\ UNCHANGED op
     ELSE /\ table' = kept \cup {d} /\ op' = [op EXCEPT ![d] = Fresh]
          /\ dialPc' = [dialPc EXCEPT ![d] = "post"] /\ UNCHANGED <<result, released>>
  /\ UNCHANGED <<raw, dialOwnerVars, fd, asked, dialWoken, driverVars, ctlVars, told, retry>>

\* TryPost refuses after the seal, and when the post itself fails.
OpenForDials == dialBound /\ ~dialSealed /\ ~shut

\* The rollback takes the receiver away before it resolves.
Post(d) ==
  /\ dialPc[d] = "post"
  /\ \/ /\ OpenForDials /\ dialTasks' = Append(dialTasks, [do |-> "begin", dial |-> d])
        /\ dialPc' = [dialPc EXCEPT ![d] = IF raw THEN "accepted" ELSE "look"]
        /\ UNCHANGED <<tableVars, asked, released, dialWoken, result>>
     \/ /\ Released(d) /\ Resolve(d, [op[d] EXCEPT !.waiting = FALSE], FALSE)
        /\ Reject(d) /\ UNCHANGED dialTasks
  /\ UNCHANGED <<raw, dialOwnerVars, fd, dialBound, dialFailed, ctlVars, told, retry>>

(***************************************************************************)
(* The owner                                                               *)
(***************************************************************************)

Running == dialBound /\ ~dialFailed /\ owner = Idle

RunsDial(t) == Running /\ dialTasks # <<>> /\ Head(dialTasks).do = t /\ dialTasks' = Tail(dialTasks)

\* BeginConnectOnOwner
BeginConnect ==
  LET d == Head(dialTasks).dial IN
  /\ RunsDial("begin")
  /\ IF shut \/ dialSealed
     THEN Released(d) /\ TellHandler(d) /\ Resolve(d, op[d], FALSE) /\ UNCHANGED <<owner, calls>>
     ELSE /\ calls' = calls + 1 /\ owner' = Busy("start", d)
          /\ UNCHANGED <<tableVars, asked, released, dialWoken, told>>
  /\ UNCHANGED <<raw, shut, pend, onZero, sealDone, fd, dialPc, result, dialBound, dialFailed,
                 ctlVars, retry>>

\* Slip: a start that meets the seal keeps its place among the pending callbacks.
StartSealedUncounted ==
  /\ owner.at = "start" /\ (shut \/ dialSealed)
  /\ Released(owner.dial) /\ TellHandler(owner.dial) /\ Resolve(owner.dial, op[owner.dial], FALSE)
  /\ owner' = Idle
  /\ UNCHANGED <<raw, shut, pend, calls, onZero, sealDone, fd, dialPc, result, driverVars, ctlVars,
                 retry>>

\* StartConnectSocketOnOwner meets the seal.
StartSealed ==
  /\ owner.at = "start" /\ (shut \/ dialSealed)
  /\ Released(owner.dial) /\ TellHandler(owner.dial) /\ Resolve(owner.dial, op[owner.dial], FALSE)
  /\ FinishCallback /\ owner' = Idle
  /\ UNCHANGED <<raw, shut, pend, fd, dialPc, result, driverVars, ctlVars, retry>>

\* The rest of it: the socket cannot be had, or the wait for it begins.
StartSocket ==
  LET d == owner.dial IN
  /\ owner.at = "start" /\ ~shut /\ ~dialSealed /\ owner' = Idle
  /\ \/ Fail(d) /\ FinishCallback /\ UNCHANGED pend
     \/ /\ fd' = [fd EXCEPT ![d] = "connecting"] /\ pend' = [pend EXCEPT ![d] = "waiting"]
        /\ UNCHANGED <<tableVars, asked, released, callVars, told, calls, onZero, sealDone>>
  /\ UNCHANGED <<raw, shut, driverVars, ctlVars, retry>>

\* The wait ends canceled or failed, or the connected descriptor cannot be adopted.
ConnectFails(d) ==
  /\ Running /\ pend[d] # "no" /\ pend' = [pend EXCEPT ![d] = "no"]
  /\ Fail(d) /\ FinishCallback
  /\ UNCHANGED <<raw, shut, owner, driverVars, ctlVars, retry>>

\* AdoptFdOnOwner up to the authorisation: the record goes with the connection.
AdoptDial(d) ==
  /\ Running /\ pend[d] = "waiting" /\ ~shut /\ ~dialSealed
  /\ pend' = [pend EXCEPT ![d] = "no"] /\ fd' = [fd EXCEPT ![d] = "conn"]
  /\ op' = IF d \in table THEN [op EXCEPT ![d].delivering = TRUE, ![d].held = FALSE] ELSE op
  /\ owner' = Busy("authorise", d)
  /\ UNCHANGED <<raw, table, shut, calls, onZero, sealDone, asked, released, callVars, driverVars,
                 ctlVars, told, retry>>

AuthoriseDial ==
  LET d == owner.dial IN
  /\ owner.at = "authorise"
  /\ IF dialSealed
     THEN /\ fd' = [fd EXCEPT ![d] = "closed"] /\ released' = released \cup {d}
          /\ TellHandler(d) /\ Resolve(d, op[d], FALSE) /\ FinishCallback /\ owner' = Idle
     ELSE owner' = Busy("deliver", d) /\ UNCHANGED <<fd, released, told, tableVars, asked,
                                                     dialWoken,
                                                     calls, onZero, sealDone>>
  /\ UNCHANGED <<raw, shut, pend, dialPc, result, driverVars, ctlVars, retry>>

\* A connection nobody takes is shut down on the spot.
Deliver ==
  LET d == owner.dial
      delivered == d \in table /\ Takes(d)
  IN
  /\ owner.at = "deliver" /\ owner' = Idle
  /\ fd' = IF delivered THEN fd ELSE [fd EXCEPT ![d] = "closed"]
  /\ released' = IF delivered THEN released ELSE released \cup {d}
  /\ Resolve(d, op[d], TRUE) /\ FinishCallback
  /\ told' = IF raw /\ delivered THEN [told EXCEPT ![d] = @ + 1] ELSE told
  /\ UNCHANGED <<raw, shut, pend, dialPc, result, driverVars, ctlVars, retry>>

\* A connection asked to close is closed by the owner, which marks its record.
CloseConn(d) ==
  /\ Running /\ d \in asked /\ fd[d] = "conn"
  /\ fd' = [fd EXCEPT ![d] = "closed"] /\ released' = released \cup {d}
  /\ UNCHANGED <<raw, tableVars, dialOwnerVars, asked, callVars, driverVars, ctlVars, told, retry>>

Canceled(S) ==
  pend' = [d \in Dial |-> IF d \in S /\ pend[d] = "waiting" THEN "canceled" ELSE pend[d]]

\* CancelConnectOnOwner
CancelConnect ==
  /\ RunsDial("cancel") /\ Canceled({Head(dialTasks).dial})
  /\ UNCHANGED <<raw, tableVars, shut, calls, onZero, sealDone, owner, fdVars, callVars, dialBound,
                 dialFailed,
                 ctlVars, told, retry>>

\* CancelAllRequestedOnOwner
CancelAllRequested ==
  /\ RunsDial("cancelAll") /\ Canceled({d \in table : op[d].cancel})
  /\ UNCHANGED <<raw, tableVars, shut, calls, onZero, sealDone, owner, fdVars, callVars, dialBound,
                 dialFailed,
                 ctlVars, told, retry>>

\* SealServiceOnOwner: done at once, or with the last pending callback.
SealOwner ==
  LET open == {d \in Dial : fd[d] = "conn"} IN
  /\ RunsDial("seal") /\ shut' = TRUE /\ Canceled(Dial)
  /\ fd' = [d \in Dial |-> IF d \in open THEN "closed" ELSE fd[d]]
  /\ released' = released \cup open
  /\ sealDone' = (sealDone \/ calls = 0) /\ onZero' = (calls > 0)
  /\ UNCHANGED <<raw, tableVars, calls, owner, asked, callVars, dialBound, dialFailed, ctlVars,
                 told, retry>>

(***************************************************************************)
(* The waiting coroutine: CoWaitConnect                                    *)
(***************************************************************************)

Erased(o, d) == table' = IF Erasable(o, released, d) THEN table \ {d} ELSE table

\* A result that is there is taken; otherwise the intention is renewed.
LookForResult(d) ==
  /\ dialPc[d] = "look"
  /\ IF d \notin table
     THEN Reject(d) /\ UNCHANGED tableVars
     ELSE LET o == [op[d] EXCEPT !.waiting = ~op[d].done, !.abandoned = FALSE] IN
          /\ op' = [op EXCEPT ![d] = o] /\ Erased(o, d)
          /\ dialPc' = [dialPc EXCEPT ![d] = IF o.done THEN "done" ELSE "park"]
          /\ result' = [result EXCEPT ![d] =
               IF o.done THEN IF o.conn THEN "conn" ELSE "error" ELSE "none"]
  /\ dialWoken' = dialWoken \ {d}
  /\ UNCHANGED <<raw, dialOwnerVars, fdVars, driverVars, ctlVars, told, retry>>

\* Register with the hub and look again; building the waiter may fail.
ParkDial(d) ==
  /\ dialPc[d] = "park"
  /\ dialPc' \in {[dialPc EXCEPT ![d] = IF op[d].done THEN "look" ELSE "parked"],
              [dialPc EXCEPT ![d] = "forsake"]}
  /\ UNCHANGED <<raw, tableVars, dialOwnerVars, fdVars, dialWoken, result, driverVars, ctlVars,
                 told, retry>>

ResumeDial(d) ==
  /\ dialPc[d] = "parked" /\ d \in dialWoken
  /\ dialPc' = [dialPc EXCEPT ![d] = "look"]
  /\ UNCHANGED <<raw, tableVars, dialOwnerVars, fdVars, dialWoken, result, driverVars, ctlVars,
                 told, retry>>

\* The wait times out or is canceled; the result may still come until the lock is taken.
EndWait(d) ==
  /\ dialPc[d] = "parked" /\ d \notin dialWoken
  /\ dialPc' = [dialPc EXCEPT ![d] = "ended"]
  /\ UNCHANGED <<raw, tableVars, dialOwnerVars, fdVars, dialWoken, result, driverVars, ctlVars,
                 told, retry>>

\* A result without a receiver is recycled.
Recycle(o, d) == asked' = IF o.done /\ o.conn THEN asked \cup {d} ELSE asked

SettleEnded(d) ==
  LET o == [op[d] EXCEPT !.waiting = FALSE] IN
  /\ dialPc[d] = "ended" /\ op' = [op EXCEPT ![d] = o] /\ Recycle(o, d)
  /\ IF o.done THEN Erased(o, d) /\ Reject(d)
     ELSE dialPc' = [dialPc EXCEPT ![d] = "abandon"] /\ UNCHANGED <<table, result>>
  /\ dialWoken' = dialWoken \ {d}
  /\ UNCHANGED <<raw, dialOwnerVars, fd, released, driverVars, ctlVars, told, retry>>

\* Slip: giving up does not look at the result again.
AbandonBlindly(d) ==
  LET cancel == dialPc[d] = "abandon" IN
  /\ dialPc[d] \in {"abandon", "forsake"}
  /\ op' = [op EXCEPT ![d].waiting = FALSE, ![d].abandoned = TRUE, ![d].cancel = @ \/ cancel]
  /\ IF cancel THEN dialPc' = [dialPc EXCEPT ![d] = "interrupt"] /\ UNCHANGED result ELSE Reject(d)
  /\ UNCHANGED <<raw, table, dialOwnerVars, fdVars, dialWoken, driverVars, ctlVars, told, retry>>

\* abandon(cancel_owner); the result may have come since the last look.
Abandon(d) ==
  LET cancel == dialPc[d] = "abandon"
      o == [op[d] EXCEPT !.waiting = FALSE, !.abandoned = ~op[d].done, !.cancel = @ \/ cancel]
  IN
  /\ dialPc[d] \in {"abandon", "forsake"}
  /\ op' = [op EXCEPT ![d] = o] /\ Recycle(o, d)
  /\ IF o.done /\ o.conn THEN Erased(o, d) ELSE UNCHANGED table
  /\ IF cancel THEN dialPc' = [dialPc EXCEPT ![d] = "interrupt"] /\ UNCHANGED result ELSE Reject(d)
  /\ UNCHANGED <<raw, dialOwnerVars, fd, released, dialWoken, driverVars, ctlVars, told, retry>>

\* The interruption is posted, or left to the control loop.
Interrupt(d) ==
  /\ dialPc[d] = "interrupt" /\ Reject(d)
  /\ \/ /\ OpenForDials /\ dialTasks' = Append(dialTasks, [do |-> "cancel", dial |-> d])
        /\ UNCHANGED retry
     \/ retry' = TRUE /\ UNCHANGED dialTasks
  /\ UNCHANGED <<raw, tableVars, dialOwnerVars, fdVars, dialWoken, dialBound, dialFailed, ctlVars,
                 told>>

\* The holder of a connection closes it.
UserClose(d) ==
  /\ fd[d] = "conn" /\ (result[d] = "conn" \/ told[d] > 0) /\ d \notin asked
  /\ asked' = asked \cup {d}
  /\ UNCHANGED <<raw, tableVars, dialOwnerVars, fd, released, callVars, driverVars, ctlVars, told,
                 retry>>

(***************************************************************************)
(* The end: RequestClose, the control loop of Run, the finalization        *)
(***************************************************************************)

\* SealService on the table: what the owner is not delivering is canceled.
SettleTable ==
  LET ended == {d \in table : ~op[d].done /\ ~op[d].delivering} IN
  /\ op' = [d \in Dial |-> IF d \in ended THEN [op[d] EXCEPT !.done = TRUE] ELSE op[d]]
  /\ dialWoken' = dialWoken \cup {d \in ended : dialPc[d] = "parked"}

RequestCloseDials ==
  /\ \/ closer = "idle" /\ dialSealed' = TRUE /\ closer' = "settle" /\ UNCHANGED <<op, dialWoken>>
     \/ closer = "settle" /\ SettleTable /\ closer' = "done" /\ UNCHANGED dialSealed
  /\ UNCHANGED <<raw, dialPhase, ctl, table, dialOwnerVars, fdVars, dialPc, result, driverVars,
                 told, retry>>

\* The driver fails between two handlers: nothing posted runs any more.
DialDriverFails ==
  /\ Running /\ dialFailed' = TRUE
  /\ UNCHANGED <<raw, tableVars, dialOwnerVars, fdVars, callVars, dialTasks, dialBound, ctlVars,
                 told, retry>>

RetryCancel ==
  /\ ctl = "loop" /\ retry /\ dialBound
  /\ retry' = FALSE /\ dialTasks' = Append(dialTasks, [do |-> "cancelAll"])
  /\ UNCHANGED <<raw, tableVars, dialOwnerVars, fdVars, callVars, dialBound, dialFailed, ctlVars,
                 told>>

LeaveDialLoop ==
  /\ ctl = "loop" /\ (closer # "idle" \/ dialFailed)
  /\ ctl' = "settle" /\ dialPhase' = "Closing" /\ dialSealed' = TRUE
  /\ UNCHANGED <<raw, closer, tableVars, dialOwnerVars, fdVars, callVars, driverVars, told, retry>>

SettleByRun ==
  /\ ctl = "settle" /\ SettleTable /\ ctl' = IF dialFailed THEN "unbind" ELSE "post"
  /\ UNCHANGED <<raw, dialPhase, dialSealed, closer, table, dialOwnerVars, fdVars, dialPc, result,
                 driverVars, told, retry>>

PostSeal ==
  /\ ctl = "post" /\ ctl' = "await" /\ dialTasks' = Append(dialTasks, [do |-> "seal"])
  /\ UNCHANGED <<raw, dialPhase, dialSealed, closer, tableVars, dialOwnerVars, fdVars, callVars,
                 dialBound, dialFailed, told, retry>>

AwaitSeal ==
  /\ ctl = "await" /\ (sealDone \/ dialFailed) /\ ctl' = "unbind"
  /\ UNCHANGED <<raw, dialPhase, dialSealed, closer, tableVars, dialOwnerVars, fdVars, callVars,
                 driverVars, told, retry>>

\* Unbinding waits for the handler that runs; what is queued never runs.
UnbindDials ==
  /\ ctl = "unbind" /\ owner = Idle /\ dialBound' = FALSE /\ dialTasks' = <<>> /\ ctl' = "finalize"
  /\ UNCHANGED <<raw, dialPhase, dialSealed, closer, tableVars, dialOwnerVars, fdVars, callVars,
                 dialFailed, told, retry>>

\* FinalizeControl
FinalizeDials ==
  LET open == {d \in Dial : fd[d] = "conn"} IN
  /\ ctl = "finalize" /\ ctl' = "settleRecords" /\ shut' = TRUE
  /\ fd' = [d \in Dial |-> IF fd[d] \in {"connecting", "conn"} THEN "closed" ELSE fd[d]]
  /\ pend' = [d \in Dial |-> "no"] /\ released' = released \cup open
  /\ UNCHANGED <<raw, dialPhase, dialSealed, closer, tableVars, calls, onZero, sealDone, owner,
                 asked, callVars,
                 driverVars, told, retry>>

\* SettleAbandonedConnectReclaim: no descriptor is left, so every record is true.
SettleRecords ==
  /\ ctl = "settleRecords" /\ ctl' = "done" /\ dialPhase' = "Stopped"
  /\ released' = released \cup {d \in table : op[d].held}
  /\ table' = {d \in table : ~op[d].done \/ op[d].waiting}
  /\ UNCHANGED <<raw, dialSealed, closer, op, dialOwnerVars, fd, asked, callVars, driverVars, told,
                 retry>>

DialCaller(d) ==
  \/ SubmitDial(d) \/ Insert(d) \/ Post(d) \/ LookForResult(d) \/ ParkDial(d) \/ ResumeDial(d)
  \/ EndWait(d) \/ SettleEnded(d) \/ Abandon(d) \/ Interrupt(d) \/ UserClose(d)

OwnerSteps ==
  \/ BeginConnect \/ StartSealed \/ StartSocket \/ AuthoriseDial \/ Deliver
  \/ CancelConnect \/ CancelAllRequested \/ SealOwner
  \/ \E d \in Dial : ConnectFails(d) \/ AdoptDial(d) \/ CloseConn(d)

Control ==
  \/ RetryCancel \/ LeaveDialLoop \/ SettleByRun \/ PostSeal \/ AwaitSeal
  \/ UnbindDials \/ FinalizeDials \/ SettleRecords

DialNext ==
  \/ \E d \in Dial : DialCaller(d)
  \/ OwnerSteps \/ Control \/ RequestCloseDials \/ DialDriverFails

DialSpec == DialInit /\ [][DialNext]_dialVars

(***************************************************************************)
(* Properties                                                              *)
(***************************************************************************)

Descriptor == {"none", "connecting", "conn", "closed"}

\* Values of the state (connects and its operations, the owner, the descriptors).
DialTypeOK ==
  /\ table \subseteq Dial /\ asked \subseteq Dial
  /\ released \subseteq Dial /\ dialWoken \subseteq Dial
  /\ fd \in [Dial -> Descriptor] /\ calls \in 0..Cardinality(Dial)
  /\ pend \in [Dial -> {"no", "waiting", "canceled"}]
  /\ result \in [Dial -> {"none", "conn", "error"}]

\* The receipt of a dial never says released while its descriptor is open, and once Run has
\* returned Stopped every descriptor is closed and every submitted dial's receipt says so
\* (MarkReclaimReleased, FinalizeControl, SettleAbandonedConnectReclaim).
ReceiptExact ==
  /\ \A d \in released : fd[d] \in {"none", "closed"}
  /\ dialPhase = "Stopped" => \A d \in Dial :
       /\ fd[d] \in {"none", "closed"}
       /\ ~raw /\ dialPc[d] \notin {"idle", "insert", "post"} => d \in released

\* A connected descriptor has a receiver: a caller that got it or will look for it, the raw
\* handler that was told once, or a request to close it; and a parked caller whose dial is
\* resolved has been woken (CoWaitConnect against ResolveConnect and SealService).
NoOrphan ==
  \A d \in Dial :
    /\ fd[d] = "conn" /\ owner = Idle /\ d \notin asked =>
         IF raw THEN told[d] = 1 ELSE dialPc[d] # "done" \/ result[d] = "conn"
    /\ told[d] <= 1
    /\ dialPc[d] = "parked" /\ d \notin dialWoken => ~op[d].done

\* The seal waits for exactly the connect callbacks that are still to come, and with a raw
\* handler each accepted connect has been told once by then (FinishConnectCallback).
SealExact ==
  /\ ~dialFailed /\ dialBound =>
       calls = Cardinality({d \in Dial : pend[d] # "no"}) + IF owner = Idle THEN 0 ELSE 1
  /\ sealDone => calls = 0
  /\ raw /\ sealDone => \A d \in Dial : dialPc[d] = "accepted" => told[d] = 1

\* Receipts, callbacks and the seal tell the same of every dial.
DialExact == DialTypeOK /\ ReceiptExact /\ SealExact
=============================================================================
