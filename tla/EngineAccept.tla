---------------------------- MODULE EngineAccept ----------------------------
(***************************************************************************)
(* The life of an Engine that listens: Run with its installation, control  *)
(* loop, seal and close-out; the main owner that accepts, the sub owner    *)
(* that adopts; the bounded handoff to CoAccept and the raw handler;       *)
(* RequestStopAccepting and RequestClose from other threads.               *)
(*                                                                         *)
(* One listener, one sub owner.  One step is one critical section or one   *)
(* posted handler, adoption is split where a stop may come in.  A step of  *)
(* the close-out that is retried (unbinding, also by ~Engine) is a step    *)
(* taken later.  The test seams are left out.                              *)
(***************************************************************************)
EXTENDS Naturals, Sequences, FiniteSets

CONSTANTS Peer, Receiver,  \* connections that arrive, coroutines in CoAccept
          Capacity         \* handoff_capacity

\* What the parameters have to be; assumed wherever they are given values.
EngineAcceptConstants == IsFiniteSet(Peer) /\ Capacity \in Nat \ {0}

VARIABLES
  mode,                        \* "raw": a handler; "handoff"; "client": nothing to listen on
  phase, run,                  \* EnginePhase and where Run is
  acceptSealed, closing,             \* service_sealed, close_requested
  mainSet, bound, failed,      \* main_reactor, the drivers are bound, a driver is Failed
  tasks, mainShut, subShut,    \* the main owner's handlers, m_sealed of both owners
  sealsLeft,                   \* owners whose seal has not answered
  listener, armed, installed,  \* the listener, its `armed`, the answer of InstallOnOwner
  where,                       \* each arriving connection
  reserved, handoffClosed,     \* handoff_reserved, handoff_closed
  resumePending,               \* resume_pending
  stop, stopper,               \* accept_stop_requested/posted/done, RequestStopAccepting
  pc, acceptWoken                    \* the receivers

runVars   == <<phase, run, acceptSealed, closing, sealsLeft>>
ownerVars == <<mainShut, subShut, listener, armed, installed>>
roomVars  == <<reserved, handoffClosed>>
postVars  == <<tasks, resumePending>>
acceptVars == <<mode, runVars, mainSet, bound, failed, postVars, ownerVars, where, roomVars,
          stop, stopper, pc, acceptWoken>>

AcceptInit ==
  /\ mode \in {"raw", "handoff", "client"}
  /\ phase = "Idle" /\ run = "idle" /\ acceptSealed = FALSE /\ closing = FALSE /\ sealsLeft = {}
  /\ mainSet = FALSE /\ bound = FALSE /\ failed = FALSE
  /\ tasks = <<>> /\ mainShut = FALSE /\ subShut = FALSE
  /\ listener = "none" /\ armed = FALSE /\ installed = "no"
  /\ where = [p \in Peer |-> "away"]
  /\ reserved = 0 /\ handoffClosed = FALSE /\ resumePending = FALSE
  /\ stop = [requested |-> FALSE, posted |-> FALSE, done |-> FALSE] /\ stopper = "idle"
  /\ pc = [r \in Receiver |-> "idle"] /\ acceptWoken = {}

At(w) == {p \in Peer : where[p] = w}
Move(p, w) == where' = [where EXCEPT ![p] = w]
NotifyAll == acceptWoken' = acceptWoken \cup {r \in Receiver : pc[r] = "parked"}

(***************************************************************************)
(* The handoff                                                             *)
(***************************************************************************)

\* Slip: only what is queued counts, not what is on its way.
RoomInQueue ==
  /\ ~handoffClosed /\ ~acceptSealed
  /\ mode = "handoff" => Cardinality(At("handoff")) < Capacity

\* TryReserveHandoff has room; without a handoff nothing is counted.
Room ==
  /\ ~handoffClosed /\ ~acceptSealed
  /\ mode = "handoff" => Cardinality(At("handoff")) + reserved < Capacity

\* TryPost to the main owner.
Open == bound /\ ~acceptSealed /\ ~mainShut

\* ResumeAcceptIfFree posts one handler at a time.
ResumeAcceptIfFree ==
  IF mainSet /\ ~resumePending /\ Open
  THEN resumePending' = TRUE /\ tasks' = Append(tasks, "resume")
  ELSE UNCHANGED postVars

\* The reservation is destroyed uncommitted, ReleaseHandoffReservation.
ReleaseHandoffReservation ==
  IF mode = "handoff" /\ ~handoffClosed
  THEN reserved' = (IF reserved > 0 THEN reserved - 1 ELSE 0) /\ ResumeAcceptIfFree
  ELSE UNCHANGED <<reserved, postVars>>

\* ResumeMainAccept with the reservation's own release.
ReleaseAndArm ==
  LET freed == mode = "handoff" /\ ~handoffClosed
      first == IF mainSet /\ Open THEN Append(tasks, "arm") ELSE tasks
  IN
  /\ reserved' = IF freed /\ reserved > 0 THEN reserved - 1 ELSE reserved
  /\ IF freed /\ mainSet /\ ~resumePending /\ Open
     THEN resumePending' = TRUE /\ tasks' = Append(first, "resume")
     ELSE tasks' = first /\ UNCHANGED resumePending

(***************************************************************************)
(* The main owner                                                          *)
(***************************************************************************)

Runs(t) == bound /\ ~failed /\ installed # "open" /\ tasks # <<>> /\ Head(tasks) = t

\* InstallOnOwner: the listener is opened and bound, or an error is answered; a stop that
\* came meanwhile closes it again.
Install ==
  /\ Runs("install") /\ tasks' = Tail(tasks)
  /\ \/ installed' = "error" /\ UNCHANGED <<listener>>
     \/ /\ mode # "client" => ~stop.requested
        /\ installed' = (IF mode = "client" THEN "ok" ELSE "open")
        /\ listener' = (IF mode = "client" THEN "none" ELSE "open")
  /\ UNCHANGED <<mode, runVars, mainSet, bound, failed, resumePending, mainShut, subShut, armed,
                 where,
                 roomVars, stop, stopper, pc, acceptWoken>>

\* ArmAcceptAll, ArmAccept
MayArm == installed = "ok" /\ ~mainShut /\ ~acceptSealed /\ ~stop.requested /\ ~armed /\ Room

ArmAcceptAll ==
  /\ armed' = (armed \/ MayArm)
  /\ reserved' = IF MayArm /\ mode = "handoff" THEN reserved + 1 ELSE reserved

InstallEnds ==
  /\ bound /\ ~failed /\ installed = "open"
  /\ IF stop.requested
     THEN installed' = "error" /\ listener' = "closed" /\ UNCHANGED <<armed, reserved>>
     ELSE /\ installed' = "ok" /\ UNCHANGED listener
          /\ armed' = (~mainShut /\ ~acceptSealed /\ Room)
          /\ reserved' = IF armed' /\ mode = "handoff" THEN reserved + 1 ELSE reserved
  /\ UNCHANGED <<mode, runVars, mainSet, bound, failed, postVars, mainShut, subShut, where,
                 handoffClosed,
                 stop, stopper, pc, acceptWoken>>

ArmTask ==
  /\ \/ Runs("arm") /\ UNCHANGED resumePending
     \/ Runs("resume") /\ resumePending' = FALSE
  /\ tasks' = Tail(tasks) /\ ArmAcceptAll
  /\ UNCHANGED <<mode, runVars, mainSet, bound, failed, mainShut, subShut, listener, installed,
                 where,
                 handoffClosed, stop, stopper, pc, acceptWoken>>

MainFree == bound /\ ~failed /\ armed /\ installed = "ok"

\* The wait or accept4 fails, or the seal is met: the reservation is released.
AcceptFails ==
  /\ MainFree /\ armed' = FALSE /\ ReleaseHandoffReservation
  /\ UNCHANGED <<mode, runVars, mainSet, bound, failed, mainShut, subShut, listener, installed,
                 where,
                 handoffClosed, stop, stopper, pc, acceptWoken>>

\* Spurious readiness: armed again while the reservation is still held, then released.
AcceptAgain ==
  /\ MainFree /\ listener = "open"
  /\ armed' = (~mainShut /\ ~acceptSealed /\ ~stop.requested /\ Room)
  /\ LET held == IF armed' /\ mode = "handoff" THEN reserved + 1 ELSE reserved IN
     IF mode = "handoff" /\ ~handoffClosed
     THEN reserved' = held - 1 /\ ResumeAcceptIfFree
     ELSE reserved' = held /\ UNCHANGED postVars
  /\ UNCHANGED <<mode, runVars, mainSet, bound, failed, mainShut, subShut, listener, installed,
                 where,
                 handoffClosed, stop, stopper, pc, acceptWoken>>

\* DoAccept: one connection at a time goes to the sub owner with its reservation.
Accept(p) ==
  /\ MainFree /\ listener = "open" /\ where[p] = "away" /\ ~mainShut /\ ~acceptSealed
  /\ armed' = FALSE
  /\ IF stop.requested
     THEN Move(p, "closed") /\ ReleaseHandoffReservation
     ELSE \/ ~subShut /\ Move(p, "task") /\ UNCHANGED <<reserved, postVars>>
          \/ Move(p, "closed") /\ ReleaseAndArm
  /\ UNCHANGED <<mode, runVars, mainSet, bound, failed, mainShut, subShut, listener, installed,
                 handoffClosed, stop, stopper, pc, acceptWoken>>

\* StopAcceptingOnOwner: confirmed by the owner that closed the listener.
StopTask ==
  /\ Runs("stop") /\ tasks' = Tail(tasks)
  /\ listener' = (IF listener = "open" THEN "closed" ELSE listener)
  /\ stop' = [stop EXCEPT !.done = TRUE]
  /\ UNCHANGED <<mode, runVars, mainSet, bound, failed, resumePending, mainShut, subShut, armed,
                 installed,
                 where, roomVars, stopper, pc, acceptWoken>>

\* SealServiceOnOwner of both owners.
SealMain ==
  /\ Runs("seal") /\ tasks' = Tail(tasks)
  /\ mainShut' = TRUE /\ sealsLeft' = sealsLeft \ {"main"}
  /\ listener' = (IF listener = "open" THEN "closed" ELSE listener)
  /\ UNCHANGED <<mode, phase, run, acceptSealed, closing, mainSet, bound, failed, resumePending,
                 subShut, armed,
                 installed, where, roomVars, stop, stopper, pc, acceptWoken>>

(***************************************************************************)
(* The sub owner                                                           *)
(***************************************************************************)

SubFree == bound /\ ~failed /\ At("hand") \cup At("commit") = {}

\* AdoptFdOnOwner: closed when the seal is met or the descriptor cannot be taken.
AdoptAccepted(p) ==
  /\ SubFree /\ where[p] = "task"
  /\ IF subShut \/ acceptSealed
     THEN Move(p, "closed") /\ ReleaseAndArm
     ELSE \/ Move(p, "closed") /\ ReleaseHandoffReservation
          \/ Move(p, "hand") /\ UNCHANGED <<reserved, postVars>>
  /\ UNCHANGED <<mode, runVars, mainSet, bound, failed, ownerVars, handoffClosed, stop, stopper,
                 pc, acceptWoken>>

\* The check right before the delivery.
Authorise(p) ==
  /\ where[p] = "hand"
  /\ IF handoffClosed \/ acceptSealed
     THEN Move(p, "closed") /\ ReleaseHandoffReservation
     ELSE Move(p, "commit") /\ UNCHANGED <<reserved, postVars>>
  /\ UNCHANGED <<mode, runVars, mainSet, bound, failed, ownerVars, handoffClosed, stop, stopper,
                 pc, acceptWoken>>

Rearm == tasks' = IF mainSet /\ Open THEN Append(tasks, "arm") ELSE tasks

\* Slip: a commit leaves its reservation counted.
CommitKeepsRoom(p) ==
  /\ where[p] = "commit"
  /\ IF mode = "raw" THEN Move(p, "held") /\ Rearm /\ UNCHANGED <<reserved, resumePending, acceptWoken>>
     ELSE IF handoffClosed THEN Move(p, "closed") /\ UNCHANGED <<reserved, postVars, acceptWoken>>
     ELSE Move(p, "handoff") /\ NotifyAll /\ Rearm /\ UNCHANGED <<reserved, resumePending>>
  /\ UNCHANGED <<mode, runVars, mainSet, bound, failed, ownerVars, handoffClosed, stop, stopper,
                 pc>>

\* CommitHandoff, or OnAccept; then the next accept is asked for.
Commit(p) ==
  /\ where[p] = "commit"
  /\ IF mode = "raw" THEN Move(p, "held") /\ Rearm /\ UNCHANGED <<reserved, resumePending, acceptWoken>>
     ELSE IF handoffClosed THEN Move(p, "closed") /\ UNCHANGED <<reserved, postVars, acceptWoken>>
     ELSE /\ Move(p, "handoff") /\ NotifyAll /\ Rearm /\ UNCHANGED resumePending
          /\ reserved' = (IF reserved > 0 THEN reserved - 1 ELSE 0)
  /\ UNCHANGED <<mode, runVars, mainSet, bound, failed, ownerVars, handoffClosed, stop, stopper,
                 pc>>

SealSub ==
  /\ SubFree /\ At("task") = {} /\ "sub" \in sealsLeft
  /\ subShut' = TRUE /\ sealsLeft' = sealsLeft \ {"sub"}
  /\ where' = [p \in Peer |-> IF where[p] \in {"handoff", "held"} THEN "closed" ELSE where[p]]
  /\ UNCHANGED <<mode, phase, run, acceptSealed, closing, mainSet, bound, failed, postVars,
                 mainShut, listener, armed,
                 installed, roomVars, stop, stopper, pc, acceptWoken>>

(***************************************************************************)
(* CoAccept                                                                *)
(***************************************************************************)

Stopping == acceptSealed \/ stop.requested

\* The state decides before anything is waited for.
Enter(r) ==
  /\ pc[r] = "idle" /\ mode = "handoff" /\ phase = "Running" /\ ~Stopping
  /\ pc' = [pc EXCEPT ![r] = "look"]
  /\ UNCHANGED <<mode, runVars, mainSet, bound, failed, postVars, ownerVars, where, roomVars,
                 stop, stopper, acceptWoken>>

\* A connection is popped and the room it leaves is offered again.
Look(r) ==
  /\ pc[r] = "look" /\ acceptWoken' = acceptWoken \ {r}
  /\ IF ~handoffClosed /\ At("handoff") # {}
     THEN /\ \E p \in At("handoff") : Move(p, "held")
          /\ pc' = [pc EXCEPT ![r] = "got"] /\ ResumeAcceptIfFree
     ELSE /\ pc' = [pc EXCEPT ![r] = IF Stopping THEN "error" ELSE "park"]
          /\ UNCHANGED <<where, postVars>>
  /\ UNCHANGED <<mode, runVars, mainSet, bound, failed, ownerVars, roomVars, stop, stopper>>

\* Slip: the queue is not looked at again once the waiter is registered.
ParkBlindly(r) ==
  /\ pc[r] = "park" /\ pc' = [pc EXCEPT ![r] = "parked"]
  /\ UNCHANGED <<mode, runVars, mainSet, bound, failed, postVars, ownerVars, where, roomVars,
                 stop, stopper, acceptWoken>>

\* Registered with accept_hub, then looked at again.
Park(r) ==
  /\ pc[r] = "park"
  /\ pc' = [pc EXCEPT ![r] = IF At("handoff") # {} \/ Stopping THEN "look" ELSE "parked"]
  /\ UNCHANGED <<mode, runVars, mainSet, bound, failed, postVars, ownerVars, where, roomVars,
                 stop, stopper, acceptWoken>>

\* Notified, or the wait ends (a full hub ends it at once).
Unpark(r) ==
  /\ pc[r] = "parked"
  /\ pc' = [pc EXCEPT ![r] = IF r \in acceptWoken THEN "look" ELSE "error"]
  /\ UNCHANGED <<mode, runVars, mainSet, bound, failed, postVars, ownerVars, where, roomVars,
                 stop, stopper, acceptWoken>>

(***************************************************************************)
(* RequestStopAccepting, RequestClose                                      *)
(***************************************************************************)

\* The gate of the handoff is closed and what it holds is closed.
ShutHandoff ==
  /\ handoffClosed' = TRUE /\ reserved' = 0 /\ NotifyAll
  /\ where' = [p \in Peer |-> IF where[p] = "handoff" THEN "closed" ELSE where[p]]

LatchStop ==
  /\ stopper = "idle" /\ stopper' = "shut" /\ stop' = [stop EXCEPT !.requested = TRUE]
  /\ UNCHANGED <<mode, runVars, mainSet, bound, failed, postVars, ownerVars, where, roomVars, pc,
                 acceptWoken>>

ShutByStop ==
  /\ stopper = "shut" /\ stopper' = "find" /\ ShutHandoff
  /\ UNCHANGED <<mode, runVars, mainSet, bound, failed, postVars, ownerVars, stop, pc>>

\* Who closes the listener: the main owner, nobody, or the close-out of Run.
FindMain ==
  /\ stopper = "find"
  /\ IF mainSet THEN stopper' = "post" /\ UNCHANGED stop
     ELSE /\ stopper' = "done"
          /\ stop' = [stop EXCEPT !.done = @ \/ phase \in {"Idle", "Running", "Stopped"}]
  /\ UNCHANGED <<mode, runVars, mainSet, bound, failed, postVars, ownerVars, where, roomVars, pc,
                 acceptWoken>>

\* Slip: to have posted the close counts as having closed.
PostCountsAsDone ==
  /\ ~stop.done /\ ~stop.posted
  /\ IF bound THEN tasks' = Append(tasks, "stop") /\ stop' = [stop EXCEPT !.posted = TRUE, !.done = TRUE]
     ELSE UNCHANGED <<tasks, stop>>

\* TryPostAcceptStop by the requester or the control loop; a refused post is not kept.
PostStop ==
  /\ ~stop.done /\ ~stop.posted
  /\ IF bound THEN tasks' = Append(tasks, "stop") /\ stop' = [stop EXCEPT !.posted = TRUE]
     ELSE UNCHANGED <<tasks, stop>>

PostByStopper ==
  /\ stopper = "post" /\ stopper' = "done"
  /\ \/ PostStop
     \/ (stop.done \/ stop.posted) /\ UNCHANGED <<tasks, stop>>
  /\ UNCHANGED <<mode, runVars, mainSet, bound, failed, resumePending, ownerVars, where,
                 roomVars, pc, acceptWoken>>

\* The flag first, then the gate and the handoff.
RequestCloseEngine ==
  /\ \/ ~closing /\ closing' = TRUE /\ acceptSealed' = TRUE /\ UNCHANGED <<where, roomVars, acceptWoken>>
     \/ closing /\ ~handoffClosed /\ ShutHandoff /\ UNCHANGED <<closing, acceptSealed>>
  /\ UNCHANGED <<mode, phase, run, sealsLeft, mainSet, bound, failed, postVars, ownerVars, stop,
                 stopper, pc>>

(***************************************************************************)
(* Run                                                                     *)
(***************************************************************************)

\* fail(): refused before anything was built.
RunBegins ==
  /\ run = "idle" /\ phase = "Idle" /\ phase' = "Starting" /\ run' = "check"
  /\ UNCHANGED <<mode, acceptSealed, closing, sealsLeft, mainSet, bound, failed, postVars,
                 ownerVars, where,
                 roomVars, stop, stopper, pc, acceptWoken>>

\* A stop, an option or the runtime refuses; otherwise drivers are bound and owners published.
Prepare ==
  /\ run = "check"
  /\ \/ phase' = "Stopped" /\ run' = "ended" /\ UNCHANGED <<mainSet, bound, tasks>>
     \/ /\ ~(mode # "client" /\ stop.requested)
        /\ bound' = TRUE /\ mainSet' = (mode # "client") /\ UNCHANGED phase
        /\ IF acceptSealed THEN run' = "abort" /\ UNCHANGED tasks
           ELSE run' = "install" /\ tasks' = Append(tasks, "install")
  /\ UNCHANGED <<mode, acceptSealed, closing, sealsLeft, failed, resumePending, ownerVars, where,
                 roomVars,
                 stop, stopper, pc, acceptWoken>>

AwaitInstall ==
  /\ run = "install"
  /\ \/ installed = "ok" /\ run' = IF mode # "client" /\ stop.requested THEN "abort" ELSE "publish"
     \/ (installed = "error" \/ failed) /\ run' = "abort"
  /\ UNCHANGED <<mode, phase, acceptSealed, closing, sealsLeft, mainSet, bound, failed, postVars,
                 ownerVars, where,
                 roomVars, stop, stopper, pc, acceptWoken>>

\* A client that was stopped while it was built has nothing to close.
ClientStops ==
  /\ run = "publish" /\ run' = "running"
  /\ stop' = [stop EXCEPT !.done = @ \/ (mode = "client" /\ stop.requested)]
  /\ UNCHANGED <<mode, phase, acceptSealed, closing, sealsLeft, mainSet, bound, failed, postVars,
                 ownerVars, where,
                 roomVars, stopper, pc, acceptWoken>>

Publish ==
  /\ run = "running" /\ run' = "loop" /\ phase' = "Running"
  /\ UNCHANGED <<mode, acceptSealed, closing, sealsLeft, mainSet, bound, failed, postVars,
                 ownerVars, where,
                 roomVars, stop, stopper, pc, acceptWoken>>

\* The control loop hands on a stop that could not be posted.
LoopStop ==
  /\ run = "loop" /\ mainSet /\ stop.requested /\ PostStop
  /\ UNCHANGED <<mode, runVars, mainSet, bound, failed, resumePending, ownerVars, where,
                 roomVars, stopper, pc, acceptWoken>>

LeaveLoop ==
  /\ run = "loop" /\ (closing \/ failed)
  /\ run' = "shut" /\ phase' = "Closing" /\ acceptSealed' = TRUE
  /\ UNCHANGED <<mode, closing, sealsLeft, mainSet, bound, failed, postVars, ownerVars, where,
                 roomVars,
                 stop, stopper, pc, acceptWoken>>

\* SealService, then the seal is posted to every owner unless a driver failed.
SealAll ==
  /\ run = "shut" /\ ShutHandoff
  /\ IF failed THEN run' = "unbind" /\ UNCHANGED <<sealsLeft, tasks>>
     ELSE /\ run' = "await" /\ sealsLeft' = {"sub"} \cup (IF mainSet THEN {"main"} ELSE {})
          /\ tasks' = IF mainSet THEN Append(tasks, "seal") ELSE tasks
  /\ UNCHANGED <<mode, phase, acceptSealed, closing, mainSet, bound, failed, resumePending,
                 ownerVars, stop, stopper, pc>>

AwaitSeals ==
  /\ run = "await" /\ (sealsLeft = {} \/ failed) /\ run' = "unbind"
  /\ UNCHANGED <<mode, phase, acceptSealed, closing, sealsLeft, mainSet, bound, failed, postVars,
                 ownerVars, where,
                 roomVars, stop, stopper, pc, acceptWoken>>

DriverFails ==
  /\ bound /\ ~failed /\ SubFree /\ failed' = TRUE
  /\ UNCHANGED <<mode, runVars, mainSet, bound, postVars, ownerVars, where, roomVars, stop,
                 stopper, pc, acceptWoken>>

\* abort_install and the close-out alike: unbound, then every descriptor of the owners closed.
Unbind ==
  /\ run \in {"abort", "unbind"} /\ At("hand") \cup At("commit") = {} /\ installed # "open"
  /\ bound' = FALSE /\ tasks' = <<>> /\ run' = "finalize"
  /\ UNCHANGED <<mode, phase, acceptSealed, closing, sealsLeft, mainSet, failed, resumePending,
                 ownerVars, where,
                 roomVars, stop, stopper, pc, acceptWoken>>

FinalizeEngine ==
  /\ run = "finalize" /\ run' = "confirm" /\ mainShut' = TRUE /\ subShut' = TRUE
  /\ listener' = (IF listener = "open" THEN "closed" ELSE listener)
  /\ where' = [p \in Peer |-> IF where[p] \in {"task", "handoff", "held"} THEN "closed" ELSE where[p]]
  /\ UNCHANGED <<mode, phase, acceptSealed, closing, sealsLeft, mainSet, bound, failed, postVars,
                 armed, installed,
                 roomVars, stop, stopper, pc, acceptWoken>>

Confirm ==
  /\ run = "confirm" /\ run' = "clear" /\ stop' = [stop EXCEPT !.done = @ \/ stop.requested]
  /\ UNCHANGED <<mode, phase, acceptSealed, closing, sealsLeft, mainSet, bound, failed, postVars,
                 ownerVars, where,
                 roomVars, stopper, pc, acceptWoken>>

Clear ==
  /\ run = "clear" /\ run' = "ended" /\ mainSet' = FALSE /\ phase' = "Stopped"
  /\ UNCHANGED <<mode, acceptSealed, closing, sealsLeft, bound, failed, postVars, ownerVars,
                 where, roomVars,
                 stop, stopper, pc, acceptWoken>>

MainOwner == Install \/ InstallEnds \/ ArmTask \/ AcceptFails \/ AcceptAgain
             \/ (\E p \in Peer : Accept(p)) \/ StopTask \/ SealMain

SubOwner == SealSub \/ \E p \in Peer : AdoptAccepted(p) \/ Authorise(p) \/ Commit(p)

CoAccept == \E r \in Receiver : Enter(r) \/ Look(r) \/ Park(r) \/ Unpark(r)

StopThread == LatchStop \/ ShutByStop \/ FindMain \/ PostByStopper

Run == RunBegins \/ Prepare \/ AwaitInstall \/ ClientStops \/ Publish \/ LoopStop
       \/ LeaveLoop \/ SealAll \/ AwaitSeals \/ Unbind \/ FinalizeEngine \/ Confirm \/ Clear

AcceptNext == MainOwner \/ SubOwner \/ CoAccept \/ StopThread \/ RequestCloseEngine \/ Run \/ DriverFails

AcceptSpec == AcceptInit /\ [][AcceptNext]_acceptVars

(***************************************************************************)
(* Properties                                                              *)
(***************************************************************************)

InFlight == At("task") \cup At("hand") \cup At("commit")

\* While the handoff is open, each counted place belongs to one armed accept or one connection
\* on its way, and queued and counted together stay within the capacity (TryReserveHandoff,
\* ReleaseHandoffReservation, CommitHandoff).
HandoffExact ==
  mode = "handoff" /\ ~handoffClosed /\ bound =>
    /\ reserved = Cardinality(InFlight) + IF armed THEN 1 ELSE 0
    /\ reserved + Cardinality(At("handoff")) <= Capacity

\* With a handoff, a listener that has room and is not stopped is armed, or something under
\* way will arm it: a posted handler, or a connection that is being adopted; and a receiver
\* parked unwoken has nothing to take and no stop to see.
AcceptanceKept ==
  /\ mode = "handoff" /\ installed = "ok" /\ bound /\ ~failed /\ ~Stopping /\ Room =>
       armed \/ InFlight # {} \/ \E i \in 1..Len(tasks) : tasks[i] \in {"arm", "resume"}
  /\ \A r \in Receiver : pc[r] = "parked" /\ r \notin acceptWoken =>
       /\ At("handoff") = {}
       /\ stopper \notin {"find", "post", "done"}

\* AcceptingStopped says no listener of this generation is open, and none opens after; once
\* the request has closed the handoff, no accepted connection is handed over any more
\* (StopAcceptingOnOwner, MarkAcceptStopDone).
StopTrue ==
  /\ stop.requested /\ stop.done => listener # "open" /\ installed # "open"
  /\ stopper \in {"find", "post", "done"} => At("handoff") = {}

\* Accepting neither falls asleep while it should go on nor goes on after it was stopped.
AcceptanceExact == AcceptanceKept /\ StopTrue

\* When Run has ended and the request has returned, the stop is confirmed: the close-out of the
\* installation or of the unbinding confirms what the request could not.
StopConfirmed == run = "ended" /\ stopper = "done" => stop.done

\* AcceptingStopped is true only when the handoff is sealed too (Engine.hpp on
\* RequestStopAccepting and AcceptingStopped).
StopAfterHandoff == mode = "handoff" /\ stop.requested /\ stop.done => handoffClosed
=============================================================================
