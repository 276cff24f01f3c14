----------------------------- MODULE ReceiveRing -----------------------------
(***************************************************************************)
(* The read side of one TCP connection: the owner that receives bytes from *)
(* the kernel and publishes them, and the readers (coroutines in Read, any *)
(* thread in TryRead, holders of a ReadAccess guard) that take them.       *)
(*                                                                         *)
(* m_mutex is only ever tried, by the owner and by the readers alike: an   *)
(* actor that finds it taken backs off with Busy.  Taking it, the work     *)
(* under it and the notifications after it are therefore separate steps.   *)
(*                                                                         *)
(* A byte is its position in the stream the peer sends.  Allocation        *)
(* failures are left out, and the generation counter is kept as what the   *)
(* readers ask of it: whether it moved since they sampled it.              *)
(***************************************************************************)
EXTENDS Naturals, Sequences, FiniteSets

CONSTANTS
  Reader,        \* coroutines and threads that read
  Owner,         \* the thread of the connection's reactor
  Nobody,
  Call,          \* the reading calls they make: "read", "try", "guard"
  MaxInbound,    \* max_inbound_bytes
  Chunk,         \* kReadChunk
  ReadBudget,    \* kReadBudget
  MaxWaiters,    \* WakeHub::kMaxWaiters
  StreamLen      \* bound of the model: bytes the peer sends

ASSUME RingConstants ==
  /\ Call \subseteq {"read", "try", "guard"}
  /\ Owner \notin Reader /\ Nobody \notin Reader \cup {Owner}
  /\ MaxInbound \in Nat \ {0} /\ Chunk \in Nat \ {0}
  /\ ReadBudget \in Nat \ {0} /\ MaxWaiters \in Nat /\ StreamLen \in Nat

VARIABLES
  holder,      \* who has m_mutex
  ring,        \* m_ring
  pending,     \* m_pending: published by AppendDeferred, not merged yet
  detached,    \* m_detached: staged by the close, not merged yet
  eof, error, closed,   \* m_eof, m_error, m_closed
  rawRetry,    \* m_raw_retry
  moved,       \* readers since whose sample m_access_generation moved
  dataHub, releaseHub,  \* readers registered in m_data_hub, m_release_hub
  woken,       \* readers whose waiter was notified
  read,        \* the call every reader is in
  taken,       \* history: bytes handed to the readers, in order
  dirty,       \* this connection is in its reactor's dirty list
  closeRequested,       \* ConnectionState::CloseRequested()
  opc,         \* where the owner is
  fromPump,    \* DoReadsOwner was called by PumpOwner, not by the wait
  buf,         \* the unpublished bytes of m_recv_buf
  held,        \* m_recv_hold # 0: buf waits for the next DoReadsOwner
  again,       \* buf being submitted is an earlier hold
  round,       \* i of the loop of DoReadsOwner
  granted,     \* want, then granted, of one round
  paused, stopped, waiting, \* m_read_paused, m_read_stopped, m_read_waiting
  ownerClosed, \* m_closed of the ConnCore
  received,    \* bytes recv returned so far
  fin          \* how the peer ended the stream, if the end can be read

dataVars  == <<ring, pending, detached>>
endVars   == <<eof, error, closed>>
hubVars   == <<moved, dataHub, releaseHub, woken>>
pumpVars  == <<fromPump, buf, held, again, round, granted>>
flagVars  == <<paused, stopped, waiting, ownerClosed>>
ownVars   == <<opc, pumpVars, flagVars>>
netVars   == <<received, fin>>
vars == <<holder, dataVars, endVars, rawRetry, hubVars, read, taken, dirty,
          closeRequested, ownVars, netVars>>

Least(m, n) == IF m < n THEN m ELSE n

\* Size(): ring, pending and detached together.
Size == Len(ring) + Len(pending) + Len(detached)

\* Slip: a quarter instead of a half.
ReadLowWaterQuarter == MaxInbound \div 4
ReadLowWater == MaxInbound \div 2

NoCall == [op |-> "none", pc |-> "idle", res |-> "none"]

Init ==
  /\ holder = Nobody
  /\ ring = <<>> /\ pending = <<>> /\ detached = <<>>
  /\ eof = FALSE /\ error = FALSE /\ closed = FALSE
  /\ rawRetry = FALSE
  /\ moved = {} /\ dataHub = {} /\ releaseHub = {} /\ woken = {}
  /\ read = [c \in Reader |-> NoCall]
  /\ taken = <<>>
  /\ dirty = TRUE                       \* StartOwner ends in PumpOwner
  /\ closeRequested = FALSE
  /\ opc = "idle" /\ fromPump = FALSE /\ buf = <<>> /\ held = FALSE
  /\ again = FALSE /\ round = 0 /\ granted = 0
  /\ paused = FALSE /\ stopped = FALSE /\ waiting = FALSE /\ ownerClosed = FALSE
  /\ received = 0 /\ fin = "open"

(***************************************************************************)
(* Notifications.                                                          *)
(***************************************************************************)
\* NotifyRelease: the generation moves, then the hub is told.  One step: a
\* reader that registers in between compares generations afterwards.
Sampled == { c \in Reader : /\ read[c].op = "read"
                            /\ read[c].pc \in {"try", "busy", "add", "added", "parked"}
                            /\ read[c].res \in {"none", "busy"} }
NotifyRelease == moved' = moved \cup Sampled /\ woken' = woken \cup releaseHub

\* NotifyDataChanged: the data hub and the owner.
WakeOwnerOnly == dirty' = TRUE
NotifyDataChanged == woken' = woken \cup dataHub /\ WakeOwnerOnly

-----------------------------------------------------------------------------
(***************************************************************************)
(* Readers.  op is "read" for CoTcpConnection::Read, "try" for TryRead and *)
(* "guard" for TryAccess with the guard it returns.                        *)
(***************************************************************************)
Goes(c, pc) ==
  read' = [read EXCEPT ![c] = IF pc = "idle" THEN NoCall ELSE [@ EXCEPT !.pc = pc]]
Ends(c, pc, res) == read' = [read EXCEPT ![c].pc = pc, ![c].res = res]

readerRest == <<dirty, closeRequested, ownVars, netVars>>

\* Read samples the generation before the attempt that may turn out Busy.
Start(c, op) ==
  /\ read[c].pc = "idle"
  /\ read' = [read EXCEPT ![c] = [op |-> op, pc |-> "try", res |-> "none"]]
  /\ moved' = moved \ {c}
  /\ UNCHANGED <<holder, dataVars, endVars, rawRetry, dataHub, releaseHub, woken,
                 taken, readerRest>>

TryBusy(c) ==
  /\ read[c].pc = "try" /\ holder # Nobody
  /\ Goes(c, IF read[c].op = "guard" THEN "idle" ELSE "busy")
  /\ UNCHANGED <<holder, dataVars, endVars, rawRetry, hubVars, taken, readerRest>>

\* RequestRawRetry comes after the failed attempt; Read goes on to wait.
RequestRawRetry(c) ==
  /\ read[c].pc = "busy"
  /\ rawRetry' = TRUE
  /\ IF read[c].op = "read" THEN Ends(c, "add", "busy") ELSE Goes(c, "idle")
  /\ UNCHANGED <<holder, dataVars, endVars, hubVars, taken, readerRest>>

TryLock(c) ==
  /\ read[c].pc = "try" /\ holder = Nobody
  /\ holder' = c
  /\ moved' = moved \ {c}
  /\ Goes(c, "locked")
  /\ UNCHANGED <<dataVars, endVars, rawRetry, dataHub, releaseHub, woken, taken,
                 readerRest>>

\* What FlushPendingLocked makes of the ring, and BuildTakeoutLocked of the
\* segments: ring, then pending, then detached.
Merged == ring \o pending \o detached

\* TryPopAll and TryRead take everything there is.
Take(c) ==
  /\ read[c].pc = "locked" /\ read[c].op # "guard" /\ Merged # <<>>
  /\ taken' = taken \o Merged
  /\ ring' = <<>> /\ pending' = <<>> /\ detached' = <<>>
  /\ holder' = Nobody
  /\ Ends(c, "release", "ok")
  /\ UNCHANGED <<endVars, rawRetry, hubVars, readerRest>>

\* Found empty: the terminal flags are looked at only after the sizes.
FindEmpty(c) ==
  /\ read[c].pc = "locked" /\ Merged = <<>>
  /\ Goes(c, "terminal")
  /\ UNCHANGED <<holder, dataVars, endVars, rawRetry, hubVars, taken, readerRest>>

TerminalLocked(c) ==
  /\ read[c].pc = "terminal"
  /\ holder' = Nobody
  /\ Ends(c, "release", IF error THEN "error"
                     ELSE IF eof \/ closed THEN "eof" ELSE "block")
  /\ UNCHANGED <<dataVars, endVars, rawRetry, hubVars, taken, readerRest>>

Release(c) ==
  /\ read[c].pc = "release"
  /\ NotifyRelease
  /\ Goes(c, IF read[c].res \in {"kept", "changed"} THEN "idle" ELSE "tell")
  /\ UNCHANGED <<holder, dataVars, endVars, rawRetry, dataHub, releaseHub, taken,
                 readerRest>>

\* Slip: freed capacity is not reported to the owner.
TellReadersOnly(c) ==
  /\ read[c].pc = "tell"
  /\ IF read[c].res \in {"ok", "changed"} THEN woken' = woken \cup dataHub
     ELSE UNCHANGED woken
  /\ Goes(c, IF read[c].res \in {"kept", "changed"} THEN "release"
             ELSE IF read[c].op = "read" /\ read[c].res = "block" THEN "add" ELSE "idle")
  /\ UNCHANGED <<holder, dataVars, endVars, rawRetry, moved, dataHub, releaseHub,
                 taken, dirty, closeRequested, ownVars, netVars>>

\* Taken bytes are a data change, anything else only lets the owner retry.
\* A guard does this before NotifyRelease (AfterProtectionRelease).
Tell(c) ==
  /\ read[c].pc = "tell"
  /\ IF read[c].res \in {"ok", "changed"} THEN NotifyDataChanged
     ELSE WakeOwnerOnly /\ UNCHANGED woken
  /\ Goes(c, IF read[c].res \in {"kept", "changed"} THEN "release"
             ELSE IF read[c].op = "read" /\ read[c].res = "block" THEN "add" ELSE "idle")
  /\ UNCHANGED <<holder, dataVars, endVars, rawRetry, moved, dataHub, releaseHub,
                 taken, closeRequested, ownVars, netVars>>

\* TryAccessAttempt: a guard merges and keeps the mutex.
Guard(c) ==
  /\ read[c].pc = "locked" /\ read[c].op = "guard" /\ Merged # <<>>
  /\ ring' = Merged /\ pending' = <<>> /\ detached' = <<>>
  /\ Ends(c, "guarding", "kept")
  /\ UNCHANGED <<holder, endVars, rawRetry, hubVars, taken, readerRest>>

\* ReadAccess::Consume, ConsumeInto.
Consume(c, n) ==
  /\ read[c].pc = "guarding" /\ n \in 1..Len(ring)
  /\ taken' = taken \o SubSeq(ring, 1, n)
  /\ ring' = SubSeq(ring, n + 1, Len(ring))
  /\ Ends(c, "guarding", "changed")
  /\ UNCHANGED <<holder, pending, detached, endVars, rawRetry, hubVars, readerRest>>

\* ReadAccess::Release.
Unguard(c) ==
  /\ read[c].pc = "guarding"
  /\ holder' = Nobody
  /\ Goes(c, "tell")
  /\ UNCHANGED <<dataVars, endVars, rawRetry, hubVars, taken, readerRest>>

(***************************************************************************)
(* Waiting: register, look again, sleep.                                   *)
(***************************************************************************)
Hub(c) == IF read[c].res = "busy" THEN releaseHub ELSE dataHub

\* Add; a full hub ends the call with no_buffer_space.
AddWaiter(c) ==
  /\ read[c].pc = "add"
  /\ IF Cardinality(Hub(c)) >= MaxWaiters
     THEN /\ Goes(c, "idle") /\ moved' = moved \ {c}
          /\ UNCHANGED <<dataHub, releaseHub, woken>>
     ELSE /\ Goes(c, "added") /\ UNCHANGED moved
          /\ woken' = woken \ {c}
          /\ IF read[c].res = "busy"
             THEN releaseHub' = releaseHub \cup {c} /\ UNCHANGED dataHub
             ELSE dataHub' = dataHub \cup {c} /\ UNCHANGED releaseHub
  /\ UNCHANGED <<holder, dataVars, endVars, rawRetry, taken, readerRest>>

Ready(c) ==
  IF read[c].res = "busy" THEN c \in moved
  ELSE Size > 0 \/ eof \/ error \/ closed

\* Slip: no second look after registering.
RecheckSkipped(c) ==
  /\ read[c].pc = "added"
  /\ Goes(c, "parked")
  /\ UNCHANGED <<holder, dataVars, endVars, rawRetry, hubVars, taken, readerRest>>

Recheck(c) ==
  /\ read[c].pc = "added"
  /\ woken' = IF Ready(c) THEN woken \cup {c} ELSE woken
  /\ Goes(c, "parked")
  /\ UNCHANGED <<holder, dataVars, endVars, rawRetry, moved, dataHub, releaseHub,
                 taken, readerRest>>

Leave(c) ==
  /\ dataHub' = dataHub \ {c} /\ releaseHub' = releaseHub \ {c}
  /\ woken' = woken \ {c} /\ moved' = moved \ {c}
  /\ UNCHANGED <<holder, dataVars, endVars, rawRetry, taken, readerRest>>

\* The next turn of the loop, with a new sample.
Resume(c) == read[c].pc = "parked" /\ c \in woken /\ Ends(c, "try", "none") /\ Leave(c)

\* A timeout or a cancellation ends the wait.
GiveUp(c) == read[c].pc = "parked" /\ Goes(c, "idle") /\ Leave(c)

-----------------------------------------------------------------------------
(***************************************************************************)
(* The owner.                                                              *)
(***************************************************************************)
Goto(pc) == opc' = pc
othersRest == <<rawRetry, read, taken, closeRequested>>
quiet == <<endVars, hubVars, dirty, othersRest, netVars>>

\* DoReadsOwner begins with the bytes held back, and with no recv before the
\* readers have merged what was deferred.
Submit == IF held THEN "append" ELSE "check"

\* ConnCore::PumpOwner as far as reading goes.
PumpOwner ==
  /\ opc = "idle" /\ dirty
  /\ dirty' = FALSE
  /\ fromPump' = ~ownerClosed
  /\ IF ownerClosed THEN UNCHANGED <<opc, paused>>
     ELSE IF closeRequested THEN Goto("stage") /\ UNCHANGED paused
     ELSE /\ paused' = (paused /\ ~(Size < ReadLowWater))
          /\ Goto(IF paused' \/ stopped THEN "retry" ELSE Submit)
  /\ again' = (opc' = "append")
  /\ UNCHANGED <<holder, dataVars, endVars, hubVars, othersRest, buf, held,
                 round, granted, stopped, waiting, ownerClosed, netVars>>

\* The handler of the armed wait.
ReadReady ==
  /\ opc = "idle" /\ waiting /\ (received < StreamLen \/ fin # "open")
  /\ waiting' = FALSE
  /\ fromPump' = FALSE
  /\ Goto(IF paused \/ stopped THEN "arm" ELSE Submit)
  /\ again' = (opc' = "append")
  /\ UNCHANGED <<holder, dataVars, quiet, buf, held, round, granted,
                 paused, stopped, ownerClosed>>

\* The wait itself fails.
ReadWaitFailed ==
  /\ opc = "idle" /\ waiting /\ fin = "reset"
  /\ waiting' = FALSE /\ stopped' = TRUE /\ fromPump' = FALSE
  /\ error' = TRUE
  /\ Goto("endData")
  /\ UNCHANGED <<holder, dataVars, eof, closed, hubVars, dirty, othersRest, netVars,
                 buf, held, again, round, granted, paused, ownerClosed>>

\* Slip: recv although older bytes are still pending.
CheckIgnoresPending ==
  /\ opc = "check"
  /\ round' = 0
  /\ Goto("round")
  /\ UNCHANGED <<holder, dataVars, quiet, fromPump, buf, held, again, granted, flagVars>>

CheckPending ==
  /\ opc = "check"
  /\ round' = 0
  /\ Goto(IF pending # <<>> THEN "arm" ELSE "round")
  /\ UNCHANGED <<holder, dataVars, quiet, fromPump, buf, held, again, granted, flagVars>>

Want ==
  LET available == IF MaxInbound > Size THEN MaxInbound - Size ELSE 0 IN
  /\ opc = "round"
  /\ granted' = IF round < ReadBudget THEN Least(Chunk, available) ELSE 0
  /\ paused' = (paused \/ (round < ReadBudget /\ available = 0))
  /\ Goto(IF round < ReadBudget /\ available # 0 THEN "reserve" ELSE "arm")
  /\ UNCHANGED <<holder, dataVars, quiet, fromPump, buf, held, again, round,
                 stopped, waiting, ownerClosed>>

\* TryReserveForAppend.
ReserveBusy ==
  /\ opc = "reserve" /\ holder # Nobody
  /\ Goto("arm")
  /\ UNCHANGED <<holder, dataVars, quiet, pumpVars, flagVars>>

ReserveLock ==
  /\ opc = "reserve" /\ holder = Nobody
  /\ holder' = Owner
  /\ Goto("reserving")
  /\ UNCHANGED <<dataVars, quiet, pumpVars, flagVars>>

\* Slip: room is granted that is not there.
ReserveOneMore ==
  /\ opc = "reserving"
  /\ granted' = granted + 1
  /\ holder' = Nobody
  /\ Goto("reserveRelease")
  /\ UNCHANGED <<dataVars, quiet, fromPump, buf, held, again, round, flagVars>>

Reserve ==
  /\ opc = "reserving"
  /\ granted' = Least(granted, MaxInbound - Size)
  /\ holder' = Nobody
  /\ Goto("reserveRelease")
  /\ UNCHANGED <<dataVars, quiet, fromPump, buf, held, again, round, flagVars>>

\* NotifyRelease of TryReserveForAppend and of TryAppend.
OwnerRelease ==
  /\ opc \in {"reserveRelease", "appendRelease"}
  /\ NotifyRelease
  /\ Goto(IF opc = "reserveRelease" THEN "recv" ELSE "appendData")
  /\ UNCHANGED <<holder, dataVars, endVars, dataHub, releaseHub, dirty,
                 othersRest, netVars, pumpVars, flagVars>>

Recv(n) ==
  /\ opc = "recv" /\ n <= granted /\ n <= StreamLen - received /\ fin = "open"
  /\ buf' = [i \in 1..n |-> received + i]
  /\ received' = received + n
  /\ granted' = 0
  /\ Goto("append")
  /\ UNCHANGED <<holder, dataVars, endVars, hubVars, dirty, othersRest, fin,
                 fromPump, held, again, round, flagVars>>

RecvAgain ==
  /\ opc = "recv" /\ fin = "open"
  /\ Goto("arm")
  /\ UNCHANGED <<holder, dataVars, quiet, pumpVars, flagVars>>

RecvInterrupted ==
  /\ opc = "recv"
  /\ round' = round + 1
  /\ Goto("round")
  /\ UNCHANGED <<holder, dataVars, quiet, fromPump, buf, held, again, granted, flagVars>>

\* recv returned 0 or an error: MarkEof, MarkError.
RecvEnd ==
  /\ opc = "recv" /\ fin # "open"
  /\ stopped' = TRUE
  /\ eof' = (fin = "eof") /\ error' = (fin = "reset")
  /\ Goto("endData")
  /\ UNCHANGED <<holder, dataVars, closed, hubVars, dirty, othersRest, netVars,
                 pumpVars, paused, waiting, ownerClosed>>

\* TryAppend, then AppendDeferred, then give up and hold the bytes back.
AppendBusy ==
  /\ opc = "append" /\ holder # Nobody
  /\ Goto("defer")
  /\ UNCHANGED <<holder, dataVars, quiet, pumpVars, flagVars>>

AppendLock ==
  /\ opc = "append" /\ holder = Nobody
  /\ holder' = Owner
  /\ Goto("appending")
  /\ UNCHANGED <<dataVars, quiet, pumpVars, flagVars>>

TryAppend ==
  /\ opc = "appending"
  /\ ring' = ring \o buf
  /\ buf' = <<>> /\ held' = FALSE
  /\ holder' = Nobody
  /\ Goto("appendRelease")
  /\ UNCHANGED <<pending, detached, quiet, fromPump, again, round, granted, flagVars>>

DeferBusy ==
  /\ opc = "defer" /\ holder # Nobody
  /\ held' = TRUE
  /\ Goto("arm")
  /\ UNCHANGED <<holder, dataVars, quiet, fromPump, buf, again, round, granted, flagVars>>

DeferLock ==
  /\ opc = "defer" /\ holder = Nobody
  /\ holder' = Owner
  /\ Goto("deferring")
  /\ UNCHANGED <<dataVars, quiet, pumpVars, flagVars>>

\* AppendDeferred unlocks and reports the data, nothing else.
AppendDeferred ==
  /\ opc = "deferring"
  /\ pending' = pending \o buf
  /\ buf' = <<>> /\ held' = FALSE
  /\ holder' = Nobody
  /\ Goto("appendData")
  /\ UNCHANGED <<ring, detached, quiet, fromPump, again, round, granted, flagVars>>

AppendData ==
  /\ opc = "appendData"
  /\ NotifyDataChanged
  /\ Goto("appended")
  /\ UNCHANGED <<holder, dataVars, endVars, moved, dataHub, releaseHub, othersRest,
                 netVars, pumpVars, flagVars>>

\* Back in DoReadsOwner.
Appended ==
  /\ opc = "appended"
  /\ round' = IF again THEN round ELSE round + 1
  /\ paused' = (paused \/ (~again /\ pending # <<>>))
  /\ Goto(IF again THEN "check" ELSE IF pending # <<>> THEN "arm" ELSE "round")
  /\ again' = FALSE
  /\ UNCHANGED <<holder, dataVars, quiet, fromPump, buf, held, granted,
                 stopped, waiting, ownerClosed>>

\* Slip: the data hub does not hear of the end.
EndDataOwnerOnly ==
  /\ opc \in {"endData", "closeData"}
  /\ WakeOwnerOnly
  /\ Goto(IF opc = "endData" THEN "endRelease" ELSE "closeRelease")
  /\ UNCHANGED <<holder, dataVars, endVars, hubVars, othersRest,
                 netVars, pumpVars, flagVars>>

\* MarkEof, MarkError and MarkClosed notify both hubs, data first.
EndData ==
  /\ opc \in {"endData", "closeData"}
  /\ NotifyDataChanged
  /\ Goto(IF opc = "endData" THEN "endRelease" ELSE "closeRelease")
  /\ UNCHANGED <<holder, dataVars, endVars, moved, dataHub, releaseHub, othersRest,
                 netVars, pumpVars, flagVars>>

EndRelease ==
  /\ opc \in {"endRelease", "closeRelease"}
  /\ NotifyRelease
  /\ Goto(IF opc = "endRelease" THEN "arm" ELSE "idle")
  /\ ownerClosed' = (opc = "closeRelease")
  /\ fromPump' = (fromPump /\ opc = "endRelease")
  /\ UNCHANGED <<holder, dataVars, endVars, dataHub, releaseHub, dirty, othersRest,
                 netVars, buf, held, again, round, granted, paused, stopped, waiting>>

\* ArmReadOwner, unless reading stopped; the handler of the wait also leaves a
\* paused connection unarmed.
Arm ==
  /\ opc = "arm"
  /\ waiting' = (waiting \/ (~stopped /\ (fromPump \/ ~paused)))
  /\ Goto(IF fromPump THEN "retry" ELSE "idle")
  /\ again' = FALSE /\ round' = 0 /\ granted' = 0
  /\ UNCHANGED <<holder, dataVars, quiet, fromPump, buf, held, paused, stopped,
                 ownerClosed>>

\* The end of PumpOwner: TakeRawRetry, and OnRead if there was one.
TakeRawRetry ==
  /\ opc = "retry"
  /\ rawRetry' = FALSE
  /\ fromPump' = FALSE
  /\ Goto("idle")
  /\ UNCHANGED <<holder, dataVars, endVars, hubVars, read, taken, dirty,
                 closeRequested, buf, held, again, round, granted, flagVars, netVars>>

(***************************************************************************)
(* Closing: ShutdownOwner stages the held bytes without m_mutex, closes    *)
(* the descriptor and publishes the end.                                   *)
(***************************************************************************)
RequestClose ==
  /\ ~closeRequested
  /\ closeRequested' = TRUE
  /\ WakeOwnerOnly
  /\ UNCHANGED <<holder, dataVars, endVars, rawRetry, hubVars, read, taken,
                 ownVars, netVars>>

StageHold ==
  /\ opc = "stage"
  /\ IF held THEN detached' = detached \o buf /\ buf' = <<>> /\ held' = FALSE
             ELSE UNCHANGED <<detached, buf, held>>
  /\ IF held THEN NotifyDataChanged ELSE UNCHANGED <<woken, dirty>>
  /\ waiting' = FALSE
  /\ Goto("markClosed")
  /\ UNCHANGED <<holder, ring, pending, endVars, moved, dataHub, releaseHub,
                 othersRest, netVars, fromPump, again, round, granted, paused,
                 stopped, ownerClosed>>

MarkClosed ==
  /\ opc = "markClosed"
  /\ closed' = TRUE
  /\ Goto("closeData")
  /\ UNCHANGED <<holder, dataVars, eof, error, hubVars, dirty, othersRest, netVars,
                 pumpVars, flagVars>>

\* The peer's end of stream or reset reaches the front of the socket's buffer.
\* What it sent before shows in what recv returns.
PeerEnd ==
  /\ fin = "open" /\ ~ownerClosed
  /\ fin' \in {"eof", "reset"}
  /\ UNCHANGED <<holder, dataVars, endVars, rawRetry, hubVars, read, taken, dirty,
                 closeRequested, ownVars, received>>

-----------------------------------------------------------------------------
ReaderStep(c) ==
  \/ TryBusy(c) \/ RequestRawRetry(c) \/ TryLock(c)
  \/ Take(c) \/ FindEmpty(c) \/ TerminalLocked(c)
  \/ Release(c) \/ Tell(c) \/ Guard(c) \/ Unguard(c)
  \/ AddWaiter(c) \/ Recheck(c) \/ Resume(c)

ReaderEvent(c) ==
  \/ \E op \in Call : Start(c, op)
  \/ \E n \in 1..MaxInbound : Consume(c, n)
  \/ GiveUp(c)

OwnerStep ==
  \/ CheckPending \/ Want
  \/ ReserveBusy \/ ReserveLock \/ Reserve \/ OwnerRelease
  \/ \E n \in 1..StreamLen : Recv(n)
  \/ RecvAgain \/ RecvInterrupted \/ RecvEnd
  \/ AppendBusy \/ AppendLock \/ TryAppend
  \/ DeferBusy \/ DeferLock \/ AppendDeferred
  \/ AppendData \/ Appended \/ EndData \/ EndRelease
  \/ Arm \/ TakeRawRetry \/ StageHold \/ MarkClosed

Next ==
  \/ \E c \in Reader : ReaderStep(c) \/ ReaderEvent(c)
  \/ PumpOwner \/ ReadReady \/ ReadWaitFailed \/ OwnerStep
  \/ RequestClose \/ PeerEnd

Spec == Init /\ [][Next]_vars

(***************************************************************************)
(* Readers that can run do run and guards are short; the owner finishes    *)
(* what it began, and every turn of its loop polls the descriptors and     *)
(* pumps the dirty list (SF, because each disables the other for a while). *)
(* Nobody is obliged to read, to close or to send.                         *)
(***************************************************************************)
Fairness ==
  /\ \A c \in Reader : WF_vars(ReaderStep(c))
  /\ WF_vars(OwnerStep)
  /\ SF_vars(PumpOwner)
  /\ SF_vars(ReadReady)

FairSpec == Spec /\ Fairness

-----------------------------------------------------------------------------
(***************************************************************************)
(* Properties.                                                             *)
(***************************************************************************)
Position == 1..StreamLen
Result == {"none", "ok", "eof", "error", "block", "busy", "kept", "changed"}
ReaderPc == {"idle", "try", "busy", "locked", "terminal", "guarding",
             "release", "tell", "add", "added", "parked"}
OwnerPc == {"idle", "check", "round", "reserve", "reserving",
            "reserveRelease", "recv", "append", "appending",
            "appendRelease", "appendData", "appended", "defer",
            "deferring", "endData", "endRelease", "arm", "retry",
            "stage", "markClosed", "closeData", "closeRelease"}

\* Type invariant of ReceiveRing, of the read half of ConnCore and of the calls
\* in progress; one round never asks the kernel for more than a chunk.
TypeOK ==
  /\ holder \in Reader \cup {Owner, Nobody}
  /\ ring \in Seq(Position) /\ pending \in Seq(Position) /\ detached \in Seq(Position)
  /\ buf \in Seq(Position) /\ taken \in Seq(Position)
  /\ eof \in BOOLEAN /\ error \in BOOLEAN /\ closed \in BOOLEAN
  /\ rawRetry \in BOOLEAN /\ dirty \in BOOLEAN /\ closeRequested \in BOOLEAN
  /\ fromPump \in BOOLEAN /\ held \in BOOLEAN /\ again \in BOOLEAN
  /\ paused \in BOOLEAN /\ stopped \in BOOLEAN /\ waiting \in BOOLEAN
  /\ ownerClosed \in BOOLEAN
  /\ moved \subseteq Reader /\ woken \subseteq Reader
  /\ dataHub \subseteq Reader /\ releaseHub \subseteq Reader
  /\ read \in [Reader -> [op : Call \cup {"none"},
                          pc : ReaderPc, res : Result]]
  /\ opc \in OwnerPc /\ round \in 0..ReadBudget /\ granted \in 0..Chunk
  /\ received \in 0..StreamLen
  /\ fin \in {"open", "eof", "reset"}

\* No byte is lost, duplicated or reordered on its way from recv to the
\* readers: what they took, followed by ring, pending, detached and the bytes
\* still in m_recv_buf, is the stream received so far.
StreamIntact ==
  taken \o ring \o pending \o detached \o buf = [i \in 1..received |-> i]

\* All the bytes received and not taken stay within max_inbound_bytes, also
\* those deferred, staged or held back after a Busy; so TryAppend after a
\* grant never meets a full ring.
InboundBounded == TypeOK /\ Size + Len(buf) <= MaxInbound

\* The inbound bytes are at every moment the stream, whole and within the limit.
InboundExact == StreamIntact /\ InboundBounded

\* No lost wakeup: a sleeping reader whose condition holds was notified, or the
\* notification is still to come.
DataNotifyComing ==
  opc \in {"appendRelease", "appendData", "endData", "closeData"}
ReleaseNotifyComing ==
  \/ opc \in {"reserveRelease", "appendRelease", "endRelease", "closeRelease"}
  \/ \E c \in Reader : read[c].pc = "release"
NoLostWakeup ==
  \A c \in Reader : read[c].pc = "parked" /\ Ready(c) /\ c \notin woken =>
    IF read[c].res = "busy" THEN ReleaseNotifyComing ELSE DataNotifyComing

\* The owner does not go deaf: idle, with no armed wait and not in the dirty
\* list, it is paused, and either the ring is above the low-water mark or a
\* reader that made room is about to say so.
TellComing(c) ==
  /\ read[c].pc \in {"guarding", "tell", "release"}
  /\ read[c].res \in {"ok", "changed"}
ReadNeverStranded ==
  opc = "idle" /\ ~stopped /\ ~ownerClosed /\ ~waiting /\ ~dirty =>
    paused /\ (Size >= ReadLowWater \/ \E c \in Reader : TellComing(c))

\* Neither side sleeps for ever: no reader that could read, no owner that should.
NobodyStranded == NoLostWakeup /\ ReadNeverStranded

\* A pause ends once the readers have drained everything ("ring full: resumed
\* by the data notification after consumption", DoReadsOwner).  It needs a
\* max_inbound_bytes of 2 or more: half of 1 is 0, below which no size falls.
ResumesWhenDrained ==
  ~<>[](paused /\ Size = 0 /\ ~stopped /\ ~closeRequested)

\* A close lets every reader go, whatever it was waiting for.
CloseReleasesReaders ==
  \A c \in Reader : ~<>[](closeRequested /\ read[c].pc = "parked")

\* ReceiveRing.hpp: a Busy waiter is notified when the protection it met is
\* released.
BusyReaderServed ==
  \A c \in Reader :
    ~<>[](read[c].pc = "parked" /\ read[c].res = "busy" /\ holder = Nobody)

\* ReceiveRing.hpp (TryPopAll): Eof only after the tail was handed out.
EofMeansDrained ==
  \A c \in Reader : read[c].pc = "release" /\ read[c].res = "eof" => Merged = <<>>
=============================================================================
