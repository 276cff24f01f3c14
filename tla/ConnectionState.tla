--------------------------- MODULE ConnectionState ---------------------------
(***************************************************************************)
(* The write side of one TCP connection: coroutines and plain threads that *)
(* hand in writes, wait for capacity, for the end of their write or for    *)
(* the end of the connection, and the one owner that sends, attributes the *)
(* sent bytes to the writes, reports their end and finally closes.         *)
(*                                                                         *)
(* m_write_mutex is held by the owner over all the rounds of PumpWrites    *)
(* and over the loops that settle writes; there every write record is      *)
(* changed under its own mutex, so a waiter may look at records in between.*)
(* Those sections are sequences of steps (opc in Locked).  Every other     *)
(* critical section is one step, enabled while the mutex is free.          *)
(*                                                                         *)
(* A byte in the send queue is the id of the write it belongs to.          *)
(***************************************************************************)
EXTENDS Naturals, Sequences, FiniteSets

CONSTANTS
  Caller,        \* coroutines and threads using the connection
  Sizes,         \* sizes of the writes they hand in
  Reason,        \* reasons given to RequestClose
  NoError,       \* the empty std::error_code
  Canceled,      \* std::errc::operation_canceled
  IoError,       \* an errno of the socket
  NoByte,
  MaxOps,        \* m_max_ops
  OutboundMax,   \* m_outbound_max
  RingCap,       \* 64 * 1024, the cap of the queue's ring
  MaxMerged,     \* OutboundQueue::kMaxMergedSegmentBytes
  MaxViews,      \* kMaxViews
  MaxWaiters,    \* WakeHub::kMaxWaiters
  WriteRounds,   \* kWriteRounds
  ByteBudget,    \* kWriteByteBudget
  MaxWrites      \* bound of the model: accepted writes in a behaviour

ASSUME StateConstants ==
  /\ MaxOps \in Nat /\ OutboundMax \in Nat /\ RingCap \in Nat \ {0} /\ MaxMerged \in Nat
  /\ MaxViews \in Nat /\ MaxWaiters \in Nat
  /\ WriteRounds \in Nat /\ ByteBudget \in Nat /\ MaxWrites \in Nat
  /\ Sizes \subseteq Nat
  /\ NoError \notin {Canceled, IoError}
  /\ NoByte \notin Nat

VARIABLES
  ops,            \* m_ops: ids of the writes not finished, oldest first
  pending,        \* m_pending_terminal: finished, OnWrite not called yet
  queue,          \* m_queue
  rec,            \* the WriteOpRecord of every id
  nextOp,         \* m_next_op
  acceptance,     \* m_acceptance
  closeRequested, \* m_close_requested
  closeReason,    \* m_close_reason
  readClosed,     \* m_read_closed_published
  sealed,         \* *m_service_sealed
  dirty,          \* this connection is in its reactor's dirty list
  opc,            \* where the owner is
  pump,           \* the locals of PumpWrites
  shutReason,     \* the argument of ShutdownOwner
  writeWaiting,   \* m_write_waiting: an async_wait for writability is armed
  ringClosed,     \* m_ring_closed
  control,        \* the connection is ended by CancelControl
  ownerClosed,    \* m_closed (and the owner_released record)
  delivered,      \* history: completions given to OnWrite, in order
  onClose,        \* history: reasons given to OnClose
  call,           \* the call every caller is in
  writeHub,       \* m_write_hub: callers whose waiter is registered
  closeHub,       \* m_close_hub
  woken           \* callers whose waiter was notified

stateVars  == <<ops, pending, queue, rec, nextOp>>
closeVars  == <<acceptance, closeRequested, closeReason, readClosed>>
ownerVars  == <<opc, pump, shutReason, writeWaiting, ringClosed, control,
                ownerClosed, delivered, onClose>>
hubVars    == <<writeHub, closeHub, woken>>
vars == <<stateVars, closeVars, sealed, dirty, ownerVars, call, hubVars>>

OpId == 1..MaxWrites
Error == Reason \cup {NoError, Canceled, IoError}

Smaller(m, n) == IF m < n THEN m ELSE n

Q == INSTANCE OutboundQueue WITH
       Byte <- OpId, RingBytes <- Smaller(OutboundMax, RingCap),
       MaxTotalBytes <- OutboundMax, MaxSegments <- MaxOps

(***************************************************************************)
(* Records, the completion buffer and the hubs.                            *)
(***************************************************************************)
Record(n, t) ==
  [total |-> n, terminal |-> t, sent |-> 0, remaining |-> n, error |-> NoError]

Completion(id, error) == [id |-> id, sent |-> rec[id].sent, error |-> error]

\* m_pending_terminal is a boost::circular_buffer: pushing onto a full one
\* silently overwrites the oldest completion.
PendingCapacity == IF MaxOps = 0 THEN 1 ELSE MaxOps

PushPending(item) ==
  pending' = Append(IF Len(pending) < PendingCapacity THEN pending ELSE Tail(pending),
                    item)

\* WakeHub::NotifyAll: every registered waiter becomes runnable.
NotifyWriteHub == woken' = woken \cup writeHub

\* Reactor::MarkDirty seen from one connection.
WakeOwner == dirty' = (dirty \/ ~sealed)

\* The owner holds m_write_mutex here.
Locked == {"round", "attribute", "fail", "settle"}
Free == opc \notin Locked

\* Between calls; a call has its place (pc), its data.size() (want), what it
\* waits for ("none" for AsyncWrite) and the id of its write.
NoCall == [pc |-> "idle", want |-> 0, wait |-> "none", op |-> 0]

NoPump == [round |-> 0, bytes |-> 0, left |-> 0,
           wait |-> FALSE, changed |-> FALSE, freed |-> FALSE]

Init ==
  /\ ops = <<>> /\ pending = <<>> /\ nextOp = 1
  /\ Q!QueueInit
  /\ rec = [id \in OpId |-> Record(0, FALSE)]
  /\ acceptance = "Open" /\ closeRequested = FALSE /\ closeReason = NoError
  /\ readClosed = FALSE /\ sealed = FALSE /\ dirty = FALSE
  /\ opc = "idle" /\ shutReason = NoError
  /\ pump = NoPump
  /\ writeWaiting = FALSE /\ ringClosed = FALSE /\ control = FALSE
  /\ ownerClosed = FALSE /\ delivered = <<>> /\ onClose = <<>>
  /\ call = [c \in Caller |-> NoCall]
  /\ writeHub = {} /\ closeHub = {} /\ woken = {}

-----------------------------------------------------------------------------
(***************************************************************************)
(* Callers.                                                                *)
(***************************************************************************)

\* The bound on accepted writes leaves room for every write on its way.
Writing == {c \in Caller : call[c].pc # "idle" /\ call[c].wait # "close" /\ call[c].op = 0}

\* Entry of Connection::AsyncWrite (k = "none"), CoTcpConnection::Write
\* (k = "capacity") and CoTcpConnection::WaitClosed (k = "close").
Call(c, k, n) ==
  /\ call[c].pc = "idle"
  /\ k = "close" \/ nextOp + Cardinality(Writing) <= MaxWrites
  /\ call' = [call EXCEPT ![c] = [pc |-> IF k = "close" THEN "check" ELSE "seal",
                                  want |-> n, wait |-> k, op |-> 0]]
  /\ UNCHANGED <<stateVars, closeVars, sealed, dirty, ownerVars, hubVars>>

Return(c) == call' = [call EXCEPT ![c] = NoCall]
GoOn(c, l) == call' = [call EXCEPT ![c].pc = l]

\* AcceptWrite looks at the service seal before it takes the mutex.
CheckSeal(c) ==
  /\ call[c].pc = "seal"
  /\ IF sealed THEN Return(c) ELSE GoOn(c, "accept")
  /\ UNCHANGED <<stateVars, closeVars, sealed, dirty, ownerVars, hubVars>>

\* Slips: undelivered completions do not count; the limit is off by one.
OpsFullActiveOnly == Len(ops) >= MaxOps
OpsFullOneMore == Len(ops) + Len(pending) > MaxOps

OpsFull == Len(ops) + Len(pending) >= MaxOps
BytesFull(n) == n > OutboundMax - Q!TotalBytes

\* AcceptWrite under the mutex, refused for ever.
AcceptClosed(c) ==
  /\ call[c].pc = "accept" /\ Free
  /\ closeRequested \/ acceptance = "Closed"
  /\ Return(c)
  /\ UNCHANGED <<stateVars, closeVars, sealed, dirty, ownerVars, hubVars>>

MayAccept(c) ==
  /\ call[c].pc = "accept" /\ Free
  /\ ~closeRequested /\ acceptance # "Closed"

\* AcceptWrite refused for now (WriteSettling or no_buffer_space): AsyncWrite
\* returns the error, Write goes on to wait for capacity.
AcceptRefused(c) ==
  /\ MayAccept(c)
  /\ acceptance = "Settling" \/ OpsFull \/ (call[c].want # 0 /\ BytesFull(call[c].want))
  /\ IF call[c].wait = "capacity" THEN GoOn(c, "check") ELSE Return(c)
  /\ UNCHANGED <<stateVars, closeVars, sealed, dirty, ownerVars, hubVars>>

TakeId ==
  /\ nextOp <= MaxWrites
  /\ nextOp' = nextOp + 1

\* A zero-length write is finished at once, but its OnWrite is owed.
AcceptEmpty(c) ==
  /\ MayAccept(c)
  /\ acceptance = "Open" /\ ~OpsFull /\ call[c].want = 0
  /\ TakeId
  /\ rec' = [rec EXCEPT ![nextOp] = Record(0, TRUE)]
  /\ PushPending([id |-> nextOp, sent |-> 0, error |-> NoError])
  /\ call' = [call EXCEPT ![c].pc = "wake", ![c].op = nextOp]
  /\ UNCHANGED <<ops, queue, closeVars, sealed, dirty, ownerVars, hubVars>>

\* The record enters m_ops first and leaves it again if the queue refuses the
\* bytes; the id is used up either way.
Accept(c) ==
  LET data == [i \in 1..call[c].want |-> nextOp]
      ok   == Q!AppendAccepted(data)
  IN
  /\ MayAccept(c)
  /\ acceptance = "Open" /\ ~OpsFull /\ call[c].want # 0 /\ ~BytesFull(call[c].want)
  /\ TakeId
  /\ IF ok
     THEN /\ rec' = [rec EXCEPT ![nextOp] = Record(call[c].want, FALSE)]
          /\ ops' = Append(ops, nextOp)
          /\ queue' = Q!QueueAppended(queue, data)
          /\ call' = [call EXCEPT ![c].pc = "wake", ![c].op = nextOp]
     ELSE Return(c) /\ UNCHANGED <<rec, ops, queue>>
  /\ UNCHANGED <<pending, closeVars, sealed, dirty, ownerVars, hubVars>>

\* After the mutex: a finished (zero-length) write notifies, every accepted
\* write wakes the owner.  Write goes on to WriteOperation::Wait.
Accepted(c) ==
  /\ call[c].pc = "wake"
  /\ IF call[c].op # 0 /\ call[c].want = 0 THEN NotifyWriteHub ELSE UNCHANGED woken
  /\ WakeOwner
  /\ IF call[c].wait = "capacity"
     THEN call' = [call EXCEPT ![c].pc = "check", ![c].wait = "op"]
     ELSE Return(c)
  /\ UNCHANGED <<stateVars, closeVars, sealed, ownerVars, writeHub, closeHub>>

\* Slip: a later request replaces the reason.
RequestCloseLast(c, reason) ==
  /\ call[c].pc = "idle" /\ Free
  /\ ~readClosed
  /\ closeRequested' = TRUE /\ closeReason' = reason
  /\ acceptance' = IF acceptance = "Open" THEN "Settling" ELSE acceptance
  /\ GoOn(c, "wake")
  /\ UNCHANGED <<stateVars, readClosed, sealed, dirty, ownerVars, hubVars>>

\* Any thread; only the first request fixes the reason.
RequestClose(c, reason) ==
  /\ call[c].pc = "idle" /\ Free
  /\ ~readClosed
  /\ closeRequested' = TRUE
  /\ closeReason' = IF closeRequested THEN closeReason ELSE reason
  /\ acceptance' = IF acceptance = "Open" THEN "Settling" ELSE acceptance
  /\ GoOn(c, "wake")
  /\ UNCHANGED <<stateVars, readClosed, sealed, dirty, ownerVars, hubVars>>

(***************************************************************************)
(* Waiting: test, register in the hub, test again, sleep.                  *)
(***************************************************************************)
Hub(c) == IF call[c].wait = "close" THEN closeHub ELSE writeHub

CanAcceptWrite(n) ==
  /\ ~sealed /\ ~closeRequested /\ acceptance = "Open"
  /\ ~OpsFull /\ ~BytesFull(n)

\* What the waiter waits for, as its on_registered callback tests it.
Ready(c) ==
  CASE call[c].wait = "op"       -> rec[call[c].op].terminal
    [] call[c].wait = "capacity" -> CanAcceptWrite(call[c].want) \/ acceptance = "Closed"
    [] OTHER                -> acceptance = "Closed"

\* The call ends without waiting: an oversized write, a closed connection, a
\* finished write.
Finished(c) ==
  CASE call[c].wait = "op"       -> rec[call[c].op].terminal
    [] call[c].wait = "capacity" -> call[c].want > OutboundMax \/ acceptance = "Closed"
    [] OTHER                -> acceptance = "Closed"

\* Query takes only the record's mutex, the other tests take m_write_mutex.
MayTest(c) == call[c].wait = "op" \/ Free

WaitOver(c) ==
  /\ call[c].pc = "check" /\ MayTest(c) /\ Finished(c)
  /\ Return(c)
  /\ UNCHANGED <<stateVars, closeVars, sealed, dirty, ownerVars, hubVars>>

\* WaitWithCallback has registered the event; Add puts the waiter in the hub,
\* or ends the call with no_buffer_space when the hub is full.
Register(c) ==
  /\ call[c].pc = "check" /\ MayTest(c) /\ ~Finished(c)
  /\ IF Cardinality(Hub(c)) < MaxWaiters
     THEN /\ GoOn(c, "added")
          /\ IF call[c].wait = "close"
             THEN closeHub' = closeHub \cup {c} /\ UNCHANGED writeHub
             ELSE writeHub' = writeHub \cup {c} /\ UNCHANGED closeHub
     ELSE Return(c) /\ UNCHANGED <<writeHub, closeHub>>
  /\ UNCHANGED <<stateVars, closeVars, sealed, dirty, ownerVars, woken>>

\* Slip: sleep without the second test.
RecheckSkipped(c) ==
  /\ call[c].pc = "added" /\ MayTest(c)
  /\ GoOn(c, "parked")
  /\ UNCHANGED <<stateVars, closeVars, sealed, dirty, ownerVars, hubVars>>

\* The second test, after Add: a waiter that is ready notifies itself.
Recheck(c) ==
  /\ call[c].pc = "added" /\ MayTest(c)
  /\ woken' = IF Ready(c) THEN woken \cup {c} ELSE woken
  /\ GoOn(c, "parked")
  /\ UNCHANGED <<stateVars, closeVars, sealed, dirty, ownerVars, writeHub, closeHub>>

\* The waiter goes out of scope with the wait and leaves the hub.
LeaveHub(c) ==
  /\ writeHub' = writeHub \ {c}
  /\ closeHub' = closeHub \ {c}
  /\ woken' = woken \ {c}

Resume(c) ==
  /\ call[c].pc = "parked" /\ c \in woken
  /\ LeaveHub(c)
  /\ GoOn(c, IF call[c].wait = "capacity" THEN "seal" ELSE "check")
  /\ UNCHANGED <<stateVars, closeVars, sealed, dirty, ownerVars>>

\* A timeout or cancellation ends the wait, never the write.
GiveUp(c) ==
  /\ call[c].pc = "parked"
  /\ LeaveHub(c)
  /\ Return(c)
  /\ UNCHANGED <<stateVars, closeVars, sealed, dirty, ownerVars>>

-----------------------------------------------------------------------------
(***************************************************************************)
(* The owner: ConnCore::PumpOwner and the writability callback.            *)
(***************************************************************************)
Goto(l) == opc' = l

Shutdown(reason) == shutReason' = reason /\ Goto("shutdown")

StartPump ==
  /\ Goto("round")
  /\ pump' = NoPump

\* The reactor takes the connection off its dirty list and pumps it.
PumpOwner ==
  /\ opc = "idle" /\ dirty
  /\ dirty' = FALSE
  /\ \/ /\ ownerClosed
        /\ UNCHANGED <<opc, pump, shutReason>>
     \/ /\ ~ownerClosed /\ closeRequested
        /\ Shutdown(closeReason) /\ UNCHANGED pump
     \/ /\ ~ownerClosed /\ ~closeRequested /\ sealed
        /\ Shutdown(Canceled) /\ UNCHANGED pump
     \/ /\ ~ownerClosed /\ ~closeRequested /\ ~sealed
        /\ StartPump /\ UNCHANGED shutReason
  /\ UNCHANGED <<stateVars, closeVars, sealed, writeWaiting, ringClosed, control,
                 ownerClosed, delivered, onClose, call, hubVars>>

\* The armed async_wait completes: writable, or an error that closes.
WriteReady ==
  /\ opc = "idle" /\ writeWaiting
  /\ writeWaiting' = FALSE
  /\ \/ StartPump /\ UNCHANGED shutReason
     \/ Shutdown(IoError) /\ UNCHANGED pump
  /\ UNCHANGED <<stateVars, closeVars, sealed, dirty, ringClosed, control,
                 ownerClosed, delivered, onClose, call, hubVars>>

ownerRest == <<shutReason, writeWaiting, ringClosed, control, ownerClosed,
               delivered, onClose>>

MoreRounds ==
  pump.round < WriteRounds /\ pump.bytes < ByteBudget /\ Q!TotalBytes # 0

ViewBytes(views) ==
  LET sum[i \in 0..Len(views)] ==
        IF i = 0 THEN 0 ELSE sum[i - 1] + Len(views[i])
  IN  sum[Len(views)]

Allowed ==
  Smaller(ViewBytes(Q!GatherViews(MaxViews)), ByteBudget - pump.bytes)

\* One round: the kernel takes n bytes of the gathered views.
RoundSend(n) ==
  /\ opc = "round" /\ MoreRounds
  /\ queue' = Q!Consumed(queue, n)
  /\ pump' = [pump EXCEPT !.left = n, !.bytes = @ + n, !.freed = TRUE,
                          !.round = @ + 1]
  /\ Goto(IF ops = <<>> THEN "round" ELSE "attribute")
  /\ UNCHANGED <<ops, pending, rec, nextOp, closeVars, sealed, dirty,
                 ownerRest, call, hubVars>>

\* Slip: all the sent bytes are credited to the oldest write.
AttributeAllToFirst ==
  LET id == Head(ops) IN
  /\ opc = "attribute"
  /\ rec' = [rec EXCEPT ![id].remaining = @ - pump.left, ![id].sent = @ + pump.left]
  /\ pump' = [pump EXCEPT !.left = 0]
  /\ Goto("round")
  /\ UNCHANGED <<ops, pending, queue, nextOp, closeVars, sealed, dirty, ownerRest,
                 call, hubVars>>

\* AttributeSentLocked, one record at a time.
Attribute ==
  LET id   == Head(ops)
      take == Smaller(pump.left, rec[id].remaining)
      full == take = rec[id].remaining
  IN
  /\ opc = "attribute"
  /\ rec' = [rec EXCEPT ![id].remaining = @ - take,
                        ![id].sent = @ + take,
                        ![id].terminal = full]
  /\ pump' = [pump EXCEPT !.left = @ - take, !.changed = @ \/ full]
  /\ IF full
     THEN /\ PushPending([id |-> id, sent |-> rec[id].sent + take, error |-> NoError])
          /\ ops' = Tail(ops)
     ELSE UNCHANGED <<pending, ops>>
  /\ Goto(IF pump'.left # 0 /\ ops' # <<>> THEN "attribute" ELSE "round")
  /\ UNCHANGED <<queue, nextOp, closeVars, sealed, dirty,
                 ownerRest, call, hubVars>>

\* The end of the locked part: terminal_changed also covers completions that
\* were already pending.
UnlockPump(again) ==
  /\ pump' = [pump EXCEPT !.wait = again, !.changed = @ \/ pending # <<>>]
  /\ Goto("notify")

RoundAgain ==
  /\ opc = "round" /\ MoreRounds
  /\ UnlockPump(TRUE)
  /\ UNCHANGED <<stateVars, closeVars, sealed, dirty, ownerRest, call, hubVars>>

RoundInterrupted ==
  /\ opc = "round" /\ MoreRounds
  /\ pump' = [pump EXCEPT !.round = @ + 1]
  /\ UNCHANGED <<stateVars, opc, closeVars, sealed, dirty, ownerRest, call, hubVars>>

RoundsOver ==
  /\ opc = "round" /\ ~MoreRounds
  /\ UnlockPump(FALSE)
  /\ UNCHANGED <<stateVars, closeVars, sealed, dirty, ownerRest, call, hubVars>>

\* A send error: FailCurrentLocked settles every write with it.
RoundFail ==
  /\ opc = "round" /\ MoreRounds
  /\ IF ops = <<>>
     THEN /\ pump' = [pump EXCEPT !.changed = TRUE]
          /\ Goto("notify") /\ UNCHANGED acceptance
     ELSE /\ acceptance' = "Settling"
          /\ Goto("fail") /\ UNCHANGED pump
  /\ UNCHANGED <<ops, pending, queue, rec, nextOp, closeRequested, closeReason,
                 readClosed, sealed, dirty, ownerRest, call, hubVars>>

\* Slip: a failed write is dropped without its completion.
FailOneSilent ==
  LET id == Head(ops) IN
  /\ opc = "fail" /\ ops # <<>>
  /\ rec' = [rec EXCEPT ![id].terminal = TRUE, ![id].error = IoError,
                        ![id].remaining = 0]
  /\ ops' = Tail(ops)
  /\ UNCHANGED <<pending, opc, pump, queue, nextOp, closeVars, sealed, dirty,
                 ownerRest, call, hubVars>>

FailOne ==
  LET id == Head(ops) IN
  /\ opc = "fail" /\ ops # <<>>
  /\ rec' = [rec EXCEPT ![id].terminal = TRUE, ![id].error = IoError,
                        ![id].remaining = 0]
  /\ PushPending(Completion(id, IoError))
  /\ ops' = Tail(ops)
  /\ UNCHANGED <<opc, pump, queue, nextOp, closeVars, sealed, dirty, ownerRest,
                 call, hubVars>>

\* Slip: the bytes of the failed writes stay queued.
FailedKeepsBytes ==
  /\ opc = "fail" /\ ops = <<>>
  /\ acceptance' = IF closeRequested THEN acceptance
                   ELSE IF sealed THEN "Closed" ELSE "Open"
  /\ pump' = [pump EXCEPT !.changed = TRUE]
  /\ Goto("notify")
  /\ UNCHANGED <<ops, pending, queue, rec, nextOp, closeRequested, closeReason,
                 readClosed, sealed, dirty, ownerRest, call, hubVars>>

\* All settled: the rest of the queue is dropped and, unless the connection is
\* closing, the write side opens again.
Failed ==
  /\ opc = "fail" /\ ops = <<>>
  /\ queue' = Q!Consumed(queue, Q!TotalBytes)
  /\ acceptance' = IF closeRequested THEN acceptance
                   ELSE IF sealed THEN "Closed" ELSE "Open"
  /\ pump' = [pump EXCEPT !.changed = TRUE]
  /\ Goto("notify")
  /\ UNCHANGED <<ops, pending, rec, nextOp, closeRequested, closeReason,
                 readClosed, sealed, dirty, ownerRest, call, hubVars>>

\* After the mutex: the waiters for capacity and for completion share a hub.
PumpNotify ==
  /\ opc = "notify"
  /\ IF pump.changed \/ pump.freed THEN NotifyWriteHub ELSE UNCHANGED woken
  /\ IF pump.changed THEN WakeOwner ELSE UNCHANGED dirty
  /\ pump' = [NoPump EXCEPT !.wait = pump.wait]
  /\ Goto("deliver")
  /\ UNCHANGED <<stateVars, closeVars, sealed, ownerRest, call,
                 writeHub, closeHub>>

\* DeliverTerminalOwner: TryPopTerminal and OnWrite, one completion at a time.
Deliver ==
  /\ opc = "deliver" /\ pending # <<>>
  /\ pending' = Tail(pending)
  /\ delivered' = Append(delivered, Head(pending))
  /\ Goto("popped")
  /\ UNCHANGED <<ops, queue, rec, nextOp, closeVars, sealed, dirty, pump,
                 shutReason, writeWaiting, ringClosed, control, ownerClosed, onClose,
                 call, hubVars>>

\* Slip: nobody is told that a place is free.
PopSilently ==
  /\ opc = "popped"
  /\ Goto("deliver")
  /\ UNCHANGED <<stateVars, pump, closeVars, sealed, dirty, ownerRest, call, hubVars>>

\* TryPopTerminal gives the freed place to the waiters for capacity.
PopNotify ==
  /\ opc = "popped"
  /\ NotifyWriteHub
  /\ Goto("deliver")
  /\ UNCHANGED <<stateVars, pump, closeVars, sealed, dirty, ownerRest, call,
                 writeHub, closeHub>>

DeliverDone ==
  /\ opc = "deliver" /\ pending = <<>>
  /\ Goto(IF ringClosed THEN "onclose" ELSE "arm")
  /\ UNCHANGED <<stateVars, pump, closeVars, sealed, dirty, ownerRest, call, hubVars>>

\* Slip: a spent budget does not queue the connection again.
ArmOnly ==
  /\ opc = "arm"
  /\ Goto("idle")
  /\ writeWaiting' = (writeWaiting \/ (pump.wait /\ ops # <<>>))
  /\ pump' = NoPump
  /\ UNCHANGED <<stateVars, closeVars, sealed, dirty, shutReason, ringClosed, control,
                 ownerClosed, delivered, onClose, call, hubVars>>

\* Unsent writes: wait for writability after EAGAIN, pump again after a spent
\* budget unless a wait is armed already.
Arm ==
  /\ opc = "arm"
  /\ Goto("idle")
  /\ writeWaiting' = (writeWaiting \/ (pump.wait /\ ops # <<>>))
  /\ IF ~pump.wait /\ ops # <<>> /\ ~writeWaiting THEN WakeOwner ELSE UNCHANGED dirty
  /\ pump' = NoPump
  /\ UNCHANGED <<stateVars, closeVars, sealed, shutReason, ringClosed, control,
                 ownerClosed, delivered, onClose, call, hubVars>>

-----------------------------------------------------------------------------
(***************************************************************************)
(* Closing: ConnCore::ShutdownOwner and CancelControl around MarkClosed.   *)
(***************************************************************************)
Seal ==
  /\ ~sealed
  /\ sealed' = TRUE
  /\ UNCHANGED <<stateVars, closeVars, dirty, ownerVars, call, hubVars>>

\* SealServiceOnOwner reaches this connection (it also empties the dirty list).
SealOnOwner ==
  /\ opc = "idle" /\ sealed /\ ~ownerClosed
  /\ dirty' = FALSE
  /\ Shutdown(Canceled)
  /\ UNCHANGED <<stateVars, closeVars, sealed, pump, writeWaiting, ringClosed,
                 control, ownerClosed, delivered, onClose, call, hubVars>>

\* FinalizeControl, after the owner was unbound, ends what is still there.
CancelControl ==
  /\ opc = "idle" /\ sealed /\ ~ownerClosed
  /\ dirty' = FALSE /\ control' = TRUE
  /\ Shutdown(Canceled)
  /\ UNCHANGED <<stateVars, closeVars, sealed, pump, writeWaiting, ringClosed,
                 ownerClosed, delivered, onClose, call, hubVars>>

\* MarkClosed takes the mutex and fixes the reason.  The descriptor is closed,
\* which aborts an armed wait.
MarkClosed ==
  /\ opc = "shutdown"
  /\ closeReason' = IF closeRequested THEN closeReason ELSE shutReason
  /\ closeRequested' = TRUE
  /\ writeWaiting' = FALSE
  /\ shutReason' = NoError
  /\ Goto("settle")
  /\ UNCHANGED <<ops, pending, queue, rec, nextOp, acceptance, readClosed, sealed,
                 dirty, pump, ringClosed, control, ownerClosed,
                 delivered, onClose, call, hubVars>>

\* Slip: the reason is used as it is.
SettleErrorRaw == closeReason

\* An unfinished write ends with an error even if the reason is empty.
SettleError == IF closeReason = NoError THEN Canceled ELSE closeReason

SettleOne ==
  LET id == Head(ops) IN
  /\ opc = "settle" /\ ops # <<>>
  /\ rec' = [rec EXCEPT ![id].terminal = TRUE, ![id].error = SettleError]
  /\ PushPending(Completion(id, SettleError))
  /\ ops' = Tail(ops)
  /\ UNCHANGED <<opc, pump, queue, nextOp, closeVars, sealed, dirty, ownerRest,
                 call, hubVars>>

Settled ==
  /\ opc = "settle" /\ ops = <<>>
  /\ acceptance' = "Closed"
  /\ queue' = Q!Consumed(queue, Q!TotalBytes)
  /\ Goto("publish")
  /\ UNCHANGED <<ops, pending, rec, nextOp, closeRequested, closeReason,
                 readClosed, sealed, dirty, pump, ownerRest, call, hubVars>>

\* ring.MarkClosed, then the flag under the mutex.
PublishReadClosed ==
  /\ opc = "publish"
  /\ readClosed' = TRUE
  /\ Goto("announce")
  /\ UNCHANGED <<stateVars, acceptance, closeRequested, closeReason, sealed, dirty,
                 pump, ownerRest, call, hubVars>>

\* Slips: OnClose before the completions; the close hub is forgotten.
AnnounceCloseFirst ==
  /\ opc = "announce"
  /\ woken' = woken \cup writeHub \cup closeHub
  /\ WakeOwner
  /\ ringClosed' = TRUE
  /\ ownerClosed' = control
  /\ Goto(IF control THEN "idle" ELSE "onclose")
  /\ UNCHANGED <<stateVars, closeVars, sealed, pump, shutReason, writeWaiting, control,
                 delivered, onClose, call, writeHub, closeHub>>
AnnounceWritersOnly ==
  /\ opc = "announce"
  /\ NotifyWriteHub
  /\ WakeOwner
  /\ ringClosed' = TRUE
  /\ ownerClosed' = control
  /\ Goto(IF control THEN "idle" ELSE "deliver")
  /\ UNCHANGED <<stateVars, closeVars, sealed, pump, shutReason, writeWaiting, control,
                 delivered, onClose, call, writeHub, closeHub>>

\* Both hubs are notified; ShutdownOwner goes on to deliver, CancelControl is
\* done without calling the user.
Announce ==
  /\ opc = "announce"
  /\ woken' = woken \cup writeHub \cup closeHub
  /\ WakeOwner
  /\ ringClosed' = TRUE
  /\ ownerClosed' = control
  /\ Goto(IF control THEN "idle" ELSE "deliver")
  /\ UNCHANGED <<stateVars, closeVars, sealed, pump, shutReason, writeWaiting, control,
                 delivered, onClose, call, writeHub, closeHub>>

OnClose ==
  /\ opc = "onclose"
  /\ onClose' = Append(onClose, closeReason)
  /\ ownerClosed' = TRUE
  /\ Goto("idle")
  /\ UNCHANGED <<stateVars, closeVars, sealed, dirty, pump, shutReason, writeWaiting,
                 ringClosed, control, delivered, call, hubVars>>

-----------------------------------------------------------------------------
CallerStep(c) ==
  \/ CheckSeal(c) \/ AcceptClosed(c) \/ AcceptRefused(c) \/ AcceptEmpty(c)
  \/ Accept(c) \/ Accepted(c)
  \/ WaitOver(c) \/ Register(c) \/ Recheck(c) \/ Resume(c)

CallerEvent(c) ==
  \/ \E n \in Sizes : Call(c, "none", n) \/ Call(c, "capacity", n)
  \/ Call(c, "close", 0)
  \/ \E reason \in Reason : RequestClose(c, reason)
  \/ GiveUp(c)

Round ==
  \/ \E n \in 1..Allowed : RoundSend(n)
  \/ RoundAgain \/ RoundInterrupted \/ RoundFail \/ RoundsOver

OwnerStep ==
  \/ Round \/ Attribute \/ FailOne \/ Failed \/ PumpNotify
  \/ Deliver \/ PopNotify \/ DeliverDone \/ Arm
  \/ MarkClosed \/ SettleOne \/ Settled \/ PublishReadClosed \/ Announce \/ OnClose

Next ==
  \/ \E c \in Caller : CallerStep(c) \/ CallerEvent(c)
  \/ PumpOwner \/ WriteReady \/ OwnerStep
  \/ Seal \/ SealOnOwner \/ CancelControl

Spec == Init /\ [][Next]_vars

(***************************************************************************)
(* Coroutines that can run do run, the owner finishes what it has begun,   *)
(* and every turn of its loop pumps the dirty list and runs the posted     *)
(* commands even if descriptor events keep coming (hence SF).  Nothing     *)
(* makes the peer read: WriteReady has no fairness.                        *)
(***************************************************************************)
Fairness ==
  /\ \A c \in Caller : WF_vars(CallerStep(c))
  /\ WF_vars(OwnerStep)
  /\ SF_vars(PumpOwner)
  /\ SF_vars(SealOnOwner \/ CancelControl)

FairSpec == Spec /\ Fairness

-----------------------------------------------------------------------------
(***************************************************************************)
(* Properties.                                                             *)
(***************************************************************************)
RecordType ==
  [total : Nat, terminal : BOOLEAN, sent : Nat, remaining : Nat, error : Error]
CompletionType == [id : OpId, sent : Nat, error : Error]
PumpType == [round : Nat, bytes : Nat, left : Nat,
             wait : BOOLEAN, changed : BOOLEAN, freed : BOOLEAN]

OwnerPc == Locked \cup {"idle", "notify", "deliver", "popped", "arm", "shutdown",
                        "publish", "announce", "onclose"}
CallType == [pc : {"idle", "seal", "accept", "wake", "check", "added", "parked"},
             want : Sizes \cup {0}, wait : {"none", "capacity", "op", "close"},
             op : 0..MaxWrites]

\* Type invariant of the members of ConnectionState, of ConnCore and of the
\* locals of the calls in progress.
TypeOK ==
  /\ ops \in Seq(OpId) /\ pending \in Seq(CompletionType)
  /\ rec \in [OpId -> RecordType]
  /\ nextOp \in 1..(MaxWrites + 1)
  /\ acceptance \in {"Open", "Settling", "Closed"}
  /\ closeRequested \in BOOLEAN /\ readClosed \in BOOLEAN
  /\ sealed \in BOOLEAN /\ dirty \in BOOLEAN
  /\ writeWaiting \in BOOLEAN /\ ringClosed \in BOOLEAN
  /\ control \in BOOLEAN /\ ownerClosed \in BOOLEAN
  /\ closeReason \in Error /\ shutReason \in Error
  /\ opc \in OwnerPc /\ pump \in PumpType
  /\ delivered \in Seq(CompletionType) /\ onClose \in Seq(Error)
  /\ call \in [Caller -> CallType]
  /\ writeHub \subseteq Caller /\ closeHub \subseteq Caller /\ woken \subseteq Caller

IdsOf(completions) == { completions[i].id : i \in DOMAIN completions }
Distinct(s) == \A i, j \in DOMAIN s : s[i] = s[j] => i = j
DistinctIds(s) == \A i, j \in DOMAIN s : s[i].id = s[j].id => i = j
SeqSet(s) == { s[i] : i \in DOMAIN s }

\* The writes AcceptWrite has taken.
Taken == { id \in OpId : rec[id].terminal \/ rec[id].total # 0 }

\* "Ordinary + zero-length + finished but undelivered" writes together stay
\* within max_ops (ConnectionState.hpp).  It is what keeps push_back on the
\* circular buffer m_pending_terminal from overwriting a completion.
ResponsibilityBounded == Len(ops) + Len(pending) <= MaxOps

\* Every write AcceptWrite took is at every moment in exactly one of m_ops,
\* m_pending_terminal and the completions already given to OnWrite: none is
\* lost, none is reported twice, whatever mixture of sends, send errors,
\* zero-length writes and closing happened.
ExactlyOnce ==
  /\ Distinct(ops) /\ DistinctIds(pending) /\ DistinctIds(delivered)
  /\ SeqSet(ops) \cap (IdsOf(pending) \cup IdsOf(delivered)) = {}
  /\ IdsOf(pending) \cap IdsOf(delivered) = {}
  /\ SeqSet(ops) \cup IdsOf(pending) \cup IdsOf(delivered) = Taken

\* A write is terminal exactly when it left m_ops, and a completion that
\* reports no error was sent to the last byte: neither a send error nor
\* closing with an empty reason lets an unsent write pass for a success.
DoneMeansSent ==
  /\ \A id \in Taken : rec[id].terminal <=> id \notin SeqSet(ops)
  /\ \A id \in Taken :
       rec[id].terminal /\ rec[id].error = NoError => rec[id].sent = rec[id].total

\* The bytes the queue still has to send are, in order, the unsent bytes of
\* the writes in m_ops: AttributeSentLocked credits every byte to the write it
\* belongs to, also across partial sends that end inside a write.
Owed ==
  LET f[i \in 0..Len(ops)] ==
        IF i = 0 THEN <<>>
        ELSE f[i - 1] \o [k \in 1..rec[ops[i]].remaining |-> ops[i]]
  IN  f[Len(ops)]
AttributionExact ==
  opc \notin {"attribute", "fail", "settle"} => Q!Content(queue) = Owed

\* Once AcceptWrite's own limits let a write through, OutboundQueue::Append
\* takes it: the roll-back "m_ops.pop_back()" is never needed, although the
\* queue has a limit of its own on overflow segments.
AppendNeverRefuses ==
  \A n \in Sizes \ {0} :
    Free /\ ~OpsFull /\ ~BytesFull(n)
      => Q!AppendAccepted([i \in 1..n |-> nextOp])

\* Whatever is still owed has somebody to do it: an unsent write, an
\* undelivered completion or an unfinished close never sits there with the
\* owner asleep and nothing on its way to wake it.
OwnerWillRun ==
  \/ opc # "idle" \/ dirty \/ sealed
  \/ \E c \in Caller : call[c].pc = "wake"
NeverStranded ==
  /\ ops # <<>> /\ ~ownerClosed => OwnerWillRun \/ writeWaiting
  /\ pending # <<>> /\ ~ownerClosed => OwnerWillRun
  /\ closeRequested /\ ~ownerClosed => OwnerWillRun

\* No lost wakeup: a sleeping waiter whose condition holds has been notified,
\* or the step that notifies it is still to come.  (A send error on a sealed
\* service closes the write side early; the close hub is notified when the
\* seal ends the connection.)
NotifyComing(c) ==
  \/ call[c].wait = "close" /\ ~ringClosed
  \/ opc \in Locked \cup {"notify", "popped", "shutdown", "publish", "announce"}
NoLostWakeup ==
  \A c \in Caller : call[c].pc = "parked" /\ Ready(c) => c \in woken \/ NotifyComing(c)

\* Nobody is forgotten: no owner with work, no waiter that could go on.
NobodyForgotten == NeverStranded /\ NoLostWakeup

\* OnClose is the last word of a connection: it comes once, with the reason of
\* the first close, after OnWrite was called for every accepted write.
OnCloseIsLast ==
  onClose # <<>> =>
    /\ Len(onClose) = 1 /\ onClose[1] = closeReason
    /\ IdsOf(delivered) = Taken

\* What was accepted is owed to its own write until OnWrite, and OnClose ends it.
WritesExact == AttributionExact /\ AppendNeverRefuses /\ OnCloseIsLast

\* The first request fixes the reason of the close for good, also against the
\* reasons the owner closes with later, and closing is never taken back.
FirstReasonWins ==
  [][closeRequested => closeRequested' /\ closeReason' = closeReason]_vars

\* A requested close completes: every accepted write becomes terminal, and
\* nobody is left waiting on the connection, for ever after.
Over ==
  /\ ownerClosed /\ acceptance = "Closed"
  /\ \A id \in Taken : rec[id].terminal
  /\ \A c \in Caller : call[c].pc # "parked"
CloseCompletes == closeRequested ~> Over

\* No waiter sleeps for ever on a condition that stays true.
WaitersServed ==
  \A c \in Caller : ~<>[](call[c].pc = "parked" /\ Ready(c))
=============================================================================
