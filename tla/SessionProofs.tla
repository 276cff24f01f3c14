---------------------------- MODULE SessionProofs ----------------------------
(***************************************************************************)
(* One link of an RPC session for every number of operations and every     *)
(* limit of the lanes: writes_outstanding counts the frames that are not   *)
(* settled, a caller that is told its frame was not committed is told the  *)
(* truth, and every call is decided once and notified.  And the HTTP       *)
(* server for every number of sessions, callers and places: its counters   *)
(* tell its sessions and its tasks, a stop that is final is final, and     *)
(* Close reaches every source that runs.                                   *)
(***************************************************************************)
EXTENDS RpcSession, HttpServer, Integers, FiniteSetTheorems, SequenceTheorems, TLAPS

-----------------------------------------------------------------------------
(***************************************************************************)
(* The invariant.                                                          *)
(***************************************************************************)

Holding == {"gate", "write", "writing", "fail", "tell", "settle"}
Fresh(o) == pc[o] \in {"insert", "enqueue"}

\* Frames the connection has taken, and those that have left the queues.
Accepted == sent \cup {kernel} \cup (IF writer = "writing" THEN {hand} ELSE {})
Taken == sent \cup {kernel, hand}

\* The call whose reply is being handled.
Matched == IF reader = "matched" THEN {matched} ELSE {}

\* A frame is in the lane of its class, once.
LanesKept ==
  /\ \A l \in Lanes : \A i \in DOMAIN queue[l] : Lane[queue[l][i]] = l
  /\ \A l \in Lanes : \A i, j \in DOMAIN queue[l] : queue[l][i] = queue[l][j] => i = j

\* A frame that left the queues does not come back.
FramesOnce ==
  /\ Queued \cap Taken = {}
  /\ \A o \in Op : Fresh(o) => o \notin Queued \cup Taken

WriterState ==
  /\ hand # Nobody <=> writer \in Holding
  /\ writer = "fail" => failure # "none"
  /\ writerWake # {} => writer = "tell"

\* How far Kill has come is what it has done.
KillState ==
  /\ dead <=> kill # "none"
  /\ sealed <=> kill \notin {"none", "drop"}
  /\ sealed => Queued = {}
  /\ kill \in {"fail", "notify", "done"} => closing
  /\ kill \in {"notify", "done"} => table = {}
  /\ killWake # {} => kill = "notify"

\* A record is in the table, in the reader's hand or decided.
Records ==
  /\ table \cap done = {}
  /\ done \subseteq Calls \cup Replies
  /\ \A o \in Op : pc[o] = "insert" => o \in Calls
  /\ \A o \in table \cup done : pc[o] \notin {"insert", "done"}
  /\ \A o \in done \cap Replies : pc[o] # "enqueue" /\ o \notin Queued \cup {hand}
  /\ Matched \subseteq (sent \cap Calls) \ (table \cup done)
  /\ reader = "tell" => matched \in Calls

\* Nobody is woken for nothing, and a call that waits is in one of those places.
Wakes ==
  /\ woken \subseteq done
  /\ \A o \in Calls : NotifyDue(o) => o \in done \/ pc[o] = "done"
  /\ NoLostWakeup
  /\ \A o \in Calls : pc[o] \notin {"insert", "done"} => o \in table \cup done \cup Matched

\* Told that the frame was not committed, by the outcome or by the result.
Closed(o) == outcome[o] = "closed" \/ result[o] \in {"closed", "moved", "overloaded"}

\* A call in the table whose frame was accepted, or is about to be, is committed.
CommittedFirst ==
  \A o \in table : o \in Accepted \/ (o = hand /\ writer = "write") => o \in committed

\* A frame that was not accepted, is not queued, and will not be.
Out(o) ==
  /\ o \notin Accepted \cup Queued
  /\ o = hand => closing
  /\ pc[o] # "insert"
  /\ pc[o] = "enqueue" => dead

Fates == CommittedFirst /\ \A o \in Op : Closed(o) => Out(o)

SessionInv ==
  /\ TypeOK /\ LanesKept /\ FramesOnce /\ WriterState /\ KillState
  /\ Records /\ Wakes /\ Fates /\ OutstandingExact

-----------------------------------------------------------------------------
(***************************************************************************)
(* The queues.                                                             *)
(***************************************************************************)

LEMMA QueuedFinite ==
  ASSUME TypeOK
  PROVE  /\ Queued \subseteq Op /\ IsFiniteSet(Queued) /\ Cardinality(Queued) \in Nat
         /\ Nobody \notin Queued
<1>1. Queued \subseteq Op
  BY DEF TypeOK, Queued
<1> QED BY <1>1, SessionConstants, FS_Subset, FS_CardinalityType

LEMMA QueueUntouched ==
  ASSUME UNCHANGED queue
  PROVE  Queued' = Queued /\ (LanesKept => LanesKept')
BY DEF Queued, LanesKept

\* A frame goes to the end of its lane.
LEMMA QueuedGrows ==
  ASSUME TypeOK, NEW o \in Op, LanesKept,
         queue' = [queue EXCEPT ![Lane[o]] = Append(queue[Lane[o]], o)]
  PROVE  /\ Queued' = Queued \cup {o}
         /\ o \notin Queued => LanesKept'
         /\ queue' \in [Lanes -> Seq(Op)]
<1> DEFINE k == Lane[o]
           s == queue[k]
<1>1. k \in Lanes /\ s \in Seq(Op) /\ queue \in [Lanes -> Seq(Op)]
  BY SessionConstants DEF TypeOK
<1> HIDE DEF k
<1>2. /\ Append(s, o) \in Seq(Op) /\ Len(Append(s, o)) = Len(s) + 1 /\ Len(s) \in Nat
      /\ DOMAIN s = 1 .. Len(s) /\ DOMAIN Append(s, o) = 1 .. Len(s) + 1
      /\ \A i \in 1 .. Len(s) : Append(s, o)[i] = s[i]
      /\ Append(s, o)[Len(s) + 1] = o
  BY <1>1
<1>3. queue'[k] = Append(s, o) /\ \A l \in Lanes \ {k} : queue'[l] = queue[l]
  BY <1>1 DEF k
<1>4. queue' \in [Lanes -> Seq(Op)]
  BY <1>1, <1>2 DEF k
<1> HIDE DEF s
<1>5. Queued' = Queued \cup {o}
  <2>1. { queue'[k][i] : i \in DOMAIN queue'[k] } = { s[i] : i \in DOMAIN s } \cup {o}
    BY <1>2, <1>3, SMTT(30)
  <2>2. \A l \in Lanes \ {k} :
          { queue'[l][i] : i \in DOMAIN queue'[l] } = { queue[l][i] : i \in DOMAIN queue[l] }
    BY <1>3
  <2> DEFINE In(q) == { q[i] : i \in DOMAIN q }
  <2>3. Queued' = UNION { In(queue'[l]) : l \in Lanes } /\ Queued = UNION { In(queue[l]) : l \in Lanes }
    BY DEF Queued
  <2>4. /\ In(queue'[k]) = In(queue[k]) \cup {o}
        /\ \A l \in Lanes \ {k} : In(queue'[l]) = In(queue[l])
    BY <2>1, <2>2 DEF s
  <2> HIDE DEF In
  <2> QED BY <1>1, <2>3, <2>4, SMTT(30)
<1>6. ASSUME o \notin Queued PROVE LanesKept'
  <2>0. \A i \in DOMAIN s : s[i] # o /\ Lane[s[i]] = k
    BY <1>1, <1>6 DEF Queued, LanesKept, s
  <2>1. \A i, j \in DOMAIN s : s[i] = s[j] => i = j
    BY <1>1 DEF LanesKept, s
  <2>2. \A i \in DOMAIN queue'[k] : Lane[queue'[k][i]] = k
    BY <1>2, <1>3, <2>0 DEF k
  <2>3. \A i, j \in DOMAIN queue'[k] : queue'[k][i] = queue'[k][j] => i = j
    <3> DEFINE n == Len(s)
               t == Append(s, o)
    <3>1. n \in Nat /\ DOMAIN s = 1 .. n /\ DOMAIN t = 1 .. n + 1 /\ t[n + 1] = o
          /\ \A i \in 1 .. n : t[i] = s[i]
      BY <1>2
    <3> HIDE DEF n, t
    <3>2. \A i \in 1 .. n : t[i] # t[n + 1]
      BY <2>0, <3>1
    <3>3. \A i, j \in 1 .. n : t[i] = t[j] => i = j
      BY <2>1, <3>1
    <3>4. \A i \in 1 .. n + 1 : i \in 1 .. n \/ i = n + 1
      BY <3>1
    <3>5. \A i, j \in 1 .. n + 1 : t[i] = t[j] => i = j
      BY <3>2, <3>3, <3>4
    <3>6. queue'[k] = t
      BY <1>3 DEF t
    <3> QED BY <3>1, <3>5, <3>6
  <2> QED BY <1>3, <2>2, <2>3 DEF LanesKept
<1> QED BY <1>4, <1>5, <1>6

\* The first frame of a lane leaves.
LEMMA QueuedShrinks ==
  ASSUME TypeOK, LanesKept, NEW l \in Lanes, queue[l] # <<>>,
         queue' = [queue EXCEPT ![l] = Tail(queue[l])]
  PROVE  /\ Head(queue[l]) \in Queued /\ Queued' = Queued \ {Head(queue[l])}
         /\ LanesKept'
         /\ queue' \in [Lanes -> Seq(Op)] /\ Len(queue'[l]) <= Len(queue[l])
<1> DEFINE s == queue[l]
           h == Head(s)
<1>1. s \in Seq(Op) /\ s # <<>> /\ queue \in [Lanes -> Seq(Op)]
  BY DEF TypeOK
<1> HIDE DEF s
<1>2. /\ Tail(s) \in Seq(Op) /\ Len(Tail(s)) = Len(s) - 1 /\ Len(s) \in Nat /\ Len(s) >= 1
      /\ DOMAIN s = 1 .. Len(s) /\ DOMAIN Tail(s) = 1 .. Len(s) - 1
      /\ \A i \in 1 .. Len(s) - 1 : Tail(s)[i] = s[i + 1]
      /\ h = s[1]
  BY <1>1
<1> HIDE DEF h
<1>3. queue'[l] = Tail(s) /\ \A m \in Lanes \ {l} : queue'[m] = queue[m]
  BY <1>1 DEF s
<1>4. queue' \in [Lanes -> Seq(Op)]
  BY <1>1, <1>2 DEF s
<1>5. /\ \A i \in DOMAIN s : Lane[s[i]] = l
      /\ \A i, j \in DOMAIN s : s[i] = s[j] => i = j
  BY DEF LanesKept, s
<1>6. LanesKept'
  <2>1. \A i \in DOMAIN queue'[l] : Lane[queue'[l][i]] = l
    BY <1>2, <1>3, <1>5, SMTT(30)
  <2>2. ASSUME NEW i \in 1 .. Len(s) - 1, NEW j \in 1 .. Len(s) - 1, Tail(s)[i] = Tail(s)[j]
        PROVE  i = j
    <3>1. i + 1 \in DOMAIN s /\ j + 1 \in DOMAIN s /\ s[i + 1] = s[j + 1]
      BY <1>2, <2>2
    <3>2. i + 1 = j + 1
      BY <1>5, <3>1
    <3> QED BY <1>2, <3>2
  <2>3. \A i, j \in DOMAIN queue'[l] : queue'[l][i] = queue'[l][j] => i = j
    <3> DEFINE t == queue'[l]
               n == Len(s) - 1
    <3>1. DOMAIN t = 1 .. n /\ t = Tail(s)
      BY <1>2, <1>3
    <3>2. ASSUME NEW i \in 1 .. n, NEW j \in 1 .. n, t[i] = t[j] PROVE i = j
      BY <2>2, <3>1, <3>2
    <3> HIDE DEF s, t, n
    <3>3. \A i, j \in DOMAIN t : t[i] = t[j] => i = j
      BY <3>1, <3>2
    <3> QED BY <3>3 DEF t
  <2> QED BY <1>3, <2>1, <2>3 DEF LanesKept
<1>7. h \in Queued
  BY <1>2 DEF Queued, s
<1>8. Queued' = Queued \ {h}
  <2>1. ASSUME NEW o \in Queued, o # h PROVE o \in Queued'
    <3>1. PICK m \in Lanes : \E i \in DOMAIN queue[m] : o = queue[m][i]
      BY DEF Queued
    <3>2. CASE m # l
      BY <1>3, <3>1, <3>2 DEF Queued
    <3>3. CASE m = l
      <4>1. PICK i \in 1 .. Len(s) : o = s[i]
        BY <1>2, <3>1, <3>3 DEF s
      <4>2. i - 1 \in 1 .. Len(s) - 1 /\ Tail(s)[i - 1] = o
        BY <1>2, <2>1, <4>1
      <4>3. o \in { queue'[l][n] : n \in DOMAIN queue'[l] }
        BY <1>2, <1>3, <4>2
      <4> QED BY <4>3 DEF Queued
    <3> QED BY <3>2, <3>3
  <2>2. ASSUME NEW o \in Queued' PROVE o \in Queued /\ o # h
    <3>1. PICK m \in Lanes : \E i \in DOMAIN queue'[m] : o = queue'[m][i]
      BY DEF Queued
    <3>2. CASE m # l
      <4>1. PICK i \in DOMAIN queue[m] : o = queue[m][i]
        BY <1>3, <3>1, <3>2
      <4>2. Lane[o] = m /\ Lane[h] = l
        BY <1>2, <1>5, <4>1 DEF LanesKept
      <4> QED BY <3>2, <4>1, <4>2 DEF Queued
    <3>3. CASE m = l
      <4>1. PICK i \in 1 .. Len(s) - 1 : o = s[i + 1]
        BY <1>2, <1>3, <3>1, <3>3
      <4>2. i + 1 \in DOMAIN s /\ 1 \in DOMAIN s /\ i + 1 # 1
        BY <1>2, <4>1
      <4> QED BY <1>2, <1>5, <4>1, <4>2 DEF Queued, s
    <3> QED BY <3>2, <3>3
  <2> QED BY <2>1, <2>2
<1>9. Len(queue'[l]) <= Len(s)
  BY <1>2, <1>3
<1> QED BY <1>4, <1>6, <1>7, <1>8, <1>9 DEF h, s

\* The writer finds a frame wherever there is one.
LEMMA NextLaneWaits ==
  ASSUME TypeOK, Queued # {}
  PROVE  NextLane \in Lanes /\ queue[NextLane] # <<>>
<1>1. \E l \in Lanes : queue[l] # <<>>
  BY DEF Queued, TypeOK
<1> QED BY <1>1 DEF NextLane, Lanes

-----------------------------------------------------------------------------
(***************************************************************************)
(* Types.                                                                  *)
(***************************************************************************)

Result == OutcomeSet \cup {"none", "moved", "overloaded", "accepted", "gaveUp"}
Writing == {"idle", "waiting", "gate", "write", "writing", "fail", "tell", "settle", "kill", "gone"}

KillTypes ==
  /\ dead \in BOOLEAN /\ sealed \in BOOLEAN
  /\ kill \in {"none", "drop", "close", "fail", "notify", "done"}
  /\ killWake \subseteq Calls
QueueTypes ==
  queue \in [Lanes -> Seq(Op)] /\ \A l \in Lanes : Len(queue[l]) <= LaneCap
CreditTypes == credit \in [{"service", "actor"} -> 0..(ServiceWeight + ActorWeight)]
RecordTypes ==
  /\ table \subseteq Calls /\ committed \subseteq Calls /\ done \subseteq Op
  /\ outcome \in [Op -> OutcomeSet]
CallerTypes == pc \in [Op -> OpPc] /\ woken \subseteq Op /\ result \in [Op -> Result]
WriterTypes ==
  /\ writer \in Writing
  /\ hand \in Op \cup {Nobody} /\ failure \in {"none", "failed", "unknown"}
  /\ writerWake \subseteq Calls
ReaderTypes == reader \in {"read", "matched", "tell", "gone"} /\ matched \in Calls \cup {Nobody}
NetTypes == closing \in BOOLEAN /\ kernel \in Op \cup {Nobody} /\ sent \subseteq Op

LEMMA TypeParts ==
  TypeOK <=> /\ KillTypes /\ QueueTypes /\ CreditTypes /\ outstanding \in Nat /\ RecordTypes
             /\ CallerTypes /\ WriterTypes /\ ReaderTypes /\ NetTypes
BY DEF TypeOK, KillTypes, QueueTypes, CreditTypes, RecordTypes, CallerTypes, WriterTypes,
       ReaderTypes, NetTypes, Result, Writing

\* Everybody is before his first step.
LEMMA SessionStart == Init => SessionInv
<1> SUFFICES ASSUME Init PROVE SessionInv
  OBVIOUS
<1> USE SessionConstants
<1>1. Queued = {} /\ Cardinality(Queued) = 0
  <2>1. Queued = {}
    BY DEF Init, Queued
  <2> QED BY <2>1, FS_EmptySet
<1>2. TypeOK
  <2>0. CreditTypes
    BY DEF Init, CreditTypes
  <2>1. KillTypes /\ outstanding \in Nat
    BY DEF Init, KillTypes
  <2>2. QueueTypes
    BY DEF Init, QueueTypes, Lanes
  <2>3. RecordTypes
    BY DEF Init, RecordTypes, OutcomeSet
  <2>4. CallerTypes
    BY DEF Init, CallerTypes, OpPc, Result
  <2>5. WriterTypes /\ ReaderTypes /\ NetTypes
    BY DEF Init, WriterTypes, ReaderTypes, NetTypes, Writing
  <2> QED BY <2>0, <2>1, <2>2, <2>3, <2>4, <2>5, TypeParts
<1>3. LanesKept /\ OutstandingExact
  BY <1>1 DEF Init, LanesKept, OutstandingExact
<1>4. FramesOnce /\ WriterState /\ KillState
  BY <1>1 DEF Init, FramesOnce, WriterState, KillState, Taken, Fresh, Holding
<1>5. Records /\ Wakes
  BY DEF Init, Records, Wakes, NoLostWakeup, NotifyDue, Matched, Op
<1>6. Fates
  BY <1>1 DEF Init, Fates, CommittedFirst, Closed
<1> QED BY <1>2, <1>3, <1>4, <1>5, <1>6 DEF SessionInv

\* The steps by what they leave alone.
CallerStep(o) ==
  \/ Insert(o) \/ Enqueue(o) \/ Undo(o) \/ Register(o) \/ Recheck(o) \/ Completed(o)
  \/ GiveUp(o) \/ Expire(o)
KillFails == kill = "fail" /\ FailPending("notify") /\ UNCHANGED netVars

LEMMA Steps ==
  ASSUME Next
  PROVE  \/ \E o \in Op : CallerStep(o) \/ Match(o)
         \/ Drop \/ KillCloses \/ KillFails \/ KillNotifies \/ OwnerKills
         \/ WriterStep
         \/ ReaderStep \/ ReaderEnds \/ BytesOut \/ NetBreaks
BY DEF Next, OpStep, CallerStep, KillStep, CloseThenFail, KillFails

LEMMA KillMoves ==
  ASSUME Next
  PROVE  UNCHANGED killVars \/ BeginKill \/ Drop \/ KillCloses \/ KillFails \/ KillNotifies
<1>1. ASSUME NEW o \in Op, CallerStep(o) \/ Match(o) PROVE UNCHANGED killVars
  BY <1>1 DEF CallerStep, Insert, Enqueue, Undo, Register, Recheck, Completed, GiveUp, Expire, Match
<1>2. ASSUME WriterStep PROVE UNCHANGED killVars \/ BeginKill
  BY <1>2 DEF WriterStep, Dequeue, FindNothing, WriterExits, GateFails, Commit, Write, WriteReturns,
     FailItemPending, WriterTells, Settle, WriterKills
<1>3. ASSUME ReaderStep \/ ReaderEnds \/ BytesOut \/ NetBreaks \/ OwnerKills
      PROVE  UNCHANGED killVars \/ BeginKill
  BY <1>3 DEF ReaderStep, SetReply, ReaderTells, ReaderEnds, BytesOut, NetBreaks, OwnerKills
<1> QED BY <1>1, <1>2, <1>3, Steps

\* A step that finds the invariant keeps the types.
LEMMA TypesKept ==
  ASSUME SessionInv, Next
  PROVE  TypeOK'
<1> USE SessionConstants
<1>0. /\ KillTypes /\ QueueTypes /\ CreditTypes /\ outstanding \in Nat /\ RecordTypes
      /\ CallerTypes /\ WriterTypes /\ ReaderTypes /\ NetTypes
  BY TypeParts DEF SessionInv
<1>1. KillTypes'
  BY <1>0, KillMoves DEF KillTypes, RecordTypes, killVars, BeginKill, Drop, KillCloses, KillFails,
     FailPending, KillNotifies
<1>2. ReaderTypes' /\ NetTypes'
  <2>1. ASSUME NEW o \in Op, CallerStep(o) \/ Match(o) PROVE ReaderTypes' /\ NetTypes'
    BY <1>0, <2>1 DEF CallerStep, Insert, Enqueue, Undo, Register, Recheck, Completed, GiveUp,
       Expire, Match, ReaderTypes, NetTypes, RecordTypes, readerVars, netVars
  <2>2. ASSUME Drop \/ KillCloses \/ KillFails \/ KillNotifies \/ OwnerKills
        PROVE  ReaderTypes' /\ NetTypes'
    BY <1>0, <2>2 DEF Drop, KillCloses, KillFails, FailPending, KillNotifies, OwnerKills,
       ReaderTypes, NetTypes, readerVars, netVars
  <2>3. ASSUME WriterStep PROVE ReaderTypes' /\ NetTypes'
    BY <1>0, <2>3 DEF WriterStep, Dequeue, FindNothing, WriterExits, GateFails, Commit, Write,
       WriteReturns,
       FailItemPending, WriterTells, Settle, WriterKills, ReaderTypes, NetTypes, WriterTypes,
       readerVars, netVars
  <2>4. ASSUME ReaderStep \/ ReaderEnds \/ BytesOut \/ NetBreaks
        PROVE  ReaderTypes' /\ NetTypes'
    BY <1>0, <2>4 DEF ReaderStep, SetReply, ReaderTells, ReaderEnds, BytesOut, NetBreaks,
       ReaderTypes, NetTypes, readerVars, netVars
  <2> QED BY <2>1, <2>2, <2>3, <2>4, Steps
<1>3. WriterTypes'
  <2>1. ASSUME ~WriterStep PROVE UNCHANGED writerVars
    BY <2>1, Steps DEF CallerStep, Insert, Enqueue, Undo, Register, Recheck, Completed, GiveUp,
       Expire, Match, Drop, KillCloses, KillFails, FailPending, KillNotifies, OwnerKills,
       ReaderStep, SetReply, ReaderTells, ReaderEnds, BytesOut, NetBreaks
  <2>2. ASSUME Dequeue PROVE WriterTypes'
    <3>1. Queued # {} /\ NextLane \in Lanes /\ queue[NextLane] # <<>>
      BY <2>2, NextLaneWaits DEF Dequeue, SessionInv
    <3>2. Head(queue[NextLane]) \in Op
      BY <1>0, <3>1 DEF QueueTypes
    <3> HIDE DEF SessionConstants
    <3> QED BY <1>0, <2>2, <3>2 DEF Dequeue, WriterTypes, Writing
  <2>3. ASSUME WriterStep, ~Dequeue PROVE WriterTypes'
    BY <1>0, <2>3 DEF WriterStep, FindNothing, WriterExits, GateFails, Commit, Write,
       WriteReturns, Fails,
       FailItemPending, WriterTells, Settle, WriterKills, WriterTypes, Writing, RecordTypes
  <2> QED BY <1>0, <2>1, <2>2, <2>3 DEF WriterTypes, writerVars
<1>4. CallerTypes'
  <2>1. ASSUME NEW o \in Op, CallerStep(o) PROVE CallerTypes'
    <3>1. ASSUME NEW p \in OpPc, Goto(o, p) PROVE pc' \in [Op -> OpPc]
      BY <1>0, <3>1 DEF Goto, CallerTypes
    <3>2. ASSUME NEW v \in Result, result' = [result EXCEPT ![o] = v]
          PROVE  result' \in [Op -> Result]
      BY <1>0, <3>2 DEF CallerTypes
    <3>3. woken' \subseteq Op
      BY <1>0, <2>1 DEF CallerStep, Insert, Enqueue, Undo, Register, Recheck, Completed, GiveUp,
         Expire, Forget, CallerTypes
    <3>4. pc' \in [Op -> OpPc]
      <4>1. \E p \in OpPc : Goto(o, p)
        BY <2>1 DEF CallerStep, Insert, Enqueue, Undo, Register, Recheck, Completed, GiveUp,
           Expire, Return, OpPc
      <4> QED BY <3>1, <4>1
    <3>5. result' \in [Op -> Result]
      <4>1. outcome[o] \in Result
        BY <1>0 DEF RecordTypes, Result
      <4>2. result' = result \/ \E v \in Result : result' = [result EXCEPT ![o] = v]
        <5>1. {"moved", "overloaded", "closed", "accepted", "gaveUp", "unknown"} \subseteq Result
          BY DEF Result, OutcomeSet
        <5>2. CASE Insert(o) \/ Undo(o) \/ Register(o) \/ Recheck(o)
          BY <5>1, <5>2 DEF Insert, Undo, Register, Recheck, Return
        <5>3. CASE Enqueue(o)
          BY <5>1, <5>3 DEF Enqueue, Return
        <5>4. CASE Completed(o) \/ GiveUp(o) \/ Expire(o)
          BY <4>1, <5>1, <5>4 DEF Completed, GiveUp, Expire, Return
        <5> QED BY <2>1, <5>2, <5>3, <5>4 DEF CallerStep
      <4> QED BY <1>0, <3>2, <4>2 DEF CallerTypes
    <3> QED BY <3>3, <3>4, <3>5 DEF CallerTypes
  <2>2. ASSUME NEW o \in Op, Match(o) PROVE UNCHANGED opVars
    BY <2>2 DEF Match
  <2>3. \A S : S \subseteq Op => Notified(S) \subseteq Op
    BY DEF Notified
  <2>4. ASSUME Drop \/ KillCloses \/ KillFails \/ KillNotifies \/ OwnerKills
        PROVE  UNCHANGED <<pc, result>> /\ woken' \subseteq Op
    <3>1. Queued \cap Replies \subseteq Op /\ killWake \subseteq Op /\ woken \subseteq Op
      BY <1>0 DEF Op, KillTypes, CallerTypes
    <3> QED BY <2>3, <2>4, <3>1 DEF Drop, KillCloses, KillFails, FailPending, KillNotifies,
            OwnerKills, opVars
  <2>5. ASSUME WriterStep
        PROVE  UNCHANGED <<pc, result>> /\ woken' \subseteq Op
    <3>1. writerWake \subseteq Op /\ {hand} \cap Replies \subseteq Op /\ woken \subseteq Op
      BY <1>0 DEF WriterTypes, CallerTypes, Op
    <3> QED BY <2>3, <2>5, <3>1 DEF WriterStep, Dequeue, FindNothing, WriterExits, GateFails,
    Commit, Write,
            WriteReturns, FailItemPending, WriterTells, Settle, WriterKills, opVars
  <2>6. ASSUME ReaderStep \/ ReaderEnds \/ BytesOut \/ NetBreaks
        PROVE  UNCHANGED <<pc, result>> /\ woken' \subseteq Op
    BY <1>0, <2>6 DEF ReaderStep, SetReply, ReaderTells, ReaderEnds, BytesOut, NetBreaks,
       CallerTypes, ReaderTypes, opVars, Notified, Records, SessionInv, Op
  <2> QED BY <1>0, <2>1, <2>2, <2>4, <2>5, <2>6, Steps DEF CallerTypes, opVars
<1>5. RecordTypes'
  <2>0. ASSUME NEW S \in SUBSET Op, NEW v \in OutcomeSet, Publish(S, v)
        PROVE  outcome' \in [Op -> OutcomeSet] /\ done' \subseteq Op
    BY <1>0, <2>0 DEF Publish, RecordTypes
  <2>1. ASSUME NEW o \in Op, CallerStep(o) \/ Match(o) PROVE RecordTypes'
    <3>1. pc[o] = "insert" => o \in Calls
      BY DEF SessionInv, Records
    <3> QED BY <1>0, <2>1, <3>1 DEF CallerStep, Insert, Enqueue, Undo, Register, Recheck, Completed,
            GiveUp, Expire, Match, Forget, RecordTypes, OutcomeSet, pendVars
  <2>2. ASSUME Drop PROVE RecordTypes'
    <3>1. Queued \cap Replies \in SUBSET Op /\ Publish(Queued \cap Replies, "closed")
      BY <2>2 DEF Drop, Op
    <3> QED BY <1>0, <2>0, <2>2, <3>1 DEF Drop, RecordTypes, OutcomeSet
  <2>3. ASSUME KillFails PROVE RecordTypes'
    BY <1>0, <2>3 DEF KillFails, FailPending, RecordTypes, OutcomeSet, Op
  <2>4. ASSUME FailItemPending PROVE RecordTypes'
    <3>1. failure \in OutcomeSet /\ {hand} \cap table \in SUBSET Op
      BY <1>0, <2>4 DEF FailItemPending, WriterTypes, WriterState, SessionInv, OutcomeSet,
         RecordTypes, Op
    <3> QED BY <1>0, <2>0, <2>4, <3>1 DEF FailItemPending, RecordTypes
  <2>5. ASSUME Settle PROVE RecordTypes'
    <3>1. {hand} \cap Replies \in SUBSET Op /\ (IF failure = "none" THEN "ok" ELSE failure) \in OutcomeSet
      BY <1>0 DEF WriterTypes, OutcomeSet, Op
    <3> QED BY <1>0, <2>0, <2>5, <3>1 DEF Settle, RecordTypes
  <2>6. ASSUME SetReply PROVE RecordTypes'
    <3>1. {matched} \in SUBSET Op /\ "reply" \in OutcomeSet
      BY <2>6 DEF SetReply, SessionInv, Records, Matched, OutcomeSet, Op
    <3> QED BY <1>0, <2>0, <2>6, <3>1 DEF SetReply, RecordTypes
  <2>7. ASSUME Commit PROVE RecordTypes'
    BY <1>0, <2>7 DEF Commit, RecordTypes
  <2>8. ASSUME \/ KillCloses \/ KillNotifies \/ OwnerKills \/ Dequeue \/ FindNothing
               \/ WriterExits \/ GateFails
               \/ Write \/ WriteReturns \/ WriterTells \/ WriterKills \/ ReaderTells \/ ReaderEnds
               \/ BytesOut \/ NetBreaks
        PROVE  UNCHANGED pendVars
    BY <2>8 DEF KillCloses, KillNotifies, OwnerKills, Dequeue, FindNothing, WriterExits,
       GateFails, Write,
       WriteReturns, WriterTells, WriterKills, ReaderTells, ReaderEnds, BytesOut, NetBreaks, pendVars
  <2> QED BY <1>0, <2>1, <2>2, <2>3, <2>4, <2>5, <2>6, <2>7, <2>8, Steps
          DEF RecordTypes, pendVars, WriterStep, ReaderStep
<1>6. QueueTypes' /\ CreditTypes' /\ outstanding' \in Nat
  <2>1. ASSUME NEW o \in Op, Enqueue(o) PROVE QueueTypes' /\ CreditTypes' /\ outstanding' \in Nat
    <3>1. CASE UNCHANGED <<queue, outstanding>>
      BY <1>0, <2>1, <3>1 DEF Enqueue, QueueTypes, CreditTypes
    <3>2. CASE ~UNCHANGED <<queue, outstanding>>
      <4>1. /\ Len(queue[Lane[o]]) + 1 <= LaneCap
            /\ queue' = [queue EXCEPT ![Lane[o]] = Append(queue[Lane[o]], o)]
            /\ outstanding' = outstanding + 1 /\ credit' = credit
        BY <1>0, <2>1, <3>2 DEF Enqueue, QueueTypes
      <4>2. /\ queue[Lane[o]] \in Seq(Op) /\ queue' \in [Lanes -> Seq(Op)]
            /\ Len(queue'[Lane[o]]) = Len(queue[Lane[o]]) + 1
            /\ \A l \in Lanes \ {Lane[o]} : queue'[l] = queue[l]
        BY <1>0, <4>1 DEF QueueTypes
      <4> QED BY <1>0, <4>1, <4>2 DEF QueueTypes, CreditTypes
    <3> QED BY <3>1, <3>2
  <2>2. ASSUME Drop PROVE QueueTypes' /\ CreditTypes' /\ outstanding' \in Nat
    <3>1. Cardinality(Queued) \in Nat /\ Cardinality(Queued) <= outstanding
      BY <1>0, QueuedFinite DEF SessionInv, OutstandingExact
    <3> QED BY <1>0, <2>2, <3>1 DEF Drop, QueueTypes, CreditTypes
  <2>3. ASSUME Dequeue PROVE QueueTypes' /\ CreditTypes' /\ outstanding' \in Nat
    <3> DEFINE l == NextLane
    <3>1. l \in Lanes /\ queue[l] # <<>> /\ queue' = [queue EXCEPT ![l] = Tail(queue[l])]
      BY <2>3, NextLaneWaits DEF Dequeue, SessionInv
    <3> HIDE DEF l
    <3>2. queue' \in [Lanes -> Seq(Op)] /\ Len(queue'[l]) <= Len(queue[l])
      BY <3>1, QueuedShrinks DEF SessionInv
    <3>3. QueueTypes'
      BY <1>0, <3>1, <3>2 DEF QueueTypes
    <3>4. Reloaded \in [{"service", "actor"} -> 0 .. (ServiceWeight + ActorWeight)]
      BY <1>0 DEF Reloaded, CreditTypes
    <3>5. CreditTypes'
      BY <1>0, <2>3, <3>1, <3>4 DEF Dequeue, CreditTypes, Spend, Lanes, l
    <3> QED BY <1>0, <2>3, <3>3, <3>5 DEF Dequeue
  <2>4. ASSUME Settle PROVE QueueTypes' /\ CreditTypes' /\ outstanding' \in Nat
    <3>1. hand # Nobody
      BY <2>4 DEF Settle, SessionInv, WriterState, Holding
    <3>2. outstanding = Cardinality(Queued) + 1 /\ Cardinality(Queued) \in Nat
      BY <3>1, QueuedFinite DEF SessionInv, OutstandingExact
    <3> QED BY <1>0, <2>4, <3>2 DEF Settle, QueueTypes, CreditTypes
  <2>5. ASSUME NEW o \in Op, CallerStep(o) \/ Match(o), ~Enqueue(o) PROVE UNCHANGED outVars
    BY <2>5 DEF CallerStep, Insert, Undo, Register, Recheck, Completed, GiveUp, Expire, Match
  <2>6. ASSUME \/ KillCloses \/ KillFails \/ KillNotifies \/ OwnerKills
               \/ WriterStep /\ ~Dequeue /\ ~Settle
               \/ ReaderStep \/ ReaderEnds \/ BytesOut \/ NetBreaks
        PROVE  UNCHANGED outVars
    BY <2>6 DEF KillCloses, KillFails, FailPending, KillNotifies, OwnerKills, WriterStep,
       FindNothing, WriterExits, GateFails, Commit, Write, WriteReturns, FailItemPending,
       WriterTells,
       WriterKills, ReaderStep, SetReply, ReaderTells, ReaderEnds, BytesOut, NetBreaks
  <2> QED BY <1>0, <2>1, <2>2, <2>3, <2>4, <2>5, <2>6, Steps DEF QueueTypes, CreditTypes, outVars
<1> QED BY <1>1, <1>2, <1>3, <1>4, <1>5, <1>6
        DEF TypeOK, KillTypes, QueueTypes, CreditTypes, RecordTypes, CallerTypes, WriterTypes,
            ReaderTypes, NetTypes, Result, Writing

-----------------------------------------------------------------------------
(***************************************************************************)
(* The lanes and the count of what is not settled.                         *)
(***************************************************************************)

\* A frame that is refused goes nowhere, one that is taken was not here before.
LEMMA Enqueued ==
  ASSUME SessionInv, NEW o \in Op, Enqueue(o)
  PROVE  /\ o \notin Queued \cup Taken /\ LanesKept'
         /\ \/ /\ Queued' = Queued /\ outstanding' = outstanding
               /\ pc' = [pc EXCEPT ![o] = IF o \in Calls THEN "undo" ELSE "done"]
               /\ result'[o] \in {"overloaded", "closed", "moved"}
            \/ /\ ~dead /\ ~sealed
               /\ Queued' = Queued \cup {o} /\ outstanding' = outstanding + 1
               /\ pc' = [pc EXCEPT ![o] = IF o \in Tells THEN "done" ELSE "enqueued"]
               /\ result'[o] = IF o \in Tells THEN "accepted" ELSE result[o]
         /\ \A u \in Op \ {o} : result'[u] = result[u]
<1>1. TypeOK /\ LanesKept /\ result \in [Op -> Result]
  BY DEF SessionInv, TypeOK, Result
<1>2. o \notin Queued \cup Taken
  BY DEF SessionInv, FramesOnce, Fresh, Enqueue
<1>3. \A u \in Op \ {o} : result'[u] = result[u]
  BY <1>1 DEF Enqueue, Return
<1>4. CASE sealed \/ dead \/ Len(queue[Lane[o]]) + 1 > LaneCap
  <2>1. UNCHANGED <<queue, outstanding>>
    BY <1>4 DEF Enqueue
  <2>2. result'[o] \in {"overloaded", "closed", "moved"}
    BY <1>1, <1>4 DEF Enqueue
  <2>3. pc' = [pc EXCEPT ![o] = IF o \in Calls THEN "undo" ELSE "done"]
    BY <1>4 DEF Enqueue, Goto
  <2> QED BY <1>1, <1>2, <1>3, <2>1, <2>2, <2>3, QueueUntouched
<1>5. CASE ~(sealed \/ dead \/ Len(queue[Lane[o]]) + 1 > LaneCap)
  <2>1. queue' = [queue EXCEPT ![Lane[o]] = Append(queue[Lane[o]], o)] /\ outstanding' = outstanding + 1
    BY <1>5 DEF Enqueue
  <2>2. result'[o] = IF o \in Tells THEN "accepted" ELSE result[o]
    BY <1>1, <1>5 DEF Enqueue, Return
  <2>3. pc' = [pc EXCEPT ![o] = IF o \in Tells THEN "done" ELSE "enqueued"]
    BY <1>5 DEF Enqueue, Return, Goto
  <2>4. Queued' = Queued \cup {o} /\ LanesKept'
    BY <1>1, <1>2, <2>1, QueuedGrows
  <2> QED BY <1>2, <1>3, <1>5, <2>1, <2>2, <2>3, <2>4
<1> QED BY <1>4, <1>5

LEMMA Dequeued ==
  ASSUME SessionInv, Dequeue
  PROVE  /\ hand = Nobody /\ hand' \in Queued /\ hand' \in Op
         /\ Queued' = Queued \ {hand'} /\ LanesKept'
<1>1. TypeOK /\ LanesKept /\ hand = Nobody
  BY DEF SessionInv, WriterState, Holding, Dequeue
<1>2. NextLane \in Lanes /\ queue[NextLane] # <<>>
  BY <1>1, NextLaneWaits DEF Dequeue
<1>3. queue' = [queue EXCEPT ![NextLane] = Tail(queue[NextLane])] /\ hand' = Head(queue[NextLane])
  BY DEF Dequeue
<1> QED BY <1>1, <1>2, <1>3, QueuedShrinks, QueuedFinite

LEMMA Dropped ==
  ASSUME Drop
  PROVE  Queued' = {} /\ LanesKept'
BY DEF Drop, Queued, LanesKept

\* Everybody else leaves the lanes alone.
LEMMA QueueMoves ==
  ASSUME SessionInv, Next
  PROVE  \/ \E o \in Op : Enqueue(o)
         \/ Drop \/ Dequeue
         \/ Queued' = Queued /\ LanesKept' /\ credit' = credit
<1>1. ASSUME NEW o \in Op, CallerStep(o) \/ Match(o), ~Enqueue(o) PROVE UNCHANGED <<queue, credit>>
  BY <1>1 DEF CallerStep, Insert, Undo, Register, Recheck, Completed, GiveUp, Expire, Match, outVars
<1>2. ASSUME KillCloses \/ KillFails \/ KillNotifies \/ OwnerKills PROVE UNCHANGED <<queue, credit>>
  BY <1>2 DEF KillCloses, KillFails, FailPending, KillNotifies, OwnerKills, outVars
<1>3. ASSUME WriterStep, ~Dequeue PROVE UNCHANGED <<queue, credit>>
  BY <1>3 DEF WriterStep, FindNothing, WriterExits, GateFails, Commit, Write, WriteReturns,
     FailItemPending,
     WriterTells, Settle, WriterKills, outVars
<1>4. ASSUME ReaderStep \/ ReaderEnds \/ BytesOut \/ NetBreaks PROVE UNCHANGED <<queue, credit>>
  BY <1>4 DEF ReaderStep, SetReply, ReaderTells, ReaderEnds, BytesOut, NetBreaks, outVars
<1> QED BY <1>1, <1>2, <1>3, <1>4, Steps, QueueUntouched DEF SessionInv

LEMMA LanesStay ==
  ASSUME SessionInv, Next
  PROVE  LanesKept'
BY QueueMoves, Enqueued, Dequeued, Dropped

\* The count follows the frames.
LEMMA CountKept ==
  ASSUME SessionInv, Next
  PROVE  OutstandingExact'
<1>1. /\ outstanding = Cardinality(Queued) + (IF hand = Nobody THEN 0 ELSE 1)
      /\ IsFiniteSet(Queued) /\ Cardinality(Queued) \in Nat /\ Nobody \notin Queued
  BY QueuedFinite DEF SessionInv, OutstandingExact
<1>2. ASSUME NEW o \in Op, Enqueue(o) PROVE OutstandingExact'
  <2>0. hand' = hand
    BY <1>2 DEF Enqueue, writerVars
  <2>1. CASE Queued' = Queued /\ outstanding' = outstanding
    BY <1>1, <2>0, <2>1 DEF OutstandingExact
  <2>2. CASE Queued' = Queued \cup {o} /\ outstanding' = outstanding + 1
    <3>1. Cardinality(Queued \cup {o}) = Cardinality(Queued) + 1
      BY <1>1, <1>2, Enqueued, FS_AddElement
    <3> QED BY <1>1, <2>0, <2>2, <3>1 DEF OutstandingExact
  <2> QED BY <1>2, <2>1, <2>2, Enqueued
<1>3. ASSUME Dequeue PROVE OutstandingExact'
  <2>1. hand = Nobody /\ hand' \in Queued /\ Queued' = Queued \ {hand'} /\ hand' # Nobody
    BY <1>1, <1>3, Dequeued
  <2>2. Cardinality(Queued \ {hand'}) = Cardinality(Queued) - 1
    BY <1>1, <2>1, FS_RemoveElement
  <2>3. outstanding' = outstanding
    BY <1>3 DEF Dequeue
  <2> QED BY <1>1, <2>1, <2>2, <2>3 DEF OutstandingExact
<1>4. ASSUME Drop PROVE OutstandingExact'
  <2>1. Cardinality({}) = 0
    BY FS_EmptySet
  <2>2. hand' = hand /\ outstanding' = outstanding - Cardinality(Queued) /\ Queued' = {}
    BY <1>4, Dropped DEF Drop, writerVars
  <2> QED BY <1>1, <2>1, <2>2 DEF OutstandingExact
<1>5. ASSUME Settle PROVE OutstandingExact'
  <2>1. hand # Nobody /\ hand' = Nobody /\ outstanding' = outstanding - 1 /\ Queued' = Queued
    BY <1>5, QueueUntouched DEF Settle, SessionInv, WriterState, Holding
  <2> QED BY <1>1, <2>1 DEF OutstandingExact
<1>6. ASSUME ~Dequeue, ~Drop, ~Settle, \A o \in Op : ~Enqueue(o)
      PROVE  hand' = hand /\ outstanding' = outstanding /\ Queued' = Queued
  <2>1. ASSUME NEW o \in Op, CallerStep(o) \/ Match(o) PROVE UNCHANGED <<hand, outstanding>>
    BY <1>6, <2>1 DEF CallerStep, Insert, Undo, Register, Recheck, Completed, GiveUp, Expire, Match,
       outVars, writerVars
  <2>2. ASSUME \/ KillCloses \/ KillFails \/ KillNotifies \/ OwnerKills
               \/ ReaderStep \/ ReaderEnds \/ BytesOut \/ NetBreaks
        PROVE  UNCHANGED <<hand, outstanding>>
    BY <2>2 DEF KillCloses, KillFails, FailPending, KillNotifies, OwnerKills, ReaderStep, SetReply,
       ReaderTells, ReaderEnds, BytesOut, NetBreaks, outVars, writerVars
  <2>3. ASSUME WriterStep PROVE UNCHANGED <<hand, outstanding>>
    BY <1>6, <2>3 DEF WriterStep, FindNothing, WriterExits, GateFails, Commit, Write, WriteReturns,
       FailItemPending, WriterTells, WriterKills, outVars, writerVars
  <2> QED BY <1>6, <2>1, <2>2, <2>3, Steps, QueueMoves
<1> QED BY <1>1, <1>2, <1>3, <1>4, <1>5, <1>6 DEF OutstandingExact

\* The writer's hand, its failure and what it owes.
LEMMA WriterKept ==
  ASSUME SessionInv, Next
  PROVE  WriterState'
<1>0. WriterState /\ Nobody \notin Op
  BY SessionConstants DEF SessionInv
<1>1. ASSUME ~WriterStep PROVE UNCHANGED writerVars
  BY <1>1, Steps DEF CallerStep, Insert, Enqueue, Undo, Register, Recheck, Completed, GiveUp,
     Expire, Match, Drop, KillCloses, KillFails, FailPending, KillNotifies, OwnerKills,
     ReaderStep, SetReply, ReaderTells, ReaderEnds, BytesOut, NetBreaks
<1>2. ASSUME Dequeue PROVE WriterState'
  <2>1. hand' # Nobody
    BY <1>0, <1>2, Dequeued
  <2> QED BY <1>0, <1>2, <2>1 DEF Dequeue, WriterState, Holding
<1>3. ASSUME WriterStep, ~Dequeue PROVE WriterState'
  BY <1>0, <1>3 DEF WriterStep, FindNothing, WriterExits, GateFails, Commit, Write, WriteReturns,
     Fails,
     FailItemPending, WriterTells, Settle, WriterKills, WriterState, Holding
<1> QED BY <1>0, <1>1, <1>2, <1>3 DEF WriterState, writerVars

\* Kill goes through its steps once.
LEMMA KillKept ==
  ASSUME SessionInv, Next
  PROVE  KillState'
<1>0. KillState /\ kill \in {"none", "drop", "close", "fail", "notify", "done"}
  BY DEF SessionInv, TypeOK
<1>1. closing => closing'
  BY Steps DEF CallerStep, Insert, Enqueue, Undo, Register, Recheck, Completed, GiveUp,
     Expire, Match, Drop, KillCloses, KillFails, FailPending, KillNotifies, OwnerKills, WriterStep,
     Dequeue, FindNothing, WriterExits, GateFails, Commit, Write, WriteReturns, FailItemPending,
     WriterTells,
     Settle, WriterKills, ReaderStep, SetReply, ReaderTells, ReaderEnds, BytesOut, NetBreaks, netVars
<1>2. ASSUME dead PROVE table' \subseteq table
  BY <1>2, Steps DEF CallerStep, Insert, Enqueue, Undo, Register, Recheck, Completed, GiveUp,
     Expire, Match, Drop, KillCloses, KillFails, FailPending, KillNotifies, OwnerKills, WriterStep,
     Dequeue, FindNothing, WriterExits, GateFails, Commit, Write, WriteReturns, FailItemPending,
     WriterTells,
     Settle, WriterKills, ReaderStep, SetReply, ReaderTells, ReaderEnds, BytesOut, NetBreaks, pendVars
<1>3. ASSUME sealed PROVE Queued' = {}
  <2>1. Queued = {}
    BY <1>0, <1>3 DEF KillState
  <2> QED BY <1>3, <2>1, QueueMoves, Enqueued, Dequeued, Dropped
<1>4. ASSUME UNCHANGED killVars \/ BeginKill PROVE KillState'
  BY <1>0, <1>1, <1>2, <1>3, <1>4 DEF killVars, BeginKill, KillState
<1>5. ASSUME Drop PROVE KillState'
  BY <1>0, <1>5, Dropped DEF Drop, KillState
<1>6. ASSUME KillCloses \/ KillFails \/ KillNotifies PROVE KillState'
  <2>1. table' \subseteq table /\ (sealed => Queued' = {})
    BY <1>0, <1>2, <1>3, <1>6 DEF KillState, KillCloses, KillFails, KillNotifies
  <2> QED BY <1>0, <1>1, <1>6, <2>1 DEF KillCloses, KillFails, FailPending, KillNotifies, KillState
<1> QED BY <1>4, <1>5, <1>6, KillMoves

-----------------------------------------------------------------------------
(***************************************************************************)
(* Where frames and operations go.                                         *)
(***************************************************************************)

\* An operation does not go back, and nobody leaves "done".
LEMMA PcMoves ==
  ASSUME SessionInv, Next, NEW u \in Op
  PROVE  /\ pc'[u] = "insert" => pc[u] = "insert"
         /\ pc'[u] = "enqueue" => Fresh(u) /\ (pc[u] = "insert" => ~dead)
         /\ pc[u] = "done" => pc'[u] = "done"
<1>0. pc \in [Op -> OpPc]
  BY DEF SessionInv, TypeOK
<1>1. ASSUME NEW o \in Op, Insert(o) \/ Undo(o) \/ Register(o) \/ Recheck(o) \/ Completed(o) \/ GiveUp(o)
                           \/ Expire(o)
      PROVE  /\ pc'[u] = "insert" => pc[u] = "insert"
             /\ pc'[u] = "enqueue" => Fresh(u) /\ (pc[u] = "insert" => ~dead)
             /\ pc[u] = "done" => pc'[u] = "done"
  BY <1>0, <1>1 DEF Insert, Undo, Register, Recheck, Completed, GiveUp, Expire, Goto, Return, Fresh
<1>2. ASSUME NEW o \in Op, Enqueue(o)
      PROVE  /\ pc'[u] = "insert" => pc[u] = "insert"
             /\ pc'[u] = "enqueue" => Fresh(u) /\ (pc[u] = "insert" => ~dead)
             /\ pc[u] = "done" => pc'[u] = "done"
  BY <1>0, <1>2, Enqueued DEF Enqueue, Fresh
<1>3. ASSUME \A o \in Op : ~CallerStep(o) PROVE UNCHANGED pc
  BY <1>3, Steps DEF Match, Drop, KillCloses, KillFails, FailPending, KillNotifies, OwnerKills,
     WriterStep, Dequeue, FindNothing, WriterExits, GateFails, Commit, Write, WriteReturns,
     FailItemPending,
     WriterTells, Settle, WriterKills, ReaderStep, SetReply, ReaderTells, ReaderEnds, BytesOut,
     NetBreaks, opVars
<1>4. ASSUME UNCHANGED pc PROVE pc'[u] = pc[u]
  BY <1>4
<1> QED BY <1>1, <1>2, <1>3, <1>4 DEF CallerStep, Fresh

\* Only the frame that leaves its lane is taken.
LEMMA TakenGrows ==
  ASSUME SessionInv, Next
  PROVE  Taken' \subseteq Taken \cup {Nobody} \cup (IF Dequeue THEN {hand'} ELSE {})
<1>1. ASSUME ~WriterStep, ~BytesOut PROVE Taken' = Taken
  BY <1>1, Steps DEF CallerStep, Insert, Enqueue, Undo, Register, Recheck, Completed, GiveUp,
     Expire, Match, Drop, KillCloses, KillFails, FailPending, KillNotifies, OwnerKills,
     ReaderStep, SetReply, ReaderTells, ReaderEnds, NetBreaks, writerVars, netVars, Taken
<1>2. ASSUME BytesOut PROVE Taken' \subseteq Taken \cup {Nobody}
  BY <1>2 DEF BytesOut, Taken, writerVars
<1>3. ASSUME WriterStep, ~Dequeue PROVE Taken' \subseteq Taken \cup {Nobody}
  BY <1>3 DEF WriterStep, FindNothing, WriterExits, GateFails, Commit, Write, WriteReturns,
     FailItemPending,
     WriterTells, Settle, WriterKills, Taken, netVars
<1>4. ASSUME Dequeue PROVE Taken' \subseteq Taken \cup {hand'}
  BY <1>4 DEF Dequeue, Taken, netVars
<1> QED BY <1>1, <1>2, <1>3, <1>4

\* A frame that left the queues does not come back.
LEMMA FramesKept ==
  ASSUME SessionInv, Next
  PROVE  FramesOnce'
<1>0. FramesOnce /\ Nobody \notin Op /\ Queued \subseteq Op
  BY SessionConstants, QueuedFinite DEF SessionInv
<1>1. \A u \in Op : Fresh(u)' => Fresh(u)
  BY PcMoves DEF Fresh
<1>2. ASSUME NEW o \in Op, Enqueue(o) PROVE FramesOnce'
  <2>1. Taken' = Taken
    BY <1>2 DEF Enqueue, writerVars, netVars, Taken
  <2>2. o \notin Queued \cup Taken /\ ~Fresh(o)'
    BY <1>2, Enqueued DEF Fresh, SessionInv, TypeOK
  <2>3. Queued' \subseteq Queued \cup {o}
    BY <1>2, Enqueued
  <2> QED BY <1>0, <1>1, <2>1, <2>2, <2>3 DEF FramesOnce
<1>3. ASSUME Dequeue PROVE FramesOnce'
  <2>1. Taken' \subseteq Taken \cup {Nobody, hand'} /\ hand' \in Queued /\ Queued' = Queued \ {hand'}
    BY <1>3, TakenGrows, Dequeued
  <2> QED BY <1>0, <1>1, <2>1 DEF FramesOnce
<1>4. ASSUME ~Dequeue, \A o \in Op : ~Enqueue(o) PROVE FramesOnce'
  <2>1. Queued' \subseteq Queued /\ Taken' \subseteq Taken \cup {Nobody}
    BY <1>4, TakenGrows, QueueMoves, Dropped
  <2> QED BY <1>0, <1>1, <2>1 DEF FramesOnce
<1> QED BY <1>2, <1>3, <1>4

-----------------------------------------------------------------------------
(***************************************************************************)
(* The records.                                                            *)
(***************************************************************************)

\* What a step may settle was not settled, and is told with the same step or owed.
LEMMA DoneGrows ==
  ASSUME SessionInv, Next
  PROVE  /\ table \cap done' = {} \/ table' = {} \/ FailItemPending
         /\ done' \subseteq done \cup table \cup (Queued \cap Replies) \cup ({hand} \cap Replies) \cup Matched
<1>0. /\ Records /\ table \subseteq Calls /\ Calls \cap Replies = {}
  BY SessionConstants DEF SessionInv, TypeOK
<1>1. ASSUME NEW o \in Op, CallerStep(o) \/ Match(o) PROVE done' \subseteq done
  BY <1>1 DEF CallerStep, Insert, Enqueue, Undo, Register, Recheck, Completed, GiveUp, Expire, Match,
     Forget, pendVars
<1>2. ASSUME Drop PROVE done' \subseteq done \cup (Queued \cap Replies)
  BY <1>2 DEF Drop, Publish
<1>3. ASSUME KillFails PROVE done' \subseteq done \cup table /\ table' = {}
  BY <1>3 DEF KillFails, FailPending
<1>4. ASSUME FailItemPending PROVE done' \subseteq done \cup table
  BY <1>4 DEF FailItemPending, Publish
<1>5. ASSUME Settle PROVE done' \subseteq done \cup ({hand} \cap Replies)
  BY <1>5 DEF Settle, Publish
<1>6. ASSUME SetReply PROVE done' \subseteq done \cup Matched
  BY <1>6 DEF SetReply, Publish, Matched
<1>7. ASSUME \/ KillCloses \/ KillNotifies \/ OwnerKills \/ Dequeue \/ FindNothing
             \/ WriterExits \/ GateFails
             \/ Commit \/ Write \/ WriteReturns \/ WriterTells \/ WriterKills \/ ReaderTells
             \/ ReaderEnds \/ BytesOut \/ NetBreaks
      PROVE  done' = done
  BY <1>7 DEF KillCloses, KillNotifies, OwnerKills, Dequeue, FindNothing, WriterExits, GateFails,
     Commit, Write,
     WriteReturns, WriterTells, WriterKills, ReaderTells, ReaderEnds, BytesOut, NetBreaks, pendVars
<1> QED BY <1>0, <1>1, <1>2, <1>3, <1>4, <1>5, <1>6, <1>7, Steps DEF WriterStep, ReaderStep, Records

\* A record enters the table with its caller's first step, and stays until somebody decides.
LEMMA TableMoves ==
  ASSUME SessionInv, Next, NEW u \in Op
  PROVE  /\ u \in table' => u \in table \/ (Insert(u) /\ pc[u] = "insert" /\ pc'[u] = "enqueue")
         /\ u \in table => u \in table' \/ u \in done' \/ u \in Matched' \/ pc'[u] = "done"
<1>0. /\ pc \in [Op -> OpPc] /\ \A o \in table : pc[o] \notin {"insert", "done"}
  BY DEF SessionInv, TypeOK, Records
<1>1. ASSUME NEW o \in Op, CallerStep(o) \/ Match(o)
      PROVE  /\ u \in table' => u \in table \/ (Insert(u) /\ pc[u] = "insert" /\ pc'[u] = "enqueue")
             /\ u \in table => u \in table' \/ u \in Matched' \/ pc'[u] = "done"
  BY <1>0, <1>1 DEF CallerStep, Insert, Enqueue, Undo, Register, Recheck, Completed, GiveUp, Expire,
     Match, Goto, Return, Matched, pendVars
<1>2. ASSUME KillFails PROVE table' = {} /\ table \subseteq done'
  BY <1>2 DEF KillFails, FailPending
<1>3. ASSUME FailItemPending PROVE table' = table \ {hand} /\ {hand} \cap table \subseteq done'
  BY <1>0, <1>3 DEF FailItemPending, Publish
<1>4. ASSUME \/ Drop \/ KillCloses \/ KillNotifies \/ OwnerKills \/ (WriterStep /\ ~FailItemPending)
             \/ ReaderStep \/ ReaderEnds \/ BytesOut \/ NetBreaks
      PROVE  table' = table
  BY <1>4 DEF Drop, KillCloses, KillNotifies, OwnerKills, WriterStep, Dequeue, FindNothing,
     WriterExits, GateFails,
     Commit, Write, WriteReturns, WriterTells, Settle, WriterKills, ReaderStep, SetReply, ReaderTells,
     ReaderEnds, BytesOut, NetBreaks, pendVars
<1> QED BY <1>1, <1>2, <1>3, <1>4, Steps

\* What is settled stays so until its caller has left.
LEMMA DoneStays ==
  ASSUME SessionInv, Next, NEW u \in done
  PROVE  u \in done' \/ pc'[u] = "done"
<1>0. pc \in [Op -> OpPc] /\ u \in Op
  BY DEF SessionInv, TypeOK
<1>1. ASSUME NEW o \in Op, CallerStep(o) \/ Match(o) PROVE u \in done' \/ pc'[u] = "done"
  BY <1>0, <1>1 DEF CallerStep, Insert, Enqueue, Undo, Register, Recheck, Completed, GiveUp, Expire,
     Match, Goto, Return, Forget, pendVars
<1>2. ASSUME ~\E o \in Op : CallerStep(o) \/ Match(o) PROVE done \subseteq done'
  BY <1>2, Steps DEF Drop, KillCloses, KillFails, FailPending, KillNotifies, OwnerKills, WriterStep,
     Dequeue, FindNothing, WriterExits, GateFails, Commit, Write, WriteReturns, FailItemPending,
     WriterTells,
     Settle, WriterKills, ReaderStep, SetReply, ReaderTells, ReaderEnds, BytesOut, NetBreaks, Publish,
     pendVars
<1> QED BY <1>1, <1>2

\* Who leaves is not in the table and is forgotten.
LEMMA LeaveKeeps ==
  ASSUME SessionInv, Next, NEW u \in Op, pc'[u] = "done"
  PROVE  u \notin table' \cup done'
<1>0. /\ pc \in [Op -> OpPc] /\ Records /\ table \subseteq Calls /\ woken \subseteq done
      /\ Calls \cap Replies = {} /\ Calls \cap Tells = {} /\ Replies \cap Tells = {}
  BY SessionConstants DEF SessionInv, TypeOK, Wakes
<1>1. ASSUME NEW o \in Op, Undo(o) \/ Completed(o) \/ GiveUp(o) \/ Expire(o), o = u
      PROVE  u \notin table' \cup done'
  BY <1>0, <1>1 DEF Undo, Completed, GiveUp, Expire, Goto, Return, Forget, Records
<1>2. ASSUME NEW o \in Op, Enqueue(o), o = u PROVE u \notin table' \cup done'
  <2>1. u \notin Calls
    BY <1>0, <1>2, Enqueued
  <2>2. u \notin done /\ u \notin table
    BY <1>0, <1>2, <2>1 DEF Enqueue, Records
  <2> QED BY <1>2, <2>2 DEF Enqueue, pendVars
<1>3. ASSUME NEW o \in Op, Insert(o) \/ Register(o) \/ Recheck(o), o = u
      PROVE  u \notin table' \cup done'
  BY <1>0, <1>3 DEF Insert, Register, Recheck, Goto, Return, Records
<1>4. CASE pc[u] # "done"
  <2>1. ASSUME \A o \in Op : ~CallerStep(o) PROVE UNCHANGED pc
    BY <2>1, Steps DEF Match, Drop, KillCloses, KillFails, FailPending, KillNotifies, OwnerKills,
       WriterStep, Dequeue, FindNothing, WriterExits, GateFails, Commit, Write, WriteReturns,
       FailItemPending,
       WriterTells, Settle, WriterKills, ReaderStep, SetReply, ReaderTells, ReaderEnds, BytesOut,
       NetBreaks, opVars
  <2>2. PICK o \in Op : CallerStep(o)
    BY <1>4, <2>1
  <2>3. ASSUME o # u PROVE pc'[u] = pc[u]
    BY <1>0, <2>2, <2>3, Enqueued DEF CallerStep, Insert, Undo, Register, Recheck, Completed, GiveUp,
       Expire, Goto, Return
  <2> QED BY <1>1, <1>2, <1>3, <1>4, <2>2, <2>3 DEF CallerStep
<1>5. CASE pc[u] = "done"
  <2>1. u \notin table \cup done
    BY <1>0, <1>5 DEF Records
  <2>2. ASSUME NEW S, NEW v, Publish(S, v) PROVE u \notin done'
    BY <1>5, <2>1, <2>2 DEF Publish
  <2>3. ASSUME ~\E S, v : Publish(S, v) PROVE done' \subseteq done \cup table
    BY <2>3, Steps DEF CallerStep, Insert, Enqueue, Undo, Register, Recheck, Completed, GiveUp, Expire,
       Match, Forget, Drop, KillCloses, KillFails, FailPending, KillNotifies, OwnerKills, WriterStep,
       Dequeue, FindNothing, WriterExits, GateFails, Commit, Write, WriteReturns, FailItemPending,
       WriterTells,
       Settle, WriterKills, ReaderStep, SetReply, ReaderTells, ReaderEnds, BytesOut, NetBreaks,
       pendVars
  <2>4. u \notin table'
    BY <1>5, <2>1, TableMoves
  <2> QED BY <2>1, <2>2, <2>3, <2>4
<1> QED BY <1>4, <1>5

LEMMA RecordsKept ==
  ASSUME SessionInv, Next
  PROVE  Records'
<1>0. /\ Records /\ table \subseteq Calls /\ done \subseteq Op /\ FramesOnce /\ pc \in [Op -> OpPc]
      /\ Calls \cap Replies = {} /\ Calls \cap Tells = {} /\ Replies \cap Tells = {}
      /\ Queued \subseteq Op /\ Nobody \notin Op /\ hand \in Op \cup {Nobody}
      /\ matched \in Calls \cup {Nobody} /\ sent \subseteq Op
  BY SessionConstants, QueuedFinite DEF SessionInv, TypeOK
<1>1. table' \cap done' = {}
  <2>1. ASSUME NEW u \in table', u \notin table PROVE u \notin done'
    BY <1>0, <2>1, TypesKept, TableMoves DEF Insert, Records, TypeOK, Op
  <2>2. ASSUME FailItemPending PROVE table' \cap done' = {}
    BY <1>0, <2>2 DEF FailItemPending, Publish, Records
  <2> QED BY <2>1, <2>2, DoneGrows
<1>2. done' \subseteq Calls \cup Replies
  BY <1>0, DoneGrows DEF Records, Matched
<1>3. \A u \in Op : pc'[u] = "insert" => u \in Calls
  BY <1>0, PcMoves DEF Records
<1>4. \A u \in table' \cup done' : pc'[u] \notin {"insert", "done"}
  <2>1. table' \subseteq Op /\ done' \subseteq Op
    BY TypesKept DEF TypeOK, Op
  <2>2. ASSUME NEW u \in table' \cup done', pc'[u] = "insert" PROVE FALSE
    <3>1. pc[u] = "insert" /\ u \in Calls
      BY <1>0, <2>1, <2>2, PcMoves DEF Records
    <3>2. u \notin table \cup done \cup Queued \cup Taken
      BY <1>0, <2>1, <3>1 DEF Records, FramesOnce, Fresh
    <3>3. u \notin Matched
      BY <1>0, <3>2 DEF Records, Taken
    <3> QED BY <2>1, <2>2, <3>2, <3>3, DoneGrows, TableMoves DEF Taken
  <2> QED BY <2>1, <2>2, LeaveKeeps
<1>5. \A u \in done' \cap Replies : pc'[u] # "enqueue" /\ u \notin Queued' \cup {hand'}
  <2> SUFFICES ASSUME NEW u \in done', u \in Replies
               PROVE  pc'[u] # "enqueue" /\ u \notin Queued' \cup {hand'}
    OBVIOUS
  <2>0. u \in Op /\ u # Nobody /\ u \notin table /\ u \notin Matched
    BY <1>0 DEF Op, Records
  <2>1. u \in done \cup Queued \cup {hand}
    BY <2>0, DoneGrows
  <2>2. ~Fresh(u)
    BY <1>0, <2>0, <2>1 DEF Records, FramesOnce, Taken, Fresh
  <2>3. ASSUME u \in done PROVE u \notin Queued' \cup {hand'}
    <3>1. u \notin Queued \cup {hand} /\ \A o \in Op : Enqueue(o) => o # u
      BY <1>0, <2>0, <2>3 DEF Records, Enqueue
    <3>2. u \notin Queued'
      BY <2>0, <3>1, QueueMoves, Enqueued, Dropped, Dequeued
    <3>3. hand' \in {hand, Nobody} \cup Queued
      BY Steps, Dequeued DEF CallerStep, Insert, Enqueue, Undo, Register, Recheck, Completed, GiveUp,
         Expire, Match, Drop, KillCloses, KillFails, FailPending, KillNotifies, OwnerKills, WriterStep,
         FindNothing, WriterExits, GateFails, Commit, Write, WriteReturns, FailItemPending,
         WriterTells,
         Settle, WriterKills, ReaderStep, SetReply, ReaderTells, ReaderEnds, BytesOut, NetBreaks,
         writerVars
    <3> QED BY <2>0, <3>1, <3>2, <3>3
  <2>4. ASSUME u \notin done PROVE u \notin Queued' \cup {hand'}
    <3>1. Drop \/ Settle
      BY <2>0, <2>4, Steps DEF CallerStep, Insert, Enqueue, Undo, Register, Recheck, Completed, GiveUp,
         Expire, Match, Forget, KillCloses, KillFails, FailPending, KillNotifies, OwnerKills, WriterStep,
         Dequeue, FindNothing, WriterExits, GateFails, Commit, Write, WriteReturns,
         FailItemPending, WriterTells,
         WriterKills, ReaderStep, SetReply, ReaderTells, ReaderEnds, BytesOut, NetBreaks, Publish,
         Matched, pendVars
    <3>2. CASE Drop
      <4>1. u \in Queued /\ hand' = hand
        BY <2>4, <3>2 DEF Drop, Publish, writerVars
      <4> QED BY <1>0, <3>2, <4>1, Dropped DEF FramesOnce, Taken
    <3>3. CASE Settle
      <4>1. u = hand /\ hand' = Nobody /\ Queued' = Queued
        BY <2>4, <3>3, QueueUntouched DEF Settle, Publish
      <4> QED BY <1>0, <2>0, <4>1 DEF FramesOnce, Taken
    <3> QED BY <3>1, <3>2, <3>3
  <2> QED BY <2>0, <2>2, <2>3, <2>4, PcMoves
<1>6. Matched' \subseteq (sent' \cap Calls) \ (table' \cup done') /\ (reader' = "tell" => matched' \in Calls)
  <2>1. sent \subseteq sent'
    BY Steps DEF CallerStep, Insert, Enqueue, Undo, Register, Recheck, Completed, GiveUp,
       Expire, Match, Drop, KillCloses, KillFails, FailPending, KillNotifies, OwnerKills, WriterStep,
       Dequeue, FindNothing, WriterExits, GateFails, Commit, Write, WriteReturns, FailItemPending,
       WriterTells,
       Settle, WriterKills, ReaderStep, SetReply, ReaderTells, ReaderEnds, BytesOut, NetBreaks,
       netVars
  <2>2. ASSUME NEW o \in Op, Match(o)
        PROVE  Matched' \subseteq (sent' \cap Calls) \ (table' \cup done') /\ reader' # "tell"
    BY <1>0, <2>1, <2>2 DEF Match, Matched, Records
  <2>3. ASSUME ReaderStep \/ ReaderEnds
        PROVE  Matched' = {} /\ (reader' = "tell" => matched' \in Calls)
    BY <1>0, <2>3 DEF ReaderStep, SetReply, ReaderTells, ReaderEnds, Matched, Records
  <2>4. ASSUME UNCHANGED readerVars
        PROVE  Matched' \subseteq (sent' \cap Calls) \ (table' \cup done')
               /\ (reader' = "tell" => matched' \in Calls)
    <3>1. Matched' = Matched /\ Matched \subseteq (sent \cap Calls) \ (table \cup done)
      BY <1>0, <2>4 DEF Matched, Records, readerVars
    <3>2. ASSUME NEW u \in Matched PROVE u \notin table' \cup done'
      <4>1. u \in Op /\ u \notin table /\ u \notin Queued \cup Replies /\ pc[u] # "insert"
            /\ u \notin done
        BY <1>0, <3>1 DEF FramesOnce, Taken, Fresh, Op
      <4>2. u \notin table'
        BY <4>1, TableMoves
      <4>3. u \notin done'
        BY <2>4, <4>1, Steps DEF CallerStep, Insert, Enqueue, Undo, Register, Recheck, Completed, GiveUp,
           Expire, Match, Forget, Drop, KillCloses, KillFails, FailPending, KillNotifies, OwnerKills,
           WriterStep, Dequeue, FindNothing, WriterExits, GateFails, Commit, Write, WriteReturns,
           FailItemPending,
           WriterTells, Settle, WriterKills, ReaderStep, SetReply, ReaderTells, ReaderEnds, BytesOut,
           NetBreaks, Publish, pendVars, readerVars
      <4> QED BY <4>2, <4>3
    <3> QED BY <1>0, <2>1, <2>4, <3>1, <3>2 DEF Records, readerVars
  <2>5. ASSUME ~(ReaderStep \/ ReaderEnds), \A o \in Op : ~Match(o) PROVE UNCHANGED readerVars
    BY <2>5, Steps DEF CallerStep, Insert, Enqueue, Undo, Register, Recheck, Completed, GiveUp,
       Expire, Drop, KillCloses, KillFails, FailPending, KillNotifies, OwnerKills, WriterStep,
       Dequeue, FindNothing, WriterExits, GateFails, Commit, Write, WriteReturns, FailItemPending,
       WriterTells,
       Settle, WriterKills, BytesOut, NetBreaks
  <2> QED BY <2>2, <2>3, <2>4, <2>5
<1> QED BY <1>1, <1>2, <1>3, <1>4, <1>5, <1>6 DEF Records

\* A waiter leaves woken only with its operation.
LEMMA WokenMoves ==
  ASSUME SessionInv, Next, NEW u \in Op
  PROVE  /\ u \in woken => u \in woken' \/ pc'[u] = "done"
         /\ u \in woken' => u \in done'
<1>0. /\ pc \in [Op -> OpPc] /\ Wakes /\ woken \subseteq done
      /\ killWake \subseteq Calls /\ writerWake \subseteq Calls
      /\ reader = "tell" => matched \in Calls
  BY DEF SessionInv, TypeOK, Wakes, Records
<1>1. ASSUME NEW o \in Op, CallerStep(o)
      PROVE  /\ u \in woken => u \in woken' \/ pc'[u] = "done"
             /\ u \in woken' => u \in done'
  BY <1>0, <1>1 DEF CallerStep, Insert, Enqueue, Undo, Register, Recheck, Completed, GiveUp, Expire,
     Goto, Return, Forget, pendVars
<1>2. \A o \in Calls : NotifyDue(o) /\ pc[o] # "done" => o \in done
  BY <1>0 DEF Wakes
<1>3. ASSUME KillNotifies \/ WriterTells \/ ReaderTells PROVE woken \subseteq woken' /\ woken' \subseteq done'
  BY <1>0, <1>2, <1>3 DEF KillNotifies, WriterTells, ReaderTells, Notified, NotifyDue, pendVars
<1>4. ASSUME Drop \/ Settle PROVE woken \subseteq woken' /\ woken' \subseteq done'
  BY <1>0, <1>4 DEF Drop, Settle, Notified, Publish
<1>5. ASSUME ~\E o \in Op : CallerStep(o), ~(KillNotifies \/ WriterTells \/ ReaderTells \/ Drop \/ Settle)
      PROVE  woken' = woken /\ woken' \subseteq done'
  <2>1. woken' = woken
    BY <1>5, Steps DEF Match, KillCloses, KillFails, FailPending, OwnerKills,
       WriterStep, Dequeue, FindNothing, WriterExits, GateFails, Commit, Write, WriteReturns,
       FailItemPending,
       WriterKills, ReaderStep, SetReply, ReaderEnds, BytesOut, NetBreaks, opVars
  <2>2. done \subseteq done'
    BY <1>5, Steps DEF Match, KillCloses, KillFails, FailPending, OwnerKills,
       WriterStep, Dequeue, FindNothing, WriterExits, GateFails, Commit, Write, WriteReturns,
       FailItemPending,
       WriterKills, ReaderStep, SetReply, ReaderEnds, BytesOut, NetBreaks, Publish, pendVars
  <2> QED BY <1>0, <2>1, <2>2
<1> QED BY <1>1, <1>3, <1>4, <1>5

\* A notification that is owed is made.
LEMMA DueMoves ==
  ASSUME SessionInv, Next, NEW u \in Calls
  PROVE  /\ NotifyDue(u)' => NotifyDue(u) \/ u \in done' \/ pc'[u] = "done"
         /\ NotifyDue(u) => \/ NotifyDue(u)' \/ u \in woken' \/ pc'[u] = "done"
                            \/ pc[u] \notin {"recheck", "parked"}
<1>0. /\ pc \in [Op -> OpPc] /\ KillState /\ WriterState /\ Records /\ u \in Op
      /\ \A o \in table : pc[o] # "done"
  BY DEF SessionInv, TypeOK, Records, Op
<1>1. ASSUME UNCHANGED <<killWake, writerWake, readerVars>> PROVE NotifyDue(u)' = NotifyDue(u)
  BY <1>1 DEF NotifyDue, readerVars
<1>2. ASSUME KillFails
      PROVE  /\ NotifyDue(u)' => NotifyDue(u) \/ u \in done'
             /\ NotifyDue(u) => NotifyDue(u)'
  BY <1>0, <1>2 DEF KillFails, FailPending, KillState, NotifyDue, readerVars, writerVars
<1>3. ASSUME FailItemPending
      PROVE  /\ NotifyDue(u)' => NotifyDue(u) \/ u \in done'
             /\ NotifyDue(u) => NotifyDue(u)'
  BY <1>0, <1>3 DEF FailItemPending, WriterState, NotifyDue, readerVars, killVars, Publish
<1>4. ASSUME KillNotifies \/ WriterTells \/ ReaderTells
      PROVE  /\ NotifyDue(u)' => NotifyDue(u)
             /\ NotifyDue(u) => NotifyDue(u)' \/ u \in woken' \/ pc[u] \notin {"recheck", "parked"}
  BY <1>0, <1>4 DEF KillNotifies, WriterTells, ReaderTells, Notified, NotifyDue, readerVars,
     writerVars, killVars
<1>5. ASSUME SetReply
      PROVE  /\ NotifyDue(u)' => NotifyDue(u) \/ u \in done' \/ pc[u] = "done"
             /\ NotifyDue(u) => NotifyDue(u)'
             /\ pc' = pc
  BY <1>0, <1>5 DEF SetReply, Publish, NotifyDue, writerVars, killVars, opVars
<1>6. ASSUME NEW o \in Op, Match(o) PROVE NotifyDue(u)' = NotifyDue(u)
  BY <1>6 DEF Match, NotifyDue, writerVars, killVars
<1>7. ASSUME ReaderEnds PROVE NotifyDue(u)' = NotifyDue(u)
  BY <1>7 DEF ReaderEnds, BeginKill, NotifyDue, writerVars
<1>8. ASSUME \A o \in Op : ~Match(o),
             ~(KillFails \/ FailItemPending \/ KillNotifies \/ WriterTells \/ ReaderTells \/ SetReply
               \/ ReaderEnds)
      PROVE  UNCHANGED <<killWake, writerWake, readerVars>>
  <2>1. ASSUME NEW o \in Op, CallerStep(o) PROVE UNCHANGED <<killWake, writerWake, readerVars>>
    BY <2>1 DEF CallerStep, Insert, Enqueue, Undo, Register, Recheck, Completed, GiveUp, Expire,
       killVars, writerVars
  <2>2. ASSUME Drop \/ KillCloses \/ OwnerKills \/ BytesOut \/ NetBreaks
        PROVE  UNCHANGED <<killWake, writerWake, readerVars>>
    BY <2>2 DEF Drop, KillCloses, OwnerKills, BeginKill, BytesOut, NetBreaks, killVars, writerVars
  <2>3. ASSUME Dequeue \/ FindNothing \/ WriterExits \/ GateFails \/ Commit \/ Write
                       \/ WriteReturns \/ Settle
               \/ WriterKills
        PROVE  UNCHANGED <<killWake, writerWake, readerVars>>
    BY <2>3 DEF Dequeue, FindNothing, WriterExits, GateFails, Commit, Write, WriteReturns, Settle,
       WriterKills,
       BeginKill, killVars
  <2> QED BY <1>8, <2>1, <2>2, <2>3, Steps DEF WriterStep, ReaderStep
<1> QED BY <1>1, <1>2, <1>3, <1>4, <1>5, <1>6, <1>7, <1>8, PcMoves

LEMMA WakesKept ==
  ASSUME SessionInv, Next
  PROVE  Wakes'
<1>0. /\ Wakes /\ Records /\ pc \in [Op -> OpPc] /\ Calls \subseteq Op /\ Calls \cap Replies = {}
      /\ woken' \subseteq Op
  BY SessionConstants, TypesKept DEF SessionInv, TypeOK, Op
<1>1. woken' \subseteq done'
  BY <1>0, WokenMoves
<1>2. \A u \in Calls : NotifyDue(u)' => u \in done' \/ pc'[u] = "done"
  BY <1>0, DueMoves, DoneStays, PcMoves DEF Wakes
<1>3. ASSUME NEW u \in Calls, pc'[u] = "parked", u \in done'
      PROVE  u \in woken' \/ NotifyDue(u)'
  <2>1. CASE pc[u] # "parked"
    <3>1. Recheck(u)
      <4>1. ASSUME \A o \in Op : ~CallerStep(o) PROVE pc' = pc
        BY <4>1, Steps DEF Match, Drop, KillCloses, KillFails, FailPending, KillNotifies, OwnerKills,
           WriterStep, Dequeue, FindNothing, WriterExits, GateFails, Commit, Write, WriteReturns,
           FailItemPending,
           WriterTells, Settle, WriterKills, ReaderStep, SetReply, ReaderTells, ReaderEnds, BytesOut,
           NetBreaks, opVars
      <4>2. PICK o \in Op : CallerStep(o)
        BY <1>3, <2>1, <4>1
      <4>3. ~Enqueue(o)
        BY <1>0, <1>3, <2>1, Enqueued
      <4> QED BY <1>0, <1>3, <2>1, <4>2, <4>3 DEF CallerStep, Insert, Undo, Register, Recheck,
              Completed, GiveUp, Expire, Goto, Return
    <3> QED BY <1>3, <3>1 DEF Recheck, pendVars
  <2>2. CASE pc[u] = "parked" /\ u \in done
    <3>1. u \in woken \/ NotifyDue(u)
      BY <1>0, <2>2 DEF Wakes, NoLostWakeup
    <3> QED BY <1>0, <1>3, <2>2, <3>1, WokenMoves, DueMoves
  <2>3. CASE pc[u] = "parked" /\ u \notin done
    <3>1. KillFails \/ FailItemPending \/ SetReply
      BY <1>0, <1>3, <2>3, Steps DEF CallerStep, Insert, Enqueue, Undo, Register, Recheck, Completed,
         GiveUp, Expire, Match, Forget, Drop, KillCloses, KillNotifies, OwnerKills,
         WriterStep, Dequeue, FindNothing, WriterExits, GateFails, Commit, Write, WriteReturns,
         WriterTells, Settle, WriterKills, ReaderStep, ReaderTells, ReaderEnds, BytesOut,
         NetBreaks, Publish, pendVars
    <3> QED BY <1>3, <2>3, <3>1 DEF KillFails, FailPending, FailItemPending, SetReply, Publish,
            NotifyDue, readerVars
  <2> QED BY <2>1, <2>2, <2>3
<1>4. ASSUME NEW u \in Calls, pc'[u] \notin {"insert", "done"}
      PROVE  u \in table' \cup done' \cup Matched'
  <2>1. CASE pc[u] = "insert"
    BY <1>0, <1>3, <1>4, <2>1, Steps DEF CallerStep, Insert, Enqueue, Undo, Register, Recheck,
       Completed, GiveUp, Expire, Goto, Return, Match, Drop, KillCloses, KillFails, FailPending,
       KillNotifies, OwnerKills, WriterStep, Dequeue, FindNothing, WriterExits, GateFails, Commit,
       Write,
       WriteReturns, FailItemPending, WriterTells, Settle, WriterKills, ReaderStep, SetReply,
       ReaderTells, ReaderEnds, BytesOut, NetBreaks, opVars
  <2>2. CASE pc[u] # "insert"
    <3>1. pc[u] # "done" /\ u \in table \cup done \cup Matched
      BY <1>0, <1>4, <2>2, PcMoves DEF Wakes
    <3>2. u \in Matched => u \in Matched' \cup done'
      <4>1. ASSUME SetReply PROVE Matched \subseteq done' \cup {o \in Matched : pc[o] = "done"}
        BY <4>1 DEF SetReply, Publish, Matched
      <4>2. ASSUME ~SetReply, Matched # {} PROVE Matched' = Matched
        BY <4>2, Steps DEF CallerStep, Insert, Enqueue, Undo, Register, Recheck, Completed, GiveUp,
           Expire, Match, Drop, KillCloses, KillFails, FailPending, KillNotifies, OwnerKills, WriterStep,
           Dequeue, FindNothing, WriterExits, GateFails, Commit, Write, WriteReturns,
           FailItemPending, WriterTells,
           Settle, WriterKills, ReaderStep, ReaderTells, ReaderEnds, BytesOut, NetBreaks, readerVars,
           Matched
      <4> QED BY <3>1, <4>1, <4>2
    <3> QED BY <1>0, <1>4, <3>1, <3>2, TableMoves, DoneStays
  <2> QED BY <2>1, <2>2
<1> QED BY <1>1, <1>2, <1>3, <1>4 DEF Wakes, NoLostWakeup

-----------------------------------------------------------------------------
(***************************************************************************)
(* What a caller may believe of its frame.                                 *)
(***************************************************************************)

\* What the connection has taken grows by Write alone, and only while it is open.
LEMMA AcceptedMoves ==
  ASSUME SessionInv, Next
  PROVE  /\ closing => closing'
         /\ \/ Accepted' \subseteq Accepted \cup {Nobody}
            \/ /\ Write /\ ~closing /\ writer = "write" /\ hand' = hand
               /\ Accepted' \subseteq Accepted \cup {hand}
<1>0. hand = Nobody \/ writer \in Holding
  BY DEF SessionInv, WriterState
<1>1. ASSUME ~WriterStep, ~BytesOut PROVE Accepted' = Accepted /\ (closing => closing')
  <2>1. ASSUME NEW o \in Op, CallerStep(o) \/ Match(o) PROVE UNCHANGED <<writerVars, netVars>>
    BY <2>1 DEF CallerStep, Insert, Enqueue, Undo, Register, Recheck, Completed, GiveUp, Expire, Match
  <2>2. ASSUME Drop \/ KillFails \/ KillNotifies \/ OwnerKills \/ ReaderStep \/ ReaderEnds
        PROVE  UNCHANGED <<writerVars, netVars>>
    BY <2>2 DEF Drop, KillFails, FailPending, KillNotifies, OwnerKills, ReaderStep, SetReply,
       ReaderTells, ReaderEnds
  <2>3. ASSUME KillCloses \/ NetBreaks
        PROVE  UNCHANGED <<writerVars, kernel, sent>> /\ closing'
    BY <2>3 DEF KillCloses, NetBreaks
  <2> QED BY <1>1, <2>1, <2>2, <2>3, Steps DEF writerVars, netVars, Accepted
<1>2. ASSUME BytesOut PROVE Accepted' \subseteq Accepted \cup {Nobody} /\ closing' = closing
  BY <1>2 DEF BytesOut, Accepted, writerVars
<1>3. ASSUME WriterStep, ~Write PROVE Accepted' \subseteq Accepted \cup {Nobody} /\ closing' = closing
  BY <1>3 DEF WriterStep, Dequeue, FindNothing, WriterExits, GateFails, Commit, WriteReturns,
     Fails, FailItemPending,
     WriterTells, Settle, WriterKills, Accepted, netVars
<1>4. ASSUME Write
      PROVE  /\ closing' = closing /\ writer = "write" /\ hand' = hand
             /\ \/ Accepted' \subseteq Accepted
                \/ ~closing /\ Accepted' \subseteq Accepted \cup {hand}
  BY <1>4 DEF Write, Fails, Accepted
<1> QED BY <1>1, <1>2, <1>3, <1>4

\* A step that enters "write" commits the call.
LEMMA CommittedKept ==
  ASSUME SessionInv, Next
  PROVE  CommittedFirst'
<1>0. /\ CommittedFirst /\ Records /\ Nobody \notin Op /\ table' \subseteq Op /\ table' \subseteq Calls
      /\ table \subseteq Calls /\ pc \in [Op -> OpPc] /\ FramesOnce /\ Calls \subseteq Op
      /\ woken \subseteq done
  BY SessionConstants, TypesKept DEF SessionInv, TypeOK, Op, Fates, Wakes
<1> SUFFICES ASSUME NEW u \in table', (u \in Accepted' \/ (u = hand' /\ writer' = "write"))
             PROVE  u \in committed'
  BY DEF CommittedFirst
<1>1. u \in Op /\ u # Nobody
  BY <1>0
<1>2. u \in Accepted' => u \in Accepted \/ (u = hand /\ writer = "write")
  BY <1>1, AcceptedMoves
<1>3. u = hand' /\ writer' = "write" => u = hand /\ writer \in {"gate", "write"}
  BY Steps DEF CallerStep, Insert, Enqueue, Undo, Register, Recheck, Completed, GiveUp,
     Expire, Match, Drop, KillCloses, KillFails, FailPending, KillNotifies, OwnerKills, WriterStep,
     Dequeue, FindNothing, WriterExits, GateFails, Commit, Write, WriteReturns, Fails,
     FailItemPending, WriterTells,
     Settle, WriterKills, ReaderStep, SetReply, ReaderTells, ReaderEnds, BytesOut, NetBreaks, writerVars
<1>4. u \in Accepted \/ u = hand
  BY <1>2, <1>3
<1>5. u \in table
  <2>1. ASSUME u \notin table PROVE Fresh(u)
    BY <1>1, <2>1, TableMoves DEF Fresh
  <2>2. u \in Taken
    BY <1>1, <1>4 DEF Accepted, Taken
  <2> QED BY <1>0, <1>1, <2>1, <2>2 DEF FramesOnce
<1>6. CASE u \in committed
  <2>1. ASSUME NEW o \in Op, CallerStep(o) PROVE u \in committed'
    <3>1. ASSUME o = u, ~UNCHANGED committed PROVE u \notin table'
      BY <1>0, <1>1, <2>1, <3>1, LeaveKeeps DEF CallerStep, Insert, Enqueue, Undo, Register, Recheck,
         Completed, GiveUp, Expire, Goto, Return, pendVars
    <3> QED BY <1>6, <2>1, <3>1 DEF CallerStep, Insert, Enqueue, Undo, Register, Recheck,
         Completed, GiveUp, Expire, Forget, pendVars
  <2>2. ASSUME \A o \in Op : ~CallerStep(o) PROVE committed \subseteq committed'
    BY <2>2, Steps DEF Match, Drop, KillCloses, KillFails, FailPending, KillNotifies, OwnerKills,
       WriterStep, Dequeue, FindNothing, WriterExits, GateFails, Commit, Write, WriteReturns,
       FailItemPending,
       WriterTells, Settle, WriterKills, ReaderStep, SetReply, ReaderTells, ReaderEnds, BytesOut,
       NetBreaks, pendVars
  <2> QED BY <1>6, <2>1, <2>2
<1>7. CASE u \notin committed
  <2>1. ~(u \in Accepted) /\ ~(u = hand /\ writer = "write")
    BY <1>0, <1>5, <1>7 DEF CommittedFirst
  <2>2. u = hand /\ writer = "gate" /\ writer' = "write"
    BY <1>2, <1>3, <2>1
  <2>3. Commit
    BY <2>2, Steps DEF CallerStep, Insert, Enqueue, Undo, Register, Recheck, Completed, GiveUp,
       Expire, Match, Drop, KillCloses, KillFails, FailPending, KillNotifies, OwnerKills, WriterStep,
       Dequeue, FindNothing, WriterExits, GateFails, Write, WriteReturns, Fails, FailItemPending,
       WriterTells,
       Settle, WriterKills, ReaderStep, SetReply, ReaderTells, ReaderEnds, BytesOut, NetBreaks, writerVars
  <2> QED BY <1>5, <2>2, <2>3 DEF Commit
<1> QED BY <1>6, <1>7

\* What is out stays out.
LEMMA OutStays ==
  ASSUME SessionInv, Next, NEW u \in Op, Out(u)
  PROVE  Out(u)'
<1>0. u # Nobody /\ (dead => dead') /\ (closing => closing')
  <2>1. dead => dead'
    BY KillMoves DEF killVars, BeginKill, Drop, KillCloses, KillFails, FailPending, KillNotifies
  <2> QED BY <2>1, SessionConstants, AcceptedMoves
<1>1. u \notin Accepted'
  BY <1>0, AcceptedMoves DEF Out
<1>2. u \notin Queued'
  <2>1. ASSUME NEW o \in Op, Enqueue(o) PROVE u \notin Queued'
    <3>1. CASE Queued' = Queued
      BY <3>1 DEF Out
    <3>2. CASE Queued' = Queued \cup {o} /\ ~dead
      BY <2>1, <3>2 DEF Enqueue, Out
    <3> QED BY <2>1, <3>1, <3>2, Enqueued
  <2> QED BY <2>1, QueueMoves, Dropped, Dequeued DEF Out
<1>3. u = hand' => closing'
  <2>1. ASSUME ~Dequeue PROVE hand' \in {hand, Nobody}
    BY <2>1, Steps DEF CallerStep, Insert, Enqueue, Undo, Register, Recheck, Completed, GiveUp,
       Expire, Match, Drop, KillCloses, KillFails, FailPending, KillNotifies, OwnerKills, WriterStep,
       FindNothing, WriterExits, GateFails, Commit, Write, WriteReturns, FailItemPending,
       WriterTells,
       Settle, WriterKills, ReaderStep, SetReply, ReaderTells, ReaderEnds, BytesOut, NetBreaks,
       writerVars
  <2> QED BY <1>0, <2>1, Dequeued DEF Out
<1>4. pc'[u] # "insert" /\ (pc'[u] = "enqueue" => dead')
  BY <1>0, PcMoves DEF Out, Fresh
<1> QED BY <1>1, <1>2, <1>3, <1>4 DEF Out

\* Who is told "closed" by this step is out.
LEMMA ClosedIsOut ==
  ASSUME SessionInv, Next, NEW u \in Op, ~Closed(u), Closed(u)'
  PROVE  Out(u)'
<1>0. /\ TypeOK /\ FramesOnce /\ KillState /\ CommittedFirst /\ Records /\ Nobody \notin Op
      /\ pc \in [Op -> OpPc] /\ result \in [Op -> Result] /\ outcome \in [Op -> OutcomeSet]
      /\ Calls \cap Replies = {}
  BY SessionConstants DEF SessionInv, TypeOK, Fates, Result
<1>1. CASE Insert(u)
  <2>1. Fresh(u) /\ u \notin Queued \cup Taken
    BY <1>0, <1>1 DEF Insert, Fresh, FramesOnce
  <2>2. dead
    BY <1>0, <1>1 DEF Insert, Closed, pendVars
  <2>3. pc'[u] = "done"
    BY <1>0, <1>1, <2>2 DEF Insert, Return, Goto
  <2>4. Queued' = Queued /\ Taken' = Taken /\ Accepted' = Accepted
    BY <1>1, QueueUntouched DEF Insert, outVars, writerVars, netVars, Taken, Accepted
  <2> QED BY <2>1, <2>3, <2>4 DEF Out, Taken, Accepted
<1>2. CASE Enqueue(u)
  <2>1. u \notin Queued \cup Taken
    BY <1>2, Enqueued
  <2>2. outcome' = outcome /\ Taken' = Taken /\ Accepted' = Accepted
    BY <1>2 DEF Enqueue, pendVars, writerVars, netVars, Taken, Accepted
  <2>3. result'[u] \in {"closed", "moved", "overloaded"} /\ result'[u] # result[u]
    BY <2>2 DEF Closed
  <2>4. Queued' = Queued /\ pc'[u] \in {"undo", "done"}
    BY <1>0, <1>2, <2>3, Enqueued
  <2> QED BY <2>1, <2>2, <2>4 DEF Out, Taken, Accepted
<1>3. CASE Drop
  <2>1. u \in Queued \cap Replies
    BY <1>0, <1>3 DEF Drop, Publish, Closed
  <2>2. u \notin Taken /\ ~Fresh(u)
    BY <1>0, <2>1 DEF FramesOnce
  <2>3. Queued' = {} /\ Taken' = Taken /\ Accepted' = Accepted /\ pc' = pc
    BY <1>3, Dropped DEF Drop, writerVars, netVars, Taken, Accepted
  <2> QED BY <2>2, <2>3 DEF Out, Taken, Accepted, Fresh
<1>4. CASE KillFails
  <2>1. u \in table /\ u \notin committed
    BY <1>0, <1>4 DEF KillFails, FailPending, Closed, opVars
  <2>2. u \notin Accepted /\ pc[u] # "insert"
    BY <1>0, <2>1 DEF CommittedFirst, Records
  <2>3. closing /\ dead /\ Queued = {}
    BY <1>0, <1>4 DEF KillFails, FailPending, KillState
  <2>4. Queued' = Queued /\ Accepted' = Accepted /\ UNCHANGED <<pc, dead, closing>>
    BY <1>4, QueueUntouched DEF KillFails, FailPending, outVars, opVars, writerVars, netVars, Accepted
  <2> QED BY <2>2, <2>3, <2>4 DEF Out
<1>5. ASSUME NEW o \in Op, CallerStep(o), ~Insert(u), ~Enqueue(u) PROVE Closed(u)' => Closed(u)
  <2>1. CASE Insert(o) \/ Enqueue(o)
    <3>1. o # u
      BY <1>5, <2>1
    <3>2. result'[u] = result[u] /\ outcome' = outcome
      BY <1>0, <2>1, <3>1, Enqueued DEF Insert, Return, Enqueue, pendVars
    <3> QED BY <3>2 DEF Closed
  <2>2. CASE Undo(o) \/ Register(o) \/ Recheck(o)
    BY <1>0, <2>2 DEF Undo, Register, Recheck, Forget, Closed, pendVars
  <2>3. CASE Completed(o) \/ GiveUp(o) \/ Expire(o)
    <3>1. outcome'[u] \in {outcome[u], "unset"}
      BY <1>0, <2>3 DEF Completed, GiveUp, Expire, Forget, pendVars
    <3>2. result'[u] \in {result[u], outcome[u], "unknown", "gaveUp"}
      BY <1>0, <2>3 DEF Completed, GiveUp, Expire, Return
    <3>3. outcome[u] \notin {"moved", "overloaded"}
      BY <1>0 DEF OutcomeSet
    <3> QED BY <3>1, <3>2, <3>3 DEF Closed
  <2> QED BY <1>5, <2>1, <2>2, <2>3 DEF CallerStep
<1>6. ASSUME WriterStep \/ ReaderStep PROVE Closed(u)' => Closed(u)
  <2>1. ASSUME NEW S, NEW v, Publish(S, v), v # "closed", result' = result
        PROVE  Closed(u)' => Closed(u)
    BY <1>0, <2>1 DEF Publish, Closed
  <2>2. CASE FailItemPending
    <3>1. failure # "closed" /\ Publish({hand} \cap table, failure) /\ result' = result
      BY <1>0, <2>2 DEF FailItemPending, TypeOK, opVars
    <3> QED BY <2>1, <3>1
  <2>3. CASE Settle
    <3> DEFINE v == IF failure = "none" THEN "ok" ELSE failure
    <3>1. v # "closed" /\ Publish({hand} \cap Replies, v) /\ result' = result
      BY <1>0, <2>3 DEF Settle, TypeOK
    <3> HIDE DEF v
    <3> QED BY <2>1, <3>1
  <2>4. CASE SetReply
    <3>1. Publish({matched}, "reply") /\ result' = result
      BY <2>4 DEF SetReply, opVars
    <3> QED BY <2>1, <3>1
  <2>5. ASSUME (WriterStep /\ ~FailItemPending /\ ~Settle) \/ ReaderTells
        PROVE  UNCHANGED <<outcome, result>>
    BY <2>5 DEF WriterStep, Dequeue, FindNothing, WriterExits, GateFails, Commit, Write,
       WriteReturns,
       WriterTells, WriterKills, ReaderTells, opVars, pendVars
  <2> QED BY <1>6, <2>2, <2>3, <2>4, <2>5 DEF Closed, ReaderStep
<1>7. ASSUME \/ KillCloses \/ KillNotifies \/ OwnerKills \/ ReaderEnds \/ BytesOut \/ NetBreaks
             \/ \E o \in Op : Match(o)
      PROVE  Closed(u)' => Closed(u)
  BY <1>7 DEF KillCloses, KillNotifies, OwnerKills, ReaderEnds, BytesOut, NetBreaks, Match,
     Closed, opVars, pendVars
<1> QED BY <1>1, <1>2, <1>3, <1>4, <1>5, <1>6, <1>7, Steps

LEMMA FatesKept ==
  ASSUME SessionInv, Next
  PROVE  Fates'
<1>1. ASSUME NEW u \in Op, Closed(u)' PROVE Out(u)'
  BY <1>1, OutStays, ClosedIsOut DEF SessionInv, Fates
<1> QED BY <1>1, CommittedKept DEF Fates

-----------------------------------------------------------------------------
(***************************************************************************)
(* The theorems.                                                           *)
(***************************************************************************)

LEMMA SessionKept == SessionInv /\ [Next]_vars => SessionInv'
<1>1. ASSUME SessionInv, Next PROVE SessionInv'
  BY <1>1, TypesKept, LanesStay, FramesKept, WriterKept, KillKept, RecordsKept, WakesKept, FatesKept,
     CountKept DEF SessionInv
<1>2. ASSUME SessionInv, UNCHANGED vars PROVE SessionInv'
  <2>1. /\ UNCHANGED <<dead, sealed, kill, killWake>> /\ UNCHANGED <<queue, credit, outstanding>>
        /\ UNCHANGED <<table, committed, done, outcome>> /\ UNCHANGED <<pc, woken, result>>
        /\ UNCHANGED <<writer, hand, failure, writerWake>> /\ UNCHANGED <<reader, matched>>
        /\ UNCHANGED <<closing, kernel, sent>>
    BY <1>2 DEF vars, killVars, outVars, pendVars, opVars, writerVars, readerVars, netVars
  <2>2. Queued' = Queued
    BY <2>1 DEF Queued
  <2>3. TypeOK'
    BY <1>2, <2>1 DEF SessionInv, TypeOK
  <2>4. LanesKept' /\ FramesOnce'
    BY <1>2, <2>1, QueueUntouched DEF SessionInv, FramesOnce, Taken, Fresh
  <2>5. WriterState'
    BY <1>2, <2>1 DEF SessionInv, WriterState
  <2>6. KillState'
    BY <1>2, <2>1, <2>2 DEF SessionInv, KillState
  <2>7. OutstandingExact'
    BY <1>2, <2>1, <2>2 DEF SessionInv, OutstandingExact
  <2>8. Records'
    BY <1>2, <2>1, <2>2 DEF SessionInv, Records, Matched
  <2>9. Wakes'
    BY <1>2, <2>1, <2>2 DEF SessionInv, Wakes, NoLostWakeup, NotifyDue, Matched
  <2>10. Fates'
    BY <1>2, <2>1, <2>2 DEF SessionInv, Fates, CommittedFirst, Closed, Out, Accepted
  <2> QED BY <2>3, <2>4, <2>5, <2>6, <2>7, <2>8, <2>9, <2>10 DEF SessionInv
<1> QED BY <1>1, <1>2

\* The properties follow.
LEMMA SessionProperties ==
  SessionInv => ClosedMeansUnsent /\ NoLostWakeup /\ DeathSettlesAll
<1> SUFFICES ASSUME SessionInv PROVE ClosedMeansUnsent /\ NoLostWakeup /\ DeathSettlesAll
  OBVIOUS
<1>1. ClosedMeansUnsent
  BY DEF SessionInv, Fates, Closed, Out, Accepted, ClosedMeansUnsent
<1>2. NoLostWakeup
  BY DEF SessionInv, Wakes
<1>3. kill \in {"notify", "done"} => table = {}
  BY DEF SessionInv, KillState
<1>4. ASSUME kill = "done", writer = "gone" PROVE outstanding = 0
  <2>1. hand = Nobody /\ Queued = {}
    BY <1>4 DEF SessionInv, WriterState, KillState, Holding
  <2> QED BY <2>1, FS_EmptySet DEF SessionInv, OutstandingExact
<1>5. ASSUME kill = "done", writer = "gone", NEW o \in Calls, pc[o] = "parked"
      PROVE  o \in woken \/ reader \in {"matched", "tell"}
  <2>1. killWake = {} /\ writerWake = {} /\ table = {}
    BY <1>5 DEF SessionInv, KillState, WriterState
  <2>2. o \in done \cup Matched
    BY <1>5, <2>1 DEF SessionInv, Wakes
  <2>3. o \in done => o \in woken \/ NotifyDue(o)
    BY <1>2, <1>5 DEF NoLostWakeup
  <2> QED BY <2>1, <2>2, <2>3 DEF NotifyDue, Matched
<1> QED BY <1>1, <1>2, <1>3, <1>4, <1>5 DEF DeathSettlesAll

\* A decided record keeps its outcome until its caller has it.
LEMMA OneOutcomeStep ==
  ASSUME SessionInv, [Next]_vars, NEW o \in done
  PROVE  pc'[o] = "done" \/ outcome'[o] = outcome[o]
<1>0. /\ Records /\ FramesOnce /\ o \in Op /\ pc \in [Op -> OpPc] /\ outcome \in [Op -> OutcomeSet]
      /\ o \notin table
  BY DEF SessionInv, TypeOK, Records
<1>1. ASSUME NEW u \in Op, CallerStep(u) \/ Match(u) PROVE pc'[o] = "done" \/ outcome'[o] = outcome[o]
  BY <1>0, <1>1 DEF CallerStep, Insert, Enqueue, Undo, Register, Recheck, Completed, GiveUp, Expire,
     Match, Goto, Return, Forget, pendVars
<1>2. CASE Drop
  <2>1. o \notin Queued \cap Replies
    BY <1>0 DEF Records
  <2> QED BY <1>0, <1>2, <2>1 DEF Drop, Publish
<1>3. CASE KillFails
  BY <1>0, <1>3 DEF KillFails, FailPending
<1>4. CASE FailItemPending
  BY <1>0, <1>4 DEF FailItemPending, Publish
<1>5. CASE Settle
  <2>1. o \notin {hand} \cap Replies
    BY <1>0 DEF Records
  <2> QED BY <1>0, <1>5, <2>1 DEF Settle, Publish
<1>6. CASE SetReply
  <2>1. o # matched
    BY <1>0, <1>6 DEF Records, SetReply, Matched
  <2> QED BY <1>0, <1>6, <2>1 DEF SetReply, Publish
<1>7. ASSUME \/ KillCloses \/ KillNotifies \/ OwnerKills \/ Dequeue \/ FindNothing
             \/ WriterExits \/ GateFails
             \/ Commit \/ Write \/ WriteReturns \/ WriterTells \/ WriterKills \/ ReaderTells
             \/ ReaderEnds \/ BytesOut \/ NetBreaks \/ UNCHANGED vars
      PROVE  outcome' = outcome
  BY <1>7 DEF KillCloses, KillNotifies, OwnerKills, Dequeue, FindNothing, WriterExits, GateFails,
     Commit, Write,
     WriteReturns, WriterTells, WriterKills, ReaderTells, ReaderEnds, BytesOut, NetBreaks, pendVars, vars
<1> QED BY <1>1, <1>2, <1>3, <1>4, <1>5, <1>6, <1>7, Steps DEF WriterStep, ReaderStep

\* The invariant holds of every link.
THEOREM SessionAlways == Spec => []SessionInv
<1> QED BY SessionStart, SessionKept, PTL DEF Spec

\* writes_outstanding counts the queued frames and the one in the writer's hand, so
\* that Drain and Shutdown may trust it.
THEOREM OutstandingCorrect == Spec => []OutstandingExact
<1>1. SessionInv => OutstandingExact
  BY DEF SessionInv
<1> QED BY <1>1, SessionAlways, PTL

\* A caller told "closed", "queue full" or "moved" may send its frame again.
THEOREM ClosedCorrect == Spec => []ClosedMeansUnsent
<1>1. SessionInv => ClosedMeansUnsent
  BY SessionProperties
<1> QED BY <1>1, SessionAlways, PTL

\* Every call is decided once and told, whatever becomes of the link.
THEOREM CallsCorrect == Spec => CallsDecided
<1>1. SessionInv => TypeOK /\ NoLostWakeup /\ DeathSettlesAll
  BY SessionProperties DEF SessionInv
<1>2. SessionInv /\ [Next]_vars
        => [\A o \in done : pc'[o] = "done" \/ outcome'[o] = outcome[o]]_vars
  BY OneOutcomeStep
<1> QED BY <1>1, <1>2, SessionAlways, PTL DEF CallsDecided, OneOutcome, Spec

-----------------------------------------------------------------------------
(***************************************************************************)
(* The HTTP server: the invariant.                                         *)
(***************************************************************************)

\* Where a task, the accept task and a caller can be.
Sent == {"reply sent", "buffer sent", "head sent", "chunk sent", "last sent"}
Replying ==
  {"handler", "registering", "starting", "pulling", "cancelling", "cancelnow", "abandon", "settle"}
    \cup Writes \cup Sent
IdlePlace == {"none", "reading", "admitting", "lease", "over"}
TaskPlace == Replying \cup IdlePlace \cup {"leaving"}
HoldPlace == {"holding", "submit", "register", "drop"}
AcceptPlace == NoTask \cup HoldPlace \cup {"looking", "asking", "failing", "stopping", "lease"}
CallPlace ==
  {"idle", "submit", "register", "stop", "close", "seal", "cancel", "cancelseal", "wait",
   "waitseal", "stopped"}
SessionRecord ==
  [authorized : BOOLEAN, task_done : BOOLEAN, source : BOOLEAN, source_cancelled : BOOLEAN]

ServerTypes ==
  /\ started \in BOOLEAN /\ stopping \in BOOLEAN /\ serverClosing \in BOOLEAN
  /\ draining \in BOOLEAN /\ gone \in BOOLEAN
  /\ inflight \in Int /\ serverTasks \in Int
  /\ listed \subseteq Session
  /\ ses \in [Session -> SessionRecord]
  /\ conn \in [Session -> {"away", "parked", "open", "asked", "released"}]
  /\ serve \in [Session -> TaskPlace]
  /\ acceptor \in [pc : AcceptPlace, at : SUBSET Session]
  /\ serverListener \in {"open", "stopping", "stopped"}
  /\ todo \in [Stopper -> SUBSET Session]
  /\ caller \in [ServerCaller -> CallPlace]
  /\ cancels \in [Session -> Nat]
  /\ drained \subseteq {"drain", "shutdown", "again"}

\* The accept task is started once and has one connection in its hands, or none.
Starting == {"submit", "register"}
OneAcceptTask ==
  /\ ~started => acceptor.pc = "none"
  /\ \A c \in ServerCaller : caller[c] \in Starting =>
       /\ started /\ acceptor.pc = "none"
       /\ \A e \in ServerCaller : caller[e] \in Starting => e = c
  /\ acceptor.pc \notin HoldPlace => acceptor.at = {}
  /\ acceptor.pc \in HoldPlace => \E s \in Session :
       acceptor.at = {s} /\ serve[s] = "none" /\ conn[s] \notin {"away", "parked"}

\* What the seal has set going is never taken back.
SealHolds ==
  /\ serverClosing => stopping
  /\ \A c \in ServerCaller :
       /\ caller[c] \in {"cancel", "cancelseal", "wait", "waitseal", "stopped"} => stopping
       /\ todo[c] # {} => caller[c] \in {"cancel", "cancelseal"}
  /\ todo["acceptor"] # {} => acceptor.pc = "stopping"
  /\ drained \cap {"drain", "shutdown"} # {} => stopping /\ inflight = 0
  /\ gone => stopping /\ serverTasks = 0 /\ listed = {} /\ serverListener = "stopped"

\* A session is listed from the moment its connection is taken for as long as the connection
\* is there, and has a request in hand exactly while it replies.
SessionHeld(s) ==
  /\ conn[s] \in {"away", "parked"} => serve[s] = "none" /\ s \notin listed
  /\ conn[s] \in {"open", "asked"} =>
       s \in listed \/ (acceptor.pc = "holding" /\ s \in acceptor.at)
  /\ serve[s] \in Replying => ses[s].authorized
  /\ serve[s] \in IdlePlace => ~ses[s].authorized

\* Before the source of a reply is there, nothing of it is.
Sourceless == {"none", "reading", "admitting", "handler", "registering"}
SourceCalls(s) == {a \in Stopper : s \in todo[a]}

\* The mark has one caller that makes the Cancel call, and nobody calls without it.
CancelledOnce(s) ==
  IF ses[s].source_cancelled
  THEN \/ cancels[s] = 1 /\ serve[s] # "cancelnow" /\ SourceCalls(s) = {}
       \/ cancels[s] = 0 /\ serve[s] = "cancelnow" /\ SourceCalls(s) = {}
       \/ cancels[s] = 0 /\ serve[s] # "cancelnow" /\ \E a \in Stopper : SourceCalls(s) = {a}
  ELSE cancels[s] = 0 /\ serve[s] # "cancelnow" /\ SourceCalls(s) = {}

SourceReached(s) ==
  /\ serve[s] \in Sourceless => ~ses[s].source /\ ~ses[s].source_cancelled
  /\ ses[s].source_cancelled /\ ~serverClosing =>
       \/ serve[s] \in {"cancelnow", "abandon"}
       \/ serve[s] \in {"settle", "leaving", "lease", "over"} /\ conn[s] # "open"
  /\ serverClosing /\ s \in listed /\ ses[s].source => ses[s].source_cancelled
  /\ CancelledOnce(s)

Bit(p) == IF p THEN 1 ELSE 0
Authorized == {s \in Session : ses[s].authorized}
Registering == {c \in ServerCaller : caller[c] = "register"}

CountsRight ==
  /\ inflight = Cardinality(Authorized) /\ inflight <= MaxInflight
  /\ serverTasks = Cardinality(Working) + Bit(acceptor.pc \notin NoTask)
                     + Bit(acceptor.pc = "register") + Cardinality(Registering)
  /\ Cardinality(listed) <= MaxConnections
  /\ acceptor.pc \in {"asking", "holding"} => Cardinality(listed) < MaxConnections

\* The inductive invariant.
ServerInv ==
  /\ ServerTypes /\ OneAcceptTask /\ SealHolds /\ CountsRight
  /\ \A s \in Session : SessionHeld(s) /\ SourceReached(s)

-----------------------------------------------------------------------------
(***************************************************************************)
(* Counting                                                                *)
(***************************************************************************)

LEMMA ServerFinite ==
  ASSUME HttpServerAssumption, ServerTypes
  PROVE  /\ IsFiniteSet(Session) /\ IsFiniteSet(Authorized) /\ IsFiniteSet(Working)
         /\ IsFiniteSet(Registering) /\ IsFiniteSet(listed)
         /\ Cardinality(Session) \in Nat /\ Cardinality(Authorized) \in 0 .. Cardinality(Session)
         /\ Cardinality(Working) \in 0 .. Cardinality(Session)
         /\ Cardinality(Registering) \in Nat /\ Cardinality(listed) \in Nat
<1>1. IsFiniteSet(Session) /\ IsFiniteSet(ServerCaller)
  BY DEF HttpServerAssumption
<1>2. Authorized \subseteq Session /\ Working \subseteq Session /\ listed \subseteq Session
      /\ Registering \subseteq ServerCaller
  BY DEF Authorized, Working, Registering, ServerTypes
<1>3. IsFiniteSet(Authorized) /\ Cardinality(Authorized) <= Cardinality(Session)
  BY <1>1, <1>2, FS_Subset
<1>4. IsFiniteSet(Working) /\ Cardinality(Working) <= Cardinality(Session)
  BY <1>1, <1>2, FS_Subset
<1>5. IsFiniteSet(Registering) /\ IsFiniteSet(listed)
  BY <1>1, <1>2, FS_Subset
<1> QED BY <1>1, <1>3, <1>4, <1>5, FS_CardinalityType

\* One element more, one less, and what counts at all.
LEMMA OneMore ==
  ASSUME NEW S, IsFiniteSet(S), NEW x, x \notin S
  PROVE  IsFiniteSet(S \cup {x}) /\ Cardinality(S \cup {x}) = Cardinality(S) + 1
  BY FS_AddElement

LEMMA OneLess ==
  ASSUME NEW S, IsFiniteSet(S), NEW x \in S
  PROVE  /\ IsFiniteSet(S \ {x}) /\ Cardinality(S \ {x}) = Cardinality(S) - 1
         /\ Cardinality(S) \in Nat \ {0}
<1>1. IsFiniteSet(S \ {x}) /\ Cardinality(S \ {x}) = Cardinality(S) - 1
  BY FS_RemoveElement
<1>2. Cardinality(S \ {x}) \in Nat /\ Cardinality(S) \in Nat
  BY <1>1, FS_CardinalityType
<1> QED BY <1>1, <1>2

-----------------------------------------------------------------------------
(***************************************************************************)
(* The task of a session                                                   *)
(***************************************************************************)

\* A connection that is asked to close never comes back, and no other is touched.
LEMMA AskedConn ==
  ASSUME ServerTypes, NEW S \in SUBSET Session, conn' = Asked(S)
  PROVE  /\ conn' \in [Session -> {"away", "parked", "open", "asked", "released"}]
         /\ \A e \in Session :
              /\ e \notin S => conn'[e] = conn[e]
              /\ e \in S => conn'[e] # "open"
              /\ conn[e] # "open" => conn'[e] = conn[e]
              /\ conn[e] = "open" => conn'[e] \in {"open", "asked"}
  BY DEF ServerTypes, Asked

\* What a step of a session's task leaves alone.
TaskMoves(s, p, r, n) ==
  /\ UNCHANGED Serving
  /\ serve' = [serve EXCEPT ![s] = p] /\ conn' \in {conn, Asked({s})}
  /\ ses' = [ses EXCEPT ![s] = r] /\ cancels' = [cancels EXCEPT ![s] = n]

LEMMA TaskFrame ==
  ASSUME ServerInv, NEW s \in Session, NEW p \in TaskPlace \ NoTask, NEW r \in SessionRecord,
         NEW n \in Nat, TaskMoves(s, p, r, n), serve[s] \notin NoTask, inflight' \in Int,
         inflight' = inflight \/ inflight # 0 \/ ~stopping
  PROVE  /\ ServerTypes' /\ OneAcceptTask' /\ SealHolds' /\ Working' = Working
         /\ \A e \in Session \ {s} : SessionHeld(e)' /\ SourceReached(e)'
         /\ serve'[s] = p /\ ses'[s] = r /\ cancels'[s] = n
         /\ (conn[s] # "open" => conn'[s] = conn[s])
         /\ (conn[s] = "open" => conn'[s] \in {"open", "asked"})
         /\ conn[s] \notin {"away", "parked"}
         /\ \A e \in Session \ {s} : ses'[e] = ses[e]
<1>0. ServerTypes /\ OneAcceptTask /\ SealHolds /\ SessionHeld(s)
  BY DEF ServerInv
<1>1. /\ conn' \in [Session -> {"away", "parked", "open", "asked", "released"}]
      /\ \A e \in Session : /\ e # s => conn'[e] = conn[e]
                            /\ conn[e] # "open" => conn'[e] = conn[e]
                            /\ conn[e] = "open" => conn'[e] \in {"open", "asked"}
  <2>1. CASE conn' = conn
    BY <1>0, <2>1 DEF ServerTypes
  <2>2. CASE conn' = Asked({s})
    BY <1>0, <2>2, AskedConn
  <2> QED BY <2>1, <2>2 DEF TaskMoves
<1>2. ServerTypes'
  <2>1. UNCHANGED Serving /\ serve' \in [Session -> TaskPlace] /\ ses' \in [Session -> SessionRecord]
        /\ cancels' \in [Session -> Nat]
    BY <1>0 DEF ServerTypes, TaskMoves
  <2> QED BY <1>0, <1>1, <2>1 DEF ServerTypes, Serving
<1>3. serve'[s] = p /\ ses'[s] = r /\ cancels'[s] = n
      /\ \A e \in Session \ {s} : serve'[e] = serve[e] /\ ses'[e] = ses[e] /\ cancels'[e] = cancels[e]
  BY <1>0 DEF ServerTypes, TaskMoves
<1>4. Working' = Working
  BY <1>3 DEF Working
<1>5. /\ started' = started /\ stopping' = stopping /\ serverClosing' = serverClosing
      /\ serverTasks' = serverTasks /\ listed' = listed /\ acceptor' = acceptor /\ todo' = todo
      /\ serverListener' = serverListener /\ caller' = caller /\ drained' = drained /\ gone' = gone
  BY DEF TaskMoves, Serving
<1>6. conn[s] \notin {"away", "parked"}
  BY <1>0 DEF SessionHeld, NoTask
<1>7. OneAcceptTask'
  <2>1. ASSUME NEW e \in Session, serve[e] = "none", conn[e] \notin {"away", "parked"}
        PROVE  serve'[e] = "none" /\ conn'[e] \notin {"away", "parked"}
    BY <1>1, <1>3, <2>1 DEF NoTask
  <2> QED BY <1>0, <1>5, <2>1 DEF OneAcceptTask
<1>8. SealHolds'
  BY <1>0, <1>5 DEF SealHolds
<1>9. ASSUME NEW e \in Session \ {s} PROVE SessionHeld(e)' /\ SourceReached(e)'
  <2>1. SessionHeld(e) /\ SourceReached(e)
    BY DEF ServerInv
  <2>2. conn'[e] = conn[e] /\ serve'[e] = serve[e] /\ ses'[e] = ses[e] /\ cancels'[e] = cancels[e]
    BY <1>1, <1>3
  <2>3. SourceCalls(e)' = SourceCalls(e)
    BY <1>5 DEF SourceCalls
  <2> QED BY <1>5, <2>1, <2>2, <2>3 DEF SessionHeld, SourceReached, CancelledOnce
<1> QED BY <1>1, <1>2, <1>3, <1>4, <1>6, <1>7, <1>8, <1>9

LEMMA AuthorizedAfter ==
  ASSUME HttpServerAssumption, ServerTypes, NEW s \in Session, NEW r \in SessionRecord,
         ses' = [ses EXCEPT ![s] = r]
  PROVE  /\ (r.authorized <=> ses[s].authorized) => Authorized' = Authorized
         /\ r.authorized /\ ~ses[s].authorized =>
              Cardinality(Authorized') = Cardinality(Authorized) + 1
         /\ ~r.authorized /\ ses[s].authorized =>
              /\ Cardinality(Authorized') = Cardinality(Authorized) - 1
              /\ Cardinality(Authorized) \in Nat \ {0}
<1>1. ses'[s] = r /\ \A e \in Session \ {s} : ses'[e] = ses[e]
  BY DEF ServerTypes
<1>2. (r.authorized <=> ses[s].authorized) => Authorized' = Authorized
  BY <1>1 DEF Authorized
<1>3. ASSUME r.authorized, ~ses[s].authorized
      PROVE  Cardinality(Authorized') = Cardinality(Authorized) + 1
  <2>1. Authorized' = Authorized \cup {s} /\ s \notin Authorized
    BY <1>1, <1>3 DEF Authorized
  <2> QED BY <2>1, ServerFinite, OneMore
<1>4. ASSUME ~r.authorized, ses[s].authorized
      PROVE  /\ Cardinality(Authorized') = Cardinality(Authorized) - 1
             /\ Cardinality(Authorized) \in Nat \ {0}
  <2>1. Authorized' = Authorized \ {s} /\ s \in Authorized
    BY <1>1, <1>4 DEF Authorized
  <2> QED BY <2>1, ServerFinite, OneLess
<1> QED BY <1>2, <1>3, <1>4

\* A step of a task keeps the invariant if it keeps it for its session.
LEMMA TaskKeeps ==
  ASSUME HttpServerAssumption, ServerInv, NEW s \in Session, NEW p \in TaskPlace \ NoTask,
         NEW r \in SessionRecord, NEW n \in Nat, TaskMoves(s, p, r, n), serve[s] \notin NoTask,
         \/ (r.authorized <=> ses[s].authorized) /\ inflight' = inflight
         \/ r.authorized /\ ~ses[s].authorized /\ inflight' = inflight + 1
              /\ ~stopping /\ inflight < MaxInflight
         \/ ~r.authorized /\ ses[s].authorized /\ inflight' = inflight - 1,
         SessionHeld(s)', SourceReached(s)'
  PROVE  ServerInv'
<1>1. ServerTypes /\ CountsRight /\ ses' = [ses EXCEPT ![s] = r] /\ MaxInflight \in Nat
  BY DEF ServerInv, TaskMoves, HttpServerAssumption
<1>2. inflight = Cardinality(Authorized) /\ inflight \in Nat /\ inflight <= MaxInflight
  BY <1>1, ServerFinite DEF CountsRight
<1>3. /\ inflight' = Cardinality(Authorized') /\ inflight' <= MaxInflight /\ inflight' \in Int
      /\ inflight' = inflight \/ inflight # 0 \/ ~stopping
  <2>1. CASE (r.authorized <=> ses[s].authorized) /\ inflight' = inflight
    <3>1. Authorized' = Authorized
      BY <1>1, <2>1, AuthorizedAfter
    <3> QED BY <1>2, <2>1, <3>1
  <2>2. CASE r.authorized /\ ~ses[s].authorized /\ inflight' = inflight + 1
             /\ ~stopping /\ inflight < MaxInflight
    <3>1. Cardinality(Authorized') = Cardinality(Authorized) + 1
      BY <1>1, <2>2, AuthorizedAfter
    <3> QED BY <1>1, <1>2, <2>2, <3>1
  <2>3. CASE ~r.authorized /\ ses[s].authorized /\ inflight' = inflight - 1
    <3>1. Cardinality(Authorized') = Cardinality(Authorized) - 1
          /\ Cardinality(Authorized) \in Nat \ {0}
      BY <1>1, <2>3, AuthorizedAfter
    <3> QED BY <1>1, <1>2, <2>3, <3>1
  <2> QED BY <2>1, <2>2, <2>3
<1>4. /\ ServerTypes' /\ OneAcceptTask' /\ SealHolds' /\ Working' = Working
      /\ \A e \in Session \ {s} : SessionHeld(e)' /\ SourceReached(e)'
  BY <1>3, TaskFrame
<1>5. /\ serverTasks' = serverTasks /\ listed' = listed /\ acceptor' = acceptor /\ caller' = caller
  BY DEF TaskMoves, Serving
<1>6. CountsRight'
  <2>1. Registering' = Registering
    BY <1>5 DEF Registering
  <2> QED BY <1>1, <1>3, <1>4, <1>5, <2>1 DEF CountsRight, Bit
<1> QED BY <1>4, <1>6 DEF ServerInv

\* What the session of the task must be like after the step.
Cancelled(s, p, n) ==
  \/ n = 1 /\ p # "cancelnow" /\ SourceCalls(s) = {}
  \/ n = 0 /\ p = "cancelnow" /\ SourceCalls(s) = {}
  \/ n = 0 /\ p # "cancelnow" /\ \E a \in Stopper : SourceCalls(s) = {a}
Uncancelled(s, p, n) == n = 0 /\ p # "cancelnow" /\ SourceCalls(s) = {}
SessionFits(s, p, r, n) ==
  /\ p \in Replying => r.authorized
  /\ p \in IdlePlace => ~r.authorized
  /\ p \in Sourceless => ~r.source /\ ~r.source_cancelled
  /\ r.source_cancelled /\ ~serverClosing =>
       p \in {"cancelnow", "abandon"} \/ (p \in {"settle", "leaving", "lease"} /\ conn'[s] # "open")
  /\ serverClosing /\ s \in listed /\ r.source => r.source_cancelled
  /\ IF r.source_cancelled THEN Cancelled(s, p, n) ELSE Uncancelled(s, p, n)

LEMMA TaskStep ==
  ASSUME HttpServerAssumption, ServerInv, NEW s \in Session, NEW p \in TaskPlace \ NoTask,
         NEW r \in SessionRecord, NEW n \in Nat, TaskMoves(s, p, r, n), serve[s] \notin NoTask,
         \/ (r.authorized <=> ses[s].authorized) /\ inflight' = inflight
         \/ r.authorized /\ ~ses[s].authorized /\ inflight' = inflight + 1
              /\ ~stopping /\ inflight < MaxInflight
         \/ ~r.authorized /\ ses[s].authorized /\ inflight' = inflight - 1,
         SessionFits(s, p, r, n)
  PROVE  ServerInv'
<1>0. ServerTypes /\ SessionHeld(s)
  BY DEF ServerInv
<1>1. /\ serverClosing' = serverClosing /\ listed' = listed /\ acceptor' = acceptor /\ todo' = todo
  BY DEF TaskMoves, Serving
<1>2. serve'[s] = p /\ ses'[s] = r /\ cancels'[s] = n
  BY <1>0 DEF ServerTypes, TaskMoves
<1>3. conn[s] \notin {"away", "parked"}
  BY <1>0 DEF SessionHeld, NoTask
<1>4. conn'[s] \notin {"away", "parked"} /\ (conn'[s] \in {"open", "asked"} => conn[s] \in {"open", "asked"})
  BY <1>0, <1>3, AskedConn DEF TaskMoves
<1>5. SourceCalls(s)' = SourceCalls(s)
  BY <1>1 DEF SourceCalls
<1>6. SessionHeld(s)'
  BY <1>0, <1>1, <1>2, <1>4 DEF SessionHeld, SessionFits
<1>7. CancelledOnce(s)'
  BY <1>2, <1>5 DEF CancelledOnce, SessionFits, Cancelled, Uncancelled
<1>8. SourceReached(s)'
  BY <1>1, <1>2, <1>7 DEF SourceReached, SessionFits
<1> QED BY <1>6, <1>8, TaskKeeps

\* A step of the task that changes nothing of its session's record.
LEMMA TaskGoesOn ==
  ASSUME HttpServerAssumption, ServerInv, NEW s \in Session, NEW p \in TaskPlace,
         UNCHANGED <<Serving, inflight, ses, cancels>>, conn' \in {conn, Asked({s})},
         serve' = [serve EXCEPT ![s] = p],
         p \notin {"none", "over", "cancelnow"}, serve[s] \notin {"none", "over", "cancelnow"},
         \/ serve[s] \in Replying /\ p \in Replying \cup {"leaving"}
         \/ serve[s] \in IdlePlace /\ p \in IdlePlace \cup {"leaving"},
         p \in Sourceless => serve[s] \in Sourceless,
         ses[s].source_cancelled /\ ~serverClosing =>
           p = "abandon" \/ (p \in {"settle", "leaving", "lease"} /\ conn'[s] # "open")
  PROVE  ServerInv'
<1>1. ServerTypes /\ SessionHeld(s) /\ SourceReached(s)
  BY DEF ServerInv
<1>2. ses[s] \in SessionRecord /\ cancels[s] \in Nat /\ p \in TaskPlace \ NoTask /\ serve[s] \notin NoTask
  BY <1>1 DEF ServerTypes, NoTask
<1>3. ses = [ses EXCEPT ![s] = ses[s]] /\ cancels = [cancels EXCEPT ![s] = cancels[s]]
  BY <1>1 DEF ServerTypes
<1>4. TaskMoves(s, p, ses[s], cancels[s])
  BY <1>3 DEF TaskMoves, Serving
<1>5. SessionFits(s, p, ses[s], cancels[s])
  <2>1. \A q \in Replying : q \notin IdlePlace /\ q # "leaving"
    BY DEF Replying, IdlePlace, Writes, Sent
  <2>2. "leaving" \notin IdlePlace \cup Sourceless
    BY DEF IdlePlace, Sourceless
  <2>3. (p \in Replying => ses[s].authorized) /\ (p \in IdlePlace => ~ses[s].authorized)
    BY <1>1, <2>1, <2>2 DEF SessionHeld
  <2>4. p \in Sourceless => ~ses[s].source /\ ~ses[s].source_cancelled
    BY <1>1 DEF SourceReached
  <2>5. IF ses[s].source_cancelled THEN Cancelled(s, p, cancels[s]) ELSE Uncancelled(s, p, cancels[s])
    BY <1>1 DEF SourceReached, CancelledOnce, Cancelled, Uncancelled
  <2> QED BY <1>1, <2>3, <2>4, <2>5 DEF SessionFits, SourceReached
<1> QED BY <1>2, <1>4, <1>5, TaskStep

LEMMA TaskPlaces ==
  /\ Writes \subseteq Replying \ (Sourceless \cup {"cancelnow", "abandon", "settle"})
  /\ Sent \subseteq Replying \ (Sourceless \cup {"cancelnow", "abandon", "settle"})
  /\ Replying \cap NoTask = {} /\ Replying \cap IdlePlace = {}
  /\ \A w \in Writes :
       /\ Flushing[w] \in Sent
       /\ \A ok \in BOOLEAN :
            AfterWrite(w, ok) \in {"pulling", "settle", "abandon", "cancelling"}
  /\ NoTask \subseteq IdlePlace /\ "leaving" \notin Replying \cup IdlePlace \cup Sourceless
  BY DEF Writes, Sent, Replying, Sourceless, NoTask, IdlePlace, Flushing, AfterWrite

LEMMA ReadKeeps ==
  ASSUME HttpServerAssumption, ServerInv, NEW s \in Session, Read(s)
  PROVE  ServerInv'
<1>1. /\ serve[s] = "reading" /\ UNCHANGED <<Serving, inflight, ses, cancels>> /\ conn' = conn
      /\ \E p \in {"admitting", "leaving"} : serve' = [serve EXCEPT ![s] = p]
  BY DEF Read, TaskAt, TaskTo
<1>2. ~ses[s].source_cancelled
  BY <1>1 DEF ServerInv, SourceReached, Sourceless
<1> QED BY <1>1, <1>2, TaskGoesOn DEF IdlePlace, TaskPlace, Replying, Sourceless

\* The admission, under the mutex of the seal.
LEMMA AdmitKeeps ==
  ASSUME HttpServerAssumption, ServerInv, NEW s \in Session, Admit(s)
  PROVE  ServerInv'
<1>0. ServerTypes /\ SessionHeld(s) /\ SourceReached(s)
  BY DEF ServerInv
<1>1. serve[s] = "admitting" /\ UNCHANGED <<Serving, conn, cancels>>
  BY DEF Admit, TaskAt
<1>2. ~ses[s].source_cancelled /\ ~ses[s].source /\ ~ses[s].authorized
  BY <1>0, <1>1 DEF SessionHeld, SourceReached, Sourceless, IdlePlace
<1>3. CASE TaskTo(s, "leaving") /\ UNCHANGED <<ses, inflight>>
  BY <1>1, <1>2, <1>3, TaskGoesOn DEF TaskTo, IdlePlace, TaskPlace, Sourceless
<1>4. CASE /\ Admissible(s) /\ ses' = [ses EXCEPT ![s].authorized = TRUE]
           /\ inflight' = inflight + 1 /\ TaskTo(s, "handler")
  <2> DEFINE r == [ses[s] EXCEPT !.authorized = TRUE]
  <2>0. ses[s] \in SessionRecord /\ cancels[s] \in Nat
        /\ cancels = [cancels EXCEPT ![s] = cancels[s]]
    BY <1>0 DEF ServerTypes
  <2>1. r \in SessionRecord /\ ses' = [ses EXCEPT ![s] = r]
    BY <1>4, <2>0 DEF SessionRecord
  <2>2. r.authorized /\ ~r.source /\ ~r.source_cancelled
    BY <1>0, <1>2 DEF ServerTypes, SessionRecord
  <2>3. TaskMoves(s, "handler", r, cancels[s])
    BY <1>1, <1>4, <2>0, <2>1 DEF TaskMoves, TaskTo
  <2>4. SessionFits(s, "handler", r, cancels[s])
    BY <1>0, <1>2, <2>2, TaskPlaces DEF SessionFits, SourceReached, CancelledOnce, Uncancelled, IdlePlace
  <2>5. "handler" \in TaskPlace \ NoTask /\ serve[s] \notin NoTask
    BY <1>1 DEF TaskPlace, Replying, NoTask
  <2>6. ~stopping /\ inflight < MaxInflight
    BY <1>4 DEF Admissible
  <2> HIDE DEF r
  <2> QED BY <1>2, <1>4, <2>0, <2>1, <2>2, <2>3, <2>4, <2>5, <2>6, TaskStep
<1> QED BY <1>3, <1>4 DEF Admit

LEMMA ReplyStepKeeps ==
  ASSUME HttpServerAssumption, ServerInv, NEW s \in Session,
         Handle(s) \/ StartSource(s) \/ PullSource(s) \/ CheckWrite(s) \/ Flush(s) \/ Throw(s)
  PROVE  ServerInv'
<1>0. SourceReached(s)
  BY DEF ServerInv
<1>1. /\ UNCHANGED <<Serving, inflight, ses, cancels>> /\ conn' = conn
      /\ serve[s] \in Replying \ {"cancelnow", "abandon", "settle"}
      /\ \E p \in (Replying \cup {"leaving"}) \ {"handler", "cancelnow"} :
           /\ serve' = [serve EXCEPT ![s] = p]
           /\ p \in Sourceless => serve[s] \in Sourceless
  <2>1. CASE Handle(s)
    BY <2>1 DEF Handle, TaskAt, TaskTo, Replying, Sourceless, Writes
  <2>2. CASE StartSource(s)
    BY <2>2 DEF StartSource, TaskAt, TaskTo, Replying, Sourceless, Writes
  <2>3. CASE PullSource(s)
    BY <2>3 DEF PullSource, TaskAt, TaskTo, Replying, Sourceless, Writes
  <2>4. CASE CheckWrite(s)
    <3>1. PICK w \in Writes : /\ serve[s] = w /\ UNCHANGED <<Serving, inflight, ses, conn, cancels>>
                              /\ TaskTo(s, Flushing[w]) \/ TaskTo(s, AfterWrite(w, FALSE))
      BY <2>4 DEF CheckWrite, TaskAt
    <3>2. PICK p \in Sent \cup {"pulling", "settle", "abandon", "cancelling"} :
            serve' = [serve EXCEPT ![s] = p]
      BY <3>1, TaskPlaces DEF TaskTo
    <3>3. p \in Replying \ {"handler", "cancelnow"} /\ p \notin Sourceless
      BY <3>2, TaskPlaces DEF Sourceless, Replying
    <3> QED BY <3>1, <3>2, <3>3, TaskPlaces
  <2>5. CASE Flush(s)
    <3>1. PICK w \in Writes, ok \in BOOLEAN :
            /\ serve[s] = Flushing[w] /\ UNCHANGED <<Serving, inflight, ses, conn, cancels>>
            /\ TaskTo(s, AfterWrite(w, ok))
      BY <2>5 DEF Flush, TaskAt
    <3>2. PICK p \in {"pulling", "settle", "abandon", "cancelling"} :
            serve' = [serve EXCEPT ![s] = p]
      BY <3>1, TaskPlaces DEF TaskTo
    <3>3. p \in Replying \ {"handler", "cancelnow"} /\ p \notin Sourceless
      BY <3>2 DEF Sourceless, Replying
    <3> QED BY <3>1, <3>2, <3>3, TaskPlaces
  <2>6. CASE Throw(s)
    <3>1. /\ serve[s] \in {"handler", "starting", "pulling"} /\ serve' = [serve EXCEPT ![s] = "leaving"]
          /\ UNCHANGED <<Serving, inflight, ses, conn, cancels>>
      BY <2>6 DEF Throw, TaskTo
    <3>2. "leaving" \in (Replying \cup {"leaving"}) \ {"handler", "cancelnow"} /\ "leaving" \notin Sourceless
      BY TaskPlaces
    <3>3. {"handler", "starting", "pulling"} \subseteq Replying \ {"cancelnow", "abandon", "settle"}
      BY DEF Replying
    <3> QED BY <3>1, <3>2, <3>3
  <2> QED BY <2>1, <2>2, <2>3, <2>4, <2>5, <2>6
<1>2. ~(ses[s].source_cancelled /\ ~serverClosing)
  BY <1>0, <1>1, TaskPlaces DEF SourceReached, IdlePlace
<1>3. PICK p \in (Replying \cup {"leaving"}) \ {"handler", "cancelnow"} :
           serve' = [serve EXCEPT ![s] = p] /\ (p \in Sourceless => serve[s] \in Sourceless)
  BY <1>1
<1>4. p \notin NoTask /\ serve[s] \notin NoTask /\ p \in TaskPlace
  BY <1>1, TaskPlaces DEF TaskPlace, IdlePlace, NoTask
<1> QED BY <1>1, <1>2, <1>3, <1>4, TaskGoesOn DEF NoTask

\* The source is registered, and marked at once by who finds the server closing.
LEMMA RegisterSourceKeeps ==
  ASSUME HttpServerAssumption, ServerInv, NEW s \in Session, RegisterSource(s)
  PROVE  ServerInv'
<1> DEFINE late == serverClosing /\ ~ses[s].source_cancelled
           r == [ses[s] EXCEPT !.source = TRUE, !.source_cancelled = @ \/ late]
           p == IF late THEN "cancelnow" ELSE "starting"
<1>0. ServerTypes /\ SessionHeld(s) /\ SourceReached(s)
  BY DEF ServerInv
<1>1. /\ serve[s] = "registering" /\ UNCHANGED <<Serving, inflight, conn>>
      /\ ses' = [ses EXCEPT ![s] = r] /\ serve' = [serve EXCEPT ![s] = p]
      /\ cancels' = [cancels EXCEPT ![s] = 0]
  BY DEF RegisterSource, TaskAt, TaskTo
<1>2. ~ses[s].source_cancelled /\ ses[s].authorized /\ SourceCalls(s) = {}
  BY <1>0, <1>1 DEF SessionHeld, SourceReached, CancelledOnce, Sourceless, Replying
<1>3. r \in SessionRecord /\ r.authorized /\ r.source /\ (r.source_cancelled <=> serverClosing)
  <2>1. ses[s] \in SessionRecord /\ serverClosing \in BOOLEAN
    BY <1>0 DEF ServerTypes
  <2> QED BY <1>2, <2>1 DEF SessionRecord
<1>4. /\ p \in TaskPlace \ NoTask /\ serve[s] \notin NoTask /\ p \in Replying /\ p \notin IdlePlace \cup Sourceless
      /\ p = IF serverClosing THEN "cancelnow" ELSE "starting"
  BY <1>0, <1>1, <1>2 DEF TaskPlace, Replying, NoTask, IdlePlace, Sourceless, ServerTypes
<1> HIDE DEF r, p
<1>5. SessionFits(s, p, r, 0)
  BY <1>0, <1>2, <1>3, <1>4 DEF SessionFits, Cancelled, Uncancelled, ServerTypes
<1>6. TaskMoves(s, p, r, 0)
  BY <1>1 DEF TaskMoves
<1>7. inflight' = inflight
  BY <1>1
<1> QED BY <1>2, <1>3, <1>4, <1>5, <1>6, <1>7, TaskStep

\* CancelSource: the mark and the call go together.
LEMMA CancelSourceKeeps ==
  ASSUME HttpServerAssumption, ServerInv, NEW s \in Session, CancelSource(s)
  PROVE  ServerInv'
<1> DEFINE r == [ses[s] EXCEPT !.source_cancelled = TRUE]
           p == IF ses[s].source_cancelled THEN "abandon" ELSE "cancelnow"
<1>0. ServerTypes /\ SessionHeld(s) /\ SourceReached(s)
  BY DEF ServerInv
<1>1. /\ serve[s] = "cancelling" /\ UNCHANGED <<Serving, inflight, conn, cancels>>
      /\ ses' = [ses EXCEPT ![s] = r] /\ serve' = [serve EXCEPT ![s] = p]
  <2>1. ses[s] \in SessionRecord
    BY <1>0 DEF ServerTypes
  <2> QED BY <2>1 DEF CancelSource, TaskAt, TaskTo, SessionRecord
<1>2. cancels[s] \in Nat /\ cancels = [cancels EXCEPT ![s] = cancels[s]] /\ ses[s] \in SessionRecord
  BY <1>0 DEF ServerTypes
<1>3. ses[s].authorized
  BY <1>0, <1>1 DEF SessionHeld, Replying
<1>4. r \in SessionRecord /\ r.authorized /\ r.source_cancelled
  BY <1>2, <1>3 DEF SessionRecord
<1>5. /\ p \in TaskPlace \ NoTask /\ serve[s] \notin NoTask /\ p \in Replying /\ p \notin IdlePlace \cup Sourceless
      /\ p \in {"cancelnow", "abandon"}
      /\ (p = "abandon" => ses[s].source_cancelled) /\ (p = "cancelnow" => ~ses[s].source_cancelled)
  BY <1>1 DEF TaskPlace, Replying, NoTask, IdlePlace, Sourceless
<1> HIDE DEF r, p
<1>6. Cancelled(s, p, cancels[s])
  BY <1>0, <1>1, <1>5 DEF SourceReached, CancelledOnce, Cancelled
<1>7. SessionFits(s, p, r, cancels[s])
  BY <1>4, <1>5, <1>6 DEF SessionFits
<1>8. TaskMoves(s, p, r, cancels[s])
  BY <1>1, <1>2 DEF TaskMoves
<1>9. inflight' = inflight
  BY <1>1
<1> QED BY <1>2, <1>3, <1>4, <1>5, <1>7, <1>8, <1>9, TaskStep

LEMMA CancelNowKeeps ==
  ASSUME HttpServerAssumption, ServerInv, NEW s \in Session, CancelNow(s)
  PROVE  ServerInv'
<1>0. ServerTypes /\ SessionHeld(s) /\ SourceReached(s)
  BY DEF ServerInv
<1>1. /\ serve[s] = "cancelnow" /\ UNCHANGED <<Serving, inflight, ses, conn>>
      /\ cancels' = [cancels EXCEPT ![s] = @ + 1] /\ serve' = [serve EXCEPT ![s] = "abandon"]
  BY DEF CancelNow, TaskAt, TaskTo
<1>2. ses[s] \in SessionRecord /\ ses = [ses EXCEPT ![s] = ses[s]] /\ cancels[s] = 0
      /\ ses[s].source_cancelled /\ SourceCalls(s) = {} /\ ses[s].authorized
  BY <1>0, <1>1 DEF ServerTypes, SourceReached, CancelledOnce, SessionHeld, Replying
<1>3. cancels' = [cancels EXCEPT ![s] = 1]
  BY <1>0, <1>1, <1>2 DEF ServerTypes
<1>4. "abandon" \in TaskPlace \ NoTask /\ serve[s] \notin NoTask /\ "abandon" \notin IdlePlace \cup Sourceless
  BY <1>1 DEF TaskPlace, Replying, NoTask, IdlePlace, Sourceless
<1>5. SessionFits(s, "abandon", ses[s], 1)
  BY <1>2, <1>4 DEF SessionFits, Cancelled
<1>6. TaskMoves(s, "abandon", ses[s], 1)
  BY <1>1, <1>2, <1>3 DEF TaskMoves
<1>7. inflight' = inflight
  BY <1>1
<1> QED BY <1>2, <1>4, <1>5, <1>6, <1>7, TaskStep

LEMMA AbandonKeeps ==
  ASSUME HttpServerAssumption, ServerInv, NEW s \in Session, AbandonReply(s)
  PROVE  ServerInv'
<1>1. /\ serve[s] = "abandon" /\ UNCHANGED <<Serving, inflight, ses, cancels>> /\ conn' = Asked({s})
      /\ serve' = [serve EXCEPT ![s] = "settle"]
  BY DEF AbandonReply, TaskAt, TaskTo
<1>2. conn'[s] # "open"
  BY <1>1, AskedConn DEF ServerInv
<1>3. {"settle", "abandon"} \subseteq Replying /\ "settle" \in TaskPlace /\ "settle" \notin Sourceless
  BY DEF Replying, TaskPlace, Sourceless
<1> QED BY <1>1, <1>2, <1>3, TaskGoesOn

\* The reply is settled; only who may go on reads again.
LEMMA SettleKeeps ==
  ASSUME HttpServerAssumption, ServerInv, NEW s \in Session, SettleReply(s)
  PROVE  ServerInv'
<1> DEFINE r == [ses[s] EXCEPT !.authorized = FALSE, !.source = FALSE]
<1>0. ServerTypes /\ SessionHeld(s) /\ SourceReached(s) /\ SealHolds
  BY DEF ServerInv
<1>1. PICK p \in {"reading", "leaving"} :
        /\ serve[s] = "settle" /\ UNCHANGED <<Serving, conn, cancels>>
        /\ serve' = [serve EXCEPT ![s] = p] /\ inflight' = inflight - 1
        /\ p = "reading" => conn[s] = "open" /\ ~stopping
  BY DEF SettleReply, TaskAt, TaskTo
<1>2. ses[s] \in SessionRecord /\ cancels[s] \in Nat /\ cancels = [cancels EXCEPT ![s] = cancels[s]]
  BY <1>0 DEF ServerTypes
<1>3. r \in SessionRecord /\ ~r.authorized /\ ~r.source /\ ses' = [ses EXCEPT ![s] = r]
      /\ r.source_cancelled = ses[s].source_cancelled
  BY <1>2 DEF SettleReply, SessionRecord
<1>4. ses[s].authorized
  BY <1>0, <1>1 DEF SessionHeld, Replying
<1>5. /\ p \in TaskPlace \ NoTask /\ serve[s] \notin NoTask /\ p \notin Replying /\ p # "cancelnow"
      /\ p \in Sourceless => p = "reading"
  BY <1>1, TaskPlaces DEF TaskPlace, NoTask, IdlePlace, Sourceless
<1> HIDE DEF r
<1>6. ses[s].source_cancelled => p # "reading"
  BY <1>0, <1>1 DEF SourceReached, SealHolds
<1>7. SessionFits(s, p, r, cancels[s])
  <2>1. IF r.source_cancelled THEN Cancelled(s, p, cancels[s]) ELSE Uncancelled(s, p, cancels[s])
    BY <1>0, <1>1, <1>3, <1>5 DEF SourceReached, CancelledOnce, Cancelled, Uncancelled
  <2>2. r.source_cancelled /\ ~serverClosing => p = "leaving" /\ conn'[s] # "open"
    BY <1>0, <1>1, <1>3, <1>6 DEF SourceReached
  <2> QED BY <1>3, <1>5, <1>6, <2>1, <2>2 DEF SessionFits
<1>8. TaskMoves(s, p, r, cancels[s])
  BY <1>1, <1>2, <1>3 DEF TaskMoves
<1> QED BY <1>1, <1>2, <1>3, <1>4, <1>5, <1>7, <1>8, TaskStep

\* The end of a task settles what its reply left unsettled.
LEMMA LeaveSessionKeeps ==
  ASSUME HttpServerAssumption, ServerInv, NEW s \in Session, LeaveSession(s)
  PROVE  ServerInv'
<1> DEFINE r == [ses[s] EXCEPT !.authorized = FALSE]
<1>0. ServerTypes /\ SessionHeld(s) /\ SourceReached(s)
  BY DEF ServerInv
<1>1. /\ serve[s] = "leaving" /\ UNCHANGED <<Serving, cancels>> /\ conn' = Asked({s})
      /\ serve' = [serve EXCEPT ![s] = "lease"]
      /\ inflight' = IF ses[s].authorized THEN inflight - 1 ELSE inflight
  BY DEF LeaveSession, TaskAt, TaskTo
<1>2. ses[s] \in SessionRecord /\ cancels[s] \in Nat /\ cancels = [cancels EXCEPT ![s] = cancels[s]]
  BY <1>0 DEF ServerTypes
<1>3. r \in SessionRecord /\ ~r.authorized /\ ses' = [ses EXCEPT ![s] = r]
      /\ r.source_cancelled = ses[s].source_cancelled /\ r.source = ses[s].source
  BY <1>2 DEF LeaveSession, SessionRecord
<1>4. "lease" \in TaskPlace \ NoTask /\ serve[s] \notin NoTask /\ "lease" \notin Replying \cup Sourceless
  BY <1>1, TaskPlaces DEF TaskPlace, NoTask, IdlePlace, Sourceless
<1>5. conn'[s] # "open"
  BY <1>0, <1>1, AskedConn
<1> HIDE DEF r
<1>6. SessionFits(s, "lease", r, cancels[s])
  <2>1. IF r.source_cancelled THEN Cancelled(s, "lease", cancels[s])
        ELSE Uncancelled(s, "lease", cancels[s])
    BY <1>0, <1>1, <1>3 DEF SourceReached, CancelledOnce, Cancelled, Uncancelled
  <2> QED BY <1>0, <1>3, <1>4, <1>5, <2>1 DEF SessionFits, SourceReached
<1>7. TaskMoves(s, "lease", r, cancels[s])
  BY <1>1, <1>2, <1>3 DEF TaskMoves
<1>8. ses[s].authorized \in BOOLEAN
  BY <1>2 DEF SessionRecord
<1> QED BY <1>1, <1>2, <1>3, <1>4, <1>6, <1>7, <1>8, TaskStep

\* Nothing is said of task_done: the sweep may look at it whenever it likes.
SameReply == \A s \in Session :
  /\ ses'[s].authorized = ses[s].authorized /\ ses'[s].source = ses[s].source
  /\ ses'[s].source_cancelled = ses[s].source_cancelled

LEMMA LeaseEnds ==
  ASSUME ServerTypes, NEW S, EndLease(S)
  PROVE  ses' \in [Session -> SessionRecord] /\ SameReply /\ serverTasks' = serverTasks - 1
<1>1. ASSUME NEW e \in Session
      PROVE  LET r == IF e \in S THEN [ses[e] EXCEPT !.task_done = TRUE] ELSE ses[e]
             IN  /\ r \in SessionRecord /\ r.authorized = ses[e].authorized /\ r.source = ses[e].source
                 /\ r.source_cancelled = ses[e].source_cancelled
  <2>1. ses[e] \in SessionRecord
    BY DEF ServerTypes
  <2> QED BY <2>1 DEF SessionRecord
<1>2. ses' = [e \in Session |-> IF e \in S THEN [ses[e] EXCEPT !.task_done = TRUE] ELSE ses[e]]
      /\ serverTasks' = serverTasks - 1
  BY DEF EndLease
<1> QED BY <1>1, <1>2 DEF SameReply

LEMMA EndTaskKeeps ==
  ASSUME HttpServerAssumption, ServerInv, NEW s \in Session, EndTask(s)
  PROVE  ServerInv'
<1>0. ServerTypes /\ OneAcceptTask /\ SealHolds /\ CountsRight /\ SessionHeld(s)
  BY DEF ServerInv
<1>1. /\ serve[s] = "lease" /\ serve' = [serve EXCEPT ![s] = "over"]
      /\ UNCHANGED <<bits, inflight, listed, conn, acceptor, serverListener, todo, caller, ghosts>>
      /\ EndLease({s})
  BY DEF EndTask, TaskAt, TaskTo
<1>2. /\ ses' \in [Session -> SessionRecord] /\ SameReply /\ serverTasks' = serverTasks - 1
  BY <1>0, <1>1, LeaseEnds
<1>3. ServerTypes'
  <2>1. serve' \in [Session -> TaskPlace]
    BY <1>0, <1>1 DEF ServerTypes, TaskPlace, IdlePlace
  <2> QED BY <1>0, <1>1, <1>2, <2>1 DEF ServerTypes, bits, ghosts
<1>4. serve'[s] = "over" /\ \A e \in Session \ {s} : serve'[e] = serve[e]
  BY <1>0, <1>1 DEF ServerTypes
<1>5. Cardinality(Working') = Cardinality(Working) - 1 /\ Cardinality(Working) \in Nat \ {0}
  <2>1. Working' = Working \ {s} /\ s \in Working
    BY <1>1, <1>4 DEF Working, NoTask
  <2> QED BY <1>0, <2>1, ServerFinite, OneLess
<1>6. CountsRight'
  <2>1. Authorized' = Authorized /\ Registering' = Registering /\ acceptor' = acceptor
        /\ listed' = listed /\ inflight' = inflight
    BY <1>1, <1>2 DEF SameReply, Authorized, Registering, ghosts
  <2>2. Cardinality(Registering) \in Nat
    BY <1>0, ServerFinite
  <2> QED BY <1>0, <1>2, <1>5, <2>1, <2>2 DEF CountsRight, Bit
<1>7. OneAcceptTask'
  <2>1. ASSUME NEW e \in Session, serve[e] = "none" PROVE serve'[e] = "none" /\ conn'[e] = conn[e]
    BY <1>1, <1>4, <2>1
  <2> QED BY <1>0, <1>1, <2>1 DEF OneAcceptTask, bits
<1>8. SealHolds'
  <2>1. serverTasks # 0 /\ serverTasks \in Nat
    BY <1>0, <1>5, ServerFinite DEF CountsRight, Bit
  <2> QED BY <1>0, <1>1, <1>2, <2>1 DEF SealHolds, bits, ghosts
<1>9. ASSUME NEW e \in Session PROVE SessionHeld(e)' /\ SourceReached(e)'
  <2>1. SessionHeld(e) /\ SourceReached(e)
    BY DEF ServerInv
  <2>2. SourceCalls(e)' = SourceCalls(e)
    BY <1>1 DEF SourceCalls
  <2>3. /\ ses'[e].authorized = ses[e].authorized /\ ses'[e].source = ses[e].source
        /\ ses'[e].source_cancelled = ses[e].source_cancelled
    BY <1>2 DEF SameReply
  <2>4. conn' = conn /\ listed' = listed /\ acceptor' = acceptor /\ cancels' = cancels
        /\ serverClosing' = serverClosing
    BY <1>1 DEF bits, ghosts
  <2>5. CASE e # s
    BY <1>4, <2>1, <2>2, <2>3, <2>4, <2>5 DEF SessionHeld, SourceReached, CancelledOnce
  <2>6. CASE e = s
    <3>1. serve[e] = "lease" /\ serve'[e] = "over" /\ "lease" \in IdlePlace /\ "over" \notin Replying
          /\ "over" \notin Sourceless /\ "lease" \notin Sourceless
      BY <1>1, <1>4, <2>6, TaskPlaces DEF IdlePlace, NoTask, Sourceless
    <3>2. SessionHeld(e)'
      BY <2>1, <2>3, <2>4, <3>1 DEF SessionHeld
    <3>3. CancelledOnce(e)'
      BY <2>1, <2>2, <2>3, <2>4, <3>1 DEF SourceReached, CancelledOnce
    <3> QED BY <2>1, <2>3, <2>4, <3>1, <3>2, <3>3 DEF SourceReached
  <2> QED BY <2>5, <2>6
<1> QED BY <1>3, <1>6, <1>7, <1>8, <1>9 DEF ServerInv

LEMMA SessionStepKeeps ==
  ASSUME HttpServerAssumption, ServerInv, NEW s \in Session, SessionStep(s)
  PROVE  ServerInv'
  BY ReadKeeps, AdmitKeeps, ReplyStepKeeps, RegisterSourceKeeps, CancelSourceKeeps, CancelNowKeeps,
     AbandonKeeps, SettleKeeps, LeaveSessionKeeps, EndTaskKeeps DEF SessionStep

-----------------------------------------------------------------------------
(***************************************************************************)
(* Everything else leaves the tasks where they are                         *)
(***************************************************************************)

\* The sessions when no task moves: what is left to show is that the connections agree.
TasksRest ==
  /\ serve' = serve /\ cancels' = cancels /\ SameReply
  /\ \A s \in Session :
       /\ conn'[s] = "open" => conn[s] = "open" \/ serve[s] = "none"
       /\ conn'[s] \in {"away", "parked"} => conn[s] \in {"away", "parked"} /\ s \notin listed'
       /\ conn'[s] \in {"open", "asked"} =>
            s \in listed' \/ (acceptor'.pc = "holding" /\ s \in acceptor'.at)
       /\ s \in listed' => s \in listed \/ serve[s] = "none"

LEMMA RestingSessions ==
  ASSUME ServerInv, TasksRest, serverClosing' = serverClosing, todo' = todo
  PROVE  \A s \in Session : SessionHeld(s)' /\ SourceReached(s)'
<1> SUFFICES ASSUME NEW s \in Session PROVE SessionHeld(s)' /\ SourceReached(s)'
  OBVIOUS
<1>1. SessionHeld(s) /\ SourceReached(s)
  BY DEF ServerInv
<1>2. SourceCalls(s)' = SourceCalls(s)
  BY DEF SourceCalls
<1>3. /\ serve'[s] = serve[s] /\ cancels'[s] = cancels[s]
      /\ ses'[s].authorized = ses[s].authorized /\ ses'[s].source = ses[s].source
      /\ ses'[s].source_cancelled = ses[s].source_cancelled
      /\ conn'[s] = "open" => conn[s] = "open" \/ serve[s] = "none"
      /\ conn'[s] \in {"away", "parked"} => conn[s] \in {"away", "parked"} /\ s \notin listed'
      /\ conn'[s] \in {"open", "asked"} =>
            s \in listed' \/ (acceptor'.pc = "holding" /\ s \in acceptor'.at)
      /\ s \in listed' => s \in listed \/ serve[s] = "none"
  BY DEF TasksRest, SameReply
<1>4. SessionHeld(s)'
  BY <1>1, <1>3 DEF SessionHeld
<1>5. CancelledOnce(s)'
  BY <1>1, <1>2, <1>3 DEF SourceReached, CancelledOnce
<1>6. serve[s] = "none" => ~ses[s].source /\ ~ses[s].source_cancelled
  BY <1>1 DEF SourceReached, Sourceless
<1> QED BY <1>1, <1>3, <1>4, <1>5, <1>6 DEF SourceReached

\* The counters when no task moves.
LEMMA RestingCounts ==
  ASSUME ServerInv, serve' = serve, SameReply, inflight' = inflight
  PROVE  /\ inflight' = Cardinality(Authorized') /\ inflight' <= MaxInflight
         /\ Working' = Working
<1>1. Authorized' = Authorized /\ Working' = Working
  BY DEF SameReply, Authorized, Working
<1> QED BY <1>1 DEF ServerInv, CountsRight

LEMMA EngineKeeps ==
  ASSUME HttpServerAssumption, ServerInv,
         (\E s \in Session : Arrive(s) \/ Lose(s) \/ ReleaseConn(s)) \/ ListenerStops
  PROVE  ServerInv'
<1>0. ServerTypes /\ OneAcceptTask /\ SealHolds /\ CountsRight /\ \A s \in Session : SessionHeld(s)
  BY DEF ServerInv
<1>1. /\ UNCHANGED <<bits, inflight, serverTasks, listed, ses, serve, acceptor, todo, caller, ghosts>>
      /\ serverListener' = serverListener \/ (serverListener = "stopping" /\ serverListener' = "stopped")
      /\ conn' \in [Session -> {"away", "parked", "open", "asked", "released"}]
      /\ \A e \in Session :
           /\ conn'[e] = "open" => conn[e] = "open"
           /\ conn'[e] = "asked" => conn[e] \in {"open", "asked"}
           /\ conn'[e] \in {"away", "parked"} => conn[e] \in {"away", "parked"}
  <2>1. CASE \E s \in Session : Arrive(s)
    <3>1. PICK s \in Session : Arrive(s)
      BY <2>1
    <3> QED BY <1>0, <3>1 DEF Arrive, ServerTypes
  <2>2. CASE \E s \in Session : Lose(s)
    <3>1. PICK s \in Session : Lose(s)
      BY <2>2
    <3>2. conn[s] = "open" /\ conn' = Asked({s})
          /\ UNCHANGED <<bits, inflight, serverTasks, listed, ses, serve, acceptor, serverListener,
                         todo, caller, ghosts>>
      BY <3>1 DEF Lose
    <3>3. /\ conn' \in [Session -> {"away", "parked", "open", "asked", "released"}]
          /\ \A e \in Session : /\ conn[e] # "open" => conn'[e] = conn[e]
                                /\ conn[e] = "open" => conn'[e] \in {"open", "asked"}
      BY <1>0, <3>2, AskedConn
    <3> QED BY <1>0, <3>2, <3>3 DEF ServerTypes
  <2>3. CASE \E s \in Session : ReleaseConn(s)
    <3>1. PICK s \in Session : ReleaseConn(s)
      BY <2>3
    <3> QED BY <1>0, <3>1 DEF ReleaseConn, ServerTypes
  <2>4. CASE ListenerStops
    BY <1>0, <2>4 DEF ListenerStops, ServerTypes
  <2> QED BY <2>1, <2>2, <2>3, <2>4
<1>2. ServerTypes'
  BY <1>0, <1>1 DEF ServerTypes, bits, ghosts
<1>3. OneAcceptTask'
  <2>1. ASSUME NEW e \in Session, conn[e] \notin {"away", "parked"} PROVE conn'[e] \notin {"away", "parked"}
    BY <1>1, <2>1
  <2> QED BY <1>0, <1>1, <2>1 DEF OneAcceptTask, bits
<1>4. SealHolds'
  BY <1>0, <1>1 DEF SealHolds, bits, ghosts
<1>5. CountsRight'
  <2>1. Authorized' = Authorized /\ Working' = Working /\ Registering' = Registering
    BY <1>1 DEF Authorized, Working, Registering
  <2> QED BY <1>0, <1>1, <2>1 DEF CountsRight, Bit
<1>6. \A s \in Session : SessionHeld(s)' /\ SourceReached(s)'
  <2>1. TasksRest
    <3>1. SameReply /\ serve' = serve /\ cancels' = cancels /\ listed' = listed /\ acceptor' = acceptor
      BY <1>1 DEF SameReply, ghosts
    <3> QED BY <1>0, <1>1, <3>1 DEF TasksRest, SessionHeld
  <2> QED BY <1>1, <2>1, RestingSessions DEF bits
<1> QED BY <1>2, <1>3, <1>4, <1>5, <1>6 DEF ServerInv

-----------------------------------------------------------------------------
(***************************************************************************)
(* The accept task                                                         *)
(***************************************************************************)

\* A step of the accept task keeps the invariant if its hands and the list of the sessions
\* agree with the connections, and the counter with the places.
LEMMA AcceptKeeps ==
  ASSUME HttpServerAssumption, ServerInv, NEW p \in AcceptPlace \ {"none"},
         NEW S \in SUBSET Session, AcceptorAt(p, S), acceptor.pc \notin NoTask,
         UNCHANGED <<bits, inflight, serve, todo, caller, ghosts>>,
         serverListener' \in {"open", "stopping", "stopped"},
         serverTasks' = serverTasks + Bit(p \notin NoTask) + Bit(p = "register")
                          - Bit(acceptor.pc = "register") - 1,
         ses' \in [Session -> SessionRecord],
         conn' \in [Session -> {"away", "parked", "open", "asked", "released"}],
         listed' \subseteq Session, Cardinality(listed') <= MaxConnections,
         p \in {"asking", "holding"} => Cardinality(listed') < MaxConnections,
         p \notin HoldPlace => S = {},
         p \in HoldPlace => \E s \in Session :
           S = {s} /\ serve[s] = "none" /\ conn'[s] \notin {"away", "parked"},
         TasksRest, todo["acceptor"] = {}
  PROVE  ServerInv'
<1>0. ServerTypes /\ OneAcceptTask /\ SealHolds /\ CountsRight
  BY DEF ServerInv
<1>1. acceptor'.pc = p /\ acceptor'.at = S /\ acceptor' \in [pc : AcceptPlace, at : SUBSET Session]
  BY DEF AcceptorAt
<1>2. serverTasks \in Int /\ serverTasks # 0
  <2>1. Cardinality(Working) \in Nat /\ Cardinality(Registering) \in Nat
    BY <1>0, ServerFinite
  <2> QED BY <1>0, <2>1 DEF CountsRight, Bit
<1>3. ServerTypes'
  <2>1. serverTasks' \in Int
    BY <1>2 DEF Bit
  <2> QED BY <1>0, <1>1, <2>1 DEF ServerTypes, bits, ghosts
<1>4. OneAcceptTask'
  <2>1. started' = started /\ caller' = caller /\ serve' = serve
    BY DEF bits
  <2>2. started /\ \A c \in ServerCaller : caller[c] \notin Starting
    BY <1>0 DEF OneAcceptTask, NoTask
  <2> QED BY <1>1, <2>1, <2>2 DEF OneAcceptTask
<1>5. SealHolds'
  <2>1. ~gone
    BY <1>0, <1>2 DEF SealHolds
  <2> QED BY <1>0, <1>1, <2>1 DEF SealHolds, bits, ghosts
<1>6. CountsRight'
  <2>1. /\ inflight' = Cardinality(Authorized') /\ inflight' <= MaxInflight /\ Working' = Working
    BY RestingCounts DEF TasksRest
  <2>2. Registering' = Registering /\ Cardinality(Working) \in Nat /\ Cardinality(Registering) \in Nat
    BY <1>0, ServerFinite DEF Registering
  <2>3. serverTasks' = Cardinality(Working') + Bit(acceptor'.pc \notin NoTask)
                         + Bit(acceptor'.pc = "register") + Cardinality(Registering')
    BY <1>0, <1>1, <2>1, <2>2 DEF CountsRight, Bit
  <2> QED BY <1>1, <2>1, <2>3 DEF CountsRight
<1>7. \A s \in Session : SessionHeld(s)' /\ SourceReached(s)'
  BY RestingSessions DEF bits
<1> QED BY <1>3, <1>4, <1>5, <1>6, <1>7 DEF ServerInv

LEMMA LookKeeps ==
  ASSUME HttpServerAssumption, ServerInv, LookForRoom
  PROVE  ServerInv'
<1>0. ServerTypes /\ OneAcceptTask /\ SealHolds /\ CountsRight /\ MaxConnections \in Nat
      /\ \A s \in Session : SessionHeld(s)
  BY DEF ServerInv, HttpServerAssumption
<1>1. PICK p \in {"lease", "looking", "asking"} :
        /\ acceptor.pc = "looking" /\ listed' = Sweep /\ AcceptorAt(p, {})
        /\ p = "asking" => ~(Cardinality(listed') >= MaxConnections)
        /\ UNCHANGED <<bits, inflight, serverTasks, ses, conn, serve, serverListener, todo, caller,
                       ghosts>>
  BY DEF LookForRoom
<1>2. Sweep \subseteq listed /\ listed' \subseteq Session
  BY <1>0, <1>1 DEF Sweep, ServerTypes
<1>3. Cardinality(listed') <= Cardinality(listed) /\ Cardinality(listed') \in Nat
      /\ Cardinality(listed) \in Nat
  <2>1. IsFiniteSet(listed)
    BY <1>0, ServerFinite
  <2> QED BY <1>1, <1>2, <2>1, FS_Subset, FS_CardinalityType
<1>4. p \in AcceptPlace \ {"none"} /\ p \notin NoTask \cup HoldPlace /\ acceptor.pc \notin NoTask
      /\ p # "register" /\ p # "holding"
  BY <1>1 DEF AcceptPlace, NoTask, HoldPlace
<1>5. TasksRest
  <2>1. SameReply /\ serve' = serve /\ cancels' = cancels /\ conn' = conn
    BY <1>1 DEF SameReply, ghosts
  <2>2. ASSUME NEW s \in Session, conn[s] \in {"open", "asked"} PROVE s \in listed'
    BY <1>0, <1>1, <2>2 DEF Sweep, SessionHeld
  <2>3. ASSUME NEW s \in Session, conn[s] \in {"away", "parked"} PROVE s \notin listed'
    BY <1>0, <1>1, <1>2, <2>3 DEF SessionHeld
  <2> QED BY <1>1, <1>2, <2>1, <2>2, <2>3 DEF TasksRest
<1>6. /\ serverTasks' = serverTasks + Bit(p \notin NoTask) + Bit(p = "register")
                         - Bit(acceptor.pc = "register") - 1
      /\ Cardinality(listed') <= MaxConnections
      /\ p \in {"asking", "holding"} => Cardinality(listed') < MaxConnections
  BY <1>0, <1>1, <1>3, <1>4 DEF Bit, CountsRight, ServerTypes
<1>7. /\ todo["acceptor"] = {} /\ ses' \in [Session -> SessionRecord]
      /\ conn' \in [Session -> {"away", "parked", "open", "asked", "released"}]
      /\ serverListener' \in {"open", "stopping", "stopped"}
      /\ UNCHANGED <<bits, inflight, serve, todo, caller, ghosts>>
  BY <1>0, <1>1 DEF SealHolds, ServerTypes
<1> QED BY <1>1, <1>2, <1>4, <1>5, <1>6, <1>7, AcceptKeeps

LEMMA AskKeeps ==
  ASSUME HttpServerAssumption, ServerInv, AskForConnection
  PROVE  ServerInv'
<1>0. ServerTypes /\ OneAcceptTask /\ SealHolds /\ CountsRight /\ \A s \in Session : SessionHeld(s)
  BY DEF ServerInv
<1>1. acceptor.pc = "asking" /\ todo["acceptor"] = {} /\ acceptor.pc \notin NoTask
      /\ UNCHANGED <<bits, inflight, serverTasks, listed, ses, serve, serverListener, todo, caller,
                     ghosts>>
  BY <1>0 DEF AskForConnection, SealHolds, NoTask
<1>2. Cardinality(listed) < MaxConnections /\ Cardinality(listed) <= MaxConnections
      /\ listed \subseteq Session
  BY <1>0, <1>1 DEF CountsRight, ServerTypes
<1>3. PICK p \in {"holding", "looking", "failing"}, S \in SUBSET Session :
        /\ AcceptorAt(p, S)
        /\ p = "holding" =>
             \E s \in Session : S = {s} /\ conn[s] = "parked" /\ conn' = [conn EXCEPT ![s] = "open"]
        /\ p # "holding" => S = {} /\ conn' = conn
  BY DEF AskForConnection
<1>4. p \in AcceptPlace \ {"none"} /\ p \notin NoTask /\ p # "register" /\ p # "asking"
      /\ (p \in HoldPlace => p = "holding") /\ (p \notin HoldPlace => p # "holding")
  BY DEF AcceptPlace, NoTask, HoldPlace
<1>5. acceptor'.pc = p /\ acceptor'.at = S
  BY <1>3 DEF AcceptorAt
<1>6. /\ conn' \in [Session -> {"away", "parked", "open", "asked", "released"}]
      /\ p = "holding" => \E s \in Session :
           S = {s} /\ serve[s] = "none" /\ conn'[s] \notin {"away", "parked"}
  BY <1>0, <1>3 DEF ServerTypes, SessionHeld
<1>7. TasksRest
  <2>1. SameReply /\ serve' = serve /\ cancels' = cancels /\ listed' = listed
    BY <1>1 DEF SameReply, ghosts
  <2>2. ASSUME NEW e \in Session
        PROVE  /\ conn'[e] = "open" => conn[e] = "open" \/ serve[e] = "none"
               /\ conn'[e] \in {"away", "parked"} => conn[e] \in {"away", "parked"} /\ e \notin listed
               /\ conn'[e] \in {"open", "asked"} => e \in listed \/ (p = "holding" /\ e \in S)
    <3>1. SessionHeld(e)
      BY <1>0
    <3>2. CASE p = "holding"
      <4>1. PICK s \in Session : S = {s} /\ conn[s] = "parked" /\ conn' = [conn EXCEPT ![s] = "open"]
        BY <1>3, <3>2
      <4>2. e # s => conn'[e] = conn[e]
        BY <1>0, <4>1 DEF ServerTypes
      <4>3. e = s => conn'[e] = "open" /\ serve[e] = "none"
        BY <1>0, <3>1, <4>1 DEF ServerTypes, SessionHeld
      <4> QED BY <1>1, <3>1, <3>2, <4>1, <4>2, <4>3 DEF SessionHeld
    <3>3. CASE p # "holding"
      BY <1>1, <1>3, <3>1, <3>3 DEF SessionHeld
    <3> QED BY <3>2, <3>3
  <2> QED BY <1>5, <2>1, <2>2 DEF TasksRest
<1>8. serverTasks' = serverTasks + Bit(p \notin NoTask) + Bit(p = "register")
                       - Bit(acceptor.pc = "register") - 1
  BY <1>0, <1>1, <1>4 DEF Bit, ServerTypes
<1>9. ses' \in [Session -> SessionRecord] /\ serverListener' \in {"open", "stopping", "stopped"}
  BY <1>0, <1>1 DEF ServerTypes
<1> QED BY <1>1, <1>2, <1>3, <1>4, <1>6, <1>7, <1>8, <1>9, AcceptKeeps

\* The mark task_done is all that a refused or an ended task leaves on its session.
LEMMA DoneSessions ==
  ASSUME ServerTypes, NEW S,
         ses' = [s \in Session |-> IF s \in S THEN [ses[s] EXCEPT !.task_done = TRUE] ELSE ses[s]]
  PROVE  ses' \in [Session -> SessionRecord] /\ SameReply
<1>1. ASSUME NEW e \in Session
      PROVE  LET r == IF e \in S THEN [ses[e] EXCEPT !.task_done = TRUE] ELSE ses[e]
             IN  /\ r \in SessionRecord /\ r.authorized = ses[e].authorized /\ r.source = ses[e].source
                 /\ r.source_cancelled = ses[e].source_cancelled
  <2>1. ses[e] \in SessionRecord
    BY DEF ServerTypes
  <2> QED BY <2>1 DEF SessionRecord
<1> QED BY <1>1 DEF SameReply

LEMMA Reserved ==
  ASSUME ServerTypes, NEW S, ReserveTask(S)
  PROVE  /\ ses' \in [Session -> SessionRecord] /\ SameReply
         /\ serverTasks' = serverTasks + Bit(~stopping) /\ serverTasks \in Int
         /\ ~stopping => ses' = ses
<1>1. serverTasks \in Int
  BY DEF ServerTypes
<1>2. CASE stopping
  <2>1. /\ ses' = [s \in Session |-> IF s \in S THEN [ses[s] EXCEPT !.task_done = TRUE] ELSE ses[s]]
        /\ serverTasks' = serverTasks
    BY <1>2 DEF ReserveTask
  <2>2. ses' \in [Session -> SessionRecord] /\ SameReply
    BY <2>1, DoneSessions
  <2> QED BY <1>1, <1>2, <2>1, <2>2 DEF Bit
<1>3. CASE ~stopping
  BY <1>1, <1>3 DEF ReserveTask, SameReply, ServerTypes, Bit
<1> QED BY <1>1, <1>2, <1>3

\* What the accept task holds is a connection that no task serves.
LEMMA InHand ==
  ASSUME ServerInv, acceptor.pc \in HoldPlace
  PROVE  /\ todo["acceptor"] = {} /\ acceptor.pc \notin NoTask
         /\ \E s \in Session :
              acceptor.at = {s} /\ serve[s] = "none" /\ conn[s] \notin {"away", "parked"}
  BY DEF ServerInv, OneAcceptTask, SealHolds, HoldPlace, NoTask

LEMMA HoldKeeps ==
  ASSUME HttpServerAssumption, ServerInv, Hold
  PROVE  ServerInv'
<1>0. ServerTypes /\ CountsRight /\ MaxConnections \in Nat /\ \A s \in Session : SessionHeld(s)
  BY DEF ServerInv, HttpServerAssumption
<1>1. /\ acceptor.pc = "holding" /\ listed' = listed \cup acceptor.at
      /\ UNCHANGED <<bits, inflight, serverTasks, serve, serverListener, todo, caller, ghosts>>
  BY DEF Hold
<1>2. PICK s \in Session :
        acceptor.at = {s} /\ serve[s] = "none" /\ conn[s] \notin {"away", "parked"}
  BY <1>1, InHand DEF HoldPlace
<1>3. todo["acceptor"] = {} /\ acceptor.pc \notin NoTask
  BY <1>1, InHand DEF HoldPlace
<1>4. PICK p \in {"lease", "submit"}, S \in SUBSET Session :
        /\ AcceptorAt(p, S)
        /\ p = "lease" => S = {} /\ conn' = Asked({s}) /\ ses' =
             [e \in Session |-> IF e \in {s} THEN [ses[e] EXCEPT !.task_done = TRUE] ELSE ses[e]]
        /\ p = "submit" => S = {s} /\ conn' = conn /\ ses' = ses
  BY <1>2 DEF Hold
<1>5. p \in AcceptPlace \ {"none"} /\ p \notin NoTask /\ p # "register"
      /\ p \notin {"asking", "holding"} /\ (p \in HoldPlace <=> p = "submit")
  BY DEF AcceptPlace, NoTask, HoldPlace
<1>6. ses' \in [Session -> SessionRecord] /\ SameReply
  <2>1. CASE p = "lease"
    <3>1. ses' = [e \in Session |-> IF e \in {s} THEN [ses[e] EXCEPT !.task_done = TRUE] ELSE ses[e]]
      BY <1>4, <2>1
    <3> QED BY <1>0, <3>1, DoneSessions
  <2>2. CASE p = "submit"
    BY <1>0, <1>4, <2>2 DEF ServerTypes, SameReply
  <2> QED BY <2>1, <2>2
<1>7. /\ conn' \in [Session -> {"away", "parked", "open", "asked", "released"}]
      /\ \A e \in Session :
           /\ conn'[e] = "open" => conn[e] = "open"
           /\ conn'[e] \in {"open", "asked"} => conn[e] \in {"open", "asked"}
           /\ conn'[e] \in {"away", "parked"} => conn[e] \in {"away", "parked"}
  <2>1. CASE p = "lease"
    <3>1. /\ conn' \in [Session -> {"away", "parked", "open", "asked", "released"}]
          /\ \A e \in Session : /\ conn[e] # "open" => conn'[e] = conn[e]
                                /\ conn[e] = "open" => conn'[e] \in {"open", "asked"}
      BY <1>0, <1>4, <2>1, AskedConn
    <3> QED BY <3>1
  <2>2. CASE p = "submit"
    BY <1>0, <1>4, <2>2 DEF ServerTypes
  <2> QED BY <2>1, <2>2
<1>8. listed' \subseteq Session /\ Cardinality(listed') <= MaxConnections
  <2>1. IsFiniteSet(listed) /\ Cardinality(listed) \in Nat /\ Cardinality(listed) < MaxConnections
    BY <1>0, <1>1, ServerFinite DEF CountsRight
  <2>2. s \notin listed => Cardinality(listed') = Cardinality(listed) + 1
    BY <1>1, <1>2, <2>1, OneMore
  <2>3. s \in listed => listed' = listed
    BY <1>1, <1>2
  <2>4. listed' \subseteq Session
    BY <1>0, <1>1, <1>2 DEF ServerTypes
  <2>5. CASE s \in listed
    BY <1>0, <2>1, <2>3, <2>4, <2>5
  <2>6. CASE s \notin listed
    BY <1>0, <2>1, <2>2, <2>4, <2>6
  <2> QED BY <2>5, <2>6
<1>9. TasksRest
  <2>1. serve' = serve /\ cancels' = cancels /\ acceptor'.pc = p
    BY <1>1, <1>4 DEF AcceptorAt, ghosts
  <2>2. ASSUME NEW e \in Session, conn[e] \in {"open", "asked"} PROVE e \in listed'
    BY <1>0, <1>1, <2>2 DEF SessionHeld
  <2>3. ASSUME NEW e \in Session, conn[e] \in {"away", "parked"} PROVE e \notin listed'
    BY <1>0, <1>1, <1>2, <2>3 DEF SessionHeld
  <2> QED BY <1>1, <1>2, <1>6, <1>7, <2>1, <2>2, <2>3 DEF TasksRest
<1>10. p \in HoldPlace => \E e \in Session :
         S = {e} /\ serve[e] = "none" /\ conn'[e] \notin {"away", "parked"}
  BY <1>2, <1>4, <1>5
<1>11. /\ serverTasks' = serverTasks + Bit(p \notin NoTask) + Bit(p = "register")
                          - Bit(acceptor.pc = "register") - 1
       /\ serverListener' \in {"open", "stopping", "stopped"} /\ (p \notin HoldPlace => S = {})
       /\ UNCHANGED <<bits, inflight, serve, todo, caller, ghosts>>
  BY <1>0, <1>1, <1>4, <1>5 DEF Bit, ServerTypes
<1> QED BY <1>3, <1>4, <1>5, <1>6, <1>7, <1>8, <1>9, <1>10, <1>11, AcceptKeeps

\* From here the accept task neither lists a session nor takes a connection.
LEMMA AcceptGoesOn ==
  ASSUME HttpServerAssumption, ServerInv, NEW p \in AcceptPlace \ {"none", "asking", "holding"},
         NEW S \in SUBSET Session, AcceptorAt(p, S), acceptor.pc \notin NoTask \cup {"holding"},
         UNCHANGED <<bits, inflight, listed, serve, todo, caller, ghosts>>,
         serverListener' \in {"open", "stopping", "stopped"},
         serverTasks' = serverTasks + Bit(p \notin NoTask) + Bit(p = "register")
                          - Bit(acceptor.pc = "register") - 1,
         ses' \in [Session -> SessionRecord], SameReply, conn' = conn \/ conn' = Asked(acceptor.at),
         p \notin HoldPlace => S = {},
         p \in HoldPlace => acceptor.pc \in HoldPlace /\ S = acceptor.at /\ conn' = conn,
         todo["acceptor"] = {}
  PROVE  ServerInv'
<1>0. ServerTypes /\ OneAcceptTask /\ CountsRight /\ \A s \in Session : SessionHeld(s)
  BY DEF ServerInv
<1>1. /\ conn' \in [Session -> {"away", "parked", "open", "asked", "released"}]
      /\ \A e \in Session :
           /\ conn'[e] = "open" => conn[e] = "open"
           /\ conn'[e] \in {"open", "asked"} => conn[e] \in {"open", "asked"}
           /\ conn'[e] \in {"away", "parked"} => conn[e] \in {"away", "parked"}
  <2>1. CASE conn' = Asked(acceptor.at)
    <3>1. acceptor.at \in SUBSET Session
      BY <1>0 DEF ServerTypes
    <3>2. /\ conn' \in [Session -> {"away", "parked", "open", "asked", "released"}]
          /\ \A e \in Session : /\ conn[e] # "open" => conn'[e] = conn[e]
                                /\ conn[e] = "open" => conn'[e] \in {"open", "asked"}
      BY <1>0, <2>1, <3>1, AskedConn
    <3> QED BY <3>2
  <2>2. CASE conn' = conn
    BY <1>0, <2>2 DEF ServerTypes
  <2> QED BY <2>1, <2>2
<1>2. TasksRest
  <2>1. serve' = serve /\ cancels' = cancels /\ listed' = listed
    BY DEF ghosts
  <2>2. ASSUME NEW e \in Session, conn[e] \in {"open", "asked"} PROVE e \in listed'
    BY <1>0, <2>1, <2>2 DEF SessionHeld
  <2>3. ASSUME NEW e \in Session, conn[e] \in {"away", "parked"} PROVE e \notin listed'
    BY <1>0, <2>1, <2>3 DEF SessionHeld
  <2> QED BY <1>1, <2>1, <2>2, <2>3 DEF TasksRest
<1>3. p \in HoldPlace => \E s \in Session :
        S = {s} /\ serve[s] = "none" /\ conn'[s] \notin {"away", "parked"}
  BY InHand
<1>4. listed' \subseteq Session /\ Cardinality(listed') <= MaxConnections
      /\ UNCHANGED <<bits, inflight, serve, todo, caller, ghosts>> /\ acceptor.pc \notin NoTask
      /\ (p \in {"asking", "holding"} => Cardinality(listed') < MaxConnections)
  BY <1>0 DEF ServerTypes, CountsRight
<1> QED BY <1>1, <1>2, <1>3, <1>4, AcceptKeeps

LEMMA SubmitKeeps ==
  ASSUME HttpServerAssumption, ServerInv, SubmitSession
  PROVE  ServerInv'
<1>0. ServerTypes
  BY DEF ServerInv
<1>1. /\ acceptor.pc = "submit" /\ ReserveTask(acceptor.at)
      /\ UNCHANGED <<bits, inflight, listed, conn, serve, serverListener, todo, caller, ghosts>>
  BY DEF SubmitSession
<1>2. todo["acceptor"] = {} /\ acceptor.pc \notin NoTask \cup {"holding"} /\ acceptor.pc \in HoldPlace
  BY <1>1, InHand DEF HoldPlace
<1>3. /\ ses' \in [Session -> SessionRecord] /\ SameReply
      /\ serverTasks' = serverTasks + Bit(~stopping) /\ serverTasks \in Int
  BY <1>0, <1>1, Reserved
<1>4. serverTasks' \in {serverTasks, serverTasks + 1}
  BY <1>3 DEF Bit
<1>5. PICK p \in {"drop", "register"} :
        AcceptorAt(p, acceptor.at) /\ (p = "drop" <=> serverTasks' = serverTasks)
  BY DEF SubmitSession
<1>6. p \in AcceptPlace \ {"none", "asking", "holding"} /\ p \notin NoTask /\ p \in HoldPlace
  BY DEF AcceptPlace, NoTask, HoldPlace
<1>7. serverTasks' = serverTasks + Bit(p \notin NoTask) + Bit(p = "register")
                       - Bit(acceptor.pc = "register") - 1
  BY <1>1, <1>3, <1>4, <1>5, <1>6 DEF Bit
<1>8. acceptor.at \in SUBSET Session /\ serverListener' \in {"open", "stopping", "stopped"}
      /\ conn' = conn /\ UNCHANGED <<bits, inflight, listed, serve, todo, caller, ghosts>>
  BY <1>0, <1>1 DEF ServerTypes
<1> QED BY <1>2, <1>3, <1>5, <1>6, <1>7, <1>8, AcceptGoesOn

\* A refused registration gives the reservation back.
LEMMA RefusedKeeps ==
  ASSUME HttpServerAssumption, ServerInv, acceptor.pc = "register", EndLease(acceptor.at),
         AcceptorAt("drop", acceptor.at),
         UNCHANGED <<bits, inflight, listed, conn, serve, serverListener, todo, caller, ghosts>>
  PROVE  ServerInv'
<1>0. ServerTypes
  BY DEF ServerInv
<1>2. todo["acceptor"] = {} /\ acceptor.pc \notin NoTask \cup {"holding"} /\ acceptor.pc \in HoldPlace
  BY InHand DEF HoldPlace
<1>3. ses' \in [Session -> SessionRecord] /\ SameReply /\ serverTasks' = serverTasks - 1
  BY <1>0, LeaseEnds
<1>4. "drop" \in AcceptPlace \ {"none", "asking", "holding"} /\ "drop" \notin NoTask
      /\ "drop" \in HoldPlace
  BY DEF AcceptPlace, NoTask, HoldPlace
<1>5. serverTasks' = serverTasks + Bit("drop" \notin NoTask) + Bit("drop" = "register")
                       - Bit(acceptor.pc = "register") - 1
  BY <1>0, <1>3, <1>4 DEF Bit, ServerTypes
<1>6. acceptor.at \in SUBSET Session /\ serverListener' \in {"open", "stopping", "stopped"}
      /\ conn' = conn /\ UNCHANGED <<bits, inflight, listed, serve, todo, caller, ghosts>>
  BY <1>0 DEF ServerTypes
<1> QED BY <1>2, <1>3, <1>4, <1>5, <1>6, AcceptGoesOn

\* A registered task serves the session from now on; the accept task looks again.
LEMMA RegisteredKeeps ==
  ASSUME HttpServerAssumption, ServerInv, acceptor.pc = "register",
         serve' = [s \in Session |-> IF s \in acceptor.at THEN "reading" ELSE serve[s]],
         AcceptorAt("looking", {}),
         UNCHANGED <<bits, inflight, serverTasks, listed, ses, conn, serverListener, todo, caller,
                     ghosts>>
  PROVE  ServerInv'
<1>0. ServerTypes /\ OneAcceptTask /\ SealHolds /\ CountsRight
  BY DEF ServerInv
<1>1. PICK s \in Session :
        acceptor.at = {s} /\ serve[s] = "none" /\ conn[s] \notin {"away", "parked"}
  BY InHand DEF HoldPlace
<1>2. serve'[s] = "reading" /\ \A e \in Session \ {s} : serve'[e] = serve[e]
  BY <1>1
<1>3. acceptor'.pc = "looking" /\ acceptor'.at = {}
      /\ acceptor' \in [pc : AcceptPlace, at : SUBSET Session]
  BY DEF AcceptorAt, AcceptPlace
<1>4. ServerTypes'
  <2>1. serve' \in [Session -> TaskPlace]
    BY <1>0 DEF ServerTypes, TaskPlace, IdlePlace
  <2> QED BY <1>0, <1>3, <2>1 DEF ServerTypes, bits, ghosts
<1>5. OneAcceptTask'
  <2>1. started /\ \A c \in ServerCaller : caller[c] \notin Starting
    BY <1>0 DEF OneAcceptTask
  <2> QED BY <1>3, <2>1 DEF OneAcceptTask, HoldPlace, bits
<1>6. CountsRight'
  <2>1. Working' = Working \cup {s} /\ s \notin Working
    BY <1>1, <1>2 DEF Working, NoTask
  <2>2. Cardinality(Working') = Cardinality(Working) + 1 /\ Cardinality(Working) \in Nat
        /\ Cardinality(Registering) \in Nat
    BY <1>0, <2>1, ServerFinite, OneMore
  <2>3. Authorized' = Authorized /\ Registering' = Registering
    BY DEF Authorized, Registering
  <2>4. serverTasks' = Cardinality(Working') + Bit(acceptor'.pc \notin NoTask)
                         + Bit(acceptor'.pc = "register") + Cardinality(Registering')
    BY <1>0, <1>3, <2>2, <2>3 DEF CountsRight, Bit, NoTask
  <2> QED BY <1>0, <1>3, <2>3, <2>4 DEF CountsRight
<1>7. SealHolds'
  <2>1. serverTasks # 0
    <3>1. Cardinality(Working) \in Nat /\ Cardinality(Registering) \in Nat
      BY <1>0, ServerFinite
    <3> QED BY <1>0, <3>1 DEF CountsRight, Bit, NoTask
  <2> QED BY <1>0, <1>3, <2>1 DEF SealHolds, bits, ghosts
<1>8. ASSUME NEW e \in Session PROVE SessionHeld(e)' /\ SourceReached(e)'
  <2>1. SessionHeld(e) /\ SourceReached(e)
    BY DEF ServerInv
  <2>2. SourceCalls(e)' = SourceCalls(e) /\ conn' = conn /\ ses' = ses /\ cancels' = cancels
        /\ listed' = listed /\ serverClosing' = serverClosing
    BY DEF SourceCalls, bits, ghosts
  <2>3. CASE e # s
    BY <1>2, <2>1, <2>2, <2>3 DEF SessionHeld, SourceReached, CancelledOnce
  <2>4. CASE e = s
    <3>1. serve[e] = "none" /\ serve'[e] = "reading" /\ {"none", "reading"} \subseteq IdlePlace
          /\ "reading" \notin Replying /\ {"none", "reading"} \subseteq Sourceless
          /\ conn[e] \notin {"away", "parked"}
      BY <1>1, <1>2, <2>4, TaskPlaces DEF IdlePlace, NoTask, Sourceless
    <3>2. SessionHeld(e)'
      BY <2>1, <2>2, <3>1 DEF SessionHeld
    <3>3. CancelledOnce(e)'
      BY <2>1, <2>2, <3>1 DEF SourceReached, CancelledOnce
    <3> QED BY <2>1, <2>2, <3>1, <3>2, <3>3 DEF SourceReached
  <2> QED BY <2>3, <2>4
<1> QED BY <1>4, <1>5, <1>6, <1>7, <1>8 DEF ServerInv

LEMMA RegisterSessionKeeps ==
  ASSUME HttpServerAssumption, ServerInv, RegisterSession
  PROVE  ServerInv'
<1>1. /\ acceptor.pc = "register"
      /\ UNCHANGED <<bits, inflight, listed, conn, serverListener, todo, caller, ghosts>>
  BY DEF RegisterSession
<1>2. CASE /\ serve' = [s \in Session |-> IF s \in acceptor.at THEN "reading" ELSE serve[s]]
           /\ AcceptorAt("looking", {}) /\ UNCHANGED <<serverTasks, ses>>
  BY <1>1, <1>2, RegisteredKeeps
<1>3. CASE EndLease(acceptor.at) /\ AcceptorAt("drop", acceptor.at) /\ UNCHANGED serve
  BY <1>1, <1>3, RefusedKeeps
<1> QED BY <1>2, <1>3 DEF RegisterSession

LEMMA DropKeeps ==
  ASSUME HttpServerAssumption, ServerInv, DropSession
  PROVE  ServerInv'
<1>0. ServerTypes
  BY DEF ServerInv
<1>1. /\ acceptor.pc = "drop" /\ conn' = Asked(acceptor.at) /\ AcceptorAt("looking", {})
      /\ UNCHANGED <<bits, inflight, serverTasks, listed, ses, serve, serverListener, todo, caller,
                     ghosts>>
  BY DEF DropSession
<1>2. todo["acceptor"] = {} /\ acceptor.pc \notin NoTask \cup {"holding"}
  BY <1>1, InHand DEF HoldPlace
<1>3. "looking" \in AcceptPlace \ {"none", "asking", "holding"} /\ "looking" \notin NoTask \cup HoldPlace
  BY DEF AcceptPlace, NoTask, HoldPlace
<1>4. serverTasks' = serverTasks + Bit("looking" \notin NoTask) + Bit("looking" = "register")
                       - Bit(acceptor.pc = "register") - 1
  BY <1>0, <1>1, <1>3 DEF Bit, ServerTypes
<1>5. ses' \in [Session -> SessionRecord] /\ SameReply
      /\ serverListener' \in {"open", "stopping", "stopped"}
      /\ UNCHANGED <<bits, inflight, listed, serve, todo, caller, ghosts>>
  BY <1>0, <1>1 DEF ServerTypes, SameReply
<1> QED BY <1>1, <1>2, <1>3, <1>4, <1>5, AcceptGoesOn

LEMMA AcceptEndsKeeps ==
  ASSUME HttpServerAssumption, ServerInv, AcceptEnds
  PROVE  ServerInv'
<1>0. ServerTypes /\ SealHolds
  BY DEF ServerInv
<1>1. /\ acceptor.pc = "lease" /\ EndLease({}) /\ AcceptorAt("over", {})
      /\ UNCHANGED <<bits, inflight, listed, conn, serve, serverListener, todo, caller, ghosts>>
  BY DEF AcceptEnds
<1>2. todo["acceptor"] = {} /\ acceptor.pc \notin NoTask \cup {"holding"}
  BY <1>0, <1>1 DEF SealHolds, NoTask
<1>3. "over" \in AcceptPlace \ {"none", "asking", "holding"} /\ "over" \notin HoldPlace
      /\ "over" \in NoTask
  BY DEF AcceptPlace, NoTask, HoldPlace
<1>4. ses' \in [Session -> SessionRecord] /\ SameReply /\ serverTasks' = serverTasks - 1
  BY <1>0, <1>1, LeaseEnds
<1>5. serverTasks' = serverTasks + Bit("over" \notin NoTask) + Bit("over" = "register")
                       - Bit(acceptor.pc = "register") - 1
  BY <1>0, <1>1, <1>3, <1>4 DEF Bit, ServerTypes
<1>6. serverListener' \in {"open", "stopping", "stopped"} /\ conn' = conn
      /\ UNCHANGED <<bits, inflight, listed, serve, todo, caller, ghosts>>
  BY <1>0, <1>1 DEF ServerTypes
<1> QED BY <1>1, <1>2, <1>3, <1>4, <1>5, <1>6, AcceptGoesOn

-----------------------------------------------------------------------------
(***************************************************************************)
(* Stop                                                                    *)
(***************************************************************************)

\* The seal closes what holds no request, and hands every running source to one caller.
LEMMA StopSessions ==
  ASSUME HttpServerAssumption, ServerInv, NEW a \in Stopper, NEW force \in BOOLEAN, Stop(a, force),
         todo[a] = {}, UNCHANGED <<listed, serve, cancels>>,
         acceptor.pc = "holding" => acceptor' = acceptor
  PROVE  /\ stopping' = TRUE /\ serverClosing' \in BOOLEAN
         /\ ses' \in [Session -> SessionRecord] /\ Authorized' = Authorized
         /\ conn' \in [Session -> {"away", "parked", "open", "asked", "released"}]
         /\ \A s \in Session : conn[s] \notin {"away", "parked"} => conn'[s] \notin {"away", "parked"}
         /\ todo' \in [Stopper -> SUBSET Session] /\ \A b \in Stopper \ {a} : todo'[b] = todo[b]
         /\ \A s \in Session : SessionHeld(s)' /\ SourceReached(s)'
<1>0. ServerTypes /\ \A s \in Session : SessionHeld(s) /\ SourceReached(s)
  BY DEF ServerInv
<1>1. PICK reached \in SUBSET Session :
        /\ reached = {s \in listed : serverClosing' /\ ses[s].source /\ ~ses[s].source_cancelled}
        /\ todo' = [todo EXCEPT ![a] = reached]
        /\ ses' = [s \in Session |-> IF s \in reached
                                     THEN [ses[s] EXCEPT !.source_cancelled = TRUE] ELSE ses[s]]
  BY <1>0 DEF Stop, ServerTypes
<1>2. /\ stopping' = TRUE /\ serverClosing' = (serverClosing \/ force) /\ serverClosing' \in BOOLEAN
  BY <1>0 DEF Stop, ServerTypes
<1>3. PICK S \in SUBSET Session : conn' = Asked(S)
  BY <1>0 DEF Stop, ServerTypes
<1>4. /\ conn' \in [Session -> {"away", "parked", "open", "asked", "released"}]
      /\ \A e \in Session : /\ conn[e] # "open" => conn'[e] = conn[e]
                            /\ conn[e] = "open" => conn'[e] \in {"open", "asked"}
  BY <1>0, <1>3, AskedConn
<1>5. ASSUME NEW s \in Session
      PROVE  /\ ses'[s] \in SessionRecord /\ ses'[s].authorized = ses[s].authorized
             /\ ses'[s].source = ses[s].source
             /\ ses'[s].source_cancelled = (ses[s].source_cancelled \/ s \in reached)
  <2>1. ses[s] \in SessionRecord
    BY <1>0 DEF ServerTypes
  <2>2. ses'[s] = IF s \in reached THEN [ses[s] EXCEPT !.source_cancelled = TRUE] ELSE ses[s]
    BY <1>1
  <2> QED BY <2>1, <2>2 DEF SessionRecord
<1>6. ses' \in [Session -> SessionRecord] /\ Authorized' = Authorized
  BY <1>1, <1>5 DEF Authorized
<1>7. /\ todo' \in [Stopper -> SUBSET Session] /\ todo'[a] = reached
      /\ \A b \in Stopper \ {a} : todo'[b] = todo[b]
  BY <1>0, <1>1 DEF ServerTypes
<1>8. ASSUME NEW s \in Session PROVE SessionHeld(s)' /\ SourceReached(s)'
  <2>1. SessionHeld(s) /\ SourceReached(s)
    BY <1>0
  <2>2. SessionHeld(s)'
    BY <1>4, <1>5, <2>1 DEF SessionHeld
  <2>3. CancelledOnce(s)'
    <3>1. CASE s \in reached
      <4>1. ~ses[s].source_cancelled /\ ses'[s].source_cancelled
        BY <1>1, <1>5, <3>1
      <4>2. cancels[s] = 0 /\ serve[s] # "cancelnow" /\ SourceCalls(s) = {}
        BY <2>1, <4>1 DEF SourceReached, CancelledOnce
      <4>3. SourceCalls(s)' = {a}
        BY <1>7, <3>1, <4>2 DEF SourceCalls
      <4> QED BY <4>1, <4>2, <4>3 DEF CancelledOnce
    <3>2. CASE s \notin reached
      <4>1. SourceCalls(s)' = SourceCalls(s)
        BY <1>7, <3>2 DEF SourceCalls
      <4>2. ses'[s].source_cancelled = ses[s].source_cancelled
        <5>1. ses[s].source_cancelled \in BOOLEAN
          BY <1>0 DEF ServerTypes, SessionRecord
        <5> QED BY <1>5, <3>2, <5>1
      <4> QED BY <2>1, <4>1, <4>2 DEF SourceReached, CancelledOnce
    <3> QED BY <3>1, <3>2
  <2>4. serve[s] \in Sourceless => ~ses'[s].source /\ ~ses'[s].source_cancelled
    BY <1>1, <1>5, <2>1 DEF SourceReached
  <2>5. ses'[s].source_cancelled /\ ~serverClosing' =>
          \/ serve[s] \in {"cancelnow", "abandon"}
          \/ serve[s] \in {"settle", "leaving", "lease", "over"} /\ conn'[s] # "open"
    BY <1>1, <1>2, <1>4, <1>5, <2>1 DEF SourceReached
  <2>6. serverClosing' /\ s \in listed /\ ses'[s].source => ses'[s].source_cancelled
    BY <1>1, <1>5
  <2> QED BY <2>2, <2>3, <2>4, <2>5, <2>6 DEF SourceReached
<1> QED BY <1>2, <1>4, <1>6, <1>7, <1>8

\* A collected source is cancelled once, by the caller that collected it.
LEMMA CollectedKeeps ==
  ASSUME HttpServerAssumption, ServerInv, NEW a \in Stopper, CancelCollected(a)
  PROVE  ServerInv'
<1>0. ServerTypes /\ OneAcceptTask /\ SealHolds /\ CountsRight
      /\ \A s \in Session : SessionHeld(s) /\ SourceReached(s)
  BY DEF ServerInv
<1>1. PICK s \in todo[a] :
        /\ cancels' = [cancels EXCEPT ![s] = @ + 1] /\ todo' = [todo EXCEPT ![a] = @ \ {s}]
        /\ UNCHANGED <<bits, inflight, serverTasks, listed, ses, conn, serve, acceptor,
                       serverListener, caller, drained, gone>>
  BY DEF CancelCollected
<1>2. s \in Session
  BY <1>0 DEF ServerTypes
<1>3. /\ todo' \in [Stopper -> SUBSET Session] /\ todo'[a] = todo[a] \ {s}
      /\ \A b \in Stopper \ {a} : todo'[b] = todo[b]
  BY <1>0, <1>1 DEF ServerTypes
<1>4. cancels' \in [Session -> Nat] /\ cancels'[s] = cancels[s] + 1
      /\ \A e \in Session \ {s} : cancels'[e] = cancels[e]
  BY <1>0, <1>1, <1>2 DEF ServerTypes
<1>5. ServerTypes'
  BY <1>0, <1>1, <1>3, <1>4 DEF ServerTypes, bits
<1>6. OneAcceptTask'
  BY <1>0, <1>1 DEF OneAcceptTask, bits
<1>7. SealHolds'
  <2>1. \A b \in Stopper : todo'[b] # {} => todo[b] # {}
    BY <1>3
  <2>2. \A c \in ServerCaller : c \in Stopper
    BY DEF Stopper
  <2>3. "acceptor" \in Stopper
    BY DEF Stopper
  <2> QED BY <1>0, <1>1, <2>1, <2>2, <2>3 DEF SealHolds, bits
<1>8. CountsRight'
  <2>1. Authorized' = Authorized /\ Working' = Working /\ Registering' = Registering
    BY <1>1 DEF Authorized, Working, Registering
  <2> QED BY <1>0, <1>1, <2>1 DEF CountsRight
<1>9. ASSUME NEW e \in Session PROVE SessionHeld(e)' /\ SourceReached(e)'
  <2>1. SessionHeld(e) /\ SourceReached(e)
    BY <1>0
  <2>2. serve' = serve /\ ses' = ses /\ conn' = conn /\ listed' = listed /\ acceptor' = acceptor
        /\ serverClosing' = serverClosing
    BY <1>1 DEF bits
  <2>3. CancelledOnce(e)'
    <3>1. CASE e = s
      <4>1. a \in SourceCalls(s)
        BY DEF SourceCalls
      <4>2. ses[s].source_cancelled /\ cancels[s] = 0 /\ serve[s] # "cancelnow" /\ SourceCalls(s) = {a}
        BY <2>1, <3>1, <4>1 DEF SourceReached, CancelledOnce
      <4>3. SourceCalls(s)' = {}
        BY <1>3, <4>2 DEF SourceCalls
      <4> QED BY <1>4, <2>2, <3>1, <4>2, <4>3 DEF CancelledOnce
    <3>2. CASE e # s
      <4>1. SourceCalls(e)' = SourceCalls(e)
        BY <1>3, <3>2 DEF SourceCalls
      <4> QED BY <1>4, <2>1, <2>2, <3>2, <4>1 DEF SourceReached, CancelledOnce
    <3> QED BY <3>1, <3>2
  <2> QED BY <2>1, <2>2, <2>3 DEF SessionHeld, SourceReached
<1> QED BY <1>5, <1>6, <1>7, <1>8, <1>9 DEF ServerInv

LEMMA AcceptFailsKeeps ==
  ASSUME HttpServerAssumption, ServerInv, AcceptTaskFails
  PROVE  ServerInv'
<1>0. ServerTypes /\ OneAcceptTask /\ SealHolds /\ CountsRight
  BY DEF ServerInv
<1>1. /\ acceptor.pc = "failing" /\ Stop("acceptor", FALSE) /\ AcceptorAt("stopping", {})
      /\ UNCHANGED <<started, draining, inflight, serverTasks, listed, serve, serverListener,
                     caller, cancels, drained, gone>>
  BY DEF AcceptTaskFails, ghosts
<1>2. todo["acceptor"] = {} /\ "acceptor" \in Stopper
  BY <1>0, <1>1 DEF SealHolds, Stopper
<1>3. /\ stopping' = TRUE /\ serverClosing' \in BOOLEAN
      /\ ses' \in [Session -> SessionRecord] /\ Authorized' = Authorized
      /\ conn' \in [Session -> {"away", "parked", "open", "asked", "released"}]
      /\ \A s \in Session : conn[s] \notin {"away", "parked"} => conn'[s] \notin {"away", "parked"}
      /\ todo' \in [Stopper -> SUBSET Session]
      /\ \A b \in Stopper \ {"acceptor"} : todo'[b] = todo[b]
      /\ \A s \in Session : SessionHeld(s)' /\ SourceReached(s)'
  BY <1>1, <1>2, StopSessions
<1>4. acceptor'.pc = "stopping" /\ acceptor'.at = {}
      /\ acceptor' \in [pc : AcceptPlace, at : SUBSET Session]
  BY <1>1 DEF AcceptorAt, AcceptPlace
<1>5. ServerTypes'
  BY <1>0, <1>1, <1>3, <1>4 DEF ServerTypes
<1>6. OneAcceptTask'
  <2>1. started /\ \A c \in ServerCaller : caller[c] \notin Starting
    BY <1>0, <1>1 DEF OneAcceptTask
  <2> QED BY <1>1, <1>4, <2>1 DEF OneAcceptTask, HoldPlace
<1>7. SealHolds'
  <2>1. serverTasks # 0
    <3>1. Cardinality(Working) \in Nat /\ Cardinality(Registering) \in Nat
      BY <1>0, ServerFinite
    <3> QED BY <1>0, <1>1, <3>1 DEF CountsRight, Bit, NoTask
  <2>2. ~gone
    BY <1>0, <2>1 DEF SealHolds
  <2>3. \A c \in ServerCaller : todo'[c] = todo[c]
    BY <1>3 DEF HttpServerAssumption, Stopper
  <2> QED BY <1>0, <1>1, <1>3, <1>4, <2>2, <2>3 DEF SealHolds
<1>8. CountsRight'
  <2>1. Working' = Working /\ Registering' = Registering
    BY <1>1 DEF Working, Registering
  <2> QED BY <1>0, <1>1, <1>3, <1>4, <2>1 DEF CountsRight, Bit, NoTask
<1> QED BY <1>3, <1>5, <1>6, <1>7, <1>8 DEF ServerInv

LEMMA AcceptStopsKeeps ==
  ASSUME HttpServerAssumption, ServerInv, AcceptStops
  PROVE  ServerInv'
<1>1. CASE CancelCollected("acceptor")
  BY <1>1, CollectedKeeps DEF Stopper
<1>2. CASE ~CancelCollected("acceptor")
  <2>0. ServerTypes
    BY DEF ServerInv
  <2>1. /\ acceptor.pc = "stopping" /\ todo["acceptor"] = {} /\ RequestStopAccepting
        /\ AcceptorAt("lease", {})
        /\ UNCHANGED <<bits, inflight, serverTasks, listed, ses, conn, serve, todo, caller, ghosts>>
    BY <1>2 DEF AcceptStops
  <2>2. acceptor.pc \notin NoTask \cup {"holding"}
        /\ "lease" \in AcceptPlace \ {"none", "asking", "holding"} /\ "lease" \notin NoTask \cup HoldPlace
    BY <2>1 DEF AcceptPlace, NoTask, HoldPlace
  <2>3. serverTasks' = serverTasks + Bit("lease" \notin NoTask) + Bit("lease" = "register")
                         - Bit(acceptor.pc = "register") - 1
    BY <2>0, <2>1, <2>2 DEF Bit, ServerTypes
  <2>4. ses' \in [Session -> SessionRecord] /\ SameReply
        /\ serverListener' \in {"open", "stopping", "stopped"}
        /\ UNCHANGED <<bits, inflight, listed, serve, todo, caller, ghosts>>
    BY <2>0, <2>1 DEF ServerTypes, SameReply, RequestStopAccepting
  <2> QED BY <2>1, <2>2, <2>3, <2>4, AcceptGoesOn
<1> QED BY <1>1, <1>2

LEMMA AcceptorStepKeeps ==
  ASSUME HttpServerAssumption, ServerInv, AcceptorStep
  PROVE  ServerInv'
  BY LookKeeps, AskKeeps, HoldKeeps, SubmitKeeps, RegisterSessionKeeps, DropKeeps,
     AcceptFailsKeeps, AcceptStopsKeeps, AcceptEndsKeeps DEF AcceptorStep

-----------------------------------------------------------------------------
(***************************************************************************)
(* The native callers                                                      *)
(***************************************************************************)

\* A sweep forgets sessions that are over, and nothing else.
LEMMA SweepRests ==
  ASSUME HttpServerAssumption, ServerInv, listed' \in {listed, Sweep}, conn' = conn, serve' = serve,
         cancels' = cancels, SameReply, acceptor' = acceptor
  PROVE  TasksRest /\ listed' \subseteq listed /\ Cardinality(listed') <= Cardinality(listed)
         /\ Cardinality(listed') \in Nat /\ Cardinality(listed) \in Nat
<1>0. ServerTypes /\ \A s \in Session : SessionHeld(s)
  BY DEF ServerInv
<1>1. listed' \subseteq listed
  BY DEF Sweep
<1>2. IsFiniteSet(listed) /\ listed \subseteq Session
  BY <1>0, ServerFinite DEF ServerTypes
<1>3. Cardinality(listed') <= Cardinality(listed) /\ Cardinality(listed') \in Nat
      /\ Cardinality(listed) \in Nat
  BY <1>1, <1>2, FS_Subset, FS_CardinalityType
<1>4. ASSUME NEW s \in Session, conn[s] \in {"open", "asked"}
      PROVE  s \in listed' \/ (acceptor.pc = "holding" /\ s \in acceptor.at)
  BY <1>0, <1>4 DEF Sweep, SessionHeld
<1>5. ASSUME NEW s \in Session, conn[s] \in {"away", "parked"} PROVE s \notin listed'
  BY <1>0, <1>1, <1>5 DEF SessionHeld
<1> QED BY <1>1, <1>3, <1>4, <1>5 DEF TasksRest

LEMMA RegisteringAfter ==
  ASSUME HttpServerAssumption, ServerTypes, NEW c \in ServerCaller, NEW p, CallerAt(c, p)
  PROVE  Cardinality(Registering') =
           Cardinality(Registering) + Bit(p = "register") - Bit(caller[c] = "register")
<1>1. caller'[c] = p /\ \A e \in ServerCaller \ {c} : caller'[e] = caller[e]
  BY DEF CallerAt, ServerTypes
<1>2. IsFiniteSet(Registering) /\ Cardinality(Registering) \in Nat
  BY ServerFinite
<1>3. CASE (p = "register") = (caller[c] = "register")
  <2>1. Registering' = Registering
    BY <1>1, <1>3 DEF Registering
  <2> QED BY <1>2, <1>3, <2>1 DEF Bit
<1>4. CASE p = "register" /\ caller[c] # "register"
  <2>1. Registering' = Registering \cup {c} /\ c \notin Registering
    BY <1>1, <1>4 DEF Registering
  <2> QED BY <1>2, <1>4, <2>1, OneMore DEF Bit
<1>5. CASE p # "register" /\ caller[c] = "register"
  <2>1. Registering' = Registering \ {c} /\ c \in Registering
    BY <1>1, <1>5 DEF Registering
  <2> QED BY <1>2, <1>5, <2>1, OneLess DEF Bit
<1> QED BY <1>3, <1>4, <1>5

\* A caller that touches neither the sessions nor the accept task.
LEMMA CallerKeeps ==
  ASSUME HttpServerAssumption, ServerInv, NEW c \in ServerCaller, NEW p \in CallPlace,
         CallerAt(c, p),
         UNCHANGED <<stopping, serverClosing, inflight, serve, conn, cancels, acceptor, todo>>,
         started' \in BOOLEAN, draining' \in BOOLEAN, gone' \in BOOLEAN, started => started',
         serverListener' \in {"open", "stopping", "stopped"}, listed' \in {listed, Sweep},
         ses' \in [Session -> SessionRecord], SameReply,
         serverTasks' = serverTasks + Bit(p = "register") - Bit(caller[c] = "register"),
         p \in Starting => /\ started' /\ acceptor.pc = "none"
                           /\ \A e \in ServerCaller \ {c} : caller[e] \notin Starting,
         p \in {"cancel", "cancelseal", "wait", "waitseal", "stopped"} => stopping,
         todo[c] # {} => p \in {"cancel", "cancelseal"},
         drained' \subseteq {"drain", "shutdown", "again"},
         drained' \cap {"drain", "shutdown"} # {} => stopping /\ inflight = 0,
         gone' => stopping /\ serverTasks' = 0 /\ listed' = {} /\ serverListener' = "stopped"
  PROVE  ServerInv'
<1>0. ServerTypes /\ OneAcceptTask /\ SealHolds /\ CountsRight
  BY DEF ServerInv
<1>1. caller' \in [ServerCaller -> CallPlace] /\ caller'[c] = p
      /\ \A e \in ServerCaller \ {c} : caller'[e] = caller[e]
  BY <1>0 DEF CallerAt, ServerTypes
<1>2. TasksRest /\ listed' \subseteq listed /\ Cardinality(listed') <= Cardinality(listed)
      /\ Cardinality(listed') \in Nat /\ Cardinality(listed) \in Nat
  BY SweepRests
<1>3. ServerTypes'
  <2>1. serverTasks' \in Int
    BY <1>0 DEF ServerTypes, Bit
  <2>2. listed' \subseteq Session
    BY <1>0, <1>2 DEF ServerTypes
  <2> QED BY <1>0, <1>1, <2>1, <2>2 DEF ServerTypes
<1>4. OneAcceptTask'
  <2>1. ~started' => acceptor.pc = "none"
    BY <1>0 DEF OneAcceptTask
  <2>2. ASSUME NEW e \in ServerCaller, caller'[e] \in Starting
        PROVE  /\ started' /\ acceptor.pc = "none"
               /\ \A d \in ServerCaller : caller'[d] \in Starting => d = e
    <3>1. CASE e = c
      BY <1>1, <2>2, <3>1
    <3>2. CASE e # c
      <4>1. caller[e] \in Starting /\ p \notin Starting
        BY <1>1, <2>2, <3>2
      <4> QED BY <1>0, <1>1, <4>1 DEF OneAcceptTask
    <3> QED BY <3>1, <3>2
  <2> QED BY <1>0, <2>1, <2>2 DEF OneAcceptTask
<1>5. SealHolds'
  BY <1>0, <1>1 DEF SealHolds
<1>6. CountsRight'
  <2>1. /\ inflight' = Cardinality(Authorized') /\ inflight' <= MaxInflight /\ Working' = Working
    BY RestingCounts
  <2>2. Cardinality(Registering') =
          Cardinality(Registering) + Bit(p = "register") - Bit(caller[c] = "register")
        /\ Cardinality(Working) \in Nat /\ Cardinality(Registering) \in Nat
    BY <1>0, RegisteringAfter, ServerFinite
  <2>3. serverTasks' = Cardinality(Working') + Bit(acceptor'.pc \notin NoTask)
                         + Bit(acceptor'.pc = "register") + Cardinality(Registering')
    BY <1>0, <2>1, <2>2 DEF CountsRight, Bit
  <2>4. /\ Cardinality(listed') <= MaxConnections
        /\ acceptor'.pc \in {"asking", "holding"} => Cardinality(listed') < MaxConnections
    BY <1>0, <1>2 DEF CountsRight, HttpServerAssumption
  <2> QED BY <2>1, <2>3, <2>4 DEF CountsRight
<1>7. \A s \in Session : SessionHeld(s)' /\ SourceReached(s)'
  BY <1>2, RestingSessions
<1> QED BY <1>3, <1>4, <1>5, <1>6, <1>7 DEF ServerInv

\* What every caller finds when it begins.
LEMMA Finds ==
  ASSUME ServerInv, NEW c \in ServerCaller
  PROVE  /\ started \in BOOLEAN /\ draining \in BOOLEAN /\ gone \in BOOLEAN /\ stopping \in BOOLEAN
         /\ serverListener \in {"open", "stopping", "stopped"} /\ serverTasks \in Int
         /\ ses \in [Session -> SessionRecord] /\ drained \subseteq {"drain", "shutdown", "again"}
         /\ drained \cap {"drain", "shutdown"} # {} => stopping /\ inflight = 0
         /\ gone => stopping /\ serverTasks = 0 /\ listed = {} /\ serverListener = "stopped"
         /\ caller[c] \notin {"cancel", "cancelseal"} => todo[c] = {}
         /\ caller[c] \in {"cancel", "cancelseal", "wait", "waitseal", "stopped"} => stopping
         /\ ses' = ses => SameReply
  BY DEF ServerInv, ServerTypes, SealHolds, SameReply

LEMMA StartKeeps ==
  ASSUME HttpServerAssumption, ServerInv, NEW c \in ServerCaller, StartServer(c)
  PROVE  ServerInv'
<1>1. /\ caller[c] = "idle" /\ ~stopping /\ ~started /\ started' /\ CallerAt(c, "submit")
      /\ UNCHANGED <<stopping, serverClosing, draining, inflight, serverTasks, listed, ses, conn,
                     serve, acceptor, serverListener, todo, cancels, drained, gone>>
  BY DEF StartServer, Calling
<1>2. acceptor.pc = "none" /\ \A e \in ServerCaller : caller[e] \notin Starting
  BY <1>1 DEF ServerInv, OneAcceptTask
<1>3. serverTasks' = serverTasks + Bit("submit" = "register") - Bit(caller[c] = "register")
  BY <1>1, Finds DEF Bit
<1>4. "submit" \in CallPlace /\ started' \in BOOLEAN
  BY <1>1 DEF CallPlace, StartServer
<1> QED BY <1>1, <1>2, <1>3, <1>4, Finds, CallerKeeps

LEMMA SubmitAcceptKeeps ==
  ASSUME HttpServerAssumption, ServerInv, NEW c \in ServerCaller, SubmitAccept(c)
  PROVE  ServerInv'
<1>0. ServerTypes /\ OneAcceptTask
  BY DEF ServerInv
<1>1. /\ caller[c] = "submit" /\ ReserveTask({})
      /\ UNCHANGED <<bits, inflight, listed, conn, serve, acceptor, serverListener, todo, cancels,
                     drained, gone>>
  BY DEF SubmitAccept, Calling
<1>3. PICK p \in {"stop", "register"} :
        CallerAt(c, p) /\ (p = "stop" <=> serverTasks' = serverTasks)
  BY DEF SubmitAccept
<1>4. ses' \in [Session -> SessionRecord] /\ SameReply
      /\ serverTasks' = serverTasks + Bit(~stopping) /\ serverTasks \in Int
  BY <1>0, <1>1, Reserved
<1>5. serverTasks' = serverTasks + Bit(p = "register") - Bit(caller[c] = "register")
      /\ (stopping => serverTasks' = serverTasks)
  BY <1>1, <1>3, <1>4 DEF Bit
<1>6. started /\ acceptor.pc = "none" /\ \A e \in ServerCaller \ {c} : caller[e] \notin Starting
  BY <1>0, <1>1 DEF OneAcceptTask, Starting
<1>7. p \in CallPlace /\ p \notin {"cancel", "cancelseal", "wait", "waitseal", "stopped"}
      /\ todo[c] = {}
  BY <1>1, Finds DEF CallPlace
<1>8. gone' => stopping /\ serverTasks' = 0 /\ listed' = {} /\ serverListener' = "stopped"
  BY <1>1, <1>5, Finds
<1> QED BY <1>1, <1>3, <1>4, <1>5, <1>6, <1>7, <1>8, Finds, CallerKeeps DEF bits

\* A caller that registers the accept task has a lease in the counter.
LEMMA RegisteringCounts ==
  ASSUME HttpServerAssumption, ServerInv, NEW c \in ServerCaller, caller[c] = "register"
  PROVE  ~gone /\ serverTasks \in Int /\ started /\ acceptor.pc = "none" /\ todo[c] = {}
         /\ \A e \in ServerCaller \ {c} : caller[e] \notin Starting
<1>0. ServerTypes /\ OneAcceptTask /\ SealHolds /\ CountsRight
  BY DEF ServerInv
<1>1. c \in Registering
  BY DEF Registering
<1>2. Cardinality(Registering) \in Nat \ {0} /\ Cardinality(Working) \in Nat
  <2>1. IsFiniteSet(Registering) /\ Cardinality(Working) \in Nat
    BY <1>0, ServerFinite
  <2>2. Cardinality(Registering) \in Nat \ {0}
    BY <1>1, <2>1, OneLess
  <2> QED BY <2>1, <2>2
<1>3. serverTasks # 0
  BY <1>0, <1>2 DEF CountsRight, Bit
<1> QED BY <1>0, <1>3 DEF SealHolds, OneAcceptTask, Starting, ServerTypes

LEMMA RegisterAcceptKeeps ==
  ASSUME HttpServerAssumption, ServerInv, NEW c \in ServerCaller, RegisterAccept(c)
  PROVE  ServerInv'
<1>0. ServerTypes /\ OneAcceptTask /\ SealHolds /\ CountsRight /\ \A s \in Session : SessionHeld(s)
  BY DEF ServerInv
<1>1. /\ caller[c] = "register"
      /\ UNCHANGED <<bits, inflight, listed, conn, serve, serverListener, todo, cancels, drained, gone>>
  BY DEF RegisterAccept, Calling
<1>2. ~gone /\ serverTasks \in Int /\ started /\ acceptor.pc = "none" /\ todo[c] = {}
      /\ \A e \in ServerCaller \ {c} : caller[e] \notin Starting
  BY <1>1, RegisteringCounts
<1>3. CASE AcceptorAt("looking", {}) /\ CallerAt(c, "idle") /\ UNCHANGED <<serverTasks, ses>>
  <2>1. acceptor'.pc = "looking" /\ acceptor'.at = {}
        /\ acceptor' \in [pc : AcceptPlace, at : SUBSET Session]
    BY <1>3 DEF AcceptorAt, AcceptPlace
  <2>2. /\ caller' \in [ServerCaller -> CallPlace] /\ caller'[c] = "idle"
        /\ \A e \in ServerCaller \ {c} : caller'[e] = caller[e]
    BY <1>0, <1>3 DEF CallerAt, ServerTypes, CallPlace
  <2>3. ServerTypes'
    BY <1>0, <1>1, <1>3, <2>1, <2>2 DEF ServerTypes, bits
  <2>4. OneAcceptTask'
    BY <1>1, <1>2, <2>1, <2>2 DEF OneAcceptTask, Starting, HoldPlace, bits
  <2>5. SealHolds'
    BY <1>0, <1>1, <1>2, <1>3, <2>1, <2>2 DEF SealHolds, bits
  <2>6. SameReply
    BY <1>3 DEF SameReply
  <2>7. CountsRight'
    <3>1. /\ inflight' = Cardinality(Authorized') /\ inflight' <= MaxInflight /\ Working' = Working
      BY <1>1, <2>6, RestingCounts
    <3>2. /\ Cardinality(Registering') =
               Cardinality(Registering) + Bit("idle" = "register") - Bit(caller[c] = "register")
          /\ Cardinality(Working) \in Nat /\ Cardinality(Registering) \in Nat
      BY <1>0, <1>3, RegisteringAfter, ServerFinite
    <3>3. serverTasks' = Cardinality(Working') + Bit(acceptor'.pc \notin NoTask)
                           + Bit(acceptor'.pc = "register") + Cardinality(Registering')
      BY <1>0, <1>1, <1>2, <1>3, <2>1, <3>1, <3>2 DEF CountsRight, Bit, NoTask
    <3> QED BY <1>0, <1>1, <2>1, <3>1, <3>3 DEF CountsRight
  <2>8. TasksRest
    BY <1>0, <1>1, <1>2, <2>6 DEF TasksRest, SessionHeld
  <2>9. \A s \in Session : SessionHeld(s)' /\ SourceReached(s)'
    BY <1>1, <2>8, RestingSessions DEF bits
  <2> QED BY <2>3, <2>4, <2>5, <2>7, <2>9 DEF ServerInv
<1>4. CASE EndLease({}) /\ CallerAt(c, "stop") /\ UNCHANGED acceptor
  <2>1. ses' \in [Session -> SessionRecord] /\ SameReply /\ serverTasks' = serverTasks - 1
    BY <1>0, <1>4, LeaseEnds
  <2>2. serverTasks' = serverTasks + Bit("stop" = "register") - Bit(caller[c] = "register")
    BY <1>1, <1>2, <2>1 DEF Bit
  <2>3. "stop" \in CallPlace /\ "stop" \notin Starting
    BY DEF CallPlace, Starting
  <2> QED BY <1>1, <1>2, <1>4, <2>1, <2>2, <2>3, Finds, CallerKeeps DEF bits
<1> QED BY <1>3, <1>4 DEF RegisterAccept

LEMMA RequestKeeps ==
  ASSUME HttpServerAssumption, ServerInv, NEW c \in ServerCaller, Request(c)
  PROVE  ServerInv'
<1>1. /\ caller[c] = "idle"
      /\ UNCHANGED <<started, stopping, serverClosing, inflight, serverTasks, listed, ses, conn,
                     serve, acceptor, serverListener, todo, cancels, gone>>
  BY DEF Request, Calling
<1>2. caller = [caller EXCEPT ![c] = "idle"]
  BY <1>1 DEF ServerInv, ServerTypes
<1>3. PICK p \in {"idle", "stop", "close", "seal"} : CallerAt(c, p)
  BY <1>2 DEF Request, CallerAt
<1>4. draining' \in BOOLEAN /\ drained' \in {drained, drained \cup {"again"}}
  BY Finds DEF Request
<1>5. /\ drained' \subseteq {"drain", "shutdown", "again"}
      /\ drained' \cap {"drain", "shutdown"} # {} => stopping /\ inflight = 0
  BY <1>4, Finds
<1>6. p \in CallPlace /\ p \notin Starting
      /\ p \notin {"cancel", "cancelseal", "wait", "waitseal", "stopped"}
  BY DEF CallPlace, Starting
<1>7. serverTasks' = serverTasks + Bit(p = "register") - Bit(caller[c] = "register")
  BY <1>1, <1>6, Finds DEF Bit
<1> QED BY <1>1, <1>3, <1>4, <1>5, <1>6, <1>7, Finds, CallerKeeps

\* Steps of a caller that change nothing but what it notes.
LEMMA WaitKeeps ==
  ASSUME HttpServerAssumption, ServerInv, NEW c \in ServerCaller,
         Wait(c) \/ Drained(c) \/ Stopped(c)
  PROVE  ServerInv'
<1>1. /\ UNCHANGED <<started, stopping, serverClosing, draining, inflight, serverTasks, ses, conn,
                     serve, acceptor, serverListener, todo, cancels>>
      /\ caller[c] \in {"idle", "wait", "waitseal", "stopped"} /\ stopping
  BY Finds DEF Wait, Drained, Stopped, Calling, bits
<1>2. PICK p \in {"idle", "wait", "stopped"} : CallerAt(c, p)
  BY DEF Wait, Drained, Stopped
<1>3. listed' \in {listed, Sweep}
  BY DEF Wait, Drained, Stopped, Calling
<1>4. /\ drained' \subseteq {"drain", "shutdown", "again"}
      /\ drained' \cap {"drain", "shutdown"} # {} => stopping /\ inflight = 0
  BY <1>1, Finds DEF Wait, Drained, Stopped
<1>5. listed = {} => listed' = {}
  BY <1>3 DEF Sweep
<1>6. gone' \in BOOLEAN
      /\ (gone' => stopping /\ serverTasks' = 0 /\ listed' = {} /\ serverListener' = "stopped")
  <2>1. gone \in BOOLEAN
        /\ (gone => stopping /\ serverTasks = 0 /\ listed = {} /\ serverListener = "stopped")
    BY Finds
  <2>2. CASE gone' = gone
    BY <1>1, <1>5, <2>1, <2>2
  <2>3. CASE gone' = (gone \/ (serverTasks = 0 /\ listed' = {} /\ serverListener = "stopped"))
    BY <1>1, <1>5, <2>1, <2>3
  <2>4. \/ gone' = gone
        \/ gone' = (gone \/ (serverTasks = 0 /\ listed' = {} /\ serverListener = "stopped"))
    BY DEF Wait, Drained, Stopped
  <2> QED BY <2>2, <2>3, <2>4
<1>7. p \in CallPlace /\ p \notin Starting /\ p # "register" /\ caller[c] # "register"
  BY <1>1 DEF CallPlace, Starting
<1>8. serverTasks' = serverTasks + Bit(p = "register") - Bit(caller[c] = "register")
  BY <1>1, <1>7, Finds DEF Bit
<1>9. todo[c] = {}
  BY <1>1, Finds
<1> QED BY <1>1, <1>2, <1>3, <1>4, <1>6, <1>7, <1>8, <1>9, Finds, CallerKeeps

LEMMA StopCallKeeps ==
  ASSUME HttpServerAssumption, ServerInv, NEW c \in ServerCaller, StopCall(c)
  PROVE  ServerInv'
<1>0. ServerTypes /\ OneAcceptTask /\ SealHolds /\ CountsRight
  BY DEF ServerInv
<1>1. /\ caller[c] \in {"stop", "close", "seal"} /\ Stop(c, caller[c] = "close")
      /\ UNCHANGED <<started, draining, inflight, serverTasks, listed, serve, acceptor,
                     serverListener, cancels, drained, gone>>
  BY DEF StopCall, Calling
<1>2. PICK p \in {"cancel", "cancelseal"} : CallerAt(c, p)
  BY DEF StopCall
<1>3. c \in Stopper /\ todo[c] = {} /\ (caller[c] = "close") \in BOOLEAN
  BY <1>1, Finds DEF Stopper
<1>4. /\ stopping' = TRUE /\ serverClosing' \in BOOLEAN
      /\ ses' \in [Session -> SessionRecord] /\ Authorized' = Authorized
      /\ conn' \in [Session -> {"away", "parked", "open", "asked", "released"}]
      /\ \A s \in Session : conn[s] \notin {"away", "parked"} => conn'[s] \notin {"away", "parked"}
      /\ todo' \in [Stopper -> SUBSET Session] /\ \A b \in Stopper \ {c} : todo'[b] = todo[b]
      /\ \A s \in Session : SessionHeld(s)' /\ SourceReached(s)'
  BY <1>1, <1>3, StopSessions
<1>5. /\ caller' \in [ServerCaller -> CallPlace] /\ caller'[c] = p
      /\ \A e \in ServerCaller \ {c} : caller'[e] = caller[e]
  BY <1>0, <1>2 DEF CallerAt, ServerTypes, CallPlace
<1>6. ServerTypes'
  BY <1>0, <1>1, <1>4, <1>5 DEF ServerTypes
<1>7. OneAcceptTask'
  <2>1. \A e \in ServerCaller : caller'[e] \in Starting => caller[e] \in Starting
    BY <1>5 DEF Starting
  <2> QED BY <1>0, <1>1, <1>4, <2>1 DEF OneAcceptTask
<1>8. SealHolds'
  <2>1. \A e \in ServerCaller \ {c} : todo'[e] = todo[e]
    BY <1>4 DEF Stopper
  <2>2. todo'["acceptor"] = todo["acceptor"]
    BY <1>4 DEF HttpServerAssumption, Stopper
  <2> QED BY <1>0, <1>1, <1>4, <1>5, <2>1, <2>2 DEF SealHolds
<1>9. CountsRight'
  <2>1. Working' = Working /\ Registering' = Registering
    BY <1>1, <1>5 DEF Working, Registering
  <2> QED BY <1>0, <1>1, <1>4, <2>1 DEF CountsRight
<1> QED BY <1>4, <1>6, <1>7, <1>8, <1>9 DEF ServerInv

LEMMA StopFinishesKeeps ==
  ASSUME HttpServerAssumption, ServerInv, NEW c \in ServerCaller, StopFinishes(c)
  PROVE  ServerInv'
<1>1. CASE CancelCollected(c)
  BY <1>1, CollectedKeeps DEF Stopper
<1>2. CASE ~CancelCollected(c)
  <2>1. /\ caller[c] \in {"cancel", "cancelseal"} /\ todo[c] = {} /\ RequestStopAccepting
        /\ UNCHANGED <<started, stopping, serverClosing, draining, inflight, serverTasks, listed,
                       ses, conn, serve, acceptor, todo, cancels, drained, gone>>
    BY <1>2 DEF StopFinishes, bits, Calling
  <2>2. PICK p \in {"idle", "waitseal"} : CallerAt(c, p)
    BY <1>2 DEF StopFinishes
  <2>3. p \in CallPlace /\ p \notin Starting /\ p # "register" /\ caller[c] # "register" /\ stopping
    BY <2>1, Finds DEF CallPlace, Starting
  <2>4. serverTasks' = serverTasks + Bit(p = "register") - Bit(caller[c] = "register")
    BY <2>1, <2>3, Finds DEF Bit
  <2>5. /\ serverListener' \in {"open", "stopping", "stopped"}
        /\ serverListener = "stopped" => serverListener' = "stopped"
    BY <2>1, Finds DEF RequestStopAccepting
  <2> QED BY <2>1, <2>2, <2>3, <2>4, <2>5, Finds, CallerKeeps
<1> QED BY <1>1, <1>2

LEMMA CallerStepKeeps ==
  ASSUME HttpServerAssumption, ServerInv, NEW c \in ServerCaller, ServerCallerStep(c)
  PROVE  ServerInv'
  BY StartKeeps, SubmitAcceptKeeps, RegisterAcceptKeeps, RequestKeeps, StopCallKeeps,
     StopFinishesKeeps, WaitKeeps DEF ServerCallerStep

-----------------------------------------------------------------------------
(***************************************************************************)
(* The server                                                              *)
(***************************************************************************)

LEMMA ServerInitially ==
  ASSUME HttpServerAssumption, ServerInit
  PROVE  ServerInv
<1>1. ServerTypes
  <2>1. ses \in [Session -> SessionRecord]
    BY DEF ServerInit, SessionRecord
  <2>2. serve \in [Session -> TaskPlace]
    BY DEF ServerInit, TaskPlace, IdlePlace
  <2>3. acceptor \in [pc : AcceptPlace, at : SUBSET Session]
    BY DEF ServerInit, AcceptPlace, NoTask
  <2>4. caller \in [ServerCaller -> CallPlace] /\ todo \in [Stopper -> SUBSET Session]
    BY DEF ServerInit, CallPlace
  <2>5. conn \in [Session -> {"away", "parked", "open", "asked", "released"}]
        /\ cancels \in [Session -> Nat]
    BY DEF ServerInit
  <2>6. /\ started \in BOOLEAN /\ stopping \in BOOLEAN /\ serverClosing \in BOOLEAN
        /\ draining \in BOOLEAN /\ gone \in BOOLEAN
    BY DEF ServerInit
  <2>7. inflight \in Int /\ serverTasks \in Int /\ listed \subseteq Session
        /\ serverListener \in {"open", "stopping", "stopped"}
        /\ drained \subseteq {"drain", "shutdown", "again"}
    BY DEF ServerInit
  <2> QED BY <2>1, <2>2, <2>3, <2>4, <2>5, <2>6, <2>7 DEF ServerTypes
<1>2. Authorized = {} /\ Working = {} /\ Registering = {}
  BY DEF ServerInit, Authorized, Working, Registering, NoTask
<1>3. CountsRight
  BY <1>2, FS_EmptySet DEF ServerInit, CountsRight, Bit, NoTask, HttpServerAssumption
<1>4. OneAcceptTask /\ SealHolds
  BY DEF ServerInit, OneAcceptTask, SealHolds, HoldPlace, Starting, Stopper
<1>5. ASSUME NEW s \in Session PROVE SessionHeld(s) /\ SourceReached(s)
  <2>1. serve[s] = "none" /\ "none" \in IdlePlace /\ "none" \notin Replying /\ "none" \in Sourceless
    BY TaskPlaces DEF ServerInit, IdlePlace, NoTask, Sourceless
  <2>2. SourceCalls(s) = {}
    BY DEF ServerInit, SourceCalls
  <2> QED BY <2>1, <2>2 DEF ServerInit, SessionHeld, SourceReached, CancelledOnce
<1> QED BY <1>1, <1>3, <1>4, <1>5 DEF ServerInv

LEMMA ServerStays ==
  ASSUME ServerInv, UNCHANGED serverVars
  PROVE  ServerInv'
<1>1. Authorized' = Authorized /\ Working' = Working /\ Registering' = Registering
      /\ \A s \in Session : SourceCalls(s)' = SourceCalls(s)
  BY DEF serverVars, Authorized, Working, Registering, SourceCalls
<1>2. ServerTypes' /\ OneAcceptTask' /\ SealHolds'
  BY DEF serverVars, ServerInv, ServerTypes, OneAcceptTask, SealHolds
<1>3. CountsRight'
  BY <1>1 DEF serverVars, ServerInv, CountsRight
<1>4. \A s \in Session : SessionHeld(s)' /\ SourceReached(s)'
  BY <1>1 DEF serverVars, ServerInv, SessionHeld, SourceReached, CancelledOnce
<1> QED BY <1>2, <1>3, <1>4 DEF ServerInv

LEMMA ServerStep ==
  ASSUME HttpServerAssumption, ServerInv, [ServerNext]_serverVars
  PROVE  ServerInv'
  BY EngineKeeps, SessionStepKeeps, AcceptorStepKeeps, CallerStepKeeps, ServerStays DEF ServerNext

\* The inductive invariant holds in every state the server reaches (ServerNext: the engine's
\* callbacks, the accept task, the tasks of the sessions and the native callers).
THEOREM ServerAlways ==
  ASSUME HttpServerAssumption
  PROVE  ServerSpec => []ServerInv
<1>1. ServerInit => ServerInv
  BY ServerInitially
<1>2. ServerInv /\ [ServerNext]_serverVars => ServerInv'
  BY ServerStep
<1> QED BY <1>1, <1>2, PTL DEF ServerSpec

-----------------------------------------------------------------------------
(***************************************************************************)
(* What the invariant says of the counters and of the sources              *)
(***************************************************************************)

\* A set that is one element or none, by a condition.
LEMMA Single ==
  ASSUME NEW P \in BOOLEAN
  PROVE  Cardinality({x \in {1} : P}) = Bit(P)
<1>1. CASE P
  <2>1. {x \in {1} : P} = {1}
    BY <1>1
  <2> QED BY <1>1, <2>1, FS_Singleton DEF Bit
<1>2. CASE ~P
  <2>1. {x \in {1} : P} = {}
    BY <1>2
  <2> QED BY <1>2, <2>1, FS_EmptySet DEF Bit
<1> QED BY <1>1, <1>2

\* One caller at most registers the accept task, and there is none of it yet.
LEMMA RegisteringOnce ==
  ASSUME HttpServerAssumption, ServerInv
  PROVE  /\ Cardinality(Registering) \in {0, 1}
         /\ Cardinality(Registering) = 1 => acceptor.pc = "none"
<1>1. OneAcceptTask
  BY DEF ServerInv
<1>2. CASE Registering = {}
  BY <1>2, FS_EmptySet
<1>3. CASE Registering # {}
  <2>1. PICK c \in Registering : TRUE
    BY <1>3
  <2>2. c \in ServerCaller /\ caller[c] \in Starting
    BY <2>1 DEF Registering, Starting
  <2>3. acceptor.pc = "none" /\ \A e \in ServerCaller : caller[e] \in Starting => e = c
    BY <1>1, <2>2 DEF OneAcceptTask
  <2>4. Registering = {c}
    BY <2>1, <2>3 DEF Registering, Starting
  <2> QED BY <2>3, <2>4, FS_Singleton
<1> QED BY <1>2, <1>3

LEMMA TasksBounded ==
  ASSUME HttpServerAssumption, ServerInv
  PROVE  {inflight, serverTasks} \subseteq 0 .. (Cardinality(Session) + 1)
<1>0. ServerTypes /\ CountsRight
  BY DEF ServerInv
<1>1. /\ IsFiniteSet(Session) /\ Cardinality(Session) \in Nat
      /\ Cardinality(Authorized) \in 0 .. Cardinality(Session)
      /\ Cardinality(Working) \in 0 .. Cardinality(Session)
  BY <1>0, ServerFinite
<1>2. /\ Cardinality(Registering) \in {0, 1}
      /\ Cardinality(Registering) = 1 => acceptor.pc = "none"
  BY RegisteringOnce
<1>3. inflight \in 0 .. (Cardinality(Session) + 1)
  BY <1>0, <1>1 DEF CountsRight
<1>4. acceptor.pc = "register" => Cardinality(Working) \in 0 .. (Cardinality(Session) - 1)
  <2> SUFFICES ASSUME acceptor.pc = "register"
               PROVE  Cardinality(Working) \in 0 .. (Cardinality(Session) - 1)
    OBVIOUS
  <2>1. PICK s \in Session : serve[s] = "none"
    BY InHand DEF HoldPlace
  <2>2. Working \subseteq Session \ {s}
    BY <2>1 DEF Working, NoTask
  <2>3. IsFiniteSet(Session \ {s}) /\ Cardinality(Session \ {s}) = Cardinality(Session) - 1
    BY <1>1, OneLess
  <2>4. Cardinality(Working) <= Cardinality(Session \ {s})
    BY <2>2, <2>3, FS_Subset
  <2> QED BY <1>1, <2>3, <2>4
<1>5. serverTasks \in 0 .. (Cardinality(Session) + 1)
  BY <1>0, <1>1, <1>2, <1>4 DEF CountsRight, Bit, NoTask
<1> QED BY <1>3, <1>5

LEMMA ConnectionsBounded ==
  ASSUME HttpServerAssumption, ServerInv
  PROVE  Cardinality({s \in Session : conn[s] \in {"open", "asked"}}) <= MaxConnections
<1> DEFINE C == {s \in Session : conn[s] \in {"open", "asked"}}
<1>0. ServerTypes /\ CountsRight /\ MaxConnections \in Nat /\ \A s \in Session : SessionHeld(s)
  BY DEF ServerInv, HttpServerAssumption
<1>1. IsFiniteSet(listed) /\ Cardinality(listed) \in Nat /\ Cardinality(listed) <= MaxConnections
  BY <1>0, ServerFinite DEF CountsRight
<1>2. CASE acceptor.pc # "holding"
  <2>1. C \subseteq listed
    BY <1>0, <1>2 DEF SessionHeld
  <2>2. Cardinality(C) <= Cardinality(listed) /\ Cardinality(C) \in Nat
    BY <1>1, <2>1, FS_Subset, FS_CardinalityType
  <2> QED BY <1>0, <1>1, <2>2
<1>3. CASE acceptor.pc = "holding"
  <2>1. PICK s \in Session : acceptor.at = {s}
    BY <1>3, InHand DEF HoldPlace
  <2>2. Cardinality(listed) < MaxConnections
    BY <1>0, <1>3 DEF CountsRight
  <2>3. C \subseteq listed \cup {s}
    BY <1>0, <2>1 DEF SessionHeld
  <2>4. IsFiniteSet(listed \cup {s}) /\ Cardinality(listed \cup {s}) <= Cardinality(listed) + 1
        /\ Cardinality(listed \cup {s}) \in Nat
    <3>1. CASE s \in listed
      <4>1. listed \cup {s} = listed
        BY <3>1
      <4> QED BY <1>1, <4>1
    <3>2. CASE s \notin listed
      BY <1>1, <3>2, OneMore
    <3> QED BY <3>1, <3>2
  <2>5. Cardinality(C) <= Cardinality(listed \cup {s}) /\ Cardinality(C) \in Nat
    BY <2>3, <2>4, FS_Subset, FS_CardinalityType
  <2> QED BY <1>0, <1>1, <2>2, <2>4, <2>5
<1> QED BY <1>2, <1>3

LEMMA InvTypes ==
  ASSUME HttpServerAssumption, ServerInv
  PROVE  ServerTypeOK
<1>0. ServerTypes
  BY DEF ServerInv
<1>1. TaskPlace \subseteq NoTask \cup {"reading", "admitting", "handler", "registering", "starting",
        "pulling", "cancelling", "cancelnow", "abandon", "settle", "leaving", "lease"}
          \cup Writes \cup {Flushing[w] : w \in Writes}
  <2>1. Sent \subseteq {Flushing[w] : w \in Writes}
    BY DEF Sent, Flushing, Writes
  <2> QED BY <2>1 DEF TaskPlace, Replying, IdlePlace, NoTask
<1>2. serve \in [Session -> NoTask \cup {"reading", "admitting", "handler", "registering", "starting",
        "pulling", "cancelling", "cancelnow", "abandon", "settle", "leaving", "lease"}
          \cup Writes \cup {Flushing[w] : w \in Writes}]
  BY <1>0, <1>1 DEF ServerTypes
<1>3. acceptor.pc \in NoTask \cup {"looking", "asking", "holding", "submit", "register", "drop",
                                   "failing", "stopping", "lease"}
  BY <1>0 DEF ServerTypes, AcceptPlace, HoldPlace
<1>4. ses \in [Session -> [authorized : BOOLEAN, task_done : BOOLEAN,
                           source : BOOLEAN, source_cancelled : BOOLEAN]]
      /\ {started, stopping, serverClosing, draining, gone} \subseteq BOOLEAN
  BY <1>0 DEF ServerTypes, SessionRecord
<1> QED BY <1>0, <1>2, <1>3, <1>4, TasksBounded DEF ServerTypes, ServerTypeOK, CallPlace

LEMMA InvCounts ==
  ASSUME HttpServerAssumption, ServerInv
  PROVE  InflightExact
<1>1. CountsRight
  BY DEF ServerInv
<1>2. /\ Cardinality({x \in {1} : acceptor.pc \notin NoTask}) = Bit(acceptor.pc \notin NoTask)
      /\ Cardinality({x \in {1} : acceptor.pc = "register"}) = Bit(acceptor.pc = "register")
  BY Single
<1> QED BY <1>1, <1>2, ConnectionsBounded DEF CountsRight, InflightExact, Authorized, Registering

LEMMA InvFinal ==
  ASSUME HttpServerAssumption, ServerInv
  PROVE  StopIsFinal
<1>0. ServerTypes /\ SealHolds /\ CountsRight /\ \A s \in Session : SessionHeld(s)
  BY DEF ServerInv
<1> SUFFICES ASSUME gone
             PROVE  /\ inflight = 0 /\ Sweep = {}
                    /\ \A s \in Session : conn[s] \notin {"open", "asked"}
  BY <1>0 DEF SealHolds, StopIsFinal
<1>1. serverTasks = 0 /\ listed = {}
  BY <1>0 DEF SealHolds
<1>2. IsFiniteSet(Working) /\ Cardinality(Working) \in Nat /\ Cardinality(Registering) \in Nat
  BY <1>0, ServerFinite
<1>3. Cardinality(Working) = 0 /\ acceptor.pc \in NoTask
  <2>1. 0 = Cardinality(Working) + Bit(acceptor.pc \notin NoTask)
              + Bit(acceptor.pc = "register") + Cardinality(Registering)
    BY <1>0, <1>1 DEF CountsRight
  <2>2. /\ Bit(acceptor.pc \notin NoTask) \in {0, 1} /\ Bit(acceptor.pc = "register") \in {0, 1}
        /\ Bit(acceptor.pc \notin NoTask) = 0 => acceptor.pc \in NoTask
    BY DEF Bit
  <2> QED BY <1>2, <2>1, <2>2
<1>4. Working = {}
  BY <1>2, <1>3, FS_EmptySet
<1>5. Authorized = {}
  BY <1>0, <1>4 DEF Authorized, Working, SessionHeld, IdlePlace, NoTask
<1>6. inflight = 0
  BY <1>0, <1>5, FS_EmptySet DEF CountsRight
<1>7. \A s \in Session : conn[s] \notin {"open", "asked"}
  BY <1>0, <1>1, <1>3 DEF SessionHeld, NoTask
<1>8. Sweep = {}
  BY <1>1 DEF Sweep
<1> QED BY <1>6, <1>7, <1>8

LEMMA InvSources ==
  ASSUME HttpServerAssumption, ServerInv
  PROVE  CloseReachesSources
<1> SUFFICES ASSUME NEW s \in Session
             PROVE  /\ cancels[s] <= 1
                    /\ serverClosing /\ s \in listed /\ ses[s].source => ses[s].source_cancelled
                    /\ ses[s].source /\ ses[s].source_cancelled =>
                         cancels[s] + Cardinality({a \in Stopper : s \in todo[a]})
                           + Cardinality({x \in {1} : serve[s] = "cancelnow"}) = 1
  BY DEF CloseReachesSources
<1>1. SourceReached(s) /\ CancelledOnce(s)
  BY DEF ServerInv, SourceReached
<1>2. Cardinality({x \in {1} : serve[s] = "cancelnow"}) = Bit(serve[s] = "cancelnow")
  BY Single
<1>3. cancels[s] \in {0, 1}
  BY <1>1 DEF CancelledOnce
<1>4. ses[s].source_cancelled => cancels[s] + Cardinality(SourceCalls(s)) + Bit(serve[s] = "cancelnow") = 1
  <2>1. SourceCalls(s) = {} => Cardinality(SourceCalls(s)) = 0
    BY FS_EmptySet
  <2>2. \A a \in Stopper : SourceCalls(s) = {a} => Cardinality(SourceCalls(s)) = 1
    BY FS_Singleton
  <2> QED BY <1>1, <2>1, <2>2 DEF CancelledOnce, Bit
<1> QED BY <1>1, <1>2, <1>3, <1>4 DEF SourceReached, SourceCalls

\* The two counters tell the sessions and the tasks exactly and keep their limits, and a drain or
\* a WaitStopped that answered is final, for any number of sessions, callers and places
\* (SessionsExact: Submit, Admit, SettleReply, EndLease, WaitStopped).
THEOREM SessionsCounted ==
  ASSUME HttpServerAssumption
  PROVE  ServerSpec => []SessionsExact
<1>1. ServerInv => SessionsExact
  BY InvTypes, InvCounts, InvFinal DEF SessionsExact
<1> QED BY <1>1, ServerAlways, PTL

\* Close marks every source that runs, and each marked source is cancelled by one caller and once
\* (CloseReachesSources: Stop against ServeStream's registration and its own cancellation).
THEOREM SourcesReached ==
  ASSUME HttpServerAssumption
  PROVE  ServerSpec => []CloseReachesSources
<1>1. ServerInv => CloseReachesSources
  BY InvSources
<1> QED BY <1>1, ServerAlways, PTL
=============================================================================
