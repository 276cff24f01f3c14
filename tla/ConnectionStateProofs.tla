------------------------ MODULE ConnectionStateProofs ------------------------
(***************************************************************************)
(* Safety of the write side for every number of callers, every limit and   *)
(* every size: no accepted write is lost, reported twice or reported as a  *)
(* success without having been sent; the queue holds exactly what is owed; *)
(* and neither the owner nor a waiter is left asleep on something to do.   *)
(***************************************************************************)
EXTENDS ConnectionState, FiniteSetTheorems, TLAPS

-----------------------------------------------------------------------------
(***************************************************************************)
(* The sequence facts the model rests on.                                  *)
(***************************************************************************)

\* Append keeps every element in place and adds one at the end.
LEMMA AppendAt ==
  ASSUME NEW S, NEW s \in Seq(S), NEW x \in S
  PROVE  /\ Append(s, x) \in Seq(S)
         /\ Len(Append(s, x)) = Len(s) + 1
         /\ DOMAIN s = 1..Len(s)
         /\ DOMAIN Append(s, x) = 1..(Len(s) + 1)
         /\ \A i \in 1..Len(s) : Append(s, x)[i] = s[i]
         /\ Append(s, x)[Len(s) + 1] = x
OBVIOUS

\* Tail moves every element one place to the front.
LEMMA TailAt ==
  ASSUME NEW S, NEW s \in Seq(S), s # <<>>
  PROVE  /\ Tail(s) \in Seq(S)
         /\ Len(s) \in Nat \ {0}
         /\ Len(Tail(s)) = Len(s) - 1
         /\ DOMAIN s = 1..Len(s)
         /\ DOMAIN Tail(s) = 1..(Len(s) - 1)
         /\ \A i \in 1..(Len(s) - 1) : Tail(s)[i] = s[i + 1]
         /\ Head(s) = s[1] /\ Head(s) \in S
OBVIOUS

\* Appending to m_ops adds one id; a fresh one keeps the ids distinct.
LEMMA SeqSetAppend ==
  ASSUME NEW S, NEW s \in Seq(S), NEW x \in S
  PROVE  /\ SeqSet(Append(s, x)) = SeqSet(s) \cup {x}
         /\ Distinct(s) /\ x \notin SeqSet(s) => Distinct(Append(s, x))
<1> DEFINE t == Append(s, x)
           n == Len(s)
<1>1. /\ DOMAIN s = 1..n /\ DOMAIN t = 1..(n + 1) /\ n \in Nat
      /\ \A i \in 1..n : t[i] = s[i]
      /\ t[n + 1] = x
  BY AppendAt
<1> HIDE DEF t, n
<1>2. SeqSet(t) = SeqSet(s) \cup {x}
  BY <1>1 DEF SeqSet
<1>3. ASSUME Distinct(s), x \notin SeqSet(s) PROVE Distinct(t)
  BY <1>1, <1>3 DEF Distinct, SeqSet
<1> QED BY <1>2, <1>3 DEF t

\* Popping the front of m_ops removes exactly that id when ids are distinct.
LEMMA SeqSetTail ==
  ASSUME NEW S, NEW s \in Seq(S), s # <<>>, Distinct(s)
  PROVE  /\ Head(s) \in SeqSet(s)
         /\ SeqSet(Tail(s)) = SeqSet(s) \ {Head(s)}
         /\ Distinct(Tail(s))
<1> DEFINE t == Tail(s)
           n == Len(s)
           h == Head(s)
<1>1. /\ DOMAIN s = 1..n /\ DOMAIN t = 1..(n - 1) /\ n \in Nat \ {0}
      /\ \A i \in 1..(n - 1) : t[i] = s[i + 1]
      /\ h = s[1]
  BY TailAt
<1> HIDE DEF t, n, h
<1>2. h \in SeqSet(s)
  BY <1>1 DEF SeqSet
<1>3. ASSUME NEW i \in 2..n
      PROVE  s[i] # h /\ s[i] = t[i - 1] /\ i - 1 \in 1..(n - 1)
  <2>1. i \in 1..n /\ 1 \in 1..n /\ i # 1 /\ i - 1 \in 1..(n - 1) /\ (i - 1) + 1 = i
    BY <1>1
  <2>2. s[i] # s[1]
    BY <1>1, <2>1 DEF Distinct
  <2> QED BY <1>1, <2>1, <2>2
<1>4. SeqSet(t) \subseteq SeqSet(s) \ {h}
  <2> SUFFICES ASSUME NEW i \in 1..(n - 1) PROVE t[i] \in SeqSet(s) \ {h}
    BY <1>1 DEF SeqSet
  <2> i + 1 \in 2..n /\ t[i] = s[i + 1]
    BY <1>1
  <2> QED BY <1>1, <1>3 DEF SeqSet
<1>5. SeqSet(s) \ {h} \subseteq SeqSet(t)
  <2> SUFFICES ASSUME NEW i \in 1..n, s[i] # h PROVE s[i] \in SeqSet(t)
    BY <1>1 DEF SeqSet
  <2> i \in 2..n
    BY <1>1
  <2> QED BY <1>1, <1>3 DEF SeqSet
<1>6. Distinct(t)
  <2> SUFFICES ASSUME NEW i \in 1..(n - 1), NEW j \in 1..(n - 1), t[i] = t[j]
               PROVE  i = j
    BY <1>1 DEF Distinct
  <2>1. i + 1 \in 1..n /\ j + 1 \in 1..n /\ s[i + 1] = s[j + 1]
    BY <1>1
  <2>2. i + 1 = j + 1
    BY <1>1, <2>1 DEF Distinct
  <2> QED BY <2>2
<1> QED BY <1>2, <1>4, <1>5, <1>6 DEF t, h

\* The same two facts for completions, which are told apart by their id.
LEMMA IdsAppend ==
  ASSUME NEW s \in Seq(CompletionType), NEW x \in CompletionType
  PROVE  /\ IdsOf(Append(s, x)) = IdsOf(s) \cup {x.id}
         /\ DistinctIds(s) /\ x.id \notin IdsOf(s) => DistinctIds(Append(s, x))
<1> DEFINE t == Append(s, x)
           n == Len(s)
<1>1. /\ DOMAIN s = 1..n /\ DOMAIN t = 1..(n + 1) /\ n \in Nat
      /\ \A i \in 1..n : t[i] = s[i]
      /\ t[n + 1] = x
  BY AppendAt
<1> HIDE DEF t, n
<1>2. IdsOf(t) = IdsOf(s) \cup {x.id}
  BY <1>1 DEF IdsOf
<1>3. ASSUME DistinctIds(s), x.id \notin IdsOf(s) PROVE DistinctIds(t)
  BY <1>1, <1>3 DEF DistinctIds, IdsOf
<1> QED BY <1>2, <1>3 DEF t

\* Giving the front completion to OnWrite takes exactly its id out of the buffer.
LEMMA IdsTail ==
  ASSUME NEW s \in Seq(CompletionType), s # <<>>, DistinctIds(s)
  PROVE  /\ Head(s).id \in IdsOf(s)
         /\ IdsOf(Tail(s)) = IdsOf(s) \ {Head(s).id}
         /\ DistinctIds(Tail(s))
<1> DEFINE t == Tail(s)
           n == Len(s)
           h == Head(s)
<1>1. /\ DOMAIN s = 1..n /\ DOMAIN t = 1..(n - 1) /\ n \in Nat \ {0}
      /\ \A i \in 1..(n - 1) : t[i] = s[i + 1]
      /\ h = s[1]
  BY TailAt
<1> HIDE DEF t, n, h
<1>2. h.id \in IdsOf(s)
  BY <1>1 DEF IdsOf
<1>3. ASSUME NEW i \in 2..n
      PROVE  s[i].id # h.id /\ s[i] = t[i - 1] /\ i - 1 \in 1..(n - 1)
  <2>1. i \in 1..n /\ 1 \in 1..n /\ i # 1 /\ i - 1 \in 1..(n - 1) /\ (i - 1) + 1 = i
    BY <1>1
  <2>2. s[i].id # s[1].id
    BY <1>1, <2>1 DEF DistinctIds
  <2> QED BY <1>1, <2>1, <2>2
<1>4. IdsOf(t) \subseteq IdsOf(s) \ {h.id}
  <2> SUFFICES ASSUME NEW i \in 1..(n - 1) PROVE t[i].id \in IdsOf(s) \ {h.id}
    BY <1>1 DEF IdsOf
  <2>1. i + 1 \in 2..n /\ i + 1 \in DOMAIN s /\ t[i] = s[i + 1]
    BY <1>1
  <2>2. s[i + 1].id # h.id
    BY <1>3, <2>1
  <2> QED BY <2>1, <2>2 DEF IdsOf
<1>5. IdsOf(s) \ {h.id} \subseteq IdsOf(t)
  <2> SUFFICES ASSUME NEW i \in 1..n, s[i].id # h.id PROVE s[i].id \in IdsOf(t)
    BY <1>1 DEF IdsOf
  <2> i \in 2..n
    BY <1>1
  <2> QED BY <1>1, <1>3 DEF IdsOf
<1>6. DistinctIds(t)
  <2> SUFFICES ASSUME NEW i \in 1..(n - 1), NEW j \in 1..(n - 1), t[i].id = t[j].id
               PROVE  i = j
    BY <1>1 DEF DistinctIds
  <2>1. i + 1 \in 1..n /\ j + 1 \in 1..n /\ s[i + 1].id = s[j + 1].id
    BY <1>1
  <2>2. i + 1 = j + 1
    BY <1>1, <2>1 DEF DistinctIds
  <2> QED BY <2>2
<1> QED BY <1>2, <1>4, <1>5, <1>6 DEF t, h

-----------------------------------------------------------------------------
(***************************************************************************)
(* Type correctness.                                                       *)
(***************************************************************************)

\* AttributeSentLocked is entered, and goes round, only with a write to credit.
SomethingToCredit == opc = "attribute" => ops # <<>>

\* An accepted write uses up an id.
LEMMA IdTaken ==
  ASSUME TypeOK, TakeId
  PROVE  /\ nextOp \in OpId /\ nextOp \in Nat
         /\ nextOp' = nextOp + 1 /\ nextOp' \in 1..(MaxWrites + 1)
<1>1. nextOp \in 1..(MaxWrites + 1) /\ MaxWrites \in Nat
  BY StateConstants DEF TypeOK
<1>2. nextOp <= MaxWrites /\ nextOp' = nextOp + 1
  BY DEF TakeId
<1> QED BY <1>1, <1>2 DEF OpId

\* A push on the completion buffer keeps its type, overwriting or not.
LEMMA PushPendingType ==
  ASSUME TypeOK, NEW item \in CompletionType, PushPending(item)
  PROVE  pending' \in Seq(CompletionType)
<1>1. Len(pending) >= PendingCapacity => pending # <<>>
  BY StateConstants DEF TypeOK, PendingCapacity
<1>2. pending # <<>> => Tail(pending) \in Seq(CompletionType)
  BY TailAt DEF TypeOK
<1>3. \A s \in Seq(CompletionType) : Append(s, item) \in Seq(CompletionType)
  BY AppendAt
<1> QED BY <1>1, <1>2, <1>3, StateConstants DEF TypeOK, PushPending, PendingCapacity

\* A new ConnectionState and its ConnCore have their types.
LEMMA TypeInit == Init => TypeOK
<1> SUFFICES ASSUME Init PROVE TypeOK
  OBVIOUS
<1>1. rec \in [OpId -> RecordType]
  BY DEF Init, Record, RecordType, Error
<1>2. call \in [Caller -> CallType]
  BY StateConstants DEF Init, NoCall, CallType
<1>3. pump \in PumpType
  BY DEF Init, NoPump, PumpType
<1>4. nextOp \in 1..(MaxWrites + 1)
  BY StateConstants DEF Init
<1>5. /\ ops \in Seq(OpId) /\ pending \in Seq(CompletionType)
      /\ delivered \in Seq(CompletionType) /\ onClose \in Seq(Error)
  BY DEF Init
<1> QED BY <1>1, <1>2, <1>3, <1>4, <1>5 DEF Init, TypeOK, OwnerPc, Locked, Error

\* What a call may become.
LEMMA CallUpdate ==
  ASSUME TypeOK, NEW c \in Caller
  PROVE  /\ NoCall \in CallType
         /\ Return(c) => call' \in [Caller -> CallType]
         /\ \A l \in {"accept", "wake", "check", "seal", "added", "parked"} :
              GoOn(c, l) => call' \in [Caller -> CallType]
         /\ \A r \in CallType :
              call' = [call EXCEPT ![c] = r] => call' \in [Caller -> CallType]
         /\ \A id \in OpId :
              call' = [call EXCEPT ![c].pc = "wake", ![c].op = id]
                => call' \in [Caller -> CallType]
         /\ call' = [call EXCEPT ![c].pc = "check", ![c].wait = "op"]
              => call' \in [Caller -> CallType]
<1>1. NoCall \in CallType
  BY StateConstants DEF NoCall, CallType
<1>2. call \in [Caller -> CallType]
  BY DEF TypeOK
<1>3. ASSUME NEW l \in {"accept", "wake", "check", "seal", "added", "parked"}
      PROVE  [call EXCEPT ![c].pc = l] \in [Caller -> CallType]
  BY <1>2 DEF CallType
<1>4. ASSUME NEW id \in OpId
      PROVE  [call EXCEPT ![c].pc = "wake", ![c].op = id] \in [Caller -> CallType]
  <2>1. id \in 0..MaxWrites
    BY StateConstants DEF OpId
  <2> QED BY <1>2, <2>1 DEF CallType
<1>5. [call EXCEPT ![c].pc = "check", ![c].wait = "op"] \in [Caller -> CallType]
  <2>1. call[c] \in CallType
    BY <1>2
  <2>2. [call[c] EXCEPT !.pc = "check", !.wait = "op"] \in CallType
    BY <2>1 DEF CallType
  <2>3. [call EXCEPT ![c].pc = "check", ![c].wait = "op"]
          = [call EXCEPT ![c] = [call[c] EXCEPT !.pc = "check", !.wait = "op"]]
    BY <1>2, Zenon
  <2> QED BY <1>2, <2>2, <2>3
<1>6. ASSUME NEW r \in CallType PROVE [call EXCEPT ![c] = r] \in [Caller -> CallType]
  BY <1>2
<1>7. Return(c) => call' \in [Caller -> CallType]
  BY <1>1, <1>6 DEF Return
<1>8. ASSUME NEW l \in {"accept", "wake", "check", "seal", "added", "parked"}, GoOn(c, l)
      PROVE  call' \in [Caller -> CallType]
  BY <1>3, <1>8 DEF GoOn
<1>9. ASSUME NEW r \in CallType, call' = [call EXCEPT ![c] = r]
      PROVE  call' \in [Caller -> CallType]
  BY <1>6, <1>9
<1>10. ASSUME NEW id \in OpId, call' = [call EXCEPT ![c].pc = "wake", ![c].op = id]
       PROVE  call' \in [Caller -> CallType]
  BY <1>4, <1>10, Zenon
<1>11. ASSUME call' = [call EXCEPT ![c].pc = "check", ![c].wait = "op"]
       PROVE  call' \in [Caller -> CallType]
  BY <1>5, <1>11, Zenon
<1> HIDE DEF Return, GoOn, NoCall, CallType
<1> QED BY <1>1, <1>7, <1>8, <1>9, <1>10, <1>11

\* The steps of callers.
LEMMA TypeCaller ==
  ASSUME TypeOK, NEW c \in Caller, CallerStep(c) \/ CallerEvent(c)
  PROVE  TypeOK'
<1> USE StateConstants
<1>1. ASSUME NEW k \in {"none", "capacity", "close"}, NEW n \in Sizes \cup {0}, Call(c, k, n)
      PROVE  TypeOK'
  <2>1. [pc |-> IF k = "close" THEN "check" ELSE "seal", want |-> n, wait |-> k, op |-> 0]
          \in CallType
    BY DEF CallType
  <2>2. call' \in [Caller -> CallType]
    BY <1>1, <2>1, CallUpdate DEF Call
  <2> QED BY <1>1, <2>2 DEF Call, TypeOK, stateVars, closeVars, ownerVars, hubVars
<1>2. CASE CheckSeal(c)
  <2>1. call' \in [Caller -> CallType]
    BY <1>2, CallUpdate DEF CheckSeal
  <2> QED BY <1>2, <2>1 DEF CheckSeal, TypeOK, stateVars, closeVars, ownerVars, hubVars
<1>3. CASE AcceptClosed(c)
  <2>1. call' \in [Caller -> CallType]
    BY <1>3, CallUpdate DEF AcceptClosed
  <2> QED BY <1>3, <2>1 DEF AcceptClosed, TypeOK, stateVars, closeVars, ownerVars, hubVars
<1>4. CASE AcceptRefused(c)
  <2>1. call' \in [Caller -> CallType]
    BY <1>4, CallUpdate DEF AcceptRefused
  <2> QED BY <1>4, <2>1 DEF AcceptRefused, TypeOK, stateVars, closeVars, ownerVars, hubVars
<1>5. CASE AcceptEmpty(c)
  <2>1. nextOp \in OpId /\ nextOp' \in 1..(MaxWrites + 1)
    <3>1. TakeId
      BY <1>5, Zenon DEF AcceptEmpty
    <3> QED BY <3>1, IdTaken
  <2>2. pending' \in Seq(CompletionType)
    BY <1>5, <2>1, PushPendingType DEF AcceptEmpty, CompletionType, Error
  <2>3. rec' \in [OpId -> RecordType]
    BY <1>5, <2>1 DEF AcceptEmpty, TypeOK, Record, RecordType, Error
  <2>4. call' \in [Caller -> CallType]
    BY <1>5, <2>1, CallUpdate DEF AcceptEmpty
  <2> QED BY <1>5, <2>1, <2>2, <2>3, <2>4 DEF AcceptEmpty, TypeOK, closeVars, ownerVars, hubVars
<1>6. CASE Accept(c)
  <2>1. nextOp \in OpId /\ nextOp' \in 1..(MaxWrites + 1)
    <3>1. TakeId
      BY <1>6, Zenon DEF Accept
    <3> QED BY <3>1, IdTaken
  <2>2. \/ /\ rec' = [rec EXCEPT ![nextOp] = Record(call[c].want, FALSE)]
           /\ ops' = Append(ops, nextOp)
           /\ call' = [call EXCEPT ![c].pc = "wake", ![c].op = nextOp]
        \/ Return(c) /\ UNCHANGED <<rec, ops>>
    BY <1>6, Zenon DEF Accept
  <2>3. ops' \in Seq(OpId)
    <3>1. ops \in Seq(OpId) /\ Append(ops, nextOp) \in Seq(OpId)
      BY <2>1 DEF TypeOK
    <3> QED BY <2>2, <3>1
  <2>4. rec' \in [OpId -> RecordType]
    <3>1. call[c].want \in Nat
      <4>1. call[c] \in CallType
        BY DEF TypeOK
      <4>2. call[c].want \in Sizes \cup {0}
        BY <4>1 DEF CallType
      <4>3. \A n \in Sizes \cup {0} : n \in Nat
        OBVIOUS
      <4> QED BY <4>2, <4>3, Zenon
    <3>2. Record(call[c].want, FALSE) \in RecordType
      BY <3>1 DEF Record, RecordType, Error
    <3> QED BY <2>1, <2>2, <3>2 DEF TypeOK
  <2>5. call' \in [Caller -> CallType]
    BY <2>1, <2>2, CallUpdate
  <2>6. UNCHANGED <<pending, closeVars, sealed, dirty, ownerVars, hubVars>>
    BY <1>6, Zenon DEF Accept
  <2> QED BY <2>1, <2>3, <2>4, <2>5, <2>6 DEF TypeOK, closeVars, ownerVars, hubVars
<1>7. CASE Accepted(c)
  <2>1. call' \in [Caller -> CallType]
    BY <1>7, CallUpdate DEF Accepted
  <2>2. woken' \subseteq Caller /\ dirty' \in BOOLEAN
    BY <1>7 DEF Accepted, NotifyWriteHub, WakeOwner, TypeOK
  <2> QED BY <1>7, <2>1, <2>2 DEF Accepted, TypeOK, stateVars, closeVars, ownerVars
<1>8. CASE WaitOver(c)
  <2>1. call' \in [Caller -> CallType]
    BY <1>8, CallUpdate DEF WaitOver
  <2> QED BY <1>8, <2>1 DEF WaitOver, TypeOK, stateVars, closeVars, ownerVars, hubVars
<1>9. CASE Register(c)
  <2>1. call' \in [Caller -> CallType]
    BY <1>9, CallUpdate DEF Register
  <2>2. writeHub' \subseteq Caller /\ closeHub' \subseteq Caller
    BY <1>9 DEF Register, TypeOK
  <2> QED BY <1>9, <2>1, <2>2 DEF Register, TypeOK, stateVars, closeVars, ownerVars
<1>10. CASE Recheck(c)
  <2>1. call' \in [Caller -> CallType]
    BY <1>10, CallUpdate DEF Recheck
  <2>2. woken' \subseteq Caller
    BY <1>10 DEF Recheck, TypeOK
  <2> QED BY <1>10, <2>1, <2>2 DEF Recheck, TypeOK, stateVars, closeVars, ownerVars
<1>11. CASE Resume(c)
  <2>1. call' \in [Caller -> CallType]
    BY <1>11, CallUpdate DEF Resume
  <2> QED BY <1>11, <2>1 DEF Resume, LeaveHub, TypeOK, stateVars, closeVars, ownerVars
<1>12. CASE GiveUp(c)
  <2>1. call' \in [Caller -> CallType]
    BY <1>12, CallUpdate DEF GiveUp
  <2> QED BY <1>12, <2>1 DEF GiveUp, LeaveHub, TypeOK, stateVars, closeVars, ownerVars
<1>13. ASSUME NEW reason \in Reason, RequestClose(c, reason)
       PROVE  TypeOK'
  <2>1. call' \in [Caller -> CallType]
    BY <1>13, CallUpdate DEF RequestClose
  <2>2. /\ closeReason' \in Error /\ closeRequested' \in BOOLEAN
        /\ acceptance' \in {"Open", "Settling", "Closed"}
    BY <1>13 DEF RequestClose, TypeOK, Error
  <2> QED BY <1>13, <2>1, <2>2 DEF RequestClose, TypeOK, stateVars, ownerVars, hubVars
<1> QED
  BY <1>1, <1>2, <1>3, <1>4, <1>5, <1>6, <1>7, <1>8, <1>9, <1>10, <1>11, <1>12, <1>13
     DEF CallerStep, CallerEvent

\* What the locals of PumpWrites may become.
LEMMA PumpUpdate ==
  ASSUME TypeOK
  PROVE  /\ NoPump \in PumpType
         /\ \A n \in Nat : [pump EXCEPT !.left = n, !.bytes = @ + n, !.freed = TRUE,
                                        !.round = @ + 1] \in PumpType
         /\ \A b \in BOOLEAN :
              [pump EXCEPT !.wait = b, !.changed = @ \/ pending # <<>>] \in PumpType
         /\ [pump EXCEPT !.round = @ + 1] \in PumpType
         /\ [pump EXCEPT !.changed = TRUE] \in PumpType
         /\ [NoPump EXCEPT !.wait = pump.wait] \in PumpType
<1>1. pump \in PumpType /\ NoPump \in PumpType
  BY DEF TypeOK, PumpType, NoPump
<1>2. ASSUME NEW n \in Nat
      PROVE  [pump EXCEPT !.left = n, !.bytes = @ + n, !.freed = TRUE, !.round = @ + 1]
               \in PumpType
  <2>1. pump.bytes + n \in Nat /\ pump.round + 1 \in Nat
    BY <1>1 DEF PumpType
  <2> QED BY <1>1, <2>1 DEF PumpType
<1>3. ASSUME NEW b \in BOOLEAN
      PROVE  [pump EXCEPT !.wait = b, !.changed = @ \/ pending # <<>>] \in PumpType
  <2>1. (pump.changed \/ pending # <<>>) \in BOOLEAN
    OBVIOUS
  <2> QED BY <1>1, <2>1 DEF PumpType
<1>4. [pump EXCEPT !.round = @ + 1] \in PumpType /\ [pump EXCEPT !.changed = TRUE] \in PumpType
  <2>1. pump.round + 1 \in Nat
    BY <1>1 DEF PumpType
  <2> QED BY <1>1, <2>1 DEF PumpType
<1>5. [NoPump EXCEPT !.wait = pump.wait] \in PumpType
  <2>1. pump.wait \in BOOLEAN
    BY <1>1 DEF PumpType
  <2> QED BY <1>1, <2>1 DEF PumpType
<1> QED BY <1>1, <1>2, <1>3, <1>4, <1>5

\* The steps of the owner and of the control domain.
LEMMA TypeOwner ==
  ASSUME TypeOK, SomethingToCredit,
         PumpOwner \/ WriteReady \/ OwnerStep \/ Seal \/ SealOnOwner \/ CancelControl
  PROVE  TypeOK'
<1> USE StateConstants
<1>1. CASE PumpOwner
  <2>1. opc' \in OwnerPc /\ pump' \in PumpType /\ shutReason' \in Error /\ dirty' = FALSE
    BY <1>1, PumpUpdate DEF PumpOwner, Shutdown, StartPump, Goto, TypeOK, OwnerPc, Locked, Error
  <2> QED BY <1>1, <2>1 DEF PumpOwner, TypeOK, stateVars, closeVars, hubVars
<1>2. CASE WriteReady
  <2>1. opc' \in OwnerPc /\ pump' \in PumpType /\ shutReason' \in Error /\ writeWaiting' = FALSE
    BY <1>2, PumpUpdate DEF WriteReady, Shutdown, StartPump, Goto, TypeOK, OwnerPc, Locked, Error
  <2> QED BY <1>2, <2>1 DEF WriteReady, TypeOK, stateVars, closeVars, hubVars
<1>3. ASSUME NEW n \in 1..Allowed, RoundSend(n) PROVE TypeOK'
  <2>1. n \in Nat
    OBVIOUS
  <2>2. opc' \in OwnerPc /\ pump' \in PumpType
    BY <1>3, <2>1, PumpUpdate DEF RoundSend, Goto, OwnerPc, Locked
  <2>3. UNCHANGED <<ops, pending, rec, nextOp, closeVars, sealed, dirty, ownerRest, call, hubVars>>
    BY <1>3, Zenon DEF RoundSend
  <2> QED BY <2>2, <2>3 DEF TypeOK, closeVars, ownerRest, hubVars
<1>4. CASE RoundAgain \/ RoundInterrupted \/ RoundsOver
  <2>1. opc' \in OwnerPc /\ pump' \in PumpType
    BY <1>4, PumpUpdate DEF RoundAgain, RoundInterrupted, RoundsOver, UnlockPump, Goto, TypeOK,
       OwnerPc, Locked
  <2>2. UNCHANGED <<stateVars, closeVars, sealed, dirty, ownerRest, call, hubVars>>
    BY <1>4, Zenon DEF RoundAgain, RoundInterrupted, RoundsOver
  <2> QED BY <2>1, <2>2 DEF TypeOK, stateVars, closeVars, ownerRest, hubVars
<1>5. CASE RoundFail
  <2>1. /\ opc' \in OwnerPc /\ pump' \in PumpType
        /\ acceptance' \in {"Open", "Settling", "Closed"}
    BY <1>5, PumpUpdate DEF RoundFail, Goto, TypeOK, OwnerPc, Locked
  <2> QED BY <1>5, <2>1 DEF RoundFail, TypeOK, ownerRest, hubVars
<1>6. CASE Attribute
  <2> DEFINE id   == Head(ops)
             take == Smaller(pump.left, rec[id].remaining)
             full == take = rec[id].remaining
  <2>1. id \in OpId /\ Tail(ops) \in Seq(OpId)
    BY <1>6, TailAt DEF Attribute, SomethingToCredit, TypeOK
  <2>2. /\ rec[id] \in RecordType /\ pump \in PumpType /\ take \in Nat /\ full \in BOOLEAN
        /\ pump.left - take \in Nat /\ rec[id].remaining - take \in Nat
        /\ rec[id].sent + take \in Nat
    <3>1. rec[id] \in RecordType /\ pump \in PumpType
      BY <2>1 DEF TypeOK
    <3>2. rec[id].remaining \in Nat /\ rec[id].sent \in Nat /\ pump.left \in Nat
      BY <3>1 DEF RecordType, PumpType
    <3> HIDE DEF id
    <3> QED BY <3>1, <3>2 DEF Smaller
  <2>3. rec' = [rec EXCEPT ![id].remaining = @ - take, ![id].sent = @ + take,
                           ![id].terminal = full]
    BY <1>6 DEF Attribute
  <2>4. rec' \in [OpId -> RecordType]
    <3> HIDE DEF id, take, full
    <3> QED BY <2>1, <2>2, <2>3 DEF TypeOK, RecordType
  <2>5. pump' \in PumpType
    <3>1. pump' = [pump EXCEPT !.left = @ - take, !.changed = @ \/ full]
      BY <1>6 DEF Attribute
    <3> HIDE DEF id, take, full
    <3> QED BY <2>2, <3>1 DEF PumpType
  <2>6. ops' \in Seq(OpId)
    BY <1>6, <2>1 DEF Attribute, TypeOK
  <2>7. pending' \in Seq(CompletionType)
    <3>1. [id |-> id, sent |-> rec[id].sent + take, error |-> NoError] \in CompletionType
      BY <2>1, <2>2 DEF CompletionType, Error
    <3>2. \/ PushPending([id |-> id, sent |-> rec[id].sent + take, error |-> NoError])
          \/ pending' = pending
      BY <1>6 DEF Attribute
    <3> QED BY <3>1, <3>2, PushPendingType DEF TypeOK
  <2>8. opc' \in OwnerPc
    BY <1>6 DEF Attribute, Goto, OwnerPc, Locked
  <2> QED
    BY <1>6, <2>4, <2>5, <2>6, <2>7, <2>8 DEF Attribute, TypeOK, closeVars, ownerRest, hubVars
<1>7. CASE FailOne
  <2> DEFINE id == Head(ops)
  <2>1. id \in OpId /\ Tail(ops) \in Seq(OpId)
    BY <1>7, TailAt DEF FailOne, TypeOK
  <2>2. rec' \in [OpId -> RecordType]
    <3>1. rec' = [rec EXCEPT ![id].terminal = TRUE, ![id].error = IoError, ![id].remaining = 0]
      BY <1>7 DEF FailOne
    <3> DEFINE r == [rec[id] EXCEPT !.terminal = TRUE, !.error = IoError, !.remaining = 0]
    <3>2. rec[id] \in RecordType /\ IoError \in Error
      BY <2>1 DEF TypeOK, Error
    <3>3. r \in RecordType
      BY <3>2 DEF RecordType
    <3>4. rec' = [rec EXCEPT ![id] = r]
      BY <2>1, <3>1 DEF TypeOK
    <3> HIDE DEF id, r
    <3> QED BY <2>1, <3>3, <3>4 DEF TypeOK
  <2>3. pending' \in Seq(CompletionType)
    BY <1>7, <2>1, PushPendingType DEF FailOne, TypeOK, Completion, CompletionType, RecordType, Error
  <2> QED BY <1>7, <2>1, <2>2, <2>3 DEF FailOne, TypeOK, closeVars, ownerRest, hubVars
<1>8. CASE Failed
  <2>1. /\ opc' \in OwnerPc /\ pump' \in PumpType
        /\ acceptance' \in {"Open", "Settling", "Closed"}
    BY <1>8, PumpUpdate DEF Failed, Goto, TypeOK, OwnerPc, Locked
  <2> QED BY <1>8, <2>1 DEF Failed, TypeOK, ownerRest, hubVars
<1>9. CASE PumpNotify
  <2>1. opc' \in OwnerPc /\ pump' \in PumpType
    BY <1>9, PumpUpdate DEF PumpNotify, Goto, OwnerPc, Locked
  <2>2. woken' \subseteq Caller /\ dirty' \in BOOLEAN
    BY <1>9 DEF PumpNotify, NotifyWriteHub, WakeOwner, TypeOK
  <2> QED BY <1>9, <2>1, <2>2 DEF PumpNotify, TypeOK, stateVars, closeVars, ownerRest
<1>10. CASE Deliver
  <2>1. Tail(pending) \in Seq(CompletionType) /\ Head(pending) \in CompletionType
    BY <1>10, TailAt DEF Deliver, TypeOK
  <2>2. delivered' \in Seq(CompletionType)
    BY <1>10, <2>1, AppendAt DEF Deliver, TypeOK
  <2> QED BY <1>10, <2>1, <2>2 DEF Deliver, Goto, TypeOK, OwnerPc, Locked, closeVars, hubVars
<1>11. CASE PopNotify \/ DeliverDone
  BY <1>11 DEF PopNotify, DeliverDone, NotifyWriteHub, Goto, TypeOK, OwnerPc, Locked, stateVars,
     closeVars, ownerRest, hubVars
<1>12. CASE Arm
  BY <1>12 DEF Arm, WakeOwner, NoPump, Goto, TypeOK, PumpType, OwnerPc, Locked, stateVars,
     closeVars, hubVars
<1>13. CASE MarkClosed
  BY <1>13 DEF MarkClosed, Goto, TypeOK, OwnerPc, Locked, Error, hubVars
<1>14. CASE SettleOne
  <2> DEFINE id == Head(ops)
  <2>1. id \in OpId /\ Tail(ops) \in Seq(OpId) /\ SettleError \in Error
    BY <1>14, TailAt DEF SettleOne, SettleError, TypeOK, Error
  <2>2. rec' \in [OpId -> RecordType]
    BY <1>14, <2>1 DEF SettleOne, TypeOK, RecordType
  <2>3. pending' \in Seq(CompletionType)
    BY <1>14, <2>1, PushPendingType DEF SettleOne, TypeOK, Completion, CompletionType, RecordType
  <2> QED BY <1>14, <2>1, <2>2, <2>3 DEF SettleOne, TypeOK, closeVars, ownerRest, hubVars
<1>15. CASE Settled
  BY <1>15 DEF Settled, Goto, TypeOK, OwnerPc, Locked, ownerRest, hubVars
<1>16. CASE PublishReadClosed
  BY <1>16 DEF PublishReadClosed, Goto, TypeOK, OwnerPc, Locked, stateVars, ownerRest, hubVars
<1>17. CASE Announce
  BY <1>17 DEF Announce, WakeOwner, Goto, TypeOK, OwnerPc, Locked, stateVars, closeVars
<1>18. CASE OnClose
  BY <1>18, AppendAt DEF OnClose, Goto, TypeOK, OwnerPc, Locked, stateVars, closeVars, hubVars
<1>19. CASE Seal
  BY <1>19 DEF Seal, TypeOK, stateVars, closeVars, ownerVars, hubVars
<1>20. CASE SealOnOwner \/ CancelControl
  BY <1>20 DEF SealOnOwner, CancelControl, Shutdown, Goto, TypeOK, OwnerPc, Locked, Error,
     stateVars, closeVars, hubVars
<1> QED
  BY <1>1, <1>2, <1>3, <1>4, <1>5, <1>6, <1>7, <1>8, <1>9, <1>10, <1>11, <1>12, <1>13,
     <1>14, <1>15, <1>16, <1>17, <1>18, <1>19, <1>20 DEF OwnerStep, Round

-----------------------------------------------------------------------------
(***************************************************************************)
(* Accounting.  The inductive invariant adds to the properties of interest *)
(* that ids are handed out in order and that every unfinished write is     *)
(* made of what was sent and what remains.                                 *)
(***************************************************************************)
FreshIds == \A id \in Taken : id < nextOp

SumsMatch ==
  \A id \in SeqSet(ops) : rec[id].sent + rec[id].remaining = rec[id].total

Books == /\ SomethingToCredit /\ ResponsibilityBounded /\ ExactlyOnce
         /\ FreshIds /\ SumsMatch /\ DoneMeansSent

\* A new connection has taken no write.
LEMMA BooksInit == Init => Books
<1> SUFFICES ASSUME Init PROVE Books
  OBVIOUS
<1>1. /\ ops = <<>> /\ pending = <<>> /\ delivered = <<>> /\ nextOp = 1 /\ opc = "idle"
      /\ rec = [id \in OpId |-> Record(0, FALSE)]
  BY DEF Init
<1>2. Taken = {}
  BY <1>1 DEF Taken, Record
<1>3. SeqSet(ops) = {} /\ IdsOf(pending) = {} /\ IdsOf(delivered) = {}
  BY <1>1 DEF SeqSet, IdsOf
<1>4. Distinct(ops) /\ DistinctIds(pending) /\ DistinctIds(delivered)
  BY <1>1 DEF Distinct, DistinctIds
<1>5. ResponsibilityBounded
  BY <1>1, StateConstants DEF ResponsibilityBounded
<1> QED
  BY <1>1, <1>2, <1>3, <1>4, <1>5
     DEF Books, SomethingToCredit, ExactlyOnce, FreshIds, SumsMatch, DoneMeansSent

\* With room in the buffer a push appends, it does not overwrite.
LEMMA PushRoom ==
  ASSUME TypeOK, Len(pending) < MaxOps, NEW item \in CompletionType, PushPending(item)
  PROVE  pending' = Append(pending, item) /\ Len(pending') = Len(pending) + 1
<1>1. Len(pending) < PendingCapacity
  BY StateConstants DEF TypeOK, PendingCapacity
<1> QED BY <1>1, AppendAt DEF TypeOK, PushPending

\* A finished write moves from m_ops to the completions: the front record gets
\* its final form r and one completion with its id is pushed.
LEMMA FinishFirst ==
  ASSUME TypeOK, Books, ops # <<>>,
         NEW r \in RecordType, NEW item \in CompletionType,
         item.id = Head(ops), r.terminal, r.total = rec[Head(ops)].total,
         r.error = NoError => r.sent = r.total,
         rec' = [rec EXCEPT ![Head(ops)] = r],
         PushPending(item), ops' = Tail(ops),
         UNCHANGED <<nextOp, delivered>>, opc' = "attribute" => ops' # <<>>
  PROVE  Books'
<1> DEFINE id == Head(ops)
<1>1. /\ id \in OpId /\ id \in SeqSet(ops) /\ Distinct(Tail(ops))
      /\ SeqSet(Tail(ops)) = SeqSet(ops) \ {id}
      /\ Len(Tail(ops)) = Len(ops) - 1 /\ Len(ops) \in Nat \ {0}
  BY SeqSetTail, TailAt DEF Books, ExactlyOnce, TypeOK
<1>2. Len(pending) \in Nat /\ Len(pending) < MaxOps
  BY <1>1, StateConstants DEF TypeOK, Books, ResponsibilityBounded
<1>3. pending' = Append(pending, item) /\ Len(pending') = Len(pending) + 1
  BY <1>2, PushRoom
<1>4. id \notin IdsOf(pending) /\ id \notin IdsOf(delivered) /\ id \in Taken
  BY <1>1 DEF Books, ExactlyOnce
<1>5. IdsOf(pending') = IdsOf(pending) \cup {id} /\ DistinctIds(pending')
  BY <1>3, <1>4, IdsAppend DEF TypeOK, Books, ExactlyOnce
<1>6. /\ rec'[id] = r /\ \A i \in OpId : i # id => rec'[i] = rec[i]
      /\ Taken' = Taken
  <2>1. rec'[id] = r /\ \A i \in OpId : i # id => rec'[i] = rec[i]
    BY <1>1 DEF TypeOK
  <2> QED BY <1>1, <1>4, <2>1 DEF Taken
<1>7. SeqSet(ops') = SeqSet(ops) \ {id} /\ SeqSet(ops) \subseteq Taken /\ Taken \subseteq OpId
  BY <1>1 DEF Books, ExactlyOnce, Taken
<1> HIDE DEF id
<1>8. ResponsibilityBounded'
  BY <1>1, <1>2, <1>3, StateConstants DEF Books, ResponsibilityBounded
<1>9. ExactlyOnce'
  <2>1. Distinct(ops') /\ DistinctIds(pending') /\ DistinctIds(delivered')
    BY <1>1, <1>5 DEF Books, ExactlyOnce
  <2>2. IdsOf(delivered') = IdsOf(delivered)
    BY DEF IdsOf
  <2> QED BY <1>4, <1>5, <1>6, <1>7, <2>1, <2>2 DEF Books, ExactlyOnce
<1>10. FreshIds'
  BY <1>6 DEF Books, FreshIds
<1>11. SumsMatch'
  BY <1>6, <1>7 DEF Books, SumsMatch
<1>12. DoneMeansSent'
  BY <1>6, <1>7 DEF Books, DoneMeansSent
<1> QED BY <1>8, <1>9, <1>10, <1>11, <1>12 DEF Books, SomethingToCredit

\* A step that touches none of the books keeps them.
LEMMA BooksUntouched ==
  ASSUME Books, UNCHANGED <<ops, pending, rec, nextOp, delivered>>,
         opc' = "attribute" => ops # <<>>
  PROVE  Books'
<1>1. ops' = ops /\ pending' = pending /\ rec' = rec /\ nextOp' = nextOp /\ delivered' = delivered
  OBVIOUS
<1>2. Taken' = Taken /\ SeqSet(ops') = SeqSet(ops)
  BY <1>1 DEF Taken, SeqSet
<1>3. ExactlyOnce'
  BY <1>1, <1>2 DEF Books, ExactlyOnce
<1>4. ResponsibilityBounded' /\ FreshIds'
  BY <1>1, <1>2 DEF Books, ResponsibilityBounded, FreshIds
<1>5. SumsMatch' /\ DoneMeansSent'
  BY <1>1, <1>2 DEF Books, SumsMatch, DoneMeansSent
<1> QED BY <1>1, <1>3, <1>4, <1>5 DEF Books, SomethingToCredit

\* AcceptWrite takes the next id: for an empty write straight to the
\* completions, otherwise to the end of m_ops.
LEMMA BooksCaller ==
  ASSUME TypeOK, Books, NEW c \in Caller, CallerStep(c) \/ CallerEvent(c)
  PROVE  Books'
<1>1. CASE AcceptEmpty(c)
  <2> DEFINE id == nextOp
             item == [id |-> id, sent |-> 0, error |-> NoError]
  <2>1. /\ id \in OpId /\ nextOp' = id + 1 /\ id \in Nat
        /\ rec' = [rec EXCEPT ![id] = Record(0, TRUE)]
        /\ PushPending(item)
        /\ Len(ops) + Len(pending) < MaxOps /\ Len(ops) \in Nat /\ Len(pending) \in Nat
        /\ UNCHANGED <<ops, delivered, opc>>
    <3>1. /\ TakeId /\ ~OpsFull /\ rec' = [rec EXCEPT ![id] = Record(0, TRUE)]
          /\ PushPending(item) /\ UNCHANGED <<ops, delivered, opc>>
      BY <1>1, Zenon DEF AcceptEmpty, ownerVars
    <3>2. MaxOps \in Nat /\ Len(ops) \in Nat /\ Len(pending) \in Nat
      BY StateConstants DEF TypeOK
    <3>3. Len(ops) + Len(pending) < MaxOps
      BY <3>1, <3>2 DEF OpsFull
    <3>4. id \in OpId /\ nextOp' = id + 1 /\ id \in Nat
      BY <3>1, IdTaken
    <3> QED BY <3>1, <3>2, <3>3, <3>4
  <2>2. item \in CompletionType
    BY <2>1 DEF CompletionType, Error
  <2>3. pending' = Append(pending, item) /\ Len(pending') = Len(pending) + 1
    BY <2>1, <2>2, PushRoom, StateConstants
  <2>4. id \notin Taken /\ Taken \subseteq OpId
    BY <2>1 DEF Books, FreshIds, Taken
  <2>5. IdsOf(pending') = IdsOf(pending) \cup {id} /\ DistinctIds(pending')
    BY <2>2, <2>3, <2>4, IdsAppend DEF TypeOK, Books, ExactlyOnce
  <2>6. /\ rec'[id] = Record(0, TRUE) /\ \A i \in OpId : i # id => rec'[i] = rec[i]
        /\ Taken' = Taken \cup {id}
    <3>1. rec'[id] = Record(0, TRUE) /\ \A i \in OpId : i # id => rec'[i] = rec[i]
      BY <2>1 DEF TypeOK
    <3>2. Record(0, TRUE).terminal
      BY DEF Record
    <3> QED BY <2>1, <3>1, <3>2 DEF Taken
  <2>7. SeqSet(ops') = SeqSet(ops) /\ IdsOf(delivered') = IdsOf(delivered)
    BY <2>1 DEF SeqSet, IdsOf
  <2> HIDE DEF id, item
  <2>8. ExactlyOnce'
    BY <2>1, <2>4, <2>5, <2>6, <2>7 DEF Books, ExactlyOnce
  <2>9. FreshIds'
    BY <2>1, <2>4, <2>6 DEF Books, FreshIds, id, TypeOK, OpId
  <2>10. SumsMatch'
    BY <2>4, <2>6, <2>7 DEF Books, SumsMatch, ExactlyOnce
  <2>11. DoneMeansSent'
    BY <2>4, <2>6, <2>7 DEF Books, DoneMeansSent, ExactlyOnce, Record
  <2>12. ResponsibilityBounded'
    BY <2>1, <2>3, StateConstants DEF ResponsibilityBounded
  <2> QED BY <2>1, <2>8, <2>9, <2>10, <2>11, <2>12 DEF Books, SomethingToCredit
<1>2. CASE Accept(c)
  <2> DEFINE id == nextOp
             n  == call[c].want
  <2>1. /\ id \in OpId /\ nextOp' = id + 1 /\ id \in Nat
        /\ Len(ops) + Len(pending) < MaxOps /\ Len(ops) \in Nat /\ Len(pending) \in Nat
    <3>1. TakeId /\ ~OpsFull
      BY <1>2, Zenon DEF Accept
    <3>2. MaxOps \in Nat /\ Len(ops) \in Nat /\ Len(pending) \in Nat
      BY StateConstants DEF TypeOK
    <3>3. Len(ops) + Len(pending) < MaxOps
      BY <3>1, <3>2 DEF OpsFull
    <3> QED BY <3>1, <3>2, <3>3, IdTaken
  <2>2. UNCHANGED <<pending, delivered, opc>>
    BY <1>2, Zenon DEF Accept, ownerVars
  <2>3. n \in Nat /\ n # 0
    <3>1. n \in Sizes \cup {0}
      BY DEF TypeOK, CallType
    <3>2. \A m \in Sizes \cup {0} : m \in Nat
      BY StateConstants
    <3>3. n # 0
      BY <1>2, Zenon DEF Accept
    <3> QED BY <3>1, <3>2, <3>3, Zenon
  <2>4. id \notin Taken /\ Taken \subseteq OpId
    BY <2>1 DEF Books, FreshIds, Taken
  <2>5. CASE UNCHANGED <<rec, ops>>
    <3>1. Taken' = Taken /\ SeqSet(ops') = SeqSet(ops)
      BY <2>5 DEF Taken, SeqSet
    <3>2. ExactlyOnce'
      BY <2>2, <2>5, <3>1 DEF Books, ExactlyOnce, IdsOf, Distinct, DistinctIds
    <3>3. FreshIds'
      <4>1. \A i \in Taken : i \in OpId /\ i < nextOp
        BY DEF Books, FreshIds, Taken
      <4>2. \A i \in OpId : i \in Nat
        BY DEF OpId
      <4>3. \A i \in Taken' : i < nextOp'
        <5> SUFFICES ASSUME NEW i \in Taken PROVE i < nextOp'
          BY <3>1
        <5>1. i \in Nat /\ i < id
          BY <4>1, <4>2
        <5>2. id \in Nat /\ nextOp' = id + 1
          BY <2>1
        <5> HIDE DEF id
        <5> QED BY <5>1, <5>2
      <4> QED BY <4>3 DEF FreshIds
    <3>4. SumsMatch' /\ DoneMeansSent'
      BY <2>5, <3>1 DEF Books, SumsMatch, DoneMeansSent
    <3> QED
      BY <2>2, <2>5, <3>2, <3>3, <3>4 DEF Books, SomethingToCredit, ResponsibilityBounded
  <2>6. CASE rec' = [rec EXCEPT ![id] = Record(n, FALSE)] /\ ops' = Append(ops, id)
    <3>1. /\ rec'[id] = Record(n, FALSE) /\ \A i \in OpId : i # id => rec'[i] = rec[i]
          /\ Taken' = Taken \cup {id}
      <4>1. rec'[id] = Record(n, FALSE) /\ \A i \in OpId : i # id => rec'[i] = rec[i]
        BY <2>1, <2>6 DEF TypeOK
      <4>2. Record(n, FALSE).total # 0
        BY <2>3 DEF Record
      <4> QED BY <2>1, <4>1, <4>2 DEF Taken
    <3>2. /\ SeqSet(ops') = SeqSet(ops) \cup {id} /\ Distinct(ops')
          /\ Len(ops') = Len(ops) + 1
      BY <2>1, <2>4, <2>6, SeqSetAppend, AppendAt DEF TypeOK, Books, ExactlyOnce
    <3> HIDE DEF id, n
    <3>3. ExactlyOnce'
      <4>1. pending' = pending /\ delivered' = delivered
        BY <2>2
      <4> QED BY <2>4, <3>1, <3>2, <4>1 DEF Books, ExactlyOnce
    <3>4. FreshIds'
      BY <2>1, <2>4, <3>1 DEF Books, FreshIds, id, TypeOK, OpId
    <3>5. SumsMatch'
      <4>1. SeqSet(ops) \subseteq Taken
        BY DEF Books, ExactlyOnce
      <4>2. Record(n, FALSE).sent + Record(n, FALSE).remaining = Record(n, FALSE).total
        BY <2>3 DEF Record
      <4> QED BY <2>4, <3>1, <3>2, <4>1, <4>2 DEF Books, SumsMatch
    <3>6. DoneMeansSent'
      BY <2>4, <3>1, <3>2 DEF Books, DoneMeansSent, Record
    <3>7. ResponsibilityBounded'
      BY <2>1, <2>2, <3>2, StateConstants DEF ResponsibilityBounded
    <3>8. ops' # <<>>
      BY <2>1, <3>2
    <3> QED BY <3>3, <3>4, <3>5, <3>6, <3>7, <3>8 DEF Books, SomethingToCredit
  <2>7. \/ UNCHANGED <<rec, ops>>
        \/ rec' = [rec EXCEPT ![id] = Record(n, FALSE)] /\ ops' = Append(ops, id)
    BY <1>2, Zenon DEF Accept
  <2> QED BY <2>5, <2>6, <2>7
<1>3. CASE \E k \in {"none", "capacity", "close"} : \E n \in Sizes \cup {0} : Call(c, k, n)
  BY <1>3, BooksUntouched DEF Books, SomethingToCredit, Call, stateVars, ownerVars
<1>4. CASE CheckSeal(c) \/ AcceptClosed(c) \/ AcceptRefused(c)
  BY <1>4, BooksUntouched DEF Books, SomethingToCredit, CheckSeal, AcceptClosed,
     AcceptRefused, stateVars, ownerVars
<1>5. CASE Accepted(c) \/ WaitOver(c) \/ Register(c) \/ Recheck(c) \/ Resume(c) \/ GiveUp(c)
  BY <1>5, BooksUntouched DEF Books, SomethingToCredit, Accepted, WaitOver, Register, Recheck,
     Resume, GiveUp, stateVars, ownerVars
<1>6. CASE \E reason \in Reason : RequestClose(c, reason)
  BY <1>6, BooksUntouched DEF Books, SomethingToCredit, RequestClose, stateVars, ownerVars
<1> QED BY <1>1, <1>2, <1>3, <1>4, <1>5, <1>6 DEF CallerStep, CallerEvent

\* The owner finishes writes from the front of m_ops and delivers completions
\* from the front of the buffer.
LEMMA BooksOwner ==
  ASSUME TypeOK, Books,
         PumpOwner \/ WriteReady \/ OwnerStep \/ Seal \/ SealOnOwner \/ CancelControl
  PROVE  Books'
<1> USE StateConstants
<1>1. CASE Attribute
  <2> DEFINE id   == Head(ops)
             take == Smaller(pump.left, rec[id].remaining)
             full == take = rec[id].remaining
             r    == [rec[id] EXCEPT !.remaining = @ - take, !.sent = @ + take,
                                     !.terminal = full]
  <2>1. ops # <<>> /\ ops \in Seq(OpId) /\ rec \in [OpId -> RecordType] /\ pump \in PumpType
    BY <1>1 DEF Attribute, Books, SomethingToCredit, TypeOK
  <2>2. id \in OpId /\ id \in SeqSet(ops) /\ SeqSet(ops) \subseteq Taken
    BY <2>1, TailAt, SeqSetTail DEF Books, ExactlyOnce
  <2>3. /\ rec[id] \in RecordType
        /\ rec[id].remaining \in Nat /\ rec[id].sent \in Nat /\ pump.left \in Nat
        /\ rec[id].total \in Nat /\ rec[id].error \in Error
        /\ rec[id].sent + rec[id].remaining = rec[id].total
        /\ ~rec[id].terminal
    BY <2>1, <2>2 DEF RecordType, PumpType, Books, SumsMatch, DoneMeansSent
  <2>4. rec' = [rec EXCEPT ![id] = r]
    <3>1. rec' = [rec EXCEPT ![id].remaining = @ - take, ![id].sent = @ + take,
                             ![id].terminal = full]
      BY <1>1 DEF Attribute
    <3> HIDE DEF id, take, full
    <3> QED BY <2>1, <2>2, <3>1
  <2>5. take \in Nat /\ rec[id].remaining - take \in Nat /\ full \in BOOLEAN
    <3> HIDE DEF id
    <3> QED BY <2>3 DEF Smaller
  <2>6. r \in RecordType /\ r.total = rec[id].total /\ r.error = rec[id].error
        /\ r.sent = rec[id].sent + take /\ r.remaining = rec[id].remaining - take
        /\ r.terminal = full
    <3> HIDE DEF id, take, full
    <3>1. rec[id].sent + take \in Nat
      BY <2>3, <2>5
    <3> QED BY <2>3, <2>5, <3>1 DEF RecordType
  <2>7. UNCHANGED <<nextOp, delivered>> /\ (opc' = "attribute" => ops' # <<>>)
    BY <1>1 DEF Attribute, Goto, ownerRest
  <2>8. CASE full
    <3> DEFINE item == [id |-> id, sent |-> rec[id].sent + take, error |-> NoError]
    <3>1. PushPending(item) /\ ops' = Tail(ops)
      BY <1>1, <2>8 DEF Attribute
    <3>2. item \in CompletionType /\ item.id = Head(ops)
      <4> HIDE DEF take
      <4>1. rec[id].sent + take \in Nat
        BY <2>3, <2>5
      <4> QED BY <2>2, <4>1 DEF CompletionType, Error
    <3>3. r.terminal /\ r.sent = r.total
      <4> HIDE DEF id, r, take
      <4> QED BY <2>3, <2>5, <2>6, <2>8
    <3> HIDE DEF take, full, r, item
    <3> QED BY <2>1, <2>4, <2>6, <2>7, <3>1, <3>2, <3>3, FinishFirst DEF id
  <2>9. CASE ~full
    <3>1. UNCHANGED <<ops, pending>>
      BY <1>1, <2>9 DEF Attribute
    <3>2. /\ rec'[id] = r /\ \A i \in OpId : i # id => rec'[i] = rec[i]
          /\ SeqSet(ops') = SeqSet(ops)
      BY <2>1, <2>2, <2>4, <3>1 DEF SeqSet
    <3> HIDE DEF id, take, full, r
    <3>3. Taken' = Taken
      BY <2>3, <2>6, <2>9, <3>2 DEF Taken
    <3>4. SumsMatch'
      <4>1. r.sent + r.remaining = r.total
        BY <2>3, <2>5, <2>6
      <4> QED BY <2>2, <3>2, <4>1 DEF Books, SumsMatch, Taken
    <3>5. DoneMeansSent'
      BY <2>2, <2>6, <2>9, <3>2, <3>3 DEF Books, DoneMeansSent, Taken
    <3>6. ExactlyOnce'
      <4>1. ops' = ops /\ pending' = pending /\ delivered' = delivered
        BY <2>7, <3>1
      <4> QED BY <3>3, <4>1 DEF Books, ExactlyOnce
    <3> QED
      BY <2>7, <3>1, <3>3, <3>4, <3>5, <3>6
         DEF Books, SomethingToCredit, ResponsibilityBounded, FreshIds
  <2> QED BY <2>8, <2>9
<1>2. CASE FailOne
  <2> DEFINE id == Head(ops)
             r  == [rec[id] EXCEPT !.terminal = TRUE, !.error = IoError, !.remaining = 0]
             item == Completion(id, IoError)
  <2>1. /\ ops # <<>> /\ PushPending(item) /\ ops' = Tail(ops)
        /\ UNCHANGED <<nextOp, delivered, opc>> /\ opc = "fail"
        /\ rec' = [rec EXCEPT ![id].terminal = TRUE, ![id].error = IoError,
                              ![id].remaining = 0]
    BY <1>2 DEF FailOne, ownerRest
  <2>2. id \in OpId /\ rec \in [OpId -> RecordType]
    BY <2>1, TailAt DEF TypeOK
  <2>3. rec[id] \in RecordType /\ rec[id].sent \in Nat
    BY <2>2 DEF RecordType
  <2>4. rec' = [rec EXCEPT ![id] = r]
    <3> HIDE DEF id
    <3> QED BY <2>1, <2>2
  <2>5. r \in RecordType /\ r.terminal /\ r.total = rec[id].total /\ r.error # NoError
    <3> HIDE DEF id
    <3> QED BY <2>3 DEF RecordType, Error
  <2>6. item \in CompletionType /\ item.id = Head(ops)
    BY <2>2, <2>3 DEF Completion, CompletionType, Error
  <2> HIDE DEF r, item
  <2> QED BY <2>1, <2>4, <2>5, <2>6, FinishFirst DEF id
<1>3. CASE SettleOne
  <2> DEFINE id == Head(ops)
             r  == [rec[id] EXCEPT !.terminal = TRUE, !.error = SettleError]
             item == Completion(id, SettleError)
  <2>1. /\ ops # <<>> /\ PushPending(item) /\ ops' = Tail(ops)
        /\ UNCHANGED <<nextOp, delivered, opc>> /\ opc = "settle"
        /\ rec' = [rec EXCEPT ![id].terminal = TRUE, ![id].error = SettleError]
    BY <1>3 DEF SettleOne, ownerRest
  <2>2. id \in OpId /\ rec \in [OpId -> RecordType] /\ SettleError \in Error \ {NoError}
    BY <2>1, TailAt DEF TypeOK, SettleError, Error
  <2>3. rec[id] \in RecordType /\ rec[id].sent \in Nat
    BY <2>2 DEF RecordType
  <2>4. rec' = [rec EXCEPT ![id] = r]
    <3> HIDE DEF id
    <3> QED BY <2>1, <2>2
  <2>5. r \in RecordType /\ r.terminal /\ r.total = rec[id].total /\ r.error # NoError
    <3> HIDE DEF id
    <3> QED BY <2>2, <2>3 DEF RecordType
  <2>6. item \in CompletionType /\ item.id = Head(ops)
    BY <2>2, <2>3 DEF Completion, CompletionType
  <2> HIDE DEF r, item
  <2> QED BY <2>1, <2>4, <2>5, <2>6, FinishFirst DEF id
<1>4. CASE Deliver
  <2> DEFINE h == Head(pending)
  <2>1. /\ pending # <<>> /\ pending' = Tail(pending) /\ delivered' = Append(delivered, h)
        /\ UNCHANGED <<ops, rec, nextOp>> /\ opc' = "popped"
        /\ pending \in Seq(CompletionType) /\ delivered \in Seq(CompletionType)
    BY <1>4 DEF Deliver, Goto, TypeOK
  <2>2. /\ h \in CompletionType /\ Len(pending') = Len(pending) - 1
        /\ Len(pending) \in Nat \ {0}
    BY <2>1, TailAt
  <2>3. /\ h.id \in IdsOf(pending) /\ IdsOf(pending') = IdsOf(pending) \ {h.id}
        /\ DistinctIds(pending')
    BY <2>1, IdsTail DEF Books, ExactlyOnce
  <2>4. IdsOf(delivered') = IdsOf(delivered) \cup {h.id} /\ DistinctIds(delivered')
    BY <2>1, <2>2, <2>3, IdsAppend DEF Books, ExactlyOnce
  <2> HIDE DEF h
  <2>5. Taken' = Taken /\ SeqSet(ops') = SeqSet(ops) /\ (Distinct(ops) => Distinct(ops'))
    BY <2>1 DEF Taken, SeqSet, Distinct
  <2>6. ExactlyOnce'
    BY <2>3, <2>4, <2>5 DEF Books, ExactlyOnce
  <2>7. ResponsibilityBounded'
    BY <2>1, <2>2 DEF Books, ResponsibilityBounded, TypeOK
  <2>8. FreshIds' /\ SumsMatch' /\ DoneMeansSent'
    BY <2>1, <2>5 DEF Books, FreshIds, SumsMatch, DoneMeansSent
  <2> QED BY <2>1, <2>6, <2>7, <2>8 DEF Books, SomethingToCredit
<1>5. CASE \E n \in 1..Allowed : RoundSend(n)
  BY <1>5, BooksUntouched, Zenon DEF RoundSend, Goto, ownerRest
<1>6. CASE PumpOwner \/ WriteReady
  BY <1>6, BooksUntouched DEF PumpOwner, WriteReady, Shutdown, StartPump, Goto, stateVars
<1>7. CASE RoundAgain \/ RoundInterrupted \/ RoundsOver \/ RoundFail
  BY <1>7, BooksUntouched DEF Books, SomethingToCredit, RoundAgain, RoundInterrupted, RoundsOver,
     RoundFail, UnlockPump, Goto, stateVars, ownerRest
<1>8. CASE Failed \/ PumpNotify \/ PopNotify \/ DeliverDone \/ Arm
  BY <1>8, BooksUntouched DEF Failed, PumpNotify, PopNotify, DeliverDone, Arm, Goto, stateVars,
     ownerRest
<1>9. CASE MarkClosed \/ Settled \/ PublishReadClosed \/ Announce \/ OnClose
  BY <1>9, BooksUntouched DEF MarkClosed, Settled, PublishReadClosed, Announce, OnClose, Goto,
     stateVars, ownerRest
<1>10. CASE Seal \/ SealOnOwner \/ CancelControl
  BY <1>10, BooksUntouched DEF Books, SomethingToCredit, Seal, SealOnOwner, CancelControl,
     Shutdown, Goto, stateVars, ownerVars
<1> QED
  BY <1>1, <1>2, <1>3, <1>4, <1>5, <1>6, <1>7, <1>8, <1>9, <1>10 DEF OwnerStep, Round

-----------------------------------------------------------------------------
(***************************************************************************)
(* The send queue.  What is proved of OutboundQueue holds of m_queue.      *)
(***************************************************************************)
QP == INSTANCE OutboundQueueProofs WITH
       Byte <- OpId, RingBytes <- Smaller(OutboundMax, RingCap),
       MaxTotalBytes <- OutboundMax, MaxSegments <- MaxOps

\* Both instances of the queue say the same.
LEMMA SameQueue ==
  /\ \A q : Q!Content(q) = QP!Content(q)
  /\ \A q, data : Q!QueueAppended(q, data) = QP!QueueAppended(q, data)
  /\ \A q, n : Q!Consumed(q, n) = QP!Consumed(q, n)
  /\ \A v : Q!GatherViews(v) = QP!GatherViews(v)
  /\ \A q, n : Q!ToRing(q, n) = QP!ToRing(q, n)
  /\ \A q, n : Q!CanMerge(q, n) <=> QP!CanMerge(q, n)
  /\ \A n : Q!EmptyQueue(n) = QP!EmptyQueue(n)
<1>1. \A q : Q!Content(q) = QP!Content(q)
  BY DEF Q!Content, QP!Content, Q!FlattenSeq, QP!FlattenSeq
<1>2. \A q, data : Q!QueueAppended(q, data) = QP!QueueAppended(q, data)
  BY DEF Q!QueueAppended, QP!QueueAppended, Q!ToRing, QP!ToRing, Q!RingSpace, QP!RingSpace,
     Q!SpillWrite, QP!SpillWrite, Q!CanMerge, QP!CanMerge, Q!RingWrite, QP!RingWrite,
     Q!Last, QP!Last
<1>3. \A q, n : Q!Consumed(q, n) = QP!Consumed(q, n)
  BY DEF Q!Consumed, QP!Consumed, Q!SpillAfter, QP!SpillAfter, Q!SpillSizes, QP!SpillSizes
<1>4. \A v : Q!GatherViews(v) = QP!GatherViews(v)
  BY DEF Q!GatherViews, QP!GatherViews, Q!AllViews, QP!AllViews, Q!RingViews, QP!RingViews,
     Q!Contiguous, QP!Contiguous
<1>5. \A q, n : Q!ToRing(q, n) = QP!ToRing(q, n)
  BY DEF Q!ToRing, QP!ToRing, Q!RingSpace, QP!RingSpace
<1>6. \A q, n : Q!CanMerge(q, n) <=> QP!CanMerge(q, n)
  BY DEF Q!CanMerge, QP!CanMerge, Q!Last, QP!Last
<1>7. \A n : Q!EmptyQueue(n) = QP!EmptyQueue(n)
  BY DEF Q!EmptyQueue, QP!EmptyQueue, Q!RingOf, QP!RingOf
<1> QED BY <1>1, <1>2, <1>3, <1>4, <1>5, <1>6, <1>7

-----------------------------------------------------------------------------
(***************************************************************************)
(* What is owed: the unsent bytes of the writes o, by the records r.       *)
(***************************************************************************)
Bytes(id, n) == [k \in 1..n |-> id]
Share(o, r) == [i \in 1..Len(o) |-> Bytes(o[i], r[o[i]].remaining)]
Debt(o, r) == QP!FlattenSeq(Share(o, r))
Counted(o, r) == \A i \in 1..Len(o) : r[o[i]].remaining \in Nat

LEMMA ShareType ==
  ASSUME NEW S, NEW o \in Seq(S), NEW r, Counted(o, r)
  PROVE  /\ Share(o, r) \in Seq(Seq(S)) /\ Len(Share(o, r)) = Len(o)
         /\ Share(o, r) \in Seq(Seq(SeqSet(o)))
<1>1. Len(o) \in Nat /\ DOMAIN o = 1..Len(o) /\ \A i \in 1..Len(o) : o[i] \in S /\ o[i] \in SeqSet(o)
  BY DEF SeqSet
<1>2. ASSUME NEW T, NEW x \in T, NEW n \in Nat PROVE Bytes(x, n) \in Seq(T)
  BY DEF Bytes
<1>3. \A i \in 1..Len(o) : /\ Bytes(o[i], r[o[i]].remaining) \in Seq(S)
                           /\ Bytes(o[i], r[o[i]].remaining) \in Seq(SeqSet(o))
  <2> SUFFICES ASSUME NEW i \in 1..Len(o)
               PROVE  /\ Bytes(o[i], r[o[i]].remaining) \in Seq(S)
                      /\ Bytes(o[i], r[o[i]].remaining) \in Seq(SeqSet(o))
    OBVIOUS
  <2>1. r[o[i]].remaining \in Nat
    BY DEF Counted
  <2> QED BY <1>1, <1>2, <2>1
<1> DEFINE X == Seq(S)
           Y == Seq(SeqSet(o))
<1>4. \A i \in 1..Len(o) : Bytes(o[i], r[o[i]].remaining) \in X /\ Bytes(o[i], r[o[i]].remaining) \in Y
  BY <1>3
<1> HIDE DEF X, Y
<1>5. Share(o, r) \in Seq(X) /\ Share(o, r) \in Seq(Y) /\ Len(Share(o, r)) = Len(o)
  BY <1>1, <1>4 DEF Share
<1> QED BY <1>5 DEF X, Y

LEMMA DebtType ==
  ASSUME NEW S, NEW o \in Seq(S), NEW r, Counted(o, r)
  PROVE  Debt(o, r) \in Seq(S) /\ Debt(o, r) \in Seq(SeqSet(o))
BY ShareType, QP!FlattenType DEF Debt

LEMMA DebtEmpty ==
  ASSUME NEW r PROVE Debt(<<>>, r) = <<>>
<1>1. Share(<<>>, r) = <<>>
  BY DEF Share
<1> QED BY <1>1, QP!FlattenEmpty DEF Debt

\* Bytes of a write taken from the front leave the rest of them.
LEMMA CutBytes ==
  ASSUME NEW S, NEW x \in S, NEW n \in Nat, NEW k \in 0..n
  PROVE  QP!Drop(Bytes(x, n), k) = Bytes(x, n - k)
<1> DEFINE b == Bytes(x, n)
           d == QP!Drop(b, k)
<1>1. b \in Seq(S) /\ Len(b) = n /\ \A i \in 1..n : b[i] = x
  BY DEF Bytes
<1> HIDE DEF b
<1>2. d \in Seq(S) /\ Len(d) = n - k /\ \A i \in 1..(n - k) : d[i] = b[k + i]
  BY <1>1, QP!DropType
<1> HIDE DEF d
<1>3. \A i \in 1..(n - k) : d[i] = x
  <2>1. \A i \in 1..(n - k) : k + i \in 1..n
    OBVIOUS
  <2> QED BY <1>1, <1>2, <2>1
<1>4. d = [i \in 1..(n - k) |-> x]
  BY <1>2, <1>3
<1> QED BY <1>4 DEF d, b, Bytes

\* Only the records of the writes count.
LEMMA DebtSame ==
  ASSUME NEW S, NEW o \in Seq(S), NEW r, NEW t,
         \A id \in SeqSet(o) : r[id].remaining = t[id].remaining
  PROVE  Debt(o, r) = Debt(o, t)
<1>1. \A i \in 1..Len(o) : o[i] \in SeqSet(o)
  BY DEF SeqSet
<1>2. Share(o, r) = Share(o, t)
  BY <1>1 DEF Share
<1> QED BY <1>2 DEF Debt

\* The bytes of a new write come last.
LEMMA DebtAppend ==
  ASSUME NEW S, NEW o \in Seq(S), NEW x \in S, NEW r, Counted(o, r), r[x].remaining \in Nat
  PROVE  Debt(Append(o, x), r) = Debt(o, r) \o Bytes(x, r[x].remaining)
<1> DEFINE b == Bytes(x, r[x].remaining)
<1>1. Share(o, r) \in Seq(Seq(S)) /\ Len(Share(o, r)) = Len(o) /\ Len(o) \in Nat
  BY ShareType
<1>2. b \in Seq(S)
  BY DEF Bytes
<1>3. Share(Append(o, x), r) = Append(Share(o, r), b)
  <2>1. /\ Len(Append(o, x)) = Len(o) + 1 /\ Append(o, x)[Len(o) + 1] = x
        /\ \A i \in 1..Len(o) : Append(o, x)[i] = o[i]
    BY AppendAt
  <2> HIDE DEF b
  <2>2. Append(Share(o, r), b) = [i \in 1..(Len(o) + 1) |-> IF i = Len(o) + 1 THEN b ELSE Share(o, r)[i]]
    <3> DEFINE X == Seq(S)
               s == Share(o, r)
    <3>1. s \in Seq(X) /\ Len(s) = Len(o) /\ b \in X
      BY <1>1, <1>2
    <3> HIDE DEF X, s
    <3> DEFINE w == Append(s, b)
    <3>2. /\ DOMAIN w = 1..(Len(s) + 1) /\ w \in Seq(X)
          /\ w[Len(s) + 1] = b /\ \A i \in 1..Len(s) : w[i] = s[i]
      BY <3>1, AppendAt
    <3> HIDE DEF w
    <3>3. w = [i \in 1..(Len(s) + 1) |-> w[i]]
      BY <3>2
    <3>4. \A i \in 1..(Len(s) + 1) : w[i] = IF i = Len(s) + 1 THEN b ELSE s[i]
      <4>1. \A i \in 1..(Len(s) + 1) : i = Len(s) + 1 \/ (i # Len(s) + 1 /\ i \in 1..Len(s))
        BY <3>1
      <4> QED BY <3>2, <4>1
    <3>5. w = [i \in 1..(Len(s) + 1) |-> IF i = Len(s) + 1 THEN b ELSE s[i]]
      BY <3>3, <3>4
    <3> QED BY <3>1, <3>5 DEF s, w
  <2>3. \A i \in 1..Len(o) : Share(o, r)[i] = Bytes(o[i], r[o[i]].remaining)
    BY DEF Share
  <2>4. Share(Append(o, x), r) = [i \in 1..(Len(o) + 1) |-> Bytes(Append(o, x)[i], r[Append(o, x)[i]].remaining)]
    BY <2>1 DEF Share
  <2>5. \A i \in 1..(Len(o) + 1) : Bytes(Append(o, x)[i], r[Append(o, x)[i]].remaining)
                                     = IF i = Len(o) + 1 THEN b ELSE Share(o, r)[i]
    <3> SUFFICES ASSUME NEW i \in 1..(Len(o) + 1)
                 PROVE  Bytes(Append(o, x)[i], r[Append(o, x)[i]].remaining)
                                     = IF i = Len(o) + 1 THEN b ELSE Share(o, r)[i]
      OBVIOUS
    <3>1. i = Len(o) + 1 \/ (i # Len(o) + 1 /\ i \in 1..Len(o))
      BY <1>1
    <3> QED BY <2>1, <2>3, <3>1 DEF b
  <2> QED BY <2>2, <2>4, <2>5
<1> HIDE DEF b
<1>4. QP!FlattenSeq(Append(Share(o, r), b)) = QP!FlattenSeq(Share(o, r)) \o b
  BY <1>1, <1>2, QP!FlattenAppend
<1> QED BY <1>3, <1>4 DEF Debt, b

\* The bytes of the oldest write come first.
LEMMA DebtFirst ==
  ASSUME NEW S, NEW o \in Seq(S), o # <<>>, NEW r, Counted(o, r)
  PROVE  /\ Debt(o, r) = Bytes(Head(o), r[Head(o)].remaining) \o Debt(Tail(o), r)
         /\ Counted(Tail(o), r) /\ r[Head(o)].remaining \in Nat
<1> DEFINE x == Head(o)
           p == Tail(o)
           b == Bytes(x, r[x].remaining)
           s == Share(o, r)
           t == Share(p, r)
<1>1. /\ p \in Seq(S) /\ Len(o) \in Nat \ {0} /\ Len(p) = Len(o) - 1
      /\ \A i \in 1..(Len(o) - 1) : p[i] = o[i + 1]
      /\ x = o[1] /\ x \in S
  BY TailAt
<1>2. Counted(p, r) /\ r[x].remaining \in Nat
  <2>1. 1 \in 1..Len(o) /\ \A i \in 1..(Len(o) - 1) : i + 1 \in 1..Len(o)
    BY <1>1
  <2> HIDE DEF p, x
  <2> QED BY <1>1, <2>1 DEF Counted
<1>3. b \in Seq(S)
  <2> HIDE DEF x
  <2> QED BY <1>1, <1>2 DEF Bytes
<1>4. s \in Seq(Seq(S)) /\ Len(s) = Len(o) /\ t \in Seq(Seq(S)) /\ Len(t) = Len(o) - 1
  BY <1>1, <1>2, ShareType
<1>5. s = <<b>> \o t
  <2>1. s[1] = b /\ \A i \in 1..(Len(o) - 1) : s[i + 1] = t[i]
    <3>1. 1 \in 1..Len(o) /\ \A i \in 1..(Len(o) - 1) : i + 1 \in 1..Len(o)
      BY <1>1
    <3>2. \A i \in 1..Len(o) : s[i] = Bytes(o[i], r[o[i]].remaining)
      BY DEF Share
    <3>3. \A i \in 1..(Len(o) - 1) : t[i] = Bytes(p[i], r[p[i]].remaining)
      BY <1>1 DEF Share
    <3> HIDE DEF s, t, p, x
    <3> QED BY <1>1, <3>1, <3>2, <3>3 DEF b
  <2> HIDE DEF s, t, b
  <2> DEFINE X == Seq(S)
             u == <<b>> \o t
  <2>2. s \in Seq(X) /\ t \in Seq(X) /\ b \in X /\ Len(t) \in Nat /\ Len(s) = Len(t) + 1
    BY <1>1, <1>3, <1>4
  <2> HIDE DEF X
  <2>3. u \in Seq(X) /\ Len(u) = Len(t) + 1 /\ u[1] = b
        /\ \A i \in 1..Len(t) : u[i + 1] = t[i]
    <3>1. <<b>> \in Seq(X) /\ Len(<<b>>) = 1 /\ <<b>>[1] = b
      BY <2>2
    <3>2. u \in Seq(X) /\ Len(u) = Len(t) + 1
      BY <2>2, <3>1
    <3>3. u[1] = b
      BY <2>2, <3>1
    <3>4. \A i \in 1..Len(t) : u[i + 1] = t[i]
      BY <2>2, <3>1
    <3> QED BY <3>2, <3>3, <3>4
  <2>4. \A i \in 1..(Len(t) + 1) : s[i] = u[i]
    <3> SUFFICES ASSUME NEW i \in 1..(Len(t) + 1) PROVE s[i] = u[i]
      OBVIOUS
    <3> HIDE DEF u
    <3>1. CASE i = 1
      BY <2>1, <2>3, <3>1
    <3>2. CASE i # 1
      <4>1. i - 1 \in 1..Len(t) /\ i - 1 \in 1..(Len(o) - 1) /\ (i - 1) + 1 = i
        BY <1>4, <2>2, <3>2
      <4>2. s[(i - 1) + 1] = t[i - 1] /\ u[(i - 1) + 1] = t[i - 1]
        BY <2>1, <2>3, <4>1
      <4> QED BY <4>1, <4>2
    <3> QED BY <3>1, <3>2
  <2> HIDE DEF u
  <2>5. s = u
    BY <2>2, <2>3, <2>4
  <2> QED BY <2>5 DEF u
<1> HIDE DEF s, t, b
<1>6. <<b>> \in Seq(Seq(S)) /\ QP!FlattenSeq(<<b>>) = b
  BY <1>3, QP!FlattenOne
<1>7. QP!FlattenSeq(<<b>> \o t) = QP!FlattenSeq(<<b>>) \o QP!FlattenSeq(t)
  BY <1>4, <1>6, QP!FlattenConcat
<1> QED BY <1>2, <1>5, <1>6, <1>7 DEF Debt, s, t, b

\* Owed is the debt of the writes in m_ops.
LEMMA OwedIs ==
  ASSUME ops \in Seq(OpId), Counted(ops, rec)
  PROVE  Owed = Debt(ops, rec)
<1> DEFINE N == Len(ops)
           s == Share(ops, rec)
           Is(f) == f = [i \in 0..Len(ops) |->
                           IF i = 0 THEN <<>>
                           ELSE f[i - 1] \o [k \in 1..rec[ops[i]].remaining |-> ops[i]]]
           owed == CHOOSE f : Is(f)
<1>1. s \in Seq(Seq(OpId)) /\ Len(s) = N /\ N \in Nat
  BY ShareType
<1>2. \A i \in 1..N : s[i] = [k \in 1..rec[ops[i]].remaining |-> ops[i]]
  BY DEF Share, Bytes
<1>3. PICK F : QP!Flattens(s, F, OpId)
  <2> HIDE DEF s
  <2> QED BY <1>1, QP!FlattensExists
<1>4. F \in [0..N -> Seq(OpId)] /\ F[0] = <<>> /\ \A i \in 1..N : F[i] = F[i - 1] \o s[i]
  BY <1>1, <1>3 DEF QP!Flattens
<1>5. Is(F)
  <2>1. \A i \in 0..N : F[i] = IF i = 0 THEN <<>>
                                ELSE F[i - 1] \o [k \in 1..rec[ops[i]].remaining |-> ops[i]]
    <3> HIDE DEF s
    <3> SUFFICES ASSUME NEW i \in 0..N
                 PROVE  F[i] = IF i = 0 THEN <<>>
                                ELSE F[i - 1] \o [k \in 1..rec[ops[i]].remaining |-> ops[i]]
      OBVIOUS
    <3>1. i = 0 \/ (i # 0 /\ i \in 1..N)
      BY <1>1
    <3> QED BY <1>2, <1>4, <3>1
  <2> QED BY <1>4, <2>1
<1>6. Is(owed)
  <2> HIDE DEF Is
  <2> QED BY <1>5
<1>7. Owed = owed[N]
  BY DEF Owed
<1>8. owed[0] = <<>> /\ \A i \in 1..N : owed[i] = owed[i - 1] \o s[i]
  <2> HIDE DEF owed
  <2>1. owed = [i \in 0..N |-> IF i = 0 THEN <<>>
                                ELSE owed[i - 1] \o [k \in 1..rec[ops[i]].remaining |-> ops[i]]]
    BY <1>6
  <2> HIDE DEF Is, s
  <2>2. 0 \in 0..N /\ \A i \in 1..N : i \in 0..N /\ i # 0
    BY <1>1
  <2> HIDE DEF N
  <2>3. \A i \in 0..N : owed[i] = IF i = 0 THEN <<>>
                                ELSE owed[i - 1] \o [k \in 1..rec[ops[i]].remaining |-> ops[i]]
    BY <2>1
  <2>4. owed[0] = <<>>
    BY <2>2, <2>3
  <2>5. ASSUME NEW i \in 1..N PROVE owed[i] = owed[i - 1] \o s[i]
    <3>1. s[i] = [k \in 1..rec[ops[i]].remaining |-> ops[i]]
      BY <1>2
    <3>2. i \in 0..N /\ i # 0
      BY <2>2
    <3>3. owed[i] = owed[i - 1] \o [k \in 1..rec[ops[i]].remaining |-> ops[i]]
      BY <2>3, <3>2
    <3> QED BY <3>1, <3>3
  <2> QED BY <2>4, <2>5
<1> HIDE DEF owed, Is, s, N
<1> DEFINE P == {n \in Nat : n <= N => owed[n] = F[n]}
<1>9. 0 \in P
  BY <1>4, <1>8
<1>10. ASSUME NEW n \in P, n \in Nat PROVE n + 1 \in P
  <2> SUFFICES ASSUME n + 1 <= N PROVE owed[n + 1] = F[n + 1]
    BY <1>10
  <2>1. n + 1 \in 1..N /\ (n + 1) - 1 = n /\ owed[n] = F[n]
    BY <1>1, <1>10
  <2> QED BY <1>4, <1>8, <2>1
<1>11. Nat \subseteq P
  <2> HIDE DEF P
  <2> QED BY <1>9, <1>10, QP!SetInduction
<1>12. owed[N] = F[N]
  <2>1. N \in P
    BY <1>1, <1>11
  <2> QED BY <1>1, <2>1
<1>13. QP!FlattenSeq(s) = F[Len(s)]
  BY <1>1, <1>3, QP!FlattenIs
<1> QED BY <1>1, <1>7, <1>12, <1>13 DEF Debt, s

-----------------------------------------------------------------------------
(***************************************************************************)
(* Attribution.  Between a send and its attribution the queue is ahead of  *)
(* the records by the bytes pump.left; while writes are settled the queue  *)
(* waits to be emptied.  Every overflow segment ends with a write of its   *)
(* own, so there are never more of them than unfinished writes.            *)
(***************************************************************************)
EndsDistinct ==
  \A i, j \in 1..Len(queue.spill) :
    QP!EndOf(queue.spill[i]) = QP!EndOf(queue.spill[j]) => i = j

QueueGood == QP!QueueFine(queue) /\ EndsDistinct

Behind == pump.left \in 0..Len(Owed) /\ Q!Content(queue) = QP!Drop(Owed, pump.left)
Even == Q!Content(queue) = Owed
Attributed == /\ opc = "attribute" => Behind
              /\ opc \notin {"attribute", "fail", "settle"} => Even

WriteInv == QueueGood /\ Attributed

LEMMA OwedFacts ==
  TypeOK => /\ Counted(ops, rec) /\ Owed = Debt(ops, rec)
            /\ Owed \in Seq(SeqSet(ops)) /\ Owed \in Seq(OpId)
<1> SUFFICES ASSUME TypeOK PROVE /\ Counted(ops, rec) /\ Owed = Debt(ops, rec)
                                 /\ Owed \in Seq(SeqSet(ops)) /\ Owed \in Seq(OpId)
  OBVIOUS
<1>1. ops \in Seq(OpId) /\ rec \in [OpId -> RecordType]
  BY DEF TypeOK
<1>2. Counted(ops, rec)
  <2> SUFFICES ASSUME NEW i \in 1..Len(ops) PROVE rec[ops[i]].remaining \in Nat
    BY DEF Counted
  <2>1. rec[ops[i]] \in RecordType
    BY <1>1
  <2> QED BY <2>1 DEF RecordType
<1> QED BY <1>1, <1>2, OwedIs, DebtType

\* m_queue's sizes are numbers and measure its content.
LEMMA QueueSizes ==
  ASSUME QP!QueueFine(queue)
  PROVE  /\ queue.size \in Nat /\ queue.listBytes \in Nat /\ Q!TotalBytes \in Nat
         /\ Q!TotalBytes = queue.size + queue.listBytes
         /\ Q!Content(queue) \in Seq(OpId) /\ Len(Q!Content(queue)) = Q!TotalBytes
<1>1. /\ queue.size \in Nat /\ queue.spill \in Seq(Seq(OpId))
      /\ queue.listBytes = Len(QP!FlattenSeq(queue.spill))
  BY DEF QP!QueueFine, QP!RingFine, QP!SpillFine
<1>2. QP!FlattenSeq(queue.spill) \in Seq(OpId)
  BY <1>1, QP!FlattenType
<1>3. queue.listBytes \in Nat
  BY <1>1, <1>2
<1>4. QP!Content(queue) \in Seq(OpId) /\ Len(QP!Content(queue)) = queue.size + queue.listBytes
  BY QP!ContentParts DEF QP!QueueFine
<1> QED BY <1>1, <1>3, <1>4, SameQueue DEF Q!TotalBytes

\* An overflow segment ends with an unfinished write.
LEMMA EndsOwed ==
  ASSUME TypeOK, QueueGood, Even, NEW i \in 1..Len(queue.spill)
  PROVE  QP!EndOf(queue.spill[i]) \in SeqSet(ops)
<1>1. queue.spill \in Seq(Seq(OpId)) /\ i \in DOMAIN queue.spill
  BY DEF QueueGood, QP!QueueFine, QP!SpillFine
<1>2. \E k \in DOMAIN QP!Content(queue) : QP!Content(queue)[k] = QP!EndOf(queue.spill[i])
  BY <1>1, QP!EndsAreContent DEF QueueGood
<1>3. Owed \in Seq(SeqSet(ops)) /\ QP!Content(queue) = Owed
  BY OwedFacts, SameQueue DEF Even
<1> QED BY <1>2, <1>3

LEMMA SpillFits ==
  ASSUME TypeOK, QueueGood, Even
  PROVE  Len(queue.spill) \in Nat /\ Len(queue.spill) <= Len(ops)
<1> DEFINE m == Len(queue.spill)
           n == Len(ops)
           e(i) == QP!EndOf(queue.spill[i])
           f == [i \in 1..m |-> CHOOSE k \in 1..n : ops[k] = e(i)]
<1>1. m \in Nat /\ n \in Nat /\ DOMAIN ops = 1..n
  BY DEF QueueGood, QP!QueueFine, QP!SpillFine, TypeOK
<1>2. \A i \in 1..m : \E k \in 1..n : ops[k] = e(i)
  BY <1>1, EndsOwed DEF SeqSet
<1>3. \A i, j \in 1..m : e(i) = e(j) => i = j
  BY DEF QueueGood, EndsDistinct
<1> HIDE DEF m, n, e
<1>4. \A i \in 1..m : f[i] \in 1..n /\ ops[f[i]] = e(i)
  <2> SUFFICES ASSUME NEW i \in 1..m PROVE f[i] \in 1..n /\ ops[f[i]] = e(i)
    OBVIOUS
  <2>1. f[i] = CHOOSE k \in 1..n : ops[k] = e(i)
    OBVIOUS
  <2> QED BY <1>2, <2>1
<1>5. f \in [1..m -> 1..n]
  BY <1>4
<1> HIDE DEF f
<1>6. f \in Injection(1..m, 1..n)
  BY <1>3, <1>4, <1>5 DEF Injection, IsInjective
<1>7. /\ IsFiniteSet(1..n) /\ Cardinality(1..n) = IF 1 > n THEN 0 ELSE n - 1 + 1
      /\ Cardinality(1..m) = IF 1 > m THEN 0 ELSE m - 1 + 1
  BY <1>1, FS_Interval
<1>8. Cardinality(1..m) <= Cardinality(1..n)
  BY <1>6, <1>7, FS_Injection
<1> QED BY <1>1, <1>7, <1>8 DEF m, n

\* The limits AcceptWrite tests are enough for OutboundQueue::Append.
LEMMA AppendTaken ==
  ASSUME TypeOK, QueueGood, Even, ~OpsFull, NEW n \in Sizes \ {0}, ~BytesFull(n)
  PROVE  Q!AppendAccepted([i \in 1..n |-> nextOp])
<1> DEFINE data == [i \in 1..n |-> nextOp]
<1>1. /\ n \in Nat \ {0} /\ OutboundMax \in Nat /\ MaxOps \in Nat /\ RingCap \in Nat \ {0}
  BY StateConstants
<1>2. Len(data) = n
  <2>1. DOMAIN data = 1..n
    OBVIOUS
  <2> QED BY <1>1
<1>3. Q!TotalBytes \in Nat
  BY QueueSizes DEF QueueGood
<1>4. n <= OutboundMax - Q!TotalBytes /\ OutboundMax # 0
  BY <1>1, <1>3 DEF BytesFull
<1>5. /\ Len(queue.spill) \in Nat /\ Len(queue.spill) < MaxOps /\ MaxOps # 0
  <2>1. Len(ops) \in Nat /\ Len(pending) \in Nat
    BY DEF TypeOK
  <2> QED BY <1>1, <2>1, SpillFits DEF OpsFull
<1>6. Q!GeometryValid
  BY <1>1, <1>4, <1>5 DEF Q!GeometryValid, Smaller
<1> HIDE DEF data
<1> QED BY <1>2, <1>4, <1>5, <1>6 DEF Q!AppendAccepted, data

-----------------------------------------------------------------------------
\* A step that leaves the queue, m_ops and what is missing of its writes alone.
LEMMA WriteUntouched ==
  ASSUME TypeOK, TypeOK', WriteInv, UNCHANGED <<ops, queue>>,
         \A id \in SeqSet(ops) : rec'[id].remaining = rec[id].remaining,
         opc' # opc => opc \notin {"attribute", "fail", "settle"} /\ opc' # "attribute",
         opc' = opc => pump'.left = pump.left \/ opc # "attribute"
  PROVE  WriteInv'
<1>1. Owed = Debt(ops, rec) /\ ops \in Seq(OpId)
  BY OwedFacts DEF TypeOK
<1>2. Owed' = Debt(ops, rec')
  <2>1. (TypeOK => Owed = Debt(ops, rec))'
    BY OwedFacts, PTL
  <2> QED BY <2>1
<1>3. Owed' = Owed
  BY <1>1, <1>2, DebtSame
<1>4. Q!Content(queue)' = Q!Content(queue)
  OBVIOUS
<1>5. QueueGood'
  BY DEF WriteInv, QueueGood, EndsDistinct
<1>6. Attributed'
  <2> HIDE DEF Q!Content
  <2>1. (Even => Even') /\ (pump'.left = pump.left => (Behind => Behind'))
    BY <1>3, <1>4 DEF Even, Behind
  <2> QED BY <2>1 DEF WriteInv, Attributed
<1> QED BY <1>5, <1>6 DEF WriteInv

\* What is left of the ends after bytes were sent or dropped.
LEMMA ConsumeGood ==
  ASSUME QueueGood, NEW n \in 0..Q!TotalBytes, queue' = Q!Consumed(queue, n)
  PROVE  QueueGood' /\ Q!Content(queue)' = QP!Drop(Q!Content(queue), n)
<1>1. n \in 0..(queue.size + queue.listBytes) /\ queue' = QP!Consumed(queue, n)
  BY QueueSizes, SameQueue DEF QueueGood
<1>2. QP!QueueFine(queue') /\ QP!Content(queue') = QP!Drop(QP!Content(queue), n)
  BY <1>1, QP!ConsumedContent DEF QueueGood
<1>3. QP!EndsFrom(queue.spill, queue'.spill)
  BY <1>1, QP!ConsumedEnds DEF QueueGood
<1>4. EndsDistinct'
  <2>1. Len(queue.spill) \in Nat
    BY DEF QueueGood, QP!QueueFine, QP!SpillFine
  <2>2. PICK k \in 0..Len(queue.spill) :
          /\ Len(queue'.spill) = Len(queue.spill) - k
          /\ \A i \in 1..(Len(queue.spill) - k) :
               QP!EndOf(queue'.spill[i]) = QP!EndOf(queue.spill[k + i])
    BY <1>3 DEF QP!EndsFrom
  <2> SUFFICES ASSUME NEW i \in 1..Len(queue'.spill), NEW j \in 1..Len(queue'.spill),
                      QP!EndOf(queue'.spill[i]) = QP!EndOf(queue'.spill[j])
               PROVE  i = j
    BY DEF EndsDistinct
  <2>3. k + i \in 1..Len(queue.spill) /\ k + j \in 1..Len(queue.spill)
    BY <2>1, <2>2
  <2>4. QP!EndOf(queue.spill[k + i]) = QP!EndOf(queue.spill[k + j])
    BY <2>2
  <2>5. k + i = k + j
    BY <2>3, <2>4 DEF QueueGood, EndsDistinct
  <2> QED BY <2>5
<1> QED BY <1>2, <1>4, SameQueue DEF QueueGood

\* AcceptWrite puts the bytes of the new write behind those owed already.
LEMMA WriteAccept ==
  ASSUME TypeOK, TypeOK', Books, WriteInv, NEW c \in Caller, Accept(c)
  PROVE  WriteInv'
<1> DEFINE id == nextOp
           n  == call[c].want
           data == [i \in 1..n |-> nextOp]
           Room == Q!AppendAccepted(data)
<1>1. /\ id \in OpId /\ id \notin SeqSet(ops) /\ id \in Nat
  <2>1. id \in OpId /\ id \in Nat /\ nextOp' = id + 1
    <3>1. TakeId
      BY Zenon DEF Accept
    <3> QED BY <3>1, IdTaken
  <2>2. id \notin Taken
    BY <2>1 DEF Books, FreshIds
  <2> QED BY <2>1, <2>2 DEF Books, ExactlyOnce
<1>2. n \in Nat \ {0}
  <2>1. n \in Sizes \cup {0}
    BY DEF TypeOK, CallType
  <2>2. \A m \in Sizes \cup {0} : m \in Nat
    BY StateConstants
  <2>3. n # 0
    BY Zenon DEF Accept
  <2> QED BY <2>1, <2>2, <2>3
<1>3. UNCHANGED <<opc, pump>> /\ opc \notin Locked
  BY Zenon DEF Accept, MayAccept, Free, ownerVars
<1>4. Even
  BY <1>3 DEF WriteInv, Attributed, Locked
<1>5. \/ UNCHANGED <<rec, ops, queue>>
      \/ /\ rec' = [rec EXCEPT ![id] = Record(n, FALSE)]
         /\ ops' = Append(ops, id)
         /\ queue' = Q!QueueAppended(queue, data)
  <2> HIDE DEF Room
  <2>1. IF Room
        THEN /\ rec' = [rec EXCEPT ![id] = Record(n, FALSE)]
             /\ ops' = Append(ops, id)
             /\ queue' = Q!QueueAppended(queue, data)
        ELSE UNCHANGED <<rec, ops, queue>>
    BY Zenon DEF Accept, Room
  <2> QED BY <2>1, Zenon
<1>6. CASE UNCHANGED <<rec, ops, queue>>
  BY <1>3, <1>6, WriteUntouched DEF Locked
<1>7. CASE /\ rec' = [rec EXCEPT ![id] = Record(n, FALSE)]
           /\ ops' = Append(ops, id)
           /\ queue' = Q!QueueAppended(queue, data)
  <2>1. data = Bytes(id, n) /\ data \in Seq(OpId) /\ data # <<>> /\ QP!EndOf(data) = id
    <3>1. data = Bytes(id, n)
      BY DEF Bytes
    <3>2. DOMAIN data = 1..n /\ data \in [1..n -> OpId]
      BY <1>1
    <3>3. data \in Seq(OpId) /\ Len(data) = n
      BY <1>2, <3>2
    <3>4. data[n] = id /\ data # <<>>
      BY <1>2, <3>3
    <3> HIDE DEF data
    <3> QED BY <3>1, <3>3, <3>4 DEF QP!EndOf
  <2> HIDE DEF data, n
  <2>2. queue' = QP!QueueAppended(queue, data)
    BY <1>7, SameQueue
  <2>3. QP!QueueFine(queue') /\ QP!Content(queue') = QP!Content(queue) \o data
    BY <2>1, <2>2, QP!AppendedContent DEF WriteInv, QueueGood
  <2>4. /\ Len(queue'.spill) \in Nat
        /\ \A i \in 1..Len(queue'.spill) :
             \/ i <= Len(queue.spill) /\ QP!EndOf(queue'.spill[i]) = QP!EndOf(queue.spill[i])
             \/ i = Len(queue'.spill) /\ data # <<>> /\ QP!EndOf(queue'.spill[i]) = QP!EndOf(data)
    BY <2>1, <2>2, QP!AppendedEnds DEF WriteInv, QueueGood
  <2>5. EndsDistinct'
    <3>1. Len(queue.spill) \in Nat
      BY DEF WriteInv, QueueGood, QP!QueueFine, QP!SpillFine
    <3>2. \A i \in 1..Len(queue.spill) : QP!EndOf(queue.spill[i]) # id
      BY <1>1, <1>4, EndsOwed DEF WriteInv
    <3> SUFFICES ASSUME NEW i \in 1..Len(queue'.spill), NEW j \in 1..Len(queue'.spill),
                        QP!EndOf(queue'.spill[i]) = QP!EndOf(queue'.spill[j])
                 PROVE  i = j
      BY DEF EndsDistinct
    <3>3. \A x \in 1..Len(queue'.spill) :
            \/ x \in 1..Len(queue.spill) /\ QP!EndOf(queue'.spill[x]) = QP!EndOf(queue.spill[x])
            \/ x = Len(queue'.spill) /\ QP!EndOf(queue'.spill[x]) = id
      BY <2>1, <2>4, <3>1
    <3>4. \A x, y \in 1..Len(queue.spill) :
            QP!EndOf(queue.spill[x]) = QP!EndOf(queue.spill[y]) => x = y
      BY DEF WriteInv, QueueGood, EndsDistinct
    <3>5. CASE /\ i \in 1..Len(queue.spill) /\ QP!EndOf(queue'.spill[i]) = QP!EndOf(queue.spill[i])
               /\ j \in 1..Len(queue.spill) /\ QP!EndOf(queue'.spill[j]) = QP!EndOf(queue.spill[j])
      BY <3>4, <3>5
    <3>6. CASE i = Len(queue'.spill) /\ QP!EndOf(queue'.spill[i]) = id
      BY <3>2, <3>3, <3>6
    <3>7. CASE j = Len(queue'.spill) /\ QP!EndOf(queue'.spill[j]) = id
      BY <3>2, <3>3, <3>7
    <3> QED BY <3>3, <3>5, <3>6, <3>7
  <2>6. Owed' = Debt(ops, rec) \o data
    <3>1. ops \in Seq(OpId) /\ rec \in [OpId -> RecordType] /\ Counted(ops, rec)
      BY OwedFacts DEF TypeOK
    <3>2. rec'[id].remaining = n /\ \A x \in SeqSet(ops) : rec'[x].remaining = rec[x].remaining
      <4>1. rec'[id] = Record(n, FALSE) /\ \A x \in OpId : x # id => rec'[x] = rec[x]
        BY <1>1, <1>7, <3>1
      <4>2. SeqSet(ops) \subseteq OpId
        BY <3>1 DEF SeqSet
      <4>3. Record(n, FALSE).remaining = n
        BY DEF Record
      <4>4. \A x \in SeqSet(ops) : x \in OpId /\ x # id
        BY <1>1, <4>2
      <4> HIDE DEF id
      <4> QED BY <4>1, <4>3, <4>4
    <3>3. (TypeOK => Owed = Debt(ops, rec))'
      BY OwedFacts, PTL
    <3>4. Owed' = Debt(Append(ops, id), rec')
      BY <1>7, <3>3
    <3>5. Debt(ops, rec) = Debt(ops, rec')
      BY <3>1, <3>2, DebtSame
    <3>6. Counted(ops, rec')
      BY <3>1, <3>2 DEF Counted, SeqSet
    <3>7. Debt(Append(ops, id), rec') = Debt(ops, rec') \o Bytes(id, n)
      <4>1. /\ ops \in Seq(OpId) /\ id \in OpId
            /\ rec'[id].remaining = n /\ rec'[id].remaining \in Nat
        BY <1>1, <1>2, <3>1, <3>2
      <4>2. Debt(Append(ops, id), rec') = Debt(ops, rec') \o Bytes(id, rec'[id].remaining)
        <5> DEFINE r == rec'
        <5>1. Counted(ops, r) /\ r[id].remaining \in Nat
          BY <3>6, <4>1
        <5> HIDE DEF r, id
        <5>2. Debt(Append(ops, id), r) = Debt(ops, r) \o Bytes(id, r[id].remaining)
          BY <4>1, <5>1, DebtAppend
        <5> QED BY <5>2 DEF r
      <4> HIDE DEF id, n
      <4> QED BY <4>1, <4>2
    <3> QED BY <2>1, <3>4, <3>5, <3>7
  <2>7. Even'
    <3>1. Q!Content(queue)' = QP!Content(queue')
      BY SameQueue
    <3>2. QP!Content(queue) = Debt(ops, rec)
      BY <1>4, OwedFacts, SameQueue DEF Even
    <3> QED BY <2>3, <2>6, <3>1, <3>2 DEF Even
  <2> QED BY <1>3, <2>3, <2>5, <2>7 DEF WriteInv, QueueGood, Attributed, Locked
<1> QED BY <1>5, <1>6, <1>7

LEMMA WriteCaller ==
  ASSUME TypeOK, TypeOK', Books, WriteInv, NEW c \in Caller, CallerStep(c) \/ CallerEvent(c)
  PROVE  WriteInv'
<1>1. CASE Accept(c)
  BY <1>1, WriteAccept
<1>2. CASE AcceptEmpty(c)
  <2>1. /\ rec' = [rec EXCEPT ![nextOp] = Record(0, TRUE)]
        /\ UNCHANGED <<ops, queue, opc, pump>> /\ nextOp <= MaxWrites
    BY <1>2, Zenon DEF AcceptEmpty, TakeId, ownerVars
  <2>2. nextOp \notin SeqSet(ops)
    BY DEF Books, FreshIds, ExactlyOnce, TypeOK
  <2>3. \A id \in SeqSet(ops) : rec'[id].remaining = rec[id].remaining
    <3>1. SeqSet(ops) \subseteq OpId
      BY DEF Books, ExactlyOnce, Taken
    <3> QED BY <2>1, <2>2, <3>1 DEF TypeOK
  <2> QED BY <2>1, <2>3, WriteUntouched
<1>3. CASE \/ \E k \in {"none", "capacity", "close"}, n \in Sizes \cup {0} : Call(c, k, n)
           \/ \E reason \in Reason : RequestClose(c, reason)
           \/ CheckSeal(c) \/ AcceptClosed(c) \/ AcceptRefused(c) \/ Accepted(c)
           \/ WaitOver(c) \/ Register(c) \/ Recheck(c) \/ Resume(c) \/ GiveUp(c)
  <2>1. UNCHANGED <<ops, rec, queue, opc, pump>>
    BY <1>3, Zenon DEF Call, RequestClose, CheckSeal, AcceptClosed, AcceptRefused, Accepted,
       WaitOver, Register, Recheck, Resume, GiveUp, stateVars, ownerVars
  <2> QED BY <2>1, WriteUntouched
<1> QED BY <1>1, <1>2, <1>3 DEF CallerStep, CallerEvent

\* The kernel is given what the queue holds, and takes no more.
LEMMA AllowedFits ==
  ASSUME TypeOK, QueueGood
  PROVE  \A n \in 1..Allowed : n \in 0..Q!TotalBytes
<1> DEFINE v == QP!GatherViews(MaxViews)
           q == [spill |-> v]
<1>1. v \in Seq(Seq(OpId))
  <2> DEFINE all == QP!AllViews(queue)
             X == Seq(OpId)
             k == IF Len(all) < MaxViews THEN Len(all) ELSE MaxViews
  <2>1. all \in Seq(X)
    BY QP!ViewsAreContent DEF QueueGood
  <2>2. v = SubSeq(all, 1, k)
    BY DEF QP!GatherViews
  <2> HIDE DEF all, X, v
  <2>3. Len(all) \in Nat /\ k \in 0..Len(all)
    BY <2>1, StateConstants
  <2> HIDE DEF k
  <2>4. SubSeq(all, 1, k) \in Seq(X)
    BY <2>1, <2>3
  <2> QED BY <2>2, <2>4 DEF X
<1>2. QP!IsPrefix(QP!FlattenSeq(v), QP!Content(queue))
  BY QP!GatheredIsPrefix, StateConstants DEF QueueGood
<1> HIDE DEF v
<1>3. Len(QP!FlattenSeq(v)) <= Q!TotalBytes
  <2>1. Len(QP!FlattenSeq(v)) <= Len(QP!Content(queue))
    BY <1>2 DEF QP!IsPrefix
  <2> QED BY <2>1, QueueSizes, SameQueue DEF QueueGood
<1>4. QP!SpillSizes(q, Len(v)) = Len(QP!FlattenSeq(v))
  <2>1. q.spill = v /\ Len(v) \in 0..Len(v) /\ SubSeq(v, 1, Len(v)) = v
    BY <1>1
  <2> HIDE DEF q
  <2>2. QP!SpillSizes(q, Len(v)) = Len(QP!FlattenSeq(SubSeq(q.spill, 1, Len(v))))
    BY <1>1, <2>1, QP!SizesAreLengths
  <2> QED BY <2>1, <2>2
<1>5. ViewBytes(v) = QP!SpillSizes(q, Len(v))
  <2>1. q.spill = v
    OBVIOUS
  <2> HIDE DEF q
  <2> QED BY <2>1 DEF ViewBytes, QP!SpillSizes
<1>6. Allowed = Smaller(ViewBytes(v), ByteBudget - pump.bytes)
  BY SameQueue DEF Allowed, v
<1>7. ViewBytes(v) \in Nat /\ ViewBytes(v) <= Q!TotalBytes
  <2>1. QP!FlattenSeq(v) \in Seq(OpId)
    BY <1>1, QP!FlattenType
  <2> QED BY <1>3, <1>4, <1>5, <2>1
<1>8. pump.bytes \in Nat /\ ByteBudget \in Nat /\ Q!TotalBytes \in Nat
  BY StateConstants, QueueSizes DEF TypeOK, PumpType, QueueGood
<1> QED BY <1>6, <1>7, <1>8 DEF Smaller

LEMMA WriteSend ==
  ASSUME TypeOK, TypeOK', WriteInv, NEW n \in 1..Allowed, RoundSend(n)
  PROVE  WriteInv'
<1>1. /\ queue' = Q!Consumed(queue, n) /\ UNCHANGED <<ops, rec>> /\ opc = "round"
      /\ opc' = (IF ops = <<>> THEN "round" ELSE "attribute")
      /\ pump' = [pump EXCEPT !.left = n, !.bytes = @ + n, !.freed = TRUE, !.round = @ + 1]
      /\ MoreRounds
  BY Zenon DEF RoundSend, Goto
<1>2. n \in 0..Q!TotalBytes
  BY AllowedFits DEF WriteInv
<1>3. QueueGood' /\ Q!Content(queue)' = QP!Drop(Q!Content(queue), n)
  BY <1>1, <1>2, ConsumeGood DEF WriteInv
<1>4. Even /\ Len(Owed) = Q!TotalBytes
  BY <1>1, QueueSizes DEF WriteInv, QueueGood, Attributed, Even
<1>5. pump'.left = n
  BY <1>1 DEF TypeOK, PumpType
<1>6. Owed' = Owed
  <2>1. (TypeOK => Owed = Debt(ops, rec))'
    BY OwedFacts, PTL
  <2> QED BY <1>1, <2>1, OwedFacts
<1>7. Behind'
  BY <1>2, <1>3, <1>4, <1>5, <1>6 DEF Behind, Even
<1>8. ops # <<>>
  <2> SUFFICES ASSUME ops = <<>> PROVE FALSE
    OBVIOUS
  <2>1. Owed = <<>>
    BY OwedFacts, DebtEmpty
  <2>2. Q!TotalBytes = 0
    BY <1>4, <2>1
  <2> QED BY <1>1, <2>2 DEF MoreRounds
<1> QED BY <1>1, <1>3, <1>7, <1>8 DEF WriteInv, Attributed

\* AttributeSentLocked credits the front write with the next bytes sent.
LEMMA WriteAttribute ==
  ASSUME TypeOK, TypeOK', Books, WriteInv, Attribute
  PROVE  WriteInv'
<1> DEFINE id   == Head(ops)
           rest == Tail(ops)
           left == pump.left
           R    == rec[id].remaining
           take == Smaller(left, R)
           full == take = R
           tail == Debt(rest, rec)
<1>1. ops # <<>> /\ ops \in Seq(OpId) /\ rec \in [OpId -> RecordType] /\ opc = "attribute"
  BY DEF Attribute, Books, SomethingToCredit, TypeOK
<1>2. /\ id \in OpId /\ id \in SeqSet(ops) /\ rest \in Seq(OpId)
      /\ SeqSet(rest) = SeqSet(ops) \ {id} /\ SeqSet(ops) \subseteq OpId
  BY <1>1, TailAt, SeqSetTail DEF Books, ExactlyOnce, Taken
<1>3. /\ Owed = Bytes(id, R) \o tail /\ Counted(rest, rec) /\ R \in Nat
      /\ Owed = Debt(ops, rec)
  BY <1>1, OwedFacts, DebtFirst
<1>4. tail \in Seq(OpId)
  BY <1>2, <1>3, DebtType
<1>5. Behind
  BY <1>1 DEF WriteInv, Attributed
<1>6. left \in Nat /\ take \in Nat /\ left - take \in Nat /\ R - take \in Nat /\ take <= R
  <2>1. left \in Nat
    BY DEF TypeOK, PumpType
  <2> HIDE DEF left, R
  <2> QED BY <1>3, <2>1 DEF Smaller
<1>7. /\ rec'[id].remaining = R - take
      /\ \A x \in SeqSet(rest) : rec'[x].remaining = rec[x].remaining
      /\ rec' \in [OpId -> RecordType]
  <2>1. rec' = [rec EXCEPT ![id].remaining = @ - take, ![id].sent = @ + take,
                           ![id].terminal = full]
    BY DEF Attribute
  <2>2. rec[id] \in RecordType
    BY <1>1, <1>2
  <2> HIDE DEF id, take, full, rest
  <2>3. rec'[id].remaining = rec[id].remaining - take
    BY <1>1, <1>2, <2>1, <2>2 DEF RecordType
  <2>4. \A x \in OpId : x # id => rec'[x] = rec[x]
    BY <1>1, <1>2, <2>1
  <2> QED BY <1>2, <2>3, <2>4 DEF TypeOK
<1>8. /\ ops' = IF full THEN rest ELSE ops
      /\ UNCHANGED queue
      /\ opc' = IF pump'.left # 0 /\ ops' # <<>> THEN "attribute" ELSE "round"
      /\ pump' = [pump EXCEPT !.left = @ - take, !.changed = @ \/ full]
  BY DEF Attribute, Goto
<1>9. pump'.left = left - take
  <2> HIDE DEF take, full
  <2> QED BY <1>8 DEF TypeOK, PumpType
<1>10. Q!Content(queue)' = QP!Drop(Owed, left) /\ left \in 0..Len(Owed)
  BY <1>5, <1>8 DEF Behind
<1>11. QueueGood'
  BY <1>8 DEF WriteInv, QueueGood, EndsDistinct
<1>12. (TypeOK => /\ Counted(ops, rec) /\ Owed = Debt(ops, rec)
                  /\ Owed \in Seq(SeqSet(ops)) /\ Owed \in Seq(OpId))'
  BY OwedFacts, PTL
<1>13. Owed' = Debt(ops', rec') /\ Counted(ops', rec')
  BY <1>12
<1>14. Bytes(id, R) \in Seq(OpId) /\ Len(Bytes(id, R)) = R
  <2> HIDE DEF id, R
  <2> QED BY <1>2, <1>3 DEF Bytes
<1>15. Debt(rest, rec') = tail
  BY <1>2, <1>7, DebtSame
<1> DEFINE b == Bytes(id, R)
<1>16. b \in Seq(OpId) /\ Len(b) = R /\ Owed = b \o tail /\ Len(Owed) = R + Len(tail)
  <2>1. b \in Seq(OpId) /\ Len(b) = R /\ Owed = b \o tail
    BY <1>3, <1>14
  <2> HIDE DEF b, tail, R
  <2>2. Len(b \o tail) = Len(b) + Len(tail)
    <3>1. b \in Seq(OpId)
      BY <2>1
    <3> QED BY <1>4, <3>1
  <2> QED BY <2>1, <2>2
<1>17. CASE full
  <2>1. Owed' = tail /\ left >= R /\ take = R /\ left - R \in 0..Len(tail)
    <3>1. Owed' = tail
      BY <1>8, <1>13, <1>15, <1>17
    <3>2. take = R /\ left >= R
      <4> HIDE DEF R, left
      <4> QED BY <1>3, <1>6, <1>17 DEF Smaller
    <3> HIDE DEF tail, left, R, take, b
    <3> QED BY <1>3, <1>4, <1>6, <1>10, <1>16, <3>1, <3>2
  <2> DEFINE m == left - R
  <2> HIDE DEF b, tail, left, R, take
  <2>2. QP!Drop(b \o tail, Len(b) + m) = QP!Drop(tail, m)
    <3>1. m \in 0..Len(tail)
      BY <2>1
    <3> HIDE DEF m
    <3> QED BY <1>4, <1>16, <3>1, QP!DropInSecond
  <2>3. Len(b) + m = left
    BY <1>3, <1>6, <1>16
  <2>4. Q!Content(queue)' = QP!Drop(Owed', pump'.left) /\ pump'.left = m
    BY <1>9, <1>10, <1>16, <2>1, <2>2, <2>3
  <2>5. Behind'
    BY <2>1, <2>4 DEF Behind
  <2>6. opc' # "attribute" => Even'
    <3> SUFFICES ASSUME opc' # "attribute" PROVE Even'
      OBVIOUS
    <3>1. pump'.left = 0 \/ ops' = <<>>
      BY <1>8
    <3>2. CASE pump'.left = 0
      <4>1. QP!Drop(Owed', 0) = Owed'
        BY <1>4, <2>1, QP!DropNothing
      <4> QED BY <2>4, <3>2, <4>1 DEF Even
    <3>3. CASE ops' = <<>>
      <4>1. Owed' = <<>>
        BY <1>13, <3>3, DebtEmpty
      <4>2. pump'.left = 0
        BY <2>1, <2>4, <4>1
      <4> QED BY <3>2, <4>2
    <3> QED BY <3>1, <3>2, <3>3
  <2> QED BY <1>11, <2>5, <2>6 DEF WriteInv, Attributed
<1>18. CASE ~full
  <2>1. take = left /\ left <= R /\ pump'.left = 0 /\ opc' = "round" /\ ops' = ops
    <3>1. take = left /\ left <= R
      <4> HIDE DEF R, left
      <4> QED BY <1>3, <1>6, <1>18 DEF Smaller
    <3>2. ops' = ops
      BY <1>8, <1>18
    <3> HIDE DEF take, left
    <3>3. pump'.left = 0
      BY <1>6, <1>9, <3>1
    <3> QED BY <1>8, <3>1, <3>2, <3>3
  <2>2. Owed' = Bytes(id, R - left) \o tail
    <3>1. Debt(ops, rec') = Bytes(id, rec'[id].remaining) \o Debt(rest, rec')
      <4>1. Counted(ops, rec')
        BY <1>13, <2>1
      <4> QED BY <1>1, <4>1, DebtFirst
    <3> HIDE DEF id, rest, tail, R, take, left
    <3> QED BY <1>7, <1>13, <1>15, <2>1, <3>1
  <2>3. QP!Drop(b \o tail, left) = QP!Drop(b, left) \o tail
    <3>1. left \in 0..Len(b)
      <4> HIDE DEF b, left, R, take
      <4> QED BY <1>3, <1>6, <1>16, <2>1
    <3> HIDE DEF b, left, tail
    <3> QED BY <1>4, <1>16, <3>1, QP!DropInFirst
  <2>4. QP!Drop(b, left) = Bytes(id, R - left)
    <3> HIDE DEF id, R, left, take
    <3>1. left \in 0..R
      BY <1>3, <1>6, <2>1
    <3> QED BY <1>2, <1>3, <3>1, CutBytes
  <2>5. Even'
    <3> HIDE DEF b, tail, left, R, id
    <3> QED BY <1>10, <1>16, <2>2, <2>3, <2>4 DEF Even
  <2> QED BY <1>11, <2>1, <2>5 DEF WriteInv, Attributed
<1> HIDE DEF full
<1> QED BY <1>17, <1>18

\* All writes settled: the queue is emptied.
LEMMA WriteEmptied ==
  ASSUME TypeOK, TypeOK', WriteInv, Failed \/ Settled
  PROVE  WriteInv'
<1>1. /\ queue' = Q!Consumed(queue, Q!TotalBytes) /\ UNCHANGED <<ops, rec>> /\ ops = <<>>
      /\ opc' # "attribute"
  BY DEF Failed, Settled, Goto
<1>2. Q!TotalBytes \in Nat /\ Q!Content(queue) \in Seq(OpId) /\ Len(Q!Content(queue)) = Q!TotalBytes
  BY QueueSizes DEF WriteInv, QueueGood
<1>3. QueueGood' /\ Q!Content(queue)' = QP!Drop(Q!Content(queue), Q!TotalBytes)
  BY <1>1, <1>2, ConsumeGood DEF WriteInv
<1>4. QP!Drop(Q!Content(queue), Q!TotalBytes) = <<>>
  <2> DEFINE z == Q!Content(queue)
             k == Q!TotalBytes
  <2> HIDE DEF z, k
  <2>1. QP!Drop(z, k) \in Seq(OpId) /\ Len(QP!Drop(z, k)) = 0
    <3>1. z \in Seq(OpId) /\ k \in 0..Len(z) /\ Len(z) - k = 0
      BY <1>2 DEF z, k
    <3> QED BY <3>1, QP!DropType
  <2>2. QP!Drop(z, k) = <<>>
    BY <2>1
  <2> QED BY <2>2 DEF z, k
<1>5. Owed' = <<>>
  <2>1. (TypeOK => Owed = Debt(ops, rec))'
    BY OwedFacts, PTL
  <2> QED BY <1>1, <2>1, DebtEmpty
<1> QED BY <1>1, <1>3, <1>4, <1>5 DEF WriteInv, Attributed, Even

LEMMA WriteOwner ==
  ASSUME TypeOK, TypeOK', Books, WriteInv,
         PumpOwner \/ WriteReady \/ OwnerStep \/ Seal \/ SealOnOwner \/ CancelControl
  PROVE  WriteInv'
<1>1. CASE \E n \in 1..Allowed : RoundSend(n)
  BY <1>1, WriteSend
<1>2. CASE Attribute
  BY <1>2, WriteAttribute
<1>3. CASE Failed \/ Settled
  BY <1>3, WriteEmptied
<1>4. CASE FailOne \/ SettleOne
  <2>1. UNCHANGED <<queue, opc>> /\ opc \in {"fail", "settle"}
    BY <1>4 DEF FailOne, SettleOne, ownerRest
  <2> QED BY <2>1 DEF WriteInv, QueueGood, EndsDistinct, Attributed
<1>5. CASE \/ RoundAgain \/ RoundInterrupted \/ RoundsOver \/ RoundFail
           \/ PumpOwner \/ WriteReady \/ PumpNotify \/ Deliver \/ PopNotify \/ DeliverDone \/ Arm
           \/ MarkClosed \/ PublishReadClosed \/ Announce \/ OnClose
           \/ Seal \/ SealOnOwner \/ CancelControl
  <2>1. UNCHANGED <<ops, rec, queue>>
    BY <1>5, Zenon DEF RoundAgain, RoundInterrupted, RoundsOver, RoundFail, PumpOwner, WriteReady,
       PumpNotify, Deliver, PopNotify, DeliverDone, Arm, MarkClosed, PublishReadClosed, Announce,
       OnClose, Seal, SealOnOwner, CancelControl, stateVars
  <2>2. \/ opc \notin {"attribute", "fail", "settle"} /\ opc' # "attribute"
        \/ UNCHANGED <<opc, pump>>
    BY <1>5 DEF RoundAgain, RoundInterrupted, RoundsOver, RoundFail, PumpOwner, WriteReady,
       PumpNotify, Deliver, PopNotify, DeliverDone, Arm, MarkClosed, PublishReadClosed, Announce,
       OnClose, Seal, SealOnOwner, CancelControl, UnlockPump, StartPump, Shutdown, Goto, ownerVars
  <2> QED BY <2>1, <2>2, WriteUntouched
<1> QED BY <1>1, <1>2, <1>3, <1>4, <1>5 DEF OwnerStep, Round

LEMMA WriteInit == Init => WriteInv
<1> SUFFICES ASSUME Init PROVE WriteInv
  OBVIOUS
<1>1. /\ ops = <<>> /\ opc = "idle" /\ TypeOK /\ Q!QueueInit
  BY TypeInit DEF Init
<1>2. PICK n \in Nat : queue = QP!EmptyQueue(n)
  BY <1>1, SameQueue, StateConstants DEF Q!QueueInit, Smaller
<1>3. QP!QueueFine(queue) /\ QP!Content(queue) = <<>> /\ queue.spill = <<>>
  BY <1>2, QP!EmptyIsFine DEF QP!EmptyQueue
<1>4. Owed = <<>>
  BY <1>1, OwedFacts, DebtEmpty
<1>5. EndsDistinct
  BY <1>3 DEF EndsDistinct
<1> QED BY <1>1, <1>3, <1>4, <1>5, SameQueue DEF WriteInv, QueueGood, Attributed, Even

-----------------------------------------------------------------------------
(***************************************************************************)
(* The end of a connection: MarkClosed, the completions, OnClose.          *)
(***************************************************************************)
EndKept ==
  /\ ringClosed => opc \in {"deliver", "popped", "onclose"} \/ (ownerClosed /\ opc = "idle")
  /\ ownerClosed => ringClosed /\ opc = "idle"
  /\ opc = "onclose" => ringClosed /\ pending = <<>>
  /\ ringClosed \/ opc \in {"settle", "publish", "announce"} => ~writeWaiting /\ closeRequested
  /\ ringClosed \/ opc \in {"publish", "announce"} => acceptance = "Closed" /\ ops = <<>>
  /\ onClose # <<>> => /\ ownerClosed /\ pending = <<>>
                       /\ Len(onClose) = 1 /\ onClose[1] = closeReason

LEMMA EndCaller ==
  ASSUME TypeOK, EndKept, NEW c \in Caller, CallerStep(c) \/ CallerEvent(c)
  PROVE  EndKept'
<1>1. CASE Accept(c) \/ AcceptEmpty(c)
  <2>1. acceptance = "Open" /\ UNCHANGED <<closeVars, ownerVars>>
    BY <1>1, Zenon DEF Accept, AcceptEmpty
  <2>2. ~ringClosed /\ ~ownerClosed /\ onClose = <<>> /\ opc \notin {"publish", "announce", "onclose"}
    BY <2>1 DEF EndKept
  <2> QED BY <2>1, <2>2 DEF EndKept, closeVars, ownerVars
<1>2. CASE \E reason \in Reason : RequestClose(c, reason)
  BY <1>2 DEF RequestClose, EndKept, stateVars, ownerVars
<1>3. CASE \/ \E k \in {"none", "capacity", "close"}, n \in Sizes \cup {0} : Call(c, k, n)
           \/ CheckSeal(c) \/ AcceptClosed(c) \/ AcceptRefused(c) \/ Accepted(c)
           \/ WaitOver(c) \/ Register(c) \/ Recheck(c) \/ Resume(c) \/ GiveUp(c)
  <2>1. UNCHANGED <<stateVars, closeVars, ownerVars>>
    BY <1>3, Zenon DEF Call, CheckSeal, AcceptClosed, AcceptRefused, Accepted,
       WaitOver, Register, Recheck, Resume, GiveUp
  <2> QED BY <2>1 DEF EndKept, stateVars, closeVars, ownerVars
<1> QED BY <1>1, <1>2, <1>3 DEF CallerStep, CallerEvent

LEMMA EndOwner ==
  ASSUME TypeOK, EndKept,
         PumpOwner \/ WriteReady \/ OwnerStep \/ Seal \/ SealOnOwner \/ CancelControl
  PROVE  EndKept'
<1>1. CASE PumpOwner
  BY <1>1 DEF PumpOwner, Shutdown, StartPump, Goto, EndKept, stateVars, closeVars
<1>2. CASE WriteReady
  BY <1>2 DEF WriteReady, Shutdown, StartPump, Goto, EndKept, stateVars, closeVars
<1>3. CASE Round \/ Attribute \/ FailOne \/ Failed
  <2>1. /\ opc \in {"round", "attribute", "fail"} /\ opc' \in {"round", "attribute", "fail", "notify"}
        /\ UNCHANGED ownerRest
    BY <1>3, Zenon DEF Round, RoundSend, RoundAgain, RoundInterrupted, RoundFail, RoundsOver,
       UnlockPump, Attribute, FailOne, Failed, Goto
  <2>2. ~ringClosed /\ ~ownerClosed /\ onClose = <<>>
    BY <2>1 DEF EndKept
  <2> QED BY <2>1, <2>2 DEF EndKept, ownerRest
<1>4. CASE PumpNotify
  BY <1>4 DEF PumpNotify, Goto, EndKept, stateVars, closeVars, ownerRest
<1>5. CASE Deliver
  BY <1>5 DEF Deliver, Goto, EndKept, closeVars
<1>6. CASE PopNotify \/ DeliverDone
  BY <1>6 DEF PopNotify, DeliverDone, Goto, EndKept, stateVars, closeVars, ownerRest
<1>7. CASE Arm
  BY <1>7 DEF Arm, Goto, EndKept, stateVars, closeVars
<1>8. CASE MarkClosed
  BY <1>8 DEF MarkClosed, Goto, EndKept
<1>9. CASE SettleOne \/ Settled
  <2>1. ~ringClosed /\ ~ownerClosed /\ onClose = <<>>
    BY <1>9 DEF SettleOne, Settled, EndKept
  <2>2. CASE SettleOne
    BY <2>1, <2>2 DEF SettleOne, EndKept, closeVars, ownerRest
  <2>3. CASE Settled
    BY <2>1, <2>3 DEF Settled, Goto, EndKept, ownerRest
  <2> QED BY <1>9, <2>2, <2>3
<1>10. CASE PublishReadClosed \/ Announce
  BY <1>10 DEF PublishReadClosed, Announce, Goto, EndKept, stateVars, closeVars, ownerRest
<1>11. CASE OnClose
  <2>1. opc = "onclose" /\ ringClosed /\ pending = <<>> /\ ~ownerClosed /\ onClose = <<>>
    BY <1>11 DEF OnClose, EndKept
  <2>2. onClose' = <<closeReason>>
    BY <1>11, <2>1 DEF OnClose
  <2> QED BY <1>11, <2>1, <2>2 DEF OnClose, Goto, EndKept, stateVars, closeVars
<1>12. CASE Seal
  BY <1>12 DEF Seal, EndKept, stateVars, closeVars, ownerVars
<1>13. CASE SealOnOwner \/ CancelControl
  BY <1>13 DEF SealOnOwner, CancelControl, Shutdown, Goto, EndKept, stateVars, closeVars
<1> QED
  BY <1>1, <1>2, <1>3, <1>4, <1>5, <1>6, <1>7, <1>8, <1>9, <1>10, <1>11, <1>12, <1>13
     DEF OwnerStep

-----------------------------------------------------------------------------
(***************************************************************************)
(* Whatever is owed has somebody on its way to wake the owner for it.      *)
(***************************************************************************)
Waking == dirty \/ sealed \/ \E c \in Caller : call[c].pc = "wake"

Closing == {"shutdown", "settle", "publish", "announce", "onclose"}

TurnKept ==
  /\ closeRequested /\ ~ringClosed /\ opc \notin Closing => Waking
  /\ opc \in {"arm", "idle"} /\ pending # <<>> /\ ~ownerClosed => Waking
  /\ opc = "idle" /\ ops # <<>> /\ ~ownerClosed => Waking \/ writeWaiting
  /\ opc = "attribute" => pump.freed

\* A step of one caller leaves the calls of the others alone.
LEMMA CallOnly ==
  ASSUME TypeOK, NEW c \in Caller, CallerStep(c) \/ CallerEvent(c)
  PROVE  \A d \in Caller : d # c => call'[d] = call[d]
<1> DEFINE Only == \A d \in Caller : d # c => call'[d] = call[d]
<1>1. call \in [Caller -> CallType]
  BY DEF TypeOK
<1>2. ASSUME NEW r, call' = [call EXCEPT ![c] = r] PROVE Only
  BY <1>1, <1>2
<1>3. ASSUME NEW l, GoOn(c, l) PROVE Only
  BY <1>1, <1>3 DEF GoOn
<1>4. ASSUME Return(c) PROVE Only
  BY <1>2, <1>4 DEF Return
<1>5. ASSUME NEW l, NEW x, call' = [call EXCEPT ![c].pc = l, ![c].op = x] PROVE Only
  BY <1>1, <1>5
<1>6. ASSUME NEW l, NEW x, call' = [call EXCEPT ![c].pc = l, ![c].wait = x] PROVE Only
  BY <1>1, <1>6
<1>7. CASE \/ CheckSeal(c) \/ AcceptClosed(c) \/ AcceptRefused(c)
           \/ WaitOver(c) \/ Register(c) \/ Recheck(c) \/ Resume(c) \/ GiveUp(c)
           \/ \E reason \in Reason : RequestClose(c, reason)
  <2>1. Return(c) \/ \E l : GoOn(c, l)
    BY <1>7, Zenon DEF CheckSeal, AcceptClosed, AcceptRefused, WaitOver, Register, Recheck,
       Resume, GiveUp, RequestClose
  <2> QED BY <1>3, <1>4, <2>1
<1>8. CASE \E k \in {"none", "capacity", "close"}, n \in Sizes \cup {0} : Call(c, k, n)
  BY <1>2, <1>8, Zenon DEF Call
<1>9. CASE AcceptEmpty(c)
  BY <1>5, <1>9, Zenon DEF AcceptEmpty
<1>10. CASE Accept(c)
  <2>1. \/ Return(c)
        \/ call' = [call EXCEPT ![c].pc = "wake", ![c].op = nextOp]
    BY <1>10, Zenon DEF Accept
  <2> QED BY <1>4, <1>5, <2>1, Zenon
<1>11. CASE Accepted(c)
  <2>1. \/ Return(c)
        \/ call' = [call EXCEPT ![c].pc = "check", ![c].wait = "op"]
    BY <1>11, Zenon DEF Accepted
  <2> QED BY <1>4, <1>6, <2>1, Zenon
<1> QED BY <1>7, <1>8, <1>9, <1>10, <1>11 DEF CallerStep, CallerEvent

\* A caller on its way to MarkDirty stays on it, or the owner is marked; a
\* caller that leaves something to do is on its way.
LEMMA WakingCaller ==
  ASSUME TypeOK, NEW c \in Caller, CallerStep(c) \/ CallerEvent(c)
  PROVE  /\ Waking => Waking'
         /\ Accept(c) => Waking' \/ UNCHANGED ops
         /\ AcceptEmpty(c) => Waking'
         /\ (\E reason \in Reason : RequestClose(c, reason)) => Waking'
<1>1. call \in [Caller -> CallType]
  BY DEF TypeOK
<1> DEFINE Marks == call'[c].pc = "wake"
<1>2. CASE Accepted(c)
  <2>1. dirty' = (dirty \/ ~sealed) /\ sealed' = sealed
    BY <1>2 DEF Accepted, WakeOwner
  <2>2. Waking'
    BY <2>1 DEF Waking
  <2>3. UNCHANGED stateVars
    BY <1>2 DEF Accepted
  <2> QED BY <2>2
<1>3. CASE \/ \E k \in {"none", "capacity", "close"}, n \in Sizes \cup {0} : Call(c, k, n)
           \/ CheckSeal(c) \/ AcceptClosed(c) \/ AcceptRefused(c) \/ AcceptEmpty(c) \/ Accept(c)
           \/ WaitOver(c) \/ Register(c) \/ Recheck(c) \/ Resume(c) \/ GiveUp(c)
           \/ \E reason \in Reason : RequestClose(c, reason)
  <2>1. UNCHANGED <<sealed, dirty>>
    BY <1>3, Zenon DEF Call, CheckSeal, AcceptClosed, AcceptRefused, AcceptEmpty, Accept,
       WaitOver, Register, Recheck, Resume, GiveUp, RequestClose
  <2>2. call[c].pc # "wake"
    BY <1>3 DEF Call, CheckSeal, AcceptClosed, AcceptRefused, AcceptEmpty, Accept, MayAccept,
       WaitOver, Register, Recheck, Resume, GiveUp, RequestClose
  <2>3. Waking => Waking'
    BY <2>1, <2>2, CallOnly DEF Waking
  <2>4. Accept(c) => Marks \/ UNCHANGED ops
    <3> SUFFICES ASSUME Accept(c) PROVE Marks \/ UNCHANGED ops
      OBVIOUS
    <3>1. \/ UNCHANGED ops
          \/ call' = [call EXCEPT ![c].pc = "wake", ![c].op = nextOp]
      BY Zenon DEF Accept
    <3>2. ASSUME call' = [call EXCEPT ![c].pc = "wake", ![c].op = nextOp] PROVE Marks
      <4>1. call[c] \in CallType
        BY <1>1
      <4> QED BY <1>1, <3>2, <4>1 DEF CallType
    <3> QED BY <3>1, <3>2
  <2>5. AcceptEmpty(c) => Marks
    BY <1>1 DEF AcceptEmpty
  <2>6. (\E reason \in Reason : RequestClose(c, reason)) => Marks
    BY <1>1 DEF RequestClose, GoOn
  <2>7. Marks => Waking'
    BY DEF Waking
  <2> HIDE DEF Marks
  <2> QED BY <2>3, <2>4, <2>5, <2>6, <2>7
<1> QED BY <1>2, <1>3 DEF CallerStep, CallerEvent

LEMMA TurnCaller ==
  ASSUME TypeOK, TurnKept, EndKept, NEW c \in Caller, CallerStep(c) \/ CallerEvent(c)
  PROVE  TurnKept'
<1>1. CASE Accept(c)
  <2>1. UNCHANGED <<pending, closeVars, ownerVars>>
    BY <1>1, Zenon DEF Accept
  <2>2. Waking' \/ (ops' = ops /\ (Waking => Waking'))
    BY <1>1, WakingCaller
  <2> QED BY <2>1, <2>2 DEF TurnKept, closeVars, ownerVars
<1>2. CASE AcceptEmpty(c) \/ \E reason \in Reason : RequestClose(c, reason)
  <2>1. UNCHANGED ownerVars /\ UNCHANGED ops
    BY <1>2 DEF AcceptEmpty, RequestClose, stateVars
  <2>2. Waking'
    BY <1>2, WakingCaller
  <2> QED BY <2>1, <2>2 DEF TurnKept, ownerVars
<1>3. CASE \/ \E k \in {"none", "capacity", "close"}, n \in Sizes \cup {0} : Call(c, k, n)
           \/ CheckSeal(c) \/ AcceptClosed(c) \/ AcceptRefused(c) \/ Accepted(c)
           \/ WaitOver(c) \/ Register(c) \/ Recheck(c) \/ Resume(c) \/ GiveUp(c)
  <2>1. UNCHANGED <<stateVars, closeVars, ownerVars>>
    BY <1>3, Zenon DEF Call, CheckSeal, AcceptClosed, AcceptRefused, Accepted,
       WaitOver, Register, Recheck, Resume, GiveUp
  <2>2. Waking => Waking'
    BY WakingCaller
  <2> QED BY <2>1, <2>2 DEF TurnKept, stateVars, closeVars, ownerVars
<1> QED BY <1>1, <1>2, <1>3 DEF CallerStep, CallerEvent

LEMMA TurnOwner ==
  ASSUME TypeOK, TurnKept, EndKept,
         PumpOwner \/ WriteReady \/ OwnerStep \/ Seal \/ SealOnOwner \/ CancelControl
  PROVE  TurnKept'
<1>1. CASE PumpOwner
  <2>1. UNCHANGED <<stateVars, closeVars, sealed, ringClosed, ownerClosed, call>>
    BY <1>1 DEF PumpOwner
  <2>2. ownerClosed => opc' = "idle" /\ ringClosed
    BY <1>1 DEF PumpOwner, EndKept
  <2>3. ~ownerClosed => opc' \in {"shutdown", "round"} /\ (opc' = "round" => ~closeRequested)
    BY <1>1 DEF PumpOwner, Shutdown, StartPump, Goto
  <2> QED BY <2>1, <2>2, <2>3 DEF TurnKept, Closing, stateVars, closeVars
<1>2. CASE WriteReady \/ SealOnOwner \/ CancelControl
  <2>1. /\ UNCHANGED <<stateVars, closeVars, sealed, ringClosed, ownerClosed, call>>
        /\ opc = "idle" /\ opc' \in {"shutdown", "round"} /\ (opc' = "round" => dirty' = dirty)
    BY <1>2 DEF WriteReady, SealOnOwner, CancelControl, Shutdown, StartPump, Goto
  <2> QED BY <2>1 DEF TurnKept, Waking, Closing, stateVars, closeVars
<1>3. CASE Round \/ Attribute \/ FailOne \/ Failed
  <2>1. /\ opc \in {"round", "attribute", "fail"} /\ opc' \in {"round", "attribute", "fail", "notify"}
        /\ UNCHANGED <<closeRequested, sealed, dirty, call, ownerRest>>
    BY <1>3 DEF Round, RoundSend, RoundAgain, RoundInterrupted, RoundFail, RoundsOver,
       UnlockPump, Attribute, FailOne, Failed, Goto, closeVars, stateVars
  <2>2. Waking' = Waking
    BY <2>1 DEF Waking
  <2>3. opc' = "attribute" => pump'.freed
    <3>1. CASE \E n \in 1..Allowed : RoundSend(n)
      BY <3>1 DEF RoundSend, TypeOK, PumpType
    <3>2. CASE Attribute
      <4>1. pump'.freed = pump.freed /\ opc = "attribute"
        BY <3>2 DEF Attribute, TypeOK, PumpType
      <4> QED BY <4>1 DEF TurnKept
    <3>3. CASE RoundAgain \/ RoundInterrupted \/ RoundsOver \/ RoundFail \/ FailOne \/ Failed
      BY <3>3 DEF RoundAgain, RoundInterrupted, RoundsOver, RoundFail, UnlockPump, FailOne,
         Failed, Goto
    <3> QED BY <1>3, <3>1, <3>2, <3>3 DEF Round
  <2> QED BY <2>1, <2>2, <2>3 DEF TurnKept, Closing, ownerRest
<1>4. CASE PumpNotify
  <2>1. /\ UNCHANGED <<closeRequested, ringClosed, sealed, call>> /\ (dirty => dirty')
        /\ opc = "notify" /\ opc' = "deliver"
    BY <1>4 DEF PumpNotify, WakeOwner, Goto, closeVars, ownerRest
  <2> QED BY <2>1 DEF TurnKept, Waking, Closing
<1>5. CASE Deliver \/ PopNotify
  <2>1. /\ UNCHANGED <<closeRequested, ringClosed, sealed, dirty, call>>
        /\ opc \in {"deliver", "popped"} /\ opc' \in {"deliver", "popped"}
    BY <1>5 DEF Deliver, PopNotify, Goto, closeVars, ownerRest
  <2> QED BY <2>1 DEF TurnKept, Waking, Closing
<1>6. CASE DeliverDone
  <2>1. /\ UNCHANGED <<closeRequested, ringClosed, sealed, dirty, call, pending>> /\ pending = <<>>
        /\ opc = "deliver" /\ opc' = (IF ringClosed THEN "onclose" ELSE "arm")
    BY <1>6 DEF DeliverDone, Goto, closeVars, ownerRest, stateVars
  <2> QED BY <2>1 DEF TurnKept, Waking, Closing
<1>7. CASE Arm
  <2>1. /\ UNCHANGED <<closeRequested, ringClosed, sealed, call, pending, ops, ownerClosed>>
        /\ opc = "arm" /\ opc' = "idle" /\ (dirty => dirty')
        /\ ops # <<>> => dirty' \/ sealed' \/ writeWaiting'
    BY <1>7 DEF Arm, WakeOwner, Goto, closeVars, stateVars
  <2>2. Waking => Waking'
    BY <2>1 DEF Waking
  <2>3. dirty' \/ sealed' => Waking'
    BY DEF Waking
  <2>4. ~ringClosed
    BY <2>1 DEF EndKept
  <2> QED BY <2>1, <2>2, <2>3, <2>4 DEF TurnKept, Closing
<1>8. CASE MarkClosed \/ SettleOne \/ Settled \/ PublishReadClosed
  <2>1. opc' \in {"settle", "publish", "announce"}
    BY <1>8 DEF MarkClosed, SettleOne, Settled, PublishReadClosed, Goto
  <2> QED BY <2>1 DEF TurnKept, Closing
<1>9. CASE Announce
  <2>1. ringClosed' /\ (opc' = "deliver" \/ (opc' = "idle" /\ ownerClosed'))
    BY <1>9 DEF Announce, Goto
  <2> QED BY <2>1 DEF TurnKept
<1>10. CASE OnClose
  <2>1. ringClosed' /\ opc' = "idle" /\ ownerClosed'
    BY <1>10 DEF OnClose, Goto, EndKept
  <2> QED BY <2>1 DEF TurnKept
<1>11. CASE Seal
  <2>1. sealed' /\ UNCHANGED <<opc, pump>>
    BY <1>11 DEF Seal, ownerVars
  <2>2. Waking'
    BY <2>1 DEF Waking
  <2> QED BY <2>1, <2>2 DEF TurnKept
<1> QED
  BY <1>1, <1>2, <1>3, <1>4, <1>5, <1>6, <1>7, <1>8, <1>9, <1>10, <1>11 DEF OwnerStep

-----------------------------------------------------------------------------
(***************************************************************************)
(* Waiters.  A sleeper is registered in its hub, and one that could go on  *)
(* has been notified unless a notification is due.                         *)
(***************************************************************************)
CallFine(c) ==
  /\ call[c].pc = "idle" => call[c].wait = "none"
  /\ call[c].pc \in {"check", "added", "parked"} => call[c].wait # "none"
  /\ \/ call[c].pc \in {"check", "added", "parked"} /\ call[c].wait = "op"
     \/ call[c].pc = "wake" /\ call[c].wait = "capacity"
     => call[c].op \in 1..(nextOp - 1)
  /\ call[c].pc \in {"added", "parked"} => c \in Hub(c)

CallsKept == \A c \in Caller : CallFine(c)

\* The next notification of the write hub is on the owner's way.
Due == \/ opc \in {"attribute", "fail", "settle", "popped", "publish", "announce"}
       \/ opc \in {"round", "notify"} /\ (pump.freed \/ pump.changed)

SleepersTold ==
  \A c \in Caller : call[c].pc = "parked" =>
    IF call[c].wait = "close" THEN ringClosed => c \in woken
    ELSE Ready(c) /\ ~Due => c \in woken

\* A call that is left alone stays fine.
LEMMA FineKept ==
  ASSUME TypeOK, nextOp' \in Nat, nextOp' >= nextOp, NEW c \in Caller, CallFine(c),
         call'[c] = call[c], c \in writeHub => c \in writeHub', c \in closeHub => c \in closeHub'
  PROVE  CallFine(c)'
<1>1. nextOp \in Nat
  BY StateConstants DEF TypeOK
<1>2. Hub(c)' = IF call[c].wait = "close" THEN closeHub' ELSE writeHub'
  BY DEF Hub
<1>3. c \in Hub(c) => c \in Hub(c)'
  BY <1>2 DEF Hub
<1>4. call[c].op \in 1..(nextOp - 1) => call[c].op \in 1..(nextOp' - 1)
  BY <1>1
<1> HIDE DEF Hub
<1> QED BY <1>3, <1>4 DEF CallFine

LEMMA CallsCaller ==
  ASSUME TypeOK, CallsKept, NEW c \in Caller, CallerStep(c) \/ CallerEvent(c)
  PROVE  CallsKept'
<1>1. call \in [Caller -> CallType] /\ CallFine(c) /\ nextOp \in Nat \ {0}
  BY StateConstants DEF TypeOK, CallsKept
<1>2. nextOp' \in Nat /\ nextOp' >= nextOp
  <2>1. nextOp' = nextOp \/ nextOp' = nextOp + 1
    BY Zenon DEF CallerStep, CallerEvent, Call, CheckSeal, AcceptClosed, AcceptRefused,
       AcceptEmpty, Accept, TakeId, Accepted, WaitOver, Register, Recheck, Resume, GiveUp,
       RequestClose, stateVars
  <2> QED BY <1>1, <2>1
<1>3. \A d \in Caller : d # c => /\ d \in writeHub => d \in writeHub'
                                 /\ d \in closeHub => d \in closeHub'
  <2>1. CASE Resume(c) \/ GiveUp(c)
    BY <2>1 DEF Resume, GiveUp, LeaveHub
  <2>2. CASE Register(c)
    BY <2>2 DEF Register
  <2>3. CASE \/ \E k \in {"none", "capacity", "close"}, n \in Sizes \cup {0} : Call(c, k, n)
             \/ CheckSeal(c) \/ AcceptClosed(c) \/ AcceptRefused(c) \/ AcceptEmpty(c) \/ Accept(c)
             \/ Accepted(c) \/ WaitOver(c) \/ Recheck(c)
             \/ \E reason \in Reason : RequestClose(c, reason)
    <3>1. UNCHANGED <<writeHub, closeHub>>
      BY <2>3, Zenon DEF Call, CheckSeal, AcceptClosed, AcceptRefused, AcceptEmpty, Accept,
         Accepted, WaitOver, Recheck, RequestClose, hubVars
    <3> QED BY <3>1
  <2> QED BY <2>1, <2>2, <2>3 DEF CallerStep, CallerEvent
<1>4. \A d \in Caller : d # c => CallFine(d)'
  BY <1>2, <1>3, CallOnly, FineKept DEF CallsKept
<1>5. CallFine(c)'
  <2>1. call[c] \in CallType
    BY <1>1
  <2>2. ASSUME Return(c) PROVE CallFine(c)'
    <3>1. call'[c] = NoCall
      BY <1>1, <2>2 DEF Return
    <3> QED BY <3>1 DEF CallFine, NoCall
  <2>3. \A l \in {"accept", "wake", "check", "seal", "added", "parked"} : GoOn(c, l) =>
          /\ call'[c].pc = l /\ call'[c].wait = call[c].wait /\ call'[c].op = call[c].op
    BY <1>1, <2>1 DEF GoOn, CallType
  <2>4. CASE \E k \in {"none", "capacity", "close"}, n \in Sizes \cup {0} : Call(c, k, n)
    <3>1. PICK k \in {"none", "capacity", "close"}, n \in Sizes \cup {0} : Call(c, k, n)
      BY <2>4
    <3>2. call'[c] = [pc |-> IF k = "close" THEN "check" ELSE "seal", want |-> n, wait |-> k, op |-> 0]
      BY <1>1, <3>1 DEF Call
    <3> QED BY <3>2 DEF CallFine
  <2>5. CASE CheckSeal(c) \/ AcceptClosed(c) \/ WaitOver(c) \/ GiveUp(c)
    <3>1. Return(c) \/ GoOn(c, "accept")
      BY <2>5 DEF CheckSeal, AcceptClosed, WaitOver, GiveUp
    <3>2. ASSUME GoOn(c, "accept") PROVE CallFine(c)'
      <4>1. call'[c].pc = "accept"
        BY <2>3, <3>2
      <4> QED BY <4>1 DEF CallFine
    <3> QED BY <2>2, <3>1, <3>2
  <2>6. CASE AcceptRefused(c)
    <3>1. Return(c) \/ (GoOn(c, "check") /\ call[c].wait = "capacity")
      BY <2>6 DEF AcceptRefused
    <3>2. ASSUME GoOn(c, "check"), call[c].wait = "capacity" PROVE CallFine(c)'
      <4>1. call'[c].pc = "check" /\ call'[c].wait = "capacity"
        BY <2>3, <3>2
      <4> QED BY <4>1 DEF CallFine
    <3> QED BY <2>2, <3>1, <3>2
  <2>7. CASE AcceptEmpty(c) \/ Accept(c)
    <3>1. /\ \/ Return(c)
             \/ call' = [call EXCEPT ![c].pc = "wake", ![c].op = nextOp]
          /\ nextOp' = nextOp + 1
      BY <2>7, Zenon DEF AcceptEmpty, Accept, TakeId
    <3>2. ASSUME call' = [call EXCEPT ![c].pc = "wake", ![c].op = nextOp] PROVE CallFine(c)'
      <4>1. call'[c].pc = "wake" /\ call'[c].op = nextOp
        BY <1>1, <2>1, <3>2 DEF CallType
      <4>2. nextOp \in 1..(nextOp' - 1)
        BY <1>1, <3>1
      <4> QED BY <4>1, <4>2 DEF CallFine
    <3> QED BY <2>2, <3>1, <3>2
  <2>8. CASE Accepted(c)
    <3>1. /\ nextOp' = nextOp /\ call[c].pc = "wake"
          /\ \/ Return(c)
             \/ /\ call[c].wait = "capacity"
                /\ call' = [call EXCEPT ![c].pc = "check", ![c].wait = "op"]
      BY <2>8 DEF Accepted, stateVars
    <3>2. ASSUME call[c].wait = "capacity", call' = [call EXCEPT ![c].pc = "check", ![c].wait = "op"]
          PROVE  CallFine(c)'
      <4>1. call'[c].pc = "check" /\ call'[c].wait = "op" /\ call'[c].op = call[c].op
        BY <1>1, <2>1, <3>2 DEF CallType
      <4>2. call[c].op \in 1..(nextOp' - 1)
        BY <1>1, <3>1, <3>2 DEF CallFine
      <4> QED BY <4>1, <4>2 DEF CallFine
    <3> QED BY <2>2, <3>1, <3>2
  <2>9. CASE Register(c)
    <3>1. /\ nextOp' = nextOp /\ call[c].pc = "check"
          /\ \/ Return(c)
             \/ /\ GoOn(c, "added")
                /\ c \in IF call[c].wait = "close" THEN closeHub' ELSE writeHub'
      BY <2>9 DEF Register, stateVars
    <3>2. ASSUME GoOn(c, "added"), c \in IF call[c].wait = "close" THEN closeHub' ELSE writeHub'
          PROVE  CallFine(c)'
      <4>1. call'[c].pc = "added" /\ call'[c].wait = call[c].wait /\ call'[c].op = call[c].op
        BY <2>3, <3>2
      <4>2. c \in Hub(c)'
        BY <3>2, <4>1 DEF Hub
      <4> QED BY <1>1, <3>1, <4>1, <4>2 DEF CallFine
    <3> QED BY <2>2, <3>1, <3>2
  <2>10. CASE Recheck(c)
    <3>1. /\ nextOp' = nextOp /\ call[c].pc = "added" /\ GoOn(c, "parked")
          /\ UNCHANGED <<writeHub, closeHub>>
      BY <2>10 DEF Recheck, stateVars
    <3>2. call'[c].pc = "parked" /\ call'[c].wait = call[c].wait /\ call'[c].op = call[c].op
      BY <2>3, <3>1
    <3>3. Hub(c)' = Hub(c)
      BY <3>1, <3>2 DEF Hub
    <3> QED BY <1>1, <3>1, <3>2, <3>3 DEF CallFine
  <2>11. CASE Resume(c)
    <3>1. /\ nextOp' = nextOp /\ call[c].pc = "parked"
          /\ GoOn(c, IF call[c].wait = "capacity" THEN "seal" ELSE "check")
      BY <2>11 DEF Resume, stateVars
    <3>2. /\ call'[c].pc = IF call[c].wait = "capacity" THEN "seal" ELSE "check"
          /\ call'[c].wait = call[c].wait /\ call'[c].op = call[c].op
      BY <2>3, <3>1
    <3> QED BY <1>1, <3>1, <3>2 DEF CallFine
  <2>12. CASE \E reason \in Reason : RequestClose(c, reason)
    <3>1. call[c].pc = "idle" /\ GoOn(c, "wake")
      BY <2>12 DEF RequestClose
    <3>2. call'[c].pc = "wake" /\ call'[c].wait = "none"
      BY <1>1, <2>3, <3>1 DEF CallFine
    <3> QED BY <3>2 DEF CallFine
  <2> QED
    BY <2>4, <2>5, <2>6, <2>7, <2>8, <2>9, <2>10, <2>11, <2>12 DEF CallerStep, CallerEvent
<1> QED BY <1>4, <1>5 DEF CallsKept

LEMMA CallsOwner ==
  ASSUME TypeOK, CallsKept,
         PumpOwner \/ WriteReady \/ OwnerStep \/ Seal \/ SealOnOwner \/ CancelControl
  PROVE  CallsKept' /\ UNCHANGED call /\ woken \subseteq woken'
<1>1. UNCHANGED <<nextOp, call, writeHub, closeHub>> /\ woken \subseteq woken'
  <2>1. CASE PumpOwner \/ WriteReady \/ Seal \/ SealOnOwner \/ CancelControl
    BY <2>1 DEF PumpOwner, WriteReady, Seal, SealOnOwner, CancelControl, stateVars, hubVars
  <2>2. CASE Round \/ Attribute \/ FailOne \/ Failed
    BY <2>2, Zenon DEF Round, RoundSend, RoundAgain, RoundInterrupted, RoundFail, RoundsOver,
       Attribute, FailOne, Failed, stateVars, hubVars
  <2>3. CASE PumpNotify \/ PopNotify \/ Announce
    BY <2>3 DEF PumpNotify, PopNotify, Announce, NotifyWriteHub, stateVars
  <2>4. CASE Deliver \/ DeliverDone \/ Arm \/ MarkClosed \/ SettleOne \/ Settled
             \/ PublishReadClosed \/ OnClose
    BY <2>4 DEF Deliver, DeliverDone, Arm, MarkClosed, SettleOne, Settled, PublishReadClosed,
       OnClose, stateVars, hubVars
  <2> QED BY <2>1, <2>2, <2>3, <2>4 DEF OwnerStep
<1>2. nextOp \in Nat
  BY StateConstants DEF TypeOK
<1> QED BY <1>1, <1>2, FineKept DEF CallsKept

\* A condition that does not come true in a step that opens nothing.
LEMMA ReadyKept ==
  ASSUME NEW c \in Caller, call'[c] = call[c],
         call[c].wait = "op" => (rec'[call[c].op].terminal => rec[call[c].op].terminal),
         acceptance' = acceptance \/ acceptance' = "Settling",
         sealed => sealed', closeRequested => closeRequested', OpsFull => OpsFull',
         BytesFull(call[c].want) => call'[c].want > OutboundMax - Q!TotalBytes'
  PROVE  Ready(c)' => Ready(c)
<1>1. call[c].wait # "op" /\ call[c].wait # "capacity" => (Ready(c)' => Ready(c))
  BY DEF Ready
<1>2. call[c].wait = "op" => (Ready(c)' => Ready(c))
  BY DEF Ready
<1>3. CanAcceptWrite(call[c].want)' => CanAcceptWrite(call[c].want)
  BY DEF CanAcceptWrite, BytesFull
<1> HIDE DEF CanAcceptWrite
<1>4. call[c].wait = "capacity" => (Ready(c)' => Ready(c))
  BY <1>3 DEF Ready
<1> QED BY <1>1, <1>2, <1>4

\* What leaves the books of the writes and of the close alone opens nothing.
LEMMA ReadySame ==
  ASSUME NEW c \in Caller, call'[c] = call[c], sealed => sealed',
         UNCHANGED <<stateVars, acceptance, closeRequested>>
  PROVE  Ready(c)' => Ready(c)
<1>1. UNCHANGED <<ops, pending, queue, rec>>
  BY DEF stateVars
<1>2. Q!TotalBytes' = Q!TotalBytes /\ (OpsFull => OpsFull')
  BY <1>1 DEF Q!TotalBytes, OpsFull
<1> QED BY <1>1, <1>2, ReadyKept DEF BytesFull

\* A step that wakes nobody keeps the sleepers told if a notification is due
\* after it, or if no sleeper's condition came true in it.
LEMMA ToldKept ==
  ASSUME SleepersTold, ringClosed' = ringClosed,
         \A c \in Caller : call'[c].pc = "parked" =>
           call'[c] = call[c] /\ (c \in woken => c \in woken'),
         \/ Due'
         \/ /\ Due => Due'
            /\ \A c \in Caller : call[c].pc = "parked" /\ call'[c] = call[c]
                                   => (Ready(c)' => Ready(c))
  PROVE  SleepersTold'
<1> SUFFICES ASSUME NEW c \in Caller, call'[c].pc = "parked"
             PROVE  IF call'[c].wait = "close" THEN ringClosed' => c \in woken'
                    ELSE Ready(c)' /\ ~Due' => c \in woken'
  BY DEF SleepersTold
<1>1. call'[c] = call[c] /\ (c \in woken => c \in woken') /\ call[c].pc = "parked"
  OBVIOUS
<1>2. /\ call[c].wait = "close" => (ringClosed => c \in woken)
      /\ call[c].wait # "close" => (Ready(c) /\ ~Due => c \in woken)
  BY <1>1 DEF SleepersTold
<1> HIDE DEF Ready, Due
<1>3. CASE call[c].wait = "close"
  BY <1>1, <1>2, <1>3
<1>4. CASE call[c].wait # "close"
  BY <1>1, <1>2, <1>4
<1> QED BY <1>1, <1>3, <1>4

LEMMA ToldCaller ==
  ASSUME TypeOK, TypeOK', Books, WriteInv, WriteInv', EndKept, CallsKept, SleepersTold,
         NEW c \in Caller, CallerStep(c) \/ CallerEvent(c)
  PROVE  SleepersTold'
<1>1. call \in [Caller -> CallType] /\ CallFine(c)
  BY DEF TypeOK, CallsKept
<1>2. \A d \in Caller : d # c => call'[d] = call[d]
  BY CallOnly
<1>3. CASE Accept(c) \/ AcceptEmpty(c)
  <2>1. UNCHANGED <<closeVars, ownerVars, sealed, hubVars>> /\ call[c].pc = "accept"
    BY <1>3, Zenon DEF Accept, AcceptEmpty, MayAccept
  <2>2. call'[c].pc # "parked"
    <3>1. Return(c) \/ call' = [call EXCEPT ![c].pc = "wake", ![c].op = nextOp]
      BY <1>3, Zenon DEF Accept, AcceptEmpty
    <3>2. CASE Return(c)
      BY <1>1, <3>2 DEF Return, NoCall
    <3>3. CASE call' = [call EXCEPT ![c].pc = "wake", ![c].op = nextOp]
      <4>1. call[c] \in CallType
        BY <1>1
      <4> QED BY <1>1, <3>3, <4>1 DEF CallType
    <3> QED BY <3>1, <3>2, <3>3
  <2>3. /\ \A id \in 1..(nextOp - 1) : rec'[id] = rec[id]
        /\ OpsFull => OpsFull'
        /\ Q!TotalBytes' >= Q!TotalBytes /\ Q!TotalBytes \in Nat /\ Q!TotalBytes' \in Nat
    <3>1. Q!TotalBytes \in Nat /\ Q!TotalBytes' \in Nat
      <4>1. (QP!QueueFine(queue) => Q!TotalBytes \in Nat)'
        BY QueueSizes, PTL
      <4> QED BY <4>1, QueueSizes DEF WriteInv, QueueGood
    <3>2. ~OpsFull
      BY <1>3, Zenon DEF Accept, AcceptEmpty
    <3>3. nextOp \in Nat /\ nextOp <= MaxWrites /\ MaxWrites \in Nat
      <4>1. nextOp <= MaxWrites
        BY <1>3, Zenon DEF Accept, AcceptEmpty, TakeId
      <4>2. nextOp \in 1..(MaxWrites + 1) /\ MaxWrites \in Nat
        BY StateConstants DEF TypeOK
      <4> QED BY <4>1, <4>2
    <3>4. \A id \in 1..(nextOp - 1) : rec'[id] = rec[id]
      <4>1. rec' = rec \/ \E r : rec' = [rec EXCEPT ![nextOp] = r]
        BY <1>3, Zenon DEF Accept, AcceptEmpty
      <4>2. \A id \in 1..(nextOp - 1) : id \in OpId /\ id # nextOp
        BY <3>3 DEF OpId
      <4> QED BY <4>1, <4>2 DEF TypeOK
    <3>5. Q!TotalBytes' >= Q!TotalBytes
      <4>1. CASE UNCHANGED queue
        BY <3>1, <4>1 DEF Q!TotalBytes
      <4>2. CASE queue' # queue
        <5> DEFINE data == [i \in 1..call[c].want |-> nextOp]
        <5>1. queue' = QP!QueueAppended(queue, data)
          <6>1. queue' = Q!QueueAppended(queue, data)
            BY <1>3, <4>2, Zenon DEF Accept, AcceptEmpty
          <6> QED BY <6>1, SameQueue
        <5>2. data \in Seq(OpId)
          <6>1. call[c].want \in Nat
            <7>1. call[c].want \in Sizes \cup {0}
              BY <1>1 DEF CallType
            <7>2. \A m \in Sizes \cup {0} : m \in Nat
              BY StateConstants
            <7> QED BY <7>1, <7>2, Zenon
          <6>2. nextOp \in OpId
            BY <3>3 DEF OpId, TypeOK
          <6> QED BY <6>1, <6>2
        <5> HIDE DEF data
        <5>3. /\ queue'.size + queue'.listBytes = (queue.size + queue.listBytes) + Len(data)
              /\ Len(data) \in Nat
          <6>1. QP!QueueFine(queue)
            BY DEF WriteInv, QueueGood
          <6> DEFINE r == QP!QueueAppended(queue, data)
          <6>2. /\ r.size + r.listBytes = (queue.size + queue.listBytes) + Len(data)
                /\ Len(data) \in Nat
            <7>1. Len(data) \in Nat
              BY <5>2
            <7> QED BY <5>2, <6>1, <7>1, QP!AppendedContent
          <6> QED BY <5>1, <6>2
        <5>4. (QP!QueueFine(queue) => Q!TotalBytes = queue.size + queue.listBytes)'
          BY QueueSizes, PTL
        <5>5. /\ Q!TotalBytes' = queue'.size + queue'.listBytes
              /\ Q!TotalBytes = queue.size + queue.listBytes
          BY <5>4, QueueSizes DEF WriteInv, QueueGood
        <5> QED BY <3>1, <5>3, <5>5
      <4> QED BY <4>1, <4>2
    <3> QED BY <3>1, <3>2, <3>4, <3>5
  <2>4. \A d \in Caller : call[d].pc = "parked" /\ call'[d] = call[d] => (Ready(d)' => Ready(d))
    <3> SUFFICES ASSUME NEW d \in Caller, call[d].pc = "parked", call'[d] = call[d]
                 PROVE  Ready(d)' => Ready(d)
      OBVIOUS
    <3>1. call[d].wait = "op" => rec'[call[d].op] = rec[call[d].op]
      BY <2>3 DEF CallsKept, CallFine
    <3>2. call[d].want \in Nat /\ OutboundMax \in Nat
      <4>1. call[d] \in CallType
        BY <1>1
      <4>2. call[d].want \in Sizes \cup {0}
        BY <4>1 DEF CallType
      <4>3. OutboundMax \in Nat /\ \A m \in Sizes \cup {0} : m \in Nat
        BY StateConstants
      <4> QED BY <4>2, <4>3, Zenon
    <3>3. BytesFull(call[d].want) => call'[d].want > OutboundMax - Q!TotalBytes'
      BY <2>3, <3>2 DEF BytesFull
    <3>4. acceptance' = acceptance /\ sealed' = sealed /\ closeRequested' = closeRequested
      BY <2>1 DEF closeVars
    <3> QED BY <2>3, <3>1, <3>3, <3>4, ReadyKept
  <2>5. Due' = Due /\ ringClosed' = ringClosed /\ woken' = woken
    BY <2>1 DEF Due, ownerVars, hubVars
  <2> QED BY <1>2, <2>2, <2>4, <2>5, ToldKept
<1>4. CASE \E reason \in Reason : RequestClose(c, reason)
  <2>1. /\ UNCHANGED <<stateVars, ownerVars, sealed, hubVars>> /\ closeRequested'
        /\ acceptance' = acceptance \/ acceptance' = "Settling"
        /\ call[c].pc = "idle" /\ GoOn(c, "wake")
    BY <1>4 DEF RequestClose
  <2>2. call'[c].pc # "parked"
    BY <1>1, <2>1 DEF GoOn, CallType
  <2>3. \A d \in Caller : call[d].pc = "parked" /\ call'[d] = call[d] => (Ready(d)' => Ready(d))
    <3>1. UNCHANGED <<ops, pending, queue, rec>>
      BY <2>1 DEF stateVars
    <3>2. Q!TotalBytes' = Q!TotalBytes /\ (OpsFull => OpsFull')
      BY <3>1 DEF Q!TotalBytes, OpsFull
    <3> QED BY <2>1, <3>1, <3>2, ReadyKept DEF BytesFull
  <2>4. Due' = Due /\ ringClosed' = ringClosed /\ woken' = woken
    BY <2>1 DEF Due, ownerVars, hubVars
  <2> QED BY <1>2, <2>2, <2>3, <2>4, ToldKept
<1>5. CASE \/ \E k \in {"none", "capacity", "close"}, n \in Sizes \cup {0} : Call(c, k, n)
           \/ CheckSeal(c) \/ AcceptClosed(c) \/ AcceptRefused(c) \/ Accepted(c)
           \/ WaitOver(c) \/ Register(c) \/ Resume(c) \/ GiveUp(c)
  <2>1. UNCHANGED <<stateVars, closeVars, ownerVars, sealed>>
    BY <1>5, Zenon DEF Call, CheckSeal, AcceptClosed, AcceptRefused, Accepted, WaitOver,
       Register, Resume, GiveUp
  <2>2. call'[c].pc # "parked"
    <3>1. \/ Return(c) \/ \E l \in {"accept", "check", "seal", "added"} : GoOn(c, l)
          \/ \E k \in {"none", "capacity", "close"}, n \in Sizes \cup {0} : Call(c, k, n)
          \/ call' = [call EXCEPT ![c].pc = "check", ![c].wait = "op"]
      <4>1. GoOn(c, IF call[c].wait = "capacity" THEN "seal" ELSE "check")
              => GoOn(c, "seal") \/ GoOn(c, "check")
        BY Zenon
      <4> QED BY <1>5, <4>1 DEF CheckSeal, AcceptClosed, AcceptRefused, Accepted, WaitOver,
             Register, Resume, GiveUp
    <3>2. call[c] \in CallType
      BY <1>1
    <3>3. CASE Return(c)
      BY <1>1, <3>3 DEF Return, NoCall
    <3>4. CASE \E l \in {"accept", "check", "seal", "added"} : GoOn(c, l)
      BY <1>1, <3>2, <3>4 DEF GoOn, CallType
    <3>5. CASE \E k \in {"none", "capacity", "close"}, n \in Sizes \cup {0} : Call(c, k, n)
      BY <1>1, <3>5 DEF Call
    <3>6. CASE call' = [call EXCEPT ![c].pc = "check", ![c].wait = "op"]
      BY <1>1, <3>2, <3>6 DEF CallType
    <3> QED BY <3>1, <3>3, <3>4, <3>5, <3>6
  <2>3. \A d \in Caller : d # c => (d \in woken => d \in woken')
    <3>1. CASE Resume(c) \/ GiveUp(c)
      BY <3>1 DEF Resume, GiveUp, LeaveHub
    <3>2. CASE Accepted(c)
      BY <3>2 DEF Accepted, NotifyWriteHub
    <3>3. CASE \/ \E k \in {"none", "capacity", "close"}, n \in Sizes \cup {0} : Call(c, k, n)
               \/ CheckSeal(c) \/ AcceptClosed(c) \/ AcceptRefused(c) \/ WaitOver(c) \/ Register(c)
      BY <3>3, Zenon DEF Call, CheckSeal, AcceptClosed, AcceptRefused, WaitOver, Register, hubVars
    <3> QED BY <1>5, <3>1, <3>2, <3>3
  <2>4. \A d \in Caller : call[d].pc = "parked" /\ call'[d] = call[d] => (Ready(d)' => Ready(d))
    BY <2>1, ReadySame DEF closeVars
  <2>5. Due' = Due /\ ringClosed' = ringClosed
    BY <2>1 DEF Due, ownerVars
  <2> QED BY <1>2, <2>2, <2>3, <2>4, <2>5, ToldKept
<1>6. CASE Recheck(c)
  <2>1. /\ UNCHANGED <<stateVars, closeVars, ownerVars, sealed>> /\ GoOn(c, "parked")
        /\ woken' = IF Ready(c) THEN woken \cup {c} ELSE woken
    BY <1>6 DEF Recheck
  <2>2. call'[c].pc = "parked" /\ call'[c].wait = call[c].wait /\ call'[c].want = call[c].want
        /\ call'[c].op = call[c].op
    <3>1. call[c] \in CallType
      BY <1>1
    <3> QED BY <1>1, <2>1, <3>1 DEF GoOn, CallType
  <2>3. Ready(c)' = Ready(c)
    <3>1. UNCHANGED <<ops, pending, queue, rec, acceptance, closeRequested, sealed>>
      BY <2>1 DEF stateVars, closeVars
    <3>2. Q!TotalBytes' = Q!TotalBytes
      BY <3>1 DEF Q!TotalBytes
    <3>3. CanAcceptWrite(call[c].want)' = CanAcceptWrite(call[c].want)
      BY <2>2, <3>1, <3>2 DEF CanAcceptWrite, OpsFull, BytesFull
    <3> QED BY <2>2, <3>1, <3>3 DEF Ready
  <2>4. Due' = Due /\ ringClosed' = ringClosed
    BY <2>1 DEF Due, ownerVars
  <2>5. call[c].wait = "close" /\ ringClosed => Ready(c)
    BY DEF Ready, EndKept
  <2>6. \A d \in Caller : call[d].pc = "parked" /\ call'[d] = call[d] => (Ready(d)' => Ready(d))
    BY <2>1, ReadySame DEF closeVars
  <2> SUFFICES ASSUME NEW d \in Caller, call'[d].pc = "parked"
               PROVE  IF call'[d].wait = "close" THEN ringClosed' => d \in woken'
                      ELSE Ready(d)' /\ ~Due' => d \in woken'
    BY DEF SleepersTold
  <2> HIDE DEF Ready, Due
  <2>7. CASE d = c
    BY <2>1, <2>2, <2>3, <2>4, <2>5, <2>7
  <2>8. CASE d # c
    <3>1. call'[d] = call[d] /\ call[d].pc = "parked" /\ (d \in woken => d \in woken')
      BY <1>2, <2>1, <2>8
    <3>2. /\ call[d].wait = "close" => (ringClosed => d \in woken)
          /\ call[d].wait # "close" => (Ready(d) /\ ~Due => d \in woken)
      BY <3>1 DEF SleepersTold
    <3>3. Ready(d)' => Ready(d)
      BY <2>6, <3>1
    <3> QED BY <2>4, <3>1, <3>2, <3>3
  <2> QED BY <2>7, <2>8
<1> QED BY <1>3, <1>4, <1>5, <1>6 DEF CallerStep, CallerEvent

LEMMA ToldOwner ==
  ASSUME TypeOK, TurnKept, CallsKept, SleepersTold,
         PumpOwner \/ WriteReady \/ OwnerStep \/ Seal \/ SealOnOwner \/ CancelControl
  PROVE  SleepersTold'
<1>1. call' = call /\ woken \subseteq woken'
  BY CallsOwner
<1>2. \A c \in Caller : call'[c].pc = "parked" =>
        call'[c] = call[c] /\ (c \in woken => c \in woken')
  BY <1>1
<1>3. ASSUME UNCHANGED <<stateVars, acceptance, closeRequested>>, sealed => sealed',
             Due => Due', ringClosed' = ringClosed
      PROVE  SleepersTold'
  BY <1>1, <1>2, <1>3, ReadySame, ToldKept
<1>4. ASSUME Due', ringClosed' = ringClosed
      PROVE  SleepersTold'
  BY <1>2, <1>4, ToldKept
<1>5. CASE PumpOwner \/ WriteReady \/ SealOnOwner \/ CancelControl
  <2>1. /\ UNCHANGED <<stateVars, acceptance, closeRequested>> /\ (sealed => sealed') /\ opc = "idle"
        /\ ringClosed' = ringClosed
    BY <1>5 DEF PumpOwner, WriteReady, SealOnOwner, CancelControl, closeVars
  <2>2. ~Due
    BY <2>1 DEF Due
  <2> QED BY <1>3, <2>1, <2>2
<1>6. CASE Seal
  <2>1. /\ UNCHANGED <<stateVars, acceptance, closeRequested>> /\ (sealed => sealed') /\ Due' = Due
        /\ ringClosed' = ringClosed
    BY <1>6 DEF Seal, closeVars, ownerVars, Due
  <2> QED BY <1>3, <2>1
<1>7. CASE RoundAgain \/ RoundInterrupted \/ RoundsOver
  <2>1. /\ UNCHANGED <<stateVars, acceptance, closeRequested, sealed, ringClosed>>
        /\ opc = "round" /\ opc' \in {"round", "notify"}
    BY <1>7 DEF RoundAgain, RoundInterrupted, RoundsOver, UnlockPump, Goto, closeVars, ownerRest
  <2>2. pump'.freed = pump.freed /\ (pump.changed => pump'.changed)
    BY <1>7 DEF RoundAgain, RoundInterrupted, RoundsOver, UnlockPump, TypeOK, PumpType
  <2>3. Due => Due'
    BY <2>1, <2>2 DEF Due
  <2> QED BY <1>3, <2>1, <2>3
<1>8. CASE (\E n \in 1..Allowed : RoundSend(n)) \/ RoundFail \/ Attribute \/ FailOne \/ Failed
  <2>1. ringClosed' = ringClosed
    BY <1>8, Zenon DEF RoundSend, RoundFail, Attribute, FailOne, Failed, ownerRest
  <2>2. Due'
    <3>1. CASE \E n \in 1..Allowed : RoundSend(n)
      <4>1. pump'.freed /\ opc' \in {"round", "attribute"}
        BY <3>1 DEF RoundSend, Goto, TypeOK, PumpType
      <4> QED BY <4>1 DEF Due
    <3>2. CASE RoundFail
      <4>1. opc' = "fail" \/ (opc' = "notify" /\ pump'.changed)
        BY <3>2 DEF RoundFail, Goto, TypeOK, PumpType
      <4> QED BY <4>1 DEF Due
    <3>3. CASE Attribute
      <4>1. opc' \in {"attribute", "round"} /\ pump'.freed = pump.freed /\ opc = "attribute"
        BY <3>3 DEF Attribute, Goto, TypeOK, PumpType
      <4> QED BY <4>1 DEF Due, TurnKept
    <3>4. CASE FailOne
      BY <3>4 DEF FailOne, Due
    <3>5. CASE Failed
      <4>1. opc' = "notify" /\ pump'.changed
        BY <3>5 DEF Failed, Goto, TypeOK, PumpType
      <4> QED BY <4>1 DEF Due
    <3> QED BY <1>8, <3>1, <3>2, <3>3, <3>4, <3>5
  <2> QED BY <1>4, <2>1, <2>2
<1>9. CASE Deliver \/ MarkClosed \/ SettleOne \/ Settled \/ PublishReadClosed
  <2>1. Due' /\ ringClosed' = ringClosed
    BY <1>9 DEF Deliver, MarkClosed, SettleOne, Settled, PublishReadClosed, Goto, Due, ownerRest
  <2> QED BY <1>4, <2>1
<1>10. CASE DeliverDone \/ Arm \/ OnClose
  <2>1. /\ UNCHANGED <<stateVars, acceptance, closeRequested, sealed, ringClosed>>
        /\ opc \in {"deliver", "arm", "onclose"}
    BY <1>10 DEF DeliverDone, Arm, OnClose, closeVars, ownerRest
  <2>2. ~Due
    BY <2>1 DEF Due
  <2> QED BY <1>3, <2>1, <2>2
<1>11. CASE PumpNotify
  <2>1. CASE pump.changed \/ pump.freed
    <3>1. woken' = woken \cup writeHub /\ ringClosed' = ringClosed
      BY <1>11, <2>1 DEF PumpNotify, NotifyWriteHub, ownerRest
    <3> QED BY <1>1, <3>1 DEF SleepersTold, CallsKept, CallFine, Hub
  <2>2. CASE ~(pump.changed \/ pump.freed)
    <3>1. /\ UNCHANGED <<stateVars, acceptance, closeRequested, sealed, ringClosed>>
          /\ opc = "notify"
      BY <1>11 DEF PumpNotify, closeVars, ownerRest
    <3>2. ~Due
      BY <2>2, <3>1 DEF Due
    <3> QED BY <1>3, <3>1, <3>2
  <2> QED BY <2>1, <2>2
<1>12. CASE PopNotify
  <2>1. woken' = woken \cup writeHub /\ ringClosed' = ringClosed
    BY <1>12 DEF PopNotify, NotifyWriteHub, ownerRest
  <2> QED BY <1>1, <2>1 DEF SleepersTold, CallsKept, CallFine, Hub
<1>13. CASE Announce
  <2>1. woken' = woken \cup writeHub \cup closeHub
    BY <1>13 DEF Announce
  <2> QED BY <1>1, <2>1 DEF SleepersTold, CallsKept, CallFine, Hub
<1> QED
  BY <1>5, <1>6, <1>7, <1>8, <1>9, <1>10, <1>11, <1>12, <1>13 DEF OwnerStep, Round

-----------------------------------------------------------------------------
(***************************************************************************)
(* Theorems.                                                               *)
(***************************************************************************)
\* No step of a caller, of the owner or of the control domain breaks the
\* types or the books.
LEMMA StepKeepsBooks ==
  ASSUME TypeOK, Books, [Next]_vars
  PROVE  TypeOK' /\ Books'
<1>1. CASE \E c \in Caller : CallerStep(c) \/ CallerEvent(c)
  BY <1>1, TypeCaller, BooksCaller
<1>2. CASE PumpOwner \/ WriteReady \/ OwnerStep \/ Seal \/ SealOnOwner \/ CancelControl
  BY <1>2, TypeOwner, BooksOwner DEF Books
<1>3. CASE UNCHANGED vars
  <2>1. Books'
    BY <1>3, BooksUntouched DEF Books, SomethingToCredit, vars, stateVars, ownerVars
  <2>2. TypeOK'
    BY <1>3 DEF TypeOK, vars, stateVars, closeVars, ownerVars, hubVars
  <2> QED BY <2>1, <2>2
<1> QED BY <1>1, <1>2, <1>3 DEF Next

\* The inductive invariant holds in every state of every behaviour.
THEOREM BooksAlways == Spec => [](TypeOK /\ Books)
<1>1. Init => TypeOK /\ Books
  BY TypeInit, BooksInit
<1>2. (TypeOK /\ Books) /\ [Next]_vars => (TypeOK /\ Books)'
  BY StepKeepsBooks
<1> QED BY <1>1, <1>2, PTL DEF Spec

\* The members of ConnectionState and ConnCore always have their types.
THEOREM TypeCorrect == Spec => []TypeOK
BY BooksAlways, PTL

\* Unfinished and undelivered writes together never exceed max_ops, so
\* push_back never overwrites a completion in m_pending_terminal.
THEOREM NoCompletionOverwritten == Spec => []ResponsibilityBounded
<1>1. TypeOK /\ Books => ResponsibilityBounded
  BY DEF Books
<1> QED BY <1>1, BooksAlways, PTL

\* Every write AcceptWrite took is in exactly one place until OnWrite has been
\* called for it, and OnWrite is called at most once.
THEOREM EveryWriteOnce == Spec => []ExactlyOnce
<1>1. TypeOK /\ Books => ExactlyOnce
  BY DEF Books
<1> QED BY <1>1, BooksAlways, PTL

\* A write that ends without an error was sent to the last byte.
THEOREM SuccessMeansSent == Spec => []DoneMeansSent
<1>1. TypeOK /\ Books => DoneMeansSent
  BY DEF Books
<1> QED BY <1>1, BooksAlways, PTL

\* The first close request fixes the reason for good: of all the steps only
\* RequestClose and MarkClosed touch it, and both keep a reason once given.
THEOREM ReasonIsFixed == Spec => FirstReasonWins
<1> DEFINE Keep == closeRequested => closeRequested' /\ closeReason' = closeReason
<1>1. ASSUME Next PROVE Keep
  <2>1. ASSUME NEW c \in Caller, CallerStep(c) \/ CallerEvent(c) PROVE Keep
    <3>1. CASE \E reason \in Reason : RequestClose(c, reason)
      BY <3>1 DEF RequestClose
    <3>2. CASE CallerStep(c)
      BY <3>2, Zenon DEF CallerStep, CheckSeal, AcceptClosed, AcceptRefused, AcceptEmpty, Accept,
         Accepted, WaitOver, Register, Recheck, Resume, closeVars
    <3>3. CASE GiveUp(c) \/ \E k \in {"none", "capacity", "close"}, n \in Sizes \cup {0} :
                              Call(c, k, n)
      BY <3>3 DEF GiveUp, Call, closeVars
    <3> QED BY <2>1, <3>1, <3>2, <3>3 DEF CallerEvent
  <2>2. CASE MarkClosed
    BY <2>2 DEF MarkClosed
  <2>3. CASE Round \/ Attribute \/ FailOne \/ Failed \/ PumpNotify
    BY <2>3, Zenon DEF Round, RoundSend, RoundAgain, RoundInterrupted, RoundFail, RoundsOver,
       Attribute, FailOne, Failed, PumpNotify, closeVars
  <2>4. CASE Deliver \/ PopNotify \/ DeliverDone \/ Arm \/ SettleOne \/ Settled
               \/ PublishReadClosed \/ Announce \/ OnClose
    BY <2>4 DEF Deliver, PopNotify, DeliverDone, Arm, SettleOne, Settled, PublishReadClosed,
       Announce, OnClose, closeVars
  <2>5. CASE PumpOwner \/ WriteReady \/ Seal \/ SealOnOwner \/ CancelControl
    BY <2>5 DEF PumpOwner, WriteReady, Seal, SealOnOwner, CancelControl, closeVars
  <2> QED BY <1>1, <2>1, <2>2, <2>3, <2>4, <2>5 DEF Next, OwnerStep
<1>2. [Next]_vars => [Keep]_vars
  BY <1>1
<1> QED BY <1>2, PTL DEF Spec, FirstReasonWins

-----------------------------------------------------------------------------
(***************************************************************************)
(* All of it is inductive.                                                 *)
(***************************************************************************)
Exact == /\ TypeOK /\ Books /\ WriteInv /\ EndKept
         /\ TurnKept /\ CallsKept /\ SleepersTold

LEMMA ExactInit == Init => Exact
<1> SUFFICES ASSUME Init PROVE Exact
  OBVIOUS
<1>1. /\ ops = <<>> /\ pending = <<>> /\ opc = "idle" /\ closeRequested = FALSE
      /\ ringClosed = FALSE /\ ownerClosed = FALSE /\ onClose = <<>>
      /\ call = [c \in Caller |-> NoCall]
  BY Zenon DEF Init
<1>2. TypeOK /\ Books /\ WriteInv
  BY TypeInit, BooksInit, WriteInit
<1>3. EndKept
  BY <1>1 DEF EndKept
<1>4. TurnKept
  BY <1>1 DEF TurnKept, Closing
<1>5. \A c \in Caller : call[c] = NoCall
  BY <1>1
<1>6. CallsKept /\ SleepersTold
  BY <1>5 DEF CallsKept, CallFine, SleepersTold, NoCall
<1> QED BY <1>2, <1>3, <1>4, <1>6 DEF Exact

LEMMA ExactStep ==
  ASSUME Exact, [Next]_vars
  PROVE  Exact'
<1>1. /\ TypeOK /\ Books /\ WriteInv /\ EndKept
      /\ TurnKept /\ CallsKept /\ SleepersTold
  BY DEF Exact
<1>2. TypeOK' /\ Books'
  BY <1>1, StepKeepsBooks
<1>3. CASE \E c \in Caller : CallerStep(c) \/ CallerEvent(c)
  <2>1. PICK c \in Caller : CallerStep(c) \/ CallerEvent(c)
    BY <1>3
  <2>2. WriteInv'
    BY <1>1, <1>2, <2>1, WriteCaller
  <2>3. EndKept' /\ TurnKept'
    BY <1>1, <2>1, EndCaller, TurnCaller
  <2>4. CallsKept' /\ SleepersTold'
    BY <1>1, <1>2, <2>1, <2>2, CallsCaller, ToldCaller
  <2> QED BY <1>2, <2>2, <2>3, <2>4 DEF Exact
<1>4. CASE PumpOwner \/ WriteReady \/ OwnerStep \/ Seal \/ SealOnOwner \/ CancelControl
  <2>1. WriteInv'
    BY <1>1, <1>2, <1>4, WriteOwner
  <2>2. EndKept' /\ TurnKept'
    BY <1>1, <1>4, EndOwner, TurnOwner
  <2>3. CallsKept' /\ SleepersTold'
    BY <1>1, <1>4, CallsOwner, ToldOwner
  <2> QED BY <1>2, <2>1, <2>2, <2>3 DEF Exact
<1>5. CASE UNCHANGED vars
  <2>1. /\ UNCHANGED <<ops, pending, queue, rec, nextOp>>
        /\ UNCHANGED <<acceptance, closeRequested, closeReason>>
        /\ UNCHANGED <<sealed, dirty, opc, pump, writeWaiting, ringClosed, ownerClosed, onClose>>
        /\ UNCHANGED <<call, writeHub, closeHub, woken>>
    BY <1>5 DEF vars, stateVars, closeVars, ownerVars, hubVars
  <2>2. WriteInv'
    BY <1>1, <1>2, <2>1, WriteUntouched
  <2>3. EndKept' /\ TurnKept'
    BY <1>1, <2>1 DEF EndKept, TurnKept, Waking
  <2>4. CallsKept'
    BY <1>1, <2>1 DEF CallsKept, CallFine, Hub
  <2>5. SleepersTold'
    <3>1. UNCHANGED <<stateVars, acceptance, closeRequested>> /\ (sealed => sealed') /\ Due' = Due
      BY <2>1 DEF stateVars, Due
    <3>2. \A c \in Caller : Ready(c)' => Ready(c)
      BY <2>1, <3>1, ReadySame
    <3> QED BY <1>1, <2>1, <3>1, <3>2, ToldKept
  <2> QED BY <1>2, <2>2, <2>3, <2>4, <2>5 DEF Exact
<1> QED BY <1>3, <1>4, <1>5 DEF Next

\* The stronger invariant holds in every state of every behaviour.
THEOREM ConnectionExact == Spec => []Exact
<1>1. Init => Exact
  BY ExactInit
<1>2. Exact /\ [Next]_vars => Exact'
  BY ExactStep
<1> QED BY <1>1, <1>2, PTL DEF Spec

\* Every byte in m_queue belongs, in order, to the unfinished writes; the queue
\* takes what AcceptWrite let through; and OnClose comes once, last, and with
\* the reason of the close.
THEOREM WritesAreExact == Spec => []WritesExact
<1>1. Exact => WritesExact
  <2> SUFFICES ASSUME Exact PROVE WritesExact
    OBVIOUS
  <2>1. TypeOK /\ Books /\ WriteInv /\ EndKept
    BY DEF Exact
  <2>2. AttributionExact
    BY <2>1 DEF WriteInv, Attributed, Even, AttributionExact
  <2>3. AppendNeverRefuses
    <3> SUFFICES ASSUME NEW n \in Sizes \ {0}, Free, ~OpsFull, ~BytesFull(n)
                 PROVE  Q!AppendAccepted([i \in 1..n |-> nextOp])
      BY DEF AppendNeverRefuses
    <3>1. QueueGood /\ Even
      BY <2>1 DEF WriteInv, Attributed, Free, Locked
    <3> QED BY <2>1, <3>1, AppendTaken
  <2>4. OnCloseIsLast
    <3> SUFFICES ASSUME onClose # <<>>
                 PROVE  /\ Len(onClose) = 1 /\ onClose[1] = closeReason
                        /\ IdsOf(delivered) = Taken
      BY DEF OnCloseIsLast
    <3>1. /\ Len(onClose) = 1 /\ onClose[1] = closeReason
          /\ ops = <<>> /\ pending = <<>>
      BY <2>1 DEF EndKept
    <3>2. SeqSet(ops) = {} /\ IdsOf(pending) = {}
      BY <3>1 DEF SeqSet, IdsOf
    <3>3. SeqSet(ops) \cup IdsOf(pending) \cup IdsOf(delivered) = Taken
      BY <2>1 DEF Books, ExactlyOnce
    <3> QED BY <3>1, <3>2, <3>3
  <2> QED BY <2>2, <2>3, <2>4 DEF WritesExact
<1> QED BY <1>1, ConnectionExact, PTL

\* No owner sleeps on work, and no waiter sleeps on a condition that holds
\* unless its notification is on the way.
THEOREM NobodyIsForgotten == Spec => []NobodyForgotten
<1>1. Exact => NobodyForgotten
  <2> SUFFICES ASSUME Exact PROVE NobodyForgotten
    OBVIOUS
  <2>1. EndKept /\ TurnKept /\ SleepersTold
    BY DEF Exact
  <2>2. NeverStranded
    <3>1. opc = "idle" /\ Waking => OwnerWillRun
      BY DEF Waking, OwnerWillRun
    <3>2. opc # "idle" => OwnerWillRun
      BY DEF OwnerWillRun
    <3> HIDE DEF Waking, OwnerWillRun
    <3> QED BY <2>1, <3>1, <3>2 DEF EndKept, TurnKept, Closing, NeverStranded
  <2>3. NoLostWakeup
    <3> SUFFICES ASSUME NEW c \in Caller, call[c].pc = "parked", Ready(c)
                 PROVE  c \in woken \/ NotifyComing(c)
      BY DEF NoLostWakeup
    <3>1. Due => NotifyComing(c)
      BY DEF Due, NotifyComing, Locked
    <3>2. CASE call[c].wait = "close"
      BY <2>1, <3>2 DEF SleepersTold, NotifyComing
    <3>3. CASE call[c].wait # "close"
      BY <2>1, <3>1, <3>3 DEF SleepersTold
    <3> QED BY <3>2, <3>3
  <2> QED BY <2>2, <2>3 DEF NobodyForgotten
<1> QED BY <1>1, ConnectionExact, PTL
=============================================================================
